------------------------------ MODULE Receipts ------------------------------
(***************************************************************************)
(* Messages the firm sends on WhatsApp and what Meta says became of them   *)
(* (packages/modules/whatsapp: SendMessage, reply, RecordDelivery).        *)
(*                                                                         *)
(* The row is written before the message goes out, and again with Meta's   *)
(* id when Meta has accepted it. Meta's receipts name that id; they arrive *)
(* late, twice and in any order, and each is applied by reading the row    *)
(* and saving the copy, outside any transaction.                           *)
(***************************************************************************)
EXTENDS Naturals

CONSTANTS
    Sendings,    \* messages the firm sends
    Callbacks,   \* receipts being applied at once
    NoSending    \* a callback with nothing in hand

ASSUME ReceiptsAssumption == NoSending \notin Sendings

VARIABLES
    serial,      \* TRUE: no two receipts of one message are applied at once
    \* table whatsapp_messages, the outbound rows
    shown,       \* status, "none" until the row exists
    known,       \* those whose provider_message_id is set
    \* Meta
    happened,    \* what has become of each message: the statuses it has had
    \* the sender's Message object, before it is saved
    sender,
    \* the receipt of each callback, and its Message object
    about,
    reads,
    reports

receiptsVars == <<serial, shown, known, happened, sender, about, reads, reports>>

Statuses == {"sent", "delivered", "read", "failed"}

\* PROGRESS.
Progress(s) ==
    CASE s = "none" -> 0 [] s = "queued" -> 1 [] s = "sent" -> 2
      [] s = "delivered" -> 3 [] s = "read" -> 4 [] s = "failed" -> 5

\* advanceTo: forwards only, and failed from wherever it happens.
MutAdvanced(from, to) == to
Advanced(from, to) == IF Progress(to) > Progress(from) THEN to ELSE from

MutWriteDown(m) ==
    /\ shown[m] = "none" /\ sender[m] = "none"
    /\ sender' = [sender EXCEPT ![m] = "queued"]
    /\ UNCHANGED <<serial, shown, known, happened, about, reads, reports>>

\* Message.queued and store.
WriteDown(m) ==
    /\ shown[m] = "none"
    /\ shown' = [shown EXCEPT ![m] = "queued"]
    /\ sender' = [sender EXCEPT ![m] = "queued"]
    /\ UNCHANGED <<serial, known, happened, about, reads, reports>>

\* sendText: Meta takes the message or does not. An error may come after it
\* was taken.
HandToMeta(m) ==
    /\ sender[m] = "queued"
    /\ \/ /\ happened' = [happened EXCEPT ![m] = {"sent"}]
          /\ \E answer \in {"sent", "failed"} : sender' = [sender EXCEPT ![m] = answer]
       \/ /\ sender' = [sender EXCEPT ![m] = "failed"]
          /\ UNCHANGED happened
    /\ UNCHANGED <<serial, shown, known, about, reads, reports>>

MutSaveSending(m) ==
    /\ sender[m] \in {"sent", "failed"}
    /\ shown' = [shown EXCEPT ![m] = Advanced("queued", sender[m])]
    /\ known' = known \cup {m}
    /\ sender' = [sender EXCEPT ![m] = "done"]
    /\ UNCHANGED <<serial, happened, about, reads, reports>>

\* accepted, or advanceTo failed, and save.
SaveSending(m) ==
    /\ sender[m] \in {"sent", "failed"}
    /\ shown' = [shown EXCEPT ![m] = Advanced("queued", sender[m])]
    /\ known' = IF sender[m] = "sent" THEN known \cup {m} ELSE known
    /\ sender' = [sender EXCEPT ![m] = "done"]
    /\ UNCHANGED <<serial, happened, about, reads, reports>>

\* The process dies while it sends: the row stays as it was.
SenderDies(m) ==
    /\ sender[m] \in {"queued", "sent", "failed"}
    /\ sender' = [sender EXCEPT ![m] = "done"]
    /\ UNCHANGED <<serial, shown, known, happened, about, reads, reports>>

\* What becomes of a message Meta has taken.
BecomesOf(m) ==
    /\ happened[m] # {} /\ "failed" \notin happened[m]
    /\ \E s \in {"delivered", "read", "failed"} \ happened[m] :
          /\ s = "read" => "delivered" \in happened[m]
          /\ s = "failed" => "read" \notin happened[m]
          /\ happened' = [happened EXCEPT ![m] = @ \cup {s}]
    /\ UNCHANGED <<serial, shown, known, sender, about, reads, reports>>

\* findByProviderId. A receipt of a message whose id is not saved yet is
\* counted as unknown and dropped, which changes nothing.
ReadReceipt(w, m, s) ==
    /\ about[w] = NoSending
    /\ s \in happened[m] /\ m \in known
    /\ serial => \A v \in Callbacks : about[v] # m
    /\ about' = [about EXCEPT ![w] = m]
    /\ reads' = [reads EXCEPT ![w] = shown[m]]
    /\ reports' = [reports EXCEPT ![w] = s]
    /\ UNCHANGED <<serial, shown, known, happened, sender>>

\* advanceTo, and save if that changed the status.
ApplyReceipt(w) ==
    /\ about[w] # NoSending
    /\ shown' = IF Advanced(reads[w], reports[w]) = reads[w] THEN shown
                ELSE [shown EXCEPT ![about[w]] = Advanced(reads[w], reports[w])]
    /\ about' = [about EXCEPT ![w] = NoSending]
    /\ reads' = [reads EXCEPT ![w] = "none"]
    /\ reports' = [reports EXCEPT ![w] = "none"]
    /\ UNCHANGED <<serial, known, happened, sender>>

ReceiptsInit ==
    /\ serial \in BOOLEAN
    /\ shown = [m \in Sendings |-> "none"]
    /\ known = {}
    /\ happened = [m \in Sendings |-> {}]
    /\ sender = [m \in Sendings |-> "none"]
    /\ about = [w \in Callbacks |-> NoSending]
    /\ reads = [w \in Callbacks |-> "none"]
    /\ reports = [w \in Callbacks |-> "none"]

Sends(m) == WriteDown(m) \/ HandToMeta(m) \/ SaveSending(m)

ReceiptsNext ==
    \/ \E m \in Sendings : Sends(m) \/ SenderDies(m) \/ BecomesOf(m)
    \/ \E w \in Callbacks :
          \/ \E m \in Sendings, s \in Statuses : ReadReceipt(w, m, s)
          \/ ApplyReceipt(w)

ReceiptsSpec == ReceiptsInit /\ [][ReceiptsNext]_receiptsVars

(***************************************************************************)

\* Everything is of its type, and the id of a message came from Meta.
ReceiptsTypeOK ==
    /\ serial \in BOOLEAN
    /\ shown \in [Sendings -> Statuses \cup {"none", "queued"}]
    /\ known \subseteq {m \in Sendings : "sent" \in happened[m]}
    /\ happened \in [Sendings -> SUBSET Statuses]
    /\ sender \in [Sendings -> {"none", "queued", "sent", "failed", "done"}]
    /\ about \in [Callbacks -> Sendings \cup {NoSending}]
    /\ reads \in [Callbacks -> Statuses \cup {"none", "queued"}]
    /\ reports \in [Callbacks -> Statuses \cup {"none"}]

\* Receipts in any order and any number of times never move a message
\* backwards, and a failure stands, as long as two receipts of one message
\* are not applied at once.
ForwardsOnly ==
    [][serial => \A m \in Sendings : Progress(shown'[m]) >= Progress(shown[m])]_receiptsVars

\* What Meta was handed is written down, even if the sender died, and no
\* message is shown delivered or read that was not: "the whole point of the
\* channel is being able to show the client was asked"; and a status moves only
\* forwards.
ReceiptsTellTrue ==
    /\ []ReceiptsTypeOK
    /\ [](\A m \in Sendings :
           /\ happened[m] # {} => shown[m] # "none"
           /\ shown[m] \in {"sent", "delivered", "read"} => shown[m] \in happened[m])
    /\ ForwardsOnly
=============================================================================
