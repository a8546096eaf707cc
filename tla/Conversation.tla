----------------------------- MODULE Conversation -----------------------------
(***************************************************************************)
(* One client's number on WhatsApp (packages/modules/whatsapp): Meta       *)
(* delivers what the client writes to a webhook, a bot answers it or hands *)
(* the conversation to a member of staff, and staff write, take over, hand *)
(* back and say whose number it is.                                        *)
(*                                                                         *)
(* Nothing here runs in a transaction. Each handler reads the conversation *)
(* row, works on that copy through several awaits and saves the whole of   *)
(* it: the last save wins. Meta retries what it believes failed, and the   *)
(* webhook answers 200 whatever became of the messages it was given.       *)
(*                                                                         *)
(* A message is what readIntent and its kind make of it. Left out: what    *)
(* the bot last asked (it only widens what is understood), languages, the  *)
(* contact log, the 24 hours of the service window (all of this happens    *)
(* within them), and asTemplate and close, which have no caller.           *)
(***************************************************************************)
EXTENDS Naturals, FiniteSets

CONSTANTS
    Messages,       \* Meta's ids of the messages the client writes
    Kinds,          \* what they may say
    RacingKinds,    \* bound: what they say while handlers do not take turns
    Webhooks,       \* deliveries being handled at once; also the ids they mint
    Members,        \* members of staff
    Accountant,     \* who staff.forClient picks for a client, or Nobody
    OnDuty,         \* who staff.onDuty picks, or Nobody
    Nobody,
    NoId,           \* no conversation stored for the number
    NoMessage,
    MaxCrashes,     \* bound on processes dying while they handle a message
    MaxActs,        \* bound on what staff do while handlers take turns
    RacingActs      \* and while they do not

\* The meanings whose words a message may carry, in either language: WORDS.
Words == {"start", "stop", "human", "documents", "deadlines", "greeting", "thanks"}

\* readIntent: the first of ORDER whose words are there. The four questions the
\* bot answers itself are one here, and a number answering its menu means one of
\* those or a person.
ReadIntent(carries) ==
    CASE "start" \in carries -> "start"
      [] "start" \notin carries /\ "stop" \in carries -> "stop"
      [] carries \cap {"start", "stop"} = {} /\ "human" \in carries -> "person"
      [] carries = {} -> "unclear"
      [] OTHER -> "question"

\* What readMessage of the webhook makes of the types Meta sends.
Types == {"text", "interactive", "image", "document", "audio", "video",
          "sticker", "location", "contacts", "unsupported"}

\* What the handler goes by: an image or a document is a file, whose caption
\* counts when it asks to stop; what is neither that nor text nobody can read.
Reading(type, carries) ==
    CASE type \in {"text", "interactive"} \/ ReadIntent(carries) = "stop" -> ReadIntent(carries)
      [] type \in {"image", "document"} /\ ReadIntent(carries) # "stop" -> "file"
      [] OTHER -> "voice"

ASSUME ConversationAssumption ==
    /\ Kinds \subseteq {Reading(type, carries) : type \in Types, carries \in SUBSET Words}
    /\ RacingKinds \subseteq Kinds
    /\ Accountant \in Members \cup {Nobody} /\ OnDuty \in Members \cup {Nobody}
    /\ Webhooks \cap Members = {}
    /\ Nobody \notin Members /\ NoId \notin Webhooks /\ NoMessage \notin Messages
    /\ MaxCrashes \in Nat /\ MaxActs \in Nat /\ RacingActs \in 0 .. MaxActs

VARIABLES
    orderly,        \* TRUE: no two handlers of the conversation are ever in flight together
    listed,         \* whether the number is a client's in the directory
    \* table whatsapp_conversations: the row of this number
    row,
    \* the rows of whatsapp_messages that came in
    held,
    \* what Meta knows
    said,           \* of each message: not written, what it says, or answered 200
    \* handlers
    at,
    copy,
    handles,
    says,           \* what the message in hand says
    did,            \* what the bot has done about it
    \* what happened, for the properties
    decided,        \* how many times the bot decided what to do about a message
    crashes,
    acts

conversationVars ==
    <<orderly, listed, row, held, said, at, copy, handles, says, did, decided, crashes, acts>>

Handlers == Webhooks \cup Members

Handling == {"bot", "human", "closed"}

Rows == [id : Webhooks \cup {NoId}, matched : BOOLEAN, handling : Handling,
         assigned : Members \cup {Nobody}, streak : 0 .. 2, optedOut : BOOLEAN, wrote : BOOLEAN]

\* No conversation, and what a handler at rest has in memory.
NoRow == [id |-> NoId, matched |-> FALSE, handling |-> "bot", assigned |-> Nobody,
          streak |-> 0, optedOut |-> FALSE, wrote |-> FALSE]

\* Conversation.start.
Started(id, known) == [NoRow EXCEPT !.id = id, !.matched = known]

\* The transitions of the aggregate.
WithInbound(c) ==
    [c EXCEPT !.wrote = TRUE,
              !.handling = IF @ = "closed" /\ ~ c.optedOut THEN "bot" ELSE @]

TakenOver(c, p) ==
    IF c.handling = "human" /\ c.assigned = p THEN c
    ELSE [c EXCEPT !.handling = "human", !.assigned = p, !.streak = 0]

TakenOverIfAny(c, p) == IF p = Nobody THEN c ELSE TakenOver(c, p)

MutHandedBack(c) == [NoRow EXCEPT !.id = c.id, !.matched = c.matched, !.wrote = c.wrote]
MutReleased(c) == [c EXCEPT !.assigned = Nobody]
HandedBack(c) == [c EXCEPT !.handling = "bot", !.assigned = Nobody]

OptedOut(c) ==
    IF c.optedOut THEN c
    ELSE [c EXCEPT !.optedOut = TRUE, !.handling = "closed", !.assigned = Nobody]

OptedBackIn(c) == [c EXCEPT !.optedOut = FALSE, !.handling = "bot"]

Followed(c) == [c EXCEPT !.streak = 0]

MaySend(c) == ~ c.optedOut /\ c.handling # "closed" /\ c.wrote

\* save: whole row, on conflict of the number; the id of the first insert stays.
Save(c) == row' = [c EXCEPT !.id = IF row.id = NoId THEN c.id ELSE row.id]

\* The CHECK of the table: a person who handles it has a name.
CheckHolds(c) == c.handling = "human" => c.assigned # Nobody

MayStart(h) ==
    /\ at[h] = "idle"
    /\ orderly => \A g \in Handlers : at[g] = "idle"

Rests(h) ==
    /\ at' = [at EXCEPT ![h] = "idle"]
    /\ copy' = [copy EXCEPT ![h] = NoRow]
    /\ handles' = [handles EXCEPT ![h] = NoMessage]
    /\ says' = [says EXCEPT ![h] = "nothing"]
    /\ did' = [did EXCEPT ![h] = "nothing"]

(***************************************************************************)
(* A delivery.                                                             *)
(***************************************************************************)

\* findOrStart: the row of the number, if there is one.
FindConversation(w, m, k) ==
    /\ MayStart(w)
    /\ orderly \/ k \in RacingKinds
    /\ at' = [at EXCEPT ![w] = IF row.id = NoId THEN "starting" ELSE "storing"]
    /\ copy' = [copy EXCEPT ![w] = row]
    /\ handles' = [handles EXCEPT ![w] = m]
    /\ says' = [says EXCEPT ![w] = k]
    /\ UNCHANGED <<orderly, listed, row, held, did, decided, crashes, acts>>

\* Answered before it is handled.
MutMetaDelivers(w, m, k) ==
    /\ said[m] \in {"nothing", k}
    /\ said' = [said EXCEPT ![m] = "acked"]
    /\ FindConversation(w, m, k)

\* The client has just written it, or Meta has no answer to an earlier delivery.
MetaDelivers(w, m, k) ==
    /\ said[m] \in {"nothing", k}
    /\ said' = [said EXCEPT ![m] = k]
    /\ FindConversation(w, m, k)

\* findOrStart: none, so one is started and saved.
StartConversation(w) ==
    /\ at[w] = "starting"
    /\ copy' = [copy EXCEPT ![w] = Started(w, listed)]
    /\ Save(Started(w, listed))
    /\ at' = [at EXCEPT ![w] = "storing"]
    /\ UNCHANGED <<orderly, listed, held, said, handles, says, did, decided, crashes, acts>>

\* The webhook answers 200 for the message, whatever happened.
Acknowledge(w) ==
    /\ said' = [said EXCEPT ![handles[w]] = "acked"]
    /\ Rests(w)

\* messages.store: refused by the foreign key when the id the handler minted
\* is not the one stored, and silent when the message is there already. A
\* message with neither words nor a file, which nothing stores, is left out.
CanStore(w) == copy[w].id = row.id

MutAlreadyHeld(m) == FALSE
AlreadyHeld(m) == m \in held

StoreMessage(w) ==
    /\ at[w] = "storing"
    /\ IF CanStore(w) /\ ~ AlreadyHeld(handles[w])
       THEN /\ held' = held \cup {handles[w]}
            /\ copy' = [copy EXCEPT ![w] = WithInbound(@)]
            /\ at' = [at EXCEPT ![w] = "deciding"]
            /\ UNCHANGED <<said, handles, says, did>>
       ELSE Acknowledge(w) /\ UNCHANGED held
    /\ UNCHANGED <<orderly, listed, row, decided, crashes, acts>>

\* Whom handOver picks.
Picked(c) == IF c.matched /\ Accountant # Nobody THEN Accountant ELSE OnDuty

\* What the handler makes of the message: the conversation after, whether the
\* bot replies from it, and whom it tells.
Outcome(after, replies, tells) == [after |-> after, replies |-> replies, tells |-> tells]

HandOver(c) == Outcome(TakenOverIfAny(c, Picked(c)), MaySend(c), Picked(c))

\* decide, before it looks at who is handling: STOP is confirmed and then takes
\* effect; START takes effect and is then confirmed.
HonourStop(c) == Outcome(OptedOut(c), MaySend(c), Nobody)
MutHonourStart(c) == Outcome(OptedBackIn(c), MaySend(c), Nobody)
HonourStart(c) == Outcome(OptedBackIn(c), MaySend(OptedBackIn(c)), Nobody)

\* takeTheFile: a stranger's stays with Meta; a client's is fetched and filed,
\* or cannot be.
TakeTheFile(c) ==
    IF ~ c.matched
    THEN {Outcome(TakenOverIfAny(c, OnDuty), MaySend(c), Nobody)}
    ELSE {Outcome(Followed(c), MaySend(c), Nobody),
          Outcome(TakenOverIfAny(c, Accountant), MaySend(c), Nobody)}

\* answer: an unmatched number gets a person; the second message in a row it
\* does not follow gets one too.
Answer(c, k) ==
    IF ~ c.matched \/ k = "person" THEN HandOver(IF c.matched THEN Followed(c) ELSE c)
    ELSE IF k # "unclear" THEN Outcome(Followed(c), MaySend(c), Nobody)
    ELSE IF c.streak = 0 THEN Outcome([c EXCEPT !.streak = 1], MaySend(c), Nobody)
    ELSE HandOver([c EXCEPT !.streak = 2])

MutBotMaySpeak(c) == c.handling # "closed"
BotMaySpeak(c) == c.handling = "bot"

\* decide.
Outcomes(c, k) ==
    IF k = "stop" THEN {HonourStop(c)}
    ELSE IF k = "start" /\ c.optedOut THEN {HonourStart(c)}
    ELSE IF ~ BotMaySpeak(c) THEN {Outcome(c, FALSE, c.assigned)}
    ELSE IF k = "file" THEN TakeTheFile(c)
    ELSE IF k = "voice" THEN {HandOver(c)}
    \* START from somebody who never stopped: nothing to do.
    ELSE IF k = "start" /\ c.matched THEN {Outcome(c, FALSE, Nobody)}
    ELSE {Answer(c, k)}

Decide(w) ==
    /\ at[w] = "deciding"
    /\ \E o \in Outcomes(copy[w], says[w]) :
          /\ copy' = [copy EXCEPT ![w] = o.after]
          /\ did' = [did EXCEPT ![w] = IF o.replies THEN "replied"
                                      ELSE IF o.tells # Nobody THEN "told" ELSE "kept quiet"]
    /\ decided' = [decided EXCEPT ![handles[w]] = @ + 1]
    /\ at' = [at EXCEPT ![w] = "saving"]
    /\ UNCHANGED <<orderly, listed, row, held, said, handles, says, crashes, acts>>

SaveConversation(w) ==
    /\ w \in Webhooks /\ at[w] = "saving"
    /\ Save(copy[w])
    /\ Acknowledge(w)
    /\ UNCHANGED <<orderly, listed, held, decided, crashes, acts>>

\* The process dies: Meta has no answer and will deliver again.
HandlerDies(w) ==
    /\ at[w] # "idle" /\ crashes < MaxCrashes
    /\ crashes' = crashes + 1
    /\ Rests(w)
    /\ UNCHANGED <<orderly, listed, row, held, said, decided, acts>>

(***************************************************************************)
(* What staff do, each one a request that reads the row and saves it.      *)
(***************************************************************************)

MayAct(p) ==
    MayStart(p) /\ row.id # NoId /\ acts < IF orderly THEN MaxActs ELSE RacingActs

\* The request reads the conversation and will save it as after.
Takes(p, after) ==
    /\ MayAct(p)
    /\ acts' = acts + 1
    /\ at' = [at EXCEPT ![p] = "saving"]
    /\ copy' = [copy EXCEPT ![p] = after]
    /\ UNCHANGED <<orderly, listed, row, held, said, handles, says, did, decided, crashes>>

\* asPerson: inside the window, whatever the client opted out of; having
\* written, they have the conversation.
Writes(p) == row.wrote /\ Takes(p, TakenOver(row, p))

TakesOver(p) == Takes(p, TakenOver(row, p))

HandsBack(p) == row.handling = "human" /\ Takes(p, HandedBack(row))

\* identify: it is the client's number.
Identifies(p) == Takes(p, [row EXCEPT !.matched = TRUE])

PersonSaves(p) ==
    /\ p \in Members /\ at[p] = "saving"
    /\ Save(copy[p])
    /\ Rests(p)
    /\ UNCHANGED <<orderly, listed, held, said, decided, crashes, acts>>

(***************************************************************************)

ConversationInit ==
    /\ orderly \in BOOLEAN
    /\ listed \in BOOLEAN
    /\ row = NoRow
    /\ held = {}
    /\ said = [m \in Messages |-> "nothing"]
    /\ at = [h \in Handlers |-> "idle"]
    /\ copy = [h \in Handlers |-> NoRow]
    /\ handles = [h \in Handlers |-> NoMessage]
    /\ says = [h \in Handlers |-> "nothing"]
    /\ did = [h \in Handlers |-> "nothing"]
    /\ decided = [m \in Messages |-> 0]
    /\ crashes = 0 /\ acts = 0

WebhookGoesOn(w) ==
    StartConversation(w) \/ StoreMessage(w) \/ Decide(w) \/ SaveConversation(w)

StaffStep(p) ==
    Writes(p) \/ TakesOver(p) \/ HandsBack(p) \/ Identifies(p) \/ PersonSaves(p)

ConversationNext ==
    \/ \E w \in Webhooks :
          \/ \E m \in Messages, k \in Kinds : MetaDelivers(w, m, k)
          \/ WebhookGoesOn(w)
          \/ HandlerDies(w)
    \/ \E p \in Members : StaffStep(p)

Redeliver(m) == \E w \in Webhooks, k \in Kinds : said[m] = k /\ MetaDelivers(w, m, k)

\* A handler that runs goes on; Meta delivers until it is answered.
ConversationSpec ==
    /\ ConversationInit
    /\ [][ConversationNext]_conversationVars
    /\ \A w \in Webhooks : WF_conversationVars(WebhookGoesOn(w))
    /\ \A p \in Members : WF_conversationVars(PersonSaves(p))
    /\ \A m \in Messages : SF_conversationVars(Redeliver(m))

(***************************************************************************)

\* Everything is of its type, and every conversation stored or in memory
\* would pass the CHECK of its table: a person who handles it has a name.
ConversationTypeOK ==
    /\ row \in Rows /\ copy \in [Handlers -> Rows]
    /\ CheckHolds(row) /\ \A h \in Handlers : CheckHolds(copy[h])
    /\ held \subseteq Messages
    /\ said \in [Messages -> Kinds \cup {"nothing", "acked"}]
    /\ at \in [Handlers -> {"idle", "starting", "storing", "deciding", "saving"}]
    /\ handles \in [Handlers -> Messages \cup {NoMessage}]
    /\ says \in [Handlers -> Kinds \cup {"nothing"}]
    /\ did \in [Handlers -> {"nothing", "replied", "told", "kept quiet"}]
    /\ crashes \in 0 .. MaxCrashes /\ acts \in 0 .. MaxActs

\* A message the bot decided about was answered, or a person was told of it,
\* unless the client had opted out; STOP and START themselves are confirmed,
\* which depends on the order of the reply and the change of each. START from
\* somebody who never stopped is the exception.
EveryoneIsHeard ==
    [][\A w \in Webhooks :
          did[w] # did'[w] /\ did'[w] = "kept quiet"
            => (copy[w].optedOut <=> says[w] # "start")]_conversationVars

\* While handlers take turns, STOP stands until START: no save of anything
\* else withdraws it, and the bot replies to nothing else meanwhile.
StopStands ==
    [][orderly /\ row.optedOut
         => /\ row'.optedOut \/ \E w \in Webhooks : at[w] = "saving" /\ says[w] = "start"
            /\ \A w \in Webhooks :
                  did'[w] = "replied" /\ did[w] # "replied" => says[w] = "start"]_conversationVars

\* While handlers take turns, a conversation a person has is theirs: it leaves
\* them by somebody handing it back, by STOP, or by START after a STOP, and
\* the bot says nothing in it but the confirmation of those.
PersonHasIt ==
    [][orderly /\ row.handling = "human"
         => /\ \/ row'.handling = "human"
               \/ \E p \in Members : at[p] = "saving"
               \/ \E w \in Webhooks : at[w] = "saving" /\ says[w] \in {"stop", "start"}
            /\ \A w \in Webhooks :
                  did'[w] = "replied" /\ did[w] # "replied"
                    => says[w] \in {"stop", "start"}]_conversationVars

\* While handlers take turns, what the client writes is stored in the end,
\* though the process dies while it handles it: Meta delivers it again.
EveryMessageArrives ==
    \A m \in Messages : orderly /\ said[m] # "nothing" ~> m \in held

\* What the client and the staff decide about who speaks stands.
WishesStand == StopStands /\ PersonHasIt

\* A message is decided about once, however often Meta delivers it, and whatever else
\* is in flight or dies, since the store that finds a duplicate comes before any reply.
DecidedOnce == \A m \in Messages : decided[m] <= 1

\* A message is decided about once and met with an answer or a person, and what the
\* client and the staff decide about who speaks stands.
ConversationHolds ==
    /\ [](ConversationTypeOK /\ DecidedOnce)
    /\ EveryoneIsHeard
    /\ WishesStand
=============================================================================
