------------------------------- MODULE Enquiry -------------------------------
(***************************************************************************)
(* Enquiries and the clients they become (packages/modules/clients: leads).*)
(*                                                                         *)
(* An enquiry is moved along the board, quoted or converted. Quoting and   *)
(* converting also make the client's record. Each is one READ COMMITTED    *)
(* transaction that reads the enquiry, decides on that copy and writes the *)
(* whole row back; a refusal returned from it commits what was written     *)
(* before the refusal, and only an error thrown rolls it back.             *)
(***************************************************************************)
EXTENDS FiniteSets

CONSTANTS
    Leads,       \* enquiries
    NewClients,  \* the ids minted for clients
    Hands,       \* requests being served at once
    NoClient,    \* NULL
    NoLead       \* an empty hand

ASSUME EnquiryAssumption == NoClient \notin NewClients /\ NoLead \notin Leads

VARIABLES
    singly,      \* TRUE: no two requests on one enquiry are in flight together
    \* table leads
    stage,       \* status, "absent" until the row exists
    clientOf,    \* converted_client_id
    \* table clients
    made,
    \* each hand: the enquiry in hand and its Lead object
    inHand,
    stageCopy,
    clientCopy

enquiryVars == <<singly, stage, clientOf, made, inHand, stageCopy, clientCopy>>

Stages == {"new", "contacted", "quoted", "confirmed", "declined"}

\* What may follow what.
Allowed ==
    [new       |-> {"contacted", "declined"},
     contacted |-> {"quoted", "declined", "contacted"},
     quoted    |-> {"confirmed", "declined", "contacted"},
     confirmed |-> {},
     declined  |-> {}]

\* The CHECK of the table: a client's record comes with the quotation.
StageAllows(s, c) == c # NoClient => s \in {"quoted", "confirmed"}

Capture(l) ==
    /\ stage[l] = "absent"
    /\ stage' = [stage EXCEPT ![l] = "new"]
    /\ UNCHANGED <<singly, clientOf, made, inHand, stageCopy, clientCopy>>

ReadLead(d, l) ==
    /\ inHand[d] = NoLead /\ stage[l] # "absent"
    /\ singly => \A e \in Hands : inHand[e] # l
    /\ inHand' = [inHand EXCEPT ![d] = l]
    /\ stageCopy' = [stageCopy EXCEPT ![d] = stage[l]]
    /\ clientCopy' = [clientCopy EXCEPT ![d] = clientOf[l]]
    /\ UNCHANGED <<singly, stage, clientOf, made>>

PutDown(d) ==
    /\ inHand' = [inHand EXCEPT ![d] = NoLead]
    /\ stageCopy' = [stageCopy EXCEPT ![d] = "new"]
    /\ clientCopy' = [clientCopy EXCEPT ![d] = NoClient]

MutSaveLead(d, s, c) ==
    /\ stage' = [stage EXCEPT ![inHand[d]] = s]
    /\ clientOf' = [clientOf EXCEPT ![inHand[d]] = c]
    /\ PutDown(d)
    /\ UNCHANGED singly

\* save: the row becomes the copy with this status and client.
SaveLead(d, s, c) ==
    /\ StageAllows(s, c)
    /\ stage' = [stage EXCEPT ![inHand[d]] = s]
    /\ clientOf' = [clientOf EXCEPT ![inHand[d]] = c]
    /\ PutDown(d)
    /\ UNCHANGED singly

MutMoveTo(d, s) ==
    /\ s # stageCopy[d]
    /\ SaveLead(d, s, clientCopy[d])
    /\ UNCHANGED made

\* move.
MoveTo(d, s) ==
    /\ s \in Allowed[stageCopy[d]]
    /\ SaveLead(d, s, clientCopy[d])
    /\ UNCHANGED made

\* quote: a record for the client the quotation will name.
Quote(d, c) ==
    /\ clientCopy[d] = NoClient
    /\ "quoted" \in Allowed[stageCopy[d]]
    /\ c \notin made
    /\ made' = made \cup {c}
    /\ SaveLead(d, "quoted", c)

\* convert, of an enquiry quoted as a client: it keeps the record.
ConfirmQuoted(d) ==
    /\ clientCopy[d] # NoClient
    /\ stageCopy[d] \notin {"confirmed", "declined"}
    /\ SaveLead(d, "confirmed", clientCopy[d])
    /\ UNCHANGED made

MutConvert(d, c) ==
    /\ clientCopy[d] = NoClient
    /\ stageCopy[d] \notin {"confirmed", "declined"}
    /\ UNCHANGED made
    /\ SaveLead(d, "confirmed", c)

\* convert, of any other that has not ended: a new record.
Convert(d, c) ==
    /\ clientCopy[d] = NoClient
    /\ stageCopy[d] \notin {"confirmed", "declined"}
    /\ c \notin made
    /\ made' = made \cup {c}
    /\ SaveLead(d, "confirmed", c)

\* convert, of one that has ended with no client: the record is written before
\* convertTo refuses, and the refusal commits it.
ConvertRefused(d, c) ==
    /\ clientCopy[d] = NoClient
    /\ stageCopy[d] \in {"confirmed", "declined"}
    /\ c \notin made
    /\ made' = made \cup {c}
    /\ PutDown(d)
    /\ UNCHANGED <<singly, stage, clientOf>>

\* Any other refusal, and what the CHECK refuses: nothing is written.
GiveUpLead(d) == PutDown(d) /\ UNCHANGED <<singly, stage, clientOf, made>>

EnquiryInit ==
    /\ singly \in BOOLEAN
    /\ stage = [l \in Leads |-> "absent"]
    /\ clientOf = [l \in Leads |-> NoClient]
    /\ made = {}
    /\ inHand = [d \in Hands |-> NoLead]
    /\ stageCopy = [d \in Hands |-> "new"]
    /\ clientCopy = [d \in Hands |-> NoClient]

DeskStep(d) ==
    /\ inHand[d] # NoLead
    /\ \/ \E s \in Stages : MoveTo(d, s)
       \/ \E c \in NewClients : Quote(d, c) \/ Convert(d, c) \/ ConvertRefused(d, c)
       \/ ConfirmQuoted(d)
       \/ GiveUpLead(d)

EnquiryNext ==
    \/ \E l \in Leads : Capture(l) \/ \E d \in Hands : ReadLead(d, l)
    \/ \E d \in Hands : DeskStep(d)

EnquirySpec == EnquiryInit /\ [][EnquiryNext]_enquiryVars

(***************************************************************************)

\* Everything is of its type, and no enquiry that nobody quoted has a client.
EnquiryTypeOK ==
    /\ singly \in BOOLEAN
    /\ stage \in [Leads -> Stages \cup {"absent"}]
    /\ clientOf \in [Leads -> NewClients \cup {NoClient}]
    /\ made \subseteq NewClients
    /\ inHand \in [Hands -> Leads \cup {NoLead}]
    /\ stageCopy \in [Hands -> Stages]
    /\ clientCopy \in [Hands -> NewClients \cup {NoClient}]
    /\ \A l \in Leads : StageAllows(stage[l], clientOf[l])

\* While requests on one enquiry take turns, declined and confirmed are ends,
\* and an enquiry that has its client keeps that one: a second would leave
\* the quotation with a company the confirmed client is not.
EndsAreEnds ==
    [][singly => \A l \in Leads :
          /\ stage[l] \in {"confirmed", "declined"} => stage'[l] = stage[l]
          /\ clientOf[l] # NoClient => clientOf'[l] = clientOf[l]]_enquiryVars

\* The client an enquiry points at exists, and is no other enquiry's: one
\* marked converted that points at a company never created "looks finished"; and its ends are ends.
EnquiryStands ==
    /\ []EnquiryTypeOK
    /\ [](\A l \in Leads : clientOf[l] # NoClient =>
           /\ clientOf[l] \in made
           /\ \A k \in Leads : clientOf[k] = clientOf[l] => k = l)
    /\ EndsAreEnds
=============================================================================
