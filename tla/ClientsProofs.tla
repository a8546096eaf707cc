---------------------------- MODULE ClientsProofs -----------------------------
(***************************************************************************)
(* What holds of a client's file, for every value of the constants: where  *)
(* the client comes from (Enquiry), the documents held of one              *)
(* (ClientPapers), the list they are sent from (PaperList), the client's   *)
(* details and logins (ClientRecord), the client's folder (ClientFolders). *)
(* Each part has its inductive invariant, lemmas that a step keeps it, and *)
(* the theorem.                                                            *)
(***************************************************************************)
EXTENDS Enquiry, ClientPapers, PaperList, ClientRecord, ClientFolders, FiniteSetTheorems,
        SequenceTheorems, WellFoundedInduction, TLAPS

-----------------------------------------------------------------------------
(* Enquiries.                                                              *)

\* A client made for one enquiry is on that one's row and in copies of that one,
\* and nowhere else.
ClientIsOfOne ==
    /\ \A l \in Leads : clientOf[l] # NoClient =>
          /\ clientOf[l] \in made
          /\ \A k \in Leads : clientOf[k] = clientOf[l] => k = l
    /\ \A d \in Hands : clientCopy[d] # NoClient =>
          /\ clientCopy[d] \in made
          /\ \A k \in Leads : clientOf[k] = clientCopy[d] => k = inHand[d]
          /\ \A e \in Hands : clientCopy[e] = clientCopy[d] => inHand[e] = inHand[d]

\* The copy of the one request on an enquiry is its row.
CopyIsTheRow ==
    singly =>
        /\ \A d, e \in Hands : inHand[d] # NoLead /\ inHand[d] = inHand[e] => d = e
        /\ \A d \in Hands : inHand[d] # NoLead =>
              stageCopy[d] = stage[inHand[d]] /\ clientCopy[d] = clientOf[inHand[d]]

EnquiryInv == EnquiryTypeOK /\ ClientIsOfOne /\ CopyIsTheRow

\* The body of EndsAreEnds.
EndsStand ==
    singly => \A l \in Leads :
        /\ stage[l] \in {"confirmed", "declined"} => stage'[l] = stage[l]
        /\ clientOf[l] # NoClient => clientOf'[l] = clientOf[l]

LEMMA EnquiryStarts == EnquiryInit => EnquiryInv
  BY EnquiryAssumption
     DEF EnquiryInit, EnquiryInv, EnquiryTypeOK, ClientIsOfOne, CopyIsTheRow, StageAllows, Stages

LEMMA HandEmpty ==
  ASSUME EnquiryInv, NEW d \in Hands, PutDown(d)
  PROVE  /\ inHand' \in [Hands -> Leads \cup {NoLead}] /\ stageCopy' \in [Hands -> Stages]
         /\ clientCopy' \in [Hands -> NewClients \cup {NoClient}]
         /\ inHand'[d] = NoLead /\ clientCopy'[d] = NoClient
         /\ \A e \in Hands : e # d => /\ inHand'[e] = inHand[e] /\ stageCopy'[e] = stageCopy[e]
                                      /\ clientCopy'[e] = clientCopy[e]
  BY EnquiryAssumption DEF EnquiryInv, EnquiryTypeOK, PutDown, Stages

\* A row written with the client of its copy, or with one just made.
LEMMA LeadSaved ==
  ASSUME EnquiryInv, NEW d \in Hands, inHand[d] \in Leads,
         NEW s \in Stages, NEW c \in NewClients \cup {NoClient}, SaveLead(d, s, c),
         NEW more \in SUBSET NewClients, made' = made \cup more,
         c = clientCopy[d] \/ (c \notin made /\ c \in more /\ clientCopy[d] = NoClient),
         stageCopy[d] \notin {"confirmed", "declined"}
  PROVE  EnquiryInv' /\ EndsStand
<1> DEFINE l == inHand[d]
<1>1. /\ StageAllows(s, c) /\ PutDown(d) /\ singly' = singly
      /\ stage' = [stage EXCEPT ![l] = s] /\ clientOf' = [clientOf EXCEPT ![l] = c]
  BY DEF SaveLead
<1> HIDE DEF l
<1>2. l \in Leads /\ l = inHand[d] /\ l # NoLead
  BY EnquiryAssumption DEF l
<1>3. /\ stage' \in [Leads -> Stages \cup {"absent"}] /\ stage'[l] = s
      /\ clientOf' \in [Leads -> NewClients \cup {NoClient}] /\ clientOf'[l] = c
      /\ \A k \in Leads : k # l => stage'[k] = stage[k] /\ clientOf'[k] = clientOf[k]
  BY <1>1, <1>2 DEF EnquiryInv, EnquiryTypeOK
<1>4. EnquiryTypeOK'
  BY <1>1, <1>3, HandEmpty DEF EnquiryInv, EnquiryTypeOK, StageAllows
<1>5. c # NoClient => /\ c \in made'
                      /\ \A k \in Leads : clientOf[k] = c => k = l
                      /\ \A e \in Hands : clientCopy[e] = c => inHand[e] = l
  BY <1>2 DEF EnquiryInv, ClientIsOfOne
<1>6. ClientIsOfOne'
  <2>1. ASSUME NEW k \in Leads, clientOf'[k] # NoClient
        PROVE  /\ clientOf'[k] \in made'
               /\ \A j \in Leads : clientOf'[j] = clientOf'[k] => j = k
    BY <1>3, <1>5, <2>1 DEF EnquiryInv, ClientIsOfOne
  <2>2. ASSUME NEW e \in Hands, clientCopy'[e] # NoClient
        PROVE  /\ clientCopy'[e] \in made'
               /\ \A k \in Leads : clientOf'[k] = clientCopy'[e] => k = inHand'[e]
               /\ \A f \in Hands : clientCopy'[f] = clientCopy'[e] => inHand'[f] = inHand'[e]
    <3>1. e # d /\ clientCopy'[e] = clientCopy[e] /\ inHand'[e] = inHand[e]
      BY <1>1, <2>2, HandEmpty
    <3>2. /\ clientCopy[e] \in made /\ \A k \in Leads : clientOf[k] = clientCopy[e] => k = inHand[e]
          /\ \A f \in Hands : clientCopy[f] = clientCopy[e] => inHand[f] = inHand[e]
      BY <2>2, <3>1 DEF EnquiryInv, ClientIsOfOne
    <3>3. \A k \in Leads : clientOf'[k] = clientCopy[e] => k = inHand[e]
      BY <1>3, <1>5, <2>2, <3>1, <3>2
    <3>4. \A f \in Hands : clientCopy'[f] = clientCopy[e] => inHand'[f] = inHand[e]
      BY <1>1, <2>2, <3>1, <3>2, HandEmpty
    <3> QED BY <3>1, <3>2, <3>3, <3>4
  <2> QED BY <2>1, <2>2 DEF ClientIsOfOne
<1>7. CopyIsTheRow'
  <2> SUFFICES ASSUME singly PROVE CopyIsTheRow'
    BY <1>1 DEF CopyIsTheRow
  <2>1. \A e \in Hands : e # d /\ inHand[e] # NoLead => inHand[e] # l
    BY <1>2 DEF EnquiryInv, CopyIsTheRow
  <2>2. \A e \in Hands : inHand'[e] # NoLead =>
          /\ e # d /\ inHand'[e] = inHand[e] /\ inHand[e] \in Leads /\ inHand[e] # l
          /\ stageCopy'[e] = stageCopy[e] /\ clientCopy'[e] = clientCopy[e]
    BY <1>1, <2>1, HandEmpty DEF EnquiryInv, EnquiryTypeOK
  <2>3. \A e \in Hands : inHand'[e] # NoLead =>
          stageCopy'[e] = stage'[inHand'[e]] /\ clientCopy'[e] = clientOf'[inHand'[e]]
    BY <1>3, <2>2 DEF EnquiryInv, CopyIsTheRow
  <2>4. \A e, f \in Hands : inHand'[e] # NoLead /\ inHand'[e] = inHand'[f] => e = f
    BY <2>2 DEF EnquiryInv, CopyIsTheRow
  <2> QED BY <2>3, <2>4 DEF CopyIsTheRow
<1>8. EndsStand
  <2>1. singly => /\ stage[l] \notin {"confirmed", "declined"}
                  /\ clientOf[l] # NoClient => c = clientOf[l]
    BY <1>2 DEF EnquiryInv, CopyIsTheRow
  <2> QED BY <1>3, <2>1 DEF EndsStand
<1> QED BY <1>4, <1>6, <1>7, <1>8 DEF EnquiryInv

\* A record made for a client whom no enquiry names.
LEMMA NoRowWritten ==
  ASSUME EnquiryInv, NEW d \in Hands, PutDown(d), UNCHANGED <<singly, stage, clientOf>>,
         NEW more \in SUBSET NewClients, made' = made \cup more
  PROVE  EnquiryInv' /\ EndsStand
<1>1. EnquiryTypeOK'
  BY HandEmpty DEF EnquiryInv, EnquiryTypeOK, StageAllows
<1>2. ClientIsOfOne'
  BY HandEmpty DEF EnquiryInv, ClientIsOfOne
<1>3. CopyIsTheRow'
  BY HandEmpty DEF EnquiryInv, CopyIsTheRow
<1> QED BY <1>1, <1>2, <1>3 DEF EnquiryInv, EndsStand

LEMMA EnquiryGoesOn == EnquiryInv /\ [EnquiryNext]_enquiryVars => EnquiryInv' /\ EndsStand
<1> SUFFICES ASSUME EnquiryInv, [EnquiryNext]_enquiryVars PROVE EnquiryInv' /\ EndsStand
  OBVIOUS
<1>1. ASSUME NEW l \in Leads, Capture(l) PROVE EnquiryInv' /\ EndsStand
  <2>1. /\ stage[l] = "absent" /\ stage' = [stage EXCEPT ![l] = "new"]
        /\ UNCHANGED <<singly, clientOf, made, inHand, stageCopy, clientCopy>>
    BY <1>1 DEF Capture
  <2>2. clientOf[l] = NoClient
    BY <2>1 DEF EnquiryInv, EnquiryTypeOK, StageAllows
  <2>3. /\ stage' \in [Leads -> Stages \cup {"absent"}] /\ stage'[l] = "new"
        /\ \A k \in Leads : k # l => stage'[k] = stage[k]
    BY <2>1 DEF EnquiryInv, EnquiryTypeOK, Stages
  <2>4. EnquiryTypeOK'
    BY <2>1, <2>2, <2>3 DEF EnquiryInv, EnquiryTypeOK, StageAllows
  <2>5. ClientIsOfOne'
    BY <2>1 DEF EnquiryInv, ClientIsOfOne
  <2>6. \A d \in Hands : singly /\ inHand[d] # NoLead => inHand[d] \in Leads /\ inHand[d] # l
    BY <2>1 DEF EnquiryInv, EnquiryTypeOK, CopyIsTheRow, Stages
  <2>7. CopyIsTheRow'
    BY <2>1, <2>3, <2>6 DEF EnquiryInv, CopyIsTheRow
  <2>8. EndsStand
    BY <2>1, <2>3 DEF EndsStand
  <2> QED BY <2>4, <2>5, <2>7, <2>8 DEF EnquiryInv
<1>2. ASSUME NEW d \in Hands, NEW l \in Leads, ReadLead(d, l) PROVE EnquiryInv' /\ EndsStand
  <2>1. /\ inHand[d] = NoLead /\ stage[l] # "absent"
        /\ singly => \A e \in Hands : inHand[e] # l
        /\ UNCHANGED <<singly, stage, clientOf, made>>
    BY <1>2 DEF ReadLead
  <2>2. /\ inHand' \in [Hands -> Leads \cup {NoLead}] /\ stageCopy' \in [Hands -> Stages]
        /\ clientCopy' \in [Hands -> NewClients \cup {NoClient}]
        /\ inHand'[d] = l /\ stageCopy'[d] = stage[l] /\ clientCopy'[d] = clientOf[l]
        /\ \A e \in Hands : e # d => /\ inHand'[e] = inHand[e] /\ stageCopy'[e] = stageCopy[e]
                                     /\ clientCopy'[e] = clientCopy[e]
    BY <1>2 DEF ReadLead, EnquiryInv, EnquiryTypeOK
  <2>3. EnquiryTypeOK'
    BY <2>1, <2>2 DEF EnquiryInv, EnquiryTypeOK, StageAllows
  <2>4. ClientIsOfOne'
    <3>1. ASSUME NEW e \in Hands, clientCopy'[e] # NoClient
          PROVE  /\ clientCopy'[e] \in made'
                 /\ \A k \in Leads : clientOf'[k] = clientCopy'[e] => k = inHand'[e]
                 /\ \A f \in Hands : clientCopy'[f] = clientCopy'[e] => inHand'[f] = inHand'[e]
      <4>1. CASE e = d
        BY <2>1, <2>2, <3>1, <4>1 DEF EnquiryInv, ClientIsOfOne
      <4>2. CASE e # d
        BY <2>1, <2>2, <3>1, <4>2 DEF EnquiryInv, ClientIsOfOne
      <4> QED BY <4>1, <4>2
    <3> QED BY <2>1, <3>1 DEF EnquiryInv, ClientIsOfOne
  <2>5. CopyIsTheRow'
    BY <2>1, <2>2 DEF EnquiryInv, CopyIsTheRow
  <2>6. EndsStand
    BY <2>1 DEF EndsStand
  <2> QED BY <2>3, <2>4, <2>5, <2>6 DEF EnquiryInv
<1>3. ASSUME NEW d \in Hands, DeskStep(d) PROVE EnquiryInv' /\ EndsStand
  <2>1. inHand[d] \in Leads /\ stageCopy[d] \in Stages
        /\ clientCopy[d] \in NewClients \cup {NoClient}
    BY <1>3 DEF DeskStep, EnquiryInv, EnquiryTypeOK
  <2>2. \A s : s \in Allowed[stageCopy[d]] => stageCopy[d] \notin {"confirmed", "declined"}
    BY <2>1 DEF Allowed, Stages
  <2>3. "quoted" \in Stages /\ "confirmed" \in Stages
    BY DEF Stages
  <2>4. ASSUME NEW s \in Stages, MoveTo(d, s) PROVE EnquiryInv' /\ EndsStand
    <3>1. made' = made \cup {} /\ {} \in SUBSET NewClients
      BY <2>4 DEF MoveTo
    <3> QED BY <2>1, <2>2, <2>4, <3>1, LeadSaved DEF MoveTo
  <2>5. ASSUME NEW c \in NewClients, Quote(d, c) \/ Convert(d, c) PROVE EnquiryInv' /\ EndsStand
    <3>1. {c} \in SUBSET NewClients /\ c \in NewClients \cup {NoClient}
      OBVIOUS
    <3>2. CASE Quote(d, c)
      BY <2>1, <2>2, <2>3, <3>1, <3>2, LeadSaved DEF Quote
    <3>3. CASE Convert(d, c)
      BY <2>1, <2>3, <3>1, <3>3, LeadSaved DEF Convert
    <3> QED BY <2>5, <3>2, <3>3
  <2>6. ASSUME NEW c \in NewClients, ConvertRefused(d, c) PROVE EnquiryInv' /\ EndsStand
    <3>1. {c} \in SUBSET NewClients
      OBVIOUS
    <3> QED BY <2>6, <3>1, NoRowWritten DEF ConvertRefused
  <2>7. ASSUME ConfirmQuoted(d) PROVE EnquiryInv' /\ EndsStand
    <3>1. made' = made \cup {} /\ {} \in SUBSET NewClients
      BY <2>7 DEF ConfirmQuoted
    <3> QED BY <2>1, <2>3, <2>7, <3>1, LeadSaved DEF ConfirmQuoted
  <2>8. ASSUME GiveUpLead(d) PROVE EnquiryInv' /\ EndsStand
    <3>1. made' = made \cup {} /\ {} \in SUBSET NewClients
      BY <2>8 DEF GiveUpLead
    <3> QED BY <2>8, <3>1, NoRowWritten DEF GiveUpLead
  <2> QED BY <1>3, <2>4, <2>5, <2>6, <2>7, <2>8 DEF DeskStep
<1>4. CASE UNCHANGED enquiryVars
  BY <1>4 DEF enquiryVars, EnquiryInv, EnquiryTypeOK, ClientIsOfOne, CopyIsTheRow, StageAllows, EndsStand
<1> QED BY <1>1, <1>2, <1>3, <1>4 DEF EnquiryNext

\* The client an enquiry points at exists and is no other enquiry's, for any enquiries
\* and any requests on them at once; and while requests on one enquiry take turns, its
\* ends are ends (lead-workflow.ts).
THEOREM EnquiryStandsForAny == EnquirySpec => EnquiryStands
<1>1. EnquiryInv => /\ EnquiryTypeOK
                    /\ \A l \in Leads : clientOf[l] # NoClient =>
                         /\ clientOf[l] \in made
                         /\ \A k \in Leads : clientOf[k] = clientOf[l] => k = l
  BY DEF EnquiryInv, ClientIsOfOne
<1>2. EndsStand => (singly => \A l \in Leads :
          /\ stage[l] \in {"confirmed", "declined"} => stage'[l] = stage[l]
          /\ clientOf[l] # NoClient => clientOf'[l] = clientOf[l])
  BY DEF EndsStand
<1> QED BY <1>1, <1>2, EnquiryStarts, EnquiryGoesOn, PTL DEF EnquirySpec, EnquiryStands, EndsAreEnds

-----------------------------------------------------------------------------
(* The documents of a client.                                              *)

\* A document on record has its file.
FilesAreHeld == \A p \in Papers : kindOf[p] # Nothing => p \in bucket

\* What an upload brings is in storage under an id that is its own, and not on record.
BroughtIsFresh ==
    \A u \in Uploads : stageOf[u] # "idle" =>
        /\ paper[u] \in bucket /\ kind[u] \in Sorts /\ kindOf[paper[u]] = Nothing
        /\ \A v \in Uploads : stageOf[v] # "idle" /\ paper[v] = paper[u] => v = u

\* What an upload replaces is on record, and of the kind it brings where requests are so.
ReplacedIsKnown ==
    \A u \in Uploads : stageOf[u] = "decided" /\ replaces[u] # Nothing =>
        /\ kindOf[replaces[u]] # Nothing
        /\ alike => kindOf[replaces[u]] = kind[u]

\* A kind the client ever had has a current document.
KindIsCurrent ==
    alike => \A p \in Papers : kindOf[p] # Nothing =>
                \E q \in Papers : Live(q) /\ kindOf[q] = kindOf[p]

PapersInv == PapersTypeOK /\ FilesAreHeld /\ BroughtIsFresh /\ ReplacedIsKnown /\ KindIsCurrent

\* The bodies of KindStaysCurrent and HistoryStands.
PapersMoves ==
    /\ alike => \A k \in Sorts :
          (\E p \in Papers : Live(p) /\ kindOf[p] = k)
            => \E p \in Papers : kindOf'[p] = k /\ newer'[p] = Nothing
    /\ alike => \A p \in Papers : newer[p] # Nothing => newer'[p] = newer[p]

LEMMA PapersStart == PapersInit => PapersInv
  BY DEF PapersInit, PapersInv, PapersTypeOK, FilesAreHeld, BroughtIsFresh, ReplacedIsKnown, KindIsCurrent

\* An upload that has ended brings and replaces nothing.
LEMMA AwayPut ==
  ASSUME PapersInv, NEW u \in Uploads, PutAway(u)
  PROVE  /\ stageOf' \in [Uploads -> {"idle", "stored", "decided"}]
         /\ paper' \in [Uploads -> Papers \cup {Nothing}] /\ kind' \in [Uploads -> Sorts \cup {Nothing}]
         /\ replaces' \in [Uploads -> Papers \cup {Nothing}] /\ wasReplaced' \in [Uploads -> BOOLEAN]
         /\ stageOf'[u] = "idle"
         /\ \A v \in Uploads : v # u => /\ stageOf'[v] = stageOf[v] /\ paper'[v] = paper[v]
                                        /\ kind'[v] = kind[v] /\ replaces'[v] = replaces[v]
<1>1. wasReplaced' \in [Uploads -> BOOLEAN]
  BY DEF PutAway, PapersInv, PapersTypeOK
<1> QED BY <1>1 DEF PutAway, PapersInv, PapersTypeOK

\* The tables untouched and one upload at an earlier stage or none.
LEMMA TablesRest ==
  ASSUME PapersInv, UNCHANGED <<alike, kindOf, newer>>
  PROVE  KindIsCurrent' /\ PapersMoves
  BY DEF PapersInv, KindIsCurrent, PapersMoves, Live

\* What the transaction of an upload leaves on record.
LEMMA Recorded ==
  ASSUME PapersInv, NEW u \in Uploads, Record(u)
  PROVE  /\ kindOf' \in [Papers -> Sorts \cup {Nothing}] /\ newer' \in [Papers -> Papers \cup {Nothing}]
         /\ paper[u] \in Papers /\ kind[u] \in Sorts /\ kindOf[paper[u]] = Nothing
         /\ newer[paper[u]] = Nothing /\ newer'[paper[u]] = Nothing
         /\ kindOf'[paper[u]] = kind[u] /\ \A p \in Papers : p # paper[u] => kindOf'[p] = kindOf[p]
         /\ \A p \in Papers : p # replaces[u] => newer'[p] = newer[p]
         /\ replaces[u] # Nothing => /\ replaces[u] \in Papers /\ kindOf[replaces[u]] # Nothing
                                     /\ replaces[u] # paper[u] /\ newer'[replaces[u]] = paper[u]
         /\ alike /\ replaces[u] # Nothing => kindOf[replaces[u]] = kind[u]
<1>1. /\ stageOf[u] = "decided" /\ kindOf' = [kindOf EXCEPT ![paper[u]] = kind[u]]
      /\ newer' = IF replaces[u] = Nothing THEN newer ELSE [newer EXCEPT ![replaces[u]] = paper[u]]
  BY DEF Record, Received, Superseded
<1>2. /\ paper[u] \in Papers /\ kind[u] \in Sorts /\ kindOf[paper[u]] = Nothing
      /\ newer[paper[u]] = Nothing
  BY <1>1 DEF PapersInv, PapersTypeOK, BroughtIsFresh
<1>3. replaces[u] # Nothing => /\ replaces[u] \in Papers /\ kindOf[replaces[u]] # Nothing
                               /\ replaces[u] # paper[u]
                               /\ alike => kindOf[replaces[u]] = kind[u]
  BY <1>1, <1>2 DEF PapersInv, PapersTypeOK, ReplacedIsKnown
<1>4. /\ kindOf' \in [Papers -> Sorts \cup {Nothing}]
      /\ kindOf'[paper[u]] = kind[u] /\ \A p \in Papers : p # paper[u] => kindOf'[p] = kindOf[p]
  BY <1>1, <1>2 DEF PapersInv, PapersTypeOK
<1>5. /\ newer' \in [Papers -> Papers \cup {Nothing}]
      /\ \A p \in Papers : p # replaces[u] => newer'[p] = newer[p]
      /\ replaces[u] # Nothing => newer'[replaces[u]] = paper[u]
  <2>1. CASE replaces[u] = Nothing
    BY <1>1, <2>1 DEF PapersInv, PapersTypeOK
  <2>2. CASE replaces[u] # Nothing
    BY <1>1, <1>2, <1>3, <2>2 DEF PapersInv, PapersTypeOK
  <2> QED BY <2>1, <2>2
<1>6. newer'[paper[u]] = Nothing
  BY <1>2, <1>3, <1>5, PapersAssumption
<1> QED BY <1>2, <1>3, <1>4, <1>5, <1>6

LEMMA PapersGoOn == PapersInv /\ [PapersNext]_papersVars => PapersInv' /\ PapersMoves
<1> SUFFICES ASSUME PapersInv, [PapersNext]_papersVars PROVE PapersInv' /\ PapersMoves
  OBVIOUS
<1>1. ASSUME NEW u \in Uploads, NEW p \in Papers, NEW k \in Sorts, PutFile(u, p, k)
      PROVE  PapersInv' /\ PapersMoves
  <2>1. /\ stageOf[u] = "idle" /\ kindOf[p] = Nothing /\ p \notin bucket /\ bucket' = bucket \cup {p}
        /\ UNCHANGED <<alike, kindOf, newer, replaces, wasReplaced>>
    BY <1>1 DEF PutFile
  <2>2. /\ stageOf' \in [Uploads -> {"idle", "stored", "decided"}]
        /\ paper' \in [Uploads -> Papers \cup {Nothing}] /\ kind' \in [Uploads -> Sorts \cup {Nothing}]
        /\ stageOf'[u] = "stored" /\ paper'[u] = p /\ kind'[u] = k
        /\ \A v \in Uploads : v # u => /\ stageOf'[v] = stageOf[v] /\ paper'[v] = paper[v]
                                       /\ kind'[v] = kind[v]
    BY <1>1 DEF PutFile, PapersInv, PapersTypeOK
  <2>3. PapersTypeOK' /\ FilesAreHeld'
    BY <2>1, <2>2 DEF PapersInv, PapersTypeOK, FilesAreHeld
  <2>4. BroughtIsFresh'
    BY <2>1, <2>2 DEF PapersInv, BroughtIsFresh
  <2>5. ReplacedIsKnown'
    BY <2>1, <2>2 DEF PapersInv, ReplacedIsKnown
  <2> QED BY <2>1, <2>3, <2>4, <2>5, TablesRest DEF PapersInv
<1>2. ASSUME NEW u \in Uploads, ReadReplaced(u) PROVE PapersInv' /\ PapersMoves
  <2>1. /\ stageOf[u] = "stored" /\ kind[u] \in Sorts
        /\ UNCHANGED <<alike, bucket, kindOf, newer, paper, kind>>
    BY <1>2 DEF ReadReplaced, PapersInv, BroughtIsFresh
  <2>2. PICK p \in Replaceable(kind[u]) \cup Named(kind[u]) :
          /\ replaces' = [replaces EXCEPT ![u] = p]
          /\ wasReplaced' = [wasReplaced EXCEPT ![u] = p # Nothing /\ newer[p] # Nothing]
    BY <1>2 DEF ReadReplaced
  <2>3. p = Nothing \/ /\ p \in Papers /\ kindOf[p] # Nothing
                       /\ alike => kindOf[p] = kind[u]
    BY DEF Replaceable, Named, Live
  <2>4. /\ stageOf' \in [Uploads -> {"idle", "stored", "decided"}]
        /\ replaces' \in [Uploads -> Papers \cup {Nothing}]
        /\ stageOf'[u] = "decided" /\ replaces'[u] = p
        /\ \A v \in Uploads : v # u => stageOf'[v] = stageOf[v] /\ replaces'[v] = replaces[v]
    BY <1>2, <2>2, <2>3 DEF ReadReplaced, PapersInv, PapersTypeOK
  <2>5. wasReplaced' \in [Uploads -> BOOLEAN]
    BY <2>2 DEF PapersInv, PapersTypeOK
  <2>6. PapersTypeOK' /\ FilesAreHeld'
    BY <2>1, <2>4, <2>5 DEF PapersInv, PapersTypeOK, FilesAreHeld
  <2>7. BroughtIsFresh'
    BY <2>1, <2>4 DEF PapersInv, BroughtIsFresh
  <2>8. ReplacedIsKnown'
    BY <2>1, <2>3, <2>4 DEF PapersInv, ReplacedIsKnown
  <2> QED BY <2>1, <2>6, <2>7, <2>8, TablesRest DEF PapersInv
<1>3. ASSUME NEW u \in Uploads, Record(u) PROVE PapersInv' /\ PapersMoves
  <2>1. /\ stageOf[u] = "decided" /\ IndexAllows(paper[u], kind[u], replaces[u]) /\ PutAway(u)
        /\ UNCHANGED <<alike, bucket>>
    BY <1>3 DEF Record, Received, Superseded
  <2> DEFINE new == paper[u]
             old == replaces[u]
             k == kind[u]
  <2>2. /\ kindOf' \in [Papers -> Sorts \cup {Nothing}] /\ newer' \in [Papers -> Papers \cup {Nothing}]
        /\ new \in Papers /\ k \in Sorts /\ kindOf[new] = Nothing
        /\ newer[new] = Nothing /\ newer'[new] = Nothing
        /\ kindOf'[new] = k /\ \A p \in Papers : p # new => kindOf'[p] = kindOf[p]
        /\ \A p \in Papers : p # old => newer'[p] = newer[p]
        /\ old # Nothing => /\ old \in Papers /\ kindOf[old] # Nothing
                            /\ old # new /\ newer'[old] = new
        /\ alike /\ old # Nothing => kindOf[old] = k
    BY <1>3, Recorded
  <2>3. new \in bucket /\ \A v \in Uploads : stageOf[v] # "idle" /\ paper[v] = new => v = u
    BY <2>1 DEF PapersInv, BroughtIsFresh
  <2>4. \A p \in Papers \ {new, old} : Live(p) => kindOf[p] # k
    BY <2>1 DEF IndexAllows
  <2> HIDE DEF new, old, k
  <2>5. PapersTypeOK'
    <3>1. ASSUME NEW p \in Papers, newer'[p] # Nothing
          PROVE  kindOf'[p] # Nothing /\ kindOf'[newer'[p]] # Nothing
      <4>1. CASE p = old
        BY <2>2, <3>1, <4>1, PapersAssumption
      <4>2. CASE p # old
        <5>1. /\ newer'[p] = newer[p] /\ newer[p] \in Papers
              /\ kindOf[p] # Nothing /\ kindOf[newer[p]] # Nothing
          BY <2>2, <3>1, <4>2 DEF PapersInv, PapersTypeOK
        <5> QED BY <2>2, <5>1, PapersAssumption
      <4> QED BY <4>1, <4>2
    <3> QED BY <2>1, <2>2, <3>1, AwayPut DEF PapersInv, PapersTypeOK
  <2>6. FilesAreHeld'
    BY <2>1, <2>2, <2>3 DEF PapersInv, FilesAreHeld
  <2>7. BroughtIsFresh'
    <3>1. ASSUME NEW v \in Uploads, stageOf'[v] # "idle"
          PROVE  /\ v # u /\ stageOf[v] # "idle" /\ paper'[v] = paper[v] /\ kind'[v] = kind[v]
                 /\ paper[v] # new
      BY <2>1, <2>3, <3>1, AwayPut
    <3>2. ASSUME NEW v \in Uploads, stageOf'[v] # "idle"
          PROVE  paper[v] \in Papers /\ kindOf'[paper[v]] = Nothing
      BY <2>2, <3>1, <3>2 DEF PapersInv, PapersTypeOK, BroughtIsFresh
    <3> QED BY <2>1, <3>1, <3>2 DEF PapersInv, BroughtIsFresh
  <2>8. ReplacedIsKnown'
    <3>1. ASSUME NEW v \in Uploads, stageOf'[v] = "decided", replaces'[v] # Nothing
          PROVE  /\ kindOf'[replaces'[v]] # Nothing
                 /\ alike => kindOf'[replaces'[v]] = kind'[v]
      <4>1. /\ v # u /\ stageOf[v] = "decided" /\ replaces'[v] = replaces[v] /\ kind'[v] = kind[v]
            /\ replaces[v] \in Papers /\ kindOf[replaces[v]] # Nothing
            /\ alike => kindOf[replaces[v]] = kind[v]
        BY <2>1, <3>1, AwayPut DEF PapersInv, PapersTypeOK, ReplacedIsKnown
      <4> QED BY <2>2, <4>1
    <3> QED BY <2>1, <3>1 DEF ReplacedIsKnown
  <2>9. alike => \A p \in Papers : Live(p) =>
                    \E q \in Papers : kindOf'[q] = kindOf[p] /\ newer'[q] = Nothing
    <3>1. ASSUME alike, NEW p \in Papers, Live(p)
          PROVE  \E q \in Papers : kindOf'[q] = kindOf[p] /\ newer'[q] = Nothing
      <4>1. CASE p = old
        BY <2>2, <3>1, <4>1, PapersAssumption DEF Live
      <4>2. CASE p # old
        BY <2>2, <3>1, <4>2 DEF Live
      <4> QED BY <4>1, <4>2
    <3> QED BY <3>1
  <2>10. KindIsCurrent'
    <3>1. ASSUME alike, NEW p \in Papers, kindOf'[p] # Nothing
          PROVE  \E q \in Papers : /\ kindOf'[q] # Nothing /\ newer'[q] = Nothing
                                   /\ kindOf'[q] = kindOf'[p]
      <4>1. CASE p = new
        BY <2>2, <3>1, <4>1
      <4>2. CASE p # new
        <5>1. PICK q \in Papers : Live(q) /\ kindOf[q] = kindOf[p]
          BY <2>2, <3>1, <4>2 DEF PapersInv, KindIsCurrent
        <5> QED BY <2>2, <2>9, <3>1, <4>2, <5>1
      <4> QED BY <4>1, <4>2
    <3> QED BY <2>1, <3>1 DEF KindIsCurrent, Live
  <2>11. ASSUME alike, NEW p \in Papers, newer[p] # Nothing PROVE newer'[p] = newer[p]
    <3>1. CASE p # old
      BY <2>2, <3>1
    <3>2. CASE p = old
      <4>1. kindOf[p] = k /\ kindOf[p] # Nothing
        BY <2>2, <2>11, <3>2, PapersAssumption DEF PapersInv, PapersTypeOK
      <4>2. PICK q \in Papers : Live(q) /\ kindOf[q] = k
        BY <2>11, <4>1 DEF PapersInv, KindIsCurrent
      <4>3. q # old /\ q # new
        BY <2>2, <2>11, <3>2, <4>2 DEF Live
      <4> QED BY <2>4, <4>2, <4>3
    <3> QED BY <3>1, <3>2
  <2>12. PapersMoves
    BY <2>9, <2>11 DEF PapersMoves
  <2> QED BY <2>5, <2>6, <2>7, <2>8, <2>10, <2>12 DEF PapersInv
<1>4. ASSUME NEW u \in Uploads, Abandon(u) PROVE PapersInv' /\ PapersMoves
  <2>1. PutAway(u) /\ UNCHANGED <<alike, bucket, kindOf, newer>>
    BY <1>4 DEF Abandon
  <2>2. PapersTypeOK' /\ FilesAreHeld'
    BY <2>1, AwayPut DEF PapersInv, PapersTypeOK, FilesAreHeld
  <2>3. BroughtIsFresh'
    BY <2>1, AwayPut DEF PapersInv, BroughtIsFresh
  <2>4. ReplacedIsKnown'
    BY <2>1, AwayPut DEF PapersInv, ReplacedIsKnown
  <2> QED BY <2>1, <2>2, <2>3, <2>4, TablesRest DEF PapersInv
<1>5. CASE UNCHANGED papersVars
  BY <1>5, TablesRest
     DEF papersVars, PapersInv, PapersTypeOK, FilesAreHeld, BroughtIsFresh, ReplacedIsKnown
<1> QED BY <1>1, <1>2, <1>3, <1>4, <1>5 DEF PapersNext

\* For any documents and any uploads at once: a document on record has its file, a kind
\* once held keeps a current document, and what replaced what stays on record
\* (documents.ts, document.repository.ts).
THEOREM PapersStandForAny == PapersSpec => PapersStand
<1>1. PapersInv => PapersTypeOK /\ \A p \in Papers : kindOf[p] # Nothing => p \in bucket
  BY DEF PapersInv, FilesAreHeld
<1>2. PapersMoves
        => /\ alike => \A k \in Sorts :
                (\E p \in Papers : Live(p) /\ kindOf[p] = k)
                  => \E p \in Papers : kindOf'[p] = k /\ newer'[p] = Nothing
           /\ alike => \A p \in Papers : newer[p] # Nothing => newer'[p] = newer[p]
  BY DEF PapersMoves
<1> QED BY <1>1, <1>2, PapersStart, PapersGoOn, PTL
        DEF PapersSpec, PapersStand, KindStaysCurrent, HistoryStands

-----------------------------------------------------------------------------
(* The papers chosen together.                                             *)

\* The rows the page still holds of a file: to be sent and refused while an upload
\* goes on, on the list between uploads.
Held(s) == IF filing THEN sending[s] # NotListed \/ left[s] # NotListed ELSE shown[s] # NotListed

\* A row is of a file that was chosen, and is sent once.
RowsAreOfChosen ==
    \A s \in Scans :
        /\ shown[s] # NotListed \/ Held(s) => s \in wanted
        /\ sending[s] # NotListed => filing /\ left[s] = NotListed

\* A file that is on file and held all the same is one whose answer was lost.
HeldIfMissed == \A s \in Scans : Held(s) /\ shelf[s] # {} => s \in missed

CopiesCounted == \A s \in Scans : copies[s] > 0 <=> shelf[s] # {}

\* Among careful people a note is under a kind that asks for it, ...
Meant(row) == row # NotListed /\ row.note => row.kind \in Noted
NotesAreMeant ==
    careful => \A s \in Scans : Meant(shown[s]) /\ Meant(sending[s]) /\ (filing => Meant(left[s]))

\* ... and a file chosen is held or on file.
NothingDropped == careful => \A s \in wanted : Held(s) \/ shelf[s] # {}

\* What the upload will leave the page with.
AnswerIsTrue ==
    filing /\ missed = {} =>
        (IF answered = {} THEN inPage ELSE answered) = {s \in Scans : shelf[s] # {}}

ListInv ==
    /\ ListHolds
    /\ RowsAreOfChosen /\ HeldIfMissed /\ CopiesCounted /\ NotesAreMeant /\ NothingDropped
    /\ AnswerIsTrue

LEMMA ListStarts == ListInit => ListInv
<1> SUFFICES ASSUME ListInit PROVE ListInv
  OBVIOUS
<1>1. \A s \in Scans : /\ shown[s] = NotListed /\ sending[s] = NotListed /\ left[s] = NotListed
                       /\ shelf[s] = {} /\ copies[s] = 0
  BY DEF ListInit, Empty
<1>2. ListTypeOK
  BY DEF ListInit, ListTypeOK, Empty
<1>3. NothingVanishes /\ FiledAsShown /\ FiledOnce /\ PageIsTrue /\ CopiesCounted
  BY <1>1 DEF ListInit, NothingVanishes, FiledAsShown, FiledOnce, PageIsTrue, CopiesCounted
<1>4. RowsAreOfChosen /\ HeldIfMissed /\ NotesAreMeant /\ NothingDropped /\ AnswerIsTrue
  BY <1>1 DEF ListInit, RowsAreOfChosen, HeldIfMissed, NotesAreMeant, NothingDropped, AnswerIsTrue, Held, Meant
<1> QED BY <1>2, <1>3, <1>4 DEF ListInv, ListHolds

\* A field of a row typed over.
LEMMA RowTyped ==
  ASSUME ListInv, NEW s \in Scans, MayEdit(s), NEW row \in ListRows,
         shown' \in [Scans -> ListRows \cup {NotListed}], shown'[s] = row,
         \A t \in Scans : t # s => shown'[t] = shown[t],
         careful => Meant(row),
         UNCHANGED <<careful, wanted, sending, left, filing, answered, shelf, copies, missed, inPage>>
  PROVE  ListInv'
<1>1. shown[s] # NotListed /\ ~ filing /\ row # NotListed
  BY ListAssumption DEF MayEdit
<1>2. \A t \in Scans : shown'[t] # NotListed <=> shown[t] # NotListed
  BY <1>1
<1>3. ListTypeOK' /\ FiledAsShown' /\ FiledOnce' /\ CopiesCounted'
  BY DEF ListInv, ListHolds, ListTypeOK, FiledAsShown, FiledOnce, CopiesCounted
<1>4. NothingVanishes' /\ PageIsTrue'
  BY <1>1, <1>2 DEF ListInv, ListHolds, ListTypeOK, NothingVanishes, PageIsTrue
<1>5. RowsAreOfChosen' /\ HeldIfMissed' /\ NothingDropped' /\ AnswerIsTrue'
  BY <1>1, <1>2
     DEF ListInv, ListHolds, ListTypeOK, RowsAreOfChosen, HeldIfMissed, NothingDropped, AnswerIsTrue, Held
<1>6. NotesAreMeant'
  <2> SUFFICES ASSUME careful, NEW t \in Scans
               PROVE  Meant(shown'[t]) /\ Meant(sending[t])
    BY <1>1 DEF NotesAreMeant, Meant
  <2> QED BY DEF ListInv, NotesAreMeant
<1> QED BY <1>3, <1>4, <1>5, <1>6 DEF ListInv, ListHolds

\* A row sent, and filed or not; refused or filed without an answer, it stays.
LEMMA RowGone ==
  ASSUME ListInv, NEW s \in Scans, sending[s] # NotListed,
         sending' = [sending EXCEPT ![s] = NotListed],
         NEW filed \in BOOLEAN, NEW stays \in BOOLEAN, filed \/ stays,
         filed => FileRow(s), ~ filed => UNCHANGED <<shelf, copies>>,
         stays => Stays(s), ~ stays => UNCHANGED left,
         missed' = IF filed /\ stays THEN missed \cup {s} ELSE missed,
         answered' = IF filed /\ ~ stays THEN {f \in Scans : copies'[f] > 0} ELSE answered,
         UNCHANGED <<careful, wanted, shown, filing, inPage>>
  PROVE  ListInv'
<1> DEFINE row == sending[s]
           back == [sending[s] EXCEPT !.error = TRUE]
<1>1. filing /\ s \in wanted /\ left[s] = NotListed /\ row \in ListRows /\ (careful => Meant(row))
      /\ (shelf[s] # {} => s \in missed)
  BY DEF ListInv, ListHolds, ListTypeOK, RowsAreOfChosen, HeldIfMissed, NotesAreMeant, Held
<1>2. back \in ListRows /\ (careful => Meant(back))
  BY <1>1 DEF ListRows, Meant
<1>3. back # NotListed
  BY <1>2, ListAssumption
<1>4. /\ sending' \in [Scans -> ListRows \cup {NotListed}] /\ sending'[s] = NotListed
      /\ \A t \in Scans : t # s => sending'[t] = sending[t]
  BY DEF ListInv, ListHolds, ListTypeOK
<1>5. /\ left' \in [Scans -> ListRows \cup {NotListed}]
      /\ left'[s] = IF stays THEN back ELSE NotListed
      /\ \A t \in Scans : t # s => left'[t] = left[t]
  <2>1. CASE stays
    BY <1>2, <2>1 DEF Stays, ListInv, ListHolds, ListTypeOK
  <2>2. CASE ~ stays
    BY <1>1, <2>2 DEF ListInv, ListHolds, ListTypeOK
  <2> QED BY <2>1, <2>2
<1>6. /\ shelf' \in [Scans -> SUBSET ListRows] /\ copies' \in [Scans -> Nat]
      /\ shelf'[s] = IF filed THEN shelf[s] \cup {row} ELSE shelf[s]
      /\ copies'[s] = IF filed THEN copies[s] + 1 ELSE copies[s]
      /\ \A t \in Scans : t # s => shelf'[t] = shelf[t] /\ copies'[t] = copies[t]
  <2>1. CASE filed
    BY <1>1, <2>1 DEF FileRow, ListInv, ListHolds, ListTypeOK
  <2>2. CASE ~ filed
    BY <2>2 DEF ListInv, ListHolds, ListTypeOK
  <2> QED BY <2>1, <2>2
<1>7. filed => /\ row.dates # "backwards"
               /\ row.kind \in MustExpire => row.dates = "in order"
               /\ careful /\ row.note => row.kind \in Noted
  BY <1>1, ListAssumption DEF FileRow, Refuses, MissingExpiry, ListRows, Dates, Meant
<1> HIDE DEF row, back
<1>8. missed \subseteq missed' /\ (stays /\ filed => s \in missed')
      /\ missed' \subseteq missed \cup {s}
  OBVIOUS
<1>9. ListTypeOK'
  BY <1>4, <1>5, <1>6, <1>8 DEF ListInv, ListHolds, ListTypeOK
<1>10. CopiesCounted'
  <2>1. copies[s] \in Nat /\ (copies[s] > 0 <=> shelf[s] # {})
    BY DEF ListInv, ListHolds, ListTypeOK, CopiesCounted
  <2>2. copies'[s] > 0 <=> shelf'[s] # {}
    BY <1>6, <2>1
  <2> QED BY <1>6, <2>2 DEF ListInv, CopiesCounted
<1>11. FiledAsShown'
  <2> SUFFICES ASSUME NEW t \in Scans, NEW r \in shelf'[t]
               PROVE  /\ r.dates # "backwards"
                      /\ r.kind \in MustExpire => r.dates = "in order"
                      /\ careful /\ r.note => r.kind \in Noted
                      /\ t \in wanted \/ t \in missed'
    BY DEF FiledAsShown
  <2>1. CASE t = s
    BY <1>1, <1>6, <1>7, <2>1 DEF ListInv, ListHolds, FiledAsShown
  <2>2. CASE t # s
    BY <1>6, <1>8, <2>2 DEF ListInv, ListHolds, FiledAsShown
  <2> QED BY <2>1, <2>2
<1>12. FiledOnce'
  <2>1. copies[s] \in Nat /\ (copies[s] > 0 => s \in missed)
    BY <1>1 DEF ListInv, ListHolds, ListTypeOK, CopiesCounted
  <2>2. copies'[s] > 1 => s \in missed'
    BY <1>6, <1>8, <2>1
  <2> QED BY <1>6, <1>8, <2>2 DEF ListInv, ListHolds, FiledOnce
<1>13. NothingVanishes' /\ PageIsTrue'
  BY <1>1, <1>6 DEF ListInv, ListHolds, ListTypeOK, NothingVanishes, PageIsTrue
<1>14. RowsAreOfChosen'
  BY <1>1, <1>4, <1>5 DEF ListInv, RowsAreOfChosen, Held
<1>15. HeldIfMissed'
  <2>1. Held(s)' /\ shelf'[s] # {} => s \in missed'
    BY <1>1, <1>4, <1>5, <1>6, <1>8 DEF Held
  <2> QED BY <1>1, <1>4, <1>5, <1>6, <1>8, <2>1 DEF ListInv, HeldIfMissed, Held
<1>16. NotesAreMeant'
  <2> SUFFICES ASSUME careful, NEW t \in Scans
               PROVE  Meant(shown[t]) /\ Meant(sending'[t]) /\ Meant(left'[t])
    BY DEF NotesAreMeant, Meant
  <2>1. Meant(shown[t]) /\ Meant(sending[t]) /\ Meant(left[t])
    BY <1>1 DEF ListInv, NotesAreMeant
  <2>2. Meant(NotListed)
    BY DEF Meant
  <2> QED BY <1>2, <1>4, <1>5, <2>1, <2>2
<1>17. NothingDropped'
  <2>1. Held(s)' \/ shelf'[s] # {}
    BY <1>1, <1>3, <1>5, <1>6 DEF Held
  <2> QED BY <1>1, <1>4, <1>5, <1>6, <2>1 DEF ListInv, ListHolds, ListTypeOK, NothingDropped, Held
<1>18. AnswerIsTrue'
  <2> SUFFICES ASSUME missed' = {}
               PROVE  (IF answered' = {} THEN inPage ELSE answered') = {t \in Scans : shelf'[t] # {}}
    BY DEF AnswerIsTrue
  <2>1. missed = {} /\ ~ (filed /\ stays)
    BY <1>8
  <2>2. CASE filed
    <3>1. answered' = {t \in Scans : shelf'[t] # {}} /\ s \in answered'
      BY <1>6, <1>10, <2>1, <2>2 DEF CopiesCounted
    <3> QED BY <3>1
  <2>3. CASE ~ filed
    BY <1>1, <2>1, <2>3 DEF ListInv, AnswerIsTrue
  <2> QED BY <2>2, <2>3
<1> QED BY <1>9, <1>10, <1>11, <1>12, <1>13, <1>14, <1>15, <1>16, <1>17, <1>18 DEF ListInv, ListHolds

LEMMA ListGoesOn == ListInv /\ [ListNext]_listVars => ListInv'
<1> SUFFICES ASSUME ListInv, [ListNext]_listVars PROVE ListInv'
  OBVIOUS
<1>1. ASSUME NEW filed \in SUBSET Scans, Take(filed) PROVE ListInv'
  <2> DEFINE fresh(s) == [kind |-> Guess[s], dates |-> "missing", note |-> FALSE, error |-> FALSE]
  <2>1. /\ filed \cap wanted = {} /\ (filing => ~ careful) /\ wanted' = wanted \cup filed
        /\ UNCHANGED <<careful, sending, left, filing, answered, shelf, copies, missed, inPage>>
    BY <1>1 DEF Take
  <2>2. \A s \in Scans : fresh(s) \in ListRows /\ fresh(s) # NotListed /\ Meant(fresh(s))
    <3>1. \A s \in Scans : fresh(s) \in ListRows /\ fresh(s).note = FALSE
      BY ListAssumption DEF ListRows, Dates
    <3> QED BY <3>1, ListAssumption DEF Meant
  <2>3. shown' = [s \in Scans |-> IF s \in filed THEN fresh(s) ELSE shown[s]]
    BY <1>1 DEF Take
  <2> HIDE DEF fresh
  <2>4. \A s \in Scans : shown'[s] = IF s \in filed THEN fresh(s) ELSE shown[s]
    BY <2>3
  <2>5. ListTypeOK'
    BY <2>1, <2>2, <2>3 DEF ListInv, ListHolds, ListTypeOK
  <2>6. \A s \in filed : shelf[s] # {} => s \in missed
    BY <2>1 DEF ListInv, ListHolds, FiledAsShown, ListTypeOK
  <2>7. NothingVanishes' /\ FiledAsShown' /\ FiledOnce' /\ CopiesCounted'
    BY <2>1, <2>2, <2>4
       DEF ListInv, ListHolds, ListTypeOK, NothingVanishes, FiledAsShown, FiledOnce, CopiesCounted
  <2>8. PageIsTrue' /\ AnswerIsTrue'
    BY <2>1, <2>4, <2>6 DEF ListInv, ListHolds, ListTypeOK, PageIsTrue, AnswerIsTrue
  <2>9. RowsAreOfChosen' /\ HeldIfMissed'
    BY <2>1, <2>4, <2>6 DEF ListInv, RowsAreOfChosen, HeldIfMissed, Held
  <2>10. NothingDropped'
    BY <2>1, <2>2, <2>4 DEF ListInv, ListHolds, ListTypeOK, NothingDropped, Held
  <2>11. NotesAreMeant'
    <3> SUFFICES ASSUME careful, NEW s \in Scans
                 PROVE  Meant(shown'[s]) /\ Meant(sending[s]) /\ (filing => Meant(left[s]))
      BY <2>1 DEF NotesAreMeant, Meant
    <3> QED BY <2>2, <2>4 DEF ListInv, NotesAreMeant
  <2> QED BY <2>5, <2>7, <2>8, <2>9, <2>10, <2>11 DEF ListInv, ListHolds
<1>2. ASSUME NEW filed \in SUBSET Scans, TakeOff(filed) PROVE ListInv'
  <2>1. /\ filed # {} /\ \A s \in filed : shown[s] # NotListed /\ ~ filing
        /\ wanted' = wanted \ filed
        /\ shown' = [s \in Scans |-> IF s \in filed THEN NotListed ELSE shown[s]]
        /\ UNCHANGED <<careful, sending, left, filing, answered, shelf, copies, missed, inPage>>
    BY <1>2 DEF TakeOff, MayEdit
  <2>2. ~ filing /\ \A s \in Scans : shown'[s] = IF s \in filed THEN NotListed ELSE shown[s]
    BY <2>1
  <2>3. \A s \in filed : shelf[s] # {} => s \in missed
    BY <2>1 DEF ListInv, HeldIfMissed, Held
  <2>4. ListTypeOK'
    BY <2>1 DEF ListInv, ListHolds, ListTypeOK
  <2>5. NothingVanishes' /\ FiledOnce' /\ CopiesCounted'
    BY <2>1, <2>2 DEF ListInv, ListHolds, ListTypeOK, NothingVanishes, FiledOnce, CopiesCounted
  <2>6. FiledAsShown'
    BY <2>1, <2>3 DEF ListInv, ListHolds, ListTypeOK, FiledAsShown
  <2>7. PageIsTrue' /\ AnswerIsTrue'
    BY <2>1, <2>2 DEF ListInv, ListHolds, ListTypeOK, PageIsTrue, AnswerIsTrue
  <2>8. RowsAreOfChosen' /\ HeldIfMissed' /\ NothingDropped'
    BY <2>1, <2>2 DEF ListInv, ListHolds, ListTypeOK, RowsAreOfChosen, HeldIfMissed, NothingDropped, Held
  <2>9. NotesAreMeant'
    <3> SUFFICES ASSUME careful, NEW s \in Scans
                 PROVE  Meant(shown'[s]) /\ Meant(sending[s])
      BY <2>1, <2>2 DEF NotesAreMeant, Meant
    <3>1. Meant(NotListed)
      BY DEF Meant
    <3> QED BY <2>2, <3>1 DEF ListInv, NotesAreMeant
  <2> QED BY <2>4, <2>5, <2>6, <2>7, <2>8, <2>9 DEF ListInv, ListHolds
<1>3. ASSUME NEW s \in Scans, NEW k \in Kinds, ChangeKind(s, k) PROVE ListInv'
  <2> DEFINE row == [shown[s] EXCEPT !.kind = k, !.error = FALSE]
  <2>1. shown[s] \in ListRows /\ MayEdit(s) /\ (careful => ~ shown[s].note)
    BY <1>3 DEF ChangeKind, MayEdit, ListInv, ListHolds, ListTypeOK
  <2>2. row \in ListRows /\ (careful => ~ row.note)
    BY <2>1 DEF ListRows
  <2>3. /\ shown' \in [Scans -> ListRows \cup {NotListed}] /\ shown'[s] = row
        /\ \A t \in Scans : t # s => shown'[t] = shown[t]
    BY <1>3, <2>1, <2>2 DEF ChangeKind, ListInv, ListHolds, ListTypeOK, ListRows
  <2> HIDE DEF row
  <2> QED BY <1>3, <2>1, <2>2, <2>3, RowTyped DEF ChangeKind, Meant
<1>4. ASSUME NEW s \in Scans, NEW dates \in Dates, TypeDates(s, dates) PROVE ListInv'
  <2> DEFINE row == [shown[s] EXCEPT !.dates = dates, !.error = FALSE]
  <2>1. shown[s] \in ListRows /\ MayEdit(s) /\ (careful => Meant(shown[s]))
    BY <1>4 DEF TypeDates, MayEdit, ListInv, ListHolds, ListTypeOK, NotesAreMeant
  <2>2. row \in ListRows /\ row.note = shown[s].note /\ row.kind = shown[s].kind
    BY <2>1 DEF ListRows
  <2>3. /\ shown' \in [Scans -> ListRows \cup {NotListed}] /\ shown'[s] = row
        /\ \A t \in Scans : t # s => shown'[t] = shown[t]
    BY <1>4, <2>1, <2>2 DEF TypeDates, ListInv, ListHolds, ListTypeOK, ListRows
  <2> HIDE DEF row
  <2>4. careful => Meant(row)
    BY <2>1, <2>2 DEF Meant, MayEdit
  <2> QED BY <1>4, <2>1, <2>2, <2>3, <2>4, RowTyped DEF TypeDates
<1>5. ASSUME NEW s \in Scans, TypeNote(s) PROVE ListInv'
  <2> DEFINE row == [shown[s] EXCEPT !.note = TRUE, !.error = FALSE]
  <2>1. shown[s] \in ListRows /\ MayEdit(s) /\ shown[s].kind \in Noted
    BY <1>5 DEF TypeNote, MayEdit, ListInv, ListHolds, ListTypeOK
  <2>2. row \in ListRows /\ row.kind = shown[s].kind
    BY <2>1 DEF ListRows
  <2>3. /\ shown' \in [Scans -> ListRows \cup {NotListed}] /\ shown'[s] = row
        /\ \A t \in Scans : t # s => shown'[t] = shown[t]
    BY <1>5, <2>1, <2>2 DEF TypeNote, ListInv, ListHolds, ListTypeOK, ListRows
  <2> HIDE DEF row
  <2> QED BY <1>5, <2>1, <2>2, <2>3, RowTyped DEF TypeNote, Meant
<1>6. ASSUME NEW s \in Scans, SendRow(s) PROVE ListInv'
  <2>1. /\ sending[s] # NotListed /\ sending' = [sending EXCEPT ![s] = NotListed]
        /\ UNCHANGED <<careful, wanted, shown, filing, inPage>>
    BY <1>6 DEF SendRow, Sent
  <2>2. CASE FileRow(s) /\ answered' = {f \in Scans : copies'[f] > 0} /\ UNCHANGED <<left, missed>>
    <3>1. \E filed, stays \in BOOLEAN : filed = TRUE /\ stays = FALSE
      OBVIOUS
    <3> QED BY <2>1, <2>2, <3>1, RowGone
  <2>3. CASE Refuses(sending[s]) /\ Stays(s) /\ UNCHANGED <<answered, shelf, copies, missed>>
    <3>1. \E filed, stays \in BOOLEAN : filed = FALSE /\ stays = TRUE
      OBVIOUS
    <3> QED BY <2>1, <2>3, <3>1, RowGone
  <2>4. CASE FileRow(s) /\ missed' = missed \cup {s} /\ Stays(s) /\ UNCHANGED answered
    <3>1. \E filed, stays \in BOOLEAN : filed = TRUE /\ stays = TRUE
      OBVIOUS
    <3> QED BY <2>1, <2>4, <3>1, RowGone
  <2> QED BY <1>6, <2>2, <2>3, <2>4 DEF SendRow
<1>7. CASE Upload
  <2>1. /\ ~ filing /\ filing' = TRUE /\ sending' = shown /\ left' = Empty /\ answered' = {}
        /\ UNCHANGED <<careful, wanted, shown, shelf, copies, missed, inPage>>
    BY <1>7 DEF Upload
  <2>2. left' \in [Scans -> ListRows \cup {NotListed}] /\ \A s \in Scans : left'[s] = NotListed
    BY <2>1 DEF Empty
  <2>3. ListTypeOK'
    BY <2>1, <2>2 DEF ListInv, ListHolds, ListTypeOK
  <2>4. NothingVanishes' /\ FiledAsShown' /\ FiledOnce' /\ CopiesCounted'
    BY <2>1 DEF ListInv, ListHolds, NothingVanishes, FiledAsShown, FiledOnce, CopiesCounted
  <2>5. PageIsTrue' /\ AnswerIsTrue'
    BY <2>1 DEF ListInv, ListHolds, PageIsTrue, AnswerIsTrue
  <2>6. RowsAreOfChosen' /\ HeldIfMissed' /\ NothingDropped'
    BY <2>1, <2>2 DEF ListInv, ListHolds, ListTypeOK, RowsAreOfChosen, HeldIfMissed, NothingDropped, Held
  <2>7. NotesAreMeant'
    BY <2>1, <2>2 DEF ListInv, NotesAreMeant, Meant
  <2> QED BY <2>3, <2>4, <2>5, <2>6, <2>7 DEF ListInv, ListHolds
<1>8. CASE EndUpload
  <2>1. /\ filing /\ shown' = left /\ filing' = FALSE
        /\ inPage' = IF answered # {} THEN answered ELSE inPage
        /\ UNCHANGED <<careful, wanted, sending, left, answered, shelf, copies, missed>>
    BY <1>8 DEF EndUpload
  <2>2. \A s \in Scans : sending[s] = NotListed
    BY <1>8 DEF EndUpload, OnList
  <2>3. ListTypeOK'
    BY <2>1 DEF ListInv, ListHolds, ListTypeOK
  <2>4. FiledAsShown' /\ FiledOnce' /\ CopiesCounted'
    BY <2>1 DEF ListInv, ListHolds, FiledAsShown, FiledOnce, CopiesCounted
  <2>5. RowsAreOfChosen' /\ HeldIfMissed' /\ NothingDropped'
    BY <2>1, <2>2 DEF ListInv, ListHolds, ListTypeOK, RowsAreOfChosen, HeldIfMissed, NothingDropped, Held
  <2>6. NothingVanishes'
    BY <2>1, <2>5 DEF NothingVanishes, NothingDropped, Held
  <2>7. PageIsTrue'
    <3> SUFFICES ASSUME missed = {}
                 PROVE  /\ inPage' = {s \in Scans : shelf[s] # {}}
                        /\ \A s \in inPage' : shown'[s] = NotListed
      BY <2>1 DEF PageIsTrue
    <3>1. inPage' = {s \in Scans : shelf[s] # {}}
      BY <2>1 DEF ListInv, AnswerIsTrue
    <3> QED BY <2>1, <2>5, <3>1 DEF HeldIfMissed, Held
  <2>8. NotesAreMeant' /\ AnswerIsTrue'
    BY <2>1 DEF ListInv, NotesAreMeant, Meant, AnswerIsTrue
  <2> QED BY <2>3, <2>4, <2>5, <2>6, <2>7, <2>8 DEF ListInv, ListHolds
<1>9. CASE UNCHANGED listVars
  BY <1>9 DEF listVars, ListInv, ListHolds, ListTypeOK, NothingVanishes, FiledAsShown, FiledOnce, PageIsTrue,
     RowsAreOfChosen, HeldIfMissed, CopiesCounted, NotesAreMeant, NothingDropped, AnswerIsTrue, Held, Meant
<1> QED BY <1>1, <1>2, <1>3, <1>4, <1>5, <1>6, <1>7, <1>8, <1>9 DEF ListNext

\* For any files, kinds and lost answers: what is chosen is filed as it was shown, once
\* but for lost answers, and the page and the list say so (document-upload.tsx).
THEOREM ListHoldsForAny == ListSpec => []ListHolds
<1>1. ListInv => ListHolds
  BY DEF ListInv
<1> QED BY <1>1, ListStarts, ListGoesOn, PTL DEF ListSpec

-----------------------------------------------------------------------------
(* The record: details saved from a form that ages, and the vault.         *)

USE RecordAssumption

NumbersOrNone == Numbers \cup {Absent}
ClientForms == [client : OnBooks, number : NumbersOrNone, references : SUBSET References]

\* Types, of what the requests hold too.
RecordTypes ==
    /\ RecordTypeOK
    /\ opens \in [Logins -> Places \cup {Absent}]
    /\ form \in [Keepers -> ClientForms \cup {NoForm}]
    /\ typed \in [Keepers -> [number : NumbersOrNone, references : SUBSET References]]
    /\ atHand \in [Keepers -> NumbersOrNone \cup Logins]
    /\ late \in [Keepers -> BOOLEAN]
    /\ owed \in [Keepers -> SUBSET Portals]
    /\ login \in [Keepers -> Logins \cup Places \cup {Absent}]

\* What each keeper has in hand fits what they are doing.
InHandFits(p) ==
    /\ doing[p] \in {"form", "sent", "vault"} \cup InDetails => form[p] # NoForm
    /\ doing[p] \in {"sent"} \cup InDetails /\ typed[p].number # Absent =>
          typed[p].number # form[p].number
    /\ doing[p] \in InDetails => atHand[p] \in NumbersOrNone
    /\ doing[p] = "replacing" =>
          /\ atHand[p] \in Logins \cup {Absent} /\ login[p] \in Places
          /\ form[p] # NoForm \/ owed[p] = {login[p].portal}
    /\ doing[p] \in {"retiring", "revealing", "recorded", "shown"} => login[p] \in Logins
    /\ doing[p] \in {"away", "form", "retiring", "revealing", "recorded", "shown"} => owed[p] = {}
    /\ doing[p] \in {"recorded", "shown"} => <<p, login[p]>> \in readBy

\* Where two changes of details never overlap, one is made of the row as it is,
\* and the references it empties are all there are.
OneAtATime ==
    apart =>
        /\ \A p, q \in Keepers : doing[p] \in InDetails /\ doing[q] \in InDetails => p = q
        /\ \A p \in Keepers : doing[p] \in InDetails => atHand[p] = vatNumber[form[p].client]
        /\ \A p \in Keepers : ~ late[p]

OneIsLive == \A c \in OnBooks, portal \in Portals : \A l, k \in LiveLogins(c, portal) : l = k

RecordInv ==
    /\ RecordTypes /\ (\A p \in Keepers : InHandFits(p))
    /\ OneAtATime /\ OneIsLive /\ OneNumberOneClient

\* The bodies of the three action properties.
NumberStandsStep ==
    \A c \in OnBooks : apart /\ vatNumber'[c] # vatNumber[c] =>
        \E p \in Keepers : doing[p] = "emptied" /\ doing'[p] # "emptied"
                            /\ typed[p].number # form[p].number
                            /\ vatNumber'[c] = typed[p].number
AsShownStep ==
    \A p \in Keepers : apart /\ doing[p] = "emptied" /\ doing'[p] \in {"away", "vault"} =>
        references'[form[p].client] = typed[p].references
LoginsStep ==
    /\ retired \subseteq retired'
    /\ \A l \in Logins : opens[l] # Absent => opens'[l] = opens[l]
RecordMoves == NumberStandsStep /\ AsShownStep /\ LoginsStep

LEMMA RecordStarts == RecordInit => RecordInv
<1> SUFFICES ASSUME RecordInit PROVE RecordInv
  OBVIOUS
<1>1. RecordTypes
  BY DEF RecordInit, RecordTypes, RecordTypeOK, NoForm, NothingTyped, NumbersOrNone, ClientForms, InDetails, InVault
<1>2. \A p \in Keepers : InHandFits(p)
  BY DEF RecordInit, InHandFits, InDetails
<1>3. OneAtATime
  BY DEF RecordInit, OneAtATime, InDetails
<1>4. OneIsLive
  BY DEF RecordInit, OneIsLive, LiveLogins, Places
<1> QED BY <1>1, <1>2, <1>3, <1>4 DEF RecordInit, RecordInv


\* A request that ends before its commit leaves the tables, and what it held fits.
LEMMA GivesUp ==
  ASSUME RecordInv, NEW p \in Keepers, GiveUp(p)
  PROVE  RecordInv' /\ RecordMoves
<1>1. RecordTypes'
  BY DEF RecordInv, RecordTypes, RecordTypeOK, GiveUp, clientRows, vaultRows, NothingTyped, NumbersOrNone, ClientForms, InDetails, InVault
<1>2. \A q \in Keepers : InHandFits(q)'
  BY DEF RecordInv, RecordTypes, RecordTypeOK, InHandFits, GiveUp, clientRows, vaultRows, NothingTyped, InDetails, InVault
<1>3. OneAtATime'
  BY DEF RecordInv, RecordTypes, RecordTypeOK, OneAtATime, GiveUp, clientRows, vaultRows, InDetails
<1>4. OneIsLive' /\ OneNumberOneClient'
  BY DEF RecordInv, OneIsLive, LiveLogins, OneNumberOneClient, GiveUp, clientRows, vaultRows
<1>5. RecordMoves
  BY DEF RecordInv, RecordTypes, RecordTypeOK, InHandFits, RecordMoves, NumberStandsStep, AsShownStep, LoginsStep, GiveUp, clientRows, vaultRows, InDetails
<1> QED BY <1>1, <1>2, <1>3, <1>4, <1>5 DEF RecordInv

LEMMA DetailsGoOn ==
  ASSUME RecordInv, NEW p \in Keepers, DetailsStep(p)
  PROVE  RecordInv' /\ RecordMoves
<1> USE DEF clientRows, vaultRows, recordBounds, InDetails
<1> DEFINE Rest == /\ OneIsLive' /\ OneNumberOneClient' /\ RecordMoves
<1>1. ASSUME NEW c \in OnBooks, OpenForm(p, c) PROVE RecordInv' /\ RecordMoves
  <2>1. RecordTypes'
    BY <1>1 DEF OpenForm, RecordInv, RecordTypes, RecordTypeOK, ClientForms, NumbersOrNone
  <2>2. form'[p] # NoForm
    BY <1>1 DEF OpenForm, RecordInv, RecordTypes, RecordTypeOK, NoForm
  <2>3. \A q \in Keepers : InHandFits(q)'
    BY <1>1, <2>2 DEF OpenForm, RecordInv, RecordTypes, RecordTypeOK, InHandFits
  <2>4. OneAtATime'
    BY <1>1 DEF OpenForm, RecordInv, RecordTypes, RecordTypeOK, OneAtATime
  <2>5. Rest
    BY <1>1 DEF OpenForm, RecordInv, RecordTypes, RecordTypeOK, OneIsLive, LiveLogins, OneNumberOneClient,
       RecordMoves, NumberStandsStep, AsShownStep, LoginsStep
  <2> QED BY <2>1, <2>3, <2>4, <2>5 DEF RecordInv
<1>2. CASE SaveForm(p)
  <2>1. PICK text \in Texts, list \in Lists(p), passwords \in SUBSET Portals :
           /\ typed' = [typed EXCEPT ![p] = [number |-> NumberSent(p, text), references |-> list]]
           /\ owed' = [owed EXCEPT ![p] = passwords]
    BY <1>2 DEF SaveForm
  <2>2. list \in SUBSET References /\ NumberSent(p, text) \in NumbersOrNone
        /\ (NumberSent(p, text) # Absent => NumberSent(p, text) # form[p].number)
    BY <2>1 DEF Lists, NumberSent, Texts, NumbersOrNone, RecordInv, RecordTypes, ClientForms, NoForm
  <2>3. RecordTypes'
    BY <1>2, <2>1, <2>2 DEF SaveForm, RecordInv, RecordTypes, RecordTypeOK
  <2>4. \A q \in Keepers : InHandFits(q)'
    BY <1>2, <2>1, <2>2 DEF SaveForm, RecordInv, RecordTypes, RecordTypeOK, InHandFits
  <2>5. OneAtATime'
    BY <1>2 DEF SaveForm, RecordInv, RecordTypes, RecordTypeOK, OneAtATime
  <2>6. Rest
    BY <1>2 DEF SaveForm, RecordInv, RecordTypes, RecordTypeOK, OneIsLive, LiveLogins, OneNumberOneClient,
       RecordMoves, NumberStandsStep, AsShownStep, LoginsStep
  <2> QED BY <2>3, <2>4, <2>5, <2>6 DEF RecordInv
<1>3. CASE ReadClient(p)
  <2>1. form[p].client \in OnBooks
    BY <1>3 DEF ReadClient, RecordInv, RecordTypes, InHandFits, ClientForms
  <2>2. RecordTypes'
    BY <1>3, <2>1 DEF ReadClient, RecordInv, RecordTypes, RecordTypeOK, NumbersOrNone
  <2>3. \A q \in Keepers : InHandFits(q)'
    BY <1>3, <2>1 DEF ReadClient, RecordInv, RecordTypes, RecordTypeOK, InHandFits, NumbersOrNone
  <2>4. OneAtATime'
    BY <1>3 DEF ReadClient, RecordInv, RecordTypes, RecordTypeOK, OneAtATime
  <2>5. Rest
    BY <1>3 DEF ReadClient, RecordInv, RecordTypes, RecordTypeOK, OneIsLive, LiveLogins, OneNumberOneClient,
       RecordMoves, NumberStandsStep, AsShownStep, LoginsStep
  <2> QED BY <2>2, <2>3, <2>4, <2>5 DEF RecordInv
<1>4. CASE CheckNumber(p) \/ EmptyReferences(p)
  <2>1. RecordTypes'
    BY <1>4 DEF CheckNumber, EmptyReferences, RecordInv, RecordTypes, RecordTypeOK
  <2>2. \A q \in Keepers : InHandFits(q)'
    BY <1>4 DEF CheckNumber, EmptyReferences, RecordInv, RecordTypes, RecordTypeOK, InHandFits
  <2>3. OneAtATime'
    <3>1. ASSUME apart, NEW q \in Keepers PROVE ~ late'[q]
      <4>1. late' = late \/ late' = [late EXCEPT ![p] = FALSE]
        BY <1>4 DEF CheckNumber, EmptyReferences
      <4>2. ~ late[q] /\ late \in [Keepers -> BOOLEAN]
        BY <3>1 DEF RecordInv, RecordTypes, OneAtATime
      <4> QED BY <4>1, <4>2
    <3>2. \A q \in Keepers : doing'[q] \in InDetails => doing[q] \in InDetails
      BY <1>4 DEF CheckNumber, EmptyReferences, RecordInv, RecordTypes, RecordTypeOK
    <3> QED BY <1>4, <3>1, <3>2 DEF CheckNumber, EmptyReferences, RecordInv, OneAtATime
  <2>4. Rest
    BY <1>4 DEF CheckNumber, EmptyReferences, RecordInv, RecordTypes, RecordTypeOK, OneIsLive, LiveLogins,
       OneNumberOneClient, RecordMoves, NumberStandsStep, AsShownStep, LoginsStep
  <2> QED BY <2>1, <2>2, <2>3, <2>4 DEF RecordInv
<1>5. CASE CommitDetails(p)
  <2> DEFINE whose == form[p].client
  <2>1. /\ whose \in OnBooks /\ NumberToSave(p) \in NumbersOrNone
        /\ ReferencesStaying(p) \in SUBSET References /\ typed[p].references \in SUBSET References
        /\ doing[p] = "emptied"
    BY <1>5 DEF CommitDetails, RecordInv, RecordTypes, RecordTypeOK, InHandFits, ClientForms, NumberToSave,
       ReferencesStaying
  <2>2. /\ vatNumber' = [vatNumber EXCEPT ![whose] = NumberToSave(p)]
        /\ references' = [references EXCEPT ![whose] = ReferencesStaying(p) \cup typed[p].references]
        /\ Leaving(p, owed[p]) /\ TablesAllow(p)
        /\ late' = [q \in Keepers |-> q # p /\ (late[q] \/ (doing[q] = "emptied" /\ form[q].client = whose))]
        /\ UNCHANGED <<apart, opens, retired, readBy, owed, login>>
    BY <1>5 DEF CommitDetails
  <2>3. late' \in [Keepers -> BOOLEAN]
    BY <2>2, Zenon
  <2>4. RecordTypes'
    BY <2>1, <2>2, <2>3 DEF Leaving, RecordInv, RecordTypes, RecordTypeOK, NumbersOrNone, NothingTyped
  <2>5. doing'[p] \in {"vault", "away"} /\ \A q \in Keepers : q # p => doing'[q] = doing[q] /\ form'[q] = form[q]
               /\ typed'[q] = typed[q] /\ atHand'[q] = atHand[q]
    BY <2>2 DEF Leaving, RecordInv, RecordTypes, RecordTypeOK
  <2>6. \A q \in Keepers : InHandFits(q)'
    BY <2>1, <2>2 DEF Leaving, RecordInv, RecordTypes, RecordTypeOK, InHandFits
  <2>7. apart => ~ late[p] /\ atHand[p] = vatNumber[whose]
               /\ \A q \in Keepers : q # p => doing[q] \notin InDetails
    BY <2>1 DEF RecordInv, OneAtATime
  <2>8. OneAtATime'
    BY <2>2, <2>5, <2>7 DEF RecordInv, OneAtATime
  <2>9. OneIsLive' /\ LoginsStep
    BY <2>2 DEF RecordInv, OneIsLive, LiveLogins, LoginsStep
  <2>10. OneNumberOneClient'
    BY <2>1, <2>2 DEF RecordInv, RecordTypes, RecordTypeOK, OneNumberOneClient, TablesAllow, TakenByAnother
  <2>11. NumberStandsStep
    BY <2>1, <2>2, <2>5, <2>7 DEF RecordInv, RecordTypes, RecordTypeOK, NumberStandsStep, NumberToSave, InHandFits
  <2>12. AsShownStep
    BY <2>1, <2>2, <2>5, <2>7 DEF RecordInv, RecordTypes, RecordTypeOK, AsShownStep, ReferencesStaying
  <2> QED BY <2>4, <2>6, <2>8, <2>9, <2>10, <2>11, <2>12 DEF RecordInv, RecordMoves
<1>6. CASE RefuseDetails(p)
  BY <1>6, GivesUp DEF RefuseDetails
<1>7. CASE CloseForm(p)
  <2>1. RecordTypes'
    BY <1>7 DEF CloseForm, RecordInv, RecordTypes, RecordTypeOK
  <2>2. \A q \in Keepers : InHandFits(q)'
    BY <1>7 DEF CloseForm, RecordInv, RecordTypes, RecordTypeOK, InHandFits
  <2>3. OneAtATime'
    BY <1>7 DEF CloseForm, RecordInv, RecordTypes, RecordTypeOK, OneAtATime
  <2>4. Rest
    BY <1>7 DEF CloseForm, RecordInv, RecordTypes, RecordTypeOK, OneIsLive, LiveLogins,
       OneNumberOneClient, RecordMoves, NumberStandsStep, AsShownStep, LoginsStep
  <2> QED BY <2>1, <2>2, <2>3, <2>4 DEF RecordInv
<1> QED BY <1>1, <1>2, <1>3, <1>4, <1>5, <1>6, <1>7 DEF DetailsStep

LEMMA VaultGoesOn ==
  ASSUME RecordInv, NEW p \in Keepers, VaultStep(p)
  PROVE  RecordInv' /\ RecordMoves
<1> USE DEF clientRows, vaultRows, recordBounds, InDetails
<1> DEFINE Still == UNCHANGED <<apart, vatNumber, references, late>>
           Rest == OneAtATime' /\ OneNumberOneClient' /\ NumberStandsStep /\ AsShownStep
\* What the vault does leaves the clients' rows and the changes of details alone.
<1>1. ASSUME Still, \A q \in Keepers \ {p} : /\ doing'[q] = doing[q] /\ form'[q] = form[q]
                                             /\ atHand'[q] = atHand[q],
             doing[p] \notin InDetails, doing'[p] \notin InDetails
      PROVE  Rest
  BY <1>1 DEF RecordInv, OneAtATime, OneNumberOneClient, NumberStandsStep, AsShownStep
<1>2. ASSUME NEW c \in OnBooks, NEW portal \in Portals, StoreFrom(p, c, portal),
             login' = [login EXCEPT ![p] = [client |-> c, portal |-> portal]], UNCHANGED form,
             \/ doing[p] = "away"
             \/ doing[p] = "vault" /\ form[p] # NoForm
      PROVE  RecordInv' /\ RecordMoves
  <2>1. PICK found \in IF LiveLogins(c, portal) = {} THEN {Absent} ELSE LiveLogins(c, portal) :
           atHand' = [atHand EXCEPT ![p] = found]
    BY <1>2 DEF StoreFrom
  <2>2. found \in Logins \cup {Absent} /\ [client |-> c, portal |-> portal] \in Places
    BY <2>1 DEF LiveLogins, Places
  <2>3. RecordTypes'
    BY <1>2, <2>1, <2>2 DEF StoreFrom, RecordInv, RecordTypes, RecordTypeOK, NumbersOrNone, InVault
  <2>4. \A q \in Keepers : InHandFits(q)'
    BY <1>2, <2>1, <2>2 DEF StoreFrom, RecordInv, RecordTypes, RecordTypeOK, InHandFits
  <2>5. Rest
    <3>1. doing[p] \notin InDetails /\ doing' = [doing EXCEPT ![p] = "replacing"] /\ Still
      BY <1>2 DEF StoreFrom
    <3> QED BY <1>1, <1>2, <2>1, <3>1 DEF RecordInv, RecordTypes, RecordTypeOK
  <2>6. OneIsLive' /\ LoginsStep
    BY <1>2 DEF StoreFrom, RecordInv, OneIsLive, LiveLogins, LoginsStep
  <2> QED BY <2>3, <2>4, <2>5, <2>6 DEF RecordInv, RecordMoves
<1>3. ASSUME NEW c \in OnBooks, NEW portal \in Portals, StoreInPanel(p, c, portal)
      PROVE  RecordInv' /\ RecordMoves
  BY <1>2, <1>3 DEF StoreInPanel
<1>4. CASE StoreTyped(p)
  <2>1. form[p] # NoForm /\ form[p].client \in OnBooks /\ owed[p] \in SUBSET Portals
    BY <1>4 DEF StoreTyped, RecordInv, RecordTypes, InHandFits, ClientForms
  <2> QED BY <1>2, <1>4, <2>1 DEF StoreTyped
<1>5. CASE RefuseStore(p)
  BY <1>5, GivesUp DEF RefuseStore
<1>6. ASSUME NEW l \in Logins, CommitStore(p, l) PROVE RecordInv' /\ RecordMoves
  <2> DEFINE place == login[p]
             rest == owed[p] \ {place.portal}
  <2>1. /\ doing[p] = "replacing" /\ opens[l] = Absent /\ PlaceIsFree(p)
        /\ retired' = retired \cup ({atHand[p]} \ {Absent})
        /\ opens' = [opens EXCEPT ![l] = place]
        /\ owed' = [owed EXCEPT ![p] = rest] /\ login' = [login EXCEPT ![p] = Absent]
        /\ Leaving(p, rest)
        /\ UNCHANGED <<apart, vatNumber, references, readBy, late>>
    BY <1>6 DEF CommitStore, Retiring, NewLogin, RecordInv, RecordTypes
  <2>2. /\ place \in Places /\ atHand[p] \in Logins \cup {Absent}
        /\ rest # {} => form[p] # NoForm
    BY <2>1 DEF RecordInv, InHandFits
  <2>3. RecordTypes'
    BY <2>1, <2>2 DEF Leaving, RecordInv, RecordTypes, RecordTypeOK, NumbersOrNone, NothingTyped
  <2>4. \A q \in Keepers : InHandFits(q)'
    BY <2>1, <2>2 DEF Leaving, RecordInv, RecordTypes, RecordTypeOK, InHandFits
  <2>5. Rest
    <3>1. /\ doing[p] \notin InDetails /\ doing'[p] \notin InDetails
          /\ \A q \in Keepers \ {p} : /\ doing'[q] = doing[q] /\ form'[q] = form[q]
                                       /\ atHand'[q] = atHand[q]
      BY <2>1 DEF Leaving, RecordInv, RecordTypes, RecordTypeOK
    <3> QED BY <1>1, <2>1, <3>1
  <2>6. LoginsStep
    BY <2>1 DEF RecordInv, RecordTypes, LoginsStep
  <2>7. OneIsLive'
    <3> SUFFICES ASSUME NEW c \in OnBooks, NEW portal \in Portals,
                        NEW i \in LiveLogins(c, portal)', NEW j \in LiveLogins(c, portal)'
                 PROVE  i = j
      BY DEF OneIsLive
    <3>1. /\ i \in Logins /\ i \notin retired' /\ opens'[i] = [client |-> c, portal |-> portal]
          /\ j \in Logins /\ j \notin retired' /\ opens'[j] = [client |-> c, portal |-> portal]
      BY DEF LiveLogins
    <3>2. \A k \in Logins \ {l} : opens'[k] = opens[k]
      BY <2>1 DEF RecordInv, RecordTypes
    <3>3. opens'[l] = place
      BY <2>1 DEF RecordInv, RecordTypes
    <3>4. \A k \in Logins \ {l} : k \notin retired' /\ opens'[k] = [client |-> c, portal |-> portal]
                                  => k \in LiveLogins(c, portal)
      BY <2>1, <3>2 DEF LiveLogins
    <3>5. CASE place = [client |-> c, portal |-> portal]
      <4>1. LiveLogins(c, portal) \subseteq {atHand[p]}
        BY <2>1, <3>5 DEF PlaceIsFree
      <4>2. \A k \in Logins \ {l} : ~ (k \notin retired' /\ opens'[k] = [client |-> c, portal |-> portal])
        BY <2>1, <3>4, <4>1
      <4> QED BY <3>1, <4>2
    <3>6. CASE place # [client |-> c, portal |-> portal]
      BY <3>1, <3>3, <3>4, <3>6 DEF RecordInv, OneIsLive
    <3> QED BY <3>5, <3>6
  <2> QED BY <2>3, <2>4, <2>5, <2>6, <2>7 DEF RecordInv, RecordMoves
<1>7. ASSUME NEW l \in Logins, NEW use \in {"retiring", "revealing"}, FindLogin(p, l, use)
      PROVE RecordInv' /\ RecordMoves
  <2>1. /\ doing[p] = "away" /\ doing' = [doing EXCEPT ![p] = use] /\ login' = [login EXCEPT ![p] = l]
        /\ UNCHANGED <<apart, vatNumber, references, opens, retired, readBy, form, typed, atHand, late, owed>>
    BY <1>7 DEF FindLogin
  <2>2. RecordTypes'
    BY <2>1 DEF RecordInv, RecordTypes, RecordTypeOK, InVault
  <2>3. \A q \in Keepers : InHandFits(q)'
    <3>1. \A q \in Keepers \ {p} : InHandFits(q)'
      BY <2>1 DEF RecordInv, RecordTypes, RecordTypeOK, InHandFits
    <3>2. InHandFits(p)'
      BY <2>1 DEF RecordInv, RecordTypes, RecordTypeOK, InHandFits
    <3> QED BY <3>1, <3>2
  <2>4. Rest
    <3>1. /\ doing[p] \notin InDetails /\ doing'[p] \notin InDetails /\ Still
          /\ \A q \in Keepers \ {p} : /\ doing'[q] = doing[q] /\ form'[q] = form[q]
                                       /\ atHand'[q] = atHand[q]
      BY <2>1 DEF RecordInv, RecordTypes, RecordTypeOK
    <3> QED BY <1>1, <3>1
  <2>5. OneIsLive' /\ LoginsStep
    BY <2>1 DEF RecordInv, OneIsLive, LiveLogins, LoginsStep
  <2> QED BY <2>2, <2>3, <2>4, <2>5 DEF RecordInv, RecordMoves
\* A login at hand is retired, or its reading is written down, shown or hidden.
<1>8. CASE Retire(p) \/ RecordRead(p) \/ ShowSecret(p) \/ HideSecret(p)
  <2>1. PICK was \in {"retiring", "revealing", "recorded", "shown"}, now \in {"away", "recorded", "shown"} :
           /\ doing[p] = was /\ doing' = [doing EXCEPT ![p] = now]
           /\ now \in {"recorded", "shown"} => login' = login /\ <<p, login[p]>> \in readBy'
           /\ login' = login \/ login' = [login EXCEPT ![p] = Absent]
    BY <1>8 DEF Retire, RecordRead, ShowSecret, HideSecret, RecordInv, InHandFits
  <2>2. /\ login[p] \in Logins
        /\ retired' = retired \/ retired' = retired \cup {login[p]}
        /\ readBy' = readBy \/ readBy' = readBy \cup {<<p, login[p]>>}
        /\ UNCHANGED <<apart, vatNumber, references, opens, form, typed, atHand, late, owed>>
    BY <1>8, <2>1 DEF Retire, Retiring, RecordRead, ShowSecret, HideSecret, RecordInv, InHandFits
  <2>3. RecordTypes'
    BY <2>1, <2>2 DEF RecordInv, RecordTypes, RecordTypeOK, InVault
  <2>4. \A q \in Keepers : InHandFits(q)'
    <3>1. \A q \in Keepers \ {p} : InHandFits(q)'
      BY <2>1, <2>2 DEF RecordInv, RecordTypes, RecordTypeOK, InHandFits
    <3>2. InHandFits(p)'
      BY <2>1, <2>2 DEF RecordInv, RecordTypes, RecordTypeOK, InHandFits
    <3> QED BY <3>1, <3>2
  <2>5. Rest
    <3>1. /\ doing[p] \notin InDetails /\ doing'[p] \notin InDetails /\ Still
          /\ \A q \in Keepers \ {p} : /\ doing'[q] = doing[q] /\ form'[q] = form[q]
                                       /\ atHand'[q] = atHand[q]
      BY <2>1, <2>2 DEF RecordInv, RecordTypes, RecordTypeOK
    <3> QED BY <1>1, <3>1
  <2>6. OneIsLive' /\ LoginsStep
    BY <2>2 DEF RecordInv, OneIsLive, LiveLogins, LoginsStep
  <2> QED BY <2>3, <2>4, <2>5, <2>6 DEF RecordInv, RecordMoves
<1> QED BY <1>3, <1>4, <1>5, <1>6, <1>7, <1>8 DEF VaultStep

LEMMA RecordGoesOn == RecordInv /\ [RecordNext]_recordVars => RecordInv' /\ RecordMoves
<1> SUFFICES ASSUME RecordInv, [RecordNext]_recordVars PROVE RecordInv' /\ RecordMoves
  OBVIOUS
<1>1. ASSUME NEW p \in Keepers, LoseRequest(p) PROVE RecordInv' /\ RecordMoves
  BY <1>1, GivesUp DEF LoseRequest
<1>2. CASE UNCHANGED recordVars
  BY <1>2 DEF recordVars, RecordInv, RecordTypes, RecordTypeOK, InHandFits, OneAtATime, OneIsLive, LiveLogins,
     OneNumberOneClient, RecordMoves, NumberStandsStep, AsShownStep, LoginsStep
<1> QED BY <1>1, <1>2, DetailsGoOn, VaultGoesOn DEF RecordNext

\* At most one of a client's logins to a portal is in use.
LEMMA OneIsAtMostOne == RecordInv => OneLoginInUse
<1> SUFFICES ASSUME RecordInv, NEW c \in OnBooks, NEW portal \in Portals
             PROVE  Cardinality(LiveLogins(c, portal)) <= 1
  BY DEF OneLoginInUse
<1>1. CASE LiveLogins(c, portal) = {}
  BY <1>1, FS_EmptySet
<1>2. CASE LiveLogins(c, portal) # {}
  <2>1. PICK l : LiveLogins(c, portal) = {l}
    BY <1>2 DEF RecordInv, OneIsLive
  <2>2. Cardinality({l}) = 1
    BY FS_Singleton, Zenon
  <2> QED BY <2>1, <2>2
<1> QED BY <1>1, <1>2

\* For any clients, people and portals: no VAT number is carried twice, no portal
\* has two logins in use, a password is shown to who is in the log, and a form
\* that aged changes a number only to what was typed (manage-client-details.ts,
\* client-vault.ts).
THEOREM RecordKeptForAny == RecordSpec => RecordKept
<1>1. RecordInv => RecordTypeOK /\ OneNumberOneClient /\ OneLoginInUse /\ ShownWasRecorded
  BY OneIsAtMostOne DEF RecordInv, RecordTypes, ShownWasRecorded, InHandFits
<1>2. RecordMoves => NumberStandsStep /\ AsShownStep /\ LoginsStep
  BY DEF RecordMoves
<1> QED BY <1>1, <1>2, RecordStarts, RecordGoesOn, PTL
     DEF RecordSpec, RecordKept, NumberStands, ReferencesAsShown, LoginsKept, NumberStandsStep, AsShownStep, LoginsStep

-----------------------------------------------------------------------------
(* The client's folder.                                                     *)

HIDE RecordAssumption
USE FoldersAssumption

FolderRow == [parent : Folders \cup {Top}, name : Names, removed : BOOLEAN]
ListedFile == [place : Folders \cup {Top}, removed : BOOLEAN]
Place == DOMAIN folders \cup {Top}

\* The rows, none removed for good: a folder is in one there is, and so is a file.
TablesOK ==
    /\ folders \in [DOMAIN folders -> FolderRow] /\ DOMAIN folders \subseteq Folders
    /\ files \in [DOMAIN files -> ListedFile] /\ DOMAIN files \subseteq Files
    /\ bytes \subseteq Files /\ DOMAIN files \subseteq bytes
    /\ \A f \in DOMAIN folders : folders[f].parent \in Place
    /\ \A x \in DOMAIN files : files[x].place \in Place

ShapesOK ==
    /\ deskAt \in [Desks -> {"idle", "creating", "renaming", "removing folder", "moving",
                             "removing", "finding", "keeping"}]
    /\ about \in [Desks -> Folders \cup Files \cup {Nil}]
    /\ deskCopy \in [Desks -> FolderRow \cup ListedFile \cup {Nil}]
    /\ becoming \in [Desks -> [parent : Folders \cup {Top}, name : Names] \cup Names
                                \cup Folders \cup {Top, Nil}]
    /\ dropping \in [Desks -> SUBSET Files]
    /\ path \in [Desks -> Seq(Names)]
    /\ listed \in [Panels -> SUBSET [id : Folders, parent : Folders \cup {Top}, name : Names]]
    /\ faults \in Nat

\* What a request goes by when it writes: rows that are still there, for rows are
\* marked removed and never taken away, and a folder never moves.
DeskOK(d) ==
    /\ deskAt[d] \in {"idle", "renaming", "removing folder", "moving", "removing"} => dropping[d] = {}
    /\ deskAt[d] \in {"finding", "keeping"} => d \in Panels /\ becoming[d] \in Place
    /\ deskAt[d] = "finding" => \A r \in listed[d] : r.id \in DOMAIN folders
    /\ deskAt[d] = "creating" =>
          /\ becoming[d] \in [parent : Place, name : Names]
          /\ dropping[d] # {} => d \in Panels /\ path[d] # <<>> /\ Head(path[d]) = becoming[d].name
    /\ deskAt[d] \in {"renaming", "removing folder"} =>
          /\ about[d] \in DOMAIN folders /\ deskCopy[d] \in FolderRow
          /\ deskCopy[d].parent = folders[about[d]].parent
    /\ deskAt[d] = "renaming" => becoming[d] \in Names
    /\ deskAt[d] \in {"moving", "removing"} =>
          about[d] \in DOMAIN files /\ deskCopy[d] \in ListedFile /\ deskCopy[d].place \in Place
    /\ deskAt[d] = "moving" => becoming[d] \in Place
    /\ deskAt[d] = "keeping" => about[d] = Nil \/ (about[d] \in dropping[d] /\ about[d] \in bytes)

\* The depth of each folder, and the room a request about to make one still has:
\* it counted before it wrote, and no count has changed since.
Ranks(r) ==
    /\ r \in [DOMAIN folders -> 1 .. MaxDepth]
    /\ \A f \in DOMAIN folders :
          r[f] = IF folders[f].parent = Top THEN 1 ELSE r[folders[f].parent] + 1

RoomLeft(r) ==
    \A d \in Desks : deskAt[d] = "creating" => becoming[d].parent = Top \/ r[becoming[d].parent] < MaxDepth

Ranked == \E r : Ranks(r) /\ RoomLeft(r)

NamesApart == \A f \in DOMAIN folders : OpenFolder(f) => NameFree(f, folders[f].parent, folders[f].name)

\* Bytes without a row belong to a request still at work on them.
AllKept ==
    faults = 0 => \A x \in bytes \ DOMAIN files : \E d \in Desks : deskAt[d] = "keeping" /\ about[d] = x

\* While the desks take turns, what a request read is what is still so.
Fresh(d) ==
    /\ deskAt[d] = "creating" =>
          /\ OpenPlace(becoming[d].parent)
          /\ dropping[d] # {} /\ Cleaned[becoming[d].name] = becoming[d].name =>
                NameFree(Nil, becoming[d].parent, becoming[d].name)
    /\ deskAt[d] \in {"renaming", "removing folder"} => OpenFolder(about[d]) /\ deskCopy[d] = folders[about[d]]
    /\ deskAt[d] = "removing folder" => ~ HasContents(about[d])
    /\ deskAt[d] \in {"moving", "removing"} => LiveFile(about[d]) /\ deskCopy[d] = files[about[d]]
    /\ deskAt[d] \in {"finding", "keeping", "moving"} => OpenPlace(becoming[d])
    /\ deskAt[d] = "finding" => listed[d] = Listing

Alone(d) == \A e \in Desks \ {d} : deskAt[e] = "idle"

NoneHidden ==
    /\ \A x \in DOMAIN files : LiveFile(x) => OpenPlace(files[x].place)
    /\ \A f \in DOMAIN folders : OpenFolder(f) => OpenPlace(folders[f].parent)

Turns ==
    oneAtATime =>
       /\ \A d \in Desks : deskAt[d] = "idle" \/ Alone(d)
       /\ \A d \in Desks : Fresh(d)
       /\ NoneHidden
       /\ failures \subseteq {"too deep", "spelling"}

FoldersInv ==
    TablesOK /\ ShapesOK /\ (\A d \in Desks : DeskOK(d)) /\ Ranked /\ NamesApart /\ AllKept /\ Turns

-----------------------------------------------------------------------------
\* The depth the code finds by walking up is the rank: were there a folder for
\* which it is not, there would be one of least rank, and none is least.
LEMMA DepthIs ==
  ASSUME TablesOK, NEW r, Ranks(r)
  PROVE  DepthOf(Top) = 0 /\ \A f \in DOMAIN folders : DepthOf(f) = r[f]
<1> DEFINE D == DOMAIN folders \cup {Top}
           Is(depth) == depth = [q \in D |-> IF q = Top THEN 0 ELSE 1 + depth[folders[q].parent]]
           given == [q \in D |-> IF q = Top THEN 0 ELSE r[q]]
           depth == CHOOSE depth : Is(depth)
<1>1. Is(given)
  BY DEF Ranks, TablesOK, Place
<1>2. Is(depth)
  BY <1>1
<1>3. \A p : DepthOf(p) = depth[p]
  BY DEF DepthOf
<1> HIDE DEF depth
<1>4. depth[Top] = 0
  BY <1>2
<1>5. ASSUME NEW g \in DOMAIN folders, depth[g] # r[g] PROVE FALSE
  <2> DEFINE Bad == {r[f] : f \in {h \in DOMAIN folders : depth[h] # r[h]}}
  <2>1. Bad \subseteq Nat /\ r[g] \in Bad
    BY <1>5 DEF Ranks
  <2>2. PICK n \in Bad : \A m \in Bad : ~ (<<m, n>> \in OpToRel(<, Nat))
    BY <2>1, NatLessThanWellFounded, WFMin, Zenon
  <2>3. PICK f \in DOMAIN folders : depth[f] # r[f] /\ n = r[f]
    OBVIOUS
  <2>4. f \in D /\ f # Top
    BY <2>3 DEF TablesOK
  <2>5. depth[f] = 1 + depth[folders[f].parent]
    BY <1>2, <2>4
  <2>6. CASE folders[f].parent = Top
    BY <1>4, <2>3, <2>5, <2>6 DEF Ranks
  <2>7. CASE folders[f].parent \in DOMAIN folders
    <3>1. r[f] = r[folders[f].parent] + 1 /\ r[folders[f].parent] \in Nat
      BY <2>7 DEF Ranks, TablesOK
    <3>2. depth[folders[f].parent] # r[folders[f].parent]
      BY <2>3, <2>5, <3>1
    <3>3. r[folders[f].parent] \in Bad
      BY <2>7, <3>2
    <3>4. <<r[folders[f].parent], n>> \in OpToRel(<, Nat)
      BY <2>3, <3>1 DEF OpToRel
    <3> QED BY <2>2, <3>3, <3>4
  <2> QED BY <2>6, <2>7 DEF TablesOK, Place
<1> QED BY <1>3, <1>4, <1>5

\* createFolder's depth check, in ranks.
LEMMA MayHoldIs ==
  ASSUME TablesOK, NEW r, Ranks(r), NEW p \in Place
  PROVE  MayHold(p) <=> p = Top \/ r[p] < MaxDepth
  BY DepthIs DEF MayHold, Place

\* What is written never takes a folder, a file or its bytes away, nor puts a
\* folder elsewhere.
Grows ==
    /\ DOMAIN folders \subseteq DOMAIN folders'
    /\ \A f \in DOMAIN folders : folders'[f].parent = folders[f].parent
    /\ DOMAIN files \subseteq DOMAIN files' /\ bytes \subseteq bytes'

Untouched(e) ==
    /\ deskAt'[e] = deskAt[e] /\ about'[e] = about[e] /\ deskCopy'[e] = deskCopy[e]
    /\ becoming'[e] = becoming[e] /\ dropping'[e] = dropping[e] /\ path'[e] = path[e]
    /\ e \in Panels => listed'[e] = listed[e]

\* A desk that did nothing still goes by rows that are there.
LEMMA OthersOK == ASSUME NEW e \in Desks, Grows, Untouched(e), DeskOK(e) PROVE DeskOK(e)'
<1>1. Place \subseteq Place'
  BY DEF Grows, Place
<1>2. \A p : p \in [parent : Place, name : Names] => p \in [parent : Place', name : Names]
  BY <1>1
<1>3. deskAt'[e] = "creating" =>
          /\ becoming'[e] \in [parent : Place', name : Names]
          /\ dropping'[e] # {} => e \in Panels /\ path'[e] # <<>> /\ Head(path'[e]) = becoming'[e].name
  BY <1>2 DEF Untouched, DeskOK
<1>4. deskAt'[e] \in {"renaming", "removing folder"} =>
          /\ about'[e] \in DOMAIN folders' /\ deskCopy'[e] \in FolderRow
          /\ deskCopy'[e].parent = folders'[about'[e]].parent
  BY DEF Untouched, DeskOK, Grows
<1>5. deskAt'[e] \in {"moving", "removing"} =>
          about'[e] \in DOMAIN files' /\ deskCopy'[e] \in ListedFile /\ deskCopy'[e].place \in Place'
  BY <1>1 DEF Untouched, DeskOK, Grows
<1>6. deskAt'[e] = "keeping" => about'[e] = Nil \/ (about'[e] \in dropping'[e] /\ about'[e] \in bytes')
  BY DEF Untouched, DeskOK, Grows
<1>7. deskAt'[e] = "finding" => \A r \in listed'[e] : r.id \in DOMAIN folders'
  BY DEF Untouched, DeskOK, Grows
<1> QED BY <1>1, <1>3, <1>4, <1>5, <1>6, <1>7 DEF Untouched, DeskOK

\* What changing hands at one desk does to the others: nothing.
LEMMA HoldingIs ==
  ASSUME ShapesOK, NEW d \in Desks, NEW at, NEW id, NEW copy, NEW to, Holding(d, at, id, copy, to)
  PROVE  /\ deskAt'[d] = at /\ about'[d] = id /\ deskCopy'[d] = copy /\ becoming'[d] = to
         /\ \A e \in Desks \ {d} : /\ deskAt'[e] = deskAt[e] /\ about'[e] = about[e]
                                   /\ deskCopy'[e] = deskCopy[e] /\ becoming'[e] = becoming[e]
  BY DEF ShapesOK, Holding

\* And every variable keeps its type.
LEMMA HoldingShapes ==
  ASSUME ShapesOK, NEW d \in Desks, NEW at, NEW id, NEW copy, NEW to, Holding(d, at, id, copy, to),
         at \in {"idle", "creating", "renaming", "removing folder", "moving", "removing", "finding", "keeping"},
         id \in Folders \cup Files \cup {Nil}, copy \in FolderRow \cup ListedFile \cup {Nil},
         to \in [parent : Folders \cup {Top}, name : Names] \cup Names \cup Folders \cup {Top, Nil},
         dropping' \in [Desks -> SUBSET Files], path' \in [Desks -> Seq(Names)],
         listed' \in [Panels -> SUBSET [id : Folders, parent : Folders \cup {Top}, name : Names]],
         faults' \in Nat
  PROVE  ShapesOK'
<1>1. deskAt' \in [Desks -> {"idle", "creating", "renaming", "removing folder", "moving",
                             "removing", "finding", "keeping"}]
  BY DEF ShapesOK, Holding
<1>2. about' \in [Desks -> Folders \cup Files \cup {Nil}]
  BY DEF ShapesOK, Holding
<1>3. deskCopy' \in [Desks -> FolderRow \cup ListedFile \cup {Nil}]
  BY DEF ShapesOK, Holding
<1>4. becoming' \in [Desks -> [parent : Folders \cup {Top}, name : Names] \cup Names
                                \cup Folders \cup {Top, Nil}]
  BY DEF ShapesOK, Holding
<1> QED BY <1>1, <1>2, <1>3, <1>4 DEF ShapesOK

\* A desk that is done holds nothing.
LEMMA LeaveIs ==
  ASSUME ShapesOK, NEW d \in Desks, Leave(d), faults' \in Nat
  PROVE  /\ ShapesOK' /\ DeskOK(d)' /\ deskAt'[d] = "idle" /\ \A e \in Desks \ {d} : Untouched(e)
         /\ \A e \in Panels \ {d} : listed'[e] = listed[e]
<1>1. /\ dropping' \in [Desks -> SUBSET Files] /\ path' \in [Desks -> Seq(Names)]
      /\ listed' \in [Panels -> SUBSET [id : Folders, parent : Folders \cup {Top}, name : Names]]
  <2>1. <<>> \in Seq(Names)
    OBVIOUS
  <2> QED BY <2>1 DEF Leave, ShapesOK
<1>2. ShapesOK'
  BY <1>1, HoldingShapes DEF Leave
<1>3. /\ deskAt'[d] = "idle"
      /\ \A e \in Desks \ {d} : /\ deskAt'[e] = deskAt[e] /\ about'[e] = about[e]
                                /\ deskCopy'[e] = deskCopy[e] /\ becoming'[e] = becoming[e]
  BY HoldingIs DEF Leave
<1>4. dropping'[d] = {} /\ \A e \in Desks \ {d} : dropping'[e] = dropping[e] /\ path'[e] = path[e]
  BY DEF Leave, ShapesOK
<1>5. \A e \in Panels \ {d} : listed'[e] = listed[e]
  BY DEF Leave, ShapesOK
<1>6. DeskOK(d)'
  BY <1>3, <1>4 DEF DeskOK
<1> QED BY <1>2, <1>3, <1>4, <1>5, <1>6 DEF Untouched

\* A step of one desk keeps the invariant if it keeps the desk's own part.
LEMMA StepOK ==
  ASSUME FoldersInv, NEW d \in Desks, Grows, TablesOK', ShapesOK', DeskOK(d)',
         \A e \in Desks \ {d} : Untouched(e),
         oneAtATime' = oneAtATime, NamesApart', Ranked',
         faults' = 0 => faults = 0,
         faults' = 0 => \A x \in bytes' \ DOMAIN files' :
            \/ x \in bytes \ DOMAIN files /\ ~ (deskAt[d] = "keeping" /\ about[d] = x)
            \/ deskAt'[d] = "keeping" /\ about'[d] = x,
         oneAtATime => Alone(d) /\ Fresh(d)' /\ failures' \subseteq {"too deep", "spelling"} /\ NoneHidden'
  PROVE  FoldersInv'
<1>1. ASSUME NEW e \in Desks PROVE DeskOK(e)'
  BY OthersOK DEF FoldersInv
<1>2. AllKept'
  <2>1. ASSUME faults' = 0, NEW x \in bytes' \ DOMAIN files'
        PROVE  \E e \in Desks : deskAt'[e] = "keeping" /\ about'[e] = x
    <3>1. CASE deskAt'[d] = "keeping" /\ about'[d] = x
      BY <3>1
    <3>2. CASE x \in bytes \ DOMAIN files /\ ~ (deskAt[d] = "keeping" /\ about[d] = x)
      <4>1. PICK e \in Desks : deskAt[e] = "keeping" /\ about[e] = x
        BY <2>1, <3>2 DEF FoldersInv, AllKept
      <4> QED BY <3>2, <4>1 DEF Untouched
    <3> QED BY <2>1, <3>1, <3>2
  <2> QED BY <2>1 DEF AllKept
<1>3. ASSUME oneAtATime
      PROVE  /\ \A e \in Desks : deskAt'[e] = "idle" \/ Alone(e)'
             /\ \A e \in Desks : Fresh(e)'
  <2>1. \A e \in Desks \ {d} : deskAt'[e] = "idle"
    BY <1>3 DEF Alone, Untouched
  <2>2. Alone(d)'
    BY <2>1 DEF Alone
  <2>3. \A e \in Desks \ {d} : Fresh(e)'
    BY <2>1 DEF Fresh
  <2> QED BY <1>3, <2>1, <2>2, <2>3
<1>4. Turns'
  BY <1>3 DEF Turns
<1> QED BY <1>1, <1>2, <1>4 DEF FoldersInv

\* Where no table changed, everything read from them reads the same.
LEMMA TablesAsTheyWere ==
  ASSUME UNCHANGED folderTables
  PROVE  /\ folders' = folders /\ files' = files /\ bytes' = bytes
         /\ \A p : (OpenFolder(p)' <=> OpenFolder(p)) /\ (OpenPlace(p)' <=> OpenPlace(p)) /\ (LiveFile(p)' <=> LiveFile(p))
         /\ \A f : HasContents(f)' <=> HasContents(f)
         /\ \A f, p, n : NameFree(f, p, n)' <=> NameFree(f, p, n)
         /\ Place' = Place /\ Listing' = Listing
         /\ Grows /\ (TablesOK => TablesOK') /\ (NamesApart => NamesApart')
         /\ \A r : Ranks(r) => Ranks(r)'
<1>1. folders' = folders /\ files' = files /\ bytes' = bytes
  BY DEF folderTables
<1>2. \A p : (OpenFolder(p)' <=> OpenFolder(p)) /\ (LiveFile(p)' <=> LiveFile(p))
  BY <1>1 DEF OpenFolder, LiveFile
<1>3. \A p : OpenPlace(p)' <=> OpenPlace(p)
  BY <1>2 DEF OpenPlace
<1>4. \A f : HasContents(f)' <=> HasContents(f)
  BY <1>1, <1>2 DEF HasContents
<1>5. \A f, p, n : NameFree(f, p, n)' <=> NameFree(f, p, n)
  BY <1>1, <1>2 DEF NameFree
<1>6. Place' = Place
  BY <1>1 DEF Place
<1>7. Listing' = Listing
  BY <1>1 DEF Listing, OpenFolder
<1>8. Grows
  BY <1>1 DEF Grows
<1>9. TablesOK => TablesOK'
  BY <1>1, <1>6 DEF TablesOK
<1>10. NamesApart => NamesApart'
  BY <1>1, <1>2, <1>5 DEF NamesApart
<1>11. \A r : Ranks(r) => Ranks(r)'
  BY <1>1 DEF Ranks
<1> QED BY <1>1, <1>2, <1>3, <1>4, <1>5, <1>6, <1>7, <1>8, <1>9, <1>10, <1>11

\* A step that writes no table.
LEMMA QuietOK ==
  ASSUME FoldersInv, NEW d \in Desks, UNCHANGED folderTables, oneAtATime' = oneAtATime,
         ShapesOK', DeskOK(d)', \A e \in Desks \ {d} : Untouched(e),
         deskAt'[d] = "creating" => MayHold(becoming'[d].parent),
         faults' = 0 => faults = 0 /\ (deskAt[d] = "keeping" /\ about[d] # Nil =>
                                          deskAt'[d] = "keeping" /\ about'[d] = about[d]),
         oneAtATime => Alone(d) /\ Fresh(d)' /\ failures' \subseteq {"too deep", "spelling"}
  PROVE  FoldersInv'
<1>1. /\ folders' = folders /\ files' = files /\ bytes' = bytes
      /\ Grows /\ TablesOK' /\ NamesApart' /\ Place' = Place
      /\ \A p : (OpenFolder(p)' <=> OpenFolder(p)) /\ (OpenPlace(p)' <=> OpenPlace(p)) /\ (LiveFile(p)' <=> LiveFile(p))
  BY TablesAsTheyWere DEF FoldersInv
<1>2. PICK r : Ranks(r) /\ RoomLeft(r)
  BY DEF FoldersInv, Ranked
<1>3. Ranks(r)'
  BY <1>2, TablesAsTheyWere
<1>4. RoomLeft(r)'
  <2>1. ASSUME NEW e \in Desks, deskAt'[e] = "creating"
        PROVE  becoming'[e].parent = Top \/ r[becoming'[e].parent] < MaxDepth
    <3>1. CASE e # d
      BY <1>2, <2>1, <3>1 DEF RoomLeft, Untouched
    <3>2. CASE e = d
      <4>1. becoming'[d].parent \in Place
        BY <1>1, <2>1, <3>2 DEF DeskOK
      <4> QED BY <1>2, <2>1, <3>2, <4>1, MayHoldIs DEF FoldersInv
    <3> QED BY <3>1, <3>2
  <2> QED BY <2>1 DEF RoomLeft
<1>5. Ranked'
  BY <1>3, <1>4 DEF Ranked
<1>6. faults' = 0 => \A x \in bytes' \ DOMAIN files' :
            \/ x \in bytes \ DOMAIN files /\ ~ (deskAt[d] = "keeping" /\ about[d] = x)
            \/ deskAt'[d] = "keeping" /\ about'[d] = x
  BY <1>1 DEF FoldersInv, TablesOK
<1>7. oneAtATime => NoneHidden'
  BY <1>1 DEF FoldersInv, Turns, NoneHidden
<1> QED BY <1>1, <1>5, <1>6, <1>7, StepOK

\* Whoever begins found the other desks at rest, if they take turns.
LEMMA BeginIs == ASSUME NEW d \in Desks, Begin(d) PROVE deskAt[d] = "idle" /\ (oneAtATime => Alone(d))
  BY DEF Begin, Alone

\* And whoever is at work finds them so.
LEMMA WorkingIs == ASSUME FoldersInv, NEW d \in Desks, deskAt[d] # "idle" PROVE oneAtATime => Alone(d)
  BY DEF FoldersInv, Turns

-----------------------------------------------------------------------------
\* What a request that only read has in hand.
LEMMA ReadHolds ==
  ASSUME FoldersInv, NEW d \in Desks, NEW at, NEW id, NEW copy, NEW to,
         Begin(d), Holding(d, at, id, copy, to), ReadOnly
  PROVE  /\ deskAt'[d] = at /\ about'[d] = id /\ deskCopy'[d] = copy /\ becoming'[d] = to
         /\ dropping'[d] = {} /\ UNCHANGED folderTables
         /\ \A e \in Desks \ {d} : /\ deskAt'[e] = deskAt[e] /\ about'[e] = about[e]
                                   /\ deskCopy'[e] = deskCopy[e] /\ becoming'[e] = becoming[e]
<1>1. dropping' = dropping /\ UNCHANGED folderTables
  BY DEF ReadOnly, panelVars
<1>2. dropping[d] = {}
  BY BeginIs DEF FoldersInv, DeskOK
<1> QED BY <1>1, <1>2, HoldingIs DEF FoldersInv

AtWork(at, id, copy, to) ==
    /\ at \in {"creating", "renaming", "removing folder", "moving", "removing"}
    /\ id \in Folders \cup Files \cup {Nil} /\ copy \in FolderRow \cup ListedFile \cup {Nil}
    /\ to \in [parent : Folders \cup {Top}, name : Names] \cup Names \cup Folders \cup {Top, Nil}

\* A request that reads the row it will write.
LEMMA ReadIs ==
  ASSUME FoldersInv, NEW d \in Desks, NEW at, NEW id, NEW copy, NEW to,
         Begin(d), Holding(d, at, id, copy, to), ReadOnly,
         AtWork(at, id, copy, to),
         DeskOK(d)', Fresh(d)', at = "creating" => MayHold(to.parent)
  PROVE  FoldersInv'
<1>1. /\ UNCHANGED folderTables /\ oneAtATime' = oneAtATime /\ faults' = faults /\ failures' = failures
      /\ dropping' = dropping /\ path' = path /\ listed' = listed
  BY DEF ReadOnly, panelVars
<1>2. ShapesOK'
  BY <1>1, HoldingShapes DEF FoldersInv, ShapesOK, AtWork
<1>3. /\ deskAt'[d] = at /\ becoming'[d] = to
      /\ \A e \in Desks \ {d} : Untouched(e)
  <2>1. /\ deskAt'[d] = at /\ becoming'[d] = to
        /\ \A e \in Desks \ {d} : /\ deskAt'[e] = deskAt[e] /\ about'[e] = about[e]
                                  /\ deskCopy'[e] = deskCopy[e] /\ becoming'[e] = becoming[e]
    BY ReadHolds
  <2> QED BY <1>1, <2>1 DEF Untouched
<1>4. deskAt[d] = "idle" /\ (oneAtATime => Alone(d))
  BY BeginIs
<1>5. oneAtATime => failures' \subseteq {"too deep", "spelling"}
  BY <1>1 DEF FoldersInv, Turns
<1> QED BY <1>1, <1>2, <1>3, <1>4, <1>5, QuietOK

\* A folder asked for by hand: its place was open and had room.
LEMMA ReadToCreateOK ==
  ASSUME FoldersInv, NEW d \in Desks, NEW p \in DOMAIN folders \cup {Top}, NEW n \in Spelled, ReadToCreate(d, p, n)
  PROVE  FoldersInv'
<1> DEFINE to == [parent |-> p, name |-> n]
<1>1. /\ Begin(d) /\ OpenPlace(p) /\ MayHold(p) /\ ReadOnly
      /\ Holding(d, "creating", Nil, Nil, to)
  BY DEF ReadToCreate
<1>2. n \in Names
  BY DEF Spelled
<1>3. /\ deskAt'[d] = "creating" /\ becoming'[d] = to /\ dropping'[d] = {} /\ UNCHANGED folderTables
  BY <1>1, ReadHolds
<1>4. DeskOK(d)'
  BY <1>2, <1>3 DEF DeskOK, Place, folderTables
<1>5. OpenPlace(p)'
  BY <1>1, <1>3, TablesAsTheyWere
<1>6. Fresh(d)'
  BY <1>3, <1>5 DEF Fresh
<1>7. to \in [parent : Folders \cup {Top}, name : Names]
  BY <1>2 DEF FoldersInv, TablesOK
<1> HIDE DEF to
<1>8. MayHold(to.parent)
  BY <1>1 DEF to
<1>9. AtWork("creating", Nil, Nil, to)
  BY <1>7 DEF AtWork
<1> QED BY <1>1, <1>4, <1>6, <1>8, <1>9, ReadIs

\* A folder about to be renamed.
LEMMA ReadToRenameOK ==
  ASSUME FoldersInv, NEW d \in Desks, NEW f \in DOMAIN folders, NEW n \in Spelled, ReadToRename(d, f, n)
  PROVE  FoldersInv'
<1>1. /\ Begin(d) /\ OpenFolder(f) /\ ReadOnly
      /\ Holding(d, "renaming", f, folders[f], n)
  BY DEF ReadToRename
<1>2. n \in Names /\ f \in Folders /\ folders[f] \in FolderRow
  BY DEF Spelled, FoldersInv, TablesOK
<1>3. /\ deskAt'[d] = "renaming" /\ about'[d] = f /\ deskCopy'[d] = folders[f] /\ becoming'[d] = n
      /\ dropping'[d] = {} /\ UNCHANGED folderTables
  BY <1>1, ReadHolds
<1>4. DeskOK(d)'
  BY <1>2, <1>3 DEF DeskOK, folderTables
<1>5. OpenFolder(f)' /\ folders' = folders
  BY <1>1, <1>3, TablesAsTheyWere
<1>6. Fresh(d)'
  BY <1>3, <1>5 DEF Fresh
<1>9. AtWork("renaming", f, folders[f], n)
  BY <1>2 DEF AtWork
<1> QED BY <1>1, <1>2, <1>4, <1>6, <1>9, ReadIs

\* A folder about to be removed was empty.
LEMMA ReadToRemoveFolderOK ==
  ASSUME FoldersInv, NEW d \in Desks, NEW f \in DOMAIN folders, ReadToRemoveFolder(d, f)
  PROVE  FoldersInv'
<1>1. /\ Begin(d) /\ OpenFolder(f) /\ ~ HasContents(f) /\ ReadOnly
      /\ Holding(d, "removing folder", f, folders[f], Nil)
  BY DEF ReadToRemoveFolder
<1>2. f \in Folders /\ folders[f] \in FolderRow
  BY DEF FoldersInv, TablesOK
<1>3. /\ deskAt'[d] = "removing folder" /\ about'[d] = f /\ deskCopy'[d] = folders[f]
      /\ dropping'[d] = {} /\ UNCHANGED folderTables
  <2>1. PICK at : at = "removing folder"
    OBVIOUS
  <2>2. Begin(d) /\ ReadOnly /\ Holding(d, at, f, folders[f], Nil)
    BY <1>1, <2>1
  <2>3. /\ deskAt'[d] = at /\ about'[d] = f /\ deskCopy'[d] = folders[f]
        /\ dropping'[d] = {} /\ UNCHANGED folderTables
    BY <2>2, ReadHolds
  <2> QED BY <2>1, <2>3
<1>4. DeskOK(d)'
  BY <1>2, <1>3 DEF DeskOK, folderTables
<1>5. OpenFolder(f)' /\ ~ HasContents(f)' /\ folders' = folders
  BY <1>1, <1>3, TablesAsTheyWere
<1>6. Fresh(d)'
  BY <1>3, <1>5 DEF Fresh
<1>9. AtWork("removing folder", f, folders[f], Nil)
  BY <1>2 DEF AtWork
<1> QED BY <1>1, <1>2, <1>4, <1>6, <1>9, ReadIs

\* A file about to be moved, into an open folder.
LEMMA ReadToMoveOK ==
  ASSUME FoldersInv, NEW d \in Desks, NEW x \in DOMAIN files, NEW p \in DOMAIN folders \cup {Top}, ReadToMove(d, x, p)
  PROVE  FoldersInv'
<1>1. /\ Begin(d) /\ LiveFile(x) /\ OpenPlace(p) /\ ReadOnly
      /\ Holding(d, "moving", x, files[x], p)
  BY DEF ReadToMove
<1>2. x \in Files /\ files[x] \in ListedFile /\ files[x].place \in Place /\ p \in Folders \cup {Top}
  BY DEF FoldersInv, TablesOK
<1>3. /\ deskAt'[d] = "moving" /\ about'[d] = x /\ deskCopy'[d] = files[x] /\ becoming'[d] = p
      /\ dropping'[d] = {} /\ UNCHANGED folderTables
  BY <1>1, ReadHolds
<1>4. OpenPlace(p)' /\ LiveFile(x)' /\ files' = files /\ Place' = Place
  BY <1>1, <1>3, TablesAsTheyWere
<1>5. DeskOK(d)'
  BY <1>2, <1>3, <1>4 DEF DeskOK, Place
<1>6. Fresh(d)'
  BY <1>3, <1>4 DEF Fresh
<1>9. AtWork("moving", x, files[x], p)
  BY <1>2 DEF AtWork
<1> QED BY <1>1, <1>2, <1>5, <1>6, <1>9, ReadIs

\* A file about to be removed.
LEMMA ReadToRemoveOK ==
  ASSUME FoldersInv, NEW d \in Desks, NEW x \in DOMAIN files, ReadToRemove(d, x)
  PROVE  FoldersInv'
<1>1. /\ Begin(d) /\ LiveFile(x) /\ ReadOnly
      /\ Holding(d, "removing", x, files[x], Nil)
  BY DEF ReadToRemove
<1>2. x \in Files /\ files[x] \in ListedFile /\ files[x].place \in Place
  BY DEF FoldersInv, TablesOK
<1>3. /\ deskAt'[d] = "removing" /\ about'[d] = x /\ deskCopy'[d] = files[x]
      /\ dropping'[d] = {} /\ UNCHANGED folderTables
  BY <1>1, ReadHolds
<1>4. LiveFile(x)' /\ files' = files /\ Place' = Place
  BY <1>1, <1>3, TablesAsTheyWere
<1>5. DeskOK(d)'
  BY <1>2, <1>3, <1>4 DEF DeskOK
<1>6. Fresh(d)'
  BY <1>3, <1>4 DEF Fresh
<1>9. AtWork("removing", x, files[x], Nil)
  BY <1>2 DEF AtWork
<1> QED BY <1>1, <1>2, <1>5, <1>6, <1>9, ReadIs

-----------------------------------------------------------------------------
\* The list the panel is given has exactly the open folders.
LEMMA ListingIs ==
  ASSUME TablesOK
  PROVE  /\ Listing \subseteq [id : Folders, parent : Folders \cup {Top}, name : Names]
         /\ \A r \in Listing : OpenFolder(r.id) /\ r.id \in DOMAIN folders
         /\ \A f \in DOMAIN folders : OpenFolder(f) =>
               \E r \in Listing : r.id = f /\ r.parent = folders[f].parent /\ r.name = folders[f].name
<1>1. ASSUME NEW r \in Listing
      PROVE  /\ r \in [id : Folders, parent : Folders \cup {Top}, name : Names]
             /\ OpenFolder(r.id) /\ r.id \in DOMAIN folders
  <2>1. PICK f \in DOMAIN folders : OpenFolder(f) /\ r = [id |-> f, parent |-> folders[f].parent, name |-> folders[f].name]
    BY DEF Listing
  <2> QED BY <2>1 DEF TablesOK, FolderRow
<1>2. ASSUME NEW f \in DOMAIN folders, OpenFolder(f)
      PROVE  \E r \in Listing : r.id = f /\ r.parent = folders[f].parent /\ r.name = folders[f].name
  <2> DEFINE r == [id |-> f, parent |-> folders[f].parent, name |-> folders[f].name]
  <2>1. r \in Listing
    BY <1>2 DEF Listing
  <2> QED BY <2>1
<1> QED BY <1>1, <1>2

ListedRight ==
    /\ Listing \subseteq [id : Folders, parent : Folders \cup {Top}, name : Names]
    /\ \A r \in Listing : r.id \in DOMAIN folders

\* The same, to be used of the state after a step.
LEMMA ListingRight == TablesOK => ListedRight
  BY ListingIs DEF ListedRight

\* A drop, with the list as it was at that moment.
LEMMA DropOK ==
  ASSUME FoldersInv, NEW d \in Desks, d \in Panels, NEW X \in SUBSET Files, NEW ns \in Paths,
         NEW p \in DOMAIN folders \cup {Top}, Drop(d, X, ns, p)
  PROVE  FoldersInv'
<1>1. /\ Begin(d) /\ OpenPlace(p) /\ Holding(d, "finding", Nil, Nil, p)
      /\ UNCHANGED folderTables /\ oneAtATime' = oneAtATime /\ faults' = faults /\ failures' = failures
      /\ listed' = [listed EXCEPT ![d] = Listing] /\ dropping' = [dropping EXCEPT ![d] = X]
      /\ path' = [path EXCEPT ![d] = ns]
  BY DEF Drop
<1>2. /\ deskAt'[d] = "finding" /\ becoming'[d] = p
      /\ \A e \in Desks \ {d} : Untouched(e)
  <2>1. \A e \in Desks \ {d} : /\ dropping'[e] = dropping[e] /\ path'[e] = path[e]
                                /\ e \in Panels => listed'[e] = listed[e]
    BY <1>1 DEF FoldersInv, ShapesOK
  <2> QED BY <1>1, <2>1, HoldingIs DEF FoldersInv, Untouched
<1>3. ShapesOK'
  <2>1. ns \in Seq(Names) /\ p \in Folders \cup {Top}
    BY DEF FoldersInv, TablesOK
  <2>2. /\ dropping' \in [Desks -> SUBSET Files] /\ path' \in [Desks -> Seq(Names)]
        /\ listed' \in [Panels -> SUBSET [id : Folders, parent : Folders \cup {Top}, name : Names]]
        /\ faults' \in Nat
    BY <1>1, <2>1, ListingIs DEF FoldersInv, ShapesOK
  <2> QED BY <1>1, <2>1, <2>2, HoldingShapes DEF FoldersInv
<1>4. OpenPlace(p)' /\ Listing' = Listing /\ Place' = Place /\ p \in Place
  BY <1>1, TablesAsTheyWere DEF Place
<1>5. listed'[d] = Listing
  BY <1>1 DEF FoldersInv, ShapesOK
<1>6. DeskOK(d)'
  <2>1. \A r \in listed'[d] : r.id \in DOMAIN folders'
    BY <1>1, <1>5, TablesAsTheyWere, ListingIs DEF FoldersInv
  <2> QED BY <1>2, <1>4, <2>1 DEF DeskOK
<1>7. Fresh(d)'
  BY <1>2, <1>4, <1>5 DEF Fresh
<1>8. deskAt[d] = "idle" /\ (oneAtATime => Alone(d) /\ failures' \subseteq {"too deep", "spelling"})
  BY <1>1, BeginIs DEF FoldersInv, Turns
<1> QED BY <1>1, <1>2, <1>3, <1>6, <1>7, <1>8, QuietOK

\* Whatever is given up, for a reason that may be told.
LEMMA LeaveOK ==
  ASSUME FoldersInv, NEW d \in Desks, deskAt[d] # "idle", Leave(d), UNCHANGED folderTables, oneAtATime' = oneAtATime,
         faults' \in Nat, faults' = 0 => faults = 0 /\ (deskAt[d] = "keeping" => about[d] = Nil),
         oneAtATime => failures' \subseteq {"too deep", "spelling"}
  PROVE  FoldersInv'
<1>1. /\ ShapesOK' /\ DeskOK(d)' /\ deskAt'[d] = "idle" /\ \A e \in Desks \ {d} : Untouched(e)
  BY LeaveIs DEF FoldersInv
<1>2. Fresh(d)'
  BY <1>1 DEF Fresh
<1>3. oneAtATime => Alone(d)
  BY WorkingIs
<1> QED BY <1>1, <1>2, <1>3, QuietOK

-----------------------------------------------------------------------------
\* A drop that fails, while the desks take turns, for one of the two reasons.
LEMMA FailOK ==
  ASSUME FoldersInv, NEW d \in Desks, deskAt[d] = "finding", NEW why, Fail(d, why),
         oneAtATime => why \in {"too deep", "spelling"}
  PROVE  FoldersInv'
<1>1. Leave(d) /\ UNCHANGED folderTables /\ oneAtATime' = oneAtATime /\ faults' = faults
  BY DEF Fail
<1>2. oneAtATime => failures' \subseteq {"too deep", "spelling"}
  BY DEF Fail, Failing, FoldersInv, Turns
<1>3. faults' \in Nat
  BY <1>1 DEF FoldersInv, ShapesOK
<1> QED BY <1>1, <1>2, <1>3, LeaveOK

\* What a fresh list does not have, no open folder is called.
LEMMA NoneIsFree ==
  ASSUME TablesOK, NEW d \in Desks, Found(d, Listing) = {}
  PROVE  NameFree(Nil, Here(d), Head(path[d]))
<1>1. ASSUME NEW g \in DOMAIN folders \ {Nil}, OpenFolder(g), folders[g].parent = Here(d),
             folders[g].name = Head(path[d])
      PROVE  FALSE
  <2>1. PICK r \in Listing : r.id = g /\ r.parent = folders[g].parent /\ r.name = folders[g].name
    BY <1>1, ListingIs
  <2>2. r \in Found(d, Listing)
    BY <1>1, <2>1 DEF Found
  <2> QED BY <2>2
<1> QED BY <1>1 DEF NameFree

\* folderMaker: into the folder found, or one to be made where there is room.
LEMMA FindOrMakeOK ==
  ASSUME FoldersInv, NEW d \in Desks, FindOrMake(d)
  PROVE  FoldersInv'
<1>1. /\ deskAt[d] = "finding" /\ path[d] # <<>> /\ d \in Panels /\ becoming[d] \in Place
      /\ path[d] \in Seq(Names)
  BY DEF FindOrMake, FoldersInv, DeskOK, ShapesOK
<1>2. oneAtATime => Alone(d) /\ Fresh(d) /\ failures \subseteq {"too deep", "spelling"}
  BY <1>1, WorkingIs DEF FoldersInv, Turns
<1>3. oneAtATime => OpenPlace(Here(d)) /\ listed[d] = Listing
  BY <1>1, <1>2 DEF Fresh, Here
<1>4. CASE Found(d, listed[d]) # {}
  <2>1. PICK r \in Found(d, listed[d]) : Holding(d, "finding", Nil, Nil, r.id)
    BY <1>4 DEF FindOrMake
  <2>2. /\ UNCHANGED folderTables /\ oneAtATime' = oneAtATime /\ faults' = faults /\ failures' = failures
        /\ listed' = listed /\ dropping' = dropping /\ path' = [path EXCEPT ![d] = Tail(@)]
    BY <1>4 DEF FindOrMake
  <2>3. r \in listed[d] /\ r.id \in DOMAIN folders
    BY <1>1, <2>1 DEF Found, FoldersInv, DeskOK
  <2>4. PICK p \in DOMAIN folders : p = r.id
    BY <2>3
  <2>5. Holding(d, "finding", Nil, Nil, p) /\ p \in Folders
    BY <2>1, <2>4 DEF FoldersInv, TablesOK
  <2>6. /\ deskAt'[d] = "finding" /\ becoming'[d] = p
        /\ \A e \in Desks \ {d} : /\ deskAt'[e] = deskAt[e] /\ about'[e] = about[e]
                                  /\ deskCopy'[e] = deskCopy[e] /\ becoming'[e] = becoming[e]
    BY <2>5, HoldingIs DEF FoldersInv
  <2>7. \A e \in Desks \ {d} : Untouched(e)
    <3>1. \A e \in Desks \ {d} : path'[e] = path[e]
      BY <2>2 DEF FoldersInv, ShapesOK
    <3> QED BY <2>2, <2>6, <3>1 DEF Untouched
  <2>8. ShapesOK'
    <3>1. Tail(path[d]) \in Seq(Names)
      BY <1>1
    <3>2. path' \in [Desks -> Seq(Names)]
      BY <2>2, <3>1 DEF FoldersInv, ShapesOK
    <3> QED BY <2>2, <2>5, <3>2, HoldingShapes DEF FoldersInv, ShapesOK
  <2>9. DeskOK(d)'
    <3>1. Place' = Place /\ folders' = folders
      BY <2>2, TablesAsTheyWere
    <3>2. p \in Place
      BY DEF Place
    <3>3. \A q \in listed'[d] : q.id \in DOMAIN folders'
      BY <1>1, <2>2, <3>1 DEF FoldersInv, DeskOK
    <3> QED BY <1>1, <2>6, <3>1, <3>2, <3>3 DEF DeskOK
  <2>10. oneAtATime => Fresh(d)'
    <3>1. oneAtATime => OpenFolder(p)
      BY <1>3, <2>3, <2>4, ListingIs DEF FoldersInv
    <3>2. oneAtATime => OpenPlace(p)'
      BY <2>2, <3>1, TablesAsTheyWere DEF OpenPlace
    <3>3. oneAtATime => listed'[d] = Listing'
      BY <1>3, <2>2, TablesAsTheyWere
    <3> QED BY <2>6, <3>2, <3>3 DEF Fresh
  <2> QED BY <1>1, <1>2, <2>2, <2>6, <2>7, <2>8, <2>9, <2>10, QuietOK
<1>5. CASE Found(d, listed[d]) = {} /\ ~ OpenPlace(Here(d))
  <2>1. Fail(d, "no such folder")
    BY <1>5 DEF FindOrMake
  <2> QED BY <1>1, <1>3, <1>5, <2>1, FailOK
<1>6. CASE Found(d, listed[d]) = {} /\ OpenPlace(Here(d)) /\ ~ MayHold(Here(d))
  <2>1. Fail(d, "too deep")
    BY <1>6 DEF FindOrMake
  <2> QED BY <1>1, <2>1, FailOK
<1>7. CASE Found(d, listed[d]) = {} /\ OpenPlace(Here(d)) /\ MayHold(Here(d))
  <2>1. PICK p \in Place, n \in Names : p = Here(d) /\ n = Head(path[d])
    BY <1>1 DEF Here
  <2> DEFINE to == [parent |-> p, name |-> n]
  <2>2. /\ UNCHANGED folderTables /\ oneAtATime' = oneAtATime /\ faults' = faults /\ failures' = failures
        /\ listed' = listed /\ dropping' = dropping /\ path' = path
    BY <1>7 DEF FindOrMake, panelVars
  <2>3. Holding(d, "creating", Nil, Nil, to)
    BY <1>7, <2>1 DEF FindOrMake
  <2>4. to \in [parent : Place, name : Names] /\ to \in [parent : Folders \cup {Top}, name : Names]
    BY DEF Place, FoldersInv, TablesOK
  <2>5. to.parent = p /\ to.name = n
    OBVIOUS
  <2> HIDE DEF to
  <2>6. /\ deskAt'[d] = "creating" /\ becoming'[d] = to
        /\ \A e \in Desks \ {d} : /\ deskAt'[e] = deskAt[e] /\ about'[e] = about[e]
                                  /\ deskCopy'[e] = deskCopy[e] /\ becoming'[e] = becoming[e]
    BY <2>3, HoldingIs DEF FoldersInv
  <2>7. \A e \in Desks \ {d} : Untouched(e)
    BY <2>2, <2>6 DEF Untouched
  <2>8. ShapesOK'
    BY <2>2, <2>3, <2>4, HoldingShapes DEF FoldersInv, ShapesOK
  <2>9. DeskOK(d)'
    <3>1. Place' = Place
      BY <2>2, TablesAsTheyWere
    <3> QED BY <1>1, <2>1, <2>2, <2>4, <2>5, <2>6, <3>1 DEF DeskOK
  <2>10. oneAtATime => Fresh(d)'
    <3>1. becoming'[d].parent = p /\ becoming'[d].name = n
      BY <2>5, <2>6
    <3>2. OpenPlace(p)'
      BY <1>7, <2>1, <2>2, TablesAsTheyWere
    <3>3. oneAtATime => NameFree(Nil, p, n)
      BY <1>3, <1>7, <2>1, NoneIsFree DEF FoldersInv
    <3>4. oneAtATime => NameFree(Nil, p, n)'
      BY <2>2, <3>3, TablesAsTheyWere
    <3>5. OpenPlace(becoming[d].parent)' /\ (oneAtATime => NameFree(Nil, becoming[d].parent, becoming[d].name)')
      BY <3>1, <3>2, <3>4
    <3> QED BY <2>6, <3>5 DEF Fresh
  <2>11. deskAt'[d] = "creating" => MayHold(becoming'[d].parent)
    BY <1>7, <2>1, <2>5, <2>6
  <2> QED BY <1>1, <1>2, <2>2, <2>6, <2>7, <2>8, <2>9, <2>10, <2>11, QuietOK
<1> QED BY <1>4, <1>5, <1>6, <1>7

\* The place is looked at once more before the files are taken.
LEMMA SendOK ==
  ASSUME FoldersInv, NEW d \in Desks, Send(d)
  PROVE  FoldersInv'
<1>1. deskAt[d] = "finding" /\ becoming[d] \in Place /\ d \in Panels
  BY DEF Send, FoldersInv, DeskOK
<1>2. oneAtATime => Alone(d) /\ OpenPlace(Here(d)) /\ failures \subseteq {"too deep", "spelling"}
  BY <1>1, WorkingIs DEF FoldersInv, Turns, Fresh, Here
<1>3. CASE ~ Sendable(d)
  <2>1. Fail(d, "no such folder")
    BY <1>3 DEF Send
  <2> QED BY <1>1, <1>2, <1>3, <2>1, FailOK DEF Sendable
<1>4. CASE Sendable(d)
  <2>1. PICK p \in Place : p = Here(d)
    BY <1>1 DEF Here
  <2>2. /\ UNCHANGED folderTables /\ oneAtATime' = oneAtATime /\ faults' = faults /\ failures' = failures
        /\ listed' = listed /\ dropping' = dropping /\ path' = path
    BY <1>4 DEF Send, panelVars
  <2>3. Holding(d, "keeping", Nil, Nil, p)
    BY <1>4, <2>1 DEF Send
  <2>4. p \in Folders \cup {Top}
    BY DEF Place, FoldersInv, TablesOK
  <2>5. /\ deskAt'[d] = "keeping" /\ about'[d] = Nil /\ becoming'[d] = p
        /\ \A e \in Desks \ {d} : /\ deskAt'[e] = deskAt[e] /\ about'[e] = about[e]
                                  /\ deskCopy'[e] = deskCopy[e] /\ becoming'[e] = becoming[e]
    BY <2>3, HoldingIs DEF FoldersInv
  <2>6. \A e \in Desks \ {d} : Untouched(e)
    BY <2>2, <2>5 DEF Untouched
  <2>7. ShapesOK'
    BY <2>2, <2>3, <2>4, HoldingShapes DEF FoldersInv, ShapesOK
  <2>8. DeskOK(d)'
    <3>1. Place' = Place
      BY <2>2, TablesAsTheyWere
    <3> QED BY <1>1, <2>5, <3>1 DEF DeskOK
  <2>9. Fresh(d)'
    <3>1. OpenPlace(p)'
      BY <1>4, <2>1, <2>2, TablesAsTheyWere DEF Sendable
    <3>2. OpenPlace(becoming[d])'
      BY <2>5, <3>1
    <3> QED BY <2>5, <3>2 DEF Fresh
  <2> QED BY <1>1, <1>2, <2>2, <2>5, <2>6, <2>7, <2>8, <2>9, QuietOK
<1> QED BY <1>3, <1>4

\* A file refused leaves the drop before its bytes are stored.
LEMMA RefuseFileOK ==
  ASSUME FoldersInv, NEW d \in Desks, NEW x \in Files, RefuseFile(d, x)
  PROVE  FoldersInv'
<1>1. /\ deskAt[d] = "keeping" /\ about[d] = Nil /\ becoming[d] \in Place /\ d \in Panels
  BY DEF RefuseFile, FoldersInv, DeskOK
<1>2. /\ UNCHANGED folderTables /\ oneAtATime' = oneAtATime /\ faults' = faults + 1 /\ failures' = failures
      /\ listed' = listed /\ path' = path /\ dropping' = [dropping EXCEPT ![d] = @ \ {x}]
      /\ deskAt' = deskAt /\ about' = about /\ deskCopy' = deskCopy /\ becoming' = becoming
  BY DEF RefuseFile, deskVars
<1>3. faults' \in Nat /\ faults' # 0
  <2>1. faults \in Nat
    BY DEF FoldersInv, ShapesOK
  <2> QED BY <1>2, <2>1
<1>4. dropping' \in [Desks -> SUBSET Files] /\ \A e \in Desks \ {d} : dropping'[e] = dropping[e]
  BY <1>2 DEF FoldersInv, ShapesOK
<1>5. ShapesOK'
  BY <1>2, <1>3, <1>4 DEF FoldersInv, ShapesOK
<1>6. \A e \in Desks \ {d} : Untouched(e)
  BY <1>2, <1>4 DEF Untouched
<1>7. DeskOK(d)' /\ OpenPlace(Here(d))' = OpenPlace(Here(d))
  <2>1. Place' = Place
    BY <1>2, TablesAsTheyWere
  <2>2. DeskOK(d)'
    BY <1>1, <1>2, <2>1 DEF DeskOK
  <2>3. PICK p \in Place : p = becoming[d]
    BY <1>1
  <2>4. OpenPlace(p)' <=> OpenPlace(p)
    BY <1>2, TablesAsTheyWere
  <2> QED BY <1>2, <2>2, <2>3, <2>4 DEF Here, OpenPlace, OpenFolder
<1>8. oneAtATime => Fresh(d)'
  BY <1>1, <1>2, <1>7 DEF FoldersInv, Turns, Fresh, Here
<1>9. oneAtATime => Alone(d) /\ failures' \subseteq {"too deep", "spelling"}
  BY <1>1, <1>2, WorkingIs DEF FoldersInv, Turns
<1> QED BY <1>1, <1>2, <1>3, <1>5, <1>6, <1>7, <1>8, <1>9, QuietOK

\* Whoever finishes has stored nothing without its row.
LEMMA FinishOK ==
  ASSUME FoldersInv, NEW d \in Desks, Finish(d)
  PROVE  FoldersInv'
<1>1. deskAt[d] = "keeping" /\ about[d] = Nil
  BY DEF Finish, FoldersInv, DeskOK
<1>2. /\ Leave(d) /\ UNCHANGED folderTables /\ oneAtATime' = oneAtATime /\ faults' = faults /\ failures' = failures
  BY DEF Finish
<1> QED BY <1>1, <1>2, LeaveOK DEF FoldersInv, ShapesOK, Turns

\* A request lost is a fault.
LEMMA LostOK ==
  ASSUME FoldersInv, NEW d \in Desks, Lost(d)
  PROVE  FoldersInv'
<1>1. /\ deskAt[d] # "idle" /\ Leave(d) /\ UNCHANGED folderTables /\ oneAtATime' = oneAtATime
      /\ faults' = faults + 1 /\ failures' = failures
  BY DEF Lost
<1>2. faults' \in Nat /\ faults' # 0
  <2>1. faults \in Nat
    BY DEF FoldersInv, ShapesOK
  <2> QED BY <1>1, <2>1
<1> QED BY <1>1, <1>2, LeaveOK DEF FoldersInv, Turns

\* The bytes first: the desk stands for them until the row is there.
LEMMA StoreFileOK ==
  ASSUME FoldersInv, NEW d \in Desks, NEW x \in Files, StoreFile(d, x)
  PROVE  FoldersInv'
<1>1. /\ deskAt[d] = "keeping" /\ about[d] = Nil /\ becoming[d] \in Place /\ d \in Panels /\ x \in dropping[d]
  BY DEF StoreFile, FoldersInv, DeskOK
<1>2. /\ folders' = folders /\ files' = files /\ bytes' = bytes \cup {x}
      /\ oneAtATime' = oneAtATime /\ faults' = faults /\ failures' = failures
      /\ listed' = listed /\ path' = path /\ dropping' = dropping
      /\ deskAt' = deskAt /\ deskCopy' = deskCopy /\ becoming' = becoming
      /\ about' = [about EXCEPT ![d] = x]
  BY DEF StoreFile, panelVars
<1>3. /\ about' \in [Desks -> Folders \cup Files \cup {Nil}] /\ about'[d] = x
      /\ \A e \in Desks \ {d} : about'[e] = about[e]
  BY <1>2 DEF FoldersInv, ShapesOK
<1>4. ShapesOK' /\ Grows
  BY <1>2, <1>3 DEF FoldersInv, ShapesOK, Grows
<1>5. TablesOK' /\ Place' = Place
  BY <1>2 DEF FoldersInv, TablesOK, Place
<1>6. \A e \in Desks \ {d} : Untouched(e)
  BY <1>2, <1>3 DEF Untouched
<1>7. DeskOK(d)'
  BY <1>1, <1>2, <1>3, <1>5 DEF DeskOK
<1>8. \A p : OpenFolder(p)' <=> OpenFolder(p)
  BY <1>2 DEF OpenFolder
<1>9. \A p : OpenPlace(p)' <=> OpenPlace(p)
  BY <1>8 DEF OpenPlace
<1>10. oneAtATime => Fresh(d)'
  <2>1. PICK p \in Place : p = becoming[d]
    BY <1>1
  <2>2. OpenPlace(becoming[d])' <=> OpenPlace(becoming[d])
    BY <1>2, <1>9, <2>1
  <2> QED BY <1>1, <1>2, <2>2 DEF FoldersInv, Turns, Fresh
<1>11. NamesApart' /\ Ranked'
  BY <1>2 DEF FoldersInv, NamesApart, NameFree, OpenFolder, Ranked, Ranks, RoomLeft
<1>12. oneAtATime => Alone(d) /\ failures' \subseteq {"too deep", "spelling"} /\ NoneHidden'
  <2>1. oneAtATime => NoneHidden'
    BY <1>2, <1>9, <1>8 DEF FoldersInv, Turns, NoneHidden, LiveFile
  <2> QED BY <1>1, <1>2, <2>1, WorkingIs DEF FoldersInv, Turns
<1>13. faults' = 0 => \A y \in bytes' \ DOMAIN files' :
            \/ y \in bytes \ DOMAIN files /\ ~ (deskAt[d] = "keeping" /\ about[d] = y)
            \/ deskAt'[d] = "keeping" /\ about'[d] = y
  BY <1>1, <1>2, <1>3 DEF FoldersInv, TablesOK
<1> QED BY <1>2, <1>4, <1>5, <1>6, <1>7, <1>10, <1>11, <1>12, <1>13, StepOK

\* What a row written to a table changes.
LEMMA PutIs ==
  ASSUME NEW table, NEW id, NEW row
  PROVE  /\ DOMAIN Put(table, id, row) = DOMAIN table \cup {id}
         /\ Put(table, id, row)[id] = row
         /\ \A x \in DOMAIN table \ {id} : Put(table, id, row)[x] = table[x]
         /\ \A R : table \in [DOMAIN table -> R] /\ row \in R
                => Put(table, id, row) \in [DOMAIN table \cup {id} -> R]
  BY DEF Put

\* Then the row, in a place that is still there.
LEMMA RecordFileOK ==
  ASSUME FoldersInv, NEW d \in Desks, RecordFile(d)
  PROVE  FoldersInv'
<1>1. /\ deskAt[d] = "keeping" /\ about[d] # Nil /\ becoming[d] \in Place /\ d \in Panels
      /\ about[d] \in bytes
  BY DEF RecordFile, FoldersInv, DeskOK
<1>2. PICK x \in bytes : x = about[d]
  BY <1>1
<1>3. PICK p \in Place : p = becoming[d]
  BY <1>1
<1> DEFINE row == [place |-> p, removed |-> FALSE]
<1>4. /\ folders' = folders /\ bytes' = bytes /\ files' = Put(files, x, row)
      /\ oneAtATime' = oneAtATime /\ faults' = faults /\ failures' = failures
      /\ listed' = listed /\ path' = path /\ dropping' = [dropping EXCEPT ![d] = @ \ {x}]
      /\ deskAt' = deskAt /\ deskCopy' = deskCopy /\ becoming' = becoming
      /\ about' = [about EXCEPT ![d] = Nil]
  BY <1>2, <1>3 DEF RecordFile, Kept, Here
<1>5. row \in ListedFile /\ row.place = p
  BY DEF ListedFile, Place, FoldersInv, TablesOK
<1> HIDE DEF row
<1>6. /\ DOMAIN files' = DOMAIN files \cup {x} /\ files'[x] = row
      /\ \A y \in DOMAIN files \ {x} : files'[y] = files[y]
      /\ files' \in [DOMAIN files' -> ListedFile]
  <2>1. /\ DOMAIN files' = DOMAIN files \cup {x} /\ files'[x] = row
        /\ \A y \in DOMAIN files \ {x} : files'[y] = files[y]
    BY <1>4 DEF Put
  <2>2. files \in [DOMAIN files -> ListedFile]
    BY DEF FoldersInv, TablesOK
  <2>3. files' \in [DOMAIN files \cup {x} -> ListedFile]
    BY <1>4, <1>5, <2>2, PutIs
  <2> QED BY <2>1, <2>3
<1>7. /\ about' \in [Desks -> Folders \cup Files \cup {Nil}] /\ about'[d] = Nil
      /\ \A e \in Desks \ {d} : about'[e] = about[e]
      /\ dropping' \in [Desks -> SUBSET Files] /\ \A e \in Desks \ {d} : dropping'[e] = dropping[e]
  BY <1>4 DEF FoldersInv, ShapesOK
<1>8. ShapesOK' /\ Grows
  BY <1>4, <1>6, <1>7 DEF FoldersInv, ShapesOK, Grows
<1>9. Place' = Place
  BY <1>4 DEF Place
<1>10. TablesOK'
  <2>1. x \in Files /\ DOMAIN files' \subseteq bytes'
    BY <1>4, <1>6 DEF FoldersInv, TablesOK
  <2>2. \A y \in DOMAIN files' : files'[y].place \in Place'
    BY <1>5, <1>6, <1>9 DEF FoldersInv, TablesOK
  <2> QED BY <1>4, <1>6, <1>9, <2>1, <2>2 DEF FoldersInv, TablesOK
<1>11. \A e \in Desks \ {d} : Untouched(e)
  BY <1>4, <1>7 DEF Untouched
<1>12. DeskOK(d)'
  BY <1>1, <1>4, <1>7, <1>9 DEF DeskOK
<1>13. \A q : OpenFolder(q)' <=> OpenFolder(q)
  BY <1>4 DEF OpenFolder
<1>14. \A q : OpenPlace(q)' <=> OpenPlace(q)
  BY <1>13 DEF OpenPlace
<1>15. oneAtATime => OpenPlace(p)
  BY <1>1, <1>3 DEF FoldersInv, Turns, Fresh
<1>16. oneAtATime => Fresh(d)'
  <2>1. oneAtATime => OpenPlace(becoming[d])'
    BY <1>3, <1>4, <1>14, <1>15
  <2> QED BY <1>1, <1>4, <2>1 DEF Fresh
<1>17. NamesApart' /\ Ranked'
  BY <1>4 DEF FoldersInv, NamesApart, NameFree, OpenFolder, Ranked, Ranks, RoomLeft
<1>18. oneAtATime => Alone(d) /\ failures' \subseteq {"too deep", "spelling"} /\ NoneHidden'
  <2>1. ASSUME oneAtATime, NEW y \in DOMAIN files', LiveFile(y)' PROVE OpenPlace(files[y].place)'
    <3>1. CASE y = x
      BY <1>5, <1>6, <1>14, <1>15, <2>1, <3>1
    <3>2. CASE y # x
      <4>1. y \in DOMAIN files /\ LiveFile(y) /\ files'[y] = files[y]
        BY <1>6, <2>1, <3>2 DEF LiveFile
      <4>2. OpenPlace(files[y].place)
        BY <2>1, <4>1 DEF FoldersInv, Turns, NoneHidden
      <4>3. PICK q : q = files[y].place
        OBVIOUS
      <4> QED BY <1>14, <4>1, <4>2, <4>3
    <3> QED BY <3>1, <3>2
  <2>2. oneAtATime => \A f \in DOMAIN folders' : OpenFolder(f)' => OpenPlace(folders[f].parent)'
    BY <1>4, <1>13, <1>14 DEF FoldersInv, Turns, NoneHidden
  <2>3. oneAtATime => NoneHidden'
    BY <2>1, <2>2 DEF NoneHidden
  <2> QED BY <1>1, <1>4, <2>3, WorkingIs DEF FoldersInv, Turns
<1>19. faults' = 0 => \A y \in bytes' \ DOMAIN files' :
            \/ y \in bytes \ DOMAIN files /\ ~ (deskAt[d] = "keeping" /\ about[d] = y)
            \/ deskAt'[d] = "keeping" /\ about'[d] = y
  BY <1>2, <1>4, <1>6
<1> QED BY <1>4, <1>8, <1>10, <1>11, <1>12, <1>16, <1>17, <1>18, <1>19, StepOK

-----------------------------------------------------------------------------
\* A folder's row, new or written over, in the place it had.
LEMMA FolderPut ==
  ASSUME TablesOK, NEW id \in Folders, NEW row \in FolderRow, row.parent \in Place,
         id \in DOMAIN folders => row.parent = folders[id].parent,
         folders' = Put(folders, id, row), files' = files, bytes' = bytes
  PROVE  /\ TablesOK' /\ Grows /\ DOMAIN folders' = DOMAIN folders \cup {id} /\ folders'[id] = row
         /\ \A g \in DOMAIN folders \ {id} : folders'[g] = folders[g]
<1>1. /\ DOMAIN folders' = DOMAIN folders \cup {id} /\ folders'[id] = row
      /\ \A g \in DOMAIN folders \ {id} : folders'[g] = folders[g]
  BY DEF Put
<1>2. folders' \in [DOMAIN folders' -> FolderRow]
  BY PutIs, <1>1 DEF TablesOK
<1>3. Place \subseteq Place'
  BY <1>1 DEF Place
<1>4. \A g \in DOMAIN folders' : folders'[g].parent \in Place'
  BY <1>1, <1>3 DEF TablesOK
<1>5. TablesOK'
  BY <1>1, <1>2, <1>3, <1>4 DEF TablesOK
<1>6. Grows
  BY <1>1 DEF Grows
<1> QED BY <1>1, <1>5, <1>6

\* The unique index keeps open folders of one place apart.
LEMMA FolderPutApart ==
  ASSUME NamesApart, NEW id \in Folders, NEW row \in FolderRow,
         row.removed \/ NameFree(id, row.parent, row.name),
         DOMAIN folders' = DOMAIN folders \cup {id}, folders'[id] = row,
         \A g \in DOMAIN folders \ {id} : folders'[g] = folders[g]
  PROVE  NamesApart'
<1>1. SUFFICES ASSUME NEW f \in DOMAIN folders', OpenFolder(f)', NEW g \in DOMAIN folders' \ {f},
                      OpenFolder(g)', folders'[g].parent = folders'[f].parent,
                      folders'[g].name = folders'[f].name
               PROVE  FALSE
  BY DEF NamesApart, NameFree
<1>2. CASE f = id
  <2>1. g \in DOMAIN folders \ {id} /\ OpenFolder(g) /\ folders[g] = folders'[g] /\ ~ row.removed
    BY <1>1, <1>2 DEF OpenFolder
  <2> QED BY <1>1, <1>2, <2>1 DEF NameFree
<1>3. CASE g = id
  <2>1. f \in DOMAIN folders \ {id} /\ OpenFolder(f) /\ folders[f] = folders'[f] /\ ~ row.removed
    BY <1>1, <1>3 DEF OpenFolder
  <2> QED BY <1>1, <1>3, <2>1 DEF NameFree
<1>4. CASE f # id /\ g # id
  <2>1. /\ f \in DOMAIN folders /\ OpenFolder(f) /\ folders[f] = folders'[f]
        /\ g \in DOMAIN folders \ {f} /\ OpenFolder(g) /\ folders[g] = folders'[g]
    BY <1>1, <1>4 DEF OpenFolder
  <2> QED BY <1>1, <2>1 DEF NamesApart, NameFree
<1> QED BY <1>2, <1>3, <1>4

\* No folder moves: its depth is what it was.
LEMMA RankedStays ==
  ASSUME FoldersInv, NEW d \in Desks, Grows, DOMAIN folders' = DOMAIN folders, deskAt'[d] # "creating",
         \A e \in Desks \ {d} : Untouched(e)
  PROVE  Ranked'
<1>1. PICK r : Ranks(r) /\ RoomLeft(r)
  BY DEF FoldersInv, Ranked
<1>2. Ranks(r)'
  BY <1>1 DEF Grows, Ranks
<1>3. RoomLeft(r)'
  BY <1>1 DEF RoomLeft, Untouched
<1> QED BY <1>2, <1>3 DEF Ranked

\* A new folder is one below its place, for which there was room.
LEMMA RankedGrows ==
  ASSUME FoldersInv, NEW d \in Desks, deskAt[d] = "creating", deskAt'[d] # "creating",
         NEW f \in Folders \ DOMAIN folders, NEW row \in FolderRow, row.parent = becoming[d].parent,
         DOMAIN folders' = DOMAIN folders \cup {f}, folders'[f] = row,
         \A g \in DOMAIN folders \ {f} : folders'[g] = folders[g],
         \A e \in Desks \ {d} : Untouched(e)
  PROVE  Ranked'
<1>1. PICK r : Ranks(r) /\ RoomLeft(r)
  BY DEF FoldersInv, Ranked
<1>2. row.parent \in Place /\ (row.parent = Top \/ r[row.parent] < MaxDepth)
  BY <1>1 DEF FoldersInv, DeskOK, RoomLeft
<1> DEFINE top == IF row.parent = Top THEN 1 ELSE r[row.parent] + 1
           s == [g \in DOMAIN folders \cup {f} |-> IF g = f THEN top ELSE r[g]]
<1>3. top \in 1 .. MaxDepth
  <2>1. MaxDepth \in Nat /\ MaxDepth >= 1
    OBVIOUS
  <2>2. CASE row.parent = Top
    BY <2>1, <2>2
  <2>3. CASE row.parent # Top
    <3>1. r[row.parent] \in 1 .. MaxDepth
      BY <1>1, <1>2, <2>3 DEF Ranks, Place
    <3> QED BY <1>2, <2>1, <2>3, <3>1
  <2> QED BY <2>2, <2>3
<1>4. /\ s \in [DOMAIN folders \cup {f} -> 1 .. MaxDepth] /\ s[f] = top
      /\ \A g \in DOMAIN folders : s[g] = r[g]
  BY <1>1, <1>3 DEF Ranks
<1>5. \A g \in DOMAIN folders' :
          s[g] = IF folders'[g].parent = Top THEN 1 ELSE s[folders'[g].parent] + 1
  <2>1. CASE row.parent = Top
    <3>1. s[f] = IF folders'[f].parent = Top THEN 1 ELSE s[folders'[f].parent] + 1
      BY <1>4, <2>1
    <3> QED BY <1>1, <1>4, <3>1 DEF Ranks, FoldersInv, TablesOK, Place
  <2>2. CASE row.parent # Top
    <3>1. s[f] = IF folders'[f].parent = Top THEN 1 ELSE s[folders'[f].parent] + 1
      BY <1>2, <1>4, <2>2 DEF Place
    <3> QED BY <1>1, <1>4, <3>1 DEF Ranks, FoldersInv, TablesOK, Place
  <2> QED BY <2>1, <2>2
<1> HIDE DEF top, s
<1>6. PICK t : t = s
  OBVIOUS
<1>7. Ranks(t)'
  BY <1>4, <1>5, <1>6 DEF Ranks
<1>8. RoomLeft(t)'
  <2>1. ASSUME NEW e \in Desks, deskAt'[e] = "creating"
        PROVE  becoming'[e].parent = Top \/ t[becoming'[e].parent] < MaxDepth
    <3>1. e # d /\ deskAt[e] = "creating" /\ becoming'[e] = becoming[e]
      BY <2>1 DEF Untouched
    <3>2. becoming[e].parent \in Place
      BY <3>1 DEF FoldersInv, DeskOK
    <3> QED BY <1>1, <1>4, <1>6, <3>1, <3>2 DEF RoomLeft, Place
  <2> QED BY <2>1 DEF RoomLeft
<1> QED BY <1>7, <1>8 DEF Ranked

\* A request that wrote and is done.
LEMMA WrittenOK ==
  ASSUME FoldersInv, NEW d \in Desks, Leave(d), deskAt[d] \notin {"idle", "keeping"},
         TablesOK', Grows, bytes' = bytes, NamesApart', Ranked',
         oneAtATime' = oneAtATime, faults' = faults,
         oneAtATime => NoneHidden' /\ failures' \subseteq {"too deep", "spelling"}
  PROVE  FoldersInv'
<1>1. faults' \in Nat
  BY DEF FoldersInv, ShapesOK
<1>2. /\ ShapesOK' /\ DeskOK(d)' /\ deskAt'[d] = "idle" /\ \A e \in Desks \ {d} : Untouched(e)
  BY <1>1, LeaveIs DEF FoldersInv
<1>3. Fresh(d)'
  BY <1>2 DEF Fresh
<1>4. oneAtATime => Alone(d)
  BY WorkingIs
<1>5. faults' = 0 => \A x \in bytes' \ DOMAIN files' :
            \/ x \in bytes \ DOMAIN files /\ ~ (deskAt[d] = "keeping" /\ about[d] = x)
            \/ deskAt'[d] = "keeping" /\ about'[d] = x
  BY DEF Grows
<1> QED BY <1>2, <1>3, <1>4, <1>5, StepOK

-----------------------------------------------------------------------------
\* What every write of a row read earlier has in common.
LEMMA WriteIs ==
  ASSUME FoldersInv, NEW d \in Desks, WriteRow(d)
  PROVE  /\ Leave(d) /\ bytes' = bytes /\ oneAtATime' = oneAtATime /\ faults' = faults /\ failures' = failures
         /\ deskAt[d] \in {"renaming", "removing folder", "moving", "removing"}
         /\ deskAt'[d] # "creating" /\ \A e \in Desks \ {d} : Untouched(e)
         /\ oneAtATime => Fresh(d) /\ NoneHidden /\ failures' \subseteq {"too deep", "spelling"}
<1>1. /\ Leave(d) /\ bytes' = bytes /\ oneAtATime' = oneAtATime /\ faults' = faults /\ failures' = failures
      /\ deskAt[d] \in {"renaming", "removing folder", "moving", "removing"}
  BY DEF WriteRow
<1>2. faults' \in Nat
  BY <1>1 DEF FoldersInv, ShapesOK
<1>3. deskAt'[d] # "creating" /\ \A e \in Desks \ {d} : Untouched(e)
  BY <1>1, <1>2, LeaveIs DEF FoldersInv
<1> QED BY <1>1, <1>3 DEF FoldersInv, Turns

\* A folder renamed where it is, or refused for its name.
LEMMA RenameOK ==
  ASSUME FoldersInv, NEW d \in Desks, WriteRow(d), deskAt[d] = "renaming"
  PROVE  FoldersInv'
<1>1. /\ about[d] \in DOMAIN folders /\ deskCopy[d] \in FolderRow /\ becoming[d] \in Names
      /\ deskCopy[d].parent = folders[about[d]].parent
  BY DEF FoldersInv, DeskOK
<1>2. PICK id \in DOMAIN folders : id = about[d]
  BY <1>1
<1>3. PICK was \in FolderRow : was = deskCopy[d]
  BY <1>1
<1>4. PICK n \in Names : n = becoming[d]
  BY <1>1
<1> DEFINE row == [was EXCEPT !.name = n]
<1>5. row \in FolderRow /\ row.parent = was.parent /\ row.removed = was.removed
  BY DEF FolderRow
<1>6. /\ folders' = IF SaveFolder(id, row) THEN Put(folders, id, row) ELSE folders
      /\ files' = files
  BY <1>2, <1>3, <1>4 DEF WriteRow
<1> HIDE DEF row
<1>7. CASE ~ SaveFolder(id, row)
  <2>1. UNCHANGED folderTables
    BY <1>6, <1>7, WriteIs DEF folderTables
  <2>2. faults' \in Nat
    BY WriteIs DEF FoldersInv, ShapesOK
  <2> QED BY <2>1, <2>2, WriteIs, LeaveOK
<1>8. CASE SaveFolder(id, row)
  <2>1. /\ TablesOK /\ id \in Folders /\ row.parent = folders[id].parent /\ row.parent \in Place
    BY <1>1, <1>2, <1>3, <1>5 DEF FoldersInv, TablesOK
  <2>2. folders' = Put(folders, id, row) /\ files' = files /\ bytes' = bytes
    BY <1>6, <1>8, WriteIs
  <2>3. /\ TablesOK' /\ Grows /\ DOMAIN folders' = DOMAIN folders \cup {id} /\ folders'[id] = row
        /\ \A g \in DOMAIN folders \ {id} : folders'[g] = folders[g]
    BY <1>5, <2>1, <2>2, FolderPut
  <2>4. NamesApart'
    BY <1>5, <1>8, <2>1, <2>3, FolderPutApart DEF SaveFolder, FoldersInv
  <2>5. Ranked'
    BY <2>3, WriteIs, RankedStays
  <2>6. ASSUME oneAtATime PROVE NoneHidden'
    <3>1. OpenFolder(id) /\ ~ row.removed
      BY <1>2, <1>3, <1>5, <2>6, WriteIs DEF Fresh, OpenFolder
    <3>2. \A p : OpenFolder(p)' <=> OpenFolder(p)
      BY <2>3, <3>1 DEF OpenFolder
    <3>3. \A p : OpenPlace(p)' <=> OpenPlace(p)
      BY <3>2 DEF OpenPlace
    <3>4. \A x \in DOMAIN files' : LiveFile(x)' => OpenPlace(files[x].place)'
      BY <2>2, <2>6, <3>3, WriteIs DEF NoneHidden, LiveFile
    <3>5. \A f \in DOMAIN folders' : folders'[f].parent = folders[f].parent
      BY <2>1, <2>3
    <3>6. ASSUME NEW f \in DOMAIN folders', OpenFolder(f)' PROVE OpenPlace(folders[f].parent)'
      <4>1. OpenFolder(f) /\ f \in DOMAIN folders
        BY <3>2, <3>6 DEF OpenFolder
      <4>2. OpenPlace(folders[f].parent)
        BY <2>6, <4>1, WriteIs DEF NoneHidden
      <4>3. PICK q : q = folders[f].parent
        OBVIOUS
      <4> QED BY <3>3, <3>5, <4>2, <4>3
    <3> QED BY <3>4, <3>6 DEF NoneHidden
  <2> QED BY <2>2, <2>3, <2>4, <2>5, <2>6, WriteIs, WrittenOK
<1> QED BY <1>7, <1>8

\* A folder removed: while the desks take turns, with nothing in it.
LEMMA RemoveFolderOK ==
  ASSUME FoldersInv, NEW d \in Desks, WriteRow(d), deskAt[d] = "removing folder"
  PROVE  FoldersInv'
<1>1. /\ about[d] \in DOMAIN folders /\ deskCopy[d] \in FolderRow
      /\ deskCopy[d].parent = folders[about[d]].parent
  BY DEF FoldersInv, DeskOK
<1>2. PICK id \in DOMAIN folders : id = about[d]
  BY <1>1
<1>3. PICK was \in FolderRow : was = deskCopy[d]
  BY <1>1
<1> DEFINE row == [was EXCEPT !.removed = TRUE]
<1>4. row \in FolderRow /\ row.parent = was.parent /\ row.removed
  BY DEF FolderRow
<1>5. folders' = Put(folders, id, row) /\ files' = files /\ bytes' = bytes
  BY <1>2, <1>3, WriteIs DEF WriteRow
<1> HIDE DEF row
<1>6. /\ TablesOK /\ id \in Folders /\ row.parent = folders[id].parent /\ row.parent \in Place
  BY <1>1, <1>2, <1>3, <1>4 DEF FoldersInv, TablesOK
<1>7. /\ TablesOK' /\ Grows /\ DOMAIN folders' = DOMAIN folders \cup {id} /\ folders'[id] = row
      /\ \A g \in DOMAIN folders \ {id} : folders'[g] = folders[g]
  BY <1>4, <1>5, <1>6, FolderPut
<1>8. NamesApart'
  BY <1>4, <1>6, <1>7, FolderPutApart DEF FoldersInv
<1>9. Ranked'
  BY <1>7, WriteIs, RankedStays
<1>10. ASSUME oneAtATime PROVE NoneHidden'
  <2>1. ~ HasContents(id)
    BY <1>2, <1>10, WriteIs DEF Fresh
  <2>2. \A p : p # id => (OpenFolder(p)' <=> OpenFolder(p))
    BY <1>7 DEF OpenFolder
  <2>3. \A p : p # id => (OpenPlace(p)' <=> OpenPlace(p))
    BY <2>2 DEF OpenPlace
  <2>4. ASSUME NEW x \in DOMAIN files', LiveFile(x)' PROVE OpenPlace(files[x].place)'
    <3>1. x \in DOMAIN files /\ LiveFile(x)
      BY <1>5, <2>4 DEF LiveFile
    <3>2. files[x].place # id /\ OpenPlace(files[x].place)
      BY <1>10, <2>1, <3>1, WriteIs DEF HasContents, NoneHidden
    <3>3. PICK q : q = files[x].place
      OBVIOUS
    <3> QED BY <1>5, <2>3, <3>2, <3>3
  <2>5. ASSUME NEW f \in DOMAIN folders', OpenFolder(f)' PROVE OpenPlace(folders[f].parent)'
    <3>1. f # id
      BY <1>4, <1>7, <2>5 DEF OpenFolder
    <3>2. f \in DOMAIN folders /\ OpenFolder(f) /\ folders'[f] = folders[f]
      BY <1>7, <2>5, <3>1 DEF OpenFolder
    <3>3. folders[f].parent # id /\ OpenPlace(folders[f].parent)
      BY <1>10, <2>1, <3>2, WriteIs DEF HasContents, NoneHidden
    <3>4. PICK q : q = folders[f].parent
      OBVIOUS
    <3> QED BY <2>3, <3>2, <3>3, <3>4
  <2> QED BY <2>4, <2>5 DEF NoneHidden
<1> QED BY <1>5, <1>7, <1>8, <1>9, <1>10, WriteIs, WrittenOK

\* A file's row written over.
LEMMA FilePutOK ==
  ASSUME FoldersInv, NEW d \in Desks, WriteRow(d), NEW x \in DOMAIN files, NEW row \in ListedFile, row.place \in Place,
         files' = Put(files, x, row), folders' = folders,
         oneAtATime => row.removed \/ OpenPlace(row.place)
  PROVE  FoldersInv'
<1>1. bytes' = bytes /\ Place' = Place
  BY WriteIs DEF Place
<1>2. /\ DOMAIN files' = DOMAIN files /\ files'[x] = row
      /\ \A y \in DOMAIN files \ {x} : files'[y] = files[y]
  BY DEF Put
<1>3. files' \in [DOMAIN files' -> ListedFile]
  <2>1. files \in [DOMAIN files -> ListedFile]
    BY DEF FoldersInv, TablesOK
  <2>2. files' \in [DOMAIN files \cup {x} -> ListedFile]
    BY <2>1, PutIs
  <2> QED BY <1>2, <2>2
<1>4. \A y \in DOMAIN files' : files'[y].place \in Place'
  BY <1>1, <1>2 DEF FoldersInv, TablesOK
<1>5. TablesOK' /\ Grows
  BY <1>1, <1>2, <1>3, <1>4 DEF FoldersInv, TablesOK, Grows
<1>6. NamesApart' /\ Ranked'
  <2>1. NamesApart'
    BY DEF FoldersInv, NamesApart, NameFree, OpenFolder
  <2>2. Ranked'
    BY <1>5, WriteIs, RankedStays
  <2> QED BY <2>1, <2>2
<1>7. ASSUME oneAtATime PROVE NoneHidden'
  <2>1. \A p : OpenFolder(p)' <=> OpenFolder(p)
    BY DEF OpenFolder
  <2>2. \A p : OpenPlace(p)' <=> OpenPlace(p)
    BY <2>1 DEF OpenPlace
  <2>3. ASSUME NEW y \in DOMAIN files', LiveFile(y)' PROVE OpenPlace(files[y].place)'
    <3>1. CASE y = x
      <4>1. PICK q : q = row.place
        OBVIOUS
      <4>2. OpenPlace(q)
        BY <1>2, <1>7, <2>3, <3>1, <4>1 DEF LiveFile
      <4> QED BY <1>2, <2>2, <3>1, <4>1, <4>2
    <3>2. CASE y # x
      <4>1. y \in DOMAIN files /\ LiveFile(y) /\ files'[y] = files[y]
        BY <1>2, <2>3, <3>2 DEF LiveFile
      <4>2. OpenPlace(files[y].place)
        BY <1>7, <4>1, WriteIs DEF NoneHidden
      <4>3. PICK q : q = files[y].place
        OBVIOUS
      <4> QED BY <2>2, <4>1, <4>2, <4>3
    <3> QED BY <3>1, <3>2
  <2>4. \A f \in DOMAIN folders' : OpenFolder(f)' => OpenPlace(folders[f].parent)'
    BY <1>7, <2>1, <2>2, WriteIs DEF NoneHidden
  <2> QED BY <2>3, <2>4 DEF NoneHidden
<1> QED BY <1>1, <1>5, <1>6, <1>7, WriteIs, WrittenOK

\* A file moved.
LEMMA MoveOK ==
  ASSUME FoldersInv, NEW d \in Desks, WriteRow(d), deskAt[d] = "moving"
  PROVE  FoldersInv'
<1>1. about[d] \in DOMAIN files /\ deskCopy[d] \in ListedFile /\ becoming[d] \in Place
  BY DEF FoldersInv, DeskOK
<1>2. PICK x \in DOMAIN files, was \in ListedFile, p \in Place :
          x = about[d] /\ was = deskCopy[d] /\ p = becoming[d]
  BY <1>1
<1> DEFINE row == [was EXCEPT !.place = p]
<1>3. row \in ListedFile /\ row.place = p
  BY DEF ListedFile, Place, FoldersInv, TablesOK
<1>4. files' = Put(files, x, row) /\ folders' = folders
  BY <1>2 DEF WriteRow
<1>5. oneAtATime => OpenPlace(p)
  BY <1>2, WriteIs DEF Fresh
<1> HIDE DEF row
<1> QED BY <1>3, <1>4, <1>5, FilePutOK

\* A file removed.
LEMMA RemoveOK ==
  ASSUME FoldersInv, NEW d \in Desks, WriteRow(d), deskAt[d] = "removing"
  PROVE  FoldersInv'
<1>1. about[d] \in DOMAIN files /\ deskCopy[d] \in ListedFile /\ deskCopy[d].place \in Place
  BY DEF FoldersInv, DeskOK
<1>2. PICK x \in DOMAIN files, was \in ListedFile : x = about[d] /\ was = deskCopy[d] /\ was.place \in Place
  BY <1>1
<1> DEFINE row == [was EXCEPT !.removed = TRUE]
<1>3. row \in ListedFile /\ row.place = was.place /\ row.removed
  BY DEF ListedFile
<1>4. files' = Put(files, x, row) /\ folders' = folders
  BY <1>2 DEF WriteRow
<1> HIDE DEF row
<1> QED BY <1>2, <1>3, <1>4, FilePutOK

\* The four writes.
LEMMA WriteRowOK ==
  ASSUME FoldersInv, NEW d \in Desks, WriteRow(d)
  PROVE  FoldersInv'
  BY WriteIs, RenameOK, RemoveFolderOK, MoveOK, RemoveOK

\* A folder made, in an open place while the desks take turns.
LEMMA NewFolderOK ==
  ASSUME FoldersInv, NEW d \in Desks, deskAt[d] = "creating", deskAt'[d] # "creating",
         NEW f \in Folders \ DOMAIN folders, NEW p \in Place, NEW n \in Names, NEW row,
         row = [parent |-> p, name |-> n, removed |-> FALSE],
         p = becoming[d].parent, NameFree(f, p, n),
         folders' = Put(folders, f, row), files' = files, bytes' = bytes,
         \A e \in Desks \ {d} : Untouched(e)
  PROVE  /\ TablesOK' /\ Grows /\ NamesApart' /\ Ranked' /\ (oneAtATime => NoneHidden')
         /\ OpenFolder(f)' /\ f \in DOMAIN folders'
<1>1. row \in FolderRow /\ row.parent = p /\ row.name = n /\ row.removed = FALSE /\ TablesOK
  BY DEF FolderRow, Place, FoldersInv, TablesOK
<1>2. /\ TablesOK' /\ Grows /\ DOMAIN folders' = DOMAIN folders \cup {f} /\ folders'[f] = row
      /\ \A g \in DOMAIN folders \ {f} : folders'[g] = folders[g]
  <2>1. f \in DOMAIN folders => row.parent = folders[f].parent
    OBVIOUS
  <2> QED BY <1>1, <2>1, FolderPut
<1>3. NamesApart'
  BY <1>1, <1>2, FolderPutApart DEF FoldersInv
<1>4. Ranked'
  BY <1>1, <1>2, RankedGrows
<1>5. OpenFolder(f)' /\ f \in DOMAIN folders'
  BY <1>1, <1>2 DEF OpenFolder
<1>6. \A q : OpenFolder(q) => OpenFolder(q)'
  BY <1>2 DEF OpenFolder
<1>7. \A q : OpenPlace(q) => OpenPlace(q)'
  BY <1>6 DEF OpenPlace
<1>8. ASSUME oneAtATime PROVE NoneHidden'
  <2>1. ASSUME NEW x \in DOMAIN files', LiveFile(x)' PROVE OpenPlace(files[x].place)'
    <3>1. OpenPlace(files[x].place)
      BY <1>8, <2>1 DEF FoldersInv, Turns, NoneHidden, LiveFile
    <3>2. PICK q : q = files[x].place
      OBVIOUS
    <3> QED BY <1>7, <3>1, <3>2
  <2>2. ASSUME NEW g \in DOMAIN folders', OpenFolder(g)' PROVE OpenPlace(folders[g].parent)'
    <3>1. CASE g = f
      <4>1. OpenPlace(p)
        BY <1>8 DEF FoldersInv, Turns, Fresh
      <4> QED BY <1>1, <1>2, <1>7, <3>1, <4>1
    <3>2. CASE g # f
      <4>1. g \in DOMAIN folders /\ OpenFolder(g) /\ folders'[g] = folders[g]
        BY <1>2, <2>2, <3>2 DEF OpenFolder
      <4>2. OpenPlace(folders[g].parent)
        BY <1>8, <4>1 DEF FoldersInv, Turns, NoneHidden
      <4>3. PICK q : q = folders[g].parent
        OBVIOUS
      <4> QED BY <1>7, <4>1, <4>2, <4>3
    <3> QED BY <3>1, <3>2
  <2> QED BY <2>1, <2>2 DEF NoneHidden
<1> QED BY <1>2, <1>3, <1>4, <1>5, <1>8

\* createFolder's insert: refused for the name, done, or back to the drop.
LEMMA CreateOK ==
  ASSUME FoldersInv, NEW d \in Desks, Create(d)
  PROVE  FoldersInv'
<1>1. deskAt[d] = "creating" /\ becoming[d] \in [parent : Place, name : Names]
  BY DEF Create, FoldersInv, DeskOK
<1>2. PICK p \in Place, asked \in Names : p = becoming[d].parent /\ asked = becoming[d].name
  BY <1>1
<1>3. PICK n \in Names : n = Cleaned[asked]
  OBVIOUS
<1> DEFINE row == [parent |-> p, name |-> n, removed |-> FALSE]
<1>4. dropping[d] # {} => d \in Panels /\ path[d] # <<>> /\ Head(path[d]) = asked /\ path[d] \in Seq(Names)
  BY <1>1, <1>2 DEF FoldersInv, DeskOK, ShapesOK
<1>5. oneAtATime => /\ Alone(d) /\ Fresh(d) /\ failures \subseteq {"too deep", "spelling"}
                    /\ dropping[d] # {} /\ n = asked => NameFree(Nil, p, n)
  BY <1>1, <1>2, <1>3, WorkingIs DEF FoldersInv, Turns, Fresh
<1>6. faults \in Nat
  BY DEF FoldersInv, ShapesOK
<1>7. CASE /\ ~ NameFree(Nil, p, n) /\ Leave(d)
           /\ IF dropping[d] = {} THEN UNCHANGED failures ELSE Failing(Why(d, "name taken"))
           /\ UNCHANGED <<folderTables, oneAtATime, faults>>
  <2>1. oneAtATime => failures' \subseteq {"too deep", "spelling"}
    <3>1. oneAtATime /\ dropping[d] # {} => Why(d, "name taken") = "spelling"
      BY <1>3, <1>4, <1>5, <1>7 DEF Why
    <3> QED BY <1>5, <1>7, <3>1 DEF Failing
  <2> QED BY <1>1, <1>6, <1>7, <2>1, LeaveOK
<1>8. ASSUME NEW f \in Folders \ DOMAIN folders, NameFree(f, p, n), folders' = Put(folders, f, row),
             files' = files, bytes' = bytes, oneAtATime' = oneAtATime, faults' = faults,
             dropping[d] = {} \/ n # asked, Leave(d),
             IF dropping[d] = {} THEN UNCHANGED failures ELSE Failing("spelling")
      PROVE  FoldersInv'
  <2>1. deskAt'[d] # "creating" /\ \A e \in Desks \ {d} : Untouched(e)
    BY <1>6, <1>8, LeaveIs DEF FoldersInv
  <2>2. TablesOK' /\ Grows /\ NamesApart' /\ Ranked' /\ (oneAtATime => NoneHidden')
    BY <1>1, <1>2, <1>8, <2>1, NewFolderOK
  <2>3. oneAtATime => failures' \subseteq {"too deep", "spelling"}
    BY <1>5, <1>8 DEF Failing
  <2> QED BY <1>1, <1>8, <2>2, <2>3, WrittenOK
<1>9. ASSUME NEW f \in Folders \ DOMAIN folders, NameFree(f, p, n), folders' = Put(folders, f, row),
             files' = files, bytes' = bytes, oneAtATime' = oneAtATime, faults' = faults, failures' = failures,
             dropping[d] # {}, Holding(d, "finding", Nil, Nil, f), dropping' = dropping,
             path' = [path EXCEPT ![d] = Tail(@)], listed' = [listed EXCEPT ![d] = Listing']
      PROVE  FoldersInv'
  <2>1. /\ deskAt'[d] = "finding" /\ becoming'[d] = f
        /\ \A e \in Desks \ {d} : /\ deskAt'[e] = deskAt[e] /\ about'[e] = about[e]
                                  /\ deskCopy'[e] = deskCopy[e] /\ becoming'[e] = becoming[e]
    BY <1>9, HoldingIs DEF FoldersInv
  <2>2. \A e \in Desks \ {d} : path'[e] = path[e] /\ (e \in Panels => listed'[e] = listed[e])
    BY <1>9 DEF FoldersInv, ShapesOK
  <2>3. \A e \in Desks \ {d} : Untouched(e)
    BY <1>9, <2>1, <2>2 DEF Untouched
  <2>4. /\ TablesOK' /\ Grows /\ NamesApart' /\ Ranked' /\ (oneAtATime => NoneHidden')
        /\ OpenFolder(f)' /\ f \in DOMAIN folders'
    BY <1>1, <1>2, <1>9, <2>1, <2>3, NewFolderOK
  <2>5. /\ Listing' \subseteq [id : Folders, parent : Folders \cup {Top}, name : Names]
        /\ \A q \in Listing' : q.id \in DOMAIN folders'
    <3>1. TablesOK' => ListedRight'
      BY ListingRight, PTL
    <3> QED BY <2>4, <3>1 DEF ListedRight
  <2>6. listed'[d] = Listing' /\ d \in Panels
    BY <1>4, <1>9 DEF FoldersInv, ShapesOK
  <2>7. ShapesOK'
    <3>1. Tail(path[d]) \in Seq(Names)
      BY <1>4, <1>9
    <3>2. /\ dropping' \in [Desks -> SUBSET Files] /\ path' \in [Desks -> Seq(Names)]
          /\ listed' \in [Panels -> SUBSET [id : Folders, parent : Folders \cup {Top}, name : Names]]
      BY <1>9, <2>5, <3>1 DEF FoldersInv, ShapesOK
    <3> QED BY <1>6, <1>9, <3>2, HoldingShapes DEF FoldersInv
  <2>8. DeskOK(d)'
    BY <2>1, <2>4, <2>5, <2>6 DEF DeskOK, Place
  <2>9. Fresh(d)'
    <3>1. OpenPlace(f)'
      BY <2>4 DEF OpenPlace
    <3>2. OpenPlace(becoming[d])'
      BY <2>1, <3>1
    <3> QED BY <2>1, <2>6, <3>2 DEF Fresh
  <2>10. oneAtATime => Alone(d) /\ Fresh(d)' /\ failures' \subseteq {"too deep", "spelling"} /\ NoneHidden'
    BY <1>5, <1>9, <2>4, <2>9
  <2>11. faults' = 0 => \A x \in bytes' \ DOMAIN files' :
            \/ x \in bytes \ DOMAIN files /\ ~ (deskAt[d] = "keeping" /\ about[d] = x)
            \/ deskAt'[d] = "keeping" /\ about'[d] = x
    BY <1>1, <1>9
  <2> QED BY <1>9, <2>3, <2>4, <2>7, <2>8, <2>10, <2>11, StepOK
<1> HIDE DEF row
<1>10. \/ /\ ~ NameFree(Nil, p, n) /\ Leave(d)
          /\ IF dropping[d] = {} THEN UNCHANGED failures ELSE Failing(Why(d, "name taken"))
          /\ UNCHANGED <<folderTables, oneAtATime, faults>>
       \/ \E f \in Folders \ DOMAIN folders :
          /\ NameFree(f, p, n) /\ folders' = Put(folders, f, row)
          /\ IF dropping[d] = {} \/ n # asked
             THEN /\ Leave(d)
                  /\ IF dropping[d] = {} THEN UNCHANGED failures ELSE Failing("spelling")
             ELSE /\ Holding(d, "finding", Nil, Nil, f)
                  /\ path' = [path EXCEPT ![d] = Tail(@)]
                  /\ listed' = [listed EXCEPT ![d] = Listing']
                  /\ UNCHANGED <<dropping, failures>>
          /\ UNCHANGED <<files, bytes, oneAtATime, faults>>
  <2>1. row = [parent |-> becoming[d].parent, name |-> Cleaned[becoming[d].name], removed |-> FALSE]
    BY <1>2, <1>3 DEF row
  <2>2. row.parent = p /\ row.name = n
    BY DEF row
  <2>3. Cleaned[becoming[d].name] = n /\ becoming[d].name = asked
    BY <1>2, <1>3
  <2> QED BY <2>1, <2>2, <2>3 DEF Create
<1> QED BY <1>7, <1>8, <1>9, <1>10

\* An empty folder.
LEMMA FoldersStart == FoldersInit => FoldersInv
<1> SUFFICES ASSUME FoldersInit PROVE FoldersInv
  OBVIOUS
<1>1. DOMAIN folders = {} /\ DOMAIN files = {} /\ bytes = {}
  BY DEF FoldersInit
<1>2. TablesOK
  BY <1>1 DEF FoldersInit, TablesOK
<1>3. ShapesOK
  BY DEF FoldersInit, ShapesOK
<1>4. \A d \in Desks : deskAt[d] = "idle" /\ dropping[d] = {}
  BY DEF FoldersInit
<1>5. \A d \in Desks : DeskOK(d) /\ Fresh(d) /\ Alone(d)
  BY <1>4 DEF DeskOK, Fresh, Alone
<1>6. Ranked
  <2> DEFINE r == [f \in {} |-> 1]
  <2>1. Ranks(r)
    BY <1>1 DEF Ranks
  <2>2. RoomLeft(r)
    BY <1>4 DEF RoomLeft
  <2> QED BY <2>1, <2>2 DEF Ranked
<1>7. NamesApart /\ AllKept /\ NoneHidden
  BY <1>1 DEF NamesApart, AllKept, NoneHidden
<1>8. failures = {}
  BY DEF FoldersInit
<1> QED BY <1>2, <1>3, <1>4, <1>5, <1>6, <1>7, <1>8 DEF FoldersInv, Turns

\* Whatever happens next.
LEMMA FoldersGoOn == FoldersInv /\ [FoldersNext]_foldersVars => FoldersInv'
<1> SUFFICES ASSUME FoldersInv, [FoldersNext]_foldersVars PROVE FoldersInv'
  OBVIOUS
<1>1. CASE UNCHANGED foldersVars
  <2>1. /\ folders' = folders /\ files' = files /\ bytes' = bytes
        /\ deskAt' = deskAt /\ about' = about /\ deskCopy' = deskCopy /\ becoming' = becoming
        /\ listed' = listed /\ dropping' = dropping /\ path' = path
        /\ oneAtATime' = oneAtATime /\ faults' = faults /\ failures' = failures
    BY <1>1 DEF foldersVars, folderTables, deskVars, panelVars
  <2>2. TablesOK' /\ ShapesOK' /\ \A d \in Desks : DeskOK(d)'
    BY <2>1 DEF FoldersInv, TablesOK, ShapesOK, DeskOK, Place
  <2>3. Ranked' /\ NamesApart' /\ AllKept'
    BY <2>1 DEF FoldersInv, Ranked, Ranks, RoomLeft, NamesApart, AllKept, NameFree, OpenFolder
  <2>4. UNCHANGED folderTables
    BY <2>1 DEF folderTables
  <2>5. ASSUME NEW d \in Desks, Fresh(d) PROVE Fresh(d)'
    <3>1. PICK at, id, copy, to : at = deskAt[d] /\ id = about[d] /\ copy = deskCopy[d] /\ to = becoming[d]
      OBVIOUS
    <3>2. deskAt'[d] = at /\ about'[d] = id /\ deskCopy'[d] = copy /\ becoming'[d] = to /\ dropping'[d] = dropping[d]
      BY <2>1, <3>1
    <3>3. deskAt'[d] = "creating" =>
            /\ OpenPlace(becoming[d].parent)'
            /\ dropping'[d] # {} /\ Cleaned[becoming'[d].name] = becoming'[d].name =>
                  NameFree(Nil, becoming[d].parent, becoming[d].name)'
      <4>1. at = "creating" => /\ OpenPlace(to.parent)
                               /\ dropping[d] # {} /\ Cleaned[to.name] = to.name => NameFree(Nil, to.parent, to.name)
        BY <2>5, <3>1 DEF Fresh
      <4>2. at = "creating" => /\ OpenPlace(to.parent)'
                               /\ dropping[d] # {} /\ Cleaned[to.name] = to.name => NameFree(Nil, to.parent, to.name)'
        BY <2>4, <4>1, TablesAsTheyWere
      <4> QED BY <3>2, <4>2
    <3>4. /\ deskAt'[d] \in {"renaming", "removing folder"} =>
                OpenFolder(about[d])' /\ deskCopy'[d] = folders'[about'[d]]
          /\ deskAt'[d] = "removing folder" => ~ HasContents(about[d])'
          /\ deskAt'[d] \in {"moving", "removing"} => LiveFile(about[d])' /\ deskCopy'[d] = files'[about'[d]]
      <4>1. /\ at \in {"renaming", "removing folder"} => OpenFolder(id) /\ copy = folders[id]
            /\ at = "removing folder" => ~ HasContents(id)
            /\ at \in {"moving", "removing"} => LiveFile(id) /\ copy = files[id]
        BY <2>5, <3>1 DEF Fresh
      <4>2. /\ at \in {"renaming", "removing folder"} => OpenFolder(id)' /\ copy = folders'[id]
            /\ at = "removing folder" => ~ HasContents(id)'
            /\ at \in {"moving", "removing"} => LiveFile(id)' /\ copy = files'[id]
        BY <2>1, <2>4, <4>1, TablesAsTheyWere
      <4> QED BY <3>2, <4>2
    <3>5. /\ deskAt'[d] \in {"finding", "keeping", "moving"} => OpenPlace(becoming[d])'
          /\ deskAt'[d] = "finding" => listed'[d] = Listing'
      <4>1. at \in {"finding", "keeping", "moving"} => OpenPlace(to)
        BY <2>5, <3>1 DEF Fresh
      <4>2. at \in {"finding", "keeping", "moving"} => OpenPlace(to)'
        BY <2>4, <4>1, TablesAsTheyWere
      <4>3. deskAt'[d] = "finding" => listed'[d] = Listing'
        BY <2>1, <2>4, <2>5, TablesAsTheyWere DEF Fresh
      <4> QED BY <3>2, <4>2, <4>3
    <3> QED BY <3>3, <3>4, <3>5 DEF Fresh
  <2>6. NoneHidden => NoneHidden'
    BY <2>1 DEF NoneHidden, OpenPlace, OpenFolder, LiveFile
  <2>7. Turns'
    BY <2>1, <2>5, <2>6 DEF FoldersInv, Turns, Alone
  <2> QED BY <2>2, <2>3, <2>7 DEF FoldersInv
<1>2. CASE FoldersNext
  <2>1. PICK d \in Desks :
        \/ \E p \in DOMAIN folders \cup {Top}, n \in Spelled : ReadToCreate(d, p, n)
        \/ \E f \in DOMAIN folders : (\E n \in Spelled : ReadToRename(d, f, n)) \/ ReadToRemoveFolder(d, f)
        \/ \E x \in DOMAIN files : (\E p \in DOMAIN folders \cup {Top} : ReadToMove(d, x, p)) \/ ReadToRemove(d, x)
        \/ WriteRow(d)
        \/ \E X \in SUBSET Files, ns \in Paths, p \in DOMAIN folders \cup {Top} : d \in Panels /\ Drop(d, X, ns, p)
        \/ FindOrMake(d) \/ Create(d) \/ Send(d)
        \/ \E x \in Files : StoreFile(d, x) \/ RefuseFile(d, x)
        \/ RecordFile(d) \/ Finish(d) \/ Lost(d)
    BY <1>2 DEF FoldersNext
  <2> QED BY <2>1, ReadToCreateOK, ReadToRenameOK, ReadToRemoveFolderOK, ReadToMoveOK, ReadToRemoveOK,
             WriteRowOK, DropOK, FindOrMakeOK, CreateOK, SendOK, StoreFileOK, RefuseFileOK, RecordFileOK,
             FinishOK, LostOK
<1> QED BY <1>1, <1>2

\* The invariant says what is wanted.
LEMMA FoldersAreRight == FoldersInv => FoldersHold
<1> SUFFICES ASSUME FoldersInv PROVE FoldersHold
  OBVIOUS
<1>1. FoldersTypeOK
  BY DEF FoldersInv, TablesOK, ShapesOK, FolderRow, ListedFile, FoldersTypeOK
<1>2. FoldersSound
  <2>1. PICK r : Ranks(r)
    BY DEF FoldersInv, Ranked
  <2>2. \A f \in DOMAIN folders : DepthOf(f) = r[f] /\ r[f] \in 1 .. MaxDepth
    BY <2>1, DepthIs DEF FoldersInv, Ranks
  <2>3. \A f \in DOMAIN folders : DepthOf(f) <= MaxDepth
    BY <2>2
  <2> QED BY <2>3 DEF FoldersInv, TablesOK, NamesApart, FoldersSound
<1>3. NothingOutOfSight
  BY DEF FoldersInv, Turns, NoneHidden, NothingOutOfSight
<1>4. FoundOrMade
  BY DEF FoldersInv, Turns, FoundOrMade
<1>5. NoneHalfKept
  BY DEF FoldersInv, AllKept, NoneHalfKept
<1> QED BY <1>1, <1>2, <1>3, <1>4, <1>5 DEF FoldersHold

\* A client's folder, for any folders, files, names and people, whoever is at work
\* at once: two open folders of one place are never called the same, none is
\* deeper than the limit, a listed file has its bytes, and bytes alone are the
\* mark of a fault. If people take turns, nothing is in a folder that was removed,
\* and a drop fails for no reason but the two the panel can tell.
THEOREM FoldersHoldForAny == FoldersSpec => []FoldersHold
<1>1. FoldersSpec => []FoldersInv
  BY FoldersStart, FoldersGoOn, PTL DEF FoldersSpec
<1> QED BY <1>1, FoldersAreRight, PTL
=============================================================================
