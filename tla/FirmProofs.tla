------------------------------ MODULE FirmProofs ------------------------------
(***************************************************************************)
(* What the firm keeps about its work holds for any people, requests and   *)
(* documents: the log of what was said to a client (ContactLog), the team  *)
(* of a job (Team), the classification of documents (Classification) and   *)
(* the lists a manager keeps (Settings).                                   *)
(*                                                                         *)
(* Each part states the inductive invariant of its component, that every   *)
(* action keeps it, and the theorem that follows.                          *)
(***************************************************************************)
EXTENDS ContactLog, Team, Classification, Settings, WellFoundedInduction, TLAPS

(* Contact log: a request that nothing cut off is the one the form waits   *)
(* for, and what it has done so far agrees with where it stands.           *)

Stages == {"unsent", "sent", "storing", "attaching", "refused", "answered", "done", "dead"}
Requesting == [at : Stages, talk : Talks \cup {None}, ahead : BOOLEAN,
               files : SUBSET Shots, left : SUBSET Shots, shown : SUBSET Shots]

Forms == [open : BOOLEAN, talk : Talks \cup {None}, ahead : BOOLEAN,
          files : SUBSET Shots, shown : SUBSET Shots, waits : Serving \cup {None}]

FormOK ==
    /\ form \in Forms
    /\ form.open => form.talk \in Talks
    /\ resolute => form.files = form.shown /\ (~ form.open => form.files = {})

\* A request that is neither over nor cut off is the one the form waits for.
UnderWay(r) == serving[r].at \in {"sent", "storing", "attaching", "refused"}
WaitsFor == \A r \in Serving : form.waits = r <=> UnderWay(r) /\ r \notin cut

\* What a request has done.
RequestSound(r) ==
    /\ serving[r].left \subseteq serving[r].files
    /\ serving[r].at = "unsent" => r \notin cut
    /\ serving[r].at # "unsent" => serving[r].talk \in Talks
    /\ resolute => serving[r].files = serving[r].shown
    /\ serving[r].at = "sent" => serving[r].left = serving[r].files
    /\ serving[r].at = "dead" => r \in cut
    /\ serving[r].at \in {"storing", "attaching", "done"} => ~ serving[r].ahead
    /\ serving[r].at = "storing" =>
          \A f \in serving[r].files \ serving[r].left : <<r, f>> \in bytes
    /\ serving[r].at = "attaching" =>
          /\ \A f \in serving[r].files : <<r, f>> \in bytes
          /\ \A f \in serving[r].files \ serving[r].left : <<r, f>> \in proof
    /\ serving[r].at = "done" => \A f \in serving[r].files : <<r, f>> \in proof
    /\ serving[r].at \in {"attaching", "done"} => entry[r] # None

EntrySound(r) ==
    entry[r] # None =>
        /\ serving[r].at \in {"attaching", "done", "dead"}
        /\ entry[r] = [talk |-> serving[r].talk, ahead |-> FALSE]

\* Of the requests nothing cut off, one that is done and another that is done or on
\* its way are of different conversations; and the form is open at none that is done.
TalksApart ==
    \A s \in Serving \ cut : serving[s].at = "done" =>
        /\ form.open => form.talk # serving[s].talk
        /\ \A r \in Serving \ cut :
              r # s /\ (UnderWay(r) \/ serving[r].at = "done") => serving[r].talk # serving[s].talk

LogInv ==
    /\ serving \in [Serving -> Requesting]
    /\ entry \in [Serving -> [talk : Talks, ahead : BOOLEAN] \cup {None}]
    /\ proof \subseteq bytes /\ proof \subseteq Serving \X Shots
    /\ \A p \in proof : p[1] \in WrittenUp
    /\ cut \subseteq Serving
    /\ FormOK
    /\ WaitsFor
    /\ \A r \in Serving : RequestSound(r)
    /\ \A r \in Serving : EntrySound(r)
    /\ TalksApart

LEMMA InitLogInv == ContactInit => LogInv
<1> SUFFICES ASSUME ContactInit PROVE LogInv
  OBVIOUS
<1> USE ContactAssumption DEF ContactInit, Closed, Unsent
<1>1. serving \in [Serving -> Requesting]
  BY DEF Requesting, Stages
<1>2. FormOK /\ WaitsFor
  BY DEF FormOK, Forms, WaitsFor, UnderWay
<1>3. \A r \in Serving : RequestSound(r) /\ EntrySound(r)
  BY DEF RequestSound, EntrySound
<1>4. TalksApart
  BY DEF TalksApart
<1> QED BY <1>1, <1>2, <1>3, <1>4 DEF LogInv, WrittenUp

\* The panel while nothing is sent: only the form moves.
LEMMA PanelLogInv ==
    ASSUME LogInv,
           \/ \E t \in Talks : OpenForm(t)
           \/ \E files \in SUBSET Shots : ChooseFiles(files)
           \/ \E ahead \in BOOLEAN : TypeTime(ahead)
           \/ LeaveForm
           \/ UNCHANGED contactVars
    PROVE  LogInv'
<1>1. UNCHANGED <<resolute, entry, proof, bytes, serving, cut>>
  BY DEF OpenForm, ChooseFiles, TypeTime, LeaveForm, contactVars, logTables
<1>2. FormOK' /\ form'.waits = form.waits
  <2> USE DEF Forms
  <2>0. form \in Forms /\ resolute' = resolute
    BY <1>1 DEF LogInv, FormOK
  <2>1. ASSUME NEW t \in Talks, OpenForm(t) PROVE FormOK' /\ form'.waits = form.waits
    <3>1. form' = [form EXCEPT !.open = TRUE, !.talk = t, !.shown = {}]
      BY <2>1 DEF OpenForm
    <3>2. form' \in Forms
      BY <2>0, <3>1
    <3>3. /\ form'.open /\ form'.talk = t /\ form'.shown = {} /\ form'.files = form.files
          /\ form'.waits = form.waits
      BY <2>0, <3>1
    <3>4. resolute => form.files = {}
      BY <2>1 DEF OpenForm, LogInv, FormOK
    <3> QED BY <2>0, <3>2, <3>3, <3>4 DEF FormOK
  <2>2. CASE \E files \in SUBSET Shots : ChooseFiles(files)
    BY <1>1, <2>2 DEF LogInv, FormOK, ChooseFiles
  <2>3. ASSUME NEW ahead \in BOOLEAN, TypeTime(ahead) PROVE FormOK' /\ form'.waits = form.waits
    <3>1. form' = [form EXCEPT !.ahead = ahead]
      BY <2>3 DEF TypeTime
    <3>2. form' \in Forms
      BY <2>0, <3>1
    <3>3. /\ form'.open = form.open /\ form'.talk = form.talk /\ form'.shown = form.shown
          /\ form'.files = form.files /\ form'.waits = form.waits
      BY <2>0, <3>1
    <3> QED BY <2>0, <3>2, <3>3 DEF LogInv, FormOK
  <2>4. CASE LeaveForm
    <3>1. form' = [form EXCEPT !.open = FALSE, !.talk = None, !.shown = {}]
      BY <2>4 DEF LeaveForm
    <3>2. form' \in Forms
      BY <2>0, <3>1
    <3>3. /\ ~ form'.open /\ form'.shown = {} /\ form'.files = form.files
          /\ form'.waits = form.waits
      BY <2>0, <3>1
    <3>4. resolute => form.files = {}
      BY <2>4 DEF LeaveForm
    <3> QED BY <2>0, <3>2, <3>3, <3>4 DEF FormOK
  <2>5. CASE UNCHANGED contactVars
    BY <1>1, <2>5 DEF LogInv, FormOK, contactVars
  <2> QED BY <2>1, <2>2, <2>3, <2>4, <2>5
<1>3. WaitsFor'
  BY <1>1, <1>2 DEF LogInv, WaitsFor, UnderWay
<1>4. TalksApart'
  <2>1. \A s \in Serving \ cut : serving[s].at = "done" /\ form'.open => form'.talk # serving[s].talk
    <3>1. CASE \E t \in Talks : OpenForm(t)
      BY <3>1 DEF OpenForm, LogInv, FormOK, Forms
    <3>2. CASE ~ \E t \in Talks : OpenForm(t)
      <4>1. form'.open => form.open /\ form'.talk = form.talk
        BY <3>2 DEF LogInv, FormOK, Forms, ChooseFiles, TypeTime, LeaveForm, contactVars
      <4> QED BY <4>1 DEF LogInv, TalksApart
    <3> QED BY <3>1, <3>2
  <2> QED BY <1>1, <2>1 DEF LogInv, TalksApart, UnderWay
<1>5. \A r \in Serving : RequestSound(r)' /\ EntrySound(r)'
  BY <1>1 DEF LogInv, RequestSound, EntrySound
<1> QED BY <1>1, <1>2, <1>3, <1>4, <1>5 DEF LogInv, WrittenUp

\* The button is pressed: the request is the one the form waits for.
LEMMA PressLogInv ==
    ASSUME LogInv, NEW r \in Serving, Press(r)
    PROVE  LogInv'
<1>1. UNCHANGED <<resolute, entry, proof, bytes, cut>>
  BY DEF Press, logTables
<1>2. /\ serving' \in [Serving -> Requesting]
      /\ \A q \in Serving : q # r => serving'[q] = serving[q]
      /\ serving[r].at = "unsent" /\ form.open /\ form.waits = None /\ form.talk \in Talks
      /\ resolute => form.files = form.shown
      /\ serving'[r] = [at |-> "sent", talk |-> form.talk, ahead |-> form.ahead,
                        files |-> form.files, left |-> form.files, shown |-> form.shown]
  <2>1. serving[r] = Unsent /\ serving[r] \in Requesting
    BY DEF Press, LogInv
  <2>2. serving' = [serving EXCEPT ![r] =
                     [at |-> "sent", talk |-> form.talk, ahead |-> form.ahead,
                      files |-> form.files, left |-> form.files, shown |-> form.shown]]
    BY DEF Press
  <2>3. [at |-> "sent", talk |-> form.talk, ahead |-> form.ahead,
         files |-> form.files, left |-> form.files, shown |-> form.shown] \in Requesting
    BY DEF Requesting, Stages, LogInv, FormOK, Forms
  <2>4. /\ serving' \in [Serving -> Requesting]
        /\ \A q \in Serving : q # r => serving'[q] = serving[q]
    BY <2>2, <2>3 DEF LogInv
  <2>5. serving[r].at = "unsent" /\ form.open /\ form.waits = None
    BY DEF Press, Unsent
  <2>6. form.talk \in Talks /\ (resolute => form.files = form.shown)
    BY <2>5 DEF LogInv, FormOK
  <2> QED BY <2>2, <2>4, <2>5, <2>6 DEF LogInv
<1>3. FormOK' /\ form'.waits = r /\ form'.open = form.open /\ form'.talk = form.talk
  <2>1. form \in Forms /\ form' = [form EXCEPT !.waits = r]
    BY DEF Press, LogInv, FormOK
  <2>2. form' \in Forms
    BY <2>1 DEF Forms
  <2>3. /\ form'.open = form.open /\ form'.talk = form.talk /\ form'.files = form.files
        /\ form'.shown = form.shown /\ form'.waits = r
    BY <2>1 DEF Forms
  <2> QED BY <1>1, <2>2, <2>3 DEF LogInv, FormOK
<1>4. WaitsFor'
  <2>1. r \notin cut /\ UnderWay(r)'
    BY <1>2 DEF LogInv, RequestSound, UnderWay
  <2>2. \A q \in Serving : q # r => (UnderWay(q)' <=> UnderWay(q))
    BY <1>2 DEF UnderWay
  <2> QED BY <1>1, <1>2, <1>3, <2>1, <2>2, ContactAssumption DEF LogInv, WaitsFor
<1>5. ASSUME NEW q \in Serving PROVE RequestSound(q)' /\ EntrySound(q)'
  <2>1. CASE q = r
    BY <1>1, <1>2, <2>1 DEF LogInv, RequestSound, EntrySound
  <2>2. CASE q # r
    <3>1. RequestSound(q) /\ EntrySound(q) /\ serving'[q] = serving[q]
      BY <1>2, <2>2 DEF LogInv
    <3> QED BY <1>1, <2>2, <3>1 DEF RequestSound, EntrySound, LogInv
  <2> QED BY <2>1, <2>2
<1>6. TalksApart'
  <2>1. \A s \in Serving \ cut : serving'[s].at = "done" =>
          serving[s].at = "done" /\ serving'[s] = serving[s] /\ s # r
    BY <1>2
  <2>2. \A q \in Serving \ cut : ~ UnderWay(q)
    BY <1>2, ContactAssumption DEF LogInv, WaitsFor
  <2> QED BY <1>1, <1>2, <1>3, <2>1, <2>2 DEF LogInv, TalksApart, UnderWay
<1> QED BY <1>1, <1>2, <1>3, <1>4, <1>5, <1>6 DEF LogInv, WrittenUp

\* The request on its way moves on: what is left to show of it.
LEMMA OnItsWayLogInv ==
    ASSUME LogInv, NEW r \in Serving, NEW to \in Requesting,
           serving[r].at \in {"sent", "storing", "attaching"},
           to.at \in {"storing", "attaching", "refused"}, to.talk = serving[r].talk,
           serving' = [serving EXCEPT ![r] = to], UNCHANGED <<resolute, form, cut>>,
           entry' \in [Serving -> [talk : Talks, ahead : BOOLEAN] \cup {None}],
           \A q \in Serving : q # r => entry'[q] = entry[q],
           entry[r] # None => entry'[r] # None,
           proof \subseteq proof', bytes \subseteq bytes',
           proof' \subseteq bytes', proof' \subseteq Serving \X Shots,
           \A p \in proof' : p[1] \in WrittenUp',
           RequestSound(r)', EntrySound(r)'
    PROVE  LogInv'
<1>1. serving' \in [Serving -> Requesting] /\ serving'[r] = to
  BY DEF LogInv
<1>2. \A q \in Serving : q # r => serving'[q] = serving[q]
  BY DEF LogInv
<1>3. FormOK'
  BY DEF LogInv, FormOK, Forms
<1>4. \A q \in Serving : UnderWay(q)' <=> UnderWay(q)
  BY <1>1, <1>2 DEF UnderWay
<1>5. WaitsFor'
  BY <1>4 DEF LogInv, WaitsFor
<1>6. ASSUME NEW q \in Serving PROVE RequestSound(q)' /\ EntrySound(q)'
  <2>1. CASE q = r
    BY <2>1
  <2>2. CASE q # r
    <3>1. RequestSound(q) /\ EntrySound(q) /\ serving'[q] = serving[q] /\ entry'[q] = entry[q]
      BY <1>2, <2>2 DEF LogInv
    <3> QED BY <3>1 DEF RequestSound, EntrySound
  <2> QED BY <2>1, <2>2
<1>7. TalksApart'
  <2>1. \A q \in Serving : serving'[q].talk = serving[q].talk
    BY <1>1, <1>2
  <2>2. \A q \in Serving : serving'[q].at = "done" <=> serving[q].at = "done"
    BY <1>1, <1>2
  <2> QED BY <1>4, <2>1, <2>2 DEF LogInv, TalksApart
<1> QED BY <1>1, <1>3, <1>5, <1>6, <1>7 DEF LogInv

LEMMA JudgeLogInv == ASSUME LogInv, NEW r \in Serving, Judge(r) PROVE LogInv'
<1> DEFINE to == [serving[r] EXCEPT !.at = IF Happened(r) THEN "storing" ELSE "refused"]
<1>1. /\ serving[r] \in Requesting /\ serving[r].at = "sent"
      /\ serving' = [serving EXCEPT ![r] = to]
      /\ UNCHANGED <<resolute, form, entry, proof, bytes, cut>>
  BY DEF Judge, Step, Refused, LogInv, logTables
<1>2. /\ to \in Requesting /\ to.talk = serving[r].talk /\ to.files = serving[r].files
      /\ to.left = serving[r].left /\ to.shown = serving[r].shown /\ to.ahead = serving[r].ahead
      /\ to.at \in {"storing", "refused"} /\ (to.at = "storing" => ~ serving[r].ahead)
  BY <1>1 DEF Requesting, Stages, Happened
<1> HIDE DEF to
<1>3. serving'[r] = to
  BY <1>1 DEF LogInv
<1>4. EntrySound(r)'
  BY <1>1, <1>2, <1>3 DEF LogInv, EntrySound
<1>5. RequestSound(r)'
  BY <1>1, <1>2, <1>3 DEF LogInv, RequestSound
<1> QED BY <1>1, <1>2, <1>4, <1>5, OnItsWayLogInv DEF LogInv, WrittenUp

LEMMA RefuseShotLogInv == ASSUME LogInv, NEW r \in Serving, RefuseShot(r) PROVE LogInv'
<1> DEFINE to == [serving[r] EXCEPT !.at = "refused"]
<1>1. /\ serving[r] \in Requesting /\ serving[r].at = "storing"
      /\ serving' = [serving EXCEPT ![r] = to]
      /\ UNCHANGED <<resolute, form, entry, proof, bytes, cut>>
  BY DEF RefuseShot, Step, Refused, LogInv, logTables
<1>2. /\ to \in Requesting /\ to.talk = serving[r].talk /\ to.files = serving[r].files
      /\ to.left = serving[r].left /\ to.shown = serving[r].shown /\ to.ahead = serving[r].ahead
      /\ to.at = "refused"
  BY <1>1 DEF Requesting, Stages
<1> HIDE DEF to
<1>3. serving'[r] = to
  BY <1>1 DEF LogInv
<1>4. EntrySound(r)'
  BY <1>1, <1>2, <1>3 DEF LogInv, EntrySound
<1>5. RequestSound(r)'
  BY <1>1, <1>2, <1>3 DEF LogInv, RequestSound
<1> QED BY <1>1, <1>2, <1>4, <1>5, OnItsWayLogInv DEF LogInv, WrittenUp

LEMMA StoreShotLogInv ==
    ASSUME LogInv, NEW r \in Serving, NEW f \in Shots, StoreShot(r, f)
    PROVE  LogInv'
<1> DEFINE to == [serving[r] EXCEPT !.left = @ \ {f}]
<1>1. /\ serving[r] \in Requesting /\ serving[r].at = "storing"
      /\ serving' = [serving EXCEPT ![r] = to]
      /\ UNCHANGED <<resolute, form, entry, proof, cut>> /\ bytes' = bytes \cup {<<r, f>>}
  BY DEF StoreShot, LogInv
<1>2. /\ to \in Requesting /\ to.talk = serving[r].talk /\ to.files = serving[r].files
      /\ to.left = serving[r].left \ {f} /\ to.shown = serving[r].shown
      /\ to.ahead = serving[r].ahead /\ to.at = "storing"
  BY <1>1 DEF Requesting, Stages
<1> HIDE DEF to
<1>3. serving'[r] = to
  BY <1>1 DEF LogInv
<1>4. EntrySound(r)'
  BY <1>1, <1>2, <1>3 DEF LogInv, EntrySound
<1>5. RequestSound(r)'
  BY <1>1, <1>2, <1>3 DEF LogInv, RequestSound
<1> QED BY <1>1, <1>2, <1>4, <1>5, OnItsWayLogInv DEF LogInv, WrittenUp

LEMMA WriteEntryLogInv == ASSUME LogInv, NEW r \in Serving, WriteEntry(r) PROVE LogInv'
<1> DEFINE to == [serving[r] EXCEPT !.at = "attaching", !.left = serving[r].files]
           new == [talk |-> serving[r].talk, ahead |-> serving[r].ahead]
<1>1. /\ serving[r] \in Requesting /\ serving[r].at = "storing" /\ serving[r].left = {}
      /\ entry' = [entry EXCEPT ![r] = new]
      /\ UNCHANGED <<resolute, form, proof, bytes, cut>>
  BY DEF WriteEntry, AllStored, LogInv
<1>2. serving' = [serving EXCEPT ![r] = to]
  BY <1>1 DEF WriteEntry, LogInv, Requesting
<1>3. /\ to \in Requesting /\ to.talk = serving[r].talk /\ to.files = serving[r].files
      /\ to.left = serving[r].files /\ to.shown = serving[r].shown
      /\ to.ahead = serving[r].ahead /\ to.at = "attaching"
  BY <1>1 DEF Requesting, Stages
<1>4. serving[r].talk \in Talks /\ serving[r].ahead = FALSE
  BY <1>1 DEF LogInv, RequestSound, Requesting
<1>5. /\ new \in [talk : Talks, ahead : BOOLEAN] /\ new # None
      /\ new = [talk |-> serving[r].talk, ahead |-> FALSE]
  <2>1. new = [talk |-> serving[r].talk, ahead |-> FALSE]
    BY <1>4
  <2>2. [talk |-> serving[r].talk, ahead |-> FALSE] \in [talk : Talks, ahead : BOOLEAN]
    BY <1>4
  <2>3. None \notin [talk : Talks, ahead : BOOLEAN]
    BY ContactAssumption
  <2> HIDE DEF new
  <2> QED BY <2>1, <2>2, <2>3
<1> HIDE DEF to, new
<1>6. serving'[r] = to
  BY <1>2 DEF LogInv
<1>7. /\ entry' \in [Serving -> [talk : Talks, ahead : BOOLEAN] \cup {None}]
      /\ entry'[r] = new /\ \A q \in Serving : q # r => entry'[q] = entry[q]
  BY <1>1, <1>5 DEF LogInv
<1>8. EntrySound(r)'
  BY <1>3, <1>5, <1>6, <1>7 DEF EntrySound
<1>9. RequestSound(r)'
  BY <1>1, <1>3, <1>4, <1>5, <1>6, <1>7 DEF LogInv, RequestSound
<1>10. \A p \in proof' : p[1] \in WrittenUp'
  BY <1>1, <1>5, <1>7 DEF LogInv, WrittenUp
<1> QED BY <1>1, <1>2, <1>3, <1>5, <1>7, <1>8, <1>9, <1>10, OnItsWayLogInv DEF LogInv

LEMMA WriteProofLogInv ==
    ASSUME LogInv, NEW r \in Serving, NEW f \in Shots, WriteProof(r, f)
    PROVE  LogInv'
<1> DEFINE to == [serving[r] EXCEPT !.left = @ \ {f}]
<1>1. /\ serving[r] \in Requesting /\ serving[r].at = "attaching" /\ f \in serving[r].left
      /\ serving' = [serving EXCEPT ![r] = to]
      /\ UNCHANGED <<resolute, form, entry, bytes, cut>> /\ proof' = proof \cup {<<r, f>>}
  BY DEF WriteProof, LogInv
<1>2. /\ to \in Requesting /\ to.talk = serving[r].talk /\ to.files = serving[r].files
      /\ to.left = serving[r].left \ {f} /\ to.shown = serving[r].shown
      /\ to.ahead = serving[r].ahead /\ to.at = "attaching"
  BY <1>1 DEF Requesting, Stages
<1> HIDE DEF to
<1>3. serving'[r] = to
  BY <1>1 DEF LogInv
<1>4. EntrySound(r)'
  BY <1>1, <1>2, <1>3 DEF LogInv, EntrySound
<1>5. RequestSound(r)'
  BY <1>1, <1>2, <1>3 DEF LogInv, RequestSound
<1>6. <<r, f>> \in bytes /\ r \in WrittenUp
  BY <1>1 DEF LogInv, RequestSound, WrittenUp
<1>7. \A p \in proof' : p[1] \in WrittenUp'
  BY <1>1, <1>6 DEF LogInv, WrittenUp
<1>8. /\ proof' \subseteq bytes' /\ proof' \subseteq Serving \X Shots
      /\ proof \subseteq proof' /\ bytes \subseteq bytes'
  BY <1>1, <1>6 DEF LogInv
<1>9. entry' \in [Serving -> [talk : Talks, ahead : BOOLEAN] \cup {None}]
  BY <1>1 DEF LogInv
<1> QED BY <1>1, <1>2, <1>4, <1>5, <1>7, <1>8, <1>9, OnItsWayLogInv

\* The request is over, or cut off from the form that waited for it.
LEMMA EndsLogInv ==
    ASSUME LogInv, NEW r \in Serving, NEW to \in Requesting, UnderWay(r),
           serving' = [serving EXCEPT ![r] = to],
           form' \in Forms, form'.waits = IF form.waits = r THEN None ELSE form.waits,
           form' = Closed \/ form' = [form EXCEPT !.waits = None] \/ form' = form,
           \/ to.at \in {"done", "answered"} /\ form.waits = r /\ cut' = cut
           \/ cut' = cut \cup {r},
           to.at = "done" => form' = Closed /\ cut' = cut,
           to.talk = serving[r].talk,
           UNCHANGED <<resolute, entry, proof, bytes>>,
           RequestSound(r)', EntrySound(r)'
    PROVE  LogInv'
<1>1. serving' \in [Serving -> Requesting] /\ serving'[r] = to
  BY DEF LogInv
<1>2. \A q \in Serving : q # r => serving'[q] = serving[q]
  BY DEF LogInv
<1>3. \/ form' = Closed
      \/ /\ form'.open = form.open /\ form'.talk = form.talk
         /\ form'.files = form.files /\ form'.shown = form.shown
  BY DEF LogInv, FormOK, Forms
<1>4. FormOK'
  <2>1. CASE form' = Closed
    BY <2>1 DEF FormOK, Closed
  <2>2. CASE form' # Closed
    BY <1>3, <2>2 DEF LogInv, FormOK
  <2> QED BY <2>1, <2>2
<1>5. WaitsFor'
  BY <1>1, <1>2, ContactAssumption DEF LogInv, WaitsFor, UnderWay
<1>6. ASSUME NEW q \in Serving PROVE RequestSound(q)' /\ EntrySound(q)'
  <2>1. CASE q = r
    BY <2>1
  <2>2. CASE q # r
    <3>1. RequestSound(q) /\ EntrySound(q) /\ serving'[q] = serving[q]
      BY <1>2, <2>2 DEF LogInv
    <3> QED BY <2>2, <3>1 DEF RequestSound, EntrySound
  <2> QED BY <2>1, <2>2
<1>7. TalksApart'
  <2>1. \A q \in Serving : serving'[q].talk = serving[q].talk
    BY <1>1, <1>2
  <2>2. \A q \in Serving \ cut' : UnderWay(q)' \/ serving'[q].at = "done"
                                  => q \in Serving \ cut /\ (UnderWay(q) \/ serving[q].at = "done")
    BY <1>1, <1>2 DEF UnderWay
  <2>3. ASSUME NEW s \in Serving \ cut', serving'[s].at = "done"
        PROVE  /\ form'.open => form'.talk # serving'[s].talk
               /\ \A q \in Serving \ cut' :
                     q # s /\ (UnderWay(q)' \/ serving'[q].at = "done")
                     => serving'[q].talk # serving'[s].talk
    <3>1. CASE s = r
      <4>1. to.at = "done" /\ ~ form'.open /\ r \in Serving \ cut
        BY <1>1, <2>3, <3>1 DEF Closed
      <4>2. ASSUME NEW q \in Serving \ cut, q # r, UnderWay(q) \/ serving[q].at = "done"
            PROVE  serving[q].talk # serving[r].talk
        <5>1. ~ UnderWay(q)
          BY <4>1, <4>2 DEF LogInv, WaitsFor
        <5> QED BY <4>1, <4>2, <5>1 DEF LogInv, TalksApart
      <4> QED BY <2>1, <2>2, <3>1, <4>1, <4>2
    <3>2. CASE s # r
      <4>1. serving[s].at = "done" /\ s \in Serving \ cut
        BY <1>2, <2>3, <3>2
      <4> QED BY <1>3, <2>1, <2>2, <4>1 DEF LogInv, TalksApart, Closed
    <3> QED BY <3>1, <3>2
  <2> QED BY <2>3 DEF TalksApart
<1> QED BY <1>1, <1>4, <1>5, <1>6, <1>7 DEF LogInv, WrittenUp

LEMMA AnswerFormLogInv == ASSUME LogInv, NEW r \in Serving, AnswerForm(r) PROVE LogInv'
<1>1. /\ serving[r] \in Requesting /\ form \in Forms /\ UnderWay(r) /\ r \notin cut
      /\ form.waits = r /\ UNCHANGED <<resolute, entry, proof, bytes, cut>>
  BY DEF AnswerForm, logTables, LogInv, FormOK, WaitsFor
<1>2. /\ Closed \in Forms /\ Closed.waits = None
      /\ [form EXCEPT !.waits = None] \in Forms /\ [form EXCEPT !.waits = None].waits = None
  BY <1>1 DEF Forms, Closed
<1>3. CASE serving[r].at = "attaching" /\ AllAttached(r) /\ Step(r, "done") /\ form' = SentForm
  <2> DEFINE to == [serving[r] EXCEPT !.at = "done"]
  <2>1. serving' = [serving EXCEPT ![r] = to] /\ form' = Closed /\ serving[r].left = {}
    BY <1>1, <1>3 DEF Step, SentForm, AllAttached, LogInv
  <2>2. /\ to \in Requesting /\ to.talk = serving[r].talk /\ to.files = serving[r].files
        /\ to.left = serving[r].left /\ to.shown = serving[r].shown
        /\ to.ahead = serving[r].ahead /\ to.at = "done"
    BY <1>1 DEF Requesting, Stages
  <2> HIDE DEF to
  <2>3. serving'[r] = to
    BY <2>1 DEF LogInv
  <2>4. EntrySound(r)'
    BY <1>1, <1>3, <2>2, <2>3 DEF LogInv, EntrySound
  <2>5. RequestSound(r)'
    BY <1>1, <1>3, <2>1, <2>2, <2>3 DEF LogInv, RequestSound
  <2> QED BY <1>1, <1>2, <2>1, <2>2, <2>4, <2>5, EndsLogInv
<1>4. CASE serving[r].at = "refused" /\ Step(r, "answered") /\ form' = [form EXCEPT !.waits = None]
  <2> DEFINE to == [serving[r] EXCEPT !.at = "answered"]
  <2>1. serving' = [serving EXCEPT ![r] = to]
    BY <1>1, <1>4 DEF Step, LogInv
  <2>2. /\ to \in Requesting /\ to.talk = serving[r].talk /\ to.files = serving[r].files
        /\ to.left = serving[r].left /\ to.shown = serving[r].shown
        /\ to.ahead = serving[r].ahead /\ to.at = "answered"
    BY <1>1 DEF Requesting, Stages
  <2> HIDE DEF to
  <2>3. serving'[r] = to
    BY <2>1 DEF LogInv
  <2>4. EntrySound(r)'
    BY <1>1, <1>4, <2>2, <2>3 DEF LogInv, EntrySound
  <2>5. RequestSound(r)'
    BY <1>1, <1>4, <2>2, <2>3 DEF LogInv, RequestSound
  <2> QED BY <1>1, <1>2, <1>4, <2>1, <2>2, <2>4, <2>5, EndsLogInv
<1> QED BY <1>3, <1>4 DEF AnswerForm

LEMMA ProcessDiesLogInv == ASSUME LogInv, NEW r \in Serving, ProcessDies(r) PROVE LogInv'
<1> DEFINE to == [serving[r] EXCEPT !.at = "dead"]
<1>1. /\ serving[r] \in Requesting /\ form \in Forms /\ UnderWay(r)
      /\ serving[r].at \in {"sent", "storing", "attaching"}
      /\ serving' = [serving EXCEPT ![r] = to] /\ cut' = cut \cup {r}
      /\ UNCHANGED <<resolute, entry, proof, bytes>>
  BY DEF ProcessDies, Step, logTables, LogInv, FormOK, UnderWay
<1>2. [form EXCEPT !.waits = None] \in Forms /\ [form EXCEPT !.waits = None].waits = None
  BY <1>1 DEF Forms
<1>3. /\ form' \in Forms /\ form'.waits = IF form.waits = r THEN None ELSE form.waits
      /\ form' = [form EXCEPT !.waits = None] \/ form' = form
  BY <1>1, <1>2 DEF ProcessDies
<1>4. /\ to \in Requesting /\ to.talk = serving[r].talk /\ to.files = serving[r].files
      /\ to.left = serving[r].left /\ to.shown = serving[r].shown
      /\ to.ahead = serving[r].ahead /\ to.at = "dead"
  BY <1>1 DEF Requesting, Stages
<1> HIDE DEF to
<1>5. serving'[r] = to
  BY <1>1 DEF LogInv
<1>6. EntrySound(r)'
  BY <1>1, <1>4, <1>5 DEF LogInv, EntrySound
<1>7. RequestSound(r)'
  BY <1>1, <1>4, <1>5 DEF LogInv, RequestSound
<1> QED BY <1>1, <1>3, <1>4, <1>6, <1>7, EndsLogInv

LEMMA AnswerLostLogInv == ASSUME LogInv, NEW r \in Serving, AnswerLost(r) PROVE LogInv'
<1>1. /\ serving[r] \in Requesting /\ form \in Forms /\ UnderWay(r) /\ form.waits = r
      /\ form' = [form EXCEPT !.waits = None] /\ cut' = cut \cup {r}
      /\ UNCHANGED <<resolute, entry, proof, bytes, serving>>
  BY DEF AnswerLost, logTables, LogInv, FormOK, WaitsFor
<1>2. form' \in Forms /\ form'.waits = None
  BY <1>1 DEF Forms
<1>3. serving' = [serving EXCEPT ![r] = serving[r]]
  BY <1>1 DEF LogInv
<1>4. RequestSound(r)' /\ EntrySound(r)'
  BY <1>1 DEF LogInv, RequestSound, EntrySound, UnderWay
<1>5. serving[r].at # "done"
  BY <1>1 DEF UnderWay
<1> QED BY <1>1, <1>2, <1>3, <1>4, <1>5, EndsLogInv

LEMMA NextLogInv == LogInv /\ [ContactNext]_contactVars => LogInv'
<1> SUFFICES ASSUME LogInv, [ContactNext]_contactVars PROVE LogInv'
  OBVIOUS
<1>1. CASE \/ \E t \in Talks : OpenForm(t)
           \/ \E files \in SUBSET Shots : ChooseFiles(files)
           \/ \E ahead \in BOOLEAN : TypeTime(ahead)
           \/ LeaveForm
           \/ UNCHANGED contactVars
  BY <1>1, PanelLogInv
<1>2. ASSUME NEW r \in Serving,
             \/ Press(r) \/ Judge(r) \/ RefuseShot(r) \/ WriteEntry(r)
             \/ AnswerForm(r) \/ ProcessDies(r) \/ AnswerLost(r)
             \/ \E f \in Shots : StoreShot(r, f) \/ WriteProof(r, f)
      PROVE  LogInv'
  BY <1>2, PressLogInv, JudgeLogInv, RefuseShotLogInv, WriteEntryLogInv, AnswerFormLogInv,
     ProcessDiesLogInv, AnswerLostLogInv, StoreShotLogInv, WriteProofLogInv
<1> QED BY <1>1, <1>2 DEF ContactNext

\* The log of what was said to a client: its proof is in the store, whole, and what
\* the form showed; a conversation is in it once unless a sending was cut off, and
\* none is to come (contact-log.ts record).
THEOREM LogHolds == ContactSpec => []ContactHolds
<1>1. LogInv => ContactHolds
  <2> SUFFICES ASSUME LogInv PROVE ContactHolds
    OBVIOUS
  <2>1. ContactTypeOK /\ ProofWasStored
    BY DEF LogInv, ContactTypeOK, ProofWasStored, Requesting, Stages
  <2>2. ProofIsWhole /\ ProofWasShown /\ HadHappened
    BY DEF LogInv, ProofIsWhole, ProofWasShown, HadHappened, WrittenUp, RequestSound, EntrySound
  <2>3. WrittenOnce
    <3> SUFFICES ASSUME NEW r \in WrittenUp, NEW s \in WrittenUp, r # s, r \notin cut, s \notin cut
                 PROVE  entry[r].talk # entry[s].talk
      BY DEF WrittenOnce
    <3>1. /\ r \in Serving /\ s \in Serving
          /\ serving[r].at \in {"attaching", "done"} /\ serving[s].at \in {"attaching", "done"}
          /\ entry[r].talk = serving[r].talk /\ entry[s].talk = serving[s].talk
      BY DEF LogInv, WrittenUp, EntrySound, RequestSound
    <3>2. serving[r].at = "done" \/ serving[s].at = "done"
      BY <3>1 DEF LogInv, WaitsFor, UnderWay
    <3> QED BY <3>1, <3>2 DEF LogInv, TalksApart, UnderWay
  <2> QED BY <2>1, <2>2, <2>3 DEF ContactHolds
<1> QED BY InitLogInv, NextLogInv, <1>1, PTL DEF ContactSpec

-------------------------------------------------------------------------------
(* Team: a row once there keeps its person, and an errand with a row of    *)
(* its own has one of the person it names. Where errands take turns, only  *)
(* one is under way, and its row is a live one.                            *)

Errand == [verb : {"none", "assign", "book"}, who : Colleagues \cup {NoPlace}, role : Roles,
           at : {"new", "looked", "moved", "found"}, others : SUBSET Places,
           own : Places \cup {NoPlace}]

ErrandSound(e) ==
    /\ errand[e].others \subseteq RowsIn(place)
    /\ errand[e].at # "new" => errand[e].who \in Colleagues
    /\ errand[e].own # NoPlace =>
          errand[e].own \in RowsIn(place) /\ place[errand[e].own].who = errand[e].who

InTurn ==
    inTurn => \A e \in Errands :
        errand[e] # NoErrand =>
            /\ \A x \in Errands \ {e} : errand[x] = NoErrand
            /\ errand[e].own # NoPlace => errand[e].own \in LiveIn(place)

TeamInv ==
    /\ working \subseteq Colleagues
    /\ place \in [Places -> Rows \cup {NoPlace}]
    /\ errand \in [Errands -> Errand]
    /\ hours \subseteq [at : Places, who : Colleagues]
    /\ IndexesAllow(place)
    /\ HoursStayTheirs
    /\ \A e \in Errands : ErrandSound(e)
    /\ InTurn

\* A set of numbers that is not empty has a first, and so have the free places.
LEMMA FirstPlaceIsFree == ASSUME FreePlaces # {} PROVE FirstPlace \in FreePlaces
<1>1. FreePlaces \subseteq Nat
  BY TeamAssumption DEF FreePlaces, Places
<1>2. \A i, j \in Nat : ~ (j < i) => i <= j
  OBVIOUS
<1>3. \E i \in FreePlaces : \A j \in FreePlaces : <<j, i>> \notin OpToRel(<, Nat)
  BY <1>1, NatLessThanWellFounded, WFMin
<1>4. OpToRel(<, Nat) = {pair \in Nat \X Nat : pair[1] < pair[2]}
  BY DEF OpToRel
<1>5. \A i, j \in Nat : j < i => <<j, i>> \in {pair \in Nat \X Nat : pair[1] < pair[2]}
  OBVIOUS
<1>6. \E i \in FreePlaces : \A j \in FreePlaces : i <= j
  BY <1>1, <1>2, <1>3, <1>4, <1>5, Zenon
<1> QED BY <1>6 DEF FirstPlace

LEMMA InitTeamInv == TeamInit => TeamInv
<1> SUFFICES ASSUME TeamInit PROVE TeamInv
  OBVIOUS
<1> USE TeamAssumption DEF TeamInit
<1>1. NoErrand \in Errand
  BY DEF NoErrand, Errand, Roles
<1>2. RowsIn(place) = {} /\ LiveIn(place) = {}
  BY DEF RowsIn, LiveIn
<1>3. IndexesAllow(place) /\ HoursStayTheirs
  BY <1>2 DEF IndexesAllow, HoursStayTheirs
<1>4. \A e \in Errands : ErrandSound(e)
  BY DEF ErrandSound, NoErrand
<1>5. InTurn
  BY DEF InTurn
<1> QED BY <1>1, <1>3, <1>4, <1>5 DEF TeamInv

\* An errand looks, and leaves the rows as they are.
LEMMA ErrandMovesInv ==
    ASSUME TeamInv, NEW e \in Errands, NEW to \in Errand, errand' = [errand EXCEPT ![e] = to],
           UNCHANGED <<inTurn, working, place>>,
           hours' \subseteq [at : Places, who : Colleagues], HoursStayTheirs',
           to.others \subseteq RowsIn(place), to.at # "new" => to.who \in Colleagues,
           to.own # NoPlace => /\ to.own \in RowsIn(place) /\ place[to.own].who = to.who
                               /\ inTurn => to.own \in LiveIn(place),
           inTurn /\ to # NoErrand => \A x \in Errands \ {e} : errand[x] = NoErrand
    PROVE  TeamInv'
<1>1. /\ errand' \in [Errands -> Errand] /\ errand'[e] = to
      /\ \A x \in Errands \ {e} : errand'[x] = errand[x]
  BY DEF TeamInv
<1>2. RowsIn(place)' = RowsIn(place) /\ LiveIn(place)' = LiveIn(place)
  BY DEF RowsIn, LiveIn
<1>3. \A x \in Errands : ErrandSound(x)'
  BY <1>1, <1>2 DEF TeamInv, ErrandSound
<1>4. InTurn'
  BY <1>1, <1>2 DEF TeamInv, InTurn
<1>5. IndexesAllow(place)'
  BY DEF TeamInv, IndexesAllow, LiveIn, RowsIn
<1> QED BY <1>1, <1>3, <1>4, <1>5 DEF TeamInv

LEMMA LookingTeamInv ==
    ASSUME TeamInv, NEW e \in Errands,
           \/ GiveUpErrand(e) \/ MoveOthers(e) \/ FindOwn(e) \/ BookHour(e)
           \/ \E u \in Colleagues : FindTimed(e, u) \/ \E role \in Roles : FindPerson(e, u, role)
    PROVE  TeamInv'
<1>1. /\ errand[e] \in Errand /\ ErrandSound(e) /\ NoErrand \in Errand
      /\ NoErrand.at = "new" /\ NoErrand.own = NoPlace /\ NoErrand.others = {}
  BY DEF TeamInv, NoErrand, Errand, Roles
<1>2. errand[e].at # "new" /\ inTurn => \A x \in Errands \ {e} : errand[x] = NoErrand
  BY <1>1 DEF TeamInv, InTurn
<1>3. LiveIn(place) \subseteq RowsIn(place) /\ RowsIn(place) \subseteq Places
  BY DEF LiveIn, RowsIn
<1>4. CASE GiveUpErrand(e)
  BY <1>1, <1>4, ErrandMovesInv DEF GiveUpErrand, Ends, TeamInv, HoursStayTheirs
<1>5. CASE MoveOthers(e)
  <2> DEFINE moved == {i \in errand[e].others : place[i].live /\ place[i].role = "responsible"}
             to == [errand[e] EXCEPT !.at = "moved", !.others = moved]
  <2>1. errand[e].at = "looked" /\ UNCHANGED <<inTurn, working, place, hours>>
    BY <1>5 DEF MoveOthers
  <2>2. errand' = [errand EXCEPT ![e] = to]
    BY <1>1, <1>5 DEF MoveOthers, TeamInv, Errand
  <2>3. /\ to \in Errand /\ to.at = "moved" /\ to.who = errand[e].who /\ to.own = errand[e].own
        /\ to.others \subseteq errand[e].others
    BY <1>1 DEF Errand
  <2>4. inTurn /\ errand[e].own # NoPlace => errand[e].own \in LiveIn(place)
    BY <1>1, <2>1 DEF TeamInv, InTurn
  <2> HIDE DEF to
  <2> QED BY <1>1, <1>2, <2>1, <2>2, <2>3, <2>4, ErrandMovesInv
             DEF TeamInv, HoursStayTheirs, ErrandSound
<1>6. CASE FindOwn(e)
  <2>1. PICK i \in OwnOf(errand[e].who) : errand' = [errand EXCEPT ![e].at = "found", ![e].own = i]
    BY <1>6 DEF FindOwn
  <2> DEFINE to == [errand[e] EXCEPT !.at = "found", !.own = i]
  <2>2. errand[e].at = "moved" /\ UNCHANGED <<inTurn, working, place, hours>>
    BY <1>6 DEF FindOwn
  <2>3. i # NoPlace => i \in LiveIn(place) /\ place[i].who = errand[e].who
    BY <2>1 DEF OwnOf, LiveOf
  <2>4. errand' = [errand EXCEPT ![e] = to]
    BY <1>1, <2>1 DEF TeamInv, Errand
  <2>5. /\ to \in Errand /\ to.at = "found" /\ to.who = errand[e].who /\ to.own = i
        /\ to.others = errand[e].others
    BY <1>1, <1>3, <2>3 DEF Errand
  <2> HIDE DEF to
  <2> QED BY <1>1, <1>2, <1>3, <2>2, <2>3, <2>4, <2>5, ErrandMovesInv
             DEF TeamInv, HoursStayTheirs, ErrandSound
<1>7. CASE BookHour(e)
  <2>1. /\ errand[e].at = "found" /\ errand[e].own # NoPlace
        /\ hours' = hours \cup {[at |-> errand[e].own, who |-> errand[e].who]}
        /\ errand' = [errand EXCEPT ![e] = NoErrand] /\ UNCHANGED <<inTurn, working, place>>
    BY <1>7 DEF BookHour, Ends
  <2>2. /\ errand[e].own \in RowsIn(place) /\ errand[e].own \in Places
        /\ place[errand[e].own].who = errand[e].who /\ errand[e].who \in Colleagues
    BY <1>1, <1>3, <2>1 DEF ErrandSound
  <2>3. hours' \subseteq [at : Places, who : Colleagues] /\ HoursStayTheirs'
    BY <2>1, <2>2 DEF TeamInv, HoursStayTheirs, RowsIn
  <2> QED BY <1>1, <2>1, <2>3, ErrandMovesInv
<1>8. ASSUME NEW u \in Colleagues, FindTimed(e, u) PROVE TeamInv'
  <2>1. PICK i \in OwnOf(u) :
           errand' = [errand EXCEPT ![e] = [verb |-> "book", who |-> u, role |-> "collaborator",
                                            at |-> "found", others |-> {}, own |-> i]]
    BY <1>8 DEF FindTimed
  <2>2. i # NoPlace => i \in LiveIn(place) /\ place[i].who = u
    BY <2>1 DEF OwnOf, LiveOf
  <2>3. [verb |-> "book", who |-> u, role |-> "collaborator",
         at |-> "found", others |-> {}, own |-> i] \in Errand
    BY <1>3, <2>2 DEF Errand, Roles
  <2>4. inTurn => \A x \in Errands \ {e} : errand[x] = NoErrand
    BY <1>8 DEF FindTimed, NobodyAtWork
  <2> QED BY <1>3, <1>8, <2>1, <2>2, <2>3, <2>4, ErrandMovesInv DEF FindTimed, TeamInv, HoursStayTheirs
<1>9. ASSUME NEW u \in Colleagues, NEW role \in Roles, FindPerson(e, u, role) PROVE TeamInv'
  <2> DEFINE found == IF role = "collaborator" THEN {}
                      ELSE {i \in LiveIn(place) : /\ place[i].role = "responsible"
                                                  /\ place[i].who # u}
             to == [verb |-> "assign", who |-> u, role |-> role, at |-> "looked", own |-> NoPlace,
                    others |-> found]
  <2>1. errand' = [errand EXCEPT ![e] = to] /\ UNCHANGED <<inTurn, working, place, hours>>
    BY <1>9 DEF FindPerson
  <2>2. found \subseteq RowsIn(place)
    BY <1>3
  <2>3. /\ to \in Errand /\ to.others \subseteq RowsIn(place) /\ to.own = NoPlace
        /\ to.who \in Colleagues
    BY <1>3, <2>2 DEF Errand
  <2>4. inTurn => \A x \in Errands \ {e} : errand[x] = NoErrand
    BY <1>9 DEF FindPerson, NobodyAtWork
  <2> HIDE DEF to
  <2> QED BY <2>1, <2>3, <2>4, ErrandMovesInv DEF TeamInv, HoursStayTheirs
<1> QED BY <1>4, <1>5, <1>6, <1>7, <1>8, <1>9

\* Naming somebody keeps every row there is, its person and whether it is live.
NamedIn(e) == IF errand[e].own = NoPlace THEN FirstPlace ELSE errand[e].own

LEMMA NamedKeeps ==
    ASSUME TeamInv, NEW e \in Errands, errand[e].at = "found",
           errand[e].own = NoPlace => FreePlaces # {}
    PROVE  /\ Named(e) \in [Places -> Rows \cup {NoPlace}]
           /\ \A i \in RowsIn(place) : /\ i \in RowsIn(Named(e))
                                       /\ Named(e)[i].who = place[i].who
                                       /\ Named(e)[i].live = place[i].live
           /\ NamedIn(e) \in RowsIn(Named(e))
           /\ Named(e)[NamedIn(e)].who = errand[e].who
           /\ Named(e)[NamedIn(e)].role = errand[e].role
           /\ errand[e].own = NoPlace => Named(e)[NamedIn(e)].live
<1> DEFINE moved == [i \in Places |-> IF i \in errand[e].others THEN Moved(place[i]) ELSE place[i]]
           n == NamedIn(e)
<1>1. /\ errand[e] \in Errand /\ ErrandSound(e) /\ errand[e].who \in Colleagues
      /\ errand[e].role \in Roles
  BY DEF TeamInv, ErrandSound, Errand
<1>2. \A i \in RowsIn(place) : place[i] \in Rows /\ i \in Places
  BY DEF TeamInv, RowsIn
<1>3. \A i \in RowsIn(place) : /\ Moved(place[i]) \in Rows /\ Moved(place[i]).who = place[i].who
                               /\ Moved(place[i]).live = place[i].live
  BY <1>2 DEF Moved, Rows, Roles
<1>4. /\ moved \in [Places -> Rows \cup {NoPlace}]
      /\ \A i \in RowsIn(place) : /\ moved[i] \in Rows /\ moved[i].who = place[i].who
                                  /\ moved[i].live = place[i].live
  BY <1>1, <1>2, <1>3 DEF TeamInv, ErrandSound
<1>5. NoPlace \notin Rows /\ NoPlace \notin Places
  BY TeamAssumption
<1> HIDE DEF moved
<1>6. CASE errand[e].own # NoPlace
  <2>1. /\ n = errand[e].own /\ n \in RowsIn(place) /\ n \in Places
        /\ place[n].who = errand[e].who /\ moved[n] \in Rows
    BY <1>1, <1>2, <1>4, <1>6 DEF NamedIn, ErrandSound
  <2> DEFINE new == [moved[n] EXCEPT !.role = errand[e].role]
  <2>2. new \in Rows /\ new.who = moved[n].who /\ new.live = moved[n].live /\ new.role = errand[e].role
    BY <1>1, <2>1 DEF Rows
  <2>3. Named(e) = [moved EXCEPT ![n] = new]
    BY <1>4, <1>6, <2>1 DEF Named, moved
  <2> HIDE DEF new, n
  <2>4. /\ Named(e) \in [Places -> Rows \cup {NoPlace}] /\ Named(e)[n] = new
        /\ \A i \in Places : i # n => Named(e)[i] = moved[i]
    BY <1>4, <2>1, <2>2, <2>3
  <2>5. \A i \in RowsIn(place) : /\ Named(e)[i] \in Rows /\ Named(e)[i].who = place[i].who
                                 /\ Named(e)[i].live = place[i].live
    BY <1>2, <1>4, <2>1, <2>2, <2>4
  <2>6. \A i \in RowsIn(place) : i \in RowsIn(Named(e))
    BY <1>2, <1>5, <2>5 DEF RowsIn
  <2> QED BY <1>4, <1>6, <2>1, <2>2, <2>4, <2>5, <2>6 DEF n
<1>7. CASE errand[e].own = NoPlace
  <2>1. n = FirstPlace /\ n \in Places /\ n \notin RowsIn(place)
    BY <1>7, FirstPlaceIsFree DEF NamedIn, FreePlaces
  <2> DEFINE new == [who |-> errand[e].who, role |-> errand[e].role, live |-> TRUE]
  <2>2. new \in Rows /\ new.who = errand[e].who /\ new.live /\ new.role = errand[e].role
    BY <1>1 DEF Rows
  <2>3. Named(e) = [moved EXCEPT ![n] = new]
    BY <1>7, <2>1 DEF Named, moved
  <2> HIDE DEF new, n
  <2>4. /\ Named(e) \in [Places -> Rows \cup {NoPlace}] /\ Named(e)[n] = new
        /\ \A i \in Places : i # n => Named(e)[i] = moved[i]
    BY <1>4, <2>1, <2>2, <2>3
  <2>5. \A i \in RowsIn(place) : /\ Named(e)[i] \in Rows /\ Named(e)[i].who = place[i].who
                                 /\ Named(e)[i].live = place[i].live
    BY <1>2, <1>4, <2>1, <2>4
  <2>6. n \in RowsIn(Named(e)) /\ \A i \in RowsIn(place) : i \in RowsIn(Named(e))
    BY <1>2, <1>5, <2>1, <2>2, <2>4, <2>5 DEF RowsIn
  <2> QED BY <1>7, <2>1, <2>2, <2>4, <2>5, <2>6 DEF n
<1> QED BY <1>6, <1>7

\* Nobody leaves the job by an errand, and in turn whoever was named has the part.
PersonNamed(e) ==
    inTurn /\ errand[e].verb = "assign" /\ errand[e].at = "found" /\ place' # place
    => \E i \in LiveIn(place') : /\ place'[i].who = errand[e].who
                                 /\ place'[i].role = errand[e].role

TeamMoves ==
    /\ errand' # errand => OnTeam(place) \subseteq OnTeam(place')
    /\ \A e \in Errands : PersonNamed(e)

LEMMA NamingTeamInv ==
    ASSUME TeamInv, NEW e \in Errands, NEW to \in Errand,
           errand[e].at = "found", errand[e].own = NoPlace => FreePlaces # {},
           place' = Named(e), IndexesAllow(Named(e)),
           errand' = [errand EXCEPT ![e] = to], UNCHANGED <<inTurn, working, hours>>,
           to = NoErrand \/ (to.own = NamedIn(e) /\ errand[e].own = NoPlace),
           to.others \subseteq errand[e].others, to.at # "new" => to.who \in Colleagues,
           to.own # NoPlace => to.who = errand[e].who
    PROVE  TeamInv' /\ TeamMoves
<1>1. /\ errand[e] # NoErrand /\ ErrandSound(e) /\ NoErrand.own = NoPlace
      /\ NoErrand.others = {} /\ NoErrand.at = "new"
  BY DEF NoErrand, TeamInv
<1>2. /\ place' \in [Places -> Rows \cup {NoPlace}]
      /\ \A i \in RowsIn(place) : /\ i \in RowsIn(place') /\ place'[i].who = place[i].who
                                  /\ place'[i].live = place[i].live
      /\ NamedIn(e) \in RowsIn(place') /\ place'[NamedIn(e)].who = errand[e].who
      /\ place'[NamedIn(e)].role = errand[e].role
      /\ errand[e].own = NoPlace => place'[NamedIn(e)].live
  BY NamedKeeps
<1>3. RowsIn(place') = RowsIn(place)' /\ LiveIn(place') = LiveIn(place)'
  BY DEF RowsIn, LiveIn
<1>4. \A i \in LiveIn(place) : i \in LiveIn(place') /\ place'[i].who = place[i].who
  BY <1>2 DEF LiveIn
<1>5. /\ errand' \in [Errands -> Errand] /\ errand'[e] = to
      /\ \A x \in Errands \ {e} : errand'[x] = errand[x]
  BY DEF TeamInv
<1>6. IndexesAllow(place)'
  <2>1. IndexesAllow(place')
    OBVIOUS
  <2> QED BY <1>3, <2>1 DEF IndexesAllow
<1>7. HoursStayTheirs'
  BY <1>2 DEF TeamInv, HoursStayTheirs, RowsIn
<1>8. \A x \in Errands : ErrandSound(x)'
  <2>1. ErrandSound(e)'
    BY <1>1, <1>2, <1>3, <1>5 DEF ErrandSound
  <2>2. ASSUME NEW x \in Errands \ {e} PROVE ErrandSound(x)'
    BY <1>2, <1>3, <1>5 DEF TeamInv, ErrandSound
  <2> QED BY <2>1, <2>2
<1>9. inTurn => \A x \in Errands \ {e} : errand[x] = NoErrand
  BY <1>1 DEF TeamInv, InTurn
<1>10. InTurn'
  <2>1. to.own # NoPlace => to.own \in LiveIn(place')
    BY <1>1, <1>2 DEF LiveIn
  <2> QED BY <1>3, <1>5, <1>9, <2>1 DEF InTurn
<1>11. OnTeam(place) \subseteq OnTeam(place')
  BY <1>4 DEF OnTeam
<1>12. ASSUME NEW x \in Errands PROVE PersonNamed(x)
  <2>1. CASE x = e
    <3>1. inTurn => NamedIn(e) \in LiveIn(place')
      <4>1. CASE errand[e].own = NoPlace
        BY <1>2, <4>1 DEF LiveIn
      <4>2. CASE errand[e].own # NoPlace
        <5>1. inTurn => errand[e].own \in LiveIn(place)
          BY <1>1, <4>2 DEF TeamInv, InTurn
        <5> QED BY <1>4, <4>2, <5>1 DEF NamedIn
      <4> QED BY <4>1, <4>2
    <3> QED BY <1>2, <2>1, <3>1 DEF PersonNamed
  <2>2. CASE x # e
    BY <1>1, <1>9, <2>2 DEF PersonNamed
  <2> QED BY <2>1, <2>2
<1> QED BY <1>2, <1>5, <1>6, <1>7, <1>8, <1>10, <1>11, <1>12 DEF TeamInv, TeamMoves

LEMMA AssignTeamInv ==
    ASSUME TeamInv, NEW e \in Errands, Assign(e) PROVE TeamInv' /\ TeamMoves
<1>1. /\ errand[e].at = "found" /\ (errand[e].own = NoPlace => FreePlaces # {})
      /\ place' = Named(e) /\ IndexesAllow(Named(e)) /\ UNCHANGED <<inTurn, working, hours>>
      /\ errand' = [errand EXCEPT ![e] = NoErrand]
  BY DEF Assign, Ends
<1> DEFINE to == NoErrand
<1>2. /\ to \in Errand /\ to = NoErrand /\ to.others \subseteq errand[e].others
      /\ to.at = "new" /\ to.own = NoPlace
  BY DEF NoErrand, Errand, Roles
<1>3. errand' = [errand EXCEPT ![e] = to]
  BY <1>1
<1> HIDE DEF to
<1> QED BY <1>1, <1>2, <1>3, NamingTeamInv

LEMMA JoinTeamInv ==
    ASSUME TeamInv, NEW e \in Errands, Join(e) PROVE TeamInv' /\ TeamMoves
<1> DEFINE to == [errand[e] EXCEPT !.own = FirstPlace]
<1>1. /\ errand[e].at = "found" /\ errand[e].own = NoPlace /\ FreePlaces # {}
      /\ place' = Named(e) /\ IndexesAllow(Named(e)) /\ UNCHANGED <<inTurn, working, hours>>
  BY DEF Join
<1>2. errand[e] \in Errand /\ errand' = [errand EXCEPT ![e] = to] /\ errand[e].who \in Colleagues
  BY <1>1 DEF Join, TeamInv, Errand, ErrandSound
<1>3. FirstPlace \in Places /\ FirstPlace = NamedIn(e)
  BY <1>1, FirstPlaceIsFree DEF FreePlaces, NamedIn
<1>4. /\ to \in Errand /\ to.own = NamedIn(e) /\ to.who = errand[e].who
      /\ to.others = errand[e].others
  BY <1>2, <1>3 DEF Errand
<1> HIDE DEF to
<1> QED BY <1>1, <1>2, <1>4, NamingTeamInv

\* Somebody is taken off the job, or suspended, or nothing happens.
LEMMA AroundTeamInv ==
    ASSUME TeamInv,
           \/ \E u \in Colleagues : Unassign(u) \/ SuspendColleague(u)
           \/ UNCHANGED teamVars
    PROVE  TeamInv' /\ TeamMoves
<1>1. CASE UNCHANGED place /\ UNCHANGED <<inTurn, hours, errand>> /\ working' \subseteq working
  <2>1. RowsIn(place)' = RowsIn(place) /\ LiveIn(place)' = LiveIn(place)
    BY <1>1 DEF RowsIn, LiveIn
  <2>2. /\ IndexesAllow(place)' /\ HoursStayTheirs'
    BY <1>1 DEF TeamInv, IndexesAllow, HoursStayTheirs, LiveIn, RowsIn
  <2>3. InTurn' /\ \A x \in Errands : ErrandSound(x)'
    BY <1>1, <2>1 DEF TeamInv, InTurn, ErrandSound
  <2> QED BY <1>1, <2>2, <2>3 DEF TeamInv, TeamMoves, PersonNamed
<1>2. ASSUME NEW u \in Colleagues, Unassign(u) PROVE TeamInv' /\ TeamMoves
  <2>1. PICK i \in LiveOf(u) : place' = [place EXCEPT ![i].live = FALSE]
    BY <1>2 DEF Unassign
  <2> DEFINE ended == [place[i] EXCEPT !.live = FALSE]
  <2>2. i \in LiveIn(place) /\ i \in Places /\ i \in RowsIn(place) /\ place[i] \in Rows
    BY DEF LiveOf, LiveIn, RowsIn, TeamInv
  <2>3. ended \in Rows /\ ended.who = place[i].who /\ ~ ended.live
    BY <2>2 DEF Rows
  <2>4. place' = [place EXCEPT ![i] = ended]
    BY <2>1, <2>2 DEF TeamInv, Rows
  <2> HIDE DEF ended
  <2>5. /\ place' \in [Places -> Rows \cup {NoPlace}] /\ place'[i] = ended
        /\ \A j \in Places : j # i => place'[j] = place[j]
    BY <2>2, <2>3, <2>4 DEF TeamInv
  <2>6. /\ RowsIn(place') = RowsIn(place)
        /\ \A j \in RowsIn(place) : place'[j].who = place[j].who
    BY <2>2, <2>3, <2>5, TeamAssumption DEF RowsIn
  <2>7. LiveIn(place') = LiveIn(place) \ {i}
    BY <2>2, <2>3, <2>5, <2>6 DEF LiveIn, RowsIn
  <2>8. RowsIn(place)' = RowsIn(place') /\ LiveIn(place)' = LiveIn(place')
    BY DEF RowsIn, LiveIn
  <2>9. UNCHANGED <<inTurn, working, hours, errand>> /\ (inTurn => \A e \in Errands : errand[e] = NoErrand)
    BY <1>2 DEF Unassign
  <2>10. IndexesAllow(place)'
    <3>1. \A j \in LiveIn(place') : place'[j] = place[j] /\ j \in LiveIn(place)
      BY <2>5, <2>7 DEF LiveIn, RowsIn
    <3> QED BY <2>8, <3>1 DEF TeamInv, IndexesAllow
  <2>11. HoursStayTheirs'
    BY <2>6, <2>9 DEF TeamInv, HoursStayTheirs, RowsIn
  <2>12. \A x \in Errands : ErrandSound(x)'
    BY <2>6, <2>8, <2>9 DEF TeamInv, ErrandSound
  <2>13. InTurn'
    BY <2>9 DEF InTurn
  <2>14. TeamMoves
    BY <2>9 DEF TeamMoves, PersonNamed, NoErrand
  <2> QED BY <2>5, <2>9, <2>10, <2>11, <2>12, <2>13, <2>14 DEF TeamInv
<1>3. CASE \E u \in Colleagues : SuspendColleague(u)
  BY <1>1, <1>3 DEF SuspendColleague
<1>4. CASE UNCHANGED teamVars
  BY <1>1, <1>4 DEF teamVars
<1>5. CASE \E u \in Colleagues : Unassign(u)
  BY <1>2, <1>5
<1> QED BY <1>3, <1>4, <1>5

LEMMA NextTeamInv == TeamInv /\ [TeamNext]_teamVars => TeamInv' /\ TeamMoves
<1> SUFFICES ASSUME TeamInv, [TeamNext]_teamVars PROVE TeamInv' /\ TeamMoves
  OBVIOUS
<1>1. CASE (\E u \in Colleagues : Unassign(u) \/ SuspendColleague(u)) \/ UNCHANGED teamVars
  BY <1>1, AroundTeamInv
<1>2. ASSUME NEW e \in Errands,
             \/ GiveUpErrand(e) \/ MoveOthers(e) \/ FindOwn(e) \/ BookHour(e)
             \/ \E u \in Colleagues : FindTimed(e, u) \/ \E role \in Roles : FindPerson(e, u, role)
      PROVE  TeamInv' /\ TeamMoves
  <2>1. UNCHANGED place
    BY <1>2 DEF GiveUpErrand, MoveOthers, FindOwn, BookHour, FindTimed, FindPerson
  <2>2. TeamMoves
    BY <2>1 DEF TeamMoves, PersonNamed
  <2> QED BY <1>2, <2>2, LookingTeamInv
<1>3. ASSUME NEW e \in Errands, Assign(e) \/ Join(e) PROVE TeamInv' /\ TeamMoves
  BY <1>3, AssignTeamInv, JoinTeamInv
<1> QED BY <1>1, <1>2, <1>3 DEF TeamNext

\* The team of a job: whoever names whom at once, one person is responsible and nobody
\* has it twice; hours stay with whoever worked them; and naming somebody takes nobody
\* off it (assignments.ts, 0010_task_assignments).
THEOREM TeamStands == TeamSpec => TeamHolds
<1>1. TeamInv => TeamTypeOK /\ OneResponsible /\ HoursStayTheirs
  <2> SUFFICES ASSUME TeamInv PROVE TeamTypeOK /\ OneResponsible
    BY DEF TeamInv
  <2>1. TeamTypeOK
    BY DEF TeamInv, TeamTypeOK, ErrandSound
  <2>2. OneResponsible
    <3> SUFFICES ASSUME NEW i \in LiveIn(place), NEW j \in LiveIn(place), i # j
                 PROVE  /\ place[i].who # place[j].who
                        /\ ~ (place[i].role = "responsible" /\ place[j].role = "responsible")
      BY DEF OneResponsible
    <3>1. place[i].who # place[j].who /\ {place[i].role, place[j].role} # {"responsible"}
      BY DEF TeamInv, IndexesAllow
    <3> QED BY <3>1
  <2> QED BY <2>1, <2>2
<1>2. TeamMoves => /\ errand' # errand => OnTeam(place) \subseteq OnTeam(place')
                   /\ \A e \in Errands :
                         inTurn /\ errand[e].verb = "assign" /\ errand[e].at = "found" /\ place' # place
                         => \E i \in LiveIn(place') : /\ place'[i].who = errand[e].who
                                                      /\ place'[i].role = errand[e].role
  BY DEF TeamMoves, PersonNamed
<1> QED
  BY InitTeamInv, NextTeamInv, <1>1, <1>2, PTL DEF TeamSpec, TeamHolds, HelpersStay, NamedHasIt

-------------------------------------------------------------------------------
(* Classification: what a document holds names rows that are there, whoever *)
(* was on the team has an account, and while one person chooses at a time   *)
(* what was checked is still on its list.                                   *)

Values == Offices \cup Employees \cup Agents \cup {Unset}

RowSound(row) ==
    /\ row \in [Fields -> Values]
    /\ row["branch"] \in Offices \cup {Unset}
    /\ row["seller"] \in sellers \cup {Unset}
    /\ row["performer"] \in accounts \cup {Unset}

PickSound(p) ==
    pick[p] # NoPick =>
        /\ pick[p].document \in made /\ pick[p].field \in Fields
        /\ pick[p].field = "branch" => pick[p].to \in Offices \cup {Unset}
        /\ pick[p].field = "seller" => pick[p].to \in Employees \cup Agents \cup {Unset}
        /\ pick[p].field = "performer" => pick[p].to \in Employees \cup {Unset}
        /\ lone => OnList(pick[p].field, pick[p].to)

ClassInv ==
    /\ made \subseteq Documents
    /\ sellers \subseteq Employees \cup Agents /\ accounts \subseteq Employees
    /\ retiredSellers \subseteq sellers /\ retiredOffices \subseteq Offices
    /\ suspended \subseteq accounts /\ assigned \subseteq accounts
    /\ value \in [Documents -> [Fields -> Values]]
    /\ \A d \in Documents : RowSound(value[d])
    /\ pick \in [Pickers -> [document : Documents \cup {Unset}, field : Fields \cup {Unset},
                             to : Values]]
    /\ \A p \in Pickers : PickSound(p)

\* What a step may do.
ChoiceStands(d, f) ==
    value'[d][f] # value[d][f] =>
        \/ WasChosen(d, f)
        \/ d = "project" /\ f = "performer" /\ value'[d][f] \in assigned' \cup {Unset}
        \/ f = "performer" /\ value[d][f] \notin accounts'
        \/ f = "seller" /\ value[d][f] \notin sellers'

FromList(d, f) ==
    lone /\ WasChosen(d, f) /\ value'[d][f] # value[d][f] =>
        value'[d][f] \notin CASE f = "branch" -> retiredOffices
                              [] f = "seller" -> retiredSellers
                              [] OTHER -> suspended

Carried ==
    /\ converted' # converted =>
          \A f \in {"branch", "seller"} : value'["client"][f] = value["lead"][f]
    /\ \A d \in made' \ made : d \notin {"lead", "client"} =>
          value'[d].seller = value["client"].seller
    /\ "invoice" \in made' \ made =>
          (value'["invoice"].performer = Unset
             => Unset = value["client"].performer /\ Unset = value["project"].performer)

Kept ==
    /\ assigned \subseteq accounts'
    /\ value["client"].seller # Unset => value["client"].seller \in sellers'

ClassMoves ==
    /\ \A d \in made, f \in Fields : ChoiceStands(d, f)
    /\ \A d \in Documents, f \in Fields : FromList(d, f)
    /\ Carried
    /\ Kept

LEMMA InitClassInv == ClassificationInit => ClassInv
<1> SUFFICES ASSUME ClassificationInit PROVE ClassInv
  OBVIOUS
<1> USE DEF ClassificationInit
<1>1. \A d \in Documents : value[d] \in [Fields -> Values] /\ RowSound(value[d])
  BY DEF RowSound, NothingSet, Values, Fields
<1>2. \A p \in Pickers : PickSound(p)
  BY DEF PickSound
<1>3. NoPick \in [document : Documents \cup {Unset}, field : Fields \cup {Unset}, to : Values]
  BY DEF NoPick, Values
<1> QED BY <1>1, <1>2, <1>3 DEF ClassInv

\* A document is made of what it is handed.
LEMMA MakeClassInv ==
    ASSUME ClassInv, NEW d \in Documents, NEW row, Make(d, row), RowSound(row),
           UNCHANGED <<pick, picks>>, assigned \subseteq assigned', assigned' \subseteq accounts,
           converted' # converted =>
               d = "client" /\ \A f \in {"branch", "seller"} : row[f] = value["lead"][f],
           d \notin {"lead", "client"} => row["seller"] = value["client"]["seller"],
           d = "invoice" /\ row["performer"] = Unset =>
               value["client"]["performer"] = Unset /\ value["project"]["performer"] = Unset
    PROVE  ClassInv' /\ ClassMoves
<1>1. /\ d \notin made /\ made' = made \cup {d} /\ value' = [value EXCEPT ![d] = row]
      /\ UNCHANGED <<lone, sellers, retiredSellers, retiredOffices, accounts, suspended>>
  BY DEF Make, lists
<1>2. /\ value' \in [Documents -> [Fields -> Values]] /\ value'[d] = row
      /\ \A c \in Documents : c # d => value'[c] = value[c]
  BY <1>1 DEF ClassInv, RowSound
<1>3. \A c \in Documents : RowSound(value[c])'
  BY <1>1, <1>2 DEF ClassInv, RowSound
<1>4. \A p \in Pickers : PickSound(p)'
  BY <1>1 DEF ClassInv, PickSound, OnList
<1>5. \A c \in made, f \in Fields : ChoiceStands(c, f)
  BY <1>1, <1>2 DEF ChoiceStands, ClassInv
<1>6. \A c \in Documents, f \in Fields : FromList(c, f)
  BY DEF FromList, WasChosen
<1>7. Carried
  BY <1>1, <1>2 DEF Carried, ClassInv
<1>8. Kept
  BY <1>1 DEF Kept, ClassInv, RowSound, Documents
<1> QED BY <1>1, <1>2, <1>3, <1>4, <1>5, <1>6, <1>7, <1>8 DEF ClassInv, ClassMoves

LEMMA MakingClassInv ==
    ASSUME ClassInv,
           \/ WriteLead \/ WriteClient \/ ConvertLead \/ DraftQuotation \/ StartProject \/ InvoiceWork
    PROVE  ClassInv' /\ ClassMoves
<1> USE DEF Documents
<1>1. RowSound(NothingSet) /\ \A d \in Documents : RowSound(value[d])
  BY DEF RowSound, NothingSet, Fields, Values, ClassInv
<1>2. ASSUME NEW d \in Documents, NEW fields
      PROVE  /\ RowSound(From(d, fields))
             /\ \A f \in Fields : f \in fields => From(d, fields)[f] = value[d][f]
             /\ \A f \in Fields : f \notin fields => From(d, fields)[f] = Unset
  BY <1>1 DEF RowSound, From, Fields, Values
<1>3. CASE WriteLead
  BY <1>1, <1>3, MakeClassInv DEF WriteLead, ClassInv
<1>4. CASE WriteClient
  BY <1>1, <1>4, MakeClassInv DEF WriteClient, ClassInv
<1>5. CASE ConvertLead
  <2> DEFINE row == From("lead", {"branch", "seller"})
  <2>1. Make("client", row) /\ UNCHANGED <<assigned, pick, picks>>
    BY <1>5 DEF ConvertLead, HandedOver
  <2>2. RowSound(row) /\ \A f \in {"branch", "seller"} : row[f] = value["lead"][f]
    BY <1>2 DEF Fields
  <2> HIDE DEF row
  <2> QED BY <2>1, <2>2, MakeClassInv DEF ClassInv
<1>6. CASE DraftQuotation
  <2> DEFINE row == From("client", {"seller", "performer"})
  <2>1. Make("quotation", row) /\ UNCHANGED <<converted, assigned, pick, picks>>
    BY <1>6 DEF DraftQuotation
  <2>2. RowSound(row) /\ row["seller"] = value["client"]["seller"]
    BY <1>2 DEF Fields
  <2> HIDE DEF row
  <2> QED BY <2>1, <2>2, MakeClassInv DEF ClassInv
<1>7. CASE StartProject
  <2> DEFINE row == From("client", Fields)
  <2>1. /\ Make("project", row) /\ UNCHANGED <<converted, pick, picks>>
        /\ assigned' = assigned \cup ({value["client"]["performer"]} \ {Unset})
    BY <1>7 DEF StartProject
  <2>2. RowSound(row) /\ row["seller"] = value["client"]["seller"]
    BY <1>2 DEF Fields
  <2>3. assigned' \subseteq accounts
    BY <1>1, <2>1 DEF RowSound, ClassInv
  <2> HIDE DEF row
  <2> QED BY <2>1, <2>2, <2>3, MakeClassInv DEF ClassInv
<1>8. CASE InvoiceWork
  <2> DEFINE start == From("client", {"seller"})
             row == [start EXCEPT !["performer"] = BilledPerformer]
  <2>1. Make("invoice", row) /\ UNCHANGED <<converted, assigned, pick, picks>>
    BY <1>8 DEF InvoiceWork
  <2>2. RowSound(start) /\ start["seller"] = value["client"]["seller"]
    BY <1>2 DEF Fields
  <2>3. /\ BilledPerformer \in accounts \cup {Unset}
        /\ BilledPerformer = Unset =>
              value["client"]["performer"] = Unset /\ value["project"]["performer"] = Unset
    BY <1>1 DEF BilledPerformer, Coalesce, RowSound
  <2>4. RowSound(row) /\ row["seller"] = start["seller"] /\ row["performer"] = BilledPerformer
    BY <2>2, <2>3 DEF RowSound, Fields, Values, ClassInv
  <2> HIDE DEF row, start
  <2> QED BY <2>1, <2>2, <2>3, <2>4, MakeClassInv DEF ClassInv
<1> QED BY <1>3, <1>4, <1>5, <1>6, <1>7, <1>8

\* Somebody takes a job over, or leaves it.
LEMMA ResponsibleClassInv ==
    ASSUME ClassInv,
           LeaveResponsible \/ \E u \in Employees : AssignResponsible(u)
    PROVE  ClassInv' /\ ClassMoves
<1>1. PICK v \in accounts \cup {Unset} :
         /\ value' = [value EXCEPT !["project"] = [value["project"] EXCEPT !["performer"] = v]]
         /\ assigned' = assigned \cup ({v} \ {Unset})
  <2>1. CASE LeaveResponsible
    BY <2>1 DEF LeaveResponsible, ClassInv, Documents
  <2>2. ASSUME NEW u \in Employees, AssignResponsible(u)
        PROVE  \E v \in accounts \cup {Unset} :
                  /\ value' = [value EXCEPT !["project"] = [value["project"] EXCEPT !["performer"] = v]]
                  /\ assigned' = assigned \cup ({v} \ {Unset})
    <3>1. u \in accounts /\ u # Unset
      BY <2>2, ClassificationAssumption DEF AssignResponsible
    <3>2. value' = [value EXCEPT !["project"] = [value["project"] EXCEPT !["performer"] = u]]
      BY <2>2 DEF AssignResponsible, ClassInv, Documents
    <3>3. assigned' = assigned \cup ({u} \ {Unset})
      BY <2>2, <3>1 DEF AssignResponsible
    <3> QED BY <3>1, <3>2, <3>3
  <2> QED BY <2>1, <2>2
<1>2. UNCHANGED <<lone, made, converted, sellers, retiredSellers, retiredOffices, accounts,
                  suspended, pick, picks>>
  BY DEF LeaveResponsible, AssignResponsible, lists
<1> DEFINE row == [value["project"] EXCEPT !["performer"] = v]
<1>3. RowSound(row) /\ \A f \in Fields : f # "performer" => row[f] = value["project"][f]
  BY DEF ClassInv, RowSound, Fields, Values, Documents
<1>4. row["performer"] = v
  BY DEF ClassInv, RowSound, Fields, Documents
<1> HIDE DEF row
<1>5. /\ value' \in [Documents -> [Fields -> Values]] /\ value'["project"] = row
      /\ \A c \in Documents : c # "project" => value'[c] = value[c]
  BY <1>1, <1>3 DEF ClassInv, RowSound, row, Documents
<1>6. \A c \in Documents : RowSound(value[c])'
  BY <1>2, <1>3, <1>5 DEF ClassInv, RowSound
<1>7. \A p \in Pickers : PickSound(p)'
  BY <1>2 DEF ClassInv, PickSound, OnList
<1>8. \A c \in made, f \in Fields : ChoiceStands(c, f)
  BY <1>1, <1>3, <1>4, <1>5 DEF ChoiceStands, ClassInv
<1>9. \A c \in Documents, f \in Fields : FromList(c, f)
  BY <1>2 DEF FromList, WasChosen
<1>10. Carried /\ Kept
  BY <1>2 DEF Carried, Kept, ClassInv, RowSound, Documents
<1>11. assigned' \subseteq accounts
  BY <1>1 DEF ClassInv
<1> QED BY <1>2, <1>5, <1>6, <1>7, <1>8, <1>9, <1>10, <1>11 DEF ClassInv, ClassMoves

\* Choosing.
LEMMA ChoosingClassInv ==
    ASSUME ClassInv, NEW p \in Pickers, NEW d \in Documents, NEW f \in Fields, Choose(p, d, f)
    PROVE  ClassInv' /\ ClassMoves
<1>1. PICK v \in Offered(f) \cup {Unset} :
         /\ OnList(f, v)
         /\ pick' = [pick EXCEPT ![p] = [document |-> d, field |-> f, to |-> v]]
  BY DEF Choose
<1>2. /\ d \in made /\ pick[p] = NoPick
      /\ UNCHANGED <<lone, made, converted, value, assigned, sellers, retiredSellers,
                     retiredOffices, accounts, suspended>>
  BY DEF Choose, documents, lists
<1>3. /\ f = "branch" => v \in Offices \cup {Unset}
      /\ f = "seller" => v \in Employees \cup Agents \cup {Unset}
      /\ f = "performer" => v \in Employees \cup {Unset}
  BY DEF Offered, ClassInv
<1>4. v \in Values
  BY <1>3 DEF Values, Fields
<1>5. /\ pick' \in [Pickers -> [document : Documents \cup {Unset}, field : Fields \cup {Unset},
                                to : Values]]
      /\ pick'[p] = [document |-> d, field |-> f, to |-> v]
      /\ \A q \in Pickers : q # p => pick'[q] = pick[q]
  BY <1>1, <1>4 DEF ClassInv
<1>6. \A q \in Pickers : PickSound(q)'
  BY <1>1, <1>2, <1>3, <1>5 DEF ClassInv, PickSound, OnList
<1>7. \A c \in Documents : RowSound(value[c])'
  BY <1>2 DEF ClassInv, RowSound
<1>8. ClassMoves
  BY <1>2 DEF ClassMoves, ChoiceStands, FromList, Carried, Kept, ClassInv, RowSound, Documents
<1> QED BY <1>2, <1>5, <1>6, <1>7, <1>8 DEF ClassInv

LEMMA ChosenClassInv ==
    ASSUME ClassInv, NEW p \in Pickers, WriteChoice(p) \/ DropChoice(p)
    PROVE  ClassInv' /\ ClassMoves
<1> DEFINE d == pick[p].document
           f == pick[p].field
           v == pick[p].to
<1>1. /\ pick[p] # NoPick /\ pick' = [pick EXCEPT ![p] = NoPick]
      /\ UNCHANGED <<lone, made, converted, assigned, sellers, retiredSellers,
                     retiredOffices, accounts, suspended>>
  BY DEF WriteChoice, DropChoice, documents, lists
<1>2. PickSound(p) /\ d \in made /\ d \in Documents /\ f \in Fields
  BY <1>1 DEF ClassInv, PickSound
<1>3. NoPick \in [document : Documents \cup {Unset}, field : Fields \cup {Unset}, to : Values]
  BY DEF NoPick, Values
<1>4. /\ pick' \in [Pickers -> [document : Documents \cup {Unset}, field : Fields \cup {Unset},
                                to : Values]]
      /\ pick'[p] = NoPick /\ \A q \in Pickers : q # p => pick'[q] = pick[q]
  BY <1>1, <1>3 DEF ClassInv
<1>5. \A q \in Pickers : PickSound(q)'
  BY <1>1, <1>4 DEF ClassInv, PickSound, OnList
<1>6. WasChosen(d, f)
  BY <1>1, <1>4 DEF WasChosen
<1>7. \A c \in Documents, g \in Fields : WasChosen(c, g) => c = d /\ g = f
  BY <1>4 DEF WasChosen
<1>8. CASE WriteChoice(p)
  <2> DEFINE row == [value[d] EXCEPT ![f] = v]
  <2>1. value' = [value EXCEPT ![d] = row] /\ RowThere(f, v)
    BY <1>8 DEF WriteChoice, Chosen
  <2>2. row \in [Fields -> Values] /\ row[f] = v /\ \A g \in Fields : g # f => row[g] = value[d][g]
    BY <1>1, <1>2 DEF ClassInv
  <2>3. RowSound(row)
    BY <1>1, <1>2, <2>1, <2>2 DEF ClassInv, RowSound, RowThere, PickSound, Fields
  <2> HIDE DEF row, d, f, v
  <2>4. /\ value' \in [Documents -> [Fields -> Values]] /\ value'[d] = row
        /\ \A c \in Documents : c # d => value'[c] = value[c]
    BY <1>2, <2>1, <2>2 DEF ClassInv
  <2>5. \A c \in Documents : RowSound(value[c])'
    BY <1>1, <2>3, <2>4 DEF ClassInv, RowSound
  <2>6. \A c \in made, g \in Fields : ChoiceStands(c, g)
    BY <1>6, <2>2, <2>4 DEF ChoiceStands, ClassInv
  <2>7. \A c \in Documents, g \in Fields : FromList(c, g)
    <3>1. SUFFICES ASSUME lone, value'[d][f] # value[d][f] PROVE FromList(d, f)
      BY <1>7 DEF FromList
    <3>2. OnList(f, v) /\ value'[d][f] = v
      BY <1>1, <1>2, <2>2, <2>4, <3>1 DEF PickSound, f, v
    <3>3. Unset \notin retiredOffices /\ Unset \notin retiredSellers /\ Unset \notin suspended
      BY ClassificationAssumption DEF ClassInv
    <3> QED BY <1>2, <3>2, <3>3 DEF FromList, OnList, Fields, f
  <2>8. Carried /\ Kept
    BY <1>1 DEF Carried, Kept, ClassInv, RowSound, Documents
  <2> QED BY <1>1, <1>4, <1>5, <2>4, <2>5, <2>6, <2>7, <2>8 DEF ClassInv, ClassMoves
<1>9. CASE DropChoice(p)
  <2>1. value' = value
    BY <1>9 DEF DropChoice, documents
  <2>2. \A c \in Documents : RowSound(value[c])'
    BY <1>1, <2>1 DEF ClassInv, RowSound
  <2>3. ClassMoves
    BY <1>1, <2>1 DEF ClassMoves, ChoiceStands, FromList, Carried, Kept, ClassInv, RowSound, Documents
  <2> QED BY <1>1, <1>4, <1>5, <2>1, <2>2, <2>3 DEF ClassInv
<1> QED BY <1>8, <1>9

\* The lists change: nothing chosen is in the middle of being written, where one
\* person chooses at a time.
LEMMA ListsClassInv ==
    ASSUME ClassInv,
           UNCHANGED <<lone, made, converted, assigned, pick>>,
           sellers' \subseteq Employees \cup Agents, accounts' \subseteq accounts,
           retiredSellers' \subseteq sellers', retiredOffices' \subseteq Offices,
           suspended' \subseteq accounts', assigned \subseteq accounts',
           value' \in [Documents -> [Fields -> Values]],
           \A d \in Documents : RowSound(value[d])',
           \A d \in Documents : \A f \in Fields : value'[d][f] # value[d][f] =>
              \/ f = "performer" /\ value[d][f] \notin accounts'
              \/ f = "seller" /\ value[d][f] \notin sellers',
           value["client"]["seller"] # Unset => value["client"]["seller"] \in sellers',
           \/ lone => \A p \in Pickers : pick[p] = NoPick
           \/ /\ sellers \subseteq sellers'
              /\ UNCHANGED <<retiredSellers, retiredOffices, accounts, suspended>>
    PROVE  ClassInv' /\ ClassMoves
<1>1. \A p \in Pickers : PickSound(p)'
  <2>1. CASE lone => \A p \in Pickers : pick[p] = NoPick
    BY <2>1 DEF ClassInv, PickSound
  <2>2. CASE /\ sellers \subseteq sellers'
             /\ UNCHANGED <<retiredSellers, retiredOffices, accounts, suspended>>
    BY <2>2 DEF ClassInv, PickSound, OnList
  <2> QED BY <2>1, <2>2
<1>2. ClassMoves
  BY DEF ClassMoves, ChoiceStands, FromList, WasChosen, Carried, Kept, ClassInv
<1> QED BY <1>1, <1>2 DEF ClassInv

LEMMA ChangingClassInv ==
    ASSUME ClassInv,
           \/ \E a \in Agents : AddAgent(a)
           \/ \E s \in Employees \cup Agents : RetireSeller(s)
           \/ \E o \in Offices : RetireOffice(o)
           \/ \E u \in Employees : Suspend(u) \/ DeleteAccount(u) \/ BecomeClients(u)
           \/ UNCHANGED classificationVars
    PROVE  ClassInv' /\ ClassMoves
<1>1. CASE UNCHANGED value /\ UNCHANGED accounts /\ sellers \subseteq sellers'
  <2>1. \A d \in Documents : RowSound(value[d])'
    BY <1>1 DEF ClassInv, RowSound
  <2>2. value["client"]["seller"] # Unset => value["client"]["seller"] \in sellers'
    BY <1>1 DEF ClassInv, RowSound, Documents
  <2>3. CASE UNCHANGED classificationVars
    BY <1>1, <2>1, <2>2, <2>3, ListsClassInv DEF classificationVars, documents, lists, ClassInv
  <2>4. CASE \E a \in Agents : AddAgent(a)
    BY <1>1, <2>1, <2>2, <2>4, ListsClassInv DEF AddAgent, documents, ClassInv
  <2>5. CASE \E s \in Employees \cup Agents : RetireSeller(s)
    BY <1>1, <2>1, <2>2, <2>5, ListsClassInv DEF RetireSeller, Quiet, documents, ClassInv
  <2>6. CASE \E o \in Offices : RetireOffice(o)
    BY <1>1, <2>1, <2>2, <2>6, ListsClassInv DEF RetireOffice, Quiet, documents, ClassInv
  <2>7. CASE \E u \in Employees : Suspend(u)
    BY <1>1, <2>1, <2>2, <2>7, ListsClassInv DEF Suspend, Quiet, documents, ClassInv
  <2>8. CASE \E u \in Employees : DeleteAccount(u) \/ BecomeClients(u)
    BY <1>1, <2>8 DEF DeleteAccount, BecomeClients, ClassInv
  <2> QED BY <2>3, <2>4, <2>5, <2>6, <2>7, <2>8
<1>2. ASSUME NEW u \in Employees, DeleteAccount(u) PROVE ClassInv' /\ ClassMoves
  <2>1. /\ u \in accounts /\ u \notin assigned
        /\ lone => \A p \in Pickers : pick[p] = NoPick
        /\ accounts' = accounts \ {u} /\ suspended' = suspended \ {u}
        /\ UNCHANGED <<lone, made, converted, assigned, sellers, retiredSellers, retiredOffices, pick>>
    BY <1>2 DEF DeleteAccount, Quiet, KeptForName
  <2> DEFINE row(d) == [value[d] EXCEPT !["performer"] = IF value[d]["performer"] = u THEN Unset
                                                         ELSE value[d]["performer"]]
  <2>2. value' = [d \in Documents |-> row(d)]
    BY <1>2 DEF DeleteAccount
  <2>3. ASSUME NEW d \in Documents
        PROVE  /\ row(d) \in [Fields -> Values]
               /\ \A f \in Fields : f # "performer" => row(d)[f] = value[d][f]
               /\ row(d)["performer"] \in accounts' \cup {Unset}
               /\ row(d)["performer"] # value[d]["performer"] => value[d]["performer"] = u
    BY <2>1 DEF ClassInv, RowSound, Fields, Values
  <2> HIDE DEF row
  <2>4. \A d \in Documents : RowSound(value[d])'
    BY <2>1, <2>2, <2>3 DEF ClassInv, RowSound, Fields
  <2>5. value' \in [Documents -> [Fields -> Values]]
    BY <2>2, <2>3
  <2>6. \A d \in Documents : \A f \in Fields : value'[d][f] # value[d][f] =>
           f = "performer" /\ value[d][f] \notin accounts'
    BY <2>1, <2>2, <2>3
  <2>7. value["client"]["seller"] # Unset => value["client"]["seller"] \in sellers'
    BY <2>1 DEF ClassInv, RowSound, Documents
  <2> QED BY <2>1, <2>4, <2>5, <2>6, <2>7, ListsClassInv DEF ClassInv
<1>3. ASSUME NEW u \in Employees, BecomeClients(u) PROVE ClassInv' /\ ClassMoves
  <2>1. /\ u \in sellers /\ value["client"]["seller"] # u
        /\ lone => \A p \in Pickers : pick[p] = NoPick
        /\ sellers' = sellers \ {u} /\ retiredSellers' = retiredSellers \ {u}
        /\ UNCHANGED <<lone, made, converted, assigned, retiredOffices, accounts, suspended, pick>>
    BY <1>3 DEF BecomeClients, Quiet, SoldAClient
  <2> DEFINE row(d) == [value[d] EXCEPT !["seller"] = IF value[d]["seller"] = u THEN Unset
                                                      ELSE value[d]["seller"]]
  <2>2. value' = [d \in Documents |-> row(d)]
    BY <1>3 DEF BecomeClients
  <2>3. ASSUME NEW d \in Documents
        PROVE  /\ row(d) \in [Fields -> Values]
               /\ \A f \in Fields : f # "seller" => row(d)[f] = value[d][f]
               /\ row(d)["seller"] \in sellers' \cup {Unset}
               /\ row(d)["seller"] # value[d]["seller"] => value[d]["seller"] = u
    BY <2>1 DEF ClassInv, RowSound, Fields, Values
  <2> HIDE DEF row
  <2>4. \A d \in Documents : RowSound(value[d])'
    BY <2>1, <2>2, <2>3 DEF ClassInv, RowSound, Fields
  <2>5. value' \in [Documents -> [Fields -> Values]]
    BY <2>2, <2>3
  <2>6. \A d \in Documents : \A f \in Fields : value'[d][f] # value[d][f] =>
           f = "seller" /\ value[d][f] \notin sellers'
    BY <2>1, <2>2, <2>3
  <2>7. value["client"]["seller"] # Unset => value["client"]["seller"] \in sellers'
    BY <2>1 DEF ClassInv, RowSound, Documents
  <2> QED BY <2>1, <2>4, <2>5, <2>6, <2>7, ListsClassInv DEF ClassInv
<1>4. CASE \/ \E a \in Agents : AddAgent(a)
           \/ \E s \in Employees \cup Agents : RetireSeller(s)
           \/ \E o \in Offices : RetireOffice(o)
           \/ \E u \in Employees : Suspend(u)
           \/ UNCHANGED classificationVars
  BY <1>1, <1>4 DEF AddAgent, RetireSeller, RetireOffice, Suspend, classificationVars, documents, lists
<1>5. CASE \E u \in Employees : DeleteAccount(u) \/ BecomeClients(u)
  BY <1>2, <1>3, <1>5
<1> QED BY <1>4, <1>5

LEMMA NextClassInv ==
    ClassInv /\ [ClassificationNext]_classificationVars => ClassInv' /\ ClassMoves
<1> SUFFICES ASSUME ClassInv, [ClassificationNext]_classificationVars PROVE ClassInv' /\ ClassMoves
  OBVIOUS
<1>1. CASE \/ WriteLead \/ WriteClient \/ ConvertLead \/ DraftQuotation \/ StartProject
           \/ InvoiceWork
  BY <1>1, MakingClassInv
<1>2. CASE LeaveResponsible \/ \E u \in Employees : AssignResponsible(u)
  BY <1>2, ResponsibleClassInv
<1>3. ASSUME NEW p \in Pickers,
             \/ WriteChoice(p) \/ DropChoice(p)
             \/ \E d \in Documents : \E f \in Fields : Choose(p, d, f)
      PROVE  ClassInv' /\ ClassMoves
  BY <1>3, ChosenClassInv, ChoosingClassInv
<1>4. CASE \/ \E a \in Agents : AddAgent(a)
           \/ \E s \in Employees \cup Agents : RetireSeller(s)
           \/ \E o \in Offices : RetireOffice(o)
           \/ \E u \in Employees : Suspend(u) \/ DeleteAccount(u) \/ BecomeClients(u)
           \/ UNCHANGED classificationVars
  BY <1>4, ChangingClassInv
<1> QED BY <1>1, <1>2, <1>3, <1>4 DEF ClassificationNext

\* Branch, salesperson and who did the work: what a document holds changes only as
\* somebody chose, from the list; each document starts with what the one before it
\* holds; and nobody who was on a team is forgotten (0052_classification).
THEOREM ClassificationStands == ClassificationSpec => ClassificationHolds
<1>1. ClassInv => ClassificationTypeOK
  BY DEF ClassInv, ClassificationTypeOK, RowSound
<1>2. ClassMoves =>
         /\ \A d \in made, f \in Fields :
               value'[d][f] # value[d][f] =>
                  \/ WasChosen(d, f)
                  \/ d = "project" /\ f = "performer" /\ value'[d][f] \in assigned' \cup {Unset}
                  \/ f = "performer" /\ value[d][f] \notin accounts'
                  \/ f = "seller" /\ value[d][f] \notin sellers'
         /\ \A d \in Documents, f \in Fields :
               lone /\ WasChosen(d, f) /\ value'[d][f] # value[d][f] =>
                  value'[d][f] \notin
                     CASE f = "branch" -> retiredOffices
                       [] f = "seller" -> retiredSellers
                       [] OTHER -> suspended
  BY DEF ClassMoves, ChoiceStands, FromList
<1>3. ClassMoves => Carried /\ Kept
  BY DEF ClassMoves
<1> QED
  BY InitClassInv, NextClassInv, <1>1, <1>2, <1>3, PTL
     DEF ClassificationSpec, ClassificationHolds, ChoicesStand, ChosenFromList, CarriedForward,
         NamesKept, Carried, Kept

-----------------------------------------------------------------------------
(***************************************************************************)
(* The lists. What is kept of the boxes of a form is worked out by a loop: *)
(* first what the loop leaves, then the invariant.                         *)
(***************************************************************************)

\* What may be typed into a form.
Draft == Seq(Texts \cup {Blank})

DetailsOK(d) == d \in Seq(Texts) /\ d # <<>> /\ (kind = "letter" => Len(d) = 2)

\* What the loop has when it has seen n boxes: texts, at least one if one of the
\* boxes has text, as many as the boxes if all have.
LoopOK(d, n, f) ==
    /\ f \in [0 .. n -> Seq(Texts)] /\ f[0] = <<>>
    /\ \A i \in 1 .. n : f[i] = IF d[i] = Blank THEN f[i - 1] ELSE Append(f[i - 1], d[i])

LEMMA LoopGoesOn ==
    ASSUME NEW d \in Draft, NEW n \in Nat, n + 1 <= Len(d), NEW f, LoopOK(d, n, f)
    PROVE  \E g : LoopOK(d, n + 1, g)
<1> DEFINE last == IF d[n + 1] = Blank THEN f[n] ELSE Append(f[n], d[n + 1])
           g == [i \in 0 .. n + 1 |-> IF i = n + 1 THEN last ELSE f[i]]
<1>1. n + 1 \in 1 .. Len(d) /\ n + 1 \in DOMAIN d /\ n \in 0 .. n
  BY DEF Draft
<1>2. d[n + 1] \in Texts \cup {Blank}
  BY <1>1 DEF Draft
<1>3. f[n] \in Seq(Texts)
  BY <1>1 DEF LoopOK
<1>4. last \in Seq(Texts)
  BY <1>2, <1>3
<1> HIDE DEF last
<1>5. g \in [0 .. n + 1 -> Seq(Texts)] /\ g[0] = <<>>
  BY <1>4 DEF LoopOK
<1>6. \A i \in 1 .. n : g[i] = f[i] /\ g[i - 1] = f[i - 1]
  OBVIOUS
<1>7. g[n + 1] = last /\ g[n] = f[n]
  OBVIOUS
<1> HIDE DEF g
<1>8. ASSUME NEW i \in 1 .. n + 1
      PROVE  g[i] = IF d[i] = Blank THEN g[i - 1] ELSE Append(g[i - 1], d[i])
  <2>1. CASE i \in 1 .. n
    BY <1>6, <2>1 DEF LoopOK
  <2>2. CASE i = n + 1
    BY <1>7, <2>2 DEF last
  <2> QED BY <2>1, <2>2
<1> QED BY <1>5, <1>8 DEF LoopOK

\* Were the loop to stick, it would stick at a first box, and it sticks at none.
LEMMA LoopEnds ==
    ASSUME NEW d \in Draft
    PROVE  \E f : LoopOK(d, Len(d), f)
<1> DEFINE Bad == {n \in 0 .. Len(d) : ~ \E f : LoopOK(d, n, f)}
<1> SUFFICES ASSUME Len(d) \in Bad PROVE FALSE
  BY DEF Draft
<1>1. Bad \subseteq Nat
  OBVIOUS
<1>2. PICK n \in Bad : \A m \in Bad : ~ (<<m, n>> \in OpToRel(<, Nat))
  BY <1>1, NatLessThanWellFounded, WFMin, Zenon
<1>3. LoopOK(d, 0, [i \in 0 .. 0 |-> <<>>])
  BY DEF LoopOK
<1>4. n \in Nat /\ n # 0 /\ n <= Len(d)
  <2>1. n # 0
    BY <1>2, <1>3
  <2>2. n \in 0 .. Len(d)
    BY <1>2, Zenon
  <2>3. Len(d) \in Nat
    BY DEF Draft
  <2> HIDE DEF Bad
  <2> QED BY <2>1, <2>2, <2>3
<1>5. n - 1 \in Nat /\ <<n - 1, n>> \in OpToRel(<, Nat) /\ n - 1 \in 0 .. Len(d) /\ (n - 1) + 1 = n
  BY <1>4 DEF OpToRel, Draft
<1>6. PICK f : LoopOK(d, n - 1, f)
  BY <1>2, <1>5, Zenon
<1>7. \E g : LoopOK(d, n, g)
  BY <1>4, <1>5, <1>6, LoopGoesOn
<1> QED BY <1>2, <1>7

\* How many texts the loop has found, and that it has found one.
LEMMA LoopFinds ==
    ASSUME NEW d \in Draft, NEW f, LoopOK(d, Len(d), f), NEW n \in 0 .. Len(d)
    PROVE  /\ (\E i \in 1 .. n : d[i] # Blank) => f[n] # <<>>
           /\ (\A i \in 1 .. n : d[i] # Blank) => Len(f[n]) = n
<1> DEFINE Found(k) == /\ (\E i \in 1 .. k : d[i] # Blank) => f[k] # <<>>
                       /\ (\A i \in 1 .. k : d[i] # Blank) => Len(f[k]) = k
           Bad == {k \in 0 .. Len(d) : ~ Found(k)}
<1> SUFFICES ASSUME n \in Bad PROVE FALSE
  OBVIOUS
<1>1. Bad \subseteq Nat
  OBVIOUS
<1>2. PICK k \in Bad : \A m \in Bad : ~ (<<m, k>> \in OpToRel(<, Nat))
  BY <1>1, NatLessThanWellFounded, WFMin, Zenon
<1>3. Found(0)
  BY DEF LoopOK
<1>4. k \in Nat /\ k # 0 /\ k <= Len(d) /\ k \in 1 .. Len(d)
  <2>1. k # 0
    <3> HIDE DEF Found
    <3> QED BY <1>2, <1>3
  <2>2. k \in 0 .. Len(d)
    BY <1>2, Zenon
  <2>3. Len(d) \in Nat
    BY DEF Draft
  <2> HIDE DEF Bad
  <2> QED BY <2>1, <2>2, <2>3
<1>5. k - 1 \in Nat /\ <<k - 1, k>> \in OpToRel(<, Nat) /\ k - 1 \in 0 .. Len(d)
  BY <1>4 DEF OpToRel, Draft
<1>6. Found(k - 1)
  <2> HIDE DEF Found
  <2> QED BY <1>2, <1>5, Zenon
<1>7. /\ f[k] = IF d[k] = Blank THEN f[k - 1] ELSE Append(f[k - 1], d[k])
      /\ f[k - 1] \in Seq(Texts)
  BY <1>4, <1>5 DEF LoopOK
<1>8. CASE d[k] = Blank
  <2>1. ASSUME NEW i \in 1 .. k, d[i] # Blank PROVE i \in 1 .. k - 1
    BY <1>4, <1>8, <2>1
  <2>2. ~ (\A i \in 1 .. k : d[i] # Blank)
    BY <1>4, <1>8
  <2> QED BY <1>2, <1>6, <1>7, <1>8, <2>1, <2>2
<1>9. CASE d[k] # Blank
  <2>1. f[k] = Append(f[k - 1], d[k])
    BY <1>7, <1>9
  <2>2. d[k] \in Texts
    BY <1>4, <1>9 DEF Draft
  <2>3. f[k] # <<>> /\ Len(f[k]) = Len(f[k - 1]) + 1
    BY <1>7, <2>1, <2>2
  <2>4. (\A i \in 1 .. k : d[i] # Blank) => \A i \in 1 .. k - 1 : d[i] # Blank
    BY <1>4
  <2>5. (\A i \in 1 .. k : d[i] # Blank) => Len(f[k]) = k
    BY <1>4, <1>6, <2>3, <2>4
  <2> QED BY <1>2, <2>3, <2>5
<1> QED BY <1>8, <1>9

\* What is kept of the boxes.
LEMMA DefinedIs ==
    ASSUME NEW d \in Draft
    PROVE  /\ kind = "service" => Defined(d) \in Seq(Texts)
           /\ kind = "service" /\ Ready(d) => Defined(d) # <<>>
           /\ d \in Seq(Texts) => Defined(d) \in Seq(Texts) /\ Len(Defined(d)) = Len(d)
           /\ kind # "service" => Defined(d) = d
<1> DEFINE Is(f) == f = [i \in 0 .. Len(d) |->
                           IF i = 0 THEN <<>>
                           ELSE IF d[i] = Blank THEN f[i - 1] ELSE Append(f[i - 1], d[i])]
           steps == CHOOSE steps : Is(steps)
<1>1. PICK f : LoopOK(d, Len(d), f)
  BY LoopEnds
<1>2. Len(d) \in Nat
  BY DEF Draft
<1>3. Is(f)
  <2>1. f = [i \in 0 .. Len(d) |-> f[i]]
    BY <1>1 DEF LoopOK
  <2>2. ASSUME NEW i \in 0 .. Len(d)
        PROVE  f[i] = IF i = 0 THEN <<>>
                      ELSE IF d[i] = Blank THEN f[i - 1] ELSE Append(f[i - 1], d[i])
    <3>1. i = 0 \/ (i \in 1 .. Len(d) /\ i # 0)
      BY <1>2
    <3> QED BY <1>1, <3>1, Zenon DEF LoopOK
  <2> QED BY <2>1, <2>2
<1>4. Is(steps)
  BY <1>3
<1>5. steps[0] = <<>>
  <2>1. 0 \in 0 .. Len(d)
    BY <1>2
  <2> QED BY <1>4, <2>1, Zenon
<1>6. ASSUME NEW i \in 1 .. Len(d)
       PROVE  steps[i] = IF d[i] = Blank THEN steps[i - 1] ELSE Append(steps[i - 1], d[i])
  <2>1. i \in 0 .. Len(d) /\ i # 0
    BY <1>2
  <2> QED BY <1>4, <2>1, Zenon
<1>7. Defined(d) = IF kind = "service" THEN steps[Len(d)] ELSE d
  BY DEF Defined
<1> HIDE DEF steps
<1>8. \A n \in 0 .. Len(d) : steps[n] \in Seq(Texts)
  <2> DEFINE Bad == {n \in 0 .. Len(d) : steps[n] \notin Seq(Texts)}
  <2> SUFFICES ASSUME Bad # {} PROVE FALSE
    OBVIOUS
  <2>1. PICK n \in Bad : \A m \in Bad : ~ (<<m, n>> \in OpToRel(<, Nat))
    <3>1. Bad \subseteq Nat
      BY <1>2
    <3> QED BY <3>1, NatLessThanWellFounded, WFMin, Zenon
  <2>2. n \in 0 .. Len(d) /\ n # 0
    <3>1. <<>> \in Seq(Texts)
      OBVIOUS
    <3> QED BY <1>5, <2>1, <3>1, Zenon
  <2>3. n \in 1 .. Len(d)
    <3> HIDE DEF Bad
    <3> QED BY <1>2, <2>2
  <2>4. n - 1 \in 0 .. Len(d) /\ <<n - 1, n>> \in OpToRel(<, Nat)
    BY <1>2, <2>3 DEF OpToRel
  <2>5. steps[n - 1] \in Seq(Texts)
    BY <2>1, <2>4
  <2>6. steps[n] = IF d[n] = Blank THEN steps[n - 1] ELSE Append(steps[n - 1], d[n])
    BY <1>6, <2>3, Zenon
  <2>7. d[n] = Blank \/ d[n] \in Texts
    BY <2>3 DEF Draft
  <2>8. steps[n] \in Seq(Texts)
    BY <2>5, <2>6, <2>7
  <2> QED BY <2>1, <2>8
<1>9. LoopOK(d, Len(d), steps)
  <2>1. steps \in [0 .. Len(d) -> Seq(Texts)]
    BY <1>4, <1>8
  <2> QED BY <1>5, <1>6, <2>1 DEF LoopOK
<1> HIDE DEF Is
<1>10. steps[Len(d)] \in Seq(Texts)
  BY <1>2, <1>8
<1>11. Ready(d) => steps[Len(d)] # <<>>
  <2>1. DOMAIN d = 1 .. Len(d)
    BY DEF Draft
  <2> QED BY <1>2, <1>9, <2>1, LoopFinds DEF Ready
<1>12. d \in Seq(Texts) => Len(steps[Len(d)]) = Len(d)
  <2>1. d \in Seq(Texts) => \A i \in 1 .. Len(d) : d[i] # Blank
    BY SettingsAssumption
  <2> QED BY <1>2, <1>9, <2>1, LoopFinds
<1> QED BY <1>7, <1>10, <1>11, <1>12

-----------------------------------------------------------------------------
(* The inductive invariant.                                                *)

Verbs == {"none", "add", "save", "retire", "restore", "letter"}
OpenOn == Codes \cup {New, NoRow}
Listed == ListRow \cup {NoRow}
Editors == [on : OpenOn, from : OpenOn, label : RowNames \cup {Blank}, details : Draft]
Requests == [verb : Verbs, code : OpenOn, label : RowNames \cup {Blank, "en", "ar"},
             details : Draft, base : Listed, begun : BOOLEAN]

\* A draft that may be sent. Only somebody emptying boxes of a service sends some empty.
SentOK(d) ==
    /\ d \in Draft /\ Ready(d)
    /\ kind = "letter" => Len(d) = 2
    /\ kind # "service" \/ ~ emptied => d \in Seq(Texts)

RowOK(r) == r \in Listed /\ (r # NoRow => DetailsOK(r.details))

TablesOK ==
    /\ kind \in Kinds
    /\ rows \in [Codes -> Listed] /\ \A c \in Codes : RowOK(rows[c])
    /\ heard \in [Managers -> [Codes -> Listed]]
    /\ editor \in [Managers -> Editors] /\ request \in [Managers -> Requests]
    /\ \A l \in letters : /\ l \in [asked : SUBSET Facts, gaps : SUBSET Facts, told : SUBSET Facts]
                         /\ l.gaps = l.told

\* What a manager heard of is there.
HeardOK(m) ==
    \A c \in Codes : RowOK(heard[m][c]) /\ (heard[m][c] # NoRow => rows[c] # NoRow)

\* A form is open on a row that is there, filled from that row.
EditorOK(m) ==
    /\ kind # "person" => editor[m].from = editor[m].on
    /\ editor[m].on \in Codes => rows[editor[m].on] # NoRow
    /\ ~ emptied => editor[m].details \in Seq(Texts) \/ editor[m].details = <<Blank>>

RequestOK(m) ==
    /\ request[m].verb \in {"add", "save"} =>
          request[m].label \in RowNames /\ SentOK(request[m].details)
    /\ request[m].verb = "add" /\ (kind = "option" \/ request[m].begun) => request[m].code \in Codes
    /\ request[m].verb \in {"save", "retire", "restore", "letter"} =>
          request[m].code \in Codes /\ rows[request[m].code] # NoRow
    /\ request[m].verb = "letter" => kind = "letter"
    /\ request[m].begun => request[m].verb \in {"add", "save", "retire", "restore"}
    /\ request[m].begun /\ request[m].verb # "add" =>
          request[m].base # NoRow /\ DetailsOK(request[m].base.details)

\* While requests take turns, the one at work has what the table holds.
Turn(m) ==
    alone /\ request[m].begun =>
       /\ \A n \in Managers \ {m} : ~ request[n].begun
       /\ request[m].verb # "add" => request[m].base = rows[request[m].code]
       /\ request[m].verb = "add" /\ kind # "option" => rows[request[m].code] = NoRow
       /\ request[m].verb = "save" /\ kind = "service" =>
             Len(request[m].details) >= Len(rows[request[m].code].details)

ManagerOK(m) == HeardOK(m) /\ EditorOK(m) /\ RequestOK(m) /\ Turn(m)

SettingsInv == TablesOK /\ \A m \in Managers : ManagerOK(m)

\* What is listed, typed or asked of one kind while nobody else is at it stays right.
LEMMA ManagerStays ==
    ASSUME SettingsInv, NEW m \in Managers, kind' = kind, emptied' = emptied, alone' = alone,
           rows' = rows, heard'[m] = heard[m], editor'[m] = editor[m], request'[m] = request[m],
           \A n \in Managers \ {m} : request'[n].begun => request[n].begun \/ ~ request[m].begun \/ ~ alone
    PROVE  ManagerOK(m)'
<1>1. ManagerOK(m)
  BY DEF SettingsInv
<1>2. HeardOK(m)'
  BY <1>1 DEF ManagerOK, HeardOK, RowOK, DetailsOK
<1>3. EditorOK(m)'
  BY <1>1 DEF ManagerOK, EditorOK
<1>4. RequestOK(m)'
  BY <1>1 DEF ManagerOK, RequestOK, SentOK, Ready, DetailsOK
<1>5. Turn(m)'
  BY <1>1 DEF ManagerOK, Turn
<1> QED BY <1>2, <1>3, <1>4, <1>5 DEF ManagerOK

LEMMA SettingsStart == SettingsInit => SettingsInv
<1> SUFFICES ASSUME SettingsInit PROVE SettingsInv
  OBVIOUS
<1> USE SettingsAssumption
<1>1. (CHOOSE t \in Texts : TRUE) \in Texts /\ (CHOOSE l \in RowNames : TRUE) \in RowNames
  OBVIOUS
<1>2. ASSUME NEW label \in RowNames PROVE FirstRow(label) \in ListRow /\ DetailsOK(FirstRow(label).details)
  <2> DEFINE t == CHOOSE t \in Texts : TRUE
             n == IF kind = "letter" THEN 2 ELSE 1
             d == [i \in 1 .. n |-> t]
  <2>1. FirstRow(label) = [label |-> label, retired |-> FALSE, details |-> d]
    BY DEF FirstRow
  <2>2. t \in Texts
    BY <1>1
  <2> HIDE DEF t
  <2>3. d \in Seq(Texts) /\ Len(d) = n /\ n \in {1, 2} /\ d # <<>>
    BY <2>2
  <2> HIDE DEF d
  <2>4. DetailsOK(d)
    BY <2>3 DEF DetailsOK
  <2> QED BY <2>1, <2>3, <2>4 DEF ListRow
<1>3. \A c \in Codes : rows[c] \in Listed /\ RowOK(rows[c])
  BY <1>1, <1>2 DEF SettingsInit, Listed, RowOK
<1>4. rows \in [Codes -> Listed]
  BY <1>3 DEF SettingsInit
<1>5. NoEditor \in Editors /\ Waiting \in Requests
  BY DEF NoEditor, Waiting, Editors, Requests, OpenOn, Draft, Listed, Verbs
<1>6. TablesOK
  BY <1>3, <1>4, <1>5 DEF SettingsInit, TablesOK
<1>7. ASSUME NEW m \in Managers PROVE ManagerOK(m)
  <2>1. heard[m] = rows /\ editor[m] = NoEditor /\ request[m] = Waiting
    BY DEF SettingsInit
  <2>2. HeardOK(m)
    BY <1>3, <2>1 DEF HeardOK
  <2>3. EditorOK(m)
    BY <2>1 DEF EditorOK, NoEditor, Codes
  <2>4. RequestOK(m) /\ Turn(m)
    BY <2>1 DEF RequestOK, Turn, Waiting
  <2> QED BY <2>2, <2>3, <2>4 DEF ManagerOK
<1> QED BY <1>6, <1>7 DEF SettingsInv

-----------------------------------------------------------------------------
(* The panels. No row changes, and no request.                             *)

LEMMA FreshOK ==
    ASSUME SettingsInv, NEW m \in Managers, NEW c \in Codes, heard[m][c] # NoRow
    PROVE  /\ Fresh(m, c) \in Editors /\ Fresh(m, c).on = c /\ Fresh(m, c).from = c
           /\ Fresh(m, c).details \in Seq(Texts) /\ rows[c] # NoRow
<1>1. heard[m][c] \in ListRow /\ rows[c] # NoRow
  BY DEF SettingsInv, ManagerOK, HeardOK, RowOK, Listed
<1>2. heard[m][c].label \in RowNames /\ heard[m][c].details \in Seq(Texts)
  BY <1>1 DEF ListRow
<1>3. heard[m][c].details \in Draft
  BY <1>2 DEF Draft
<1> QED BY <1>1, <1>2, <1>3 DEF Fresh, Editors, OpenOn

LEMMA PanelKeeps ==
    ASSUME SettingsInv, NEW m \in Managers,
           Hear(m) \/ AddNew(m) \/ Cancel(m) \/ \E c \in Codes : Edit(m, c)
    PROVE  SettingsInv'
<1> USE SettingsAssumption
<1>1. /\ kind' = kind /\ alone' = alone /\ emptied' = emptied /\ rows' = rows
      /\ letters' = letters /\ request' = request
  BY DEF Hear, AddNew, Cancel, Edit, settingsRows
<1>2. TablesOK
  BY DEF SettingsInv
<1>3. ASSUME NEW n \in Managers, heard'[n] = heard[n], editor'[n] = editor[n]
      PROVE  ManagerOK(n)'
  BY <1>1, <1>3, ManagerStays
<1>4. ManagerOK(m)
  BY DEF SettingsInv
<1>5. RequestOK(m)' /\ Turn(m)'
  BY <1>1, <1>4 DEF ManagerOK, RequestOK, SentOK, Ready, DetailsOK, Turn
<1>6. CASE Hear(m)
  <2>1. heard' = [heard EXCEPT ![m] = rows] /\ editor' = editor
    BY <1>6 DEF Hear
  <2>2. TablesOK'
    BY <1>1, <1>2, <2>1 DEF TablesOK, RowOK, DetailsOK
  <2>3. ASSUME NEW n \in Managers \ {m} PROVE ManagerOK(n)'
    BY <1>2, <1>3, <2>1 DEF TablesOK
  <2>4. HeardOK(m)'
    BY <1>1, <1>2, <2>1 DEF TablesOK, HeardOK, RowOK, DetailsOK
  <2>5. EditorOK(m)'
    BY <1>1, <1>4, <2>1 DEF ManagerOK, EditorOK
  <2> QED BY <1>5, <2>2, <2>3, <2>4, <2>5 DEF SettingsInv, ManagerOK
<1>7. ASSUME heard' = heard,
             NEW e, e \in Editors, editor' = [editor EXCEPT ![m] = e],
             kind # "person" => e.from = e.on,
             e.on \in Codes => rows[e.on] # NoRow,
             ~ emptied => e.details \in Seq(Texts) \/ e.details = <<Blank>>
      PROVE  SettingsInv'
  <2>1. TablesOK'
    BY <1>1, <1>2, <1>7 DEF TablesOK, RowOK, DetailsOK
  <2>2. ASSUME NEW n \in Managers \ {m} PROVE ManagerOK(n)'
    BY <1>2, <1>3, <1>7 DEF TablesOK
  <2>3. HeardOK(m)'
    BY <1>1, <1>4, <1>7 DEF ManagerOK, HeardOK, RowOK, DetailsOK
  <2>4. editor'[m] = e
    BY <1>2, <1>7 DEF TablesOK
  <2>5. EditorOK(m)'
    BY <1>1, <1>7, <2>4 DEF EditorOK
  <2> QED BY <1>5, <2>1, <2>2, <2>3, <2>5 DEF SettingsInv, ManagerOK
<1>8. CASE AddNew(m)
  <2> DEFINE e == [on |-> New, from |-> New, label |-> Blank, details |-> <<Blank>>]
  <2>1. e \in Editors
    BY DEF Editors, OpenOn, Draft
  <2>2. e.on = New /\ e.from = New /\ e.details = <<Blank>> /\ New \notin Codes
    BY DEF New, Codes
  <2>3. editor' = [editor EXCEPT ![m] = e] /\ heard' = heard
    BY <1>8 DEF AddNew
  <2> HIDE DEF e
  <2> QED BY <1>7, <2>1, <2>2, <2>3
<1>9. CASE Cancel(m)
  <2>1. NoEditor \in Editors
    BY DEF NoEditor, Editors, OpenOn, Draft
  <2>2. NoEditor.on = NoRow /\ NoEditor.from = NoRow /\ NoEditor.details \in Seq(Texts) /\ NoRow \notin Codes
    BY DEF NoEditor, Codes
  <2>3. editor' = [editor EXCEPT ![m] = NoEditor] /\ heard' = heard
    BY <1>9 DEF Cancel
  <2> QED BY <1>7, <2>1, <2>2, <2>3
<1>10. ASSUME NEW c \in Codes, Edit(m, c) PROVE SettingsInv'
  <2>1. heard[m][c] # NoRow /\ editor' = [editor EXCEPT ![m] = Filled(m, c)] /\ heard' = heard
    BY <1>10 DEF Edit
  <2>2. CASE ~ (kind = "person" /\ editor[m].on # NoRow)
    <3>1. Filled(m, c) = Fresh(m, c)
      BY <2>2 DEF Filled
    <3>2. /\ Fresh(m, c) \in Editors /\ Fresh(m, c).on = c /\ Fresh(m, c).from = c
          /\ Fresh(m, c).details \in Seq(Texts) /\ rows[c] # NoRow
      BY <2>1, FreshOK
    <3>3. editor' = [editor EXCEPT ![m] = Fresh(m, c)] /\ heard' = heard
      BY <2>1, <3>1
    <3> QED BY <1>7, <3>2, <3>3
  <2>3. CASE kind = "person" /\ editor[m].on # NoRow
    <3> DEFINE e == [editor[m] EXCEPT !.on = c]
    <3>1. Filled(m, c) = e
      BY <2>3 DEF Filled
    <3>2. editor[m] \in Editors
      BY <1>2 DEF TablesOK
    <3>3. e \in Editors /\ e.on = c /\ e.details = editor[m].details
      BY <3>2 DEF Editors, OpenOn
    <3>4. rows[c] # NoRow
      BY <2>1, FreshOK
    <3>5. ~ emptied => e.details \in Seq(Texts) \/ e.details = <<Blank>>
      BY <1>4, <3>3 DEF ManagerOK, EditorOK
    <3> HIDE DEF e
    <3> QED BY <1>7, <2>1, <2>3, <3>1, <3>3, <3>4, <3>5
  <2> QED BY <2>2, <2>3
<1> QED BY <1>6, <1>8, <1>9, <1>10

-----------------------------------------------------------------------------
(* Sending, starting and giving up a request. No row changes.              *)

LEMMA RequestKeeps ==
    ASSUME SettingsInv, NEW m \in Managers, NEW asked \in Requests,
           UNCHANGED <<kind, alone, emptied, settingsRows, heard>>,
           editor' \in [Managers -> Editors], \A n \in Managers \ {m} : editor'[n] = editor[n],
           request' = [request EXCEPT ![m] = asked],
           EditorOK(m)', RequestOK(m)', Turn(m)',
           asked.begun /\ alone => \A n \in Managers \ {m} : ~ request[n].begun
    PROVE  SettingsInv'
<1>1. /\ kind' = kind /\ alone' = alone /\ emptied' = emptied /\ rows' = rows
      /\ letters' = letters /\ heard' = heard
  BY DEF settingsRows
<1>2. TablesOK /\ ManagerOK(m)
  BY DEF SettingsInv
<1>3. request'[m] = asked /\ \A n \in Managers \ {m} : request'[n] = request[n]
  BY <1>2 DEF TablesOK
<1>4. TablesOK'
  BY <1>1, <1>2 DEF TablesOK, RowOK, DetailsOK
<1>5. ASSUME NEW n \in Managers \ {m} PROVE ManagerOK(n)'
  <2>1. alone /\ request[n].begun => ~ asked.begun
    OBVIOUS
  <2>2. HeardOK(n)' /\ EditorOK(n)' /\ RequestOK(n)'
    BY <1>1, <1>3 DEF SettingsInv, ManagerOK, HeardOK, EditorOK, RequestOK, RowOK, DetailsOK, SentOK, Ready
  <2>3. Turn(n)
    BY DEF SettingsInv, ManagerOK
  <2>4. ASSUME alone, request[n].begun PROVE \A o \in Managers \ {n} : ~ request'[o].begun
    BY <1>3, <2>1, <2>3, <2>4 DEF Turn
  <2>5. Turn(n)'
    BY <1>1, <1>3, <2>3, <2>4 DEF Turn
  <2> QED BY <2>2, <2>5 DEF ManagerOK
<1>6. ManagerOK(m)'
  BY <1>1, <1>2 DEF ManagerOK, HeardOK, RowOK, DetailsOK
<1> QED BY <1>4, <1>5, <1>6 DEF SettingsInv

\* The same where no form changes.
LEMMA FormlessKeeps ==
    ASSUME SettingsInv, NEW m \in Managers, NEW asked \in Requests,
           UNCHANGED <<kind, alone, emptied, settingsRows, heard, editor>>,
           request' = [request EXCEPT ![m] = asked],
           RequestOK(m)', Turn(m)',
           asked.begun /\ alone => \A n \in Managers \ {m} : ~ request[n].begun
    PROVE  SettingsInv'
<1>1. EditorOK(m)'
  BY DEF SettingsInv, ManagerOK, EditorOK, settingsRows
<1>2. editor' \in [Managers -> Editors] /\ \A n \in Managers \ {m} : editor'[n] = editor[n]
  BY DEF SettingsInv, TablesOK
<1> QED BY <1>1, <1>2, RequestKeeps

\* What may be typed over what a form holds may be sent, if something is typed.
LEMMA TypedMayBeSent ==
    ASSUME NEW m \in Managers, NEW details \in Draft,
           ~ emptied => details \in Seq(Texts) \/ details = <<Blank>>,
           NEW d \in Typed(details), Ready(d)
    PROVE  SentOK(d)
<1>1. CASE kind = "service"
  <2>1. d = details \/ \E n \in Len(details) .. 2 : d \in [1 .. n -> Written]
    BY <1>1 DEF Typed
  <2>2. CASE d = details
    <3>1. ~ Ready(<<Blank>>)
      BY DEF Ready
    <3> QED BY <1>1, <2>2, <3>1 DEF SentOK
  <2>3. ASSUME NEW n \in Len(details) .. 2, d \in [1 .. n -> Written] PROVE SentOK(d)
    <3>1. n \in Nat
      BY DEF Draft
    <3>2. Written \subseteq Texts \cup {Blank} /\ (~ emptied => Written = Texts)
      BY DEF Written
    <3>3. d \in Draft /\ (~ emptied => d \in Seq(Texts))
      BY <2>3, <3>1, <3>2 DEF Draft
    <3> QED BY <1>1, <3>3 DEF SentOK
  <2> QED BY <2>1, <2>2, <2>3
<1>2. CASE kind = "letter"
  <2>1. PICK t \in Texts, u \in Texts : d = <<t, u>>
    BY <1>2 DEF Typed
  <2> QED BY <1>2, <2>1 DEF SentOK, Draft
<1>3. CASE kind # "service" /\ kind # "letter"
  <2>1. PICK t \in Texts : d = <<t>>
    BY <1>3 DEF Typed
  <2> QED BY <1>3, <2>1 DEF SentOK, Draft
<1> QED BY <1>1, <1>2, <1>3

LEMMA RetireKeeps ==
    ASSUME SettingsInv, NEW m \in Managers, NEW c \in Codes,
           Retire(m, c) \/ \E l \in {"en", "ar"} : AskLetter(m, c, l)
    PROVE  SettingsInv'
<1>1. PICK verb \in {"retire", "restore", "letter"}, label \in {Blank, "en", "ar"} :
         /\ verb = "letter" => kind = "letter"
         /\ SendForm(m, [verb |-> verb, code |-> c, label |-> label,
                         details |-> <<>>, base |-> NoRow, begun |-> FALSE])
         /\ UNCHANGED editor /\ heard[m][c] # NoRow
  BY DEF Retire, AskLetter
<1> DEFINE asked == [verb |-> verb, code |-> c, label |-> label,
                     details |-> <<>>, base |-> NoRow, begun |-> FALSE]
<1>2. asked \in Requests
  BY DEF Requests, Verbs, OpenOn, Draft, Listed
<1>3. /\ UNCHANGED <<kind, alone, emptied, settingsRows, heard, editor>>
      /\ request' = [request EXCEPT ![m] = asked] /\ rows' = rows /\ kind' = kind
  BY <1>1 DEF SendForm, settingsRows
<1>4. request'[m] = asked
  BY <1>3 DEF SettingsInv, TablesOK
<1>5. rows[c] # NoRow
  BY <1>1 DEF SettingsInv, ManagerOK, HeardOK
<1>6. RequestOK(m)'
  BY <1>1, <1>3, <1>4, <1>5 DEF RequestOK
<1>7. Turn(m)' /\ ~ asked.begun
  BY <1>4 DEF Turn
<1> HIDE DEF asked
<1> QED BY <1>2, <1>3, <1>6, <1>7, FormlessKeeps

LEMMA SaveFormKeeps == ASSUME SettingsInv, NEW m \in Managers, SaveForm(m) PROVE SettingsInv'
<1> USE SettingsAssumption
<1>1. PICK label \in RowNames, details \in Typed(editor[m].details) :
         /\ editor[m].on # NoRow /\ Ready(details)
         /\ \E c \in IF editor[m].on # New THEN {editor[m].on}
                     ELSE IF kind = "option" THEN Codes ELSE {New} :
               SendForm(m, [verb |-> IF editor[m].on = New THEN "add" ELSE "save", code |-> c,
                        label |-> label, details |-> details, base |-> NoRow, begun |-> FALSE])
         /\ editor' = [editor EXCEPT ![m] = [editor[m] EXCEPT !.label = label, !.details = details]]
  BY DEF SaveForm
<1>2. TablesOK /\ ManagerOK(m) /\ editor[m] \in Editors
  BY DEF SettingsInv, TablesOK
<1>3. /\ editor[m].details \in Draft /\ editor[m].on \in OpenOn
      /\ ~ emptied => editor[m].details \in Seq(Texts) \/ editor[m].details = <<Blank>>
      /\ editor[m].on \in Codes => rows[editor[m].on] # NoRow
      /\ kind # "person" => editor[m].from = editor[m].on
  BY <1>2 DEF Editors, ManagerOK, EditorOK
<1>4. SentOK(details)
  BY <1>1, <1>3, TypedMayBeSent
<1>5. details \in Draft /\ (~ emptied => details \in Seq(Texts))
  BY <1>4 DEF SentOK
<1> DEFINE verb == IF editor[m].on = New THEN "add" ELSE "save"
<1>6. PICK c \in OpenOn :
         /\ SendForm(m, [verb |-> verb, code |-> c,
                        label |-> label, details |-> details, base |-> NoRow, begun |-> FALSE])
         /\ verb = "add" /\ kind = "option" => c \in Codes
         /\ verb = "save" => c = editor[m].on
  BY <1>1, <1>3 DEF OpenOn
<1> DEFINE asked == [verb |-> verb, code |-> c, label |-> label,
                     details |-> details, base |-> NoRow, begun |-> FALSE]
<1>7. verb \in {"add", "save"} /\ (verb = "save" => editor[m].on \in Codes)
  BY <1>1, <1>3 DEF OpenOn
<1> HIDE DEF verb
<1>8. asked \in Requests
  BY <1>5, <1>7 DEF Requests, Verbs, Listed
<1>9. /\ UNCHANGED <<kind, alone, emptied, settingsRows, heard>>
      /\ request' = [request EXCEPT ![m] = asked]
      /\ rows' = rows /\ kind' = kind /\ emptied' = emptied
  BY <1>6 DEF SendForm, settingsRows
<1>10. request'[m] = asked
  BY <1>2, <1>9 DEF TablesOK
<1>11. /\ asked.verb = verb /\ asked.code = c /\ asked.label = label /\ asked.details = details
       /\ ~ asked.begun
  OBVIOUS
<1> HIDE DEF asked
<1>12. SentOK(details)'
  BY <1>4, <1>9 DEF SentOK, Ready
<1>13. RequestOK(m)'
  BY <1>3, <1>6, <1>7, <1>9, <1>10, <1>11, <1>12 DEF RequestOK
<1>14. Turn(m)'
  BY <1>10, <1>11 DEF Turn
<1>15. /\ editor' \in [Managers -> Editors] /\ \A n \in Managers \ {m} : editor'[n] = editor[n]
       /\ editor'[m].on = editor[m].on /\ editor'[m].from = editor[m].from
       /\ editor'[m].details = details
  <2> DEFINE e == [on |-> editor[m].on, from |-> editor[m].from, label |-> label, details |-> details]
  <2>1. editor' = [editor EXCEPT ![m] = e]
    <3>1. [editor[m] EXCEPT !.label = label, !.details = details] = e
      <4> DEFINE named == [editor[m] EXCEPT !.label = label]
      <4>1. named = [on |-> editor[m].on, from |-> editor[m].from,
                     label |-> label, details |-> editor[m].details]
        BY <1>2 DEF Editors
      <4>2. [editor[m] EXCEPT !.label = label, !.details = details] = [named EXCEPT !.details = details]
        OBVIOUS
      <4> HIDE DEF named
      <4>3. [named EXCEPT !.details = details] = e
        BY <4>1
      <4> QED BY <4>2, <4>3
    <3> QED BY <1>1, <3>1
  <2>2. e \in Editors
    BY <1>2, <1>5 DEF Editors
  <2>3. e.on = editor[m].on /\ e.from = editor[m].from /\ e.details = details
    OBVIOUS
  <2> HIDE DEF e
  <2> QED BY <1>2, <2>1, <2>2, <2>3 DEF TablesOK
<1>16. EditorOK(m)'
  BY <1>3, <1>5, <1>9, <1>15 DEF EditorOK
<1> QED BY <1>8, <1>9, <1>11, <1>13, <1>14, <1>15, <1>16, RequestKeeps

\* There is a first code nobody uses while not all are used.
LEMMA FirstFreeIs == ASSUME Taken # Codes PROVE FirstFree \in Codes /\ rows[FirstFree] = NoRow
<1> DEFINE Free == Codes \ Taken
<1>1. Free # {} /\ Free \subseteq Nat
  BY SettingsAssumption DEF Taken, Known, Codes
<1>2. PICK c \in Free : \A d \in Free : ~ (<<d, c>> \in OpToRel(<, Nat))
  BY <1>1, NatLessThanWellFounded, WFMin, Zenon
<1>3. ASSUME NEW d \in Free PROVE c <= d
  <2>1. c \in Nat /\ d \in Nat /\ ~ (<<d, c>> \in OpToRel(<, Nat))
    BY <1>1, <1>2, <1>3
  <2> QED BY <2>1 DEF OpToRel
<1>4. FirstFree \in Free
  BY <1>2, <1>3, Zenon DEF FirstFree
<1> QED BY <1>4 DEF Taken, Known

LEMMA BeginKeeps ==
    ASSUME SettingsInv, NEW m \in Managers, ReadCodes(m) \/ ReadRow(m)
    PROVE  SettingsInv'
<1>1. PICK asked : /\ Begin(m, asked)
                   /\ \/ /\ request[m].verb = "add" /\ kind # "option" /\ Taken # Codes
                         /\ asked = [request[m] EXCEPT !.code = FirstFree]
                      \/ /\ request[m].verb # "add" \/ kind = "option"
                         /\ asked = [request[m] EXCEPT !.base = rows[request[m].code]]
  BY DEF ReadCodes, ReadRow
<1>2. TablesOK /\ RequestOK(m) /\ request[m] \in Requests
  BY DEF SettingsInv, ManagerOK, TablesOK
<1> DEFINE begun == [asked EXCEPT !.begun = TRUE]
<1>3. /\ request[m].verb \notin {"none", "letter"}
      /\ alone => \A n \in Managers \ {m} : ~ request[n].begun
      /\ Accepts(request[m])
      /\ request' = [request EXCEPT ![m] = begun]
      /\ UNCHANGED <<kind, alone, emptied, settingsRows, heard, editor>>
      /\ rows' = rows /\ kind' = kind /\ emptied' = emptied /\ alone' = alone
  BY <1>1 DEF Begin, NobodyElse, settingsRows
<1>4. request[m].verb \in {"add", "save", "retire", "restore"}
  BY <1>2, <1>3 DEF Requests, Verbs
<1>5. /\ begun \in Requests /\ begun.verb = request[m].verb /\ begun.begun
      /\ begun.details = request[m].details /\ begun.label = request[m].label
      /\ request[m].verb = "add" => begun.code \in Codes
      /\ request[m].verb # "add" => begun.code = request[m].code /\ begun.base = rows[begun.code]
      /\ request[m].verb = "add" /\ kind # "option" => rows[begun.code] = NoRow
  <2>1. CASE request[m].verb = "add" /\ kind # "option"
    <3>1. FirstFree \in Codes /\ rows[FirstFree] = NoRow
      BY <1>1, <2>1, FirstFreeIs
    <3>2. asked = [request[m] EXCEPT !.code = FirstFree]
      BY <1>1, <2>1
    <3>3. FirstFree \in OpenOn
      BY <3>1 DEF OpenOn
    <3> QED BY <1>2, <2>1, <3>1, <3>2, <3>3 DEF Requests
  <2>2. CASE request[m].verb # "add" \/ kind = "option"
    <3>1. request[m].code \in Codes
      BY <1>2, <1>4, <2>2 DEF RequestOK
    <3>2. rows[request[m].code] \in Listed
      BY <1>2, <3>1 DEF TablesOK
    <3>3. asked = [request[m] EXCEPT !.base = rows[request[m].code]]
      BY <1>1, <2>2
    <3> QED BY <1>2, <2>2, <3>1, <3>2, <3>3 DEF Requests
  <2> QED BY <2>1, <2>2
<1> HIDE DEF begun
<1>6. request'[m] = begun
  BY <1>2, <1>3 DEF TablesOK
<1>7. request[m].verb # "add" =>
         /\ request[m].code \in Codes /\ rows[request[m].code] # NoRow
         /\ DetailsOK(rows[request[m].code].details)
  BY <1>2, <1>4 DEF RequestOK, TablesOK, RowOK
<1>8. request[m].verb \in {"add", "save"} => request[m].label \in RowNames /\ SentOK(request[m].details)
  BY <1>2 DEF RequestOK
<1>9. RequestOK(m)'
  <2>1. begun.verb \in {"add", "save"} => begun.label \in RowNames /\ SentOK(begun.details)'
    BY <1>3, <1>5, <1>8 DEF SentOK, Ready
  <2>2. begun.verb # "add" => begun.base # NoRow /\ DetailsOK(begun.base.details)'
    BY <1>3, <1>5, <1>7 DEF DetailsOK
  <2> QED BY <1>3, <1>4, <1>5, <1>6, <1>7, <2>1, <2>2 DEF RequestOK
<1>10. Turn(m)'
  <2>1. alone => \A n \in Managers \ {m} : ~ request'[n].begun
    BY <1>2, <1>3 DEF TablesOK
  <2>2. request[m].verb = "save" /\ kind = "service" =>
           Len(request[m].details) >= Len(rows[request[m].code].details)
    BY <1>3 DEF Accepts
  <2> QED BY <1>3, <1>5, <1>6, <2>1, <2>2 DEF Turn
<1> QED BY <1>3, <1>5, <1>9, <1>10, FormlessKeeps

LEMMA RefuseKeeps == ASSUME SettingsInv, NEW m \in Managers, Refuse(m) PROVE SettingsInv'
<1>1. Waiting \in Requests /\ Waiting.verb = "none" /\ ~ Waiting.begun
  BY DEF Waiting, Requests, OpenOn, Draft, Listed, Verbs
<1>2. /\ UNCHANGED <<kind, alone, emptied, settingsRows, heard, editor>>
      /\ request' = [request EXCEPT ![m] = Waiting]
  BY DEF Refuse
<1>3. request'[m] = Waiting
  BY <1>2 DEF SettingsInv, TablesOK
<1>4. RequestOK(m)' /\ Turn(m)'
  BY <1>1, <1>3 DEF RequestOK, Turn
<1> QED BY <1>1, <1>2, <1>4, FormlessKeeps

-----------------------------------------------------------------------------
(* Writing a row.                                                          *)

LEMMA DefinedOK ==
    ASSUME NEW d, SentOK(d) \/ DetailsOK(d)
    PROVE  DetailsOK(Defined(d)) /\ (d \in Seq(Texts) => Len(Defined(d)) = Len(d))
<1>1. d \in Draft
  BY DEF SentOK, DetailsOK, Draft
<1>2. d # <<>>
  BY DEF SentOK, Ready, DetailsOK
<1>3. CASE d \in Seq(Texts)
  <2>1. Defined(d) \in Seq(Texts) /\ Len(Defined(d)) = Len(d)
    BY <1>1, <1>3, DefinedIs
  <2>2. Len(d) # 0
    BY <1>2, <1>3
  <2>3. Defined(d) # <<>>
    BY <2>1, <2>2
  <2>4. kind = "letter" => Len(d) = 2
    BY DEF SentOK, DetailsOK
  <2> QED BY <2>1, <2>3, <2>4 DEF DetailsOK
<1>4. CASE d \notin Seq(Texts)
  <2>1. SentOK(d) /\ kind = "service"
    BY <1>4 DEF SentOK, DetailsOK
  <2>2. Defined(d) \in Seq(Texts) /\ Defined(d) # <<>>
    BY <1>1, <2>1, DefinedIs DEF SentOK
  <2> QED BY <1>4, <2>1, <2>2 DEF DetailsOK
<1> QED BY <1>3, <1>4

\* What a request writes.
Writes(m) == IF request[m].verb = "add" THEN Added(request[m]) ELSE Merged(request[m])

LEMMA CommitWrites ==
    ASSUME SettingsInv, NEW m \in Managers, Commit(m)
    PROVE  /\ request[m].code \in Codes
           /\ request[m].verb \in {"add", "save", "retire", "restore"}
           /\ request[m].verb = "add" => rows[request[m].code] = NoRow
           /\ request[m].verb # "add" =>
                 rows[request[m].code] # NoRow /\ Writes(m).retired = RetiredNow(request[m])
           /\ Writes(m) \in ListRow /\ DetailsOK(Writes(m).details)
           /\ kind = "service" /\ alone /\ ~ emptied /\ request[m].verb # "add" =>
                 Len(Writes(m).details) >= Len(rows[request[m].code].details)
<1> DEFINE asked == request[m]
<1>1. TablesOK /\ RequestOK(m) /\ Turn(m) /\ asked \in Requests
  BY DEF SettingsInv, ManagerOK, TablesOK
<1>2. asked.begun /\ KeyAllows(asked)
  BY DEF Commit
<1>3. asked.verb \in {"add", "save", "retire", "restore"}
  BY <1>1, <1>2 DEF RequestOK
<1>4. /\ asked.code \in Codes
      /\ asked.verb = "add" => rows[asked.code] = NoRow
      /\ asked.verb # "add" => rows[asked.code] # NoRow
  BY <1>1, <1>2, <1>3 DEF RequestOK, KeyAllows
<1>5. CASE asked.verb = "add"
  <2>1. asked.label \in RowNames /\ SentOK(asked.details)
    BY <1>1, <1>5 DEF RequestOK
  <2>2. DetailsOK(Defined(asked.details))
    BY <2>1, DefinedOK
  <2>3. Defined(asked.details) \in Seq(Texts)
    BY <2>2 DEF DetailsOK
  <2>4. Writes(m) = [label |-> asked.label, details |-> Defined(asked.details), retired |-> FALSE]
    BY <1>5 DEF Writes, Added
  <2> HIDE DEF asked
  <2>5. Writes(m) \in ListRow /\ Writes(m).details = Defined(asked.details)
    BY <2>1, <2>3, <2>4 DEF ListRow
  <2> QED BY <1>3, <1>4, <1>5, <2>2, <2>5 DEF asked
<1>6. CASE asked.verb # "add"
  <2> DEFINE base == IF kind = "option" THEN rows[asked.code] ELSE asked.base
             sent == IF asked.verb = "save" THEN asked ELSE base
  <2>1. Writes(m) = [label |-> sent.label, details |-> Defined(sent.details), retired |-> RetiredNow(asked)]
    BY <1>6 DEF Writes, Merged
  <2>2. rows[asked.code] \in ListRow /\ DetailsOK(rows[asked.code].details)
    BY <1>1, <1>4, <1>6 DEF TablesOK, RowOK, Listed
  <2>3. asked.base \in ListRow /\ DetailsOK(asked.base.details)
    BY <1>1, <1>2, <1>6 DEF RequestOK, Requests, Listed
  <2>4. base \in ListRow /\ DetailsOK(base.details)
    BY <2>2, <2>3
  <2>5. asked.verb = "save" => asked.label \in RowNames /\ SentOK(asked.details)
    BY <1>1 DEF RequestOK
  <2> HIDE DEF base
  <2>6. sent.label \in RowNames /\ (SentOK(sent.details) \/ DetailsOK(sent.details))
    BY <2>4, <2>5 DEF ListRow
  <2>7. DetailsOK(Defined(sent.details))
        /\ (sent.details \in Seq(Texts) => Len(Defined(sent.details)) = Len(sent.details))
    BY <2>6, DefinedOK
  <2>8. RetiredNow(asked) \in BOOLEAN
    BY <2>2, <2>3 DEF RetiredNow, RetiredBase, ListRow
  <2>9. Defined(sent.details) \in Seq(Texts)
    BY <2>7 DEF DetailsOK
  <2>10. ASSUME kind = "service", alone, ~ emptied
         PROVE  Len(Defined(sent.details)) >= Len(rows[asked.code].details)
    <3>1. base = rows[asked.code]
      BY <1>1, <1>2, <1>6, <2>10 DEF base, Turn
    <3>2. sent.details \in Seq(Texts)
      BY <2>4, <2>5, <2>10 DEF SentOK, DetailsOK
    <3>3. Len(sent.details) >= Len(rows[asked.code].details)
      <4>1. CASE asked.verb = "save"
        BY <1>1, <1>2, <2>10, <4>1 DEF Turn
      <4>2. CASE asked.verb # "save"
        <5>1. Len(rows[asked.code].details) \in Nat
          BY <2>2 DEF DetailsOK
        <5> QED BY <3>1, <4>2, <5>1
      <4> QED BY <4>1, <4>2
    <3> QED BY <2>7, <3>2, <3>3
  <2> HIDE DEF sent
  <2>11. /\ Writes(m) \in ListRow /\ Writes(m).details = Defined(sent.details)
         /\ Writes(m).retired = RetiredNow(asked)
    BY <2>1, <2>6, <2>8, <2>9 DEF ListRow
  <2> QED BY <1>3, <1>4, <1>6, <2>7, <2>10, <2>11
<1> QED BY <1>5, <1>6

LEMMA CommitKeeps == ASSUME SettingsInv, NEW m \in Managers, Commit(m) PROVE SettingsInv'
<1> USE SettingsAssumption
<1> DEFINE c == request[m].code
<1>1. /\ kind' = kind /\ alone' = alone /\ emptied' = emptied /\ letters' = letters
      /\ rows' = [rows EXCEPT ![c] = Writes(m)]
      /\ request' = [request EXCEPT ![m] = Waiting]
      /\ heard' = [heard EXCEPT ![m] = rows']
      /\ editor' = [editor EXCEPT ![m] =
                       IF request[m].verb \in {"add", "save"} THEN NoEditor ELSE editor[m]]
      /\ request[m].begun
  BY DEF Commit, Writes
<1>2. c \in Codes /\ Writes(m) \in ListRow /\ DetailsOK(Writes(m).details)
  BY CommitWrites
<1>3. TablesOK /\ ManagerOK(m)
  BY DEF SettingsInv
<1>4. /\ rows' \in [Codes -> Listed] /\ rows'[c] = Writes(m) /\ Writes(m) # NoRow
      /\ \A d \in Codes \ {c} : rows'[d] = rows[d]
  BY <1>1, <1>2, <1>3 DEF TablesOK, Listed
<1>5. \A d \in Codes : RowOK(rows'[d])
  BY <1>2, <1>3, <1>4 DEF TablesOK, RowOK, Listed
<1>6. \A d \in Codes : rows[d] # NoRow => rows'[d] # NoRow
  BY <1>4
<1>7. NoEditor \in Editors /\ Waiting \in Requests
  BY DEF NoEditor, Waiting, Editors, Requests, OpenOn, Draft, Listed, Verbs
<1>8. TablesOK'
  <2>1. \A r : RowOK(r)' <=> RowOK(r)
    BY <1>1 DEF RowOK, DetailsOK
  <2>2. heard' \in [Managers -> [Codes -> Listed]]
    BY <1>1, <1>3, <1>4 DEF TablesOK
  <2>3. editor' \in [Managers -> Editors]
    BY <1>1, <1>3, <1>7 DEF TablesOK
  <2>4. request' \in [Managers -> Requests]
    BY <1>1, <1>3, <1>7 DEF TablesOK
  <2>5. \A d \in Codes : RowOK(rows[d])'
    BY <1>1, <1>5 DEF RowOK, DetailsOK
  <2> QED BY <1>1, <1>3, <1>4, <2>2, <2>3, <2>4, <2>5 DEF TablesOK
<1>9. /\ heard'[m] = rows' /\ request'[m] = Waiting
      /\ editor'[m] = IF request[m].verb \in {"add", "save"} THEN NoEditor ELSE editor[m]
  BY <1>1, <1>3 DEF TablesOK
<1>10. ManagerOK(m)'
  <2>1. HeardOK(m)'
    BY <1>1, <1>5, <1>9 DEF HeardOK, RowOK, DetailsOK
  <2>2. NoEditor.on = NoRow /\ NoEditor.from = NoRow /\ NoEditor.details \in Seq(Texts) /\ NoRow \notin Codes
    BY DEF NoEditor, Codes
  <2>3. EditorOK(m)'
    <3>1. CASE request[m].verb \in {"add", "save"}
      BY <1>1, <1>9, <2>2, <3>1 DEF EditorOK
    <3>2. CASE request[m].verb \notin {"add", "save"}
      BY <1>1, <1>3, <1>6, <1>9, <3>2 DEF EditorOK, ManagerOK
    <3> QED BY <3>1, <3>2
  <2>4. RequestOK(m)' /\ Turn(m)'
    BY <1>9 DEF RequestOK, Turn, Waiting
  <2> QED BY <2>1, <2>3, <2>4 DEF ManagerOK
<1>11. ASSUME NEW n \in Managers \ {m} PROVE ManagerOK(n)'
  <2>1. ManagerOK(n) /\ heard'[n] = heard[n] /\ editor'[n] = editor[n] /\ request'[n] = request[n]
    BY <1>1, <1>3 DEF SettingsInv, TablesOK
  <2>2. HeardOK(n)'
    BY <1>1, <1>6, <2>1 DEF ManagerOK, HeardOK, RowOK, DetailsOK
  <2>3. EditorOK(n)'
    BY <1>1, <1>6, <2>1 DEF ManagerOK, EditorOK
  <2>4. RequestOK(n)'
    BY <1>1, <1>6, <2>1 DEF ManagerOK, RequestOK, DetailsOK, SentOK, Ready
  <2>5. Turn(n)'
    BY <1>1, <1>3, <2>1 DEF ManagerOK, Turn
  <2> QED BY <2>2, <2>3, <2>4, <2>5 DEF ManagerOK
<1> QED BY <1>8, <1>10, <1>11 DEF SettingsInv

\* A letter is told of the facts missing from it.
LEMMA LetterKeeps == ASSUME SettingsInv, NEW m \in Managers, WriteLetter(m) PROVE SettingsInv'
<1> DEFINE row == rows[request[m].code]
           body == Body(row, request[m].label)
           letter == [asked |-> Asks[body], gaps |-> Asks[body] \ known,
                      told |-> Needed(row, request[m].label) \ known]
<1>1. TablesOK /\ RequestOK(m) /\ request[m].verb = "letter"
  BY DEF SettingsInv, ManagerOK, WriteLetter
<1>2. row \in ListRow /\ DetailsOK(row.details) /\ kind = "letter"
  BY <1>1 DEF RequestOK, TablesOK, RowOK, Listed
<1>3. row.details[1] \in Texts /\ row.details[2] \in Texts
  <2>1. row.details \in Seq(Texts) /\ Len(row.details) = 2
    BY <1>2 DEF DetailsOK
  <2> HIDE DEF row
  <2> QED BY <2>1
<1>4. Asks[body] \in SUBSET Facts
  <2>1. body \in Texts
    BY <1>3 DEF Body
  <2> HIDE DEF body
  <2> QED BY <2>1, SettingsAssumption
<1>5. Needed(row, request[m].label) = Asks[body]
  BY DEF Needed
<1>6. letter \in [asked : SUBSET Facts, gaps : SUBSET Facts, told : SUBSET Facts] /\ letter.gaps = letter.told
  <2> HIDE DEF body
  <2> QED BY <1>4, <1>5
<1>7. Waiting \in Requests /\ Waiting.verb = "none" /\ ~ Waiting.begun
  BY DEF Waiting, Requests, OpenOn, Draft, Listed, Verbs
<1>8. /\ letters' = letters \cup {letter} /\ request' = [request EXCEPT ![m] = Waiting]
      /\ kind' = kind /\ alone' = alone /\ emptied' = emptied /\ rows' = rows
      /\ heard' = heard /\ editor' = editor
  BY DEF WriteLetter
<1> HIDE DEF letter
<1>9. TablesOK'
  <2>1. request' \in [Managers -> Requests]
    BY <1>1, <1>7, <1>8 DEF TablesOK
  <2> QED BY <1>1, <1>6, <1>8, <2>1 DEF TablesOK, RowOK, DetailsOK
<1>10. ManagerOK(m)'
  <2>1. request'[m] = Waiting
    BY <1>1, <1>8 DEF TablesOK
  <2>2. RequestOK(m)' /\ Turn(m)'
    BY <1>7, <2>1 DEF RequestOK, Turn
  <2>3. HeardOK(m)' /\ EditorOK(m)'
    BY <1>8 DEF SettingsInv, ManagerOK, HeardOK, EditorOK, RowOK, DetailsOK
  <2> QED BY <2>2, <2>3 DEF ManagerOK
<1>11. ASSUME NEW n \in Managers \ {m} PROVE ManagerOK(n)'
  <2>1. request'[n] = request[n]
    BY <1>1, <1>8 DEF TablesOK
  <2>2. \A o \in Managers \ {n} : request'[o].begun => request[o].begun
    BY <1>1, <1>7, <1>8 DEF TablesOK
  <2> QED BY <1>8, <2>1, <2>2, ManagerStays
<1> QED BY <1>9, <1>10, <1>11 DEF SettingsInv

LEMMA ElsewhereKeeps ==
    ASSUME SettingsInv,
           UNCHANGED <<kind, alone, emptied, rows, letters, heard, editor, request>>
    PROVE  SettingsInv'
<1>1. TablesOK'
  BY DEF SettingsInv, TablesOK, RowOK, DetailsOK
<1>2. ASSUME NEW m \in Managers PROVE ManagerOK(m)'
  BY ManagerStays
<1> QED BY <1>1, <1>2 DEF SettingsInv

LEMMA SettingsGoOn == SettingsInv /\ [SettingsNext]_settingsVars => SettingsInv'
<1> SUFFICES ASSUME SettingsInv, [SettingsNext]_settingsVars PROVE SettingsInv'
  OBVIOUS
<1>1. ASSUME NEW m \in Managers, Hear(m) \/ AddNew(m) \/ Cancel(m) \/ \E c \in Codes : Edit(m, c)
      PROVE  SettingsInv'
  BY <1>1, PanelKeeps
<1>2. ASSUME NEW m \in Managers, SaveForm(m) PROVE SettingsInv'
  BY <1>2, SaveFormKeeps
<1>3. ASSUME NEW m \in Managers, ReadCodes(m) \/ ReadRow(m) PROVE SettingsInv'
  BY <1>3, BeginKeeps
<1>4. ASSUME NEW m \in Managers, Refuse(m) PROVE SettingsInv'
  BY <1>4, RefuseKeeps
<1>5. ASSUME NEW m \in Managers, Commit(m) PROVE SettingsInv'
  BY <1>5, CommitKeeps
<1>6. ASSUME NEW m \in Managers, WriteLetter(m) PROVE SettingsInv'
  BY <1>6, LetterKeeps
<1>7. ASSUME NEW m \in Managers, NEW c \in Codes,
             Retire(m, c) \/ \E l \in {"en", "ar"} : AskLetter(m, c, l)
      PROVE  SettingsInv'
  BY <1>7, RetireKeeps
<1>8. ASSUME TypeRetires \/ \E f \in Facts : Learn(f) PROVE SettingsInv'
  <2>1. UNCHANGED <<kind, alone, emptied, rows, letters, heard, editor, request>>
    BY <1>8 DEF TypeRetires, Learn
  <2> QED BY <2>1, ElsewhereKeeps
<1>9. CASE UNCHANGED settingsVars
  BY <1>9, ElsewhereKeeps DEF settingsVars, settingsRows
<1> QED BY <1>1, <1>2, <1>3, <1>4, <1>5, <1>6, <1>7, <1>8, <1>9 DEF SettingsNext

-----------------------------------------------------------------------------
(* What it says of every state, and of every step.                         *)

LEMMA SettingsShow == SettingsInv => SettingsTypeOK /\ FormsShowTheirRow /\ NewCodesFree /\ GapsAreTold
<1> SUFFICES ASSUME SettingsInv PROVE SettingsTypeOK /\ FormsShowTheirRow /\ NewCodesFree /\ GapsAreTold
  OBVIOUS
<1>1. TablesOK
  BY DEF SettingsInv
<1>2. SettingsTypeOK
  <2>1. ASSUME NEW c \in Known PROVE rows[c].retired \in BOOLEAN /\ rows[c].details # <<>>
    <3>1. rows[c] \in ListRow /\ DetailsOK(rows[c].details)
      BY <1>1 DEF TablesOK, RowOK, Listed, Known
    <3> QED BY <3>1 DEF ListRow, DetailsOK
  <2>2. letters \subseteq [asked : SUBSET Facts, gaps : SUBSET Facts, told : SUBSET Facts]
    BY <1>1 DEF TablesOK
  <2> QED BY <1>1, <2>1, <2>2 DEF SettingsTypeOK, TablesOK
<1>3. FormsShowTheirRow
  BY DEF FormsShowTheirRow, SettingsInv, ManagerOK, EditorOK
<1>4. NewCodesFree
  BY DEF NewCodesFree, KeyAllows, SettingsInv, ManagerOK, Turn
<1>5. GapsAreTold
  BY <1>1 DEF GapsAreTold, TablesOK
<1> QED BY <1>2, <1>3, <1>4, <1>5

ComesBack ==
    \A c \in Codes :
          /\ rows[c] # NoRow /\ rows'[c] # rows[c]
          /\ rows[c].retired /\ ~ rows'[c].retired
          /\ alone \/ kind \in {"branch", "option"}
          => \E m \in Managers : /\ request[m].verb = "restore" /\ request[m].code = c
                                 /\ request'[m] = Waiting

StepsLeft ==
    kind = "service" /\ alone /\ ~ emptied =>
          \A c \in Known : Len(rows'[c].details) >= Len(rows[c].details)

AddedApart ==
    \A c \in Known, m \in Managers :
          request[m].verb = "add" /\ request'[m] = Waiting
          => rows'[c] = rows[c]

\* Only what is committed changes a row, and only the row asked for.
LEMMA CommitMoves ==
    ASSUME SettingsInv, NEW m \in Managers, Commit(m)
    PROVE  ComesBack /\ StepsLeft /\ AddedApart
<1> DEFINE c == request[m].code
<1>1. /\ rows' = [rows EXCEPT ![c] = Writes(m)] /\ request' = [request EXCEPT ![m] = Waiting]
      /\ request[m].begun
  BY DEF Commit, Writes
<1>2. /\ c \in Codes /\ request[m].verb \in {"add", "save", "retire", "restore"}
      /\ request[m].verb = "add" => rows[c] = NoRow
      /\ request[m].verb # "add" => rows[c] # NoRow /\ Writes(m).retired = RetiredNow(request[m])
      /\ kind = "service" /\ alone /\ ~ emptied /\ request[m].verb # "add" =>
            Len(Writes(m).details) >= Len(rows[c].details)
  BY CommitWrites
<1>3. TablesOK /\ Turn(m)
  BY DEF SettingsInv, ManagerOK
<1>4. /\ rows'[c] = Writes(m) /\ \A d \in Codes \ {c} : rows'[d] = rows[d]
      /\ request'[m] = Waiting /\ \A n \in Managers \ {m} : request'[n] = request[n]
  BY <1>1, <1>2, <1>3 DEF TablesOK
<1>5. ComesBack
  <2> SUFFICES ASSUME NEW d \in Codes,
                      rows[d] # NoRow, rows'[d] # rows[d], rows[d].retired, ~ rows'[d].retired,
                      alone \/ kind \in {"branch", "option"}
               PROVE  \E n \in Managers : /\ request[n].verb = "restore" /\ request[n].code = d
                                          /\ request'[n] = Waiting
    BY DEF ComesBack
  <2>1. d = c
    BY <1>4
  <2>2. request[m].verb # "add" /\ ~ RetiredNow(request[m])
    BY <1>2, <1>4, <2>1
  <2>3. request[m].verb # "save"
    <3> SUFFICES ASSUME request[m].verb = "save" PROVE FALSE
      OBVIOUS
    <3>1. RetiredNow(request[m]) = RetiredBase(request[m])
      BY DEF RetiredNow
    <3>2. RetiredBase(request[m]) = rows[c].retired
      BY <1>1, <1>3 DEF RetiredBase, Turn
    <3> QED BY <2>1, <2>2, <3>1, <3>2
  <2>4. request[m].verb # "retire"
    BY <2>2 DEF RetiredNow
  <2>5. request[m].verb = "restore"
    BY <1>2, <2>2, <2>3, <2>4
  <2> QED BY <1>4, <2>1, <2>5
<1>6. StepsLeft
  <2> SUFFICES ASSUME kind = "service", alone, ~ emptied, NEW d \in Known
               PROVE  Len(rows'[d].details) >= Len(rows[d].details)
    BY DEF StepsLeft
  <2>1. d \in Codes /\ rows[d] # NoRow
    BY DEF Known
  <2>2. CASE d = c
    BY <1>2, <1>4, <2>1, <2>2
  <2>3. CASE d # c
    <3>1. DetailsOK(rows[d].details)
      BY <1>3, <2>1 DEF TablesOK, RowOK
    <3>2. Len(rows[d].details) \in Nat
      BY <3>1 DEF DetailsOK
    <3> QED BY <1>4, <2>1, <2>3, <3>2
  <2> QED BY <2>2, <2>3
<1>7. AddedApart
  <2> SUFFICES ASSUME NEW d \in Known, NEW n \in Managers,
                      request[n].verb = "add", request'[n] = Waiting
               PROVE  rows'[d] = rows[d]
    BY DEF AddedApart
  <2>1. n = m
    BY <1>4 DEF Waiting
  <2> QED BY <1>2, <1>4, <2>1 DEF Known
<1> QED BY <1>5, <1>6, <1>7

LEMMA SettingsMove == SettingsInv /\ [SettingsNext]_settingsVars => ComesBack /\ StepsLeft /\ AddedApart
<1> SUFFICES ASSUME SettingsInv, [SettingsNext]_settingsVars PROVE ComesBack /\ StepsLeft /\ AddedApart
  OBVIOUS
<1>1. ASSUME NEW m \in Managers, Commit(m) PROVE ComesBack /\ StepsLeft /\ AddedApart
  BY <1>1, CommitMoves
<1>2. CASE rows' = rows
  <2>1. ASSUME NEW c \in Known PROVE Len(rows[c].details) \in Nat
    <3>1. DetailsOK(rows[c].details)
      BY DEF SettingsInv, TablesOK, RowOK, Known
    <3> QED BY <3>1 DEF DetailsOK
  <2>2. StepsLeft
    BY <1>2, <2>1 DEF StepsLeft
  <2> QED BY <1>2, <2>2 DEF ComesBack, AddedApart
<1>3. ASSUME ~ (\E m \in Managers : Commit(m)) PROVE rows' = rows
  BY <1>3 DEF SettingsNext, settingsVars, settingsRows, Hear, AddNew, Cancel, SaveForm, ReadCodes,
              ReadRow, Begin, Refuse, WriteLetter, Edit, Retire, AskLetter, SendForm, TypeRetires, Learn
<1> QED BY <1>1, <1>2, <1>3

\* For any managers, kinds of lists, names, texts and facts: no form saves one row's
\* values over another's but the staff page's, a new row takes no code in use and
\* replaces none, a retired row comes back only if restored, no step of a service
\* goes, and who is handed a letter is told what is missing from it.
THEOREM SettingsHoldForAny == SettingsSpec => SettingsHold
<1>1. SettingsSpec => []SettingsInv
  BY SettingsStart, SettingsGoOn, PTL DEF SettingsSpec
<1>2. SettingsInv /\ [SettingsNext]_settingsVars =>
         [ComesBack]_settingsVars /\ [StepsLeft]_settingsVars /\ [AddedApart]_settingsVars
  BY SettingsMove
<1>3. RetirementStands <=> [][ComesBack]_settingsVars
  BY PTL DEF RetirementStands, ComesBack
<1>4. StepsStay <=> [][StepsLeft]_settingsVars
  BY PTL DEF StepsStay, StepsLeft
<1>5. NothingOverwritten <=> [][AddedApart]_settingsVars
  BY PTL DEF NothingOverwritten, AddedApart
<1> QED BY <1>1, <1>2, <1>3, <1>4, <1>5, SettingsShow, PTL DEF SettingsSpec, SettingsHold
=============================================================================
