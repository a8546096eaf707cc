----------------------------- MODULE TimerProofs -----------------------------
(***************************************************************************)
(* Theorems about Timer for any projects, loops, taps, time and failures.  *)
(***************************************************************************)
EXTENDS Timer, WellFoundedInduction, TLAPS

USE TimerAssumption DEF person, row, record, span, Goto, NotHeld

-----------------------------------------------------------------------------
(* The inductive invariant for any number of loops.                        *)

\* Taps are in the order of their instants, none of them in the future, and a
\* start names its project.
TapsOK ==
    \A n \in TapNumbers :
        /\ taps[n].at <= now
        /\ taps[n].action = "start" => taps[n].project \in Projects
        /\ \A m \in TapNumbers : m <= n => taps[m].at <= taps[n].at

\* A loop at work on a request has a tap it sent, and the request is the one
\* the tap asks for.  The span in its hands is not upside down, nor in the
\* future.
AtWork(d) ==
    /\ pc[d] = "idle" => todo[d] = {}
    /\ pc[d] \notin {"idle", "sending"} => todo[d] # {}
    /\ pc[d] = "starting" => Sent(d).action = "start"
    /\ pc[d] \in Actions => Sent(d).action = pc[d]
    /\ pc[d] = "clearing" => Sent(d).action \in {"start", "stop"}
    /\ pc[d] = "saving" => Sent(d).action \in {"hold", "resume"}
    /\ pc[d] \in {"clearing", "recording", "saving"} => of[d] \in Projects
    /\ from[d] <= to[d]
    /\ to[d] <= now

LoopOK == \A d \in Drains : AtWork(d)

\* The row says nothing of the future.
RowOK == start <= now /\ held <= now

TInv == TypeOK /\ TapsOK /\ LoopOK /\ RowOK

-----------------------------------------------------------------------------
(* The type invariant, in parts that change together.                      *)

PersonType ==
    /\ now \in Time
    /\ doing \in Projects \cup {None}
    /\ paused \in BOOLEAN
    /\ worked \in [Units -> Projects \cup {None}]
    /\ taps \in Seq(TapRecords)
    /\ waiting \subseteq TapNumbers

RowType ==
    /\ running \in Projects \cup {None}
    /\ start \in Time
    /\ seen \in Time
    /\ held \in Time \cup {NotHeld}
    /\ seen >= start
    /\ held # NotHeld => held >= start

RecordType ==
    /\ booked \subseteq Projects \X Units
    /\ twice \subseteq Units
    /\ trimmed \subseteq Units
    /\ lost \subseteq Units
    /\ faults \in 0 .. MaxFaults

LoopType ==
    /\ pc \in [Drains -> Labels]
    /\ todo \in [Drains -> SUBSET TapNumbers]
    /\ of \in [Drains -> Projects \cup {None}]
    /\ from \in [Drains -> Time]
    /\ to \in [Drains -> Time]

\* The parts are the whole.
LEMMA TypeParts == TypeOK <=> PersonType /\ RowType /\ RecordType /\ LoopType
BY DEF TypeOK, PersonType, RowType, RecordType, LoopType

\* The same of the next state.
LEMMA TypePartsNext ==
    TypeOK' <=> PersonType' /\ RowType' /\ RecordType' /\ LoopType'
BY DEF TypeOK, PersonType, RowType, RecordType, LoopType

-----------------------------------------------------------------------------
(* Taps.                                                                   *)

\* A set of taps that is not empty has a first one.
LEMMA NextTapIsFirst ==
    ASSUME NEW S \in SUBSET Nat, S # {}
    PROVE  NextTap(S) \in S /\ \A m \in S : NextTap(S) <= m
<1>1. PICK n \in S : \A m \in S : ~ (<<m, n>> \in OpToRel(<, Nat))
  BY NatLessThanWellFounded, WFMin, Zenon
<1>2. \A m \in S : n <= m
  <2> SUFFICES ASSUME NEW m \in S PROVE n <= m
    OBVIOUS
  <2>1. ~ (m < n)
    BY <1>1 DEF OpToRel
  <2> QED BY <2>1
<1> QED BY <1>2 DEF NextTap

\* What a tap holds.
LEMMA TapType ==
    ASSUME TypeOK, NEW n \in TapNumbers
    PROVE  /\ taps[n] \in TapRecords
           /\ taps[n].action \in Actions
           /\ taps[n].project \in Projects \cup {None}
           /\ taps[n].at \in Time
<1>1. taps \in Seq(TapRecords) /\ n \in 1 .. Len(taps)
  BY DEF TypeOK, TapNumbers
<1>2. taps[n] \in TapRecords
  BY <1>1
<1> QED BY <1>2 DEF TapRecords

\* What the tap a loop has sent holds.
LEMMA SentType ==
    ASSUME TypeOK, NEW d \in Drains, todo[d] # {}
    PROVE  /\ NextTap(todo[d]) \in todo[d]
           /\ NextTap(todo[d]) \in TapNumbers
           /\ \A m \in todo[d] : NextTap(todo[d]) <= m
           /\ Sent(d).action \in Actions
           /\ Sent(d).project \in Projects \cup {None}
           /\ Sent(d).at \in Time
<1>1. todo[d] \in SUBSET TapNumbers /\ TapNumbers \in SUBSET Nat
  BY DEF TypeOK, TapNumbers
<1>2. NextTap(todo[d]) \in todo[d] /\ \A m \in todo[d] : NextTap(todo[d]) <= m
  BY <1>1, NextTapIsFirst
<1>3. NextTap(todo[d]) \in TapNumbers
  BY <1>1, <1>2
<1> QED BY <1>2, <1>3, TapType DEF Sent

\* It holds at the beginning.
LEMMA InitTInv == Init => TInv
<1> SUFFICES ASSUME Init PROVE TInv
  OBVIOUS
<1> USE DEF Init
<1>1. TypeOK
  <2>1. PersonType
    <3>1. worked \in [Units -> Projects \cup {None}]
      BY DEF Units
    <3>2. taps \in Seq(TapRecords)
      OBVIOUS
    <3>3. now \in Time
      BY DEF Time
    <3>4. paused \in BOOLEAN /\ doing \in Projects \cup {None} /\ waiting \subseteq TapNumbers
      OBVIOUS
    <3> QED BY ONLY <3>1, <3>2, <3>3, <3>4 DEF PersonType
  <2>2. RowType /\ RecordType
    BY DEF RowType, RecordType, Time
  <2>3. LoopType
    BY DEF LoopType, Labels, Time
  <2> QED BY <2>1, <2>2, <2>3, TypeParts
<1>2. TapsOK /\ LoopOK /\ RowOK
  BY DEF TapsOK, LoopOK, AtWork, RowOK, TapNumbers, Actions
<1> QED BY <1>1, <1>2 DEF TInv

\* A tap is added to the taps and to the queue.
LEMMA EnqueueTInv ==
    ASSUME TInv, NEW action \in Actions, NEW p \in Projects \cup {None},
           action = "start" => p \in Projects, Enqueue(action, p),
           doing' \in Projects \cup {None}, paused' \in BOOLEAN
    PROVE  TInv'
<1> DEFINE r == [action |-> action, project |-> p, at |-> now]
<1> USE DEF Enqueue
<1>1. taps \in Seq(TapRecords) /\ r \in TapRecords /\ now \in Nat
  BY DEF TInv, TypeOK, TapRecords, Time
<1>2. /\ taps' \in Seq(TapRecords)
      /\ Len(taps') = Len(taps) + 1
      /\ Len(taps) \in Nat
      /\ taps'[Len(taps) + 1] = r
      /\ \A n \in TapNumbers : taps'[n] = taps[n]
  BY <1>1 DEF TapNumbers
<1>3. TapNumbers' = TapNumbers \cup {Len(taps) + 1}
  BY <1>2 DEF TapNumbers
<1>4. TypeOK'
  <2>1. TypeOK
    BY DEF TInv
  <2> QED BY <1>2, <1>3, <2>1 DEF TypeOK
<1>5. TapsOK'
  <2>1. \A n \in TapNumbers : n <= Len(taps) /\ n \in Nat
    BY <1>2 DEF TapNumbers
  <2>2. ASSUME NEW n \in TapNumbers'
        PROVE  /\ taps'[n].at <= now'
               /\ taps'[n].action = "start" => taps'[n].project \in Projects
    <3>1. CASE n \in TapNumbers
      BY <1>2, <3>1 DEF TInv, TapsOK
    <3>2. CASE n = Len(taps) + 1
      BY <1>1, <1>2, <3>2
    <3> QED BY <1>3, <3>1, <3>2
  <2>3. ASSUME NEW n \in TapNumbers', NEW m \in TapNumbers', m <= n
        PROVE  taps'[m].at <= taps'[n].at
    <3>1. CASE n \in TapNumbers
      <4>1. m \in TapNumbers
        BY <1>2, <1>3, <2>1, <2>3, <3>1
      <4> QED BY <1>2, <3>1, <2>3, <4>1 DEF TInv, TapsOK
    <3>2. CASE n = Len(taps) + 1
      <4>1. taps'[n].at = now'
        BY <1>2, <3>2
      <4>2. taps'[m].at <= now'
        BY <2>2
      <4> QED BY <4>1, <4>2
    <3> QED BY <1>3, <3>1, <3>2
  <2> QED BY <2>2, <2>3 DEF TapsOK
<1>6. LoopOK'
  <2>1. \A d \in Drains : todo[d] # {} => Sent(d)' = Sent(d)
    BY <1>2, SentType DEF TInv, Sent
  <2>2. \A d \in Drains : pc[d] \in Actions \cup {"starting"} => todo[d] # {}
    BY DEF TInv, LoopOK, AtWork, Actions
  <2> QED BY <2>1, <2>2 DEF TInv, LoopOK, AtWork
<1>7. RowOK'
  BY DEF TInv, RowOK
<1> QED BY <1>4, <1>5, <1>6, <1>7 DEF TInv

\* A step of one loop leaves the person alone and the other loops where they are.
LEMMA LoopStep ==
    ASSUME TInv, NEW d \in Drains, UNCHANGED person, waiting' \subseteq waiting,
           RowType', RecordType', RowOK',
           LoopType', AtWork(d)',
           \A e \in Drains \ {d} :
               /\ pc'[e] = pc[e] /\ todo'[e] = todo[e]
               /\ of'[e] = of[e] /\ from'[e] = from[e] /\ to'[e] = to[e]
    PROVE  TInv'
<1>1. TapNumbers' = TapNumbers
  BY DEF TapNumbers
<1>2. PersonType'
  <2>1. PersonType
    BY TypeParts DEF TInv
  <2> QED BY <1>1, <2>1 DEF PersonType
<1>3. TapsOK'
  BY <1>1 DEF TInv, TapsOK
<1>4. LoopOK'
  <2>1. ASSUME NEW e \in Drains, e # d PROVE AtWork(e)'
    <3>1. AtWork(e)
      BY DEF TInv, LoopOK
    <3>2. Sent(e)' = Sent(e)
      BY <2>1 DEF Sent
    <3> QED BY <2>1, <3>1, <3>2 DEF AtWork
  <2> QED BY <2>1 DEF LoopOK
<1> QED BY <1>2, <1>3, <1>4, TypePartsNext DEF TInv

-----------------------------------------------------------------------------
(* Each step keeps the invariant.                                          *)

\* Time passes.
LEMMA TickTInv == TInv /\ Tick => TInv'
<1> SUFFICES ASSUME TInv, Tick PROVE TInv'
  OBVIOUS
<1> USE DEF Tick
<1>1. TapNumbers' = TapNumbers /\ now \in Nat /\ now' \in Time
  BY DEF TInv, TypeOK, TapNumbers, Time
<1>2. TypeOK'
  BY <1>1 DEF TInv, TypeOK, Time, Units
<1>3. TapsOK'
  <2>1. \A n \in TapNumbers : taps[n].at \in Nat
    BY TapType DEF TInv, Time
  <2> QED BY <1>1, <2>1 DEF TInv, TapsOK
<1>4. LoopOK'
  <2>1. ASSUME NEW d \in Drains PROVE AtWork(d)'
    <3>1. AtWork(d) /\ to[d] \in Nat
      BY DEF TInv, LoopOK, TypeOK, Time
    <3>2. Sent(d)' = Sent(d)
      BY DEF Sent
    <3> QED BY <1>1, <3>1, <3>2 DEF AtWork
  <2> QED BY <2>1 DEF LoopOK
<1>5. RowOK'
  BY <1>1 DEF TInv, TypeOK, Time, RowOK
<1> QED BY <1>2, <1>3, <1>4, <1>5 DEF TInv

\* The person taps.
LEMMA TapTInv ==
    TInv /\ ((\E p \in Projects : TapStart(p)) \/ TapStop \/ TapHold \/ TapResume) => TInv'
<1> SUFFICES ASSUME TInv,
                    (\E p \in Projects : TapStart(p)) \/ TapStop \/ TapHold \/ TapResume
             PROVE  TInv'
  OBVIOUS
<1>1. doing \in Projects \cup {None} /\ paused \in BOOLEAN
  BY DEF TInv, TypeOK
<1>2. ASSUME NEW p \in Projects, TapStart(p) PROVE TInv'
  BY <1>2, EnqueueTInv DEF TapStart, Actions
<1>3. CASE TapStop
  BY <1>3, EnqueueTInv DEF TapStop, Actions
<1>4. CASE TapHold
  <2>1. doing' \in Projects \cup {None} /\ paused' \in BOOLEAN
    BY <1>1, <1>4 DEF TapHold
  <2> QED BY <1>4, <2>1, EnqueueTInv DEF TapHold, Actions
<1>5. CASE TapResume
  <2>1. doing' \in Projects \cup {None} /\ paused' \in BOOLEAN
    BY <1>1, <1>5 DEF TapResume
  <2> QED BY <1>5, <2>1, EnqueueTInv DEF TapResume, Actions
<1> QED BY <1>2, <1>3, <1>4, <1>5

\* The page shows a sign of life.
LEMMA BeatTInv == TInv /\ Beat => TInv'
<1> SUFFICES ASSUME TInv, Beat PROVE TInv'
  OBVIOUS
<1> USE DEF Beat
<1>1. TapNumbers' = TapNumbers
  BY DEF TapNumbers
<1>2. PersonType /\ RowType /\ RecordType /\ LoopType
  BY TypeParts DEF TInv
<1>3. PersonType' /\ RecordType' /\ LoopType'
  BY <1>1, <1>2 DEF PersonType, RecordType, LoopType
<1>4. RowType' /\ RowOK'
  BY <1>2 DEF TInv, RowType, RowOK, PersonType, Time
<1>5. TapsOK' /\ LoopOK'
  BY <1>1 DEF TInv, TapsOK, LoopOK, AtWork, Sent
<1> QED BY <1>3, <1>4, <1>5, TypePartsNext DEF TInv

\* A loop begins with the taps there are.
LEMMA BeginDrainTInv == ASSUME TInv, NEW d \in Drains, BeginDrain(d) PROVE TInv'
<1> USE DEF BeginDrain
<1>1. PersonType /\ RowType /\ RecordType /\ LoopType /\ AtWork(d)
  BY TypeParts DEF TInv, LoopOK
<1>2. TapNumbers' = TapNumbers
  BY DEF TapNumbers
<1>3. RowType' /\ RecordType' /\ RowOK'
  BY <1>1 DEF RowType, RecordType, RowOK, TInv
<1>4. LoopType'
  BY <1>1, <1>2 DEF LoopType, PersonType, Labels
<1>5. pc'[d] = "sending" /\ \A e \in Drains \ {d} : pc'[e] = pc[e] /\ todo'[e] = todo[e]
  BY <1>1 DEF LoopType
<1>6. AtWork(d)'
  BY <1>1, <1>5 DEF AtWork, Actions
<1> QED BY <1>3, <1>4, <1>5, <1>6, LoopStep

\* A loop sends the first tap it has left, or ends.
LEMMA SendTInv ==
    ASSUME TInv, NEW d \in Drains, Send(d) \/ EndDrain(d) PROVE TInv'
<1> USE DEF Send, EndDrain
<1>1. PersonType /\ RowType /\ RecordType /\ LoopType /\ AtWork(d)
  BY TypeParts DEF TInv, LoopOK
<1>2. TapNumbers' = TapNumbers /\ Sent(d)' = Sent(d)
  BY DEF TapNumbers, Sent
<1>3. RowType' /\ RecordType' /\ RowOK'
  BY <1>1 DEF RowType, RecordType, RowOK, TInv
<1>4. CASE Send(d)
  <2>1. Sent(d).action \in Actions
    BY <1>4, SentType DEF TInv
  <2>2. LoopType'
    BY <1>1, <1>2, <1>4, <2>1 DEF LoopType, Labels
  <2>3. pc'[d] = Sent(d).action /\ \A e \in Drains \ {d} : pc'[e] = pc[e]
    BY <1>1, <1>4 DEF LoopType
  <2>4. AtWork(d)'
    BY <1>1, <1>2, <1>4, <2>1, <2>3 DEF AtWork, Actions
  <2> QED BY <1>3, <1>4, <2>2, <2>3, <2>4, LoopStep
<1>5. CASE EndDrain(d)
  <2>1. LoopType'
    BY <1>1, <1>2, <1>5 DEF LoopType, Labels
  <2>2. pc'[d] = "idle" /\ \A e \in Drains \ {d} : pc'[e] = pc[e]
    BY <1>1, <1>5 DEF LoopType
  <2>3. AtWork(d)'
    BY <1>1, <1>2, <1>5, <2>2 DEF AtWork, Actions
  <2> QED BY <1>3, <1>5, <2>1, <2>2, <2>3, LoopStep
<1> QED BY <1>4, <1>5

\* A tap that was answered or refused is forgotten.
LEMMA ForgetTInv ==
    ASSUME TInv, NEW d \in Drains, Answered(d) \/ Refused(d) PROVE TInv'
<1> USE DEF Answered, Refused, Forget, Drop
<1>1. PersonType /\ RowType /\ RecordType /\ LoopType /\ AtWork(d)
  BY TypeParts DEF TInv, LoopOK
<1>2. TapNumbers' = TapNumbers
  BY DEF TapNumbers
<1>3. RowType' /\ RecordType' /\ RowOK'
  BY <1>1 DEF RowType, RecordType, RowOK, TInv
<1>4. LoopType'
  BY <1>1, <1>2 DEF LoopType, Labels, Time
<1>5. /\ pc'[d] = "sending" /\ from'[d] = 0 /\ to'[d] = 0
      /\ \A e \in Drains \ {d} :
            /\ pc'[e] = pc[e] /\ todo'[e] = todo[e]
            /\ of'[e] = of[e] /\ from'[e] = from[e] /\ to'[e] = to[e]
  BY <1>1 DEF LoopType
<1>6. AtWork(d)'
  BY <1>1, <1>5 DEF AtWork, Actions, PersonType, Time
<1> QED BY <1>3, <1>4, <1>5, <1>6, LoopStep

\* The instant a request works with is within the span the timer was running.
LEMMA ClampedInstant ==
    ASSUME TInv, NEW d \in Drains, todo[d] # {}
    PROVE  /\ Floor \in Time /\ Floor <= now
           /\ Clamp(Sent(d).at) \in Time
           /\ Clamp(Sent(d).at) >= Floor /\ Clamp(Sent(d).at) >= Sent(d).at
           /\ Clamp(Sent(d).at) <= now
<1>1. Floor \in Time /\ Floor <= now
  BY DEF TInv, TypeOK, RowOK, Floor, Held, Time
<1>2. Sent(d).at \in Time /\ Sent(d).at <= now
  BY SentType DEF TInv, TapsOK, Sent
<1> QED BY <1>1, <1>2 DEF Clamp, Time

\* start() and stop() read the row, or find none.
LEMMA ReadToStopTInv ==
    ASSUME TInv, NEW d \in Drains, ReadToStop(d) PROVE TInv'
<1> USE DEF ReadToStop
<1> DEFINE at == Clamp(Sent(d).at)
<1>1. PersonType /\ RowType /\ RecordType /\ LoopType /\ AtWork(d)
  BY TypeParts DEF TInv, LoopOK
<1>2. TapNumbers' = TapNumbers /\ Sent(d)' = Sent(d)
  BY DEF TapNumbers, Sent
<1>3. todo[d] # {}
  BY <1>1 DEF AtWork
<1>4. at \in Time /\ Floor \in Time /\ Floor <= at /\ at <= now
  BY <1>3, ClampedInstant
<1>5. EndOfSpan(at) \in Time /\ EndOfSpan(at) <= at /\ Floor <= EndOfSpan(at)
  BY <1>1, <1>4 DEF EndOfSpan, Abandoned, Floor, Held, RowType, Time
<1>6. trimmed' \subseteq Units
  <2>1. seen .. at - 1 \subseteq Units
    BY <1>1, <1>4 DEF RowType, Units, Time
  <2>2. trimmed' \subseteq trimmed \cup seen .. at - 1
    OBVIOUS
  <2> QED BY <1>1, <2>1, <2>2 DEF RecordType
<1>7. RowType' /\ RecordType' /\ RowOK'
  BY <1>1, <1>6 DEF RowType, RecordType, RowOK, TInv
<1>8. LoopType'
  BY <1>1, <1>2, <1>4, <1>5 DEF LoopType, RowType, Labels
<1>9. /\ pc'[d] = "clearing" /\ of'[d] = running
      /\ from'[d] = Floor /\ to'[d] = EndOfSpan(at)
      /\ \A e \in Drains \ {d} :
            /\ pc'[e] = pc[e] /\ todo'[e] = todo[e]
            /\ of'[e] = of[e] /\ from'[e] = from[e] /\ to'[e] = to[e]
  BY <1>1 DEF LoopType
<1>10. AtWork(d)'
  BY <1>1, <1>2, <1>3, <1>4, <1>5, <1>9 DEF AtWork, Actions, PersonType, RowType, Time
<1> QED BY <1>7, <1>8, <1>9, <1>10, LoopStep

\* A step of a request that only moves on, with the row and the record as they may be.
LEMMA RequestStep ==
    ASSUME TInv, NEW d \in Drains, NEW label \in Labels \ (Actions \cup {"idle"}),
           pc[d] \notin {"idle", "sending"}, Goto(d, label),
           UNCHANGED <<person, waiting, todo, span>>,
           RowType', RecordType', RowOK',
           label = "starting" => Sent(d).action = "start",
           label = "clearing" => Sent(d).action \in {"start", "stop"},
           label = "saving" => Sent(d).action \in {"hold", "resume"},
           label \in {"clearing", "recording", "saving"} => of[d] \in Projects
    PROVE  TInv'
<1>1. LoopType /\ AtWork(d)
  BY TypeParts DEF TInv, LoopOK
<1>2. TapNumbers' = TapNumbers /\ Sent(d)' = Sent(d)
  BY DEF TapNumbers, Sent
<1>3. LoopType'
  BY <1>1, <1>2 DEF LoopType
<1>4. pc'[d] = label /\ \A e \in Drains \ {d} : pc'[e] = pc[e]
  BY <1>1 DEF LoopType
<1>5. AtWork(d)'
  BY <1>1, <1>2, <1>4 DEF AtWork
<1> QED BY <1>3, <1>4, <1>5, LoopStep

LEMMA NothingToStopTInv ==
    ASSUME TInv, NEW d \in Drains, NothingToStop(d) PROVE TInv'
<1> USE DEF NothingToStop
<1>1. RowType /\ RecordType /\ AtWork(d)
  BY TypeParts DEF TInv, LoopOK
<1>2. RowType' /\ RecordType' /\ RowOK'
  BY <1>1 DEF RowType, RecordType, RowOK, TInv
<1>3. CASE pc[d] = "start"
  <2>1. Sent(d).action = "start"
    BY <1>1, <1>3 DEF AtWork, Actions
  <2> QED BY <1>2, <1>3, <2>1, RequestStep DEF Labels, Actions
<1>4. CASE pc[d] = "stop"
  BY <1>2, <1>4, RequestStep DEF Labels, Actions
<1> QED BY <1>3, <1>4

\* The row is deleted.
LEMMA ClearTInv ==
    ASSUME TInv, NEW d \in Drains, Clear(d) PROVE TInv'
<1> USE DEF Clear
<1>1. RowType /\ RecordType /\ PersonType /\ AtWork(d)
  BY TypeParts DEF TInv, LoopOK
<1>2. RowType' /\ RecordType' /\ RowOK'
  BY <1>1 DEF RowType, RecordType, RowOK, PersonType, Time
<1>3. of[d] \in Projects
  BY <1>1 DEF AtWork
<1> QED BY <1>2, <1>3, RequestStep DEF Labels, Actions

\* An entry is written.
LEMMA RecordTInv ==
    ASSUME TInv, NEW d \in Drains, Record(d) PROVE TInv'
<1> USE DEF Record
<1>1. RowType /\ RecordType /\ PersonType /\ LoopType /\ AtWork(d)
  BY TypeParts DEF TInv, LoopOK
<1>2. of[d] \in Projects /\ Times(d) \subseteq Units
  BY <1>1 DEF AtWork, Times, LoopType, Time, Units
<1>3. booked' \subseteq Projects \X Units /\ twice' \subseteq Units
  BY <1>1, <1>2 DEF RecordType
<1>4. RowType' /\ RecordType' /\ RowOK'
  BY <1>1, <1>3 DEF RowType, RecordType, RowOK, TInv
<1>5. CASE Sent(d).action = "start"
  BY <1>4, <1>5, RequestStep DEF Labels, Actions
<1>6. CASE Sent(d).action # "start"
  BY <1>4, <1>6, RequestStep DEF Labels, Actions
<1> QED BY <1>5, <1>6

\* The timer starts over.
LEMMA StartTInv ==
    ASSUME TInv, NEW d \in Drains, Start(d) PROVE TInv'
<1> USE DEF Start
<1>1. RowType /\ RecordType /\ PersonType /\ AtWork(d)
  BY TypeParts DEF TInv, LoopOK
<1>2. todo[d] # {} /\ Sent(d).action = "start"
  BY <1>1 DEF AtWork
<1>3. Sent(d).project \in Projects /\ Sent(d).at \in Time /\ Sent(d).at <= now
  BY <1>2, SentType DEF TInv, TapsOK, Sent
<1>4. RowType' /\ RecordType' /\ RowOK'
  BY <1>1, <1>3 DEF RowType, RecordType, RowOK, PersonType, Time
<1> QED BY <1>4, RequestStep DEF Labels, Actions

\* hold() and resume() read the row.
LEMMA ReadToSaveTInv ==
    ASSUME TInv, NEW d \in Drains, ReadToSave(d) PROVE TInv'
<1> USE DEF ReadToSave
<1> DEFINE at == Clamp(Sent(d).at)
<1>1. PersonType /\ RowType /\ RecordType /\ LoopType /\ AtWork(d)
  BY TypeParts DEF TInv, LoopOK
<1>2. TapNumbers' = TapNumbers /\ Sent(d)' = Sent(d)
  BY DEF TapNumbers, Sent
<1>3. todo[d] # {} /\ Sent(d).action \in {"hold", "resume"}
  BY <1>1 DEF AtWork, Actions
<1>4. at \in Time /\ Floor \in Time /\ Floor <= at /\ at <= now
  BY <1>3, ClampedInstant
<1>5. start \in Time /\ (~Held => start <= at)
  BY <1>1, <1>4 DEF Floor, RowType
<1>6. RowType' /\ RecordType' /\ RowOK'
  BY <1>1 DEF RowType, RecordType, RowOK, TInv
<1>7. LoopType'
  BY <1>1, <1>2, <1>4, <1>5 DEF LoopType, RowType, Labels
<1>8. /\ pc'[d] = "saving" /\ of'[d] = running
      /\ from'[d] = (IF Held THEN at ELSE start) /\ to'[d] = at
      /\ \A e \in Drains \ {d} :
            /\ pc'[e] = pc[e] /\ todo'[e] = todo[e]
            /\ of'[e] = of[e] /\ from'[e] = from[e] /\ to'[e] = to[e]
  BY <1>1 DEF LoopType
<1>9. AtWork(d)'
  BY <1>1, <1>2, <1>3, <1>4, <1>5, <1>8 DEF AtWork, Actions, PersonType, RowType, Time
<1> QED BY <1>6, <1>7, <1>8, <1>9, LoopStep

LEMMA RefuseTInv ==
    ASSUME TInv, NEW d \in Drains, Refuse(d) PROVE TInv'
<1> USE DEF Refuse
<1>1. RowType /\ RecordType
  BY TypeParts DEF TInv
<1>2. RowType' /\ RecordType' /\ RowOK'
  BY <1>1 DEF RowType, RecordType, RowOK, TInv
<1> QED BY <1>2, RequestStep DEF Labels, Actions

\* The row is written over.
LEMMA SaveTInv ==
    ASSUME TInv, NEW d \in Drains, Save(d) PROVE TInv'
<1> USE DEF Save
<1>1. RowType /\ RecordType /\ PersonType /\ LoopType /\ AtWork(d)
  BY TypeParts DEF TInv, LoopOK
<1>2. /\ from[d] \in Time /\ to[d] \in Time /\ from[d] <= to[d] /\ to[d] <= now
      /\ of[d] \in Projects
  BY <1>1 DEF AtWork, LoopType
<1>3. RecordType' /\ RowType' /\ RowOK'
  <2>1. RecordType'
    BY <1>1 DEF RecordType
  <2>2. CASE running = None
    <3>1. UNCHANGED <<running, start, seen, held, now>>
      BY <2>2
    <3> QED BY <1>1, <2>1, <3>1 DEF RowType, RowOK, TInv
  <2>3. CASE running # None
    <3>1. /\ start' = from[d] /\ seen' = to[d] /\ held' \in {to[d], -1}
          /\ running' = running /\ now' = now
      BY <2>3
    <3> QED BY <1>1, <1>2, <2>1, <3>1 DEF RowType, RowOK, PersonType, Time
  <2> QED BY <2>1, <2>2, <2>3
<1>4. CASE Sent(d).action = "hold"
  BY <1>2, <1>3, <1>4, RequestStep DEF Labels, Actions
<1>5. CASE Sent(d).action # "hold"
  BY <1>2, <1>3, <1>5, RequestStep DEF Labels, Actions
<1> QED BY <1>4, <1>5

\* The loop and its request fail.
LEMMA FailTInv ==
    ASSUME TInv, NEW d \in Drains, Fail(d) PROVE TInv'
<1> USE DEF Fail, Drop
<1>1. PersonType /\ RowType /\ RecordType /\ LoopType /\ AtWork(d)
  BY TypeParts DEF TInv, LoopOK
<1>2. TapNumbers' = TapNumbers
  BY DEF TapNumbers
<1>3. Times(d) \subseteq Units
  BY <1>1 DEF LoopType, Times, Time, Units
<1>4. RowType' /\ RecordType' /\ RowOK'
  BY <1>1, <1>3 DEF RowType, RecordType, RowOK, TInv
<1>5. LoopType'
  BY <1>1, <1>2 DEF LoopType, Labels, Time
<1>6. /\ pc'[d] = "idle" /\ todo'[d] = {} /\ from'[d] = 0 /\ to'[d] = 0
      /\ \A e \in Drains \ {d} :
            /\ pc'[e] = pc[e] /\ todo'[e] = todo[e]
            /\ of'[e] = of[e] /\ from'[e] = from[e] /\ to'[e] = to[e]
  BY <1>1 DEF LoopType
<1>7. AtWork(d)'
  BY <1>1, <1>6 DEF AtWork, Actions, PersonType, Time
<1> QED BY <1>4, <1>5, <1>6, <1>7, LoopStep

\* Every step keeps it.
LEMMA NextTInv == TInv /\ [Next]_vars => TInv'
<1> SUFFICES ASSUME TInv, [Next]_vars PROVE TInv'
  OBVIOUS
<1>1. ASSUME NEW d \in Drains, Advance(d) PROVE TInv'
  BY <1>1, BeginDrainTInv, SendTInv, ForgetTInv, ReadToStopTInv, NothingToStopTInv,
     ClearTInv, RecordTInv, StartTInv, ReadToSaveTInv, RefuseTInv, SaveTInv DEF Advance
<1>2. ASSUME NEW d \in Drains, Fail(d) PROVE TInv'
  BY <1>2, FailTInv
<1>3. CASE UNCHANGED vars
  BY <1>3 DEF vars, TInv, TypeOK, TapsOK, LoopOK, AtWork, RowOK, TapNumbers, Sent
<1> QED BY <1>1, <1>2, <1>3, TickTInv, TapTInv, BeatTInv DEF Next

\* In every behaviour.
THEOREM TimerInvariant == Spec => []TInv
BY InitTInv, NextTInv, PTL DEF Spec

\* Every variable keeps its type and the row its CHECKs, with any number of
\* loops at once: no replay of a tap, however late, writes a sign of life or a
\* hold that is earlier than the start.
THEOREM TypeCorrect == Spec => []TypeOK
<1>1. TInv => TypeOK
  BY DEF TInv
<1> QED BY <1>1, TimerInvariant, PTL

-----------------------------------------------------------------------------
(* One loop at a time.  The inductive invariant says that the record, the  *)
(* span in hand, the row and the queue follow one another in time.         *)

OneLoop == \A d, e \in Drains : d = e

\* What the loop has left is the head of the queue.
QueueOK ==
    \A d \in Drains :
        /\ todo[d] \subseteq waiting
        /\ \A n \in todo[d], m \in waiting \ todo[d] : n <= m

\* Everything booked lies before the span being timed, before every tap still
\* waiting and before now.
BookedOK ==
    \A b \in booked :
        /\ b[2] < now
        /\ running # None => b[2] < Floor
        /\ \A n \in waiting : b[2] < taps[n].at

\* The span being timed starts no later than any tap still waiting.
RowAhead == running # None => \A n \in waiting : Floor <= taps[n].at

\* The span in a request's hands lies between what is booked and what the row
\* still times.
SpanOK ==
    \A d \in Drains :
        /\ pc[d] \in {"clearing", "saving", "recording"} =>
              /\ \A b \in booked : b[2] < from[d]
              /\ \A n \in waiting : to[d] <= taps[n].at
        /\ pc[d] = "recording" => running = None \/ to[d] <= Floor

OInv == TInv /\ QueueOK /\ BookedOK /\ RowAhead /\ SpanOK /\ twice = {}

\* The kinds of the numbers the invariant compares.
LEMMA Numbers ==
    ASSUME TInv, NEW d \in Drains
    PROVE  /\ now \in Nat /\ start \in Nat /\ held \in Int /\ seen \in Nat
           /\ Floor \in Nat /\ Floor <= now
           /\ from[d] \in Nat /\ to[d] \in Nat /\ from[d] <= to[d] /\ to[d] <= now
           /\ \A b \in booked : b[2] \in Nat
           /\ waiting \subseteq TapNumbers
           /\ \A n \in TapNumbers : n \in Nat /\ taps[n].at \in Nat /\ taps[n].at <= now
<1>1. /\ now \in Nat /\ start \in Nat /\ held \in Int /\ seen \in Nat
      /\ from[d] \in Nat /\ to[d] \in Nat /\ waiting \subseteq TapNumbers
  BY DEF TInv, TypeOK, Time
<1>2. Floor \in Nat /\ Floor <= now
  BY DEF TInv, TypeOK, RowOK, Floor, Held, Time
<1>3. from[d] <= to[d] /\ to[d] <= now
  BY DEF TInv, LoopOK, AtWork
<1>4. \A b \in booked : b[2] \in Nat
  BY DEF TInv, TypeOK, Units
<1>5. \A n \in TapNumbers : n \in Nat /\ taps[n].at \in Nat /\ taps[n].at <= now
  BY TapType DEF TInv, TapsOK, TapNumbers, Time
<1> QED BY <1>1, <1>2, <1>3, <1>4, <1>5

\* The tap being replayed is the first one waiting, all that is booked lies
\* before it, and the clamp leaves its instant alone.
LEMMA SentIsFirst ==
    ASSUME OInv, NEW d \in Drains, todo[d] # {}
    PROVE  /\ NextTap(todo[d]) \in waiting
           /\ Sent(d).at \in Nat /\ Sent(d).at <= now
           /\ \A n \in waiting : Sent(d).at <= taps[n].at
           /\ \A b \in booked : b[2] < Sent(d).at
           /\ running # None => Floor <= Sent(d).at /\ Clamp(Sent(d).at) = Sent(d).at
<1> DEFINE f == NextTap(todo[d])
<1>1. TInv /\ TypeOK
  BY DEF OInv, TInv
<1>2. f \in todo[d] /\ f \in TapNumbers /\ \A m \in todo[d] : f <= m
  BY <1>1, SentType
<1>3. f \in waiting /\ \A n \in waiting : f <= n
  BY <1>2 DEF OInv, QueueOK
<1>4. Sent(d).at = taps[f].at
  BY DEF Sent
<1>5. \A n \in waiting : taps[f].at <= taps[n].at
  BY <1>1, <1>2, <1>3, Numbers DEF TInv, TapsOK
<1>6. \A b \in booked : b[2] < taps[f].at
  BY <1>3 DEF OInv, BookedOK
<1>7. taps[f].at \in Nat /\ taps[f].at <= now /\ Floor \in Nat
  BY <1>1, <1>2, Numbers
<1>8. running # None => Floor <= taps[f].at
  BY <1>3 DEF OInv, RowAhead
<1> QED BY <1>3, <1>4, <1>5, <1>6, <1>7, <1>8 DEF Clamp

-----------------------------------------------------------------------------
(* Each step keeps it.                                                     *)

\* It holds at the beginning.
LEMMA InitOInv == Init => OInv
BY InitTInv DEF Init, OInv, QueueOK, BookedOK, RowAhead, SpanOK

\* Time passes.
LEMMA TickOInv == ASSUME OInv, TInv', Tick PROVE OInv'
<1> USE DEF Tick
<1>1. QueueOK' /\ RowAhead' /\ SpanOK' /\ twice' = {}
  BY DEF OInv, QueueOK, RowAhead, SpanOK, Floor, Held
<1>2. BookedOK'
  <2>1. now \in Nat /\ \A b \in booked : b[2] \in Nat
    BY DEF OInv, TInv, TypeOK, Time, Units
  <2> QED BY <2>1 DEF OInv, BookedOK, Floor, Held
<1> QED BY <1>1, <1>2 DEF OInv

\* A tap is later than all there is.
LEMMA EnqueueOInv ==
    ASSUME OInv, TInv', NEW action, NEW p, Enqueue(action, p) PROVE OInv'
<1> USE DEF Enqueue
<1>1. TInv /\ taps \in Seq(TapRecords) /\ Len(taps) \in Nat
  BY DEF OInv, TInv, TypeOK
<1>2. waiting \subseteq 1 .. Len(taps)
  BY <1>1 DEF TInv, TypeOK, TapNumbers
<1>3. /\ taps'[Len(taps) + 1].at = now
      /\ \A n \in waiting : taps'[n] = taps[n]
  BY <1>1, <1>2
<1>4. QueueOK'
  <2>1. \A d \in Drains : todo[d] \subseteq waiting
    BY DEF OInv, QueueOK
  <2>2. \A n \in waiting : n <= Len(taps) + 1
    BY <1>1, <1>2
  <2> QED BY <1>1, <2>1, <2>2 DEF OInv, QueueOK
<1>5. BookedOK'
  BY <1>1, <1>3 DEF OInv, BookedOK, Floor, Held
<1>6. RowAhead'
  <2>1. Floor <= now
    BY <1>1 DEF TInv, RowOK, Floor
  <2> QED BY <1>3, <2>1 DEF OInv, RowAhead, Floor, Held
<1>7. SpanOK'
  <2>1. \A d \in Drains : to[d] <= now
    BY <1>1, Numbers
  <2> QED BY <1>3, <2>1 DEF OInv, SpanOK, Floor, Held
<1> QED BY <1>4, <1>5, <1>6, <1>7 DEF OInv

\* A loop that begins, sends or ends, and a request that finds nothing to do,
\* move nothing the invariant relates.
LEMMA QuietOInv ==
    ASSUME OInv, TInv', NEW d \in Drains,
           \/ BeginDrain(d) \/ Send(d) \/ EndDrain(d)
           \/ NothingToStop(d) \/ Refuse(d)
    PROVE  OInv'
<1> USE DEF Send, EndDrain, NothingToStop, Refuse, BeginDrain
<1>1. UNCHANGED <<now, taps, waiting, running, start, held, booked, twice, from, to>>
  OBVIOUS
<1>2. BookedOK' /\ RowAhead' /\ twice' = {}
  BY <1>1 DEF OInv, BookedOK, RowAhead, Floor, Held
<1>3. TInv /\ pc \in [Drains -> Labels] /\ todo \in [Drains -> SUBSET TapNumbers]
  BY DEF OInv, TInv, TypeOK
<1>4. QueueOK'
  <2>1. CASE UNCHANGED todo
    BY <1>1, <2>1 DEF OInv, QueueOK
  <2>2. CASE todo' = [todo EXCEPT ![d] = waiting]
    BY <1>1, <1>3, <2>2 DEF OInv, QueueOK
  <2> QED BY <2>1, <2>2
<1>5. SpanOK'
  <2>1. \A e \in Drains : pc'[e] \in {"clearing", "saving", "recording"} => pc'[e] = pc[e]
    <3>1. CASE Send(d)
      <4>1. Sent(d).action \in Actions
        BY <1>3, <3>1, SentType DEF TInv
      <4> QED BY <1>3, <3>1, <4>1 DEF Actions
    <3>2. CASE ~ Send(d)
      BY <1>3, <3>2
    <3> QED BY <3>1, <3>2
  <2> QED BY <1>1, <2>1 DEF OInv, SpanOK, Floor, Held
<1> QED BY <1>2, <1>4, <1>5 DEF OInv

\* A tap is forgotten, or a loop fails: fewer taps wait, and the span in hand
\* is dropped.
LEMMA DropOInv ==
    ASSUME OInv, TInv', OneLoop, NEW d \in Drains, Answered(d) \/ Refused(d) \/ Fail(d)
    PROVE  OInv'
<1> USE DEF Answered, Refused, Forget, Fail, Drop
<1>1. TInv /\ pc \in [Drains -> Labels] /\ todo \in [Drains -> SUBSET TapNumbers]
  BY DEF OInv, TInv, TypeOK
<1>2. UNCHANGED <<now, taps, running, start, held, booked, twice>> /\ waiting' \subseteq waiting
  OBVIOUS
<1>3. BookedOK' /\ RowAhead' /\ twice' = {}
  BY <1>2 DEF OInv, BookedOK, RowAhead, Floor, Held
<1>4. pc'[d] \in {"sending", "idle"}
  BY <1>1
<1>5. SpanOK'
  BY <1>4 DEF OneLoop, SpanOK
<1>6. QueueOK'
  <2>1. CASE Fail(d)
    BY <1>1, <2>1 DEF OInv, QueueOK
  <2>2. CASE Answered(d) \/ Refused(d)
    BY <1>1, <2>2 DEF OInv, QueueOK, OneLoop
  <2> QED BY <2>1, <2>2
<1> QED BY <1>3, <1>5, <1>6 DEF OInv

\* The span to be recorded begins where the timer's does.
LEMMA ReadToStopOInv ==
    ASSUME OInv, TInv', OneLoop, NEW d \in Drains, ReadToStop(d) PROVE OInv'
<1> USE DEF ReadToStop
<1> DEFINE at == Clamp(Sent(d).at)
<1>1. TInv /\ LoopType /\ AtWork(d)
  BY TypeParts DEF OInv, TInv, LoopOK
<1>2. todo[d] # {}
  BY <1>1 DEF AtWork
<1>3. pc'[d] = "clearing" /\ from'[d] = Floor /\ to'[d] = EndOfSpan(at)
  BY <1>1 DEF LoopType
<1>4. QueueOK' /\ BookedOK' /\ RowAhead' /\ twice' = {}
  BY DEF OInv, QueueOK, BookedOK, RowAhead, Floor, Held
<1>5. SpanOK'
  <2>1. \A b \in booked : b[2] < Floor
    BY DEF OInv, BookedOK
  <2>2. EndOfSpan(at) <= at /\ EndOfSpan(at) \in Int
    BY <1>1, <1>2, SentIsFirst, Numbers DEF EndOfSpan, Abandoned, Floor, Held
  <2>3. \A n \in waiting : at <= taps[n].at
    BY <1>2, SentIsFirst
  <2>4. at \in Int /\ \A n \in waiting : taps[n].at \in Nat
    BY <1>1, <1>2, SentIsFirst, Numbers
  <2>5. \A n \in waiting : EndOfSpan(at) <= taps[n].at
    BY <2>2, <2>3, <2>4
  <2> QED BY <1>3, <2>1, <2>5 DEF OneLoop, SpanOK
<1> QED BY <1>4, <1>5 DEF OInv

\* Without a row nothing is being timed.
LEMMA ClearOInv ==
    ASSUME OInv, TInv', OneLoop, NEW d \in Drains, Clear(d) PROVE OInv'
<1> USE DEF Clear
<1>1. LoopType
  BY TypeParts DEF OInv, TInv
<1>2. QueueOK' /\ BookedOK' /\ RowAhead' /\ twice' = {}
  BY DEF OInv, QueueOK, BookedOK, RowAhead
<1>3. SpanOK'
  BY <1>1 DEF OInv, OneLoop, SpanOK
<1> QED BY <1>2, <1>3 DEF OInv

\* What is recorded is later than all that is booked, so that nothing is
\* booked twice.
LEMMA RecordOInv ==
    ASSUME OInv, TInv', OneLoop, NEW d \in Drains, Record(d) PROVE OInv'
<1> USE DEF Record
<1>1. TInv /\ LoopType
  BY TypeParts DEF OInv, TInv
<1>2. /\ \A b \in booked : b[2] < from[d] /\ b[2] \in Nat
      /\ \A n \in waiting : to[d] <= taps[n].at /\ taps[n].at \in Nat
      /\ running = None \/ to[d] <= Floor
      /\ from[d] \in Nat /\ to[d] \in Nat /\ now \in Nat /\ Floor \in Nat /\ to[d] <= now
  BY <1>1, Numbers DEF OInv, SpanOK
<1>3. pc'[d] \in {"starting", "answered"}
  BY <1>1 DEF LoopType
<1>4. twice' = {}
  <2>1. ASSUME NEW t \in Times(d), NEW p \in Projects, <<p, t>> \in booked PROVE FALSE
    <3>1. t < from[d]
      BY <1>2, <2>1
    <3>2. t \in Int /\ from[d] <= t
      BY <1>2 DEF Times
    <3> QED BY <1>2, <3>1, <3>2
  <2> QED BY <2>1 DEF OInv
<1>5. QueueOK' /\ RowAhead' /\ SpanOK'
  BY <1>3 DEF OInv, OneLoop, QueueOK, RowAhead, SpanOK, Floor, Held
<1>6. BookedOK'
  <2> SUFFICES ASSUME NEW b \in booked'
               PROVE  /\ b[2] < now
                      /\ running # None => b[2] < Floor
                      /\ \A n \in waiting : b[2] < taps[n].at
    BY DEF BookedOK, Floor, Held
  <2>1. CASE b \in booked
    BY <2>1 DEF OInv, BookedOK
  <2>2. CASE b \in {of[d]} \X Times(d)
    <3>1. b[2] \in Int /\ b[2] < to[d]
      BY <1>2, <2>2 DEF Times
    <3> QED BY <1>2, <3>1
  <2> QED BY <2>1, <2>2
<1> QED BY <1>4, <1>5, <1>6 DEF OInv

\* The new span begins at the tap, after all that is booked.
LEMMA StartOInv ==
    ASSUME OInv, TInv', OneLoop, NEW d \in Drains, Start(d) PROVE OInv'
<1> USE DEF Start
<1>1. LoopType /\ AtWork(d)
  BY TypeParts DEF OInv, TInv, LoopOK
<1>2. todo[d] # {}
  BY <1>1 DEF AtWork
<1>3. Floor' = Sent(d).at
  BY DEF Floor, Held
<1>4. QueueOK' /\ BookedOK' /\ RowAhead' /\ twice' = {}
  BY <1>2, <1>3, SentIsFirst DEF OInv, QueueOK, BookedOK, RowAhead
<1>5. pc'[d] = "answered"
  BY <1>1 DEF LoopType
<1>6. SpanOK'
  BY <1>5 DEF OneLoop, SpanOK
<1> QED BY <1>4, <1>6 DEF OInv

\* The span so far begins where the timer's does; the new one at the tap.
LEMMA ReadToSaveOInv ==
    ASSUME OInv, TInv', OneLoop, NEW d \in Drains, ReadToSave(d) PROVE OInv'
<1> USE DEF ReadToSave
<1> DEFINE at == Clamp(Sent(d).at)
<1>1. TInv /\ LoopType /\ AtWork(d)
  BY TypeParts DEF OInv, TInv, LoopOK
<1>2. todo[d] # {}
  BY <1>1 DEF AtWork, Actions
<1>3. pc'[d] = "saving" /\ from'[d] = (IF Held THEN at ELSE start) /\ to'[d] = at
  BY <1>1 DEF LoopType
<1>4. QueueOK' /\ BookedOK' /\ RowAhead' /\ twice' = {}
  BY DEF OInv, QueueOK, BookedOK, RowAhead, Floor, Held
<1>5. SpanOK'
  <2>1. \A b \in booked : b[2] < (IF Held THEN at ELSE start)
    BY <1>2, SentIsFirst DEF OInv, BookedOK, Floor
  <2>2. \A n \in waiting : at <= taps[n].at
    BY <1>2, SentIsFirst
  <2> QED BY <1>3, <2>1, <2>2 DEF OneLoop, SpanOK
<1> QED BY <1>4, <1>5 DEF OInv

\* A hold moves the row past the span it takes away, a resume past the gap.
LEMMA SaveOInv ==
    ASSUME OInv, TInv', OneLoop, NEW d \in Drains, Save(d) PROVE OInv'
<1> USE DEF Save
<1>1. TInv /\ LoopType /\ AtWork(d)
  BY TypeParts DEF OInv, TInv, LoopOK
<1>2. /\ from[d] \in Nat /\ to[d] \in Nat /\ from[d] <= to[d]
      /\ \A b \in booked : b[2] < from[d] /\ b[2] \in Nat
      /\ \A n \in waiting : to[d] <= taps[n].at /\ taps[n].at \in Nat
  BY <1>1, Numbers DEF OInv, SpanOK
<1>3. Sent(d).action \in {"hold", "resume"}
  BY <1>1 DEF AtWork
<1>4. running # None => Floor' = (IF Sent(d).action = "hold" THEN to[d] ELSE from[d])
  BY <1>2 DEF Floor, Held
<1>5. running' = running
  OBVIOUS
<1>6. QueueOK' /\ twice' = {}
  BY DEF OInv, QueueOK
<1>7. BookedOK' /\ RowAhead'
  BY <1>2, <1>4, <1>5 DEF OInv, BookedOK, RowAhead
<1>8. /\ pc'[d] \in {"recording", "answered"}
      /\ pc'[d] = "recording" => Sent(d).action = "hold"
  BY <1>1 DEF LoopType
<1>9. SpanOK'
  BY <1>2, <1>4, <1>5, <1>8 DEF OInv, OneLoop, SpanOK
<1> QED BY <1>6, <1>7, <1>9 DEF OInv

\* Every step keeps it.
LEMMA NextOInv == OneLoop /\ OInv /\ [Next]_vars => OInv'
<1> SUFFICES ASSUME OneLoop, OInv, [Next]_vars PROVE OInv'
  OBVIOUS
<1>1. TInv'
  BY NextTInv DEF OInv
<1>2. ASSUME NEW d \in Drains, Advance(d) \/ Fail(d) PROVE OInv'
  BY <1>1, <1>2, QuietOInv, DropOInv, ReadToStopOInv, ClearOInv, RecordOInv, StartOInv,
     ReadToSaveOInv, SaveOInv DEF Advance
<1>3. CASE Tick
  BY <1>1, <1>3, TickOInv
<1>4. CASE (\E p \in Projects : TapStart(p)) \/ TapStop \/ TapHold \/ TapResume
  BY <1>1, <1>4, EnqueueOInv DEF TapStart, TapStop, TapHold, TapResume
<1>5. CASE Beat \/ UNCHANGED vars
  <2>1. QueueOK' /\ BookedOK' /\ RowAhead' /\ SpanOK' /\ twice' = {}
    BY <1>5 DEF Beat, vars, OInv, QueueOK, BookedOK, RowAhead, SpanOK, Floor, Held
  <2> QED BY <1>1, <2>1 DEF OInv
<1> QED BY <1>2, <1>3, <1>4, <1>5 DEF Next

\* As long as one loop at a time replays the queue, no moment of the person's
\* time is recorded twice, whatever they tap, however late the taps arrive and
\* wherever a request fails and its tap is sent again.
THEOREM NothingRecordedTwice == OneLoop /\ Spec => []RecordedOnce
<1>1. OInv => RecordedOnce
  BY DEF OInv, RecordedOnce
<1>2. OneLoop /\ Init => OInv
  BY InitOInv
<1>3. ASSUME OneLoop PROVE OInv /\ [Next]_vars => OInv'
  BY <1>3, NextOInv
<1>4. ASSUME OneLoop PROVE Spec => []RecordedOnce
  BY <1>1, <1>2, <1>3, <1>4, PTL DEF Spec
<1> QED BY <1>4

-----------------------------------------------------------------------------
(* One loop at a time: what is recorded is what was worked.  The invariant *)
(* follows the person tap by tap, and says which tap the row has reached.  *)

Moods == [on : Projects \cup {None}, off : BOOLEAN]
AtFirst == [on |-> None, off |-> FALSE]

\* A person in mood x makes the tap and is in mood y.
Follows(x, tap, y) ==
    \/ tap.action = "start" /\ y = [on |-> tap.project, off |-> FALSE]
    \/ tap.action = "stop" /\ x.on # None /\ y = AtFirst
    \/ tap.action = "hold" /\ x.on # None /\ ~ x.off /\ y = [on |-> x.on, off |-> TRUE]
    \/ tap.action = "resume" /\ x.off /\ y = [on |-> x.on, off |-> FALSE]

Instant(n) == IF n = 0 THEN 0 ELSE taps[n].at

\* What somebody in mood x works on.
Busy(x) == IF x.off THEN None ELSE x.on

\* m[n] is the person's mood from tap n to the next one, and what they worked then.
Moment(n, t) == Instant(n) <= t /\ t < now /\ (n < Len(taps) => t < Instant(n + 1))
Tale(m) ==
    /\ m \in [0 .. Len(taps) -> Moods]
    /\ m[0] = AtFirst
    /\ m[Len(taps)] = [on |-> doing, off |-> paused]
    /\ \A n \in 0 .. Len(taps) : m[n].off => m[n].on # None
    /\ \A n \in TapNumbers : Follows(m[n - 1], taps[n], m[n])
    /\ \A n \in 0 .. Len(taps), t \in Units : Moment(n, t) => worked[t] = Busy(m[n])

\* The row times what the person did after k taps.
RowIs(m, k) ==
    /\ running = m[k].on
    /\ running # None => Floor = Instant(k) /\ (Held <=> m[k].off)

\* What was worked and is not booked, nor in hand to be, nor gone for one of the two
\* reasons there are.
InHand(t) == \E d \in Drains : pc[d] = "recording" /\ t \in Times(d)
Missing ==
    {t \in Units : /\ t < now /\ worked[t] # None /\ <<worked[t], t>> \notin booked
                   /\ t \notin trimmed \cup lost /\ ~ InHand(t)}
AccountedTo(x) == \A t \in Missing : x <= t

\* The row has reached the tap before f, the first one waiting; or f itself, if an
\* earlier request of it got as far; or has been cleared for it.
RowTells(m, f) ==
    \/ RowIs(m, f - 1) /\ AccountedTo(Instant(f - 1))
    \/ /\ f \in TapNumbers /\ AccountedTo(Instant(f))
       /\ RowIs(m, f) \/ (running = None /\ taps[f].action \in {"start", "stop"})

HandTells(d, m, f) ==
    /\ pc[d] \in {"clearing", "saving", "recording"} => \A t \in Times(d) : worked[t] = of[d]
    /\ pc[d] = "clearing" =>
          /\ running # None /\ AccountedTo(from[d])
          /\ \A t \in Units : from[d] <= t /\ t < Instant(f) /\ worked[t] # None
                                => t \in Times(d) \cup trimmed
    /\ pc[d] = "saving" =>
          /\ RowIs(m, f - 1) /\ running # None /\ to[d] = Instant(f)
          /\ Held <=> taps[f].action = "resume"
          /\ from[d] = IF Held THEN to[d] ELSE start
    /\ pc[d] = "recording" =>
          /\ AccountedTo(Instant(f))
          /\ IF taps[f].action = "hold" THEN RowIs(m, f)
             ELSE running = None /\ taps[f].action \in {"start", "stop"}
    /\ pc[d] = "starting" => running = None
    /\ pc[d] \in {"answered", "refused"} => RowIs(m, f) /\ AccountedTo(Instant(f))

WorkedInv(m, f) ==
    /\ Tale(m)
    /\ f \in 1 .. Len(taps) + 1
    /\ waiting = f .. Len(taps)
    /\ RowTells(m, f)
    /\ \A d \in Drains : HandTells(d, m, f)
    /\ BookedWasWorked

AInv ==
    OInv /\ \E m \in [0 .. Len(taps) -> Moods], f \in 1 .. Len(taps) + 1 : WorkedInv(m, f)

-----------------------------------------------------------------------------
(* What the invariant says of the first tap waiting.                       *)

\* The tap a loop has sent is tap f, and the clamp leaves its instant alone.
LEMMA SentIsHead ==
    ASSUME OInv, NEW m, NEW f, WorkedInv(m, f), NEW d \in Drains, todo[d] # {}
    PROVE  /\ NextTap(todo[d]) = f /\ f \in TapNumbers /\ Sent(d) = taps[f]
           /\ Instant(f) = taps[f].at /\ Instant(f) \in Nat /\ Instant(f) <= now
           /\ Sent(d).at = Instant(f)
           /\ running # None => Floor <= Instant(f) /\ Clamp(Sent(d).at) = Instant(f)
<1>1. TInv /\ TypeOK
  BY DEF OInv, TInv
<1>2. /\ NextTap(todo[d]) \in todo[d] /\ NextTap(todo[d]) \in TapNumbers
      /\ \A k \in todo[d] : NextTap(todo[d]) <= k
  BY <1>1, SentType
<1>3. NextTap(todo[d]) \in waiting /\ \A n \in waiting \ todo[d] : NextTap(todo[d]) <= n
  BY <1>2 DEF OInv, QueueOK
<1>4. f \in Nat \ {0} /\ Len(taps) \in Nat /\ waiting = f .. Len(taps)
  BY <1>1 DEF WorkedInv, TypeOK
<1>5. NextTap(todo[d]) \in Nat /\ f <= NextTap(todo[d]) /\ f \in waiting
  BY <1>3, <1>4 DEF TapNumbers
<1>6. NextTap(todo[d]) = f
  BY <1>2, <1>3, <1>4, <1>5
<1>7. Sent(d) = taps[f] /\ Instant(f) = taps[f].at
  BY <1>4, <1>6 DEF Sent, Instant
<1> QED BY <1>1, <1>2, <1>6, <1>7, SentIsFirst

\* The instants of the taps, and their order.
LEMMA Instants ==
    ASSUME TInv, NEW n \in 0 .. Len(taps)
    PROVE  Instant(n) \in Nat /\ Instant(n) <= now
BY Numbers, TapType DEF TInv, TypeOK, TapsOK, TapNumbers, Time, Instant

\* Between two taps the person did what they did after the first.
LEMMA WorkedBetween ==
    ASSUME TInv, NEW m, Tale(m), NEW f \in TapNumbers, NEW t \in Units,
           Instant(f - 1) <= t, t < Instant(f)
    PROVE  t < now /\ worked[t] = Busy(m[f - 1])
<1>1. Len(taps) \in Nat /\ f \in 1 .. Len(taps) /\ now \in Nat /\ t \in Int
  BY DEF TInv, TypeOK, TapNumbers, Time, Units
<1>2. f - 1 \in 0 .. Len(taps) /\ f - 1 < Len(taps) /\ (f - 1) + 1 = f /\ f \in 0 .. Len(taps)
  BY <1>1
<1>3. Instant(f) \in Nat /\ Instant(f) <= now
  BY <1>2, Instants
<1>4. Moment(f - 1, t)
  BY <1>1, <1>2, <1>3 DEF Moment
<1> QED BY <1>1, <1>2, <1>3, <1>4 DEF Tale

\* The moods around tap f.
LEMMA MoodsAround ==
    ASSUME TypeOK, NEW m, Tale(m), NEW f \in TapNumbers
    PROVE  /\ Follows(m[f - 1], taps[f], m[f])
           /\ m[f - 1].on \in Projects \cup {None} /\ m[f - 1].off \in BOOLEAN
           /\ m[f - 1].off => m[f - 1].on # None
<1>1. Len(taps) \in Nat /\ f - 1 \in 0 .. Len(taps)
  BY DEF TypeOK, TapNumbers
<1>2. m[f - 1] \in Moods
  BY <1>1 DEF Tale
<1> QED BY <1>1, <1>2 DEF Tale, Moods

\* Where no row is, all is accounted for up to the tap being replayed.
LEMMA NothingTimed ==
    ASSUME TInv, NEW m, NEW f \in TapNumbers, Tale(m), RowTells(m, f), running = None
    PROVE  AccountedTo(Instant(f))
<1>1. CASE RowIs(m, f - 1) /\ AccountedTo(Instant(f - 1))
  <2>1. Busy(m[f - 1]) = None
    BY <1>1 DEF RowIs, Busy
  <2> SUFFICES ASSUME NEW t \in Missing, ~ (Instant(f) <= t) PROVE FALSE
    BY DEF AccountedTo
  <2>2. t \in Units /\ worked[t] # None /\ Instant(f - 1) <= t
    BY <1>1 DEF Missing, AccountedTo
  <2>3. t < Instant(f)
    <3>1. Len(taps) \in Nat /\ f \in 0 .. Len(taps)
      BY DEF TInv, TypeOK, TapNumbers
    <3> QED BY <2>2, <3>1, Instants DEF Units
  <2> QED BY <2>1, <2>2, <2>3, WorkedBetween
<1> QED BY <1>1 DEF RowTells

-----------------------------------------------------------------------------
(* Each step keeps it.                                                     *)

\* What a request leaves alone.
LEMMA SameTale ==
    ASSUME NEW m, NEW f, WorkedInv(m, f), UNCHANGED <<person, waiting>>
    PROVE  /\ Tale(m)' /\ (f \in 1 .. Len(taps) + 1)' /\ (waiting = f .. Len(taps))'
           /\ Instant(f)' = Instant(f) /\ Instant(f - 1)' = Instant(f - 1)
           /\ TapNumbers' = TapNumbers
BY DEF WorkedInv, Tale, Moment, Instant, TapNumbers

\* A row that is not touched tells the same, if nothing goes missing.
LEMMA SameRow ==
    ASSUME NEW m, NEW f, WorkedInv(m, f), UNCHANGED <<person, waiting, running, start, held>>,
           Missing' \subseteq Missing
    PROVE  /\ RowTells(m, f)'
           /\ RowIs(m, f - 1) => RowIs(m, f - 1)'
           /\ RowIs(m, f) => RowIs(m, f)'
           /\ AccountedTo(Instant(f)) => AccountedTo(Instant(f))'
           /\ \A x : AccountedTo(x) => \A t \in Missing' : x <= t
<1>1. /\ Instant(f)' = Instant(f) /\ Instant(f - 1)' = Instant(f - 1) /\ taps' = taps
      /\ TapNumbers' = TapNumbers
  BY SameTale
<1>2. /\ RowIs(m, f - 1) => RowIs(m, f - 1)'
      /\ RowIs(m, f) => RowIs(m, f)'
  BY <1>1 DEF RowIs, Floor, Held
<1>3. /\ AccountedTo(Instant(f)) => AccountedTo(Instant(f))'
      /\ AccountedTo(Instant(f - 1)) => AccountedTo(Instant(f - 1))'
      /\ \A x : AccountedTo(x) => \A t \in Missing' : x <= t
  BY <1>1 DEF AccountedTo
<1>4. RowTells(m, f)'
  BY <1>1, <1>2, <1>3 DEF WorkedInv, RowTells
<1> QED BY <1>2, <1>3, <1>4

\* The loop begins, sends or ends.
LEMMA QuietWorked ==
    ASSUME OneLoop, OInv, NEW m, NEW f, WorkedInv(m, f), NEW d \in Drains,
           BeginDrain(d) \/ Send(d) \/ EndDrain(d)
    PROVE  WorkedInv(m, f)'
<1> USE DEF BeginDrain, Send, EndDrain
<1>1. TypeOK /\ pc \in [Drains -> Labels]
  BY DEF OInv, TInv, TypeOK
<1>2. UNCHANGED <<person, waiting, row, booked, trimmed, lost, span>>
  BY DEF record
<1>3. pc[d] \in {"idle", "sending"} /\ pc'[d] \in Actions \cup {"idle", "sending"}
  BY <1>1, SentType
<1>4. Missing' \subseteq Missing
  BY <1>2, <1>3 DEF OneLoop, Missing, InHand, Actions
<1>5. \A e \in Drains : HandTells(e, m, f)'
  BY <1>3 DEF OneLoop, HandTells, Actions
<1>6. BookedWasWorked'
  BY <1>2 DEF WorkedInv, BookedWasWorked
<1> QED BY <1>2, <1>4, <1>5, <1>6, SameTale, SameRow DEF WorkedInv

\* start() and stop() find no row: a stop is done, a start goes on.
LEMMA NothingToStopWorked ==
    ASSUME OneLoop, OInv, NEW m, NEW f, WorkedInv(m, f), NEW d \in Drains, NothingToStop(d)
    PROVE  WorkedInv(m, f)'
<1> USE DEF NothingToStop
<1>1. TInv /\ TypeOK /\ pc \in [Drains -> Labels] /\ AtWork(d)
  BY DEF OInv, TInv, TypeOK, LoopOK
<1>2. UNCHANGED <<person, waiting, row, booked, trimmed, lost, span>>
  BY DEF record
<1>3. f \in TapNumbers /\ Sent(d) = taps[f] /\ taps[f].action = pc[d]
  BY <1>1, SentIsHead DEF AtWork, Actions
<1>4. Missing' \subseteq Missing
  BY <1>1, <1>2 DEF OneLoop, Missing, InHand
<1>5. AccountedTo(Instant(f))'
  BY <1>1, <1>2, <1>3, <1>4, NothingTimed, SameRow DEF WorkedInv
<1>6. pc[d] = "stop" => RowIs(m, f)'
  <2>1. pc[d] = "stop" => m[f] = AtFirst
    BY <1>1, <1>3, MoodsAround DEF Follows, WorkedInv
  <2> QED BY <1>2, <2>1 DEF RowIs, AtFirst
<1>7. HandTells(d, m, f)'
  BY <1>1, <1>2, <1>5, <1>6 DEF HandTells
<1>8. \A e \in Drains : HandTells(e, m, f)'
  BY <1>7 DEF OneLoop
<1>9. BookedWasWorked'
  BY <1>2 DEF WorkedInv, BookedWasWorked
<1> QED BY <1>2, <1>4, <1>8, <1>9, SameTale, SameRow DEF WorkedInv

\* Only what was done before is refused.
LEMMA RefuseWorked ==
    ASSUME OneLoop, OInv, NEW m, NEW f, WorkedInv(m, f), NEW d \in Drains, Refuse(d)
    PROVE  WorkedInv(m, f)'
<1> USE DEF Refuse
<1>1. TInv /\ TypeOK /\ pc \in [Drains -> Labels] /\ AtWork(d)
  BY DEF OInv, TInv, TypeOK, LoopOK
<1>2. UNCHANGED <<person, waiting, row, booked, trimmed, lost, span>>
  BY DEF record
<1>3. f \in TapNumbers /\ Sent(d) = taps[f] /\ taps[f].action = pc[d]
  BY <1>1, SentIsHead DEF AtWork, Actions
<1>4. Missing' \subseteq Missing
  BY <1>1, <1>2 DEF OneLoop, Missing, InHand
<1>5. ~ RowIs(m, f - 1)
  <2>1. /\ Follows(m[f - 1], taps[f], m[f])
        /\ m[f - 1].off \in BOOLEAN /\ (m[f - 1].off => m[f - 1].on # None)
    BY <1>1, <1>3, MoodsAround DEF WorkedInv
  <2>2. /\ pc[d] = "hold" => m[f - 1].on # None /\ ~ m[f - 1].off
        /\ pc[d] = "resume" => m[f - 1].on # None /\ m[f - 1].off
    BY <1>3, <2>1 DEF Follows
  <2> QED BY <2>2 DEF RowIs
<1>6. RowIs(m, f) /\ AccountedTo(Instant(f))
  BY <1>3, <1>5 DEF WorkedInv, RowTells
<1>7. RowIs(m, f)' /\ AccountedTo(Instant(f))' /\ RowTells(m, f)'
  BY <1>2, <1>4, <1>6, SameRow
<1>8. \A e \in Drains : HandTells(e, m, f)'
  BY <1>1, <1>7 DEF OneLoop, HandTells
<1>9. BookedWasWorked'
  BY <1>2 DEF WorkedInv, BookedWasWorked
<1> QED BY <1>2, <1>7, <1>8, <1>9, SameTale DEF WorkedInv

\* The tap is done with, and the row has reached it.
LEMMA ForgetWorked ==
    ASSUME OneLoop, OInv, NEW m, NEW f, WorkedInv(m, f), NEW d \in Drains,
           Answered(d) \/ Refused(d)
    PROVE  WorkedInv(m, f + 1)'
<1> USE DEF Answered, Refused, Forget
<1>1. TInv /\ TypeOK /\ pc \in [Drains -> Labels] /\ AtWork(d) /\ Len(taps) \in Nat
  BY DEF OInv, TInv, TypeOK, LoopOK
<1>2. UNCHANGED <<person, row, booked, trimmed, lost>> /\ pc[d] \in {"answered", "refused"}
  BY DEF record
<1>3. NextTap(todo[d]) = f /\ f \in TapNumbers
  BY <1>1, <1>2, SentIsHead DEF AtWork
<1>4. RowIs(m, f) /\ AccountedTo(Instant(f))
  BY <1>2 DEF WorkedInv, HandTells
<1>5. pc'[d] = "sending"
  BY <1>1
<1>6. Missing' \subseteq Missing
  BY <1>2, <1>5 DEF OneLoop, Missing, InHand
<1>7. f \in 1 .. Len(taps) /\ waiting' = (f + 1) .. Len(taps) /\ (f + 1) - 1 = f
  <2>1. waiting' = waiting \ {f} /\ waiting = f .. Len(taps) /\ f \in 1 .. Len(taps)
    BY <1>3 DEF WorkedInv, TapNumbers
  <2> QED BY <1>1, <2>1
<1>8. Instant(f)' = Instant(f) /\ taps' = taps /\ Tale(m)'
  BY <1>2 DEF Instant, WorkedInv, Tale, Moment, TapNumbers
<1>9. RowIs(m, f)' /\ AccountedTo(Instant(f))'
  BY <1>2, <1>4, <1>6, <1>8 DEF RowIs, AccountedTo, Floor, Held
<1>10. RowTells(m, f + 1)'
  BY <1>7, <1>9 DEF RowTells
<1>11. \A e \in Drains : HandTells(e, m, f + 1)'
  BY <1>5 DEF OneLoop, HandTells
<1>12. BookedWasWorked'
  BY <1>2 DEF WorkedInv, BookedWasWorked
<1> QED BY <1>1, <1>7, <1>8, <1>10, <1>11, <1>12 DEF WorkedInv

\* A failure takes the span in hand with it, and leaves the row.
LEMMA FailWorked ==
    ASSUME OneLoop, OInv, NEW m, NEW f, WorkedInv(m, f), NEW d \in Drains, Fail(d)
    PROVE  WorkedInv(m, f)'
<1> USE DEF Fail
<1>1. pc \in [Drains -> Labels]
  BY DEF OInv, TInv, TypeOK
<1>2. UNCHANGED <<person, waiting, row, booked, trimmed>> /\ pc'[d] = "idle"
  BY <1>1 DEF record
<1>3. Missing' \subseteq Missing
  BY <1>2 DEF OneLoop, Missing, InHand
<1>4. \A e \in Drains : HandTells(e, m, f)'
  BY <1>2 DEF OneLoop, HandTells
<1>5. BookedWasWorked'
  BY <1>2 DEF WorkedInv, BookedWasWorked
<1> QED BY <1>2, <1>3, <1>4, <1>5, SameTale, SameRow DEF WorkedInv

\* The span from the row to the tap: worked, all of it, or trimmed.
LEMMA ReadToStopWorked ==
    ASSUME OneLoop, OInv, NEW m, NEW f, WorkedInv(m, f), NEW d \in Drains, ReadToStop(d)
    PROVE  WorkedInv(m, f)'
<1> USE DEF ReadToStop
<1>1. TInv /\ TypeOK /\ LoopType /\ AtWork(d)
  BY TypeParts DEF OInv, TInv, LoopOK
<1>2. UNCHANGED <<person, waiting, row, booked, lost>> /\ trimmed \subseteq trimmed'
  BY DEF record
<1>3. /\ f \in TapNumbers /\ Clamp(Sent(d).at) = Instant(f) /\ Floor <= Instant(f)
      /\ Instant(f) \in Nat /\ Instant(f) <= now
  BY <1>1, SentIsHead DEF AtWork, Actions
<1>4. /\ of'[d] = running /\ from'[d] = Floor /\ to'[d] = EndOfSpan(Instant(f))
      /\ pc'[d] = "clearing" /\ pc[d] # "recording"
      /\ Abandoned(Instant(f)) => trimmed' = trimmed \cup seen .. Instant(f) - 1
  BY <1>1, <1>3 DEF LoopType
<1>5. Missing' \subseteq Missing
  BY <1>2, <1>4 DEF OneLoop, Missing, InHand
<1>6. now \in Nat /\ start \in Nat /\ seen \in Nat /\ Floor \in Nat /\ now <= MaxTime
      /\ start <= seen
  BY <1>1, Numbers DEF TypeOK, Time
<1>7. EndOfSpan(Instant(f)) \in Int /\ EndOfSpan(Instant(f)) <= Instant(f)
      /\ (Held => EndOfSpan(Instant(f)) = Floor)
      /\ (~ Held /\ ~ Abandoned(Instant(f)) => EndOfSpan(Instant(f)) = Instant(f))
      /\ (Abandoned(Instant(f)) => EndOfSpan(Instant(f)) = seen)
  BY <1>3, <1>6, TimerAssumption DEF EndOfSpan, Abandoned, Floor
<1>8. \A t \in Times(d)' : t \in Units /\ Floor <= t /\ t < Instant(f)
  BY <1>3, <1>4, <1>6, <1>7, TimerAssumption DEF Times, Units
<1>9. /\ AccountedTo(Floor)
      /\ \A t \in Times(d)' : worked[t] = running
      /\ \A t \in Units : Floor <= t /\ t < Instant(f) /\ worked[t] # None
                            => t \in Times(d)' \cup trimmed'
  <2>1. CASE RowIs(m, f)
    <3>1. Floor = Instant(f)
      BY <2>1 DEF RowIs
    <3>2. AccountedTo(Instant(f)) \/ (RowIs(m, f - 1) /\ AccountedTo(Instant(f - 1)))
      BY DEF WorkedInv, RowTells
    <3>3. AccountedTo(Floor)
      BY <3>1, <3>2 DEF RowIs
    <3> QED BY <1>3, <1>6, <1>8, <3>1, <3>3 DEF Units
  <2>2. CASE RowIs(m, f - 1) /\ AccountedTo(Instant(f - 1))
    <3>1. Floor = Instant(f - 1) /\ (Held <=> m[f - 1].off) /\ m[f - 1].on = running
      BY <2>2 DEF RowIs
    <3>2. \A t \in Units : Floor <= t /\ t < Instant(f)
                             => worked[t] = IF Held THEN None ELSE running
      BY <1>1, <1>3, <3>1, WorkedBetween DEF WorkedInv, Busy
    <3>3. \A t \in Times(d)' : ~ Held
      BY <1>4, <1>6, <1>7 DEF Times
    <3>4. \A t \in Times(d)' : worked[t] = running
      BY <1>8, <3>2, <3>3
    <3>5. ASSUME NEW t \in Units, Floor <= t, t < Instant(f), worked[t] # None
          PROVE  t \in Times(d)' \cup trimmed'
      <4>1. ~ Held /\ t \in Int
        BY <3>2, <3>5 DEF Units
      <4>2. CASE Abandoned(Instant(f))
        BY <1>3, <1>4, <1>6, <1>7, <3>5, <4>1, <4>2 DEF Times
      <4>3. CASE ~ Abandoned(Instant(f))
        BY <1>3, <1>4, <1>6, <1>7, <3>5, <4>1, <4>3 DEF Times
      <4> QED BY <4>2, <4>3
    <3> QED BY <2>2, <3>1, <3>4, <3>5
  <2> QED BY <2>1, <2>2 DEF WorkedInv, RowTells
<1>10. Instant(f)' = Instant(f)
  BY <1>2 DEF Instant
<1>11. HandTells(d, m, f)'
  <2>1. AccountedTo(from[d])'
    BY <1>4, <1>5, <1>9 DEF AccountedTo
  <2> QED BY <1>2, <1>4, <1>9, <1>10, <2>1 DEF HandTells
<1>12. \A e \in Drains : HandTells(e, m, f)'
  BY <1>11 DEF OneLoop
<1>13. BookedWasWorked'
  BY <1>2 DEF WorkedInv, BookedWasWorked
<1> QED BY <1>2, <1>5, <1>12, <1>13, SameTale, SameRow DEF WorkedInv

\* The row is cleared; what it timed is in hand.
LEMMA ClearWorked ==
    ASSUME OneLoop, OInv, NEW m, NEW f, WorkedInv(m, f), NEW d \in Drains, Clear(d)
    PROVE  WorkedInv(m, f)'
<1> USE DEF Clear
<1>1. TInv /\ TypeOK /\ LoopType /\ AtWork(d)
  BY TypeParts DEF OInv, TInv, LoopOK
<1>2. UNCHANGED <<person, waiting, booked, trimmed, lost, span>>
  BY DEF record
<1>3. /\ f \in TapNumbers /\ Sent(d) = taps[f] /\ taps[f].action \in {"start", "stop"}
      /\ Instant(f) \in Nat
  BY <1>1, SentIsHead DEF AtWork
<1>4. pc'[d] = "recording" /\ pc[d] = "clearing" /\ Times(d)' = Times(d) /\ running' = None
  BY <1>1 DEF LoopType, Times
<1>5. /\ AccountedTo(from[d]) /\ \A t \in Times(d) : worked[t] = of[d]
      /\ \A t \in Units : from[d] <= t /\ t < Instant(f) /\ worked[t] # None
                            => t \in Times(d) \cup trimmed
  BY <1>4 DEF WorkedInv, HandTells
<1>6. Missing' \subseteq Missing \ Times(d)
  BY <1>2, <1>4 DEF OneLoop, Missing, InHand
<1>7. Instant(f)' = Instant(f) /\ taps' = taps /\ TapNumbers' = TapNumbers
  BY <1>2 DEF Instant, TapNumbers
<1>8. AccountedTo(Instant(f))'
  <2> SUFFICES ASSUME NEW t \in Missing', ~ (Instant(f) <= t) PROVE FALSE
    BY <1>7 DEF AccountedTo
  <2>1. t \in Missing /\ t \notin Times(d) /\ from[d] <= t
    BY <1>5, <1>6 DEF AccountedTo
  <2>2. t \in Units /\ worked[t] # None /\ t \notin trimmed /\ t < Instant(f)
    BY <1>3, <2>1 DEF Missing, Units
  <2> QED BY <1>5, <2>1, <2>2
<1>9. RowTells(m, f)'
  BY <1>3, <1>4, <1>7, <1>8 DEF RowTells
<1>10. HandTells(d, m, f)'
  BY <1>2, <1>3, <1>4, <1>5, <1>7, <1>8 DEF HandTells
<1>11. \A e \in Drains : HandTells(e, m, f)'
  BY <1>10 DEF OneLoop
<1>12. BookedWasWorked'
  BY <1>2 DEF WorkedInv, BookedWasWorked
<1> QED BY <1>2, <1>9, <1>11, <1>12, SameTale DEF WorkedInv

\* What was in hand is booked, and it was worked.
LEMMA RecordWorked ==
    ASSUME OneLoop, OInv, NEW m, NEW f, WorkedInv(m, f), NEW d \in Drains, Record(d)
    PROVE  WorkedInv(m, f)'
<1> USE DEF Record
<1>1. TInv /\ TypeOK /\ LoopType /\ AtWork(d)
  BY TypeParts DEF OInv, TInv, LoopOK
<1>2. UNCHANGED <<person, waiting, row, trimmed, lost, span>>
  OBVIOUS
<1>3. f \in TapNumbers /\ Sent(d) = taps[f]
  BY <1>1, SentIsHead DEF AtWork
<1>4. /\ pc'[d] = (IF taps[f].action = "start" THEN "starting" ELSE "answered")
      /\ pc[d] = "recording"
  BY <1>1, <1>3 DEF LoopType
<1>5. /\ \A t \in Times(d) : worked[t] = of[d]
      /\ AccountedTo(Instant(f))
      /\ IF taps[f].action = "hold" THEN RowIs(m, f)
         ELSE running = None /\ taps[f].action \in {"start", "stop"}
  BY <1>4 DEF WorkedInv, HandTells
<1>6. booked' = booked \cup {of[d]} \X Times(d)
  OBVIOUS
<1>7. Missing' \subseteq Missing
  <2> SUFFICES ASSUME NEW t \in Missing' PROVE t \in Missing
    OBVIOUS
  <2>1. t \in Units /\ t < now /\ worked[t] # None /\ t \notin trimmed \cup lost
    BY <1>2 DEF Missing
  <2>2. <<worked[t], t>> \notin booked /\ <<worked[t], t>> \notin {of[d]} \X Times(d)
    BY <1>2, <1>6 DEF Missing
  <2>3. t \notin Times(d)
    BY <1>5, <2>2
  <2> QED BY <2>1, <2>2, <2>3 DEF OneLoop, Missing, InHand
<1>8. RowTells(m, f)' /\ AccountedTo(Instant(f))' /\ (RowIs(m, f) => RowIs(m, f)')
  BY <1>2, <1>5, <1>7, SameRow
<1>9. taps[f].action = "stop" => RowIs(m, f)'
  <2>1. taps[f].action = "stop" => m[f] = AtFirst
    BY <1>1, <1>3, MoodsAround DEF Follows, WorkedInv
  <2> QED BY <1>2, <1>5, <2>1 DEF RowIs, AtFirst
<1>10. HandTells(d, m, f)'
  BY <1>2, <1>4, <1>5, <1>8, <1>9 DEF HandTells
<1>11. \A e \in Drains : HandTells(e, m, f)'
  BY <1>10 DEF OneLoop
<1>12. BookedWasWorked'
  <2> SUFFICES ASSUME NEW p \in Projects, NEW t \in Units, <<p, t>> \in booked'
               PROVE  worked[t] = p
    BY <1>2 DEF BookedWasWorked
  <2>1. CASE <<p, t>> \in booked
    BY <2>1 DEF WorkedInv, BookedWasWorked
  <2>2. CASE <<p, t>> \in {of[d]} \X Times(d)
    BY <1>5, <2>2
  <2> QED BY <1>6, <2>1, <2>2
<1> QED BY <1>2, <1>8, <1>11, <1>12, SameTale DEF WorkedInv

\* The row times the new project from the tap on.
LEMMA StartWorked ==
    ASSUME OneLoop, OInv, NEW m, NEW f, WorkedInv(m, f), NEW d \in Drains, Start(d)
    PROVE  WorkedInv(m, f)'
<1> USE DEF Start
<1>1. TInv /\ TypeOK /\ LoopType /\ AtWork(d)
  BY TypeParts DEF OInv, TInv, LoopOK
<1>2. UNCHANGED <<person, waiting, booked, trimmed, lost, span>>
  BY DEF record
<1>3. /\ f \in TapNumbers /\ Sent(d) = taps[f] /\ taps[f].action = "start"
      /\ Sent(d).at = Instant(f)
  BY <1>1, SentIsHead DEF AtWork
<1>4. pc'[d] = "answered" /\ pc[d] = "starting" /\ running = None
  BY <1>1 DEF LoopType, WorkedInv, HandTells
<1>5. Missing' \subseteq Missing
  BY <1>2, <1>4 DEF OneLoop, Missing, InHand
<1>6. Instant(f)' = Instant(f) /\ taps' = taps /\ TapNumbers' = TapNumbers
  BY <1>2 DEF Instant, TapNumbers
<1>7. AccountedTo(Instant(f))'
  BY <1>1, <1>3, <1>4, <1>5, <1>6, NothingTimed DEF WorkedInv, AccountedTo
<1>8. m[f] = [on |-> taps[f].project, off |-> FALSE]
  BY <1>1, <1>3, MoodsAround DEF Follows, WorkedInv
<1>9. RowIs(m, f)'
  BY <1>3, <1>6, <1>8 DEF RowIs, Floor, Held
<1>10. RowTells(m, f)'
  BY <1>3, <1>6, <1>7, <1>9 DEF RowTells
<1>11. \A e \in Drains : HandTells(e, m, f)'
  BY <1>4, <1>7, <1>9 DEF OneLoop, HandTells
<1>12. BookedWasWorked'
  BY <1>2 DEF WorkedInv, BookedWasWorked
<1> QED BY <1>2, <1>10, <1>11, <1>12, SameTale DEF WorkedInv

\* hold() and resume() read the row: as the tap before left it.
LEMMA ReadToSaveWorked ==
    ASSUME OneLoop, OInv, NEW m, NEW f, WorkedInv(m, f), NEW d \in Drains, ReadToSave(d)
    PROVE  WorkedInv(m, f)'
<1> USE DEF ReadToSave
<1>1. TInv /\ TypeOK /\ LoopType /\ AtWork(d)
  BY TypeParts DEF OInv, TInv, LoopOK
<1>2. UNCHANGED <<person, waiting, row, booked, trimmed, lost>>
  BY DEF record
<1>3. /\ f \in TapNumbers /\ taps[f].action = pc[d] /\ Clamp(Sent(d).at) = Instant(f)
      /\ Instant(f) \in Nat /\ Instant(f) <= now
  BY <1>1, SentIsHead DEF AtWork, Actions
<1>4. /\ of'[d] = running /\ from'[d] = (IF Held THEN Instant(f) ELSE start)
      /\ to'[d] = Instant(f) /\ pc'[d] = "saving" /\ pc[d] # "recording"
  BY <1>1, <1>3 DEF LoopType
<1>5. Missing' \subseteq Missing
  BY <1>2, <1>4 DEF OneLoop, Missing, InHand
<1>6. RowIs(m, f - 1)
  <2>1. ~ RowIs(m, f)
    <3>1. Follows(m[f - 1], taps[f], m[f])
      BY <1>1, <1>3, MoodsAround DEF WorkedInv
    <3>2. /\ pc[d] = "hold" => m[f].off = TRUE
          /\ pc[d] = "resume" => m[f].off = FALSE
      BY <1>3, <3>1 DEF Follows
    <3> QED BY <3>2 DEF RowIs
  <2> QED BY <1>3, <2>1 DEF WorkedInv, RowTells
<1>7. Instant(f)' = Instant(f) /\ taps' = taps /\ Held' = Held
  BY <1>2 DEF Instant, Held
<1>8. Held <=> taps[f].action = "resume"
  BY <1>3
<1>9. \A t \in Times(d)' : worked[t] = running
  <2> SUFFICES ASSUME NEW t \in Times(d)' PROVE worked[t] = running
    OBVIOUS
  <2>1. ~ Held /\ t \in Int /\ start <= t /\ t < Instant(f) /\ Floor = start /\ start \in Nat
    BY <1>1, <1>3, <1>4 DEF Times, Floor, TypeOK, Time
  <2>2. t \in Units /\ Instant(f - 1) <= t
    <3>1. now \in Nat /\ now <= MaxTime
      BY <1>1 DEF TypeOK, Time
    <3> QED BY <1>3, <1>6, <2>1, <3>1 DEF Units, RowIs
  <2> QED BY <1>1, <1>3, <1>6, <2>1, <2>2, WorkedBetween DEF WorkedInv, RowIs, Busy
<1>10. RowIs(m, f - 1)'
  BY <1>2, <1>5, <1>6, SameRow
<1>11. HandTells(d, m, f)'
  BY <1>2, <1>4, <1>7, <1>8, <1>9, <1>10 DEF HandTells
<1>12. \A e \in Drains : HandTells(e, m, f)'
  BY <1>11 DEF OneLoop
<1>13. BookedWasWorked'
  BY <1>2 DEF WorkedInv, BookedWasWorked
<1> QED BY <1>2, <1>5, <1>12, <1>13, SameTale, SameRow DEF WorkedInv

\* A hold takes the span so far in hand, and the row waits at the tap; a resume goes on
\* from the tap.
LEMMA SaveWorked ==
    ASSUME OneLoop, OInv, NEW m, NEW f, WorkedInv(m, f), NEW d \in Drains, Save(d)
    PROVE  WorkedInv(m, f)'
<1> USE DEF Save
<1>1. TInv /\ TypeOK /\ LoopType /\ AtWork(d)
  BY TypeParts DEF OInv, TInv, LoopOK
<1>2. UNCHANGED <<person, waiting, booked, trimmed, lost, span>>
  BY DEF record
<1>3. /\ f \in TapNumbers /\ Sent(d) = taps[f] /\ taps[f].action \in {"hold", "resume"}
      /\ Instant(f) \in Nat /\ Instant(f) <= now
  BY <1>1, SentIsHead DEF AtWork
<1>4. /\ RowIs(m, f - 1) /\ running # None /\ to[d] = Instant(f)
      /\ (Held <=> taps[f].action = "resume")
      /\ from[d] = (IF Held THEN to[d] ELSE start)
      /\ \A t \in Times(d) : worked[t] = of[d]
  BY DEF WorkedInv, HandTells
<1>5. /\ pc[d] = "saving" /\ Times(d)' = Times(d)
      /\ pc'[d] = (IF taps[f].action = "hold" THEN "recording" ELSE "answered")
  BY <1>1, <1>3 DEF LoopType, Times
<1>6. Missing' \subseteq Missing
  BY <1>2, <1>5 DEF OneLoop, Missing, InHand
<1>7. Instant(f)' = Instant(f) /\ taps' = taps /\ TapNumbers' = TapNumbers
  BY <1>2 DEF Instant, TapNumbers
<1>8. /\ Follows(m[f - 1], taps[f], m[f]) /\ m[f - 1].on = running
      /\ (Held <=> m[f - 1].off) /\ Floor = Instant(f - 1)
  BY <1>1, <1>3, <1>4, MoodsAround DEF WorkedInv, RowIs
<1>9. RowIs(m, f)'
  <2>1. /\ running' = running /\ m[f].on = running
        /\ m[f].off <=> taps[f].action = "hold"
    BY <1>3, <1>4, <1>8 DEF Follows
  <2>2. held' = (IF taps[f].action = "hold" THEN Instant(f) ELSE NotHeld) /\ start' = from[d]
    BY <1>3, <1>4
  <2>3. (Held' <=> taps[f].action = "hold") /\ Floor' = Instant(f)
    BY <1>3, <1>4, <2>2 DEF Held, Floor
  <2> QED BY <1>7, <2>1, <2>3 DEF RowIs
<1>10. AccountedTo(Instant(f))'
  <2> SUFFICES ASSUME NEW t \in Missing', ~ (Instant(f) <= t) PROVE FALSE
    BY <1>7 DEF AccountedTo
  <2>1. t \in Missing /\ t \in Units /\ worked[t] # None /\ t < Instant(f)
    BY <1>3, <1>6 DEF Missing, Units
  <2>2. AccountedTo(Instant(f - 1))
    BY <1>3, <1>4, <2>1 DEF WorkedInv, RowTells, AccountedTo
  <2>3. Instant(f - 1) <= t /\ worked[t] = Busy(m[f - 1])
    BY <1>1, <1>3, <2>1, <2>2, WorkedBetween DEF WorkedInv, AccountedTo
  <2>4. ~ Held
    BY <1>8, <2>1, <2>3 DEF Busy
  <2>5. t \in Times(d)
    BY <1>1, <1>3, <1>4, <1>8, <2>1, <2>3, <2>4 DEF Times, Floor, TypeOK, Time, Units
  <2>6. pc'[d] = "recording"
    BY <1>3, <1>4, <1>5, <2>4
  <2> QED BY <1>5, <2>5, <2>6 DEF Missing, InHand
<1>11. RowTells(m, f)'
  BY <1>3, <1>7, <1>9, <1>10 DEF RowTells
<1>12. HandTells(d, m, f)'
  BY <1>2, <1>3, <1>4, <1>5, <1>7, <1>9, <1>10 DEF HandTells
<1>13. \A e \in Drains : HandTells(e, m, f)'
  BY <1>12 DEF OneLoop
<1>14. BookedWasWorked'
  BY <1>2 DEF WorkedInv, BookedWasWorked
<1> QED BY <1>2, <1>11, <1>13, <1>14, SameTale DEF WorkedInv

\* A heartbeat moves nothing the invariant relates.
LEMMA BeatWorked ==
    ASSUME NEW m, NEW f, WorkedInv(m, f), Beat \/ UNCHANGED vars
    PROVE  WorkedInv(m, f)'
<1>1. /\ UNCHANGED <<person, waiting, running, start, held, booked, trimmed, lost, pc, todo, span>>
  BY DEF Beat, vars, record
<1>2. Missing' = Missing
  BY <1>1 DEF Missing, InHand, Times
<1>3. RowTells(m, f)' /\ (RowIs(m, f - 1) => RowIs(m, f - 1)') /\ (RowIs(m, f) => RowIs(m, f)')
  BY <1>1, <1>2, SameRow
<1>4. \A d \in Drains : HandTells(d, m, f)'
  <2> SUFFICES ASSUME NEW d \in Drains PROVE HandTells(d, m, f)'
    OBVIOUS
  <2>1. HandTells(d, m, f) /\ Instant(f)' = Instant(f) /\ Times(d)' = Times(d) /\ Held' = Held
    BY <1>1, SameTale DEF WorkedInv, Times, Held
  <2>2. \A x : AccountedTo(x) <=> \A t \in Missing' : x <= t
    BY <1>2 DEF AccountedTo
  <2>3. /\ AccountedTo(Instant(f)) => AccountedTo(Instant(f))'
        /\ AccountedTo(from[d]) => AccountedTo(from[d])'
    BY <1>1, <2>1, <2>2 DEF AccountedTo
  <2> QED BY <1>1, <1>3, <2>1, <2>3 DEF HandTells
<1>5. BookedWasWorked'
  BY <1>1 DEF WorkedInv, BookedWasWorked
<1> QED BY <1>1, <1>3, <1>4, <1>5, SameTale DEF WorkedInv

\* Time passes, and is worked as the last tap said.
LEMMA TickWorked ==
    ASSUME OInv, NEW m, NEW f, WorkedInv(m, f), Tick
    PROVE  WorkedInv(m, f)'
<1>1. TInv /\ TypeOK /\ now \in Units /\ Len(taps) \in Nat /\ now \in Nat
  BY DEF OInv, TInv, TypeOK, Time, Units, Tick
<1>2. /\ UNCHANGED <<doing, paused, taps, waiting, row, booked, trimmed, lost, pc, todo, span>>
      /\ now' = now + 1
      /\ worked' = [worked EXCEPT ![now] = IF paused THEN None ELSE doing]
  BY DEF Tick, record
<1>3. m[Len(taps)] = [on |-> doing, off |-> paused]
  BY DEF WorkedInv, Tale
<1>4. /\ \A t \in Units : t # now => worked'[t] = worked[t]
      /\ worked'[now] = Busy(m[Len(taps)])
  BY <1>1, <1>2, <1>3 DEF TypeOK, Busy
<1>5. \A n \in 0 .. Len(taps) : Instant(n) \in Nat /\ Instant(n) <= now /\ Instant(n)' = Instant(n)
  BY <1>1, <1>2, Instants DEF Instant
<1>6. Tale(m)'
  <2>1. ASSUME NEW n \in 0 .. Len(taps), NEW t \in Units, Moment(n, t)'
        PROVE  worked'[t] = Busy(m[n])
    <3>1. /\ Instant(n) <= t /\ t < now + 1 /\ t \in Int
          /\ n < Len(taps) => n + 1 \in 0 .. Len(taps) /\ t < Instant(n + 1)
      BY <1>1, <1>2, <1>5, <2>1 DEF Moment, Units, Instant
    <3>2. CASE t = now
      <4>1. n = Len(taps)
        BY <1>1, <1>5, <3>1, <3>2
      <4> QED BY <1>4, <3>2, <4>1
    <3>3. CASE t # now
      <4>1. Moment(n, t)
        BY <1>1, <3>1, <3>3 DEF Moment
      <4> QED BY <1>4, <3>3, <4>1 DEF WorkedInv, Tale
    <3> QED BY <3>2, <3>3
  <2> QED BY <1>2, <2>1 DEF WorkedInv, Tale, TapNumbers
<1>7. Missing' \subseteq Missing \cup {now}
  <2> SUFFICES ASSUME NEW t \in Missing', t # now PROVE t \in Missing
    OBVIOUS
  <2>1. t \in Units /\ t < now /\ worked[t] = worked'[t]
    BY <1>1, <1>2, <1>4 DEF Missing, Units
  <2> QED BY <1>2, <2>1 DEF Missing, InHand, Times
<1>8. \A x : x <= now /\ AccountedTo(x) => \A t \in Missing' : x <= t
  BY <1>7 DEF AccountedTo
<1>9. f \in 1 .. Len(taps) + 1 /\ f - 1 \in 0 .. Len(taps) /\ (f \in TapNumbers => f \in 0 .. Len(taps))
  BY <1>1 DEF WorkedInv, TapNumbers
<1>10. /\ AccountedTo(Instant(f - 1)) => AccountedTo(Instant(f - 1))'
       /\ f \in TapNumbers /\ AccountedTo(Instant(f)) => AccountedTo(Instant(f))'
  BY <1>5, <1>8, <1>9 DEF AccountedTo
<1>11. /\ RowIs(m, f - 1) => RowIs(m, f - 1)'
       /\ f \in TapNumbers /\ RowIs(m, f) => RowIs(m, f)'
  BY <1>2, <1>5, <1>9 DEF RowIs, Floor, Held
<1>12. RowTells(m, f)'
  BY <1>2, <1>10, <1>11 DEF WorkedInv, RowTells, TapNumbers
<1>13. \A d \in Drains : HandTells(d, m, f)'
  <2> SUFFICES ASSUME NEW d \in Drains PROVE HandTells(d, m, f)'
    OBVIOUS
  <2>1. HandTells(d, m, f) /\ Times(d)' = Times(d) /\ Held' = Held
    BY <1>2 DEF WorkedInv, Times, Held
  <2>2. CASE pc[d] \in {"clearing", "saving", "recording", "starting", "answered", "refused"}
    <3>1. f \in TapNumbers
      BY <1>1, <2>2, SentIsHead DEF TInv, LoopOK, AtWork
    <3>2. /\ from[d] \in Nat /\ to[d] \in Nat /\ from[d] <= now /\ to[d] <= now
      BY <1>1, Numbers
    <3>3. \A t \in Times(d) : t \in Units /\ t # now
      BY <1>1, <3>2 DEF Times, Units
    <3>4. AccountedTo(from[d]) => AccountedTo(from[d])'
      BY <1>2, <1>8, <3>2 DEF AccountedTo
    <3>5. Instant(f)' = Instant(f) /\ Instant(f) <= now /\ Instant(f) \in Nat
      BY <1>5, <1>9, <3>1
    <3>6. \A t \in Units : t < Instant(f) => t # now
      BY <1>1, <3>5
    <3> QED BY <1>2, <1>4, <1>10, <1>11, <2>1, <3>1, <3>3, <3>4, <3>5, <3>6 DEF HandTells
  <2>3. CASE pc[d] \notin {"clearing", "saving", "recording", "starting", "answered", "refused"}
    BY <1>2, <2>3 DEF HandTells
  <2> QED BY <2>2, <2>3
<1>14. BookedWasWorked'
  <2>1. \A p \in Projects, t \in Units : <<p, t>> \in booked => t # now
    BY <1>1 DEF OInv, BookedOK, Units
  <2> QED BY <1>2, <1>4, <2>1 DEF WorkedInv, BookedWasWorked
<1> QED BY <1>2, <1>6, <1>9, <1>12, <1>13, <1>14 DEF WorkedInv

\* A tap is the beginning of a new mood.
LEMMA EnqueueWorked ==
    ASSUME OInv, TInv', NEW action, NEW p, Enqueue(action, p), NEW m, NEW f, WorkedInv(m, f),
           Follows(m[Len(taps)], [action |-> action, project |-> p, at |-> now],
                   [on |-> doing', off |-> paused'])
    PROVE  \E n \in [0 .. Len(taps) + 1 -> Moods] : WorkedInv(n, f)'
<1> DEFINE N == Len(taps)
<1>1. TInv /\ TypeOK /\ N \in Nat /\ now \in Nat /\ taps \in Seq(TapRecords)
  BY DEF OInv, TInv, TypeOK, Time
<1>2. UNCHANGED <<now, worked, row, booked, trimmed, lost, pc, todo, span>>
  BY DEF Enqueue, record
<1>3. /\ taps' = Append(taps, [action |-> action, project |-> p, at |-> now])
      /\ waiting' = waiting \cup {N + 1}
  BY DEF Enqueue
<1>4. /\ Len(taps') = N + 1
      /\ \A k \in 1 .. N : taps'[k] = taps[k]
      /\ taps'[N + 1] = [action |-> action, project |-> p, at |-> now]
  BY <1>1, <1>3
<1>5. doing' \in Projects \cup {None} /\ paused' \in BOOLEAN
  BY DEF TInv, TypeOK
<1>6. PICK n : n = [k \in 0 .. N + 1 |-> IF k <= N THEN m[k] ELSE [on |-> doing', off |-> paused']]
  OBVIOUS
<1>7. m \in [0 .. N -> Moods]
  BY DEF WorkedInv, Tale
<1>8. /\ n \in [0 .. N + 1 -> Moods]
      /\ \A k \in 0 .. N : n[k] = m[k]
      /\ n[N + 1] = [on |-> doing', off |-> paused']
  <2>1. [on |-> doing', off |-> paused'] \in Moods
    BY <1>5 DEF Moods
  <2>2. \A k \in 0 .. N + 1 : k <= N => k \in 0 .. N
    BY <1>1
  <2> QED BY <1>1, <1>6, <1>7, <2>1, <2>2
<1>9. \A k \in 0 .. N : Instant(k)' = Instant(k) /\ Instant(k) \in Nat /\ Instant(k) <= now
  <2>1. \A k \in 0 .. N : Instant(k) \in Nat /\ Instant(k) <= now
    BY <1>1, Instants
  <2>2. \A k \in 0 .. N : k = 0 \/ k \in 1 .. N
    BY <1>1
  <2>3. \A k \in 0 .. N : Instant(k)' = Instant(k)
    BY <1>4, <2>2 DEF Instant
  <2> QED BY <2>1, <2>3
<1>10. Tale(n)'
  <2>1. \A k \in 0 .. N + 1 : n[k].off => n[k].on # None
    <3>1. paused' => doing' # None
      <4>1. m[N].off => m[N].on # None
        BY <1>1 DEF WorkedInv, Tale
      <4> QED BY <4>1 DEF Follows, AtFirst
    <3>2. \A k \in 0 .. N : m[k].off => m[k].on # None
      BY DEF WorkedInv, Tale
    <3>3. \A k \in 0 .. N + 1 : k \in 0 .. N \/ k = N + 1
      BY <1>1
    <3> QED BY <1>8, <3>1, <3>2, <3>3
  <2>2. \A k \in 1 .. N + 1 : Follows(n[k - 1], taps'[k], n[k])
    <3>1. \A k \in 1 .. N + 1 : (k \in 1 .. N /\ k \in 0 .. N /\ k - 1 \in 0 .. N) \/ (k = N + 1 /\ k - 1 = N)
      BY <1>1
    <3>2. \A k \in 1 .. N : Follows(m[k - 1], taps[k], m[k])
      BY DEF WorkedInv, Tale, TapNumbers
    <3>3. N \in 0 .. N
      BY <1>1
    <3> QED BY <1>4, <1>8, <3>1, <3>2, <3>3
  <2>3. ASSUME NEW k \in 0 .. N + 1, NEW t \in Units, Moment(k, t)'
        PROVE  worked[t] = Busy(n[k])
    <3>1. /\ Instant(k)' <= t /\ t < now /\ t \in Int
          /\ k < N + 1 => t < Instant(k + 1)'
      BY <1>2, <1>4, <2>3 DEF Moment, Units
    <3>2. k # N + 1
      BY <1>1, <1>4, <3>1 DEF Instant
    <3>3. k \in 0 .. N /\ (k < N => k + 1 \in 0 .. N)
      BY <1>1, <3>2
    <3>4. Moment(k, t)
      BY <1>1, <1>9, <3>1, <3>3 DEF Moment
    <3> QED BY <1>8, <3>3, <3>4 DEF WorkedInv, Tale
  <2>4. n[0] = AtFirst
    BY <1>1, <1>8 DEF WorkedInv, Tale
  <2> QED BY <1>2, <1>4, <1>8, <2>1, <2>2, <2>3, <2>4 DEF Tale, TapNumbers
<1>11. f \in 1 .. N + 1 /\ f - 1 \in 0 .. N /\ (f \in TapNumbers <=> f \in 0 .. N)
  BY <1>1 DEF WorkedInv, TapNumbers
<1>12. waiting' = f .. N + 1 /\ f \in 1 .. N + 2 /\ (f \in TapNumbers => f \in TapNumbers')
  BY <1>1, <1>3, <1>4, <1>11 DEF WorkedInv, TapNumbers
<1>13. Missing' = Missing
  BY <1>2 DEF Missing, InHand, Times
<1>14. /\ RowIs(m, f - 1) => RowIs(n, f - 1)'
       /\ f \in TapNumbers /\ RowIs(m, f) => RowIs(n, f)'
       /\ AccountedTo(Instant(f - 1)) => AccountedTo(Instant(f - 1))'
       /\ f \in TapNumbers /\ AccountedTo(Instant(f)) => AccountedTo(Instant(f))'
  BY <1>2, <1>8, <1>9, <1>11, <1>13 DEF RowIs, Floor, Held, AccountedTo
<1>15. RowTells(n, f)'
  <2>1. f \in TapNumbers => taps'[f] = taps[f] /\ running' = running
    BY <1>2, <1>4 DEF TapNumbers
  <2> QED BY <1>12, <1>14, <2>1 DEF WorkedInv, RowTells
<1>16. \A d \in Drains : HandTells(d, n, f)'
  <2> SUFFICES ASSUME NEW d \in Drains PROVE HandTells(d, n, f)'
    OBVIOUS
  <2>1. HandTells(d, m, f) /\ Times(d)' = Times(d) /\ Held' = Held
    BY <1>2 DEF WorkedInv, Times, Held
  <2>2. CASE pc[d] \in {"clearing", "saving", "recording", "starting", "answered", "refused"}
    <3>1. f \in TapNumbers /\ f \in 1 .. N
      BY <1>1, <2>2, SentIsHead DEF TInv, LoopOK, AtWork, TapNumbers
    <3>2. Instant(f)' = Instant(f) /\ taps'[f] = taps[f]
      BY <1>4, <1>9, <1>11, <3>1
    <3>3. AccountedTo(from[d]) => AccountedTo(from[d])'
      BY <1>2, <1>13 DEF AccountedTo
    <3> QED BY <1>2, <1>14, <2>1, <3>1, <3>2, <3>3 DEF HandTells
  <2>3. CASE pc[d] \notin {"clearing", "saving", "recording", "starting", "answered", "refused"}
    BY <1>2, <2>3 DEF HandTells
  <2> QED BY <2>2, <2>3
<1>17. BookedWasWorked'
  BY <1>2 DEF WorkedInv, BookedWasWorked
<1>18. WorkedInv(n, f)'
  BY <1>4, <1>10, <1>12, <1>15, <1>16, <1>17 DEF WorkedInv
<1> QED BY <1>8, <1>18

-----------------------------------------------------------------------------
(* The theorem.                                                            *)

\* At the beginning nobody has tapped anything.
LEMMA InitAInv == Init => AInv
<1> SUFFICES ASSUME Init PROVE AInv
  OBVIOUS
<1>1. taps = <<>> /\ Len(taps) = 0 /\ now = 0 /\ waiting = {} /\ TapNumbers = {}
  BY DEF Init, TapNumbers
<1>0. PICK m : m = [n \in 0 .. 0 |-> AtFirst]
  OBVIOUS
<1>2. m \in [0 .. 0 -> Moods] /\ m[0] = AtFirst
  <2>1. AtFirst \in Moods
    BY DEF Moods, AtFirst
  <2> QED BY <1>0, <2>1
<1>3. Tale(m)
  <2>1. \A t \in Units : ~ (t < now)
    BY <1>1 DEF Units
  <2>2. m[0] = [on |-> doing, off |-> paused] /\ ~ m[0].off
    <3>1. doing = None /\ paused = FALSE
      BY DEF Init
    <3>2. AtFirst = [on |-> doing, off |-> paused] /\ ~ AtFirst.off
      BY <3>1 DEF AtFirst
    <3> QED BY <1>2, <3>2
  <2>3. \A n \in 0 .. Len(taps) : n = 0
    BY <1>1
  <2> QED BY <1>1, <1>2, <2>1, <2>2, <2>3 DEF Tale, Moment
<1>4. RowTells(m, 1)
  <2>1. Missing = {}
    BY <1>1 DEF Missing, Units
  <2>2. RowIs(m, 0)
    BY <1>2 DEF Init, RowIs, AtFirst
  <2>3. 1 - 1 = 0
    OBVIOUS
  <2> QED BY <2>1, <2>2, <2>3 DEF RowTells, AccountedTo
<1>5. (\A d \in Drains : HandTells(d, m, 1)) /\ BookedWasWorked
  BY DEF Init, HandTells, BookedWasWorked
<1>6. waiting = 1 .. Len(taps) /\ 1 \in 1 .. Len(taps) + 1
  BY <1>1
<1>7. WorkedInv(m, 1)
  BY <1>3, <1>4, <1>5, <1>6 DEF WorkedInv
<1> QED BY <1>1, <1>2, <1>6, <1>7, InitOInv DEF AInv

\* Every step keeps it.
LEMMA NextAInv == OneLoop /\ AInv /\ [Next]_vars => AInv'
<1> SUFFICES ASSUME OneLoop, AInv, [Next]_vars PROVE AInv'
  OBVIOUS
<1>1. OInv /\ OInv' /\ TInv'
  BY NextOInv DEF AInv, OInv
<1>2. PICK m, f : WorkedInv(m, f)
  BY DEF AInv
<1>3. ASSUME NEW n, NEW g, WorkedInv(n, g)' PROVE AInv'
  BY <1>1, <1>3 DEF AInv, WorkedInv, Tale
<1>4. ASSUME NEW d \in Drains, Advance(d) \/ Fail(d) PROVE AInv'
  <2>1. CASE Answered(d) \/ Refused(d)
    <3>1. WorkedInv(m, f + 1)'
      BY <1>1, <1>2, <2>1, ForgetWorked
    <3> QED BY <1>3, <3>1
  <2>2. CASE ~ (Answered(d) \/ Refused(d))
    <3>1. WorkedInv(m, f)'
      BY <1>1, <1>2, <1>4, <2>2, QuietWorked, NothingToStopWorked, RefuseWorked, FailWorked,
         ReadToStopWorked, ClearWorked, RecordWorked, StartWorked, ReadToSaveWorked, SaveWorked
         DEF Advance
    <3> QED BY <1>3, <3>1
  <2> QED BY <2>1, <2>2
<1>5. CASE Tick
  <2>1. WorkedInv(m, f)'
    BY <1>1, <1>2, <1>5, TickWorked
  <2> QED BY <1>3, <2>1
<1>6. CASE (\E p \in Projects : TapStart(p)) \/ TapStop \/ TapHold \/ TapResume
  <2>1. m[Len(taps)] = [on |-> doing, off |-> paused] /\ (paused => doing # None)
    <3>1. Len(taps) \in Nat
      BY <1>1 DEF OInv, TInv, TypeOK
    <3> QED BY <1>2, <3>1 DEF WorkedInv, Tale
  <2>2. PICK action, p :
            /\ Enqueue(action, p)
            /\ Follows(m[Len(taps)], [action |-> action, project |-> p, at |-> now],
                       [on |-> doing', off |-> paused'])
    <3>1. CASE \E p \in Projects : TapStart(p)
      BY <2>1, <3>1 DEF TapStart, Follows
    <3>2. CASE TapStop
      <4>1. /\ Enqueue("stop", None)
            /\ Follows(m[Len(taps)], [action |-> "stop", project |-> None, at |-> now],
                       [on |-> doing', off |-> paused'])
        <5>1. doing # None /\ doing' = None /\ paused' = FALSE /\ Enqueue("stop", None)
          BY <3>2 DEF TapStop
        <5>2. [on |-> doing', off |-> paused'] = AtFirst
          BY <5>1 DEF AtFirst
        <5>3. m[Len(taps)].on = doing
          BY <2>1
        <5> QED BY <5>1, <5>2, <5>3 DEF Follows
      <4> QED BY <4>1
    <3>3. CASE TapHold
      <4>1. /\ Enqueue("hold", None)
            /\ Follows(m[Len(taps)], [action |-> "hold", project |-> None, at |-> now],
                       [on |-> doing', off |-> paused'])
        BY <2>1, <3>3 DEF TapHold, Follows
      <4> QED BY <4>1
    <3>4. CASE TapResume
      <4>1. /\ Enqueue("resume", None)
            /\ Follows(m[Len(taps)], [action |-> "resume", project |-> None, at |-> now],
                       [on |-> doing', off |-> paused'])
        <5>1. paused /\ doing' = doing /\ paused' = FALSE /\ Enqueue("resume", None)
          BY <3>4 DEF TapResume
        <5>2. m[Len(taps)].on = doing /\ m[Len(taps)].off = paused
          BY <2>1
        <5>3. [on |-> doing', off |-> paused'] = [on |-> m[Len(taps)].on, off |-> FALSE]
          BY <5>1, <5>2
        <5> QED BY <5>1, <5>2, <5>3 DEF Follows
      <4> QED BY <4>1
    <3> QED BY <1>6, <3>1, <3>2, <3>3, <3>4
  <2>3. \E n \in [0 .. Len(taps) + 1 -> Moods] : WorkedInv(n, f)'
    BY <1>1, <1>2, <2>2, EnqueueWorked
  <2> QED BY <1>3, <2>3
<1>7. CASE Beat \/ UNCHANGED vars
  <2>1. WorkedInv(m, f)'
    BY <1>2, <1>7, BeatWorked
  <2> QED BY <1>3, <2>1
<1> QED BY <1>4, <1>5, <1>6, <1>7 DEF Next

\* Once every tap is replayed, the row has reached the last one.
LEMMA AccountedFor == ASSUME AInv PROVE TimeAccountedFor
<1>1. PICK m, f : WorkedInv(m, f)
  BY DEF AInv
<1>2. TInv /\ TypeOK /\ Len(taps) \in Nat /\ now \in Nat /\ now <= MaxTime
  BY DEF AInv, OInv, TInv, TypeOK, Time
<1>3. ASSUME Synced, NEW t \in 0 .. now - 1, worked[t] # None,
             <<worked[t], t>> \notin booked, t \notin trimmed \cup lost
      PROVE  running = worked[t] /\ ~ Held /\ start <= t
  <2>1. t \in Units /\ t < now /\ f = Len(taps) + 1 /\ f - 1 = Len(taps) /\ f \notin TapNumbers
    BY <1>1, <1>2, <1>3 DEF Synced, WorkedInv, Units, TapNumbers
  <2>2. RowIs(m, Len(taps)) /\ AccountedTo(Instant(Len(taps)))
    BY <1>1, <2>1 DEF WorkedInv, RowTells
  <2>3. t \in Missing
    BY <1>3, <2>1 DEF Missing, InHand, Synced
  <2>4. Moment(Len(taps), t)
    BY <1>2, <2>1, <2>2, <2>3 DEF AccountedTo, Moment
  <2>5. worked[t] = Busy(m[Len(taps)])
    BY <1>1, <1>2, <2>1, <2>4 DEF WorkedInv, Tale
  <2>6. running = worked[t] /\ ~ Held
    BY <1>3, <2>2, <2>5 DEF Busy, RowIs
  <2> QED BY <1>3, <2>2, <2>4, <2>6 DEF RowIs, Moment, Floor
<1>4. NothingLost
  BY <1>3 DEF NothingLost
<1> QED BY <1>1, <1>2, <1>4 DEF TimeAccountedFor, WorkedInv

\* As long as one loop at a time replays the queue, the time booked is time the person
\* worked on that project; and once every tap is replayed, whatever they worked is booked
\* or being timed, but for what was trimmed and the span in hand when a request failed.
THEOREM TimeIsAccountedFor == OneLoop /\ Spec => []TimeAccountedFor
<1>1. AInv => TimeAccountedFor
  BY AccountedFor
<1>2. Init => AInv
  BY InitAInv
<1>3. ASSUME OneLoop PROVE AInv /\ [Next]_vars => AInv'
  BY <1>3, NextAInv
<1>4. ASSUME OneLoop PROVE Spec => []TimeAccountedFor
  BY <1>1, <1>2, <1>3, <1>4, PTL DEF Spec
<1> QED BY <1>4
=============================================================================
