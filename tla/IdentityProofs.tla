--------------------------- MODULE IdentityProofs ---------------------------
(***************************************************************************)
(* What holds of what runs the firm itself, for any number of people,      *)
(* sessions, links, requests and processes: how far a choice of what a     *)
(* role may do lags behind; what becomes of sessions, codes, locks and     *)
(* links when people are suspended, removed or given a password; and whom  *)
(* the mornings' jobs reach, for any workers, ladder and audience.         *)
(***************************************************************************)
EXTENDS Staff, RoleChoices, DailySweep, FiniteSetTheorems, TLAPS

-----------------------------------------------------------------------------
(* What a role may do.                                                     *)

\* A choice read in answer to a question of moment t had not ended before t.
HeldAt(v, t) == v # Blank /\ endedAt[v] # Blank => t <= endedAt[v]

\* What is in memory, and what a loading request has read, was the stored
\* choice at some moment since the question; nothing is from the future.
ChoicesInv ==
    /\ ChoicesTypeOK
    /\ saving # Blank => stored < MaxChoices
    /\ \A v \in Choices : v >= stored => endedAt[v] = Blank
    /\ \A p \in Processes : /\ memory[p].loadedAt <= moment
                            /\ HeldAt(memory[p].value, memory[p].loadedAt)
    /\ \A c \in Callers : /\ asking[c].since <= moment
                          /\ HeldAt(asking[c].read, asking[c].since)
    /\ InBounds(acted.allows)
    /\ acted.asked <= moment
    /\ acted.choice # Blank /\ endedAt[acted.choice] # Blank
         => acted.asked < endedAt[acted.choice] + Ttl

\* What stays without a tick box is the manager's right to manage people, and
\* none of it is lost, whatever a choice ticks.
LEMMA DefaultsInBounds == InBounds(Matrix)
  BY DEF InBounds, Matrix, Roles, Grantable, Permissions

LEMMA ChoiceInBounds == \A v \in Choices : InBounds(EffectiveMatrix(Ticked[v]))
<1> SUFFICES ASSUME NEW v \in Choices, NEW role \in Roles
             PROVE  LET allowed == EffectiveMatrix(Ticked[v])[role] IN
                    /\ Matrix[role] \ Grantable \subseteq allowed /\ allowed \subseteq Permissions
                    /\ "users.manage" \in allowed <=> role = "manager"
  BY DEF InBounds
<1>1. /\ Matrix[role] \ Grantable \subseteq Matrix[role] /\ Matrix[role] \subseteq Permissions
      /\ "users.manage" \in Matrix[role] <=> role = "manager"
  BY DefaultsInBounds DEF InBounds
<1>2. Grantable \subseteq Permissions /\ "users.manage" \notin Grantable
  BY DEF Grantable, Permissions
<1>3. role \in EditableRoles => role # "manager"
  BY DEF EditableRoles
<1>4. \/ EffectiveMatrix(Ticked[v])[role] = Matrix[role]
      \/ /\ role # "manager"
         /\ EffectiveMatrix(Ticked[v])[role]
              = (Matrix[role] \ Grantable) \cup (Ticked[v][role] \cap Grantable)
  BY <1>3 DEF EffectiveMatrix
<1> QED BY <1>1, <1>2, <1>4

LEMMA ChoicesStart == ChoicesInit => ChoicesInv
  BY RoleChoicesAssumption, DefaultsInBounds
  DEF ChoicesInit, ChoicesInv, ChoicesTypeOK, Moments, Choices, NotAsking, HeldAt

LEMMA ChoicesGoOn == ChoicesInv /\ [ChoicesNext]_choicesVars => ChoicesInv'
<1> USE RoleChoicesAssumption DEF ChoicesInv, ChoicesTypeOK, Moments, Choices, HeldAt
<1> SUFFICES ASSUME ChoicesInv, [ChoicesNext]_choicesVars PROVE ChoicesInv'
  OBVIOUS
<1>1. ASSUME NEW c \in Callers, Reads(c) PROVE ChoicesInv'
  <2>1. asking' = [asking EXCEPT ![c].read = stored] /\ endedAt[stored] = Blank
    BY <1>1 DEF Reads
  <2>2. /\ UNCHANGED <<moment, stored, saving, memory, endedAt, acted>>
        /\ asking' \in [Callers -> [of : Processes \cup {Blank}, since : Moments, read : Choices \cup {Blank}]]
    BY <1>1, <2>1 DEF Reads
  <2>3. \A d \in Callers : asking'[d].since = asking[d].since
                           /\ (d # c => asking'[d] = asking[d]) /\ (d = c => asking'[d].read = stored)
    BY <2>1
  <2> QED BY <2>1, <2>2, <2>3
<1>2. ASSUME NEW c \in Callers, Keeps(c) PROVE ChoicesInv'
  <2> DEFINE kept == [value |-> asking[c].read, loadedAt |-> asking[c].since]
  <2>1. /\ asking[c].read \in Choices /\ asking[c].since \in Moments /\ asking[c].since <= moment
        /\ HeldAt(asking[c].read, asking[c].since)
    BY <1>2 DEF Keeps
  <2>2. /\ memory' = [memory EXCEPT ![asking[c].of] = kept]
        /\ asking' = [asking EXCEPT ![c] = NotAsking]
        /\ acted' = [choice |-> asking[c].read, asked |-> asking[c].since,
                     allows |-> EffectiveMatrix(Ticked[asking[c].read])]
        /\ UNCHANGED <<moment, stored, saving, endedAt>>
    BY <1>2 DEF Keeps, GoesBy
  <2>3. \A p \in Processes : memory'[p] = memory[p] \/ memory'[p] = kept
    BY <2>2
  <2>4. \A d \in Callers : asking'[d] = asking[d] \/ asking'[d] = NotAsking
    BY <2>2
  <2>5. memory' \in [Processes -> [value : Choices \cup {Blank}, loadedAt : Moments]]
    BY <2>1, <2>2
  <2>6. asking' \in [Callers -> [of : Processes \cup {Blank}, since : Moments, read : Choices \cup {Blank}]]
    BY <2>2 DEF NotAsking
  <2>7. \A p \in Processes : /\ memory'[p].loadedAt <= moment
                             /\ HeldAt(memory'[p].value, memory'[p].loadedAt)
    <3>1. kept.loadedAt <= moment /\ HeldAt(kept.value, kept.loadedAt)
      BY <2>1
    <3>2. ASSUME NEW p \in Processes
          PROVE  memory'[p].loadedAt <= moment /\ HeldAt(memory'[p].value, memory'[p].loadedAt)
      <4>1. CASE memory'[p] = memory[p]
        BY <4>1
      <4>2. CASE memory'[p] = kept
        BY <3>1, <4>2
      <4> QED BY <2>3, <4>1, <4>2
    <3> QED BY <3>2
  <2>8. \A d \in Callers : /\ asking'[d].since <= moment
                           /\ HeldAt(asking'[d].read, asking'[d].since)
    <3>1. NotAsking.since = 0 /\ NotAsking.read = Blank /\ 0 <= moment
      BY DEF NotAsking
    <3>2. ASSUME NEW d \in Callers
          PROVE  asking'[d].since <= moment /\ HeldAt(asking'[d].read, asking'[d].since)
      <4>1. CASE asking'[d] = asking[d]
        BY <4>1
      <4>2. CASE asking'[d] = NotAsking
        BY <3>1, <4>2
      <4> QED BY <2>4, <4>1, <4>2
    <3> QED BY <3>2
  <2>9. endedAt[asking[c].read] # Blank => asking[c].since < endedAt[asking[c].read] + Ttl
    BY <2>1
  <2>10. /\ acted'.choice \in Choices \cup {Blank} /\ acted'.asked \in Moments
         /\ acted'.asked <= moment
         /\ acted'.choice # Blank /\ endedAt[acted'.choice] # Blank
              => acted'.asked < endedAt[acted'.choice] + Ttl
    BY <2>1, <2>2, <2>9
  <2>11. InBounds(acted'.allows)
    BY <2>1, <2>2, ChoiceInBounds
  <2> QED BY <2>2, <2>5, <2>6, <2>7, <2>8, <2>10, <2>11
<1>3. ASSUME NEW c \in Callers, NEW p \in Processes, AsksMemory(c, p) PROVE ChoicesInv'
  <2>1. /\ acted' = [choice |-> memory[p].value, asked |-> moment,
                     allows |-> EffectiveMatrix(Ticked[memory[p].value])]
        /\ UNCHANGED <<moment, stored, saving, memory, asking, endedAt>>
        /\ memory[p].value \in Choices /\ memory[p].loadedAt \in Moments
        /\ moment - memory[p].loadedAt < Ttl
    BY <1>3 DEF AsksMemory, GoesBy, Fresh
  <2>2. endedAt[memory[p].value] # Blank
          => memory[p].loadedAt <= endedAt[memory[p].value] /\ endedAt[memory[p].value] \in Moments
    BY <2>1
  <2>3. endedAt[memory[p].value] # Blank => moment < endedAt[memory[p].value] + Ttl
    BY <2>1, <2>2
  <2>4. InBounds(acted'.allows)
    BY <2>1, ChoiceInBounds
  <2> QED BY <2>1, <2>3, <2>4
<1>4. ASSUME NEW c \in Callers, NEW p \in Processes, BeginsToLoad(c, p) PROVE ChoicesInv'
  <2> DEFINE to == [of |-> p, since |-> moment, read |-> Blank]
  <2>1. /\ asking' = [asking EXCEPT ![c] = to]
        /\ UNCHANGED <<moment, stored, saving, memory, endedAt, acted>>
    BY <1>4 DEF BeginsToLoad
  <2>2. \A d \in Callers : asking'[d] = asking[d] \/ asking'[d] = to
    BY <2>1
  <2> QED BY <2>1, <2>2
<1>5. ASSUME NEW p \in Processes, Replace(p) PROVE ChoicesInv'
  <2> DEFINE empty == [value |-> Blank, loadedAt |-> 0]
  <2>1. /\ memory' = [memory EXCEPT ![p] = empty]
        /\ saving' = p /\ stored < MaxChoices
        /\ UNCHANGED <<moment, stored, asking, endedAt, acted>>
    BY <1>5 DEF Replace
  <2>2. \A q \in Processes : memory'[q] = memory[q] \/ memory'[q] = empty
    BY <2>1
  <2> QED BY <2>1, <2>2
<1>6. ASSUME CommitChoice PROVE ChoicesInv'
  <2>1. /\ stored' = stored + 1 /\ saving' = Blank /\ stored < MaxChoices
        /\ endedAt' = [endedAt EXCEPT ![stored] = moment]
        /\ UNCHANGED <<moment, memory, asking, acted>>
    BY <1>6 DEF CommitChoice
  <2>2. /\ stored' \in Choices /\ endedAt' \in [Choices -> Moments \cup {Blank}]
        /\ \A v \in Choices : v >= stored' => endedAt'[v] = Blank
    BY <2>1
  <2>3. \A v \in Choices : endedAt'[v] = endedAt[v] \/ endedAt'[v] = moment
    BY <2>1
  <2>4. \A p \in Processes : memory[p].value # Blank /\ endedAt'[memory[p].value] # Blank
                               => memory[p].loadedAt <= endedAt'[memory[p].value]
    BY <2>3
  <2>5. \A c \in Callers : asking[c].read # Blank /\ endedAt'[asking[c].read] # Blank
                               => asking[c].since <= endedAt'[asking[c].read]
    BY <2>3
  <2>6. acted.choice # Blank /\ endedAt'[acted.choice] # Blank
          => acted.asked < endedAt'[acted.choice] + Ttl
    BY <2>3
  <2> QED BY <2>1, <2>2, <2>4, <2>5, <2>6
<1>7. ASSUME ChoiceLost PROVE ChoicesInv'
  BY <1>7 DEF ChoiceLost
<1>8. ASSUME TimePasses PROVE ChoicesInv'
  BY <1>8 DEF TimePasses
<1>9. ASSUME UNCHANGED choicesVars PROVE ChoicesInv'
  BY <1>9 DEF choicesVars
<1> QED BY <1>1, <1>2, <1>3, <1>4, <1>5, <1>6, <1>7, <1>8, <1>9 DEF ChoicesNext

\* No request goes by a choice of what a role may do that was replaced a whole
\* Ttl before it asked, for any number of processes and requests, however the
\* loads and the saves overlap (role-permission.store.ts); and what it is allowed
\* then never gives away managing people, nor takes what has no tick box
\* (permission.ts effectiveMatrix).
THEOREM ChoicesReachEveryone == ChoicesSpec => []ChoicesReach
<1>1. ChoicesInv => ChoicesReach
  BY DEF ChoicesInv, ChoicesReach
<1> QED BY <1>1, ChoicesStart, ChoicesGoOn, PTL DEF ChoicesSpec

-----------------------------------------------------------------------------
(* Who may sign in: what is in the tables and in hand.                     *)

UserRows ==
    [status : Held \cup {"absent", "deleted"}, address : Addresses \cup {NoAddress},
     password : Passwords \cup {NoPassword}, manager : BOOLEAN, failed : 0..MaxFailed,
     locked : BOOLEAN, factor : {"none", "begun", "on"}]
SessionRows ==
    [owner : Accounts \cup {Nobody}, shown : Passwords \cup {NoPassword},
     revoked : BOOLEAN, passed : BOOLEAN, over : BOOLEAN]
LinkRows ==
    [owner : Accounts \cup {Nobody}, used : BOOLEAN, lapsed : BOOLEAN, uses : Nat]

ByAddress == {"signIn", "requestPasswordReset"}
ByManager == {"suspend", "reinstate", "assignRoles", "removeStaff", "setStaffPassword"}
BySession == {"signOutOne", "verifyTwoFactor", "startTwoFactor", "confirmTwoFactor",
              "signOutEverywhere"}
Verbs == ByAddress \cup ByManager \cup BySession
         \cup {"nothing", "addStaff", "authenticate", "completePasswordReset"}
RequestRows ==
    [doing : Verbs, on : Accounts \cup {Nobody}, row : UserRows,
     with : Sessions \cup {NoSession}, seen : SessionRows, by : Links \cup {NoLink}]

\* The tables and the requests, whatever overlaps.
StaffTyped ==
    /\ calm \in BOOLEAN /\ rolesKept \in BOOLEAN
    /\ user \in [Accounts -> UserRows]
    /\ session \in [Sessions -> SessionRows]
    /\ link \in [Links -> LinkRows]
    /\ request \in [Requests -> RequestRows]
    /\ served \in 0..MaxServed
    /\ wrong \in [Accounts -> 0..MaxFailed]
    /\ proved \subseteq Sessions

OneAddress ==
    \A a, b \in Accounts : a # b /\ user[a].address # NoAddress => user[b].address # user[a].address

\* What a request must have in hand for what it is doing.
Equipped(q) ==
    /\ q.doing \notin {"nothing", "addStaff"} => q.on \in Accounts
    /\ q.doing \in BySession \cup {"authenticate"} => q.with \in Sessions
    /\ q.doing = "completePasswordReset" => q.by \in Links
    /\ q.seen.passed => q.with \in proved

AnyhowInv ==
    /\ StaffTyped /\ OneAddress /\ CodesPresented
    /\ \A r \in Requests : Equipped(request[r])

\* What a request in hand knows is still so, but for a lock that lapsed, a session
\* that ended by itself and a link that lapsed.
Current(q) ==
    /\ q.on # Nobody => /\ q.row = [user[q.on] EXCEPT !.locked = q.row.locked]
                        /\ user[q.on].status # "absent"
    /\ q.with # NoSession => /\ q.on = session[q.with].owner
                             /\ ~ session[q.with].revoked
    /\ q.by # NoLink => link[q.by].owner = q.on /\ ~ link[q.by].used
    /\ q.doing \in ByAddress \cup BySession \cup {"completePasswordReset"}
         => user[q.on].status = "active"
    /\ q.doing \in {"suspend", "removeStaff"}
         => \E b \in Accounts \ {q.on} : user[b].status = "active" /\ user[b].manager
    /\ rolesKept => q.doing # "assignRoles"

InTurn == \A q, r \in Requests : request[q] # Waiting /\ request[r] # Waiting => q = r
NothingStale == \A r \in Requests : request[r] # Waiting => Current(request[r])

SessionsCurrent ==
    \A s \in Sessions : IsLive(session[s]) =>
        /\ user[session[s].owner].status = "active"
        /\ user[session[s].owner].password = session[s].shown
LinksCurrent ==
    /\ \A k \in Links : link[k].uses = 0 \/ (link[k].uses = 1 /\ link[k].used)
    /\ \A j, k \in Links : Usable(link[j]) /\ Usable(link[k]) /\ link[j].owner = link[k].owner
                             => j = k
Counts ==
    \A a \in Accounts : /\ wrong[a] <= user[a].failed
                        /\ user[a].status = "absent" => user[a] = NoUser /\ wrong[a] = 0
Managed == rolesKept => \E a \in Accounts : user[a].status = "active" /\ user[a].manager

CalmInv ==
    calm => /\ InTurn /\ NothingStale
            /\ SessionsCurrent /\ LinksCurrent /\ Counts /\ Managed

StaffInv == AnyhowInv /\ CalmInv

-----------------------------------------------------------------------------
(* The rows a request writes.                                              *)

LEMMA BlankRows ==
  /\ NoUser \in UserRows /\ NoSuchSession \in SessionRows /\ NoSuchLink \in LinkRows
  /\ Waiting \in RequestRows
  BY StaffAssumption DEF NoUser, NoSuchSession, NoSuchLink, Waiting, UserRows, SessionRows, LinkRows,
     RequestRows, Verbs, Held

\* A wrong answer: one more, and the lock with the one that is too many.
LEMMA CountedRow ==
  ASSUME NEW u \in UserRows
  PROVE  /\ Counted(u) \in UserRows
         /\ Counted(u).status = u.status /\ Counted(u).address = u.address
         /\ Counted(u).password = u.password /\ Counted(u).manager = u.manager
         /\ Counted(u).factor = u.factor
         /\ Counted(u).failed = IF u.failed = MaxFailed THEN MaxFailed ELSE u.failed + 1
         /\ u.failed + 1 >= MaxFailed => Counted(u).locked
<1>1. /\ u.failed \in 0..MaxFailed /\ u.locked \in BOOLEAN /\ MaxFailed \in Nat
      /\ (IF u.failed = MaxFailed THEN u.failed ELSE u.failed + 1) \in 0..MaxFailed
  BY StaffAssumption DEF UserRows
<1>2. (u.locked \/ u.failed + 1 >= MaxFailed) \in BOOLEAN
  OBVIOUS
<1> DEFINE lock == u.locked \/ u.failed + 1 >= MaxFailed
           many == IF u.failed = MaxFailed THEN u.failed ELSE u.failed + 1
<1>3. Counted(u) = [u EXCEPT !.failed = many, !.locked = lock]
  BY DEF Counted
<1>4. lock \in BOOLEAN /\ many \in 0..MaxFailed /\ (u.failed + 1 >= MaxFailed => lock)
  BY <1>1, <1>2
<1> HIDE DEF lock, many
<1>5. /\ Counted(u) \in UserRows /\ Counted(u).failed = many /\ Counted(u).locked = lock
      /\ Counted(u).status = u.status /\ Counted(u).address = u.address
      /\ Counted(u).password = u.password /\ Counted(u).manager = u.manager
      /\ Counted(u).factor = u.factor
  BY <1>3, <1>4 DEF UserRows
<1>6. many = IF u.failed = MaxFailed THEN MaxFailed ELSE u.failed + 1
  BY DEF many
<1> QED BY <1>4, <1>5, <1>6

LEMMA ClearedRow ==
  ASSUME NEW u \in UserRows
  PROVE  /\ Cleared(u) \in UserRows
         /\ Cleared(u).status = u.status /\ Cleared(u).address = u.address
         /\ Cleared(u).password = u.password /\ Cleared(u).manager = u.manager
         /\ Cleared(u).factor = u.factor /\ Cleared(u).failed = 0
<1>1. 0 \in 0..MaxFailed
  BY StaffAssumption
<1> QED BY <1>1 DEF UserRows, Cleared

\* Whoever is retired or deleted has no address left, and is not active.
LEMMA GoneRow ==
  ASSUME NEW u \in UserRows
  PROVE  /\ Deleted(u) \in UserRows /\ Deleted(u).address = NoAddress
         /\ Deleted(u).status = "deleted" /\ Deleted(u).failed = u.failed
         /\ Retired(u) \in UserRows /\ Retired(u).address = NoAddress
         /\ Retired(u).status = "suspended" /\ Retired(u).failed = u.failed
  BY DEF UserRows, Deleted, Retired, Held

-----------------------------------------------------------------------------
(* What every request that goes on leaves as it was.                       *)

LEMMA SavedAnyhow ==
  ASSUME StaffTyped, OneAddress, NEW a \in Accounts, NEW u \in UserRows, Save(a, u)
  PROVE  /\ user' \in [Accounts -> UserRows]
         /\ user'[a] = u /\ \A b \in Accounts \ {a} : user'[b] = user[b]
         /\ OneAddress'
<1>1. user' = [user EXCEPT ![a] = u] /\ user \in [Accounts -> UserRows]
  BY DEF Save, StaffTyped
<1>2. user'[a] = u /\ \A b \in Accounts \ {a} : user'[b] = user[b]
  BY <1>1
<1>3. u.address # NoAddress => \A b \in Accounts \ {a} : user[b].address # u.address
  BY DEF Save, AddressFree
<1>4. OneAddress'
  BY <1>2, <1>3 DEF OneAddress
<1> QED BY <1>1, <1>2, <1>4

LEMMA SessionsRevoked ==
  ASSUME StaffTyped, CodesPresented, NEW a
  PROVE  /\ Revoked(a) \in [Sessions -> SessionRows]
         /\ \A s \in Sessions : /\ Revoked(a)[s].passed => s \in proved
                                /\ session[s].revoked => Revoked(a)[s].revoked
                                /\ IsLive(Revoked(a)[s]) => Revoked(a)[s] = session[s] /\ session[s].owner # a
<1>1. \A s \in Sessions : /\ session[s] \in SessionRows
                          /\ Revoked(a)[s] = IF session[s].owner = a
                                THEN [session[s] EXCEPT !.revoked = TRUE] ELSE session[s]
  BY DEF StaffTyped, Revoked
<1>2. \A s \in Sessions : [session[s] EXCEPT !.revoked = TRUE] \in SessionRows
  BY <1>1 DEF SessionRows
<1>3. Revoked(a) \in [Sessions -> SessionRows]
  BY <1>1, <1>2 DEF Revoked
<1>4. ASSUME NEW s \in Sessions
      PROVE  /\ Revoked(a)[s].passed => s \in proved
             /\ session[s].revoked => Revoked(a)[s].revoked
             /\ IsLive(Revoked(a)[s]) => Revoked(a)[s] = session[s] /\ session[s].owner # a
  <2>1. CASE session[s].owner = a
    <3>1. Revoked(a)[s].revoked /\ Revoked(a)[s].passed = session[s].passed
      BY <1>1, <2>1 DEF SessionRows
    <3> QED BY <3>1 DEF CodesPresented, IsLive
  <2>2. CASE session[s].owner # a
    BY <1>1, <2>2 DEF CodesPresented
  <2> QED BY <2>1, <2>2
<1> QED BY <1>3, <1>4

LEMMA PersonGone ==
  ASSUME StaffTyped, CodesPresented, NEW a, WithoutPerson(a)
  PROVE  /\ session' \in [Sessions -> SessionRows]
         /\ link' \in [Links -> LinkRows]
         /\ \A s \in Sessions : /\ session'[s].passed => s \in proved
                                /\ session'[s].revoked = session[s].revoked
                                /\ IsLive(session'[s]) => session'[s] = session[s] /\ session[s].owner # a
         /\ \A k \in Links : /\ link'[k].uses = link[k].uses /\ link'[k].used = link[k].used
                             /\ link'[k].owner = link[k].owner
                             /\ Usable(link'[k]) => Usable(link[k])
<1>1. \A s \in Sessions : /\ session[s] \in SessionRows
                          /\ session'[s] = IF session[s].owner = a
                                THEN [session[s] EXCEPT !.over = TRUE] ELSE session[s]
  BY DEF StaffTyped, WithoutPerson
<1>2. \A s \in Sessions : [session[s] EXCEPT !.over = TRUE] \in SessionRows
  BY <1>1 DEF SessionRows
<1>3. session' \in [Sessions -> SessionRows]
  BY <1>1, <1>2 DEF WithoutPerson
<1>4. ASSUME NEW s \in Sessions
      PROVE  /\ session'[s].passed => s \in proved
             /\ session'[s].revoked = session[s].revoked
             /\ IsLive(session'[s]) => session'[s] = session[s] /\ session[s].owner # a
  <2>1. CASE session[s].owner = a
    <3>1. session'[s].over /\ session'[s].revoked = session[s].revoked
          /\ session'[s].passed = session[s].passed
      BY <1>1, <2>1 DEF SessionRows
    <3> QED BY <3>1 DEF CodesPresented, IsLive
  <2>2. CASE session[s].owner # a
    BY <1>1, <2>2 DEF CodesPresented
  <2> QED BY <2>1, <2>2
<1>5. \A k \in Links : /\ link[k] \in LinkRows
                       /\ link'[k] = IF link[k].owner = a
                             THEN [link[k] EXCEPT !.lapsed = TRUE] ELSE link[k]
  BY DEF StaffTyped, WithoutPerson
<1>6. \A k \in Links : [link[k] EXCEPT !.lapsed = TRUE] \in LinkRows
  BY <1>5 DEF LinkRows
<1>7. link' \in [Links -> LinkRows]
  BY <1>5, <1>6 DEF WithoutPerson
<1>8. ASSUME NEW k \in Links
      PROVE  /\ link'[k].uses = link[k].uses /\ link'[k].used = link[k].used
             /\ link'[k].owner = link[k].owner
             /\ Usable(link'[k]) => Usable(link[k])
  <2>1. CASE link[k].owner = a
    <3>1. /\ link'[k].uses = link[k].uses /\ link'[k].used = link[k].used
          /\ link'[k].owner = link[k].owner /\ link'[k].lapsed
      BY <1>5, <2>1 DEF LinkRows
    <3> QED BY <3>1 DEF Usable
  <2>2. CASE link[k].owner # a
    BY <1>5, <2>2
  <2> QED BY <2>1, <2>2
<1> QED BY <1>3, <1>4, <1>7, <1>8

\* An answer puts the request down, whatever it wrote.
LEMMA AnsweredAnyhow ==
  ASSUME AnyhowInv, NEW r \in Requests, Done(r),
         user' \in [Accounts -> UserRows], OneAddress',
         session' \in [Sessions -> SessionRows], link' \in [Links -> LinkRows],
         wrong' \in [Accounts -> 0..MaxFailed],
         proved' \subseteq Sessions, proved \subseteq proved',
         \A s \in Sessions : session'[s].passed => s \in proved'
  PROVE  AnyhowInv'
<1>1. /\ request' = [request EXCEPT ![r] = Waiting] /\ UNCHANGED <<calm, rolesKept, served>>
      /\ request \in [Requests -> RequestRows]
  BY DEF Done, AnyhowInv, StaffTyped
<1>2. request' \in [Requests -> RequestRows]
  BY <1>1, BlankRows
<1>3. StaffTyped'
  BY <1>1, <1>2 DEF AnyhowInv, StaffTyped
<1>4. CodesPresented'
  BY DEF CodesPresented
<1>5. \A q \in Requests : request'[q] = request[q] \/ request'[q] = Waiting
  BY <1>1
<1>6. ASSUME NEW q \in Requests PROVE Equipped(request[q])'
  <2>1. CASE request'[q] = Waiting
    BY <2>1 DEF Equipped, Waiting, NoSuchSession, BySession
  <2>2. CASE request'[q] = request[q]
    BY <2>2 DEF AnyhowInv, Equipped
  <2> QED BY <1>5, <2>1, <2>2
<1> QED BY <1>3, <1>4, <1>6 DEF AnyhowInv

\* In turn, it was the only one.
LEMMA AnsweredInTurn ==
  ASSUME StaffInv, NEW r \in Requests, request[r] # Waiting, Done(r),
         calm => SessionsCurrent' /\ LinksCurrent' /\ Counts' /\ Managed'
  PROVE  CalmInv'
<1>1. request' = [request EXCEPT ![r] = Waiting] /\ calm' = calm
      /\ request \in [Requests -> RequestRows]
  BY DEF Done, StaffInv, AnyhowInv, StaffTyped
<1>2. ASSUME calm, NEW q \in Requests PROVE request'[q] = Waiting
  BY <1>1, <1>2 DEF StaffInv, CalmInv, InTurn
<1> QED BY <1>1, <1>2 DEF CalmInv, InTurn, NothingStale

\* A request in turn writes what is there, changed.
LEMMA SavedInTurn ==
  ASSUME StaffTyped, SessionsCurrent, Counts, Managed, rolesKept' = rolesKept,
         NEW a \in Accounts, NEW u \in UserRows,
         user'[a] = u, \A b \in Accounts \ {a} : user'[b] = user[b],
         user[a].status # "absent", u.status # "absent",
         wrong'[a] <= u.failed, \A b \in Accounts \ {a} : wrong'[b] = wrong[b],
         \A s \in Sessions : IsLive(session'[s]) =>
             IF session'[s].owner = a
             THEN u.status = "active" /\ u.password = session'[s].shown
             ELSE session'[s] = session[s],
         rolesKept => \/ u.status = "active" /\ u.manager
                      \/ ~ (user[a].status = "active" /\ user[a].manager)
                      \/ \E b \in Accounts \ {a} : user[b].status = "active" /\ user[b].manager
  PROVE  SessionsCurrent' /\ Counts' /\ Managed'
<1>1. ASSUME NEW s \in Sessions, IsLive(session'[s]), session'[s].owner \in Accounts \cup {Nobody}
      PROVE  /\ user'[session'[s].owner].status = "active"
             /\ user'[session'[s].owner].password = session'[s].shown
  <2>1. CASE session'[s].owner = a
    BY <1>1, <2>1
  <2>2. CASE session'[s].owner # a
    <3>1. session'[s] = session[s] /\ IsLive(session[s]) /\ session[s].owner \in Accounts
      BY <1>1, <2>2 DEF IsLive
    <3> QED BY <2>2, <3>1 DEF SessionsCurrent
  <2> QED BY <2>1, <2>2
<1>2. ASSUME NEW s \in Sessions, IsLive(session'[s]) PROVE session'[s].owner \in Accounts \cup {Nobody}
  <2>1. CASE session'[s].owner = a
    BY <2>1
  <2>2. CASE session'[s].owner # a
    BY <1>2, <2>2 DEF StaffTyped, SessionRows
  <2> QED BY <2>1, <2>2
<1>3. SessionsCurrent'
  BY <1>1, <1>2 DEF SessionsCurrent, IsLive
<1>4. Counts'
  BY DEF Counts
<1>5. Managed'
  BY DEF Managed
<1> QED BY <1>3, <1>4, <1>5

-----------------------------------------------------------------------------
(* A step.                                                                 *)

\* The bodies of EndsStay and WrongsLock.
StaffMoves ==
    calm => /\ \A s \in Sessions : session[s].revoked => session'[s].revoked
            /\ \A a \in Accounts : user[a].factor = "on" /\ user'[a].status = "active"
                                      => user'[a].factor = "on"
            /\ \A a \in Accounts : wrong[a] < MaxFailed /\ wrong'[a] = MaxFailed
                                      => user'[a].locked

\* What a request in turn knows of the account it is about.
LEMMA InHand ==
  ASSUME StaffInv, calm, NEW r \in Requests, request[r].doing # "nothing",
         request[r].on \in Accounts
  PROVE  LET q == request[r]  u == user[request[r].on] IN
         /\ request[r] # Waiting
         /\ q.row \in UserRows /\ u \in UserRows /\ u.status # "absent"
         /\ q.row.status = u.status /\ q.row.address = u.address /\ q.row.password = u.password
         /\ q.row.manager = u.manager /\ q.row.failed = u.failed /\ q.row.factor = u.factor
         /\ Current(q)
<1>1. request[r] # Waiting /\ request[r] \in RequestRows /\ user[request[r].on] \in UserRows
      /\ request[r].on # Nobody
  BY StaffAssumption DEF Waiting, StaffInv, AnyhowInv, StaffTyped
<1>2. Current(request[r])
  BY <1>1 DEF StaffInv, CalmInv, NothingStale
<1> DEFINE row == request[r].row
           u == user[request[r].on]
<1>3. row = [u EXCEPT !.locked = row.locked] /\ u.status # "absent" /\ row \in UserRows
  BY <1>1, <1>2 DEF Current, RequestRows
<1>4. u \in UserRows
  BY <1>1
<1> HIDE DEF row, u
<1>5. /\ row.status = u.status /\ row.address = u.address /\ row.password = u.password
      /\ row.manager = u.manager /\ row.failed = u.failed /\ row.factor = u.factor
  BY <1>3, <1>4 DEF UserRows
<1> QED BY <1>1, <1>2, <1>3, <1>4, <1>5 DEF row, u

LEMMA WhoAsks ==
  ASSUME StaffInv, NEW r \in Requests, request[r].doing \notin {"nothing", "addStaff"}
  PROVE  /\ request[r].on \in Accounts /\ request[r].row \in UserRows
         /\ request[r] # Waiting
         /\ request[r].seen \in SessionRows /\ Equipped(request[r])
<1>1. request[r] \in RequestRows /\ Equipped(request[r])
  BY DEF StaffInv, AnyhowInv, StaffTyped
<1> QED BY <1>1 DEF RequestRows, Equipped, Waiting

\* A request that saves the account it is about.
LEMMA SavedRequest ==
  ASSUME StaffInv, NEW r \in Requests, request[r].doing \notin {"nothing", "addStaff"},
         NEW a \in Accounts, a = request[r].on,
         NEW u \in UserRows, Save(a, u), Done(r),
         session' \in [Sessions -> SessionRows], link' \in [Links -> LinkRows],
         wrong' \in [Accounts -> 0..MaxFailed],
         proved' \subseteq Sessions, proved \subseteq proved',
         \A s \in Sessions : session'[s].passed => s \in proved',
         calm => /\ u.status # "absent" /\ LinksCurrent'
                 /\ wrong'[a] <= u.failed /\ \A b \in Accounts \ {a} : wrong'[b] = wrong[b]
                 /\ \A s \in Sessions : IsLive(session'[s]) =>
                       IF session'[s].owner = a
                       THEN u.status = "active" /\ u.password = session'[s].shown
                       ELSE session'[s] = session[s]
                 /\ rolesKept => \/ u.status = "active" /\ u.manager
                                 \/ ~ (user[a].status = "active" /\ user[a].manager)
                                 \/ \E b \in Accounts \ {a} : user[b].status = "active" /\ user[b].manager,
         calm => /\ \A s \in Sessions : session[s].revoked => session'[s].revoked
                 /\ user[a].factor = "on" /\ u.status = "active" => u.factor = "on"
                 /\ wrong[a] < MaxFailed /\ wrong'[a] = MaxFailed => u.locked
  PROVE  StaffInv' /\ StaffMoves
<1>1. /\ user' \in [Accounts -> UserRows] /\ OneAddress'
      /\ user'[a] = u /\ \A b \in Accounts \ {a} : user'[b] = user[b]
  BY SavedAnyhow DEF StaffInv, AnyhowInv
<1>2. AnyhowInv'
  BY <1>1, AnsweredAnyhow DEF StaffInv
<1>3. request[r] # Waiting
  BY DEF Waiting
<1>4. ASSUME calm PROVE SessionsCurrent' /\ Counts' /\ Managed'
  <2>1. user[a].status # "absent"
    BY <1>4, InHand
  <2>2. rolesKept' = rolesKept
    BY DEF Done
  <2> QED BY <1>1, <1>4, <2>1, <2>2, SavedInTurn DEF StaffInv, AnyhowInv, CalmInv
<1>5. CalmInv'
  BY <1>3, <1>4, AnsweredInTurn
<1>6. StaffMoves
  <2>1. ASSUME calm, NEW b \in Accounts, b # a
        PROVE  user'[b] = user[b] /\ wrong'[b] = wrong[b]
    BY <1>1, <2>1
  <2> QED BY <1>1, <2>1 DEF StaffMoves
<1> QED BY <1>2, <1>5, <1>6 DEF StaffInv

\* Nothing is written but sessions and links, in turn.
LEMMA AccountsStay ==
  ASSUME StaffInv, NEW r \in Requests, request[r] # Waiting, Done(r),
         UNCHANGED <<user, wrong>>,
         session' \in [Sessions -> SessionRows], link' \in [Links -> LinkRows],
         proved' \subseteq Sessions, proved \subseteq proved',
         \A s \in Sessions : session'[s].passed => s \in proved',
         calm => /\ LinksCurrent'
                 /\ \A s \in Sessions : IsLive(session'[s]) =>
                       /\ user[session'[s].owner].status = "active"
                       /\ user[session'[s].owner].password = session'[s].shown
                 /\ \A s \in Sessions : session[s].revoked => session'[s].revoked
  PROVE  StaffInv' /\ StaffMoves
<1>1. AnyhowInv'
  BY AnsweredAnyhow DEF StaffInv, AnyhowInv, StaffTyped, OneAddress
<1>2. ASSUME calm PROVE SessionsCurrent' /\ Counts' /\ Managed'
  BY <1>2 DEF Done, StaffInv, CalmInv, SessionsCurrent, Counts, Managed, IsLive
<1>3. CalmInv'
  BY <1>2, AnsweredInTurn
<1>4. StaffMoves
  <2>1. \A a \in Accounts : wrong[a] < MaxFailed /\ wrong'[a] = MaxFailed => user'[a].locked
    BY StaffAssumption
  <2> QED BY <2>1 DEF StaffMoves
<1> QED BY <1>1, <1>3, <1>4 DEF StaffInv

LEMMA LinksStay == ASSUME LinksCurrent, link' = link PROVE LinksCurrent'
  BY DEF LinksCurrent, Usable

\* The facts that hold of tables not written.
LEMMA TablesTyped ==
  ASSUME StaffInv
  PROVE  /\ user \in [Accounts -> UserRows] /\ session \in [Sessions -> SessionRows]
         /\ link \in [Links -> LinkRows] /\ wrong \in [Accounts -> 0..MaxFailed]
         /\ proved \subseteq Sessions /\ \A s \in Sessions : session[s].passed => s \in proved
         /\ calm => LinksCurrent /\ SessionsCurrent
         /\ \A a \in Accounts : user[a] \in UserRows /\ wrong[a] \in 0..MaxFailed
                                /\ (calm => wrong[a] <= user[a].failed)
  BY DEF StaffInv, AnyhowInv, StaffTyped, CodesPresented, CalmInv, Counts

-----------------------------------------------------------------------------
(* The requests, one by one.                                               *)

LEMMA WrongAnswered ==
  ASSUME StaffInv, NEW r \in Requests, request[r].doing \in {"signIn", "verifyTwoFactor"},
         AnswersWrong(r)
  PROVE  StaffInv' /\ StaffMoves
<1> DEFINE a == request[r].on
           u == Counted(request[r].row)
           more == IF wrong[a] = MaxFailed THEN wrong[a] ELSE wrong[a] + 1
<1>1. a \in Accounts /\ request[r].row \in UserRows
  BY WhoAsks
<1>2. u \in UserRows
  BY <1>1, CountedRow
<1>3. /\ Save(a, u) /\ Done(r) /\ UNCHANGED <<session, link, proved>>
      /\ wrong' = [wrong EXCEPT ![a] = more]
  BY DEF AnswersWrong
<1>4. more \in 0..MaxFailed /\ wrong' \in [Accounts -> 0..MaxFailed] /\ wrong'[a] = more
      /\ \A b \in Accounts \ {a} : wrong'[b] = wrong[b]
  BY <1>1, <1>3, StaffAssumption, TablesTyped
<1>5. ASSUME calm
      PROVE  /\ u.status = "active" /\ u.password = user[a].password /\ u.factor = user[a].factor
             /\ u.manager = user[a].manager /\ user[a].status = "active"
             /\ u.failed = IF user[a].failed = MaxFailed THEN MaxFailed ELSE user[a].failed + 1
             /\ user[a].failed + 1 >= MaxFailed => u.locked
  <2>1. Current(request[r]) /\ request[r].row.status = user[a].status
        /\ request[r].row.password = user[a].password /\ request[r].row.factor = user[a].factor
        /\ request[r].row.manager = user[a].manager /\ request[r].row.failed = user[a].failed
    BY <1>1, <1>5, InHand
  <2>2. user[a].status = "active"
    BY <2>1 DEF Current, ByAddress, BySession
  <2> QED BY <1>1, <2>1, <2>2, CountedRow
<1>6. ASSUME calm PROVE wrong'[a] <= u.failed /\ (wrong[a] < MaxFailed /\ wrong'[a] = MaxFailed => u.locked)
  <2>1. /\ wrong[a] \in 0..MaxFailed /\ user[a].failed \in 0..MaxFailed /\ MaxFailed \in Nat
        /\ wrong[a] <= user[a].failed
    BY <1>1, <1>6, TablesTyped, StaffAssumption DEF UserRows
  <2> QED BY <1>4, <1>5, <1>6, <2>1
<1>7. ASSUME calm
      PROVE  \A s \in Sessions : IsLive(session'[s]) =>
                IF session'[s].owner = a
                THEN u.status = "active" /\ u.password = session'[s].shown
                ELSE session'[s] = session[s]
  BY <1>3, <1>5, <1>7, TablesTyped DEF SessionsCurrent
<1> HIDE DEF u, a, more
<1>8. a = request[r].on
  BY DEF a
<1>9. calm => LinksCurrent'
  BY <1>3, TablesTyped, LinksStay
<1>10. calm /\ rolesKept => \/ u.status = "active" /\ u.manager
                            \/ ~ (user[a].status = "active" /\ user[a].manager)
  BY <1>5
<1> QED BY <1>1, <1>2, <1>3, <1>4, <1>5, <1>6, <1>7, <1>8, <1>9, <1>10, TablesTyped, SavedRequest

\* What SavedRequest asks of an account that keeps its part, where no session or link
\* is written.
LEMMA KeptRow ==
  ASSUME StaffInv, NEW r \in Requests, request[r].doing \notin {"nothing", "addStaff"},
         NEW a \in Accounts, a = request[r].on, NEW u \in UserRows, Save(a, u), Done(r),
         UNCHANGED <<session, link, proved>>,
         wrong' \in [Accounts -> 0..MaxFailed],
         wrong'[a] <= u.failed \/ ~ calm,
         \/ wrong' = wrong
         \/ wrong'[a] = 0 /\ \A b \in Accounts \ {a} : wrong'[b] = wrong[b],
         calm => /\ u.status # "absent" /\ u.password = user[a].password
                 /\ user[a].status = "active" => u.status = "active"
                 /\ rolesKept => u.manager = user[a].manager
                 /\ user[a].factor = "on" => u.factor = "on"
  PROVE  StaffInv' /\ StaffMoves
<1>1. ASSUME calm
      PROVE  \A s \in Sessions : IsLive(session'[s]) =>
                IF session'[s].owner = a
                THEN u.status = "active" /\ u.password = session'[s].shown
                ELSE session'[s] = session[s]
  BY <1>1, TablesTyped DEF SessionsCurrent
<1>2. ASSUME calm
      PROVE  wrong[a] < MaxFailed /\ wrong'[a] = MaxFailed => u.locked
  BY StaffAssumption, TablesTyped
<1>3. calm => LinksCurrent'
  BY TablesTyped, LinksStay
<1> QED BY <1>1, <1>2, <1>3, TablesTyped, SavedRequest

LEMMA NothingForgotten ==
  ASSUME StaffInv, NEW a \in Accounts, Forgiven(a)
  PROVE  /\ wrong' \in [Accounts -> 0..MaxFailed] /\ wrong'[a] = 0
         /\ \A b \in Accounts \ {a} : wrong'[b] = wrong[b]
  BY StaffAssumption, TablesTyped DEF Forgiven

LEMMA SessionSaved ==
  ASSUME StaffInv, NEW r \in Requests, request[r].with \in Sessions,
         NEW rv \in BOOLEAN, NEW ps \in BOOLEAN, SaveSession(r, rv, ps)
  PROVE  /\ session' \in [Sessions -> SessionRows]
         /\ \A s \in Sessions : s # request[r].with => session'[s] = session[s]
         /\ session'[request[r].with].revoked = rv
         /\ session'[request[r].with].passed = ps
         /\ session'[request[r].with].owner = session[request[r].with].owner
         /\ session'[request[r].with].shown = session[request[r].with].shown
         /\ session'[request[r].with].over = session[request[r].with].over
<1> DEFINE w == request[r].with
           to == [session[w] EXCEPT !.revoked = rv, !.passed = ps]
<1>1. session \in [Sessions -> SessionRows] /\ session[w] \in SessionRows
  BY TablesTyped
<1>2. session' = [session EXCEPT ![w].revoked = rv, ![w].passed = ps]
  BY DEF SaveSession
<1> HIDE DEF w
<1>3. /\ to \in SessionRows /\ to.revoked = rv /\ to.passed = ps /\ to.owner = session[w].owner
      /\ to.shown = session[w].shown /\ to.over = session[w].over
  BY <1>1 DEF SessionRows
<1>4. w \in Sessions
  BY DEF w
<1>5. session' = [session EXCEPT ![w] = to]
  BY <1>1, <1>2, <1>4 DEF SessionRows
<1> HIDE DEF to
<1>6. session' \in [Sessions -> SessionRows] /\ session'[w] = to
      /\ \A s \in Sessions : s # w => session'[s] = session[s]
  BY <1>1, <1>3, <1>4, <1>5
<1> QED BY <1>3, <1>6 DEF w

\* A session saved in turn is one that nobody revoked.
LEMMA SessionInTurn ==
  ASSUME StaffInv, calm, NEW r \in Requests, request[r].doing # "nothing",
         request[r].with \in Sessions, request[r].on \in Accounts
  PROVE  /\ ~ session[request[r].with].revoked
         /\ session[request[r].with].owner = request[r].on
<1>1. Current(request[r])
  BY InHand
<1> QED BY <1>1, StaffAssumption DEF Current

LEMMA SignedIn ==
  ASSUME StaffInv, NEW r \in Requests, SignIn(r)
  PROVE  StaffInv' /\ StaffMoves
<1> DEFINE a == request[r].on
           u == Cleared(request[r].row)
<1>1. /\ a \in Accounts /\ request[r].row \in UserRows
      /\ request[r].doing = "signIn" /\ u \in UserRows
  BY WhoAsks, ClearedRow DEF SignIn
<1>2. CASE AnswersWrong(r)
  BY <1>1, <1>2, WrongAnswered
<1>3. CASE ~ AnswersWrong(r)
  <2>1. PICK s \in Sessions :
          /\ session[s] = NoSuchSession
          /\ session' = [session EXCEPT ![s] = NewSession(a, request[r].row)]
          /\ proved' = IF request[r].row.factor = "on" THEN proved ELSE proved \cup {s}
    BY <1>3 DEF SignIn
  <2>2. Save(a, u) /\ Forgiven(a) /\ Done(r) /\ link' = link
    BY <1>3 DEF SignIn
  <2> DEFINE new == NewSession(a, request[r].row)
  <2>3. /\ new \in SessionRows /\ new.owner = a /\ new.shown = request[r].row.password
        /\ new.passed => request[r].row.factor # "on"
    BY <1>1 DEF NewSession, SessionRows, UserRows
  <2>4. /\ session' \in [Sessions -> SessionRows] /\ session'[s] = new
        /\ \A t \in Sessions : t # s => session'[t] = session[t]
    BY <2>1, <2>3, TablesTyped
  <2>5. /\ proved' \subseteq Sessions /\ proved \subseteq proved'
        /\ \A t \in Sessions : session'[t].passed => t \in proved'
    BY <2>1, <2>3, <2>4, TablesTyped
  <2>6. ASSUME calm
        PROVE  /\ u.status = "active" /\ u.password = user[a].password /\ u.factor = user[a].factor
               /\ u.manager = user[a].manager /\ user[a].status = "active"
               /\ request[r].row.password = user[a].password
    <3>1. Current(request[r]) /\ request[r].row.status = user[a].status
          /\ request[r].row.password = user[a].password /\ request[r].row.factor = user[a].factor
          /\ request[r].row.manager = user[a].manager
      BY <1>1, <2>6, InHand
    <3>2. user[a].status = "active"
      BY <1>1, <3>1 DEF Current, ByAddress
    <3> QED BY <1>1, <3>1, <3>2, ClearedRow
  <2> HIDE DEF new
  <2>7. ASSUME calm, NEW t \in Sessions, IsLive(session'[t])
        PROVE  IF session'[t].owner = a
               THEN u.status = "active" /\ u.password = session'[t].shown
               ELSE session'[t] = session[t]
    <3>1. CASE t = s
      BY <2>3, <2>4, <2>6, <2>7, <3>1
    <3>2. CASE t # s
      BY <2>4, <2>6, <2>7, <3>2, TablesTyped DEF SessionsCurrent
    <3> QED BY <3>1, <3>2
  <2>8. ASSUME NEW t \in Sessions, session[t].revoked PROVE session'[t].revoked
    BY <2>1, <2>4, <2>8 DEF NoSuchSession
  <2>9. wrong' \in [Accounts -> 0..MaxFailed] /\ wrong'[a] = 0
        /\ \A b \in Accounts \ {a} : wrong'[b] = wrong[b]
    BY <1>1, <2>2, NothingForgotten
  <2>10. wrong'[a] <= u.failed /\ ~ (wrong[a] < MaxFailed /\ wrong'[a] = MaxFailed)
    BY <1>1, <2>9, ClearedRow, StaffAssumption
  <2>11. calm => LinksCurrent'
    BY <2>2, TablesTyped, LinksStay
  <2>12. link' \in [Links -> LinkRows] /\ a = request[r].on
         /\ request[r].doing \notin {"nothing", "addStaff"}
    BY <1>1, <2>2, TablesTyped
  <2> HIDE DEF u, a
  <2> QED BY <1>1, <2>2, <2>4, <2>5, <2>6, <2>7, <2>8, <2>9, <2>10, <2>11, <2>12, SavedRequest
<1> QED BY <1>2, <1>3

\* A link that is used is used up.
LEMMA LinkUsed ==
  ASSUME StaffInv, NEW k \in Links,
         link' = [link EXCEPT ![k].used = TRUE, ![k].uses = @ + 1]
  PROVE  /\ link' \in [Links -> LinkRows]
         /\ calm /\ ~ link[k].used => LinksCurrent'
<1> DEFINE to == [link[k] EXCEPT !.used = TRUE, !.uses = @ + 1]
<1>1. link \in [Links -> LinkRows] /\ link[k] \in LinkRows
  BY TablesTyped
<1>2. to \in LinkRows /\ to.used /\ to.uses = link[k].uses + 1
  BY <1>1 DEF LinkRows
<1>3. link' = [link EXCEPT ![k] = to]
  BY <1>1 DEF LinkRows
<1> HIDE DEF to
<1>4. /\ link' \in [Links -> LinkRows] /\ link'[k] = to
      /\ \A j \in Links : j # k => link'[j] = link[j]
  BY <1>1, <1>2, <1>3
<1>5. ASSUME calm, ~ link[k].used PROVE LinksCurrent'
  <2>1. to.uses = 1
    BY <1>2, <1>5, TablesTyped DEF LinksCurrent
  <2>2. ~ Usable(to)
    BY <1>2 DEF Usable
  <2>3. \A j \in Links : link'[j].uses = 0 \/ (link'[j].uses = 1 /\ link'[j].used)
    BY <1>2, <1>4, <1>5, <2>1, TablesTyped DEF LinksCurrent
  <2>4. \A j \in Links : Usable(link'[j]) => link'[j] = link[j] /\ Usable(link[j])
    BY <1>4, <2>2
  <2>5. \A i, j \in Links : Usable(link'[i]) /\ Usable(link'[j]) /\ link'[i].owner = link'[j].owner
                              => i = j
    BY <1>5, <2>4, TablesTyped DEF LinksCurrent
  <2> QED BY <2>3, <2>5 DEF LinksCurrent, Usable
<1> QED BY <1>4, <1>5

LEMMA PasswordChosen ==
  ASSUME StaffInv, NEW r \in Requests, NEW p \in Passwords, ChoosePassword(r, p)
  PROVE  StaffInv' /\ StaffMoves
<1> DEFINE a == request[r].on
           k == request[r].by
           v == Cleared(request[r].row)
           u == [v EXCEPT !.password = p]
<1>1. /\ a \in Accounts /\ request[r].row \in UserRows /\ v \in UserRows
      /\ request[r].doing \in {"completePasswordReset", "setStaffPassword"}
  BY WhoAsks, ClearedRow DEF ChoosePassword
<1>2. /\ Save(a, u) /\ Forgiven(a) /\ Done(r) /\ session' = Revoked(a) /\ proved' = proved
      /\ link' = IF k = NoLink THEN link ELSE [link EXCEPT ![k].used = TRUE, ![k].uses = @ + 1]
  BY DEF ChoosePassword
<1>3. /\ u \in UserRows /\ u.status = v.status /\ u.manager = v.manager /\ u.factor = v.factor
      /\ u.failed = v.failed /\ u.password = p
  <2> HIDE DEF v
  <2> QED BY <1>1 DEF UserRows
<1>4. k \in Links \cup {NoLink}
  BY DEF StaffInv, AnyhowInv, StaffTyped, RequestRows
<1>5. ASSUME calm
      PROVE  /\ u.status = user[a].status /\ u.status # "absent" /\ u.factor = user[a].factor
             /\ u.manager = user[a].manager /\ (k # NoLink => ~ link[k].used)
  <2>1. /\ Current(request[r]) /\ request[r].row.status = user[a].status
        /\ user[a].status # "absent"
        /\ request[r].row.factor = user[a].factor /\ request[r].row.manager = user[a].manager
    BY <1>1, <1>5, InHand
  <2>2. k # NoLink => ~ link[k].used
    BY <2>1 DEF Current
  <2> QED BY <1>1, <1>3, <2>1, <2>2, ClearedRow
<1>6. link' \in [Links -> LinkRows] /\ (calm => LinksCurrent')
  BY <1>2, <1>4, <1>5, TablesTyped, LinkUsed, LinksStay
<1>7. /\ session' \in [Sessions -> SessionRows]
      /\ \A s \in Sessions : /\ session'[s].passed => s \in proved
                             /\ session[s].revoked => session'[s].revoked
                             /\ IsLive(session'[s]) => session'[s] = session[s] /\ session[s].owner # a
  BY <1>2, SessionsRevoked DEF StaffInv, AnyhowInv
<1>8. wrong' \in [Accounts -> 0..MaxFailed] /\ wrong'[a] = 0
      /\ \A b \in Accounts \ {a} : wrong'[b] = wrong[b]
  BY <1>1, <1>2, NothingForgotten
<1>9. wrong'[a] <= u.failed /\ ~ (wrong[a] < MaxFailed /\ wrong'[a] = MaxFailed)
  BY <1>1, <1>3, <1>8, ClearedRow, StaffAssumption
<1>10. calm => \A s \in Sessions : IsLive(session'[s]) =>
                 IF session'[s].owner = a
                 THEN u.status = "active" /\ u.password = session'[s].shown
                 ELSE session'[s] = session[s]
  BY <1>7
<1>11. a = request[r].on /\ request[r].doing \notin {"nothing", "addStaff"}
  BY <1>1
<1> HIDE DEF a, k, u, v
<1> QED BY <1>1, <1>2, <1>3, <1>5, <1>6, <1>7, <1>8, <1>9, <1>10, <1>11, TablesTyped, SavedRequest

LEMMA Suspended ==
  ASSUME StaffInv, NEW r \in Requests, Suspend(r)
  PROVE  StaffInv' /\ StaffMoves
<1> DEFINE a == request[r].on
           u == [request[r].row EXCEPT !.status = "suspended"]
<1>1. /\ a \in Accounts /\ request[r].row \in UserRows /\ request[r].doing = "suspend"
  BY WhoAsks DEF Suspend
<1>2. /\ Save(a, u) /\ Done(r) /\ session' = Revoked(a) /\ UNCHANGED <<link, wrong, proved>>
  BY DEF Suspend
<1>3. /\ u \in UserRows /\ u.status = "suspended" /\ u.failed = request[r].row.failed
      /\ u.factor = request[r].row.factor
  BY <1>1 DEF UserRows, Held
<1>4. ASSUME calm
      PROVE  /\ u.failed = user[a].failed
             /\ \E b \in Accounts \ {a} : user[b].status = "active" /\ user[b].manager
  <2>1. Current(request[r]) /\ request[r].row.failed = user[a].failed
    BY <1>1, <1>4, InHand
  <2> QED BY <1>1, <1>3, <2>1 DEF Current
<1>5. /\ session' \in [Sessions -> SessionRows]
      /\ \A s \in Sessions : /\ session'[s].passed => s \in proved
                             /\ session[s].revoked => session'[s].revoked
                             /\ IsLive(session'[s]) => session'[s] = session[s] /\ session[s].owner # a
  BY <1>2, SessionsRevoked DEF StaffInv, AnyhowInv
<1>6. ASSUME calm
      PROVE  /\ LinksCurrent' /\ wrong'[a] <= u.failed
             /\ ~ (wrong[a] < MaxFailed /\ wrong'[a] = MaxFailed)
  BY <1>1, <1>2, <1>4, <1>6, TablesTyped, LinksStay, StaffAssumption
<1>7. a = request[r].on /\ request[r].doing \notin {"nothing", "addStaff"}
  BY <1>1
<1> HIDE DEF a, u
<1> QED BY <1>1, <1>2, <1>3, <1>4, <1>5, <1>6, <1>7, TablesTyped, SavedRequest

LEMMA Reinstated ==
  ASSUME StaffInv, NEW r \in Requests, Reinstate(r)
  PROVE  StaffInv' /\ StaffMoves
<1> DEFINE a == request[r].on
           v == Cleared(request[r].row)
           u == [v EXCEPT !.status = "active"]
<1>1. /\ a \in Accounts /\ request[r].row \in UserRows /\ v \in UserRows
      /\ request[r].doing = "reinstate"
  BY WhoAsks, ClearedRow DEF Reinstate
<1>2. Save(a, u) /\ Forgiven(a) /\ Done(r) /\ UNCHANGED <<session, link, proved>>
  BY DEF Reinstate
<1>3. /\ u \in UserRows /\ u.status = "active" /\ u.manager = v.manager /\ u.factor = v.factor
      /\ u.failed = v.failed /\ u.password = v.password
  <2> HIDE DEF v
  <2> QED BY <1>1 DEF UserRows, Held
<1>4. ASSUME calm
      PROVE  /\ u.password = user[a].password /\ u.factor = user[a].factor
             /\ u.manager = user[a].manager
  <2>1. /\ request[r].row.password = user[a].password
        /\ request[r].row.factor = user[a].factor /\ request[r].row.manager = user[a].manager
    BY <1>1, <1>4, InHand
  <2> QED BY <1>1, <1>3, <2>1, ClearedRow
<1>5. wrong' \in [Accounts -> 0..MaxFailed] /\ wrong'[a] = 0 /\ u.failed = 0
      /\ \A b \in Accounts \ {a} : wrong'[b] = wrong[b]
  BY <1>1, <1>2, <1>3, NothingForgotten, ClearedRow
<1>6. a = request[r].on /\ request[r].doing \notin {"nothing", "addStaff"}
  BY <1>1
<1> HIDE DEF a, u, v
<1> QED BY <1>1, <1>2, <1>3, <1>4, <1>5, <1>6, KeptRow

LEMMA RolesAssigned ==
  ASSUME StaffInv, NEW r \in Requests, NEW b \in BOOLEAN, AssignRoles(r, b)
  PROVE  StaffInv' /\ StaffMoves
<1> DEFINE a == request[r].on
           u == [request[r].row EXCEPT !.manager = b]
<1>1. /\ a \in Accounts /\ request[r].row \in UserRows /\ request[r].doing = "assignRoles"
  BY WhoAsks DEF AssignRoles
<1>2. Save(a, u) /\ Done(r) /\ UNCHANGED <<session, link, wrong, proved>>
  BY DEF AssignRoles
<1>3. /\ u \in UserRows /\ u.status = request[r].row.status /\ u.factor = request[r].row.factor
      /\ u.failed = request[r].row.failed /\ u.password = request[r].row.password
  BY <1>1 DEF UserRows
<1>4. ASSUME calm
      PROVE  /\ u.password = user[a].password /\ u.factor = user[a].factor
             /\ u.status = user[a].status /\ u.status # "absent" /\ wrong'[a] <= u.failed
             /\ ~ rolesKept
  <2>1. /\ Current(request[r]) /\ request[r].row.password = user[a].password
        /\ request[r].row.status = user[a].status /\ user[a].status # "absent"
        /\ request[r].row.failed = user[a].failed /\ request[r].row.factor = user[a].factor
    BY <1>1, <1>4, InHand
  <2>2. ~ rolesKept
    BY <1>1, <2>1 DEF Current
  <2> QED BY <1>1, <1>2, <1>3, <1>4, <2>1, <2>2, TablesTyped
<1>5. wrong' = wrong /\ wrong' \in [Accounts -> 0..MaxFailed]
  BY <1>2, TablesTyped
<1>6. a = request[r].on /\ request[r].doing \notin {"nothing", "addStaff"}
  BY <1>1
<1> HIDE DEF a, u
<1> QED BY <1>1, <1>2, <1>3, <1>4, <1>5, <1>6, KeptRow

LEMMA FactorStarted ==
  ASSUME StaffInv, NEW r \in Requests, StartTwoFactor(r)
  PROVE  StaffInv' /\ StaffMoves
<1> DEFINE a == request[r].on
           u == [request[r].row EXCEPT !.factor = "begun"]
<1>1. /\ a \in Accounts /\ request[r].row \in UserRows /\ request[r].doing = "startTwoFactor"
      /\ request[r].row.factor # "on"
  BY WhoAsks DEF StartTwoFactor
<1>2. Save(a, u) /\ Done(r) /\ UNCHANGED <<session, link, wrong, proved>>
  BY DEF StartTwoFactor
<1>3. /\ u \in UserRows /\ u.status = request[r].row.status /\ u.manager = request[r].row.manager
      /\ u.failed = request[r].row.failed /\ u.password = request[r].row.password
  BY <1>1 DEF UserRows
<1>4. ASSUME calm
      PROVE  /\ u.password = user[a].password /\ u.manager = user[a].manager
             /\ u.status = user[a].status /\ u.status # "absent" /\ wrong'[a] <= u.failed
             /\ user[a].factor # "on"
  <2>1. /\ request[r].row.password = user[a].password /\ request[r].row.manager = user[a].manager
        /\ request[r].row.status = user[a].status /\ user[a].status # "absent"
        /\ request[r].row.failed = user[a].failed /\ request[r].row.factor = user[a].factor
    BY <1>1, <1>4, InHand
  <2> QED BY <1>1, <1>2, <1>3, <1>4, <2>1, TablesTyped
<1>5. wrong' = wrong /\ wrong' \in [Accounts -> 0..MaxFailed]
  BY <1>2, TablesTyped
<1>6. a = request[r].on /\ request[r].doing \notin {"nothing", "addStaff"}
  BY <1>1
<1> HIDE DEF a, u
<1> QED BY <1>1, <1>2, <1>3, <1>4, <1>5, <1>6, KeptRow

LEMMA FactorConfirmed ==
  ASSUME StaffInv, NEW r \in Requests, ConfirmTwoFactor(r)
  PROVE  StaffInv' /\ StaffMoves
<1> DEFINE a == request[r].on
           w == request[r].with
           u == [request[r].row EXCEPT !.factor = "on"]
           to == [session[w] EXCEPT !.passed = TRUE]
<1>1. /\ a \in Accounts /\ request[r].row \in UserRows /\ request[r].doing = "confirmTwoFactor"
      /\ w \in Sessions
  BY WhoAsks DEF ConfirmTwoFactor, Equipped, BySession
<1>2. /\ Save(a, u) /\ Done(r) /\ UNCHANGED <<link, wrong>> /\ proved' = proved \cup {w}
      /\ session' = [session EXCEPT ![w].passed = TRUE]
  BY DEF ConfirmTwoFactor
<1>3. /\ u \in UserRows /\ u.status = request[r].row.status /\ u.manager = request[r].row.manager
      /\ u.failed = request[r].row.failed /\ u.password = request[r].row.password
      /\ u.factor = "on"
  BY <1>1 DEF UserRows
<1>4. ASSUME calm
      PROVE  /\ u.password = user[a].password /\ u.manager = user[a].manager
             /\ u.status = user[a].status /\ u.status # "absent" /\ wrong'[a] <= u.failed
             /\ ~ (wrong[a] < MaxFailed /\ wrong'[a] = MaxFailed)
             /\ session[w].owner = a
  <2>1. /\ request[r].row.password = user[a].password /\ request[r].row.manager = user[a].manager
        /\ request[r].row.status = user[a].status /\ user[a].status # "absent"
        /\ request[r].row.failed = user[a].failed
    BY <1>1, <1>4, InHand
  <2>2. session[w].owner = a
    BY <1>1, <1>4, SessionInTurn
  <2> QED BY <1>1, <1>2, <1>3, <1>4, <2>1, <2>2, TablesTyped, StaffAssumption
<1>5. session[w] \in SessionRows /\ session \in [Sessions -> SessionRows]
  BY <1>1, TablesTyped
<1>6. /\ to \in SessionRows /\ to.owner = session[w].owner /\ to.shown = session[w].shown
      /\ to.revoked = session[w].revoked /\ to.over = session[w].over
  <2> HIDE DEF w
  <2> QED BY <1>5 DEF SessionRows
<1>7. session' = [session EXCEPT ![w] = to]
  BY <1>2
<1> HIDE DEF to
<1>8. /\ session' \in [Sessions -> SessionRows] /\ session'[w] = to
      /\ \A s \in Sessions : s # w => session'[s] = session[s]
  BY <1>1, <1>5, <1>6, <1>7
<1>9. IsLive(to) => IsLive(session[w])
  BY <1>6 DEF IsLive
<1>10. ASSUME calm, NEW s \in Sessions, IsLive(session'[s])
       PROVE  IF session'[s].owner = a
              THEN u.status = "active" /\ u.password = session'[s].shown
              ELSE session'[s] = session[s]
  <2>1. CASE s = w
    BY <1>4, <1>6, <1>8, <1>9, <1>10, <2>1, TablesTyped DEF SessionsCurrent
  <2>2. CASE s # w
    BY <1>4, <1>8, <1>10, <2>2, TablesTyped DEF SessionsCurrent
  <2> QED BY <2>1, <2>2
<1>11. \A s \in Sessions : session[s].revoked => session'[s].revoked
  BY <1>6, <1>8
<1>12. \A s \in Sessions : session'[s].passed => s \in proved'
  BY <1>2, <1>8, TablesTyped
<1>13. /\ proved' \subseteq Sessions /\ proved \subseteq proved'
       /\ link' \in [Links -> LinkRows] /\ wrong' \in [Accounts -> 0..MaxFailed]
       /\ \A b \in Accounts \ {a} : wrong'[b] = wrong[b]
       /\ a = request[r].on /\ request[r].doing \notin {"nothing", "addStaff"}
       /\ (calm => LinksCurrent')
  BY <1>1, <1>2, TablesTyped, LinksStay
<1> HIDE DEF a, u, w
<1>14. calm => /\ u.status # "absent" /\ LinksCurrent'
               /\ wrong'[a] <= u.failed
               /\ \A s \in Sessions : IsLive(session'[s]) =>
                       IF session'[s].owner = a
                       THEN u.status = "active" /\ u.password = session'[s].shown
                       ELSE session'[s] = session[s]
               /\ rolesKept => \/ u.status = "active" /\ u.manager
                               \/ ~ (user[a].status = "active" /\ user[a].manager)
  BY <1>4, <1>10, <1>13
<1> QED BY <1>1, <1>2, <1>3, <1>4, <1>8, <1>11, <1>12, <1>13, <1>14, SavedRequest

LEMMA FactorVerified ==
  ASSUME StaffInv, NEW r \in Requests, VerifyTwoFactor(r)
  PROVE  StaffInv' /\ StaffMoves
<1> DEFINE a == request[r].on
           w == request[r].with
           u == Cleared(request[r].row)
<1>1. /\ a \in Accounts /\ request[r].row \in UserRows /\ request[r].doing = "verifyTwoFactor"
      /\ w \in Sessions /\ u \in UserRows
  BY WhoAsks, ClearedRow DEF VerifyTwoFactor, Equipped, BySession
<1>2. CASE AnswersWrong(r)
  BY <1>1, <1>2, WrongAnswered
<1>3. CASE ~ AnswersWrong(r)
  <2>1. /\ Save(a, u) /\ Forgiven(a) /\ SaveSession(r, FALSE, TRUE) /\ Done(r) /\ link' = link
        /\ proved' = proved \cup {w}
    BY <1>3 DEF VerifyTwoFactor
  <2>2. /\ session' \in [Sessions -> SessionRows]
        /\ \A s \in Sessions : s # w => session'[s] = session[s]
        /\ session'[w].owner = session[w].owner /\ session'[w].shown = session[w].shown
        /\ session'[w].over = session[w].over
    BY <1>1, <2>1, SessionSaved
  <2>3. ASSUME calm
        PROVE  /\ u.status = user[a].status /\ u.status # "absent"
               /\ u.password = user[a].password /\ u.factor = user[a].factor
               /\ u.manager = user[a].manager /\ session[w].owner = a /\ ~ session[w].revoked
    <3>1. /\ request[r].row.password = user[a].password /\ request[r].row.manager = user[a].manager
          /\ request[r].row.status = user[a].status /\ user[a].status # "absent"
          /\ request[r].row.factor = user[a].factor
      BY <1>1, <2>3, InHand
    <3>2. session[w].owner = a /\ ~ session[w].revoked
      BY <1>1, <2>3, SessionInTurn
    <3> QED BY <1>1, <3>1, <3>2, ClearedRow
  <2>4. /\ wrong' \in [Accounts -> 0..MaxFailed] /\ wrong'[a] = 0 /\ u.failed = 0
        /\ \A b \in Accounts \ {a} : wrong'[b] = wrong[b]
    BY <1>1, <2>1, NothingForgotten, ClearedRow
  <2>5. wrong'[a] <= u.failed /\ ~ (wrong[a] < MaxFailed /\ wrong'[a] = MaxFailed)
    BY <2>4, StaffAssumption
  <2>6. ASSUME calm, NEW s \in Sessions, IsLive(session'[s])
        PROVE  IF session'[s].owner = a
               THEN u.status = "active" /\ u.password = session'[s].shown
               ELSE session'[s] = session[s]
    <3>1. CASE s = w
      <4>1. IsLive(session[w])
        BY <2>2, <2>3, <2>6, <3>1 DEF IsLive
      <4> QED BY <1>1, <2>2, <2>3, <2>6, <3>1, <4>1, TablesTyped DEF SessionsCurrent
    <3>2. CASE s # w
      BY <2>2, <2>3, <2>6, <3>2, TablesTyped DEF SessionsCurrent
    <3> QED BY <3>1, <3>2
  <2>7. calm => \A s \in Sessions : session[s].revoked => session'[s].revoked
    BY <2>2, <2>3
  <2>8. \A s \in Sessions : session'[s].passed => s \in proved'
    BY <2>1, <2>2, TablesTyped
  <2>9. /\ proved' \subseteq Sessions /\ proved \subseteq proved'
        /\ link' \in [Links -> LinkRows]
        /\ a = request[r].on /\ request[r].doing \notin {"nothing", "addStaff"}
        /\ (calm => LinksCurrent')
    BY <1>1, <2>1, TablesTyped, LinksStay
  <2> HIDE DEF a, u, w
  <2>10. calm => /\ u.status # "absent" /\ LinksCurrent'
                 /\ wrong'[a] <= u.failed
                 /\ \A s \in Sessions : IsLive(session'[s]) =>
                         IF session'[s].owner = a
                         THEN u.status = "active" /\ u.password = session'[s].shown
                         ELSE session'[s] = session[s]
                 /\ rolesKept => \/ u.status = "active" /\ u.manager
                                 \/ ~ (user[a].status = "active" /\ user[a].manager)
    BY <2>3, <2>5, <2>6, <2>9
  <2> QED BY <1>1, <2>1, <2>2, <2>3, <2>4, <2>5, <2>7, <2>8, <2>9, <2>10, SavedRequest
<1> QED BY <1>2, <1>3

\* A request that saves only its session: used, or signed out.
LEMMA SessionSavedOnly ==
  ASSUME StaffInv, NEW r \in Requests, request[r].doing \in {"authenticate", "signOutOne"},
         NEW rv \in BOOLEAN, SaveSession(r, rv, request[r].seen.passed), Done(r),
         UNCHANGED <<user, link, wrong, proved>>
  PROVE  StaffInv' /\ StaffMoves
<1> DEFINE w == request[r].with
           ps == request[r].seen.passed
<1>1. /\ request[r].on \in Accounts /\ w \in Sessions /\ ps \in BOOLEAN /\ (ps => w \in proved)
      /\ request[r] # Waiting
  BY WhoAsks DEF Equipped, BySession, SessionRows
<1>2. /\ session' \in [Sessions -> SessionRows]
      /\ \A s \in Sessions : s # w => session'[s] = session[s]
      /\ session'[w].owner = session[w].owner /\ session'[w].shown = session[w].shown
      /\ session'[w].over = session[w].over /\ session'[w].passed = ps
      /\ session'[w].revoked = rv
  BY <1>1, SessionSaved
<1>3. ASSUME calm PROVE session[w].owner = request[r].on /\ ~ session[w].revoked
  BY <1>1, <1>3, SessionInTurn
<1>4. ASSUME calm, NEW s \in Sessions, IsLive(session'[s])
      PROVE  /\ user[session'[s].owner].status = "active"
             /\ user[session'[s].owner].password = session'[s].shown
  <2>1. CASE s = w
    <3>1. IsLive(session[w])
      BY <1>2, <1>3, <1>4, <2>1 DEF IsLive
    <3> QED BY <1>1, <1>2, <1>4, <2>1, <3>1, TablesTyped DEF SessionsCurrent
  <2>2. CASE s # w
    BY <1>2, <1>4, <2>2, TablesTyped DEF SessionsCurrent
  <2> QED BY <2>1, <2>2
<1>5. calm => \A s \in Sessions : session[s].revoked => session'[s].revoked
  BY <1>2, <1>3
<1>6. \A s \in Sessions : session'[s].passed => s \in proved'
  BY <1>1, <1>2, TablesTyped
<1>7. calm => LinksCurrent'
  BY TablesTyped, LinksStay
<1>8. proved' = proved /\ link' \in [Links -> LinkRows] /\ proved' \subseteq Sessions
  BY TablesTyped
<1> HIDE DEF w, ps
<1> QED BY <1>1, <1>2, <1>4, <1>5, <1>6, <1>7, <1>8, AccountsStay

LEMMA SignedOutEverywhere ==
  ASSUME StaffInv, NEW r \in Requests, SignOutEverywhere(r)
  PROVE  StaffInv' /\ StaffMoves
<1>1. request[r].doing = "signOutEverywhere" /\ request[r] # Waiting
  BY DEF SignOutEverywhere, Waiting
<1>2. Done(r) /\ session' = Revoked(request[r].on) /\ UNCHANGED <<user, link, wrong, proved>>
  BY DEF SignOutEverywhere
<1>3. /\ session' \in [Sessions -> SessionRows]
      /\ \A s \in Sessions : /\ session'[s].passed => s \in proved
                             /\ session[s].revoked => session'[s].revoked
                             /\ IsLive(session'[s]) => session'[s] = session[s]
  BY <1>2, SessionsRevoked DEF StaffInv, AnyhowInv
<1>4. ASSUME calm, NEW s \in Sessions, IsLive(session'[s])
      PROVE  /\ user[session'[s].owner].status = "active"
             /\ user[session'[s].owner].password = session'[s].shown
  BY <1>3, <1>4, TablesTyped DEF SessionsCurrent
<1>5. calm => LinksCurrent'
  BY <1>2, TablesTyped, LinksStay
<1> QED BY <1>1, <1>2, <1>3, <1>4, <1>5, TablesTyped, AccountsStay

\* A link issued is the one of its owner that works.
LEMMA LinkIssued ==
  ASSUME StaffInv, NEW r \in Requests, RequestPasswordReset(r)
  PROVE  StaffInv' /\ StaffMoves
<1> DEFINE a == request[r].on
           new == [NoSuchLink EXCEPT !.owner = a]
<1>1. /\ request[r].doing = "requestPasswordReset" /\ a \in Accounts /\ request[r] # Waiting
  BY WhoAsks DEF RequestPasswordReset
<1>2. PICK k \in Links : link[k] = NoSuchLink /\ link' = Issued(k, a)
  BY DEF RequestPasswordReset
<1>3. Done(r) /\ UNCHANGED <<user, session, wrong, proved>>
  BY DEF RequestPasswordReset
<1>4. new \in LinkRows /\ new.uses = 0 /\ new.owner = a
  BY <1>1 DEF LinkRows, NoSuchLink
<1>5. \A j \in Links : link[j] \in LinkRows
  BY TablesTyped
<1>6. \A j \in Links : LET off == [link[j] EXCEPT !.used = TRUE] IN
         /\ off \in LinkRows /\ off.uses = link[j].uses /\ off.used /\ off.owner = link[j].owner
  BY <1>5 DEF LinkRows
<1>7. link'[k] = new /\ \A j \in Links \ {k} :
         link'[j] = IF link[j].owner = a THEN [link[j] EXCEPT !.used = TRUE] ELSE link[j]
  BY <1>2 DEF Issued
<1> HIDE DEF new
<1>8. link' \in [Links -> LinkRows]
  <2>1. \A j \in Links : link'[j] \in LinkRows
    BY <1>4, <1>5, <1>6, <1>7
  <2> QED BY <1>2, <2>1 DEF Issued
<1>9. \A j \in Links \ {k} : /\ link'[j].uses = link[j].uses /\ (link[j].used => link'[j].used)
                             /\ Usable(link'[j]) => link'[j] = link[j] /\ link[j].owner # a
  BY <1>6, <1>7 DEF Usable
<1>10. ASSUME calm PROVE LinksCurrent'
  <2>1. \A j \in Links : link'[j].uses = 0 \/ (link'[j].uses = 1 /\ link'[j].used)
    BY <1>4, <1>7, <1>8, <1>9, <1>10, TablesTyped DEF LinksCurrent, LinkRows
  <2>2. \A i, j \in Links : Usable(link'[i]) /\ Usable(link'[j]) /\ link'[i].owner = link'[j].owner
                              => i = j
    BY <1>4, <1>7, <1>9, <1>10, TablesTyped DEF LinksCurrent
  <2> QED BY <2>1, <2>2 DEF LinksCurrent, Usable
<1>11. calm => \A s \in Sessions : IsLive(session'[s]) =>
                  /\ user[session'[s].owner].status = "active"
                  /\ user[session'[s].owner].password = session'[s].shown
  BY <1>3, TablesTyped DEF SessionsCurrent
<1> QED BY <1>1, <1>3, <1>8, <1>10, <1>11, TablesTyped, AccountsStay

\* Links that lapse with their owner keep one that works.
LEMMA LinksLapse ==
  ASSUME LinksCurrent, link' \in [Links -> LinkRows],
         \A k \in Links : /\ link'[k].uses = link[k].uses /\ link'[k].used = link[k].used
                          /\ link'[k].owner = link[k].owner
                          /\ Usable(link'[k]) => Usable(link[k])
  PROVE  LinksCurrent'
<1>1. \A k \in Links : link'[k].uses = 0 \/ (link'[k].uses = 1 /\ link'[k].used)
  BY DEF LinksCurrent
<1>2. \A j, k \in Links : Usable(link'[j]) /\ Usable(link'[k]) /\ link'[j].owner = link'[k].owner
                            => j = k
  BY DEF LinksCurrent
<1> QED BY <1>1, <1>2 DEF LinksCurrent, Usable

LEMMA Removed ==
  ASSUME StaffInv, NEW r \in Requests, RemoveStaff(r)
  PROVE  StaffInv' /\ StaffMoves
<1> DEFINE a == request[r].on
<1>1. /\ a \in Accounts /\ request[r] # Waiting /\ request[r].doing = "removeStaff"
      /\ user[a].status \in Held
  BY WhoAsks DEF RemoveStaff
<1>2. Done(r) /\ UNCHANGED <<wrong, proved>>
  BY DEF RemoveStaff
<1>3. PICK u \in {Deleted(user[a]), Retired(user[a])} : user' = [user EXCEPT ![a] = u]
  BY DEF RemoveStaff
<1>4. /\ session' \in [Sessions -> SessionRows] /\ link' \in [Links -> LinkRows]
      /\ \A s \in Sessions : /\ session'[s].passed => s \in proved
                             /\ session[s].revoked => session'[s].revoked
                             /\ IsLive(session'[s]) => session'[s] = session[s] /\ session[s].owner # a
      /\ calm => LinksCurrent'
  <2>1. CASE WithoutPerson(a)
    BY <2>1, PersonGone, LinksLapse, TablesTyped DEF StaffInv, AnyhowInv
  <2>2. CASE session' = Revoked(a) /\ link' = link
    BY <2>2, SessionsRevoked, LinksStay, TablesTyped DEF StaffInv, AnyhowInv
  <2> QED BY <2>1, <2>2 DEF RemoveStaff
<1> HIDE DEF a
<1>5. /\ u \in UserRows /\ u.address = NoAddress /\ u.status \notin {"active", "absent"}
      /\ u.failed = user[a].failed
  BY <1>1, <1>3, GoneRow, TablesTyped
<1>6. /\ user' \in [Accounts -> UserRows] /\ user'[a] = u
      /\ \A b \in Accounts \ {a} : user'[b] = user[b]
  BY <1>1, <1>3, <1>5, TablesTyped
<1>7. OneAddress'
  BY <1>5, <1>6 DEF StaffInv, AnyhowInv, OneAddress
<1>8. AnyhowInv'
  <2>1. wrong' \in [Accounts -> 0..MaxFailed] /\ proved' = proved /\ proved' \subseteq Sessions
    BY <1>2, TablesTyped
  <2> QED BY <1>2, <1>4, <1>6, <1>7, <2>1, AnsweredAnyhow DEF StaffInv
<1>9. ASSUME calm PROVE SessionsCurrent' /\ Counts' /\ Managed'
  <2>1. user[a].status # "absent" /\ rolesKept' = rolesKept
        /\ \E b \in Accounts \ {a} : user[b].status = "active" /\ user[b].manager
    <3>1. Current(request[r])
      BY <1>1, <1>9, InHand DEF a
    <3>2. user[a].status # "absent"
      BY <1>1 DEF Held
    <3> QED BY <1>1, <1>2, <3>1, <3>2 DEF Current, Done, a
  <2>2. wrong'[a] <= u.failed /\ \A b \in Accounts \ {a} : wrong'[b] = wrong[b]
    BY <1>1, <1>2, <1>5, <1>9, TablesTyped
  <2>3. \A s \in Sessions : IsLive(session'[s]) => session'[s] = session[s] /\ session'[s].owner # a
    BY <1>4
  <2> QED BY <1>1, <1>5, <1>6, <1>9, <2>1, <2>2, <2>3, SavedInTurn DEF StaffInv, AnyhowInv, CalmInv
<1>10. CalmInv'
  BY <1>1, <1>2, <1>4, <1>9, AnsweredInTurn
<1>11. StaffMoves
  <2>1. \A b \in Accounts : wrong[b] < MaxFailed /\ wrong'[b] = MaxFailed => user'[b].locked
    BY <1>2, StaffAssumption
  <2>2. ASSUME NEW b \in Accounts, user[b].factor = "on", user'[b].status = "active"
        PROVE  user'[b].factor = "on"
    BY <1>5, <1>6, <2>2
  <2> QED BY <1>4, <2>1, <2>2 DEF StaffMoves
<1> QED BY <1>8, <1>10, <1>11 DEF StaffInv

LEMMA Added ==
  ASSUME StaffInv, NEW r \in Requests, NEW e \in Addresses, NEW p \in Passwords, NEW b \in BOOLEAN,
         AddStaff(r, e, p, b)
  PROVE  StaffInv' /\ StaffMoves
<1> DEFINE x == request[r].on
           new == [NoUser EXCEPT !.status = "active", !.address = e, !.password = p, !.manager = b]
<1>1. PICK a \in Accounts :
        /\ user[a].status = "absent"
        /\ \/ x = Nobody /\ user' = [user EXCEPT ![a] = new] /\ UNCHANGED <<session, link>>
           \/ /\ x # Nobody
              /\ user' = [user EXCEPT ![a] = new, ![x] = Deleted(user[x])]
              /\ WithoutPerson(x)
           \/ /\ x # Nobody /\ user[x].status \in Held
              /\ user' = [user EXCEPT ![a] = new, ![x] = Retired(user[x])]
              /\ UNCHANGED <<session, link>>
  BY DEF AddStaff
<1>2. /\ request[r].doing = "addStaff" /\ request[r].row.status # "active" /\ AddressFree(x, e)
      /\ request[r] # Waiting /\ x \in Accounts \cup {Nobody}
      /\ Done(r) /\ UNCHANGED <<wrong, proved>>
  BY DEF AddStaff, Waiting, StaffInv, AnyhowInv, StaffTyped, RequestRows
<1>3. /\ new \in UserRows /\ new.status = "active" /\ new.address = e /\ new.failed = 0
      /\ e # NoAddress
  <2>1. 0 \in 0..MaxFailed /\ e # NoAddress /\ "active" \in Held
    BY StaffAssumption DEF Held
  <2> QED BY <2>1 DEF UserRows, NoUser
<1>4. /\ session' \in [Sessions -> SessionRows] /\ link' \in [Links -> LinkRows]
      /\ \A s \in Sessions : /\ session'[s].passed => s \in proved
                             /\ session[s].revoked => session'[s].revoked
                             /\ IsLive(session'[s]) => session'[s] = session[s]
      /\ calm => LinksCurrent'
  <2>1. CASE WithoutPerson(x)
    BY <2>1, PersonGone, LinksLapse, TablesTyped DEF StaffInv, AnyhowInv
  <2>2. CASE UNCHANGED <<session, link>>
    BY <2>2, LinksStay, TablesTyped
  <2> QED BY <1>1, <2>1, <2>2
<1> HIDE DEF x, new
<1>5. \/ /\ x = Nobody /\ user' \in [Accounts -> UserRows] /\ user'[a] = new
         /\ \A c \in Accounts \ {a} : user'[c] = user[c]
      \/ /\ x \in Accounts /\ user' \in [Accounts -> UserRows]
         /\ a # x => user'[a] = new /\ user'[x].failed = user[x].failed
         /\ user'[x].address = NoAddress /\ user'[x].status \notin {"active", "absent"}
         /\ \A c \in Accounts \ {a, x} : user'[c] = user[c]
  <2>1. CASE x = Nobody
    <3>1. user' = [user EXCEPT ![a] = new]
      BY <1>1, <2>1
    <3> QED BY <1>3, <2>1, <3>1, TablesTyped
  <2>2. CASE x # Nobody
    <3>1. x \in Accounts /\ user[x] \in UserRows
      BY <1>2, <2>2, TablesTyped
    <3>2. PICK g \in {Deleted(user[x]), Retired(user[x])} :
            user' = [user EXCEPT ![a] = new, ![x] = g]
      BY <1>1, <2>2
    <3>3. /\ g \in UserRows /\ g.address = NoAddress /\ g.status \notin {"active", "absent"}
          /\ g.failed = user[x].failed
      BY <3>1, <3>2, GoneRow
    <3>6. /\ user' \in [Accounts -> UserRows] /\ user'[x] = g
          /\ a # x => user'[a] = new
          /\ \A c \in Accounts \ {a, x} : user'[c] = user[c]
      BY <1>3, <3>1, <3>2, <3>3, TablesTyped
    <3> QED BY <3>1, <3>3, <3>6
  <2> QED BY <2>1, <2>2
<1>6. OneAddress'
  <2>1. \A c \in Accounts \ {x} : user[c].address # e
    BY <1>2, <1>3 DEF AddressFree
  <2>2. ASSUME NEW c \in Accounts, NEW d \in Accounts, c # d, user'[c].address # NoAddress
        PROVE  user'[d].address # user'[c].address
    <3>1. CASE x = Nobody
      BY <1>3, <1>5, <2>1, <2>2, <3>1, StaffAssumption DEF StaffInv, AnyhowInv, OneAddress
    <3>2. CASE x # Nobody
      BY <1>3, <1>5, <2>1, <2>2, <3>2 DEF StaffInv, AnyhowInv, OneAddress
    <3> QED BY <3>1, <3>2
  <2> QED BY <2>2 DEF OneAddress
<1>7. AnyhowInv'
  <2>1. /\ wrong' \in [Accounts -> 0..MaxFailed] /\ proved' = proved /\ proved' \subseteq Sessions
        /\ user' \in [Accounts -> UserRows]
    BY <1>2, <1>5, TablesTyped
  <2> QED BY <1>2, <1>4, <1>6, <2>1, AnsweredAnyhow DEF StaffInv
<1>8. ASSUME calm, x # Nobody
      PROVE  user[x].status \notin {"active", "absent"} /\ a # x
  <2>1. Current(request[r]) /\ request[r].row.status = user[x].status /\ user[x].status # "absent"
    <3>1. request[r].doing # "nothing" /\ request[r].on \in Accounts
      BY <1>2, <1>8 DEF x
    <3> QED BY <1>8, <3>1, InHand DEF x
  <2> QED BY <1>1, <1>2, <2>1
<1>9. ASSUME calm
      PROVE  /\ user'[a] = new
             /\ \A c \in Accounts \ {a} :
                   \/ user'[c] = user[c]
                   \/ /\ c = x /\ user'[c].failed = user[c].failed
                      /\ user'[c].status \notin {"active", "absent"}
                      /\ user[c].status \notin {"active", "absent"}
  <2>1. CASE x = Nobody
    BY <1>5, <2>1, StaffAssumption
  <2>2. CASE x # Nobody
    <3>1. user[x].status \notin {"active", "absent"} /\ a # x
      BY <1>8, <1>9, <2>2
    <3>2. /\ user'[a] = new /\ user'[x].failed = user[x].failed
          /\ user'[x].status \notin {"active", "absent"}
          /\ \A c \in Accounts \ {a, x} : user'[c] = user[c]
      BY <1>5, <2>2, <3>1
    <3> QED BY <3>1, <3>2
  <2> QED BY <2>1, <2>2
<1>10. ASSUME calm PROVE user[a] = NoUser /\ wrong[a] = 0
  BY <1>1, <1>10 DEF StaffInv, CalmInv, Counts
<1>11. ASSUME calm PROVE SessionsCurrent' /\ Counts' /\ Managed'
  <2>1. ASSUME NEW s \in Sessions, IsLive(session'[s])
        PROVE  /\ user'[session'[s].owner].status = "active"
               /\ user'[session'[s].owner].password = session'[s].shown
    <3>1. session'[s] = session[s] /\ session[s].owner \in Accounts
          /\ user[session[s].owner].status = "active"
          /\ user[session[s].owner].password = session[s].shown
      BY <1>4, <1>11, <2>1, TablesTyped DEF IsLive, SessionsCurrent, SessionRows
    <3> QED BY <1>1, <1>9, <1>11, <3>1
  <2>2. SessionsCurrent'
    BY <2>1 DEF SessionsCurrent, IsLive
  <2>3. Counts'
    <3>1. ASSUME NEW c \in Accounts
          PROVE  wrong'[c] <= user'[c].failed
                 /\ (user'[c].status = "absent" => user'[c] = NoUser /\ wrong'[c] = 0)
      <4>1. CASE c = a
        BY <1>2, <1>3, <1>9, <1>10, <1>11, <4>1
      <4>2. CASE c # a
        BY <1>2, <1>9, <1>11, <4>2 DEF StaffInv, CalmInv, Counts
      <4> QED BY <4>1, <4>2
    <3> QED BY <3>1 DEF Counts
  <2>4. Managed'
    <3>1. rolesKept' = rolesKept
      BY <1>2 DEF Done
    <3>2. ASSUME NEW c \in Accounts, user[c].status = "active", user[c].manager
          PROVE  user'[c].status = "active" /\ user'[c].manager
      BY <1>1, <1>9, <1>11, <3>2
    <3> QED BY <1>11, <3>1, <3>2 DEF StaffInv, CalmInv, Managed
  <2> QED BY <2>2, <2>3, <2>4
<1>12. CalmInv'
  BY <1>2, <1>4, <1>11, AnsweredInTurn
<1>13. StaffMoves
  <2>1. \A c \in Accounts : wrong[c] < MaxFailed /\ wrong'[c] = MaxFailed => user'[c].locked
    BY <1>2, StaffAssumption
  <2>2. ASSUME calm, NEW c \in Accounts, user[c].factor = "on", user'[c].status = "active"
        PROVE  user'[c].factor = "on"
    <3>1. c # a
      BY <1>10, <2>2 DEF NoUser
    <3> QED BY <1>9, <2>2, <3>1
  <2> QED BY <1>4, <2>1, <2>2 DEF StaffMoves
<1> QED BY <1>7, <1>12, <1>13 DEF StaffInv

LEMMA RefusedStands ==
  ASSUME StaffInv, NEW r \in Requests, Refused(r)
  PROVE  StaffInv' /\ StaffMoves
<1>1. /\ request[r] # Waiting /\ Done(r) /\ UNCHANGED <<user, session, link, wrong, proved>>
  BY DEF Refused
<1>2. calm => \A s \in Sessions : IsLive(session'[s]) =>
                  /\ user[session'[s].owner].status = "active"
                  /\ user[session'[s].owner].password = session'[s].shown
  BY <1>1, TablesTyped DEF SessionsCurrent
<1> QED BY <1>1, <1>2, TablesTyped, LinksStay, AccountsStay

LEMMA GoesOn ==
  ASSUME StaffInv, NEW r \in Requests, RequestGoesOn(r)
  PROVE  StaffInv' /\ StaffMoves
<1>1. CASE Authenticate(r)
  BY <1>1, SessionSavedOnly DEF Authenticate
<1>2. CASE SignOutOne(r)
  BY <1>2, SessionSavedOnly DEF SignOutOne
<1> QED BY <1>1, <1>2, SignedIn, LinkIssued, PasswordChosen, Suspended, Reinstated, Removed, RolesAssigned, Added,
     SignedOutEverywhere, FactorStarted, FactorConfirmed, FactorVerified, RefusedStands DEF RequestGoesOn

-----------------------------------------------------------------------------
(* A request that comes.                                                   *)

LEMMA Begun ==
  ASSUME StaffInv, NEW r \in Requests,
         NEW doing \in Verbs \ {"nothing"}, NEW a \in Accounts \cup {Nobody},
         NEW s \in Sessions \cup {NoSession}, NEW k \in Links \cup {NoLink},
         Begin(r, doing, a, s, k),
         doing # "addStaff" => a \in Accounts,
         doing \in BySession \cup {"authenticate"} => s \in Sessions,
         doing = "completePasswordReset" => k \in Links,
         calm => /\ a # Nobody => user[a].status # "absent"
                 /\ s # NoSession => a = session[s].owner /\ ~ session[s].revoked
                 /\ k # NoLink => link[k].owner = a /\ ~ link[k].used
                 /\ doing \in ByAddress \cup BySession \cup {"completePasswordReset"}
                      => user[a].status = "active"
                 /\ doing \in {"suspend", "removeStaff"}
                      => \E b \in Accounts \ {a} : user[b].status = "active" /\ user[b].manager
                 /\ rolesKept => doing # "assignRoles"
  PROVE  StaffInv' /\ StaffMoves
<1> DEFINE row == IF a = Nobody THEN NoUser ELSE user[a]
           seen == IF s = NoSession THEN NoSuchSession ELSE session[s]
           q == [doing |-> doing, on |-> a, row |-> row, with |-> s, seen |-> seen, by |-> k]
<1>1. /\ request' = [request EXCEPT ![r] = q]
      /\ served < (IF calm THEN MaxServed ELSE MaxRacing) /\ served' = served + 1
      /\ UNCHANGED <<calm, rolesKept, user, session, link, wrong, proved>>
      /\ calm => \A o \in Requests : request[o] = Waiting
  BY DEF Begin
<1>2. row \in UserRows /\ seen \in SessionRows /\ (seen.passed => s \in proved)
  BY BlankRows, TablesTyped DEF NoSuchSession
<1>3. a # Nobody => row = user[a]
  OBVIOUS
<1> HIDE DEF row, seen
<1>4. q \in RequestRows
  BY <1>2 DEF RequestRows
<1>5. Equipped(q)
  BY <1>2 DEF Equipped
<1>6. /\ q.doing = doing /\ q.on = a /\ q.row = row /\ q.with = s /\ q.by = k
  OBVIOUS
<1> HIDE DEF q
<1>7. /\ request' \in [Requests -> RequestRows] /\ request'[r] = q
      /\ \A o \in Requests : o # r => request'[o] = request[o]
  BY <1>1, <1>4 DEF StaffInv, AnyhowInv, StaffTyped
<1>8. served' \in 0..MaxServed
  BY <1>1, StaffAssumption DEF StaffInv, AnyhowInv, StaffTyped
<1>9. AnyhowInv'
  <2>1. StaffTyped' /\ OneAddress' /\ CodesPresented'
    BY <1>1, <1>7, <1>8 DEF StaffInv, AnyhowInv, StaffTyped, OneAddress, CodesPresented
  <2>2. \A o \in Requests : Equipped(request[o])'
    BY <1>1, <1>5, <1>7 DEF StaffInv, AnyhowInv, Equipped
  <2> QED BY <2>1, <2>2 DEF AnyhowInv
<1>10. ASSUME calm PROVE Current(q)
  <2>1. a # Nobody => row = [user[a] EXCEPT !.locked = row.locked]
    BY <1>2, <1>3 DEF UserRows
  <2> QED BY <1>6, <1>10, <2>1 DEF Current
<1>11. CalmInv'
  <2> SUFFICES ASSUME calm PROVE (InTurn /\ NothingStale /\ SessionsCurrent /\ LinksCurrent /\ Counts /\ Managed)'
    BY <1>1 DEF CalmInv
  <2>1. InTurn'
    BY <1>1, <1>7 DEF InTurn
  <2>2. NothingStale'
    BY <1>1, <1>7, <1>10 DEF NothingStale, Current
  <2>3. SessionsCurrent' /\ LinksCurrent'
    BY <1>1 DEF StaffInv, CalmInv, SessionsCurrent, LinksCurrent, IsLive, Usable
  <2>4. Counts' /\ Managed'
    BY <1>1 DEF StaffInv, CalmInv, Counts, Managed
  <2> QED BY <2>1, <2>2, <2>3, <2>4
<1>12. StaffMoves
  <2>1. \A c \in Accounts : wrong[c] < MaxFailed /\ wrong'[c] = MaxFailed => user'[c].locked
    BY <1>1, StaffAssumption
  <2> QED BY <1>1, <2>1 DEF StaffMoves
<1> QED BY <1>9, <1>11, <1>12 DEF StaffInv

LEMMA Comes ==
  ASSUME StaffInv, NEW r \in Requests, RequestComes(r)
  PROVE  StaffInv' /\ StaffMoves
<1> USE DEF Verbs, ByAddress, ByManager, BySession
<1>1. ASSUME NEW a \in Accounts, ComesByAddress(r, a) PROVE StaffInv' /\ StaffMoves
  <2>1. PICK doing \in {"signIn", "requestPasswordReset"} : Begin(r, doing, a, NoSession, NoLink)
    BY <1>1 DEF ComesByAddress
  <2>2. user[a].status = "active"
    BY <1>1 DEF ComesByAddress
  <2> QED BY <2>1, <2>2, Begun
<1>2. ASSUME NEW m \in Accounts, NEW a \in Accounts, ComesToManage(r, m, a)
      PROVE  StaffInv' /\ StaffMoves
  <2>1. PICK doing \in ByManager : /\ MayDo(doing, m, a) /\ (doing = "assignRoles" => ~ rolesKept)
                                   /\ Begin(r, doing, a, NoSession, NoLink)
    BY <1>2 DEF ComesToManage
  <2>2. user[a].status \in Held /\ user[m].status = "active" /\ user[m].manager
    BY <1>2 DEF ComesToManage, Manages, CanSignIn
  <2>3. doing \in {"suspend", "removeStaff"}
          => \E b \in Accounts \ {a} : user[b].status = "active" /\ user[b].manager
    BY <2>1, <2>2 DEF MayDo
  <2>4. user[a].status # "absent"
    BY <2>2 DEF Held
  <2> QED BY <2>1, <2>3, <2>4, Begun
<1>3. ASSUME NEW m \in Accounts, NEW e \in Addresses, ComesToAdd(r, m, e)
      PROVE  StaffInv' /\ StaffMoves
  <2>1. ASSUME NEW a \in Accounts, user[a].address = e, Begin(r, "addStaff", a, NoSession, NoLink)
        PROVE  StaffInv' /\ StaffMoves
    <3>1. calm => user[a].status # "absent"
      BY <2>1, StaffAssumption DEF StaffInv, CalmInv, Counts, NoUser
    <3> QED BY <2>1, <3>1, Begun
  <2>2. ASSUME Begin(r, "addStaff", Nobody, NoSession, NoLink) PROVE StaffInv' /\ StaffMoves
    BY <2>2, Begun
  <2> QED BY <1>3, <2>1, <2>2 DEF ComesToAdd
<1>4. ASSUME NEW s \in Sessions, ComesWithSession(r, s) PROVE StaffInv' /\ StaffMoves
  <2> DEFINE a == session[s].owner
  <2>1. /\ a \in Accounts /\ ~ session[s].revoked /\ (calm => user[a].status = "active")
    BY <1>4, TablesTyped DEF ComesWithSession, IsLive, SessionRows, SessionsCurrent
  <2>2. PICK doing \in BySession \cup {"authenticate"} :
          Begin(r, doing, a, s, NoLink)
    BY <1>4 DEF ComesWithSession
  <2> HIDE DEF a
  <2>3. a = session[s].owner
    BY DEF a
  <2> QED BY <2>1, <2>2, <2>3, StaffAssumption, Begun
<1>5. ASSUME NEW k \in Links, ComesWithLink(r, k) PROVE StaffInv' /\ StaffMoves
  <2> DEFINE a == link[k].owner
  <2>1. /\ a \in Accounts /\ ~ link[k].used /\ user[a].status = "active"
        /\ Begin(r, "completePasswordReset", a, NoSession, k)
    BY <1>5, TablesTyped DEF ComesWithLink, Usable, LinkRows
  <2> HIDE DEF a
  <2>2. a = link[k].owner
    BY DEF a
  <2> QED BY <2>1, <2>2, StaffAssumption, Begun
<1> QED BY <1>1, <1>2, <1>3, <1>4, <1>5 DEF RequestComes

-----------------------------------------------------------------------------
(* What time does.                                                         *)

\* A lock, a session or a link that comes to its end by itself, under the requests in hand.
LEMMA TimeDoes ==
  ASSUME StaffInv, UNCHANGED <<calm, rolesKept, request, served, wrong, proved>>,
         user' \in [Accounts -> UserRows], session' \in [Sessions -> SessionRows],
         link' \in [Links -> LinkRows],
         \A a \in Accounts : user'[a] = [user[a] EXCEPT !.locked = user'[a].locked],
         \A s \in Sessions : /\ session'[s].owner = session[s].owner
                             /\ session'[s].shown = session[s].shown
                             /\ session'[s].revoked = session[s].revoked
                             /\ session'[s].passed = session[s].passed
                             /\ IsLive(session'[s]) => IsLive(session[s]),
         \A k \in Links : /\ link'[k].uses = link[k].uses /\ link'[k].used = link[k].used
                          /\ link'[k].owner = link[k].owner
                          /\ Usable(link'[k]) => Usable(link[k]),
         \A a \in Accounts : user[a].locked = FALSE => user'[a] = user[a]
  PROVE  StaffInv' /\ StaffMoves
<1>1. \A a \in Accounts :
        /\ user'[a].status = user[a].status /\ user'[a].address = user[a].address
        /\ user'[a].password = user[a].password /\ user'[a].manager = user[a].manager
        /\ user'[a].failed = user[a].failed /\ user'[a].factor = user[a].factor
  BY TablesTyped DEF UserRows
<1>2. AnyhowInv'
  <2>1. StaffTyped' /\ OneAddress'
    BY <1>1 DEF StaffInv, AnyhowInv, StaffTyped, OneAddress
  <2>2. CodesPresented'
    BY DEF StaffInv, AnyhowInv, CodesPresented
  <2>3. \A r \in Requests : Equipped(request[r])'
    BY DEF StaffInv, AnyhowInv, Equipped
  <2> QED BY <2>1, <2>2, <2>3 DEF AnyhowInv
<1>3. ASSUME calm, NEW r \in Requests, request[r] # Waiting PROVE Current(request[r])'
  <2> DEFINE q == request[r]
  <2>1. Current(q) /\ q \in RequestRows
    BY <1>3 DEF StaffInv, CalmInv, NothingStale, AnyhowInv, StaffTyped
  <2> HIDE DEF q
  <2>2. q.on # Nobody => q.on \in Accounts /\ q.row \in UserRows /\ user[q.on] \in UserRows
    BY <2>1, TablesTyped DEF RequestRows
  <2>3. q.on # Nobody => q.row = [user'[q.on] EXCEPT !.locked = q.row.locked]
    <3>1. ASSUME q.on # Nobody
          PROVE  [user'[q.on] EXCEPT !.locked = q.row.locked] = [user[q.on] EXCEPT !.locked = q.row.locked]
      BY <2>2, <3>1 DEF UserRows
    <3> QED BY <2>1, <3>1 DEF Current
  <2>4. q.on # Nobody => user'[q.on].status = user[q.on].status
    BY <1>1, <2>2
  <2>5. q.with # NoSession => q.on = session'[q.with].owner /\ ~ session'[q.with].revoked
    BY <2>1 DEF Current, RequestRows
  <2>6. q.by # NoLink => link'[q.by].owner = q.on /\ ~ link'[q.by].used
    BY <2>1 DEF Current, RequestRows
  <2>7. q.doing \in {"suspend", "removeStaff"}
          => \E b \in Accounts \ {q.on} : user'[b].status = "active" /\ user'[b].manager
    BY <1>1, <2>1 DEF Current
  <2>8. q.doing \in ByAddress \cup BySession \cup {"completePasswordReset"}
          => q.on # Nobody
    BY StaffAssumption DEF StaffInv, AnyhowInv, Equipped, q, ByAddress, BySession
  <2>9. Current(q)'
    BY <2>1, <2>3, <2>4, <2>5, <2>6, <2>7, <2>8 DEF Current, q
  <2> QED BY <2>9 DEF q
<1>4. CalmInv'
  <2> SUFFICES ASSUME calm PROVE (InTurn /\ NothingStale /\ SessionsCurrent /\ LinksCurrent /\ Counts /\ Managed)'
    BY DEF CalmInv
  <2>1. InTurn' /\ NothingStale'
    BY <1>3 DEF StaffInv, CalmInv, InTurn, NothingStale
  <2>2. SessionsCurrent'
    <3>1. ASSUME NEW s \in Sessions, IsLive(session'[s])
          PROVE  /\ user'[session'[s].owner].status = "active"
                 /\ user'[session'[s].owner].password = session'[s].shown
      <4>1. IsLive(session[s]) /\ session[s].owner \in Accounts
        BY <3>1, TablesTyped DEF IsLive, SessionRows
      <4> QED BY <1>1, <4>1, TablesTyped DEF SessionsCurrent
    <3> QED BY <3>1 DEF SessionsCurrent, IsLive
  <2>3. LinksCurrent'
    BY LinksLapse, TablesTyped
  <2>4. Counts'
    <3>1. ASSUME NEW a \in Accounts, user[a].status = "absent" PROVE user'[a] = user[a]
      BY <3>1 DEF StaffInv, CalmInv, Counts, NoUser
    <3> QED BY <1>1, <3>1 DEF StaffInv, CalmInv, Counts
  <2>5. Managed'
    BY <1>1 DEF StaffInv, CalmInv, Managed
  <2> QED BY <2>1, <2>2, <2>3, <2>4, <2>5
<1>5. StaffMoves
  <2>1. \A a \in Accounts : wrong[a] < MaxFailed /\ wrong'[a] = MaxFailed => user'[a].locked
    BY StaffAssumption
  <2> QED BY <1>1, <2>1 DEF StaffMoves
<1> QED BY <1>2, <1>4, <1>5 DEF StaffInv

LEMMA LockGone == ASSUME StaffInv, NEW a \in Accounts, LockLapses(a) PROVE StaffInv' /\ StaffMoves
<1> DEFINE to == [user[a] EXCEPT !.locked = FALSE]
<1>1. /\ user' = [user EXCEPT ![a] = to] /\ user[a].locked
      /\ UNCHANGED <<calm, rolesKept, session, link, request, served, wrong, proved>>
  BY DEF LockLapses
<1>2. \A b \in Accounts : user[b] \in UserRows
  BY TablesTyped
<1>3. to \in UserRows /\ to = [user[a] EXCEPT !.locked = to.locked] /\ to # user[a]
  BY <1>1, <1>2 DEF UserRows
<1>4. \A b \in Accounts : user[b] = [user[b] EXCEPT !.locked = user[b].locked]
  BY <1>2 DEF UserRows
<1> HIDE DEF to
<1>5. user' \in [Accounts -> UserRows] /\ user'[a] = to /\ \A b \in Accounts : b # a => user'[b] = user[b]
  BY <1>1, <1>3, TablesTyped
<1>6. \A b \in Accounts : user'[b] = [user[b] EXCEPT !.locked = user'[b].locked]
  BY <1>3, <1>4, <1>5
<1>7. \A b \in Accounts : user[b].locked = FALSE => user'[b] = user[b]
  BY <1>1, <1>5
<1> QED BY <1>1, <1>5, <1>6, <1>7, TablesTyped, TimeDoes

LEMMA SessionOver == ASSUME StaffInv, NEW s \in Sessions, SessionEnds(s) PROVE StaffInv' /\ StaffMoves
<1> DEFINE to == [session[s] EXCEPT !.over = TRUE]
<1>1. /\ session' = [session EXCEPT ![s] = to]
      /\ UNCHANGED <<calm, rolesKept, user, link, request, served, wrong, proved>>
  BY DEF SessionEnds
<1>2. session[s] \in SessionRows /\ session \in [Sessions -> SessionRows]
  BY TablesTyped
<1>3. /\ to \in SessionRows /\ to.owner = session[s].owner /\ to.shown = session[s].shown
      /\ to.revoked = session[s].revoked /\ to.passed = session[s].passed /\ to.over
  BY <1>2 DEF SessionRows
<1> HIDE DEF to
<1>4. /\ session' \in [Sessions -> SessionRows] /\ session'[s] = to
      /\ \A t \in Sessions : t # s => session'[t] = session[t]
  BY <1>1, <1>2, <1>3
<1>5. \A t \in Sessions : /\ session'[t].owner = session[t].owner
                          /\ session'[t].shown = session[t].shown
                          /\ session'[t].revoked = session[t].revoked
                          /\ session'[t].passed = session[t].passed
                          /\ IsLive(session'[t]) => IsLive(session[t])
  BY <1>3, <1>4 DEF IsLive
<1>6. \A b \in Accounts : user[b] = [user[b] EXCEPT !.locked = user[b].locked]
  BY TablesTyped DEF UserRows
<1> QED BY <1>1, <1>4, <1>5, <1>6, TablesTyped, TimeDoes

LEMMA LinkGone == ASSUME StaffInv, NEW k \in Links, LinkLapses(k) PROVE StaffInv' /\ StaffMoves
<1> DEFINE to == [link[k] EXCEPT !.lapsed = TRUE]
<1>1. /\ link' = [link EXCEPT ![k] = to]
      /\ UNCHANGED <<calm, rolesKept, user, session, request, served, wrong, proved>>
  BY DEF LinkLapses
<1>2. link[k] \in LinkRows /\ link \in [Links -> LinkRows]
  BY TablesTyped
<1>3. /\ to \in LinkRows /\ to.owner = link[k].owner /\ to.used = link[k].used
      /\ to.uses = link[k].uses /\ to.lapsed
  BY <1>2 DEF LinkRows
<1> HIDE DEF to
<1>4. /\ link' \in [Links -> LinkRows] /\ link'[k] = to
      /\ \A j \in Links : j # k => link'[j] = link[j]
  BY <1>1, <1>2, <1>3
<1>5. \A j \in Links : /\ link'[j].uses = link[j].uses /\ link'[j].used = link[j].used
                       /\ link'[j].owner = link[j].owner
                       /\ Usable(link'[j]) => Usable(link[j])
  BY <1>3, <1>4 DEF Usable
<1>6. \A b \in Accounts : user[b] = [user[b] EXCEPT !.locked = user[b].locked]
  BY TablesTyped DEF UserRows
<1> QED BY <1>1, <1>4, <1>5, <1>6, TablesTyped, TimeDoes

-----------------------------------------------------------------------------
(* Together.                                                               *)

LEMMA StaffStarts == StaffInit => StaffInv
<1> SUFFICES ASSUME StaffInit PROVE StaffInv
  OBVIOUS
<1> DEFINE first == [NoUser EXCEPT !.status = "active", !.address = FirstAddress,
                                   !.password = FirstPassword, !.manager = TRUE]
<1>1. 0 \in 0..MaxFailed /\ 0 \in 0..MaxServed
  BY StaffAssumption
<1>2. /\ first \in UserRows /\ first.status = "active" /\ first.manager /\ first.failed = 0
      /\ NoUser.address = NoAddress /\ NoUser.failed = 0
  BY <1>1, BlankRows, StaffAssumption DEF UserRows, NoUser, Held
<1>3. \A a \in Accounts : user[a] = IF a = Founder THEN first ELSE NoUser
  BY DEF StaffInit
<1> HIDE DEF first
<1>4. user \in [Accounts -> UserRows]
  <2>1. user = [a \in Accounts |-> user[a]]
    BY DEF StaffInit
  <2>2. \A a \in Accounts : user[a] \in UserRows
    BY <1>2, <1>3, BlankRows
  <2> QED BY <2>1, <2>2
<1>5. StaffTyped
  BY <1>1, <1>4, BlankRows DEF StaffTyped, StaffInit
<1>6. OneAddress
  BY <1>2, <1>3 DEF OneAddress
<1>7. \A s \in Sessions : ~ session[s].passed /\ ~ IsLive(session[s])
  BY DEF StaffInit, NoSuchSession, IsLive
<1>8. \A k \in Links : link[k].uses = 0 /\ ~ Usable(link[k])
  BY DEF StaffInit, NoSuchLink, Usable
<1>9. \A r \in Requests : request[r] = Waiting /\ Equipped(Waiting)
  BY DEF StaffInit, Equipped, Waiting, NoSuchSession, BySession
<1>10. Counts
  BY <1>2, <1>3 DEF StaffInit, Counts
<1>11. Managed
  BY <1>2, <1>3, StaffAssumption DEF Managed
<1> QED BY <1>5, <1>6, <1>7, <1>8, <1>9, <1>10, <1>11
        DEF StaffInv, AnyhowInv, CodesPresented, CalmInv, InTurn, NothingStale, SessionsCurrent, LinksCurrent

LEMMA StaffGoesOn == StaffInv /\ [StaffNext]_staffVars => StaffInv' /\ StaffMoves
<1> SUFFICES ASSUME StaffInv, [StaffNext]_staffVars PROVE StaffInv' /\ StaffMoves
  OBVIOUS
<1>1. CASE UNCHANGED staffVars
  <2>1. \A b \in Accounts : user[b] = [user[b] EXCEPT !.locked = user[b].locked]
    BY TablesTyped DEF UserRows
  <2> QED BY <1>1, <2>1, TablesTyped, TimeDoes DEF staffVars
<1> QED BY <1>1, Comes, GoesOn, LockGone, SessionOver, LinkGone DEF StaffNext

\* Access is what was decided, for any number of people, sessions, links and
\* requests: while requests take turns, whoever was suspended, removed or given a
\* password is out everywhere (user.ts, session.repository.ts revokeAllForUser), a link
\* works once, wrong answers lock and somebody is left to manage people; and however
\* requests overlap, a code owed is a code presented.
THEOREM AccessIsDecided == StaffSpec => AccessHolds
<1>1. StaffInv => StaffTypeOK
  <2> SUFFICES ASSUME StaffInv PROVE StaffTypeOK
    OBVIOUS
  <2>1. ASSUME NEW a \in Accounts
        PROVE  /\ user[a].status \in Held \cup {"absent", "deleted"}
               /\ user[a].failed \in 0..MaxFailed
               /\ user[a].factor \in {"none", "begun", "on"}
               /\ user[a].password \in Passwords \cup {NoPassword}
               /\ wrong[a] \in 0..MaxFailed
               /\ user[a].address \in Addresses \cup {NoAddress}
    BY TablesTyped DEF UserRows
  <2>2. \A a \in Accounts : \A b \in Accounts \ {a} :
          user[a].address # NoAddress => user[b].address # user[a].address
    BY DEF StaffInv, AnyhowInv, OneAddress
  <2>3. /\ \A s \in Sessions : session[s].owner \in Accounts \cup {Nobody}
        /\ \A k \in Links : link[k].owner \in Accounts \cup {Nobody}
    BY TablesTyped DEF SessionRows, LinkRows
  <2>4. calm \in BOOLEAN /\ rolesKept \in BOOLEAN /\ served \in 0..MaxServed /\ proved \subseteq Sessions
    BY DEF StaffInv, AnyhowInv, StaffTyped
  <2> QED BY <2>1, <2>2, <2>3, <2>4 DEF StaffTypeOK
<1>2. StaffInv => SessionsEnd /\ CodesPresented /\ LinksOnce /\ SomebodyManages
  <2> SUFFICES ASSUME StaffInv PROVE SessionsEnd /\ CodesPresented /\ LinksOnce /\ SomebodyManages
    OBVIOUS
  <2>1. CodesPresented
    BY DEF StaffInv, AnyhowInv
  <2>2. SessionsEnd /\ SomebodyManages
    BY DEF StaffInv, CalmInv, SessionsEnd, SomebodyManages, SessionsCurrent, Managed
  <2>3. LinksOnce
    BY DEF StaffInv, CalmInv, LinksOnce, LinksCurrent
  <2> QED BY <2>1, <2>2, <2>3
<1>3. StaffMoves
        => /\ calm => /\ \A s \in Sessions : session[s].revoked => session'[s].revoked
                      /\ \A a \in Accounts : user[a].factor = "on" /\ user'[a].status = "active"
                                                => user'[a].factor = "on"
           /\ calm => \A a \in Accounts : wrong[a] < MaxFailed /\ wrong'[a] = MaxFailed
                                             => user'[a].locked
  BY DEF StaffMoves
<1> QED BY <1>1, <1>2, <1>3, StaffStarts, StaffGoesOn, PTL
        DEF StaffSpec, AccessHolds, EndsStay, WrongsLock

-----------------------------------------------------------------------------
(* The mornings: how far a run has come says what it has already done, and *)
(* a rung told halfway has a teller or a fault to its name.                *)

\* A later morning's run is on the queue, or has used up its attempts.
LaterThan(d) == \E e \in Mornings : e > d /\ morning[e] \in {"live", "failed"}

\* A run is of a job that has been on the queue and is due. A morning's run past the
\* documents has given the warning if it was due; at its end the next is scheduled.
\* Whom a rung is being told to, its alert was raised for.
RunOK(w) ==
    run[w] # NoRun =>
        /\ w \in up /\ run[w] \in Runs
        /\ run[w].kind = "morning" =>
             /\ run[w].of <= run[w].today /\ run[w].today <= day
             /\ morning[run[w].of] # "absent"
             /\ run[w].step # "expiry" /\ DueForWarning(run[w].today) => warned
             /\ run[w].step = "end" => morning[run[w].today + 1] # "absent"
        /\ run[w].kind = "rung" =>
             /\ DueDay[run[w].of] <= day /\ rung[run[w].of] # "absent"
             /\ run[w].step = "tell" => run[w].of \in raised

\* A morning's run that completed has left a later one.
ChainOK ==
    /\ \A d \in Mornings : morning[d] = "completed" => LaterThan(d)
    /\ up # {} => \E d \in Mornings : morning[d] \in {"live", "failed"}

WarnedOK == \A d \in sweptOn : DueForWarning(d) => warned

Tellers == {w \in Workers : Running(w, "rung", "tell")}
HalfTold == {s \in raised : Untold(s) # {}}

ToldOK ==
    /\ IsFiniteSet(Tellers)
    /\ Cardinality(HalfTold) <= faults + Cardinality(Tellers)

DayTablesOK ==
    /\ day \in Days /\ faults \in 0 .. MaxFaults /\ up \subseteq Workers /\ awaited \in Waits
    /\ morning \in [Mornings -> JobStates] /\ rung \in [Stages -> JobStates]
    /\ attempts \in [Mornings \cup Stages -> 0 .. MaxAttempts]
    /\ warned \in BOOLEAN /\ raised \subseteq Stages /\ told \subseteq raised \X Audience
    /\ sweptOn \subseteq 1 .. day
    /\ run \in [Workers -> Runs \cup {NoRun}]

DailyInv ==
    /\ DayTablesOK
    /\ \A w \in Workers : RunOK(w)
    /\ ChainOK /\ WarnedOK /\ ToldOK

LEMMA DailyBounds ==
  /\ MaxAttempts \in Nat \ {0} /\ MaxFaults \in Nat /\ FinalDay \in Nat \ {0}
  /\ MarkDay \in Nat /\ CatchUp \in Nat /\ DueDay \in [Stages -> Nat]
  BY DailySweepAssumption

LEMMA RunIs ==
  ASSUME NEW r \in Runs
  PROVE  /\ r.kind \in {"morning", "rung"} /\ r.attempt \in 1 .. MaxAttempts
         /\ r.kind = "morning" => r.of \in Mornings /\ r.step \in DailySteps /\ r.today \in Days
         /\ r.kind = "rung" => r.of \in Stages /\ r.step \in RungSteps
  BY DEF Runs

LEMMA StepsOn ==
  ASSUME NEW r \in Runs, NEW step,
         r.kind = "morning" => step \in DailySteps, r.kind = "rung" => step \in RungSteps
  PROVE  LET q == [r EXCEPT !.step = step]
         IN  /\ q \in Runs /\ q.kind = r.kind /\ q.of = r.of /\ q.step = step
             /\ r.kind = "morning" => q.today = r.today
  BY DEF Runs

LEMMA MorningRunIs ==
  ASSUME NEW d \in Mornings, NEW k \in 1 .. MaxAttempts, NEW t \in Days
  PROVE  LET r == [kind |-> "morning", of |-> d, step |-> "expiry", attempt |-> k, today |-> t]
         IN  r \in Runs /\ r.kind = "morning" /\ r.of = d /\ r.step = "expiry" /\ r.today = t
  BY DEF Runs, DailySteps

LEMMA RungRunIs ==
  ASSUME NEW s \in Stages, NEW k \in 1 .. MaxAttempts
  PROVE  LET r == [kind |-> "rung", of |-> s, step |-> "look", attempt |-> k]
         IN  r \in Runs /\ r.kind = "rung" /\ r.of = s /\ r.step = "look"
  BY DEF Runs, RungSteps

LEMMA RaisedFinite == ASSUME raised \subseteq Stages PROVE IsFiniteSet(HalfTold)
  BY DailySweepAssumption, FS_Subset DEF HalfTold

LEMMA DailyStart == DailyInit => DailyInv
<1> SUFFICES ASSUME DailyInit PROVE DailyInv
  OBVIOUS
<1>1. DayTablesOK
  <2>1. day \in Days /\ faults \in 0 .. MaxFaults
    BY DailyBounds DEF DailyInit, Days
  <2>2. attempts \in [Mornings \cup Stages -> 0 .. MaxAttempts]
    BY DailyBounds DEF DailyInit
  <2> QED BY <2>1, <2>2 DEF DailyInit, DayTablesOK, JobStates
<1>2. ASSUME NEW w \in Workers PROVE RunOK(w)
  BY DEF DailyInit, RunOK
<1>3. ChainOK /\ WarnedOK
  BY DEF DailyInit, ChainOK, WarnedOK
<1>4. Tellers = {} /\ HalfTold = {} /\ faults = 0
  BY DEF DailyInit, Tellers, HalfTold, Running
<1>5. ToldOK
  BY <1>4, FS_EmptySet DEF ToldOK
<1> QED BY <1>1, <1>2, <1>3, <1>5 DEF DailyInv

\* A run in hand still holds when its tables only gain.
LEMMA RunStays ==
  ASSUME DayTablesOK, NEW w \in Workers, RunOK(w), run'[w] = run[w], w \in up => w \in up',
         day' \in Nat, day <= day', warned => warned', raised \subseteq raised',
         \A d \in Mornings : morning[d] # "absent" => morning'[d] # "absent",
         \A s \in Stages : rung[s] # "absent" => rung'[s] # "absent"
  PROVE  RunOK(w)'
<1> SUFFICES ASSUME run[w] # NoRun PROVE RunOK(w)'
  BY DEF RunOK
<1>1. run[w] \in Runs /\ run'[w] = run[w] /\ w \in up'
  BY DEF RunOK
<1>2. CASE run[w].kind = "morning"
  <2>1. run[w].of \in Mornings /\ run[w].today \in Days /\ run[w].today + 1 \in Mornings
    BY <1>1, <1>2, RunIs, DailyBounds DEF Days, Mornings
  <2>2. /\ run[w].of <= run[w].today /\ run[w].today <= day
        /\ morning[run[w].of] # "absent"
        /\ run[w].step # "expiry" /\ DueForWarning(run[w].today) => warned
        /\ run[w].step = "end" => morning[run[w].today + 1] # "absent"
    BY <1>2 DEF RunOK
  <2>3. run[w].today <= day'
    BY <2>1, <2>2 DEF DayTablesOK, Days
  <2> QED BY <1>1, <1>2, <2>1, <2>2, <2>3 DEF RunOK, DueForWarning
<1>3. CASE run[w].kind = "rung"
  <2>1. run[w].of \in Stages
    BY <1>1, <1>3, RunIs
  <2>2. /\ DueDay[run[w].of] <= day /\ rung[run[w].of] # "absent"
        /\ run[w].step = "tell" => run[w].of \in raised
    BY <1>3 DEF RunOK
  <2>3. DueDay[run[w].of] <= day'
    BY <2>1, <2>2, DailyBounds DEF DayTablesOK, Days
  <2> QED BY <1>1, <1>3, <2>1, <2>2, <2>3 DEF RunOK
<1> QED BY <1>1, <1>2, <1>3, RunIs

\* The chain stands while no job of a morning is completed.
LEMMA ChainStays ==
  ASSUME ChainOK,
         \A d \in Mornings : /\ morning[d] \in {"live", "failed"} => morning'[d] \in {"live", "failed"}
                             /\ morning'[d] = "completed" => morning[d] = "completed",
         up' \subseteq up \/ \E d \in Mornings : morning'[d] \in {"live", "failed"}
  PROVE  ChainOK'
  BY DEF ChainOK, LaterThan

\* Nobody starts or stops telling, and nothing is raised or told.
LEMMA TellingStays ==
  ASSUME ToldOK, faults' = faults, raised' = raised, told' = told,
         \A w \in Workers : Running(w, "rung", "tell")' <=> Running(w, "rung", "tell")
  PROVE  ToldOK'
<1>1. Tellers' = Tellers
  BY DEF Tellers
<1>2. HalfTold' = HalfTold
  BY DEF HalfTold, Untold
<1> QED BY <1>1, <1>2 DEF ToldOK

\* A worker's step, put together.
LEMMA WorkerKeeps ==
  ASSUME DailyInv, NEW w \in Workers, DayTablesOK', RunOK(w)', ChainOK', WarnedOK', ToldOK', day' = day,
         \A v \in Workers \ {w} : run'[v] = run[v] /\ (v \in up => v \in up'),
         warned => warned', raised \subseteq raised',
         \A d \in Mornings : morning[d] # "absent" => morning'[d] # "absent",
         \A s \in Stages : rung[s] # "absent" => rung'[s] # "absent"
  PROVE  DailyInv'
<1>1. DayTablesOK /\ day' \in Nat /\ day <= day'
  BY DEF DailyInv, DayTablesOK, Days
<1>2. ASSUME NEW v \in Workers \ {w} PROVE RunOK(v)'
  <2>1. RunOK(v) /\ run'[v] = run[v] /\ (v \in up => v \in up')
    BY DEF DailyInv
  <2> QED BY <1>1, <2>1, RunStays
<1>3. \A v \in Workers : RunOK(v)'
  BY <1>2
<1> QED BY <1>3 DEF DailyInv

LEMMA ScheduleNextIs ==
  ASSUME DayTablesOK, NEW d \in Days, ScheduleNext(d)
  PROVE  /\ d + 1 \in Mornings /\ d \in Nat
         /\ morning' \in [Mornings -> JobStates] /\ rung' = rung
         /\ attempts' \in [Mornings \cup Stages -> 0 .. MaxAttempts]
         /\ morning'[d + 1] = "live"
         /\ \A e \in Mornings : e # d + 1 => morning'[e] = morning[e]
<1>1. d + 1 \in Mornings /\ d \in Nat /\ 0 \in 0 .. MaxAttempts
  BY DailyBounds DEF Days, Mornings
<1>2. morning' = [morning EXCEPT ![d + 1] = "live"] /\ rung' = rung
  BY DEF ScheduleNext, NextDailyRun
<1>3. attempts' = attempts \/ attempts' = [attempts EXCEPT ![d + 1] = 0]
  BY DEF ScheduleNext, NextDailyRun
<1>4. attempts' \in [Mornings \cup Stages -> 0 .. MaxAttempts]
  BY <1>1, <1>3 DEF DayTablesOK
<1>5. /\ morning' \in [Mornings -> JobStates] /\ morning'[d + 1] = "live"
      /\ \A e \in Mornings : e # d + 1 => morning'[e] = morning[e]
  BY <1>1, <1>2 DEF DayTablesOK, JobStates
<1> QED BY <1>1, <1>2, <1>4, <1>5

LEMMA BootKeeps ==
  ASSUME DailyInv, NEW w \in Workers, Boot(w)
  PROVE  DailyInv'
<1>1. DayTablesOK /\ RunOK(w) /\ ChainOK /\ WarnedOK /\ ToldOK /\ day \in Days /\ w \notin up
  BY DEF DailyInv, DayTablesOK, Boot
<1>2. up' = up \cup {w} /\ UNCHANGED <<day, faults, awaited, warned, raised, told, sweptOn, run>>
  BY DEF Boot, alertVars
<1>3. /\ day + 1 \in Mornings
      /\ morning' \in [Mornings -> JobStates] /\ rung' = rung
      /\ attempts' \in [Mornings \cup Stages -> 0 .. MaxAttempts]
      /\ morning'[day + 1] = "live"
      /\ \A e \in Mornings : e # day + 1 => morning'[e] = morning[e]
  BY <1>1, ScheduleNextIs DEF Boot
<1>4. DayTablesOK'
  BY <1>1, <1>2, <1>3 DEF DayTablesOK
<1>5. RunOK(w)'
  BY <1>1, <1>2 DEF RunOK
<1>6. ChainOK'
  BY <1>1, <1>3, ChainStays
<1>7. WarnedOK'
  BY <1>1, <1>2 DEF WarnedOK, DueForWarning
<1>8. ToldOK'
  BY <1>1, <1>2, TellingStays DEF Running
<1>9. \A d \in Mornings : morning[d] # "absent" => morning'[d] # "absent"
  BY <1>3
<1> QED BY <1>2, <1>3, <1>4, <1>5, <1>6, <1>7, <1>8, <1>9, WorkerKeeps

\* A claim of a run that is due.
LEMMA ClaimKeeps ==
  ASSUME DailyInv, NEW w \in Workers, NEW j \in Mornings \cup Stages, NEW first \in Runs, Claim(w, j, first),
         first.kind = "morning" =>
           first.of <= first.today /\ first.today <= day /\ morning[first.of] # "absent" /\ first.step = "expiry",
         first.kind = "rung" => DueDay[first.of] <= day /\ rung[first.of] # "absent" /\ first.step = "look"
  PROVE  DailyInv'
<1>1. DayTablesOK /\ ChainOK /\ WarnedOK /\ ToldOK /\ w \in up /\ run[w] = NoRun
  BY DEF DailyInv, Claim
<1>2. /\ attempts' = [attempts EXCEPT ![j] = Attempt(j)] /\ run' = [run EXCEPT ![w] = first]
      /\ UNCHANGED <<day, faults, up, awaited, morning, rung, warned, raised, told, sweptOn>>
  BY DEF Claim, alertVars
<1>3. Attempt(j) \in 0 .. MaxAttempts
  BY <1>1, DailyBounds DEF Attempt, DayTablesOK
<1>4. /\ run' \in [Workers -> Runs \cup {NoRun}] /\ run'[w] = first
      /\ \A v \in Workers \ {w} : run'[v] = run[v]
  BY <1>1, <1>2 DEF DayTablesOK
<1>5. DayTablesOK'
  BY <1>1, <1>2, <1>3, <1>4 DEF DayTablesOK
<1>6. RunOK(w)'
  BY <1>1, <1>2, <1>4 DEF RunOK
<1>7. ChainOK' /\ WarnedOK'
  BY <1>1, <1>2 DEF ChainOK, LaterThan, WarnedOK, DueForWarning
<1>8. ToldOK'
  <2>1. ~ Running(w, "rung", "tell") /\ ~ Running(w, "rung", "tell")'
    BY <1>1, <1>4 DEF Running
  <2>2. \A v \in Workers : Running(v, "rung", "tell")' <=> Running(v, "rung", "tell")
    BY <1>4, <2>1 DEF Running
  <2> QED BY <1>1, <1>2, <2>2, TellingStays
<1> QED BY <1>2, <1>4, <1>5, <1>6, <1>7, <1>8, WorkerKeeps

LEMMA ClaimsKeep ==
  ASSUME DailyInv, NEW w \in Workers,
         (\E d \in Mornings : ClaimMorning(w, d)) \/ (\E s \in Stages : ClaimRung(w, s))
  PROVE  DailyInv'
<1>1. DayTablesOK
  BY DEF DailyInv
<1>2. ASSUME NEW j \in Mornings \cup Stages PROVE Attempt(j) \in 1 .. MaxAttempts
  BY <1>1, DailyBounds DEF Attempt, DayTablesOK
<1>3. ASSUME NEW d \in Mornings, ClaimMorning(w, d) PROVE DailyInv'
  <2>1. PICK r : r = [kind |-> "morning", of |-> d, step |-> "expiry", attempt |-> Attempt(d), today |-> day]
    OBVIOUS
  <2>2. r \in Runs /\ r.kind = "morning" /\ r.of = d /\ r.step = "expiry" /\ r.today = day
    BY <1>1, <1>2, <2>1, MorningRunIs DEF DayTablesOK
  <2>3. Claim(w, d, r) /\ morning[d] = "live" /\ d <= day /\ day <= day
    BY <1>1, <1>3, <2>1 DEF ClaimMorning, DayTablesOK, Days
  <2> QED BY <2>2, <2>3, ClaimKeeps
<1>4. ASSUME NEW s \in Stages, ClaimRung(w, s) PROVE DailyInv'
  <2>1. PICK r : r = [kind |-> "rung", of |-> s, step |-> "look", attempt |-> Attempt(s)]
    OBVIOUS
  <2>2. r \in Runs /\ r.kind = "rung" /\ r.of = s /\ r.step = "look"
    BY <1>2, <2>1, RungRunIs
  <2>3. Claim(w, s, r) /\ rung[s] = "live" /\ DueDay[s] <= day
    BY <1>4, <2>1 DEF ClaimRung
  <2> QED BY <2>2, <2>3, ClaimKeeps
<1> QED BY <1>3, <1>4

LEMMA OutcomeIs ==
  ASSUME DayTablesOK, NEW w \in Workers, run[w] \in Runs, NEW outcome \in {"completed", "failed"}, Outcome(w, outcome)
  PROVE  /\ morning' \in [Mornings -> JobStates] /\ rung' \in [Stages -> JobStates]
         /\ \A d \in Mornings :
              \/ morning'[d] = morning[d]
              \/ run[w].kind = "morning" /\ d = run[w].of /\ morning[d] = "live" /\ morning'[d] = outcome
         /\ \A s \in Stages : rung[s] # "absent" => rung'[s] # "absent"
<1>1. CASE run[w].kind = "morning"
  <2>1. rung' = rung /\ (morning' = morning \/ (morning[run[w].of] = "live" /\ morning' = [morning EXCEPT ![run[w].of] = outcome]))
    BY <1>1 DEF Outcome
  <2>2. run[w].of \in Mornings
    BY <1>1, RunIs
  <2> QED BY <1>1, <2>1, <2>2 DEF DayTablesOK, JobStates
<1>2. CASE run[w].kind = "rung"
  <2>1. morning' = morning /\ (rung' = rung \/ rung' = [rung EXCEPT ![run[w].of] = outcome])
    BY <1>2 DEF Outcome
  <2>2. run[w].of \in Stages
    BY <1>2, RunIs
  <2> QED BY <2>1, <2>2 DEF DayTablesOK, JobStates
<1> QED BY <1>1, <1>2, RunIs

\* A worker that lets go of its run: it may have been telling.
LEMMA LetGo ==
  ASSUME DailyInv, NEW w \in Workers, run[w] # NoRun, run' = [run EXCEPT ![w] = NoRun],
         UNCHANGED <<raised, told>>,
         (faults' = faults /\ ~ Running(w, "rung", "tell")) \/ faults' = faults + 1
  PROVE  /\ ToldOK' /\ run' \in [Workers -> Runs \cup {NoRun}] /\ run'[w] = NoRun /\ RunOK(w)'
         /\ \A v \in Workers \ {w} : run'[v] = run[v]
<1>1. DayTablesOK /\ ToldOK
  BY DEF DailyInv
<1>2. /\ run' \in [Workers -> Runs \cup {NoRun}] /\ run'[w] = NoRun
      /\ \A v \in Workers \ {w} : run'[v] = run[v]
  BY <1>1 DEF DayTablesOK
<1>3. HalfTold' = HalfTold
  BY DEF HalfTold, Untold
<1>4. Tellers' = Tellers \ {w}
  BY <1>2 DEF Tellers, Running
<1>5. /\ IsFiniteSet(Tellers')
      /\ Cardinality(Tellers') = (IF w \in Tellers THEN Cardinality(Tellers) - 1 ELSE Cardinality(Tellers))
  BY <1>1, <1>4, FS_RemoveElement DEF ToldOK
<1>6. Cardinality(Tellers) \in Nat /\ Cardinality(HalfTold) \in Nat /\ faults \in Nat
  BY <1>1, FS_CardinalityType, RaisedFinite, DailyBounds DEF ToldOK, DayTablesOK
<1>7. w \in Tellers => faults' = faults + 1
  BY DEF Tellers
<1>8. Cardinality(HalfTold') <= faults' + Cardinality(Tellers')
  BY <1>1, <1>3, <1>5, <1>6, <1>7 DEF ToldOK
<1> QED BY <1>2, <1>5, <1>8 DEF ToldOK, RunOK

LEMMA CompleteKeeps ==
  ASSUME DailyInv, NEW w \in Workers, Complete(w)
  PROVE  DailyInv'
<1>1. DayTablesOK /\ RunOK(w) /\ ChainOK /\ WarnedOK /\ run[w] # NoRun /\ run[w].step = "end"
  BY DEF DailyInv, Complete
<1>2. run[w] \in Runs
  BY <1>1 DEF RunOK
<1>3. /\ Outcome(w, "completed") /\ run' = [run EXCEPT ![w] = NoRun]
      /\ UNCHANGED <<day, faults, up, awaited, attempts, warned, raised, told, sweptOn>>
  BY DEF Complete, alertVars
<1>4. /\ morning' \in [Mornings -> JobStates] /\ rung' \in [Stages -> JobStates]
      /\ \A d \in Mornings :
           \/ morning'[d] = morning[d]
           \/ run[w].kind = "morning" /\ d = run[w].of /\ morning[d] = "live" /\ morning'[d] = "completed"
      /\ \A s \in Stages : rung[s] # "absent" => rung'[s] # "absent"
  BY <1>1, <1>2, <1>3, OutcomeIs
<1>5. ~ Running(w, "rung", "tell")
  BY <1>1 DEF Running
<1>6. /\ ToldOK' /\ run' \in [Workers -> Runs \cup {NoRun}] /\ RunOK(w)'
      /\ \A v \in Workers \ {w} : run'[v] = run[v]
  BY <1>1, <1>3, <1>5, LetGo
<1>7. DayTablesOK'
  BY <1>1, <1>3, <1>4, <1>6 DEF DayTablesOK
<1>8. ChainOK'
  <2>1. CASE \A d \in Mornings : morning'[d] = morning[d]
    BY <1>1, <1>3, <2>1, ChainStays
  <2>2. CASE \E d \in Mornings : morning'[d] # morning[d]
    <3>1. PICK d \in Mornings : morning'[d] # morning[d]
      BY <2>2
    <3>2. run[w].kind = "morning" /\ d = run[w].of /\ morning'[d] = "completed"
      BY <1>4, <3>1
    <3>3. PICK e \in Mornings : e = run[w].today + 1
      BY <1>2, <3>2, RunIs, DailyBounds DEF Days, Mornings
    <3>4. morning[e] # "absent" /\ e > d
      <4>1. run[w].of <= run[w].today /\ morning[run[w].today + 1] # "absent"
        BY <1>1, <3>2 DEF RunOK
      <4>2. run[w].today \in Nat /\ d \in Nat
        BY <1>2, <3>2, RunIs DEF Days, Mornings
      <4> QED BY <3>2, <3>3, <4>1, <4>2
    <3>5. PICK f \in Mornings : f >= e /\ morning[f] \in {"live", "failed"}
      <4>1. morning[e] \in {"live", "completed", "failed"}
        BY <1>1, <3>4 DEF DayTablesOK, JobStates
      <4>2. CASE morning[e] = "completed"
        <5>1. PICK f \in Mornings : f > e /\ morning[f] \in {"live", "failed"}
          BY <1>1, <4>2 DEF ChainOK, LaterThan
        <5> QED BY <5>1 DEF Mornings
      <4>3. CASE morning[e] \in {"live", "failed"}
        BY <4>3 DEF Mornings
      <4> QED BY <4>1, <4>2, <4>3
    <3>6. f > d /\ morning'[f] \in {"live", "failed"}
      <4>1. f > d /\ f # d
        BY <3>4, <3>5 DEF Mornings
      <4> QED BY <1>4, <3>2, <3>5, <4>1
    <3>7. ASSUME NEW c \in Mornings, morning'[c] = "completed" PROVE LaterThan(c)'
      <4>1. CASE c = d
        BY <3>6, <4>1 DEF LaterThan
      <4>2. CASE c # d
        <5>1. morning[c] = "completed"
          BY <1>4, <3>2, <3>7, <4>2
        <5>2. PICK g \in Mornings : g > c /\ morning[g] \in {"live", "failed"}
          BY <1>1, <5>1 DEF ChainOK, LaterThan
        <5>3. CASE g = d
          <6>1. f > c
            BY <3>6, <5>2, <5>3 DEF Mornings
          <6> QED BY <3>6, <6>1 DEF LaterThan
        <5>4. CASE g # d
          BY <1>4, <3>2, <5>2, <5>4 DEF LaterThan
        <5> QED BY <5>3, <5>4
      <4> QED BY <4>1, <4>2
    <3> QED BY <3>6, <3>7 DEF ChainOK
  <2> QED BY <2>1, <2>2
<1>9. WarnedOK'
  BY <1>1, <1>3 DEF WarnedOK, DueForWarning
<1>10. \A d \in Mornings : morning[d] # "absent" => morning'[d] # "absent"
  BY <1>4
<1> QED BY <1>3, <1>4, <1>6, <1>7, <1>8, <1>9, <1>10, WorkerKeeps

LEMMA FailsKeep ==
  ASSUME DailyInv, NEW w \in Workers, Fails(w)
  PROVE  DailyInv'
<1>1. DayTablesOK /\ RunOK(w) /\ ChainOK /\ WarnedOK /\ run[w] # NoRun
  BY DEF DailyInv, Fails
<1>2. run[w] \in Runs
  BY <1>1 DEF RunOK
<1>3. /\ faults < MaxFaults /\ faults' = faults + 1 /\ run' = [run EXCEPT ![w] = NoRun]
      /\ Outcome(w, "failed") \/ UNCHANGED <<morning, rung>>
      /\ UNCHANGED <<day, up, awaited, attempts, warned, raised, told, sweptOn>>
  BY DEF Fails, alertVars
<1>4. /\ morning' \in [Mornings -> JobStates] /\ rung' \in [Stages -> JobStates]
      /\ \A d \in Mornings : morning'[d] = morning[d] \/ (morning[d] = "live" /\ morning'[d] = "failed")
      /\ \A s \in Stages : rung[s] # "absent" => rung'[s] # "absent"
  <2>1. CASE Outcome(w, "failed")
    BY <1>1, <1>2, <2>1, OutcomeIs
  <2>2. CASE UNCHANGED <<morning, rung>>
    BY <1>1, <2>2 DEF DayTablesOK
  <2> QED BY <1>3, <2>1, <2>2
<1>5. /\ ToldOK' /\ run' \in [Workers -> Runs \cup {NoRun}] /\ RunOK(w)'
      /\ \A v \in Workers \ {w} : run'[v] = run[v]
  BY <1>1, <1>3, LetGo
<1>6. faults' \in 0 .. MaxFaults
  BY <1>1, <1>3, DailyBounds DEF DayTablesOK
<1>7. DayTablesOK'
  BY <1>1, <1>3, <1>4, <1>5, <1>6 DEF DayTablesOK
<1>8. ChainOK'
  BY <1>1, <1>3, <1>4, ChainStays
<1>9. WarnedOK'
  BY <1>1, <1>3 DEF WarnedOK, DueForWarning
<1>10. \A d \in Mornings : morning[d] # "absent" => morning'[d] # "absent"
  BY <1>4
<1> QED BY <1>3, <1>4, <1>5, <1>7, <1>8, <1>9, <1>10, WorkerKeeps

LEMMA WorkerDiesKeeps ==
  ASSUME DailyInv, NEW w \in Workers, WorkerDies(w)
  PROVE  DailyInv'
<1>1. DayTablesOK /\ RunOK(w) /\ ChainOK /\ WarnedOK /\ ToldOK
  BY DEF DailyInv
<1>2. /\ faults < MaxFaults /\ faults' = faults + 1 /\ run' = [run EXCEPT ![w] = NoRun]
      /\ up' = up \ {w}
      /\ UNCHANGED <<day, awaited, morning, rung, attempts, warned, raised, told, sweptOn>>
  BY DEF WorkerDies, queueVars, alertVars
<1>3. faults \in Nat /\ faults' \in 0 .. MaxFaults
  BY <1>1, <1>2, DailyBounds DEF DayTablesOK
<1>4. /\ ToldOK' /\ run' \in [Workers -> Runs \cup {NoRun}] /\ RunOK(w)'
      /\ \A v \in Workers \ {w} : run'[v] = run[v]
  <2>1. CASE run[w] # NoRun
    BY <1>2, <2>1, LetGo
  <2>2. CASE run[w] = NoRun
    <3>1. run' = run
      BY <1>1, <1>2, <2>2 DEF DayTablesOK
    <3>2. Tellers' = Tellers /\ HalfTold' = HalfTold
      BY <1>2, <3>1 DEF Tellers, HalfTold, Running, Untold
    <3>3. Cardinality(Tellers) \in Nat /\ Cardinality(HalfTold) \in Nat
      BY <1>1, FS_CardinalityType, RaisedFinite DEF ToldOK, DayTablesOK
    <3>4. ToldOK'
      BY <1>1, <1>2, <1>3, <3>2, <3>3 DEF ToldOK
    <3> QED BY <1>1, <2>2, <3>1, <3>4 DEF DayTablesOK, RunOK
  <2> QED BY <2>1, <2>2
<1>5. DayTablesOK'
  BY <1>1, <1>2, <1>3, <1>4 DEF DayTablesOK
<1>6. ChainOK'
  BY <1>1, <1>2, ChainStays
<1>7. WarnedOK'
  BY <1>1, <1>2 DEF WarnedOK, DueForWarning
<1> QED BY <1>2, <1>4, <1>5, <1>6, <1>7, WorkerKeeps

LEMMA GoToIs ==
  ASSUME DayTablesOK, NEW w \in Workers, NEW r \in Runs, run[w] = r, NEW step, GoTo(w, step),
         r.kind = "morning" => step \in DailySteps, r.kind = "rung" => step \in RungSteps
  PROVE  /\ run' \in [Workers -> Runs \cup {NoRun}] /\ run'[w] \in Runs /\ run'[w] # NoRun
         /\ run'[w].kind = r.kind /\ run'[w].of = r.of /\ run'[w].step = step
         /\ r.kind = "morning" => run'[w].today = r.today
         /\ \A v \in Workers \ {w} : run'[v] = run[v]
<1>1. PICK q : q = [r EXCEPT !.step = step]
  OBVIOUS
<1>2. run' = [run EXCEPT ![w] = q]
  BY <1>1 DEF GoTo
<1>3. /\ q \in Runs /\ q.kind = r.kind /\ q.of = r.of /\ q.step = step
      /\ r.kind = "morning" => q.today = r.today
  BY <1>1, StepsOn
<1>4. run'[w] = q /\ \A v \in Workers \ {w} : run'[v] = run[v]
  BY <1>2 DEF DayTablesOK
<1>5. run' \in [Workers -> Runs \cup {NoRun}]
  BY <1>2, <1>3 DEF DayTablesOK
<1> QED BY <1>3, <1>4, <1>5, NoRunAssumption

\* A step of a morning's run.
LEMMA MorningStep ==
  ASSUME DailyInv, NEW w \in Workers, NEW step \in DailySteps, run[w] # NoRun, run[w].kind = "morning",
         GoTo(w, step), DayTablesOK' \/ run' \notin [Workers -> Runs \cup {NoRun}],
         UNCHANGED <<day, faults, up, raised, told>>,
         warned => warned', \A d \in sweptOn' : d \in sweptOn \/ (DueForWarning(d) => warned'),
         step # "expiry" /\ DueForWarning(run[w].today) => warned',
         step = "end" => morning'[run[w].today + 1] # "absent",
         \A d \in Mornings : /\ morning[d] # "absent" => morning'[d] # "absent"
                             /\ morning[d] \in {"live", "failed"} => morning'[d] \in {"live", "failed"}
                             /\ morning'[d] = "completed" => morning[d] = "completed",
         \A s \in Stages : rung[s] # "absent" => rung'[s] # "absent"
  PROVE  DailyInv'
<1>1. DayTablesOK /\ RunOK(w) /\ ChainOK /\ WarnedOK /\ ToldOK
  BY DEF DailyInv
<1>2. PICK r \in Runs : run[w] = r /\ r.kind = "morning" /\ r.of \in Mornings /\ r.today \in Days
  BY <1>1, RunIs DEF RunOK
<1>3. /\ run' \in [Workers -> Runs \cup {NoRun}] /\ run'[w] \in Runs /\ run'[w] # NoRun
      /\ run'[w].kind = "morning" /\ run'[w].of = r.of /\ run'[w].step = step /\ run'[w].today = r.today
      /\ \A v \in Workers \ {w} : run'[v] = run[v]
  <2>1. r.kind = "rung" => step \in RungSteps
    BY <1>2
  <2> QED BY <1>1, <1>2, <2>1, GoToIs
<1>4. DayTablesOK'
  BY <1>3
<1>5. RunOK(w)'
  <2>1. w \in up /\ r.of <= r.today /\ r.today <= day /\ morning[r.of] # "absent"
    BY <1>1, <1>2 DEF RunOK
  <2> QED BY <1>2, <1>3, <2>1 DEF RunOK, DueForWarning
<1>6. ChainOK'
  BY <1>1, ChainStays
<1>7. WarnedOK'
  BY <1>1 DEF WarnedOK, DueForWarning
<1>8. ToldOK'
  <2>1. ~ Running(w, "rung", "tell") /\ ~ Running(w, "rung", "tell")'
    BY <1>2, <1>3 DEF Running
  <2>2. \A v \in Workers : Running(v, "rung", "tell")' <=> Running(v, "rung", "tell")
    BY <1>3, <2>1 DEF Running
  <2> QED BY <1>1, <2>2, TellingStays
<1> QED BY <1>3, <1>4, <1>5, <1>6, <1>7, <1>8, WorkerKeeps

LEMMA MorningStepsKeep ==
  ASSUME DailyInv, NEW w \in Workers, WarnOfExpiry(w) \/ ScheduleLadder(w) \/ ScheduleMorning(w)
  PROVE  DailyInv'
<1>1. DayTablesOK /\ RunOK(w) /\ run[w] # NoRun /\ run[w].kind = "morning"
  BY DEF DailyInv, WarnOfExpiry, ScheduleLadder, ScheduleMorning, Running
<1>2. run[w].today \in Days /\ run[w].today <= day /\ run[w] \in Runs
  BY <1>1, RunIs DEF RunOK
<1>3. CASE WarnOfExpiry(w)
  <2>1. /\ GoTo(w, "ladder") /\ warned' = (warned \/ DueForWarning(run[w].today))
        /\ UNCHANGED <<day, faults, up, awaited, morning, rung, attempts, raised, told, sweptOn>>
    BY <1>3 DEF WarnOfExpiry, queueVars
  <2>2. warned' \in BOOLEAN
    BY <2>1
  <2>3. run' \in [Workers -> Runs \cup {NoRun}] => DayTablesOK'
    BY <1>1, <2>1, <2>2 DEF DayTablesOK
  <2> QED BY <1>1, <2>1, <2>3, MorningStep DEF DailySteps
<1>4. CASE ScheduleLadder(w)
  <2>1. /\ GoTo(w, "next") /\ run[w].step = "ladder"
        /\ UNCHANGED <<day, faults, up, awaited, morning, warned, raised, told, sweptOn>>
    BY <1>4 DEF ScheduleLadder, alertVars, Running
  <2>2. PICK queued \in SUBSET Stages :
          /\ rung' = [s \in Stages |-> IF s \in queued THEN "live" ELSE rung[s]]
          /\ attempts' = [j \in DOMAIN attempts |-> IF j \in queued THEN 0 ELSE attempts[j]]
    <3>1. PICK ahead \in SUBSET {s \in Stages : run[w].today <= DueDay[s]} :
            LET queued == {s \in ahead : awaited \in Chased /\ rung[s] # "live"} IN
              /\ rung' = [s \in Stages |-> IF s \in queued THEN "live" ELSE rung[s]]
              /\ attempts' = [j \in DOMAIN attempts |-> IF j \in queued THEN 0 ELSE attempts[j]]
      BY <1>4 DEF ScheduleLadder
    <3> DEFINE q == {s \in ahead : awaited \in Chased /\ rung[s] # "live"}
    <3>2. q \in SUBSET Stages
      OBVIOUS
    <3> QED BY <3>1, <3>2
  <2>3. /\ rung' \in [Stages -> JobStates] /\ \A s \in Stages : rung[s] # "absent" => rung'[s] # "absent"
        /\ attempts' \in [Mornings \cup Stages -> 0 .. MaxAttempts]
    BY <1>1, <2>2, DailyBounds DEF DayTablesOK, JobStates
  <2>4. run' \in [Workers -> Runs \cup {NoRun}] => DayTablesOK'
    BY <1>1, <2>1, <2>3 DEF DayTablesOK
  <2>5. DueForWarning(run[w].today) => warned
    BY <1>1, <2>1 DEF RunOK
  <2> QED BY <1>1, <2>1, <2>3, <2>4, <2>5, MorningStep DEF DailySteps
<1>5. CASE ScheduleMorning(w)
  <2>1. /\ GoTo(w, "end") /\ run[w].step = "next" /\ ScheduleNext(run[w].today)
        /\ sweptOn' = sweptOn \cup {run[w].today}
        /\ UNCHANGED <<day, faults, up, awaited, warned, raised, told>>
    BY <1>5 DEF ScheduleMorning, alertVars, Running
  <2>2. PICK t \in Days : t = run[w].today
    BY <1>2
  <2>3. /\ t + 1 \in Mornings
        /\ morning' \in [Mornings -> JobStates] /\ rung' = rung
        /\ attempts' \in [Mornings \cup Stages -> 0 .. MaxAttempts]
        /\ morning'[t + 1] = "live"
        /\ \A e \in Mornings : e # t + 1 => morning'[e] = morning[e]
    BY <1>1, <2>1, <2>2, ScheduleNextIs
  <2>4. sweptOn' \subseteq 1 .. day
    <3>1. t \in 1 .. day
      BY <1>1, <1>2, <2>2, DailyBounds DEF DayTablesOK, Days
    <3> QED BY <1>1, <2>1, <2>2, <3>1 DEF DayTablesOK
  <2>5. run' \in [Workers -> Runs \cup {NoRun}] => DayTablesOK'
    BY <1>1, <2>1, <2>3, <2>4 DEF DayTablesOK
  <2>6. DueForWarning(run[w].today) => warned
    BY <1>1, <2>1 DEF RunOK
  <2>7. \A d \in Mornings : /\ morning[d] # "absent" => morning'[d] # "absent"
                            /\ morning[d] \in {"live", "failed"} => morning'[d] \in {"live", "failed"}
                            /\ morning'[d] = "completed" => morning[d] = "completed"
    BY <2>3
  <2> QED BY <1>1, <2>1, <2>2, <2>3, <2>5, <2>6, <2>7, MorningStep DEF DailySteps
<1> QED BY <1>3, <1>4, <1>5

\* A step of a rung: what is left is how many were told halfway.
LEMMA RungStep ==
  ASSUME DailyInv, NEW w \in Workers, NEW step \in RungSteps, run[w] # NoRun, run[w].kind = "rung",
         GoTo(w, step), UNCHANGED <<day, faults, up, awaited, morning, rung, attempts, warned, sweptOn>>,
         raised \subseteq raised', raised' \subseteq Stages, told' \subseteq raised' \X Audience,
         step = "tell" => run[w].of \in raised', ToldOK'
  PROVE  DailyInv'
<1>1. DayTablesOK /\ RunOK(w) /\ ChainOK /\ WarnedOK
  BY DEF DailyInv
<1>2. PICK r \in Runs : run[w] = r /\ r.kind = "rung" /\ r.of \in Stages
  BY <1>1, RunIs DEF RunOK
<1>3. /\ run' \in [Workers -> Runs \cup {NoRun}] /\ run'[w] \in Runs /\ run'[w] # NoRun
      /\ run'[w].kind = "rung" /\ run'[w].of = r.of /\ run'[w].step = step
      /\ \A v \in Workers \ {w} : run'[v] = run[v]
  <2>1. r.kind = "morning" => step \in DailySteps
    BY <1>2
  <2> QED BY <1>1, <1>2, <2>1, GoToIs
<1>4. DayTablesOK'
  BY <1>1, <1>3 DEF DayTablesOK
<1>5. RunOK(w)'
  <2>1. w \in up /\ DueDay[r.of] <= day /\ rung[r.of] # "absent"
    BY <1>1, <1>2 DEF RunOK
  <2> QED BY <1>2, <1>3, <2>1 DEF RunOK
<1>6. ChainOK' /\ WarnedOK'
  BY <1>1 DEF ChainOK, LaterThan, WarnedOK, DueForWarning
<1> QED BY <1>3, <1>4, <1>5, <1>6, WorkerKeeps

LEMMA RungStepsKeep ==
  ASSUME DailyInv, NEW w \in Workers, Look(w) \/ RaiseAlert(w) \/ Tell(w)
  PROVE  DailyInv'
<1>1. DayTablesOK /\ RunOK(w) /\ ToldOK /\ run[w] # NoRun /\ run[w].kind = "rung"
  BY DEF DailyInv, Look, RaiseAlert, Tell, Running
<1>2. PICK s \in Stages : s = run[w].of
  BY <1>1, RunIs DEF RunOK
<1>3. /\ Cardinality(Tellers) \in Nat /\ Cardinality(HalfTold) \in Nat /\ faults \in Nat
      /\ IsFiniteSet(Tellers) /\ IsFiniteSet(HalfTold)
  BY <1>1, FS_CardinalityType, RaisedFinite, DailyBounds DEF ToldOK, DayTablesOK
<1>4. ASSUME NEW step \in RungSteps, GoTo(w, step)
      PROVE  /\ step = "tell" => Tellers' = Tellers \cup {w}
             /\ step # "tell" => Tellers' = Tellers \ {w}
  <2>1. PICK r \in Runs : run[w] = r /\ r.kind = "rung"
    BY <1>1 DEF RunOK
  <2>2. /\ run'[w] # NoRun /\ run'[w].kind = "rung" /\ run'[w].step = step
        /\ \A v \in Workers \ {w} : run'[v] = run[v]
    <3>1. r.kind = "morning" => step \in DailySteps
      BY <2>1
    <3> QED BY <1>1, <1>4, <2>1, <3>1, GoToIs
  <2> QED BY <2>2 DEF Tellers, Running
<1>5. CASE Look(w)
  <2>1. PICK step \in {"raise", "end"} : GoTo(w, step)
    BY <1>5 DEF Look
  <2>2. /\ UNCHANGED <<day, faults, up, awaited, morning, rung, attempts, warned, raised, told, sweptOn>>
        /\ w \notin Tellers
    BY <1>5 DEF Look, queueVars, alertVars, Running, Tellers
  <2>3. Tellers' = Tellers \ {w} /\ HalfTold' = HalfTold
    BY <1>4, <2>1, <2>2 DEF RungSteps, HalfTold, Untold
  <2>4. Tellers' = Tellers
    BY <2>2, <2>3
  <2>5. ToldOK'
    BY <1>1, <2>2, <2>3, <2>4 DEF ToldOK
  <2> QED BY <1>1, <2>1, <2>2, <2>5, RungStep DEF RungSteps, DayTablesOK
<1>6. CASE RaiseAlert(w)
  <2>1. /\ UNCHANGED <<day, faults, up, awaited, morning, rung, attempts, warned, told, sweptOn>>
        /\ w \notin Tellers /\ raised' = raised \cup {s}
    BY <1>2, <1>6 DEF RaiseAlert, queueVars, Running, Tellers
  <2>2. raised' \subseteq Stages /\ told' \subseteq raised' \X Audience
    BY <1>1, <2>1 DEF DayTablesOK
  <2>3. CASE s \in raised
    <3>1. GoTo(w, "end") /\ raised' = raised
      BY <1>2, <1>6, <2>1, <2>3 DEF RaiseAlert
    <3>2. Tellers' = Tellers \ {w} /\ HalfTold' = HalfTold
      BY <1>4, <2>1, <3>1 DEF RungSteps, HalfTold, Untold
    <3>3. Tellers' = Tellers
      BY <2>1, <3>2
    <3>4. ToldOK'
      BY <1>1, <2>1, <3>2, <3>3 DEF ToldOK
    <3> QED BY <1>1, <2>1, <2>2, <3>1, <3>4, RungStep DEF RungSteps
  <2>4. CASE s \notin raised
    <3>1. GoTo(w, "tell")
      BY <1>2, <1>6, <2>4 DEF RaiseAlert
    <3>2. Tellers' = Tellers \cup {w} /\ HalfTold' \subseteq HalfTold \cup {s} /\ s \notin HalfTold
      BY <1>4, <2>1, <2>4, <3>1 DEF RungSteps, HalfTold, Untold
    <3>3. /\ IsFiniteSet(Tellers') /\ Cardinality(Tellers') = Cardinality(Tellers) + 1
          /\ IsFiniteSet(HalfTold \cup {s}) /\ Cardinality(HalfTold \cup {s}) = Cardinality(HalfTold) + 1
      BY <1>3, <2>1, <3>2, FS_AddElement
    <3>4. /\ IsFiniteSet(HalfTold') /\ Cardinality(HalfTold') <= Cardinality(HalfTold \cup {s})
      BY <3>2, <3>3, FS_Subset
    <3>5. Cardinality(HalfTold') \in Nat
      BY <3>4, FS_CardinalityType
    <3>6. ToldOK'
      BY <1>1, <1>3, <2>1, <3>3, <3>4, <3>5 DEF ToldOK
    <3> QED BY <1>1, <1>2, <2>1, <2>2, <3>1, <3>6, RungStep DEF RungSteps
  <2> QED BY <2>3, <2>4
<1>7. CASE Tell(w)
  <2>1. PICK u \in Untold(s) : /\ told' = told \cup {<<s, u>>}
                               /\ GoTo(w, IF ToldAll(s, u) THEN "end" ELSE "tell")
    BY <1>2, <1>7 DEF Tell
  <2>2. /\ UNCHANGED <<day, faults, up, awaited, morning, rung, attempts, warned, raised, sweptOn>>
        /\ w \in Tellers /\ s \in raised
    BY <1>1, <1>2, <1>7 DEF Tell, queueVars, Running, Tellers, RunOK
  <2>3. told' \subseteq raised' \X Audience /\ raised' \subseteq Stages
    BY <1>1, <2>1, <2>2 DEF DayTablesOK, Untold
  <2>4. HalfTold' \subseteq HalfTold /\ s \in HalfTold
    BY <2>1, <2>2 DEF HalfTold, Untold
  <2>5. CASE ToldAll(s, u)
    <3>1. GoTo(w, "end")
      BY <2>1, <2>5
    <3>2. Tellers' = Tellers \ {w}
      BY <1>4, <3>1 DEF RungSteps
    <3>3. HalfTold' \subseteq HalfTold \ {s}
      <4>1. Untold(s)' = {}
        BY <2>1, <2>5 DEF Untold, ToldAll
      <4>2. s \notin HalfTold'
        BY <4>1 DEF HalfTold
      <4> QED BY <2>4, <4>2
    <3>4. /\ IsFiniteSet(Tellers') /\ Cardinality(Tellers') = Cardinality(Tellers) - 1
          /\ IsFiniteSet(HalfTold \ {s}) /\ Cardinality(HalfTold \ {s}) = Cardinality(HalfTold) - 1
      BY <1>3, <2>2, <2>4, <3>2, FS_RemoveElement
    <3>5. IsFiniteSet(HalfTold') /\ Cardinality(HalfTold') <= Cardinality(HalfTold \ {s})
      BY <3>3, <3>4, FS_Subset
    <3>6. Cardinality(HalfTold') \in Nat
      BY <3>5, FS_CardinalityType
    <3>7. ToldOK'
      BY <1>1, <1>3, <2>2, <3>4, <3>5, <3>6 DEF ToldOK
    <3> QED BY <1>1, <2>2, <2>3, <3>1, <3>7, RungStep DEF RungSteps
  <2>6. CASE ~ ToldAll(s, u)
    <3>1. GoTo(w, "tell")
      BY <2>1, <2>6
    <3>2. Tellers' = Tellers
      BY <1>4, <2>2, <3>1 DEF RungSteps
    <3>3. IsFiniteSet(HalfTold') /\ Cardinality(HalfTold') <= Cardinality(HalfTold)
      BY <1>3, <2>4, FS_Subset
    <3>4. Cardinality(HalfTold') \in Nat
      BY <3>3, FS_CardinalityType
    <3>5. ToldOK'
      BY <1>1, <1>3, <2>2, <3>2, <3>3, <3>4 DEF ToldOK
    <3> QED BY <1>1, <1>2, <2>2, <2>3, <3>1, <3>5, RungStep DEF RungSteps
  <2> QED BY <2>5, <2>6
<1> QED BY <1>5, <1>6, <1>7

LEMMA RestKeeps ==
  ASSUME DailyInv, ProjectMoves \/ DayPasses \/ UNCHANGED dailyVars
  PROVE  DailyInv'
<1>1. DayTablesOK /\ ChainOK /\ WarnedOK /\ ToldOK
  BY DEF DailyInv
<1>2. /\ UNCHANGED <<faults, up, morning, rung, attempts, warned, raised, told, sweptOn, run>>
      /\ awaited' \in Waits /\ day' \in Days /\ day <= day' /\ day' \in Nat /\ day \in Nat
  BY <1>1, DailyBounds DEF ProjectMoves, DayPasses, dailyVars, queueVars, alertVars, DayTablesOK, Days
<1>3. DayTablesOK'
  <2>1. sweptOn' \subseteq 1 .. day'
    BY <1>1, <1>2 DEF DayTablesOK
  <2> QED BY <1>1, <1>2, <2>1 DEF DayTablesOK
<1>4. ASSUME NEW w \in Workers PROVE RunOK(w)'
  BY <1>1, <1>2, RunStays DEF DailyInv
<1>5. ChainOK' /\ WarnedOK'
  BY <1>1, <1>2 DEF ChainOK, LaterThan, WarnedOK, DueForWarning
<1>6. ToldOK'
  BY <1>1, <1>2, TellingStays DEF Running
<1> QED BY <1>3, <1>4, <1>5, <1>6 DEF DailyInv

LEMMA DailyStep == DailyInv /\ [DailyNext]_dailyVars => DailyInv'
<1> SUFFICES ASSUME DailyInv, [DailyNext]_dailyVars PROVE DailyInv'
  OBVIOUS
<1>1. ASSUME NEW w \in Workers, WorkerStep(w) \/ Fails(w) \/ WorkerDies(w) PROVE DailyInv'
  BY <1>1, BootKeeps, ClaimsKeep, MorningStepsKeep, RungStepsKeep, CompleteKeeps, FailsKeep, WorkerDiesKeeps
     DEF WorkerStep
<1> QED BY <1>1, RestKeeps DEF DailyNext

LEMMA MorningsFollow == DailyInv => MorningsHold
<1> SUFFICES ASSUME DailyInv PROVE MorningsHold
  OBVIOUS
<1>1. DailyTypeOK
  BY DEF DailyInv, DayTablesOK, DailyTypeOK, RunOK
<1>2. ToldUnlessCutShort
  BY DEF DailyInv, ToldOK, ToldUnlessCutShort, Tellers, HalfTold
<1>3. WarnedWithinWindow
  <2> SUFFICES ASSUME NEW d \in sweptOn, d \in MarkDay .. MarkDay + CatchUp PROVE warned
    BY DEF WarnedWithinWindow
  <2>1. d - MarkDay \in 0 .. CatchUp /\ d - (d - MarkDay) = MarkDay
    BY DailyBounds
  <2>2. DueForWarning(d)
    BY <2>1 DEF DueForWarning
  <2> QED BY <2>2 DEF DailyInv, WarnedOK
<1> QED BY <1>1, <1>2, <1>3 DEF MorningsHold, ChainUnbroken, AlertsReach, DailyInv, ChainOK

\* Warnings and rungs reach whom they are for unless cut short by a fault, and the chain
\* of mornings does not break, for any workers, ladder, audience and window (daily.ts,
\* document-expiry.ts, escalations.ts).
THEOREM MorningsForAny == DailySpec => []MorningsHold
<1>1. DailySpec => []DailyInv
  BY DailyStart, DailyStep, PTL DEF DailySpec
<1> QED BY <1>1, MorningsFollow, PTL
=============================================================================
