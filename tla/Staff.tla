-------------------------------- MODULE Staff --------------------------------
(***************************************************************************)
(* Who may sign in (packages/modules/identity): the people, their          *)
(* sessions, and the links that let somebody choose a new password.        *)
(*                                                                         *)
(* A request reads the rows it needs, checks a password or a code, and     *)
(* writes whole rows back: what it writes is what it read, changed. All    *)
(* but the renewal of a session is one READ COMMITTED transaction, and a   *)
(* refusal commits what was written before it. A row that is deleted with  *)
(* its person is a session that is over and a link that has lapsed, since  *)
(* neither is ever found again.                                            *)
(***************************************************************************)
EXTENDS Naturals, FiniteSets

CONSTANTS
    Accounts,     \* ids of rows of users
    Founder,      \* the one made from the command line, a manager
    Addresses,    \* email addresses
    FirstAddress, \* the founder's
    Passwords,
    FirstPassword,
    Sessions,
    Links,        \* password_resets
    Requests,     \* requests being served at once
    MaxFailed,    \* wrong answers before the account locks (5 in the code)
    MaxServed,    \* bound: requests of a behaviour in which they take turns
    MaxRacing,    \* bound: requests of one in which they overlap
    Nobody, NoAddress, NoPassword, NoSession, NoLink

ASSUME StaffAssumption ==
    /\ Founder \in Accounts /\ FirstAddress \in Addresses /\ FirstPassword \in Passwords
    /\ MaxFailed \in Nat \ {0} /\ MaxServed \in Nat /\ MaxRacing \in 0..MaxServed
    /\ Nobody \notin Accounts /\ NoAddress \notin Addresses
    /\ NoSession \notin Sessions /\ NoLink \notin Links

VARIABLES
    calm,         \* TRUE: requests are served one at a time
    rolesKept,    \* TRUE: nobody's roles are changed
    user,         \* table users, with user_roles
    session,      \* table sessions
    link,         \* table password_resets
    request,      \* what each request has in hand
    served,       \* requests so far
    wrong,        \* history: wrong answers since the count was last cleared
    proved        \* history: sessions that owed no code, or presented it

staffVars == <<calm, rolesKept, user, session, link, request, served, wrong, proved>>

Held == {"active", "suspended"}
NoUser == [status |-> "absent", address |-> NoAddress, password |-> NoPassword,
           manager |-> FALSE, failed |-> 0, locked |-> FALSE, factor |-> "none"]
NoSuchSession == [owner |-> Nobody, shown |-> NoPassword,
                  revoked |-> FALSE, passed |-> FALSE, over |-> FALSE]
NoSuchLink == [owner |-> Nobody, used |-> FALSE, lapsed |-> FALSE, uses |-> 0]
Waiting == [doing |-> "nothing", on |-> Nobody, row |-> NoUser,
            with |-> NoSession, seen |-> NoSuchSession, by |-> NoLink]

MutIsLive(s) == s.owner # Nobody /\ ~ s.over

\* isValidAt.
IsLive(s) == s.owner # Nobody /\ ~ s.revoked /\ ~ s.over
\* findLive.
Usable(k) == k.owner # Nobody /\ ~ k.used /\ ~ k.lapsed

\* canSignInAt.
CanSignIn(u) == u.status = "active" /\ ~ u.locked

\* SessionGuard, and RequirePermissions('users.manage') behind it.
Manages(m) ==
    /\ CanSignIn(user[m]) /\ user[m].manager
    /\ \E s \in Sessions : IsLive(session[s]) /\ session[s].owner = m /\ session[s].passed

(***************************************************************************)
(* What a request reads.                                                   *)
(***************************************************************************)
Begin(r, doing, a, s, k) ==
    /\ request[r] = Waiting /\ served < (IF calm THEN MaxServed ELSE MaxRacing)
    /\ calm => \A q \in Requests : request[q] = Waiting
    /\ request' = [request EXCEPT ![r] =
           [doing |-> doing, on |-> a, row |-> IF a = Nobody THEN NoUser ELSE user[a],
            with |-> s, seen |-> IF s = NoSession THEN NoSuchSession ELSE session[s],
            by |-> k]]
    /\ served' = served + 1
    /\ UNCHANGED <<calm, rolesKept, user, session, link, wrong, proved>>

\* findByEmail.
ComesByAddress(r, a) ==
    /\ user[a].status = "active" /\ user[a].address # NoAddress
    /\ \E doing \in {"signIn", "requestPasswordReset"} : Begin(r, doing, a, NoSession, NoLink)

MutMayDo(doing, m, a) == TRUE

\* Nobody suspends or deletes themselves.
MayDo(doing, m, a) == doing \in {"suspend", "removeStaff"} => a # m

\* A manager, about anybody.
ComesToManage(r, m, a) ==
    /\ Manages(m) /\ user[a].status \in Held
    /\ \E doing \in {"suspend", "reinstate", "assignRoles", "removeStaff", "setStaffPassword"} :
          /\ MayDo(doing, m, a)
          /\ doing = "assignRoles" => ~ rolesKept
          /\ Begin(r, doing, a, NoSession, NoLink)

\* A manager adding somebody: the holder of the address, if it has one.
ComesToAdd(r, m, e) ==
    /\ Manages(m)
    /\ \/ \E a \in Accounts : user[a].address = e /\ Begin(r, "addStaff", a, NoSession, NoLink)
       \/ /\ \A a \in Accounts : user[a].address # e
          /\ Begin(r, "addStaff", Nobody, NoSession, NoLink)

\* AuthenticateSession, VerifyTwoFactor, SignOut and the enrolment: by the
\* session's cookie, of a session that is still good.
ComesWithSession(r, s) ==
    /\ IsLive(session[s])
    /\ \/ Begin(r, "authenticate", session[s].owner, s, NoLink)
       \/ /\ CanSignIn(user[session[s].owner])
          /\ \E doing \in {"signOutOne", "verifyTwoFactor"} :
                Begin(r, doing, session[s].owner, s, NoLink)
       \/ /\ CanSignIn(user[session[s].owner]) /\ session[s].passed
          /\ \E doing \in {"startTwoFactor", "confirmTwoFactor", "signOutEverywhere"} :
                Begin(r, doing, session[s].owner, s, NoLink)

\* findLive.
ComesWithLink(r, k) ==
    /\ Usable(link[k]) /\ user[link[k].owner].status = "active"
    /\ Begin(r, "completePasswordReset", link[k].owner, NoSession, k)

(***************************************************************************)
(* What it writes.                                                         *)
(***************************************************************************)
Done(r) == request' = [request EXCEPT ![r] = Waiting] /\ UNCHANGED <<calm, rolesKept, served>>

MutAddressFree(a, e) == TRUE

\* users.email is UNIQUE.
AddressFree(a, e) == e # NoAddress => \A b \in Accounts \ {a} : user[b].address # e

\* save: the row becomes this copy, and is made again if it was deleted
\* meanwhile.
Save(a, u) ==
    /\ AddressFree(a, u.address)
    /\ user' = [user EXCEPT ![a] = u]

MutCounted(u) ==
    [u EXCEPT !.failed = IF @ = MaxFailed THEN @ ELSE @ + 1,
              !.locked = @ \/ u.failed + 1 > MaxFailed]

\* recordFailedAttempt; the count above the limit is not told apart.
Counted(u) ==
    [u EXCEPT !.failed = IF @ = MaxFailed THEN @ ELSE @ + 1,
              !.locked = @ \/ u.failed + 1 >= MaxFailed]

\* recordSuccessfulSignIn.
Cleared(u) == [u EXCEPT !.failed = 0, !.locked = FALSE]

MutRevoked(a) == session

\* revokeAllForUser.
Revoked(a) == [s \in Sessions |-> IF session[s].owner = a THEN [session[s] EXCEPT !.revoked = TRUE]
                                                          ELSE session[s]]

\* A wrong password, or a wrong code.
AnswersWrong(r) ==
    /\ Save(request[r].on, Counted(request[r].row))
    /\ wrong' = [wrong EXCEPT ![request[r].on] = IF @ = MaxFailed THEN @ ELSE @ + 1]
    /\ Done(r) /\ UNCHANGED <<session, link, proved>>

Forgiven(a) == wrong' = [wrong EXCEPT ![a] = 0]

MutNewSession(a, u) ==
    [owner |-> a, shown |-> u.password, revoked |-> FALSE, passed |-> TRUE, over |-> FALSE]

\* Session.start: with a second factor it may do nothing else until the code.
NewSession(a, u) ==
    [owner |-> a, shown |-> u.password, revoked |-> FALSE,
     passed |-> u.factor # "on", over |-> FALSE]

SignIn(r) ==
    LET u == request[r].row  a == request[r].on IN
    /\ request[r].doing = "signIn" /\ CanSignIn(u)
    /\ \/ AnswersWrong(r)
       \/ /\ u.password # NoPassword
          /\ Save(a, Cleared(u)) /\ Forgiven(a)
          /\ \E s \in Sessions :
                /\ session[s] = NoSuchSession
                /\ session' = [session EXCEPT ![s] = NewSession(a, u)]
                /\ proved' = IF u.factor = "on" THEN proved ELSE proved \cup {s}
          /\ Done(r) /\ UNCHANGED link

MutIssued(k, a) == [link EXCEPT ![k].owner = a]

\* issue: the newest link voids those before it.
Issued(k, a) ==
    [j \in Links |-> IF j = k THEN [NoSuchLink EXCEPT !.owner = a]
                     ELSE IF link[j].owner = a THEN [link[j] EXCEPT !.used = TRUE] ELSE link[j]]

RequestPasswordReset(r) ==
    LET a == request[r].on IN
    /\ request[r].doing = "requestPasswordReset"
    /\ \E k \in Links :
          /\ link[k] = NoSuchLink
          /\ link' = Issued(k, a)
    /\ Done(r) /\ UNCHANGED <<user, session, wrong, proved>>

\* completePasswordReset, setStaffPassword: every session ends.
ChoosePassword(r, p) ==
    LET a == request[r].on  k == request[r].by IN
    /\ request[r].doing \in {"completePasswordReset", "setStaffPassword"}
    /\ Save(a, [Cleared(request[r].row) EXCEPT !.password = p]) /\ Forgiven(a)
    /\ session' = Revoked(a)
    /\ link' = IF k = NoLink THEN link
               ELSE [link EXCEPT ![k].used = TRUE, ![k].uses = @ + 1]
    /\ Done(r) /\ UNCHANGED proved

Suspend(r) ==
    /\ request[r].doing = "suspend"
    /\ Save(request[r].on, [request[r].row EXCEPT !.status = "suspended"])
    /\ session' = Revoked(request[r].on)
    /\ Done(r) /\ UNCHANGED <<link, wrong, proved>>

Reinstate(r) ==
    /\ request[r].doing = "reinstate"
    /\ Save(request[r].on, [Cleared(request[r].row) EXCEPT !.status = "active"])
    /\ Forgiven(request[r].on)
    /\ Done(r) /\ UNCHANGED <<session, link, proved>>

AssignRoles(r, b) ==
    /\ request[r].doing = "assignRoles"
    /\ Save(request[r].on, [request[r].row EXCEPT !.manager = b])
    /\ Done(r) /\ UNCHANGED <<session, link, wrong, proved>>

\* remove: the row is deleted, and with it what hangs from it; or, where work
\* keeps the name, it gives up its address, its password and its roles.
Deleted(u) == [u EXCEPT !.status = "deleted", !.address = NoAddress]
Retired(u) == [u EXCEPT !.status = "suspended", !.address = NoAddress, !.password = NoPassword,
                        !.manager = FALSE, !.factor = "none"]
WithoutPerson(a) ==
    /\ session' = [s \in Sessions |-> IF session[s].owner = a THEN [session[s] EXCEPT !.over = TRUE]
                                                              ELSE session[s]]
    /\ link' = [k \in Links |-> IF link[k].owner = a THEN [link[k] EXCEPT !.lapsed = TRUE]
                                                     ELSE link[k]]

RemoveStaff(r) ==
    LET a == request[r].on IN
    /\ request[r].doing = "removeStaff" /\ user[a].status \in Held
    /\ \/ user' = [user EXCEPT ![a] = Deleted(@)] /\ WithoutPerson(a)
       \/ /\ user' = [user EXCEPT ![a] = Retired(@)]
          /\ session' = Revoked(a) /\ UNCHANGED link
    /\ Done(r) /\ UNCHANGED <<wrong, proved>>

\* addStaff: a new id takes the address, from a suspended holder if there is one.
AddStaff(r, e, p, b) ==
    LET x == request[r].on
        new == [NoUser EXCEPT !.status = "active", !.address = e, !.password = p, !.manager = b]
    IN
    /\ request[r].doing = "addStaff" /\ request[r].row.status # "active"
    /\ x # Nobody => e = request[r].row.address
    /\ AddressFree(x, e)
    /\ \E a \in Accounts :
          /\ user[a].status = "absent"
          /\ \/ x = Nobody /\ user' = [user EXCEPT ![a] = new] /\ UNCHANGED <<session, link>>
             \/ /\ x # Nobody
                /\ user' = [user EXCEPT ![a] = new, ![x] = Deleted(user[x])]
                /\ WithoutPerson(x)
             \/ /\ x # Nobody /\ user[x].status \in Held
                /\ user' = [user EXCEPT ![a] = new, ![x] = Retired(user[x])]
                /\ UNCHANGED <<session, link>>
    /\ Done(r) /\ UNCHANGED <<wrong, proved>>

\* save of a session: all but who it is and when it ends.
SaveSession(r, revoked, passed) ==
    session' = [session EXCEPT ![request[r].with].revoked = revoked,
                               ![request[r].with].passed = passed]

\* touch: only the last use changes, but the row is written whole.
Authenticate(r) ==
    /\ request[r].doing = "authenticate"
    /\ SaveSession(r, FALSE, request[r].seen.passed)
    /\ Done(r) /\ UNCHANGED <<user, link, wrong, proved>>

SignOutOne(r) ==
    /\ request[r].doing = "signOutOne"
    /\ SaveSession(r, TRUE, request[r].seen.passed)
    /\ Done(r) /\ UNCHANGED <<user, link, wrong, proved>>

SignOutEverywhere(r) ==
    /\ request[r].doing = "signOutEverywhere"
    /\ session' = Revoked(request[r].on)
    /\ Done(r) /\ UNCHANGED <<user, link, wrong, proved>>

StartTwoFactor(r) ==
    /\ request[r].doing = "startTwoFactor" /\ request[r].row.factor # "on"
    /\ Save(request[r].on, [request[r].row EXCEPT !.factor = "begun"])
    /\ Done(r) /\ UNCHANGED <<session, link, wrong, proved>>

\* A right code switches it on, and the session it came from has presented it.
ConfirmTwoFactor(r) ==
    /\ request[r].doing = "confirmTwoFactor" /\ request[r].row.factor = "begun"
    /\ Save(request[r].on, [request[r].row EXCEPT !.factor = "on"])
    /\ session' = [session EXCEPT ![request[r].with].passed = TRUE]
    /\ proved' = proved \cup {request[r].with}
    /\ Done(r) /\ UNCHANGED <<link, wrong>>

VerifyTwoFactor(r) ==
    LET u == request[r].row IN
    /\ request[r].doing = "verifyTwoFactor" /\ ~ request[r].seen.passed
    /\ u.factor # "none" /\ CanSignIn(u)
    /\ \/ AnswersWrong(r)
       \/ /\ Save(request[r].on, Cleared(u)) /\ Forgiven(request[r].on)
          /\ SaveSession(r, FALSE, TRUE)
          /\ proved' = proved \cup {request[r].with}
          /\ Done(r) /\ UNCHANGED link

\* Any refusal, and whatever a constraint refuses.
Refused(r) == request[r] # Waiting /\ Done(r) /\ UNCHANGED <<user, session, link, wrong, proved>>

\* Time: a lockout, a session's limits, a link's hour.
LockLapses(a) ==
    /\ user[a].locked
    /\ user' = [user EXCEPT ![a].locked = FALSE]
    /\ UNCHANGED <<calm, rolesKept, session, link, request, served, wrong, proved>>
SessionEnds(s) ==
    /\ IsLive(session[s])
    /\ session' = [session EXCEPT ![s].over = TRUE]
    /\ UNCHANGED <<calm, rolesKept, user, link, request, served, wrong, proved>>
LinkLapses(k) ==
    /\ Usable(link[k])
    /\ link' = [link EXCEPT ![k].lapsed = TRUE]
    /\ UNCHANGED <<calm, rolesKept, user, session, request, served, wrong, proved>>

StaffInit ==
    /\ calm \in BOOLEAN /\ rolesKept \in BOOLEAN
    /\ user = [a \in Accounts |->
           IF a = Founder THEN [NoUser EXCEPT !.status = "active", !.address = FirstAddress,
                                              !.password = FirstPassword, !.manager = TRUE]
                          ELSE NoUser]
    /\ session = [s \in Sessions |-> NoSuchSession]
    /\ link = [k \in Links |-> NoSuchLink]
    /\ request = [r \in Requests |-> Waiting]
    /\ served = 0
    /\ wrong = [a \in Accounts |-> 0]
    /\ proved = {}

RequestComes(r) ==
    \/ \E a \in Accounts : ComesByAddress(r, a)
    \/ \E m \in Accounts : \/ \E a \in Accounts : ComesToManage(r, m, a)
                           \/ \E e \in Addresses : ComesToAdd(r, m, e)
    \/ \E s \in Sessions : ComesWithSession(r, s)
    \/ \E k \in Links : ComesWithLink(r, k)

RequestGoesOn(r) ==
    \/ SignIn(r) \/ RequestPasswordReset(r) \/ \E p \in Passwords : ChoosePassword(r, p)
    \/ Suspend(r) \/ Reinstate(r) \/ RemoveStaff(r)
    \/ \E b \in BOOLEAN : AssignRoles(r, b)
    \/ \E e \in Addresses, p \in Passwords, b \in BOOLEAN : AddStaff(r, e, p, b)
    \/ Authenticate(r) \/ SignOutOne(r) \/ SignOutEverywhere(r)
    \/ StartTwoFactor(r) \/ ConfirmTwoFactor(r) \/ VerifyTwoFactor(r)
    \/ Refused(r)

StaffNext ==
    \/ \E r \in Requests : RequestComes(r) \/ RequestGoesOn(r)
    \/ \E a \in Accounts : LockLapses(a)
    \/ \E s \in Sessions : SessionEnds(s)
    \/ \E k \in Links : LinkLapses(k)

StaffSpec == StaffInit /\ [][StaffNext]_staffVars

(***************************************************************************)

\* Everything is of its type, and no two people have one address.
StaffTypeOK ==
    /\ calm \in BOOLEAN /\ rolesKept \in BOOLEAN
    /\ \A a \in Accounts :
          /\ user[a].status \in Held \cup {"absent", "deleted"}
          /\ user[a].failed \in 0..MaxFailed
          /\ user[a].factor \in {"none", "begun", "on"}
          /\ user[a].password \in Passwords \cup {NoPassword}
          /\ wrong[a] \in 0..MaxFailed
          /\ user[a].address \in Addresses \cup {NoAddress}
          /\ \A b \in Accounts \ {a} : user[a].address # NoAddress => user[b].address # user[a].address
    /\ \A s \in Sessions : session[s].owner \in Accounts \cup {Nobody}
    /\ \A k \in Links : link[k].owner \in Accounts \cup {Nobody}
    /\ served \in 0..MaxServed /\ proved \subseteq Sessions

\* While requests take turns: nobody suspended, deleted or with a new password
\* has a session left of before, and one signed out stays so.
SessionsEnd ==
    calm => \A s \in Sessions : IsLive(session[s]) =>
                /\ user[session[s].owner].status = "active"
                /\ user[session[s].owner].password = session[s].shown

\* A session that may do more than present a code owes none, whatever overlaps.
CodesPresented == \A s \in Sessions : session[s].passed => s \in proved

\* While requests take turns, the wrong answer that is one too many locks the
\* account, whether of a password or of a code, whatever came between.
WrongsLock ==
    [][calm => \A a \in Accounts : wrong[a] < MaxFailed /\ wrong'[a] = MaxFailed
                                      => user'[a].locked]_staffVars

\* One link of a person works at a time, and each works once.
LinksOnce ==
    calm => /\ \A k \in Links : link[k].uses <= 1
            /\ \A j, k \in Links : Usable(link[j]) /\ Usable(link[k])
                                     /\ link[j].owner = link[k].owner => j = k

\* Somebody can manage people: while nobody's roles change, and requests take turns.
SomebodyManages ==
    calm /\ rolesKept => \E a \in Accounts : user[a].status = "active" /\ user[a].manager

\* What was ended stays ended, and a second factor that is on stays on.
EndsStay ==
    [][calm => /\ \A s \in Sessions : session[s].revoked => session'[s].revoked
               /\ \A a \in Accounts : user[a].factor = "on" /\ user'[a].status = "active"
                                         => user'[a].factor = "on"]_staffVars

\* Access is what was decided: while requests take turns, whoever was suspended,
\* removed or given a password is out everywhere, a code owed is a code presented,
\* a link works once, wrong answers lock, and somebody is left to manage people.
AccessHolds ==
    /\ [](StaffTypeOK /\ SessionsEnd /\ CodesPresented /\ LinksOnce /\ SomebodyManages)
    /\ EndsStay /\ WrongsLock
=============================================================================
