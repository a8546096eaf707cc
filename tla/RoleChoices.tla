----------------------------- MODULE RoleChoices -----------------------------
(***************************************************************************)
(* What a role may do, as the firm has chosen (packages/modules/identity:  *)
(* RolePermissionStore). Every request asks; each process of the API keeps *)
(* the answer in memory for a while, from the moment it began to load it.  *)
(* Saving a choice empties the memory of the process that saves, and then  *)
(* commits. What a choice then allows is worked out from the defaults.     *)
(***************************************************************************)
EXTENDS Naturals

CONSTANTS
    Processes,    \* processes of the API, each with its memory
    Callers,      \* requests being served at once
    Ttl,          \* how long the memory is good for (30 seconds in the code)
    MaxChoices,   \* bound: choices saved
    LastMoment,   \* bound: the end of time
    Ticked,       \* what each choice ticks for a role, or Blank
    Blank         \* memory with nothing in it; a role the firm has not touched

Choices == 0..MaxChoices
EditableRoles == {"accountant", "data_entry"}

\* What a role may do before anybody chooses, and what has a tick box.
Matrix ==
    [manager |-> {"clients.view.all", "clients.edit", "clients.rates.manage",
                  "clients.vault.read", "projects.view.all", "projects.edit",
                  "projects.assign", "time.record", "time.edit.any", "billing.view",
                  "billing.approve", "billing.invoice.issue", "billing.entries.unlink",
                  "invoices.upload", "invoices.correct", "invoices.approve.all",
                  "export.excel", "export.all", "users.manage", "audit.read"},
     accountant |-> {"clients.view.assigned", "clients.vault.read", "projects.view.assigned",
                     "projects.edit", "time.record", "billing.view", "invoices.upload",
                     "invoices.correct", "invoices.approve.assigned", "export.excel"},
     data_entry |-> {"projects.view.assigned", "invoices.upload", "invoices.correct"},
     client |-> {"portal.self.view", "portal.self.upload"}]
Grantable ==
    {"clients.view.all", "clients.view.assigned", "clients.edit", "clients.vault.read",
     "projects.view.all", "projects.edit", "projects.assign", "time.record", "time.edit.any",
     "billing.view", "billing.approve", "billing.invoice.issue", "billing.entries.unlink",
     "audit.read"}

Roles == DOMAIN Matrix
Permissions == Grantable \cup UNION {Matrix[role] : role \in Roles}

MutEffectiveMatrix(chosen) ==
    [role \in Roles |->
        IF role \in EditableRoles
        THEN IF chosen[role] = Blank THEN Matrix[role]
             ELSE (Matrix[role] \ Grantable) \cup chosen[role]
        ELSE Matrix[role]]

\* The ticked part is exactly what was chosen, the rest stays as it was.
EffectiveMatrix(chosen) ==
    [role \in Roles |->
        IF role \in EditableRoles
        THEN IF chosen[role] = Blank THEN Matrix[role]
             ELSE (Matrix[role] \ Grantable) \cup (chosen[role] \cap Grantable)
        ELSE Matrix[role]]

ASSUME RoleChoicesAssumption ==
    Ttl \in Nat \ {0} /\ MaxChoices \in Nat /\ LastMoment \in Nat /\ Blank \notin Nat

ASSUME TickedAssumption ==
    Ticked \in [Choices -> [EditableRoles -> SUBSET Permissions \cup {Blank}]]

VARIABLES
    moment,       \* Date.now()
    stored,       \* table role_permission_choices: the number of the choice
    saving,       \* the process whose transaction has replaced the row, or Blank
    memory,       \* value and loadedAt of each process
    asking,       \* what each request that is loading has: its process and times
    endedAt,      \* history: when each choice stopped being the one stored
    acted         \* history: what the last request went by and allowed, and when it asked

choicesVars == <<moment, stored, saving, memory, asking, endedAt, acted>>

Moments == 0..LastMoment
NotAsking == [of |-> Blank, since |-> 0, read |-> Blank]

\* What the roles of whoever asks then allow them.
GoesBy(v, t) ==
    acted' = [choice |-> v, asked |-> t, allows |-> EffectiveMatrix(Ticked[v])]

MutFresh(p) == memory[p].value # Blank /\ moment - memory[p].loadedAt <= Ttl

\* What is in memory, and not too old.
Fresh(p) == memory[p].value # Blank /\ moment - memory[p].loadedAt < Ttl

AsksMemory(c, p) ==
    /\ asking[c] = NotAsking /\ Fresh(p)
    /\ GoesBy(memory[p].value, moment)
    /\ UNCHANGED <<moment, stored, saving, memory, asking, endedAt>>

BeginsToLoad(c, p) ==
    /\ asking[c] = NotAsking /\ ~ Fresh(p)
    /\ asking' = [asking EXCEPT ![c] = [of |-> p, since |-> moment, read |-> Blank]]
    /\ UNCHANGED <<moment, stored, saving, memory, endedAt, acted>>

\* The SELECT: what is committed.
Reads(c) ==
    /\ asking[c].of # Blank /\ asking[c].read = Blank
    /\ asking' = [asking EXCEPT ![c].read = stored]
    /\ UNCHANGED <<moment, stored, saving, memory, endedAt, acted>>

\* The answer is kept, as old as the question.
Keeps(c) ==
    /\ asking[c].read # Blank
    /\ memory' = [memory EXCEPT ![asking[c].of] =
                     [value |-> asking[c].read, loadedAt |-> asking[c].since]]
    /\ GoesBy(asking[c].read, asking[c].since)
    /\ asking' = [asking EXCEPT ![c] = NotAsking]
    /\ UNCHANGED <<moment, stored, saving, endedAt>>

\* replace: the row, in the transaction, and the memory of this process at once.
Replace(p) ==
    /\ saving = Blank /\ stored < MaxChoices
    /\ saving' = p
    /\ memory' = [memory EXCEPT ![p] = [value |-> Blank, loadedAt |-> 0]]
    /\ UNCHANGED <<moment, stored, asking, endedAt, acted>>

CommitChoice ==
    /\ saving # Blank
    /\ stored' = stored + 1
    /\ endedAt' = [endedAt EXCEPT ![stored] = moment]
    /\ saving' = Blank
    /\ UNCHANGED <<moment, memory, asking, acted>>

\* The transaction fails after the row was replaced.
ChoiceLost == saving # Blank /\ saving' = Blank
              /\ UNCHANGED <<moment, stored, memory, asking, endedAt, acted>>

TimePasses == moment < LastMoment /\ moment' = moment + 1
              /\ UNCHANGED <<stored, saving, memory, asking, endedAt, acted>>

ChoicesInit ==
    /\ moment = 0 /\ stored = 0 /\ saving = Blank
    /\ memory = [p \in Processes |-> [value |-> Blank, loadedAt |-> 0]]
    /\ asking = [c \in Callers |-> NotAsking]
    /\ endedAt = [v \in Choices |-> Blank]
    /\ acted = [choice |-> Blank, asked |-> 0, allows |-> Matrix]

ChoicesNext ==
    \/ \E c \in Callers : \/ Reads(c) \/ Keeps(c)
                          \/ \E p \in Processes : AsksMemory(c, p) \/ BeginsToLoad(c, p)
    \/ \E p \in Processes : Replace(p)
    \/ CommitChoice \/ ChoiceLost \/ TimePasses

ChoicesSpec == ChoicesInit /\ [][ChoicesNext]_choicesVars

(***************************************************************************)

ChoicesTypeOK ==
    /\ moment \in Moments /\ stored \in Choices /\ saving \in Processes \cup {Blank}
    /\ memory \in [Processes -> [value : Choices \cup {Blank}, loadedAt : Moments]]
    /\ asking \in [Callers -> [of : Processes \cup {Blank}, since : Moments,
                               read : Choices \cup {Blank}]]
    /\ endedAt \in [Choices -> Moments \cup {Blank}]
    /\ acted.choice \in Choices \cup {Blank} /\ acted.asked \in Moments

\* Whatever was chosen and whichever process answers, only a manager manages
\* people, and nobody loses what has no tick box: "nobody can lock the firm out".
InBounds(allows) ==
    \A role \in Roles :
        /\ Matrix[role] \ Grantable \subseteq allows[role] /\ allows[role] \subseteq Permissions
        /\ "users.manage" \in allows[role] <=> role = "manager"

\* No request goes by a choice that was replaced a whole Ttl before it asked, in
\* whatever process: "thirty seconds is the longest a change could take"; and
\* what it goes by keeps everybody's rights in bounds.
ChoicesReach ==
    /\ ChoicesTypeOK
    /\ InBounds(acted.allows)
    /\ acted.choice # Blank /\ endedAt[acted.choice] # Blank
         => acted.asked < endedAt[acted.choice] + Ttl
=============================================================================
