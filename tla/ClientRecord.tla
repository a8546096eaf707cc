---------------------------- MODULE ClientRecord ----------------------------
(***************************************************************************)
(* What the firm keeps about its clients (packages/modules/clients: client,*)
(* credential; the details form and the vault's panel of apps/web): a VAT  *)
(* number, reference numbers, and logins to portals.                       *)
(*                                                                         *)
(* The form is filled from a page that ages while it is open, and sends    *)
(* everything it holds but the number, which goes only when it was typed   *)
(* over. The server changes a copy of the whole row and saves it whole.    *)
(* Passwords follow, one request each, to the vault: a login is retired    *)
(* before the one that replaces it is stored, and none is opened before    *)
(* the log says who read it.                                               *)
(*                                                                         *)
(* Corporation tax goes as VAT does. Left out: the values of the details   *)
(* saved as typed, among them the remark a box holds in place of a number; *)
(* the checks that refuse before anything is read, who may see which       *)
(* client, and what nothing calls (deregistration, rates, dormancy).       *)
(***************************************************************************)
EXTENDS Naturals, FiniteSets

CONSTANTS
    OnBooks,        \* client ids
    Numbers,     \* tax registration numbers
    References,  \* labels of reference numbers
    Logins,      \* credential ids
    Portals,     \* a portal and one of its two users
    Keepers,     \* people of the firm
    Absent,      \* NULL
    MaxUses,     \* forms saved, and logins stored, retired or revealed in the panel
    MaxLost      \* requests that die, or whose answer does

\* Where a login may stand: one a client, portal and user.
Places == [client : OnBooks, portal : Portals]

ASSUME RecordAssumption == Absent \notin Numbers \cup OnBooks \cup Logins \cup Places

VARIABLES
    apart,       \* TRUE: no two changes of a client's details overlap
    \* tables clients and client_references
    vatNumber, references,
    \* table client_credentials
    opens,       \* the client and the portal of each login, Absent before it is stored
    retired,     \* logins
    \* the audit log: who read which login
    readBy,
    \* each keeper, the form they have open and the request they wait for
    doing, form, typed, atHand, late, owed, login,
    uses, lost

recordVars == <<apart, vatNumber, references, opens, retired, readBy,
                doing, form, typed, atHand, late, owed, login, uses, lost>>
clientRows == <<vatNumber, references>>
vaultRows == <<opens, retired, readBy>>
recordBounds == <<uses, lost>>

InDetails == {"read", "checked", "emptied"}
InVault == {"replacing", "retiring", "revealing", "recorded"}

NoForm == [client |-> Absent, number |-> Absent, references |-> {}]
NothingTyped == [number |-> Absent, references |-> {}]

LiveLogins(c, portal) ==
    {l \in Logins \ retired : opens[l] = [client |-> c, portal |-> portal]}

\* The page of a client, and the form filled from it.
OpenForm(p, c) ==
    /\ doing[p] = "away"
    /\ doing' = [doing EXCEPT ![p] = "form"]
    /\ form' = [form EXCEPT ![p] =
                  [client |-> c, number |-> vatNumber[c], references |-> references[c]]]
    /\ UNCHANGED <<apart, clientRows, vaultRows, typed, atHand, late, owed, login, recordBounds>>

\* What the number box sends: a number that is not the one it was filled with.
MutNumberSent(p, text) == IF text \in Numbers THEN text ELSE Absent
NumberSent(p, text) == IF text \in Numbers \ {form[p].number} THEN text ELSE Absent

Texts == Numbers \cup {Absent}
Lists(p) == {form[p].references} \cup {{r} : r \in References}

SaveForm(p) ==
    /\ doing[p] = "form" /\ uses < MaxUses
    /\ \E text \in Texts, list \in Lists(p), passwords \in SUBSET Portals :
          /\ typed' = [typed EXCEPT ![p] =
                         [number |-> NumberSent(p, text), references |-> list]]
          /\ owed' = [owed EXCEPT ![p] = passwords]
    /\ doing' = [doing EXCEPT ![p] = "sent"]
    /\ uses' = uses + 1
    /\ UNCHANGED <<apart, clientRows, vaultRows, form, atHand, late, login, lost>>

\* ManageClientDetails.change, statement by statement.
ReadClient(p) ==
    /\ doing[p] = "sent"
    /\ apart => \A q \in Keepers : doing[q] \notin InDetails
    /\ doing' = [doing EXCEPT ![p] = "read"]
    /\ atHand' = [atHand EXCEPT ![p] = vatNumber[form[p].client]]
    /\ UNCHANGED <<apart, clientRows, vaultRows, form, typed, late, owed, login, recordBounds>>

TakenByAnother(n, c) == n # Absent /\ \E d \in OnBooks \ {c} : vatNumber[d] = n

\* A first registration says how often it files; the form asks for that only
\* when its page showed no number.
MayRegister(p) ==
    typed[p].number # Absent =>
        /\ ~ TakenByAnother(typed[p].number, form[p].client)
        /\ atHand[p] # Absent \/ form[p].number = Absent

CheckNumber(p) ==
    /\ doing[p] = "read" /\ MayRegister(p)
    /\ doing' = [doing EXCEPT ![p] = "checked"]
    /\ UNCHANGED <<apart, clientRows, vaultRows, form, typed, atHand, late, owed, login, recordBounds>>

\* replaceReferences: the rows this statement sees go, at the commit. Those of a
\* commit in between it has not seen.
EmptyReferences(p) ==
    /\ doing[p] = "checked"
    /\ doing' = [doing EXCEPT ![p] = "emptied"]
    /\ late' = [late EXCEPT ![p] = FALSE]
    /\ UNCHANGED <<apart, clientRows, vaultRows, form, typed, atHand, owed, login, recordBounds>>

NumberToSave(p) == IF typed[p].number # Absent THEN typed[p].number ELSE atHand[p]
MutReferencesStaying(p) == references[form[p].client]
ReferencesStaying(p) == IF late[p] THEN references[form[p].client] ELSE {}

\* The indexes: one client to a VAT number, one reference to a label.
MutTablesAllow(p) == ReferencesStaying(p) \cap typed[p].references = {}
TablesAllow(p) ==
    /\ ~ TakenByAnother(NumberToSave(p), form[p].client)
    /\ ReferencesStaying(p) \cap typed[p].references = {}

\* With no password to store the form closes.
Leaving(p, rest) ==
    /\ doing' = [doing EXCEPT ![p] = IF rest # {} THEN "vault" ELSE "away"]
    /\ form' = [form EXCEPT ![p] = IF rest # {} THEN @ ELSE NoForm]
    /\ typed' = [typed EXCEPT ![p] = NothingTyped]
    /\ atHand' = [atHand EXCEPT ![p] = Absent]

CommitDetails(p) ==
    LET whose == form[p].client IN
    /\ doing[p] = "emptied" /\ TablesAllow(p)
    /\ vatNumber' = [vatNumber EXCEPT ![whose] = NumberToSave(p)]
    /\ references' = [references EXCEPT ![whose] = ReferencesStaying(p) \cup typed[p].references]
    /\ late' = [q \in Keepers |->
                  q # p /\ (late[q] \/ (doing[q] = "emptied" /\ form[q].client = whose))]
    /\ Leaving(p, owed[p])
    /\ UNCHANGED <<apart, vaultRows, owed, login, recordBounds>>

\* Refused, or failed: nothing is written, and the form is still open. What was
\* read may be refused for any detail as typed (an address, a telephone number,
\* hours, a remark: changeDetails), or for its number.
Refused(p) ==
    \/ doing[p] = "read"
    \/ doing[p] = "emptied" /\ ~ TablesAllow(p)

GiveUp(p) ==
    /\ doing' = [doing EXCEPT ![p] = IF form[p] # NoForm THEN "form" ELSE "away"]
    /\ atHand' = [atHand EXCEPT ![p] = Absent]
    /\ typed' = [typed EXCEPT ![p] = NothingTyped]
    /\ late' = [late EXCEPT ![p] = FALSE]
    /\ owed' = [owed EXCEPT ![p] = {}]
    /\ login' = [login EXCEPT ![p] = Absent]
    /\ UNCHANGED <<apart, clientRows, vaultRows, form>>

RefuseDetails(p) == Refused(p) /\ GiveUp(p) /\ UNCHANGED recordBounds

\* A request dies before its commit, the later the more of it is done, or
\* between two of the form's requests.
LoseRequest(p) ==
    /\ doing[p] \in {"emptied", "vault"} \cup InVault
    /\ lost < MaxLost
    /\ lost' = lost + 1
    /\ GiveUp(p)
    /\ UNCHANGED uses

CloseForm(p) ==
    /\ doing[p] = "form"
    /\ doing' = [doing EXCEPT ![p] = "away"]
    /\ form' = [form EXCEPT ![p] = NoForm]
    /\ UNCHANGED <<apart, clientRows, vaultRows, typed, atHand, late, owed, login, recordBounds>>

\* The vault. A form stores the passwords typed in it one by one; the panel
\* stores one. atHand is the login found in the portal's place.
StoreFrom(p, c, portal) ==
    /\ doing' = [doing EXCEPT ![p] = "replacing"]
    /\ \E found \in IF LiveLogins(c, portal) = {} THEN {Absent} ELSE LiveLogins(c, portal) :
          atHand' = [atHand EXCEPT ![p] = found]
    /\ owed' = [owed EXCEPT ![p] = owed[p] \cup {portal}]
    /\ UNCHANGED <<apart, clientRows, vaultRows, typed, late>>

StoreTyped(p) ==
    /\ doing[p] = "vault"
    /\ \E portal \in owed[p] :
          /\ login' = [login EXCEPT ![p] = [client |-> form[p].client, portal |-> portal]]
          /\ StoreFrom(p, form[p].client, portal)
    /\ UNCHANGED <<form, recordBounds>>

StoreInPanel(p, c, portal) ==
    /\ doing[p] = "away" /\ uses < MaxUses
    /\ uses' = uses + 1
    /\ login' = [login EXCEPT ![p] = [client |-> c, portal |-> portal]]
    /\ StoreFrom(p, c, portal)
    /\ UNCHANGED <<form, lost>>

\* The one found is retired first, then the index must find the place free.
MutPlaceIsFree(p) == TRUE
PlaceIsFree(p) == LiveLogins(login[p].client, login[p].portal) \subseteq {atHand[p]}

\* Credential.store and Credential.retire.
NewLogin(p, l) == opens' = [opens EXCEPT ![l] = login[p]]
Retiring(logins) == retired' = retired \cup logins

CommitStore(p, l) ==
    /\ doing[p] = "replacing" /\ opens[l] = Absent /\ PlaceIsFree(p)
    /\ Retiring({atHand[p]} \ {Absent})
    /\ NewLogin(p, l)
    /\ owed' = [owed EXCEPT ![p] = @ \ {login[p].portal}]
    /\ login' = [login EXCEPT ![p] = Absent]
    /\ Leaving(p, owed[p] \ {login[p].portal})
    /\ UNCHANGED <<apart, clientRows, readBy, late, recordBounds>>

RefuseStore(p) ==
    /\ doing[p] = "replacing" /\ ~ PlaceIsFree(p)
    /\ GiveUp(p)
    /\ UNCHANGED recordBounds

\* Retiring and revealing find a login that is not retired; the panel may still
\* list one that is.
FindLogin(p, l, use) ==
    /\ doing[p] = "away" /\ uses < MaxUses
    /\ opens[l] # Absent /\ l \notin retired
    /\ doing' = [doing EXCEPT ![p] = use]
    /\ login' = [login EXCEPT ![p] = l]
    /\ uses' = uses + 1
    /\ UNCHANGED <<apart, clientRows, vaultRows, form, typed, atHand, late, owed, lost>>

Retire(p) ==
    /\ doing[p] = "retiring"
    /\ Retiring({login[p]})
    /\ doing' = [doing EXCEPT ![p] = "away"]
    /\ login' = [login EXCEPT ![p] = Absent]
    /\ UNCHANGED <<apart, clientRows, opens, readBy, form, typed, atHand, late, owed, recordBounds>>

\* AuditedVault.open: the log first, then the secret.
MutRecordRead(p) ==
    /\ doing[p] = "revealing"
    /\ doing' = [doing EXCEPT ![p] = "recorded"]
    /\ UNCHANGED <<apart, clientRows, vaultRows, form, typed, atHand, late, owed, login, recordBounds>>
RecordRead(p) ==
    /\ doing[p] = "revealing"
    /\ readBy' = readBy \cup {<<p, login[p]>>}
    /\ doing' = [doing EXCEPT ![p] = "recorded"]
    /\ UNCHANGED <<apart, clientRows, opens, retired, form, typed, atHand, late, owed, login, recordBounds>>

ShowSecret(p) ==
    /\ doing[p] = "recorded"
    /\ doing' = [doing EXCEPT ![p] = "shown"]
    /\ UNCHANGED <<apart, clientRows, vaultRows, form, typed, atHand, late, owed, login, recordBounds>>

\* After a while, or at a press.
HideSecret(p) ==
    /\ doing[p] = "shown"
    /\ doing' = [doing EXCEPT ![p] = "away"]
    /\ login' = [login EXCEPT ![p] = Absent]
    /\ UNCHANGED <<apart, clientRows, vaultRows, form, typed, atHand, late, owed, recordBounds>>

\* Two clients never carry one VAT number, though the question whether it is
\* taken is asked before the row is saved (client.repository.ts isVatTrnTaken,
\* and the index of 0005_clients.sql).
OneNumberOneClient ==
    \A c, d \in OnBooks : c # d /\ vatNumber[c] # Absent => vatNumber[c] # vatNumber[d]

RecordInit ==
    /\ apart \in BOOLEAN
    /\ vatNumber \in [OnBooks -> Numbers \cup {Absent}] /\ OneNumberOneClient
    /\ references = [c \in OnBooks |-> {}]
    /\ \E first \in Logins, place \in Places :
          opens = [l \in Logins |-> IF l = first THEN place ELSE Absent]
    /\ retired = {} /\ readBy = {}
    /\ doing = [p \in Keepers |-> "away"]
    /\ form = [p \in Keepers |-> NoForm]
    /\ typed = [p \in Keepers |-> NothingTyped]
    /\ atHand = [p \in Keepers |-> Absent]
    /\ late = [p \in Keepers |-> FALSE]
    /\ owed = [p \in Keepers |-> {}]
    /\ login = [p \in Keepers |-> Absent]
    /\ uses = 0 /\ lost = 0

\* The details and their form.
DetailsStep(p) ==
    \/ \E c \in OnBooks : OpenForm(p, c)
    \/ SaveForm(p) \/ ReadClient(p) \/ CheckNumber(p) \/ EmptyReferences(p)
    \/ CommitDetails(p) \/ RefuseDetails(p) \/ CloseForm(p)

\* The vault, its panel, and the passwords a form sends after its details.
VaultStep(p) ==
    \/ \E c \in OnBooks, portal \in Portals : StoreInPanel(p, c, portal)
    \/ StoreTyped(p) \/ RefuseStore(p) \/ \E l \in Logins : CommitStore(p, l)
    \/ \E l \in Logins : FindLogin(p, l, "retiring") \/ FindLogin(p, l, "revealing")
    \/ Retire(p) \/ RecordRead(p) \/ ShowSecret(p) \/ HideSecret(p)

RecordNext == \E p \in Keepers : DetailsStep(p) \/ VaultStep(p) \/ LoseRequest(p)

RecordSpec == RecordInit /\ [][RecordNext]_recordVars

\* Types.
RecordTypeOK ==
    /\ vatNumber \in [OnBooks -> Numbers \cup {Absent}]
    /\ references \in [OnBooks -> SUBSET References]
    /\ doing \in [Keepers -> {"away", "form", "sent", "vault", "shown"} \cup InDetails \cup InVault]
    /\ retired \subseteq Logins /\ readBy \subseteq Keepers \X Logins

\* One login a portal and user is in use, whoever stores at the same time
\* (client-vault.ts store).
OneLoginInUse == \A c \in OnBooks, portal \in Portals : Cardinality(LiveLogins(c, portal)) <= 1

\* A password on a screen has its row in the log, with the person's name
\* (audited-vault.ts open).
ShownWasRecorded == \A p \in Keepers : doing[p] = "shown" => <<p, login[p]>> \in readBy

\* A form opened before a registration, and saved after it, leaves the number
\* alone: only who typed another number changes it, and to that. Two requests
\* that overlap may undo one another, each saving the row it read.
NumberStands ==
    [][\A c \in OnBooks : apart /\ vatNumber'[c] # vatNumber[c] =>
          \E p \in Keepers : doing[p] = "emptied" /\ doing'[p] # "emptied"
                              /\ typed[p].number # form[p].number
                              /\ vatNumber'[c] = typed[p].number]_recordVars

\* What the form shows is what is stored (client.repository.ts
\* replaceReferences), unless another list was saved while it was.
ReferencesAsShown ==
    [][\A p \in Keepers : apart /\ doing[p] = "emptied" /\ doing'[p] \in {"away", "vault"} =>
          references'[form[p].client] = typed[p].references]_recordVars

\* A login that was in use is never forgotten and, once retired, never in use
\* again: who could file last March can be told (credential.ts retire).
LoginsKept ==
    [][/\ retired \subseteq retired'
       /\ \A l \in Logins : opens[l] # Absent => opens'[l] = opens[l]]_recordVars

RecordKept ==
    /\ [](RecordTypeOK /\ OneNumberOneClient /\ OneLoginInUse /\ ShownWasRecorded)
    /\ NumberStands /\ ReferencesAsShown /\ LoginsKept
=============================================================================
