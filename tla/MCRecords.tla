------------------------------ MODULE MCRecords ------------------------------
(***************************************************************************)
(* Billing whose requests are kept apart, the figures of a client, the     *)
(* folder of one, a person's working hours and a list of papers to upload, *)
(* on small instances. They share no state: a run lets one of them move.   *)
(***************************************************************************)
EXTENDS MCBilling, Figures, ClientFolders, WorkingHours, PaperList

CONSTANTS ann, bob, na, nb, nx, d1, licence, other, k1

VARIABLE record

\* Half an hour that comes to a half fils; hours that are no hundredths; a
\* moment too short to print; an agreed fee two people worked for.
WorkLine(who, worked, pricing, price) ==
    [people |-> who, worked |-> worked, pricing |-> pricing, price |-> price,
     excluded |-> FALSE, adjustedTo |-> NotSet]

SmallLines ==
    {WorkLine({ann}, 1800, "hourly", 301), WorkLine({bob}, 8400, "hourly", 331),
     WorkLine({ann}, 12, "hourly", 300), WorkLine({ann, bob}, 3600, "fixed", 4990)}

SmallPayments == {[amount |-> 150, discount |-> 0], [amount |-> 4000, discount |-> 1240]}

OfferLine(sort, centi, price, discount, vat) ==
    [kind |-> sort, centi |-> centi, price |-> price, discount |-> discount, vat |-> vat]

\* Hours that come to a half fils; VAT that does; no VAT; a discount as large as
\* its line, and one larger.
SmallOffers ==
    {OfferLine("hours", 350, 12345, 0, 500), OfferLine("fixed", 0, 4990, 500, 500),
     OfferLine("fixed", 0, 1000, 1000, NotSet), OfferLine("hours", 25, 10, 4, 0)}

\* A directory whose name the server shortens, and two levels of plain ones.
Clean == (na :> na) @@ (nb :> nb) @@ (nx :> nb)
Directories == {<<>>, <<na>>, <<na, nb>>, <<nx>>}
OnePanel == {d1}

\* The hours of a person nobody typed any for; a Sunday week with a short Sunday and a
\* Saturday of no length; whole days; shifts with a short Saturday; and three the form
\* or the server must refuse or stand.
NoneOwn == [d \in 1 .. 7 |-> NoOwn]
NineToSix == [from |-> 9, to |-> 18, days |-> 1 .. 5, own |-> NoneOwn]
SundayWeek == [from |-> 8, to |-> 17, days |-> {7, 1, 2, 3, 4}, own |-> [NoneOwn EXCEPT ![7] = [from |-> 10, to |-> 15], ![6] = [from |-> 9, to |-> 9]]]
Nights == [from |-> 0, to |-> 24, days |-> {5, 6}, own |-> NoneOwn]
NoDays == [NineToSix EXCEPT !.days = {}]
Backwards == [NineToSix EXCEPT !.own[5] = [from |-> 14, to |-> 9]]
Shifts == [from |-> 14, to |-> 23, days |-> 1 .. 6, own |-> [NoneOwn EXCEPT ![6] = [from |-> 8, to |-> 13]]]
TypedHours == {Shifts, SundayWeek, Nights, NoDays, Backwards}

\* A licence, which expires, is guessed from its file's name; the other paper is not.
Guessed == [s \in Scans |-> IF s = k1 THEN licence ELSE other]

RecordsSymmetry == Symmetry \cup Permutations(Folders)

RecordsInit ==
    /\ record \in {"billing", "bills", "an offer", "folders", "hours", "papers"}
    /\ Init
    /\ FiguresInit
    /\ FoldersInit
    /\ HoursInit
    /\ ListInit
    /\ oneAtATime \/ record = "folders"
    /\ careful \/ record = "papers"

RecordsNext ==
    /\ UNCHANGED record
    /\ \/ record = "billing" /\ Next /\ UNCHANGED <<figuresVars, foldersVars, hoursVars, listVars>>
       \/ record = "bills" /\ BillsNext /\ UNCHANGED <<vars, foldersVars, hoursVars, listVars>>
       \/ record = "an offer" /\ OfferNext /\ UNCHANGED <<vars, foldersVars, hoursVars, listVars>>
       \/ record = "folders" /\ FoldersNext /\ UNCHANGED <<vars, figuresVars, hoursVars, listVars>>
       \/ record = "hours" /\ HoursNext /\ UNCHANGED <<vars, figuresVars, foldersVars, listVars>>
       \/ record = "papers" /\ ListNext /\ UNCHANGED <<vars, figuresVars, foldersVars, hoursVars>>

RecordsSpec ==
    RecordsInit /\ [][RecordsNext]_<<record, vars, figuresVars, foldersVars, hoursVars, listVars>>
=============================================================================
