------------------------------ MODULE MCBilling ------------------------------
(* Instances of Billing for TLC: a and b are worked on one project for an   *)
(* agreed fee, a in the first month and b in the second; c is hourly.      *)
EXTENDS Billing, TLC

CONSTANTS a, b, c, project, day

ThreeEntries == {a, b, c}
ThreeLines == (a :> project) @@ (b :> project) @@ (c :> day)

OneEntry == {a}
OneLine == a :> project

Whole == {Entries}
Months == {{a, c}, {b}}

\* Requests are interchangeable, and so are statement ids.
Symmetry == Permutations(Clerks) \cup Permutations(Statements)
=============================================================================
