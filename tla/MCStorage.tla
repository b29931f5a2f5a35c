----------------------------- MODULE MCStorage -----------------------------
(***************************************************************************)
(* Small instances of Storage for TLC.                                     *)
(***************************************************************************)
EXTENDS Storage, TLC

CONSTANTS k1, k2, v1, v2

\* All items alike: two fit on a page of 8 units and leave room for a header, so
\* that every page can be scanned again.
EvenLen == [v \in Vals |-> 2]

\* Items of two sizes, which with PageContent = 10 and HeaderSize = 2 also fill a
\* page to its last byte, to the last but one, and to less than a header.
TightLen == [v \in Vals |-> IF v = v1 THEN 1 ELSE 2]

KeySymmetry == Permutations(Keys)
Symmetry == Permutations(Keys) \cup Permutations(Vals)
=============================================================================
