--------------------------- MODULE MCDocumentIndex ---------------------------
(* Small instances of DocumentIndex: two pages of one host and one of another. *)
EXTENDS DocumentIndex, TLC

CONSTANTS d1, d2, d3, x1, x2, h1, h2, k1, k2, noPage, noRow, noContent

TwoPages == {d1, d2}
ThreePages == {d1, d2, d3}
Hosts == [p \in Pages |-> IF p = d3 THEN h2 ELSE h1]
\* The first page of a host is the canonical one of the host's pages.
FirstOrOwn == [p \in Pages |-> IF p = d2 THEN {d1, d2} ELSE {p}]
TwoContents == {x1, x2}
OneCaller == {k1}
TwoCallers == {k1, k2}

Symmetry == Permutations(Callers) \cup Permutations(Contents)

NoHazards == {}
=============================================================================
