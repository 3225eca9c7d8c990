----------------------------- MODULE MCGfsFile -----------------------------
(* A chunk of three bytes, so that calls reach over up to three boundaries. *)
EXTENDS GfsFile

CONSTANTS c1, c2

TwoClients == {c1, c2}
SomeOffsets == {2, 4}
SomeSizes == {1, 3, 7}
============================================================================
