---- MODULE MCDocEditing ----
EXTENDS DocEditing

CONSTANTS a1, b1, alice, bob, k1

\* Alice and Bob have one page each at a time.
MCUserOf == [p \in Conns |-> IF p = a1 THEN alice ELSE bob]
====
