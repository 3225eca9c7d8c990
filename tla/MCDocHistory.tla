---- MODULE MCDocHistory ----
EXTENDS DocHistory, TLC

CONSTANTS a1, b1, alice, bob, k1, k2

MCUserOf == [c \in Conns |-> IF c = a1 THEN alice ELSE bob]

\* A short value, and one too long for a cell.
MCValues == {<<"x">>, <<"p", "p", "p", "p">>}

\* Alice and Bob change places, with their pages; so do the cells.
Same == [x \in {a1, b1, alice, bob} |-> x]
Swap == a1 :> b1 @@ b1 :> a1 @@ alice :> bob @@ bob :> alice
Sym  == {Same, Swap} \cup Permutations(Cells)
====
