---- MODULE MCDocCatalog ----
EXTENDS DocCatalog, TLC

CONSTANTS c1, c2, d1, d2

\* As "file" and "file report": the first is found in the row of the second,
\* the second is too long for the header.
MCInside == {<<d1, d2>>}

Sym == Permutations({c1, c2})
====
