----------------------------- MODULE MCTSDurable -----------------------------
EXTENDS TSDurable, TLC

CONSTANTS t1, t2, t3, x, y

Symmetry == Permutations({t1, t2, t3})
====
