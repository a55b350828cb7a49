------------------------------ MODULE MCTSTxn ------------------------------
(* Model-checking instance of TSTxn: threads are model values; the writer *)
(* set and the bounds are given by each .cfg.                              *)
EXTENDS TSTxn, TLC

CONSTANTS t1, t2, t3, x, y

\* Threads and objects are interchangeable when every thread is a writer.
Symmetry == Permutations({t1, t2, t3}) \cup Permutations({x, y})
=============================================================================
