------------------------------ MODULE MCTSReplay ------------------------------
(* Model-checking instance of TSReplay: operations are model values.       *)
EXTENDS TSReplay, TLC

CONSTANTS o1, o2, o3, o4, o5

\* Operations are interchangeable: only their clocks tell them apart.
Symmetry == Permutations({o1, o2, o3, o4, o5})
=============================================================================
