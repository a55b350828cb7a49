----------------------------- MODULE MCTSThreads -----------------------------
(* TSThreads with two application threads as model values. *)
EXTENDS TSThreads, TLC

CONSTANTS t1, t2

MCThreads == {t1, t2}

====
