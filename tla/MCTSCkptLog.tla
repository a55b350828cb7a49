----------------------------- MODULE MCTSCkptLog -----------------------------
EXTENDS TSCkptLog, TLC

CONSTANTS t1, t2, x, y
====
