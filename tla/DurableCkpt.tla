----------------------------- MODULE DurableCkpt -----------------------------
(***************************************************************************)
(* What the checkpoint of lib/TSOpLog promises, with no logs in it: the    *)
(* committed versions of the objects, the last checkpoint clock, and the   *)
(* image a recovery would rebuild from the checkpoint alone.  A commit     *)
(* takes a write clock above every earlier one and above the last          *)
(* checkpoint, and leaves the image alone; a checkpoint moves the clock    *)
(* forward and makes the image, in one step, the version of every object   *)
(* current at the new clock.  TSDurable implements this specification      *)
(* under the refinement mapping of its CkptRefinesStore.                   *)
(***************************************************************************)
EXTENDS Naturals

CONSTANTS
    Objects,        \* the objects
    MIN_VERSION,    \* the version of an object never written
    MaxClock        \* bound on the clocks

VARIABLES
    commits,        \* the committed versions, as [obj, wrt] records
    last_ckpt,      \* the last checkpoint clock
    image           \* object -> its version in the checkpoint

avars == <<commits, last_ckpt, image>>

\* The version of o current at clock c: the newest commit below c.
Snapshot(o, c) ==
    LET ws == {v.wrt : v \in {v \in commits : v.obj = o /\ v.wrt < c}}
    IN IF ws = {} THEN MIN_VERSION ELSE CHOOSE w \in ws : \A v \in ws : v <= w

AInit ==
    /\ commits = {}
    /\ last_ckpt = MIN_VERSION
    /\ image = [o \in Objects |-> MIN_VERSION]

Commit(o, w) ==
    /\ w > last_ckpt
    /\ \A v \in commits : v.wrt < w
    /\ commits' = commits \cup {[obj |-> o, wrt |-> w]}
    /\ UNCHANGED <<last_ckpt, image>>

Checkpoint(c) ==
    /\ c > last_ckpt
    /\ last_ckpt' = c
    /\ image' = [o \in Objects |-> Snapshot(o, c)]
    /\ UNCHANGED commits

ANext ==
    \/ \E o \in Objects, w \in 1 .. MaxClock : Commit(o, w)
    \/ \E c \in 1 .. MaxClock : Checkpoint(c)

ASpec == AInit /\ [][ANext]_avars

====
