------------------------------ MODULE TSReplay ------------------------------
(***************************************************************************)
(* OpLog replay of lib/TSOpLog (recovery.c, oplog_recovery).  Before a     *)
(* crash, operations run: each takes local_clk when it begins (ts_begin)   *)
(* and, when it commits, tvlog_commit writes the OpLog entry <local_clk,   *)
(* wrt_clk> with a fresh write clock (oplog_enq).  After the crash         *)
(* oplog_recovery collects the entries is_op_entry_valid accepts, two      *)
(* replay entries per operation (EXEC at local_clk, COMMIT at wrt_clk),    *)
(* sorts them with comp_replay_entries and replays them in order on        *)
(* threads taken from a ts_ptr_set_t pool (acquire_thread, execute_op,     *)
(* release_thread), then frees the pooled threads (deinit_threads).        *)
(*                                                                         *)
(* The pool is the ptrset of util.h: an array ptrs and a count num_ptrs.   *)
(* ptrset_pop returns ptrs[num_ptrs--], the slot past the last pushed      *)
(* one.  The array comes from port_alloc (malloc), so a slot never written *)
(* holds whatever the allocator left there: UninitValues.                  *)
(*                                                                         *)
(* Clocks are small naturals; comp_replay_entries stores the difference of *)
(* two unsigned long clocks in an int, modelled by IntBits.  The operands  *)
(* (opd) and op_exec's effect are left out: a replayed operation is its    *)
(* identity.  Allocations never fail, and the pool stays below             *)
(* TS_INIT_PTR_SET_SIZE, so ptrset_expand never runs.  As in TSDurable,    *)
(* the loops are stated past the reconstruct_volatile_nvlog tests whose    *)
(* polarity (recovery.c:147, 228) and that of oplog_recovery's own test    *)
(* (recovery.c:415) return before any replay, which the hazards record.    *)
(***************************************************************************)
EXTENDS Integers, Sequences, FiniteSets

CONSTANTS
    Ops,            \* the operations run before the crash
    NULL,
    Garbage,        \* a non-NULL pointer that no allocation returned
    UninitValues,   \* what an unwritten slot of a fresh malloc may hold
    LastCkpt,       \* the persisted last_ckpt_clk
    IntBits         \* width of comp_replay_entries' int

ASSUME /\ UninitValues \subseteq {NULL, Garbage} /\ UninitValues # {}
       /\ LastCkpt \in Nat /\ IntBits \in Nat \ {0}

\* enum { OPLOG_REPLAY_TYPE_EXEC, OPLOG_REPLAY_TYPE_COMMIT }
EXEC == 0
COMMIT == 1

\* Recovery threads are named by their allocation order.
ThreadIds == 1 .. Cardinality(Ops)
\* The pool never holds more than one thread per operation.
Slots == 0 .. Cardinality(Ops)
MaxClock == 2 * Cardinality(Ops)

VARIABLES
    pc,         \* "run", "collect", "replay", "deinit", "done" or "fault"
    clk,        \* the global clock before the crash
    local,      \* op -> local_clk, 0 before ts_begin
    wrt,        \* op -> wrt_clk, 0 before the commit
    oplog,      \* the persisted OpLog entries, in commit order
    replay,     \* the sorted replay array
    i,          \* replay_ops' loop index
    ctx,        \* op -> context->thread
    ptrs,       \* the pool's array
    num,        \* the pool's num_ptrs
    nalloc,     \* threads ts_thread_alloc returned so far
    freed       \* threads deinit_threads freed

vars == <<pc, clk, local, wrt, oplog, replay, i, ctx, ptrs, num, nalloc,
          freed>>

Init ==
    /\ pc = "run"
    /\ clk = 0
    /\ local = [o \in Ops |-> 0]
    /\ wrt = [o \in Ops |-> 0]
    /\ oplog = <<>>
    /\ replay = <<>>
    /\ i = 1
    /\ ctx = [o \in Ops |-> NULL]
    /\ ptrs \in [Slots -> UninitValues]
    /\ num = 0
    /\ nalloc = 0
    /\ freed = {}

-----------------------------------------------------------------------------
(* Before the crash *)

\* ts_begin: the operation's snapshot is the current clock.
OpBegin(o) ==
    /\ pc = "run"
    /\ local[o] = 0
    /\ clk' = clk + 1
    /\ local' = [local EXCEPT ![o] = clk + 1]
    /\ UNCHANGED <<pc, wrt, oplog, replay, i, ctx, ptrs, num, nalloc, freed>>

\* tvlog_commit: new_clock gives a write clock past every clock so far, and
\* oplog_enq and oplog_enq_persist write the entry before it is published.
OpCommit(o) ==
    /\ pc = "run"
    /\ local[o] # 0
    /\ wrt[o] = 0
    /\ clk' = clk + 1
    /\ wrt' = [wrt EXCEPT ![o] = clk + 1]
    /\ oplog' = Append(oplog, o)
    /\ UNCHANGED <<pc, local, replay, i, ctx, ptrs, num, nalloc, freed>>

\* Power fails; ts_init finds logs and calls perform_recovery.
Crash ==
    /\ pc = "run"
    /\ pc' = "collect"
    /\ UNCHANGED <<clk, local, wrt, oplog, replay, i, ctx, ptrs, num, nalloc,
                   freed>>

-----------------------------------------------------------------------------
(* Collecting and sorting the replay array *)

\* is_op_entry_valid
IsOpEntryValid(o) == local[o] > LastCkpt

\* add_op_replay: the EXEC and the COMMIT entry of one operation.
AddOpReplay(o) ==
    << [op |-> o, type |-> EXEC, ts |-> local[o]],
       [op |-> o, type |-> COMMIT, ts |-> wrt[o]] >>

\* collect_replay_entries: the valid entries of the OpLog, in log order.
RECURSIVE Collect(_)
Collect(log) ==
    IF log = <<>> THEN <<>>
    ELSE (IF IsOpEntryValid(Head(log)) THEN AddOpReplay(Head(log))
          ELSE <<>>) \o Collect(Tail(log))

\* The conversion of an unsigned long difference to an IntBits-bit int.
ToInt(d) ==
    LET m == d % (2 ^ IntBits)
    IN IF m >= 2 ^ (IntBits - 1) THEN m - 2 ^ IntBits ELSE m

\* comp_replay_entries
CompReplayEntries(a, b) ==
    LET d == ToInt(a.ts - b.ts)
    IN IF d = 0 THEN a.type - b.type ELSE d

\* sort_replay_array: qsort of glibc, the merge sort of msort.c, which
\* takes from the left run while the comparison is not positive.
RECURSIVE Merge(_, _)
Merge(l, r) ==
    IF l = <<>> THEN r
    ELSE IF r = <<>> THEN l
    ELSE IF CompReplayEntries(Head(l), Head(r)) <= 0
         THEN <<Head(l)>> \o Merge(Tail(l), r)
         ELSE <<Head(r)>> \o Merge(l, Tail(r))

RECURSIVE SortReplayArray(_)
SortReplayArray(s) ==
    IF Len(s) <= 1 THEN s
    ELSE LET n1 == Len(s) \div 2
         IN Merge(SortReplayArray(SubSeq(s, 1, n1)),
                  SortReplayArray(SubSeq(s, n1 + 1, Len(s))))

\* oplog_recovery up to replay_ops: alloc_replay_array,
\* collect_replay_entries, sort_replay_array and init_threads.
CollectAndSort ==
    /\ pc = "collect"
    /\ replay' = SortReplayArray(Collect(oplog))
    /\ pc' = IF replay' = <<>> THEN "deinit" ELSE "replay"
    /\ UNCHANGED <<clk, local, wrt, oplog, i, ctx, ptrs, num, nalloc, freed>>

-----------------------------------------------------------------------------
(* replay_ops, one loop iteration per step *)

\* ptrset_pop: ptrs[num_ptrs--] when the pool is not empty.
Popped == IF num > 0 THEN ptrs[num] ELSE NULL
PopNum == IF num > 0 THEN num - 1 ELSE 0

\* acquire_thread, execute_op and release_thread for replay[i].  A
\* context with no thread pops one, or allocates one if the pop gives
\* NULL; a COMMIT entry returns the thread with ptrset_push.  execute_op
\* writes in_recovery_mode through the thread pointer, which faults on a
\* pointer no allocation returned.
ReplayStep ==
    LET re == replay[i]
        o == re.op
        have == ctx[o] # NULL
        th == IF have THEN ctx[o]
              ELSE IF Popped # NULL THEN Popped ELSE nalloc + 1
        n1 == IF have THEN num ELSE PopNum
    IN /\ pc = "replay"
       /\ nalloc' = IF ~have /\ Popped = NULL THEN nalloc + 1 ELSE nalloc
       /\ IF th = Garbage
          THEN /\ pc' = "fault"
               /\ ctx' = [ctx EXCEPT ![o] = th]
               /\ num' = n1
               /\ UNCHANGED <<i, ptrs>>
          ELSE /\ i' = i + 1
               /\ pc' = IF i = Len(replay) THEN "deinit" ELSE "replay"
               /\ IF re.type = COMMIT
                  THEN /\ ctx' = [ctx EXCEPT ![o] = NULL]
                       /\ ptrs' = [ptrs EXCEPT ![n1] = th]
                       /\ num' = n1 + 1
                  ELSE /\ ctx' = [ctx EXCEPT ![o] = th]
                       /\ num' = n1
                       /\ UNCHANGED ptrs
       /\ UNCHANGED <<clk, local, wrt, oplog, replay, freed>>

\* deinit_threads, one iteration of its pop loop per step: a NULL pop ends
\* it (ptrset_deinit); any other thread is finished and freed, which
\* faults on a pointer no allocation returned or one already freed.
DeinitThreads ==
    /\ pc = "deinit"
    /\ num' = PopNum
    /\ \/ /\ Popped = NULL
          /\ pc' = "done"
          /\ UNCHANGED freed
       \/ /\ Popped # NULL
          /\ Popped = Garbage \/ Popped \in freed
          /\ pc' = "fault"
          /\ UNCHANGED freed
       \/ /\ Popped \in ThreadIds \ freed
          /\ freed' = freed \cup {Popped}
          /\ UNCHANGED pc
    /\ UNCHANGED <<clk, local, wrt, oplog, replay, i, ctx, ptrs, nalloc>>

\* Recovery has returned, or the process has crashed again.
Terminated ==
    /\ pc \in {"done", "fault"}
    /\ UNCHANGED vars

Next ==
    \/ \E o \in Ops : OpBegin(o) \/ OpCommit(o)
    \/ Crash \/ CollectAndSort \/ ReplayStep \/ DeinitThreads
    \/ Terminated

Spec == Init /\ [][Next]_vars

-----------------------------------------------------------------------------
(* Properties *)

TypeOK ==
    /\ pc \in {"run", "collect", "replay", "deinit", "done", "fault"}
    /\ clk \in 0 .. MaxClock
    /\ ctx \in [Ops -> ThreadIds \cup {NULL, Garbage}]
    /\ ptrs \in [Slots -> ThreadIds \cup {NULL, Garbage}]
    /\ num \in Slots
    /\ nalloc \in 0 .. Cardinality(Ops)
    /\ freed \subseteq ThreadIds

(***************************************************************************)
(* The recovery thread pool hands out only free threads: every operation   *)
(* in the middle of its replay (between its EXEC and its COMMIT entry)     *)
(* runs on a thread ts_thread_alloc returned, and no two such operations   *)
(* share one, as execute_op needs when it runs op_exec and ts_end on       *)
(* context->thread (release_thread: "Return the thread to the pool for     *)
(* reuse").                                                                *)
(***************************************************************************)
PoolHandsOutFreeThreads ==
    \A o \in Ops :
        ctx[o] # NULL =>
            /\ ctx[o] \in ThreadIds
            /\ \A o2 \in Ops \ {o} : ctx[o2] # ctx[o]

(***************************************************************************)
(* Replay runs in time stamp order ("Sort in time stamp order"): the       *)
(* sorted replay array orders its entries by clock, an EXEC before a       *)
(* COMMIT of the same clock, so each operation is executed on the state   *)
(* of exactly the operations committed before its snapshot.                *)
(***************************************************************************)
ReplayInClockOrder ==
    \A k \in 1 .. Len(replay) - 1 :
        \/ replay[k].ts < replay[k + 1].ts
        \/ replay[k].ts = replay[k + 1].ts /\ replay[k].type <= replay[k + 1].type
=============================================================================
