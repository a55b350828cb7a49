-------------------------------- MODULE TSQP --------------------------------
(***************************************************************************)
(* Quiescent-period (QP) detection and TVLog reclamation of lib/TSOpLog:   *)
(* the QP thread of qp.c (qp_detect, qp_init, qp_wait, advance_qp_clock,   *)
(* qp_trigger_reclaim, qp_help_reclaim_log, qp_reclaim_barrier and the     *)
(* checkpoint clock update of __qp_thread_main), the reclamation requests  *)
(* (_request_reclaim), and tvlog_reclaim_x of tvlog.c with its two scans:  *)
(* step 1 frees write sets already written back, step 2 checkpoints the    *)
(* copy of each object that straddles qp0 into its master (ckptlog_enq)    *)
(* and detaches it from the version chain when it is the latest.           *)
(*                                                                         *)
(* Worker threads run the transaction boundaries of timestone.c that       *)
(* interact with the QP thread: ts_begin (try_reclaim_logs, the blocking   *)
(* high-watermark reclamation, the run_cnt increment and the local_clk     *)
(* read), a ts_deref walk of the version chain, _ts_try_lock of the object *)
(* read, the commit (ws_move_lock_to_copy linking the copy, then new clock,*)
(* publication and ws_unlock_commit) and ts_end / ts_abort.  The internal  *)
(* steps of the commit that TSTxn checks (pending clocks, the ABA check)   *)
(* are folded into two steps here, and a transaction reads and writes one  *)
(* object.  The clock is the ordo clock of config.h with a zero boundary:  *)
(* every read returns a value larger than all earlier reads.               *)
(*                                                                         *)
(* Write set and copy are one TVLog entry <<thread, index>>; an entry      *)
(* below its thread's head_cnt has been reclaimed and its memory may be    *)
(* reused.  Object contents are left out: a version is named by its write  *)
(* clock, and the master np_cur_act holds the clock of the version last    *)
(* checkpointed into it (MIN_VERSION: the original object).                *)
(***************************************************************************)
EXTENDS Integers, FiniteSets

CONSTANTS
    Threads,    \* worker threads registered with ts_thread_init
    Writers,    \* threads whose transactions call ts_try_lock
    Objects,    \* actual objects
    NULL,       \* the NULL pointer
    MaxTxns,    \* bound: transactions a worker thread begins
    MaxRounds,  \* bound: QP detections of the QP thread
    TvlogSize   \* TVLog capacity, in write sets (TS_TVLOG_SIZE)

ASSUME TvlogSize \in Nat \ {0}
ASSUME Writers \subseteq Threads

MIN_VERSION == 0
\* MAX_VERSION stands for ULONG_MAX - 1: above every clock value read.
MAX_VERSION == 2 * Cardinality(Threads) * MaxTxns + MaxRounds + 1

\* Reclamation requests (timestone_i.h); 0 is no request.
RECLAIM_TVLOG_BEST_EFFORT == 16
RECLAIM_TVLOG_CKPT == 17

\* Watermarks of config.h, in write sets.
TS_TVLOG_HIGH_MARK == TvlogSize - (TvlogSize \div 4)
TS_TVLOG_LOW_MARK == TvlogSize \div 2

Idx == 0 .. MaxTxns - 1
CopyIds == Threads \X Idx

VARIABLES
    g_clk,          \* the last value read from the ordo clock
    p_copy,         \* object -> head of its version chain, or NULL
    p_lock,         \* object -> copy that locks it, or NULL
    np_cur_act,     \* object -> version held by the current master
    chs,            \* copy -> its header fields
    head_cnt,       \* thread -> tvlog->head_cnt
    prev_head_cnt,  \* thread -> tvlog->prev_head_cnt
    tail_cnt,       \* thread -> tvlog->tail_cnt
    run_cnt,        \* thread -> self->run_cnt (odd inside a transaction)
    local_clk,      \* thread -> self->local_clk
    clks,           \* thread -> self->clks: __qp0 and __last_ckpt
    reclaim,        \* thread -> self->reclaim.tvlog
    pc,             \* thread -> where the thread is
    n_txns,         \* thread -> transactions finished
    tgt,            \* thread -> object read, then locked
    cursor,         \* thread -> copy visited by the ts_deref walk
    walk_ckpt,      \* thread -> last_ckpt_clk read at the start of the walk
    qp_pc,          \* where the QP thread is
    qp_clks,        \* g_qp_thread.clks: __qp0 and __last_ckpt
    qp_reclaim,     \* g_qp_thread.reclaim.tvlog
    qp0_clk,        \* the qp0_clk of qp_detect
    qp_info,        \* thread -> qp_info: run_cnt sample and need_wait
    todo,           \* threads the current list walk of the QP thread has left
    req,            \* the reclaim request qp_trigger_reclaim hands out
    rounds,         \* QP detections done
    reads,          \* history: versions returned by ts_deref
    commits         \* history: versions committed

vars == <<g_clk, p_copy, p_lock, np_cur_act, chs, head_cnt, prev_head_cnt,
          tail_cnt, run_cnt, local_clk, clks, reclaim, pc, n_txns, tgt,
          cursor, walk_ckpt, qp_pc, qp_clks, qp_reclaim, qp0_clk, qp_info,
          todo, req, rounds, reads, commits>>

\* An entry below head_cnt has been reclaimed (tvlog_reclaim_x step 1).
Reclaimed(c) == c[2] < head_cnt[c[1]]

\* tvlog_used
TvlogUsed(t) == tail_cnt[t] - head_cnt[t]

\* _request_reclaim: only a stronger request replaces the pending one.
RequestReclaim(old, new) == IF new > old THEN new ELSE old

\* is_at_borderline: the copy is the version of its object current at
\* ckpt_s_clk and was written after the last checkpoint.
IsAtBorderline(c, ckpt_s, last_ckpt) ==
    /\ chs[c].wrtPrev >= ckpt_s
    /\ chs[c].wrt < ckpt_s
    /\ chs[c].wrt >= last_ckpt

\* The copy step 2 writes back: not detached yet and at the borderline.
CkptTarget(c, ckpt_s, last_ckpt) ==
    ~chs[c].detached /\ IsAtBorderline(c, ckpt_s, last_ckpt)

(***************************************************************************)
(* tvlog_reclaim_x, run under reclaim_lock by the owner of the TVLog or by *)
(* the QP thread helping it.  Step 1 walks from head_cnt and stops at      *)
(* prev_head_cnt (where the last write-back ended), at an uncommitted      *)
(* write set, or, best effort, at a copy that a newer version replaced at  *)
(* or after qp0.  Step 2 walks on over write sets committed before qp0 and *)
(* checkpoints each copy at the borderline; a best-effort pass stops at    *)
(* the first one instead.  The reclaim-checkpoint boundary becomes the new *)
(* head and the end of step 2 the new prev_head.                           *)
(***************************************************************************)
\* Mutant: step 1 runs past prev_head_cnt into copies not written back.
RECURSIVE Step1End_noPrevHead(_, _, _)
Step1End_noPrevHead(u, i, m) ==
    IF \/ i >= tail_cnt[u]
       \/ chs[<<u, i>>].wrt = MAX_VERSION
       \/ m = RECLAIM_TVLOG_BEST_EFFORT /\ chs[<<u, i>>].wrtPrev >= clks[u].qp0
    THEN i
    ELSE Step1End_noPrevHead(u, i + 1, m)

RECURSIVE Step1End(_, _, _)
Step1End(u, i, m) ==
    IF \/ i >= tail_cnt[u]
       \/ i = prev_head_cnt[u]
       \/ chs[<<u, i>>].wrt = MAX_VERSION
       \/ m = RECLAIM_TVLOG_BEST_EFFORT /\ chs[<<u, i>>].wrtPrev >= clks[u].qp0
    THEN i
    ELSE Step1End(u, i + 1, m)

RECURSIVE Step2End(_, _, _)
Step2End(u, i, m) ==
    IF \/ i >= tail_cnt[u]
       \/ chs[<<u, i>>].wrt >= clks[u].qp0
       \/ /\ m = RECLAIM_TVLOG_BEST_EFFORT
          /\ CkptTarget(<<u, i>>, clks[u].qp0, clks[u].last_ckpt)
    THEN i
    ELSE Step2End(u, i + 1, m)

\* The state tvlog_reclaim_x(u, m) leaves behind, as a record.
ReclaimX(u, m) ==
    LET newHead == Step1End(u, head_cnt[u], m)
        endCkpt == Step2End(u, newHead, m)
        ckpt == IF m = RECLAIM_TVLOG_CKPT
                THEN {c \in {u} \X (newHead .. endCkpt - 1) :
                         CkptTarget(c, clks[u].qp0, clks[u].last_ckpt)}
                ELSE {}
        \* ckptlog_enq: the last copy of o written back becomes its master
        last(o) == CHOOSE c \in ckpt : chs[c].obj = o /\
                       \A d \in ckpt : chs[d].obj = o => d[2] <= c[2]
        stuck == /\ newHead = head_cnt[u]
                 /\ tail_cnt[u] - newHead > TS_TVLOG_LOW_MARK
                 /\ m = RECLAIM_TVLOG_BEST_EFFORT
    IN [chs |-> [c \in CopyIds |->
                    IF c \in ckpt THEN [chs[c] EXCEPT !.detached = TRUE]
                    ELSE chs[c]],
        \* try_detach_obj: CAS p_copy from the copy to NULL
        p_copy |-> [o \in Objects |-> IF p_copy[o] \in ckpt THEN NULL
                                       ELSE p_copy[o]],
        np_cur_act |-> [o \in Objects |->
                           IF \E c \in ckpt : chs[c].obj = o
                           THEN chs[last(o)].wrt ELSE np_cur_act[o]],
        head_cnt |-> [head_cnt EXCEPT ![u] = newHead],
        prev_head_cnt |-> [prev_head_cnt EXCEPT ![u] = endCkpt],
        reclaim |-> [reclaim EXCEPT ![u] = 0],
        qp_reclaim |-> IF stuck
                       THEN RequestReclaim(qp_reclaim, RECLAIM_TVLOG_CKPT)
                       ELSE qp_reclaim]

\* try_reclaim_logs: reclaim the TVLog of t if the QP thread asked for it.
TryReclaimLogs(t) ==
    IF reclaim[t] # 0 THEN ReclaimX(t, reclaim[t])
    ELSE [chs |-> chs, p_copy |-> p_copy, np_cur_act |-> np_cur_act,
          head_cnt |-> head_cnt, prev_head_cnt |-> prev_head_cnt,
          reclaim |-> reclaim, qp_reclaim |-> qp_reclaim]

\* The state r becomes current, with the QP request qreq.
Apply(r, qreq) ==
    /\ chs' = r.chs
    /\ p_copy' = r.p_copy
    /\ np_cur_act' = r.np_cur_act
    /\ head_cnt' = r.head_cnt
    /\ prev_head_cnt' = r.prev_head_cnt
    /\ reclaim' = r.reclaim
    /\ qp_reclaim' = qreq

NoCopy == [obj |-> NULL, wrt |-> MAX_VERSION, next |-> NULL,
           wrtNext |-> MIN_VERSION, wrtPrev |-> MIN_VERSION, detached |-> FALSE]

Init ==
    /\ g_clk = 0
    /\ p_copy = [o \in Objects |-> NULL]
    /\ p_lock = [o \in Objects |-> NULL]
    /\ np_cur_act = [o \in Objects |-> MIN_VERSION]
    /\ chs = [c \in CopyIds |-> NoCopy]
    /\ head_cnt = [t \in Threads |-> 0]
    /\ prev_head_cnt = [t \in Threads |-> 0]
    /\ tail_cnt = [t \in Threads |-> 0]
    /\ run_cnt = [t \in Threads |-> 0]
    /\ local_clk = [t \in Threads |-> 0]
    /\ clks = [t \in Threads |-> [qp0 |-> 0, last_ckpt |-> MIN_VERSION]]
    /\ reclaim = [t \in Threads |-> 0]
    /\ pc = [t \in Threads |-> "idle"]
    /\ n_txns = [t \in Threads |-> 0]
    /\ tgt = [t \in Threads |-> NULL]
    /\ cursor = [t \in Threads |-> NULL]
    /\ walk_ckpt = [t \in Threads |-> MIN_VERSION]
    /\ qp_pc = "detect"
    /\ qp_clks = [qp0 |-> 0, last_ckpt |-> MIN_VERSION]
    /\ qp_reclaim = 0
    /\ qp0_clk = 0
    /\ qp_info = [t \in Threads |-> [run_cnt |-> 0, need_wait |-> FALSE]]
    /\ todo = {}
    /\ req = 0
    /\ rounds = 0
    /\ reads = {}
    /\ commits = {}

qpVars == <<qp_pc, qp_clks, qp0_clk, qp_info, todo, req, rounds>>
txnVars == <<local_clk, tgt, cursor, walk_ckpt>>

(***************************************************************************)
(* ts_begin: try_reclaim_logs, then tvlog_reclaim_below_high_watermark,    *)
(* which blocks while the TVLog is at the high watermark, then the         *)
(* run_cnt increment.  Blocked, the thread requests a checkpointing        *)
(* reclamation and reclaims whenever the QP thread hands it a request.     *)
(***************************************************************************)
\* Mutant: the high watermark test lets a thread in at the mark.
Enter_atMark(t, r) ==
    \/ /\ tail_cnt[t] - r.head_cnt[t] > TS_TVLOG_HIGH_MARK
       /\ Apply(r, RequestReclaim(r.qp_reclaim, RECLAIM_TVLOG_CKPT))
       /\ pc' = [pc EXCEPT ![t] = "block"]
       /\ UNCHANGED run_cnt
    \/ /\ tail_cnt[t] - r.head_cnt[t] <= TS_TVLOG_HIGH_MARK
       /\ Apply(r, r.qp_reclaim)
       /\ run_cnt' = [run_cnt EXCEPT ![t] = @ + 1]
       /\ pc' = [pc EXCEPT ![t] = "clk"]

Enter(t, r) ==
    \/ /\ tail_cnt[t] - r.head_cnt[t] >= TS_TVLOG_HIGH_MARK
       /\ Apply(r, RequestReclaim(r.qp_reclaim, RECLAIM_TVLOG_CKPT))
       /\ pc' = [pc EXCEPT ![t] = "block"]
       /\ UNCHANGED run_cnt
    \/ /\ tail_cnt[t] - r.head_cnt[t] < TS_TVLOG_HIGH_MARK
       /\ Apply(r, r.qp_reclaim)
       /\ run_cnt' = [run_cnt EXCEPT ![t] = @ + 1]
       /\ pc' = [pc EXCEPT ![t] = "clk"]

Begin(t) ==
    /\ pc[t] = "idle"
    /\ n_txns[t] < MaxTxns
    /\ Enter(t, TryReclaimLogs(t))
    /\ UNCHANGED <<g_clk, p_lock, tail_cnt, clks, n_txns, txnVars, qpVars,
                   reads, commits>>

\* reclaim_tvlog_ckptlog in the blocking loop: reclaim when requested.
BlockedReclaim(t) ==
    /\ pc[t] = "block"
    /\ reclaim[t] # 0
    /\ Enter(t, ReclaimX(t, reclaim[t]))
    /\ UNCHANGED <<g_clk, p_lock, tail_cnt, clks, n_txns, txnVars, qpVars,
                   reads, commits>>

\* The blocking loop renews its request every 1000 spins.
BlockedSpin(t) ==
    /\ pc[t] = "block"
    /\ reclaim[t] = 0
    /\ qp_reclaim < RECLAIM_TVLOG_CKPT
    /\ qp_reclaim' = RECLAIM_TVLOG_CKPT
    /\ UNCHANGED <<g_clk, p_copy, p_lock, np_cur_act, chs, head_cnt,
                   prev_head_cnt, tail_cnt, run_cnt, clks, reclaim, pc,
                   n_txns, txnVars, qpVars, reads, commits>>

\* ts_begin: local_clk = get_clock_relaxed()
BeginClk(t) ==
    /\ pc[t] = "clk"
    /\ g_clk' = g_clk + 1
    /\ local_clk' = [local_clk EXCEPT ![t] = g_clk + 1]
    /\ pc' = [pc EXCEPT ![t] = "txn"]
    /\ UNCHANGED <<p_copy, p_lock, np_cur_act, chs, head_cnt, prev_head_cnt,
                   tail_cnt, run_cnt, clks, reclaim, qp_reclaim, n_txns, tgt,
                   cursor, walk_ckpt, qpVars, reads, commits>>

ReadRec(t, o, v) == [thread |-> t, obj |-> o, local |-> local_clk[t], ver |-> v]

(***************************************************************************)
(* ts_deref: with no version chain the master is read; otherwise the walk  *)
(* starts at p_copy with last_ckpt_clk taken from self->clks.  Each step   *)
(* returns a copy written before local_clk, falls back to the master when  *)
(* the next copy is older than last_ckpt_clk or the chain ends, or moves   *)
(* to the next copy.                                                       *)
(***************************************************************************)
Deref(t, o) ==
    /\ pc[t] = "txn"
    /\ tgt' = [tgt EXCEPT ![t] = o]
    /\ \/ /\ p_copy[o] = NULL
          /\ reads' = reads \cup {ReadRec(t, o, np_cur_act[o])}
          /\ pc' = [pc EXCEPT ![t] = "read"]
          /\ UNCHANGED <<cursor, walk_ckpt>>
       \/ /\ p_copy[o] # NULL
          /\ cursor' = [cursor EXCEPT ![t] = p_copy[o]]
          /\ walk_ckpt' = [walk_ckpt EXCEPT ![t] = clks[t].last_ckpt]
          /\ pc' = [pc EXCEPT ![t] = "deref"]
          /\ UNCHANGED reads
    /\ UNCHANGED <<g_clk, p_copy, p_lock, np_cur_act, chs, head_cnt,
                   prev_head_cnt, tail_cnt, run_cnt, local_clk, clks, reclaim,
                   qp_reclaim, n_txns, qpVars, commits>>

DerefStep(t) ==
    LET c == cursor[t]
        o == tgt[t]
    IN /\ pc[t] = "deref"
       /\ \/ /\ chs[c].wrt < local_clk[t]
             /\ reads' = reads \cup {ReadRec(t, o, chs[c].wrt)}
             /\ pc' = [pc EXCEPT ![t] = "read"]
             /\ UNCHANGED cursor
          \/ /\ ~(chs[c].wrt < local_clk[t])
             /\ chs[c].wrtNext < walk_ckpt[t] \/ chs[c].next = NULL
             /\ reads' = reads \cup {ReadRec(t, o, np_cur_act[o])}
             /\ pc' = [pc EXCEPT ![t] = "read"]
             /\ UNCHANGED cursor
          \/ /\ ~(chs[c].wrt < local_clk[t])
             /\ ~(chs[c].wrtNext < walk_ckpt[t])
             /\ chs[c].next # NULL
             /\ cursor' = [cursor EXCEPT ![t] = chs[c].next]
             /\ UNCHANGED <<pc, reads>>
       /\ UNCHANGED <<g_clk, p_copy, p_lock, np_cur_act, chs, head_cnt,
                      prev_head_cnt, tail_cnt, run_cnt, local_clk, clks,
                      reclaim, qp_reclaim, n_txns, tgt, walk_ckpt, qpVars,
                      commits>>

\* The end of ts_end and of ts_abort: run_cnt is incremented, then
\* try_reclaim_logs runs at the transaction boundary.  The object and the
\* walk of the transaction are forgotten.
Finish(t) ==
    /\ run_cnt' = [run_cnt EXCEPT ![t] = @ + 1]
    /\ tgt' = [tgt EXCEPT ![t] = NULL]
    /\ cursor' = [cursor EXCEPT ![t] = NULL]
    /\ walk_ckpt' = [walk_ckpt EXCEPT ![t] = MIN_VERSION]
    /\ n_txns' = [n_txns EXCEPT ![t] = @ + 1]
    /\ LET r == TryReclaimLogs(t) IN Apply(r, r.qp_reclaim)
    /\ pc' = [pc EXCEPT ![t] = "idle"]

(***************************************************************************)
(* _ts_try_lock of the object read: fail when it is locked or when its     *)
(* latest copy is not older than local_clk (ts_abort follows); otherwise   *)
(* append a copy to the TVLog and lock the object with it.                 *)
(***************************************************************************)
TryLock(t) ==
    LET o == tgt[t]
        c == <<t, tail_cnt[t]>>
        stale == p_copy[o] # NULL /\ chs[p_copy[o]].wrt >= local_clk[t]
    IN /\ pc[t] = "read"
       /\ t \in Writers
       /\ \/ /\ p_lock[o] # NULL \/ stale
             /\ Finish(t)
             /\ UNCHANGED <<p_lock, tail_cnt>>
          \/ /\ p_lock[o] = NULL /\ ~stale
             /\ chs' = [chs EXCEPT ![c] = [NoCopy EXCEPT !.obj = o]]
             /\ tail_cnt' = [tail_cnt EXCEPT ![t] = @ + 1]
             /\ p_lock' = [p_lock EXCEPT ![o] = c]
             /\ pc' = [pc EXCEPT ![t] = "locked"]
             /\ UNCHANGED <<p_copy, np_cur_act, head_cnt, prev_head_cnt,
                            run_cnt, reclaim, qp_reclaim, n_txns, tgt, cursor,
                            walk_ckpt>>
       /\ UNCHANGED <<g_clk, local_clk, clks, qpVars, reads, commits>>

\* ws_move_lock_to_copy: the copy becomes the head of the version chain;
\* the CAS on p_copy retries against a concurrent try_detach_obj.
Link(t) ==
    LET o == tgt[t]
        c == <<t, tail_cnt[t] - 1>>
        old == p_copy[o]
    IN /\ pc[t] = "locked"
       /\ chs' = [chs EXCEPT ![c] =
                    [@ EXCEPT !.next = old,
                              !.wrtPrev = MAX_VERSION,
                              !.wrtNext = IF old = NULL THEN MIN_VERSION
                                          ELSE chs[old].wrt]]
       /\ p_copy' = [p_copy EXCEPT ![o] = c]
       /\ pc' = [pc EXCEPT ![t] = "linked"]
       /\ UNCHANGED <<g_clk, p_lock, np_cur_act, head_cnt, prev_head_cnt,
                      tail_cnt, run_cnt, local_clk, clks, reclaim, qp_reclaim,
                      n_txns, tgt, cursor, walk_ckpt, qpVars, reads, commits>>

\* tvlog_try_request_reclaim_if_needed
TvlogRequest(t, old) ==
    IF TvlogUsed(t) > TS_TVLOG_HIGH_MARK
    THEN RequestReclaim(old, RECLAIM_TVLOG_CKPT)
    ELSE IF TvlogUsed(t) > TS_TVLOG_LOW_MARK
         THEN RequestReclaim(old, RECLAIM_TVLOG_BEST_EFFORT)
         ELSE old

(***************************************************************************)
(* The rest of tvlog_commit: the write clock from new_clock, published in  *)
(* the copy; ws_unlock_commit unlocks the object and sets wrt_clk_prev of  *)
(* the copy it replaced.  Then either the OpLog is past its high watermark *)
(* and requests a checkpoint (oplog_try_request_ckpt_if_needed; the OpLog  *)
(* fill level is a free choice here) or the TVLog watermarks decide.       *)
(* PublishCommit is the commit without the request, which TSDurable        *)
(* derives from its OpLog.                                                 *)
(***************************************************************************)
PublishCommit(t) ==
    LET o == tgt[t]
        c == <<t, tail_cnt[t] - 1>>
        w == g_clk + 1
        old == chs[c].next
        chs1 == [chs EXCEPT ![c].wrt = w]
    IN /\ pc[t] = "linked"
       /\ g_clk' = w
       /\ chs' = IF old = NULL THEN chs1 ELSE [chs1 EXCEPT ![old].wrtPrev = w]
       /\ p_lock' = [p_lock EXCEPT ![o] = NULL]
       /\ commits' = commits \cup {[obj |-> o, wrt |-> w]}
       /\ pc' = [pc EXCEPT ![t] = "committed"]
       /\ UNCHANGED <<p_copy, np_cur_act, head_cnt, prev_head_cnt, tail_cnt,
                      run_cnt, local_clk, clks, reclaim, n_txns, tgt, cursor,
                      walk_ckpt, qpVars, reads>>

Publish(t) ==
    /\ PublishCommit(t)
    /\ \E oplogFull \in BOOLEAN :
          qp_reclaim' = IF oplogFull
                        THEN RequestReclaim(qp_reclaim, RECLAIM_TVLOG_CKPT)
                        ELSE TvlogRequest(t, qp_reclaim)

\* ts_end of a read-only or a committed transaction.
End(t) ==
    /\ pc[t] \in {"read", "committed"}
    /\ Finish(t)
    /\ UNCHANGED <<g_clk, p_lock, tail_cnt, local_clk, clks, qpVars, reads,
                   commits>>

(***************************************************************************)
(* The QP thread.  Its walks of g_live_threads visit the threads one at a  *)
(* time while the workers run; ListStep removes t from the walk and moves  *)
(* to phase `after` when the walk is over.                                 *)
(***************************************************************************)
ListStep(t, after) ==
    /\ t \in todo
    /\ todo' = IF todo = {t} THEN Threads ELSE todo \ {t}
    /\ qp_pc' = IF todo = {t} THEN after ELSE qp_pc

workerVars == <<g_clk, p_copy, p_lock, np_cur_act, chs, head_cnt,
                prev_head_cnt, tail_cnt, run_cnt, local_clk, reclaim, pc,
                n_txns, tgt, cursor, walk_ckpt, reads, commits>>

\* qp_detect: qp0_clk = get_clock()
QpDetect ==
    /\ qp_pc = "detect"
    /\ rounds < MaxRounds
    /\ g_clk' = g_clk + 1
    /\ qp0_clk' = g_clk + 1
    /\ rounds' = rounds + 1
    /\ todo' = Threads
    /\ qp_pc' = "init"
    /\ UNCHANGED <<p_copy, p_lock, np_cur_act, chs, head_cnt, prev_head_cnt,
                   tail_cnt, run_cnt, local_clk, reclaim, pc, n_txns, tgt,
                   cursor, walk_ckpt, reads, commits, clks, qp_clks,
                   qp_reclaim, qp_info, req>>

\* Mutant: the parity test of qp_init is inverted.
QpInit_parity(t) ==
    /\ qp_pc = "init"
    /\ t \in todo
    /\ todo' = todo \ {t}
    /\ qp_pc' = IF todo = {t} THEN "wait" ELSE qp_pc
    /\ qp_info' = [qp_info EXCEPT ![t] = [run_cnt |-> run_cnt[t],
                                         need_wait |-> run_cnt[t] % 2 = 0]]
    /\ UNCHANGED <<workerVars, clks, qp_clks, qp_reclaim, qp0_clk, req,
                   rounds>>

\* qp_init: sample run_cnt; a thread inside a transaction must be waited for.
QpInit(t) ==
    /\ qp_pc = "init"
    /\ t \in todo
    /\ todo' = todo \ {t}
    /\ qp_pc' = IF todo = {t} THEN "wait" ELSE qp_pc
    /\ qp_info' = [qp_info EXCEPT ![t] = [run_cnt |-> run_cnt[t],
                                         need_wait |-> run_cnt[t] % 2 = 1]]
    /\ UNCHANGED <<workerVars, clks, qp_clks, qp_reclaim, qp0_clk, req,
                   rounds>>

\* qp_wait: a thread has passed the quiescent period once it left the
\* sampled transaction or began one at or after qp0_clk.  Each condition
\* stays true once it holds, so the walk, spinning on each thread in turn,
\* ends when all of them hold at once.
Quiescent(t) ==
    \/ ~qp_info[t].need_wait
    \/ qp_info[t].run_cnt # run_cnt[t]
    \/ local_clk[t] >= qp0_clk

QpWait ==
    /\ qp_pc = "wait"
    /\ \A t \in Threads : Quiescent(t)
    /\ qp_info' = [t \in Threads |-> [qp_info[t] EXCEPT !.need_wait = FALSE]]
    /\ qp_pc' = "advance"
    /\ UNCHANGED <<workerVars, clks, qp_clks, qp_reclaim, qp0_clk, todo, req,
                   rounds>>

\* advance_qp_clock, then __qp_thread_main goes for another detection
\* unless a reclamation was requested, which it takes with smp_swap.
QpAdvance ==
    /\ qp_pc = "advance"
    /\ qp_clks' = [qp_clks EXCEPT !.qp0 = qp0_clk]
    /\ \/ /\ qp_reclaim = 0
          /\ qp_pc' = "detect"
          /\ UNCHANGED <<qp_reclaim, req, todo>>
       \/ /\ qp_reclaim # 0
          /\ req' = qp_reclaim
          /\ qp_reclaim' = 0
          /\ todo' = Threads
          /\ qp_pc' = "trigger"
    /\ UNCHANGED <<workerVars, clks, qp0_clk, qp_info, rounds>>

\* Mutant: a checkpoint request hands threads its own clock as the
\* last checkpoint before the write-back has happened.
QpTrigger_earlyCkpt(t) ==
    /\ qp_pc = "trigger"
    /\ ListStep(t, "help")
    /\ clks' = [clks EXCEPT ![t] =
                  IF req = RECLAIM_TVLOG_CKPT
                  THEN [qp_clks EXCEPT !.last_ckpt = qp_clks.qp0]
                  ELSE qp_clks]
    /\ reclaim' = [reclaim EXCEPT ![t] = req]
    /\ UNCHANGED <<g_clk, p_copy, p_lock, np_cur_act, chs, head_cnt,
                   prev_head_cnt, tail_cnt, run_cnt, local_clk, pc, n_txns,
                   tgt, cursor, walk_ckpt, reads, commits, qp_clks,
                   qp_reclaim, qp0_clk, qp_info, req, rounds>>

\* qp_trigger_reclaim: propagate the system clocks, then the request.
QpTrigger(t) ==
    /\ qp_pc = "trigger"
    /\ ListStep(t, "help")
    /\ clks' = [clks EXCEPT ![t] = qp_clks]
    /\ reclaim' = [reclaim EXCEPT ![t] = req]
    /\ UNCHANGED <<g_clk, p_copy, p_lock, np_cur_act, chs, head_cnt,
                   prev_head_cnt, tail_cnt, run_cnt, local_clk, pc, n_txns,
                   tgt, cursor, walk_ckpt, reads, commits, qp_clks,
                   qp_reclaim, qp0_clk, qp_info, req, rounds>>

\* qp_help_reclaim_log: reclaim the TVLog of a thread that has not yet.
QpHelp(t) ==
    /\ qp_pc = "help"
    /\ ListStep(t, "barrier")
    /\ LET r == TryReclaimLogs(t) IN Apply(r, r.qp_reclaim)
    /\ UNCHANGED <<g_clk, p_lock, tail_cnt, run_cnt, local_clk, clks, pc,
                   n_txns, tgt, cursor, walk_ckpt, reads, commits, qp_clks,
                   qp0_clk, qp_info, req, rounds>>

\* Mutant: every reclamation, best effort too, advances __last_ckpt.
QpBarrier_anyReq ==
    /\ qp_pc = "barrier"
    /\ \A t \in Threads : reclaim[t] = 0
    /\ qp_clks' = [qp_clks EXCEPT !.last_ckpt = qp_clks.qp0]
    /\ qp_pc' = "detect"
    /\ UNCHANGED <<workerVars, clks, qp_reclaim, qp0_clk, qp_info, todo, req,
                   rounds>>

\* qp_reclaim_barrier; after a checkpointing reclamation qp0 becomes the
\* last checkpoint clock.
QpBarrier ==
    /\ qp_pc = "barrier"
    /\ \A t \in Threads : reclaim[t] = 0
    /\ qp_clks' = IF req = RECLAIM_TVLOG_CKPT
                  THEN [qp_clks EXCEPT !.last_ckpt = qp_clks.qp0]
                  ELSE qp_clks
    /\ qp_pc' = "detect"
    /\ UNCHANGED <<workerVars, clks, qp_reclaim, qp0_clk, qp_info, todo, req,
                   rounds>>

\* Every bounded activity is over.
Terminated ==
    /\ \A t \in Threads :
          \/ pc[t] = "block"
          \/ pc[t] = "idle" /\ n_txns[t] = MaxTxns
    /\ qp_pc = "detect"
    /\ rounds = MaxRounds
    /\ UNCHANGED vars

Next ==
    \/ \E t \in Threads :
          \/ Begin(t) \/ BlockedReclaim(t) \/ BlockedSpin(t) \/ BeginClk(t)
          \/ \E o \in Objects : Deref(t, o)
          \/ DerefStep(t) \/ TryLock(t) \/ Link(t) \/ Publish(t) \/ End(t)
    \/ QpDetect \/ QpWait \/ QpAdvance \/ QpBarrier
    \/ \E t \in Threads : QpInit(t) \/ QpTrigger(t) \/ QpHelp(t)
    \/ Terminated

Spec == Init /\ [][Next]_vars

-----------------------------------------------------------------------------
\* A thread inside a transaction whose local_clk has been read.
InTxn(t) == pc[t] \in {"txn", "deref", "read", "locked", "linked", "committed"}

(***************************************************************************)
(* The grace period qp_wait establishes: once the QP thread is past the    *)
(* wait, every thread inside a transaction began it at or after qp0_clk,   *)
(* so none of them can still need a version replaced before qp0.           *)
(***************************************************************************)
QuiescentAfterWait ==
    qp_pc \in {"advance", "trigger", "help", "barrier"} =>
        \A t \in Threads : InTxn(t) => local_clk[t] >= qp0_clk

TypeOK ==
    /\ p_copy \in [Objects -> CopyIds \cup {NULL}]
    /\ p_lock \in [Objects -> CopyIds \cup {NULL}]
    /\ head_cnt \in [Threads -> 0 .. MaxTxns]
    /\ \A t \in Threads : head_cnt[t] <= prev_head_cnt[t]
                          /\ prev_head_cnt[t] <= tail_cnt[t]
                          /\ tail_cnt[t] - head_cnt[t] <= TvlogSize
    /\ reclaim \in [Threads -> {0, RECLAIM_TVLOG_BEST_EFFORT, RECLAIM_TVLOG_CKPT}]
    /\ qp_reclaim \in {0, RECLAIM_TVLOG_BEST_EFFORT, RECLAIM_TVLOG_CKPT}

\* The version ts_deref must return under snapshot isolation: the latest
\* committed before local_clk, or the original object.
Visible(o, lclk) ==
    LET ws == {c.wrt : c \in {x \in commits : x.obj = o /\ x.wrt < lclk}}
    IN IF ws = {} THEN MIN_VERSION
       ELSE CHOOSE w \in ws : \A v \in ws : v <= w

(***************************************************************************)
(* No use after reclamation: a ts_deref walk never reaches a copy that     *)
(* tvlog_reclaim_x has freed, and no committing thread holds one as the    *)
(* copy its ws_unlock_commit will update.                                  *)
(***************************************************************************)
NoUseAfterReclaim ==
    \A t \in Threads :
        /\ pc[t] = "deref" => ~Reclaimed(cursor[t])
        /\ pc[t] = "linked" =>
              LET n == chs[<<t, tail_cnt[t] - 1>>].next
              IN n = NULL \/ ~Reclaimed(n)

(***************************************************************************)
(* Checkpointing keeps snapshots: every ts_deref, whether it returned a    *)
(* copy of the chain or the master np_cur_act, returned the version the    *)
(* transaction's local_clk selects.                                        *)
(***************************************************************************)
DerefSnapshot ==
    \A r \in reads : r.ver = Visible(r.obj, r.local)

(***************************************************************************)
(* Between reclamations, every master np_cur_act holds the version of its  *)
(* object current at __last_ckpt, the clock __qp_thread_main persists with *)
(* nvlog_set_last_ckpt_clk as the point the checkpoint is complete up to.  *)
(***************************************************************************)
MasterAtLastCkpt ==
    qp_pc \in {"detect", "init", "wait", "advance"} =>
        \A o \in Objects : np_cur_act[o] = Visible(o, qp_clks.last_ckpt)

====
