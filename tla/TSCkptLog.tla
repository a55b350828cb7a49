------------------------------ MODULE TSCkptLog ------------------------------
(***************************************************************************)
(* The checkpoint logs of lib/TSOpLog and their reclamation: ckptlog_enq   *)
(* and ckptlog_enq_persist with the reclaim request they raise,            *)
(* ckptlog_reclaim and ckptlog_reclaim_x with its two phases (free the     *)
(* entries written back by the previous reclamation, then write back the  *)
(* entries still current as masters up to __qp2 unless the log is below    *)
(* the watermark), the QP thread's rounds that hand the requests out and   *)
(* persist last_ckpt_clk, and the stop request that flushes every log.     *)
(*                                                                         *)
(* Transactions and TVLogs are those of TSQP, abstracted here to what the *)
(* checkpoint log sees of them: a commit adds a version of an object with  *)
(* a write clock from the global clock, and step 2 of a checkpointing      *)
(* tvlog_reclaim_x of thread t appends to t's log every version t wrote    *)
(* that is at the borderline of __qp0 (the one current at __qp0, written   *)
(* at or after __last_ckpt), in write-clock order, making it the object's  *)
(* current master.  TSQP checks that step against the TVLog itself.        *)
(*                                                                         *)
(* A log is the sequence of its entries from the persisted head;          *)
(* prev_head counts the entries at its front that the last write-back     *)
(* pass went over.  A master is named by the write clock of its version;   *)
(* ORG stands for the original master (np_org_act) as np_cur_act.  Free    *)
(* objects, and the tombstones and ckptlog_cleanup that go with them, are *)
(* left out.                                                               *)
(***************************************************************************)
EXTENDS Naturals, Sequences, SequencesExt

CONSTANTS
    Threads,        \* the worker threads
    Objects,        \* the objects
    ORG,            \* np_cur_act pointing at np_org_act
    MaxCommits,     \* commits in a behaviour
    MaxRounds,      \* QP detections in a behaviour
    CkptlogSize,    \* checkpoint log capacity (TS_CKPTLOG_SIZE)
    EntrySize       \* size of an entry: its headers and the object

\* nvlog_enq would fail an assertion on a full log; every version fits.
ASSUME EntrySize \in Nat \ {0} /\ MaxCommits * EntrySize <= CkptlogSize

MIN_VERSION == 0

RECLAIM_TVLOG_CKPT == 17
RECLAIM_CKPTLOG_BEST_EFFORT == 32
RECLAIM_CKPTLOG_WRITEBACK == 33
RECLAIM_CKPTLOG_WRITEBACK_ALL == 34

\* config.h: 75% and 62.5% of the log.
TS_CKPTLOG_HIGH_MARK == CkptlogSize - (CkptlogSize \div 4)
TS_CKPTLOG_LOW_MARK == TS_CKPTLOG_HIGH_MARK - (CkptlogSize \div 8)

NoReq == [tvlog |-> 0, ckptlog |-> 0]

VARIABLES
    g_clk,          \* the global clock
    commits,        \* history: the committed versions [obj, wrt, thread]
    qp_clks,        \* g_qp_thread.clks: __qp0, __qp1, __qp2, __last_ckpt
    qp_pc,          \* "detect", or "reclaim" from trigger to barrier
    rounds,         \* QP detections done
    stop,           \* qp_thread->stop_requested
    qp_req,         \* g_qp_thread.reclaim: the pending requests
    req,            \* the requests of the current round
    reclaim,        \* thread -> self->reclaim
    ckptlog,        \* thread -> its checkpoint log from the head
    prev_head,      \* thread -> prev_head_cnt - head_cnt, in entries
    np_cur_act,     \* object -> write clock of its current master, or ORG
    np_org_act      \* object -> version held by the original master

vars == <<g_clk, commits, qp_clks, qp_pc, rounds, stop, qp_req, req,
          reclaim, ckptlog, prev_head, np_cur_act, np_org_act>>

\* _request_reclaim: only a stronger request replaces the pending one.
RequestReclaim(old, new) == IF new > old THEN new ELSE old

\* The version of o current at clock c.
Visible(o, c) ==
    LET ws == {v.wrt : v \in {v \in commits : v.obj = o /\ v.wrt < c}}
    IN IF ws = {} THEN MIN_VERSION ELSE CHOOSE w \in ws : \A v \in ws : v <= w

Init ==
    /\ g_clk = 0
    /\ commits = {}
    /\ qp_clks = [qp0 |-> 0, qp1 |-> 0, qp2 |-> 0, last_ckpt |-> MIN_VERSION]
    /\ qp_pc = "detect"
    /\ rounds = 0
    /\ stop = FALSE
    /\ qp_req = NoReq
    /\ req = NoReq
    /\ reclaim = [t \in Threads |-> NoReq]
    /\ ckptlog = [t \in Threads |-> <<>>]
    /\ prev_head = [t \in Threads |-> 0]
    /\ np_cur_act = [o \in Objects |-> ORG]
    /\ np_org_act = [o \in Objects |-> MIN_VERSION]

(***************************************************************************)
(* A transaction of t commits a version of o (tvlog_commit); the TVLog or  *)
(* OpLog of t may have reached its high watermark and request a            *)
(* checkpointing reclamation, their fill level being a free choice here.   *)
(***************************************************************************)
Commit(t, o) ==
    /\ Cardinality(commits) < MaxCommits
    /\ g_clk' = g_clk + 1
    /\ commits' = commits \cup {[obj |-> o, wrt |-> g_clk + 1, thread |-> t]}
    /\ \E full \in BOOLEAN :
          qp_req' = IF full
                    THEN [qp_req EXCEPT !.tvlog =
                            RequestReclaim(@, RECLAIM_TVLOG_CKPT)]
                    ELSE qp_req
    /\ UNCHANGED <<qp_clks, qp_pc, rounds, stop, req, reclaim, ckptlog,
                   prev_head, np_cur_act, np_org_act>>

(***************************************************************************)
(* Step 2 of a checkpointing tvlog_reclaim_x of t: the versions t wrote    *)
(* that is_at_borderline accepts for __qp0 and __last_ckpt, oldest first, *)
(* each appended by ckptlog_enq with ckpt_s_clk = __qp0.                   *)
(***************************************************************************)
Borderline(t) ==
    {v \in commits : /\ v.thread = t
                     /\ v.wrt < qp_clks.qp0
                     /\ v.wrt >= qp_clks.last_ckpt
                     /\ v.wrt = Visible(v.obj, qp_clks.qp0)}

CkptEntries(t) ==
    LET ws == SetToSortSeq({v.wrt : v \in Borderline(t)}, <)
        objOf(w) == (CHOOSE v \in Borderline(t) : v.wrt = w).obj
    IN [k \in 1 .. Len(ws) |->
          [obj |-> objOf(ws[k]), wrt |-> ws[k], ckpt_s |-> qp_clks.qp0]]

\* ckptlog_used
Used(log) == Len(log) * EntrySize

\* ckptlog_try_request_reclaim_if_needed, after ckptlog_enq_persist.
CkptlogRequest(used, old) ==
    IF used > TS_CKPTLOG_HIGH_MARK
    THEN RequestReclaim(old, RECLAIM_CKPTLOG_WRITEBACK)
    ELSE IF used > TS_CKPTLOG_LOW_MARK
         THEN RequestReclaim(old, RECLAIM_CKPTLOG_BEST_EFFORT)
         ELSE old

\* ckptlog_reclaim: the watermark of each request.
Watermark(m) ==
    CASE m = RECLAIM_CKPTLOG_BEST_EFFORT -> CkptlogSize + 1
      [] m = RECLAIM_CKPTLOG_WRITEBACK -> TS_CKPTLOG_LOW_MARK
      [] m = RECLAIM_CKPTLOG_WRITEBACK_ALL -> 0

\* Mutant: the write-back leaves np_cur_act on the checkpointed master.
RECURSIVE WriteBack_noCurUpdate(_, _, _, _, _)
WriteBack_noCurUpdate(log, k, wm, cur, org) ==
    IF k > Len(log) THEN [n |-> k - 1, cur |-> cur, org |-> org]
    ELSE LET e == log[k]
             isCur == cur[e.obj] = e.wrt
         IN IF e.ckpt_s > qp_clks.qp2 \/ (isCur /\ Used(log) - (k - 1) * EntrySize < wm)
            THEN [n |-> k - 1, cur |-> cur, org |-> org]
            ELSE IF isCur
                 THEN WriteBack_noCurUpdate(log, k + 1, wm, cur,
                                            [org EXCEPT ![e.obj] = e.wrt])
                 ELSE WriteBack_noCurUpdate(log, k + 1, wm, cur, org)

\* Mutant: the count of entries passed includes the one the loop stopped at.
RECURSIVE WriteBack_offByOne(_, _, _, _, _)
WriteBack_offByOne(log, k, wm, cur, org) ==
    IF k > Len(log) THEN [n |-> k, cur |-> cur, org |-> org]
    ELSE LET e == log[k]
             isCur == cur[e.obj] = e.wrt
         IN IF e.ckpt_s > qp_clks.qp2 \/ (isCur /\ Used(log) - (k - 1) * EntrySize < wm)
            THEN [n |-> k, cur |-> cur, org |-> org]
            ELSE IF isCur
                 THEN WriteBack_offByOne(log, k + 1, wm, [cur EXCEPT ![e.obj] = ORG],
                                         [org EXCEPT ![e.obj] = e.wrt])
                 ELSE WriteBack_offByOne(log, k + 1, wm, cur, org)

\* Mutant: every entry is written back, current master or not.
RECURSIVE WriteBack_stale(_, _, _, _, _)
WriteBack_stale(log, k, wm, cur, org) ==
    IF k > Len(log) THEN [n |-> k - 1, cur |-> cur, org |-> org]
    ELSE LET e == log[k]
         IN IF e.ckpt_s > qp_clks.qp2 \/ Used(log) - (k - 1) * EntrySize < wm
            THEN [n |-> k - 1, cur |-> cur, org |-> org]
            ELSE WriteBack_stale(log, k + 1, wm, [cur EXCEPT ![e.obj] = ORG],
                                 [org EXCEPT ![e.obj] = e.wrt])

(***************************************************************************)
(* The write-back loop of ckptlog_reclaim_x from the k-th entry of log:    *)
(* stop past __qp2; an entry that is still its object's current master is *)
(* copied to the original master, which becomes current, unless the log   *)
(* is already below the watermark, where the loop stops; every entry      *)
(* passed is dequeued.  The result counts the entries passed.              *)
(***************************************************************************)
RECURSIVE WriteBack(_, _, _, _, _)
WriteBack(log, k, wm, cur, org) ==
    IF k > Len(log) THEN [n |-> k - 1, cur |-> cur, org |-> org]
    ELSE LET e == log[k]
             isCur == cur[e.obj] = e.wrt
         IN IF e.ckpt_s > qp_clks.qp2 \/ (isCur /\ Used(log) - (k - 1) * EntrySize < wm)
            THEN [n |-> k - 1, cur |-> cur, org |-> org]
            ELSE IF isCur
                 THEN WriteBack(log, k + 1, wm, [cur EXCEPT ![e.obj] = ORG],
                                [org EXCEPT ![e.obj] = e.wrt])
                 ELSE WriteBack(log, k + 1, wm, cur, org)

(***************************************************************************)
(* try_reclaim_logs of t, or qp_help_reclaim_log for t: tvlog_reclaim with *)
(* its ckptlog_enq of the borderline versions and ckptlog_enq_persist,     *)
(* then ckptlog_reclaim.  Phase 1 of ckptlog_reclaim_x frees the entries   *)
(* before prev_head; phase 2 is WriteBack; the head then goes back to the  *)
(* end of phase 1, which ckptlog_deq_persist makes durable, and prev_head  *)
(* to the end of phase 2.                                                  *)
(***************************************************************************)
Reclaim(t) ==
    LET r == reclaim[t]
        new == IF r.tvlog = RECLAIM_TVLOG_CKPT THEN CkptEntries(t) ELSE <<>>
        log1 == ckptlog[t] \o new
        cur1 == [o \in Objects |->
                   LET k == SelectLastInSeq(new, LAMBDA e : e.obj = o)
                   IN IF k = 0 THEN np_cur_act[o] ELSE new[k].wrt]
    IN /\ qp_pc = "reclaim"
       /\ r # NoReq
       /\ qp_req' = IF new = <<>> THEN qp_req
                    ELSE [qp_req EXCEPT !.ckptlog = CkptlogRequest(Used(log1), @)]
       /\ IF r.ckptlog = 0
          THEN /\ ckptlog' = [ckptlog EXCEPT ![t] = log1]
               /\ np_cur_act' = cur1
               /\ UNCHANGED <<prev_head, np_org_act>>
          ELSE LET log2 == SubSeq(log1, prev_head[t] + 1, Len(log1))
                   wb == WriteBack(log2, 1, Watermark(r.ckptlog), cur1,
                                   np_org_act)
               IN /\ ckptlog' = [ckptlog EXCEPT ![t] = log2]
                  /\ prev_head' = [prev_head EXCEPT ![t] = wb.n]
                  /\ np_cur_act' = wb.cur
                  /\ np_org_act' = wb.org
       /\ reclaim' = [reclaim EXCEPT ![t] = NoReq]
       /\ UNCHANGED <<g_clk, commits, qp_clks, qp_pc, rounds, stop, req>>

(***************************************************************************)
(* One pass of the __qp_thread_main loop up to the trigger: qp_detect      *)
(* takes qp0_clk from the clock, waits out the running transactions (a     *)
(* commit is one step here) and advance_qp_clock shifts __qp0 to __qp1 to  *)
(* __qp2; a stop request then asks for a checkpoint and a full write-back. *)
(* With no request the loop goes round again; otherwise the requests are   *)
(* swapped out and qp_trigger_reclaim hands them to every thread.  The     *)
(* qp_cleanup_ckptlogs of qp_detect frees tombstoned masters only, and    *)
(* there are none here.                                                    *)
(***************************************************************************)
QpDetect ==
    LET q0 == g_clk + 1
        r == IF stop
             THEN [tvlog |-> RequestReclaim(qp_req.tvlog, RECLAIM_TVLOG_CKPT),
                   ckptlog |-> RequestReclaim(qp_req.ckptlog,
                                              RECLAIM_CKPTLOG_WRITEBACK_ALL)]
             ELSE qp_req
    IN /\ qp_pc = "detect"
       /\ rounds < MaxRounds
       /\ g_clk' = q0
       /\ rounds' = rounds + 1
       /\ qp_clks' = [qp_clks EXCEPT !.qp0 = q0, !.qp1 = qp_clks.qp0,
                                     !.qp2 = qp_clks.qp1]
       /\ \/ /\ r = NoReq
             /\ UNCHANGED <<qp_pc, qp_req, req, reclaim>>
          \/ /\ r # NoReq
             /\ req' = r
             /\ qp_req' = NoReq
             /\ reclaim' = [t \in Threads |-> r]
             /\ qp_pc' = "reclaim"
       /\ UNCHANGED <<commits, stop, ckptlog, prev_head, np_cur_act,
                      np_org_act>>

\* qp_reclaim_barrier waits until every thread has reclaimed; after a
\* checkpointing round __qp0 is persisted as last_ckpt_clk
\* (nvlog_set_last_ckpt_clk), then made public in __last_ckpt.
QpBarrier ==
    /\ qp_pc = "reclaim"
    /\ \A t \in Threads : reclaim[t] = NoReq
    /\ qp_clks' = IF req.tvlog = RECLAIM_TVLOG_CKPT
                  THEN [qp_clks EXCEPT !.last_ckpt = qp_clks.qp0]
                  ELSE qp_clks
    /\ qp_pc' = "detect"
    /\ UNCHANGED <<g_clk, commits, rounds, stop, qp_req, req, reclaim,
                   ckptlog, prev_head, np_cur_act, np_org_act>>

\* finish_qp_thread sets stop_requested.
Stop ==
    /\ ~stop
    /\ stop' = TRUE
    /\ UNCHANGED <<g_clk, commits, qp_clks, qp_pc, rounds, qp_req, req,
                   reclaim, ckptlog, prev_head, np_cur_act, np_org_act>>

\* Every bounded activity is over.
Terminated ==
    /\ qp_pc = "detect"
    /\ rounds = MaxRounds
    /\ UNCHANGED vars

Next ==
    \/ \E t \in Threads, o \in Objects : Commit(t, o)
    \/ \E t \in Threads : Reclaim(t)
    \/ QpDetect
    \/ QpBarrier
    \/ Stop
    \/ Terminated

Spec == Init /\ [][Next]_vars

-----------------------------------------------------------------------------
\* The version the current master of o holds.
MasterVersion(o) ==
    IF np_cur_act[o] = ORG THEN np_org_act[o] ELSE np_cur_act[o]

\* Mutant: recovery applies every entry of the log.
CkptCut_noCut(log) == log

\* The entries ckptlog_recovery applies from one log: those before the
\* first entry checkpointed after last_ckpt_clk.
CkptCut(log) ==
    LET k == SelectInSeq(log, LAMBDA e : e.ckpt_s > qp_clks.last_ckpt)
    IN IF k = 0 THEN log ELSE SubSeq(log, 1, k - 1)

\* reconstruct_volatile_header in a new heap generation: the first entry of
\* o allocates a volatile header with that entry as the current master, and
\* a later entry replaces it when its write clock is newer; an object with
\* no entry keeps its original master.
RecoveredMaster(o) ==
    LET ws == {e.wrt : e \in {e \in UNION {ToSet(CkptCut(ckptlog[t])) :
                                             t \in Threads} : e.obj = o}}
    IN IF ws = {} THEN np_org_act[o]
       ELSE CHOOSE w \in ws : \A v \in ws : v <= w

TypeOK ==
    /\ g_clk \in Nat
    /\ qp_pc \in {"detect", "reclaim"}
    /\ \A t \in Threads : prev_head[t] \in 0 .. Len(ckptlog[t])
    /\ \A t \in Threads : Used(ckptlog[t]) <= CkptlogSize
    /\ \A o \in Objects : np_cur_act[o] \in {ORG} \cup 1 .. g_clk

(***************************************************************************)
(* Recovery rebuilds the checkpoint: at every point, the masters           *)
(* ckptlog_recovery would reconstruct from the checkpoint logs and the     *)
(* original masters hold, for every object, the version current at the    *)
(* persisted last_ckpt_clk.                                                *)
(***************************************************************************)
CkptRecoverable ==
    \A o \in Objects : RecoveredMaster(o) = Visible(o, qp_clks.last_ckpt)

(***************************************************************************)
(* No current master is freed: whenever np_cur_act names a checkpointed    *)
(* master, its entry is still in the checkpoint log of some thread.  Phase *)
(* 1 of ckptlog_reclaim_x may free only entries a write-back pass went     *)
(* over, and that pass moves np_cur_act of a current master to the         *)
(* original master before it does.                                         *)
(***************************************************************************)
NoDanglingMaster ==
    \A o \in Objects :
        np_cur_act[o] # ORG =>
            \E t \in Threads : \E k \in 1 .. Len(ckptlog[t]) :
                ckptlog[t][k].obj = o /\ ckptlog[t][k].wrt = np_cur_act[o]

(***************************************************************************)
(* Between rounds the current master of every object holds the version     *)
(* current at __last_ckpt: the entries step 2 appends and the write-backs  *)
(* of ckptlog_reclaim_x, done in any order by the threads, never make a   *)
(* master older or newer than the checkpoint.                              *)
(***************************************************************************)
MasterAtLastCkpt ==
    qp_pc = "detect" =>
        \A o \in Objects : MasterVersion(o) = Visible(o, qp_clks.last_ckpt)

(***************************************************************************)
(* A write-back never makes the original master older: the version a     *)
(* step copies into np_org_act is never older than the one it overwrites. *)
(***************************************************************************)
OrgNeverRegresses ==
    [][\A o \in Objects : np_org_act'[o] >= np_org_act[o]]_vars

(***************************************************************************)
(* Recovery never runs ahead of the checkpoint: the master                 *)
(* ckptlog_recovery rebuilds for an object is never newer than its        *)
(* version at the persisted last_ckpt_clk, although the logs already hold *)
(* the entries of a checkpoint in progress.                                *)
(***************************************************************************)
RecoveryNotAhead ==
    \A o \in Objects : RecoveredMaster(o) <= Visible(o, qp_clks.last_ckpt)

====
