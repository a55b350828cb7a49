------------------------------ MODULE TSDurable ------------------------------
(***************************************************************************)
(* The persistent logs of lib/TSOpLog on top of the QP model of TSQP: the  *)
(* per-thread OpLog that tvlog_commit appends to (oplog_enq and            *)
(* oplog_enq_persist) and that oplog_reclaim trims, the per-thread         *)
(* checkpoint log that tvlog_reclaim_x writes (ckptlog_enq and             *)
(* ckptlog_enq_persist), and the last checkpoint clock of the NVM root     *)
(* that __qp_thread_main persists with nvlog_set_last_ckpt_clk.            *)
(*                                                                         *)
(* Recovery is stated over this persistent state: ckptlog_recovery takes   *)
(* from each checkpoint log the entries up to the first one whose          *)
(* ckpt_s_clk is past the last checkpoint clock and keeps the newest       *)
(* version of each object (reconstruct_volatile_header); oplog_recovery    *)
(* replays the OpLog entries that is_op_entry_valid accepts.  An entry is  *)
(* a record of the object, its clocks and, for the OpLog, local_clk; the   *)
(* operand and the object contents are left out, a version being named by *)
(* its write clock as in TSQP.  An NVLog ring is a sequence: nvlog_enq     *)
(* appends at the tail, nvlog_deq removes at the head.                     *)
(*                                                                         *)
(* A checkpoint log here holds at most one entry per transaction of its    *)
(* thread, taken to be below TS_CKPTLOG_HIGH_MARK, so                      *)
(* ckptlog_try_request_reclaim_if_needed never asks for ckptlog_reclaim,   *)
(* which is left out.  The recovery loops are stated as written past the   *)
(* reconstruct_volatile_nvlog test; that test (recovery.c:88, 147, 228)    *)
(* has the inverted polarity that makes each loop return ENOMEM before it  *)
(* reads an entry, which the hazards of the project record.                *)
(***************************************************************************)
EXTENDS TSQP, SequencesExt

CONSTANT
    OplogSize   \* OpLog capacity, in entries (TS_OPLOG_SIZE)

\* nvlog_enq would fail an assertion on a full OpLog; the bound keeps every
\* commit of a thread within it.
ASSUME OplogSize \in Nat /\ MaxTxns <= OplogSize

\* config.h: 75% of the OpLog.
TS_OPLOG_HIGH_MARK == OplogSize - (OplogSize \div 4)

VARIABLES
    oplog,          \* thread -> its OpLog, oldest entry first
    ckptlog,        \* thread -> its checkpoint log, oldest entry first
    nv_last_ckpt    \* nvm_root_obj->last_ckpt_clk

logVars == <<oplog, ckptlog, nv_last_ckpt>>
allVars == <<vars, logVars>>

\* nvlog_enq and nvlog_enq_persist: the entry is reserved at the tail and the
\* tail is persisted.  The ring stays within its size (the ASSUME above).
NvlogEnq(log, e) == Append(log, e)

\* nvlog_peek_head and nvlog_deq, k times, then nvlog_deq_persist.
NvlogDeq(log, k) == SubSeq(log, k + 1, Len(log))

\* nvm_init_heap of a fresh heap sets last_ckpt_clk to MIN_VERSION.
DInit ==
    /\ Init
    /\ oplog = [t \in Threads |-> <<>>]
    /\ ckptlog = [t \in Threads |-> <<>>]
    /\ nv_last_ckpt = MIN_VERSION

(***************************************************************************)
(* ckptlog_enq in step 2 of tvlog_reclaim_x: every copy the step detaches  *)
(* is appended to the checkpoint log of the TVLog's owner, in TVLog order, *)
(* with its write clock and the reclaiming thread's __qp0 as ckpt_s_clk;   *)
(* ckptlog_enq_persist follows in the same call.  A step with no           *)
(* reclamation detaches nothing and appends nothing.                       *)
(***************************************************************************)
CkptEntries(u) ==
    LET newIdx == SetToSortSeq({i \in Idx : /\ ~chs[<<u, i>>].detached
                                           /\ chs'[<<u, i>>].detached}, <)
    IN [k \in 1 .. Len(newIdx) |->
          [obj |-> chs[<<u, newIdx[k]>>].obj,
           wrt |-> chs[<<u, newIdx[k]>>].wrt,
           ckpt_s |-> clks[u].qp0]]

CkptlogEnq == ckptlog' = [u \in Threads |-> ckptlog[u] \o CkptEntries(u)]

\* The steps of TSQP that may run tvlog_reclaim_x (try_reclaim_logs, the
\* blocking reclamation, qp_help_reclaim_log), with their ckptlog_enq.
DBegin(t) == Begin(t) /\ CkptlogEnq /\ UNCHANGED <<oplog, nv_last_ckpt>>
DBlockedReclaim(t) ==
    BlockedReclaim(t) /\ CkptlogEnq /\ UNCHANGED <<oplog, nv_last_ckpt>>
DEnd(t) == End(t) /\ CkptlogEnq /\ UNCHANGED <<oplog, nv_last_ckpt>>
DQpHelp(t) == QpHelp(t) /\ CkptlogEnq /\ UNCHANGED <<oplog, nv_last_ckpt>>

(***************************************************************************)
(* oplog_reclaim: dequeue head entries while their wrt_clk is below        *)
(* last_ckpt.  The assignment of last_ckpt from __last_ckpt is commented   *)
(* out (oplog.c:102), so the comparison reads an uninitialised stack       *)
(* variable; as entries are ordered by wrt_clk, any prefix of the log can  *)
(* go.  MTS_OPLOG_LOW_MARK is 0, so the low-mark break never fires.        *)
(***************************************************************************)
OplogReclaimed(log) == {NvlogDeq(log, k) : k \in 0 .. Len(log)}

(***************************************************************************)
(* tvlog_commit with its OpLog: the entry <local_clk, wrt_clk> is enqueued *)
(* and persisted before wrt_clk is published; then                         *)
(* oplog_try_request_ckpt_if_needed reclaims an OpLog at its high mark and *)
(* requests a checkpoint if it is still there, and only otherwise          *)
(* tvlog_try_request_reclaim_if_needed runs.                               *)
(***************************************************************************)
\* oplog_enq: the entry of the commit of t, stamped with local_clk and the
\* write clock pending_wrt_clk that new_clock returns.
OplogEntry(t) == [obj |-> tgt[t], local |-> local_clk[t], wrt |-> g_clk + 1]

DPublish(t) ==
    LET log1 == NvlogEnq(oplog[t], OplogEntry(t))
    IN /\ PublishCommit(t)
       /\ \/ /\ Len(log1) < TS_OPLOG_HIGH_MARK
             /\ oplog' = [oplog EXCEPT ![t] = log1]
             /\ qp_reclaim' = TvlogRequest(t, qp_reclaim)
          \/ /\ Len(log1) >= TS_OPLOG_HIGH_MARK
             /\ \E log2 \in OplogReclaimed(log1) :
                   /\ oplog' = [oplog EXCEPT ![t] = log2]
                   /\ qp_reclaim' =
                         IF Len(log2) >= TS_OPLOG_HIGH_MARK
                         THEN RequestReclaim(qp_reclaim, RECLAIM_TVLOG_CKPT)
                         ELSE TvlogRequest(t, qp_reclaim)
       /\ UNCHANGED <<ckptlog, nv_last_ckpt>>

\* ts_abort after a failed _ts_try_lock: the transaction boundary of TSQP's
\* Finish, then oplog_reclaim to help OpLog reclamation.
TsAbort(t) ==
    /\ TryLock(t)
    /\ pc'[t] = "idle"
    /\ CkptlogEnq
    /\ \E log \in OplogReclaimed(oplog[t]) : oplog' = [oplog EXCEPT ![t] = log]
    /\ UNCHANGED nv_last_ckpt

TryLockOk(t) ==
    /\ TryLock(t)
    /\ pc'[t] = "locked"
    /\ UNCHANGED logVars

\* Mutant: the clock is persisted after a best-effort reclamation too.
DQpBarrier_anyReq ==
    /\ QpBarrier
    /\ nv_last_ckpt' = qp_clks.qp0
    /\ UNCHANGED <<oplog, ckptlog>>

\* After qp_reclaim_barrier of a checkpointing round __qp_thread_main
\* persists __qp0 as the last checkpoint clock, then makes it public.
DQpBarrier ==
    /\ QpBarrier
    /\ nv_last_ckpt' = IF req = RECLAIM_TVLOG_CKPT THEN qp_clks.qp0
                       ELSE nv_last_ckpt
    /\ UNCHANGED <<oplog, ckptlog>>

\* The steps of TSQP that touch no persistent log.
Volatile ==
    /\ \/ \E t \in Threads :
             \/ BlockedSpin(t) \/ BeginClk(t) \/ \E o \in Objects : Deref(t, o)
             \/ DerefStep(t) \/ Link(t)
       \/ QpDetect \/ QpWait \/ QpAdvance
       \/ \E t \in Threads : QpInit(t) \/ QpTrigger(t)
       \/ Terminated
    /\ UNCHANGED logVars

DNext ==
    \/ \E t \in Threads :
          \/ DBegin(t) \/ DBlockedReclaim(t) \/ DEnd(t) \/ DQpHelp(t)
          \/ DPublish(t) \/ TsAbort(t) \/ TryLockOk(t)
    \/ DQpBarrier
    \/ Volatile

DSpec == DInit /\ [][DNext]_allVars

-----------------------------------------------------------------------------
\* The checkpoint entries ckptlog_recovery applies from one log: those before
\* the first entry checkpointed after the last checkpoint clock.
CkptCut(log) ==
    LET k == SelectInSeq(log, LAMBDA e : e.ckpt_s > nv_last_ckpt)
    IN IF k = 0 THEN log ELSE SubSeq(log, 1, k - 1)

NewestOr(ws, dflt) == IF ws = {} THEN dflt ELSE Max(ws)

\* reconstruct_volatile_header keeps, per object, the entry with the newest
\* write clock; an object with no entry keeps its original master.
CkptImage(o) ==
    NewestOr({e.wrt : e \in {e \in UNION {ToSet(CkptCut(ckptlog[t])) : t \in Threads} :
                               e.obj = o}}, MIN_VERSION)

\* is_op_entry_valid: replay the operations begun after the last checkpoint.
ReplayValid(e) == e.local > nv_last_ckpt

\* The version of o after replay_ops has run the valid operations in time
\* stamp order over the checkpoint image.
RecoveredVersion(o) ==
    NewestOr({e.wrt : e \in {e \in UNION {ToSet(oplog[t]) : t \in Threads} :
                               e.obj = o /\ ReplayValid(e)}}, CkptImage(o))

(***************************************************************************)
(* The durable checkpoint is consistent: at every point, the image         *)
(* ckptlog_recovery would rebuild from the checkpoint logs and the         *)
(* persisted last_ckpt_clk holds, for every object, exactly the version    *)
(* current at that clock.  It fails if the clock is persisted before every *)
(* thread's step 2 has written its borderline copies back.                 *)
(***************************************************************************)
DurableCkptImage ==
    \A o \in Objects : CkptImage(o) = Visible(o, nv_last_ckpt)

(***************************************************************************)
(* Committed transactions survive a crash: at every point, checkpoint      *)
(* recovery followed by the replay of the valid OpLog entries restores,    *)
(* for every object, the version of its last commit.                       *)
(***************************************************************************)
CommitsRecoverable ==
    \A o \in Objects : RecoveredVersion(o) = Visible(o, MAX_VERSION)

(***************************************************************************)
(* The checkpoint logs and the persisted clock implement DurableCkpt: the  *)
(* image ckptlog_recovery would rebuild changes only when                  *)
(* __qp_thread_main persists a new last_ckpt_clk, and then becomes the     *)
(* version of every object current at that clock; between checkpoints the *)
(* entries tvlog_reclaim_x appends, and every commit, leave it alone, and  *)
(* no commit takes a write clock at or below the persisted clock.          *)
(***************************************************************************)
Store == INSTANCE DurableCkpt WITH
    last_ckpt <- nv_last_ckpt,
    image <- [o \in Objects |-> CkptImage(o)],
    MaxClock <- MAX_VERSION

CkptRefinesStore == Store!ASpec

====
