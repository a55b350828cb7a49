------------------------------ MODULE TSThreads ------------------------------
(***************************************************************************)
(* The life of a TimeStone thread struct in lib/TSOpLog, and the QP        *)
(* thread that outlives it.  A thread is allocated, initialised and        *)
(* registered on the live list (ts_thread_alloc, ts_thread_init_x), runs   *)
(* transactions that fill its version log (tvlog) and, when the log is     *)
(* reclaimed, its checkpoint log (ckptlog), then leaves by                 *)
(* ts_thread_finish, which deregisters it and, while either log still      *)
(* holds entries, puts it on the zombie list as LIVE_ZOMBIE, and by        *)
(* ts_thread_free, which marks it DEAD_ZOMBIE and frees it when both logs  *)
(* are empty.  The QP thread (__qp_thread_main) detects quiescent points,  *)
(* triggers the requested reclamation on every live thread, reaps the     *)
(* zombies (qp_reap_zombie_threads), helps the live threads, passes the    *)
(* barrier, and exits once a stop was requested and both lists are empty.  *)
(*                                                                         *)
(* A log is a sequence of clocks: the tvlog holds the write clock of each  *)
(* committed write set, the ckptlog the ckpt_s clock of each checkpointed  *)
(* master.  Each keeps the prev_head boundary of its two-phase             *)
(* reclamation as the number of entries passed by the last pass.  The     *)
(* objects, the copies and the masters are left out: TSQP, TSDurable and   *)
(* TSCkptLog model what a pass does to them; here only how far it gets.    *)
(***************************************************************************)
EXTENDS Naturals, Sequences, FiniteSets, SequencesExt

CONSTANTS
    Threads,        \* the application threads that use TimeStone
    MaxCommits,     \* bound on the transactions each thread commits
    TvlogLowMark,   \* TS_TVLOG_LOW_MARK and TS_TVLOG_HIGH_MARK, in entries
    TvlogHighMark,
    CkptlogLowMark, \* TS_CKPTLOG_LOW_MARK and TS_CKPTLOG_HIGH_MARK, in entries
    CkptlogHighMark,
    NoThread,       \* no thread: the reaper is between two zombies
    FlushThreads    \* the threads whose f calls flush_log after its commits

ASSUME MaxCommits \in Nat /\ NoThread \notin Threads /\ FlushThreads \subseteq Threads
ASSUME {TvlogLowMark, TvlogHighMark, CkptlogLowMark, CkptlogHighMark} \subseteq Nat

\* The reclamation requests of timestone_i.h; 0 is "not requested".
RECLAIM_TVLOG_BEST_EFFORT == 16
RECLAIM_TVLOG_CKPT == 17
RECLAIM_CKPTLOG_BEST_EFFORT == 32
RECLAIM_CKPTLOG_WRITEBACK == 33
RECLAIM_CKPTLOG_WRITEBACK_ALL == 34
TvReqs == {0, RECLAIM_TVLOG_BEST_EFFORT, RECLAIM_TVLOG_CKPT}
CkReqs == {0, RECLAIM_CKPTLOG_BEST_EFFORT, RECLAIM_CKPTLOG_WRITEBACK,
           RECLAIM_CKPTLOG_WRITEBACK_ALL}
NoReq == [tvlog |-> 0, ckptlog |-> 0]

\* The live_status values of timestone_i.h.
LiveStatus == {"LIVE", "LIVE_ZOMBIE", "DEAD_ZOMBIE"}

VARIABLES
    clk,        \* g_wrt_clk
    qclks,      \* g_qp_thread.clks: __qp0, __qp1, __qp2
    qreq,       \* g_qp_thread.reclaim: the pending requests
    stop,       \* g_qp_thread.stop_requested
    qpc,        \* where the QP thread is in its loop
    todo,       \* zombies the current qp_reap_zombie_threads pass has left
    reaping,    \* the zombie between its log reclamation and its check
    live,       \* g_live_threads
    zombies,    \* g_zombie_threads
    mem,        \* thread -> "none", "alloc" or "freed": its struct
    status,     \* thread -> its live_status
    req,        \* thread -> its reclaim field, the requests it must serve
    tclks,      \* thread -> its copy of __qp0 and __qp2, the clocks its passes read
    lg,         \* thread -> its tvlog and ckptlog, as clocks
    ncommit,    \* thread -> transactions it committed
    pc          \* thread -> where it is in timestone++.hpp's thread_wrapper

vars == <<clk, qclks, qreq, stop, qpc, todo, reaping, live, zombies,
          mem, status, req, tclks, lg, ncommit, pc>>

EmptyLogs == [tv |-> <<>>, tvprev |-> 0, ck |-> <<>>, ckprev |-> 0]
InitClks == [qp0 |-> 0, qp1 |-> 0, qp2 |-> 0]
TClks(c) == [qp0 |-> c.qp0, qp2 |-> c.qp2]

\* tvlog_used and ckptlog_used: tail minus head.
TvlogUsed(l) == Len(l.tv)
CkptlogUsed(l) == Len(l.ck)

\* The number of leading entries of s below (or, for ckpt entries, at or
\* below) a clock: how far a pass may go before it breaks.
Below(s, c) ==
    LET i == SelectInSeq(s, LAMBDA w : w >= c) IN IF i = 0 THEN Len(s) ELSE i - 1
AtMost(s, c) == Below(s, c + 1)

(***************************************************************************)
(* tvlog_reclaim_x.  The entries in [head, prev_head) passed the last pass *)
(* and are freed.  The pass then walks the write sets committed before     *)
(* __qp0 (ckpt_s_clk): in RECLAIM_TVLOG_CKPT mode it checkpoints every     *)
(* copy at the borderline into the ckptlog with ckpt_s_clk = __qp0 and     *)
(* walks them all; in best-effort mode it stops at the first write set     *)
(* holding such a copy.  Where it stops becomes the new prev_head.  Which  *)
(* copies are at the borderline depends on the other threads' copies, so  *)
(* it is a choice: n is where the walk stops, k how many copies it         *)
(* checkpointed.  The request is then cleared.                            *)
(***************************************************************************)
TvPassable(l, qp0) == Below(SubSeq(l.tv, l.tvprev + 1, Len(l.tv)), qp0)

TvPass(l, qp0, mode, n, k) ==
    [l EXCEPT !.tv = SubSeq(l.tv, l.tvprev + 1, Len(l.tv)),
              !.tvprev = n,
              !.ck = IF mode = RECLAIM_TVLOG_CKPT
                       THEN l.ck \o [i \in 1 .. k |-> qp0] ELSE l.ck]

TvChoices(l, qp0, mode) ==
    IF mode = RECLAIM_TVLOG_CKPT
    THEN {<<TvPassable(l, qp0), k>> : k \in 0 .. TvPassable(l, qp0)}
    ELSE {<<n, 0>> : n \in 0 .. TvPassable(l, qp0)}

(***************************************************************************)
(* ckptlog_reclaim_x.  The entries in [head, prev_head) are freed; then    *)
(* entries whose ckpt_s_clk is at most __qp2 are written back, stopping    *)
(* early, at a master that is still current, once the log is below the    *)
(* watermark; the watermark is 0 for RECLAIM_CKPTLOG_WRITEBACK_ALL, so     *)
(* only that mode is sure to pass every old enough entry.                  *)
(***************************************************************************)
CkPassable(l, qp2) == AtMost(SubSeq(l.ck, l.ckprev + 1, Len(l.ck)), qp2)

CkPass(l, p) ==
    [l EXCEPT !.ck = SubSeq(l.ck, l.ckprev + 1, Len(l.ck)), !.ckprev = p]

CkChoices(l, qp2, mode) ==
    IF mode = RECLAIM_CKPTLOG_WRITEBACK_ALL THEN {CkPassable(l, qp2)}
    ELSE 0 .. CkPassable(l, qp2)

\* _request_reclaim: a request only ever raises the pending one.
Request(q, f, r) == IF r > q[f] THEN [q EXCEPT ![f] = r] ELSE q

\* tvlog_try_request_reclaim_if_needed, after a commit, and
\* ckptlog_try_request_reclaim_if_needed, after ckptlog_enq_persist: past
\* the low watermark a log asks for a best-effort reclamation, past the
\* high one for a checkpoint or a write-back.
TvlogRequest(l) ==
    IF TvlogUsed(l) > TvlogHighMark THEN RECLAIM_TVLOG_CKPT
    ELSE IF TvlogUsed(l) > TvlogLowMark THEN RECLAIM_TVLOG_BEST_EFFORT ELSE 0
CkptlogRequest(l) ==
    IF CkptlogUsed(l) > CkptlogHighMark THEN RECLAIM_CKPTLOG_WRITEBACK
    ELSE IF CkptlogUsed(l) > CkptlogLowMark THEN RECLAIM_CKPTLOG_BEST_EFFORT ELSE 0

\* The outcome of a tvlog pass: the log, and the requests it makes.  A
\* checkpointing pass that enqueued entries persists the ckptlog and may
\* ask for its reclamation; a best-effort pass that freed nothing while
\* the log is past the low watermark asks for a checkpoint.
TvOut(l, qp0, mode, n, k) ==
    LET l2 == TvPass(l, qp0, mode, n, k) IN
    [log |-> l2,
     tvr |-> IF mode = RECLAIM_TVLOG_BEST_EFFORT /\ l.tvprev = 0
                /\ TvlogUsed(l2) > TvlogLowMark
             THEN RECLAIM_TVLOG_CKPT ELSE 0,
     ckr |-> IF k > 0 THEN CkptlogRequest(l2) ELSE 0]

\* Serving the requests r with the clocks c: tvlog_reclaim, then
\* ckptlog_reclaim, each only when its request is set.
ServeTv(l, mode, qp0) ==
    IF mode = 0 THEN {[log |-> l, tvr |-> 0, ckr |-> 0]}
    ELSE {TvOut(l, qp0, mode, ch[1], ch[2]) : ch \in TvChoices(l, qp0, mode)}
ServeCk(o, mode, qp2) ==
    IF mode = 0 THEN {o}
    ELSE {[o EXCEPT !.log = CkPass(o.log, p)] : p \in CkChoices(o.log, qp2, mode)}
Serve(l, r, c) == UNION {ServeCk(o, r.ckptlog, c.qp2) : o \in ServeTv(l, r.tvlog, c.qp0)}

\* The pending requests once the passes in outs made theirs.
Raise(q, outs) ==
    [tvlog |-> Max({q.tvlog} \cup {o.tvr : o \in outs}),
     ckptlog |-> Max({q.ckptlog} \cup {o.ckr : o \in outs})]

Init ==
    /\ clk = 1
    /\ qclks = InitClks
    /\ qreq = NoReq
    /\ stop = FALSE
    /\ qpc = "loop"
    /\ todo = {}
    /\ reaping = NoThread
    /\ live = {}
    /\ zombies = {}
    /\ mem = [t \in Threads |-> "none"]
    /\ status = [t \in Threads |-> "LIVE"]
    /\ req = [t \in Threads |-> NoReq]
    /\ tclks = [t \in Threads |-> TClks(InitClks)]
    /\ lg = [t \in Threads |-> EmptyLogs]
    /\ ncommit = [t \in Threads |-> 0]
    /\ pc = [t \in Threads |-> "init"]

qvars == <<clk, qclks, qreq, stop, qpc, todo, reaping>>

(***************************************************************************)
(* The application thread: thread_wrapper calls ts_thread_alloc and        *)
(* ts_thread_init, runs f, then ts_thread_finish and ts_thread_free.       *)
(***************************************************************************)

\* ts_thread_alloc and ts_thread_init_x: a zeroed struct with empty logs,
\* added to the live list by register_thread.
ThreadInit(t) ==
    /\ pc[t] = "init" /\ ~stop
    /\ mem' = [mem EXCEPT ![t] = "alloc"]
    /\ status' = [status EXCEPT ![t] = "LIVE"]
    /\ req' = [req EXCEPT ![t] = NoReq]
    /\ tclks' = [tclks EXCEPT ![t] = TClks(InitClks)]
    /\ lg' = [lg EXCEPT ![t] = EmptyLogs]
    /\ live' = live \cup {t}
    /\ pc' = [pc EXCEPT ![t] = "run"]
    /\ UNCHANGED <<qvars, zombies, ncommit>>

\* A transaction of f commits a write set at the current clock
\* (tvlog_commit) and asks for a tvlog reclamation as the log fills.
Commit(t) ==
    /\ pc[t] = "run" /\ ncommit[t] < MaxCommits
    /\ lg' = [lg EXCEPT ![t].tv = Append(@, clk)]
    /\ qreq' = Request(qreq, "tvlog", TvlogRequest(lg'[t]))
    /\ clk' = clk + 1
    /\ ncommit' = [ncommit EXCEPT ![t] = @ + 1]
    /\ UNCHANGED <<qclks, stop, qpc, todo, reaping, live, zombies,
                   mem, status, req, tclks, pc>>

\* try_reclaim_logs: the thread serves the requests the QP thread left it.
\* After f returns, ts_thread_finish does the same before it deregisters.
ServeSelf(t) ==
    /\ req[t] # NoReq
    /\ \E o \in Serve(lg[t], req[t], tclks[t]) :
          /\ lg' = [lg EXCEPT ![t] = o.log]
          /\ qreq' = Raise(qreq, {o})
    /\ req' = [req EXCEPT ![t] = NoReq]

WorkerReclaim(t) ==
    /\ pc[t] = "run"
    /\ ServeSelf(t)
    /\ UNCHANGED <<clk, qclks, stop, qpc, todo, reaping, live, zombies,
                   mem, status, tclks, ncommit, pc>>

FinishReclaim(t) ==
    /\ pc[t] = "run"
    /\ \/ ServeSelf(t)
       \/ req[t] = NoReq /\ UNCHANGED <<lg, qreq, req>>
    /\ pc' = [pc EXCEPT ![t] = "deregister"]
    /\ UNCHANGED <<clk, qclks, stop, qpc, todo, reaping, live, zombies,
                   mem, status, tclks, ncommit>>

\* zombinize_thread, thread_list_add on the zombie list: it takes the lock
\* by thread_list_lock_force, which raises thread_wait while the QP thread
\* holds it.  A reap holds the lock through its whole walk and looks at
\* the flag before each zombie, so the add happens between two zombies,
\* and the reap then starts its walk over (goto retry), new zombie included.
Zombinize(t) ==
    /\ reaping = NoThread
    /\ zombies' = zombies \cup {t}
    /\ todo' = IF qpc = "reap" THEN zombies' ELSE todo

\* Mutant: ts_thread_finish keeps the thread as a zombie only for its tvlog.
Deregister_tvlogOnly(t) ==
    /\ pc[t] = "deregister"
    /\ live' = live \ {t}
    /\ IF TvlogUsed(lg[t]) > 0
       THEN /\ status' = [status EXCEPT ![t] = "LIVE_ZOMBIE"]
            /\ Zombinize(t)
       ELSE UNCHANGED <<status, zombies, todo>>
    /\ tclks' = [tclks EXCEPT ![t] = TClks(InitClks)]
    /\ req' = [req EXCEPT ![t] = NoReq]
    /\ pc' = [pc EXCEPT ![t] = "free"]
    /\ UNCHANGED <<clk, qclks, qreq, stop, qpc, reaping, mem, lg, ncommit>>

\* The rest of ts_thread_finish: deregister_thread takes the thread off the
\* live list; then, with a log not empty, it becomes LIVE_ZOMBIE and
\* zombinize_thread adds it to the zombie list, which makes a reaping QP
\* thread restart its walk; otherwise its logs are destroyed.  Between the
\* two list operations the thread is on neither list, where no QP step can
\* reach it, so they are one step here.  The thread's copies of the QP
\* clocks and requests are never read again (the reap hands a zombie the
\* clocks it uses), so they are reset here and states differing only in
\* them coincide.
Deregister(t) ==
    /\ pc[t] = "deregister"
    /\ live' = live \ {t}
    /\ IF TvlogUsed(lg[t]) > 0 \/ CkptlogUsed(lg[t]) > 0
       THEN /\ status' = [status EXCEPT ![t] = "LIVE_ZOMBIE"]
            /\ Zombinize(t)
       ELSE UNCHANGED <<status, zombies, todo>>
    /\ tclks' = [tclks EXCEPT ![t] = TClks(InitClks)]
    /\ req' = [req EXCEPT ![t] = NoReq]
    /\ pc' = [pc EXCEPT ![t] = "free"]
    /\ UNCHANGED <<clk, qclks, qreq, stop, qpc, reaping, mem, lg, ncommit>>

\* ts_thread_free, in its three steps: the DEAD_ZOMBIE store, the check
\* that both logs are empty, and port_free.  It takes no lock.
FreeMark(t) ==
    /\ pc[t] = "free"
    /\ status' = [status EXCEPT ![t] = "DEAD_ZOMBIE"]
    /\ pc' = [pc EXCEPT ![t] = "fcheck"]
    /\ UNCHANGED <<qvars, live, zombies, mem, req, tclks, lg, ncommit>>

FreeCheck(t) ==
    /\ pc[t] = "fcheck"
    /\ pc' = [pc EXCEPT ![t] = IF TvlogUsed(lg[t]) = 0 /\ CkptlogUsed(lg[t]) = 0
                                THEN "portfree" ELSE "done"]
    /\ UNCHANGED <<qvars, live, zombies, mem, status, req, tclks, lg, ncommit>>

PortFree(t) ==
    /\ pc[t] = "portfree"
    /\ mem' = [mem EXCEPT ![t] = "freed"]
    /\ pc' = [pc EXCEPT ![t] = "done"]
    /\ UNCHANGED <<qvars, live, zombies, status, req, tclks, lg, ncommit>>

(***************************************************************************)
(* ts_flush_log, which f may call between its transactions (ts_thread's   *)
(* flush_log).  tvlog_flush, while the tvlog holds entries, asks for a     *)
(* checkpoint and spins until reclaim_tvlog_ckptlog finds a request set;   *)
(* ckptlog_flush then serves a pending ckptlog request and, while the      *)
(* ckptlog holds entries, asks for RECLAIM_CKPTLOG_WRITEBACK_ALL and spins *)
(* until its request is set.  Every 1000 rounds a spin asks again.  A spin *)
(* sees the flag and then reclaims, and qp_help_reclaim_log may serve the  *)
(* request in between: the reclamation then finds nothing to do.          *)
(***************************************************************************)
FlushPcs == {"tvcheck", "tvspin", "tvreclaim", "ckfirst", "ckcheck", "ckspin",
             "ckreclaim"}

\* ckptlog_reclaim on its own, with the ckptlog request the thread holds.
ServeCkSelf(t) ==
    /\ req[t].ckptlog # 0
    /\ \E o \in ServeCk([log |-> lg[t], tvr |-> 0, ckr |-> 0], req[t].ckptlog,
                        tclks[t].qp2) :
          lg' = [lg EXCEPT ![t] = o.log]
    /\ req' = [req EXCEPT ![t].ckptlog = 0]

\* The call, once f committed its transactions, and each test of
\* tvlog_flush's loop with its request.
TvFlushCheck(t) ==
    /\ \/ pc[t] = "run" /\ t \in FlushThreads /\ ncommit[t] = MaxCommits
       \/ pc[t] = "tvcheck"
    /\ IF TvlogUsed(lg[t]) # 0
       THEN /\ qreq' = Request(qreq, "tvlog", RECLAIM_TVLOG_CKPT)
            /\ pc' = [pc EXCEPT ![t] = "tvspin"]
       ELSE /\ pc' = [pc EXCEPT ![t] = "ckfirst"]
            /\ UNCHANGED qreq
    /\ UNCHANGED <<clk, qclks, stop, qpc, todo, reaping, live, zombies, mem,
                   status, req, tclks, lg, ncommit>>

\* A round of the spin: the request again, or a request seen set.
TvFlushSpin(t) ==
    /\ pc[t] = "tvspin"
    /\ \/ /\ qreq' = Request(qreq, "tvlog", RECLAIM_TVLOG_CKPT)
          /\ UNCHANGED pc
       \/ /\ req[t] # NoReq
          /\ pc' = [pc EXCEPT ![t] = "tvreclaim"]
          /\ UNCHANGED qreq
    /\ UNCHANGED <<clk, qclks, stop, qpc, todo, reaping, live, zombies, mem,
                   status, req, tclks, lg, ncommit>>

\* reclaim_tvlog_ckptlog, whose requests the QP thread may have served.
TvFlushReclaim(t) ==
    /\ pc[t] = "tvreclaim"
    /\ \/ ServeSelf(t)
       \/ req[t] = NoReq /\ UNCHANGED <<lg, qreq, req>>
    /\ pc' = [pc EXCEPT ![t] = "tvcheck"]
    /\ UNCHANGED <<clk, qclks, stop, qpc, todo, reaping, live, zombies, mem,
                   status, tclks, ncommit>>

\* ckptlog_flush's first ckptlog_reclaim, if a request is pending.
CkFlushFirst(t) ==
    /\ pc[t] = "ckfirst"
    /\ \/ ServeCkSelf(t)
       \/ req[t].ckptlog = 0 /\ UNCHANGED <<lg, req>>
    /\ pc' = [pc EXCEPT ![t] = "ckcheck"]
    /\ UNCHANGED <<qvars, live, zombies, mem, status, tclks, ncommit>>

\* The test of ckptlog_flush's loop: the request, or the return.
CkFlushCheck(t) ==
    /\ pc[t] = "ckcheck"
    /\ IF CkptlogUsed(lg[t]) # 0
       THEN /\ qreq' = Request(qreq, "ckptlog", RECLAIM_CKPTLOG_WRITEBACK_ALL)
            /\ pc' = [pc EXCEPT ![t] = "ckspin"]
       ELSE /\ pc' = [pc EXCEPT ![t] = "run"]
            /\ UNCHANGED qreq
    /\ UNCHANGED <<clk, qclks, stop, qpc, todo, reaping, live, zombies, mem,
                   status, req, tclks, lg, ncommit>>

CkFlushSpin(t) ==
    /\ pc[t] = "ckspin"
    /\ \/ /\ qreq' = Request(qreq, "ckptlog", RECLAIM_CKPTLOG_WRITEBACK_ALL)
          /\ UNCHANGED pc
       \/ /\ req[t].ckptlog # 0
          /\ pc' = [pc EXCEPT ![t] = "ckreclaim"]
          /\ UNCHANGED qreq
    /\ UNCHANGED <<clk, qclks, stop, qpc, todo, reaping, live, zombies, mem,
                   status, req, tclks, lg, ncommit>>

CkFlushReclaim(t) ==
    /\ pc[t] = "ckreclaim"
    /\ \/ ServeCkSelf(t)
       \/ req[t].ckptlog = 0 /\ UNCHANGED <<lg, req>>
    /\ pc' = [pc EXCEPT ![t] = "ckcheck"]
    /\ UNCHANGED <<qvars, live, zombies, mem, status, tclks, ncommit>>

Flush(t) == TvFlushCheck(t) \/ TvFlushSpin(t) \/ TvFlushReclaim(t)
            \/ CkFlushFirst(t) \/ CkFlushCheck(t) \/ CkFlushSpin(t)
            \/ CkFlushReclaim(t)

(***************************************************************************)
(* The QP thread.  config.h selects the ordo clock, which moves on every   *)
(* read, and the code only ever compares clocks by order (gte_clock,       *)
(* gt_clock), so after each read every clock held in the state is          *)
(* renumbered by its rank among them: the order, all the code can see, is *)
(* kept and the values stay small however long the QP thread runs.        *)
(***************************************************************************)
ClkFields == {"qp0", "qp1", "qp2"}
TClkFields == {"qp0", "qp2"}

Renumber(vals, v) == Cardinality({u \in vals : u < v})

\* should_stop: a stop was requested and both thread lists are empty.
ShouldStop == stop /\ zombies = {} /\ live = {}

QpExit ==
    /\ qpc = "loop" /\ ShouldStop
    /\ qpc' = "exited"
    /\ UNCHANGED <<clk, qclks, qreq, stop, todo, reaping, live, zombies,
                   mem, status, req, tclks, lg, ncommit, pc>>

\* Mutant: a stop request no longer asks for a flush of every log.
QpDetect_noStopFlush ==
    LET q0 == clk + 1
        nq == [qclks EXCEPT !.qp0 = q0, !.qp1 = qclks.qp0, !.qp2 = qclks.qp1]
        vals == {q0} \cup {nq[f] : f \in ClkFields}
                \cup {tclks[t][f] : t \in live, f \in TClkFields}
                \cup UNION {ToSet(lg[t].tv) \cup ToSet(lg[t].ck) : t \in Threads}
        R(v) == Renumber(vals, v)
        rq == [f \in ClkFields |-> R(nq[f])]
        r == qreq
    IN /\ qpc = "loop" /\ ~ShouldStop
       /\ clk' = R(q0)
       /\ qclks' = rq
       /\ lg' = [t \in Threads |-> [lg[t] EXCEPT !.tv = [i \in DOMAIN @ |-> R(@[i])],
                                                 !.ck = [i \in DOMAIN @ |-> R(@[i])]]]
       /\ IF r = NoReq
          THEN /\ tclks' = [t \in Threads |-> IF t \in live
                                             THEN [f \in TClkFields |-> R(tclks[t][f])]
                                             ELSE tclks[t]]
               /\ UNCHANGED <<qreq, qpc, todo, req>>
          ELSE /\ qreq' = NoReq
               /\ tclks' = [t \in Threads |-> IF t \in live THEN TClks(rq) ELSE tclks[t]]
               /\ req' = [t \in Threads |-> IF t \in live THEN r ELSE req[t]]
               /\ todo' = zombies
               /\ qpc' = "reap"
       /\ UNCHANGED <<stop, reaping, live, zombies, mem, status, ncommit, pc>>

\* qp_detect reads qp0_clk and advance_qp_clock shifts the QP clocks; a
\* stop request asks for a checkpoint and a full write-back.  With nothing
\* requested the loop goes round; otherwise the requests are swapped out
\* and qp_trigger_reclaim copies them and the clocks to every live thread.
QpDetect ==
    LET q0 == clk + 1
        nq == [qclks EXCEPT !.qp0 = q0, !.qp1 = qclks.qp0, !.qp2 = qclks.qp1]
        vals == {q0} \cup {nq[f] : f \in ClkFields}
                \cup {tclks[t][f] : t \in live, f \in TClkFields}
                \cup UNION {ToSet(lg[t].tv) \cup ToSet(lg[t].ck) : t \in Threads}
        R(v) == Renumber(vals, v)
        rq == [f \in ClkFields |-> R(nq[f])]
        r == IF stop
             THEN Request(Request(qreq, "tvlog", RECLAIM_TVLOG_CKPT),
                          "ckptlog", RECLAIM_CKPTLOG_WRITEBACK_ALL)
             ELSE qreq
    IN /\ qpc = "loop" /\ ~ShouldStop
       /\ clk' = R(q0)
       /\ qclks' = rq
       /\ lg' = [t \in Threads |-> [lg[t] EXCEPT !.tv = [i \in DOMAIN @ |-> R(@[i])],
                                                 !.ck = [i \in DOMAIN @ |-> R(@[i])]]]
       /\ IF r = NoReq
          THEN /\ tclks' = [t \in Threads |-> IF t \in live
                                             THEN [f \in TClkFields |-> R(tclks[t][f])]
                                             ELSE tclks[t]]
               /\ UNCHANGED <<qreq, qpc, todo, req>>
          ELSE /\ qreq' = NoReq
               /\ tclks' = [t \in Threads |-> IF t \in live THEN TClks(rq) ELSE tclks[t]]
               /\ req' = [t \in Threads |-> IF t \in live THEN r ELSE req[t]]
               /\ todo' = zombies
               /\ qpc' = "reap"
       /\ UNCHANGED <<stop, reaping, live, zombies, mem, status, ncommit, pc>>

(***************************************************************************)
(* qp_reap_zombie_threads, one zombie at a time under the zombie list     *)
(* lock: the zombie gets the QP clocks, which only this call reads (so     *)
(* the passes read qclks here), a used tvlog is reclaimed with            *)
(* RECLAIM_TVLOG_CKPT and then a used ckptlog with                         *)
(* RECLAIM_CKPTLOG_WRITEBACK_ALL; if both logs are then empty they are     *)
(* destroyed and, if the zombie is DEAD_ZOMBIE, it leaves the list and     *)
(* ts_thread_free frees it.  The application thread's ts_thread_free runs  *)
(* without the lock, so it may step between the reclamation and the check. *)
(***************************************************************************)
ReapLogs(z) ==
    LET l0 == lg[z]
        tvUsed == TvlogUsed(l0) > 0
    IN /\ qpc = "reap" /\ reaping = NoThread /\ z \in todo
       /\ \E o1 \in (IF tvUsed THEN ServeTv(l0, RECLAIM_TVLOG_CKPT, qclks.qp0)
                    ELSE {[log |-> l0, tvr |-> 0, ckr |-> 0]}) :
             LET ckUsed == CkptlogUsed(o1.log) > 0 IN
             /\ \E o2 \in (IF ckUsed
                           THEN ServeCk(o1, RECLAIM_CKPTLOG_WRITEBACK_ALL, qclks.qp2)
                           ELSE {o1}) :
                   /\ lg' = [lg EXCEPT ![z] = o2.log]
                   /\ qreq' = Raise(qreq, {o2})
             /\ req' = [req EXCEPT ![z] = [tvlog |-> IF tvUsed THEN 0 ELSE @.tvlog,
                                           ckptlog |-> IF ckUsed THEN 0 ELSE @.ckptlog]]
       /\ reaping' = z
       /\ UNCHANGED <<clk, qclks, stop, qpc, todo, live, zombies, mem,
                      status, tclks, ncommit, pc>>

\* Mutant: a zombie taken off the list stays in the walk, as a list_del
\* under an iterator that is not the _safe one would leave it.
ReapCheck_keepTodo ==
    LET z == reaping
        reap == TvlogUsed(lg[z]) = 0 /\ CkptlogUsed(lg[z]) = 0
                /\ status[z] = "DEAD_ZOMBIE"
    IN /\ qpc = "reap" /\ reaping # NoThread
       /\ zombies' = IF reap THEN zombies \ {z} ELSE zombies
       /\ mem' = IF reap THEN [mem EXCEPT ![z] = "freed"] ELSE mem
       /\ todo' = IF reap THEN todo ELSE todo \ {z}
       /\ reaping' = NoThread
       /\ UNCHANGED <<clk, qclks, qreq, stop, qpc, live, status, req,
                      tclks, lg, ncommit, pc>>

ReapCheck ==
    LET z == reaping
        reap == TvlogUsed(lg[z]) = 0 /\ CkptlogUsed(lg[z]) = 0
                /\ status[z] = "DEAD_ZOMBIE"
    IN /\ qpc = "reap" /\ reaping # NoThread
       /\ zombies' = IF reap THEN zombies \ {z} ELSE zombies
       /\ mem' = IF reap THEN [mem EXCEPT ![z] = "freed"] ELSE mem
       /\ todo' = todo \ {z}
       /\ reaping' = NoThread
       /\ UNCHANGED <<clk, qclks, qreq, stop, qpc, live, status, req,
                      tclks, lg, ncommit, pc>>

ReapDone ==
    /\ qpc = "reap" /\ reaping = NoThread /\ todo = {}
    /\ qpc' = "help"
    /\ UNCHANGED <<clk, qclks, qreq, stop, todo, reaping, live, zombies,
                   mem, status, req, tclks, lg, ncommit, pc>>

\* qp_help_reclaim_log serves every live thread's pending requests under
\* the live list lock; qp_reclaim_barrier then finds none pending.  What
\* follows the barrier, __last_ckpt and the freeing of tombstoned masters,
\* is TSCkptLog's and TSDurable's.
QpHelp ==
    LET helped == {t \in live : req[t] # NoReq}
        idle(t) == [log |-> lg[t], tvr |-> 0, ckr |-> 0]
        opts == [t \in Threads |-> IF t \in helped THEN Serve(lg[t], req[t], tclks[t])
                                   ELSE {idle(t)}]
    IN /\ qpc = "help"
       /\ \E outs \in [Threads -> UNION {opts[t] : t \in Threads}] :
             /\ \A t \in Threads : outs[t] \in opts[t]
             /\ lg' = [t \in Threads |-> outs[t].log]
             /\ qreq' = Raise(qreq, {outs[t] : t \in Threads})
       /\ req' = [t \in Threads |-> IF t \in helped THEN NoReq ELSE req[t]]
       /\ qpc' = "loop"
       /\ UNCHANGED <<clk, qclks, stop, todo, reaping, live, zombies, mem,
                      status, tclks, ncommit, pc>>

\* ts_finish, once every thread is done: finish_qp_thread sets
\* stop_requested and waits for the QP thread to exit.
Stop ==
    /\ ~stop /\ \A t \in Threads : pc[t] = "done"
    /\ stop' = TRUE
    /\ UNCHANGED <<clk, qclks, qreq, qpc, todo, reaping, live, zombies,
                   mem, status, req, tclks, lg, ncommit, pc>>

\* After the QP thread exited nothing is left to run.
Terminated ==
    /\ qpc = "exited" /\ \A t \in Threads : pc[t] = "done"
    /\ UNCHANGED vars

QpStep == QpExit \/ QpDetect \/ (\E z \in Threads : ReapLogs(z)) \/ ReapCheck
          \/ ReapDone \/ QpHelp

\* The steps thread_wrapper takes once f has returned.
Leave(t) == FinishReclaim(t) \/ Deregister(t) \/ FreeMark(t) \/ FreeCheck(t)
            \/ PortFree(t)

Worker(t) == ThreadInit(t) \/ Commit(t) \/ WorkerReclaim(t) \/ Flush(t) \/ Leave(t)

Next == QpStep \/ (\E t \in Threads : Worker(t)) \/ Stop \/ Terminated

\* The QP thread is a dedicated thread that always runs its loop; once f
\* returns, the rest of thread_wrapper runs straight through (the list
\* locks are spin locks that are released).  Neither f's return nor the
\* application's call to ts_finish is assumed to happen.  A thread inside
\* ts_flush_log runs its loops; whether it calls it is f's choice.
AfterRun(t) == Deregister(t) \/ FreeMark(t) \/ FreeCheck(t) \/ PortFree(t)

InFlush(t) == pc[t] \in FlushPcs /\ Flush(t)

\* The two are never enabled together (their pcs differ), so weak fairness
\* of the disjunction is weak fairness of each.
Unforced(t) == AfterRun(t) \/ InFlush(t)

Spec == Init /\ [][Next]_vars /\ WF_vars(QpStep)
        /\ \A t \in Threads : WF_vars(Unforced(t))

-----------------------------------------------------------------------------

Logs == [tv : Seq(Nat), tvprev : Nat, ck : Seq(Nat), ckprev : Nat]

TypeOK ==
    /\ clk \in Nat /\ qclks \in [ClkFields -> Nat]
    /\ qreq \in [tvlog : TvReqs, ckptlog : CkReqs]
    /\ stop \in BOOLEAN /\ qpc \in {"loop", "reap", "help", "exited"}
    /\ todo \subseteq zombies /\ reaping \in Threads \cup {NoThread}
    /\ live \subseteq Threads /\ zombies \subseteq Threads
    /\ mem \in [Threads -> {"none", "alloc", "freed"}]
    /\ status \in [Threads -> LiveStatus]
    /\ req \in [Threads -> [tvlog : TvReqs, ckptlog : CkReqs]]
    /\ tclks \in [Threads -> [TClkFields -> Nat]]
    /\ lg \in [Threads -> Logs] /\ \A t \in Threads : lg[t].tvprev <= Len(lg[t].tv)
                                              /\ lg[t].ckprev <= Len(lg[t].ck)
    /\ ncommit \in [Threads -> 0 .. MaxCommits]
    /\ pc \in [Threads -> {"init", "run", "deregister", "free",
                           "fcheck", "portfree", "done"} \cup FlushPcs]

\* No thread struct is used after port_free: every thread on the zombie
\* list, being reaped, or inside its own ts_thread_free past the
\* DEAD_ZOMBIE store, is still allocated.  ts_thread_free (timestone.c)
\* frees a struct as soon as both its logs read empty, whether or not it
\* is still on the zombie list that qp_reap_zombie_threads walks and frees
\* from.
NoUseAfterFree ==
    \A t \in Threads :
        (t \in zombies \/ t = reaping \/ pc[t] \in {"fcheck", "portfree"})
            => mem[t] = "alloc"

\* When the QP thread exits, ts_finish has nothing left behind: every
\* thread struct was freed and no entry is left in any tvlog or ckptlog,
\* so every checkpointed master was written back.  It rests on
\* ts_thread_finish keeping a thread with either log in use as a zombie,
\* and on the stop-time RECLAIM_TVLOG_CKPT and WRITEBACK_ALL requests.
ExitClean ==
    qpc = "exited" =>
        \A t \in Threads : mem[t] = "freed" /\ lg[t].tv = <<>> /\ lg[t].ck = <<>>

\* Once ts_finish requests the stop, the QP thread exits: the zombies'
\* logs drain through the two-phase reclamation of each log and the
\* zombies are reaped, within a bounded number of QP rounds.
StopTerminates == stop ~> qpc = "exited"

\* A thread inside ts_flush_log eventually returns from it.  The spins end
\* only when the thread itself sees its request set, and the QP thread's
\* help clears it in the same round, so this needs the thread to be
\* scheduled inside that window, which weak fairness does not give.
FlushTerminates == \A t \in Threads : pc[t] \in FlushPcs ~> pc[t] = "run"

====

