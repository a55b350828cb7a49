------------------------------- MODULE TSTxn -------------------------------
(***************************************************************************)
(* The TimeStone transaction runtime of lib/TSOpLog: ts_begin, ts_deref,   *)
(* _ts_try_lock, ts_end and ts_abort (timestone.c), the per-thread TVLog   *)
(* write set and its commit and abort (tvlog.c), and the write-clock read  *)
(* of a copy that may be in the middle of its commit (clock.h).           *)
(*                                                                         *)
(* clock.h has two clocks.  The counter clock (no TS_ORDO_TIMESTAMPING) is *)
(* g_wrt_clk: get_clock reads it, new_clock returns g_wrt_clk + 1 and      *)
(* advance_clock adds one.  The ordo clock, which config.h selects, is a   *)
(* synchronised TSC read by ordo_clock.h, a file not in the repository: it *)
(* is modelled with a zero boundary as a clock every read of which returns *)
(* a value larger than every earlier read, and advance_clock does nothing. *)
(* OrdoClock chooses between the two; g_wrt_clk holds the last value read  *)
(* from the ordo clock.                                                    *)
(*                                                                         *)
(* A copy is named by its place in its thread's TVLog, <<thread, index>>,  *)
(* with index the entry count tail_cnt had when the copy was allocated.    *)
(* Object contents are left out: a version is identified by its copy, and  *)
(* the history variables reads and commits record which version a          *)
(* transaction read and which versions were committed, with their clocks.  *)
(* TVLog reclamation, checkpointing and the OpLog are not part of this     *)
(* module: the TVLog is large enough for every bounded run.                *)
(***************************************************************************)
EXTENDS Integers, FiniteSets

CONSTANTS
    Threads,    \* threads registered with ts_thread_init
    OrdoClock,  \* TRUE: the ordo clock; FALSE: the counter clock
    Writers,    \* the threads whose transactions call ts_try_lock
    Objects,    \* actual objects allocated by ts_alloc
    NULL,       \* the NULL pointer
    MaxTxns,    \* bound: transactions (attempts included) a thread begins
    MaxOps,     \* bound: ts_deref and ts_try_lock calls per transaction
    LogSize     \* TVLog entries per thread; never exhausted in a bounded run

ASSUME OrdoClock \in BOOLEAN
ASSUME Writers \subseteq Threads
ASSUME LogSize >= MaxTxns * (1 + MaxOps)

\* MIN_VERSION and MAX_VERSION of timestone_i.h; MAX_VERSION stands for
\* ULONG_MAX - 1 and exceeds every clock value a bounded run reaches.
MIN_VERSION == 0
MAX_VERSION == 2 * Cardinality(Threads) * MaxTxns + 1

\* ordo_get_clock: each read of the ordo clock moves it past every value
\* read before; reading the counter clock leaves it as it is.
OrdoTick == IF OrdoClock THEN 1 ELSE 0

Idx == 0 .. LogSize - 1
CopyIds == Threads \X Idx

\* TVLog entries (ts_cpy_hdr_struct_t): a write set header (TYPE_WRT_SET)
\* or a copy (TYPE_COPY).  An entry no live transaction owns is NoEntry.
NoEntry == [type |-> "none"]
WsEntry == [type |-> "ws", pending |-> MAX_VERSION, wrt |-> MAX_VERSION]

VARIABLES
    g_wrt_clk,    \* the counter clock, or the last ordo clock reading
    p_copy,       \* object -> head of its version chain (ts_act_vhdr_t)
    p_lock,       \* object -> the copy that locks it
    has_vhdr,     \* object -> whether its volatile header is allocated
    tvlog,        \* thread -> index -> TVLog entry
    tail_cnt,     \* thread -> tvlog->tail_cnt
    cur_wrt_set,  \* thread -> index of the current write set, or NULL
    local_clk,    \* thread -> self->local_clk
    pc,           \* thread -> where the thread is
    n_txns,       \* thread -> transactions begun
    n_ops,        \* thread -> calls made in the current transaction
    tgt,          \* thread -> object of the current deref or try_lock
    cursor,       \* thread -> copy visited by the ts_deref walk
    old_copy,     \* thread -> p_old_copy read by _ts_try_lock
    new_clk,      \* thread -> value of new_clock() before it is stored
    iter,         \* thread -> write set entry visited by a commit loop
    reads,        \* history: versions returned by ts_deref
    commits       \* history: versions committed by tvlog_commit

vars == <<g_wrt_clk, p_copy, p_lock, has_vhdr, tvlog, tail_cnt, cur_wrt_set,
          local_clk, pc, n_txns, n_ops, tgt, cursor, old_copy, new_clk, iter,
          reads, commits>>

Chs(c) == tvlog[c[1]][c[2]]
WsOf(c) == tvlog[c[1]][Chs(c).ws]

\* get_wrt_clk (clock.h): the write clock of a copy that may be committing.
\* A copy whose write set has a pending clock not above local_clk, but no
\* published wrt_clk yet, makes the caller spin: MustWait.
MustWait(c, lclk) ==
    /\ Chs(c).wrt = MAX_VERSION
    /\ WsOf(c).pending # MAX_VERSION
    /\ ~(lclk < WsOf(c).pending)
    /\ WsOf(c).wrt = MAX_VERSION

GetWrtClk(c, lclk) ==
    IF Chs(c).wrt # MAX_VERSION THEN Chs(c).wrt
    ELSE IF WsOf(c).pending = MAX_VERSION \/ lclk < WsOf(c).pending
         THEN MAX_VERSION
         ELSE WsOf(c).wrt

\* The copy entries of t's current write set, in log order (ws_for_each).
WsIdx(t) == cur_wrt_set[t] + 1 .. tail_cnt[t] - 1

Init ==
    /\ g_wrt_clk = 0
    /\ p_copy = [o \in Objects |-> NULL]
    /\ p_lock = [o \in Objects |-> NULL]
    /\ has_vhdr = [o \in Objects |-> FALSE]
    /\ tvlog = [t \in Threads |-> [i \in Idx |-> NoEntry]]
    /\ tail_cnt = [t \in Threads |-> 0]
    /\ cur_wrt_set = [t \in Threads |-> NULL]
    /\ local_clk = [t \in Threads |-> 0]
    /\ pc = [t \in Threads |-> "idle"]
    /\ n_txns = [t \in Threads |-> 0]
    /\ n_ops = [t \in Threads |-> 0]
    /\ tgt = [t \in Threads |-> NULL]
    /\ cursor = [t \in Threads |-> NULL]
    /\ old_copy = [t \in Threads |-> NULL]
    /\ new_clk = [t \in Threads |-> 0]
    /\ iter = [t \in Threads |-> 0]
    /\ reads = {}
    /\ commits = {}

Read(t, o, w) == [thread |-> t, txn |-> n_txns[t], obj |-> o,
                  local |-> local_clk[t], wrt |-> w]

CopyEntry(o, ws) ==
    [type |-> "copy", obj |-> o, ws |-> ws, wrt |-> MAX_VERSION,
     next |-> NULL, wrtNext |-> MIN_VERSION, wrtPrev |-> MIN_VERSION]

\* Objects locked by t's current write set.
WsObjs(t) ==
    IF cur_wrt_set[t] = NULL THEN {}
    ELSE {Chs(<<t, i>>).obj : i \in WsIdx(t)}

(***************************************************************************)
(* ts_abort with tvlog_abort: unlock every copy of the write set and roll  *)
(* tail_cnt back to the start of the write set.  The entries past the new  *)
(* tail are garbage no one reads; they are reset to NoEntry.               *)
(***************************************************************************)
AbortTxn(t) ==
    LET start == IF cur_wrt_set[t] = NULL THEN tail_cnt[t] ELSE cur_wrt_set[t]
    IN /\ p_lock' = [o \in Objects |->
                        IF o \in WsObjs(t) THEN NULL ELSE p_lock[o]]
       /\ tail_cnt' = [tail_cnt EXCEPT ![t] = start]
       /\ tvlog' = [tvlog EXCEPT ![t] =
                      [i \in Idx |-> IF i >= start THEN NoEntry
                                     ELSE tvlog[t][i]]]
       /\ cur_wrt_set' = [cur_wrt_set EXCEPT ![t] = NULL]
       /\ pc' = [pc EXCEPT ![t] = "idle"]

Begin_staleClock(t) ==
    /\ pc[t] = "idle"
    /\ n_txns[t] < MaxTxns
    /\ local_clk' = [local_clk EXCEPT ![t] = g_wrt_clk]
    /\ n_txns' = [n_txns EXCEPT ![t] = @ + 1]
    /\ n_ops' = [n_ops EXCEPT ![t] = 0]
    /\ pc' = [pc EXCEPT ![t] = "active"]
    /\ UNCHANGED <<g_wrt_clk, p_copy, p_lock, has_vhdr, tvlog, tail_cnt,
                   cur_wrt_set, tgt, cursor, old_copy, new_clk, iter,
                   reads, commits>>

\* ts_begin: the snapshot is get_clock_relaxed() when the transaction starts.
Begin(t) ==
    /\ pc[t] = "idle"
    /\ n_txns[t] < MaxTxns
    /\ g_wrt_clk' = g_wrt_clk + OrdoTick
    /\ local_clk' = [local_clk EXCEPT ![t] = g_wrt_clk + OrdoTick]
    /\ n_txns' = [n_txns EXCEPT ![t] = @ + 1]
    /\ n_ops' = [n_ops EXCEPT ![t] = 0]
    /\ pc' = [pc EXCEPT ![t] = "active"]
    /\ UNCHANGED <<p_copy, p_lock, has_vhdr, tvlog, tail_cnt,
                   cur_wrt_set, tgt, cursor, old_copy, new_clk, iter,
                   reads, commits>>

\* ts_deref, cases 1 and 2 up to the first copy: an object with no header
\* or an empty chain reads np_cur_act, the original object.
Deref(t, o) ==
    /\ pc[t] = "active"
    /\ n_ops[t] < MaxOps
    /\ n_ops' = [n_ops EXCEPT ![t] = @ + 1]
    /\ \/ /\ ~has_vhdr[o] \/ p_copy[o] = NULL
          /\ reads' = reads \cup {Read(t, o, MIN_VERSION)}
          /\ UNCHANGED <<pc, tgt, cursor>>
       \/ /\ has_vhdr[o]
          /\ p_copy[o] # NULL
          /\ pc' = [pc EXCEPT ![t] = "deref"]
          /\ tgt' = [tgt EXCEPT ![t] = o]
          /\ cursor' = [cursor EXCEPT ![t] = p_copy[o]]
          /\ UNCHANGED reads
    /\ UNCHANGED <<g_wrt_clk, p_copy, p_lock, has_vhdr, tvlog, tail_cnt,
                   cur_wrt_set, local_clk, n_txns, old_copy, new_clk, iter,
                   commits>>

(***************************************************************************)
(* One iteration of the ts_deref walk: return the first copy older than   *)
(* the snapshot, or fall back to np_cur_act at the end of the chain.  The  *)
(* walk also stops when wrt_clk_next < last_ckpt; with no checkpoint       *)
(* last_ckpt is MIN_VERSION and that test never holds.                     *)
(***************************************************************************)
DerefStep(t) ==
    /\ pc[t] = "deref"
    /\ LET c == cursor[t]
           w == GetWrtClk(c, local_clk[t])
       IN /\ ~MustWait(c, local_clk[t])
          /\ \/ /\ w < local_clk[t]
                /\ reads' = reads \cup {Read(t, tgt[t], w)}
                /\ pc' = [pc EXCEPT ![t] = "active"]
                /\ cursor' = [cursor EXCEPT ![t] = NULL]
             \/ /\ ~(w < local_clk[t])
                /\ Chs(c).next = NULL
                /\ reads' = reads \cup {Read(t, tgt[t], MIN_VERSION)}
                /\ pc' = [pc EXCEPT ![t] = "active"]
                /\ cursor' = [cursor EXCEPT ![t] = NULL]
             \/ /\ ~(w < local_clk[t])
                /\ Chs(c).next # NULL
                /\ cursor' = [cursor EXCEPT ![t] = Chs(c).next]
                /\ UNCHANGED <<reads, pc>>
    /\ UNCHANGED <<g_wrt_clk, p_copy, p_lock, has_vhdr, tvlog, tail_cnt,
                   cur_wrt_set, local_clk, n_txns, n_ops, tgt, old_copy,
                   new_clk, iter, commits>>

\* tvlog_append_begin: add the write set header if there is none, and
\* place the copy at tail_cnt without counting it yet.
AppendBegin(t, o) ==
    LET fresh == cur_wrt_set[t] = NULL
        ws == IF fresh THEN tail_cnt[t] ELSE cur_wrt_set[t]
        at == IF fresh THEN tail_cnt[t] + 1 ELSE tail_cnt[t]
    IN /\ tvlog' = [tvlog EXCEPT ![t][ws] = IF fresh THEN WsEntry ELSE @,
                                 ![t][at] = CopyEntry(o, ws)]
       /\ tail_cnt' = [tail_cnt EXCEPT ![t] = at]
       /\ cur_wrt_set' = [cur_wrt_set EXCEPT ![t] = ws]

(***************************************************************************)
(* _ts_try_lock from the read of p_lock to the first test of try_lock_obj: *)
(* fail if the object is locked, or if its newest version is not older     *)
(* than the snapshot; otherwise allocate the copy and go on to the CAS.    *)
(* A failed try_lock makes ts_lock call ts_abort.                          *)
(***************************************************************************)
LockCheck_noClockCheck(t, o) ==
    \/ /\ p_lock[o] # NULL
       /\ AbortTxn(t)
       /\ UNCHANGED old_copy
    \/ /\ p_lock[o] = NULL
       /\ \/ p_copy[o] = NULL
          \/ p_copy[o] # NULL /\ ~MustWait(p_copy[o], local_clk[t])
       /\ AppendBegin(t, o)
       /\ old_copy' = [old_copy EXCEPT ![t] = p_copy[o]]
       /\ pc' = [pc EXCEPT ![t] = "lock"]
       /\ UNCHANGED p_lock

LockCheck(t, o) ==
    \/ /\ p_lock[o] # NULL
       /\ AbortTxn(t)
       /\ UNCHANGED old_copy
    \/ /\ p_lock[o] = NULL
       /\ p_copy[o] # NULL
       /\ ~MustWait(p_copy[o], local_clk[t])
       /\ GetWrtClk(p_copy[o], local_clk[t]) >= local_clk[t]
       /\ AbortTxn(t)
       /\ UNCHANGED old_copy
    \/ /\ p_lock[o] = NULL
       /\ \/ p_copy[o] = NULL
          \/ /\ p_copy[o] # NULL
             /\ ~MustWait(p_copy[o], local_clk[t])
             /\ GetWrtClk(p_copy[o], local_clk[t]) < local_clk[t]
       /\ AppendBegin(t, o)
       /\ old_copy' = [old_copy EXCEPT ![t] = p_copy[o]]
       /\ pc' = [pc EXCEPT ![t] = "lock"]
       /\ UNCHANGED p_lock

\* _ts_try_lock entry: an object without a volatile header first goes
\* through try_alloc_act_vhdr.
TryLock(t, o) ==
    /\ pc[t] = "active"
    /\ t \in Writers
    /\ n_ops[t] < MaxOps
    /\ n_ops' = [n_ops EXCEPT ![t] = @ + 1]
    /\ tgt' = [tgt EXCEPT ![t] = o]
    /\ \/ /\ ~has_vhdr[o]
          /\ pc' = [pc EXCEPT ![t] = "alloc"]
          /\ UNCHANGED <<p_lock, tvlog, tail_cnt, cur_wrt_set, old_copy>>
       \/ /\ has_vhdr[o]
          /\ LockCheck(t, o)
    /\ UNCHANGED <<g_wrt_clk, p_copy, has_vhdr, local_clk, n_txns, cursor,
                   new_clk, iter, reads, commits>>

\* try_alloc_act_vhdr: the CAS fails if another thread allocated the
\* header since _ts_try_lock looked, and then the try_lock fails.
TryAllocVhdr(t) ==
    /\ pc[t] = "alloc"
    /\ \/ /\ has_vhdr[tgt[t]]
          /\ AbortTxn(t)
          /\ UNCHANGED <<has_vhdr, old_copy>>
       \/ /\ ~has_vhdr[tgt[t]]
          /\ has_vhdr' = [has_vhdr EXCEPT ![tgt[t]] = TRUE]
          /\ LockCheck(t, tgt[t])
    /\ UNCHANGED <<g_wrt_clk, p_copy, local_clk, n_txns, n_ops, tgt, cursor,
                   new_clk, iter, reads, commits>>

(***************************************************************************)
(* try_lock_obj from the CAS on p_lock: a lost CAS fails; a won CAS whose  *)
(* chain head moved since it was read (ABA) unlocks and fails; otherwise   *)
(* tvlog_append_end counts the copy and the transaction goes on.           *)
(***************************************************************************)
LockCas_noAba(t) ==
    LET o == tgt[t] IN
    /\ pc[t] = "lock"
    /\ \/ /\ p_lock[o] # NULL
          /\ AbortTxn(t)
       \/ /\ p_lock[o] = NULL
          /\ p_lock' = [p_lock EXCEPT ![o] = <<t, tail_cnt[t]>>]
          /\ tail_cnt' = [tail_cnt EXCEPT ![t] = @ + 1]
          /\ pc' = [pc EXCEPT ![t] = "active"]
          /\ UNCHANGED <<tvlog, cur_wrt_set>>
    /\ UNCHANGED <<g_wrt_clk, p_copy, has_vhdr, local_clk, n_txns, n_ops, tgt,
                   cursor, old_copy, new_clk, iter, reads, commits>>

LockCas(t) ==
    LET o == tgt[t] IN
    /\ pc[t] = "lock"
    /\ \/ /\ p_lock[o] # NULL \/ p_copy[o] # old_copy[t]
          /\ AbortTxn(t)
       \/ /\ p_lock[o] = NULL
          /\ p_copy[o] = old_copy[t]
          /\ p_lock' = [p_lock EXCEPT ![o] = <<t, tail_cnt[t]>>]
          /\ tail_cnt' = [tail_cnt EXCEPT ![t] = @ + 1]
          /\ pc' = [pc EXCEPT ![t] = "active"]
          /\ UNCHANGED <<tvlog, cur_wrt_set>>
    /\ UNCHANGED <<g_wrt_clk, p_copy, has_vhdr, local_clk, n_txns, n_ops, tgt,
                   cursor, old_copy, new_clk, iter, reads, commits>>

\* ts_end: snapshot isolation has no read set to validate; a writer
\* enters tvlog_commit, a reader is done.
End(t) ==
    /\ pc[t] = "active"
    /\ \/ /\ cur_wrt_set[t] = NULL
          /\ pc' = [pc EXCEPT ![t] = "idle"]
          /\ UNCHANGED iter
       \/ /\ cur_wrt_set[t] # NULL
          /\ pc' = [pc EXCEPT ![t] = "move"]
          /\ iter' = [iter EXCEPT ![t] = cur_wrt_set[t] + 1]
    /\ UNCHANGED <<g_wrt_clk, p_copy, p_lock, has_vhdr, tvlog, tail_cnt,
                   cur_wrt_set, local_clk, n_txns, n_ops, tgt, cursor,
                   old_copy, new_clk, reads, commits>>

(***************************************************************************)
(* tvlog_commit, one step per shared-memory update.                        *)
(* ws_move_lock_to_copy, one copy per step: link the copy at the head of   *)
(* its chain (the CAS cannot fail while the copy holds the lock).          *)
(***************************************************************************)
MoveLockToCopy_noNext(t) ==
    LET i == iter[t]
        o == tvlog[t][i].obj
        old == p_copy[o]
    IN /\ pc[t] = "move"
       /\ tvlog' = [tvlog EXCEPT
                      ![t][i].next = old,
                      ![t][i].wrtNext = MIN_VERSION,
                      ![t][i].wrtPrev = MAX_VERSION]
       /\ p_copy' = [p_copy EXCEPT ![o] = <<t, i>>]
       /\ iter' = [iter EXCEPT ![t] = i + 1]
       /\ pc' = [pc EXCEPT ![t] = IF i + 1 = tail_cnt[t] THEN "clock"
                                  ELSE "move"]
       /\ UNCHANGED <<g_wrt_clk, p_lock, has_vhdr, tail_cnt, cur_wrt_set,
                      local_clk, n_txns, n_ops, tgt, cursor, old_copy,
                      new_clk, reads, commits>>

MoveLockToCopy(t) ==
    LET i == iter[t]
        o == tvlog[t][i].obj
        old == p_copy[o]
    IN /\ pc[t] = "move"
       /\ tvlog' = [tvlog EXCEPT
                      ![t][i].next = old,
                      ![t][i].wrtNext = IF old = NULL THEN MIN_VERSION
                                        ELSE Chs(old).wrt,
                      ![t][i].wrtPrev = MAX_VERSION]
       /\ p_copy' = [p_copy EXCEPT ![o] = <<t, i>>]
       /\ iter' = [iter EXCEPT ![t] = i + 1]
       /\ pc' = [pc EXCEPT ![t] = IF i + 1 = tail_cnt[t] THEN "clock"
                                  ELSE "move"]
       /\ UNCHANGED <<g_wrt_clk, p_lock, has_vhdr, tail_cnt, cur_wrt_set,
                      local_clk, n_txns, n_ops, tgt, cursor, old_copy,
                      new_clk, reads, commits>>

\* new_clock(local_clk) returns g_wrt_clk + 1 (counter clock), or a fresh
\* reading of the ordo clock, which exceeds local_clk ...
NewClock(t) ==
    /\ pc[t] = "clock"
    /\ new_clk' = [new_clk EXCEPT ![t] = g_wrt_clk + 1]
    /\ g_wrt_clk' = g_wrt_clk + OrdoTick
    /\ pc' = [pc EXCEPT ![t] = "pending"]
    /\ UNCHANGED <<p_copy, p_lock, has_vhdr, tvlog, tail_cnt,
                   cur_wrt_set, local_clk, n_txns, n_ops, tgt, cursor,
                   old_copy, iter, reads, commits>>

\* ... and smp_atomic_store writes it to pending_wrt_clk afterwards.
StorePending(t) ==
    /\ pc[t] = "pending"
    /\ tvlog' = [tvlog EXCEPT ![t][cur_wrt_set[t]].pending = new_clk[t]]
    /\ pc' = [pc EXCEPT ![t] = "advance"]
    /\ UNCHANGED <<g_wrt_clk, p_copy, p_lock, has_vhdr, tail_cnt,
                   cur_wrt_set, local_clk, n_txns, n_ops, tgt, cursor,
                   old_copy, new_clk, iter, reads, commits>>

\* advance_clock: fetch-and-add on g_wrt_clk; nothing for the ordo clock.
AdvanceClock(t) ==
    /\ pc[t] = "advance"
    /\ g_wrt_clk' = g_wrt_clk + 1 - OrdoTick
    /\ pc' = [pc EXCEPT ![t] = "publish"]
    /\ UNCHANGED <<p_copy, p_lock, has_vhdr, tvlog, tail_cnt,
                   cur_wrt_set, local_clk, n_txns, n_ops, tgt, cursor,
                   old_copy, new_clk, iter, reads, commits>>

\* Mutant: the store of the write set's wrt_clk is left out.
Publish_noWrt(t) ==
    LET ws == cur_wrt_set[t]
        w == tvlog[t][ws].pending
    IN /\ pc[t] = "publish"
       /\ commits' = commits \cup
             {[thread |-> t, txn |-> n_txns[t], obj |-> tvlog[t][i].obj,
               local |-> local_clk[t], wrt |-> w] : i \in WsIdx(t)}
       /\ iter' = [iter EXCEPT ![t] = ws + 1]
       /\ pc' = [pc EXCEPT ![t] = "unlock"]
       /\ UNCHANGED <<g_wrt_clk, p_copy, p_lock, has_vhdr, tvlog, tail_cnt,
                      cur_wrt_set, local_clk, n_txns, n_ops, tgt, cursor,
                      old_copy, new_clk, reads>>

\* oplog_enq and oplog_enq_persist, then the store of wrt_clk that makes
\* the write set committed: every copy of it is a committed version.
Publish(t) ==
    LET ws == cur_wrt_set[t]
        w == tvlog[t][ws].pending
    IN /\ pc[t] = "publish"
       /\ tvlog' = [tvlog EXCEPT ![t][ws].wrt = w]
       /\ commits' = commits \cup
             {[thread |-> t, txn |-> n_txns[t], obj |-> tvlog[t][i].obj,
               local |-> local_clk[t], wrt |-> w] : i \in WsIdx(t)}
       /\ iter' = [iter EXCEPT ![t] = ws + 1]
       /\ pc' = [pc EXCEPT ![t] = "unlock"]
       /\ UNCHANGED <<g_wrt_clk, p_copy, p_lock, has_vhdr, tail_cnt,
                      cur_wrt_set, local_clk, n_txns, n_ops, tgt, cursor,
                      old_copy, new_clk, reads>>

(***************************************************************************)
(* ws_unlock_commit, three steps per copy in the code's order: mark        *)
(* __wrt_clk (tvlog.c:311), release the lock with its CAS (:317), and set  *)
(* wrt_clk_prev of the version the copy replaced (:328).  After the last   *)
(* copy tvlog_commit clears cur_wrt_set and ts_end finishes the            *)
(* transaction.                                                            *)
(***************************************************************************)
UnlockMark(t) ==
    LET i == iter[t] IN
    /\ pc[t] = "unlock"
    /\ tvlog' = [tvlog EXCEPT ![t][i].wrt = tvlog[t][cur_wrt_set[t]].wrt]
    /\ pc' = [pc EXCEPT ![t] = "unlock_cas"]
    /\ UNCHANGED <<g_wrt_clk, p_copy, p_lock, has_vhdr, tail_cnt, cur_wrt_set,
                   local_clk, n_txns, n_ops, tgt, cursor, iter, old_copy,
                   new_clk, reads, commits>>

UnlockCas(t) ==
    /\ pc[t] = "unlock_cas"
    /\ p_lock' = [p_lock EXCEPT ![tvlog[t][iter[t]].obj] = NULL]
    /\ pc' = [pc EXCEPT ![t] = "unlock_prev"]
    /\ UNCHANGED <<g_wrt_clk, p_copy, tvlog, has_vhdr, tail_cnt, cur_wrt_set,
                   local_clk, n_txns, n_ops, tgt, cursor, iter, old_copy,
                   new_clk, reads, commits>>

\* The last copy done, tvlog_commit clears cur_wrt_set.
AfterLastCopy(t, last) ==
    /\ iter' = [iter EXCEPT ![t] = iter[t] + 1]
    /\ pc' = [pc EXCEPT ![t] = IF last THEN "idle" ELSE "unlock"]

UnlockPrev_noPrev(t) ==
    LET last == iter[t] + 1 = tail_cnt[t] IN
    /\ pc[t] = "unlock_prev"
    /\ AfterLastCopy(t, last)
    /\ cur_wrt_set' = [cur_wrt_set EXCEPT ![t] = IF last THEN NULL ELSE @]
    /\ UNCHANGED <<g_wrt_clk, p_copy, p_lock, tvlog, has_vhdr, tail_cnt,
                   local_clk, n_txns, n_ops, tgt, cursor, old_copy, new_clk,
                   reads, commits>>

\* p_old_copy's wrt_clk_prev: the version the copy replaced, if any.
SetPrev(t) ==
    LET e == tvlog[t][iter[t]] IN
    tvlog' = IF e.next = NULL THEN tvlog
             ELSE [tvlog EXCEPT ![e.next[1]][e.next[2]].wrtPrev = e.wrt]

UnlockPrev_keepWs(t) ==
    LET last == iter[t] + 1 = tail_cnt[t] IN
    /\ pc[t] = "unlock_prev"
    /\ SetPrev(t)
    /\ AfterLastCopy(t, last)
    /\ UNCHANGED <<g_wrt_clk, p_copy, p_lock, has_vhdr, tail_cnt, cur_wrt_set,
                   local_clk, n_txns, n_ops, tgt, cursor, old_copy, new_clk,
                   reads, commits>>

UnlockPrev(t) ==
    LET last == iter[t] + 1 = tail_cnt[t] IN
    /\ pc[t] = "unlock_prev"
    /\ SetPrev(t)
    /\ AfterLastCopy(t, last)
    /\ cur_wrt_set' = [cur_wrt_set EXCEPT ![t] = IF last THEN NULL ELSE @]
    /\ UNCHANGED <<g_wrt_clk, p_copy, p_lock, has_vhdr, tail_cnt, local_clk,
                   n_txns, n_ops, tgt, cursor, old_copy, new_clk, reads,
                   commits>>

UnlockCommit(t) == UnlockMark(t) \/ UnlockCas(t) \/ UnlockPrev(t)

\* Every thread has run its transactions: the program has finished.
Terminated ==
    /\ \A t \in Threads : pc[t] = "idle" /\ n_txns[t] = MaxTxns
    /\ UNCHANGED vars

Next ==
    \/ \E t \in Threads :
          \/ Begin(t)
          \/ \E o \in Objects : Deref(t, o) \/ TryLock(t, o)
          \/ DerefStep(t) \/ TryAllocVhdr(t) \/ LockCas(t) \/ End(t)
          \/ MoveLockToCopy(t) \/ NewClock(t) \/ StorePending(t)
          \/ AdvanceClock(t) \/ Publish(t) \/ UnlockCommit(t)
    \/ Terminated

Spec == Init /\ [][Next]_vars

\* The steps of one application thread.
ThreadStep(t) ==
    \/ Begin(t)
    \/ \E o \in Objects : Deref(t, o) \/ TryLock(t, o)
    \/ DerefStep(t) \/ TryAllocVhdr(t) \/ LockCas(t) \/ End(t)
    \/ MoveLockToCopy(t) \/ NewClock(t) \/ StorePending(t)
    \/ AdvanceClock(t) \/ Publish(t) \/ UnlockCommit(t)

\* Each application thread is an OS thread that the scheduler keeps
\* running: a step it can take and keeps being able to take is taken.
LiveSpec == Spec /\ \A t \in Threads : WF_vars(ThreadStep(t))

-----------------------------------------------------------------------------
(* Properties *)

\* Types, and the assertion of ts_begin and ts_end that a thread outside
\* a transaction has no current write set (tvlog_commit and tvlog_abort
\* clear it).
TypeOK ==
    /\ g_wrt_clk \in 0 .. MAX_VERSION - 1
    /\ p_copy \in [Objects -> CopyIds \cup {NULL}]
    /\ p_lock \in [Objects -> CopyIds \cup {NULL}]
    /\ has_vhdr \in [Objects -> BOOLEAN]
    /\ tail_cnt \in [Threads -> 0 .. LogSize]
    /\ cur_wrt_set \in [Threads -> Idx \cup {NULL}]
    /\ local_clk \in [Threads -> 0 .. MAX_VERSION - 1]
    /\ pc \in [Threads -> {"idle", "active", "deref", "alloc", "lock", "move",
                           "clock", "pending", "advance", "publish", "unlock",
                           "unlock_cas", "unlock_prev"}]
    /\ cursor \in [Threads -> CopyIds \cup {NULL}]
    /\ \A t \in Threads : pc[t] = "idle" => cur_wrt_set[t] = NULL
    /\ \A t \in Threads, i \in Idx :
          tvlog[t][i].type \in {"none", "ws", "copy"}

\* Copies linked into a version chain by ws_move_lock_to_copy.
Linked(c) == Chs(c).type = "copy" /\ Chs(c).next # NULL

(***************************************************************************)
(* Snapshot read (ts_deref with get_wrt_clk): a ts_deref returns a version *)
(* committed before the snapshot (or the original object, MIN_VERSION),    *)
(* and no version of that object committed  *)
(* between it and the snapshot, including versions whose commit was still  *)
(* in progress when the read happened and completed later.                 *)
(***************************************************************************)
SnapshotRead ==
    \A r \in reads :
        /\ r.wrt = MIN_VERSION \/ r.wrt < r.local
        /\ ~\E c \in commits :
               c.obj = r.obj /\ r.wrt < c.wrt /\ c.wrt < r.local

(***************************************************************************)
(* A thread reads its own committed writes (ts_end returns only after      *)
(* tvlog_commit published the write clock): a ts_deref of an object in a   *)
(* later transaction of the same thread returns that version or a newer    *)
(* one.                                                                    *)
(***************************************************************************)
ReadYourCommits ==
    \A r \in reads, c \in commits :
        (c.thread = r.thread /\ c.txn < r.txn /\ c.obj = r.obj)
            => c.wrt <= r.wrt

(***************************************************************************)
(* First committer wins (the gte_clock test of _ts_try_lock, "to maintain  *)
(* a linear version history"): no two committed transactions that wrote    *)
(* the same object overlap, i.e. no version of an object was committed     *)
(* after the snapshot of another writer of that object and before it.      *)
(***************************************************************************)
FirstCommitterWins ==
    \A a, b \in commits :
        (a.obj = b.obj /\ a # b) => ~(a.local <= b.wrt /\ b.wrt < a.wrt)

\* The copy c is between its __wrt_clk mark and the store of the replaced
\* version's wrt_clk_prev (tvlog.c:311-328), its lock possibly released.
PrevPending(c) ==
    pc[c[1]] \in {"unlock_cas", "unlock_prev"} /\ iter[c[1]] = c[2]

(***************************************************************************)
(* Version chains are linear (ws_move_lock_to_copy, ws_unlock_commit): the *)
(* version a chain copy replaced is committed, its clock is the copy's     *)
(* wrt_clk_next, it is older than the copy's pending and final clock, and  *)
(* once the copy is marked, the replaced version's wrt_clk_prev is         *)
(* MAX_VERSION until the committer's store at tvlog.c:328 and the copy's   *)
(* clock from then on, even when the next writer has taken the released    *)
(* lock and linked its own copy in between.  The best-effort TVLog         *)
(* reclamation (tvlog.c:663) reads MAX_VERSION as "not reclaimable".       *)
(***************************************************************************)
ChainLinear ==
    \A c \in CopyIds :
        Linked(c) =>
            LET n == Chs(c).next IN
            /\ Chs(n).wrt # MAX_VERSION
            /\ Chs(c).wrtNext = Chs(n).wrt
            /\ WsOf(c).pending # MAX_VERSION => Chs(n).wrt < WsOf(c).pending
            /\ Chs(c).wrt # MAX_VERSION =>
                  Chs(n).wrtPrev = IF PrevPending(c) THEN MAX_VERSION
                                                     ELSE Chs(c).wrt

(***************************************************************************)
(* A thread that get_wrt_clk makes spin (clock.h:95: the copy's write set  *)
(* has a pending clock not above the snapshot and no published wrt_clk),   *)
(* in ts_deref's walk or in try_alloc_act_vhdr's _ts_try_lock, gets past   *)
(* the spin: the committer it waits for publishes wrt_clk without waiting  *)
(* on the reader, so the ts_deref returns and the try_lock succeeds or     *)
(* aborts.                                                                 *)
(***************************************************************************)
WaitEnds ==
    \A t \in Threads :
        pc[t] \in {"deref", "alloc"} ~> pc[t] \in {"active", "idle"}
=============================================================================
