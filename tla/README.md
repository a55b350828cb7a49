# TLA+ models of PRISM / TimeStone (lib/TSOpLog)

This directory holds TLA+ models of PRISM's key-value write path and of the
transaction engine PRISM is built on, the TimeStone multi-version STM in
`src/PRISM/lib/TSOpLog`. It
also holds the TLC configurations that check them. Every definition is
written from the C source. `PROJECT.json` maps each definition to the
lines it models.

## The system

TimeStone keeps each persistent object as an *actual* object in NVM.

* **Volatile header.** An object's DRAM header (`ts_act_vhdr_t`) holds:
  * `p_copy`, the head of a version chain of copies;
  * `p_lock`, a lock token: the copy that is about to replace the head;
  * `np_cur_act`, the last checkpointed or original version.
* **TransactionRuntime** (`timestone.c`, driven by `ts::run` in
  `include/timestone++.hpp`):
  * `ts_begin` takes a snapshot clock `local_clk`.
  * `ts_deref` walks the version chain and returns the first copy whose
    write clock is below `local_clk`. It falls back to `np_cur_act`.
  * `_ts_try_lock` allocates the header on first use. It refuses objects
    that are locked or whose newest version is not older than the
    snapshot. It then appends a copy to the thread's TVLog and takes the
    lock by CAS, checking for ABA.
  * `ts_end` commits. `ts_abort` rolls back, and `ts::run` retries.
* **TVLog** (`tvlog.c`) is a per-thread DRAM ring of write-set headers and
  copies. `tvlog_commit` runs these steps in order:
  1. link each copy at the head of its chain (`ws_move_lock_to_copy`);
  2. compute `new_clock()` and store it in `pending_wrt_clk`;
  3. `advance_clock()`;
  4. append the operation to the OpLog and persist it;
  5. publish `wrt_clk`;
  6. for each copy, mark `__wrt_clk`, unlock, and set `wrt_clk_prev` of
     the replaced version (`ws_unlock_commit`).

  A reader that meets a copy whose write set has a pending clock at or
  below its snapshot spins until `wrt_clk` is published (`get_wrt_clk`,
  `clock.h`).
* **Clock** (`clock.h`): there are two implementations.
  * The counter clock is `g_wrt_clk`. `new_clock` is `g_wrt_clk + 1` and
    `advance_clock` increments it.
  * The ordo clock is a synchronised TSC. `config.h` selects it, but its
    header `ordo_clock.h` is not in the repository.
* **Isolation** (`isolation.h`): the serializable and linearizable
  read-set code is compiled out. Only snapshot isolation exists, and read
  validation always succeeds.
* **QP thread** (`qp.c`, `__qp_thread_main`). It repeats a grace-period
  detection:
  * `qp_detect` reads the clock as `qp0`;
  * `qp_init` samples each thread's `run_cnt`, which is odd inside a
    transaction;
  * `qp_wait` waits until each sampled thread has left that transaction
    or began one at or after `qp0`.

  When a thread has asked for reclamation (`_request_reclaim`, by CAS,
  only upward from best effort 0x10 to checkpoint 0x11), the QP thread
  does the following:
  1. it swaps the request out;
  2. `qp_trigger_reclaim` copies its clocks (`qp0`, `__last_ckpt`) to
     every thread and then the request;
  3. `qp_help_reclaim_log` reclaims for threads that are idle;
  4. `qp_reclaim_barrier` waits until every thread has reclaimed;
  5. after a checkpointing round, `qp0` becomes `__last_ckpt`.
* **TVLog reclamation** (`tvlog_reclaim_x`), run by a thread at a
  transaction boundary (`try_reclaim_logs`) or by the QP thread's help.
  It has two steps:
  * Step 1 frees the entries from `head` up to `prev_head`. It stops at a
    write set that is not yet committed and, in best-effort mode, at a
    copy replaced at or after `qp0`.
  * Step 2 goes on over copies older than `qp0`. For each *borderline*
    copy, the last version of its object before `qp0`:
    * a checkpointing round writes it back (`ckptlog_enq`, which makes it
      the master `np_cur_act`) and detaches it from the chain when it is
      still the newest (`try_detach_obj`);
    * a best-effort round stops there.

  Step 2's end becomes `prev_head`, so those copies are freed by the next
  round. `ts_begin` blocks at the high watermark (75%) until reclamation
  frees space. `tvlog_commit` asks for best effort above 50% and for a
  checkpoint above 75%.
* **CheckpointLog** (`ckptlog.c`): one NVLog ring per thread, filled by
  step 2 of checkpointing rounds. Above its low mark (62.5%) it asks for a
  best-effort reclamation, above its high mark (75%) for a write-back.
  `ckptlog_reclaim_x` frees the entries passed by the previous pass, then
  walks entries with `ckpt_s <= __qp2` and copies each one that is still
  its object's master `np_cur_act` onto the original `np_org_act`.
* **Recovery** (`recovery.c`): checkpoint-log entries up to the persisted
  `last_ckpt_clk` rebuild the masters, and valid OpLog entries are
  replayed on top of them.
* **PRISM** (`src/PRISM/src`) puts a key-value store on top of these:
  * a key index and a per-thread AddressTable;
  * a double-buffered operation log drained by a reclaim thread into
    ValueStorage (io_uring);
  * a DRAM cache with an LRU list and a cache thread.

## Modules

| module | models |
|---|---|
| `TSTxn` | the transaction runtime, TVLog write sets, commit and abort, version chains, and both clocks |
| `MCTSTxn` | model values and symmetry for TLC |
| `TSQP` | the QP thread, TVLog reclamation and checkpointing, and `ts_deref`'s walk against them |
| `MCTSQP` | model values for TLC |
| `TSDurable` | extends `TSQP` with the persistent logs: the per-thread TimeStone OpLog, the per-thread checkpoint log and the persisted `last_ckpt_clk`, and states what recovery rebuilds from them |
| `MCTSDurable` | model values for TLC |
| `DurableCkpt` | the abstract durable checkpoint: committed versions, the checkpoint clock and the image recovery rebuilds; `TSDurable` refines it |
| `TSCkptLog` | the checkpoint logs and `ckptlog_reclaim_x`, with the QP rounds that hand out its requests and the stop request that flushes every log; the TVLog side is abstracted to commits and borderline versions |
| `MCTSCkptLog` | model values for TLC |
| `TSThreads` | the life of a thread struct (`ts_thread_alloc`/`init`, transactions, `ts_flush_log`, `ts_thread_finish`, `ts_thread_free`) against the QP thread's zombie list, its reaping, and the stop request of `ts_finish`; each log is its entries' clocks and the two-pass reclamation of each |
| `MCTSThreads` | model values for TLC |
| `TSReplay` | TimeStone's OpLog replay after a crash (`recovery.c`): the OpLog entries of the crashed run, their collection and `qsort` into the replay array, and the replay loop with its thread pool (`ptrset` of `util.h`) |
| `MCTSReplay` | model values and symmetry for TLC |
| `PrismKV` | PRISM's write path: `MTSImpl::insert`/`update`/`lookup`, the AddressTable, the double-buffered OpLog with its reclaim thread, and the ValueStorage write buffer, chunk write, sync, bitmap and garbage collection |
| `MCPrismKV` | model values for TLC |
| `PrismCache` | PRISM's DRAM cache: the cache thread's `cacheOperation`, `evict_entry` and `freeOperation`, the active and inactive LRU lists, `g_cacheQueue` and `g_cacheFreeQueue`, and the MTS paths that feed them (`lookup`, the IO completion of a ValueStorage read, `update`, `remove`) against the AddressTable's tagged `val_addr` |
| `MCPrismCache` | model values for TLC |

### TSTxn: state

* `p_copy`, `p_lock` and `has_vhdr` per object: the volatile header.
* `tvlog[t][i]`: the entries of thread `t`'s TVLog, each either a write
  set (`pending`, `wrt`) or a copy (`obj`, `ws`, `wrt` = `__wrt_clk`,
  `next` = `cpy_hdr.p_copy`, `wrtNext`, `wrtPrev`). A copy is named
  `<<t, i>>`, its place in the log.
* `tail_cnt`, `cur_wrt_set`, `local_clk` per thread.
* `g_wrt_clk`: the clock.
* `pc` and a few locals per thread: `tgt`, `cursor`, `old_copy`,
  `new_clk`, `iter`.
* Two history variables: `reads` (what each `ts_deref` returned, with the
  snapshot) and `commits` (each committed version with its writer's
  snapshot and commit clock).
* Object contents are abstracted away: a version is identified by its
  clock.

### TSTxn: actions

Each action is one shared-memory step of the code:

* `Begin` is `ts_begin`.
* `Deref` is the entry of `ts_deref`. `DerefStep` visits one chain copy.
* `TryLock` and `TryAllocVhdr` are the entry of `_ts_try_lock` and the
  header allocation race.
* `LockCheck` covers the lock and writer-clock tests and the TVLog
  append.
* `LockCas` is the CAS of `try_lock_obj`, with its ABA recheck.
* `End` is `ts_end`.
* The commit is split into one action per write of `tvlog_commit`:
  `MoveLockToCopy` (per copy), `NewClock`, `StorePending`, `AdvanceClock`,
  `Publish` and `UnlockCommit` (per copy). `new_clock()` and its store are
  separate because the C expression reads the clock and then stores.
* `UnlockCommit` is three steps per copy, because other writers run
  between them: `UnlockMark` stores `__wrt_clk`, `UnlockCas` releases
  `p_lock`, and `UnlockPrev` sets the predecessor's `wrt_clk_prev`
  (`SetPrev`) and moves to the next copy (`AfterLastCopy`). Once the lock
  is released, another writer can link a new copy on top before
  `wrt_clk_prev` is set; TLC reaches that window.
* A failed try-lock runs `AbortTxn`, which is `ts_abort` plus
  `tvlog_abort`. The retry is the next `Begin`.
* The spin-waits of `get_wrt_clk` are guards (`MustWait`).

The constant `OrdoClock` picks the clock:

* **Counter clock** (`FALSE`): `g_wrt_clk` behaves as in `clock.h`.
* **Ordo clock** (`TRUE`): every clock read (`ts_begin`, `new_clock`)
  returns a value above every earlier read, and `advance_clock` does
  nothing. This is a TSC with a zero uncertainty boundary. It is written
  from the spec, because `ordo_clock.h` is absent.

### TSQP: state and actions

`TSQP` is a second model of the same runtime, aimed at reclamation.
It keeps `TSTxn`'s version chains, with these abstractions:

* Each transaction reads one object and, for a thread in `Writers`, tries
  to lock it and write it.
* The commit is two steps. `Link` is `ws_move_lock_to_copy`. `Publish`
  covers `new_clock`, `ws_unlock_commit` and the reclaim requests of
  `tvlog_commit`. The window between those is `TSTxn`'s subject.
* The clock is the ordo clock: every clock read is a new, larger value.

Its state:

* **Per-thread TVLog ring** (`head_cnt`, `prev_head_cnt`, `tail_cnt`, and
  the copies `chs`). A copy is named `<<t, i>>`. A copy below `head_cnt`
  is freed (`Reclaimed`).
* **Per-thread fields:**
  * `run_cnt`;
  * `local_clk`;
  * `clks`, the thread's copy of the QP clocks `qp0` and `__last_ckpt`;
  * `reclaim`, its pending request.
* **QP thread:**
  * `qp_pc`, its phase;
  * `qp_clks`;
  * `qp_reclaim`, the request word;
  * `qp0_clk`, `qp_info` and `req`;
  * `todo`, the threads its current list walk has not visited.
* **Walk state:** `cursor` and `walk_ckpt` of an ongoing `ts_deref`.
* **History variables:** `reads` and `commits`.

Its actions:

* **Worker:**
  * `Begin`: `try_reclaim_logs`, then the watermark test, then
    `run_cnt++`.
  * `BlockedReclaim` and `BlockedSpin`: the blocking loop of
    `tvlog_reclaim_below_high_watermark`.
  * `BeginClk`.
  * `Deref` and `DerefStep`.
  * `TryLock`.
  * `Link`.
  * `Publish`. The OpLog's own checkpoint request is a free choice,
    because the OpLog is not modelled here. `PublishCommit` is the same
    step without that request; `TSDurable` adds the OpLog to it.
  * `End`, which shares `Finish` with the abort path: `run_cnt++` and
    then `try_reclaim_logs`.
* **QP thread:**
  * `QpDetect` and `QpInit` (per thread);
  * `QpWait`, one step, because each thread's exit condition stays true
    once it holds;
  * `QpAdvance`, which also takes the request;
  * `QpTrigger` and `QpHelp` (per thread);
  * `QpBarrier`, with the `__last_ckpt` update.

`ReclaimX` is `tvlog_reclaim_x` as one operator. The two recursive
operators `Step1End` and `Step2End` are its two loops.

### TSDurable: persistent logs and recovery

`TSDurable` extends `TSQP` and adds three variables:
* `oplog[t]`, thread `t`'s OpLog, as a sequence of
  `[obj, local, wrt]` entries, oldest first;
* `ckptlog[t]`, thread `t`'s checkpoint log, as a sequence of
  `[obj, wrt, ckpt_s]` entries;
* `nv_last_ckpt`, the `last_ckpt_clk` of the NVM root. `DInit` sets it
  to `MIN_VERSION`, as `nvm_init_heap` does for a fresh heap.

An NVLog ring is a sequence. `NvlogEnq` (`nvlog_enq` plus
`nvlog_enq_persist`) appends at the tail, and `NvlogDeq` (`nvlog_deq`,
then `nvlog_deq_persist`) removes entries at the head. Byte sizes and wrap-around are left out.
The actions of `TSQP` are wrapped, so that each whole handler has its log
writes:
* `DPublish` is `tvlog_commit` with `oplog_enq` (`OplogEntry`) and
  `oplog_try_request_ckpt_if_needed`. At the high mark it runs
  `oplog_reclaim` and, if the log is still at the mark, requests a
  checkpoint. Otherwise the TVLog watermarks decide.
* `OplogReclaimed` is `oplog_reclaim`. Its comparison reads `last_ckpt`,
  whose assignment is commented out (`oplog.c:102`). The value is
  undefined, so any prefix of the log may be dropped.
* `TsAbort` is a failed `_ts_try_lock` followed by `ts_abort`, which
  calls `oplog_reclaim`. `TryLockOk` is the successful lock.
* `DBegin`, `DBlockedReclaim`, `DEnd`, `DQpHelp` and `TsAbort` may run
  `tvlog_reclaim_x`. `CkptlogEnq` appends every copy that the step
  detaches to its owner's checkpoint log, in TVLog order, with
  `ckpt_s = __qp0` (`ckptlog_enq`, then `ckptlog_enq_persist`).
* `DQpBarrier` is `qp_reclaim_barrier` followed by the persist of
  `__qp0` with `nvlog_set_last_ckpt_clk` after a checkpointing round.
* `Volatile` holds the steps that touch no log.

Recovery is a set of definitions over the persistent state, evaluated
in every state as if the machine crashed there:
* `CkptCut` is the prefix of one checkpoint log up to the first entry
  with `ckpt_s_clk > last_ckpt_clk` (`ckptlog_recovery`).
* `CkptImage` keeps the newest version of each object, as
  `reconstruct_volatile_header` does.
* `ReplayValid` is `is_op_entry_valid`.
* `RecoveredVersion` is the checkpoint image with the valid OpLog
  entries replayed in clock order.

The recovery loops are taken as written after the
`reconstruct_volatile_nvlog` test. That test has inverted polarity
(`recovery.c:88`, `147`, `228`), so the code as it stands returns ENOMEM
before reading any entry. `perform_recovery` and `ts_init` invert their
result checks too. These are listed as hazards. A model of them would
simply restore nothing.

`TSDurable`'s checkpoint logs are never reclaimed: at its bounds they
stay below `TS_CKPTLOG_LOW_MARK`. Their reclamation is `TSCkptLog`'s.

**Refinement.** `DurableCkpt` states what the checkpoint promises with no
logs in it. A commit adds a version with a clock above every earlier one
and above the checkpoint clock. A checkpoint moves the clock forward and,
in the same step, makes the image the version of every object current at
the new clock. `CkptRefinesStore` instantiates it with `last_ckpt` as the
persisted `nv_last_ckpt` and `image` as `CkptImage`, and TLC checks
`Store!ASpec` as a temporal property. Each `TSDurable` step is then one of
three things:
* a stutter of the abstract state, such as step 2 appending entries with
  `ckpt_s` above the persisted clock, which the cut hides;
* a commit;
* the persist in `DQpBarrier`, which is the abstract checkpoint.

### TSCkptLog: checkpoint-log reclamation

State:
* `commits`: the committed versions, with their writer thread.
* `ckptlog[t]`: t's log from its persisted head, as `[obj, wrt, ckpt_s]`.
* `prev_head[t]`: how many entries at the front the last pass went over.
* `np_cur_act`, `np_org_act`: the masters, named by version. `ORG` is
  the original master.
* `qp_clks`: `qp0`, `qp1`, `qp2` and the persisted `last_ckpt`.
* `qp_pc`, `qp_req`, `req`, `reclaim`: the QP thread's phase, its pending
  request, the request it handed out, and each thread's copy of it.
* `stop`: `finish_qp_thread`.

Actions:
* `Commit(t, o)` is `tvlog_commit`. A TVLog or OpLog high-mark request
  for a checkpoint is a free choice.
* `Reclaim(t)` is one `tvlog_reclaim_x` boundary of thread t. Step 2 of a
  checkpointing round appends t's borderline versions (`CkptEntries`).
  `ckptlog_enq_persist` then raises the ckptlog request (`CkptlogRequest`).
  Finally a handed-out ckptlog request runs `ckptlog_reclaim_x`: phase 1
  drops `prev_head` entries and phase 2 is the recursive `WriteBack`.
* `QpDetect` takes the clock as `qp0` and shifts `qp1`, `qp2`. After a
  stop, every round requests a checkpoint plus `WRITEBACK_ALL`.
  Otherwise it swaps out the pending request and triggers it.
* `QpBarrier` waits for every thread and then persists `__qp0` as
  `last_ckpt_clk` after a checkpointing round.
* `Stop` and `Terminated`.

Recovery is a set of definitions, as in `TSDurable`. `CkptCut` is the
prefix with `ckpt_s <= last_ckpt`. `RecoveredMaster` is the version of
the last cut entry for the object, in log order, or else `np_org_act`.

Left out:
* tombstones and `ckptlog_cleanup` (free objects);
* `__min_ckpt_reclaimed`;
* `reclaim_lock`: reclamation of a thread is one step here;
* zombie threads (see `TSThreads`).

### TSThreads: thread lifecycle, zombies and the QP thread's stop

The code:
* `ts::thread_wrapper` (`include/timestone++.hpp`) runs
  `ts_thread_alloc`, `ts_thread_init`, the user's function, then
  `ts_thread_finish` and `ts_thread_free`.
* `ts_thread_finish` (`timestone.c:229`) runs `try_reclaim_logs` and
  `deregister_thread`. If either log is still in use, it marks the thread
  `THREAD_LIVE_ZOMBIE` and puts it on the QP thread's zombie list
  (`zombinize_thread`). Otherwise it destroys the logs.
* `ts_thread_free` (`timestone.c:126`) stores `THREAD_DEAD_ZOMBIE`, then
  frees the struct if both logs read empty. It takes no lock.
* Each round of `__qp_thread_main` calls `qp_reap_zombie_threads`
  (`qp.c:279`) under the zombie list lock. For each zombie it:
  1. hands out the QP clocks;
  2. reclaims a used TVLog with `RECLAIM_TVLOG_CKPT`, then a used
     checkpoint log with `RECLAIM_CKPTLOG_WRITEBACK_ALL`;
  3. if both are then empty, destroys them, and if the zombie is
     `THREAD_DEAD_ZOMBIE`, takes it off the list and calls
     `ts_thread_free` on it.
* `ts_finish` sets `stop_requested` (`finish_qp_thread`). From then on,
  each round asks for a checkpoint and a full write-back. The loop exits
  once `should_stop` sees both thread lists empty.

State:
* `mem`, `status`, `pc`: per thread, the struct's allocation, its
  `live_status`, and where `thread_wrapper` is.
* `live`, `zombies`: the QP thread's two lists.
* `lg[t]`: the thread's logs as the clocks of their entries, plus how
  far the last pass of each went (`prev_head`).
* `req`, `tclks`: each thread's copy of the request and of the QP clocks.
* `qclks`, `qreq`, `stop`, `qpc`, `todo`, `reaping`: the QP thread.

Two abstractions keep the state finite:
* **Clocks by rank.** The ordo clock moves on every read, and the code
  compares clocks only by order. Each `QpDetect` therefore renumbers
  every clock in the state by its rank (`Renumber`), which keeps the
  order and bounds the values.
* **Passes as sets.** A reclamation pass is the set of results the code
  can produce:
  * `TvPass`/`TvChoices`: step 1 frees up to `prev_head`, step 2 goes
    over entries below `qp0`, and best effort may stop at a borderline
    copy;
  * `CkPass`: the write-back frees what the last pass went over and
    passes entries up to `qp2`;
  * the watermark requests of `tvlog_commit`, `ckptlog_enq` and the
    best-effort retry (`TvOut`) are the code's tests.

Actions:
* application thread: `ThreadInit`, `Commit`, `WorkerReclaim`
  (`try_reclaim_logs` at a transaction boundary), `FinishReclaim`,
  `Deregister` (with `zombinize_thread`), and `FreeMark`, `FreeCheck`,
  `PortFree` (the three steps of `ts_thread_free`);
* QP thread: `QpDetect` (detect, stop requests, swap and trigger),
  `ReapLogs(z)` and `ReapCheck` (one zombie's reclamation, then its
  check), `ReapDone`, `QpHelp` (help and barrier), `QpExit`;
* `ts_flush_log`, for the threads in `FlushThreads`, once their
  function has committed its transactions:
  * `TvFlushCheck` is the test of `tvlog_flush`'s loop, with its
    checkpoint request;
  * `TvFlushSpin` is a round of the spin: either the request again (the
    `count == 1000` branch) or the request seen set;
  * `TvFlushReclaim` is `reclaim_tvlog_ckptlog`, which finds nothing to
    do if the help served the request in between;
  * `CkFlushFirst`, `CkFlushCheck`, `CkFlushSpin` and `CkFlushReclaim`
    are the same four steps for `ckptlog_flush`, with
    `RECLAIM_CKPTLOG_WRITEBACK_ALL`;
* `Stop` (`ts_finish`) and `Terminated`.

A deregistered thread's copies of the QP clocks and requests are never
read again. The reap hands a zombie the clocks it uses within the same
call. `Deregister` therefore resets these copies, and `QpDetect`
renumbers only the live threads' copies, so that states differing only
in dead copies coincide.

What follows the barrier (`__last_ckpt`, the deferred frees) is left to
`TSQP` and `TSCkptLog`. `qp_cleanup_ckptlogs` is not modelled.

**Fairness.** `Spec` assumes weak fairness of the QP thread's loop,
which is a dedicated thread that never blocks except on its own list
locks. It also assumes weak fairness of each thread's steps after its
function returned: `thread_wrapper` runs them straight through. The
function's return (`FinishReclaim`) and the call to `ts_finish` are not
assumed to happen. A thread inside `ts_flush_log` runs its loops, so its
flush steps are under weak fairness as well (`Unforced`). Whether it
calls the flush is its function's choice.

**Bounds.** `threads_life` has two threads, one commit each, and marks
of 0 and 1, so one entry passes each low mark and two pass each high
mark. That makes every request kind fire: best effort, checkpoint, the
best-effort retry, write-back and full write-back. A thread can finish
while its own request is pending, become a zombie in the middle of a
reap, or leave only checkpoint entries behind. Two passes are needed to
empty a log, which takes the stop several rounds. Renumbering leaves
the number of rounds unbounded.
Only t1 flushes (`FlushThreads = {t1}`), after its commit. A flush
then meets a pending best-effort request, both loops, the help racing
the spin, and t2's finish and reaping. Letting both threads flush
doubles the states without adding a case.

### TSReplay: OpLog replay

The code (`recovery.c`): `oplog_recovery` (406-437) collects every
valid OpLog entry newer than the last checkpoint into `replay_array`
(`collect_replay_entries`, 125-254, with `add_op_replay`), sorts it with
`qsort` and `comp_replay_entries` (256-274), and then walks it
(`replay_oplog`, 341-404). Each operation gets a recovery thread from a
pool: `acquire_thread` (276-301) pops a `ptrset` (`util.h:287-366`) and
allocates a thread when the pop gives `NULL`; its `COMMIT` entry
`release_thread`s it (303-317). `deinit_threads` (319-339) pops the pool
until it gives `NULL` and frees each thread.

Recovery as written never replays: the tests at `recovery.c:147`, `228`
and `415` have their polarity inverted (as do `:88`, `:457`, `:465` and
`timestone.c:92`), so every entry is skipped and the replay array stays
empty. `TSReplay` states what the loops past those tests do, which is
what the code does once the polarity is fixed, as `TSDurable` does for
the checkpoint side.

* **State.** `pc`, `clk`, `local` and `wrt` per operation of the crashed
  run; `oplog`, the entries it persisted, each `[op, type, ts]`;
  `replay` and its index `i`; `ctx[o]`, the recovery thread an operation
  holds; `ptrs` and `num`, the pool; `nalloc` and `freed`.
* **Actions.** `OpBegin` and `OpCommit` append an operation's `EXEC`
  entry (its snapshot clock) and `COMMIT` entry (its commit clock) in
  the order the operations run; `Crash` stops them at any point;
  `CollectAndSort` is `oplog_recovery` up to the `qsort`; `ReplayStep`
  is one iteration of `replay_oplog`, pool included; `DeinitThreads` one
  iteration of its loop; `Terminated` the stutter after recovery.
* **Abstractions.** An entry's operation and payload are dropped: only
  its type and clock matter to the order and to the pool. Clocks are
  `rdtsc` values with the Ordo boundary; the model uses small integers
  and converts the 64-bit difference to `int` with `ToInt`, scaled to
  `IntBits` bits (TLC's integers are 32 bits wide).
* **Uninitialised memory.** `ptrset_init` mallocs the slot array without
  clearing it, so `Init` takes `ptrs` from `UninitValues`; `Garbage`
  there is a wild pointer, and popping it goes to `fault`.
* **Bounds.** Five operations are the fewest that reach the pool bug
  (finding 7). Symmetry permutes the operations, which enter the
  properties only through their clocks.

## Properties

* `TypeOK`: types, plus the `ts_begin`/`ts_end` assertion that a thread
  outside a transaction has no write set.
* `SnapshotRead`: a `ts_deref` returns a version older than its snapshot,
  and no version of that object is committed between the one returned and
  the snapshot. This includes versions whose commit was in flight at read
  time. This is the version-visibility rule of the spec.
* `ReadYourCommits`: a later transaction of the same thread reads its own
  committed version or a newer one.
* `FirstCommitterWins`: two committed writers of one object never overlap;
  neither's commit lies between the other's snapshot and commit. The
  writer-clock test of `_ts_try_lock` and the ABA recheck of
  `try_lock_obj` exist for this.
* `ChainLinear`: each linked copy's predecessor is committed, its clock
  equals the copy's `wrt_clk_next` and is below the copy's pending clock,
  and once the copy is marked the predecessor's `wrt_clk_prev` is the
  copy's clock, except while its committer is between the unlock CAS and
  the store of `wrt_clk_prev` (`PrevPending`), when it is still
  unset. Chain traversal and best-effort reclamation rely on these
  fields. Its mutant leaves out the store of `wrt_clk_prev`.
* `WaitEnds` (liveness). A thread spinning in `get_wrt_clk` (`ts_deref`
  or the copy allocation) gets past it: every pending clock it waits on
  is eventually published. It is checked under `LiveSpec`, weak
  fairness of each thread's steps: each application thread is an OS
  thread that the scheduler keeps running. Its mutant leaves out the
  store of `wrt_clk` in `tvlog_commit`, and the spinner then waits for
  ever.

Properties of `TSQP`:

* **`TypeOK`** includes `head <= prev_head <= tail`, and that the ring
  never holds more than `TvlogSize` entries. The blocking at the high
  watermark in `ts_begin` exists for the latter.
* **`QuiescentAfterWait`.** Once `qp_wait` is done, every thread inside a
  transaction took its snapshot at or after `qp0`. This is the grace
  period the reclamation relies on.
* **`MasterAtLastCkpt`.** Between rounds, every master `np_cur_act` is
  the version of its object current at `__last_ckpt`.
* **`DerefSnapshot`.** Every `ts_deref` returns the version its snapshot
  selects, whether it came from the chain or from the master after the
  `wrt_clk_next < last_ckpt` cut.
* **`NoUseAfterReclaim`.** No `ts_deref` walk stands on a freed copy, and
  no committer's replaced copy is freed.

Properties of `TSDurable`:

* **`CkptRefinesStore`.** `TSDurable` implements `DurableCkpt` (see
  above). The image recovery would rebuild changes only when a new
  `last_ckpt_clk` is persisted, and it then holds the version of every
  object current at that clock. No commit takes a clock at or below the
  persisted one. This needs two orderings:
  * the clock is persisted only after every thread's step 2 has
    appended its borderline copies;
  * entries of the running round are cut off by `ckpt_s > last_ckpt`.
* **`CommitsRecoverable`.** In every state, checkpoint recovery followed
  by replay of the valid OpLog entries restores each object's last
  committed version.

Properties of `TSCkptLog`:

* **`NoDanglingMaster`.** Every master `np_cur_act` is the original or
  an entry still in its writer's log. A write-back that frees an entry
  without moving the master off it breaks this.
* **`MasterAtLastCkpt`.** Between rounds, every master is the version
  current at the persisted `last_ckpt`, whether or not the write-back
  copied it onto `np_org_act`.
* **`OrgNeverRegresses`** (an action property). No step moves
  `np_org_act` to an older version.
* **`RecoveryNotAhead`.** Recovery never rebuilds a version newer than
  the one current at the persisted clock.
* **`CkptRecoverable`.** Recovery rebuilds exactly the version current
  at the persisted clock. It is violated (finding 5).

Properties of `TSThreads`:

* **`TypeOK`** includes that the reap's remaining walk holds only threads
  still on the zombie list. Its mutant leaves an unlinked zombie in the
  walk, as a `list_del` under an iterator that is not the `_safe` one
  would.
* **`ExitClean`.** When the QP thread exits, every thread struct is
  freed and every TVLog and checkpoint-log entry is reclaimed, so every
  checkpointed master was written back. It needs two things:
  * `ts_thread_finish` keeps a thread with *either* log in use as a
    zombie;
  * the stop requests a full write-back.

  Its mutant keeps a zombie only for the TVLog.
* **`StopTerminates`** (liveness). `stop ~> qpc = "exited"`: once
  `ts_finish` asks, `finish_qp_thread` does not wait for ever. Its
  mutant drops the stop-time flush requests, and the zombies' logs then
  never drain.
* **`FlushTerminates`** (not in a run). A thread inside `ts_flush_log`
  returns from it. Under weak fairness,
  `tlc -config MCTSThreads_flush.cfg MCTSThreads` violates it with one
  thread. In every round the QP thread triggers the request, and its
  help clears it before the spin sees it. The spin re-requests and
  never leaves, even after the help has emptied the log. It holds only
  if the spinning thread is eventually scheduled inside that window,
  which is strong fairness, and the scheduler does not promise it.
* **`NoUseAfterFree`.** No struct is used after `port_free`: the
  zombie list, the reap in progress and the owner's `ts_thread_free`
  past its `THREAD_DEAD_ZOMBIE` store hold only allocated structs. It
  is violated (finding 6).

Properties of `TSReplay`:

* **`PoolHandsOutFreeThreads`.** No two operations being replayed hold
  the same recovery thread, and every thread handed out is one that was
  allocated. It is violated (finding 7, repro `MCTSReplay_pool.cfg`).
* **`ReplayInClockOrder`** (not in a run). The replay array is in clock
  order, an `EXEC` before a `COMMIT` of equal clock. With
  `IntBits = 3`, `tlc -config MCTSReplay_order.cfg MCTSReplay` violates
  it: `comp_replay_entries` returns `int d = ts1 - ts2`, and a
  difference past `INT_MAX` wraps negative, so a `COMMIT` at 6 sorts
  before its `EXEC` at 1. With 64-bit `rdtsc` clocks this takes
  differences past 2^31 cycles, about a second of run time.

## Runs

| run | cfg | result | what it shows |
|---|---|---|---|
| txn_conflict | `MCTSTxn_conflict.cfg` | pass (376k states, under 1 min) | 2 writers × 2 transactions × 1 call, 2 objects, ordo clock, no symmetry: TypeOK, ReadYourCommits, FirstCommitterWins, ChainLinear, and WaitEnds under weak fairness |
| txn_snapshot_race | `MCTSTxn_snapshot.cfg` | violation of SnapshotRead | the window between `new_clock()` and the store of `pending_wrt_clk` (tvlog.c:415) |
| durable_ckpt | `MCTSDurable_ckpt.cfg` | pass (1.66M states, under 2 min) | two writers × 2 transactions, 2 rounds, 1-entry TVLog, 2-entry OpLog: TypeOK, QuiescentAfterWait, MasterAtLastCkpt, DerefSnapshot, and the refinement CkptRefinesStore |
| qp_stale_ckpt | `MCTSQP_stale.cfg` | violation of NoUseAfterReclaim | a reader with a stale `__last_ckpt` walks onto a copy that the next checkpointing round frees |
| ckptlog_reclaim | `MCTSCkptLog_reclaim.cfg` | pass (665k states, under 1 min) | 2 threads, 1 object, 4 commits, 6 rounds, an 8-unit log of 2-unit entries: TypeOK, NoDanglingMaster, MasterAtLastCkpt, RecoveryNotAhead, OrgNeverRegresses |
| ckptlog_recovery_regress | `MCTSCkptLog_regress.cfg` | violation of CkptRecoverable | recovery takes the last entry of the last log it reads, not the newest version |
| threads_life | `MCTSThreads_life.cfg` | pass (593k states, under 2 min) | 2 threads × 1 commit from `ts_thread_init` to `port_free`, t1 calling `ts_flush_log` after its commit, with QP rounds, reaping and stop: TypeOK, ExitClean, and StopTerminates under weak fairness |
| threads_uaf | `MCTSThreads_uaf.cfg` | violation of NoUseAfterFree | one thread: `ts_thread_free` and `qp_reap_zombie_threads` both free the struct |
| cache_stale_fill | `MCPrismCache_stale.cfg` | violation of CacheHoldsLatest | a ValueStorage read queued before an update is cached after the update was reclaimed, and lookups then return the old value |

Repros kept beside these, outside the twelve runs of `PROJECT.json`:
* `tlc -config MCTSDurable_gap.cfg MCTSDurable`: finding 4
  (`CommitsRecoverable`);
* `tlc -config MCTSReplay_pool.cfg MCTSReplay`: finding 7
  (`PoolHandsOutFreeThreads`);
* `tlc -config MCPrismCache_free.cfg MCPrismCache` and
  `tlc -config MCPrismCache_uaf.cfg MCPrismCache`: the cache's findings
  2 and 3 (`FreeOperationSafe`, `LookupReadsLive`).

**Bounds.**
* Two transactions per thread let one thread read after its own commit.
  They also let a second writer commit between another's snapshot and
  lock, and create two-copy chains that `ts_deref` walks past.
* `MaxTxns` counts attempts, so aborts and retries are inside the bound.
* `LogSize` is large enough that the TVLog never fills. Reclamation is
  not in this module.
* Symmetry permutes the threads and the objects in
  `MCTSTxn_snapshot.cfg`, which none of the properties distinguish.
  `txn_conflict` checks a liveness property, and TLC does not check
  liveness soundly under symmetry, so it runs without.

Each property of a passing run is also checked against a mutant (listed in
`PROJECT.json`):
* a dropped writer-clock test;
* a missing `wrt_clk_prev` update;
* a stale snapshot clock;
* a write set not cleared after the last copy is unlocked;
* the store of `wrt_clk` left out of `tvlog_commit` (`WaitEnds`).

TLC finds every one of them.

**TSQP bounds.**
* `durable_ckpt`'s one-entry TVLog puts the high watermark at one
  entry. A second transaction of a writer blocks until the QP thread
  reclaims, so the blocking loop, best-effort rounds and checkpointing
  rounds all fire.
* Both threads of `durable_ckpt` write. A chain walk then meets a copy of
  another thread, and a `_ts_try_lock` can fail, so `ts_abort` and its
  `oplog_reclaim` run.
* Its two-entry OpLog puts `TS_OPLOG_HIGH_MARK` at two entries. A
  thread's second commit reaches the mark, so the commit-time
  `oplog_reclaim` and the OpLog's checkpoint request fire.
* `MCTSDurable_gap.cfg` (finding 4) has one writer and a four-entry OpLog. No abort
  happens and the OpLog never reaches its mark, so `oplog_reclaim` never
  runs. The loss it shows comes from the clocks alone, not from the
  undefined `last_ckpt`.
* `qp_stale_ckpt` gives the TVLog 4 entries, so that the writer runs two
  transactions without blocking. The violation takes two rounds.
* A single-thread run never walks a chain: a thread's own commits are
  always older than its next snapshot. That is why `DerefSnapshot` is
  checked with two threads.
* `ckptlog_reclaim`'s 8-unit log with 2-unit entries puts the low mark
  at 5 units and the high mark at 6. Three entries (6 units) pass the
  low mark and four (8 units) pass the high mark. Four commits reach both, so both the BEST_EFFORT and the WRITEBACK
  requests are raised and handled. Six rounds also let a stop's
  WRITEBACK_ALL run. Two threads let two logs hold versions of one object.
* `TSCkptLog`'s mutants are:
  * the write-back leaving `np_cur_act` on the freed entry;
  * `WriteBack` counting the entry it stopped at as passed;
  * every entry written back, current or not;
  * `CkptCut` not cutting at `last_ckpt`.
* `TSQP`'s mutants are:
  * the watermark test at the mark (`>` for `>=`);
  * `qp_init`'s parity inverted;
  * `__last_ckpt` advanced by a best-effort round;
  * `__last_ckpt` handed to threads before the write-back;
  * `last_ckpt_clk` persisted after a best-effort round (`TSDurable`).

**Fairness.** `TSQP`, `TSDurable` and `TSCkptLog` assume none: their
properties are safety or refinement properties, and the refinement is
checked without liveness. `TSTxn`'s `WaitEnds` is checked under weak
fairness of each thread (`LiveSpec`), as said above.
Deadlock is checked. The only blocking points are the `get_wrt_clk`
spins, and a run where a committer could never publish would deadlock.
`Terminated` is the stuttering step once every thread has used up its
transactions.

## Findings

1. **Snapshot race (code bug).** `tvlog_commit` links the copy into the
   chain and only later stores `pending_wrt_clk = new_clock(...)`.
   * A reader whose snapshot is taken after `new_clock()` returned, but
     before the store, sees `pending_wrt_clk == MAX_VERSION` and skips
     the copy.
   * The commit then publishes a clock below that reader's snapshot. The
     reader has missed a version committed before its snapshot, and a
     second `ts_deref` of the same object returns it (a non-repeatable
     read).
   * TLC shows it with two threads and the ordo clock.
   * With the counter clock it needs a third committer that advances the
     clock in the window.
2. **Counter clock hides the latest commit (not run).** `config.h`
   defines `TS_ORDO_TIMESTAMPING` and says the non-ordo code should be
   deleted, so the counter clock is not the build. `TSTxn` keeps it as
   `OrdoClock = FALSE`, and it is neither a run nor a hazard.
   * `advance_clock` makes `g_wrt_clk` equal to the last commit clock.
     The next `ts_begin` therefore gets that value, and strict `lt_clock`
     hides the commit.
   * The spec's scenario requires a transaction begun after a commit to
     read it.
   * The same equality makes `_ts_try_lock` refuse the object, so a lone
     writer retrying an update of the same object aborts for ever.

3. **Use after reclamation through a stale `__last_ckpt` (code bug).**
   * `ts_deref` stops its walk at a copy whose `wrt_clk_next` is below
     the thread's own `clks.__last_ckpt` (`timestone.c:502`). The comment
     above that line says every copy older than the last checkpoint is
     gone from the TVLog.
   * The thread's copy is refreshed only by the next
     `qp_trigger_reclaim`. The QP thread's `__last_ckpt` moves at the end
     of each checkpointing round.
   * TLC's trace (2 rounds, one writer, one reader):
     1. The writer links copy `n` over `B` and is still before
        `new_clock` when a checkpointing round runs. That round writes
        `B` back but cannot detach it, because `p_copy` is `n`.
     2. The writer commits.
     3. The reader begins after that round with a snapshot below `n`'s
        clock. Its `__last_ckpt` is still the older one, so the test at
        `n` fails and it steps onto `B`.
     4. The next checkpointing round's step 1 frees `B`, which lies in
        `[head, prev_head)`. `qp_wait` did not wait for the reader,
        because its `local_clk` is at or above `qp0`.
   * The reader then reads freed TVLog memory, which the ring can
     already have reused.

4. **A commit that recovery can neither restore nor replay (code bug;
   repro `MCTSDurable_gap.cfg`, not in the run list).**
   * Checkpointing at `qp0` writes back only copies with
     `wrt_clk < qp0` (`tvlog.c:767`).
   * Replay accepts only OpLog entries with `local_clk > last_ckpt_clk`
     (`is_op_entry_valid`, `recovery.c:122`).
   * `qp_wait` lets a transaction that began before `qp0` finish, and
     its commit clock is then above `qp0`.
   * TLC's trace (one writer, 19 steps):
     1. The writer begins with `local_clk = 1`.
     2. The QP thread detects `qp0 = 2`.
     3. The writer commits with `wrt_clk = 3`, and its OpLog entry is
        persisted.
     4. The checkpointing round writes back nothing for the object.
     5. `__qp_thread_main` persists `last_ckpt_clk = 2`.
   * A crash now recovers the object's original version. The entry
     `<local 1, wrt 3>` is on NVM but is not valid for replay, and
     `ts_end` has already returned for that transaction.
   * The next checkpointing round would cover it. Until then the
     durability of a completed transaction depends on when the machine
     crashes.

5. **Recovery can go back to an older checkpointed version (code bug).**
   * `reconstruct_volatile_header` (`recovery.c:44`) reads the logs
     thread by thread. A later entry replaces `np_cur_act` only if it is
     newer than the current one. `np_org_act` is never compared.
   * `ckptlog_reclaim_x` copies a current master onto `np_org_act` and
     frees its entry. Different threads' logs are reclaimed at different
     times.
   * TLC's trace (2 threads, 1 object, 2 commits):
     1. t1 commits version 1 and t2 commits version 3.
     2. Two checkpointing rounds put version 1 in t1's log and version 3
        in t2's.
     3. The stop's WRITEBACK_ALL serves t1 first. Its entry for
        version 1 is no longer the master, so nothing is written back,
        and the entry is only marked (`prev_head`) for the next pass.
     4. t2's pass copies version 3, the master, to `np_org_act`.
     5. The next round frees t2's entry first. At that point t1's stale
        entry for version 1 is still in its log.
   * Recovery now allocates the header from t1's entry (version 1). No
     other entry is newer, so `np_org_act` (version 3) is never
     consulted, and the object comes back at version 1.
   * `RecoveryNotAhead` holds, so recovery never invents a future
     version. It can only fall back.

6. **A thread struct freed twice, and read after it is freed (code bug).**
   * `ts_thread_free` stores `THREAD_DEAD_ZOMBIE` (`timestone.c:128`).
     Only then does it read both logs' used counts (lines 135-136). It
     takes no lock.
   * `qp_reap_zombie_threads` holds the zombie list lock, reclaims a
     zombie's logs, and frees the zombie if they are empty and it is
     `THREAD_DEAD_ZOMBIE` (`qp.c:318-324`).
   * TLC's trace (`threads_uaf`, one thread, 9 steps):
     1. The thread commits one transaction, which asks for best effort.
     2. The QP thread triggers the round.
     3. The thread's function returns, and `try_reclaim_logs` runs the
        best-effort pass. It frees nothing, so it asks for a checkpoint.
     4. `ts_thread_finish` makes the thread a zombie while the QP thread
        is reaping, so the reap restarts its walk.
     5. The reap's checkpoint and write-back passes empty both logs.
     6. The thread stores `THREAD_DEAD_ZOMBIE`.
     7. The reap sees empty logs and `THREAD_DEAD_ZOMBIE`. It unlinks the
        thread and calls `ts_thread_free`, which frees the struct.
   * The application thread then reads the used counts of the freed
     struct. When they read zero, it destroys the logs and frees the
     struct a second time.
   * The other order is wrong too. The reap can empty the logs of a
     `THREAD_LIVE_ZOMBIE` and leave it on the list. The owner's
     `ts_thread_free` then finds both logs empty and frees a struct
     that the next reap walks.
   * A fix is to make the decision under the zombie list lock: only the
     reap frees a zombie, and `ts_thread_free` frees only a thread that
     never became one.

7. **The recovery thread pool hands out a thread in use (code bug).**
   * `ptrset_pop` (`util.h:363`) returns `ptrs[num_ptrs--]`: it reads
     the slot above the top and then decrements. `ptrset_push` stores at
     `ptrs[num_ptrs++]`, so the last pushed pointer sits at
     `num_ptrs - 1`.
   * TLC's trace (`MCTSReplay_pool.cfg`, five operations):
     1. Operations A and B replay their `EXEC` entries: each pop of the
        empty set gives `NULL`, and each gets a new thread, T1 and T2.
     2. Their `COMMIT`s push T1 to slot 0 and T2 to slot 1.
     3. C's `EXEC` pops slot 2, which was never written; with `NULL`
        there C gets a new thread T3. `num_ptrs` is now 1.
     4. D's `EXEC` pops slot 1, T2, and `num_ptrs` is 0.
     5. C's `COMMIT` pushes T3 to slot 0, over T1, which leaks.
     6. E's `EXEC` pops slot 1, T2 again, while D still holds it.
   * D and E then run `op_exec` and `ts_end` on one thread struct,
     which is not safe. Where the slot above the top holds a
     left-over of `malloc`, the pop returns a wild pointer, and
     `deinit_threads` frees it or stops early, leaking the rest.
   * The fix is `return ptrset->ptrs[--ptrset->num_ptrs];`.

## PRISM: `PrismKV`

### The write path in the code

* `MTSImpl::insert` and `MTSImpl::update` (`MTS.cpp`) follow the same steps:
  1. `OpLog::enq` appends the key and value to the client's working buffer;
  2. `OpLog::link_to_at` stores the AddressTable entry in the op entry's `opa`;
  3. `AddressTable::link_to_ol` makes the entry's `val_addr` point to the op
     entry and sets `vs_idx` to `{-1,-1}` (`NEWLY_UPDATED_VAL`).

  `update` then unlinks the old ValueStorage slot, if `vs_idx` named one
  (`unlink_to_at`).
* `OpLog::enq` handles a full buffer (`put_ol_entry` returns
  `NEED_RECLAIM`):
  1. it joins the previous reclaim thread if `reclaim_lock` is set;
  2. it starts a reclaim thread on the full buffer;
  3. it switches to the other buffer and puts the entry again.
* The reclaim thread (`OpLog::reclaim`) sets `reclaim_lock` and then walks
  the buffer. For each entry still named by its AddressTable entry
  (`op == at->val_addr`), `put_vs_entry` does three things:
  * `alloc` sets `vs_offset = PRE_VALUESTORAGE_VAL`;
  * the entry is copied into the chunk's write buffer;
  * the entry is recorded in `moved_entry_list`.

  A full chunk is written (`write_chunk`: `sort_w_buffer`, then the
  io_uring write) and synced: `sync_with_at` calls `link_to_at` per moved
  entry. `link_to_at` skips an entry whose `vs_offset` it reads as
  `NEWLY_UPDATED_VAL`. Otherwise it writes `vs_idx` and then sets the
  chunk bitmap bit. At the low mark, `forced_write_chunk` writes the
  partly filled chunk, and the buffer is reset.
* `lookup` reads the value from the op entry, retrying if `opa` no longer
  names the key. Otherwise it reads the ValueStorage slot `vs_idx` names.
* Garbage collection runs inside `init_w_chunk`, under the ValueStorage
  spinlock, when more than `MTS_VS_HIGH_MARK` chunks are used
  (`not_enough_free_chunk`). `garbage_collection`:
  1. counts the used chunks and builds `used_chunk_list`, the chunks with
     valid bits, sorted by their count; it returns at once with fewer
     than two, or when the two smallest do not fit in one chunk;
  2. takes a `gc_w_chunk` from the free list (`init_gc_w_chunk`);
  3. per victim (`get_victim_chunk_offset`: the next chunk of the list
     that is not full), reads it (`read_gc_r_chunk`) and copies each entry
     whose bit is set *now* into `gc_w_buffer`, recording an INSERT at the
     new slot and a REMOVE at the old one;
  4. when `gc_w_buffer` is full, writes it sorted (`write_gc_w_chunk`),
     runs `gc_sync_with_at` (`gc_link_to_at` per INSERT, `unlink_to_at`
     per REMOVE) and stops if the chunk count is back where it began or
     below `MTS_VS_LOW_MARK`, else takes a new `gc_w_chunk`;
  5. with no victim left, returns the `gc_w_chunk` to the free list if
     nothing was copied, else writes and syncs what was.

  `gc_link_to_at` skips a key whose `vs_offset` is `NEWLY_UPDATED_VAL` or
  `PRE_VALUESTORAGE_VAL` or whose `vs_id` is another ValueStorage; it
  does not check that `vs_idx` still names the victim slot.
  `get_free_chunk_offset` with an empty free list reads `front()` of an
  empty vector and, through its range check, exits the process.

### State and actions

* `ki` is the KeyIndex, as the set of inserted keys. `at[k]` is key `k`'s
  AddressTable entry: `val_addr` is an op reference `<<client, buffer,
  slot>>`, and `vs_id`, `vs_off` form `vs_idx`.
* `ol[c][b]` is buffer `b` of client `c`'s OpLog (`head`, `tail`,
  entries). `working` is the working buffer. `reclaim_lock` and
  `reclaim_thread` are the OpLog's fields.
* `rt[c][b]` is the program counter and locals of the reclaim thread on a
  buffer.
* `wc[c]` is the client's `w_chunk`: chunk, `entry_offset`, write buffer
  and moved entries. `bitmap`, `freeList` and `disk` are the ValueStorage.
* `cl[c]` holds the client's pending unlink. `crashed` records how the
  process died: a write through NULL (`"enq_null"`) or the exit of
  `get_free_chunk_offset` (`"exit"`).
* `gc` is the garbage collection in progress: its owner thread, program
  counter, `used_chunk_list`, victim order, `gc_r_buffer`, `gc_w_chunk`
  and its offset, `gc_w_buffer`, the moved list, `used_chunk_num` and its
  value before GC, and the sync list being worked through.
* History: `latest[k]`, the last value written to `k`; `nops`, the number
  of operations issued (bounded by `MaxOps`). A value is the number of the
  operation that wrote it.

The actions:

* **Client:** `Update` is `enq` (`MTS.cpp:617-644`); the reclaim thread
  that a buffer switch spawns runs from there on. `UpdateLink` is
  `link_to_ol` (the `NEWLY_UPDATED_VAL` mark), and `UpdateUnlink` the
  unlink of the past index. `Insert` stays one step: the reclaim thread
  its `enq` spawns drains the other, full buffer, and the new entry is
  reachable only after `keyindex.insert`, so no other thread can observe
  a state between its writes. `EnqNull` is the enq whose re-put finds the
  other buffer full too.
* **Reclaim thread:** one action per shared-memory step. These are
  `ReclaimStart`, `ReclaimPeek` (validation), `ReclaimPut` (buffer the
  entry, or write the full chunk first) and `ReclaimDeq` (with the forced
  write at the low mark). The sync takes three actions per moved entry:
  `SyncRead` reads `vs_offset`; `SyncLink` or `SyncSkip` follows; then
  `SyncSetBit`. `ReclaimEnd` closes the loop.
* `sort_w_buffer` is `SortedBuffers`: every order of the prefix up to the
  first NULL `at_entry` that is sorted by key (`std::sort` is not
  stable). `sort_moved_entry` is `SortMoved`.
* A new `w_chunk_t` leaves `chunk_offset` uninitialised, so `Init`
  chooses it freely.
* **GC** (in the reclaim thread whose `put_vs_entry` needs a new chunk):
  `GcSkip` (cases 1 and 2), `GcBegin`, then `GcVictim`/`GcNoVictim`,
  `GcCopy` per victim entry, `GcNextVictim`, `GcFull`; the sync is
  `GcLinkRead`, then `GcLink` and `GcSetBit` or `GcLinkSkip`, and
  `GcUnlink` for REMOVE records. `GcEnd` is the rest of `init_w_chunk` and
  the buffering of the entry. `VsExit` is the exit with no free chunk.
  Another reclaim thread needing a new chunk waits while `gc.pc` is not
  idle: that is the spinlock. Link and unlink of other threads do not take
  it, and interleave with GC.

### Properties and runs

* `TypeOK`: types, with the GC write offset inside a chunk.
* `OplogPathFresh`: a key whose entry points into the OpLog reads its
  latest value there. A reset of a buffer whose values are only in the
  write buffer breaks it.
* `LookupFresh`: every inserted key's lookup returns its latest value.
  It is violated (finding 1), so it is in no passing run.
* `ReclaimTerminates`: every reclaim thread that starts returns to idle
  (`enq`'s join waits for this).
* `EnqNeverNull`: enq never hands NULL to `link_to_at`.
* `NoLeakedBit`: every set bitmap bit is named by an AddressTable entry
  or by a pending unlink.
* `VsEntryOwnKey`: a `vs_idx` names a slot holding that key's value.
  It is violated (finding 2).
* `GcLinksOwnEntry` (an action property): `gc_link_to_at` writes into
  `vs_idx` an offset whose slot in the persisted `gc_w_chunk` holds that
  same key's entry. `write_gc_w_chunk` sorts `gc_w_buffer` and
  `sort_moved_entry` sorts the sync list; the two orders must agree. Its
  mutant writes the chunk without `sort_w_buffer`.
* `NamedChunkNotFree`: outside GC, no chunk that a valid `vs_idx` names
  is on `free_chunk_list`. It is violated (new finding below).
* `ChunkAccounted`: every chunk is in the free list, holds a valid bit, or
  is a `w_chunk` or the `gc_w_chunk` being filled.

| run | cfg | result | what it shows |
|---|---|---|---|
| prism_one | `MCPrismKV_one.cfg` | pass (426k states) | 1 client, 3 keys, 6 operations, 2-entry buffers, three 1-entry chunks, both marks at 1: every reclaim action, `EnqNull`, GC skipped at cases 1-2 and the exit with no free chunk; TypeOK, OplogPathFresh |
| prism_gc | `MCPrismKV_gc.cfg` | pass (941k states) | 1 client, 4 keys, 5 operations, 1-entry buffers, four 2-entry chunks, both marks at 2: every GC step; TypeOK, GcLinksOwnEntry |
| prism_two | `MCPrismKV_two.cfg` | pass (48k states) | 2 clients sharing AddressTable and ValueStorage, 3 operations, which may also remove key 1, under weak fairness: OplogPathFresh, ReclaimTerminates |

**Bounds.**
* A buffer capacity below the number of operations makes every run switch
  buffers and reclaim more than once.
* Chunks of 1 or 2 entries make full-chunk writes and forced writes both
  happen.
* Three keys let a stale entry sort before a new one.
* `prism_one` has three chunks and marks at 1, so `init_w_chunk` calls
  GC, which finds one-entry chunks useless (case 2), and the operations
  run the free list dry. Its two-entry buffers let the second buffer
  fill before the reclaim thread runs (`EnqNull`).
* `prism_gc` has two-entry chunks and four keys, so that chunks hold one
  valid entry after updates and two of them fit in one `gc_w_chunk`: a
  GC with victims, copies, a full `gc_w_chunk` and the sync happens.
  Its client has one-entry buffers, so its next operation waits on
  `reclaim_lock` while the GC runs; its pending link and unlink
  interleave with the GC.
* `prism_two` has three operations: with liveness checked, four took
  longer than the time bound.
* `LookupFresh`, `VsEntryOwnKey` and `NamedChunkNotFree` are in no
  passing run, because the model violates them with one client
  (findings 1, 2 and the chunk freed during GC); a run that held them
  would need bounds too small to reach the code that breaks them.

**Mutants.** Each is found by TLC:
* the high-mark test off by one;
* the loop ending without `forced_write_chunk`;
* the sync loop not advancing;
* the GC copy loop letting the last `gc_w_buffer` slot pass;
* `write_gc_w_chunk` without `sort_w_buffer`.

**Fairness.** `LiveSpec` assumes weak fairness of each reclaim thread,
because each is an OS thread (`std::thread`) that runs when it is
enabled. Clients get none: a client may stop issuing operations.

**Findings (code bugs).** Each is reproduced by the cfg named with it,
outside the twelve runs of `PROJECT.json`.
1. **Lost update** (`ValueStorage.cpp:398`, `:341`). `alloc` overwrites
   the `NEWLY_UPDATED_VAL` mark of an update that came after validation.
   `link_to_at` then points `vs_idx` at the older value. One client
   reaches it in 10 steps: an update's `enq` switches buffers and spawns
   the reclaim of the old one (`OpLog.cpp:45`), which validates the
   key's previous op entry before the update's `link_to_ol`
   (`MTS.cpp:645`); `alloc` then overwrites the mark and `link_to_at`
   installs the older value. `tlc -config MCPrismKV_lost.cfg MCPrismKV`
   violates `LookupFresh`, there with two clients.
2. **Stale sort** (`ValueStorage.cpp:877-889`). After a forced write the
   write buffer still holds the previous chunk's entries, and
   `sort_w_buffer` sorts them in. The offsets given to `link_to_at` then
   name another key's value. `tlc -config MCPrismKV_sort.cfg MCPrismKV`
   violates `VsEntryOwnKey`.
3. **NULL from enq** (`OpLog.cpp:35`, `:119`). `reclaim_lock` is set by
   the reclaim thread itself, so `enq` may not join it. `enq` then puts
   into a full buffer and gets `NEED_RECLAIM` (NULL), which
   `link_to_at` writes through. This needs the thread not to be scheduled
   for a whole buffer of operations: unlikely with real buffer sizes, but
   not excluded by the code. `tlc -config MCPrismKV_null.cfg MCPrismKV`
   violates `EnqNeverNull`.
4. **Lost chunk** (`ValueStorage.cpp:341`, `:392`). `init_w_chunk` takes
   a chunk off the free list; only `link_to_at` sets its bits and only
   `clear_vs_bitmap_info` of a last bit gives it back. If every entry of
   the chunk was updated before its sync, no bit is ever set: the chunk
   is neither free nor a GC victim (`create_used_chunk_list` lists only
   chunks with bits) and stays counted as used for ever.
   `tlc -config MCPrismKV_chunk.cfg MCPrismKV` violates `ChunkAccounted`.
5. **Reclaim thread crashes on a removed key** (`OpLog.cpp:103-108`,
   `:145`). `remove` of a key whose value is in the OpLog calls
   `OpLog::unlink_to_at`, which sets the op entry's `opa` to NULL while
   the entry stays in its buffer. When that buffer is drained, the
   validation in `OpLog::reclaim` reads `opa->val_addr` with no NULL
   check. `tlc -config MCPrismKV_remove.cfg MCPrismKV` violates
   `ReclaimSurvivesRemove` in six steps with one client: insert,
   remove, insert, an update that fills the buffer, reclaim start,
   peek. A unit test that removes a key still in the OpLog and then
   fills the buffer reaches it too.

**Found, but not in the run list.** The project keeps twelve runs. These
two findings, like findings 1 to 5, are reproduced by cfgs kept beside the others:
* **Leaked bitmap bit** (`ValueStorage.cpp:351-357`). An update's unlink
  between `link_to_at`'s write of `vs_idx` and its `set_vs_bitmap_info`
  leaves a bit set that no entry names, and the chunk is never freed.
  `tlc -config MCPrismKV_leak.cfg MCPrismKV` violates `NoLeakedBit` in
  1.6k states.
* **GC write chunk freed during GC** (`ValueStorage.cpp:391`). GC links
  a key into `gc_w_chunk` and sets its bit. An update of that key whose
  `link_to_ol` came after the GC link then unlinks the slot, so
  `clear_vs_bitmap_info` sees the chunk's count reach 0 and puts
  `gc_w_chunk` on `free_chunk_list` while GC is still syncing into it.
  GC then links a second key into the chunk, and the next
  `init_w_chunk` takes it off the free list and overwrites it.
  `tlc -config MCPrismKV_dbl.cfg MCPrismKV` (one client, 3 keys,
  3 chunks, both marks at 1) violates `NamedChunkNotFree` after 42
  steps.

**Hazards not checked:** `gc_link_to_at` (`ValueStorage.cpp:304`) reads
`vs_idx` and overwrites it without checking that it still names the
victim slot; a `link_to_at` of another reclaim thread in between is
undone. The model lets one client's reclaim interleave with GC only
through the waiting on `reclaim_lock`, and a run with two clients and GC
did not finish within the time bound; in the code any number of clients
can reach it. It is listed as a hazard in `PROJECT.json`.

**Not modelled:**
* `scan` and `recover`. `remove` is modelled (`Remove`), with the slot
  it unlinks as a free choice, because it reads `vs_idx` through a cast
  of `&at_entry->val_addr` (`MTS.cpp:890`);
* the DRAM cache, which `PrismCache` models on its own;
* the io_uring read path and the IO completer threads.

There is one ValueStorage, and KeyIndex is a set.

## PRISM: `PrismCache`

### The cache in the code

* An AddressTable entry's `val_addr` is a tagged pointer (`util.cpp`):
  the tag is in the top byte, and `get_val_pos` (`MTS.cpp:562`) uses it
  with `vs_idx` to pick where a value lives. A `DCACHE_VAL` tag means
  a `dc_entry`. An `OPLOG_VAL` tag with no `vs_idx` means an `op_entry`.
  A valid `vs_idx` otherwise means the ValueStorage.
* A lookup that reads the ValueStorage queues an io_uring read. The IO
  completer pushes the completed reads onto `g_cacheQueue` as one
  vector.
* The cache thread (`DramCacheThreadExec`, `MTS.cpp:143`) alternates
  between two jobs:
  * `freeOperation` on each at_entry from `g_cacheFreeQueue`;
  * `cacheOperation` on each `cq_entry`. A new entry goes to the head
    of `inactive_list`. One that is already cached moves to
    `active_list`. `link_to_at` then CASes `val_addr` to the entry
    with the `DCACHE_VAL` tag.
* A list over its `max_size` loses its tail: `active_list` demotes the
  tail into `inactive_list`, and `evict_entry` frees the tail of
  `inactive_list`.
* `update` and `remove` call `cache_free_kv_items`, which queues the
  at_entry for `freeOperation` when `is_cached` is set.

### State and actions

* `at[k]` is the at_entry as `[vs, tag, ref]`:
  * `vs` is `vs_idx`, reduced to the value it holds or `NoVs`;
  * `tag` is the top byte of `val_addr`;
  * `ref` is what the untagged pointer names (an op_entry, a dc_entry
    or nothing).
* `latest[k]` is the last value written to the key.
* `pend` holds the OpLog entries the reclaim has not yet run on.
* `dc` holds the dc_entries, with a `freed` flag. `active` and
  `inactive` are the two LRU lists, as sequences from head to tail.
* `ios` holds the reads in flight, `cq` is `g_cacheQueue`, `fq` is
  `g_cacheFreeQueue`, and `pc[c]` is a client's step.
* `fault` records a crash; once it is set, the process has stopped.
* Actions:
  * `CtCache` and `CtFree(c)`: the cache thread;
  * `Insert`, `Update`, `CacheFreeKvItems`, `Lookup`, `LookupDeref`,
    `Remove` and `RemoveAt`: the clients;
  * `Reclaim`: the OpLog reclaim of one entry;
  * `IoComplete`: the IO completer.
* The bitmap, chunks and GC are `PrismKV`'s and are left out.
* The bounds are one or two clients, one or two keys and three
  operations. The lists' `max_size` is 1, and `ReclaimPages` is 2, so
  each eviction frees one entry. Every path of `cacheOperation` is
  reached within those bounds.

### Properties and findings

1. **`CacheHoldsLatest`: a stale value is cached (code bug,
   `CacheThread.cpp:216`).**
   * The property: a key whose `get_val_pos` is `DCACHE_VAL` maps to a
     dc_entry holding the key's latest value.
   * `cacheOperation` and `link_to_at` skip a `cq_entry` only while an
     update is pending in the OpLog, that is, while `vs_id < 0` and
     the tag is `OPLOG_VAL`.
   * The reclaim publishes the update's value at `vs_idx` and leaves
     `val_addr` alone.
   * So a read of the old value, queued before the update, passes both
     tests once the reclaim has run, and `val_addr` becomes
     `DCACHE`-tagged.
   * Run `cache_stale_fill` (one client) finds this in six steps:
     lookup, update, reclaim, IO completion, `cacheOperation`. Every
     later lookup returns the old value until the entry is evicted.
   * The `cq_entry` carries nothing, such as the op_entry it was read
     under, that `link_to_at` could compare `val_addr` with.
2. **`FreeOperationSafe`: `freeOperation` dereferences a tagged pointer
   (code bug, `CacheThread.cpp:168-173`).**
   * `remove` of a cached key queues its at_entry through
     `cache_free_kv_items` and only then calls `AddressTable::free`,
     which retags `val_addr` CLEAN.
   * `freeOperation` casts `val_addr` to a dc_entry without
     `get_untagged_ptr`. If the cache thread gets there first, the
     pointer still carries the `DCACHE_VAL` tag and is not canonical.
     The `ts_trace` at line 170 (`TS_INFO` is the default level) and
     the read of `list_type` fault on it.
   * Repro: `MCPrismCache_free.cfg`, seven steps.
3. **`LookupReadsLive`: lookup reads a freed dc_entry (code bug,
   `MTS.cpp:703-722`).**
   * `lookup` takes the dc_entry from `get_val_pos` and reads
     `at_entry` and `val` from it later, with no epoch, lock or
     reference count.
   * Between those two steps, the cache thread can evict the entry
     and free it.
   * Repro: `MCPrismCache_uaf.cfg`, two keys, eight steps.

**Dead code, not modelled:**
* `cacheOperation`'s scan chaining (`CT_SCAN`) assigns `s_prev` and
  `s_next` only when they are already non-NULL. A chain never forms,
  so `evict_entry`'s `CT_SCAN` branch cannot run.
* `evict_entry` never checks for an empty list. With the real sizes
  the list is never empty there.
* `update`'s `cache_free_kv_items` never fires, because after
  `link_to_ol` the tag is `OPLOG_VAL`. The model keeps the call and
  its test.

## Not modelled yet, and the plan

In order of importance:

1. Fix or document the flush starvation (`FlushTerminates`). A fix is
   to leave the spin once the log is empty, whoever reclaimed it; the
   same check would then state the property under weak fairness.
2. `need_free` and `qp_cleanup_ckptlogs`: tombstoned objects and the
   deferred free of their masters after the barrier. `TSCkptLog` would
   take them.
3. `TSDurable` and finding 4: an abstract store that the committed
   versions refine, with recovery as the mapping. It holds only with the
   clock gap closed.
4. PRISM: `scan` with its `CT_SCAN` cache entries, and a GC run with two clients small
   enough for the time bound.
5. Recovery: `TSReplay` with `op_exec`'s effect on the objects, so
   that replay restores the values `CommitsRecoverable` expects, and the
   checkpoint-log recovery of `TSCkptLog` composed in front of it.

Not planned:
* ValueStorage's io_uring batching, AIO, the NVM allocator back ends,
  statistics and debug dumps: these are I/O or library wrappers.
* The benchmark driver and the YCSB generator.
