------------------------------- MODULE PrismKV -------------------------------
(***************************************************************************)
(* The PRISM write path (src/PRISM/src): client threads running           *)
(* MTSImpl::insert / update against a per-thread double-buffered OpLog,   *)
(* the OpLog reclaim thread that drains a full buffer into the            *)
(* ValueStorage (put_vs_entry, alloc, write_chunk, sync_with_at,          *)
(* link_to_at), the AddressTable entries both sides link, and the value   *)
(* MTSImpl::lookup reads.                                                 *)
(*                                                                         *)
(* Data abstraction: an AddressTable entry is named by its key (one entry *)
(* per key; a removed key's entry is freed and its next insert reuses   *)
(* it), an OpLog entry by <<client, buffer, slot>>, a     *)
(* ValueStorage entry by <<chunk, offset>>; entry sizes are one slot, so  *)
(* head_cnt and tail_cnt count entries.  A single ValueStorage is picked  *)
(* by every reclaim.  Values are the number of the operation that wrote   *)
(* them, so every written value is distinct.                              *)
(***************************************************************************)
EXTENDS Integers, Sequences, FiniteSets, TLC

CONSTANTS
    Clients,          \* client threads, each owning an OpLog (MTS_OPLOG_NUM)
    Keys,             \* keys, positive integers (Key_t is ordered)
    OplogCap,         \* entries per OpLog buffer (MTS_OPLOG_HIGH_MARK)
    EntriesPerChunk,  \* MTS_VS_ENTRIES_PER_CHUNK
    ChunkNum,         \* MTS_VS_CHUNK_NUM
    VsHighMark,       \* MTS_VS_HIGH_MARK: above it init_w_chunk runs GC
    VsLowMark,        \* MTS_VS_LOW_MARK: GC stops below it
    MaxOps,           \* bound on insert, update and remove operations
    RemoveKeys        \* the keys clients may remove

NULL == 0                       \* a NULL at_entry pointer / an unset key
NoRef == <<>>                   \* at_entry->val_addr that points nowhere
NEWLY_UPDATED_VAL == -1         \* mts-config.h
PRE_VALUESTORAGE_VAL == -2      \* mts-config.h
RETRY_LOOKUP == -1              \* not a value: lookup goes back to RETRY_LOOKUP
Bufs == {0, 1}                  \* oplog1, oplog2
Chunks == 0 .. ChunkNum - 1
Vals == 0 .. MaxOps
EmptyEntry == [key |-> NULL, val |-> 0, at |-> NULL]
EmptyBuf == [i \in 1 .. EntriesPerChunk |-> EmptyEntry]
VsEntries == [key : Keys \cup {NULL}, val : Vals, at : Keys \cup {NULL}]
OpEntries == [key : Keys \cup {NULL}, val : Vals, opa : Keys \cup {NULL}]

VARIABLES
    ki,             \* KeyIndex: keys inserted
    at,             \* AddressTable entry of each key
    ol,             \* ol[c][b]: buffer b of client c's OpLog
    working,        \* working_oplog of each OpLog
    reclaim_lock,   \* OpLog::reclaim_lock
    reclaim_thread, \* the buffer of the thread OpLog::reclaim_thread names
    rt,             \* rt[c][b]: the reclaim thread draining buffer b of c
    wc,             \* w_chunk[oplog_id] of the ValueStorage
    bitmap,         \* vs_bitmap_info: the valid offsets of each chunk
    freeList,       \* free_chunk_list
    disk,           \* the chunks of the ValueStorage file
    cl,             \* client threads between the steps of an update
    gc,             \* the garbage collection in progress, if any
    crashed,        \* "none", or how the process died: a client dereferenced
                    \* the NULL op_entry enq returned, or no free chunk was left
    latest,         \* history: the value of the last linked write of a key
    nops            \* operations issued

vars == <<ki, at, ol, working, reclaim_lock, reclaim_thread, rt, wc, bitmap,
          freeList, disk, gc, cl, crashed, latest, nops>>

-----------------------------------------------------------------------------
(* OpLog (OpLog.cpp)                                                       *)

\* tail_cnt - head_cnt (oplog_used)
Used(o) == o.tail - o.head

\* Mutant: the high-mark test lets the last entry past the buffer.
NeedReclaim_offByOne(c, b) == Used(ol[c][b]) > OplogCap

\* put_ol_entry's check: oplog_index = used + entry_size > MTS_OPLOG_HIGH_MARK
NeedReclaim(c, b) == Used(ol[c][b]) + 1 > OplogCap

\* oplog_enq: nvlog_enq reserves the slot at tail_cnt, the key and value are
\* written, op_entry->opa is left as it was; link_to_at then stores the
\* AddressTable entry in it.
PutOlEntry(o, k, v) ==
    [o EXCEPT !.ent[o.tail] = [key |-> k, val |-> v, opa |-> k],
              !.tail = @ + 1]

\* OpLog::enq followed by OpLog::link_to_at, when the working buffer has room.
EnqFast(c, k, v) ==
    /\ ~NeedReclaim(c, working[c])
    /\ ol' = [ol EXCEPT ![c][working[c]] = PutOlEntry(@, k, v)]
    /\ UNCHANGED <<working, reclaim_lock, reclaim_thread, rt>>

\* OpLog::enq on NEED_RECLAIM: join the last reclaim thread if reclaim_lock
\* is set, start a reclaim thread on the full buffer, switch to the other
\* buffer (ready is not consulted) and put the entry there.
EnqSwitch(c, k, v) ==
    LET b == working[c] IN
    /\ NeedReclaim(c, b)
    /\ reclaim_lock[c] => rt[c][reclaim_thread[c]].pc = "idle"
    /\ ~NeedReclaim(c, 1 - b)
    /\ rt' = [rt EXCEPT ![c][b].pc = "start"]
    /\ reclaim_thread' = [reclaim_thread EXCEPT ![c] = b]
    /\ working' = [working EXCEPT ![c] = 1 - b]
    /\ ol' = [ol EXCEPT ![c][1 - b] = PutOlEntry(@, k, v)]
    /\ UNCHANGED reclaim_lock

\* The reference of the entry enq returned.
EnqRef(c) ==
    LET b == IF NeedReclaim(c, working[c]) THEN 1 - working[c] ELSE working[c]
    IN  <<c, b, ol[c][b].tail>>

Enq(c, k, v) == EnqFast(c, k, v) \/ EnqSwitch(c, k, v)

-----------------------------------------------------------------------------
(* ValueStorage (ValueStorage.cpp)                                         *)

VsValid(a) == a.vs_id > -1 /\ a.vs_off > -1

\* is_empty: no valid entry in the chunk
IsEmpty(ch) == bitmap[ch] = {}

\* get_free_chunk_offset: drop chunks from the front of free_chunk_list
\* while they still have valid entries, then take the front one.
RECURSIVE FreeChunkIdx(_, _)
FreeChunkIdx(l, i) ==
    IF i > Len(l) \/ IsEmpty(l[i]) THEN i ELSE FreeChunkIdx(l, i + 1)

\* unlink_to_at: nothing if the bit is clear; clear_vs_bitmap_info clears
\* it and a chunk left empty goes to free_chunk_list (add_free_chunk_list).
UnlinkToAt(ch, e) ==
    IF e \in bitmap[ch]
      THEN /\ bitmap' = [bitmap EXCEPT ![ch] = @ \ {e}]
           /\ freeList' = IF bitmap[ch] = {e} THEN Append(freeList, ch)
                                             ELSE freeList
      ELSE UNCHANGED <<bitmap, freeList>>

\* add_moved_entry_list: the record sync_with_at works through.
MovedEntry(ch, o, a, op) == [chunk |-> ch, off |-> o, at |-> a, op |-> op]

UsedChunkNum == ChunkNum - Len(freeList)

\* not_enough_free_chunk
NotEnoughFreeChunk == UsedChunkNum > VsHighMark

\* sort_w_buffer: the entries up to the first one without an at_entry,
\* sorted by key (std::sort, equal keys in any order), the rest zeroed.
PrefixLen(buf) ==
    LET n == {i \in 1 .. EntriesPerChunk : \A j \in 1 .. i : buf[j].at # NULL}
    IN  IF n = {} THEN 0 ELSE CHOOSE i \in n : \A j \in n : j <= i

SortedBuffers(buf) ==
    LET n == PrefixLen(buf)
        arranged(p) == [i \in 1 .. EntriesPerChunk |->
                            IF i <= n THEN buf[p[i]] ELSE EmptyEntry]
    IN  { arranged(p) : p \in { p \in Permutations(1 .. n) :
                                  \A i, j \in 1 .. n :
                                     i < j => buf[p[i]].key <= buf[p[j]].key } }

\* sort_moved_entry: the at_entries of the moved entries are sorted by key
\* and written back over the list, whose offsets keep their order.
SortMoved(moved) ==
    LET ats == SortSeq([i \in 1 .. Len(moved) |-> moved[i].at], <)
    IN  [i \in 1 .. Len(moved) |-> [moved[i] EXCEPT !.at = ats[i]]]

\* ValueStorage::alloc marks the entry as arriving in the ValueStorage.
Alloc(k) == at' = [at EXCEPT ![k].vs_off = PRE_VALUESTORAGE_VAL]

\* write_chunk: sort the write buffer and write it over the chunk; the sync
\* that follows (sync_with_at) links the moved entries one by one.  The
\* entry_offset is reset here: after the sync both callers restart the chunk
\* (put_vs_entry's init_w_chunk, forced_write_chunk's entry_offset = 0).
WriteChunk(c, b, after) ==
    \E sorted \in SortedBuffers(wc[c].buf) :
        /\ disk' = [disk EXCEPT ![wc[c].chunk] = sorted]
        /\ wc' = [wc EXCEPT ![c].buf = sorted, ![c].eo = 0, ![c].moved = <<>>]
        /\ rt' = [rt EXCEPT ![c][b].sync = SortMoved(wc[c].moved),
                            ![c][b].pc = IF wc[c].moved = <<>> THEN after
                                                               ELSE "sync",
                            ![c][b].after = after]

\* put_vs_entry with entry_offset < MTS_VS_ENTRIES_PER_CHUNK, after
\* init_w_chunk when the offset is 0: alloc, buffer the entry, record it in
\* moved_entry_list.  init_w_chunk takes the chunk get_free_chunk_offset
\* returns.
BufferEntry(c, e) ==
    LET w == wc[c]
        i == FreeChunkIdx(freeList, 1)
        chunk == IF w.eo = 0 THEN freeList[i] ELSE w.chunk
    IN  /\ w.eo = 0 => i <= Len(freeList)
        /\ freeList' = IF w.eo = 0 THEN SubSeq(freeList, i + 1, Len(freeList))
                                   ELSE freeList
        /\ wc' = [wc EXCEPT ![c].chunk = chunk,
                            ![c].buf[w.eo + 1] = e,
                            ![c].moved = Append(@, MovedEntry(chunk, w.eo, e.at,
                                                              "insert")),
                            ![c].eo = w.eo + 1]
        /\ Alloc(e.at)

-----------------------------------------------------------------------------
(* The reclaim thread: OpLog::reclaim(oplog_id)                            *)

RtIdle == [pc |-> "idle", oldHead |-> 0, cur |-> EmptyEntry, sync |-> <<>>,
           after |-> "idle", rd |-> 0]

\* Lines 118-140: reclaimed, reclaim_lock = true, ready = false, pick the
\* ValueStorage, remember head_cnt.
ReclaimStart(c, b) ==
    /\ crashed = "none"
    /\ rt[c][b].pc = "start"
    /\ reclaim_lock' = [reclaim_lock EXCEPT ![c] = TRUE]
    /\ rt' = [rt EXCEPT ![c][b].pc = "loop", ![c][b].oldHead = ol[c][b].head]
    /\ UNCHANGED <<gc, ki, at, ol, working, reclaim_thread, wc, bitmap, freeList,
                   disk, cl, crashed, latest, nops>>

\* oplog_peek_head and the validation test: the entry is put into the
\* ValueStorage only if it is still the one its AddressTable entry's
\* val_addr points to.  The test reads at_entry->val_addr through opa with
\* no NULL check: an entry whose opa a remove cleared kills the thread.  The log is never empty here: a reclaim starts on a
\* full buffer and the loop breaks when a deq empties it.
ReclaimPeek(c, b) ==
    LET o == ol[c][b]
        e == o.ent[o.head]
    IN  /\ rt[c][b].pc = "loop"
        /\ crashed = "none"
        /\ o.head # o.tail
        /\ \/ /\ e.opa = NULL
              /\ crashed' = "opa_null"
              /\ UNCHANGED rt
           \/ /\ e.opa # NULL
              /\ rt' = [rt EXCEPT ![c][b].pc =
                          IF at[e.opa].val_addr = <<c, b, o.head>> THEN "put"
                                                                   ELSE "deq",
                        ![c][b].cur = [key |-> e.key, val |-> e.val, at |-> e.opa]]
              /\ UNCHANGED crashed
        /\ UNCHANGED <<gc, ki, at, ol, working, reclaim_lock, reclaim_thread, wc,
                       bitmap, freeList, disk, cl, latest, nops>>

\* vs->put_vs_entry(g_oplog_id, key, val, at_entry).  A full chunk is
\* written and synced first; the entry is then buffered in a new chunk.
\* init_w_chunk takes the spinlock: it waits while a GC holds it, and runs
\* the GC itself (GcSkip, GcBegin) when not_enough_free_chunk.
ReclaimPut(c, b) ==
    /\ crashed = "none"
    /\ rt[c][b].pc = "put"
    /\ \/ /\ wc[c].eo < EntriesPerChunk
          /\ wc[c].eo = 0 => gc.pc = "idle" /\ ~NotEnoughFreeChunk
          /\ BufferEntry(c, rt[c][b].cur)
          /\ rt' = [rt EXCEPT ![c][b].pc = "deq"]
          /\ UNCHANGED disk
       \/ /\ wc[c].eo = EntriesPerChunk
          /\ WriteChunk(c, b, "put")
          /\ UNCHANGED <<at, freeList>>
    /\ UNCHANGED <<gc, ki, ol, working, reclaim_lock, reclaim_thread, bitmap, cl,
                   crashed, latest, nops>>

\* Mutant: the loop breaks at the low mark without forced_write_chunk.
ReclaimDeq_noForcedWrite(c, b) ==
    /\ rt[c][b].pc = "deq"
    /\ ol' = [ol EXCEPT ![c][b].head = @ + 1]
    /\ rt' = [rt EXCEPT ![c][b].pc = IF Used(ol[c][b]) - 1 = 0 THEN "end"
                                                                ELSE "loop"]
    /\ UNCHANGED <<gc, ki, at, working, reclaim_lock, reclaim_thread, wc, bitmap,
                   freeList, disk, cl, crashed, latest, nops>>

\* oplog_deq; when the log is down to MTS_OPLOG_LOW_MARK (0), the partly
\* filled chunk is written (forced_write_chunk) and the loop ends.
ReclaimDeq(c, b) ==
    /\ crashed = "none"
    /\ rt[c][b].pc = "deq"
    /\ ol' = [ol EXCEPT ![c][b].head = @ + 1]
    /\ IF Used(ol[c][b]) - 1 = 0
         THEN WriteChunk(c, b, "end")
         ELSE /\ rt' = [rt EXCEPT ![c][b].pc = "loop"]
              /\ UNCHANGED <<wc, disk>>
    /\ UNCHANGED <<gc, ki, at, working, reclaim_lock, reclaim_thread, bitmap,
                   freeList, cl, crashed, latest, nops>>

\* ValueStorage::link_to_at, first half: read at_entry->vs_idx.vs_offset.
SyncRead(c, b) ==
    /\ crashed = "none"
    /\ rt[c][b].pc = "sync"
    /\ rt' = [rt EXCEPT ![c][b].rd = at[Head(rt[c][b].sync).at].vs_off,
                        ![c][b].pc = "link"]
    /\ UNCHANGED <<gc, ki, at, ol, working, reclaim_lock, reclaim_thread, wc,
                   bitmap, freeList, disk, cl, crashed, latest, nops>>

\* link_to_at, second half: unless the offset read was NEWLY_UPDATED_VAL,
\* write vs_idx = {vs_id, offset} (pmem_memcpy, _mm_sfence).
SyncLink(c, b) ==
    LET m == Head(rt[c][b].sync) IN
    /\ crashed = "none"
    /\ rt[c][b].pc = "link"
    /\ rt[c][b].rd # NEWLY_UPDATED_VAL
    /\ at' = [at EXCEPT ![m.at].vs_id = 0,
                        ![m.at].vs_off = m.chunk * EntriesPerChunk + m.off]
    /\ rt' = [rt EXCEPT ![c][b].pc = "setbit"]
    /\ UNCHANGED <<gc, ki, ol, working, reclaim_lock, reclaim_thread, wc, bitmap,
                   freeList, disk, cl, crashed, latest, nops>>

\* Mutant: the sync loop does not advance past the entry.
NextMoved_stuck(c, b) ==
    rt' = [rt EXCEPT ![c][b].pc = "sync"]

\* The entry is done: after set_vs_bitmap_info, or skipped when the offset
\* read was NEWLY_UPDATED_VAL.  The next moved entry follows, or the caller.
NextMoved(c, b) ==
    LET rest == Tail(rt[c][b].sync) IN
    rt' = [rt EXCEPT ![c][b].sync = rest,
                     ![c][b].pc = IF rest = <<>> THEN rt[c][b].after ELSE "sync"]

SyncSkip(c, b) ==
    /\ crashed = "none"
    /\ rt[c][b].pc = "link"
    /\ rt[c][b].rd = NEWLY_UPDATED_VAL
    /\ NextMoved(c, b)
    /\ UNCHANGED <<gc, ki, at, ol, working, reclaim_lock, reclaim_thread, wc,
                   bitmap, freeList, disk, cl, crashed, latest, nops>>

\* link_to_at, last step: set_vs_bitmap_info sets the entry's bit.
SyncSetBit(c, b) ==
    LET m == Head(rt[c][b].sync) IN
    /\ crashed = "none"
    /\ rt[c][b].pc = "setbit"
    /\ bitmap' = [bitmap EXCEPT ![m.chunk] = @ \cup {m.off}]
    /\ NextMoved(c, b)
    /\ UNCHANGED <<gc, ki, at, ol, working, reclaim_lock, reclaim_thread, wc,
                   freeList, disk, cl, crashed, latest, nops>>

\* Lines 178-193: reset head_cnt = tail_cnt = 0 if anything was reclaimed,
\* ready = true, reclaim_lock = false.
ReclaimEnd(c, b) ==
    /\ crashed = "none"
    /\ rt[c][b].pc = "end"
    /\ ol' = IF ol[c][b].head # rt[c][b].oldHead
               THEN [ol EXCEPT ![c][b].head = 0, ![c][b].tail = 0]
               ELSE ol
    /\ reclaim_lock' = [reclaim_lock EXCEPT ![c] = FALSE]
    /\ rt' = [rt EXCEPT ![c][b] = RtIdle]
    /\ UNCHANGED <<gc, ki, at, working, reclaim_thread, wc, bitmap, freeList,
                   disk, cl, crashed, latest, nops>>

-----------------------------------------------------------------------------
(* Garbage collection: ValueStorage::garbage_collection, run by the        *)
(* reclaim thread whose init_w_chunk finds not_enough_free_chunk, holding  *)
(* the spinlock.  gc.owner names that thread; clients and the other        *)
(* reclaim threads keep running, only their init_w_chunk waits.            *)

GcIdle == [pc |-> "idle", owner |-> <<>>, list |-> <<>>, order |-> 0, r |-> 0,
           rbuf |-> EmptyBuf, i |-> 0, wchunk |-> 0, woff |-> 0,
           buf |-> EmptyBuf, moved |-> <<>>, used |-> 0, before |-> 0,
           sync |-> <<>>, rd |-> [id |-> -1, off |-> -1], after |-> "done"]

\* create_used_chunk_list: the chunks with valid entries and their counts,
\* sorted by count (std::sort: equal counts in any order).
UsedChunkLists ==
    LET u == {ch \in Chunks : ~IsEmpty(ch)}
        n == Cardinality(u)
        cnt(ch) == Cardinality(bitmap[ch])
    IN  { [i \in 1 .. n |-> [chunk |-> p[i], n |-> cnt(p[i])]] :
            p \in { p \in [1 .. n -> u] :
                      /\ \A i, j \in 1 .. n : i # j => p[i] # p[j]
                      /\ \A i \in 1 .. n - 1 : cnt(p[i]) <= cnt(p[i + 1]) } }

\* Cases 1 and 2: fewer than two used chunks, or the two emptiest hold
\* more than a chunk.
GcUseless(list) ==
    IF Len(list) < 2 THEN TRUE ELSE list[1].n + list[2].n > EntriesPerChunk

\* init_gc_w_chunk: gc_w_chunk takes get_free_chunk_offset's chunk.
InitGcWChunk(g) ==
    LET i == FreeChunkIdx(freeList, 1) IN
    /\ i <= Len(freeList)
    /\ freeList' = SubSeq(freeList, i + 1, Len(freeList))
    /\ gc' = [g EXCEPT !.wchunk = freeList[i], !.woff = 0]

\* get_victim_chunk_offset returns -1: used_chunk_list is exhausted or the
\* next chunk's count (as counted at create time) is a full chunk.
NoVictim(g) ==
    IF g.order >= Len(g.list) THEN TRUE
    ELSE g.list[g.order + 1].n = EntriesPerChunk

\* Mutant: write_gc_w_chunk writes gc_w_buffer without sort_w_buffer.
GcWrite_unsorted(g, after) ==
    /\ disk' = [disk EXCEPT ![g.wchunk] = g.buf]
    /\ gc' = [g EXCEPT !.buf = EmptyBuf, !.moved = <<>>,
                       !.sync = SortMoved(g.moved), !.pc = "gcsync",
                       !.after = after]

\* write_gc_w_chunk (sort_w_buffer, write, memset of gc_w_buffer), then
\* gc_sync_with_at over the sorted moved list.
GcWrite(g, after) ==
    \E sorted \in SortedBuffers(g.buf) :
        /\ disk' = [disk EXCEPT ![g.wchunk] = sorted]
        /\ gc' = [g EXCEPT !.buf = EmptyBuf, !.moved = <<>>,
                           !.sync = SortMoved(g.moved), !.pc = "gcsync",
                           !.after = after]

\* The next moved entry of gc_sync_with_at, or back to the caller.
GcNext(g) ==
    gc' = [g EXCEPT !.sync = Tail(g.sync),
                    !.pc = IF Tail(g.sync) = <<>> THEN g.after ELSE "gcsync"]

\* get_free_chunk_offset with free_chunk_list exhausted: front() of the
\* empty vector is undefined; the model takes the build's check of the
\* offset read (>= MTS_VS_CHUNK_NUM) and exit(EXIT_FAILURE).  Every path
\* from init_w_chunk calls it before changing anything else.
FreeChunkAvail == FreeChunkIdx(freeList, 1) <= Len(freeList)

VsExit(c, b) ==
    /\ crashed = "none"
    /\ ~FreeChunkAvail
    /\ \/ rt[c][b].pc = "put" /\ wc[c].eo = 0 /\ gc.pc = "idle"
       \/ gc.owner = <<c, b>> /\ gc.pc = "done"
       \/ /\ gc.owner = <<c, b>> /\ gc.pc = "full"
          /\ ~(gc.used + 1 = gc.before \/ gc.used + 1 < VsLowMark)
    /\ crashed' = "exit"
    /\ UNCHANGED <<gc, ki, at, ol, working, reclaim_lock, reclaim_thread, rt,
                   wc, bitmap, freeList, disk, cl, latest, nops>>

\* init_w_chunk when garbage_collection returns at case 1 or 2: it goes on
\* with get_free_chunk_offset and put_vs_entry buffers the entry.
GcSkip(c, b) ==
    /\ crashed = "none"
    /\ rt[c][b].pc = "put"
    /\ wc[c].eo = 0
    /\ gc.pc = "idle"
    /\ NotEnoughFreeChunk
    /\ \E list \in UsedChunkLists : GcUseless(list)
    /\ BufferEntry(c, rt[c][b].cur)
    /\ rt' = [rt EXCEPT ![c][b].pc = "deq"]
    /\ UNCHANGED <<gc, ki, ol, working, reclaim_lock, reclaim_thread, bitmap,
                   disk, cl, crashed, latest, nops>>

\* garbage_collection past cases 1 and 2: used_chunk_num is taken, then
\* init_gc_w_chunk.
GcBegin(c, b) ==
    /\ crashed = "none"
    /\ rt[c][b].pc = "put"
    /\ wc[c].eo = 0
    /\ gc.pc = "idle"
    /\ NotEnoughFreeChunk
    /\ \E list \in UsedChunkLists :
         /\ ~GcUseless(list)
         /\ InitGcWChunk([GcIdle EXCEPT !.pc = "victim", !.owner = <<c, b>>,
                                        !.list = list, !.used = UsedChunkNum,
                                        !.before = UsedChunkNum])
    /\ rt' = [rt EXCEPT ![c][b].pc = "gc"]
    /\ UNCHANGED <<ki, at, ol, working, reclaim_lock, reclaim_thread, wc,
                   bitmap, disk, cl, crashed, latest, nops>>

\* The victim loop: get_victim_chunk_offset, then read_gc_r_chunk.
GcVictim(c, b) ==
    LET g == gc
        r == g.list[g.order + 1].chunk
    IN  /\ g.pc = "victim" /\ g.owner = <<c, b>>
        /\ crashed = "none"
        /\ ~NoVictim(g)
        /\ gc' = [g EXCEPT !.pc = "copy", !.r = r, !.order = @ + 1,
                           !.rbuf = disk[r], !.i = 0]
        /\ UNCHANGED <<ki, at, ol, working, reclaim_lock, reclaim_thread, rt,
                       wc, bitmap, freeList, disk, cl, crashed, latest, nops>>

\* No victim left: case 3 returns gc_w_chunk to free_chunk_list when
\* nothing was gathered, case 5 writes and syncs what was.
GcNoVictim(c, b) ==
    LET g == gc IN
    /\ crashed = "none"
    /\ g.pc = "victim" /\ g.owner = <<c, b>>
    /\ NoVictim(g)
    /\ \/ /\ g.moved = <<>>
          /\ freeList' = Append(freeList, g.wchunk)
          /\ gc' = [g EXCEPT !.pc = "done"]
          /\ UNCHANGED disk
       \/ /\ g.moved # <<>>
          /\ GcWrite(g, "done")
          /\ UNCHANGED freeList
    /\ UNCHANGED <<ki, at, ol, working, reclaim_lock, reclaim_thread, rt, wc,
                   bitmap, cl, crashed, latest, nops>>

\* Mutant: the copy loop lets gc_w_buffer's last slot be passed over.
GcCopy_fullOffByOne(c, b) ==
    LET g == gc
        e == g.rbuf[g.i + 1]
        g2 == [g EXCEPT !.buf[g.woff + 1] = e, !.i = @ + 1,
                        !.moved = @ \o <<MovedEntry(g.wchunk, g.woff, e.at, "insert"),
                                         MovedEntry(g.r, g.i, e.at, "remove")>>]
    IN  /\ g.pc = "copy" /\ g.owner = <<c, b>>
        /\ crashed = "none"
        /\ g.i < EntriesPerChunk
        /\ \/ /\ g.i \notin bitmap[g.r]
              /\ gc' = [g EXCEPT !.i = @ + 1]
              /\ UNCHANGED disk
           \/ /\ g.i \in bitmap[g.r]
              /\ g.woff < EntriesPerChunk
              /\ gc' = [g2 EXCEPT !.woff = @ + 1]
              /\ UNCHANGED disk
           \/ /\ g.i \in bitmap[g.r]
              /\ g.woff = EntriesPerChunk
              /\ GcWrite(g2, "full")
        /\ UNCHANGED <<ki, at, ol, working, reclaim_lock, reclaim_thread, rt,
                       wc, bitmap, freeList, cl, crashed, latest, nops>>

\* Mutant: gc_w_chunk->entry_offset is not advanced after a copy.
GcCopy_noAdvance(c, b) ==
    LET g == gc
        e == g.rbuf[g.i + 1]
        g2 == [g EXCEPT !.buf[g.woff + 1] = e, !.i = @ + 1,
                        !.moved = @ \o <<MovedEntry(g.wchunk, g.woff, e.at, "insert"),
                                         MovedEntry(g.r, g.i, e.at, "remove")>>]
    IN  /\ g.pc = "copy" /\ g.owner = <<c, b>>
        /\ crashed = "none"
        /\ g.i < EntriesPerChunk
        /\ \/ /\ g.i \notin bitmap[g.r]
              /\ gc' = [g EXCEPT !.i = @ + 1]
              /\ UNCHANGED disk
           \/ /\ g.i \in bitmap[g.r]
              /\ g.woff < EntriesPerChunk - 1
              /\ gc' = g2
              /\ UNCHANGED disk
           \/ /\ g.i \in bitmap[g.r]
              /\ g.woff = EntriesPerChunk - 1
              /\ GcWrite(g2, "full")
        /\ UNCHANGED <<ki, at, ol, working, reclaim_lock, reclaim_thread, rt,
                       wc, bitmap, freeList, cl, crashed, latest, nops>>

\* One entry of the victim: if its bit is set now, copy it from gc_r_buffer
\* to gc_w_buffer and record an INSERT at the new place and a REMOVE at the
\* old one; a full gc_w_buffer is written and synced.
GcCopy(c, b) ==
    LET g == gc
        e == g.rbuf[g.i + 1]
        g2 == [g EXCEPT !.buf[g.woff + 1] = e, !.i = @ + 1,
                        !.moved = @ \o <<MovedEntry(g.wchunk, g.woff, e.at, "insert"),
                                         MovedEntry(g.r, g.i, e.at, "remove")>>]
    IN  /\ g.pc = "copy" /\ g.owner = <<c, b>>
        /\ crashed = "none"
        /\ g.i < EntriesPerChunk
        /\ \/ /\ g.i \notin bitmap[g.r]
              /\ gc' = [g EXCEPT !.i = @ + 1]
              /\ UNCHANGED disk
           \/ /\ g.i \in bitmap[g.r]
              /\ g.woff < EntriesPerChunk - 1
              /\ gc' = [g2 EXCEPT !.woff = @ + 1]
              /\ UNCHANGED disk
           \/ /\ g.i \in bitmap[g.r]
              /\ g.woff = EntriesPerChunk - 1
              /\ GcWrite(g2, "full")
        /\ UNCHANGED <<ki, at, ol, working, reclaim_lock, reclaim_thread, rt,
                       wc, bitmap, freeList, cl, crashed, latest, nops>>

\* The victim is read through: one chunk is considered free.
GcNextVictim(c, b) ==
    /\ crashed = "none"
    /\ gc.pc = "copy" /\ gc.owner = <<c, b>>
    /\ gc.i = EntriesPerChunk
    /\ gc' = [gc EXCEPT !.used = @ - 1, !.pc = "victim"]
    /\ UNCHANGED <<ki, at, ol, working, reclaim_lock, reclaim_thread, rt, wc,
                   bitmap, freeList, disk, cl, crashed, latest, nops>>

\* After a full gc_w_chunk: used_chunk_num++; GC ends if that undid the
\* chunks freed (case 4) or it is below MTS_VS_LOW_MARK, else a new
\* gc_w_chunk and the copy loop goes on.
GcFull(c, b) ==
    LET u == gc.used + 1 IN
    /\ crashed = "none"
    /\ gc.pc = "full" /\ gc.owner = <<c, b>>
    /\ \/ /\ u = gc.before \/ u < VsLowMark
          /\ gc' = [gc EXCEPT !.used = u, !.pc = "done"]
          /\ UNCHANGED freeList
       \/ /\ ~(u = gc.before \/ u < VsLowMark)
          /\ InitGcWChunk([gc EXCEPT !.used = u, !.pc = "copy"])
    /\ UNCHANGED <<ki, at, ol, working, reclaim_lock, reclaim_thread, rt, wc,
                   bitmap, disk, cl, crashed, latest, nops>>

\* gc_link_to_at, first half: copy at_entry->vs_idx.
GcLinkRead(c, b) ==
    LET m == Head(gc.sync) IN
    /\ crashed = "none"
    /\ gc.pc = "gcsync" /\ gc.owner = <<c, b>>
    /\ m.op = "insert"
    /\ gc' = [gc EXCEPT !.rd = [id |-> at[m.at].vs_id, off |-> at[m.at].vs_off],
                        !.pc = "gclink"]
    /\ UNCHANGED <<ki, at, ol, working, reclaim_lock, reclaim_thread, rt, wc,
                   bitmap, freeList, disk, cl, crashed, latest, nops>>

\* The copy is linked unless it read NEWLY_UPDATED_VAL, PRE_VALUESTORAGE_VAL
\* or another vs_id.  Nothing compares it with the victim's place.
GcLinkable(rd) ==
    rd.off \notin {NEWLY_UPDATED_VAL, PRE_VALUESTORAGE_VAL} /\ rd.id = 0

\* gc_link_to_at: pmem_memcpy of the new vs_idx, _mm_sfence.
GcLink(c, b) ==
    LET m == Head(gc.sync) IN
    /\ crashed = "none"
    /\ gc.pc = "gclink" /\ gc.owner = <<c, b>>
    /\ GcLinkable(gc.rd)
    /\ at' = [at EXCEPT ![m.at].vs_id = 0,
                        ![m.at].vs_off = m.chunk * EntriesPerChunk + m.off]
    /\ gc' = [gc EXCEPT !.pc = "gcsetbit"]
    /\ UNCHANGED <<ki, ol, working, reclaim_lock, reclaim_thread, rt, wc,
                   bitmap, freeList, disk, cl, crashed, latest, nops>>

GcLinkSkip(c, b) ==
    /\ crashed = "none"
    /\ gc.pc = "gclink" /\ gc.owner = <<c, b>>
    /\ ~GcLinkable(gc.rd)
    /\ GcNext(gc)
    /\ UNCHANGED <<ki, at, ol, working, reclaim_lock, reclaim_thread, rt, wc,
                   bitmap, freeList, disk, cl, crashed, latest, nops>>

\* gc_link_to_at, last step: set_vs_bitmap_info.
GcSetBit(c, b) ==
    LET m == Head(gc.sync) IN
    /\ crashed = "none"
    /\ gc.pc = "gcsetbit" /\ gc.owner = <<c, b>>
    /\ bitmap' = [bitmap EXCEPT ![m.chunk] = @ \cup {m.off}]
    /\ GcNext(gc)
    /\ UNCHANGED <<ki, at, ol, working, reclaim_lock, reclaim_thread, rt, wc,
                   freeList, disk, cl, crashed, latest, nops>>

\* A REMOVE record: unlink_to_at of the victim's place.
GcUnlink(c, b) ==
    LET m == Head(gc.sync) IN
    /\ crashed = "none"
    /\ gc.pc = "gcsync" /\ gc.owner = <<c, b>>
    /\ m.op = "remove"
    /\ UnlinkToAt(m.chunk, m.off)
    /\ GcNext(gc)
    /\ UNCHANGED <<ki, at, ol, working, reclaim_lock, reclaim_thread, rt, wc,
                   disk, cl, crashed, latest, nops>>

\* garbage_collection returns; init_w_chunk goes on (get_free_chunk_offset,
\* spinlock.unlock) and put_vs_entry buffers the entry.
GcEnd(c, b) ==
    /\ crashed = "none"
    /\ gc.pc = "done" /\ gc.owner = <<c, b>>
    /\ BufferEntry(c, rt[c][b].cur)
    /\ rt' = [rt EXCEPT ![c][b].pc = "deq"]
    /\ gc' = GcIdle
    /\ UNCHANGED <<ki, ol, working, reclaim_lock, reclaim_thread, bitmap,
                   disk, cl, crashed, latest, nops>>

-----------------------------------------------------------------------------
(* Client threads: MTSImpl::insert, update, lookup (MTS.cpp)               *)

\* insert: enq, AddressTable::assign (val_addr NULL, vs_idx {-1,-1}),
\* link_to_at, link_to_ol, keyindex.insert.  Until the key is in the
\* KeyIndex no other thread can reach the new entries.  A key is inserted
\* once.
Insert(c, k) ==
    LET v == nops + 1 IN
    /\ crashed = "none"
    /\ cl[c].pc = "idle"
    /\ nops < MaxOps
    /\ ~ki[k]
    /\ Enq(c, k, v)
    /\ at' = [at EXCEPT ![k] = [val_addr |-> EnqRef(c), vs_id |-> -1,
                                vs_off |-> -1]]
    /\ ki' = [ki EXCEPT ![k] = TRUE]
    /\ latest' = [latest EXCEPT ![k] = v]
    /\ nops' = v
    /\ UNCHANGED <<gc, wc, bitmap, freeList, disk, cl, crashed>>

\* update, first part: keyindex.lookup, OpLog::enq and OpLog::link_to_at.
\* An enq that switches buffers has started the reclaim thread of the full
\* buffer, which runs while the AddressTable entry still names the key's
\* previous op_entry.
Update(c, k) ==
    LET v == nops + 1 IN
    /\ crashed = "none"
    /\ cl[c].pc = "idle"
    /\ nops < MaxOps
    /\ ki[k]
    /\ Enq(c, k, v)
    /\ cl' = [cl EXCEPT ![c] = [pc |-> "link", key |-> k, ref |-> EnqRef(c),
                                val |-> v, past_id |-> -1, past_off |-> -1]]
    /\ nops' = v
    /\ UNCHANGED <<gc, ki, at, wc, bitmap, freeList, disk, crashed, latest>>

\* update, AddressTable::link_to_ol: read the old vs_idx and write
\* {val_addr = op_entry tagged OPLOG_VAL, vs_idx = {-1,-1}}.
UpdateLink(c) ==
    LET k == cl[c].key IN
    /\ cl[c].pc = "link"
    /\ at' = [at EXCEPT ![k] = [val_addr |-> cl[c].ref, vs_id |-> -1,
                                vs_off |-> -1]]
    /\ cl' = [cl EXCEPT ![c] = [@ EXCEPT !.pc = "unlink",
                                         !.past_id = at[k].vs_id,
                                         !.past_off = at[k].vs_off]]
    /\ latest' = [latest EXCEPT ![k] = cl[c].val]
    /\ UNCHANGED <<gc, ki, ol, working, reclaim_lock, reclaim_thread, rt, wc,
                   bitmap, freeList, disk, crashed, nops>>

\* update, second part: if the old vs_idx was valid, unlink_to_at clears its
\* bit (nothing if it is already clear) and a chunk left without valid
\* entries goes to free_chunk_list (clear_vs_bitmap_info).
\* cache_free_kv_items does nothing: no value is in the DRAM cache.
UpdateUnlink(c) ==
    LET off == cl[c].past_off
        chunk == off \div EntriesPerChunk
        e == off % EntriesPerChunk
        valid == off >= 0 /\ cl[c].past_id >= 0
    IN  /\ cl[c].pc = "unlink"
        /\ IF valid THEN UnlinkToAt(chunk, e) ELSE UNCHANGED <<bitmap, freeList>>
        /\ cl' = [cl EXCEPT ![c].pc = "idle"]
        /\ UNCHANGED <<gc, ki, at, ol, working, reclaim_lock, reclaim_thread, rt,
                       wc, disk, crashed, latest, nops>>

\* enq finds both buffers full (the reclaim thread on the other buffer had
\* not yet set reclaim_lock, so it was not joined): put_ol_entry returns
\* NEED_RECLAIM (NULL) and link_to_at writes through it.
EnqNull(c, k) ==
    /\ crashed = "none"
    /\ cl[c].pc = "idle"
    /\ nops < MaxOps
    /\ NeedReclaim(c, working[c])
    /\ reclaim_lock[c] => rt[c][reclaim_thread[c]].pc = "idle"
    /\ NeedReclaim(c, 1 - working[c])
    /\ crashed' = "enq_null"
    /\ UNCHANGED <<gc, ki, at, ol, working, reclaim_lock, reclaim_thread, rt, wc,
                   bitmap, freeList, disk, cl, latest, nops>>

\* AddressTable::free: val_addr tagged CLEAN_ENTRY, vs_idx {-1, -1}; and
\* keyindex.remove.
FreeEntry(k) ==
    /\ at' = [at EXCEPT ![k] = [val_addr |-> NoRef, vs_id |-> -1, vs_off |-> -1]]
    /\ ki' = [ki EXCEPT ![k] = FALSE]

\* remove: keyindex.lookup has no NULL check, so get_val_pos dereferences
\* the NULL at_entry of an absent key.  A value in the OpLog is unlinked by
\* OpLog::unlink_to_at (opa = NULL, val_addr = NULL).  For a value in the
\* ValueStorage the offset is read through a cast of &at_entry->val_addr:
\* it is the high half of the tagged op_entry pointer, a place in the
\* store fixed by where the OpLog is mapped, left open here, and that
\* place is unlinked.  Then AddressTable::free and keyindex.remove.
Remove(c, k) ==
    LET a == at[k] IN
    /\ crashed = "none"
    /\ cl[c].pc = "idle"
    /\ nops < MaxOps
    /\ k \in RemoveKeys
    /\ \/ /\ ~ki[k]
          /\ crashed' = "remove_null"
          /\ UNCHANGED <<ki, at, ol, bitmap, freeList>>
       \/ /\ ki[k] /\ ~VsValid(a)
          /\ ol' = [ol EXCEPT ![a.val_addr[1]][a.val_addr[2]].ent[a.val_addr[3]].opa
                                 = NULL]
          /\ FreeEntry(k)
          /\ UNCHANGED <<bitmap, freeList, crashed>>
       \/ /\ ki[k] /\ VsValid(a)
          /\ \E pos \in 0 .. ChunkNum * EntriesPerChunk - 1 :
                UnlinkToAt(pos \div EntriesPerChunk, pos % EntriesPerChunk)
          /\ FreeEntry(k)
          /\ UNCHANGED <<ol, crashed>>
    /\ nops' = nops + 1
    /\ UNCHANGED <<gc, working, reclaim_lock, reclaim_thread, rt, wc, disk, cl,
                   latest>>

\* lookup: get_val_pos, then the value from the ValueStorage entry vs_idx
\* names, or from the op_entry val_addr names; RETRY_LOOKUP when that
\* op_entry's opa is no longer this entry (lookup retries the same read).
LookupResult(k) ==
    LET a == at[k] IN
    IF VsValid(a)
      THEN disk[a.vs_off \div EntriesPerChunk][(a.vs_off % EntriesPerChunk) + 1].val
      ELSE LET e == ol[a.val_addr[1]][a.val_addr[2]].ent[a.val_addr[3]]
           IN  IF e.opa = k THEN e.val ELSE RETRY_LOOKUP

-----------------------------------------------------------------------------

Init ==
    /\ ki = [k \in Keys |-> FALSE]
    /\ at = [k \in Keys |-> [val_addr |-> NoRef, vs_id |-> -1, vs_off |-> -1]]
    /\ ol = [c \in Clients |-> [b \in Bufs |->
                [head |-> 0, tail |-> 0,
                 ent |-> [i \in 0 .. OplogCap - 1 |->
                            [key |-> NULL, val |-> 0, opa |-> NULL]]]]]
    /\ working = [c \in Clients |-> 0]
    /\ reclaim_lock = [c \in Clients |-> FALSE]
    /\ reclaim_thread = [c \in Clients |-> 0]
    /\ rt = [c \in Clients |-> [b \in Bufs |-> RtIdle]]
    \* new w_chunk_t leaves chunk_offset uninitialised
    /\ wc \in [Clients -> [chunk : Chunks, eo : {0},
                           buf : {[i \in 1 .. EntriesPerChunk |-> EmptyEntry]},
                           moved : {<<>>}]]
    /\ bitmap = [ch \in Chunks |-> {}]
    /\ freeList = [i \in 1 .. ChunkNum |-> i - 1]
    /\ disk = [ch \in Chunks |-> [i \in 1 .. EntriesPerChunk |-> EmptyEntry]]
    /\ cl = [c \in Clients |-> [pc |-> "idle", key |-> NULL, ref |-> NoRef,
                                val |-> 0, past_id |-> -1, past_off |-> -1]]
    /\ gc = GcIdle
    /\ crashed = "none"
    /\ latest = [k \in Keys |-> 0]
    /\ nops = 0

Client(c) ==
    \/ \E k \in Keys : Insert(c, k) \/ Update(c, k) \/ EnqNull(c, k) \/ Remove(c, k)
    \/ UpdateLink(c) \/ UpdateUnlink(c)

Reclaim(c, b) ==
    \/ ReclaimStart(c, b)
    \/ ReclaimPeek(c, b)
    \/ ReclaimPut(c, b)
    \/ ReclaimDeq(c, b)
    \/ SyncRead(c, b)
    \/ SyncLink(c, b)
    \/ SyncSkip(c, b)
    \/ SyncSetBit(c, b)
    \/ ReclaimEnd(c, b)
    \/ GcSkip(c, b) \/ GcBegin(c, b) \/ GcVictim(c, b) \/ GcNoVictim(c, b)
    \/ GcCopy(c, b) \/ GcNextVictim(c, b) \/ GcFull(c, b)
    \/ GcLinkRead(c, b) \/ GcLink(c, b) \/ GcLinkSkip(c, b) \/ GcSetBit(c, b)
    \/ GcUnlink(c, b) \/ GcEnd(c, b) \/ VsExit(c, b)

\* Every operation issued and every thread back to idle, or the process
\* crashed: the system stops.
Quiescent ==
    \/ crashed # "none"
    \/ /\ nops = MaxOps
       /\ \A c \in Clients : cl[c].pc = "idle"
       /\ \A c \in Clients, b \in Bufs : rt[c][b].pc = "idle"

Done == Quiescent /\ UNCHANGED vars

Next ==
    \/ \E c \in Clients : Client(c)
    \/ \E c \in Clients, b \in Bufs : Reclaim(c, b)
    \/ Done

Spec == Init /\ [][Next]_vars

\* Each reclaim thread is an OS thread the scheduler keeps running.
Fairness == \A c \in Clients, b \in Bufs : WF_vars(Reclaim(c, b))

LiveSpec == Spec /\ Fairness

-----------------------------------------------------------------------------

TypeOK ==
    /\ ki \in [Keys -> BOOLEAN]
    /\ \A k \in Keys : at[k].vs_off \in -2 .. ChunkNum * EntriesPerChunk - 1
    /\ \A c \in Clients, b \in Bufs :
          0 <= ol[c][b].head /\ ol[c][b].head <= ol[c][b].tail
          /\ ol[c][b].tail <= OplogCap
    /\ \A c \in Clients : wc[c].eo \in 0 .. EntriesPerChunk
    /\ gc.pc \in {"idle", "victim", "copy", "full", "gcsync", "gclink",
                  "gcsetbit", "done"}
    /\ gc.woff \in 0 .. EntriesPerChunk - 1
    /\ crashed \in {"none", "enq_null", "exit", "remove_null", "opa_null"}

\* Linearizable reads: once an insert or update has linked its op_entry into
\* the AddressTable (link_to_ol), a lookup of the key returns that value
\* (the value whose write linked last), never an older one, another key's,
\* or a retry that cannot end.
LookupFresh ==
    \A k \in Keys : ki[k] => LookupResult(k) = latest[k]

\* Reads served from the OpLog are fresh: whenever vs_idx is not valid, the
\* op_entry val_addr names still holds this key's latest value.  This needs
\* the reclaim thread to sync every moved entry (forced_write_chunk) before
\* it resets head_cnt and tail_cnt and the buffer is reused, and the
\* validation test to skip superseded entries.
OplogPathFresh ==
    \A k \in Keys : ki[k] /\ ~VsValid(at[k]) => LookupResult(k) = latest[k]

\* A reclaim thread, once spawned by enq, runs to its end (reclaim_lock
\* false again) unless the process dies first, so a client's join in enq
\* never waits forever.
ReclaimTerminates ==
    \A c \in Clients, b \in Bufs :
        rt[c][b].pc = "start" ~> (rt[c][b].pc = "idle" \/ crashed # "none")

\* A client thread never dereferences the NULL op_entry OpLog::enq returns
\* when both buffers are full (put_ol_entry's NEED_RECLAIM on the buffer it
\* just switched to).  enq joins the previous reclaim thread only when
\* reclaim_lock is set, and that thread sets it itself once it runs.
EnqNeverNull == crashed # "enq_null"

\* The OpLog reclaim thread survives removes: OpLog::reclaim's validation
\* test reads at_entry->val_addr through the opa of every entry it peeks,
\* with no NULL check, and a remove (OpLog::unlink_to_at) clears the opa of
\* the key's latest entry while that entry may still wait in a buffer that
\* a later enq hands to a reclaim thread.
ReclaimSurvivesRemove == crashed # "opa_null"

\* Every valid bit of vs_bitmap_info belongs to a value some AddressTable
\* entry still names, or one whose update is about to unlink it; a bit no
\* one names is never cleared, and its chunk never returns to
\* free_chunk_list.
PositionNamed(ch, o) ==
    LET pos == ch * EntriesPerChunk + o IN
    \/ \E k \in Keys : VsValid(at[k]) /\ at[k].vs_off = pos
    \/ \E c \in Clients : cl[c].pc = "unlink" /\ cl[c].past_id >= 0
                          /\ cl[c].past_off = pos

NoLeakedBit ==
    \A ch \in Chunks : \A o \in bitmap[ch] : PositionNamed(ch, o)

\* A lookup answered from the ValueStorage reads an entry of its own key:
\* the offset sync_with_at gave the AddressTable entry is where write_chunk
\* put that key's entry.
VsEntryOwnKey ==
    \A k \in Keys :
        ki[k] /\ VsValid(at[k]) =>
            disk[at[k].vs_off \div EntriesPerChunk]
                [(at[k].vs_off % EntriesPerChunk) + 1].key = k

\* Garbage collection relinks each moved key to its own copy:
\* write_gc_w_chunk writes gc_w_buffer sorted by key (sort_w_buffer), and
\* gc_sync_with_at walks gc_moved_entry_list, whose at_entries
\* sort_moved_entry has sorted by key apart from their offsets; every
\* gc_link_to_at must publish the offset where the key's entry now lies in
\* gc_w_chunk, whatever order the victims' entries were copied in.
GcLinksOwnEntry ==
    [][gc.pc = "gclink" /\ gc'.pc = "gcsetbit" =>
          LET m == Head(gc.sync) IN disk[m.chunk][m.off + 1].at = m.at]_vars

\* A chunk on free_chunk_list holds no value the AddressTable names: only
\* clear_vs_bitmap_info of its last bit returns a chunk, so a bit cleared
\* twice (an unlink of a slot already unlinked and reused) frees a live
\* chunk, and the next init_w_chunk overwrites it.  While a GC runs its
\* sync may free a victim before relinking the keys moved out of it, but
\* it holds the spinlock every init_w_chunk waits on.
NamedChunkNotFree ==
    gc.pc = "idle" =>
    \A k \in Keys, i \in 1 .. Len(freeList) :
        ki[k] /\ VsValid(at[k]) => at[k].vs_off \div EntriesPerChunk # freeList[i]

\* Every chunk is accounted for: it is in free_chunk_list, holds a valid
\* entry, or is the chunk a w_chunk or gc_w_chunk is filling.  A chunk
\* taken by init_w_chunk whose entries link_to_at all skipped (each was
\* updated before the sync) has no valid bit: clear_vs_bitmap_info never
\* returns it and create_used_chunk_list never picks it as a victim.
ChunkAccounted ==
    \A ch \in Chunks :
        \/ \E i \in 1 .. Len(freeList) : freeList[i] = ch
        \/ ~IsEmpty(ch)
        \/ \E c \in Clients : wc[c].chunk = ch
        \/ gc.pc # "idle" /\ gc.wchunk = ch

=============================================================================
