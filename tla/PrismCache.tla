------------------------------ MODULE PrismCache ------------------------------
(***************************************************************************)
(* PRISM's DRAM cache (src/PRISM/src/CacheThread.cpp, LRUList.cpp) and   *)
(* the paths of MTS.cpp that feed it: a lookup served by the ValueStorage *)
(* submits a read whose completion (complete_pending_ios) queues the value *)
(* on g_cacheQueue; the cache thread (DramCacheThreadExec) installs it in  *)
(* a dc_entry on the inactive LRU list and tags the AddressTable entry's   *)
(* val_addr with DCACHE_VAL, promotes an entry hit again to the active     *)
(* list, and evicts from the inactive tail; remove queues a cached key on  *)
(* g_cacheFreeQueue for freeOperation.                                     *)
(*                                                                         *)
(* Data abstraction.  An AddressTable entry is named by its key (a key    *)
(* removed and inserted again gets its old slot back, as the free offset   *)
(* list allows).  at[k].vs is the value at at_entry->vs_idx, or NoVs for   *)
(* vs_idx = {-1, -1}; at[k].tag and at[k].ref are the tag and the pointer  *)
(* of val_addr (util.cpp:209-228 keeps the pointer in the low 48 bits and  *)
(* the tag in the top byte; tag CLEAN_ENTRY = 0 leaves a plain pointer).   *)
(* An OpLog entry is named by its value, which is the number of the        *)
(* operation that wrote it, so values are distinct.  The OpLog reclaim of  *)
(* one entry (validation, put_vs_entry, chunk write and link_to_at) is one *)
(* step here; its interleavings are PrismKV's.  Lists are sequences, head  *)
(* first.  Lookups complete on ring 0, so one cache queue is used.         *)
(***************************************************************************)
EXTENDS Integers, Sequences, FiniteSets

CONSTANTS
    Clients,        \* client threads
    Keys,           \* keys, all inserted and reclaimed at the start
    MaxOps,         \* bound on insert, update and remove operations
    ActiveMax,      \* active_list max_size (MTS_ACTIVE_LIST_SIZE / entry)
    InactiveMax,    \* inactive_list max_size
    ReclaimPages    \* MTS_RECLAIM_PAGES_NUM

NoVs == -1                      \* vs_idx = {-1, -1}
Vals == 0 .. MaxOps
DcIds == 1 .. MaxOps + Cardinality(Keys)   \* at most one dc_entry per read
Tags == {"clean", "dcache", "oplog", "vs"} \* CLEAN_ENTRY .. VALUESTORAGE_VAL
NullRef == [kind |-> "null", id |-> 0]
OpRef(v) == [kind |-> "op", id |-> v]
DcRef(d) == [kind |-> "dc", id |-> d]
Refs == {NullRef} \cup {OpRef(v) : v \in Vals} \cup {DcRef(d) : d \in DcIds}
AtEntries == [vs : Vals \cup {NoVs}, tag : Tags, ref : Refs]

VARIABLES
    ki,         \* KeyIndex: the keys inserted
    at,         \* the AddressTable entry of each key
    pend,       \* OpLog entries not yet reclaimed, [key, val]
    latest,     \* history: the value of the last write linked for each key
    dc,         \* dc_entry of each allocated id: at_entry, val, list_type
    ndc,        \* dc_entries allocated so far
    active,     \* active_list
    inactive,   \* inactive_list
    ios,        \* ValueStorage reads submitted and not yet completed
    cq,         \* g_cacheQueue[0]: cq_entries [key, val]
    fq,         \* g_cacheFreeQueue of each client: at_entries
    pc,         \* each client between the steps of an operation
    fault,      \* "none", or how the process died
    nops        \* operations issued

vars == <<ki, at, pend, latest, dc, ndc, active, inactive, ios, cq, fq, pc,
          fault, nops>>

Idle == [op |-> "idle", key |-> 0, d |-> 0]

Init ==
    /\ ki = Keys
    /\ at = [k \in Keys |-> [vs |-> 0, tag |-> "oplog", ref |-> OpRef(0)]]
    /\ pend = {}
    /\ latest = [k \in Keys |-> 0]
    /\ dc = [d \in DcIds |-> [at |-> 0, val |-> 0, list |-> "none"]]
    /\ ndc = 0
    /\ active = <<>>
    /\ inactive = <<>>
    /\ ios = <<>>
    /\ cq = <<>>
    /\ fq = [c \in Clients |-> <<>>]
    /\ pc = [c \in Clients |-> Idle]
    /\ fault = "none"
    /\ nops = 0

-----------------------------------------------------------------------------
(* AddressTable and MTS helpers                                            *)

\* get_val_pos: a valid vs_idx serves from the cache when val_addr is
\* DCACHE-tagged and from the ValueStorage otherwise; an invalid one serves
\* from the OpLog when val_addr is OPLOG-tagged.  Otherwise get_val_pos
\* falls off its end, and lookup takes its default case.
GetValPos(a) ==
    IF a.vs # NoVs THEN IF a.tag = "dcache" THEN "dcache" ELSE "vs"
    ELSE IF a.tag = "oplog" THEN "oplog" ELSE "none"

\* AddressTable::link_to_ol(at, op, &past_id, &past_off): vs_idx and the
\* OPLOG-tagged op_entry written together.
LinkToOl(v) == [vs |-> NoVs, tag |-> "oplog", ref |-> OpRef(v)]

\* AddressTable::free: val_addr retagged CLEAN_ENTRY (the plain pointer is
\* kept), vs_idx reset.
AtFree(a) == [a EXCEPT !.tag = "clean", !.vs = NoVs]

-----------------------------------------------------------------------------
(* LRUList (LRUList.cpp)                                                   *)

\* insert_head, which also sets list_type
InsertHead(l, d) == <<d>> \o l

\* remove_entry / move_to_head / remove_tail on a list without duplicates
Without(l, d) == SelectSeq(l, LAMBDA x : x # d)

\* remove_entry's tail: an at_entry whose val_addr is DCACHE-tagged is
\* retagged VALUESTORAGE_VAL, whichever dc_entry val_addr points to.
Uncache(a) == IF a.tag = "dcache" THEN [a EXCEPT !.tag = "vs"] ELSE a

-----------------------------------------------------------------------------
(* CacheThread (CacheThread.cpp)                                           *)

\* evict_entry: each pass of its loop takes the inactive tail and removes
\* and frees it, whether stale (its at_entry no longer points to it) or a
\* CT_LOOKUP entry, and advances i twice, so ceil(MTS_RECLAIM_PAGES_NUM / 2)
\* entries go.  No pass tests for an empty list: a tail of NULL is
\* dereferenced.  The CT_SCAN branch needs s_prev, which cacheOperation's
\* chaining never sets (it assigns only links that are already non-NULL).
Evict(act, l, atm, dcm) ==
    LET n == (ReclaimPages + 1) \div 2
        gone == {l[i] : i \in Len(l) - n + 1 .. Len(l)}
        owners == {dcm[d].at : d \in gone}
    IN  /\ active' = act
        /\ IF Len(l) < n
             THEN /\ fault' = "evict_null"
                  /\ inactive' = l /\ at' = atm /\ dc' = dcm
             ELSE /\ inactive' = SubSeq(l, 1, Len(l) - n)
                  /\ at' = [k \in Keys |-> IF k \in owners THEN Uncache(atm[k])
                                                           ELSE atm[k]]
                  /\ dc' = [d \in DcIds |-> IF d \in gone
                                              THEN [dcm[d] EXCEPT !.list = "free"]
                                              ELSE dcm[d]]
                  /\ UNCHANGED fault

\* cacheOperation's tail after an insertion into inactive_list: one
\* evict_entry when it is over max_size.
SettleInactive(act, inact, atm, dcm) ==
    IF Len(inact) > InactiveMax
      THEN Evict(act, inact, atm, dcm)
      ELSE /\ active' = act /\ inactive' = inact /\ at' = atm /\ dc' = dcm
           /\ UNCHANGED fault

\* After a promotion: an active_list over max_size gives its tail
\* (remove_tail) to the head of inactive_list, which may then evict.
SettleActive(act, inact, atm, dcm) ==
    IF Len(act) > ActiveMax
      THEN LET m == act[Len(act)] IN
           SettleInactive(SubSeq(act, 1, Len(act) - 1), InsertHead(inact, m),
                          atm, [dcm EXCEPT ![m].list = "inactive"])
      ELSE /\ active' = act /\ inactive' = inact /\ at' = atm /\ dc' = dcm
           /\ UNCHANGED fault

\* CacheThread::link_to_at: unless an update is pending in the OpLog
\* (vs_id < 0 and val_addr OPLOG-tagged), CAS val_addr to the dc_entry
\* tagged DCACHE_VAL.
LinkToAt(a, d) ==
    IF a.vs = NoVs /\ a.tag = "oplog" THEN a
    ELSE [a EXCEPT !.tag = "dcache", !.ref = DcRef(d)]

\* One cq_entry of cacheOperation (one pass of its loop).
CacheOperation(e) ==
    LET k == e.key
        a == at[k]
        d == a.ref.id
    IN
    CASE a.vs = NoVs /\ a.tag = "oplog" ->
            \* "update during scanning keys": skipped
            UNCHANGED <<active, inactive, at, dc, ndc, fault>>
      [] a.tag = "dcache" /\ dc[d].list = "inactive" ->
            \* Case 1: remove_entry, insert_head on active_list, link_to_at
            /\ SettleActive(InsertHead(active, d), Without(inactive, d),
                            [at EXCEPT ![k] = LinkToAt(Uncache(a), d)],
                            [dc EXCEPT ![d].list = "active"])
            /\ UNCHANGED ndc
      [] a.tag = "dcache" /\ dc[d].list = "active" ->
            \* Case 2: move_to_head, link_to_at
            /\ active' = InsertHead(Without(active, d), d)
            /\ UNCHANGED <<inactive, at, dc, ndc, fault>>
      [] OTHER ->
            \* Case 3: alloc_entry, insert_head on inactive_list, link_to_at
            LET n == ndc + 1 IN
            /\ ndc' = n
            /\ SettleInactive(active, InsertHead(inactive, n),
                              [at EXCEPT ![k] = LinkToAt(a, n)],
                              [dc EXCEPT ![n] = [at |-> k, val |-> e.val,
                                                 list |-> "inactive"]])

\* The cache thread's pass over g_cacheQueue: one cq_entry.
CtCache ==
    /\ fault = "none"
    /\ cq # <<>>
    /\ cq' = Tail(cq)
    /\ CacheOperation(Head(cq))
    /\ UNCHANGED <<ki, pend, latest, ios, fq, pc, nops>>

\* The cache thread's pass over a client's g_cacheFreeQueue: freeOperation
\* of one at_entry.  It casts val_addr to a dc_entry without untagging it:
\* a tagged pointer is not canonical, and the trace of line 170 (TS_INFO is
\* the default trace level) faults on it.  A CLEAN-tagged val_addr is a
\* plain pointer: freeOperation CASes it to nullptr and removes and frees
\* the entry it names, whatever that is now.
CtFree(c) ==
    LET k == Head(fq[c])
        a == at[k]
        d == a.ref.id
    IN
    /\ fault = "none"
    /\ fq[c] # <<>>
    /\ fq' = [fq EXCEPT ![c] = Tail(@)]
    /\ CASE a.ref = NullRef ->
              UNCHANGED <<at, dc, active, inactive, fault>>
         [] a.tag # "clean" ->
              /\ fault' = "free_segv"
              /\ UNCHANGED <<at, dc, active, inactive>>
         [] a.ref.kind = "op" \/ dc[d].list = "free" ->
              /\ fault' = "free_wild"
              /\ UNCHANGED <<at, dc, active, inactive>>
         [] OTHER ->
              /\ at' = [at EXCEPT ![k] = Uncache([a EXCEPT !.ref = NullRef])]
              /\ active' = IF dc[d].list = "active" THEN Without(active, d)
                                                     ELSE active
              /\ inactive' = IF dc[d].list = "active" THEN inactive
                                                       ELSE Without(inactive, d)
              /\ dc' = [dc EXCEPT ![d].list = "free"]
              /\ UNCHANGED fault
    /\ UNCHANGED <<ki, pend, latest, ndc, ios, cq, pc, nops>>

-----------------------------------------------------------------------------
(* Clients (MTS.cpp) and the threads that serve them                       *)

CanStart(c) == fault = "none" /\ pc[c] = Idle /\ nops < MaxOps

\* MTSImpl::insert: enq, assign (val_addr NULL, vs_idx {-1, -1}),
\* link_to_at, link_to_ol, KeyIndex insert.
Insert(c, k) ==
    /\ CanStart(c)
    /\ k \notin ki
    /\ ki' = ki \cup {k}
    /\ at' = [at EXCEPT ![k] = LinkToOl(nops + 1)]
    /\ pend' = pend \cup {[key |-> k, val |-> nops + 1]}
    /\ latest' = [latest EXCEPT ![k] = nops + 1]
    /\ nops' = nops + 1
    /\ UNCHANGED <<dc, ndc, active, inactive, ios, cq, fq, pc, fault>>

\* MTSImpl::update up to cache_free_kv_items: KeyIndex lookup, enq,
\* link_to_at, link_to_ol, and the unlink of the past ValueStorage entry
\* (its bitmap is PrismKV's).
Update(c, k) ==
    /\ CanStart(c)
    /\ k \in ki
    /\ at' = [at EXCEPT ![k] = LinkToOl(nops + 1)]
    /\ pend' = pend \cup {[key |-> k, val |-> nops + 1]}
    /\ latest' = [latest EXCEPT ![k] = nops + 1]
    /\ pc' = [pc EXCEPT ![c] = [op |-> "upd_free", key |-> k, d |-> 0]]
    /\ nops' = nops + 1
    /\ UNCHANGED <<ki, dc, ndc, active, inactive, ios, cq, fq, fault>>

\* cache_free_kv_items: queue the at_entry for freeOperation if is_cached.
CacheFreeKvItems(c) ==
    LET k == pc[c].key IN
    /\ fault = "none"
    /\ pc[c].op \in {"upd_free", "rm_free"}
    /\ fq' = IF at[k].tag = "dcache" THEN [fq EXCEPT ![c] = Append(@, k)]
                                     ELSE fq
    /\ pc' = [pc EXCEPT ![c] =
                 IF pc[c].op = "rm_free" THEN [@ EXCEPT !.op = "at_free"]
                                         ELSE Idle]
    /\ UNCHANGED <<ki, at, pend, latest, dc, ndc, active, inactive, ios, cq,
                   fault, nops>>

\* MTSImpl::lookup: get_val_pos; a cached value is read from the dc_entry
\* in a second step; a ValueStorage value is read by an io_uring request
\* (apply_ops) and lookup returns; an OpLog value is returned.
Lookup(c, k) ==
    /\ CanStart(c)
    /\ k \in ki
    /\ nops' = nops + 1
    /\ CASE GetValPos(at[k]) = "dcache" ->
              /\ pc' = [pc EXCEPT ![c] = [op |-> "deref", key |-> k,
                                          d |-> at[k].ref.id]]
              /\ UNCHANGED ios
         [] GetValPos(at[k]) = "vs" ->
              /\ ios' = Append(ios, [key |-> k, val |-> at[k].vs])
              /\ UNCHANGED pc
         [] OTHER -> UNCHANGED <<ios, pc>>
    /\ UNCHANGED <<ki, at, pend, latest, dc, ndc, active, inactive, cq, fq,
                   fault>>

\* lookup's DCACHE_VAL case: dc_entry->at_entry and dc_entry->val are read
\* with nothing that keeps the cache thread from freeing the entry since
\* get_val_pos; a freed one is read anyway.
LookupDeref(c) ==
    /\ fault = "none"
    /\ pc[c].op = "deref"
    /\ IF dc[pc[c].d].list = "free" THEN fault' = "lookup_uaf"
                                    ELSE UNCHANGED fault
    /\ pc' = [pc EXCEPT ![c] = Idle]
    /\ UNCHANGED <<ki, at, pend, latest, dc, ndc, active, inactive, ios, cq,
                   fq, nops>>

\* MTSImpl::remove, step 2: an OpLog value is unlinked (val_addr = NULL);
\* otherwise the ValueStorage entry is unlinked (PrismKV) and a cached
\* key goes on to cache_free_kv_items.
Remove(c, k) ==
    /\ CanStart(c)
    /\ k \in ki
    /\ nops' = nops + 1
    /\ IF GetValPos(at[k]) = "oplog"
         THEN /\ at' = [at EXCEPT ![k] = [@ EXCEPT !.ref = NullRef,
                                                    !.tag = "clean"]]
              /\ pc' = [pc EXCEPT ![c] = [op |-> "at_free", key |-> k, d |-> 0]]
         ELSE /\ pc' = [pc EXCEPT ![c] =
                          [op |-> IF GetValPos(at[k]) = "dcache"
                                    THEN "rm_free" ELSE "at_free",
                           key |-> k, d |-> 0]]
              /\ UNCHANGED at
    /\ UNCHANGED <<ki, pend, latest, dc, ndc, active, inactive, ios, cq, fq,
                   fault>>

\* remove, steps 3 and 4: AddressTable::free, KeyIndex remove.
RemoveAt(c) ==
    LET k == pc[c].key IN
    /\ fault = "none"
    /\ pc[c].op = "at_free"
    /\ at' = [at EXCEPT ![k] = AtFree(@)]
    /\ ki' = ki \ {k}
    /\ pc' = [pc EXCEPT ![c] = Idle]
    /\ UNCHANGED <<pend, latest, dc, ndc, active, inactive, ios, cq, fq,
                   fault, nops>>

\* OpLog::reclaim of one entry: if val_addr still names it, put_vs_entry
\* and ValueStorage::link_to_at publish its value at vs_idx; val_addr is
\* left as it is.
Reclaim(e) ==
    /\ fault = "none"
    /\ at' = IF at[e.key].ref = OpRef(e.val)
               THEN [at EXCEPT ![e.key].vs = e.val]
               ELSE at
    /\ pend' = pend \ {e}
    /\ UNCHANGED <<ki, latest, dc, ndc, active, inactive, ios, cq, fq, pc,
                   fault, nops>>

\* IOCompleterThreadExec / complete_pending_ios: the completed reads become
\* one cq_entry vector pushed on g_cacheQueue[0].
IoComplete ==
    /\ fault = "none"
    /\ ios # <<>>
    /\ cq' = cq \o ios
    /\ ios' = <<>>
    /\ UNCHANGED <<ki, at, pend, latest, dc, ndc, active, inactive, fq, pc,
                   fault, nops>>

\* The process stopped, or every operation is done and every queue drained.
Terminated ==
    /\ \/ fault # "none"
       \/ /\ nops = MaxOps
          /\ \A c \in Clients : pc[c] = Idle /\ fq[c] = <<>>
          /\ pend = {} /\ ios = <<>> /\ cq = <<>>
    /\ UNCHANGED vars

Next ==
    \/ \E c \in Clients :
          \/ \E k \in Keys : Insert(c, k) \/ Update(c, k) \/ Lookup(c, k)
                             \/ Remove(c, k)
          \/ CacheFreeKvItems(c) \/ LookupDeref(c) \/ RemoveAt(c) \/ CtFree(c)
    \/ \E e \in pend : Reclaim(e)
    \/ IoComplete \/ CtCache
    \/ Terminated

Spec == Init /\ [][Next]_vars

-----------------------------------------------------------------------------
(* Properties                                                              *)

TypeOK ==
    /\ ki \subseteq Keys
    /\ at \in [Keys -> AtEntries]
    /\ latest \in [Keys -> Vals]
    /\ ndc \in 0 .. Cardinality(DcIds)
    /\ \A d \in DcIds : dc[d].list \in {"none", "active", "inactive", "free"}
    /\ \A d \in 1 .. ndc : (dc[d].list = "active") = (d \in {active[i] : i \in 1 .. Len(active)})
    /\ fault \in {"none", "free_segv", "free_wild", "lookup_uaf", "evict_null"}
    /\ nops \in 0 .. MaxOps

(***************************************************************************)
(* A lookup that get_val_pos sends to the DRAM cache returns the key's    *)
(* latest value: whenever an inserted key's AddressTable entry has a valid *)
(* vs_idx and a DCACHE-tagged val_addr, the dc_entry it names holds the    *)
(* value of the last update linked for that key.  cacheOperation tests for *)
(* a concurrent update ("concurrent update or not", "update during         *)
(* scanning keys") only by vs_id < 0 with an OPLOG tag.                    *)
(***************************************************************************)
CacheHoldsLatest ==
    \A k \in ki :
        GetValPos(at[k]) = "dcache" => dc[at[k].ref.id].val = latest[k]

(***************************************************************************)
(* The cache thread survives freeOperation: every at_entry that remove    *)
(* queues through cache_free_kv_items is handled without dereferencing a  *)
(* tagged pointer, an OpLog entry or a freed dc_entry.                     *)
(***************************************************************************)
FreeOperationSafe == fault \notin {"free_segv", "free_wild"}

(***************************************************************************)
(* A lookup served by the cache reads a live dc_entry: no eviction frees  *)
(* the entry between get_val_pos and the reads of dc_entry->at_entry and   *)
(* dc_entry->val.                                                          *)
(***************************************************************************)
LookupReadsLive == fault # "lookup_uaf"

====
