----------------------------- MODULE DataCache -----------------------------
(***************************************************************************)
(* The write-back page cache of the FTL (myssd_sdk/src/ftl/data_cache.c):  *)
(* write_buffers, handle_cached_read and the flushers' flush_cache_range   *)
(* on entries that are pinned, locked, evicted and written back.           *)
(*                                                                         *)
(* Threads are coroutines: only `cur' runs, and it gives up the core when  *)
(* it waits for an entry's mutex, for the flash or for a transfer with the *)
(* host.  The AMU below is a flash of sectors per logical page on which    *)
(* each transaction of a dispatch takes effect in one step, in list order. *)
(* Data is the number of the write request that wrote it, counted at the   *)
(* moment the request completes (0: never written).                        *)
(***************************************************************************)
EXTENDS Integers, Sequences, FiniteSets, FiniteSetsExt, SequencesExt

CONSTANTS
    Workers,      \* coroutines that serve read and write requests
    Flushers,     \* the flusher coroutines: 0 .. NR_FLUSHERS - 1
    NONE,
    Lpas,         \* logical pages: 0 .. n
    Sectors,      \* sectors of a page
    WbBatchSize,  \* WB_BATCH_SIZE
    Setups        \* what a behaviour is bounded by: see `setup'

Frames == 1..Max({s.capacity : s \in Setups})
Threads == Workers \cup Flushers
EndLpa == Max(Lpas) + 1

ASSUME CacheAssumption ==
    /\ Lpas \subseteq Nat /\ Flushers \subseteq Nat /\ Workers \cap Nat = {}
    /\ NONE \notin Workers \cup Nat
    /\ WbBatchSize \in Nat \ {0}
    /\ \A s \in Setups :
         /\ s.capacity \in Nat \ {0} /\ {s.writes, s.reads, s.flushes} \subseteq Nat
         /\ s.faults \subseteq {"dma", "amu_read", "amu_write", "nomem"}

VARIABLES
    setup,     \* cache->capacity_pages; the operations that may fail; shapes, the
               \* requests: sequences of [lpa, bitmap] in order of lpa; and bounds:
               \* completed writes, reads, flushes
    cur,       \* the coroutine on the core, NONE between two of them
    entry,     \* the cache entry in each frame
    lru,       \* cache->lru_list, most recently used first
    nr_pages,  \* cache->nr_pages
    flash,     \* what the AMU returns for each logical page
    th,        \* per thread: its program point and local variables
    clock,     \* completed write requests
    latest,    \* what the host knows to be written
    reads, flushes

vars == <<setup, cur, entry, lru, nr_pages, flash, th, clock, latest, reads, flushes>>

NoData == [s \in Sectors |-> 0]
NoEntry == [key |-> NONE, in_tree |-> FALSE, status |-> "EMPTY", bitmap |-> {},
            data |-> NoData, pin |-> 0, owner |-> NONE, waiters |-> <<>>]

\* txns: a request's transactions, each with the cache entry it uses (opaque),
\* the sectors still needed from flash and the sectors collected so far.
\* wbs: write-backs to dispatch, each with the entry to mark clean afterwards.
Idle == [pc |-> "idle", txns |-> <<>>, i |-> 1, wbs |-> <<>>, frame |-> NONE,
         index |-> 0, pvec |-> <<>>, floor |-> <<>>]

Overlay(old, new, bitmap) == [s \in Sectors |-> IF s \in bitmap THEN new[s] ELSE old[s]]

----------------------------------------------------------------------------
(* Cache entries                                                           *)

FindDirty(l) == {f \in Frames : entry[f].in_tree /\ entry[f].key = l
                                /\ entry[f].status = "DIRTY"}
\* cache_find.
Find(l) == {f \in Frames : entry[f].in_tree /\ entry[f].key = l}

\* avl_erase removes the node with the entry's key.
Erase(es, l) ==
    [f \in Frames |-> IF es[f].in_tree /\ es[f].key = l
                      THEN [es[f] EXCEPT !.in_tree = FALSE] ELSE es[f]]

LruPinKept(f) == lru
\* pin_entry: the first pin takes the entry off the LRU list.
LruPin(f) == IF entry[f].pin = 0 THEN SelectSeq(lru, LAMBDA g : g # f) ELSE lru

\* mutex_unlock, which hands the mutex to the first waiter, and unpin_entry.
Released(x) ==
    [x EXCEPT !.owner = IF x.waiters = <<>> THEN NONE ELSE Head(x.waiters),
              !.waiters = IF @ = <<>> THEN @ ELSE Tail(@),
              !.pin = @ - 1]

\* Entries fs, released one after the other by unpin_entry, join the LRU list at
\* its head when this was their last pin.
LruRelease(fs) == Reverse(SelectSeq(fs, LAMBDA f : entry[f].pin = 1)) \o lru

StealLock(t, f, rec) ==
    /\ lru' = LruPin(f)
    /\ entry' = [entry EXCEPT ![f].pin = @ + 1, ![f].owner = t]
    /\ th' = [th EXCEPT ![t] = [rec EXCEPT !.frame = f]] /\ cur' = t
SpinLock(t, f, rec) ==
    IF entry[f].owner = NONE
    THEN /\ lru' = LruPin(f)
         /\ entry' = [entry EXCEPT ![f].pin = @ + 1, ![f].owner = t]
         /\ th' = [th EXCEPT ![t] = [rec EXCEPT !.frame = f]] /\ cur' = t
    ELSE UNCHANGED <<lru, entry, th, cur>>
\* pin_entry and mutex_lock; rec.pc is where the thread goes on with the lock.
PinAndLock(t, f, rec) ==
    /\ lru' = LruPin(f)
    /\ th' = [th EXCEPT ![t] = [rec EXCEPT !.frame = f]]
    /\ IF entry[f].owner = NONE
       THEN /\ entry' = [entry EXCEPT ![f].pin = @ + 1, ![f].owner = t]
            /\ cur' = t
       ELSE /\ entry' = [entry EXCEPT ![f].pin = @ + 1, ![f].waiters = Append(@, t)]
            /\ cur' = NONE

----------------------------------------------------------------------------
(* Coroutines                                                              *)

Running(t, pc) == cur = t /\ th[t].pc = pc
\* A thread that waited for the flash or the host goes on.
Resumes(t, pc) == cur = NONE /\ th[t].pc = pc
\* A thread is past mutex_lock: it kept the core, or it waited and was handed the
\* mutex.
HasLock(t, pc) == cur \in {t, NONE} /\ th[t].pc = pc /\ entry[th[t].frame].owner = t

Goto(t, rec) == th' = [th EXCEPT ![t] = rec] /\ cur' = t
Wait(t, rec) == th' = [th EXCEPT ![t] = rec] /\ cur' = NONE

Init ==
    /\ setup \in Setups
    /\ cur = NONE
    /\ entry = [f \in Frames |-> NoEntry]
    /\ lru = <<>> /\ nr_pages = 0
    /\ flash = [l \in Lpas |-> NoData]
    /\ th = [t \in Threads |-> Idle]
    /\ clock = 0 /\ latest = [l \in Lpas |-> NoData]
    /\ reads = 0 /\ flushes = 0

Request(shape) ==
    [k \in DOMAIN shape |-> [lpa |-> shape[k].lpa, bitmap |-> shape[k].bitmap,
                             need |-> shape[k].bitmap, frame |-> NONE,
                             data |-> NoData]]
Floor(shape) == [k \in DOMAIN shape |-> latest[shape[k].lpa]]
Txn(w) == th[w].txns[th[w].i]

\* The entries a worker's request has taken, in list order.
Taken(w) == SelectSeq([k \in DOMAIN th[w].txns |-> th[w].txns[k].frame],
                      LAMBDA f : f # NONE)
\* The entries of hit_list, to whose head each complete hit is added.
Hits(w) == LET hit == SelectSeq(th[w].txns, LAMBDA x : x.frame # NONE /\ x.need = {})
           IN  Reverse([k \in DOMAIN hit |-> hit[k].frame])
Partials(w) == LET part == SelectSeq(th[w].txns, LAMBDA x : x.frame # NONE /\ x.need # {})
               IN  [k \in DOMAIN part |-> part[k].frame]

ReleaseAll(es, fs) == [f \in Frames |-> IF f \in Range(fs) THEN Released(es[f]) ELSE es[f]]

----------------------------------------------------------------------------
(* write_buffers                                                           *)

StartWrite(w, shape) ==
    /\ Resumes(w, "idle")
    /\ clock + Cardinality({v \in Workers : th[v].pc \in
           {"write", "write_locked", "writeback", "dma"}}) < setup.writes
    /\ Goto(w, [Idle EXCEPT !.pc = "write", !.txns = Request(shape)])
    /\ UNCHANGED <<setup, entry, lru, nr_pages, flash, clock, latest, reads, flushes>>

\* The entry for txns[i] is fetched and locked: go on with the next transaction,
\* with the write-backs, or with the transfer from the host.
Fetched(w, rec, f) ==
    LET r == [rec EXCEPT !.txns[rec.i].frame = f]
    IN  IF r.i < Len(r.txns) THEN Goto(w, [r EXCEPT !.pc = "write", !.i = @ + 1])
        ELSE Wait(w, [r EXCEPT !.pc = IF r.wbs = <<>> THEN "dma" ELSE "writeback"])

WriteHit(w) ==
    /\ Running(w, "write")
    /\ \E f \in Find(Txn(w).lpa) :
         PinAndLock(w, f, [th[w] EXCEPT !.pc = "write_locked"])
    /\ UNCHANGED <<setup, nr_pages, flash, clock, latest, reads, flushes>>

WriteLocked(w) ==
    LET f == th[w].frame
    IN  /\ HasLock(w, "write_locked")
        /\ entry' = [entry EXCEPT ![f].bitmap = @ \cup Txn(w).bitmap,
                                  ![f].status = "DIRTY"]
        /\ Fetched(w, th[w], f)
        /\ UNCHANGED <<setup, lru, nr_pages, flash, clock, latest, reads, flushes>>

\* cache_add.
WriteAdd(w) ==
    LET f == Min({g \in Frames : entry[g].key = NONE})
        l == Txn(w).lpa
    IN  /\ Running(w, "write")
        /\ Find(l) = {} /\ nr_pages < setup.capacity
        /\ entry' = [entry EXCEPT ![f] =
                       [NoEntry EXCEPT !.key = l, !.in_tree = TRUE, !.status = "DIRTY",
                                       !.bitmap = Txn(w).bitmap, !.pin = 1, !.owner = w]]
        /\ nr_pages' = nr_pages + 1
        /\ Fetched(w, th[w], f)
        /\ UNCHANGED <<setup, lru, flash, clock, latest, reads, flushes>>

WritebackFirst(f, opaque) ==
    [lpa |-> entry[f].key, bitmap |-> {Min(entry[f].bitmap)}, data |-> entry[f].data,
     frame |-> opaque]
\* generate_writeback copies the sectors the entry holds.
Writeback(f, opaque) ==
    [lpa |-> entry[f].key, bitmap |-> entry[f].bitmap, data |-> entry[f].data,
     frame |-> opaque]

\* A dirty victim is written back later, from a copy.
Evicted(w, f) ==
    IF entry[f].status = "DIRTY"
    THEN [th[w] EXCEPT !.wbs = Append(@, Writeback(f, NONE))] ELSE th[w]

\* cache_evict_entry takes the least recently used entry, which then serves
\* txns[i].
WriteEvict(w) ==
    LET f == Last(lru)
        l == Txn(w).lpa
    IN  /\ Running(w, "write")
        /\ Find(l) = {} /\ nr_pages >= setup.capacity /\ lru # <<>>
        /\ entry' = [Erase(entry, entry[f].key) EXCEPT ![f] =
                       [entry[f] EXCEPT !.key = l, !.in_tree = TRUE, !.status = "DIRTY",
                                        !.bitmap = Txn(w).bitmap, !.pin = 1, !.owner = w]]
        /\ lru' = Front(lru)
        /\ Fetched(w, Evicted(w, f), f)
        /\ UNCHANGED <<setup, nr_pages, flash, clock, latest, reads, flushes>>

\* No entry can be evicted, or there is no memory for a new entry or for the
\* write-back: the cleanup follows the entry pointer of a transaction that has
\* none.
WritePanics(w) ==
    /\ Running(w, "write")
    /\ Find(Txn(w).lpa) = {}
    /\ \/ nr_pages < setup.capacity /\ "nomem" \in setup.faults
       \/ nr_pages >= setup.capacity /\ lru = <<>>
       \/ /\ nr_pages >= setup.capacity /\ lru # <<>>
          /\ entry[Last(lru)].status = "DIRTY" /\ "nomem" \in setup.faults
    /\ Goto(w, [th[w] EXCEPT !.pc = "panic"])
    /\ UNCHANGED <<setup, entry, lru, nr_pages, flash, clock, latest, reads, flushes>>

\* The cleanup of a failed request: the entries it had are empty and leave the
\* tree.
WriteFails(w) ==
    LET fs == Taken(w)
        Emptied == [f \in Frames |-> IF f \in Range(fs)
                                     THEN [entry[f] EXCEPT !.status = "EMPTY",
                                                           !.in_tree = FALSE]
                                     ELSE IF entry[f].key \in {entry[g].key : g \in Range(fs)}
                                     THEN [entry[f] EXCEPT !.in_tree = FALSE]
                                     ELSE entry[f]]
    IN  /\ entry' = ReleaseAll(Emptied, fs)
        /\ lru' = LruRelease(fs)
        /\ Wait(w, Idle)
        /\ UNCHANGED <<setup, nr_pages, flash, clock, latest, reads, flushes>>

\* amu_dispatch executes the first write-back left.
WritebackDone(w) ==
    LET wb == Head(th[w].wbs)
    IN  /\ Resumes(w, "writeback")
        /\ \/ /\ flash' = [flash EXCEPT ![wb.lpa] = Overlay(@, wb.data, wb.bitmap)]
              /\ Wait(w, [th[w] EXCEPT !.wbs = Tail(@),
                            !.pc = IF Len(th[w].wbs) = 1 THEN "dma" ELSE "writeback"])
              /\ UNCHANGED <<setup, entry, lru, nr_pages, clock, latest, reads, flushes>>
           \/ "amu_write" \in setup.faults /\ WriteFails(w)

\* All the request's entries hold its data: it completes.
Complete(w) ==
    LET ts == th[w].txns
        new == [s \in Sectors |-> clock + 1]
        Written == [f \in Frames |->
            IF \E k \in DOMAIN ts : ts[k].frame = f
            THEN LET k == CHOOSE j \in DOMAIN ts : ts[j].frame = f
                 IN  [entry[f] EXCEPT !.data = Overlay(@, new, ts[k].bitmap)]
            ELSE entry[f]]
    IN  /\ entry' = ReleaseAll(Written, Taken(w))
        /\ lru' = LruRelease(Taken(w))
        /\ clock' = clock + 1
        /\ latest' = [l \in Lpas |->
              IF \E k \in DOMAIN ts : ts[k].lpa = l
              THEN Overlay(latest[l], new, ts[CHOOSE k \in DOMAIN ts : ts[k].lpa = l].bitmap)
              ELSE latest[l]]
        /\ Wait(w, Idle)
        /\ UNCHANGED <<setup, nr_pages, flash, reads, flushes>>

\* nvme_dma_read has filled the entries, or has failed.
WriteDone(w) ==
    /\ Resumes(w, "dma")
    /\ Complete(w) \/ ("dma" \in setup.faults /\ WriteFails(w))

----------------------------------------------------------------------------
(* handle_cached_read                                                      *)

StartRead(w, shape) ==
    /\ Resumes(w, "idle")
    /\ reads < setup.reads /\ reads' = reads + 1
    /\ Goto(w, [Idle EXCEPT !.pc = "read", !.txns = Request(shape),
                            !.floor = Floor(shape)])
    /\ UNCHANGED <<setup, entry, lru, nr_pages, flash, clock, latest, flushes>>

\* txns[i] is set up: next transaction, or the flash reads of the missing
\* sectors, or -- if nothing is missing -- the transfer to the host.
SetUp(w, rec) ==
    LET misses == {k \in DOMAIN rec.txns : rec.txns[k].need # {}}
    IN  IF rec.i < Len(rec.txns) THEN Goto(w, [rec EXCEPT !.pc = "read", !.i = @ + 1])
        ELSE IF misses # {} THEN Wait(w, [rec EXCEPT !.pc = "amu_read", !.i = Min(misses)])
        ELSE Wait(w, [rec EXCEPT !.pc = "read_dma"])

\* Some of the sectors are cached: lock the entry.
ReadHit(w) ==
    /\ Running(w, "read")
    /\ \E f \in Find(Txn(w).lpa) :
         /\ entry[f].bitmap \cap Txn(w).bitmap # {}
         /\ PinAndLock(w, f, [th[w] EXCEPT !.pc = "read_locked",
                                           !.txns[th[w].i].need = @ \ entry[f].bitmap])
    /\ UNCHANGED <<setup, nr_pages, flash, clock, latest, reads, flushes>>

ReadLocked(w) ==
    /\ HasLock(w, "read_locked")
    /\ SetUp(w, [th[w] EXCEPT !.txns[th[w].i].frame = th[w].frame])
    /\ UNCHANGED <<setup, entry, lru, nr_pages, flash, clock, latest, reads, flushes>>

\* None of the sectors is cached; cache_touch_lru if there is an entry.
ReadMiss(w) ==
    LET found == Find(Txn(w).lpa)
        unpinned == {f \in found : entry[f].pin = 0}
    IN  /\ Running(w, "read")
        /\ \A f \in found : entry[f].bitmap \cap Txn(w).bitmap = {}
        /\ lru' = SetToSeq(unpinned) \o SelectSeq(lru, LAMBDA g : g \notin unpinned)
        /\ SetUp(w, th[w])
        /\ UNCHANGED <<setup, entry, nr_pages, flash, clock, latest, reads, flushes>>

\* The cleanup of a failed read releases the entries of complete hits only.
ReadFails(w) ==
    /\ entry' = ReleaseAll(entry, Hits(w))
    /\ lru' = LruRelease(Hits(w))
    /\ Wait(w, Idle)
    /\ UNCHANGED <<setup, nr_pages, flash, clock, latest, reads, flushes>>

\* No memory for the buffer of a transaction that misses sectors.
ReadNoMem(w) ==
    /\ "nomem" \in setup.faults
    /\ Running(w, "read")
    /\ \A f \in Find(Txn(w).lpa) : ~(Txn(w).bitmap \subseteq entry[f].bitmap)
    /\ ReadFails(w)

\* amu_dispatch reads txns[i]; only incomplete hits are left on its list.
AmuRead(w) ==
    LET later == {k \in DOMAIN th[w].txns : k > th[w].i /\ th[w].txns[k].need # {}}
        rec == [th[w] EXCEPT !.txns[th[w].i].data = flash[Txn(w).lpa]]
    IN  /\ Resumes(w, "amu_read")
        /\ \/ /\ IF later # {} THEN Wait(w, [rec EXCEPT !.i = Min(later)])
                               ELSE Wait(w, [rec EXCEPT !.pc = "overlay"])
              /\ UNCHANGED <<setup, entry, lru, nr_pages, flash, clock, latest, reads, flushes>>
           \/ "amu_read" \in setup.faults /\ ReadFails(w)

OverlayNothing(x) == x.data
\* What a transaction returns: the sectors read from flash, with every sector its
\* entry holds now on top.
OverlayCached(x) ==
    IF x.frame = NONE THEN x.data
    ELSE Overlay(x.data, entry[x.frame].data, entry[x.frame].bitmap)

\* The cached sectors are copied over those of the flash, and the entries of
\* incomplete hits are released.
OverlayDone(w) ==
    /\ Resumes(w, "overlay")
    /\ entry' = ReleaseAll(entry, Partials(w))
    /\ lru' = LruRelease(Partials(w))
    /\ Wait(w, [th[w] EXCEPT !.pc = "read_dma", !.txns =
         [k \in DOMAIN @ |-> LET x == th[w].txns[k]
                             IN  IF x.need = {} THEN x ELSE
                                 [x EXCEPT !.data = OverlayCached(x), !.frame = NONE]]])
    /\ UNCHANGED <<setup, nr_pages, flash, clock, latest, reads, flushes>>

\* nvme_dma_write has sent the data to the host: the request completes.
ReadDone(w) ==
    /\ Resumes(w, "read_dma")
    /\ entry' = ReleaseAll(entry, Hits(w))
    /\ lru' = LruRelease(Hits(w))
    /\ Goto(w, [th[w] EXCEPT !.pc = "returned", !.txns =
         [k \in DOMAIN @ |-> LET x == th[w].txns[k]
                             IN  IF x.need # {} THEN x ELSE
                                 [x EXCEPT !.data = OverlayCached(x)]]])
    /\ UNCHANGED <<setup, nr_pages, flash, clock, latest, reads, flushes>>

----------------------------------------------------------------------------
(* flush_cache_range, by one flusher for the pages of its tag              *)

Tagged(t, l) == l % Cardinality(Flushers) = t

StartFlush(t) ==
    /\ Resumes(t, "idle")
    /\ flushes < setup.flushes /\ flushes' = flushes + 1
    /\ Goto(t, [Idle EXCEPT !.pc = "lookup", !.floor = latest])
    /\ UNCHANGED <<setup, entry, lru, nr_pages, flash, clock, latest, reads>>

BatchIndexEnd(batch) == EndLpa
\* Where the lookup goes on: after the last entry of a full batch.
BatchIndex(batch) ==
    IF Len(batch) = WbBatchSize THEN entry[Last(batch)].key + 1 ELSE EndLpa

\* cache_lookup_range: the next batch of dirty entries in order of lpa.
LookupRange(t) ==
    LET dirty == {f \in Frames : /\ entry[f].in_tree /\ entry[f].status = "DIRTY"
                                 /\ entry[f].key >= th[t].index /\ Tagged(t, entry[f].key)}
        sorted == SetToSortSeq(dirty, LAMBDA f, g : entry[f].key < entry[g].key)
        batch == SubSeq(sorted, 1, Min({WbBatchSize, Len(sorted)}))
    IN  /\ Running(t, "lookup")
        /\ IF batch = <<>> THEN Goto(t, [th[t] EXCEPT !.pc = "returned"])
           ELSE Goto(t, [th[t] EXCEPT !.pc = "flush", !.pvec = batch, !.i = 1, !.wbs = <<>>,
                           !.index = BatchIndex(batch)])
        /\ UNCHANGED <<setup, entry, lru, nr_pages, flash, clock, latest, reads, flushes>>

\* The batch's write-backs are dispatched when the last entry has been looked at;
\* amu_dispatch of an empty list does nothing.
NextOfBatch(t, rec) ==
    IF rec.i < Len(rec.pvec) THEN Goto(t, [rec EXCEPT !.pc = "flush", !.i = @ + 1])
    ELSE IF rec.wbs = <<>> THEN Goto(t, [rec EXCEPT !.pc = "batch_done"])
    ELSE Wait(t, [rec EXCEPT !.pc = "flushing", !.i = 1])

\* An entry that was cleaned or reused since the lookup is left alone.
FlushEntry(t) ==
    LET f == th[t].pvec[th[t].i]
    IN  /\ Running(t, "flush")
        /\ IF entry[f].status = "DIRTY" /\ Tagged(t, entry[f].key)
           THEN PinAndLock(t, f, [th[t] EXCEPT !.pc = "flush_locked"])
           ELSE NextOfBatch(t, th[t]) /\ UNCHANGED <<entry, lru>>
        /\ UNCHANGED <<setup, nr_pages, flash, clock, latest, reads, flushes>>

\* Without memory for the copy the entry stays locked and pinned.
FlushLocked(t) ==
    LET f == th[t].frame
    IN  /\ HasLock(t, "flush_locked")
        /\ \/ NextOfBatch(t, [th[t] EXCEPT !.wbs = Append(@, Writeback(f, f))])
           \/ "nomem" \in setup.faults /\ NextOfBatch(t, th[t])
        /\ UNCHANGED <<setup, entry, lru, nr_pages, flash, clock, latest, reads, flushes>>

\* amu_dispatch executes write-back i; a failure ends the dispatch and is not
\* looked at.
FlushWritten(t) ==
    LET wb == th[t].wbs[th[t].i]
        end == [th[t] EXCEPT !.pc = "batch_done"]
    IN  /\ Resumes(t, "flushing")
        /\ \/ /\ flash' = [flash EXCEPT ![wb.lpa] = Overlay(@, wb.data, wb.bitmap)]
              /\ IF th[t].i < Len(th[t].wbs) THEN Wait(t, [th[t] EXCEPT !.i = @ + 1])
                                             ELSE Goto(t, end)
           \/ "amu_write" \in setup.faults /\ Goto(t, end) /\ UNCHANGED flash
        /\ UNCHANGED <<setup, entry, lru, nr_pages, clock, latest, reads, flushes>>

\* The entries of the batch are clean before they are released.
Cleaned(es, fs) ==
    [f \in Frames |-> IF f \in Range(fs) THEN [es[f] EXCEPT !.status = "CLEAN"] ELSE es[f]]

BatchDone(t) ==
    LET fs == [k \in DOMAIN th[t].wbs |-> th[t].wbs[k].frame]
    IN  /\ Running(t, "batch_done")
        /\ entry' = ReleaseAll(Cleaned(entry, fs), fs)
        /\ lru' = LruRelease(fs)
        /\ Goto(t, [th[t] EXCEPT !.wbs = <<>>, !.pvec = <<>>,
                      !.pc = IF th[t].index < EndLpa THEN "lookup" ELSE "returned"])
        /\ UNCHANGED <<setup, nr_pages, flash, clock, latest, reads, flushes>>

\* The caller has seen the result of a read or of a flush.
Return(t) ==
    /\ Running(t, "returned")
    /\ Wait(t, Idle)
    /\ UNCHANGED <<setup, entry, lru, nr_pages, flash, clock, latest, reads, flushes>>

----------------------------------------------------------------------------
Serve(w) ==
    \/ WriteHit(w) \/ WriteLocked(w) \/ WriteAdd(w) \/ WriteEvict(w) \/ WritePanics(w)
    \/ WritebackDone(w) \/ WriteDone(w)
    \/ ReadHit(w) \/ ReadLocked(w) \/ ReadMiss(w) \/ ReadNoMem(w) \/ AmuRead(w)
    \/ OverlayDone(w) \/ ReadDone(w) \/ Return(w)

Flush(t) ==
    \/ LookupRange(t) \/ FlushEntry(t) \/ FlushLocked(t) \/ FlushWritten(t)
    \/ BatchDone(t) \/ Return(t)

\* All requests are served and no more are sent.
Finished == (\A t \in Threads : th[t].pc = "idle") /\ UNCHANGED vars

Next ==
    \/ \E w \in Workers, shape \in setup.shapes : StartWrite(w, shape) \/ StartRead(w, shape)
    \/ \E w \in Workers : Serve(w)
    \/ \E t \in Flushers : StartFlush(t) \/ Flush(t)
    \/ Finished

Spec == Init /\ [][Next]_vars

\* The flash and the host answer, and the run queue is first in first out: a
\* thread that can go on again and again does go on.
FairSpec ==
    /\ Spec
    /\ \A w \in Workers : SF_vars(Serve(w))
    /\ \A t \in Flushers : SF_vars(Flush(t))

----------------------------------------------------------------------------
(* Properties                                                              *)

\* "only unpinned entries will be added to LRU" (data_cache.c:185): the entries
\* on the LRU list are exactly the unpinned ones, each once, so the assertion of
\* cache_evict_entry that its victim is unpinned holds.
LruIsUnpinned ==
    /\ \A j, k \in DOMAIN lru : lru[j] = lru[k] => j = k
    /\ \A f \in Frames : f \in Range(lru) <=> entry[f].key # NONE /\ entry[f].pin = 0

\* No logical page has two entries in the cache, whatever fails or is evicted: a
\* lookup that misses and the insertion that follows are not interleaved with
\* another.
CachedOnce ==
    \A f, g \in Frames : entry[f].in_tree /\ entry[g].in_tree
                         /\ entry[f].key = entry[g].key => f = g

\* "all cache entries for the request are allocated, locked and detached from LRU
\* so that they will not be evicted until we finish" (data_cache.c:456): while
\* the host's data is on its way, every entry of the request is in the cache
\* under the page of its transaction, locked by the worker, pinned and dirty, as long
\* as no request fails: then its entries leave the tree, those others wait for too.
Faultless == setup.faults = {}
WritesIntoCache ==
    Faultless => \A w \in Workers : th[w].pc = "dma" =>
        \A k \in DOMAIN th[w].txns :
            LET x == th[w].txns[k]
            IN  /\ entry[x.frame].key = x.lpa /\ entry[x.frame].in_tree
                /\ entry[x.frame].owner = w /\ entry[x.frame].status = "DIRTY"
                /\ x.frame \notin Range(lru)

\* As long as no operation fails, an entry that is not being written keeps nothing
\* the flash does not have unless it is dirty, so a clean entry can be dropped.
CleanMatchesFlash ==
    Faultless => \A f \in Frames :
        entry[f].in_tree /\ entry[f].status = "CLEAN" /\ entry[f].owner \notin Workers =>
            \A s \in entry[f].bitmap : entry[f].data[s] = flash[entry[f].key][s]

\* A completed read returns, for each sector, data at least as recent as the last
\* write completed before it began, as long as no operation fails.
NoStaleRead ==
    Faultless => \A w \in Workers : th[w].pc = "returned" =>
        \A k \in DOMAIN th[w].txns : \A s \in th[w].txns[k].bitmap :
            th[w].txns[k].data[s] >= th[w].floor[k][s]

\* A flush writes "everything so that we can still get them next time"
\* (ftl.c:329): when a flusher ends, and nothing fails, the flash has every write to
\* its pages that had completed when it began.
FlushDurable ==
    Faultless => \A t \in Flushers : th[t].pc = "returned" =>
        \A l \in Lpas : Tagged(t, l) =>
            \A s \in Sectors : flash[l][s] >= th[t].floor[l][s]

\* Every request and every flush comes to an end unless an operation fails: the order
\* in which entries are locked never makes two threads wait for each other.
RequestsReturn ==
    \A t \in Threads : Faultless /\ th[t].pc # "idle" ~> th[t].pc = "idle"
=============================================================================
