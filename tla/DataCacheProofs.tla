-------------------------- MODULE DataCacheProofs --------------------------
(***************************************************************************)
(* Any number of workers, flushers, pages and frames, any request, fault   *)
(* and eviction: no logical page is ever cached twice.                     *)
(***************************************************************************)
EXTENDS DataCache, TLAPS

\* A record with the fields of struct cache_entry.
Fields == {"key", "in_tree", "status", "bitmap", "data", "pin", "owner", "waiters"}

IsEntry(x) == x = [s \in Fields |-> x[s]]

Entries(es) == es = [f \in Frames |-> es[f]] /\ \A f \in Frames : IsEntry(es[f])

\* The inductive invariant.
Inv == Entries(entry) /\ CachedOnce

\* Entries es come from the cache's entries without a page being added: an entry may
\* leave the tree, and keeps its key.
OnlyLeave(es) ==
    /\ Entries(es)
    /\ \A f \in Frames : es[f].key = entry[f].key /\ (es[f].in_tree => entry[f].in_tree)

LEMMA LeavingKeeps == ASSUME Inv, OnlyLeave(entry') PROVE Inv'
BY DEF Inv, OnlyLeave, CachedOnce

\* unpin_entry and mutex_unlock leave key and tree alone.
LEMMA ReleaseLeaves ==
    ASSUME NEW es, OnlyLeave(es), NEW fs PROVE OnlyLeave(ReleaseAll(es, fs))
<1>1. ASSUME NEW x, IsEntry(x)
      PROVE IsEntry(Released(x)) /\ Released(x).key = x.key /\ Released(x).in_tree = x.in_tree
  BY ZenonT(60), <1>1 DEF IsEntry, Fields, Released
<1> QED BY <1>1 DEF OnlyLeave, Entries, ReleaseAll

LEMMA SameLeaves == ASSUME Inv PROVE OnlyLeave(entry)
BY DEF Inv, OnlyLeave

LEMMA PinKeeps ==
    ASSUME Inv, NEW t, NEW f, NEW rec, PinAndLock(t, f, rec) PROVE Inv'
<1>1. CASE f \notin Frames
  <2>1. entry' = entry
    BY <1>1 DEF PinAndLock, Inv, Entries
  <2> QED BY <2>1 DEF Inv, CachedOnce
<1>2. CASE f \in Frames
  <2>1. OnlyLeave(entry')
    BY <1>2 DEF PinAndLock, Inv, OnlyLeave, Entries, IsEntry, Fields
  <2> QED BY <2>1, LeavingKeeps
<1> QED BY <1>1, <1>2

LEMMA UnchangedKeeps == ASSUME Inv, UNCHANGED entry PROVE Inv'
BY DEF Inv, CachedOnce

LEMMA WriteLockedKeeps == ASSUME Inv, NEW w, WriteLocked(w) PROVE Inv'
<1> DEFINE f == th[w].frame
<1>1. CASE f \notin Frames
  BY <1>1, UnchangedKeeps, ZenonT(40) DEF WriteLocked, Inv, Entries
<1>2. CASE f \in Frames
  <2> DEFINE x == [entry[f] EXCEPT !.bitmap = @ \cup Txn(w).bitmap, !.status = "DIRTY"]
  <2>1. IsEntry(x) /\ x.key = entry[f].key /\ x.in_tree = entry[f].in_tree
    BY ZenonT(60), <1>2 DEF Inv, Entries, IsEntry, Fields
  <2>2. entry' = [entry EXCEPT ![f] = x]
    BY <1>2, ZenonT(40) DEF WriteLocked, Inv, Entries
  <2> HIDE DEF x, f
  <2>3. OnlyLeave(entry')
    BY <1>2, <2>1, <2>2 DEF Inv, OnlyLeave, Entries
  <2> QED BY <2>3, LeavingKeeps
<1> QED BY <1>1, <1>2

\* A page is added only after cache_find has found none, in the same step.
LEMMA AddKeeps ==
    ASSUME Inv, NEW es, OnlyLeave(es), NEW l, Find(l) = {}, NEW f, NEW x,
           IsEntry(x), x.key = l, entry' = [es EXCEPT ![f] = x]
    PROVE Inv'
<1>1. Entries(entry')
  BY DEF OnlyLeave, Entries
<1>2. ASSUME NEW g \in Frames, NEW h \in Frames, entry'[g].in_tree, entry'[h].in_tree,
             entry'[g].key = entry'[h].key
      PROVE g = h
  <2>1. \A i \in Frames : i # f => entry'[i] = es[i]
    BY DEF OnlyLeave, Entries
  <2>2. f \in Frames => entry'[f] = x
    BY DEF OnlyLeave, Entries
  <2>3. \A i \in Frames : ~(entry[i].in_tree /\ entry[i].key = l)
    BY DEF Find
  <2> QED BY <1>2, <2>1, <2>2, <2>3 DEF OnlyLeave, Inv, CachedOnce
<1> QED BY <1>1, <1>2 DEF Inv, CachedOnce

LEMMA WriteAddKeeps == ASSUME Inv, NEW w, WriteAdd(w) PROVE Inv'
<1> DEFINE f == Min({g \in Frames : entry[g].key = NONE})
           x == [NoEntry EXCEPT !.key = Txn(w).lpa, !.in_tree = TRUE, !.status = "DIRTY",
                                !.bitmap = Txn(w).bitmap, !.pin = 1, !.owner = w]
<1>1. IsEntry(x) /\ x.key = Txn(w).lpa
  BY ZenonT(60) DEF IsEntry, Fields, NoEntry
<1>2. entry' = [entry EXCEPT ![f] = x] /\ Find(Txn(w).lpa) = {}
  BY DEF WriteAdd
<1> HIDE DEF f, x
<1> QED BY ZenonT(60), <1>1, <1>2, SameLeaves, AddKeeps

LEMMA WriteEvictKeeps == ASSUME Inv, NEW w, WriteEvict(w) PROVE Inv'
<1> DEFINE f == Last(lru)
           es == Erase(entry, entry[f].key)
           x == [entry[f] EXCEPT !.key = Txn(w).lpa, !.in_tree = TRUE, !.status = "DIRTY",
                                 !.bitmap = Txn(w).bitmap, !.pin = 1, !.owner = w]
<1>1. OnlyLeave(es)
  <2>1. ASSUME NEW e, IsEntry(e) PROVE /\ IsEntry([e EXCEPT !.in_tree = FALSE])
                                       /\ [e EXCEPT !.in_tree = FALSE].key = e.key
                                       /\ ~[e EXCEPT !.in_tree = FALSE].in_tree
    BY ZenonT(60), <2>1 DEF IsEntry, Fields
  <2> QED BY <2>1 DEF OnlyLeave, Inv, Entries, Erase
<1>2. entry' = [es EXCEPT ![f] = x] /\ Find(Txn(w).lpa) = {}
  BY DEF WriteEvict
<1>3. CASE f \in Frames
  <2>1. IsEntry(x) /\ x.key = Txn(w).lpa
    BY ZenonT(60), <1>3 DEF IsEntry, Fields, Inv, Entries
  <2> HIDE DEF f, es, x
  <2> QED BY ZenonT(60), <1>1, <1>2, <2>1, AddKeeps
<1>4. CASE f \notin Frames
  <2>1. entry' = es
    BY <1>1, <1>2, <1>4 DEF OnlyLeave, Entries
  <2> QED BY <1>1, <2>1, LeavingKeeps
<1> QED BY <1>3, <1>4

LEMMA WriteFailsKeeps == ASSUME Inv, NEW w, WriteFails(w) PROVE Inv'
<1> DEFINE fs == Taken(w)
           es == [f \in Frames |-> IF f \in Range(fs)
                                   THEN [entry[f] EXCEPT !.status = "EMPTY", !.in_tree = FALSE]
                                   ELSE IF entry[f].key \in {entry[g].key : g \in Range(fs)}
                                   THEN [entry[f] EXCEPT !.in_tree = FALSE]
                                   ELSE entry[f]]
<1>1. OnlyLeave(es)
  <2>1. ASSUME NEW e, IsEntry(e)
        PROVE  /\ IsEntry([e EXCEPT !.in_tree = FALSE])
               /\ [e EXCEPT !.in_tree = FALSE].key = e.key
               /\ ~[e EXCEPT !.in_tree = FALSE].in_tree
               /\ IsEntry([e EXCEPT !.status = "EMPTY", !.in_tree = FALSE])
               /\ [e EXCEPT !.status = "EMPTY", !.in_tree = FALSE].key = e.key
               /\ ~[e EXCEPT !.status = "EMPTY", !.in_tree = FALSE].in_tree
    BY ZenonT(60), <2>1 DEF IsEntry, Fields
  <2> QED BY <2>1, ZenonT(40) DEF OnlyLeave, Inv, Entries
<1>2. entry' = ReleaseAll(es, fs)
  BY ZenonT(40) DEF WriteFails
<1> HIDE DEF es, fs
<1> QED BY <1>1, <1>2, ReleaseLeaves, LeavingKeeps

LEMMA CompleteKeeps == ASSUME Inv, NEW w, Complete(w) PROVE Inv'
<1> DEFINE ts == th[w].txns
           es == [f \in Frames |->
                    IF \E k \in DOMAIN ts : ts[k].frame = f
                    THEN LET k == CHOOSE j \in DOMAIN ts : ts[j].frame = f
                         IN  [entry[f] EXCEPT !.data = Overlay(@, [s \in Sectors |-> clock + 1],
                                                               ts[k].bitmap)]
                    ELSE entry[f]]
<1>1. OnlyLeave(es)
  <2>1. ASSUME NEW e, IsEntry(e), NEW d
        PROVE  /\ IsEntry([e EXCEPT !.data = d])
               /\ [e EXCEPT !.data = d].key = e.key
               /\ [e EXCEPT !.data = d].in_tree = e.in_tree
    BY <2>1 DEF IsEntry, Fields
  <2> QED BY <2>1 DEF OnlyLeave, Inv, Entries
<1>2. entry' = ReleaseAll(es, Taken(w))
  BY ZenonT(40) DEF Complete
<1> HIDE DEF es
<1> QED BY <1>1, <1>2, ReleaseLeaves, LeavingKeeps

LEMMA BatchDoneKeeps == ASSUME Inv, NEW t, BatchDone(t) PROVE Inv'
<1> DEFINE fs == [k \in DOMAIN th[t].wbs |-> th[t].wbs[k].frame]
<1>1. OnlyLeave(Cleaned(entry, fs))
  <2>1. ASSUME NEW e, IsEntry(e)
        PROVE  /\ IsEntry([e EXCEPT !.status = "CLEAN"])
               /\ [e EXCEPT !.status = "CLEAN"].key = e.key
               /\ [e EXCEPT !.status = "CLEAN"].in_tree = e.in_tree
    BY <2>1 DEF IsEntry, Fields
  <2> QED BY <2>1 DEF OnlyLeave, Inv, Entries, Cleaned
<1>2. entry' = ReleaseAll(Cleaned(entry, fs), fs)
  BY DEF BatchDone
<1> HIDE DEF fs
<1> QED BY <1>1, <1>2, ReleaseLeaves, LeavingKeeps

LEMMA InitInv == Init => Inv
<1>1. IsEntry(NoEntry) /\ NoEntry.in_tree = FALSE
  BY ZenonT(60) DEF IsEntry, Fields, NoEntry
<1>2. Init => entry = [f \in Frames |-> NoEntry]
  BY DEF Init
<1> QED BY <1>1, <1>2 DEF Inv, Entries, CachedOnce

LEMMA ServeKeeps == ASSUME Inv, NEW w \in Workers, Serve(w) PROVE Inv'
<1>1. CASE WriteHit(w)
  BY <1>1, PinKeeps DEF WriteHit
<1>2. CASE WriteLocked(w)
  BY <1>2, WriteLockedKeeps
<1>3. CASE WriteAdd(w)
  BY <1>3, WriteAddKeeps
<1>4. CASE WriteEvict(w)
  BY <1>4, WriteEvictKeeps
<1>5. CASE WritePanics(w)
  BY <1>5, UnchangedKeeps DEF WritePanics
<1>6. CASE WritebackDone(w)
  BY <1>6, UnchangedKeeps, WriteFailsKeeps DEF WritebackDone
<1>7. CASE WriteDone(w)
  BY <1>7, CompleteKeeps, WriteFailsKeeps DEF WriteDone
<1>8. CASE ReadHit(w)
  BY <1>8, PinKeeps DEF ReadHit
<1>9. CASE ReadLocked(w) \/ ReadMiss(w)
  BY ZenonT(60), <1>9, UnchangedKeeps DEF ReadLocked, ReadMiss
<1>10. ASSUME ReadFails(w) PROVE Inv'
  BY <1>10, SameLeaves, ReleaseLeaves, LeavingKeeps DEF ReadFails
<1>11. CASE ReadNoMem(w)
  BY <1>10, <1>11 DEF ReadNoMem
<1>12. CASE AmuRead(w)
  BY <1>10, <1>12, UnchangedKeeps DEF AmuRead
<1>13. CASE OverlayDone(w) \/ ReadDone(w)
  BY <1>13, SameLeaves, ReleaseLeaves, LeavingKeeps DEF OverlayDone, ReadDone
<1>14. CASE Return(w)
  BY <1>14, UnchangedKeeps DEF Return
<1> QED BY <1>1, <1>2, <1>3, <1>4, <1>5, <1>6, <1>7, <1>8, <1>9, <1>11, <1>12, <1>13, <1>14
        DEF Serve

LEMMA FlushKeeps == ASSUME Inv, NEW t \in Flushers, Flush(t) PROVE Inv'
<1>1. CASE LookupRange(t) \/ FlushLocked(t) \/ FlushWritten(t) \/ Return(t)
  BY <1>1, UnchangedKeeps, ZenonT(40) DEF LookupRange, FlushLocked, FlushWritten, Return
<1>2. CASE FlushEntry(t)
  BY <1>2, PinKeeps, UnchangedKeeps DEF FlushEntry
<1>3. CASE BatchDone(t)
  BY <1>3, BatchDoneKeeps
<1> QED BY <1>1, <1>2, <1>3 DEF Flush

LEMMA NextInv == Inv /\ [Next]_vars => Inv'
<1> SUFFICES ASSUME Inv, [Next]_vars PROVE Inv'
  OBVIOUS
<1>1. ASSUME NEW w \in Workers, NEW shape \in setup.shapes,
             StartWrite(w, shape) \/ StartRead(w, shape)
      PROVE Inv'
  BY <1>1, UnchangedKeeps DEF StartWrite, StartRead
<1>2. ASSUME NEW t \in Flushers, StartFlush(t) PROVE Inv'
  BY <1>2, UnchangedKeeps DEF StartFlush
<1>3. CASE Finished \/ UNCHANGED vars
  BY <1>3, UnchangedKeeps DEF Finished, vars
<1> QED BY <1>1, <1>2, <1>3, ServeKeeps, FlushKeeps DEF Next

\* No logical page is cached twice, for any number of workers and flushers, whatever
\* fails and is evicted: cache_find and the cache_add or cache_evict_entry that
\* follows it are not interleaved with another, and no entry gets a new key otherwise.
THEOREM NeverCachedTwice == Spec => []CachedOnce
<1>1. Inv => CachedOnce
  BY DEF Inv
<1> QED BY <1>1, InitInv, NextInv, PTL DEF Spec
=============================================================================
