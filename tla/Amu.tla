-------------------------------- MODULE Amu --------------------------------
(***************************************************************************)
(* The address mapping unit of one namespace (myssd_sdk/src/ftl/amu.c):    *)
(* amu_dispatch translates a list of flash transactions through a cache of *)
(* translation pages and then executes them; amu_save_domain writes the    *)
(* dirty translation pages and the global translation directory (gtd), so  *)
(* that domain_init finds the mapping again after a restart.               *)
(*                                                                         *)
(* Workers are coroutines: only `cur' runs, and it gives up the core only  *)
(* when it waits for a translation page's mutex or for the flash.  A       *)
(* logical page is a pair <<mvpn, slot>>.  Flash content is a version      *)
(* number per sector (0: nothing written).                                 *)
(***************************************************************************)
EXTENDS Integers, Sequences, FiniteSetsExt, Functions

CONSTANTS
    Workers,      \* coroutines that call the AMU
    NONE,         \* NO_PPA, NO_MPPN, no owner, no frame
    Mvpns,        \* translation pages of the namespace: 0 .. n
    Slots,        \* entries of a translation page
    Sectors,      \* sectors of a flash page
    Ppas,         \* flash pages the block manager can hand out: 1 .. n
    Frames,       \* bound: memory for cached translation pages, 1 .. n
    Garbage,      \* bound: the PPAs in memory that was not initialised
    Requests,     \* the types and bitmaps of transactions
    MaxTxns,      \* bound: transactions in one dispatch
    MaxVersion,   \* bound: transactions in a behaviour, over all setups
    Setups,       \* what is fixed at boot: see `setup'
    Exclusive     \* callers never have two transactions on one logical page

Lpas == Mvpns \X Slots

ASSUME AmuAssumption ==
    /\ Mvpns \subseteq Nat /\ Ppas \subseteq Nat /\ Frames \subseteq Nat
    /\ MaxVersion \in Nat /\ MaxTxns \in Nat \ {0}
    /\ Requests \subseteq [type : {"read", "write"}, bitmap : (SUBSET Sectors) \ {{}}]
    /\ Setups \subseteq [capacity : Nat \ {0}, txns : 0..MaxVersion,
                         faults : SUBSET {"xpg_read", "xpg_flush", "update_read", "submit"}]
    /\ Garbage \subseteq Ppas \cup {NONE} /\ Exclusive \in BOOLEAN
    /\ NONE \notin Workers /\ NONE \notin Nat

VARIABLES
    setup,        \* xpc->capacity, the flash operations that may fail, and a
                  \* bound on the transactions of a behaviour
    cur,          \* the coroutine on the core, NONE between two of them
    gtd,          \* domain->gtd: where each translation page is on flash
    gtd_file,     \* the file save_gtd writes
    xpgs,         \* the translation page in each frame of memory
    lru,          \* xpc->lru_list, most recently used first
    size,         \* xpc->size
    used,         \* flash pages handed out by bm_alloc_page
    data,         \* flash pages holding user data
    table,        \* flash pages holding translation pages (PPAs only)
    wt,           \* per worker: where it is in amu_dispatch or amu_save_domain
    saved,        \* how far a save that nothing disturbed has come
    version,      \* number of transactions so far
    latest,       \* the sectors of the last completed write of each page
    lost,         \* logical pages mapped by a dispatch that failed before it wrote them
    evicted       \* a translation page has been evicted

vars == <<setup, cur, gtd, gtd_file, xpgs, lru, size, used, data, table, wt,
          saved, version, latest, lost, evicted>>

NoData == [s \in Sectors |-> 0]
NoEntry == [ppa |-> NONE, bitmap |-> {}]
NoPage == [mvpn |-> NONE, in_tree |-> FALSE, dirty |-> FALSE, pin |-> 0,
           owner |-> NONE, waiters |-> <<>>,
           entries |-> [s \in Slots |-> NoEntry]]
Idle == [pc |-> "idle", ret |-> "none", txns |-> <<>>, i |-> 1,
         frame |-> NONE, mvpn |-> -1]

Txn(w) == wt[w].txns[wt[w].i]
Entry(w) == xpgs[wt[w].frame].entries[Txn(w).lpa[2]]

----------------------------------------------------------------------------
(* Translation pages                                                       *)

\* xpc_find: the cached page of mvpn, if any.
FoundUnlocked(mvpn) ==
    {f \in Frames : xpgs[f].in_tree /\ xpgs[f].mvpn = mvpn /\ xpgs[f].owner = NONE}
Found(mvpn) == {f \in Frames : xpgs[f].in_tree /\ xpgs[f].mvpn = mvpn}

\* list_del of page f on list s.
Unlinked(s, f) ==
    IF f \notin Range(s) THEN s
    ELSE LET n == CHOOSE i \in DOMAIN s : s[i] = f
         IN  [i \in 1..(Len(s) - 1) |-> s[IF i < n THEN i ELSE i + 1]]

\* xpc_pin: a page leaves the LRU list with its first pin.
LruPinKept(f) == lru
LruPin(f) == IF xpgs[f].pin = 0 THEN Unlinked(lru, f) ELSE lru

UnlockedToNobody(x, w) ==
    IF x.owner # w THEN x
    ELSE [x EXCEPT !.owner = NONE, !.waiters = IF @ = <<>> THEN @ ELSE Tail(@)]
\* mutex_unlock by w hands the mutex to the first waiter (EPERM if w is not the
\* owner).
Unlocked(x, w) ==
    IF x.owner # w THEN x
    ELSE [x EXCEPT !.owner = IF x.waiters = <<>> THEN NONE ELSE Head(x.waiters),
                   !.waiters = IF @ = <<>> THEN @ ELSE Tail(@)]

\* mutex_unlock and xpc_unpin, which asserts pin_count > 0.
Released(x, w) == [Unlocked(x, w) EXCEPT !.pin = @ - 1]

\* xpc_unpin: the last pin puts the page at the head of the LRU list.
LruUnpin(f) == IF xpgs[f].pin = 1 THEN <<f>> \o lru ELSE lru

UpdateMappingClean(x, slot, ppa, bitmap) ==
    [x EXCEPT !.entries[slot] = [ppa |-> ppa, bitmap |-> @.bitmap \cup bitmap]]
\* xpc_update_mapping.
UpdateMapping(x, slot, ppa, bitmap) ==
    [x EXCEPT !.entries[slot] = [ppa |-> ppa, bitmap |-> @.bitmap \cup bitmap],
              !.dirty = TRUE]

FreshReused == IF used = {} THEN Ppas ELSE used
\* bm_alloc_page never returns a page it has handed out before.
Fresh == Ppas \ used

\* The translation page as xpc_flush_page writes it and xpc_read_page reads it:
\* the sector bitmaps are not stored, a page read back counts as full.
OnFlash(x) == [s \in Slots |-> x.entries[s].ppa]
FromFlash(ppas) == [s \in Slots |-> [ppa |-> ppas[s], bitmap |-> Sectors]]

----------------------------------------------------------------------------
(* Coroutines                                                              *)

Running(w, pc) == cur = w /\ wt[w].pc = pc
\* A worker that waited, and may go on now that the core is free.  The order
\* of the run queue is left open.
Resumes(w, pc) == cur = NONE /\ wt[w].pc = pc

Goto(w, rec) == wt' = [wt EXCEPT ![w] = rec] /\ cur' = w
Wait(w, rec) == wt' = [wt EXCEPT ![w] = rec] /\ cur' = NONE

StealLock(w, f, rec) ==
    /\ lru' = LruPin(f)
    /\ xpgs' = [xpgs EXCEPT ![f].pin = @ + 1, ![f].owner = w]
    /\ Goto(w, [rec EXCEPT !.pc = "locked", !.frame = f])
\* xpc_pin and mutex_lock of a cached page.
PinAndLock(w, f, rec) ==
    /\ lru' = LruPin(f)
    /\ IF xpgs[f].owner = NONE
       THEN /\ xpgs' = [xpgs EXCEPT ![f].pin = @ + 1, ![f].owner = w]
            /\ Goto(w, [rec EXCEPT !.pc = "locked", !.frame = f])
       ELSE /\ xpgs' = [xpgs EXCEPT ![f].pin = @ + 1,
                                    ![f].waiters = Append(@, w)]
            /\ Wait(w, [rec EXCEPT !.pc = "lock_wait", !.frame = f])

\* The worker translating txns[i] needs its translation page, for get_ppa (a
\* read) or for alloc_page_for_write.
NeedPage(rec) ==
    [rec EXCEPT !.pc = "page", !.mvpn = rec.txns[rec.i].lpa[1],
                !.ret = IF rec.txns[rec.i].type = "read" THEN "get_ppa" ELSE "alloc"]

\* txns[i] has its PPA: translate the next, or start executing the first.
Translated(w, rec) ==
    IF rec.i < Len(rec.txns)
    THEN Goto(w, NeedPage([rec EXCEPT !.i = @ + 1]))
    ELSE Wait(w, [rec EXCEPT !.i = 1, !.pc = "submit"])

\* amu_dispatch fails.  The mapping keeps the PPAs of transactions ks, which are not
\* written: "we lose both the old and the new page".
Fail(w, ks) ==
    /\ Wait(w, Idle)
    /\ lost' = lost \cup {wt[w].txns[k].lpa : k \in {j \in ks : wt[w].txns[j].type = "write"}}

----------------------------------------------------------------------------
Init ==
    /\ setup \in Setups
    /\ cur = NONE
    /\ gtd = [m \in Mvpns |-> NONE] /\ gtd_file = gtd
    /\ xpgs = [f \in Frames |-> NoPage]
    /\ lru = <<>> /\ size = 0
    /\ used = {}
    /\ data = [p \in Ppas |-> NoData]
    /\ table = [p \in Ppas |-> [s \in Slots |-> NONE]]
    /\ wt = [w \in Workers |-> Idle]
    /\ saved = "no"
    /\ version = 0
    /\ latest = [l \in Lpas |-> NoData] /\ lost = {} /\ evicted = FALSE

Outstanding(l) == \E w \in Workers : \E t \in Range(wt[w].txns) : t.lpa = l

\* amu_dispatch is called: the beginning of the first translate_lpa.
Dispatch(w, ls, reqs) ==
    /\ Resumes(w, "idle")
    /\ Exclusive => \A k \in DOMAIN ls : ~Outstanding(ls[k])
    /\ version + Len(ls) <= setup.txns
    /\ version' = version + Len(ls)
    /\ Goto(w, NeedPage([Idle EXCEPT !.txns =
                   [k \in DOMAIN ls |->
                      [type |-> reqs[k].type, lpa |-> ls[k], bitmap |-> reqs[k].bitmap,
                       data |-> [s \in Sectors |->
                                   IF reqs[k].type = "write" /\ s \in reqs[k].bitmap
                                   THEN version + k ELSE 0],
                       ppa |-> NONE]]]))
    /\ saved' = "no"
    /\ UNCHANGED <<setup, evicted, gtd, gtd_file, xpgs, lru, size, used, data, table, latest, lost>>

\* get_translation_page, cache hit.
HitPage(w) ==
    /\ Running(w, "page")
    /\ \E f \in Found(wt[w].mvpn) : PinAndLock(w, f, wt[w])
    /\ UNCHANGED <<setup, evicted, gtd, gtd_file, size, used, data, table, saved, version, latest, lost>>

\* get_translation_page, xpc_add of a page: fresh memory, filled with NO_PPA or
\* read from flash.
AddPage(w) ==
    LET unused == {g \in Frames : xpgs[g].mvpn = NONE}
        f == Min(unused)
        m == wt[w].mvpn
        x == [NoPage EXCEPT !.mvpn = m, !.in_tree = TRUE, !.pin = 1, !.owner = w,
                            !.dirty = (gtd[m] = NONE)]
    IN  /\ Running(w, "page")
        /\ Found(m) = {} /\ size < setup.capacity /\ unused # {}
        /\ xpgs' = [xpgs EXCEPT ![f] = x]
        /\ size' = size + 1
        /\ IF gtd[m] = NONE
           THEN Goto(w, [wt[w] EXCEPT !.pc = "locked", !.frame = f])
           ELSE Wait(w, [wt[w] EXCEPT !.pc = "read_xpg", !.frame = f])
        /\ UNCHANGED <<setup, evicted, gtd, gtd_file, lru, used, data, table, saved, version, latest, lost>>

\* xpc_read_page.  A failure unlocks, forgets and unpins the page, and still
\* returns it, with whatever its memory held.
ReadPage(w) ==
    LET f == wt[w].frame
        m == wt[w].mvpn
    IN  /\ Resumes(w, "read_xpg")
        /\ \/ /\ xpgs' = [xpgs EXCEPT ![f].entries = FromFlash(table[gtd[m]])]
              /\ lru' = lru
           \/ /\ "xpg_read" \in setup.faults
              /\ \E garbage \in [Slots -> [ppa : Garbage, bitmap : {Sectors}]] :
                 xpgs' = [xpgs EXCEPT ![f] = [Released(@, w) EXCEPT
                                                 !.in_tree = FALSE, !.entries = garbage]]
              /\ lru' = LruUnpin(f)
        /\ Goto(w, [wt[w] EXCEPT !.pc = "locked"])
        /\ UNCHANGED <<setup, evicted, gtd, gtd_file, size, used, data, table, saved, version, latest, lost>>

\* An evicted frame now holds mvpn m -- with the entries it had before.
Reuse(w, f, m) ==
    /\ xpgs' = [xpgs EXCEPT ![f].mvpn = m, ![f].in_tree = TRUE, ![f].pin = 1,
                            ![f].owner = w]
    /\ Goto(w, [wt[w] EXCEPT !.pc = "locked", !.frame = f])

\* get_translation_page, cache full: xpc_evict takes the LRU page (ENOMEM if
\* all are pinned), a dirty one is flushed before it is used again.
EvictPage(w) ==
    LET f == lru[Len(lru)]
        m == wt[w].mvpn
    IN  /\ Running(w, "page")
        /\ Found(m) = {} /\ size >= setup.capacity
        /\ \/ /\ lru = <<>>
              /\ Fail(w, 1..(wt[w].i - 1))
              /\ UNCHANGED <<xpgs, lru, size, evicted>>
           \/ /\ lru # <<>> /\ xpgs[f].dirty
              /\ xpgs' = [xpgs EXCEPT ![f].in_tree = FALSE]
              /\ lru' = Unlinked(lru, f) /\ size' = size - 1
              /\ Wait(w, [wt[w] EXCEPT !.pc = "evict_flush", !.frame = f])
              /\ evicted' = TRUE /\ UNCHANGED lost
           \/ /\ lru # <<>> /\ ~xpgs[f].dirty
              /\ Reuse(w, f, m)
              /\ lru' = Unlinked(lru, f)
              /\ evicted' = TRUE /\ UNCHANGED <<size, lost>>
        /\ UNCHANGED <<setup, gtd, gtd_file, used, data, table, saved, version, latest>>

\* xpc_flush_page of the evicted page completes; its result is not looked at.
EvictFlushed(w) ==
    LET f == wt[w].frame
        p == Min(Fresh)
        m == xpgs[f].mvpn
    IN  /\ Resumes(w, "evict_flush")
        /\ \/ /\ Fresh # {}
              /\ used' = used \cup {p}
              /\ table' = [table EXCEPT ![p] = OnFlash(xpgs[f])]
              /\ gtd' = [gtd EXCEPT ![m] = p]
              /\ xpgs' = [xpgs EXCEPT ![f].mvpn = wt[w].mvpn, ![f].dirty = FALSE,
                                      ![f].in_tree = TRUE, ![f].pin = 1,
                                      ![f].owner = w]
              /\ Goto(w, [wt[w] EXCEPT !.pc = "locked"])
           \/ /\ "xpg_flush" \in setup.faults
              /\ Reuse(w, f, wt[w].mvpn)
              /\ UNCHANGED <<used, table, gtd>>
        /\ size' = size + 1
        /\ UNCHANGED <<setup, evicted, gtd_file, lru, data, saved, version, latest, lost>>

\* A worker that waited for a page's mutex was handed it.
LockGranted(w) ==
    /\ Resumes(w, "lock_wait")
    /\ xpgs[wt[w].frame].owner = w
    /\ Goto(w, [wt[w] EXCEPT !.pc = "locked"])
    /\ UNCHANGED <<setup, evicted, gtd, gtd_file, xpgs, lru, size, used, data, table,
                   saved, version, latest, lost>>

\* get_ppa, and what translate_lpa does for a read: an unmapped page gets a
\* flash page after all, from a second look at the translation page.
GetPpa(w) ==
    LET f == wt[w].frame
    IN  /\ Running(w, "locked") /\ wt[w].ret = "get_ppa" /\ xpgs[f].pin > 0
        /\ xpgs' = [xpgs EXCEPT ![f] = Released(@, w)]
        /\ lru' = LruUnpin(f)
        /\ IF Entry(w).ppa = NONE
           THEN Goto(w, [wt[w] EXCEPT !.pc = "page", !.ret = "alloc"])
           ELSE Translated(w, [wt[w] EXCEPT !.txns[wt[w].i].ppa = Entry(w).ppa])
        /\ UNCHANGED <<setup, evicted, gtd, gtd_file, size, used, data, table, saved, version, latest, lost>>

\* alloc_page_for_write: sectors of the old flash page that the transaction
\* does not overwrite have to be read first.
NeverUpdateRead(w) == FALSE
NeedsUpdateRead(w) ==
    Entry(w).ppa # NONE /\ Entry(w).bitmap \cap Txn(w).bitmap # Entry(w).bitmap

\* The rest of alloc_page_for_write, for transaction t.
MapPage(w, t) ==
    LET f == wt[w].frame
        p == Min(Fresh)
    IN  /\ Fresh # {} /\ xpgs[f].pin > 0
        /\ used' = used \cup {p}
        /\ xpgs' = [xpgs EXCEPT ![f] =
                      Released(UpdateMapping(@, t.lpa[2], p, t.bitmap), w)]
        /\ lru' = LruUnpin(f)
        /\ Translated(w, [wt[w] EXCEPT !.txns[wt[w].i] = [t EXCEPT !.ppa = p]])

AllocPage(w) ==
    /\ Running(w, "locked") /\ wt[w].ret = "alloc"
    /\ IF NeedsUpdateRead(w)
       THEN /\ Wait(w, [wt[w] EXCEPT !.pc = "update_read"])
            /\ UNCHANGED <<xpgs, lru, used>>
       ELSE MapPage(w, Txn(w))
    /\ UNCHANGED <<setup, evicted, gtd, gtd_file, size, data, table, saved, version, latest, lost>>

\* update_read completes; a failure ends the dispatch with this page's mapping as it
\* was.
UpdateRead(w) ==
    LET f == wt[w].frame
        t == Txn(w)
        rest == Entry(w).bitmap \ t.bitmap
    IN  /\ Resumes(w, "update_read")
        /\ \/ /\ MapPage(w, [t EXCEPT !.bitmap = @ \cup rest,
                                !.data = [s \in Sectors |->
                                            IF s \in rest THEN data[Entry(w).ppa][s]
                                            ELSE t.data[s]]])
              /\ UNCHANGED lost
           \/ /\ "update_read" \in setup.faults /\ xpgs[f].pin > 0
              /\ xpgs' = [xpgs EXCEPT ![f] = Released(@, w)]
              /\ lru' = LruUnpin(f)
              /\ Fail(w, 1..(wt[w].i - 1))
              /\ UNCHANGED used
        /\ UNCHANGED <<setup, evicted, gtd, gtd_file, size, data, table, saved, version, latest>>

\* The assertion of xpc_unpin fails: the worker keeps the core for ever.
AssertFails(w) ==
    /\ \/ Running(w, "locked") /\ wt[w].ret = "get_ppa"
       \/ Running(w, "locked") /\ wt[w].ret = "alloc" /\ ~NeedsUpdateRead(w)
       \/ Resumes(w, "update_read")
    /\ xpgs[wt[w].frame].pin = 0
    /\ Goto(w, [wt[w] EXCEPT !.pc = "assert"])
    /\ UNCHANGED <<setup, evicted, gtd, gtd_file, xpgs, lru, size, used, data, table,
                   saved, version, latest, lost>>

\* The flash executes txns[i]; the first failure ends the dispatch.
Submit(w) ==
    LET t == Txn(w)
    IN  /\ Resumes(w, "submit")
        /\ \/ /\ IF t.type = "write"
                 THEN /\ data' = [data EXCEPT ![t.ppa] = t.data]
                      /\ latest' = [latest EXCEPT ![t.lpa] =
                           [s \in Sectors |-> IF t.data[s] > @[s] THEN t.data[s] ELSE @[s]]]
                 ELSE UNCHANGED <<data, latest>>
              /\ Wait(w, IF wt[w].i < Len(wt[w].txns)
                         THEN [wt[w] EXCEPT !.i = @ + 1] ELSE Idle)
              /\ UNCHANGED lost
           \/ /\ "submit" \in setup.faults
              /\ Fail(w, wt[w].i .. Len(wt[w].txns))
              /\ UNCHANGED <<data, latest>>
        /\ UNCHANGED <<setup, evicted, gtd, gtd_file, xpgs, lru, size, used, table, saved, version>>

----------------------------------------------------------------------------
(* amu_save_domain and a restart                                           *)

SaveDomain(w) ==
    /\ Resumes(w, "idle")
    /\ Goto(w, [Idle EXCEPT !.pc = "scan"])
    /\ saved' = IF \A v \in Workers : wt[v] = Idle THEN "saving" ELSE "no"
    /\ UNCHANGED <<setup, evicted, gtd, gtd_file, xpgs, lru, size, used, data, table, version, latest, lost>>

\* flush_domain walks the cached pages in order of mvpn.  The walk keeps a path
\* into the tree: when other work ran since it began, it may end early.
FlushDomain(w) ==
    LET later == {f \in Frames : xpgs[f].in_tree /\ xpgs[f].mvpn > wt[w].mvpn}
        f == CHOOSE g \in later : \A h \in later : xpgs[g].mvpn <= xpgs[h].mvpn
        rec == [wt[w] EXCEPT !.mvpn = xpgs[f].mvpn, !.ret = "save"]
    IN  /\ Running(w, "scan") /\ later # {}
        /\ IF xpgs[f].dirty
           THEN PinAndLock(w, f, rec)
           ELSE Goto(w, rec) /\ UNCHANGED <<xpgs, lru>>
        /\ UNCHANGED <<setup, evicted, gtd, gtd_file, size, used, data, table, saved, version, latest, lost>>

SaveGtd(w) ==
    /\ Running(w, "scan")
    /\ \/ {f \in Frames : xpgs[f].in_tree /\ xpgs[f].mvpn > wt[w].mvpn} = {}
       \/ saved = "no"
    /\ gtd_file' = gtd
    /\ Wait(w, Idle)
    /\ saved' = IF saved = "saving" THEN "saved" ELSE saved
    /\ UNCHANGED <<setup, evicted, gtd, xpgs, lru, size, used, data, table, version, latest, lost>>

\* xpc_flush_page with the page locked: nothing to do if it is clean by now.
FlushPage(w) ==
    LET f == wt[w].frame
    IN  /\ Running(w, "locked") /\ wt[w].ret = "save"
        /\ IF xpgs[f].dirty
           THEN /\ Wait(w, [wt[w] EXCEPT !.pc = "save_flush"])
                /\ UNCHANGED <<xpgs, lru>>
           ELSE /\ xpgs[f].pin > 0
                /\ xpgs' = [xpgs EXCEPT ![f] = Released(@, w)]
                /\ lru' = LruUnpin(f)
                /\ Goto(w, [wt[w] EXCEPT !.pc = "scan"])
        /\ UNCHANGED <<setup, evicted, gtd, gtd_file, size, used, data, table, saved, version, latest, lost>>

PageFlushed(w) ==
    LET f == wt[w].frame
        p == Min(Fresh)
    IN  /\ Resumes(w, "save_flush") /\ xpgs[f].pin > 0
        /\ \/ /\ Fresh # {}
              /\ used' = used \cup {p}
              /\ table' = [table EXCEPT ![p] = OnFlash(xpgs[f])]
              /\ gtd' = [gtd EXCEPT ![xpgs[f].mvpn] = p]
              /\ xpgs' = [xpgs EXCEPT ![f] = Released([@ EXCEPT !.dirty = FALSE], w)]
           \/ /\ "xpg_flush" \in setup.faults
              /\ xpgs' = [xpgs EXCEPT ![f] = Released(@, w)]
              /\ UNCHANGED <<used, table, gtd>>
        /\ lru' = LruUnpin(f)
        /\ Goto(w, [wt[w] EXCEPT !.pc = "scan"])
        /\ UNCHANGED <<setup, evicted, gtd_file, size, data, saved, version, latest, lost>>

\* The device is switched off after a save that nothing disturbed, and
\* domain_init restores the directory.
Reboot ==
    /\ saved = "saved" /\ \A w \in Workers : wt[w] = Idle
    /\ gtd' = gtd_file
    /\ xpgs' = [f \in Frames |-> NoPage] /\ lru' = <<>> /\ size' = 0
    /\ UNCHANGED <<setup, evicted, cur, gtd_file, used, data, table, wt, saved, version, latest, lost>>

----------------------------------------------------------------------------
DispatchSome(w) ==
    \E n \in 1..MaxTxns :
      \E ls \in [1..n -> Lpas], reqs \in [1..n -> Requests] :
        /\ \A j, k \in 1..n : j < k => ls[j] # ls[k]
        /\ Dispatch(w, ls, reqs)

Work(w) ==
    \/ HitPage(w) \/ AddPage(w) \/ ReadPage(w) \/ EvictPage(w) \/ EvictFlushed(w)
    \/ LockGranted(w) \/ GetPpa(w) \/ AllocPage(w) \/ UpdateRead(w) \/ Submit(w)
    \/ AssertFails(w)
    \/ FlushDomain(w) \/ SaveGtd(w) \/ FlushPage(w) \/ PageFlushed(w)

Next ==
    \/ \E w \in Workers : DispatchSome(w) \/ SaveDomain(w) \/ Work(w)
    \/ Reboot

Spec == Init /\ [][Next]_vars

\* Flash operations are answered or time out, and the run queue is first in
\* first out: a worker that can go on again and again does go on.
FairSpec == Spec /\ \A w \in Workers : SF_vars(Work(w))

----------------------------------------------------------------------------
(* Properties                                                              *)

\* The cache has been large enough so far (the configured 1 GB has room for all
\* translation pages of the default namespace), and no flash operation fails but
\* those on user data.
Roomy == ~evicted /\ setup.faults \subseteq {"update_read", "submit"}

\* "Return the page exclusively locked and detached from LRU" (amu.c:488): a
\* worker that works on a translation page owns its mutex, the page is pinned
\* and not on the LRU list.
ReturnedLocked ==
    Roomy => \A w \in Workers :
        wt[w].pc \in {"locked", "read_xpg", "update_read", "save_flush"} =>
            LET f == wt[w].frame
            IN  xpgs[f].owner = w /\ xpgs[f].pin > 0 /\ f \notin Range(lru)

\* "Pinned page should NEVER be evicted" (amu.c:477): the pages xpc_evict takes
\* from the LRU list are unpinned, and on the list once, even when flash
\* operations fail.  Until one is evicted the list also holds every unpinned cached
\* page, so that xpc_evict finds a victim whenever there is one.
LruIsUnpinned ==
    /\ \A j, k \in DOMAIN lru : lru[j] = lru[k] => j = k
    /\ \A f \in Range(lru) : xpgs[f].pin = 0
    /\ Roomy => \A f \in Frames : f \in Range(lru) <=> xpgs[f].in_tree /\ xpgs[f].pin = 0

\* No translation page is cached twice: xpc_find and a later xpc_add of the same
\* mvpn never interleave.
CachedOnce ==
    Roomy => \A f, g \in Frames :
        xpgs[f].in_tree /\ xpgs[g].in_tree /\ xpgs[f].mvpn = xpgs[g].mvpn => f = g

\* The page in frame f is still being read from flash.
Loading(f) == \E w \in Workers : wt[w].pc = "read_xpg" /\ wt[w].frame = f

\* A cached page that is not dirty is the one "referenced by mvpn" (amu.c:488):
\* its mapping is what the directory's flash page holds, so dropping it loses
\* nothing.
CleanMatchesFlash ==
    Roomy => \A f \in Frames :
        LET x == xpgs[f]
        IN  x.in_tree /\ ~x.dirty /\ ~Loading(f) =>
                gtd[x.mvpn] # NONE /\ OnFlash(x) = table[gtd[x.mvpn]]

\* Where the mapping sends a logical page: through the cached translation page,
\* or through the directory when none is loaded.
MappedPpa(l) ==
    LET loaded == {f \in Frames : xpgs[f].in_tree /\ xpgs[f].mvpn = l[1] /\ ~Loading(f)}
    IN  IF loaded # {} THEN xpgs[CHOOSE f \in loaded : TRUE].entries[l[2]].ppa
        ELSE IF gtd[l[1]] # NONE THEN table[gtd[l[1]]][l[2]]
        ELSE NONE

\* No flash page serves two purposes: two logical pages never map to the same
\* flash page, and none maps to a flash page that holds a translation page.
NoAliasing ==
    Roomy => \A l \in Lpas : MappedPpa(l) # NONE =>
        /\ MappedPpa(l) \in used
        /\ MappedPpa(l) \notin {gtd[m] : m \in Mvpns}
        /\ \A k \in Lpas \ {l} : MappedPpa(k) # MappedPpa(l)

\* No update is lost: once no transaction on a logical page is outstanding, the
\* mapping leads to a flash page with every sector the completed writes left
\* there, through read-modify-writes, saves and restarts.  The exceptions are the
\* pages of a dispatch that failed after it had mapped them (amu.c:906); the page whose
\* old data could not be read is not one of them.
MappingFaithful ==
    Roomy => \A l \in Lpas \ lost : ~Outstanding(l) =>
        \A s \in Sectors : latest[l][s] # 0 =>
            MappedPpa(l) # NONE /\ data[MappedPpa(l)][s] = latest[l][s]

\* "Read an LP that has not been written. Just allocate a PP for it" (amu.c:855):
\* when a read allocates a flash page, the logical page has none.
ReadAllocatesUnwritten ==
    \A w \in Workers :
        wt[w].pc = "locked" /\ wt[w].ret = "alloc" /\ Txn(w).type = "read" =>
            Entry(w).ppa = NONE

\* Every dispatch and every save comes to an end: no worker waits for ever for a
\* translation page.
WorkReturns ==
    \A w \in Workers : Roomy /\ wt[w].pc # "idle" ~> wt[w].pc = "idle" \/ ~Roomy
=============================================================================
