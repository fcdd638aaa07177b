----------------------------- MODULE AmuProofs -----------------------------
(***************************************************************************)
(* The translation page cache and the mapping it serves, for any number of *)
(* workers, translation pages and flash pages.                             *)
(*                                                                         *)
(* A leaf is given to Zenon, unless it says SMT or PTL.                    *)
(***************************************************************************)
EXTENDS Amu, WellFoundedInduction, TLAPS

\* A page of the cache, the transactions of a call and the state of a worker.
Fields == {"mvpn", "in_tree", "dirty", "pin", "owner", "waiters", "entries"}
IsPage(x) ==
    /\ x = [s \in Fields |-> x[s]]
    /\ x.mvpn \in Mvpns \cup {NONE} /\ (x.in_tree => x.mvpn # NONE)
    /\ x.pin \in Nat
    /\ x.entries = [s \in Slots |-> x.entries[s]]

IsTxns(ts) ==
    /\ ts \in Seq({ts[k] : k \in 1..Len(ts)})
    /\ \A k \in 1..Len(ts) : /\ ts[k] = [s \in {"type", "lpa", "bitmap", "data", "ppa"} |-> ts[k][s]]
                             /\ ts[k].lpa \in Lpas

IsCall(r) ==
    /\ r = [s \in {"pc", "ret", "txns", "i", "frame", "mvpn"} |-> r[s]]
    /\ r.mvpn \in Int /\ (r.pc \notin {"idle", "scan"} => r.mvpn \in Mvpns)
    /\ r.i \in Nat \ {0}
    /\ IsTxns(r.txns)

\* Where a worker works on a page, and where it has one in its hands at all.
Working == {"locked", "read_xpg", "update_read", "save_flush"}
WithPage == Working \cup {"lock_wait", "evict_flush"}

\* A list of frames without repetition.
Distinct(s) == s \in Seq(Frames) /\ \A j, k \in DOMAIN s : s[j] = s[k] => j = k

\* The types of the cache and of the workers.
Types ==
    /\ xpgs = [f \in Frames |-> xpgs[f]] /\ \A f \in Frames : IsPage(xpgs[f])
    /\ wt = [w \in Workers |-> wt[w]] /\ \A w \in Workers : IsCall(wt[w])

\* What holds of the page of worker w, whatever fails.
Hand(w) ==
    LET x == xpgs[wt[w].frame]
    IN  /\ wt[w].pc \in WithPage => wt[w].frame \in Frames /\ x.mvpn # NONE
        /\ wt[w].pc = "evict_flush" => ~x.in_tree /\ x.pin = 0 /\ wt[w].frame \notin Range(lru)
        /\ wt[w].pc = "read_xpg" => x.owner = w /\ x.pin > 0

\* Nobody else has the page that w flushes after its eviction, or works on the
\* one it reads.
Alone(v, w) ==
    wt[v].frame = wt[w].frame =>
        /\ wt[v].pc = "evict_flush" /\ wt[w].pc = "evict_flush" => v = w
        /\ wt[v].pc = "read_xpg" /\ wt[w].pc \in Working => v = w

\* What holds of the LRU list and of the pages in hand, whatever fails.
Lists ==
    /\ Distinct(lru)
    /\ \A f \in Range(lru) : xpgs[f].pin = 0 /\ xpgs[f].mvpn # NONE
    /\ \A w \in Workers : Hand(w)
    /\ \A v, w \in Workers : Alone(v, w)

\* Before the first eviction, and if no flash operation on a translation page
\* fails: worker w works on the page it looked up, and owns its mutex.
Held(w) ==
    LET x == xpgs[wt[w].frame]
    IN  /\ wt[w].pc \notin {"evict_flush", "assert"}
        /\ wt[w].pc \in WithPage => x.in_tree /\ x.mvpn = wt[w].mvpn
        /\ wt[w].pc \in Working => x.owner = w
        /\ wt[w].pc = "read_xpg" => gtd[wt[w].mvpn] # NONE

\* The pins of a page are the owner of its mutex and those that wait for it.
Counted(x) ==
    /\ x.waiters \in Seq(Workers)
    /\ x.pin = Len(x.waiters) + (IF x.owner = NONE THEN 0 ELSE 1)

\* The pages of the cache; the LRU list has those that nobody has pinned.
Pages ==
    /\ \A w \in Workers : Held(w)
    /\ \A f \in Frames : Counted(xpgs[f]) /\ (f \in Range(lru) <=> xpgs[f].in_tree /\ xpgs[f].pin = 0)
    /\ CachedOnce

\* The directory, and what the flash pages hold as translation pages.
FlashOK ==
    /\ used \subseteq Ppas
    /\ gtd \in [Mvpns -> used \cup {NONE}]
    /\ table = [p \in Ppas |-> table[p]] /\ \A p \in Ppas : table[p] = [s \in Slots |-> table[p][s]]

\* Worker w walks the tree for amu_save_domain, undisturbed: behind it all is clean.
Saver(w) ==
    /\ \A v \in Workers : wt[v] # Idle => v = w
    /\ wt[w].pc \in {"scan", "lock_wait", "locked", "save_flush"}
    /\ wt[w].pc # "scan" => wt[w].ret = "save"
    /\ \A f \in Frames : xpgs[f].in_tree /\ xpgs[f].mvpn <= wt[w].mvpn /\ xpgs[f].dirty =>
          xpgs[f].mvpn = wt[w].mvpn /\ wt[w].pc # "scan"

\* A save that no request disturbed leaves the directory and every page on flash.
Saves ==
    /\ saved = "saving" => \A w \in Workers : wt[w] # Idle => Saver(w)
    /\ saved = "saved" => /\ gtd_file = gtd /\ \A w \in Workers : wt[w] = Idle
                          /\ \A f \in Frames : xpgs[f].in_tree => ~xpgs[f].dirty

\* What is mapped where.
Mapping == FlashOK /\ CleanMatchesFlash /\ NoAliasing /\ Saves

\* The inductive invariant.
Inv == setup \in Setups /\ Types /\ Lists /\ (Roomy => Pages /\ Mapping)

USE ZenonT(60)

----------------------------------------------------------------------------
(* Lists and numbers                                                       *)

\* A set of numbers has a least one.
LEMMA LeastOfNat ==
    ASSUME NEW S \in SUBSET Nat, S # {} PROVE \E x \in S : \A y \in S : x <= y
<1>1. PICK x \in S : \A y \in S : ~(<<y, x>> \in OpToRel(<, Nat))
  BY NatLessThanWellFounded, WFMin
<1>2. \A y \in S : ~(y < x)
  BY <1>1 DEF OpToRel
<1>3. \A y \in S : x <= y
  BY SMT, <1>2
<1> QED BY <1>3

\* Min picks a member.
LEMMA MinOfNat ==
    ASSUME NEW S \in SUBSET Nat, S # {} PROVE Min(S) \in S
<1>1. \E x \in S : \A y \in S : x <= y
  BY LeastOfNat
<1> QED BY <1>1 DEF Min

\* bm_alloc_page hands out a new flash page.
LEMMA FreshPage == ASSUME Fresh # {} PROVE Min(Fresh) \in Ppas /\ Min(Fresh) \notin used
<1>1. Fresh \in SUBSET Nat
  BY AmuAssumption DEF Fresh
<1>2. Min(Fresh) \in Fresh
  BY <1>1, MinOfNat
<1> QED BY <1>2 DEF Fresh

\* list_del takes one page off the list.
LEMMA UnlinkedDistinct ==
    ASSUME NEW s, Distinct(s), NEW f
    PROVE  Distinct(Unlinked(s, f)) /\ Range(Unlinked(s, f)) = Range(s) \ {f}
<1>1. CASE f \notin Range(s)
  BY <1>1 DEF Unlinked
<1>2. CASE f \in Range(s)
  <2> DEFINE n == CHOOSE i \in DOMAIN s : s[i] = f
             at(k) == IF k < n THEN k ELSE k + 1
             r == Unlinked(s, f)
  <2>1. s \in Seq(Frames) /\ Len(s) \in Nat /\ DOMAIN s = 1..Len(s)
    BY SMT DEF Distinct
  <2>2. n \in 1..Len(s) /\ s[n] = f
    BY <1>2, <2>1 DEF Range
  <2>3. r = [k \in 1..(Len(s) - 1) |-> s[at(k)]]
    BY <1>2 DEF Unlinked
  <2> HIDE DEF n, r
  <2>4. \A k \in 1..(Len(s) - 1) : at(k) \in 1..Len(s) /\ at(k) # n
    BY SMT, <2>1, <2>2
  <2>5. \A j, k \in 1..(Len(s) - 1) : at(j) = at(k) => j = k
    BY SMT, <2>1, <2>2
  <2>6. \A k \in 1..Len(s) : k # n => \E j \in 1..(Len(s) - 1) : at(j) = k
    <3> SUFFICES ASSUME NEW k \in 1..Len(s), k # n
                 PROVE  \E j \in 1..(Len(s) - 1) : at(j) = k
      OBVIOUS
    <3>1. CASE k < n
      <4>1. k \in 1..(Len(s) - 1) /\ at(k) = k
        BY SMT, <2>1, <2>2, <3>1
      <4> QED BY <4>1
    <3>2. CASE k > n
      <4>1. k - 1 \in 1..(Len(s) - 1) /\ at(k - 1) = k
        BY SMT, <2>1, <2>2, <3>2
      <4> QED BY <4>1
    <3> QED BY SMT, <2>1, <2>2, <3>1, <3>2
  <2> HIDE DEF at
  <2>7. Distinct(r)
    <3>1. r \in Seq(Frames)
      BY SMT, <2>1, <2>3, <2>4
    <3> QED BY SMT, <2>1, <2>3, <2>4, <2>5, <3>1 DEF Distinct
  <2>8. Range(r) = Range(s) \ {f}
    <3>1. \A k \in 1..Len(s) : s[k] = f => k = n
      BY <2>1, <2>2 DEF Distinct
    <3>2. ASSUME NEW g \in Range(r) PROVE g \in Range(s) \ {f}
      BY <2>1, <2>3, <2>4, <3>1 DEF Range
    <3>3. ASSUME NEW g \in Range(s) \ {f} PROVE g \in Range(r)
      <4>1. PICK k \in 1..Len(s) : s[k] = g /\ k # n
        BY <2>1, <2>2 DEF Range
      <4>2. PICK j \in 1..(Len(s) - 1) : at(j) = k
        BY <2>6, <4>1
      <4> QED BY <2>3, <4>1, <4>2 DEF Range
    <3> QED BY <3>2, <3>3
  <2> QED BY <2>7, <2>8 DEF r
<1> QED BY <1>1, <1>2

\* list_add puts a page at the head.
LEMMA ConsDistinct ==
    ASSUME NEW s, Distinct(s), NEW f \in Frames, f \notin Range(s)
    PROVE  Distinct(<<f>> \o s) /\ Range(<<f>> \o s) = Range(s) \cup {f}
<1> DEFINE r == <<f>> \o s
<1>1. s \in Seq(Frames) /\ Len(s) \in Nat
  BY SMT DEF Distinct
<1>2. /\ r \in Seq(Frames) /\ Len(r) = Len(s) + 1 /\ r[1] = f
      /\ \A k \in 1..Len(s) : r[k + 1] = s[k]
  BY SMT, <1>1
<1>3. \A k \in 1..Len(r) : k # 1 => k - 1 \in 1..Len(s) /\ r[k] = s[k - 1]
  BY SMT, <1>1, <1>2
<1> HIDE DEF r
<1>4. Range(r) = Range(s) \cup {f}
  <2>1. ASSUME NEW g \in Range(s) PROVE g \in Range(r)
    <3>1. PICK k \in 1..Len(s) : s[k] = g
      BY SMT, <1>1 DEF Range
    <3>2. k + 1 \in 1..Len(r)
      BY SMT, <1>1, <1>2
    <3> QED BY SMT, <1>2, <3>1, <3>2 DEF Range
  <2>2. f \in Range(r)
    BY SMT, <1>1, <1>2 DEF Range
  <2>3. ASSUME NEW g \in Range(r) PROVE g \in Range(s) \cup {f}
    BY SMT, <1>1, <1>2, <1>3 DEF Range
  <2> QED BY <2>1, <2>2, <2>3
<1>5. Distinct(r)
  BY SMT, <1>1, <1>2, <1>3 DEF Distinct, Range
<1> QED BY <1>4, <1>5 DEF r

\* The LRU list is a list of frames.
LEMMA OnFrames == ASSUME NEW s, Distinct(s) PROVE Range(s) \subseteq Frames
<1>1. s \in Seq(Frames) /\ DOMAIN s = 1..Len(s)
  BY SMT DEF Distinct
<1> QED BY SMT, <1>1 DEF Range

\* xpc_evict picks the page at the end of the list.
LEMMA LastOnList == ASSUME NEW s, Distinct(s), s # <<>> PROVE s[Len(s)] \in Range(s)
<1>1. s \in Seq(Frames) /\ Len(s) \in 1..Len(s) /\ DOMAIN s = 1..Len(s)
  BY SMT DEF Distinct
<1> QED BY <1>1 DEF Range

----------------------------------------------------------------------------
(* The LRU list, whatever fails                                            *)

\* A step changes the record of worker w, the page of frame f.
Moved(w, rec) == \A v \in Workers : wt'[v] = IF v = w THEN rec ELSE wt[v]
Put(f, z) == \A g \in Frames : xpgs'[g] = IF g = f THEN z ELSE xpgs[g]

\* The types survive a step that moves one worker.
LEMMA MoveTypes ==
    ASSUME Types, NEW w \in Workers, NEW rec, IsCall(rec), wt' = [wt EXCEPT ![w] = rec],
           UNCHANGED xpgs
    PROVE  Types' /\ Moved(w, rec)
BY DEF Types, Moved

\* And one that also writes one page.
LEMMA PutTypes ==
    ASSUME Types, NEW w \in Workers, NEW rec, IsCall(rec), wt' = [wt EXCEPT ![w] = rec],
           NEW f \in Frames, NEW z, IsPage(z), xpgs' = [xpgs EXCEPT ![f] = z]
    PROVE  Types' /\ Moved(w, rec) /\ Put(f, z)
BY DEF Types, Moved, Put

\* A worker moves on without touching the page cache, to a point where it has no
\* page or with the one it has.
LEMMA MoveLists ==
    ASSUME Lists, NEW w \in Workers, NEW rec, Moved(w, rec), UNCHANGED <<xpgs, lru>>,
           \/ rec.pc \notin WithPage
           \/ /\ rec.frame = wt[w].frame
              /\ rec.pc \in {"locked", "update_read", "save_flush"}
              /\ wt[w].pc \in Working \/ (wt[w].pc = "lock_wait" /\ xpgs[wt[w].frame].owner = w)
    PROVE  Lists'
<1>1. \A v \in Workers : Hand(v)'
  BY SMT DEF Lists, Hand, Moved, WithPage, Working
<1>2. \A v, u \in Workers : Alone(v, u)'
  BY SMT DEF Lists, Hand, Alone, Moved, WithPage, Working
<1> QED BY <1>1, <1>2 DEF Lists, Distinct

\* xpc_pin and mutex_lock.
LEMMA PinLists ==
    ASSUME Types, Lists, NEW w \in Workers, NEW f \in Frames, xpgs[f].in_tree,
           NEW rec, Moved(w, rec), NEW z, Put(f, z), rec.frame = f,
           (rec.pc = "locked" /\ xpgs[f].owner = NONE) \/ rec.pc = "lock_wait",
           z.mvpn = xpgs[f].mvpn, z.in_tree, z.pin = xpgs[f].pin + 1,
           xpgs[f].owner = NONE \/ z.owner = xpgs[f].owner,
           lru' = LruPin(f)
    PROVE  Lists'
<1>1. IsPage(xpgs[f]) /\ NONE \notin Workers
  BY AmuAssumption DEF Types
<1>2. Distinct(lru') /\ Range(lru') = Range(lru) \ {f}
  BY SMT, UnlinkedDistinct DEF Lists, LruPin
<1>3. \A g \in Range(lru') : xpgs'[g].pin = 0 /\ xpgs'[g].mvpn # NONE
  BY SMT, <1>2, OnFrames DEF Lists, Put
<1>4. \A v \in Workers : Hand(v)'
  BY SMT, <1>1, <1>2 DEF Lists, Hand, Moved, Put, WithPage, Working, IsPage
<1>5. \A v, u \in Workers : Alone(v, u)'
  BY SMT, <1>1 DEF Lists, Hand, Alone, Moved, WithPage, Working
<1> QED BY <1>2, <1>3, <1>4, <1>5 DEF Lists

\* mutex_unlock and xpc_unpin, by a worker that works on the page.
LEMMA ReleaseLists ==
    ASSUME Types, Lists, NEW w \in Workers, NEW f \in Frames, wt[w].frame = f,
           wt[w].pc \in Working, xpgs[f].pin > 0,
           NEW rec, Moved(w, rec), NEW z, Put(f, z),
           rec.pc \notin WithPage \/ (rec.pc = "locked" /\ rec.frame = f),
           z.mvpn = xpgs[f].mvpn, z.pin = xpgs[f].pin - 1,
           z.in_tree => xpgs[f].in_tree,
           lru' = LruUnpin(f)
    PROVE  Lists'
<1>1. IsPage(xpgs[f])
  BY DEF Types
<1>2. f \notin Range(lru)
  BY SMT, <1>1 DEF Lists, IsPage
<1>3. /\ Distinct(lru')
      /\ Range(lru') = IF xpgs[f].pin = 1 THEN Range(lru) \cup {f} ELSE Range(lru)
  BY <1>2, ConsDistinct DEF Lists, LruUnpin
<1>4. \A g \in Range(lru') : xpgs'[g].pin = 0 /\ xpgs'[g].mvpn # NONE
  BY SMT, <1>1, <1>3, OnFrames DEF Lists, Put, Hand, WithPage, IsPage
<1>5. \A v \in Workers : Hand(v)'
  BY SMT, <1>1, <1>3 DEF Lists, Hand, Alone, Moved, Put, WithPage, Working, IsPage
<1>6. \A v, u \in Workers : Alone(v, u)'
  BY SMT DEF Lists, Alone, Moved, WithPage, Working
<1> QED BY <1>3, <1>4, <1>5, <1>6 DEF Lists

\* xpc_add: a page in new memory.
LEMMA AddLists ==
    ASSUME Types, Lists, NEW w \in Workers, NEW f \in Frames, xpgs[f].mvpn = NONE,
           NEW rec, Moved(w, rec), NEW z, Put(f, z),
           rec.pc \in {"locked", "read_xpg"}, rec.frame = f,
           z.mvpn # NONE, z.pin = 1, z.owner = w, UNCHANGED lru
    PROVE  Lists'
<1>1. \A v \in Workers : wt[v].pc \in WithPage => wt[v].frame # f
  BY DEF Lists, Hand
<1>2. \A g \in Range(lru') : xpgs'[g].pin = 0 /\ xpgs'[g].mvpn # NONE
  BY OnFrames DEF Lists, Put
<1>3. \A v \in Workers : Hand(v)'
  BY SMT, <1>1 DEF Lists, Hand, Moved, Put, WithPage, Working
<1>4. \A v, u \in Workers : Alone(v, u)'
  BY SMT, <1>1 DEF Lists, Alone, Moved, WithPage, Working
<1> QED BY <1>2, <1>3, <1>4 DEF Lists, Distinct

\* xpc_read_page fills the page.
LEMMA ReadLists ==
    ASSUME Types, Lists, NEW w \in Workers, NEW f \in Frames, wt[w].frame = f,
           wt[w].pc = "read_xpg", NEW rec, Moved(w, rec), NEW z, Put(f, z),
           rec.pc = "locked", rec.frame = f,
           z.mvpn = xpgs[f].mvpn, z.pin = xpgs[f].pin, z.owner = xpgs[f].owner,
           z.in_tree = xpgs[f].in_tree, UNCHANGED lru
    PROVE  Lists'
<1>1. \A g \in Range(lru') : xpgs'[g].pin = 0 /\ xpgs'[g].mvpn # NONE
  BY SMT, OnFrames DEF Lists, Put
<1>2. \A v \in Workers : Hand(v)'
  BY SMT DEF Lists, Hand, Moved, Put, WithPage, Working
<1>3. \A v, u \in Workers : Alone(v, u)'
  BY SMT DEF Lists, Alone, Moved, WithPage, Working
<1> QED BY <1>1, <1>2, <1>3 DEF Lists, Distinct

\* An evicted page is used for another mvpn, at once or after its flush.
LEMMA ReuseLists ==
    ASSUME Types, Lists, NEW w \in Workers, NEW f \in Frames, xpgs[f].pin = 0,
           NEW rec, Moved(w, rec), NEW z, Put(f, z), rec.pc = "locked", rec.frame = f,
           z.mvpn # NONE, z.pin = 1,
           Distinct(lru'), Range(lru') \subseteq Range(lru) \ {f},
           \A v \in Workers \ {w} : wt[v].pc = "evict_flush" => wt[v].frame # f
    PROVE  Lists'
<1>1. \A g \in Range(lru') : xpgs'[g].pin = 0 /\ xpgs'[g].mvpn # NONE
  BY SMT, OnFrames DEF Lists, Put
<1>2. \A v \in Workers : Hand(v)'
  BY SMT DEF Lists, Hand, Moved, Put, WithPage, Working
<1>3. \A v, u \in Workers : Alone(v, u)'
  BY SMT DEF Lists, Hand, Alone, Moved, WithPage, Working
<1> QED BY <1>1, <1>2, <1>3 DEF Lists

\* xpc_evict of a dirty page.
LEMMA EvictLists ==
    ASSUME Types, Lists, NEW w \in Workers, NEW f \in Range(lru),
           NEW rec, Moved(w, rec), NEW z, Put(f, z), rec.pc = "evict_flush", rec.frame = f,
           z.mvpn = xpgs[f].mvpn, z.pin = xpgs[f].pin, ~z.in_tree, lru' = Unlinked(lru, f)
    PROVE  Lists'
<1>1. Distinct(lru') /\ Range(lru') = Range(lru) \ {f} /\ Range(lru) \subseteq Frames
  BY UnlinkedDistinct, OnFrames DEF Lists
<1>2. \A g \in Range(lru') : xpgs'[g].pin = 0 /\ xpgs'[g].mvpn # NONE
  BY <1>1 DEF Lists, Put
<1>3. \A v \in Workers : Hand(v)'
  BY SMT, <1>1 DEF Lists, Hand, Moved, Put, WithPage, Working
<1>4. \A v, u \in Workers : Alone(v, u)'
  BY SMT, <1>1 DEF Lists, Hand, Alone, Moved, WithPage, Working
<1> QED BY <1>1, <1>2, <1>3, <1>4 DEF Lists

----------------------------------------------------------------------------
(* What a step leaves of the records                                       *)

\* The record of a worker between two calls.
LEMMA CallIdle ==
    /\ IsCall(Idle) /\ Idle.pc = "idle"
    /\ IsCall([Idle EXCEPT !.pc = "scan"]) /\ [Idle EXCEPT !.pc = "scan"].pc = "scan"
    /\ [Idle EXCEPT !.pc = "scan"].mvpn = -1
<1>1. IsTxns(<<>>)
  BY SMT DEF IsTxns
<1> QED BY SMT, <1>1 DEF IsCall, Idle

\* mutex_unlock and xpc_unpin change the lock and the pin count only.
LEMMA ReleasedPage ==
    ASSUME NEW x, IsPage(x), x.pin > 0, NEW w
    PROVE  LET y == Released(x, w)
           IN  /\ IsPage(y) /\ y.pin = x.pin - 1 /\ y.mvpn = x.mvpn /\ y.in_tree = x.in_tree
               /\ y.dirty = x.dirty /\ y.entries = x.entries
<1> DEFINE u == Unlocked(x, w)
<1>1. /\ u = [s \in Fields |-> u[s]] /\ u.pin = x.pin /\ u.mvpn = x.mvpn
      /\ u.in_tree = x.in_tree /\ u.dirty = x.dirty /\ u.entries = x.entries
  BY DEF IsPage, Fields, Unlocked
<1> HIDE DEF u
<1> DEFINE y == [u EXCEPT !.pin = @ - 1]
<1>2. /\ y = [s \in Fields |-> y[s]] /\ y.pin = x.pin - 1 /\ y.mvpn = x.mvpn
      /\ y.in_tree = x.in_tree /\ y.dirty = x.dirty /\ y.entries = x.entries
  BY <1>1 DEF Fields
<1>3. Released(x, w) = y
  BY DEF Released, u
<1> HIDE DEF y
<1> QED BY SMT, <1>2, <1>3 DEF IsPage

----------------------------------------------------------------------------
(* The pages of a roomy cache                                              *)

\* The page in frame g stays what it is.
Same(g) ==
    /\ xpgs'[g].mvpn = xpgs[g].mvpn /\ xpgs'[g].in_tree = xpgs[g].in_tree
    /\ xpgs'[g].dirty = xpgs[g].dirty /\ xpgs'[g].entries = xpgs[g].entries

\* As long as every frame keeps its mvpn, a translation page is cached once.
LEMMA SameCached ==
    ASSUME \A g \in Frames : xpgs'[g].mvpn = xpgs[g].mvpn /\ xpgs'[g].in_tree = xpgs[g].in_tree,
           UNCHANGED <<setup, evicted>>, CachedOnce
    PROVE  CachedOnce'
BY DEF CachedOnce, Roomy

\* A worker moves on without touching the page cache.
LEMMA MovePages ==
    ASSUME Pages, NEW w \in Workers, NEW rec, Moved(w, rec), rec.pc \notin {"evict_flush", "assert"},
           UNCHANGED <<xpgs, lru, setup, evicted, gtd>>,
           \/ rec.pc \notin WithPage
           \/ /\ rec.frame = wt[w].frame /\ rec.mvpn = wt[w].mvpn
              /\ rec.pc \in {"locked", "update_read", "save_flush"}
              /\ wt[w].pc \in Working \/ (wt[w].pc = "lock_wait" /\ xpgs[wt[w].frame].owner = w)
    PROVE  Pages'
<1>1. \A v \in Workers : Held(v)'
  BY SMT DEF Pages, Held, Moved, WithPage, Working
<1>2. CachedOnce'
  BY SameCached DEF Pages
<1> QED BY <1>1, <1>2 DEF Pages, Counted

\* The workers that a change of one page leaves alone.
LEMMA HeldByOthers ==
    ASSUME Types, Lists, Pages, NEW w \in Workers, NEW f \in Frames, NEW rec, Moved(w, rec),
           NEW z, Put(f, z), z.mvpn = xpgs[f].mvpn, z.in_tree = xpgs[f].in_tree,
           \A v \in Workers \ {w} :
              wt[v].pc \in Working /\ wt[v].frame = f => z.owner = xpgs[f].owner,
           \A m \in Mvpns : gtd[m] # NONE => gtd'[m] # NONE
    PROVE  \A v \in Workers \ {w} : Held(v)'
<1> TAKE v \in Workers \ {w}
<1>1. wt'[v] = wt[v] /\ Hand(v) /\ Held(v) /\ IsCall(wt[v])
  BY DEF Moved, Lists, Pages, Types
<1>2. CASE wt[v].pc \notin WithPage
  BY <1>1, <1>2 DEF Held, WithPage, Working
<1>3. CASE wt[v].pc \in WithPage
  <2>1. wt[v].frame \in Frames /\ wt[v].mvpn \in Mvpns
    BY <1>1, <1>3 DEF Hand, IsCall, WithPage, Working
  <2>2. /\ xpgs'[wt[v].frame].mvpn = xpgs[wt[v].frame].mvpn
        /\ xpgs'[wt[v].frame].in_tree = xpgs[wt[v].frame].in_tree
        /\ wt[v].pc \in Working => xpgs'[wt[v].frame].owner = xpgs[wt[v].frame].owner
    BY <2>1 DEF Put
  <2> QED BY SMT, <1>1, <2>1, <2>2 DEF Held
<1> QED BY <1>2, <1>3

\* xpc_pin and mutex_lock: the new pin is the owner or one more in the queue.
LEMMA PinPages ==
    ASSUME Types, Lists, Pages, NEW w \in Workers, NEW f \in Frames, xpgs[f].in_tree,
           NEW rec, Moved(w, rec), NEW z, Put(f, z), rec.frame = f, rec.mvpn = xpgs[f].mvpn,
           (rec.pc = "locked" /\ z.owner = w) \/ rec.pc = "lock_wait",
           z.mvpn = xpgs[f].mvpn, z.in_tree = xpgs[f].in_tree, z.pin = xpgs[f].pin + 1,
           xpgs[f].owner = NONE \/ z.owner = xpgs[f].owner, Counted(z),
           lru' = LruPin(f), UNCHANGED <<setup, evicted, gtd>>
    PROVE  Pages'
<1>1. IsPage(xpgs[f]) /\ NONE \notin Workers
  BY AmuAssumption DEF Types
<1>2. Range(lru') = Range(lru) \ {f}
  BY SMT, UnlinkedDistinct DEF Lists, LruPin
<1>3. \A v \in Workers : Held(v)'
  <2>1. \A v \in Workers : wt[v].pc \in Working => xpgs[wt[v].frame].owner = v
    BY DEF Pages, Held
  <2>2. \A v \in Workers \ {w} : Held(v)'
    <3>1. \A v \in Workers \ {w} :
             wt[v].pc \in Working /\ wt[v].frame = f => z.owner = xpgs[f].owner
      BY SMT, <1>1, <2>1
    <3>2. \A m \in Mvpns : gtd[m] # NONE => gtd'[m] # NONE
      OBVIOUS
    <3> QED BY <3>1, <3>2, HeldByOthers
  <2>3. Held(w)'
    BY DEF Held, Moved, Put, WithPage, Working
  <2> QED BY <2>2, <2>3
<1>4. \A g \in Frames :
         Counted(xpgs'[g]) /\ (g \in Range(lru') <=> xpgs'[g].in_tree /\ xpgs'[g].pin = 0)
  BY SMT, <1>1, <1>2 DEF Pages, Put, IsPage
<1>5. CachedOnce'
  BY SameCached DEF Pages, Put
<1> QED BY SMT, <1>3, <1>4, <1>5 DEF Pages

\* mutex_unlock and xpc_unpin: the mutex goes to the first that waits, and the page
\* back on the LRU list with the last pin.
LEMMA ReleasePages ==
    ASSUME Types, Lists, Pages, NEW w \in Workers, NEW f \in Frames, wt[w].frame = f,
           wt[w].pc \in Working, NEW rec, Moved(w, rec), NEW z, Put(f, z),
           rec.pc \notin WithPage, rec.pc # "assert",
           z.mvpn = xpgs[f].mvpn, z.in_tree = xpgs[f].in_tree, z.pin = xpgs[f].pin - 1,
           Counted(z), lru' = LruUnpin(f), UNCHANGED <<setup, evicted>>,
           \A m \in Mvpns : gtd[m] # NONE => gtd'[m] # NONE
    PROVE  Pages'
<1>1. IsPage(xpgs[f]) /\ xpgs[f].in_tree /\ xpgs[f].pin > 0 /\ xpgs[f].owner = w
  <2>1. IsPage(xpgs[f]) /\ Counted(xpgs[f]) /\ w # NONE
    BY AmuAssumption DEF Types, Pages
  <2>2. xpgs[f].in_tree /\ xpgs[f].owner = w
    BY DEF Pages, Held, WithPage
  <2> QED BY SMT, <2>1, <2>2 DEF Counted
<1>2. f \notin Range(lru)
  BY SMT, <1>1 DEF Lists, IsPage
<1>3. Range(lru') = IF xpgs[f].pin = 1 THEN Range(lru) \cup {f} ELSE Range(lru)
  BY <1>2, ConsDistinct DEF Lists, LruUnpin
<1>4. \A v \in Workers : Held(v)'
  <2>1. \A v \in Workers : wt[v].pc \in Working => xpgs[wt[v].frame].owner = v
    BY DEF Pages, Held
  <2>2. \A v \in Workers \ {w} : Held(v)'
    <3>1. \A v \in Workers \ {w} :
             wt[v].pc \in Working /\ wt[v].frame = f => z.owner = xpgs[f].owner
      BY SMT, <1>1, <2>1
    <3>2. \A m \in Mvpns : gtd[m] # NONE => gtd'[m] # NONE
      OBVIOUS
    <3> QED BY SMT, <3>1, <3>2, HeldByOthers
  <2>3. Held(w)'
    BY DEF Held, Moved, WithPage, Working
  <2> QED BY SMT, <2>2, <2>3
<1>5. \A g \in Frames :
         Counted(xpgs'[g]) /\ (g \in Range(lru') <=> xpgs'[g].in_tree /\ xpgs'[g].pin = 0)
  <2>1. xpgs[f].pin = 1 <=> z.pin = 0
    BY SMT, <1>1 DEF IsPage
  <2>2. ASSUME NEW g \in Frames, g # f
        PROVE  xpgs'[g] = xpgs[g] /\ (g \in Range(lru') <=> g \in Range(lru))
    BY SMT, <1>3, <2>2 DEF Put
  <2>3. xpgs'[f] = z /\ (f \in Range(lru') <=> xpgs[f].pin = 1)
    BY <1>2, <1>3 DEF Put
  <2> QED BY <1>1, <2>1, <2>2, <2>3 DEF Pages
<1>6. CachedOnce'
  BY SameCached DEF Pages, Put
<1> QED BY SMT, <1>4, <1>5, <1>6 DEF Pages

\* xpc_add: the page looked up and not found is cached now, once.
LEMMA AddPages ==
    ASSUME Types, Lists, Pages, Roomy, NEW w \in Workers, NEW f \in Frames, xpgs[f].mvpn = NONE,
           NEW rec, Moved(w, rec), NEW z, Put(f, z), NEW m \in Mvpns, Found(m) = {},
           rec.pc = "locked" \/ (rec.pc = "read_xpg" /\ gtd[m] # NONE), rec.frame = f, rec.mvpn = m,
           z.mvpn = m, z.in_tree, z.pin = 1, z.owner = w, z.waiters = <<>>,
           UNCHANGED <<lru, setup, evicted, gtd>>
    PROVE  Pages'
<1>1. /\ IsPage(xpgs[f]) /\ ~xpgs[f].in_tree
      /\ \A v \in Workers : wt[v].pc \in WithPage => wt[v].frame # f
  <2>1. IsPage(xpgs[f]) /\ NONE \notin Mvpns
    BY AmuAssumption DEF Types
  <2>2. ~xpgs[f].in_tree
    BY <2>1 DEF IsPage
  <2>3. \A v \in Workers : wt[v].pc \in WithPage => wt[v].frame # f
    BY DEF Lists, Hand
  <2> QED BY <2>1, <2>2, <2>3
<1>2. \A v \in Workers : Held(v)'
  BY SMT, <1>1 DEF Lists, Hand, Pages, Held, Moved, Put, WithPage, Working
<1>3. Counted(z)
  BY SMT, AmuAssumption DEF Counted
<1>4. \A g \in Frames :
         Counted(xpgs'[g]) /\ (g \in Range(lru') <=> xpgs'[g].in_tree /\ xpgs'[g].pin = 0)
  BY SMT, <1>1, <1>3 DEF Pages, Put
<1>5. \A g \in Frames : xpgs[g].in_tree => xpgs[g].mvpn # m
  BY DEF Found
<1>6. CachedOnce'
  BY SMT, <1>5 DEF Pages, CachedOnce, Put
<1> QED BY SMT, <1>2, <1>4, <1>6 DEF Pages

\* xpc_read_page leaves the lock and the pins alone.
LEMMA ReadPages ==
    ASSUME Types, Lists, Pages, NEW w \in Workers, NEW f \in Frames, wt[w].frame = f,
           wt[w].pc = "read_xpg", NEW rec, Moved(w, rec), NEW z, Put(f, z),
           rec.pc = "locked", rec.frame = f, rec.mvpn = wt[w].mvpn,
           z.mvpn = xpgs[f].mvpn, z.pin = xpgs[f].pin, z.owner = xpgs[f].owner,
           z.waiters = xpgs[f].waiters, z.in_tree = xpgs[f].in_tree,
           UNCHANGED <<lru, setup, evicted, gtd>>
    PROVE  Pages'
<1>1. \A v \in Workers : Held(v)'
  <2>1. \A v \in Workers \ {w} : Held(v)'
    BY HeldByOthers
  <2>2. Held(w)'
    BY SMT DEF Pages, Held, Moved, Put, WithPage, Working
  <2> QED BY <2>1, <2>2
<1>2. Counted(z)
  BY DEF Pages, Counted
<1>3. \A g \in Frames :
         Counted(xpgs'[g]) /\ (g \in Range(lru') <=> xpgs'[g].in_tree /\ xpgs'[g].pin = 0)
  BY SMT, <1>2 DEF Pages, Put
<1>4. CachedOnce'
  BY SameCached DEF Pages, Put
<1> QED BY <1>1, <1>3, <1>4 DEF Pages

----------------------------------------------------------------------------
(* The mapping of a roomy cache                                            *)

\* The frames being read from flash.
Busy == {f \in Frames : Loading(f)}

\* With pages xs, of which those in busy are being read, frame f has the loaded
\* translation page of l.
Loads(xs, busy, f, l) == f \in Frames /\ xs[f].in_tree /\ xs[f].mvpn = l[1] /\ f \notin busy
\* Where a directory and the translation pages on flash send l.
Stored(dir, tb, l) == IF dir[l[1]] # NONE THEN tb[dir[l[1]]][l[2]] ELSE NONE

\* Before and after a step, MappedPpa is what the page loaded says, or else what
\* the directory says.
LEMMA MappedCached ==
    ASSUME Roomy, NEW l, NEW f
    PROVE  /\ CachedOnce /\ Loads(xpgs, Busy, f, l) => MappedPpa(l) = xpgs[f].entries[l[2]].ppa
           /\ UNCHANGED <<setup, evicted>> /\ CachedOnce' /\ Loads(xpgs', Busy', f, l) =>
                MappedPpa(l)' = xpgs'[f].entries[l[2]].ppa
<1>1. ASSUME CachedOnce, Loads(xpgs, Busy, f, l) PROVE MappedPpa(l) = xpgs[f].entries[l[2]].ppa
  <2> DEFINE loaded == {g \in Frames : xpgs[g].in_tree /\ xpgs[g].mvpn = l[1] /\ ~Loading(g)}
  <2>1. loaded = {f}
    BY <1>1 DEF Loads, CachedOnce, Busy
  <2>2. (CHOOSE g \in loaded : TRUE) = f
    BY <2>1
  <2> HIDE DEF loaded
  <2>3. MappedPpa(l) = xpgs[CHOOSE g \in loaded : TRUE].entries[l[2]].ppa
    BY <2>1 DEF MappedPpa, loaded
  <2> QED BY <2>2, <2>3
<1>2. ASSUME UNCHANGED <<setup, evicted>>, CachedOnce', Loads(xpgs', Busy', f, l)
      PROVE  MappedPpa(l)' = xpgs'[f].entries[l[2]].ppa
  <2> DEFINE loaded == {g \in Frames : xpgs[g].in_tree /\ xpgs[g].mvpn = l[1] /\ ~Loading(g)}
  <2>1. loaded' = {f}
    BY <1>2 DEF Loads, CachedOnce, Roomy, Busy
  <2>2. (CHOOSE g \in loaded' : TRUE) = f
    BY <2>1
  <2> HIDE DEF loaded
  <2>3. MappedPpa(l)' = xpgs'[CHOOSE g \in loaded' : TRUE].entries[l[2]].ppa
    BY <2>1 DEF MappedPpa, loaded
  <2> QED BY <2>2, <2>3
<1> QED BY SMT, <1>1, <1>2

\* Where no page is loaded, the directory decides.
LEMMA MappedStored ==
    ASSUME NEW l
    PROVE  /\ (\A g \in Frames : ~Loads(xpgs, Busy, g, l)) => MappedPpa(l) = Stored(gtd, table, l)
           /\ (\A g \in Frames : ~Loads(xpgs', Busy', g, l)) =>
                MappedPpa(l)' = Stored(gtd', table', l)
<1>1. ASSUME \A g \in Frames : ~Loads(xpgs, Busy, g, l) PROVE MappedPpa(l) = Stored(gtd, table, l)
  BY <1>1 DEF Loads, Busy, Stored, MappedPpa
<1>2. ASSUME \A g \in Frames : ~Loads(xpgs', Busy', g, l)
      PROVE  MappedPpa(l)' = Stored(gtd', table', l)
  BY <1>2 DEF Loads, Busy, Stored, MappedPpa
<1> QED BY <1>1, <1>2

\* The same pages are loaded and send l to the same place; if none is, so does the
\* directory.
LEMMA MappedSame ==
    ASSUME Roomy, UNCHANGED <<setup, evicted>>, CachedOnce, CachedOnce', NEW l,
           \A g \in Frames : /\ Loads(xpgs', Busy', g, l) <=> Loads(xpgs, Busy, g, l)
                             /\ Loads(xpgs, Busy, g, l) =>
                                  xpgs'[g].entries[l[2]].ppa = xpgs[g].entries[l[2]].ppa,
           \/ Stored(gtd', table', l) = Stored(gtd, table, l)
           \/ \E g \in Frames : Loads(xpgs, Busy, g, l)
    PROVE  MappedPpa(l)' = MappedPpa(l)
<1>1. CASE \E g \in Frames : Loads(xpgs, Busy, g, l)
  BY SMT, <1>1, MappedCached
<1>2. CASE \A g \in Frames : ~Loads(xpgs, Busy, g, l)
  BY <1>2, MappedStored
<1> QED BY <1>1, <1>2

\* Logical page l stays where it is.  The translation page that is loaded for it
\* knows of the sectors it knew of; or of all, when it comes from flash; or it is
\* new and has not mapped l yet.
Stays(l) ==
    /\ MappedPpa(l)' = MappedPpa(l)
    /\ \A g \in Frames : Loads(xpgs', Busy', g, l) =>
          \/ /\ Loads(xpgs, Busy, g, l)
             /\ xpgs'[g].entries[l[2]].bitmap = xpgs[g].entries[l[2]].bitmap
          \/ xpgs'[g].entries[l[2]].bitmap = Sectors
          \/ MappedPpa(l) = NONE
Steady == Roomy' => \A l \in Lpas : Stays(l)

\* Logical page k, and no other, goes to flash page p, with sectors b.
Remaps(k, p, b) ==
    \A l \in Lpas :
        IF l # k THEN Stays(l)
        ELSE /\ MappedPpa(l)' = p
             /\ \E f \in Frames :
                   /\ Loads(xpgs, Busy, f, l) /\ MappedPpa(l) = xpgs[f].entries[l[2]].ppa
                   /\ xpgs'[f].entries[l[2]].bitmap = xpgs[f].entries[l[2]].bitmap \cup b
                   /\ \A g \in Frames : Loads(xpgs', Busy', g, l) => g = f

\* Where a worker moves without beginning or ending to read a page.
LEMMA BusySame ==
    ASSUME NEW w \in Workers, NEW rec, Moved(w, rec), wt[w].pc # "read_xpg", rec.pc # "read_xpg"
    PROVE  Busy' = Busy
BY DEF Busy, Loading, Moved

\* Nothing is shared anew when every logical page stays where it is and the
\* directory moves to flash pages that were never used.
LEMMA AliasingKept ==
    ASSUME Roomy, NoAliasing, UNCHANGED <<setup, evicted>>, \A l \in Lpas : MappedPpa(l)' = MappedPpa(l),
           used \subseteq used', \A m \in Mvpns : gtd'[m] = gtd[m] \/ gtd'[m] \notin used
    PROVE  NoAliasing'
BY SMT DEF NoAliasing, Roomy

\* Nothing that the mapping depends on changes.
LEMMA SameMapping ==
    ASSUME Roomy, FlashOK, CleanMatchesFlash, NoAliasing, \A g \in Frames : Same(g), Busy' = Busy,
           CachedOnce, CachedOnce',
           UNCHANGED <<gtd, table, used, setup, evicted>>
    PROVE  FlashOK' /\ CleanMatchesFlash' /\ NoAliasing' /\ \A l \in Lpas : Stays(l)
<1>1. FlashOK'
  BY DEF FlashOK
<1>2. CleanMatchesFlash'
  BY SMT DEF CleanMatchesFlash, Roomy, Same, Busy, OnFlash
<1>3. \A l \in Lpas : MappedPpa(l)' = MappedPpa(l)
  BY MappedSame DEF Loads, Stored, Same
<1>4. NoAliasing'
  BY <1>3, AliasingKept
<1>5. \A l \in Lpas : Stays(l)
  BY <1>3 DEF Stays, Loads, Same
<1> QED BY <1>1, <1>2, <1>4, <1>5

\* A page being read already counts where its directory entry sends l; a new
\* page that is on no flash page maps nothing.
LEMMA AddMapping ==
    ASSUME Types, Lists, Pages, Roomy, FlashOK, CleanMatchesFlash, NoAliasing,
           NEW w \in Workers, NEW f \in Frames, xpgs[f].mvpn = NONE, wt[w].pc = "page",
           NEW rec, Moved(w, rec), NEW z, Put(f, z), NEW m \in Mvpns, Found(m) = {}, Pages',
           rec.frame = f, rec.pc = IF gtd[m] = NONE THEN "locked" ELSE "read_xpg",
           z.mvpn = m, z.in_tree, z.dirty = (gtd[m] = NONE), z.entries = [s \in Slots |-> NoEntry],
           UNCHANGED <<gtd, table, used, setup, evicted>>
    PROVE  FlashOK' /\ CleanMatchesFlash' /\ NoAliasing' /\ \A l \in Lpas : Stays(l)
<1>1. /\ IsPage(xpgs[f]) /\ ~xpgs[f].in_tree
      /\ \A v \in Workers : wt[v].pc \in WithPage => wt[v].frame # f
      /\ \A g \in Frames : xpgs[g].in_tree => xpgs[g].mvpn # m
  BY DEF Types, Lists, Hand, IsPage, Found
<1>2. Busy' = IF gtd[m] = NONE THEN Busy ELSE Busy \cup {f}
  BY SMT DEF Busy, Loading, Moved
<1>3. f \notin Busy
  BY <1>1 DEF Busy, Loading, WithPage, Working
<1>4. FlashOK'
  BY DEF FlashOK
<1>5. CleanMatchesFlash'
  <2>1. \A g \in Frames : Loading(g)' <=> g \in Busy'
    BY DEF Busy
  <2>2. \A g \in Frames : Loading(g) <=> g \in Busy
    BY DEF Busy
  <2>3. xpgs'[f] = z /\ (~z.dirty => Loading(f)')
    BY <1>2, <2>1 DEF Put
  <2>4. \A g \in Frames : g # f => xpgs'[g] = xpgs[g] /\ (Loading(g)' <=> Loading(g))
    BY <1>2, <2>1, <2>2 DEF Put
  <2> QED BY SMT, <2>3, <2>4 DEF CleanMatchesFlash, Roomy
<1>6. ASSUME NEW l \in Lpas PROVE MappedPpa(l)' = MappedPpa(l) /\ Stays(l)
  <2>1. CASE l[1] = m /\ gtd[m] = NONE
    <3>1. \A g \in Frames : ~Loads(xpgs, Busy, g, l)
      BY <1>1, <2>1 DEF Loads
    <3>2. MappedPpa(l) = NONE
      BY <2>1, <3>1, MappedStored DEF Stored
    <3>3. Loads(xpgs', Busy', f, l)
      BY <1>2, <1>3, <2>1 DEF Loads, Put
    <3>5. MappedPpa(l)' = xpgs'[f].entries[l[2]].ppa
      BY SMT, <3>3, MappedCached DEF Pages
    <3>6. l[2] \in Slots
      BY DEF Lpas
    <3>7. MappedPpa(l)' = NONE
      BY SMT, <3>5, <3>6 DEF Put, NoEntry
    <3> QED BY <3>2, <3>7 DEF Stays
  <2>2. CASE ~(l[1] = m /\ gtd[m] = NONE)
    <3>1. ASSUME NEW g \in Frames
          PROVE /\ Loads(xpgs', Busy', g, l) <=> Loads(xpgs, Busy, g, l)
                /\ Loads(xpgs, Busy, g, l) =>
                     xpgs'[g].entries[l[2]].ppa = xpgs[g].entries[l[2]].ppa
      BY SMT, <1>1, <1>2, <2>2 DEF Loads, Put
    <3>2. Stored(gtd', table', l) = Stored(gtd, table, l)
      BY DEF Stored
    <3>3. MappedPpa(l)' = MappedPpa(l)
      BY <3>1, <3>2, MappedSame DEF Pages
    <3>4. \A g \in Frames : Loads(xpgs', Busy', g, l) => xpgs'[g] = xpgs[g]
      BY <1>1, <3>1 DEF Loads, Put
    <3> QED BY <3>1, <3>3, <3>4 DEF Stays
  <2> QED BY <2>1, <2>2
<1>7. NoAliasing'
  BY <1>6, AliasingKept
<1> QED BY <1>4, <1>5, <1>6, <1>7

\* What xpc_read_page decodes is what xpc_flush_page encodes.
LEMMA ReadBack ==
    ASSUME NEW t, t = [s \in Slots |-> t[s]], NEW x, x.entries = FromFlash(t)
    PROVE  OnFlash(x) = t
BY SMT DEF OnFlash, FromFlash

\* xpc_read_page brings in what the directory's flash page holds.
LEMMA ReadMapping ==
    ASSUME Types, Lists, Pages, Roomy, FlashOK, CleanMatchesFlash, NoAliasing,
           NEW w \in Workers, NEW f \in Frames, wt[w].frame = f, wt[w].pc = "read_xpg",
           NEW rec, Moved(w, rec), rec.pc # "read_xpg", NEW z, Put(f, z), Pages',
           z.mvpn = xpgs[f].mvpn, z.in_tree = xpgs[f].in_tree, z.dirty = xpgs[f].dirty,
           z.entries = FromFlash(table[gtd[wt[w].mvpn]]), UNCHANGED <<gtd, table, used, setup, evicted>>
    PROVE  FlashOK' /\ CleanMatchesFlash' /\ NoAliasing' /\ \A l \in Lpas : Stays(l)
<1> DEFINE m == wt[w].mvpn
<1>1. /\ m \in Mvpns /\ xpgs[f].in_tree /\ xpgs[f].mvpn = m /\ gtd[m] # NONE
      /\ \A v \in Workers : wt[v].pc = "read_xpg" /\ wt[v].frame = f => v = w
  <2>1. xpgs[f].in_tree /\ xpgs[f].mvpn = m /\ gtd[m] # NONE
    BY DEF Pages, Held, WithPage, Working
  <2>2. m \in Mvpns
    BY DEF Types, IsCall
  <2>3. \A v \in Workers : wt[v].pc = "read_xpg" /\ wt[v].frame = f => v = w
    BY DEF Lists, Alone, Working
  <2> QED BY <2>1, <2>2, <2>3
<1>2. f \in Busy /\ Busy' = Busy \ {f}
  BY SMT, <1>1 DEF Busy, Loading, Moved
<1>3. gtd[m] \in Ppas /\ table[gtd[m]] = [s \in Slots |-> table[gtd[m]][s]]
  BY <1>1 DEF FlashOK
<1>4. FlashOK'
  BY DEF FlashOK
<1>5. OnFlash(z) = table[gtd[m]]
  BY <1>3, ReadBack
<1>6. CleanMatchesFlash'
  <2>1. \A g \in Frames : Loading(g)' <=> g \in Busy'
    BY DEF Busy
  <2>2. \A g \in Frames : Loading(g) <=> g \in Busy
    BY DEF Busy
  <2> QED BY <1>1, <1>2, <1>5, <2>1, <2>2 DEF CleanMatchesFlash, Roomy, Put
<1>7. ASSUME NEW l \in Lpas PROVE MappedPpa(l)' = MappedPpa(l) /\ Stays(l)
  <2>1. CASE l[1] = m
    <3>1. \A g \in Frames : ~Loads(xpgs, Busy, g, l)
      BY SMT, <1>1, <1>2, <2>1 DEF Loads, Pages, CachedOnce
    <3>2. MappedPpa(l) = table[gtd[m]][l[2]]
      BY <1>1, <2>1, <3>1, MappedStored DEF Stored
    <3>3. Loads(xpgs', Busy', f, l)
      BY <1>1, <1>2, <2>1 DEF Loads, Put
    <3>5. MappedPpa(l)' = xpgs'[f].entries[l[2]].ppa
      BY <3>3, MappedCached DEF Pages
    <3>6. l[2] \in Slots
      BY DEF Lpas
    <3>7. MappedPpa(l)' = MappedPpa(l) /\ xpgs'[f].entries[l[2]].bitmap = Sectors
      BY SMT, <3>2, <3>5, <3>6 DEF Put, FromFlash
    <3>8. \A g \in Frames : Loads(xpgs', Busy', g, l) => g = f
      BY SMT, <3>3 DEF Loads, Pages, CachedOnce, Roomy
    <3> QED BY <3>7, <3>8 DEF Stays
  <2>2. CASE l[1] # m
    <3>1. ASSUME NEW g \in Frames
          PROVE /\ Loads(xpgs', Busy', g, l) <=> Loads(xpgs, Busy, g, l)
                /\ Loads(xpgs, Busy, g, l) =>
                     xpgs'[g].entries[l[2]].ppa = xpgs[g].entries[l[2]].ppa
      BY <1>1, <1>2, <2>2 DEF Loads, Put
    <3>2. Stored(gtd', table', l) = Stored(gtd, table, l)
      BY DEF Stored
    <3>3. MappedPpa(l)' = MappedPpa(l)
      BY <3>1, <3>2, MappedSame DEF Pages
    <3>4. \A g \in Frames : Loads(xpgs', Busy', g, l) => xpgs'[g] = xpgs[g]
      BY <1>1, <2>2 DEF Loads, Put
    <3> QED BY <3>1, <3>3, <3>4 DEF Stays
  <2> QED BY <2>1, <2>2
<1>8. NoAliasing'
  BY <1>7, AliasingKept
<1> QED BY <1>4, <1>6, <1>7, <1>8

\* xpc_update_mapping.
Updated(es, slot, p, b) == [es EXCEPT ![slot] = [ppa |-> p, bitmap |-> es[slot].bitmap \cup b]]

\* alloc_page_for_write sends one logical page to a flash page that was never
\* used.
LEMMA MapMapping ==
    ASSUME Types, Lists, Pages, Roomy, FlashOK, CleanMatchesFlash, NoAliasing,
           NEW w \in Workers, NEW f \in Frames, wt[w].frame = f, wt[w].pc \in Working \ {"read_xpg"},
           NEW rec, Moved(w, rec), rec.pc # "read_xpg", NEW z, Put(f, z), Pages',
           z.mvpn = xpgs[f].mvpn, z.in_tree = xpgs[f].in_tree, z.dirty,
           NEW slot, NEW p, NEW b, z.entries = Updated(xpgs[f].entries, slot, p, b),
           p \in Ppas, p \notin used, used' = used \cup {p},
           UNCHANGED <<gtd, table, setup, evicted>>
    PROVE  FlashOK' /\ CleanMatchesFlash' /\ NoAliasing' /\ Remaps(<<xpgs[f].mvpn, slot>>, p, b)
<1> DEFINE m == xpgs[f].mvpn
           e == [ppa |-> p, bitmap |-> xpgs[f].entries[slot].bitmap \cup b]
<1>0. /\ z.entries = [xpgs[f].entries EXCEPT ![slot] = e]
      /\ e.ppa = p /\ e.bitmap = xpgs[f].entries[slot].bitmap \cup b
  BY DEF Updated
<1> HIDE DEF e
<1>1. IsPage(xpgs[f]) /\ xpgs[f].in_tree
  BY DEF Types, Pages, Held, WithPage
<1>2. Busy' = Busy /\ f \notin Busy
  <2>1. ~Loading(f)
    BY DEF Loading, Lists, Alone
  <2> QED BY <2>1, BusySame DEF Busy
<1>3. FlashOK'
  BY SMT DEF FlashOK
<1>4. CleanMatchesFlash'
  <2>1. \A g \in Frames : Loading(g)' <=> Loading(g)
    BY <1>2 DEF Busy
  <2> QED BY <2>1 DEF CleanMatchesFlash, Roomy, Put
<1>5. \A l \in Lpas : MappedPpa(l) # NONE => MappedPpa(l) \in used
  BY DEF NoAliasing
<1>6. ASSUME NEW l \in Lpas, l # <<m, slot>> PROVE MappedPpa(l)' = MappedPpa(l) /\ Stays(l)
  <2>1. l = <<l[1], l[2]>> /\ l[2] \in Slots
    BY SMT DEF Lpas
  <2>2. l[1] = m => z.entries[l[2]] = xpgs[f].entries[l[2]]
    BY <1>0, <1>1, <1>6, <2>1 DEF IsPage
  <2>3. ASSUME NEW g \in Frames
        PROVE /\ Loads(xpgs', Busy', g, l) <=> Loads(xpgs, Busy, g, l)
              /\ Loads(xpgs, Busy, g, l) =>
                   xpgs'[g].entries[l[2]].ppa = xpgs[g].entries[l[2]].ppa
    BY <1>2, <2>2 DEF Loads, Put
  <2>4. Stored(gtd', table', l) = Stored(gtd, table, l)
    BY DEF Stored
  <2>5. MappedPpa(l)' = MappedPpa(l)
    BY <2>3, <2>4, MappedSame DEF Pages
  <2>6. \A g \in Frames : Loads(xpgs', Busy', g, l) =>
           xpgs'[g].entries[l[2]] = xpgs[g].entries[l[2]]
    BY <2>2 DEF Loads, Put
  <2> QED BY <2>3, <2>5, <2>6 DEF Stays
<1>7. ASSUME NEW l \in Lpas, l = <<m, slot>>
      PROVE  /\ MappedPpa(l)' = p
             /\ \E g \in Frames :
                   /\ Loads(xpgs, Busy, g, l) /\ MappedPpa(l) = xpgs[g].entries[l[2]].ppa
                   /\ xpgs'[g].entries[l[2]].bitmap = xpgs[g].entries[l[2]].bitmap \cup b
                   /\ \A h \in Frames : Loads(xpgs', Busy', h, l) => h = g
  <2>1. l[1] = m /\ l[2] = slot /\ slot \in Slots
    BY <1>7 DEF Lpas
  <2>2. Loads(xpgs', Busy', f, l)
    BY <1>1, <1>2, <2>1 DEF Loads, Put
  <2>3. MappedPpa(l)' = xpgs'[f].entries[l[2]].ppa
    BY <2>2, MappedCached DEF Pages
  <2>4. MappedPpa(l)' = p /\ xpgs'[f].entries[l[2]].bitmap = xpgs[f].entries[l[2]].bitmap \cup b
    BY SMT, <1>0, <1>1, <2>1, <2>3 DEF Put, IsPage
  <2>5. Loads(xpgs, Busy, f, l)
    BY <1>1, <1>2, <2>1 DEF Loads
  <2>6. MappedPpa(l) = xpgs[f].entries[l[2]].ppa
    BY <2>5, MappedCached DEF Pages
  <2>7. \A h \in Frames : Loads(xpgs', Busy', h, l) => h = f
    BY SMT, <2>2 DEF Loads, Pages, CachedOnce, Roomy
  <2> QED BY <2>4, <2>5, <2>6, <2>7
<1>8. \A n \in Mvpns : gtd[n] # p
  BY SMT, AmuAssumption DEF FlashOK
<1>9. NoAliasing'
  <2> SUFFICES ASSUME NEW l \in Lpas, MappedPpa(l)' # NONE
               PROVE  /\ MappedPpa(l)' \in used'
                      /\ MappedPpa(l)' \notin {gtd'[n] : n \in Mvpns}
                      /\ \A k \in Lpas \ {l} : MappedPpa(k)' # MappedPpa(l)'
    BY DEF NoAliasing
  <2>1. CASE l = <<m, slot>>
    BY SMT, <1>5, <1>6, <1>7, <1>8, <2>1
  <2>2. CASE l # <<m, slot>>
    BY SMT, <1>5, <1>6, <1>7, <2>2 DEF NoAliasing
  <2> QED BY <2>1, <2>2
<1>10. Remaps(<<m, slot>>, p, b)
  BY <1>6, <1>7 DEF Remaps
<1> QED BY <1>3, <1>4, <1>9, <1>10

\* xpc_flush_page writes the cached page to a flash page that was never used, and
\* the directory follows.
LEMMA FlushMapping ==
    ASSUME Types, Lists, Pages, Roomy, FlashOK, CleanMatchesFlash, NoAliasing,
           NEW w \in Workers, NEW f \in Frames, wt[w].frame = f, wt[w].pc \in Working \ {"read_xpg"},
           NEW rec, Moved(w, rec), rec.pc # "read_xpg", NEW z, Put(f, z), Pages',
           z.mvpn = xpgs[f].mvpn, z.in_tree = xpgs[f].in_tree, z.entries = xpgs[f].entries,
           NEW p \in Ppas, p \notin used, used' = used \cup {p},
           table' = [table EXCEPT ![p] = OnFlash(xpgs[f])], gtd' = [gtd EXCEPT ![xpgs[f].mvpn] = p],
           UNCHANGED <<setup, evicted>>
    PROVE  FlashOK' /\ CleanMatchesFlash' /\ NoAliasing' /\ \A l \in Lpas : Stays(l)
<1> DEFINE m == xpgs[f].mvpn
<1>1. IsPage(xpgs[f]) /\ xpgs[f].in_tree /\ m \in Mvpns /\ p # NONE
  BY SMT, AmuAssumption DEF Types, Pages, Held, WithPage, IsPage
<1>2. Busy' = Busy /\ f \notin Busy
  <2>1. ~Loading(f)
    BY DEF Loading, Lists, Alone
  <2> QED BY <2>1, BusySame DEF Busy
<1>3. /\ gtd'[m] = p /\ table'[p] = OnFlash(xpgs[f])
      /\ \A n \in Mvpns : n # m => gtd'[n] = gtd[n]
      /\ \A n \in Mvpns : gtd[n] # NONE => gtd[n] \in used /\ table'[gtd[n]] = table[gtd[n]]
  BY SMT, <1>1 DEF FlashOK
<1>4. FlashOK'
  BY <1>1 DEF FlashOK, OnFlash
<1>5. CleanMatchesFlash'
  <2>1. \A g \in Frames : Loading(g)' <=> Loading(g)
    BY <1>2 DEF Busy
  <2>2. OnFlash(z) = OnFlash(xpgs[f])
    BY DEF OnFlash
  <2>3. \A g \in Frames : g # f /\ xpgs[g].in_tree => xpgs[g].mvpn \in Mvpns /\ xpgs[g].mvpn # m
    BY <1>1 DEF Types, IsPage, Pages, CachedOnce
  <2>4. ASSUME NEW g \in Frames, xpgs'[g].in_tree, ~xpgs'[g].dirty, ~Loading(g)'
        PROVE  gtd'[xpgs'[g].mvpn] # NONE /\ OnFlash(xpgs'[g]) = table'[gtd'[xpgs'[g].mvpn]]
    <3>1. CASE g = f
      <4>1. xpgs'[g] = z
        BY <3>1 DEF Put
      <4> QED BY <1>1, <1>3, <2>2, <4>1
    <3>2. CASE g # f
      BY SMT, <1>3, <2>1, <2>3, <2>4, <3>2 DEF Put, CleanMatchesFlash
    <3> QED BY <3>1, <3>2
  <2> QED BY <2>4 DEF CleanMatchesFlash
<1>6. ASSUME NEW l \in Lpas PROVE MappedPpa(l)' = MappedPpa(l) /\ Stays(l)
  <2>1. ASSUME NEW g \in Frames
        PROVE /\ Loads(xpgs', Busy', g, l) <=> Loads(xpgs, Busy, g, l)
              /\ xpgs'[g].entries = xpgs[g].entries
    BY <1>2 DEF Loads, Put
  <2>2. l[1] = m => Loads(xpgs, Busy, f, l)
    BY <1>1, <1>2 DEF Loads
  <2>3. l[1] # m => Stored(gtd', table', l) = Stored(gtd, table, l)
    BY SMT, <1>3 DEF Stored, Lpas
  <2>4. MappedPpa(l)' = MappedPpa(l)
    BY <2>1, <2>2, <2>3, MappedSame DEF Pages
  <2> QED BY <2>1, <2>4 DEF Stays
<1>7. NoAliasing'
  BY <1>3, <1>6, AliasingKept
<1> QED BY <1>4, <1>5, <1>6, <1>7

----------------------------------------------------------------------------
(* Saving                                                                  *)

\* While a dispatch is under way no save is undisturbed.
LEMMA NotSaving ==
    ASSUME Saves, NEW w \in Workers, UNCHANGED saved,
           \/ wt[w].pc \in {"page", "read_xpg", "update_read", "submit"}
           \/ wt[w].pc = "locked" /\ wt[w].ret # "save"
    PROVE  Saves'
<1>1. wt[w] # Idle
  BY CallIdle
<1> QED BY <1>1 DEF Saves, Saver

\* The worker that saves goes on.
LEMMA SaverGoesOn ==
    ASSUME Saves, NEW w \in Workers, NEW rec, Moved(w, rec), UNCHANGED saved, wt[w].pc # "idle",
           Saver(w) =>
             /\ rec.pc \in {"scan", "lock_wait", "locked", "save_flush"}
             /\ rec.pc # "scan" => rec.ret = "save"
             /\ \A g \in Frames : xpgs'[g].in_tree /\ xpgs'[g].mvpn <= rec.mvpn /\ xpgs'[g].dirty =>
                  xpgs'[g].mvpn = rec.mvpn /\ rec.pc # "scan"
    PROVE  Saves'
<1>1. wt[w] # Idle
  BY CallIdle
<1>2. saved # "saved"
  BY <1>1 DEF Saves
<1>3. ASSUME saved = "saving", NEW v \in Workers, wt'[v] # Idle PROVE Saver(v)'
  <2>1. Saver(w) /\ \A u \in Workers \ {w} : wt[u] = Idle
    BY <1>1, <1>3 DEF Saves, Saver
  <2>2. v = w /\ \A u \in Workers \ {w} : wt'[u] = Idle
    BY <1>3, <2>1 DEF Moved
  <2>3. wt'[w] = rec
    BY DEF Moved
  <2> QED BY <2>1, <2>2, <2>3 DEF Saver
<1> QED BY <1>2, <1>3 DEF Saves

----------------------------------------------------------------------------
(* Transactions and records                                                *)

IsTxn(t) ==
    t = [s \in {"type", "lpa", "bitmap", "data", "ppa"} |-> t[s]] /\ t.lpa \in Lpas

\* Writing one transaction of a list leaves a list of transactions.
LEMMA TxnsExcept ==
    ASSUME NEW ts, IsTxns(ts), NEW i, NEW t, i \in 1..Len(ts) => IsTxn(t)
    PROVE  IsTxns([ts EXCEPT ![i] = t]) /\ Len([ts EXCEPT ![i] = t]) = Len(ts)
<1> DEFINE S == {ts[k] : k \in 1..Len(ts)}
           us == [ts EXCEPT ![i] = t]
<1>1. ts \in Seq(S) /\ Len(ts) \in Nat
  BY SMT DEF IsTxns
<1>2. us \in Seq(S \cup {t}) /\ Len(us) = Len(ts) /\ DOMAIN us = 1..Len(ts)
  <2>1. PICK n \in Nat : n = Len(ts) /\ ts \in [1..n -> S]
    BY SMT, <1>1
  <2> HIDE DEF S
  <2>2. us \in [1..n -> S \cup {t}]
    BY <2>1
  <2> HIDE DEF us
  <2> QED BY SMT, <2>1, <2>2
<1>3. \A k \in 1..Len(ts) : us[k] = IF k = i THEN t ELSE ts[k]
  BY SMT, <1>1
<1> HIDE DEF us
<1>4. us \in Seq({us[k] : k \in 1..Len(us)})
  BY SMT, <1>1, <1>2
<1> QED BY <1>2, <1>3, <1>4 DEF us, IsTxns, IsTxn

\* A transaction has its PPA: the next one is translated, or the first executed.
LEMMA TranslatedMoves ==
    ASSUME NEW w \in Workers, NEW r, IsCall(r), r.mvpn \in Mvpns, Translated(w, r)
    PROVE  \E rec : IsCall(rec) /\ rec.pc \in {"page", "submit"} /\ wt' = [wt EXCEPT ![w] = rec]
<1>1. CASE r.i < Len(r.txns)
  <2> DEFINE q == [r EXCEPT !.i = @ + 1]
             rec == NeedPage(q)
  <2>1. /\ q = [s \in {"pc", "ret", "txns", "i", "frame", "mvpn"} |-> q[s]]
        /\ q.i = r.i + 1 /\ q.txns = r.txns
    BY DEF IsCall
  <2>2. q.i \in Nat \ {0} /\ q.i \in 1..Len(q.txns) /\ IsTxns(q.txns)
    BY SMT, <1>1, <2>1 DEF IsCall, IsTxns
  <2>3. q.txns[q.i].lpa[1] \in Mvpns /\ q.txns[q.i].lpa[1] \in Int
    <3>1. q.txns[q.i].lpa \in Mvpns \X Slots
      BY <2>2 DEF IsTxns, Lpas
    <3> QED BY SMT, <3>1, AmuAssumption
  <2> HIDE DEF q
  <2>4. IsCall(rec) /\ rec.pc = "page"
    BY <2>1, <2>2, <2>3 DEF IsCall, NeedPage
  <2>5. wt' = [wt EXCEPT ![w] = rec]
    BY <1>1 DEF Translated, Goto, q
  <2> QED BY <2>4, <2>5
<1>2. CASE ~(r.i < Len(r.txns))
  <2> DEFINE rec == [r EXCEPT !.i = 1, !.pc = "submit"]
  <2>1. /\ rec = [s \in {"pc", "ret", "txns", "i", "frame", "mvpn"} |-> rec[s]]
        /\ rec.pc = "submit" /\ rec.i = 1 /\ rec.txns = r.txns /\ rec.mvpn = r.mvpn
    BY DEF IsCall
  <2> HIDE DEF rec
  <2>3. IsCall(rec)
    BY SMT, <2>1 DEF IsCall
  <2>2. wt' = [wt EXCEPT ![w] = rec]
    BY <1>2 DEF Translated, Wait, rec
  <2> QED BY <2>1, <2>2, <2>3
<1> QED BY <1>1, <1>2

\* And the record of the worker a record.
LEMMA CallTxn ==
    ASSUME NEW r, IsCall(r), NEW i, NEW t, i \in 1..Len(r.txns) => IsTxn(t)
    PROVE  LET q == [r EXCEPT !.txns[i] = t] IN IsCall(q) /\ q.mvpn = r.mvpn
<1> DEFINE us == [r.txns EXCEPT ![i] = t]
           q == [r EXCEPT !.txns = us]
<1>1. IsTxns(us)
  BY TxnsExcept DEF IsCall
<1>2. [r EXCEPT !.txns[i] = t] = q
  BY DEF IsCall
<1> HIDE DEF us
<1>3. IsCall(q) /\ q.mvpn = r.mvpn
  BY <1>1 DEF IsCall
<1> QED BY <1>2, <1>3

\* A pin count above zero is not zero.
LEMMA Positive == ASSUME NEW n, n > 0 PROVE n # 0
BY SMT

\* The owner of the mutex is one of the pins; without it the count is right again.
LEMMA CountedReleased ==
    ASSUME NEW w \in Workers, NEW x, IsPage(x), Counted(x), x.owner = w
    PROVE  x.pin > 0 /\ Counted(Released(x, w))
<1>1. w # NONE /\ NONE \notin Workers
  BY AmuAssumption
<1>2. x.pin = Len(x.waiters) + 1 /\ x.waiters \in Seq(Workers) /\ Len(x.waiters) \in Nat
  BY SMT, <1>1 DEF Counted
<1> DEFINE y == Released(x, w)
<1>3. /\ y.pin = x.pin - 1
      /\ y.owner = IF x.waiters = <<>> THEN NONE ELSE Head(x.waiters)
      /\ y.waiters = IF x.waiters = <<>> THEN x.waiters ELSE Tail(x.waiters)
  BY DEF Released, Unlocked, IsPage, Fields
<1> HIDE DEF y
<1>4. Counted(y)
  <2>1. CASE x.waiters = <<>>
    BY SMT, <1>2, <1>3, <2>1 DEF Counted
  <2>2. CASE x.waiters # <<>>
    <3>1. Head(x.waiters) \in Workers /\ Tail(x.waiters) \in Seq(Workers)
      BY SMT, <1>2, <2>2
    <3>2. Len(Tail(x.waiters)) = Len(x.waiters) - 1
      BY SMT, <1>2, <2>2
    <3>3. y.waiters = Tail(x.waiters) /\ y.owner # NONE /\ y.pin = Len(x.waiters)
      BY SMT, <1>1, <1>2, <1>3, <2>2, <3>1
    <3>4. y.pin = Len(y.waiters) + 1
      BY SMT, <1>2, <3>2, <3>3
    <3> QED BY SMT, <3>1, <3>3, <3>4 DEF Counted
  <2> QED BY SMT, <2>1, <2>2
<1> QED BY SMT, <1>2, <1>4 DEF y

----------------------------------------------------------------------------
(* The steps                                                               *)

\* What the invariant says of one worker and the page it has.
LEMMA Here ==
    ASSUME Inv, NEW w \in Workers
    PROVE  /\ IsCall(wt[w]) /\ (wt[w].pc \notin {"idle", "scan"} => wt[w].mvpn \in Mvpns)
           /\ wt[w].pc \in WithPage => wt[w].frame \in Frames /\ IsPage(xpgs[wt[w].frame])
BY DEF Inv, Types, IsCall, Lists, Hand

\* The step changes no page: it is enough to look at the worker and at the save.
LEMMA MoveKeeps ==
    ASSUME Inv, NEW w \in Workers, NEW rec, IsCall(rec), wt' = [wt EXCEPT ![w] = rec],
           wt[w].pc # "read_xpg", rec.pc \notin {"read_xpg", "evict_flush"},
           \/ rec.pc \notin WithPage
           \/ /\ rec.frame = wt[w].frame /\ rec.mvpn = wt[w].mvpn
              /\ rec.pc \in {"locked", "update_read", "save_flush"}
              /\ wt[w].pc \in Working \/ (wt[w].pc = "lock_wait" /\ xpgs[wt[w].frame].owner = w),
           UNCHANGED <<setup, evicted, gtd, xpgs, lru, used, table>>,
           Roomy => rec.pc # "assert" /\ Saves'
    PROVE  Inv' /\ Steady
<1>1. Types' /\ Moved(w, rec)
  BY MoveTypes DEF Inv
<1>2. Lists'
  BY SMT, <1>1, MoveLists DEF Inv
<1>3. ASSUME Roomy PROVE Pages' /\ Mapping' /\ \A l \in Lpas : Stays(l)
  <2>1. Pages'
    BY SMT, <1>1, <1>3, MovePages DEF Inv
  <2>2. Busy' = Busy /\ \A g \in Frames : Same(g)
    BY <1>1, BusySame DEF Same
  <2>3. FlashOK' /\ CleanMatchesFlash' /\ NoAliasing' /\ \A l \in Lpas : Stays(l)
    BY <1>3, <2>1, <2>2, SameMapping DEF Inv, Mapping, Pages
  <2> QED BY SMT, <1>3, <2>1, <2>3 DEF Mapping
<1>4. Roomy' = Roomy
  BY DEF Roomy
<1> QED BY <1>1, <1>2, <1>3, <1>4 DEF Inv, Steady

\* amu_dispatch begins with the transactions of one request.
LEMMA DispatchKeeps ==
    ASSUME Inv, NEW w \in Workers, DispatchSome(w) PROVE Inv' /\ Steady
<1>0. PICK n \in 1..MaxTxns :
        \E ls \in [1..n -> Lpas], reqs \in [1..n -> Requests] : Dispatch(w, ls, reqs)
  BY DEF DispatchSome
<1>1. PICK ls \in [1..n -> Lpas], reqs \in [1..n -> Requests] : Dispatch(w, ls, reqs)
  BY <1>0
<1> DEFINE ts == [k \in DOMAIN ls |->
                    [type |-> reqs[k].type, lpa |-> ls[k], bitmap |-> reqs[k].bitmap,
                     data |-> [s \in Sectors |->
                                 IF reqs[k].type = "write" /\ s \in reqs[k].bitmap
                                 THEN version + k ELSE 0],
                     ppa |-> NONE]]
           q == [Idle EXCEPT !.txns = ts]
           rec == NeedPage(q)
<1>2. n \in Nat /\ n >= 1 /\ DOMAIN ls = 1..n
  BY SMT, AmuAssumption
<1>3. IsTxns(ts) /\ 1 \in 1..Len(ts)
  <2>1. DOMAIN ts = 1..n /\ \A k \in 1..n : IsTxn(ts[k])
    BY <1>2 DEF IsTxn
  <2>2. ts = [k \in 1..n |-> ts[k]]
    BY <1>2
  <2> HIDE DEF ts
  <2>3. ts \in Seq({ts[k] : k \in 1..n}) /\ Len(ts) = n
    BY SMT, <1>2, <2>2
  <2> QED BY SMT, <1>2, <2>1, <2>3 DEF IsTxns, IsTxn
<1> HIDE DEF ts
<1>4. /\ q = [s \in {"pc", "ret", "txns", "i", "frame", "mvpn"} |-> q[s]]
      /\ q.i = 1 /\ q.txns = ts
  BY DEF Idle
<1> HIDE DEF q
<1>5. q.txns[q.i].lpa[1] \in Mvpns /\ q.txns[q.i].lpa[1] \in Int
  <2>1. q.txns[q.i].lpa \in Mvpns \X Slots
    BY <1>3, <1>4 DEF IsTxns, Lpas
  <2>2. Mvpns \subseteq Int
    BY SMT, AmuAssumption
  <2> QED BY <2>1, <2>2
<1>6. IsCall(rec) /\ rec.pc = "page"
  <2>1. q.i \in Nat \ {0} /\ IsTxns(q.txns)
    BY SMT, <1>3, <1>4
  <2> QED BY <1>4, <1>5, <2>1 DEF IsCall, NeedPage
<1>7. wt' = [wt EXCEPT ![w] = rec] /\ wt[w].pc = "idle" /\ saved' = "no"
  BY <1>1 DEF Dispatch, Goto, Resumes, ts, q
<1>8. Saves' /\ rec.pc \notin WithPage
  BY <1>6, <1>7 DEF Saves, WithPage, Working
<1> HIDE DEF rec
<1>9. UNCHANGED <<setup, evicted, gtd, xpgs, lru, used, table>>
  BY <1>1 DEF Dispatch
<1> QED BY <1>6, <1>7, <1>8, <1>9, MoveKeeps

\* An mvpn is a number.
LEMMA MvpnIsInt == ASSUME NEW m \in Mvpns PROVE m \in Nat /\ m \in Int /\ m # NONE
BY SMT, AmuAssumption

\* A page in the tree has an mvpn.
LEMMA InTreeMvpn ==
    ASSUME Types, NEW f \in Frames, xpgs[f].in_tree PROVE xpgs[f].mvpn \in Mvpns
BY DEF Types, IsPage

\* A page with another lock and pin count is a page.
LEMMA PageLike ==
    ASSUME NEW x, IsPage(x), NEW y, y = [s \in Fields |-> y[s]], y.pin \in Nat, y.mvpn = x.mvpn,
           y.in_tree = x.in_tree, y.entries = x.entries
    PROVE  IsPage(y)
BY DEF IsPage

\* So is one with another mvpn and the entries of before.
LEMMA PageReused ==
    ASSUME NEW x, IsPage(x), NEW y, y = [s \in Fields |-> y[s]], y.pin \in Nat,
           y.mvpn \in Mvpns, y.entries = x.entries
    PROVE  IsPage(y)
<1>1. y.mvpn # NONE
  BY MvpnIsInt
<1> QED BY <1>1 DEF IsPage

\* xpc_pin and mutex_lock of a cached page, by a worker that had none.
LEMMA PinKeeps ==
    ASSUME Inv, NEW w \in Workers, wt[w].pc # "read_xpg", NEW f \in Frames, xpgs[f].in_tree,
           NEW r, IsCall(r), r.mvpn = xpgs[f].mvpn, PinAndLock(w, f, r),
           UNCHANGED <<setup, evicted, gtd, used, table>>
    PROVE  /\ \A g \in Frames : Same(g)
           /\ \E rec : /\ Moved(w, rec) /\ rec.pc \in {"locked", "lock_wait"}
                       /\ rec.mvpn = r.mvpn /\ rec.ret = r.ret
           /\ (Roomy => Saves') => Inv'
           /\ Steady
<1> DEFINE free == xpgs[f].owner = NONE
           c == IF free THEN "locked" ELSE "lock_wait"
           rec == [r EXCEPT !.pc = c, !.frame = f]
           z == IF free THEN [xpgs[f] EXCEPT !.pin = @ + 1, !.owner = w]
                ELSE [xpgs[f] EXCEPT !.pin = @ + 1, !.waiters = Append(@, w)]
<1>1. IsPage(xpgs[f]) /\ xpgs[f].mvpn \in Mvpns /\ w # NONE
  BY AmuAssumption DEF Inv, Types, IsPage
<1> HIDE DEF c
<1>2. IsCall(rec) /\ rec.pc = c /\ rec.frame = f /\ rec.mvpn = r.mvpn /\ rec.ret = r.ret
  BY <1>1 DEF IsCall
<1>3. /\ IsPage(z) /\ z.pin = xpgs[f].pin + 1 /\ z.mvpn = xpgs[f].mvpn
      /\ z.in_tree = xpgs[f].in_tree /\ z.dirty = xpgs[f].dirty /\ z.entries = xpgs[f].entries
      /\ z.owner = IF free THEN w ELSE xpgs[f].owner
      /\ z.waiters = IF free THEN xpgs[f].waiters ELSE Append(xpgs[f].waiters, w)
  <2>1. /\ z = [s \in Fields |-> z[s]] /\ z.pin = xpgs[f].pin + 1 /\ z.mvpn = xpgs[f].mvpn
        /\ z.in_tree = xpgs[f].in_tree /\ z.dirty = xpgs[f].dirty /\ z.entries = xpgs[f].entries
        /\ z.owner = IF free THEN w ELSE xpgs[f].owner
        /\ z.waiters = IF free THEN xpgs[f].waiters ELSE Append(xpgs[f].waiters, w)
    <3>1. CASE free
      BY <1>1, <3>1 DEF IsPage, Fields
    <3>2. CASE ~free
      BY <1>1, <3>2 DEF IsPage, Fields
    <3> QED BY <3>1, <3>2
  <2> HIDE DEF z
  <2>2. xpgs[f].pin + 1 \in Nat
    BY SMT, <1>1 DEF IsPage
  <2> QED BY <1>1, <2>1, <2>2, PageLike
<1>4. wt' = [wt EXCEPT ![w] = rec] /\ lru' = LruPin(f)
  BY DEF PinAndLock, Goto, Wait, c
<1>5. xpgs' = [xpgs EXCEPT ![f] = z]
  BY DEF PinAndLock, Inv, Types
<1> HIDE DEF rec, z
<1>6. Types' /\ Moved(w, rec) /\ Put(f, z)
  BY <1>2, <1>3, <1>4, <1>5, PutTypes DEF Inv
<1>7. Lists'
  BY <1>2, <1>3, <1>4, <1>6, PinLists DEF Inv, c
<1>9. \A g \in Frames : Same(g)
  BY <1>3, <1>6 DEF Same, Put
<1>8. ASSUME Roomy
      PROVE  Pages' /\ FlashOK' /\ CleanMatchesFlash' /\ NoAliasing' /\ \A l \in Lpas : Stays(l)
  <2>1. Counted(z)
    <3>1. Counted(xpgs[f])
      BY <1>8 DEF Inv, Pages
    <3>2. CASE free
      BY SMT, <1>1, <1>3, <3>1, <3>2 DEF Counted
    <3>3. CASE ~free
      <4>1. /\ Append(xpgs[f].waiters, w) \in Seq(Workers)
            /\ Len(Append(xpgs[f].waiters, w)) = Len(xpgs[f].waiters) + 1
            /\ Len(xpgs[f].waiters) \in Nat
        BY SMT, <3>1 DEF Counted
      <4> QED BY <1>3, <3>1, <3>3, <4>1 DEF Counted
    <3> QED BY <3>2, <3>3
  <2>2. Pages'
    BY <1>2, <1>3, <1>4, <1>6, <1>8, <2>1, PinPages DEF Inv, c
  <2>3. Busy' = Busy
    BY <1>2, <1>6, BusySame DEF c
  <2>4. FlashOK' /\ CleanMatchesFlash' /\ NoAliasing' /\ \A l \in Lpas : Stays(l)
    BY <1>8, <1>9, <2>2, <2>3, SameMapping DEF Inv, Mapping, Pages
  <2> QED BY <2>2, <2>4
<1>10. (Roomy => Saves') => Inv'
  BY <1>6, <1>7, <1>8 DEF Inv, Roomy, Mapping
<1>11. c \in {"locked", "lock_wait"}
  BY DEF c
<1>12. Steady
  BY <1>8 DEF Steady, Roomy
<1> QED BY <1>2, <1>6, <1>9, <1>10, <1>11, <1>12

\* get_translation_page finds the page in the tree.
LEMMA HitPageKeeps == ASSUME Inv, NEW w \in Workers, HitPage(w) PROVE Inv' /\ Steady
<1>1. wt[w].pc = "page" /\ IsCall(wt[w])
  BY Here DEF HitPage, Running
<1>2. PICK f \in Found(wt[w].mvpn) : PinAndLock(w, f, wt[w])
  BY DEF HitPage
<1>3. f \in Frames /\ xpgs[f].in_tree /\ xpgs[f].mvpn = wt[w].mvpn
  BY DEF Found
<1>4. Roomy => Saves'
  BY <1>1, NotSaving DEF Inv, Mapping, HitPage
<1>5. UNCHANGED <<setup, evicted, gtd, used, table>>
  BY DEF HitPage
<1> QED BY <1>1, <1>2, <1>3, <1>4, <1>5, PinKeeps

\* What is common to the steps that unlock and unpin a page with content y.
LEMMA ReleaseKeeps ==
    ASSUME Inv, NEW w \in Workers, wt[w].pc \in Working,
           NEW rec, rec.pc \notin WithPage \cup {"assert"},
           NEW f \in Frames, f = wt[w].frame, xpgs[f].pin > 0,
           NEW y, IsPage(y), y.mvpn = xpgs[f].mvpn, y.in_tree = xpgs[f].in_tree,
           y.pin = xpgs[f].pin, y.owner = xpgs[f].owner, y.waiters = xpgs[f].waiters,
           NEW z, z = Released(y, w), Types', Moved(w, rec), Put(f, z), lru' = LruUnpin(f),
           UNCHANGED <<setup, evicted>>,
           Roomy => \A m \in Mvpns : gtd[m] # NONE => gtd'[m] # NONE
    PROVE  Lists' /\ (Roomy => Pages')
<1>1. /\ IsPage(z) /\ z.pin = y.pin - 1 /\ z.mvpn = y.mvpn /\ z.in_tree = y.in_tree
      /\ z.dirty = y.dirty /\ z.entries = y.entries
  BY SMT, ReleasedPage
<1>3. Lists'
  <2>1. rec.pc \notin WithPage /\ z.mvpn = xpgs[f].mvpn /\ z.pin = xpgs[f].pin - 1
    BY <1>1
  <2>3. z.in_tree => xpgs[f].in_tree
    BY <1>1
  <2>2. Types /\ Lists
    BY DEF Inv
  <2> QED BY <2>1, <2>2, <2>3, ReleaseLists
<1>4. ASSUME Roomy PROVE Pages'
  <2>1. Counted(z)
    <3>1. Counted(y) /\ y.owner = w
      BY <1>4 DEF Inv, Pages, Held, Counted
    <3> QED BY <3>1, CountedReleased
  <2> QED BY <1>1, <1>4, <2>1, ReleasePages DEF Inv
<1> QED BY <1>3, <1>4

\* mutex_unlock and xpc_unpin of a page as it is.
LEMMA UnlockKeeps ==
    ASSUME Inv, NEW w \in Workers, wt[w].pc \in Working \ {"read_xpg"},
           NEW rec, IsCall(rec), rec.pc \notin WithPage \cup {"assert"}, wt' = [wt EXCEPT ![w] = rec],
           NEW f, f = wt[w].frame, xpgs[f].pin > 0,
           xpgs' = [xpgs EXCEPT ![f] = Released(xpgs[f], w)], lru' = LruUnpin(f),
           UNCHANGED <<setup, evicted, gtd, used, table>>
    PROVE  /\ Moved(w, rec) /\ \A g \in Frames : Same(g)
           /\ (Roomy => Saves') => Inv'
           /\ Steady
<1> DEFINE z == Released(xpgs[f], w)
<1>1. f \in Frames /\ IsPage(xpgs[f]) /\ wt[w].pc \in Working
  BY Here DEF WithPage
<1>6. /\ IsPage(z) /\ z.mvpn = xpgs[f].mvpn /\ z.in_tree = xpgs[f].in_tree
      /\ z.dirty = xpgs[f].dirty /\ z.entries = xpgs[f].entries
  BY <1>1, ReleasedPage
<1>7. Types' /\ Moved(w, rec) /\ Put(f, z)
  <2> HIDE DEF z
  <2>1. xpgs' = [xpgs EXCEPT ![f] = z]
    BY DEF z
  <2> QED BY <1>1, <1>6, <2>1, PutTypes DEF Inv
<1>8. Lists' /\ (Roomy => Pages')
  <2>1. Roomy => \A m \in Mvpns : gtd[m] # NONE => gtd'[m] # NONE
    OBVIOUS
  <2>2. UNCHANGED <<setup, evicted>> /\ z = Released(xpgs[f], w)
    OBVIOUS
  <2> HIDE DEF z
  <2> QED BY <1>1, <1>7, <2>1, <2>2, ReleaseKeeps
<1> HIDE DEF z
<1>3. \A g \in Frames : Same(g)
  BY <1>6, <1>7 DEF Same, Put
<1>4. ASSUME Roomy
      PROVE  FlashOK' /\ CleanMatchesFlash' /\ NoAliasing' /\ \A l \in Lpas : Stays(l)
  <2>1. Busy' = Busy
    BY <1>7, BusySame DEF WithPage, Working
  <2> QED BY <1>8, <1>3, <1>4, <2>1, SameMapping DEF Inv, Mapping, Pages
<1>5. (Roomy => Saves') => Inv'
  BY <1>7, <1>8, <1>4 DEF Inv, Roomy, Mapping
<1>9. Steady
  BY <1>4 DEF Steady, Roomy
<1> QED BY <1>7, <1>3, <1>5, <1>9

\* xpc_update_mapping changes one entry and makes the page dirty.
LEMMA UpdatedPage ==
    ASSUME NEW x, IsPage(x), NEW slot, NEW p, NEW b, NEW y, y = UpdateMapping(x, slot, p, b)
    PROVE  /\ IsPage(y) /\ y.mvpn = x.mvpn /\ y.in_tree = x.in_tree /\ y.dirty
           /\ y.pin = x.pin /\ y.owner = x.owner /\ y.waiters = x.waiters
           /\ y.entries = Updated(x.entries, slot, p, b)
<1> DEFINE es == Updated(x.entries, slot, p, b)
<1>1. y = [x EXCEPT !.entries = es, !.dirty = TRUE]
  BY DEF UpdateMapping, Updated, IsPage, Fields
<1>2. es = [s \in Slots |-> es[s]]
  BY DEF IsPage, Updated
<1> HIDE DEF es
<1>3. /\ y = [s \in Fields |-> y[s]] /\ y.pin = x.pin /\ y.mvpn = x.mvpn
      /\ y.in_tree = x.in_tree /\ y.dirty /\ y.entries = es /\ y.owner = x.owner
      /\ y.waiters = x.waiters
  BY <1>1 DEF IsPage, Fields
<1>4. IsPage(y)
  BY <1>2, <1>3 DEF IsPage
<1> QED BY <1>3, <1>4 DEF es

\* The rest of alloc_page_for_write.
LEMMA MapKeeps ==
    ASSUME Inv, NEW w \in Workers,
           \/ wt[w].pc = "locked" /\ wt[w].ret = "alloc"
           \/ wt[w].pc = "update_read",
           NEW t, wt[w].i \in 1..Len(wt[w].txns) => IsTxn(t), MapPage(w, t),
           UNCHANGED <<setup, evicted, gtd, table, saved>>
    PROVE  /\ Inv' /\ used' # used
           /\ Roomy => Remaps(<<wt[w].mvpn, t.lpa[2]>>, Min(Fresh), t.bitmap)
<1> DEFINE f == wt[w].frame
           p == Min(Fresh)
           y == UpdateMapping(xpgs[f], t.lpa[2], p, t.bitmap)
           z == Released(y, w)
           u == [t EXCEPT !.ppa = p]
           r == [wt[w] EXCEPT !.txns[wt[w].i] = u]
<1>1. /\ f \in Frames /\ IsPage(xpgs[f]) /\ IsCall(wt[w]) /\ wt[w].mvpn \in Mvpns
      /\ wt[w].pc \in Working \ {"read_xpg"}
  BY Here DEF WithPage, Working
<1>2. p \in Ppas /\ p \notin used /\ used' = used \cup {p} /\ xpgs[f].pin > 0
  BY FreshPage DEF MapPage
<1>3. /\ xpgs' = [xpgs EXCEPT ![f] = z] /\ lru' = LruUnpin(f) /\ Translated(w, r)
  BY DEF MapPage
<1> HIDE DEF p
<1>4. wt[w].i \in 1..Len(wt[w].txns) => IsTxn(u)
  BY DEF IsTxn
<1> HIDE DEF u
<1>5. IsCall(r) /\ r.mvpn = wt[w].mvpn
  BY <1>1, <1>4, CallTxn
<1> HIDE DEF r
<1>6. PICK rec : IsCall(rec) /\ rec.pc \in {"page", "submit"} /\ wt' = [wt EXCEPT ![w] = rec]
  BY <1>1, <1>3, <1>5, TranslatedMoves
<1>7. /\ IsPage(y) /\ y.mvpn = xpgs[f].mvpn /\ y.in_tree = xpgs[f].in_tree /\ y.dirty
      /\ y.pin = xpgs[f].pin /\ y.owner = xpgs[f].owner /\ y.waiters = xpgs[f].waiters
      /\ y.entries = Updated(xpgs[f].entries, t.lpa[2], p, t.bitmap)
  <2>1. y = UpdateMapping(xpgs[f], t.lpa[2], p, t.bitmap)
    OBVIOUS
  <2> HIDE DEF y
  <2> QED BY SMT, <1>1, <2>1, UpdatedPage
<1> HIDE DEF y
<1>8. /\ IsPage(z) /\ z.mvpn = y.mvpn /\ z.in_tree = y.in_tree /\ z.dirty = y.dirty
      /\ z.entries = y.entries /\ z = Released(y, w)
  BY <1>2, <1>7, ReleasedPage
<1> HIDE DEF z, f
<1>9. Types' /\ Moved(w, rec) /\ Put(f, z)
  BY <1>1, <1>3, <1>6, <1>8, PutTypes DEF Inv
<1>10. rec.pc \notin WithPage \cup {"assert", "read_xpg"}
  BY <1>6 DEF WithPage, Working
<1>11. Lists' /\ (Roomy => Pages')
  <2>1. UNCHANGED <<setup, evicted>> /\ (Roomy => \A m \in Mvpns : gtd[m] # NONE => gtd'[m] # NONE)
    OBVIOUS
  <2>2. rec.pc \notin WithPage \cup {"assert"} /\ f = wt[w].frame /\ wt[w].pc \in Working
    BY <1>1, <1>10 DEF f
  <2> QED BY <1>1, <1>2, <1>3, <1>7, <1>8, <1>9, <2>1, <2>2, ReleaseKeeps
<1>12. ASSUME Roomy PROVE Mapping' /\ Remaps(<<wt[w].mvpn, t.lpa[2]>>, p, t.bitmap)
  <2>1. z.entries = Updated(xpgs[f].entries, t.lpa[2], p, t.bitmap)
    BY <1>7, <1>8
  <2>2. Pages /\ FlashOK /\ CleanMatchesFlash /\ NoAliasing /\ Saves /\ Types /\ Lists
    BY <1>12 DEF Inv, Mapping
  <2>3. /\ wt[w].frame = f /\ rec.pc # "read_xpg" /\ z.mvpn = xpgs[f].mvpn
        /\ z.in_tree = xpgs[f].in_tree
    BY <1>7, <1>8, <1>10 DEF f
  <2>4. z.dirty
    BY <1>7, <1>8
  <2>6. UNCHANGED <<gtd, table, setup, evicted>>
    OBVIOUS
  <2>9. xpgs[f].mvpn = wt[w].mvpn
    BY <1>1, <2>2, <2>3 DEF Pages, Held, WithPage
  <2>7. /\ FlashOK' /\ CleanMatchesFlash' /\ NoAliasing'
        /\ Remaps(<<xpgs[f].mvpn, t.lpa[2]>>, p, t.bitmap)
    BY <1>1, <1>2, <1>9, <1>11, <1>12, <2>1, <2>2, <2>3, <2>4, <2>6, MapMapping
  <2>8. Saves'
    <3>1. \/ wt[w].pc \in {"page", "read_xpg", "update_read", "submit"}
          \/ wt[w].pc = "locked" /\ wt[w].ret # "save"
      OBVIOUS
    <3> QED BY <2>2, <3>1, NotSaving
  <2> QED BY <2>7, <2>8, <2>9 DEF Mapping
<1>13. used' # used
  BY <1>2
<1>14. Inv'
  BY <1>9, <1>11, <1>12 DEF Inv, Roomy
<1> QED BY <1>12, <1>13, <1>14 DEF p

\* The transaction a worker is at.
LEMMA CurrentTxn ==
    ASSUME Inv, NEW w \in Workers, wt[w].i \in 1..Len(wt[w].txns) PROVE IsTxn(Txn(w))
BY Here DEF IsCall, IsTxns, IsTxn, Txn

\* alloc_page_for_write: a partial overwrite reads the old page first.
LEMMA AllocPageKeeps ==
    ASSUME Inv, NEW w \in Workers, AllocPage(w) PROVE Inv' /\ (used' = used => Steady)
<1>1. wt[w].pc = "locked" /\ wt[w].ret = "alloc" /\ IsCall(wt[w]) /\ wt[w].mvpn \in Mvpns
  BY Here DEF AllocPage, Running
<1>2. CASE NeedsUpdateRead(w)
  <2> DEFINE rec == [wt[w] EXCEPT !.pc = "update_read"]
  <2>1. IsCall(rec) /\ rec.pc = "update_read" /\ rec.frame = wt[w].frame /\ rec.mvpn = wt[w].mvpn
    BY <1>1 DEF IsCall
  <2>2. /\ wt' = [wt EXCEPT ![w] = rec] /\ UNCHANGED saved
        /\ UNCHANGED <<setup, evicted, gtd, xpgs, lru, used, table>>
    BY <1>2 DEF AllocPage, Wait
  <2> HIDE DEF rec
  <2>3. Roomy => rec.pc # "assert" /\ Saves'
    BY <1>1, <2>1, <2>2, NotSaving DEF Inv, Mapping
  <2> QED BY <1>1, <2>1, <2>2, <2>3, MoveKeeps DEF Working
<1>3. CASE ~NeedsUpdateRead(w)
  BY <1>1, <1>3, MapKeeps, CurrentTxn DEF AllocPage
<1> QED BY <1>2, <1>3

\* The old page has been read, or not.
LEMMA UpdateReadKeeps ==
    ASSUME Inv, NEW w \in Workers, UpdateRead(w) PROVE Inv' /\ (used' = used => Steady)
<1>1. wt[w].pc = "update_read" /\ IsCall(wt[w]) /\ UNCHANGED <<setup, evicted, gtd, table, saved>>
  BY Here DEF UpdateRead, Resumes
<1> DEFINE t == Txn(w)
           rest == Entry(w).bitmap \ t.bitmap
           u == [t EXCEPT !.bitmap = @ \cup rest,
                          !.data = [s \in Sectors |-> IF s \in rest THEN data[Entry(w).ppa][s]
                                                      ELSE t.data[s]]]
<1>2. CASE MapPage(w, u)
  <2>1. wt[w].i \in 1..Len(wt[w].txns) => IsTxn(u)
    <3> HIDE DEF t, rest
    <3>1. wt[w].i \in 1..Len(wt[w].txns) => IsTxn(t)
      BY CurrentTxn DEF t
    <3> QED BY <3>1 DEF IsTxn
  <2> HIDE DEF u
  <2> QED BY <1>1, <1>2, <2>1, MapKeeps
<1>3. CASE /\ xpgs[wt[w].frame].pin > 0 /\ lru' = LruUnpin(wt[w].frame)
           /\ xpgs' = [xpgs EXCEPT ![wt[w].frame] = Released(@, w)]
           /\ Fail(w, 1..(wt[w].i - 1)) /\ UNCHANGED used
  <2>1. wt' = [wt EXCEPT ![w] = Idle] /\ IsCall(Idle) /\ Idle.pc \notin WithPage \cup {"assert"}
    BY <1>3, CallIdle DEF Fail, Wait, WithPage, Working
  <2>2. Roomy => Saves'
    BY <1>1, NotSaving DEF Inv, Mapping
  <2>3. wt[w].pc \in Working \ {"read_xpg"}
    BY <1>1 DEF Working
  <2>4. UNCHANGED <<setup, evicted, gtd, used, table>>
    BY <1>1, <1>3
  <2> QED BY <1>3, <2>1, <2>2, <2>3, <2>4, UnlockKeeps
<1> QED BY <1>2, <1>3 DEF UpdateRead

\* mutex_lock returns.
LEMMA LockGrantedKeeps == ASSUME Inv, NEW w \in Workers, LockGranted(w) PROVE Inv' /\ Steady
<1> DEFINE rec == [wt[w] EXCEPT !.pc = "locked"]
<1>1. /\ wt[w].pc = "lock_wait" /\ IsCall(wt[w]) /\ wt[w].mvpn \in Mvpns
      /\ xpgs[wt[w].frame].owner = w
  BY Here DEF LockGranted, Resumes
<1>2. /\ IsCall(rec) /\ rec.pc = "locked" /\ rec.frame = wt[w].frame /\ rec.mvpn = wt[w].mvpn
      /\ rec.ret = wt[w].ret
  BY <1>1 DEF IsCall
<1>3. /\ wt' = [wt EXCEPT ![w] = rec] /\ UNCHANGED saved
      /\ UNCHANGED <<setup, evicted, gtd, xpgs, lru, used, table>>
  BY DEF LockGranted, Goto
<1> HIDE DEF rec
<1>4. Roomy => rec.pc # "assert" /\ Saves'
  <2>1. Moved(w, rec)
    BY <1>2, <1>3, MoveTypes DEF Inv
  <2>2. Saver(w) => /\ rec.ret = "save"
                    /\ \A g \in Frames :
                         xpgs'[g].in_tree /\ xpgs'[g].mvpn <= rec.mvpn /\ xpgs'[g].dirty =>
                           xpgs'[g].mvpn = rec.mvpn
    BY <1>1, <1>2, <1>3 DEF Saver
  <2> QED BY <1>1, <1>2, <1>3, <2>1, <2>2, SaverGoesOn DEF Inv, Mapping
<1> QED BY <1>1, <1>2, <1>3, <1>4, MoveKeeps DEF Working

\* get_ppa of a read translates, and allocates a page that was never written.
LEMMA GetPpaKeeps == ASSUME Inv, NEW w \in Workers, GetPpa(w) PROVE Inv' /\ Steady
<1> DEFINE f == wt[w].frame
<1>1. /\ wt[w].pc = "locked" /\ wt[w].ret = "get_ppa" /\ IsCall(wt[w]) /\ wt[w].mvpn \in Mvpns
      /\ wt[w].pc \in Working \ {"read_xpg"}
  BY Here DEF GetPpa, Running, Working
<1>2. /\ xpgs[f].pin > 0 /\ xpgs' = [xpgs EXCEPT ![f] = Released(xpgs[f], w)]
      /\ lru' = LruUnpin(f) /\ UNCHANGED <<setup, evicted, gtd, used, table>> /\ UNCHANGED saved
  BY DEF GetPpa
<1>3. \E rec : IsCall(rec) /\ rec.pc \in {"page", "submit"} /\ wt' = [wt EXCEPT ![w] = rec]
  <2>1. CASE Entry(w).ppa = NONE
    <3> DEFINE rec == [wt[w] EXCEPT !.pc = "page", !.ret = "alloc"]
    <3>1. IsCall(rec) /\ rec.pc = "page"
      BY <1>1 DEF IsCall
    <3>2. wt' = [wt EXCEPT ![w] = rec]
      BY <2>1 DEF GetPpa, Goto
    <3> HIDE DEF rec
    <3> QED BY <3>1, <3>2
  <2>2. CASE Entry(w).ppa # NONE
    <3> DEFINE e == Entry(w).ppa
               u == [Txn(w) EXCEPT !.ppa = e]
               r == [wt[w] EXCEPT !.txns[wt[w].i] = u]
    <3>1. Translated(w, r)
      BY <2>2 DEF GetPpa, Txn
    <3> HIDE DEF e
    <3>2. wt[w].i \in 1..Len(wt[w].txns) => IsTxn(u)
      BY CurrentTxn DEF IsTxn
    <3> HIDE DEF u
    <3>3. IsCall(r) /\ r.mvpn = wt[w].mvpn
      BY <1>1, <3>2, CallTxn
    <3> HIDE DEF r
    <3> QED BY <1>1, <3>1, <3>3, TranslatedMoves
  <2> QED BY <2>1, <2>2
<1>4. PICK rec : IsCall(rec) /\ rec.pc \in {"page", "submit"} /\ wt' = [wt EXCEPT ![w] = rec]
  BY <1>3
<1>5. rec.pc \notin WithPage \cup {"assert"}
  BY <1>4 DEF WithPage, Working
<1>6. Roomy => Saves'
  BY <1>1, <1>2, NotSaving DEF Inv, Mapping
<1> QED BY <1>1, <1>2, <1>4, <1>5, <1>6, UnlockKeeps

\* The assertion of xpc_unpin fails only after an eviction or a failed read.
LEMMA AssertFailsKeeps == ASSUME Inv, NEW w \in Workers, AssertFails(w) PROVE Inv' /\ Steady
<1> DEFINE rec == [wt[w] EXCEPT !.pc = "assert"]
<1>1. /\ wt[w].pc \in {"locked", "update_read"} /\ IsCall(wt[w]) /\ wt[w].mvpn \in Mvpns
      /\ wt[w].frame \in Frames /\ IsPage(xpgs[wt[w].frame]) /\ xpgs[wt[w].frame].pin = 0
  BY Here DEF AssertFails, Running, Resumes, WithPage, Working
<1>2. IsCall(rec) /\ rec.pc = "assert"
  BY <1>1 DEF IsCall
<1>3. wt' = [wt EXCEPT ![w] = rec] /\ UNCHANGED <<setup, evicted, gtd, xpgs, lru, used, table>>
  BY DEF AssertFails, Goto
<1>4. ~Roomy
  <2> SUFFICES ASSUME Roomy PROVE FALSE
    OBVIOUS
  <2>1. xpgs[wt[w].frame].owner = w /\ Counted(xpgs[wt[w].frame])
    BY <1>1 DEF Inv, Pages, Held, Working
  <2> QED BY SMT, <1>1, <2>1, CountedReleased
<1> HIDE DEF rec
<1> QED BY <1>1, <1>2, <1>3, <1>4, MoveKeeps DEF WithPage, Working

\* The index of the next transaction.
LEMMA NextTxn == \A i \in Nat \ {0} : i + 1 \in Nat \ {0}
BY SMT

\* The transactions are executed one after the other.
LEMMA SubmitKeeps == ASSUME Inv, NEW w \in Workers, Submit(w) PROVE Inv' /\ Steady
<1>1. /\ wt[w].pc = "submit" /\ IsCall(wt[w]) /\ wt[w].mvpn \in Mvpns /\ UNCHANGED saved
      /\ UNCHANGED <<setup, evicted, gtd, xpgs, lru, used, table>>
  BY Here DEF Submit, Resumes
<1>2. Roomy => Saves'
  BY <1>1, NotSaving DEF Inv, Mapping
<1>3. CASE wt' = [wt EXCEPT ![w] = Idle]
  BY <1>1, <1>2, <1>3, CallIdle, MoveKeeps DEF WithPage, Working
<1>4. CASE wt' = [wt EXCEPT ![w] = [wt[w] EXCEPT !.i = @ + 1]]
  <2> DEFINE rec == [wt[w] EXCEPT !.i = @ + 1]
  <2>1. IsCall(rec) /\ rec.pc = "submit"
    BY <1>1, NextTxn DEF IsCall
  <2>2. wt' = [wt EXCEPT ![w] = rec]
    BY <1>4
  <2> HIDE DEF rec
  <2> QED BY <1>1, <1>2, <2>1, <2>2, MoveKeeps DEF WithPage, Working
<1> QED BY <1>3, <1>4 DEF Submit, Wait, Fail

\* amu_save_domain begins.
LEMMA SaveDomainKeeps == ASSUME Inv, NEW w \in Workers, SaveDomain(w) PROVE Inv' /\ Steady
<1> DEFINE rec == [Idle EXCEPT !.pc = "scan"]
<1>1. IsCall(rec) /\ rec.pc = "scan" /\ rec.mvpn = -1
  BY CallIdle
<1>2. /\ wt[w].pc = "idle" /\ wt' = [wt EXCEPT ![w] = rec]
      /\ saved' = IF \A v \in Workers : wt[v] = Idle THEN "saving" ELSE "no"
      /\ UNCHANGED <<setup, evicted, gtd, xpgs, lru, used, table>>
  BY DEF SaveDomain, Resumes, Goto
<1> HIDE DEF rec
<1>3. Saves'
  <2>1. Moved(w, rec)
    BY <1>1, <1>2, MoveTypes DEF Inv
  <2>2. \A g \in Frames : xpgs'[g].in_tree => ~(xpgs'[g].mvpn <= -1)
    <3>1. \A g \in Frames : xpgs[g].in_tree => xpgs[g].mvpn \in Nat
      BY AmuAssumption DEF Inv, Types, IsPage
    <3> QED BY SMT, <1>2, <3>1
  <2>3. ASSUME saved' = "saving", NEW v \in Workers, wt'[v] # Idle PROVE Saver(v)'
    <3>1. \A u \in Workers : wt[u] = Idle
      BY <1>2, <2>3
    <3>2. v = w /\ wt'[w] = rec /\ \A u \in Workers : wt'[u] # Idle => u = w
      BY <2>1, <2>3, <3>1 DEF Moved
    <3> QED BY <1>1, <2>2, <3>2 DEF Saver
  <2> QED BY <1>2, <2>3 DEF Saves
<1> QED BY <1>1, <1>2, <1>3, MoveKeeps DEF WithPage, Working

\* get_translation_page adds a page: new, or to be read from flash.
LEMMA AddPageKeeps == ASSUME Inv, NEW w \in Workers, AddPage(w) PROVE Inv' /\ Steady
<1> DEFINE unused == {g \in Frames : xpgs[g].mvpn = NONE}
           f == Min(unused)
           m == wt[w].mvpn
           z == [NoPage EXCEPT !.mvpn = m, !.in_tree = TRUE, !.pin = 1, !.owner = w,
                               !.dirty = (gtd[m] = NONE)]
           c == IF gtd[m] = NONE THEN "locked" ELSE "read_xpg"
           rec == [wt[w] EXCEPT !.pc = c, !.frame = f]
<1>1. /\ wt[w].pc = "page" /\ IsCall(wt[w]) /\ m \in Mvpns /\ Found(m) = {}
      /\ UNCHANGED <<setup, evicted, gtd, lru, used, table, saved>>
  BY Here DEF AddPage, Running
<1>2. f \in Frames /\ xpgs[f].mvpn = NONE
  <2>1. unused \in SUBSET Nat /\ unused # {}
    BY AmuAssumption DEF AddPage
  <2> HIDE DEF unused
  <2>2. f \in unused
    BY <2>1, MinOfNat
  <2> QED BY <2>2 DEF unused
<1>3. xpgs' = [xpgs EXCEPT ![f] = z] /\ wt' = [wt EXCEPT ![w] = rec]
  BY DEF AddPage, Goto, Wait
<1> HIDE DEF f, c
<1>4. IsCall(rec) /\ rec.pc = c /\ rec.frame = f /\ rec.mvpn = m
  BY <1>1 DEF IsCall
<1> HIDE DEF rec
<1>5. /\ z = [s \in Fields |-> z[s]] /\ z.mvpn = m /\ z.in_tree /\ z.pin = 1 /\ z.owner = w
      /\ z.dirty = (gtd[m] = NONE) /\ z.waiters = <<>> /\ z.entries = [s \in Slots |-> NoEntry]
  BY DEF NoPage, Fields
<1> HIDE DEF z
<1>6. IsPage(z) /\ z.mvpn # NONE
  <2>1. m # NONE
    BY <1>1, AmuAssumption
  <2>2. z.entries = [s \in Slots |-> z.entries[s]]
    BY <1>5
  <2> QED BY SMT, <1>1, <1>5, <2>1, <2>2 DEF IsPage
<1>7. Types' /\ Moved(w, rec) /\ Put(f, z)
  BY <1>2, <1>3, <1>4, <1>6, PutTypes DEF Inv
<1>8. rec.pc \in {"locked", "read_xpg"} /\ (rec.pc = "read_xpg" => gtd[m] # NONE)
  BY <1>4 DEF c
<1>9. Lists'
  BY <1>1, <1>2, <1>4, <1>5, <1>6, <1>7, <1>8, AddLists DEF Inv
<1>10. ASSUME Roomy PROVE Pages' /\ Mapping' /\ \A l \in Lpas : Stays(l)
  <2>1. Types /\ Lists /\ Pages /\ FlashOK /\ CleanMatchesFlash /\ NoAliasing /\ Saves
    BY <1>10 DEF Inv, Mapping
  <2>2. Pages'
    BY <1>1, <1>2, <1>4, <1>5, <1>7, <1>8, <1>10, <2>1, AddPages
  <2>3. FlashOK' /\ CleanMatchesFlash' /\ NoAliasing' /\ \A l \in Lpas : Stays(l)
    <3>1. rec.pc = (IF gtd[m] = NONE THEN "locked" ELSE "read_xpg") /\ rec.frame = f
      BY <1>4 DEF c
    <3> QED BY <1>1, <1>2, <1>5, <1>7, <1>10, <2>1, <2>2, <3>1, AddMapping
  <2>4. Saves'
    BY <1>1, <2>1, NotSaving
  <2> QED BY <2>2, <2>3, <2>4 DEF Mapping
<1> QED BY <1>1, <1>7, <1>9, <1>10 DEF Inv, Roomy, Steady

\* xpc_read_page succeeds, or fails and leaves the page behind.
LEMMA ReadPageKeeps == ASSUME Inv, NEW w \in Workers, ReadPage(w) PROVE Inv' /\ Steady
<1> DEFINE f == wt[w].frame
           m == wt[w].mvpn
           rec == [wt[w] EXCEPT !.pc = "locked"]
<1>1. /\ wt[w].pc = "read_xpg" /\ IsCall(wt[w]) /\ m \in Mvpns /\ f \in Frames
      /\ IsPage(xpgs[f]) /\ xpgs[f].pin > 0 /\ wt[w].pc \in Working
  BY Here DEF ReadPage, Resumes, WithPage, Working, Inv, Lists, Hand
<1>2. /\ wt' = [wt EXCEPT ![w] = rec] /\ UNCHANGED <<setup, evicted, gtd, used, table, saved>>
  BY DEF ReadPage, Goto
<1>3. IsCall(rec) /\ rec.pc = "locked" /\ rec.frame = f /\ rec.mvpn = m
  BY <1>1 DEF IsCall
<1> HIDE DEF rec
<1>4. CASE xpgs' = [xpgs EXCEPT ![f].entries = FromFlash(table[gtd[m]])] /\ lru' = lru
  <2> DEFINE es == FromFlash(table[gtd[m]])
             z == [xpgs[f] EXCEPT !.entries = es]
  <2>1. xpgs' = [xpgs EXCEPT ![f] = z]
    BY <1>1, <1>4 DEF Inv, Types
  <2>2. es = [s \in Slots |-> es[s]]
    BY DEF FromFlash
  <2> HIDE DEF es
  <2>3. /\ z = [s \in Fields |-> z[s]] /\ z.mvpn = xpgs[f].mvpn /\ z.in_tree = xpgs[f].in_tree
        /\ z.pin = xpgs[f].pin /\ z.owner = xpgs[f].owner /\ z.dirty = xpgs[f].dirty
        /\ z.waiters = xpgs[f].waiters /\ z.entries = es
    BY <1>1 DEF IsPage, Fields
  <2> HIDE DEF z
  <2>4. IsPage(z)
    BY <1>1, <2>2, <2>3 DEF IsPage
  <2>5. Types' /\ Moved(w, rec) /\ Put(f, z)
    BY <1>1, <1>2, <1>3, <2>1, <2>4, PutTypes DEF Inv
  <2>6. Lists'
    BY <1>1, <1>3, <1>4, <2>3, <2>5, ReadLists DEF Inv
  <2>7. ASSUME Roomy PROVE Pages' /\ Mapping' /\ \A l \in Lpas : Stays(l)
    <3>1. Types /\ Lists /\ Pages /\ FlashOK /\ CleanMatchesFlash /\ NoAliasing /\ Saves
      BY <2>7 DEF Inv, Mapping
    <3>2. Pages'
      BY <1>1, <1>2, <1>3, <1>4, <2>3, <2>5, <3>1, ReadPages
    <3>3. z.entries = FromFlash(table[gtd[wt[w].mvpn]])
      BY <2>3 DEF es
    <3>4. FlashOK' /\ CleanMatchesFlash' /\ NoAliasing' /\ \A l \in Lpas : Stays(l)
      BY <1>1, <1>2, <1>3, <2>3, <2>5, <2>7, <3>1, <3>2, <3>3, ReadMapping
    <3>5. Saves'
      BY <1>1, <1>2, <3>1, NotSaving
    <3> QED BY <3>2, <3>4, <3>5 DEF Mapping
  <2> QED BY <1>2, <2>5, <2>6, <2>7 DEF Inv, Roomy, Steady
<1>5. ASSUME "xpg_read" \in setup.faults, lru' = LruUnpin(f),
             NEW garbage \in [Slots -> [ppa : Garbage, bitmap : {Sectors}]],
             xpgs' = [xpgs EXCEPT ![f] = [Released(xpgs[f], w) EXCEPT
                                             !.in_tree = FALSE, !.entries = garbage]]
      PROVE  Inv' /\ Steady
  <2> DEFINE y == Released(xpgs[f], w)
             z == [y EXCEPT !.in_tree = FALSE, !.entries = garbage]
  <2>1. xpgs' = [xpgs EXCEPT ![f] = z]
    BY <1>5
  <2>2. IsPage(y) /\ y.mvpn = xpgs[f].mvpn /\ y.pin = xpgs[f].pin - 1
    BY <1>1, ReleasedPage
  <2> HIDE DEF y
  <2>3. /\ z = [s \in Fields |-> z[s]] /\ z.mvpn = y.mvpn /\ z.in_tree = FALSE
        /\ z.pin = y.pin /\ z.entries = garbage
    BY <2>2 DEF IsPage, Fields
  <2> HIDE DEF z
  <2>4. IsPage(z)
    <3>1. garbage = [s \in Slots |-> garbage[s]]
      OBVIOUS
    <3> QED BY <2>2, <2>3, <3>1 DEF IsPage
  <2>5. Types' /\ Moved(w, rec) /\ Put(f, z)
    BY <1>1, <1>2, <1>3, <2>1, <2>4, PutTypes DEF Inv
  <2>6. z.pin = xpgs[f].pin - 1 /\ z.mvpn = xpgs[f].mvpn /\ (z.in_tree => xpgs[f].in_tree)
    BY <2>2, <2>3
  <2>7. Lists'
    BY <1>1, <1>3, <1>5, <2>5, <2>6, ReleaseLists DEF Inv
  <2> QED BY <1>2, <1>5, <2>5, <2>7 DEF Inv, Roomy, Steady
<1> QED BY <1>4, <1>5 DEF ReadPage

\* The cache is full: nothing can be evicted, or xpc_evict takes the last page of
\* the list; from then on only the list matters.
LEMMA EvictPageKeeps == ASSUME Inv, NEW w \in Workers, EvictPage(w) PROVE Inv' /\ Steady
<1> DEFINE f == lru[Len(lru)]
           m == wt[w].mvpn
<1>1. /\ wt[w].pc = "page" /\ IsCall(wt[w]) /\ m \in Mvpns /\ m # NONE
      /\ UNCHANGED <<setup, gtd, used, table, saved>> /\ Distinct(lru)
  BY Here, AmuAssumption DEF EvictPage, Running, Inv, Lists
<1>2. Roomy => Saves'
  BY <1>1, NotSaving DEF Inv, Mapping
<1>3. CASE wt' = [wt EXCEPT ![w] = Idle] /\ UNCHANGED <<xpgs, lru, evicted>>
  BY <1>1, <1>2, <1>3, CallIdle, MoveKeeps DEF WithPage, Working
<1>4. ASSUME lru # <<>>
      PROVE  /\ f \in Range(lru) /\ f \in Frames /\ IsPage(xpgs[f]) /\ xpgs[f].pin = 0
             /\ Distinct(Unlinked(lru, f)) /\ Range(Unlinked(lru, f)) = Range(lru) \ {f}
             /\ \A v \in Workers : wt[v].pc = "evict_flush" => wt[v].frame # f
  <2>1. f \in Range(lru) /\ f \in Frames
    BY <1>1, <1>4, LastOnList, OnFrames
  <2> HIDE DEF f
  <2> QED BY <1>1, <2>1, UnlinkedDistinct DEF Inv, Types, Lists, Hand
<1>5. CASE /\ lru # <<>> /\ evicted' /\ xpgs' = [xpgs EXCEPT ![f].in_tree = FALSE]
           /\ lru' = Unlinked(lru, f)
           /\ wt' = [wt EXCEPT ![w] = [wt[w] EXCEPT !.pc = "evict_flush", !.frame = f]]
  <2> DEFINE z == [xpgs[f] EXCEPT !.in_tree = FALSE]
             rec == [wt[w] EXCEPT !.pc = "evict_flush", !.frame = f]
  <2> HIDE DEF f
  <2>1. xpgs' = [xpgs EXCEPT ![f] = z] /\ wt' = [wt EXCEPT ![w] = rec]
    BY <1>4, <1>5 DEF Inv, Types
  <2>2. IsCall(rec) /\ rec.pc = "evict_flush" /\ rec.frame = f
    BY <1>1 DEF IsCall
  <2>3. /\ z = [s \in Fields |-> z[s]] /\ z.mvpn = xpgs[f].mvpn /\ z.in_tree = FALSE
        /\ z.pin = xpgs[f].pin /\ z.entries = xpgs[f].entries
    BY <1>4, <1>5 DEF IsPage, Fields
  <2> HIDE DEF z, rec
  <2>4. IsPage(z)
    <3>1. z.mvpn \in Mvpns /\ z.pin \in Nat
      BY <1>4, <1>5, <2>3 DEF IsPage, Inv, Lists
    <3>2. IsPage(xpgs[f]) /\ z = [s \in Fields |-> z[s]] /\ z.entries = xpgs[f].entries
      BY <1>4, <1>5, <2>3
    <3> QED BY <3>1, <3>2, PageReused
  <2>5. Types' /\ Moved(w, rec) /\ Put(f, z)
    <3>1. f \in Frames
      BY <1>4, <1>5
    <3> QED BY <2>1, <2>2, <2>4, <3>1, PutTypes DEF Inv
  <2>6. Lists'
    BY <1>4, <1>5, <2>2, <2>3, <2>5, EvictLists DEF Inv
  <2> QED BY <1>1, <1>5, <2>5, <2>6 DEF Inv, Roomy, Steady
<1>6. CASE lru # <<>> /\ evicted' /\ Reuse(w, f, m) /\ lru' = Unlinked(lru, f)
  <2> DEFINE z == [xpgs[f] EXCEPT !.mvpn = m, !.in_tree = TRUE, !.pin = 1, !.owner = w]
             rec == [wt[w] EXCEPT !.pc = "locked", !.frame = f]
  <2> HIDE DEF f
  <2>1. xpgs' = [xpgs EXCEPT ![f] = z] /\ wt' = [wt EXCEPT ![w] = rec]
    BY <1>4, <1>6 DEF Inv, Types, Reuse, Goto
  <2>2. IsCall(rec) /\ rec.pc = "locked" /\ rec.frame = f
    BY <1>1 DEF IsCall
  <2>3. /\ z = [s \in Fields |-> z[s]] /\ z.mvpn = m /\ z.pin = 1 /\ z.entries = xpgs[f].entries
    BY <1>4, <1>6 DEF IsPage, Fields
  <2> HIDE DEF z, rec
  <2>4. IsPage(z)
    BY SMT, <1>1, <1>4, <1>6, <2>3, PageReused
  <2>5. Types' /\ Moved(w, rec) /\ Put(f, z)
    BY <1>4, <1>6, <2>1, <2>2, <2>4, PutTypes DEF Inv
  <2>6. /\ z.mvpn # NONE /\ Distinct(lru') /\ Range(lru') \subseteq Range(lru) \ {f}
        /\ \A v \in Workers \ {w} : wt[v].pc = "evict_flush" => wt[v].frame # f
    BY <1>1, <1>4, <1>6, <2>3
  <2>7. Lists'
    <3>1. Types /\ Lists /\ xpgs[f].pin = 0 /\ z.pin = 1 /\ f \in Frames
      BY <1>4, <1>6, <2>3 DEF Inv
    <3> QED BY SMT, <2>2, <2>5, <2>6, <3>1, ReuseLists
  <2> QED BY <1>1, <1>6, <2>5, <2>7 DEF Inv, Roomy, Steady
<1> QED BY <1>3, <1>5, <1>6 DEF EvictPage, Fail, Wait

\* The evicted page has been flushed and is used again.
LEMMA EvictFlushedKeeps == ASSUME Inv, NEW w \in Workers, EvictFlushed(w) PROVE Inv' /\ Steady
<1> DEFINE f == wt[w].frame
           m == wt[w].mvpn
<1>1. /\ wt[w].pc = "evict_flush" /\ IsCall(wt[w]) /\ m \in Mvpns /\ m # NONE
      /\ f \in Frames /\ IsPage(xpgs[f]) /\ UNCHANGED <<setup, evicted, lru>>
  BY Here, AmuAssumption DEF EvictFlushed, Resumes, WithPage
<1>2. ~Roomy
  BY <1>1 DEF Inv, Pages, Held
<1>3. /\ xpgs[f].pin = 0 /\ f \notin Range(lru) /\ Distinct(lru)
      /\ \A v \in Workers \ {w} : wt[v].pc = "evict_flush" => wt[v].frame # f
  BY <1>1 DEF Inv, Lists, Hand, Alone
<1>4. \E rec : IsCall(rec) /\ rec.pc = "locked" /\ rec.frame = f /\ wt' = [wt EXCEPT ![w] = rec]
  <2>1. CASE wt' = [wt EXCEPT ![w] = [wt[w] EXCEPT !.pc = "locked"]]
    <3> DEFINE rec == [wt[w] EXCEPT !.pc = "locked"]
    <3>1. IsCall(rec) /\ rec.pc = "locked" /\ rec.frame = f
      BY <1>1 DEF IsCall
    <3> HIDE DEF rec
    <3>2. wt' = [wt EXCEPT ![w] = rec]
      BY <2>1 DEF rec
    <3> QED BY <3>1, <3>2
  <2>2. CASE wt' = [wt EXCEPT ![w] = [wt[w] EXCEPT !.pc = "locked", !.frame = f]]
    <3> DEFINE rec == [wt[w] EXCEPT !.pc = "locked", !.frame = f]
    <3>1. IsCall(rec) /\ rec.pc = "locked" /\ rec.frame = f
      BY <1>1 DEF IsCall
    <3> HIDE DEF rec
    <3>2. wt' = [wt EXCEPT ![w] = rec]
      BY <2>2 DEF rec
    <3> QED BY <3>1, <3>2
  <2> QED BY <2>1, <2>2 DEF EvictFlushed, Reuse, Goto
<1>5. \E z : IsPage(z) /\ z.mvpn = m /\ z.pin = 1 /\ xpgs' = [xpgs EXCEPT ![f] = z]
  <2>1. CASE xpgs' = [xpgs EXCEPT ![f].mvpn = m, ![f].dirty = FALSE, ![f].in_tree = TRUE,
                                  ![f].pin = 1, ![f].owner = w]
    <3> DEFINE z == [xpgs[f] EXCEPT !.mvpn = m, !.dirty = FALSE, !.in_tree = TRUE, !.pin = 1,
                                    !.owner = w]
    <3>1. xpgs' = [xpgs EXCEPT ![f] = z]
      BY <1>1, <2>1 DEF Inv, Types
    <3>2. z = [s \in Fields |-> z[s]] /\ z.mvpn = m /\ z.pin = 1 /\ z.entries = xpgs[f].entries
      BY <1>1 DEF IsPage, Fields
    <3> HIDE DEF z
    <3>3. IsPage(z)
      BY SMT, <1>1, <3>2, PageReused
    <3> QED BY <3>1, <3>2, <3>3
  <2>2. CASE xpgs' = [xpgs EXCEPT ![f].mvpn = m, ![f].in_tree = TRUE, ![f].pin = 1, ![f].owner = w]
    <3> DEFINE z == [xpgs[f] EXCEPT !.mvpn = m, !.in_tree = TRUE, !.pin = 1, !.owner = w]
    <3>1. xpgs' = [xpgs EXCEPT ![f] = z]
      BY <1>1, <2>2 DEF Inv, Types
    <3>2. z = [s \in Fields |-> z[s]] /\ z.mvpn = m /\ z.pin = 1 /\ z.entries = xpgs[f].entries
      BY <1>1 DEF IsPage, Fields
    <3> HIDE DEF z
    <3>3. IsPage(z)
      BY SMT, <1>1, <3>2, PageReused
    <3> QED BY <3>1, <3>2, <3>3
  <2> QED BY <2>1, <2>2 DEF EvictFlushed, Reuse
<1>6. PICK rec : IsCall(rec) /\ rec.pc = "locked" /\ rec.frame = f /\ wt' = [wt EXCEPT ![w] = rec]
  BY <1>4
<1>7. PICK z : IsPage(z) /\ z.mvpn = m /\ z.pin = 1 /\ xpgs' = [xpgs EXCEPT ![f] = z]
  BY <1>5
<1> HIDE DEF f, m
<1>8. Types' /\ Moved(w, rec) /\ Put(f, z)
  BY <1>1, <1>6, <1>7, PutTypes DEF Inv
<1>9. Lists'
  <2>1. Distinct(lru') /\ Range(lru') \subseteq Range(lru) \ {f} /\ z.mvpn # NONE
    BY <1>1, <1>3, <1>7
  <2>2. Types /\ Lists /\ xpgs[f].pin = 0 /\ z.pin = 1 /\ f \in Frames
    BY <1>1, <1>3, <1>7 DEF Inv
  <2> QED BY SMT, <1>3, <1>6, <1>8, <2>1, <2>2, ReuseLists
<1> QED BY <1>1, <1>2, <1>8, <1>9 DEF Inv, Roomy, Steady

\* What the walk of flush_domain, at mvpn r, has before it, and what it comes to
\* next.
Ahead(r) == {g \in Frames : xpgs[g].in_tree /\ xpgs[g].mvpn > r}
NextAhead(r) == CHOOSE g \in Ahead(r) : \A h \in Ahead(r) : xpgs[g].mvpn <= xpgs[h].mvpn

\* The walk of flush_domain comes to the least mvpn ahead of it.
LEMMA NextToSave ==
    ASSUME Types, NEW r \in Int, Ahead(r) # {}
    PROVE  LET f == NextAhead(r)
           IN  /\ f \in Frames /\ xpgs[f].in_tree /\ xpgs[f].mvpn \in Mvpns
               /\ \A g \in Frames : xpgs[g].in_tree => \/ xpgs[g].mvpn <= r
                                                       \/ xpgs[f].mvpn <= xpgs[g].mvpn
<1> DEFINE S == {xpgs[g].mvpn : g \in Ahead(r)}
           f == NextAhead(r)
<1>1. \A g \in Frames : xpgs[g].in_tree => xpgs[g].mvpn \in Mvpns /\ xpgs[g].mvpn \in Nat
  BY InTreeMvpn, MvpnIsInt
<1>2. S \in SUBSET Nat /\ S # {}
  BY <1>1 DEF Ahead
<1>3. PICK x \in S : \A y \in S : x <= y
  BY <1>2, LeastOfNat
<1>4. \E g \in Ahead(r) : \A h \in Ahead(r) : xpgs[g].mvpn <= xpgs[h].mvpn
  BY <1>3
<1>5. f \in Ahead(r) /\ \A h \in Ahead(r) : xpgs[f].mvpn <= xpgs[h].mvpn
  BY <1>4 DEF NextAhead
<1> HIDE DEF f
<1>6. f \in Frames /\ xpgs[f].in_tree /\ xpgs[f].mvpn \in Mvpns
  BY <1>1, <1>5 DEF Ahead
<1>7. ASSUME NEW g \in Frames, xpgs[g].in_tree, ~(xpgs[g].mvpn <= r)
      PROVE  xpgs[f].mvpn <= xpgs[g].mvpn
  <2>1. g \in Ahead(r)
    BY SMT, <1>1, <1>7 DEF Ahead
  <2> QED BY <1>5, <2>1
<1> QED BY <1>6, <1>7 DEF f

\* flush_domain takes the next page, a dirty one to be flushed.
LEMMA FlushDomainKeeps == ASSUME Inv, NEW w \in Workers, FlushDomain(w) PROVE Inv' /\ Steady
<1> DEFINE f == NextAhead(wt[w].mvpn)
           r == [wt[w] EXCEPT !.mvpn = xpgs[f].mvpn, !.ret = "save"]
<1>1. /\ wt[w].pc = "scan" /\ IsCall(wt[w]) /\ wt[w].mvpn \in Int /\ Ahead(wt[w].mvpn) # {} /\ UNCHANGED saved
      /\ UNCHANGED <<setup, evicted, gtd, used, table>>
  BY Here DEF FlushDomain, Running, IsCall, Ahead
<1>2. IF xpgs[f].dirty THEN PinAndLock(w, f, r) ELSE Goto(w, r) /\ UNCHANGED <<xpgs, lru>>
  BY DEF FlushDomain, Ahead, NextAhead
<1>3. /\ f \in Frames /\ xpgs[f].in_tree /\ xpgs[f].mvpn \in Mvpns
      /\ \A g \in Frames : xpgs[g].in_tree => \/ xpgs[g].mvpn <= wt[w].mvpn
                                              \/ xpgs[f].mvpn <= xpgs[g].mvpn
  BY <1>1, NextToSave DEF Inv
<1> HIDE DEF f
<1>4. IsCall(r) /\ r.pc = "scan" /\ r.mvpn = xpgs[f].mvpn /\ r.ret = "save"
  <2>1. xpgs[f].mvpn \in Int
    BY <1>3, MvpnIsInt
  <2> QED BY <1>1, <1>3, <2>1 DEF IsCall
<1> HIDE DEF r
<1>5. ASSUME Roomy, Saver(w), NEW g \in Frames, xpgs[g].in_tree, xpgs[g].mvpn <= r.mvpn, xpgs[g].dirty
      PROVE  g = f
  <2>1. ~(xpgs[g].mvpn <= wt[w].mvpn)
    BY <1>1, <1>5 DEF Saver
  <2>2. xpgs[f].mvpn <= xpgs[g].mvpn
    BY <1>3, <1>5, <2>1
  <2>3. xpgs[g].mvpn \in Int /\ xpgs[f].mvpn \in Int
    BY <1>3, <1>5, InTreeMvpn, MvpnIsInt DEF Inv
  <2>4. xpgs[g].mvpn = xpgs[f].mvpn
    BY SMT, <1>4, <1>5, <2>2, <2>3
  <2> QED BY <1>3, <1>5, <2>4 DEF Inv, Pages, CachedOnce
<1>6. CASE xpgs[f].dirty
  <2>1. /\ \A g \in Frames : Same(g)
        /\ \E rec : /\ Moved(w, rec) /\ rec.pc \in {"locked", "lock_wait"}
                    /\ rec.mvpn = r.mvpn /\ rec.ret = r.ret
        /\ (Roomy => Saves') => Inv'
        /\ Steady
    BY <1>1, <1>2, <1>3, <1>4, <1>6, PinKeeps
  <2>2. PICK rec : /\ Moved(w, rec) /\ rec.pc \in {"locked", "lock_wait"}
                   /\ rec.mvpn = r.mvpn /\ rec.ret = r.ret
    BY <2>1
  <2>3. ASSUME Roomy PROVE Saves'
    <3>1. ASSUME Saver(w), NEW g \in Frames, xpgs'[g].in_tree, xpgs'[g].mvpn <= rec.mvpn,
                 xpgs'[g].dirty
          PROVE  xpgs'[g].mvpn = rec.mvpn
      <4>1. xpgs[g].in_tree /\ xpgs[g].mvpn <= r.mvpn /\ xpgs[g].dirty /\ xpgs'[g].mvpn = xpgs[g].mvpn
        BY <2>1, <2>2, <3>1 DEF Same
      <4> QED BY <1>4, <1>5, <2>2, <2>3, <3>1, <4>1
    <3> QED BY <1>1, <1>4, <2>2, <2>3, <3>1, SaverGoesOn DEF Inv, Mapping
  <2> QED BY <2>1, <2>3
<1>7. CASE ~xpgs[f].dirty
  <2>1. wt' = [wt EXCEPT ![w] = r] /\ UNCHANGED <<xpgs, lru>>
    BY <1>2, <1>7 DEF Goto
  <2>2. Moved(w, r)
    BY <1>4, <2>1, MoveTypes DEF Inv
  <2>3. ASSUME Roomy PROVE Saves'
    <3>1. Saver(w) => \A g \in Frames :
             ~(xpgs'[g].in_tree /\ xpgs'[g].mvpn <= r.mvpn /\ xpgs'[g].dirty)
      BY <1>5, <1>7, <2>1, <2>3
    <3> QED BY <1>1, <1>4, <2>2, <2>3, <3>1, SaverGoesOn DEF Inv, Mapping
  <2> QED BY <1>1, <1>4, <2>1, <2>3, MoveKeeps DEF WithPage, Working
<1> QED BY <1>6, <1>7

\* The walk is over and the directory is saved.
LEMMA SaveGtdKeeps == ASSUME Inv, NEW w \in Workers, SaveGtd(w) PROVE Inv' /\ Steady
<1>1. /\ wt[w].pc = "scan" /\ IsCall(wt[w]) /\ wt[w].mvpn \in Int
      /\ wt' = [wt EXCEPT ![w] = Idle] /\ gtd_file' = gtd
      /\ saved' = IF saved = "saving" THEN "saved" ELSE saved
      /\ UNCHANGED <<setup, evicted, gtd, xpgs, lru, used, table>>
  BY Here DEF SaveGtd, Running, IsCall, Wait
<1>2. Moved(w, Idle)
  BY <1>1, CallIdle, MoveTypes DEF Inv
<1>3. ASSUME Roomy PROVE Saves'
  <2>1. wt[w] # Idle /\ Saves
    BY <1>1, <1>3, CallIdle DEF Inv, Mapping
  <2>2. CASE saved = "saving"
    <3>1. Saver(w) /\ saved' = "saved"
      BY <1>1, <2>1, <2>2 DEF Saves
    <3>2. \A v \in Workers : wt'[v] = Idle
      BY <1>2, <3>1 DEF Moved, Saver
    <3>3. ASSUME NEW g \in Frames, xpgs[g].in_tree PROVE ~xpgs[g].dirty
      <4>1. ~(xpgs[g].mvpn > wt[w].mvpn)
        BY <2>2, <3>3 DEF SaveGtd
      <4>2. xpgs[g].mvpn \in Int
        BY <3>3, InTreeMvpn, MvpnIsInt DEF Inv
      <4> QED BY SMT, <1>1, <3>1, <3>3, <4>1, <4>2 DEF Saver
    <3> QED BY <1>1, <3>1, <3>2, <3>3 DEF Saves
  <2>3. CASE saved # "saving"
    BY <1>1, <2>1, <2>3 DEF Saves
  <2> QED BY <2>2, <2>3
<1> QED BY <1>1, <1>3, CallIdle, MoveKeeps DEF WithPage, Working

\* xpc_flush_page of the page that flush_domain holds.
LEMMA FlushPageKeeps == ASSUME Inv, NEW w \in Workers, FlushPage(w) PROVE Inv' /\ Steady
<1> DEFINE f == wt[w].frame
<1>1. /\ wt[w].pc = "locked" /\ wt[w].ret = "save" /\ IsCall(wt[w]) /\ wt[w].mvpn \in Mvpns
      /\ f \in Frames /\ wt[w].pc \in Working \ {"read_xpg"}
      /\ UNCHANGED <<setup, evicted, gtd, used, table>> /\ UNCHANGED saved
  BY Here DEF FlushPage, Running, WithPage, Working
<1>2. CASE xpgs[f].dirty
  <2> DEFINE rec == [wt[w] EXCEPT !.pc = "save_flush"]
  <2>1. /\ IsCall(rec) /\ rec.pc = "save_flush" /\ rec.frame = wt[w].frame
        /\ rec.mvpn = wt[w].mvpn /\ rec.ret = "save"
    BY <1>1 DEF IsCall
  <2>2. wt' = [wt EXCEPT ![w] = rec] /\ UNCHANGED <<xpgs, lru>>
    BY <1>2 DEF FlushPage, Wait
  <2> HIDE DEF rec
  <2>3. Roomy => rec.pc # "assert" /\ Saves'
    <3>1. Moved(w, rec)
      BY <2>1, <2>2, MoveTypes DEF Inv
    <3>2. Saver(w) => \A g \in Frames :
             xpgs'[g].in_tree /\ xpgs'[g].mvpn <= rec.mvpn /\ xpgs'[g].dirty => xpgs'[g].mvpn = rec.mvpn
      BY <2>1, <2>2 DEF Saver
    <3> QED BY <1>1, <2>1, <3>1, <3>2, SaverGoesOn DEF Inv, Mapping
  <2> QED BY <1>1, <2>1, <2>2, <2>3, MoveKeeps DEF Working
<1>3. CASE ~xpgs[f].dirty
  <2> DEFINE rec == [wt[w] EXCEPT !.pc = "scan"]
  <2>1. IsCall(rec) /\ rec.pc = "scan" /\ rec.mvpn = wt[w].mvpn
    BY <1>1 DEF IsCall
  <2>2. /\ wt' = [wt EXCEPT ![w] = rec] /\ xpgs[f].pin > 0
        /\ xpgs' = [xpgs EXCEPT ![f] = Released(xpgs[f], w)] /\ lru' = LruUnpin(f)
    BY <1>3 DEF FlushPage, Goto
  <2> HIDE DEF rec
  <2>3. rec.pc \notin WithPage \cup {"assert"}
    BY <2>1 DEF WithPage, Working
  <2>4. Moved(w, rec) /\ (\A g \in Frames : Same(g)) /\ ((Roomy => Saves') => Inv') /\ Steady
    BY <1>1, <2>1, <2>2, <2>3, UnlockKeeps
  <2>5. ASSUME Roomy PROVE Saves'
    <3>1. /\ CachedOnce /\ Saves
          /\ \A g \in Frames : xpgs[g].in_tree /\ xpgs[g].mvpn = wt[w].mvpn => g = f
      <4>1. xpgs[f].in_tree /\ xpgs[f].mvpn = wt[w].mvpn
        BY <1>1, <2>5 DEF Inv, Pages, Held, WithPage
      <4> QED BY <1>1, <2>5, <4>1 DEF Inv, Pages, Mapping, CachedOnce
    <3>2. Saver(w) => \A g \in Frames :
             ~(xpgs'[g].in_tree /\ xpgs'[g].mvpn <= rec.mvpn /\ xpgs'[g].dirty)
      BY <1>3, <2>1, <2>4, <3>1 DEF Saver, Same
    <3> QED BY <1>1, <2>1, <2>4, <3>1, <3>2, SaverGoesOn
  <2> QED BY <2>4, <2>5
<1> QED BY <1>2, <1>3

\* It is on flash, the directory points there and the page is clean.
LEMMA PageFlushedKeeps == ASSUME Inv, NEW w \in Workers, PageFlushed(w) PROVE Inv' /\ Steady
<1> DEFINE f == wt[w].frame
           p == Min(Fresh)
           rec == [wt[w] EXCEPT !.pc = "scan"]
<1>1. /\ wt[w].pc = "save_flush" /\ IsCall(wt[w]) /\ wt[w].mvpn \in Mvpns /\ f \in Frames
      /\ IsPage(xpgs[f]) /\ wt[w].pc \in Working \ {"read_xpg"} /\ xpgs[f].pin > 0
      /\ lru' = LruUnpin(f) /\ UNCHANGED <<setup, evicted>> /\ UNCHANGED saved
  BY Here DEF PageFlushed, Resumes, WithPage, Working
<1>2. wt' = [wt EXCEPT ![w] = rec]
  BY DEF PageFlushed, Goto
<1>3. IsCall(rec) /\ rec.pc = "scan" /\ rec.mvpn = wt[w].mvpn
  BY <1>1 DEF IsCall
<1> HIDE DEF rec
<1>4. rec.pc \notin WithPage \cup {"assert"}
  BY <1>3 DEF WithPage, Working
<1>5. CASE /\ "xpg_flush" \in setup.faults /\ xpgs' = [xpgs EXCEPT ![f] = Released(@, w)]
           /\ UNCHANGED <<used, table, gtd>>
  <2>1. ~Roomy
    BY <1>5 DEF Roomy
  <2>2. UNCHANGED <<setup, evicted, gtd, used, table>>
    BY <1>1, <1>5
  <2> QED BY <1>1, <1>2, <1>3, <1>4, <1>5, <2>1, <2>2, UnlockKeeps
<1>6. CASE /\ Fresh # {} /\ used' = used \cup {p} /\ table' = [table EXCEPT ![p] = OnFlash(xpgs[f])]
           /\ gtd' = [gtd EXCEPT ![xpgs[f].mvpn] = p]
           /\ xpgs' = [xpgs EXCEPT ![f] = Released([@ EXCEPT !.dirty = FALSE], w)]
  <2> DEFINE y == [xpgs[f] EXCEPT !.dirty = FALSE]
             z == Released(y, w)
  <2>1. p \in Ppas /\ p \notin used /\ p # NONE
    BY <1>6, FreshPage, AmuAssumption
  <2> HIDE DEF p
  <2>2. xpgs' = [xpgs EXCEPT ![f] = z]
    BY <1>6
  <2>3. /\ y = [s \in Fields |-> y[s]] /\ y.mvpn = xpgs[f].mvpn /\ y.in_tree = xpgs[f].in_tree
        /\ y.pin = xpgs[f].pin /\ y.owner = xpgs[f].owner /\ y.waiters = xpgs[f].waiters
        /\ y.entries = xpgs[f].entries /\ y.dirty = FALSE
    BY <1>1 DEF IsPage, Fields
  <2> HIDE DEF y
  <2>4. IsPage(y)
    <3>1. y.pin \in Nat
      BY <1>1, <2>3 DEF IsPage
    <3> QED BY <1>1, <2>3, <3>1, PageLike
  <2>5. /\ IsPage(z) /\ z.mvpn = y.mvpn /\ z.in_tree = y.in_tree /\ z.dirty = y.dirty
        /\ z.entries = y.entries /\ z = Released(y, w)
    BY <1>1, <2>3, <2>4, ReleasedPage
  <2> HIDE DEF z, f
  <2>6. Types' /\ Moved(w, rec) /\ Put(f, z)
    BY <1>1, <1>2, <1>3, <2>2, <2>5, PutTypes DEF Inv
  <2>7. Roomy => \A m \in Mvpns : gtd[m] # NONE => gtd'[m] # NONE
    BY <1>6, <2>1 DEF Inv, Mapping, FlashOK
  <2>8. Lists' /\ (Roomy => Pages')
    <3>1. f = wt[w].frame /\ wt[w].pc \in Working
      BY <1>1 DEF f
    <3> QED BY <1>1, <1>4, <2>3, <2>4, <2>5, <2>6, <2>7, <3>1, ReleaseKeeps
  <2>9. ASSUME Roomy PROVE Mapping' /\ \A l \in Lpas : Stays(l)
    <3>1. Types /\ Lists /\ Pages /\ FlashOK /\ CleanMatchesFlash /\ NoAliasing /\ Saves
      BY <2>9 DEF Inv, Mapping
    <3>2. wt[w].frame = f /\ rec.pc # "read_xpg"
      BY <1>3 DEF f
    <3>3. z.mvpn = xpgs[f].mvpn /\ z.in_tree = xpgs[f].in_tree /\ z.entries = xpgs[f].entries
      BY <2>3, <2>5
    <3>4. FlashOK' /\ CleanMatchesFlash' /\ NoAliasing' /\ \A l \in Lpas : Stays(l)
      BY <1>1, <1>6, <2>1, <2>6, <2>8, <2>9, <3>1, <3>2, <3>3, FlushMapping
    <3>5. \A g \in Frames : xpgs[g].in_tree /\ xpgs[g].mvpn = wt[w].mvpn => g = f
      <4>1. xpgs[f].in_tree /\ xpgs[f].mvpn = wt[w].mvpn
        BY <1>1, <3>1, <3>2 DEF Pages, Held, WithPage
      <4> QED BY <1>1, <2>9, <3>1, <4>1 DEF Pages, CachedOnce
    <3>6. Saver(w) => \A g \in Frames :
             ~(xpgs'[g].in_tree /\ xpgs'[g].mvpn <= rec.mvpn /\ xpgs'[g].dirty)
      <4> SUFFICES ASSUME Saver(w), NEW g \in Frames
                   PROVE  ~(xpgs'[g].in_tree /\ xpgs'[g].mvpn <= rec.mvpn /\ xpgs'[g].dirty)
        OBVIOUS
      <4>1. CASE g = f
        BY <2>3, <2>5, <2>6, <4>1 DEF Put
      <4>2. CASE g # f
        BY <1>3, <2>6, <3>5, <4>2 DEF Put, Saver
      <4> QED BY <4>1, <4>2
    <3>7. Saves'
      BY <1>1, <1>3, <2>6, <3>1, <3>6, SaverGoesOn
    <3> QED BY <3>4, <3>7 DEF Mapping
  <2> QED BY <1>1, <2>6, <2>8, <2>9 DEF Inv, Roomy, Steady
<1> QED BY <1>5, <1>6 DEF PageFlushed

\* A frame never used.
LEMMA EmptyPage ==
    /\ IsPage(NoPage) /\ Counted(NoPage) /\ NoPage.in_tree = FALSE /\ NoPage.pin = 0
    /\ NoPage.mvpn = NONE
<1>1. /\ NoPage = [s \in Fields |-> NoPage[s]] /\ NoPage.mvpn = NONE /\ NoPage.in_tree = FALSE
      /\ NoPage.pin = 0 /\ NoPage.owner = NONE /\ NoPage.waiters = <<>>
      /\ NoPage.entries = [s \in Slots |-> NoEntry]
  BY DEF NoPage, Fields
<1>2. NoPage.entries = [s \in Slots |-> NoPage.entries[s]]
  BY <1>1
<1>3. IsPage(NoPage)
  BY SMT, <1>1, <1>2 DEF IsPage
<1>4. Counted(NoPage)
  <2>1. NoPage.waiters \in Seq(Workers) /\ Len(NoPage.waiters) = 0
    <3>1. <<>> \in Seq(Workers) /\ Len(<<>>) = 0
      BY SMT
    <3>2. NoPage.waiters = <<>>
      BY <1>1
    <3> QED BY <3>1, <3>2
  <2> QED BY SMT, <1>1, <2>1 DEF Counted
<1> QED BY <1>1, <1>3, <1>4

\* The list of no frame.
LEMMA EmptyList == Distinct(<<>>) /\ Range(<<>>) = {}
BY SMT DEF Distinct, Range

\* Nothing is cached and nobody has a page.
Empty ==
    /\ \A v \in Workers : wt[v] = Idle
    /\ \A g \in Frames : xpgs[g] = NoPage
    /\ lru = <<>>

\* An empty cache is in order.
LEMMA EmptyPages == Empty => Lists /\ Pages /\ CleanMatchesFlash
<1> SUFFICES ASSUME Empty PROVE Lists /\ Pages /\ CleanMatchesFlash
  OBVIOUS
<1> USE DEF Empty
<1>1. Lists
  BY CallIdle, EmptyList DEF Lists, Hand, Alone, WithPage, Working
<1>2. \A v \in Workers : Held(v)
  BY CallIdle DEF Held, WithPage, Working
<1>3. \A g \in Frames : Counted(xpgs[g]) /\ (g \in Range(lru) <=> xpgs[g].in_tree /\ xpgs[g].pin = 0)
  BY EmptyPage, EmptyList
<1>4. CachedOnce /\ CleanMatchesFlash
  BY EmptyPage DEF CachedOnce, CleanMatchesFlash
<1> QED BY <1>1, <1>2, <1>3, <1>4 DEF Pages

\* The driver starts with an empty cache and an empty directory.
LEMMA InitInv == Init => Inv
<1> SUFFICES ASSUME Init PROVE Inv
  OBVIOUS
<1>1. /\ setup \in Setups /\ xpgs = [f \in Frames |-> NoPage] /\ wt = [w \in Workers |-> Idle]
      /\ lru = <<>> /\ used = {} /\ saved = "no"
      /\ gtd = [m \in Mvpns |-> NONE] /\ table = [p \in Ppas |-> [s \in Slots |-> NONE]]
  BY DEF Init
<1>2. Types
  BY <1>1, EmptyPage, CallIdle DEF Types
<1>3. Lists /\ Pages /\ CleanMatchesFlash
  BY <1>1, EmptyPages DEF Empty
<1>4. FlashOK /\ Saves
  BY <1>1 DEF FlashOK, Saves
<1>5. NoAliasing
  <2>1. ASSUME NEW l \in Lpas PROVE MappedPpa(l) = NONE
    <3>1. \A g \in Frames : ~Loads(xpgs, Busy, g, l)
      BY <1>1, EmptyPage DEF Loads
    <3>2. l[1] \in Mvpns
      BY DEF Lpas
    <3> QED BY <1>1, <3>1, <3>2, MappedStored DEF Stored
  <2> QED BY <2>1 DEF NoAliasing
<1> QED BY <1>1, <1>2, <1>3, <1>4, <1>5 DEF Inv, Mapping

\* After amu_save_domain the directory read back is the one that was in memory.
LEMMA RebootKeeps == ASSUME Inv, Reboot PROVE Inv' /\ Steady
<1>1. /\ saved = "saved" /\ \A v \in Workers : wt[v] = Idle
      /\ gtd' = gtd_file /\ xpgs' = [f \in Frames |-> NoPage] /\ lru' = <<>>
      /\ UNCHANGED <<setup, evicted, gtd_file, used, table, wt, saved>>
  BY DEF Reboot
<1>2. /\ \A v \in Workers : wt'[v] = Idle
      /\ \A g \in Frames : xpgs'[g] = NoPage
  BY <1>1
<1>3. Types'
  BY <1>1, EmptyPage DEF Inv, Types
<1>4. Lists' /\ Pages' /\ CleanMatchesFlash'
  <2>1. (Empty => Lists /\ Pages /\ CleanMatchesFlash)'
    BY EmptyPages, PTL
  <2>2. Empty'
    BY <1>1, <1>2 DEF Empty
  <2> QED BY <2>1, <2>2
<1>5. ASSUME Roomy PROVE Mapping' /\ \A l \in Lpas : Stays(l)
  <2>1. Pages /\ FlashOK /\ CleanMatchesFlash /\ NoAliasing /\ Saves
    BY <1>5 DEF Inv, Mapping
  <2>2. /\ gtd' = gtd /\ \A g \in Frames : xpgs[g].in_tree => ~xpgs[g].dirty
    BY <1>1, <2>1 DEF Saves
  <2>3. FlashOK' /\ Saves'
    BY <1>1, <1>2, <2>1, <2>2, EmptyPage DEF FlashOK, Saves
  <2>4. Busy = {}
    BY <1>1, CallIdle DEF Busy, Loading
  <2>5. ASSUME NEW l \in Lpas PROVE MappedPpa(l)' = MappedPpa(l)
    <3>1. MappedPpa(l)' = Stored(gtd', table', l)
      <4>1. \A g \in Frames : ~Loads(xpgs', Busy', g, l)
        BY <1>2, EmptyPage DEF Loads
      <4> QED BY <4>1, MappedStored
    <3>2. l[2] \in Slots
      BY DEF Lpas
    <3>3. CASE \E g \in Frames : Loads(xpgs, Busy, g, l)
      <4>1. PICK g \in Frames : Loads(xpgs, Busy, g, l)
        BY <3>3
      <4>2. MappedPpa(l) = xpgs[g].entries[l[2]].ppa
        BY <1>1, <1>5, <2>1, <4>1, MappedCached DEF Pages
      <4>3. /\ xpgs[g].mvpn = l[1] /\ gtd[l[1]] # NONE
            /\ OnFlash(xpgs[g]) = table[gtd[l[1]]]
        BY <1>5, <2>1, <2>2, <4>1 DEF Loads, CleanMatchesFlash, Busy
      <4>4. table[gtd[l[1]]][l[2]] = xpgs[g].entries[l[2]].ppa
        BY <3>2, <4>3 DEF OnFlash
      <4> QED BY <1>1, <2>2, <3>1, <4>2, <4>3, <4>4 DEF Stored
    <3>4. CASE \A g \in Frames : ~Loads(xpgs, Busy, g, l)
      BY <1>1, <2>2, <3>1, <3>4, MappedStored DEF Stored
    <3> QED BY <3>3, <3>4
  <2>6. NoAliasing'
    BY <1>1, <1>5, <2>1, <2>2, <2>5, AliasingKept
  <2>7. \A l \in Lpas : Stays(l)
    BY <1>2, <2>5, EmptyPage DEF Stays, Loads
  <2> QED BY <1>4, <2>3, <2>6, <2>7 DEF Mapping
<1> QED BY <1>1, <1>3, <1>4, <1>5 DEF Inv, Roomy, Steady

\* Every step keeps the invariant.
LEMMA NextInv == Inv /\ [Next]_vars => Inv'
<1> SUFFICES ASSUME Inv, [Next]_vars PROVE Inv'
  OBVIOUS
<1>1. CASE UNCHANGED vars
  <2>1. setup' = setup /\ Roomy' = Roomy /\ Types' /\ Lists'
    BY <1>1 DEF Inv, vars, Types, Lists, Hand, Alone, Roomy
  <2>2. ASSUME Roomy PROVE Pages' /\ Saves'
    <3>1. Pages /\ Saves
      BY <2>2 DEF Inv, Mapping
    <3>2. Pages'
      <4>1. UNCHANGED <<xpgs, lru, wt, gtd>>
        BY <1>1 DEF vars
      <4> QED BY SMT, <2>1, <3>1, <4>1 DEF Pages, Held, CachedOnce
    <3>3. Saves'
      BY SMT, <1>1, <3>1 DEF vars, Saves, Saver
    <3> QED BY <3>2, <3>3
  <2>3. ASSUME Roomy PROVE FlashOK' /\ CleanMatchesFlash' /\ NoAliasing'
    <3>1. Busy' = Busy /\ \A g \in Frames : Same(g)
      BY <1>1 DEF vars, Busy, Loading, Same
    <3>2. UNCHANGED <<gtd, table, used, setup, evicted>>
      BY <1>1 DEF vars
    <3> QED BY <2>2, <2>3, <3>1, <3>2, SameMapping DEF Inv, Mapping, Pages
  <2> QED BY <2>1, <2>2, <2>3 DEF Inv, Mapping
<1>2. CASE Reboot
  BY <1>2, RebootKeeps
<1>3. ASSUME NEW w \in Workers, DispatchSome(w) \/ SaveDomain(w) PROVE Inv'
  BY <1>3, DispatchKeeps, SaveDomainKeeps
<1>4. ASSUME NEW w \in Workers, Work(w) PROVE Inv'
  BY <1>4, HitPageKeeps, AddPageKeeps, ReadPageKeeps, EvictPageKeeps, EvictFlushedKeeps,
     LockGrantedKeeps, GetPpaKeeps, AllocPageKeeps, UpdateReadKeeps, SubmitKeeps, AssertFailsKeeps,
     FlushDomainKeeps, SaveGtdKeeps, FlushPageKeeps, PageFlushedKeeps DEF Work
<1> QED BY <1>1, <1>2, <1>3, <1>4 DEF Next

\* The inductive invariant holds in every reachable state, for every number of
\* workers, cache capacity and set of faults.
THEOREM Invariance == Spec => []Inv
BY InitInv, NextInv, PTL DEF Spec

----------------------------------------------------------------------------
(* Theorems                                                                *)

\* get_translation_page returns "the page exclusively locked and detached from LRU"
\* (amu.c:488): whoever works on a translation page owns its mutex and has pinned
\* it, and the page is not on the LRU list.
THEOREM PagesReturnedLocked == Spec => []ReturnedLocked
<1>1. Inv => ReturnedLocked
  <2> SUFFICES ASSUME Inv, Roomy, NEW w \in Workers, wt[w].pc \in Working
               PROVE  LET f == wt[w].frame
                      IN  xpgs[f].owner = w /\ xpgs[f].pin > 0 /\ f \notin Range(lru)
    BY DEF ReturnedLocked, Working
  <2> DEFINE f == wt[w].frame
  <2>1. f \in Frames /\ IsPage(xpgs[f]) /\ Counted(xpgs[f]) /\ xpgs[f].owner = w
    BY Here DEF Inv, Pages, Held, WithPage
  <2>2. xpgs[f].pin > 0
    BY <2>1, CountedReleased
  <2>3. xpgs[f].pin # 0
    BY <2>2, Positive
  <2>4. f \notin Range(lru)
    BY <2>1, <2>3 DEF Inv, Pages
  <2> QED BY <2>1, <2>2, <2>4
<1> QED BY <1>1, Invariance, PTL

\* What xpc_evict takes off the LRU list is pinned by nobody (amu.c:477), and the
\* list holds no page twice, whatever fails and however small the cache is.
THEOREM PinnedNeverEvicted == Spec => []LruIsUnpinned
<1>1. Inv => LruIsUnpinned
  BY DEF Inv, Lists, Pages, Distinct, LruIsUnpinned
<1> QED BY <1>1, Invariance, PTL

\* Two workers that miss the same translation page never cache it twice: between
\* the look-up and the insertion in get_translation_page nobody else runs.
THEOREM TranslationCachedOnce == Spec => []CachedOnce
<1>1. Inv => CachedOnce
  BY DEF Inv, Pages, CachedOnce
<1> QED BY <1>1, Invariance, PTL

\* A clean translation page can be dropped: the flash page that the directory has
\* for it holds the same mapping.
THEOREM CleanPagesSafe == Spec => []CleanMatchesFlash
<1>1. Inv => CleanMatchesFlash
  BY DEF Inv, Mapping, CleanMatchesFlash
<1> QED BY <1>1, Invariance, PTL

\* Two logical pages are never mapped to one flash page, and none to the flash
\* page of a translation page, through reads, writes, flushes and restarts.
THEOREM FlashPagesUnshared == Spec => []NoAliasing
<1>1. Inv => NoAliasing
  BY DEF Inv, Mapping, NoAliasing
<1> QED BY <1>1, Invariance, PTL
=============================================================================
