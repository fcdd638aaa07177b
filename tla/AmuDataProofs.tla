--------------------------- MODULE AmuDataProofs ---------------------------
(***************************************************************************)
(* No update is lost (Amu): while callers never have two transactions on   *)
(* one logical page, the mapping leads to what the completed writes left.  *)
(*                                                                         *)
(* A leaf is given to Zenon, unless it says SMT or PTL.                    *)
(***************************************************************************)
EXTENDS AmuProofs

\* A call that translates its i-th transaction.
Translating(r) ==
    /\ r.pc \in {"page", "lock_wait", "locked", "read_xpg", "update_read"}
    /\ r.ret \in {"get_ppa", "alloc"}

\* The transactions of a call that have not been translated, and those that have
\* been translated and not executed.
Coming(r) == {k \in DOMAIN r.txns : r.pc # "submit" /\ k >= r.i}
Placed(r) == {k \in DOMAIN r.txns : IF r.pc = "submit" THEN k >= r.i ELSE k < r.i}

\* Sector contents are numbers of transactions.
Contents == [Sectors -> 0..version]
Numbers ==
    /\ version \in Nat
    /\ latest \in [Lpas -> Contents] /\ data \in [Ppas -> Contents]
    /\ \A w \in Workers : \A k \in DOMAIN wt[w].txns :
          wt[w].txns[k].data \in Contents /\ wt[w].txns[k].type \in {"read", "write"}

\* Two transactions under way are on different logical pages.
Apart ==
    \A v, w \in Workers : \A j \in DOMAIN wt[v].txns, k \in DOMAIN wt[w].txns :
        wt[v].txns[j].lpa = wt[w].txns[k].lpa => v = w /\ j = k

\* Nothing is on a flash page that was not handed out.
Blank == \A p \in Ppas : p \notin used => data[p] = NoData

\* Where worker w is with its transactions.
Course(w) ==
    /\ IF Translating(wt[w]) \/ wt[w].pc = "submit"
       THEN wt[w].i \in DOMAIN wt[w].txns ELSE wt[w].txns = <<>> /\ wt[w].pc # "update_read"
    /\ Translating(wt[w]) =>
          /\ Txn(w).lpa[1] = wt[w].mvpn
          /\ wt[w].ret = "get_ppa" => Txn(w).type = "read" /\ wt[w].pc # "update_read"
          /\ wt[w].ret = "alloc" /\ Txn(w).type = "read" => MappedPpa(Txn(w).lpa) = NONE
          /\ wt[w].pc = "update_read" => MappedPpa(Txn(w).lpa) # NONE

\* A write that has been translated goes where the mapping leads, and brings all
\* that was there before.
Follows(t) ==
    t.type = "write" =>
        /\ MappedPpa(t.lpa) = t.ppa /\ t.ppa # NONE
        /\ t.lpa \notin lost => \A s \in Sectors : t.data[s] >= latest[t.lpa][s]

\* A write that has not been translated has new sectors only.
Brings(t) ==
    t.type = "write" => \A s \in Sectors :
        IF s \in t.bitmap THEN t.data[s] > latest[t.lpa][s] ELSE t.data[s] = 0

\* Every transaction of worker w.
Transit(w) ==
    /\ \A k \in Placed(wt[w]) : Follows(wt[w].txns[k])
    /\ \A k \in Coming(wt[w]) : Brings(wt[w].txns[k])

\* The k-th transaction of worker w is a write of l that has been translated.
Writes(w, k, l) == k \in Placed(wt[w]) /\ wt[w].txns[k].type = "write" /\ wt[w].txns[k].lpa = l
InFlight(l) == \E w \in Workers : \E k \in DOMAIN wt[w].txns : Writes(w, k, l)

\* The mapping leads to the sectors that the completed writes left of l.
Faithful(l) ==
    \A s \in Sectors :
        latest[l][s] = IF MappedPpa(l) = NONE THEN 0 ELSE data[MappedPpa(l)][s]
Settled == \A l \in Lpas : l \notin lost /\ ~InFlight(l) => Faithful(l)

\* A loaded translation page knows of the sectors that were written or are being
\* written.
Written(l, s) ==
    \/ latest[l][s] # 0
    \/ \E w \in Workers : \E k \in DOMAIN wt[w].txns : Writes(w, k, l) /\ wt[w].txns[k].data[s] # 0
Covered ==
    \A l \in Lpas, f \in Frames : l \notin lost /\ Loads(xpgs, Busy, f, l) =>
        \A s \in Sectors : Written(l, s) => s \in xpgs[f].entries[l[2]].bitmap

\* The inductive invariant, beside Inv.
Updates ==
    /\ Numbers /\ Apart /\ Blank /\ Settled /\ Covered
    /\ \A w \in Workers : Course(w) /\ Transit(w)
DataInv == Roomy => Updates

USE ZenonT(60)

----------------------------------------------------------------------------
(* Steps that leave the user data alone                                    *)

\* Transactions are numbered from one, and each has a logical page.
LEMMA TxnLpa ==
    ASSUME Types, NEW w \in Workers
    PROVE  /\ Len(wt[w].txns) \in Nat /\ DOMAIN wt[w].txns = 1..Len(wt[w].txns)
           /\ \A k \in DOMAIN wt[w].txns : wt[w].txns[k].lpa \in Lpas
<1> DEFINE ts == wt[w].txns
<1>1. IsTxns(ts)
  BY DEF Types, IsCall
<1> HIDE DEF ts
<1>2. Len(ts) \in Nat /\ DOMAIN ts = 1..Len(ts)
  BY SMT, <1>1 DEF IsTxns
<1>3. \A k \in DOMAIN ts : ts[k].lpa \in Lpas
  BY <1>1, <1>2 DEF IsTxns
<1> QED BY <1>2, <1>3 DEF ts

\* The sectors that were or are being written are on a page that is mapped.
LEMMA WrittenIsMapped ==
    ASSUME Updates, Types, NEW l \in Lpas, l \notin lost, MappedPpa(l) = NONE, NEW s \in Sectors
    PROVE  ~Written(l, s)
<1>1. ~InFlight(l)
  BY DEF Updates, Transit, Follows, InFlight, Writes
<1>2. latest[l][s] = 0
  BY <1>1 DEF Updates, Settled, Faithful
<1> QED BY <1>1, <1>2 DEF Written, InFlight

\* What a loaded translation page knows stays true while its logical pages stay
\* where they are.
LEMMA CoveredKept ==
    ASSUME Updates, Types, \A l \in Lpas : Stays(l), lost \subseteq lost',
           \A l \in Lpas, s \in Sectors : l \notin lost' /\ Written(l, s)' => Written(l, s)
    PROVE  Covered'
<1> SUFFICES ASSUME NEW l \in Lpas, NEW f \in Frames, l \notin lost', Loads(xpgs', Busy', f, l),
                    NEW s \in Sectors, Written(l, s)'
             PROVE  s \in xpgs'[f].entries[l[2]].bitmap
  BY DEF Covered
<1>1. Written(l, s) /\ l \notin lost
  OBVIOUS
<1>2. MappedPpa(l) # NONE
  BY <1>1, WrittenIsMapped
<1>3. CASE Loads(xpgs, Busy, f, l) /\ xpgs'[f].entries[l[2]].bitmap = xpgs[f].entries[l[2]].bitmap
  BY <1>1, <1>3 DEF Updates, Covered
<1>4. CASE xpgs'[f].entries[l[2]].bitmap = Sectors
  BY <1>4
<1> QED BY <1>2, <1>3, <1>4 DEF Stays

\* A worker moves on, with the transactions it has and as far as it has come.
LEMMA Quiet ==
    ASSUME Updates, Types, Types', \A l \in Lpas : Stays(l), used \subseteq used',
           UNCHANGED <<data, latest, lost, version>>,
           \A w \in Workers : /\ wt'[w].txns = wt[w].txns /\ Placed(wt'[w]) = Placed(wt[w])
                              /\ Coming(wt'[w]) = Coming(wt[w]) /\ Course(w)'
    PROVE  Updates'
<1>1. Numbers' /\ Apart' /\ Blank'
  <2>1. Numbers'
    BY SMT DEF Updates, Numbers, Contents
  <2>2. Apart'
    BY SMT DEF Updates, Apart
  <2>3. Blank'
    BY DEF Updates, Blank
  <2> QED BY <2>1, <2>2, <2>3
<1>2. \A l \in Lpas : MappedPpa(l)' = MappedPpa(l)
  BY DEF Stays
<1>3. \A w \in Workers : \A k, l : Writes(w, k, l)' <=> Writes(w, k, l)
  BY DEF Writes
<1>4. Settled'
  <2> SUFFICES ASSUME NEW l \in Lpas, l \notin lost, ~InFlight(l)' PROVE Faithful(l)'
    BY DEF Settled
  <2>1. Faithful(l)
    BY <1>3 DEF Updates, Settled, InFlight
  <2> QED BY <1>2, <2>1 DEF Faithful
<1>5. Covered'
  <2>1. \A l \in Lpas, s \in Sectors : Written(l, s)' => Written(l, s)
    BY <1>3 DEF Written
  <2> QED BY <2>1, CoveredKept
<1>6. ASSUME NEW w \in Workers PROVE Transit(w)'
  <2>1. \A k \in DOMAIN wt[w].txns : wt[w].txns[k].lpa \in Lpas
    BY TxnLpa
  <2>2. ASSUME NEW t, t.lpa \in Lpas, Follows(t) PROVE Follows(t)'
    BY <1>2, <2>2 DEF Follows
  <2>3. ASSUME NEW t, Brings(t) PROVE Brings(t)'
    BY <2>3 DEF Brings
  <2>4. Transit(w) /\ wt'[w].txns = wt[w].txns
    BY DEF Updates
  <2> QED BY <2>1, <2>2, <2>3, <2>4 DEF Transit, Placed
<1> QED BY <1>1, <1>4, <1>5, <1>6 DEF Updates

\* A worker whose transactions stay where they are is where it was with them.
LEMMA CourseKept ==
    ASSUME Types, NEW v \in Workers, wt'[v] = wt[v], Course(v),
           \A k \in DOMAIN wt[v].txns : MappedPpa(wt[v].txns[k].lpa)' = MappedPpa(wt[v].txns[k].lpa)
    PROVE  Course(v)'
<1>1. Txn(v)' = Txn(v)
  BY DEF Txn
<1>2. wt[v].i \in DOMAIN wt[v].txns => MappedPpa(Txn(v).lpa)' = MappedPpa(Txn(v).lpa)
  BY DEF Txn
<1>3. CASE Translating(wt[v]) \/ wt[v].pc = "submit"
  BY <1>1, <1>2, <1>3 DEF Course
<1>4. CASE ~(Translating(wt[v]) \/ wt[v].pc = "submit")
  BY <1>4 DEF Course
<1> QED BY <1>3, <1>4

\* A worker goes on with its transaction, or has none.
LEMMA QuietMove ==
    ASSUME Updates, Types, Types', \A l \in Lpas : Stays(l), used \subseteq used',
           UNCHANGED <<data, latest, lost, version>>,
           NEW w \in Workers, NEW rec, Moved(w, rec), wt[w].pc # "submit", rec.pc # "submit",
           rec.pc = "update_read" => Translating(rec),
           \/ ~Translating(wt[w]) /\ ~Translating(rec) /\ rec.txns = <<>>
           \/ /\ Translating(rec) <=> Translating(wt[w])
              /\ rec.txns = wt[w].txns /\ rec.i = wt[w].i /\ rec.mvpn = wt[w].mvpn
              /\ \/ rec.ret = wt[w].ret
                 \/ rec.ret = "alloc" /\ MappedPpa(Txn(w).lpa) = NONE
              /\ rec.pc = "update_read" => rec.ret = "alloc" /\ MappedPpa(Txn(w).lpa) # NONE
    PROVE  Updates'
<1>1. wt'[w] = rec /\ \A v \in Workers \ {w} : wt'[v] = wt[v]
  BY DEF Moved
<1>2. \A l \in Lpas : MappedPpa(l)' = MappedPpa(l)
  BY DEF Stays
<1>3. ASSUME NEW v \in Workers, v # w PROVE Course(v)'
  BY <1>1, <1>2, <1>3, TxnLpa, CourseKept DEF Updates
<1>4. CASE ~Translating(wt[w])
  <2>1. ~Translating(rec) /\ rec.txns = <<>> /\ wt[w].txns = <<>>
    BY <1>4 DEF Updates, Course
  <2>2. DOMAIN rec.txns = {} /\ DOMAIN wt[w].txns = {}
    BY SMT, <2>1
  <2>3. Course(w)'
    BY <1>1, <2>1 DEF Course
  <2>4. Placed(rec) = Placed(wt[w]) /\ Coming(rec) = Coming(wt[w])
    BY <2>2 DEF Placed, Coming
  <2> QED BY <1>1, <1>3, <2>1, <2>3, <2>4, Quiet
<1>5. CASE Translating(wt[w])
  <2>1. /\ Translating(rec) /\ rec.txns = wt[w].txns /\ rec.i = wt[w].i /\ rec.mvpn = wt[w].mvpn
        /\ \/ rec.ret = wt[w].ret
           \/ rec.ret = "alloc" /\ MappedPpa(Txn(w).lpa) = NONE
        /\ rec.pc = "update_read" => rec.ret = "alloc" /\ MappedPpa(Txn(w).lpa) # NONE
    BY <1>5
  <2>2. Placed(rec) = Placed(wt[w]) /\ Coming(rec) = Coming(wt[w])
    BY <2>1 DEF Placed, Coming
  <2>3. Txn(w)' = Txn(w) /\ Course(w) /\ wt[w].i \in DOMAIN wt[w].txns
    BY <1>1, <1>5, <2>1 DEF Txn, Updates, Course
  <2>4. MappedPpa(Txn(w).lpa)' = MappedPpa(Txn(w).lpa)
    BY <1>2, <2>3, TxnLpa DEF Txn
  <2>5. Course(w)'
    BY <1>1, <1>5, <2>1, <2>3, <2>4 DEF Course
  <2> QED BY <1>1, <1>3, <2>1, <2>2, <2>5, Quiet
<1> QED BY <1>4, <1>5

\* The step of a worker that goes on with its transaction, or has none.
LEMMA QuietStep ==
    ASSUME Inv, Inv', Steady, DataInv, used \subseteq used',
           UNCHANGED <<setup, evicted, data, latest, lost, version>>,
           NEW w \in Workers, NEW rec, Moved(w, rec), wt[w].pc # "submit", rec.pc # "submit",
           rec.pc = "update_read" => Translating(rec),
           \/ ~Translating(wt[w]) /\ ~Translating(rec) /\ rec.txns \in {<<>>, wt[w].txns}
           \/ /\ Translating(rec) <=> Translating(wt[w])
              /\ rec.txns = wt[w].txns /\ rec.i = wt[w].i /\ rec.mvpn = wt[w].mvpn
              /\ Roomy /\ Updates /\ Translating(wt[w]) =>
                    /\ \/ rec.ret = wt[w].ret
                       \/ rec.ret = "alloc" /\ MappedPpa(Txn(w).lpa) = NONE
                    /\ rec.pc = "update_read" => rec.ret = "alloc" /\ MappedPpa(Txn(w).lpa) # NONE
    PROVE  DataInv'
<1> SUFFICES ASSUME Roomy' PROVE Updates'
  BY DEF DataInv
<1>1. Roomy /\ Updates /\ Types /\ Types' /\ \A l \in Lpas : Stays(l)
  BY DEF Roomy, DataInv, Inv, Steady
<1>2. CASE ~Translating(wt[w]) /\ ~Translating(rec) /\ rec.txns = <<>>
  BY <1>1, <1>2, QuietMove
<1>3. CASE ~Translating(wt[w]) /\ ~Translating(rec) /\ rec.txns = wt[w].txns
  <2>1. wt[w].txns = <<>>
    BY <1>1, <1>3 DEF Updates, Course
  <2> QED BY <1>1, <1>3, <2>1, QuietMove
<1>4. CASE Translating(wt[w])
  BY <1>1, <1>4, QuietMove
<1> QED BY <1>2, <1>3, <1>4

\* xpc_pin and mutex_lock move the worker, whose call stays r.
LEMMA PinMoves ==
    ASSUME Types, NEW w \in Workers, NEW f, NEW r, IsCall(r), PinAndLock(w, f, r)
    PROVE  \E rec : /\ Moved(w, rec) /\ rec.pc \in {"locked", "lock_wait"} /\ rec.mvpn = r.mvpn
                    /\ rec.ret = r.ret /\ rec.txns = r.txns /\ rec.i = r.i
<1> DEFINE c == IF xpgs[f].owner = NONE THEN "locked" ELSE "lock_wait"
           rec == [r EXCEPT !.pc = c, !.frame = f]
<1>1. wt' = [wt EXCEPT ![w] = rec] /\ c \in {"locked", "lock_wait"}
  BY DEF PinAndLock, Goto, Wait
<1> HIDE DEF c
<1>2. /\ rec.pc = c /\ rec.mvpn = r.mvpn /\ rec.ret = r.ret /\ rec.txns = r.txns /\ rec.i = r.i
  BY DEF IsCall
<1> HIDE DEF rec
<1>3. Moved(w, rec)
  BY <1>1 DEF Types, Moved
<1> QED BY <1>1, <1>2, <1>3

\* get_translation_page finds the page in the tree.
LEMMA HitPageData == ASSUME Inv, DataInv, NEW w \in Workers, HitPage(w) PROVE DataInv'
<1>1. wt[w].pc = "page" /\ IsCall(wt[w]) /\ Types
  BY Here DEF HitPage, Running, Inv
<1>2. PICK f \in Found(wt[w].mvpn) : PinAndLock(w, f, wt[w])
  BY DEF HitPage
<1>3. PICK rec : /\ Moved(w, rec) /\ rec.pc \in {"locked", "lock_wait"} /\ rec.mvpn = wt[w].mvpn
                 /\ rec.ret = wt[w].ret /\ rec.txns = wt[w].txns /\ rec.i = wt[w].i
  BY <1>1, <1>2, PinMoves
<1>4. (Translating(rec) <=> Translating(wt[w])) /\ rec.pc \notin {"submit", "update_read"}
  BY <1>1, <1>3 DEF Translating
<1>5. UNCHANGED <<setup, evicted, data, latest, lost, version, used>>
  BY DEF HitPage
<1>6. Inv' /\ Steady
  BY HitPageKeeps
<1> QED BY <1>1, <1>3, <1>4, <1>5, <1>6, QuietStep

\* get_translation_page adds a page: new, or to be read from flash.
LEMMA AddPageData == ASSUME Inv, DataInv, NEW w \in Workers, AddPage(w) PROVE DataInv'
<1> DEFINE f == Min({g \in Frames : xpgs[g].mvpn = NONE})
           c == IF gtd[wt[w].mvpn] = NONE THEN "locked" ELSE "read_xpg"
           rec == [wt[w] EXCEPT !.pc = c, !.frame = f]
<1>1. /\ wt[w].pc = "page" /\ IsCall(wt[w]) /\ wt' = [wt EXCEPT ![w] = rec]
      /\ UNCHANGED <<setup, evicted, data, latest, lost, version, used>>
  BY Here DEF AddPage, Running, Goto, Wait
<1>2. c \in {"locked", "read_xpg"}
  OBVIOUS
<1> HIDE DEF c, f
<1>3. /\ rec.pc = c /\ rec.mvpn = wt[w].mvpn /\ rec.ret = wt[w].ret /\ rec.txns = wt[w].txns
      /\ rec.i = wt[w].i
  BY <1>1 DEF IsCall
<1> HIDE DEF rec
<1>4. Moved(w, rec)
  BY <1>1 DEF Inv, Types, Moved
<1>5. (Translating(rec) <=> Translating(wt[w])) /\ rec.pc \notin {"submit", "update_read"}
  BY <1>1, <1>2, <1>3 DEF Translating
<1>6. Inv' /\ Steady
  BY AddPageKeeps
<1> QED BY <1>1, <1>3, <1>4, <1>5, <1>6, QuietStep

\* xpc_read_page completes, or mutex_lock returns.
LEMMA LockedData ==
    ASSUME Inv, DataInv, NEW w \in Workers, ReadPage(w) \/ LockGranted(w) PROVE DataInv'
<1> DEFINE rec == [wt[w] EXCEPT !.pc = "locked"]
<1>1. /\ wt[w].pc \in {"read_xpg", "lock_wait"} /\ IsCall(wt[w]) /\ wt' = [wt EXCEPT ![w] = rec]
      /\ UNCHANGED <<setup, evicted, data, latest, lost, version, used>>
  BY Here DEF ReadPage, LockGranted, Resumes, Goto
<1>3. /\ rec.pc = "locked" /\ rec.mvpn = wt[w].mvpn /\ rec.ret = wt[w].ret
      /\ rec.txns = wt[w].txns /\ rec.i = wt[w].i
  BY <1>1 DEF IsCall
<1> HIDE DEF rec
<1>4. Moved(w, rec)
  BY <1>1 DEF Inv, Types, Moved
<1>5. (Translating(rec) <=> Translating(wt[w])) /\ rec.pc \notin {"submit", "update_read"}
  BY <1>1, <1>3 DEF Translating
<1>6. Inv' /\ Steady
  BY ReadPageKeeps, LockGrantedKeeps
<1> QED BY <1>1, <1>3, <1>4, <1>5, <1>6, QuietStep

\* amu_save_domain begins.
LEMMA SaveDomainData == ASSUME Inv, DataInv, NEW w \in Workers, SaveDomain(w) PROVE DataInv'
<1> DEFINE rec == [Idle EXCEPT !.pc = "scan"]
<1>1. /\ wt[w].pc = "idle" /\ wt' = [wt EXCEPT ![w] = rec]
      /\ UNCHANGED <<setup, evicted, data, latest, lost, version, used>>
  BY DEF SaveDomain, Resumes, Goto
<1>2. rec.pc = "scan" /\ rec.txns = <<>>
  BY DEF Idle
<1> HIDE DEF rec
<1>3. Moved(w, rec) /\ ~Translating(wt[w]) /\ ~Translating(rec)
  BY <1>1, <1>2 DEF Inv, Types, Moved, Translating
<1>4. Inv' /\ Steady
  BY SaveDomainKeeps
<1> QED BY <1>1, <1>2, <1>3, <1>4, QuietStep

\* flush_domain takes the next page.
LEMMA FlushDomainData == ASSUME Inv, DataInv, NEW w \in Workers, FlushDomain(w) PROVE DataInv'
<1> DEFINE f == NextAhead(wt[w].mvpn)
           r == [wt[w] EXCEPT !.mvpn = xpgs[f].mvpn, !.ret = "save"]
<1>1. /\ wt[w].pc = "scan" /\ IsCall(wt[w]) /\ Ahead(wt[w].mvpn) # {} /\ Types
      /\ UNCHANGED <<setup, evicted, data, latest, lost, version, used>>
      /\ PinAndLock(w, f, r) \/ Goto(w, r)
  BY Here DEF FlushDomain, Running, Ahead, NextAhead, Inv
<1>2. xpgs[f].mvpn \in Mvpns /\ xpgs[f].mvpn \in Int
  BY <1>1, NextToSave, MvpnIsInt DEF IsCall
<1> HIDE DEF f
<1>3. IsCall(r) /\ r.pc = "scan" /\ r.ret = "save" /\ r.txns = wt[w].txns
  BY <1>1, <1>2 DEF IsCall
<1> HIDE DEF r
<1>4. \E rec : /\ Moved(w, rec) /\ rec.pc \notin {"submit", "update_read"}
              /\ rec.ret = "save" /\ rec.txns = wt[w].txns
  <2>1. CASE PinAndLock(w, f, r)
    <3>1. PICK rec : /\ Moved(w, rec) /\ rec.pc \in {"locked", "lock_wait"} /\ rec.mvpn = r.mvpn
                     /\ rec.ret = r.ret /\ rec.txns = r.txns /\ rec.i = r.i
      BY <1>1, <1>3, <2>1, PinMoves
    <3> QED BY <1>3, <3>1
  <2>2. CASE Goto(w, r)
    <3>1. Moved(w, r)
      BY <1>1, <2>2 DEF Goto, Types, Moved
    <3> QED BY <1>3, <3>1
  <2> QED BY <1>1, <2>1, <2>2
<1>5. PICK rec : /\ Moved(w, rec) /\ rec.pc \notin {"submit", "update_read"}
                /\ rec.ret = "save" /\ rec.txns = wt[w].txns
  BY <1>4
<1>6. ~Translating(wt[w]) /\ ~Translating(rec)
  BY <1>1, <1>5 DEF Translating
<1>7. Inv' /\ Steady
  BY FlushDomainKeeps
<1> QED BY <1>1, <1>5, <1>6, <1>7, QuietStep

\* xpc_flush_page begins, has nothing to do or completes, or save_gtd does.
LEMMA SavingData ==
    ASSUME Inv, DataInv, NEW w \in Workers, FlushPage(w) \/ PageFlushed(w) \/ SaveGtd(w)
    PROVE  DataInv'
<1>1. /\ IsCall(wt[w]) /\ wt[w].pc # "submit" /\ ~Translating(wt[w])
      /\ UNCHANGED <<setup, evicted, data, latest, lost, version>>
  BY Here DEF FlushPage, PageFlushed, SaveGtd, Running, Resumes, Translating
<1>2. used \subseteq used'
  BY DEF FlushPage, PageFlushed, SaveGtd
<1>3. \E rec : /\ wt' = [wt EXCEPT ![w] = rec] /\ rec.pc \in {"save_flush", "scan", "idle"}
               /\ rec.txns \in {<<>>, wt[w].txns}
  <2>1. \/ wt' = [wt EXCEPT ![w] = [wt[w] EXCEPT !.pc = "save_flush"]]
        \/ wt' = [wt EXCEPT ![w] = [wt[w] EXCEPT !.pc = "scan"]]
        \/ wt' = [wt EXCEPT ![w] = Idle]
    BY DEF FlushPage, PageFlushed, SaveGtd, Goto, Wait
  <2>2. ASSUME NEW c PROVE [wt[w] EXCEPT !.pc = c].pc = c /\ [wt[w] EXCEPT !.pc = c].txns = wt[w].txns
    BY <1>1 DEF IsCall
  <2>3. Idle.pc = "idle" /\ Idle.txns = <<>>
    BY DEF Idle
  <2> QED BY <2>1, <2>2, <2>3
<1>4. PICK rec : /\ wt' = [wt EXCEPT ![w] = rec] /\ rec.pc \in {"save_flush", "scan", "idle"}
                 /\ rec.txns \in {<<>>, wt[w].txns}
  BY <1>3
<1>5. Moved(w, rec) /\ ~Translating(rec) /\ rec.pc # "submit"
  BY <1>4 DEF Inv, Types, Moved, Translating
<1>6. Inv' /\ Steady
  BY FlushPageKeeps, PageFlushedKeeps, SaveGtdKeeps
<1> QED BY <1>1, <1>2, <1>4, <1>5, <1>6, QuietStep

\* In a roomy cache nothing is evicted and the assertion of xpc_unpin holds.
LEMMA NotRoomyData ==
    ASSUME Inv, NEW w \in Workers, EvictFlushed(w) \/ AssertFails(w) PROVE DataInv'
<1>1. CASE EvictFlushed(w)
  <2>1. wt[w].pc = "evict_flush" /\ UNCHANGED <<setup, evicted>>
    BY <1>1 DEF EvictFlushed, Resumes
  <2> QED BY <2>1 DEF Inv, Pages, Held, DataInv, Roomy
<1>2. CASE AssertFails(w)
  <2> DEFINE rec == [wt[w] EXCEPT !.pc = "assert"]
  <2>1. Inv' /\ IsCall(wt[w]) /\ wt' = [wt EXCEPT ![w] = rec]
    BY <1>2, AssertFailsKeeps, Here DEF AssertFails, Goto
  <2>2. rec.pc = "assert"
    BY <2>1 DEF IsCall
  <2> HIDE DEF rec
  <2>3. wt'[w].pc = "assert"
    BY <2>1, <2>2 DEF Inv, Types
  <2> QED BY <2>1, <2>3 DEF Inv, Pages, Held, DataInv
<1> QED BY <1>1, <1>2

\* The device is restarted after a save.
LEMMA RebootData == ASSUME Inv, DataInv, Reboot PROVE DataInv'
<1> SUFFICES ASSUME Roomy' PROVE Updates'
  BY DEF DataInv
<1>1. Inv' /\ Steady /\ UNCHANGED <<setup, evicted, data, latest, lost, version, used, wt>>
  BY RebootKeeps DEF Reboot
<1>2. Roomy /\ Updates /\ Types /\ Types' /\ \A l \in Lpas : Stays(l)
  BY <1>1 DEF Roomy, DataInv, Inv, Steady
<1>3. \A w \in Workers : Course(w)'
  BY <1>1, <1>2, TxnLpa, CourseKept DEF Updates, Stays
<1> QED BY <1>1, <1>2, <1>3, Quiet

----------------------------------------------------------------------------
(* Translation                                                             *)

\* A worker that has a page to translate with finds its logical page there.
LEMMA AtPage ==
    ASSUME Inv, Roomy, Updates, NEW w \in Workers, wt[w].pc \in {"locked", "update_read"},
           Translating(wt[w])
    PROVE  /\ wt[w].i \in DOMAIN wt[w].txns /\ Txn(w).lpa \in Lpas
           /\ Txn(w).lpa = <<wt[w].mvpn, Txn(w).lpa[2]>>
           /\ Loads(xpgs, Busy, wt[w].frame, Txn(w).lpa)
           /\ MappedPpa(Txn(w).lpa) = Entry(w).ppa
<1>1. wt[w].i \in DOMAIN wt[w].txns /\ Txn(w).lpa[1] = wt[w].mvpn
  BY DEF Updates, Course
<1>2. Txn(w).lpa \in Lpas
  BY <1>1, TxnLpa DEF Inv, Txn
<1>3. Txn(w).lpa = <<wt[w].mvpn, Txn(w).lpa[2]>>
  BY SMT, <1>1, <1>2 DEF Lpas
<1>4. /\ wt[w].frame \in Frames /\ xpgs[wt[w].frame].in_tree
      /\ xpgs[wt[w].frame].mvpn = wt[w].mvpn /\ CachedOnce
  BY Here DEF Inv, Pages, Held, WithPage, Working
<1>5. wt[w].frame \notin Busy
  BY DEF Busy, Loading, Inv, Lists, Alone, Working
<1>6. Loads(xpgs, Busy, wt[w].frame, Txn(w).lpa)
  BY <1>1, <1>4, <1>5 DEF Loads
<1>7. MappedPpa(Txn(w).lpa) = Entry(w).ppa
  BY <1>4, <1>6, MappedCached DEF Entry
<1> QED BY <1>1, <1>2, <1>3, <1>6, <1>7

\* Transaction i of worker w is u now and has its PPA: the next one is translated, or
\* the first is executed.
Advanced(w, u, rec) ==
    LET i == wt[w].i
    IN  /\ Moved(w, rec) /\ DOMAIN rec.txns = DOMAIN wt[w].txns
        /\ \A k \in DOMAIN wt[w].txns : rec.txns[k] = IF k = i THEN u ELSE wt[w].txns[k]
        /\ Placed(rec) = Placed(wt[w]) \cup {i} /\ Coming(rec) = Coming(wt[w]) \ {i}
        /\ rec.i \in DOMAIN wt[w].txns
        /\ \/ rec.pc = "submit"
           \/ /\ rec.pc = "page" /\ rec.mvpn = rec.txns[rec.i].lpa[1]
              /\ rec.ret = IF rec.txns[rec.i].type = "read" THEN "get_ppa" ELSE "alloc"

LEMMA TranslatedAdvances ==
    ASSUME Types, NEW w \in Workers, wt[w].pc # "submit", wt[w].i \in DOMAIN wt[w].txns,
           NEW u, IsTxn(u), NEW r, r = [wt[w] EXCEPT !.txns[wt[w].i] = u], Translated(w, r)
    PROVE  \E rec : Advanced(w, u, rec)
<1> DEFINE i == wt[w].i
           n == Len(wt[w].txns)
           ts == [wt[w].txns EXCEPT ![i] = u]
<1>1. n \in Nat /\ DOMAIN wt[w].txns = 1..n /\ i \in 1..n
  BY TxnLpa
<1>2. IsCall(wt[w]) /\ i \in Nat \ {0}
  BY DEF Types, IsCall
<1>3. DOMAIN ts = 1..n /\ \A k \in 1..n : ts[k] = IF k = i THEN u ELSE wt[w].txns[k]
  BY <1>1
<1>4. Len(ts) = n
  BY <1>2, TxnsExcept DEF IsCall
<1>5. /\ r.txns = ts /\ r.i = i /\ r.pc = wt[w].pc
      /\ r = [s \in {"pc", "ret", "txns", "i", "frame", "mvpn"} |-> r[s]]
  BY <1>2 DEF IsCall
<1> HIDE DEF ts
<1>6. Placed(wt[w]) = 1..(i - 1) /\ Coming(wt[w]) = i..n
  BY SMT, <1>1, <1>2 DEF Placed, Coming
<1>7. CASE i < n
  <2> DEFINE q == [r EXCEPT !.i = @ + 1]
             rec == NeedPage(q)
  <2>1. /\ q = [s \in {"pc", "ret", "txns", "i", "frame", "mvpn"} |-> q[s]]
        /\ q.i = i + 1 /\ q.txns = ts
    BY <1>5
  <2>2. wt' = [wt EXCEPT ![w] = rec]
    BY <1>4, <1>5, <1>7 DEF Translated, Goto
  <2> HIDE DEF q
  <2>3. /\ rec.pc = "page" /\ rec.i = i + 1 /\ rec.txns = ts /\ rec.mvpn = ts[i + 1].lpa[1]
        /\ rec.ret = IF ts[i + 1].type = "read" THEN "get_ppa" ELSE "alloc"
    BY <2>1 DEF NeedPage
  <2> HIDE DEF rec
  <2>4. Moved(w, rec)
    BY <2>2 DEF Types, Moved
  <2>5. /\ Placed(rec) = Placed(wt[w]) \cup {i} /\ Coming(rec) = Coming(wt[w]) \ {i}
        /\ rec.i \in 1..n
    BY SMT, <1>1, <1>2, <1>3, <1>6, <1>7, <2>3 DEF Placed, Coming
  <2> QED BY <1>1, <1>3, <2>3, <2>4, <2>5 DEF Advanced
<1>8. CASE ~(i < n)
  <2> DEFINE rec == [r EXCEPT !.i = 1, !.pc = "submit"]
  <2>1. rec.pc = "submit" /\ rec.i = 1 /\ rec.txns = ts
    BY <1>5
  <2>2. wt' = [wt EXCEPT ![w] = rec]
    BY <1>4, <1>5, <1>8 DEF Translated, Wait
  <2> HIDE DEF rec
  <2>4. Moved(w, rec)
    BY <2>2 DEF Types, Moved
  <2>5. /\ Placed(rec) = Placed(wt[w]) \cup {i} /\ Coming(rec) = Coming(wt[w]) \ {i}
        /\ rec.i \in 1..n
    BY SMT, <1>1, <1>2, <1>3, <1>6, <1>8, <2>1 DEF Placed, Coming
  <2> QED BY <1>1, <1>3, <2>1, <2>4, <2>5 DEF Advanced
<1> QED BY <1>7, <1>8

\* Transaction i of worker w becomes u, on the same logical page, which may move; a
\* write now goes where the mapping leads.
LEMMA PlaceData ==
    ASSUME Updates, Types, Types', used \subseteq used', UNCHANGED <<data, latest, lost, version>>,
           NEW w \in Workers, wt[w].i \in DOMAIN wt[w].txns, wt[w].pc # "submit",
           NEW u, NEW rec, Advanced(w, u, rec), NEW l \in Lpas, l = Txn(w).lpa,
           u.lpa = l, u.type = Txn(w).type, u.data \in Contents,
           \A k \in Lpas \ {l} : Stays(k),
           u.type = "read" => (l \notin lost => Faithful(l)'),
           u.type = "write" => /\ MappedPpa(l)' = u.ppa /\ u.ppa # NONE
                               /\ l \notin lost => \A s \in Sectors : u.data[s] >= latest[l][s],
           \A f \in Frames : l \notin lost /\ Loads(xpgs', Busy', f, l) =>
              \A s \in Sectors : latest[l][s] # 0 \/ (u.type = "write" /\ u.data[s] # 0) =>
                 s \in xpgs'[f].entries[l[2]].bitmap
    PROVE  Updates'
<1>0. PICK i : i = wt[w].i
  OBVIOUS
<1>1. /\ wt'[w] = rec /\ (\A v \in Workers \ {w} : wt'[v] = wt[v])
      /\ DOMAIN rec.txns = DOMAIN wt[w].txns
      /\ \A k \in DOMAIN wt[w].txns : rec.txns[k] = IF k = i THEN u ELSE wt[w].txns[k]
      /\ Placed(rec) = Placed(wt[w]) \cup {i} /\ Coming(rec) = Coming(wt[w]) \ {i}
      /\ rec.i \in DOMAIN wt[w].txns
  BY <1>0 DEF Advanced, Moved
<1>2. wt[w].txns[i] = Txn(w) /\ i \in DOMAIN wt[w].txns
  BY <1>0 DEF Txn
<1>3. ASSUME NEW v \in Workers
      PROVE  /\ DOMAIN wt'[v].txns = DOMAIN wt[v].txns
             /\ \A k \in DOMAIN wt[v].txns :
                   /\ wt'[v].txns[k].lpa = wt[v].txns[k].lpa /\ wt'[v].txns[k].type = wt[v].txns[k].type
                   /\ wt[v].txns[k].lpa \in Lpas
                   /\ wt[v].txns[k].lpa # l => wt'[v].txns[k] = wt[v].txns[k]
                   /\ wt[v].txns[k].lpa = l => v = w /\ k = i
  <2>1. \A k \in DOMAIN wt[v].txns : wt[v].txns[k].lpa = l => v = w /\ k = i
    <3>1. Apart
      BY DEF Updates
    <3> QED BY SMT, <1>2, <3>1 DEF Apart
  <2>2. CASE v = w
    BY <1>1, <1>2, <2>1, <2>2, TxnLpa
  <2>3. CASE v # w
    BY <1>1, <2>1, <2>3, TxnLpa
  <2> QED BY <2>2, <2>3
<1>4. Numbers' /\ Apart' /\ Blank'
  <2>1. ASSUME NEW v \in Workers, NEW k \in DOMAIN wt[v].txns
        PROVE  wt'[v].txns[k].data \in Contents /\ wt'[v].txns[k].type \in {"read", "write"}
    <3>1. CASE wt[v].txns[k].lpa = l
      BY <1>1, <1>2, <1>3, <3>1 DEF Updates, Numbers
    <3>2. CASE wt[v].txns[k].lpa # l
      BY <1>3, <3>2 DEF Updates, Numbers
    <3> QED BY <3>1, <3>2
  <2>2. Numbers'
    BY <1>3, <2>1 DEF Updates, Numbers, Contents
  <2>3. Apart'
    <3> SUFFICES ASSUME NEW v \in Workers, NEW x \in Workers, NEW j \in DOMAIN wt'[v].txns,
                        NEW k \in DOMAIN wt'[x].txns, wt'[v].txns[j].lpa = wt'[x].txns[k].lpa
                 PROVE  v = x /\ j = k
      BY DEF Apart
    <3>1. j \in DOMAIN wt[v].txns /\ k \in DOMAIN wt[x].txns
      BY <1>3
    <3>2. wt[v].txns[j].lpa = wt[x].txns[k].lpa
      BY <1>3, <3>1
    <3>3. Apart
      BY DEF Updates
    <3> QED BY SMT, <3>1, <3>2, <3>3 DEF Apart
  <2>4. Blank'
    BY DEF Updates, Blank
  <2> QED BY <2>2, <2>3, <2>4
<1>5. \A k \in Lpas : k # l => MappedPpa(k)' = MappedPpa(k)
  BY DEF Stays
<1>6. ASSUME NEW v \in Workers, NEW k \in DOMAIN wt[v].txns, wt[v].txns[k].lpa # l
      PROVE  /\ k \in Placed(wt'[v]) <=> k \in Placed(wt[v])
             /\ k \in Coming(wt'[v]) <=> k \in Coming(wt[v])
  <2>1. v # w \/ k # i
    BY <1>2, <1>6
  <2> QED BY <1>1, <2>1
<1>7. ASSUME NEW v \in Workers, NEW k \in DOMAIN wt[v].txns, NEW m \in Lpas, m # l
      PROVE  Writes(v, k, m)' <=> Writes(v, k, m)
  BY <1>3, <1>6, <1>7 DEF Writes
<1>8. Settled'
  <2> SUFFICES ASSUME NEW m \in Lpas, m \notin lost, ~InFlight(m)' PROVE Faithful(m)'
    BY DEF Settled
  <2>1. CASE m # l
    <3>1. ~InFlight(m)
      BY <1>3, <1>7, <2>1 DEF InFlight
    <3>2. Faithful(m)
      BY <3>1 DEF Updates, Settled
    <3> QED BY <1>5, <2>1, <3>2 DEF Faithful
  <2>2. CASE m = l
    <3>1. u.type # "write"
      <4> SUFFICES ASSUME u.type = "write" PROVE FALSE
        OBVIOUS
      <4>1. Writes(w, i, l)'
        BY <1>1, <1>2 DEF Writes
      <4> QED BY <1>1, <1>2, <2>2, <4>1 DEF InFlight
    <3>2. u.type = "read"
      BY <1>2, <3>1 DEF Updates, Numbers
    <3> QED BY <2>2, <3>2
  <2> QED BY <2>1, <2>2
<1>9. Covered'
  <2> SUFFICES ASSUME NEW m \in Lpas, NEW f \in Frames, m \notin lost, Loads(xpgs', Busy', f, m),
                      NEW s \in Sectors, Written(m, s)'
               PROVE  s \in xpgs'[f].entries[m[2]].bitmap
    BY DEF Covered
  <2>1. CASE m # l
    <3>1. Written(m, s)
      <4>1. CASE latest[m][s] # 0
        BY <4>1 DEF Written
      <4>2. CASE \E v \in Workers : \E k \in DOMAIN wt'[v].txns :
                    Writes(v, k, m)' /\ wt'[v].txns[k].data[s] # 0
        <5>1. PICK v \in Workers : \E k \in DOMAIN wt'[v].txns :
                    Writes(v, k, m)' /\ wt'[v].txns[k].data[s] # 0
          BY <4>2
        <5>2. PICK k \in DOMAIN wt[v].txns : Writes(v, k, m)' /\ wt'[v].txns[k].data[s] # 0
          BY <1>3, <5>1
        <5>3. Writes(v, k, m)
          BY <1>7, <2>1, <5>2
        <5>4. wt'[v].txns[k] = wt[v].txns[k]
          BY <1>3, <2>1, <5>3 DEF Writes
        <5> QED BY <5>2, <5>3, <5>4 DEF Written
      <4> QED BY <4>1, <4>2 DEF Written
    <3>2. MappedPpa(m) # NONE
      BY <3>1, WrittenIsMapped
    <3>3. Stays(m)
      BY <2>1
    <3> QED BY <3>1, <3>2, <3>3 DEF Stays, Updates, Covered
  <2>2. CASE m = l
    <3>1. latest[l][s] # 0 \/ (u.type = "write" /\ u.data[s] # 0)
      <4> SUFFICES ASSUME latest[l][s] = 0 PROVE u.type = "write" /\ u.data[s] # 0
        OBVIOUS
      <4>1. PICK v \in Workers : \E k \in DOMAIN wt'[v].txns :
                    Writes(v, k, l)' /\ wt'[v].txns[k].data[s] # 0
        BY <2>2 DEF Written
      <4>2. PICK k \in DOMAIN wt[v].txns : Writes(v, k, l)' /\ wt'[v].txns[k].data[s] # 0
        BY <1>3, <4>1
      <4>3. wt'[v].txns[k].lpa = l /\ wt'[v].txns[k].type = "write"
        BY <4>2 DEF Writes
      <4>4. wt[v].txns[k].lpa = l
        BY <1>3, <4>3
      <4>5. v = w /\ k = i
        BY <1>3, <4>4
      <4>6. wt'[v].txns[k] = u
        BY <1>1, <1>2, <4>5
      <4> QED BY <4>2, <4>3, <4>6
    <3> QED BY <2>2, <3>1
  <2> QED BY <2>1, <2>2
<1>10. ASSUME NEW v \in Workers PROVE Transit(v)'
  <2>1. ASSUME NEW t, t.lpa \in Lpas, t.lpa # l, Follows(t) PROVE Follows(t)'
    BY <1>5, <2>1 DEF Follows
  <2>2. ASSUME NEW t, Brings(t) PROVE Brings(t)'
    BY <2>2 DEF Brings
  <2>3. Follows(u)'
    BY DEF Follows
  <2>4. ASSUME NEW k \in Placed(wt'[v])
        PROVE  \/ wt'[v].txns[k] = u
               \/ /\ wt'[v].txns[k] = wt[v].txns[k] /\ Follows(wt[v].txns[k])
                  /\ wt[v].txns[k].lpa \in Lpas /\ wt[v].txns[k].lpa # l
    <3>1. k \in DOMAIN wt[v].txns
      BY <1>3 DEF Placed
    <3>2. CASE wt[v].txns[k].lpa = l
      BY <1>1, <1>3, <3>1, <3>2
    <3>3. CASE wt[v].txns[k].lpa # l
      <4>1. k \in Placed(wt[v])
        BY <1>6, <3>1, <3>3
      <4> QED BY <1>3, <3>1, <3>3, <4>1 DEF Updates, Transit
    <3> QED BY <3>2, <3>3
  <2>5. ASSUME NEW k \in Coming(wt'[v])
        PROVE  wt'[v].txns[k] = wt[v].txns[k] /\ Brings(wt[v].txns[k])
    <3>1. k \in DOMAIN wt[v].txns
      BY <1>3 DEF Coming
    <3>2. wt[v].txns[k].lpa # l
      BY <1>1, <1>3, <3>1
    <3>3. k \in Coming(wt[v])
      BY <1>6, <3>1, <3>2
    <3> QED BY <1>3, <3>1, <3>2, <3>3 DEF Updates, Transit
  <2> QED BY <2>1, <2>2, <2>3, <2>4, <2>5 DEF Transit
<1>11. ASSUME NEW v \in Workers PROVE Course(v)'
  <2>1. CASE v # w
    <3>1. wt'[v] = wt[v] /\ \A k \in DOMAIN wt[v].txns : wt[v].txns[k].lpa # l
      BY <1>1, <1>3, <2>1
    <3> QED BY <1>3, <1>5, <3>1, CourseKept DEF Updates
  <2>2. CASE v = w /\ rec.pc = "submit"
    BY <1>1, <2>2 DEF Course, Translating
  <2>3. CASE v = w /\ rec.pc # "submit"
    <3>1. /\ rec.pc = "page" /\ rec.mvpn = rec.txns[rec.i].lpa[1]
          /\ rec.ret = IF rec.txns[rec.i].type = "read" THEN "get_ppa" ELSE "alloc"
      BY <2>3 DEF Advanced
    <3>2. Txn(w)' = rec.txns[rec.i]
      BY <1>1 DEF Txn
    <3> QED BY <1>1, <2>3, <3>1, <3>2 DEF Course, Translating
  <2> QED BY <2>1, <2>2, <2>3
<1> QED BY <1>4, <1>8, <1>9, <1>10, <1>11 DEF Updates

\* While a transaction is not translated, its logical page is not being written.
LEMMA HereSettled ==
    ASSUME Updates, Types, NEW w \in Workers, wt[w].i \in DOMAIN wt[w].txns, wt[w].pc # "submit",
           NEW l \in Lpas, l = Txn(w).lpa
    PROVE  /\ ~InFlight(l) /\ (l \notin lost => Faithful(l))
           /\ wt[w].i \in Coming(wt[w]) /\ Brings(Txn(w))
           /\ \A s \in Sectors : Written(l, s) <=> latest[l][s] # 0
<1>1. wt[w].i \in Nat /\ DOMAIN wt[w].txns \subseteq Nat
  BY SMT, TxnLpa DEF Types, IsCall
<1>2. wt[w].i \notin Placed(wt[w]) /\ wt[w].i \in Coming(wt[w])
  BY SMT, <1>1 DEF Placed, Coming
<1>3. ASSUME NEW v \in Workers, NEW k \in DOMAIN wt[v].txns PROVE ~Writes(v, k, l)
  <2>1. wt[v].txns[k].lpa = wt[w].txns[wt[w].i].lpa => v = w /\ k = wt[w].i
    BY SMT DEF Updates, Apart
  <2> QED BY <1>2, <2>1 DEF Writes, Txn
<1>4. ~InFlight(l)
  BY <1>3 DEF InFlight
<1>5. l \notin lost => Faithful(l)
  BY <1>4 DEF Updates, Settled
<1>6. Brings(Txn(w))
  BY <1>2 DEF Updates, Transit, Txn
<1>7. \A s \in Sectors : Written(l, s) <=> latest[l][s] # 0
  BY <1>3 DEF Written
<1> QED BY <1>2, <1>4, <1>5, <1>6, <1>7

\* get_ppa of a read finds a page, or finds that one has to be allocated.
LEMMA GetPpaData == ASSUME Inv, DataInv, NEW w \in Workers, GetPpa(w) PROVE DataInv'
<1>1. /\ wt[w].pc = "locked" /\ wt[w].ret = "get_ppa" /\ IsCall(wt[w]) /\ Translating(wt[w])
      /\ UNCHANGED <<setup, evicted, data, latest, lost, version, used>>
  BY Here DEF GetPpa, Running, Translating
<1>2. Inv' /\ Steady
  BY GetPpaKeeps
<1>3. CASE Entry(w).ppa = NONE
  <2> DEFINE rec == [wt[w] EXCEPT !.pc = "page", !.ret = "alloc"]
  <2>1. wt' = [wt EXCEPT ![w] = rec]
    BY <1>3 DEF GetPpa, Goto
  <2>2. /\ rec.pc = "page" /\ rec.ret = "alloc" /\ rec.txns = wt[w].txns /\ rec.i = wt[w].i
        /\ rec.mvpn = wt[w].mvpn
    BY <1>1 DEF IsCall
  <2> HIDE DEF rec
  <2>3. Moved(w, rec) /\ Translating(rec)
    BY <2>1, <2>2 DEF Inv, Types, Moved, Translating
  <2>4. Roomy /\ Updates => MappedPpa(Txn(w).lpa) = NONE
    BY <1>1, <1>3, AtPage
  <2> QED BY <1>1, <1>2, <2>2, <2>3, <2>4, QuietStep
<1>4. CASE Entry(w).ppa # NONE
  <2> SUFFICES ASSUME Roomy' PROVE Updates'
    BY DEF DataInv
  <2>1. Roomy /\ Updates /\ Types /\ Types' /\ \A l \in Lpas : Stays(l)
    BY <1>1, <1>2 DEF Roomy, DataInv, Inv, Steady
  <2>2. wt[w].i \in DOMAIN wt[w].txns /\ Txn(w).lpa \in Lpas
    BY <1>1, <2>1, AtPage
  <2>3. IsTxn(Txn(w)) /\ Txn(w).type = "read" /\ Txn(w).data \in Contents
    <3>1. wt[w].i \in 1..Len(wt[w].txns)
      BY <2>1, <2>2, TxnLpa
    <3> QED BY <1>1, <2>1, <2>2, <3>1, CurrentTxn DEF Updates, Course, Numbers, Txn
  <2>4. PICK u, l : u = [Txn(w) EXCEPT !.ppa = Entry(w).ppa] /\ l = Txn(w).lpa
    OBVIOUS
  <2>5. IsTxn(u) /\ u.lpa = l /\ u.type = "read" /\ u.data \in Contents
    BY <2>3, <2>4 DEF IsTxn
  <2>6. Translated(w, [wt[w] EXCEPT !.txns[wt[w].i] = u])
    BY <1>4, <2>4 DEF GetPpa, Txn
  <2>7. PICK rec : Advanced(w, u, rec)
    BY <1>1, <2>1, <2>2, <2>5, <2>6, TranslatedAdvances
  <2>8. l \in Lpas /\ (l \notin lost => Faithful(l)) /\ \A s \in Sectors : latest[l][s] # 0 => Written(l, s)
    BY <1>1, <2>1, <2>2, <2>4, HereSettled
  <2>9. l \notin lost => Faithful(l)'
    BY <1>1, <2>1, <2>8 DEF Faithful, Stays
  <2>10. ASSUME NEW f \in Frames, l \notin lost, Loads(xpgs', Busy', f, l), NEW s \in Sectors,
                latest[l][s] # 0
         PROVE  s \in xpgs'[f].entries[l[2]].bitmap
    <3>1. Written(l, s) /\ MappedPpa(l) # NONE
      BY <2>1, <2>8, <2>10, WrittenIsMapped
    <3> QED BY <2>1, <2>8, <2>10, <3>1 DEF Stays, Updates, Covered
  <2> QED BY <1>1, <2>1, <2>2, <2>3, <2>4, <2>5, <2>7, <2>8, <2>9, <2>10, PlaceData
<1> QED BY <1>3, <1>4

\* What a comparison of version numbers means.
LEMMA Newer == ASSUME NEW a \in Nat, NEW b \in Nat PROVE (a > b => a >= b) /\ a >= a /\ (b = 0 => a >= b)
BY SMT

\* Contents are functions to numbers.
LEMMA IsNumber == ASSUME Numbers, NEW c \in Contents, NEW s \in Sectors PROVE c[s] \in Nat
<1>1. c[s] \in 0..version /\ version \in Nat
  BY DEF Numbers, Contents
<1> QED BY SMT, <1>1

\* The rest of alloc_page_for_write, for a transaction t that brings all that its
\* logical page had.
LEMMA MapData ==
    ASSUME Inv, Roomy, Updates, NEW w \in Workers, wt[w].pc \in {"locked", "update_read"},
           Translating(wt[w]), wt[w].ret = "alloc",
           NEW t, IsTxn(t), MapPage(w, t), t.lpa = Txn(w).lpa, t.type = Txn(w).type,
           t.data \in Contents,
           t.type = "write" => \A s \in Sectors :
               /\ t.lpa \notin lost => t.data[s] >= latest[t.lpa][s]
               /\ t.data[s] # 0 => s \in t.bitmap,
           UNCHANGED <<setup, evicted, gtd, table, saved, data, latest, lost, version>>
    PROVE  Updates'
<1>1. PICK p, l, u : p = Min(Fresh) /\ l = t.lpa /\ u = [t EXCEPT !.ppa = p]
  OBVIOUS
<1>2. /\ wt[w].i \in DOMAIN wt[w].txns /\ l \in Lpas /\ l = <<wt[w].mvpn, t.lpa[2]>> /\ l = Txn(w).lpa
  BY <1>1, AtPage
<1>3. Inv' /\ Remaps(l, p, t.bitmap) /\ Types /\ Types'
  BY <1>1, <1>2, MapKeeps DEF Inv
<1>4. p \in Ppas /\ p \notin used /\ p # NONE
  BY <1>1, FreshPage, AmuAssumption DEF MapPage
<1>5. used' = used \cup {p} /\ Translated(w, [wt[w] EXCEPT !.txns[wt[w].i] = u])
  BY <1>1 DEF MapPage
<1>6. IsTxn(u) /\ u.lpa = l /\ u.type = t.type /\ u.data = t.data /\ u.ppa = p
  BY <1>1 DEF IsTxn
<1>7. wt[w].pc # "submit"
  OBVIOUS
<1>8. PICK rec : Advanced(w, u, rec)
  BY <1>2, <1>3, <1>5, <1>6, <1>7, TranslatedAdvances
<1>9. (\A k \in Lpas \ {l} : Stays(k)) /\ MappedPpa(l)' = p
  BY <1>2, <1>3 DEF Remaps
<1>10. PICK f \in Frames :
          /\ Loads(xpgs, Busy, f, l)
          /\ xpgs'[f].entries[l[2]].bitmap = xpgs[f].entries[l[2]].bitmap \cup t.bitmap
          /\ \A g \in Frames : Loads(xpgs', Busy', g, l) => g = f
  BY <1>2, <1>3 DEF Remaps
<1>11. /\ l \notin lost => Faithful(l)
       /\ \A s \in Sectors : latest[l][s] # 0 => Written(l, s)
  BY <1>2, <1>3, <1>7, HereSettled
<1>12. u.type = "read" => (l \notin lost => Faithful(l)')
  <2> SUFFICES ASSUME Txn(w).type = "read", l \notin lost, NEW s \in Sectors
               PROVE  latest[l][s] = data[p][s]
    BY <1>4, <1>6, <1>9 DEF Faithful
  <2>0. Course(w)
    BY DEF Updates
  <2>1. MappedPpa(l) = NONE
    BY <1>2, <2>0 DEF Course
  <2>2. latest[l][s] = 0
    BY <1>11, <2>1 DEF Faithful
  <2>3. data[p][s] = 0
    BY <1>4 DEF Updates, Blank, NoData
  <2> QED BY <2>2, <2>3
<1>13. u.type = "write" => /\ MappedPpa(l)' = u.ppa /\ u.ppa # NONE
                           /\ l \notin lost => \A s \in Sectors : u.data[s] >= latest[l][s]
  BY <1>1, <1>4, <1>6, <1>9
<1>14. ASSUME NEW g \in Frames, l \notin lost, Loads(xpgs', Busy', g, l), NEW s \in Sectors,
              latest[l][s] # 0 \/ (u.type = "write" /\ u.data[s] # 0)
       PROVE  s \in xpgs'[g].entries[l[2]].bitmap
  <2>1. g = f
    BY <1>10, <1>14
  <2>2. CASE latest[l][s] # 0
    BY <1>2, <1>10, <1>11, <1>14, <2>1, <2>2 DEF Updates, Covered
  <2>3. CASE u.type = "write" /\ u.data[s] # 0
    BY <1>6, <1>10, <2>1, <2>3
  <2> QED BY <1>14, <2>2, <2>3
<1>15. used \subseteq used' /\ u.type = Txn(w).type /\ u.data \in Contents
  BY <1>5, <1>6
<1> QED BY <1>2, <1>3, <1>6, <1>7, <1>8, <1>9, <1>12, <1>13, <1>14, <1>15, PlaceData

\* alloc_page_for_write maps the page, or reads what it does not overwrite first.
LEMMA AllocPageData == ASSUME Inv, DataInv, NEW w \in Workers, AllocPage(w) PROVE DataInv'
<1>1. /\ wt[w].pc = "locked" /\ wt[w].ret = "alloc" /\ IsCall(wt[w]) /\ Translating(wt[w])
      /\ UNCHANGED <<setup, evicted, gtd, table, saved, data, latest, lost, version>>
  BY Here DEF AllocPage, Running, Translating
<1>2. CASE NeedsUpdateRead(w)
  <2> DEFINE rec == [wt[w] EXCEPT !.pc = "update_read"]
  <2>1. wt' = [wt EXCEPT ![w] = rec] /\ used' = used
    BY <1>2 DEF AllocPage, Wait
  <2>2. /\ rec.pc = "update_read" /\ rec.ret = wt[w].ret /\ rec.txns = wt[w].txns /\ rec.i = wt[w].i
        /\ rec.mvpn = wt[w].mvpn
    BY <1>1 DEF IsCall
  <2> HIDE DEF rec
  <2>3. Moved(w, rec) /\ Translating(rec)
    BY <1>1, <2>1, <2>2 DEF Inv, Types, Moved, Translating
  <2>4. Roomy /\ Updates => MappedPpa(Txn(w).lpa) # NONE
    BY <1>1, <1>2, AtPage DEF NeedsUpdateRead
  <2>5. Inv' /\ Steady
    BY <2>1, AllocPageKeeps
  <2> QED BY <1>1, <2>1, <2>2, <2>3, <2>4, <2>5, QuietStep
<1>3. CASE ~NeedsUpdateRead(w)
  <2> SUFFICES ASSUME Roomy' PROVE Updates'
    BY DEF DataInv
  <2>a. Roomy /\ Types
    BY <1>1 DEF Roomy, Inv
  <2>b. MapPage(w, Txn(w))
    BY <1>3 DEF AllocPage
  <2>1. Roomy /\ Types /\ MapPage(w, Txn(w)) /\ Updates /\ Numbers
    BY <2>a, <2>b DEF DataInv, Updates
  <2>2. PICK t, l : t = Txn(w) /\ l = t.lpa
    OBVIOUS
  <2>3. /\ wt[w].i \in DOMAIN wt[w].txns /\ l \in Lpas /\ Loads(xpgs, Busy, wt[w].frame, l)
        /\ MappedPpa(l) = Entry(w).ppa
    BY <1>1, <2>1, <2>2, AtPage
  <2>4. IsTxn(t) /\ t.data \in Contents
    <3>1. wt[w].i \in 1..Len(wt[w].txns)
      BY <2>1, <2>3, TxnLpa
    <3> QED BY <2>1, <2>2, <2>3, <3>1, CurrentTxn DEF Numbers, Txn
  <2>5. Brings(t) /\ \A s \in Sectors : latest[l][s] # 0 => Written(l, s)
    BY <1>1, <2>1, <2>2, <2>3, HereSettled
  <2>6. ASSUME t.type = "write", NEW s \in Sectors
        PROVE  (l \notin lost => t.data[s] >= latest[l][s]) /\ (t.data[s] # 0 => s \in t.bitmap)
    <3>1. t.data[s] \in Nat /\ latest[l][s] \in Nat
      BY <2>1, <2>3, <2>4, IsNumber DEF Numbers
    <3>2. CASE s \in t.bitmap
      BY <2>2, <2>5, <2>6, <3>1, <3>2, Newer DEF Brings
    <3>3. CASE s \notin t.bitmap
      <4>1. t.data[s] = 0
        BY <2>5, <2>6, <3>3 DEF Brings
      <4>2. ASSUME l \notin lost PROVE latest[l][s] = 0
        <5>1. CASE Entry(w).ppa = NONE
          BY <2>1, <2>3, <2>5, <4>2, <5>1, WrittenIsMapped
        <5>2. CASE Entry(w).bitmap \cap t.bitmap = Entry(w).bitmap
          <6>1. s \notin Entry(w).bitmap
            BY <3>3, <5>2
          <6>2. xpgs[wt[w].frame].entries[l[2]] = Entry(w) /\ wt[w].frame \in Frames
            BY <2>2, <2>3 DEF Entry, Loads
          <6>3. ~Written(l, s)
            BY <2>1, <2>3, <4>2, <6>1, <6>2 DEF Updates, Covered
          <6> QED BY <2>5, <6>3
        <5> QED BY <1>3, <2>2, <5>1, <5>2 DEF NeedsUpdateRead
      <4> QED BY <3>1, <4>1, <4>2, Newer
    <3> QED BY <3>2, <3>3
  <2> QED BY <1>1, <2>1, <2>2, <2>4, <2>6, MapData
<1> QED BY <1>2, <1>3

----------------------------------------------------------------------------
(* The end of a dispatch                                                   *)

\* A dispatch that fails gives up the pages it has mapped, and no other.
LEMMA FailData ==
    ASSUME Inv, Inv', Steady, DataInv, UNCHANGED <<setup, evicted, data, latest, version, used>>,
           NEW w \in Workers, NEW ks, Fail(w, ks), Roomy /\ Updates => Placed(wt[w]) \subseteq ks
    PROVE  DataInv'
<1> SUFFICES ASSUME Roomy' PROVE Updates'
  BY DEF DataInv
<1>1. Roomy /\ Updates /\ Types /\ Types' /\ (\A l \in Lpas : Stays(l)) /\ Placed(wt[w]) \subseteq ks
  BY DEF Roomy, DataInv, Inv, Steady
<1>2. wt'[w] = Idle /\ \A v \in Workers \ {w} : wt'[v] = wt[v]
  BY <1>1 DEF Fail, Wait, Types
<1>3. lost \subseteq lost'
  BY DEF Fail
<1>4. Idle.txns = <<>> /\ Idle.pc = "idle" /\ Idle.ret = "none"
  BY DEF Idle
<1>5. DOMAIN Idle.txns = {}
  BY SMT, <1>4
<1>6. Placed(Idle) = {} /\ Coming(Idle) = {}
  BY <1>5 DEF Placed, Coming
<1>7. \A v \in Workers : \A k \in DOMAIN wt'[v].txns :
         v # w /\ k \in DOMAIN wt[v].txns /\ wt'[v].txns[k] = wt[v].txns[k] /\ wt[v].txns[k].lpa \in Lpas
  BY <1>1, <1>2, <1>5, TxnLpa
<1>8. \A l \in Lpas : MappedPpa(l)' = MappedPpa(l)
  BY <1>1 DEF Stays
<1>9. Numbers' /\ Apart' /\ Blank'
  <2>1. Numbers /\ Apart /\ Blank
    BY <1>1 DEF Updates
  <2>2. Numbers'
    BY <1>7, <2>1 DEF Numbers, Contents
  <2>3. Apart'
    BY SMT, <1>7, <2>1 DEF Apart
  <2>4. Blank'
    BY <2>1 DEF Blank
  <2> QED BY <2>2, <2>3, <2>4
<1>10. Settled'
  <2> SUFFICES ASSUME NEW l \in Lpas, l \notin lost', ~InFlight(l)' PROVE Faithful(l)'
    BY DEF Settled
  <2>1. ASSUME NEW v \in Workers, NEW k \in DOMAIN wt[v].txns PROVE ~Writes(v, k, l)
    <3>1. CASE v = w
      BY <1>1, <3>1 DEF Writes, Fail
    <3>2. CASE v # w
      <4>1. wt'[v] = wt[v]
        BY <1>2, <3>2
      <4> QED BY <4>1 DEF Writes, InFlight
    <3> QED BY <3>1, <3>2
  <2>2. Faithful(l)
    BY <1>1, <1>3, <2>1 DEF Updates, Settled, InFlight
  <2> QED BY <1>8, <2>2 DEF Faithful
<1>11. Covered'
  <2>1. \A v \in Workers : \A k \in DOMAIN wt'[v].txns : \A l : Writes(v, k, l)' => Writes(v, k, l)
    BY <1>2, <1>7 DEF Writes
  <2>2. ASSUME NEW l \in Lpas, NEW s \in Sectors, Written(l, s)' PROVE Written(l, s)
    <3>1. CASE latest[l][s] # 0
      BY <3>1 DEF Written
    <3>2. CASE latest[l][s] = 0
      <4>1. PICK v \in Workers : \E k \in DOMAIN wt'[v].txns :
                    Writes(v, k, l)' /\ wt'[v].txns[k].data[s] # 0
        BY <2>2, <3>2 DEF Written
      <4>2. PICK k \in DOMAIN wt'[v].txns : Writes(v, k, l)' /\ wt'[v].txns[k].data[s] # 0
        BY <4>1
      <4>3. Writes(v, k, l) /\ k \in DOMAIN wt[v].txns /\ wt'[v].txns[k] = wt[v].txns[k]
        BY <1>7, <2>1, <4>2
      <4> QED BY <4>2, <4>3 DEF Written
    <3> QED BY <3>1, <3>2
  <2> QED BY <1>1, <1>3, <2>2, CoveredKept
<1>12. ASSUME NEW v \in Workers PROVE Transit(v)' /\ Course(v)'
  <2>1. CASE v = w
    BY <1>2, <1>4, <1>6, <2>1 DEF Transit, Course, Translating
  <2>2. CASE v # w
    <3>1. wt'[v] = wt[v] /\ Course(v) /\ Transit(v)
      BY <1>1, <1>2, <2>2 DEF Updates
    <3>2. ASSUME NEW t, t.lpa \in Lpas, Follows(t) PROVE Follows(t)'
      BY <1>3, <1>8, <3>2 DEF Follows
    <3>3. ASSUME NEW t, Brings(t) PROVE Brings(t)'
      BY <3>3 DEF Brings
    <3>4. \A k \in DOMAIN wt[v].txns : wt[v].txns[k].lpa \in Lpas
      BY <1>1, TxnLpa
    <3>5. Transit(v)'
      BY <3>1, <3>2, <3>3, <3>4 DEF Transit, Placed
    <3>6. Course(v)'
      BY <1>1, <1>8, <3>1, <3>4, CourseKept
    <3> QED BY <3>5, <3>6
  <2> QED BY <2>1, <2>2
<1> QED BY <1>9, <1>10, <1>11, <1>12 DEF Updates

\* While a dispatch translates transaction i, those before i are placed.
LEMMA PlacedBefore ==
    ASSUME Types, NEW w \in Workers, wt[w].pc # "submit" PROVE Placed(wt[w]) \subseteq 1..(wt[w].i - 1)
<1>1. wt[w].i \in Nat /\ DOMAIN wt[w].txns = 1..Len(wt[w].txns) /\ Len(wt[w].txns) \in Nat
  BY TxnLpa DEF Types, IsCall
<1> QED BY SMT, <1>1 DEF Placed

\* xpc_evict finds no page that is not pinned; otherwise a page is evicted.
LEMMA EvictPageData == ASSUME Inv, DataInv, NEW w \in Workers, EvictPage(w) PROVE DataInv'
<1>1. wt[w].pc = "page" /\ UNCHANGED <<setup, data, latest, version, used>>
  BY DEF EvictPage, Running
<1>2. Inv' /\ Steady
  BY EvictPageKeeps
<1>3. CASE evicted' = TRUE
  BY <1>3 DEF DataInv, Roomy
<1>4. CASE Fail(w, 1..(wt[w].i - 1)) /\ UNCHANGED evicted
  <2>1. Placed(wt[w]) \subseteq 1..(wt[w].i - 1)
    BY <1>1, PlacedBefore DEF Inv
  <2> QED BY <1>1, <1>2, <1>4, <2>1, FailData
<1> QED BY <1>3, <1>4 DEF EvictPage

\* update_read completes: the sectors that are not overwritten are there, and the
\* page is mapped with all of them; or the read fails, and the dispatch with it.
LEMMA UpdateReadData == ASSUME Inv, DataInv, NEW w \in Workers, UpdateRead(w) PROVE DataInv'
<1>1. /\ wt[w].pc = "update_read" /\ IsCall(wt[w])
      /\ UNCHANGED <<setup, evicted, gtd, table, saved, data, latest, version>>
  BY Here DEF UpdateRead, Resumes
<1>2. PICK t, l, e : t = Txn(w) /\ l = t.lpa /\ e = Entry(w)
  OBVIOUS
<1> DEFINE rest == e.bitmap \ t.bitmap
           c == [s \in Sectors |-> IF s \in rest THEN data[e.ppa][s] ELSE t.data[s]]
           y == [t EXCEPT !.bitmap = @ \cup rest, !.data = c]
<1>3. CASE MapPage(w, y) /\ UNCHANGED lost
  <2> SUFFICES ASSUME Roomy' PROVE Updates'
    BY DEF DataInv
  <2>1. Roomy /\ Types
    BY <1>1 DEF Roomy, Inv
  <2>2. Updates /\ Numbers /\ Course(w) /\ FlashOK /\ NoAliasing
    BY <2>1 DEF DataInv, Updates, Inv, Mapping
  <2>3. Translating(wt[w]) /\ wt[w].ret = "alloc"
    BY <1>1, <2>2 DEF Course, Translating
  <2>4. /\ wt[w].i \in DOMAIN wt[w].txns /\ l \in Lpas /\ Loads(xpgs, Busy, wt[w].frame, l)
        /\ MappedPpa(l) = e.ppa
    BY <1>1, <1>2, <2>1, <2>2, <2>3, AtPage
  <2>5. IsTxn(t) /\ t.data \in Contents
    <3>1. wt[w].i \in 1..Len(wt[w].txns)
      BY <2>1, <2>4, TxnLpa
    <3> QED BY <1>2, <2>2, <2>4, <3>1, CurrentTxn DEF Numbers, Txn
  <2>6. /\ Brings(t) /\ (l \notin lost => Faithful(l))
        /\ \A s \in Sectors : latest[l][s] # 0 => Written(l, s)
    BY <1>1, <1>2, <2>1, <2>2, <2>4, HereSettled
  <2>7. e.ppa # NONE /\ e.ppa \in Ppas
    <3>1. MappedPpa(l) # NONE
      BY <1>1, <1>2, <2>2, <2>3 DEF Course
    <3> QED BY <2>1, <2>2, <2>4, <3>1 DEF NoAliasing, FlashOK
  <2>8. data[e.ppa] \in Contents
    BY <2>2, <2>7 DEF Numbers
  <2>9. c \in Contents
    BY <2>5, <2>8 DEF Contents
  <2>10. \A s \in Sectors : c[s] = IF s \in rest THEN data[e.ppa][s] ELSE t.data[s]
    OBVIOUS
  <2> HIDE DEF c
  <2>11. IsTxn(y) /\ y.lpa = l /\ y.type = t.type /\ y.data = c /\ y.bitmap = t.bitmap \cup rest
    BY <1>2, <2>5 DEF IsTxn
  <2>12. ASSUME t.type = "write", NEW s \in Sectors
         PROVE  (l \notin lost => c[s] >= latest[l][s]) /\ (c[s] # 0 => s \in t.bitmap \cup rest)
    <3>1. c[s] \in Nat /\ t.data[s] \in Nat /\ latest[l][s] \in Nat
      BY <2>2, <2>4, <2>5, <2>9, IsNumber DEF Numbers
    <3>2. CASE s \in rest
      <4>1. l \notin lost => c[s] = latest[l][s]
        BY <2>4, <2>6, <2>7, <2>10, <3>2 DEF Faithful
      <4> QED BY <3>1, <3>2, <4>1, Newer
    <3>3. CASE s \in t.bitmap
      <4>1. c[s] = t.data[s]
        BY <2>10, <3>3
      <4>2. t.data[s] > latest[l][s]
        BY <1>2, <2>6, <2>12, <3>3 DEF Brings
      <4> QED BY <3>1, <3>3, <4>1, <4>2, Newer
    <3>4. CASE s \notin e.bitmap /\ s \notin t.bitmap
      <4>1. c[s] = 0
        BY <2>6, <2>10, <2>12, <3>4 DEF Brings
      <4>2. l \notin lost => latest[l][s] = 0
        <5>1. xpgs[wt[w].frame].entries[l[2]] = e /\ wt[w].frame \in Frames
          BY <1>2, <2>4 DEF Entry, Loads
        <5>2. l \notin lost => ~Written(l, s)
          BY <2>2, <2>4, <3>4, <5>1 DEF Updates, Covered
        <5> QED BY <2>6, <5>2
      <4> QED BY <3>1, <4>1, <4>2, Newer
    <3> QED BY <3>2, <3>3, <3>4
  <2> HIDE DEF y, rest
  <2> QED BY <1>1, <1>2, <1>3, <2>1, <2>2, <2>3, <2>9, <2>11, <2>12, MapData
<1>4. CASE Fail(w, 1..(wt[w].i - 1)) /\ UNCHANGED used
  <2>1. Placed(wt[w]) \subseteq 1..(wt[w].i - 1)
    BY <1>1, PlacedBefore DEF Inv
  <2>2. Inv' /\ Steady
    BY <1>4, UpdateReadKeeps
  <2> QED BY <1>1, <1>4, <2>1, <2>2, FailData
<1> QED BY <1>2, <1>3, <1>4 DEF UpdateRead

\* The dispatch goes on with the next transaction, or returns after the last.
LEMMA SubmitMoves ==
    ASSUME Types, NEW w \in Workers, wt[w].pc = "submit", wt[w].i \in DOMAIN wt[w].txns,
           wt' = [wt EXCEPT ![w] = IF wt[w].i < Len(wt[w].txns)
                                   THEN [wt[w] EXCEPT !.i = @ + 1] ELSE Idle]
    PROVE  \E rec :
              /\ Moved(w, rec) /\ DOMAIN rec.txns \subseteq DOMAIN wt[w].txns
              /\ \A k \in DOMAIN rec.txns : rec.txns[k] = wt[w].txns[k]
              /\ Placed(rec) = Placed(wt[w]) \ {wt[w].i} /\ Coming(rec) = {}
              /\ \/ rec.pc = "submit" /\ rec.i \in DOMAIN rec.txns
                 \/ rec.pc = "idle" /\ rec.txns = <<>>
<1>0. PICK i, n : i = wt[w].i /\ n = Len(wt[w].txns)
  OBVIOUS
<1>1. n \in Nat /\ DOMAIN wt[w].txns = 1..n /\ i \in 1..n /\ IsCall(wt[w])
  BY <1>0, TxnLpa DEF Types
<1>2. Placed(wt[w]) = i..n
  BY SMT, <1>0, <1>1 DEF Placed
<1>3. CASE i < n
  <2> DEFINE rec == [wt[w] EXCEPT !.i = @ + 1]
  <2>1. rec.txns = wt[w].txns /\ rec.i = i + 1 /\ rec.pc = "submit" /\ Moved(w, rec)
    BY <1>0, <1>1, <1>3 DEF IsCall, Types, Moved
  <2> HIDE DEF rec
  <2>2. Placed(rec) = Placed(wt[w]) \ {i} /\ Coming(rec) = {} /\ rec.i \in 1..n
    BY SMT, <1>1, <1>2, <1>3, <2>1 DEF Placed, Coming
  <2> QED BY <1>0, <1>1, <2>1, <2>2
<1>4. CASE ~(i < n)
  <2>1. Idle.txns = <<>> /\ Idle.pc = "idle" /\ Moved(w, Idle)
    BY <1>0, <1>4 DEF Idle, Types, Moved
  <2>2. DOMAIN Idle.txns = {}
    BY SMT, <2>1
  <2>3. Placed(Idle) = {} /\ Coming(Idle) = {}
    BY <2>2 DEF Placed, Coming
  <2>4. Placed(wt[w]) \ {i} = {}
    BY SMT, <1>1, <1>2, <1>4
  <2> QED BY <1>0, <2>1, <2>2, <2>3, <2>4
<1> QED BY <1>3, <1>4

\* The flash has executed transaction t.
Executed(t) ==
    IF t.type = "write"
    THEN /\ data' = [data EXCEPT ![t.ppa] = t.data]
         /\ latest' = [latest EXCEPT ![t.lpa] =
              [s \in Sectors |-> IF t.data[s] > @[s] THEN t.data[s] ELSE @[s]]]
    ELSE UNCHANGED <<data, latest>>

\* What a write leaves of its logical page.
LEMMA ExecutedWrite ==
    ASSUME Numbers, NEW t, Executed(t), t.type = "write", t.data \in Contents, NEW l \in Lpas, l = t.lpa
    PROVE  /\ latest'[l] \in Contents
           /\ \A s \in Sectors :
                 latest'[l][s] = IF t.data[s] > latest[l][s] THEN t.data[s] ELSE latest[l][s]
<1> DEFINE c == [s \in Sectors |-> IF t.data[s] > latest[l][s] THEN t.data[s] ELSE latest[l][s]]
<1>1. latest' = [latest EXCEPT ![l] = c]
  BY DEF Executed
<1>2. latest \in [Lpas -> Contents]
  BY DEF Numbers
<1>3. c \in Contents
  BY <1>2 DEF Contents
<1>4. \A s \in Sectors : c[s] = IF t.data[s] > latest[l][s] THEN t.data[s] ELSE latest[l][s]
  OBVIOUS
<1> HIDE DEF c
<1>5. latest'[l] = c
  BY <1>1, <1>2
<1> QED BY <1>3, <1>4, <1>5

\* The larger of two numbers.
LEMMA Larger ==
    ASSUME NEW a \in Nat, NEW b \in Nat, a >= b PROVE (IF a > b THEN a ELSE b) = a
BY SMT

\* The flash has executed transaction t of worker w, on logical page l; what changes
\* is what l holds, if t is a write.
LEMMA ExecutedData ==
    ASSUME Updates, Types, Types', Roomy, FlashOK, NoAliasing, \A m \in Lpas : Stays(m),
           UNCHANGED <<used, lost, version>>,
           NEW w \in Workers, NEW i \in Placed(wt[w]), NEW rec, Moved(w, rec),
           DOMAIN rec.txns \subseteq DOMAIN wt[w].txns,
           \A k \in DOMAIN rec.txns : rec.txns[k] = wt[w].txns[k],
           Placed(rec) = Placed(wt[w]) \ {i}, Coming(rec) = {},
           \/ rec.pc = "submit" /\ rec.i \in DOMAIN rec.txns
           \/ rec.pc = "idle" /\ rec.txns = <<>>,
           NEW t, t = wt[w].txns[i], NEW l, l = t.lpa,
           Executed(t)
    PROVE  Updates'
<1>0. Numbers /\ Apart /\ Blank /\ Settled
  BY DEF Updates
<1>1. wt'[w] = rec /\ \A v \in Workers \ {w} : wt'[v] = wt[v]
  BY DEF Moved
<1>2. i \in DOMAIN wt[w].txns /\ l \in Lpas /\ t.data \in Contents /\ Follows(t)
  BY TxnLpa DEF Placed, Updates, Transit, Numbers
<1>3. \A m \in Lpas : MappedPpa(m)' = MappedPpa(m)
  BY DEF Stays
<1>4. ASSUME t.type = "write"
      PROVE  /\ t.ppa \in used /\ t.ppa \in Ppas /\ t.ppa # NONE /\ MappedPpa(l) = t.ppa
             /\ \A m \in Lpas : m # l => MappedPpa(m) # t.ppa
  <2>1. MappedPpa(l) = t.ppa /\ t.ppa # NONE
    BY <1>2, <1>4 DEF Follows
  <2> QED BY <1>2, <2>1 DEF NoAliasing, FlashOK
<1>5. \A m \in Lpas : m # l => latest'[m] = latest[m]
  BY <1>0 DEF Numbers, Executed
<1>6. \A p \in Ppas : t.type = "read" \/ p # t.ppa => data'[p] = data[p]
  BY <1>0 DEF Numbers, Executed
<1>7. ASSUME NEW s \in Sectors
      PROVE  /\ latest'[l][s] \in {latest[l][s], t.data[s]}
             /\ t.type = "read" => latest'[l][s] = latest[l][s]
             /\ t.type = "write" /\ latest'[l][s] # latest[l][s] => latest'[l][s] = t.data[s]
             /\ t.type = "write" /\ l \notin lost => latest'[l][s] = t.data[s]
  <2>1. CASE t.type # "write"
    BY <2>1 DEF Executed
  <2>2. CASE t.type = "write"
    <3>1. latest'[l][s] = IF t.data[s] > latest[l][s] THEN t.data[s] ELSE latest[l][s]
      BY <1>0, <1>2, <2>2, ExecutedWrite
    <3>2. l \notin lost => t.data[s] >= latest[l][s]
      BY <1>2, <2>2 DEF Follows
    <3>3. t.data[s] \in Nat /\ latest[l][s] \in Nat
      BY <1>0, <1>2, IsNumber DEF Numbers
    <3>4. l \notin lost => latest'[l][s] = t.data[s]
      BY <3>1, <3>2, <3>3, Larger
    <3> QED BY <2>2, <3>1, <3>4
  <2> QED BY <2>1, <2>2
<1>8. t.type = "write" => data'[t.ppa] = t.data
  BY <1>0, <1>4 DEF Numbers, Executed
<1>9. t.type \in {"read", "write"}
  BY <1>0, <1>2 DEF Numbers
<1>10. ASSUME NEW v \in Workers, NEW k \in DOMAIN wt[v].txns, wt[v].txns[k].lpa = l
       PROVE  v = w /\ k = i
  BY SMT, <1>0, <1>2, <1>10 DEF Apart
<1>11. ASSUME NEW v \in Workers, NEW k \in DOMAIN wt'[v].txns
       PROVE  k \in DOMAIN wt[v].txns /\ wt'[v].txns[k] = wt[v].txns[k] /\ wt[v].txns[k].lpa \in Lpas
  <2>1. CASE v = w
    BY <1>1, <2>1, TxnLpa
  <2>2. CASE v # w
    BY <1>1, <2>2, TxnLpa
  <2> QED BY <2>1, <2>2
<1>12. ASSUME NEW v \in Workers, NEW k
       PROVE  /\ k \in Placed(wt'[v]) => k \in Placed(wt[v]) /\ (v # w \/ k # i)
              /\ k \in Placed(wt[v]) /\ (v # w \/ k # i) => k \in Placed(wt'[v])
              /\ k \in Coming(wt'[v]) => v # w /\ k \in Coming(wt[v])
  BY <1>1
<1>13. ASSUME NEW v \in Workers, NEW k, NEW m, Writes(v, k, m)' PROVE Writes(v, k, m) /\ m # l
  <2>1. k \in DOMAIN wt'[v].txns /\ k \in Placed(wt[v]) /\ (v # w \/ k # i)
    BY <1>12, <1>13 DEF Writes, Placed
  <2>2. wt'[v].txns[k] = wt[v].txns[k] /\ k \in DOMAIN wt[v].txns
    BY <1>11, <2>1
  <2>3. Writes(v, k, m) /\ wt[v].txns[k].lpa = m
    BY <1>13, <2>1, <2>2 DEF Writes
  <2> QED BY <1>10, <2>1, <2>2, <2>3
<1>14. ASSUME NEW v \in Workers, NEW k, NEW m, Writes(v, k, m), m # l PROVE Writes(v, k, m)'
  <2>1. k \in Placed(wt'[v])
    BY <1>12, <1>14 DEF Writes
  <2>2. k \in DOMAIN wt'[v].txns
    BY <2>1 DEF Placed
  <2> QED BY <1>11, <1>14, <2>1, <2>2 DEF Writes
<1>15. Numbers' /\ Apart' /\ Blank'
  <2>1. \A p \in Ppas : data'[p] \in Contents
    BY <1>0, <1>2, <1>6, <1>8, <1>9 DEF Numbers
  <2>2. ASSUME NEW m \in Lpas PROVE latest'[m] \in Contents
    <3>1. CASE t.type = "write" /\ m = l
      BY <1>0, <1>2, <3>1, ExecutedWrite
    <3>2. CASE ~(t.type = "write" /\ m = l)
      BY <1>0, <1>5, <3>2 DEF Numbers, Executed
    <3> QED BY <3>1, <3>2
  <2>3. data' = [p \in Ppas |-> data'[p]] /\ latest' = [m \in Lpas |-> latest'[m]]
    BY <1>0 DEF Numbers, Executed
  <2>4. Numbers'
    BY <1>0, <1>11, <2>1, <2>2, <2>3 DEF Numbers, Contents
  <2>5. Apart'
    BY SMT, <1>0, <1>11 DEF Apart
  <2>6. Blank'
    BY <1>0, <1>4, <1>6, <1>9 DEF Blank
  <2> QED BY <2>4, <2>5, <2>6
<1>16. Settled'
  <2> SUFFICES ASSUME NEW m \in Lpas, m \notin lost, ~InFlight(m)', NEW s \in Sectors
               PROVE  latest'[m][s] = IF MappedPpa(m) = NONE THEN 0 ELSE data'[MappedPpa(m)][s]
    BY <1>3 DEF Settled, Faithful
  <2>1. CASE m = l /\ t.type = "write"
    BY <1>4, <1>7, <1>8, <2>1
  <2>2. CASE ~(m = l /\ t.type = "write")
    <3>1. ASSUME NEW v \in Workers, NEW k \in DOMAIN wt[v].txns, Writes(v, k, m) PROVE FALSE
      <4>1. m # l
        BY <1>10, <2>2, <3>1 DEF Writes
      <4>2. Writes(v, k, m)'
        BY <1>14, <3>1, <4>1
      <4>3. k \in DOMAIN wt'[v].txns
        BY <4>2 DEF Writes, Placed
      <4> QED BY <4>2, <4>3 DEF InFlight
    <3>2. Faithful(m)
      BY <1>0, <3>1 DEF Settled, InFlight
    <3>3. latest'[m][s] = latest[m][s]
      BY <1>5, <1>7, <1>9, <2>2
    <3>4. ASSUME MappedPpa(m) # NONE PROVE data'[MappedPpa(m)] = data[MappedPpa(m)]
      <4>1. MappedPpa(m) \in Ppas
        BY <3>4 DEF NoAliasing, FlashOK
      <4>2. t.type = "write" => MappedPpa(m) # t.ppa
        BY <1>4, <2>2
      <4> QED BY <1>6, <1>9, <4>1, <4>2
    <3> QED BY <3>2, <3>3, <3>4 DEF Faithful
  <2> QED BY <2>1, <2>2
<1>17. Covered'
  <2>1. ASSUME NEW m \in Lpas, NEW s \in Sectors, Written(m, s)' PROVE Written(m, s)
    <3>1. CASE latest[m][s] # 0
      BY <3>1 DEF Written
    <3>2. CASE latest[m][s] = 0 /\ latest'[m][s] # 0
      <4>1. m = l /\ t.type = "write" /\ t.data[s] # 0
        BY <1>5, <1>7, <1>9, <3>2
      <4>2. Writes(w, i, m)
        BY <4>1 DEF Writes
      <4> QED BY <1>2, <4>1, <4>2 DEF Written
    <3>3. CASE latest'[m][s] = 0
      <4>1. PICK v \in Workers : \E k \in DOMAIN wt'[v].txns :
                    Writes(v, k, m)' /\ wt'[v].txns[k].data[s] # 0
        BY <2>1, <3>3 DEF Written
      <4>2. PICK k \in DOMAIN wt'[v].txns : Writes(v, k, m)' /\ wt'[v].txns[k].data[s] # 0
        BY <4>1
      <4>3. Writes(v, k, m) /\ k \in DOMAIN wt[v].txns /\ wt'[v].txns[k] = wt[v].txns[k]
        BY <1>11, <1>13, <4>2
      <4> QED BY <4>2, <4>3 DEF Written
    <3> QED BY <3>1, <3>2, <3>3
  <2> QED BY <2>1, CoveredKept
<1>18. ASSUME NEW v \in Workers PROVE Transit(v)'
  <2>1. ASSUME NEW q, q.lpa \in Lpas, q.lpa # l, Follows(q) PROVE Follows(q)'
    BY <1>3, <1>5, <2>1 DEF Follows
  <2>2. ASSUME NEW q, q.lpa \in Lpas, q.lpa # l, Brings(q) PROVE Brings(q)'
    BY <1>5, <2>2 DEF Brings
  <2>3. ASSUME NEW k \in Placed(wt'[v])
        PROVE  /\ wt'[v].txns[k] = wt[v].txns[k] /\ Follows(wt[v].txns[k])
               /\ wt[v].txns[k].lpa \in Lpas /\ wt[v].txns[k].lpa # l
    <3>1. k \in DOMAIN wt'[v].txns /\ k \in Placed(wt[v]) /\ (v # w \/ k # i)
      BY <1>12 DEF Placed
    <3> QED BY <1>10, <1>11, <3>1 DEF Updates, Transit
  <2>4. ASSUME NEW k \in Coming(wt'[v])
        PROVE  /\ wt'[v].txns[k] = wt[v].txns[k] /\ Brings(wt[v].txns[k])
               /\ wt[v].txns[k].lpa \in Lpas /\ wt[v].txns[k].lpa # l
    <3>1. k \in DOMAIN wt'[v].txns /\ k \in Coming(wt[v]) /\ v # w
      BY <1>12 DEF Coming
    <3> QED BY <1>10, <1>11, <3>1 DEF Updates, Transit
  <2> QED BY <2>1, <2>2, <2>3, <2>4 DEF Transit
<1>19. ASSUME NEW v \in Workers PROVE Course(v)'
  <2>1. CASE v # w
    BY <1>1, <1>3, <2>1, TxnLpa, CourseKept DEF Updates
  <2>2. CASE v = w
    BY <1>1, <2>2 DEF Course, Translating
  <2> QED BY <2>1, <2>2
<1> QED BY <1>15, <1>16, <1>17, <1>18, <1>19 DEF Updates

\* The flash executes a transaction, or fails to.
LEMMA SubmitData == ASSUME Inv, DataInv, NEW w \in Workers, Submit(w) PROVE DataInv'
<1>1. wt[w].pc = "submit" /\ UNCHANGED <<setup, evicted, version, used>>
  BY DEF Submit, Resumes
<1>2. Inv' /\ Steady
  BY SubmitKeeps
<1>3. Roomy /\ Updates => /\ Types /\ wt[w].i \in DOMAIN wt[w].txns /\ wt[w].i \in Placed(wt[w])
                          /\ Placed(wt[w]) \subseteq wt[w].i .. Len(wt[w].txns)
  <2> SUFFICES ASSUME Roomy, Updates
               PROVE  /\ Types /\ wt[w].i \in DOMAIN wt[w].txns /\ wt[w].i \in Placed(wt[w])
                      /\ Placed(wt[w]) \subseteq wt[w].i .. Len(wt[w].txns)
    OBVIOUS
  <2>1. Types /\ wt[w].i \in DOMAIN wt[w].txns
    BY <1>1 DEF Inv, Updates, Course
  <2>2. wt[w].i \in Nat /\ DOMAIN wt[w].txns = 1..Len(wt[w].txns) /\ Len(wt[w].txns) \in Nat
    BY <2>1, TxnLpa DEF Types, IsCall
  <2>3. wt[w].i \in Placed(wt[w]) /\ Placed(wt[w]) \subseteq wt[w].i .. Len(wt[w].txns)
    BY SMT, <1>1, <2>1, <2>2 DEF Placed
  <2> QED BY <2>1, <2>3
<1>4. CASE Fail(w, wt[w].i .. Len(wt[w].txns)) /\ UNCHANGED <<data, latest>>
  BY <1>1, <1>2, <1>3, <1>4, FailData
<1>5. ASSUME wt' = [wt EXCEPT ![w] = IF wt[w].i < Len(wt[w].txns)
                                     THEN [wt[w] EXCEPT !.i = @ + 1] ELSE Idle],
             Executed(Txn(w)), UNCHANGED lost, Roomy'
      PROVE  Updates'
  <2>1. Roomy
    BY <1>1, <1>5 DEF Roomy
  <2>2. Updates /\ Types /\ Types' /\ FlashOK /\ NoAliasing /\ \A l \in Lpas : Stays(l)
    BY <1>2, <1>5, <2>1 DEF DataInv, Inv, Mapping, Steady
  <2>3. PICK i, t : i = wt[w].i /\ t = wt[w].txns[i]
    OBVIOUS
  <2>4. i \in Placed(wt[w]) /\ i \in DOMAIN wt[w].txns /\ t = Txn(w)
    BY <1>3, <2>1, <2>2, <2>3 DEF Txn
  <2>5. PICK rec :
              /\ Moved(w, rec) /\ DOMAIN rec.txns \subseteq DOMAIN wt[w].txns
              /\ \A k \in DOMAIN rec.txns : rec.txns[k] = wt[w].txns[k]
              /\ Placed(rec) = Placed(wt[w]) \ {i} /\ Coming(rec) = {}
              /\ \/ rec.pc = "submit" /\ rec.i \in DOMAIN rec.txns
                 \/ rec.pc = "idle" /\ rec.txns = <<>>
    BY <1>1, <1>5, <2>2, <2>3, <2>4, SubmitMoves
  <2>6. Executed(t)
    BY <1>5, <2>4
  <2> QED BY <1>1, <1>5, <2>1, <2>2, <2>3, <2>4, <2>5, <2>6, ExecutedData
<1> QED BY <1>4, <1>5 DEF Submit, Wait, DataInv, Executed

----------------------------------------------------------------------------
(* The beginning of a dispatch                                             *)

\* New transactions, on logical pages that no other is on.
New(ts) ==
    \A k \in DOMAIN ts :
        /\ ts[k].type \in {"read", "write"} /\ ts[k].data \in Contents' /\ Brings(ts[k])
        /\ \A j \in DOMAIN ts : ts[j].lpa = ts[k].lpa => j = k
        /\ \A v \in Workers : \A j \in DOMAIN wt[v].txns : wt[v].txns[j].lpa # ts[k].lpa

\* Worker w has new transactions.
LEMMA BeginData ==
    ASSUME Updates, Types, Types', \A l \in Lpas : Stays(l), UNCHANGED <<data, latest, lost, used>>,
           version' \in Nat, version' >= version,
           NEW w \in Workers, wt[w].txns = <<>>, NEW rec, Moved(w, rec),
           rec.pc = "page", rec.i = 1, 1 \in DOMAIN rec.txns, DOMAIN rec.txns \subseteq Nat \ {0},
           rec.mvpn = rec.txns[1].lpa[1],
           rec.ret = IF rec.txns[1].type = "read" THEN "get_ppa" ELSE "alloc",
           New(rec.txns)
    PROVE  Updates'
<1>0. Numbers /\ Apart /\ Blank /\ Settled
  BY DEF Updates
<1>1. wt'[w] = rec /\ \A v \in Workers \ {w} : wt'[v] = wt[v]
  BY DEF Moved
<1>2. DOMAIN wt[w].txns = {}
  BY SMT
<1>3. Placed(rec) = {} /\ Placed(wt[w]) = {} /\ Coming(rec) \subseteq DOMAIN rec.txns
  <2>1. \A k \in DOMAIN rec.txns : ~(k < 1)
    BY SMT
  <2> QED BY <1>2, <2>1 DEF Placed, Coming
<1>4. \A l \in Lpas : MappedPpa(l)' = MappedPpa(l)
  BY DEF Stays
<1>5. Contents \subseteq Contents'
  <2>1. 0..version \subseteq 0..version'
    BY SMT, <1>0 DEF Numbers
  <2> QED BY <2>1 DEF Contents
<1>6. Numbers' /\ Apart' /\ Blank'
  <2>1. ASSUME NEW v \in Workers, NEW k \in DOMAIN wt'[v].txns
        PROVE  wt'[v].txns[k].data \in Contents' /\ wt'[v].txns[k].type \in {"read", "write"}
    <3>1. CASE v = w
      BY <1>1, <3>1 DEF New
    <3>2. CASE v # w
      BY <1>0, <1>1, <1>5, <3>2 DEF Numbers
    <3> QED BY <3>1, <3>2
  <2>2. latest \in [Lpas -> Contents'] /\ data \in [Ppas -> Contents']
    BY <1>0, <1>5 DEF Numbers
  <2>3. Numbers'
    BY <2>1, <2>2 DEF Numbers
  <2>4. Apart'
    <3> SUFFICES ASSUME NEW v \in Workers, NEW x \in Workers, NEW j \in DOMAIN wt'[v].txns,
                        NEW k \in DOMAIN wt'[x].txns, wt'[v].txns[j].lpa = wt'[x].txns[k].lpa
                 PROVE  v = x /\ j = k
      BY DEF Apart
    <3>1. CASE v = w /\ x = w
      BY <1>1, <3>1 DEF New
    <3>2. CASE v = w /\ x # w
      <4>1. wt'[v] = rec /\ wt'[x] = wt[x]
        BY <1>1, <3>2
      <4>2. j \in DOMAIN rec.txns /\ k \in DOMAIN wt[x].txns
        BY <4>1
      <4>3. wt[x].txns[k].lpa # rec.txns[j].lpa
        BY <4>2 DEF New
      <4> QED BY <4>1, <4>3
    <3>3. CASE v # w /\ x = w
      <4>1. wt'[x] = rec /\ wt'[v] = wt[v]
        BY <1>1, <3>3
      <4>2. k \in DOMAIN rec.txns /\ j \in DOMAIN wt[v].txns
        BY <4>1
      <4>3. wt[v].txns[j].lpa # rec.txns[k].lpa
        BY <4>2 DEF New
      <4> QED BY <4>1, <4>3
    <3>4. CASE v # w /\ x # w
      BY SMT, <1>0, <1>1, <3>4 DEF Apart
    <3> QED BY <3>1, <3>2, <3>3, <3>4
  <2>5. Blank'
    BY <1>0 DEF Blank
  <2> QED BY <2>3, <2>4, <2>5
<1>7. \A v \in Workers : \A k, l : Writes(v, k, l)' <=> Writes(v, k, l)
  <2>1. ASSUME NEW v \in Workers, NEW k, NEW l PROVE Writes(v, k, l)' <=> Writes(v, k, l)
    <3>1. CASE v = w
      BY <1>1, <1>3, <3>1 DEF Writes
    <3>2. CASE v # w
      BY <1>1, <3>2 DEF Writes
    <3> QED BY <3>1, <3>2
  <2> QED BY <2>1
<1>8. \A v \in Workers : \A k, l : Writes(v, k, l) => v # w /\ k \in DOMAIN wt[v].txns /\ wt'[v] = wt[v]
  BY <1>1, <1>3 DEF Writes, Placed
<1>9. Settled'
  <2> SUFFICES ASSUME NEW l \in Lpas, l \notin lost, ~InFlight(l)' PROVE Faithful(l)'
    BY DEF Settled
  <2>1. ~InFlight(l)
    BY <1>7, <1>8 DEF InFlight
  <2>2. Faithful(l)
    BY <1>0, <2>1 DEF Settled
  <2> QED BY <1>4, <2>2 DEF Faithful
<1>10. Covered'
  <2>1. ASSUME NEW l \in Lpas, NEW s \in Sectors, Written(l, s)' PROVE Written(l, s)
    <3>1. CASE latest[l][s] # 0
      BY <3>1 DEF Written
    <3>2. CASE latest[l][s] = 0
      <4>1. PICK v \in Workers : \E k \in DOMAIN wt'[v].txns :
                    Writes(v, k, l)' /\ wt'[v].txns[k].data[s] # 0
        BY <2>1, <3>2 DEF Written
      <4>2. PICK k \in DOMAIN wt'[v].txns : Writes(v, k, l)' /\ wt'[v].txns[k].data[s] # 0
        BY <4>1
      <4>3. Writes(v, k, l) /\ k \in DOMAIN wt[v].txns /\ wt'[v] = wt[v]
        BY <1>7, <1>8, <4>2
      <4> QED BY <4>2, <4>3 DEF Written
    <3> QED BY <3>1, <3>2
  <2> QED BY <2>1, CoveredKept
<1>11. ASSUME NEW v \in Workers PROVE Transit(v)'
  <2>1. ASSUME NEW t, t.lpa \in Lpas, Follows(t) PROVE Follows(t)'
    BY <1>4, <2>1 DEF Follows
  <2>2. ASSUME NEW t, Brings(t) PROVE Brings(t)'
    BY <2>2 DEF Brings
  <2>3. CASE v = w
    BY <1>1, <1>3, <2>2, <2>3 DEF Transit, New
  <2>4. CASE v # w
    <3>1. wt'[v] = wt[v] /\ Transit(v)
      BY <1>1, <2>4 DEF Updates
    <3>2. \A k \in Placed(wt[v]) : wt[v].txns[k].lpa \in Lpas
      BY TxnLpa DEF Placed
    <3> QED BY <2>1, <2>2, <3>1, <3>2 DEF Transit
  <2> QED BY <2>3, <2>4
<1>12. ASSUME NEW v \in Workers PROVE Course(v)'
  <2>1. CASE v # w
    <3>1. wt'[v] = wt[v] /\ Course(v)
      BY <1>1, <2>1 DEF Updates
    <3>2. \A k \in DOMAIN wt[v].txns : wt[v].txns[k].lpa \in Lpas
      BY TxnLpa
    <3> QED BY <1>4, <3>1, <3>2, CourseKept
  <2>2. CASE v = w
    <3>1. Txn(w)' = rec.txns[1] /\ rec.txns[1].type \in {"read", "write"} /\ wt'[v] = rec
      BY <1>1, <2>2 DEF Txn, New
    <3> QED BY <2>2, <3>1 DEF Course, Translating
  <2> QED BY <2>1, <2>2
<1> QED BY <1>6, <1>9, <1>10, <1>11, <1>12 DEF Updates

\* amu_dispatch is called, with the version numbers of new data.
LEMMA DispatchData ==
    ASSUME Exclusive, Inv, DataInv, NEW w \in Workers, DispatchSome(w) PROVE DataInv'
<1> SUFFICES ASSUME Roomy' PROVE Updates'
  BY DEF DataInv
<1>0. PICK n \in 1..MaxTxns :
        \E ls \in [1..n -> Lpas], reqs \in [1..n -> Requests] :
           (\A j, k \in 1..n : j < k => ls[j] # ls[k]) /\ Dispatch(w, ls, reqs)
  BY DEF DispatchSome
<1>1. PICK ls \in [1..n -> Lpas], reqs \in [1..n -> Requests] :
           (\A j, k \in 1..n : j < k => ls[j] # ls[k]) /\ Dispatch(w, ls, reqs)
  BY <1>0
<1>2. n \in Nat /\ 1 \in 1..n /\ DOMAIN ls = 1..n
  BY SMT, AmuAssumption
<1>3. Inv' /\ Steady
  BY DispatchKeeps
<1>4. UNCHANGED <<setup, evicted, data, latest, lost, used>> /\ wt[w].pc = "idle"
  BY <1>1 DEF Dispatch, Resumes
<1>5. Roomy
  BY <1>4 DEF Roomy
<1>6. /\ Updates /\ Numbers /\ Types /\ Types' /\ (\A l \in Lpas : Stays(l)) /\ wt[w].txns = <<>>
  BY <1>3, <1>4, <1>5 DEF DataInv, Updates, Inv, Steady, Course, Translating
<1>7. version' = version + n
  <2>1. Len(ls) = n
    BY SMT, <1>2
  <2> QED BY <1>1, <2>1 DEF Dispatch
<1>8. version \in Nat /\ version' \in Nat /\ version' >= version
  BY SMT, <1>2, <1>6, <1>7 DEF Numbers
<1> DEFINE D(k) == [s \in Sectors |-> IF reqs[k].type = "write" /\ s \in reqs[k].bitmap
                                      THEN version + k ELSE 0]
           ts == [k \in DOMAIN ls |->
                    [type |-> reqs[k].type, lpa |-> ls[k], bitmap |-> reqs[k].bitmap,
                     data |-> D(k), ppa |-> NONE]]
           q == [Idle EXCEPT !.txns = ts]
           rec == NeedPage(q)
<1>9. wt' = [wt EXCEPT ![w] = rec]
  BY <1>1 DEF Dispatch, Goto
<1>10. ASSUME NEW k \in 1..n
       PROVE  /\ D(k) \in Contents'
              /\ \A s \in Sectors : reqs[k].type = "write" =>
                    IF s \in reqs[k].bitmap THEN D(k)[s] > latest[ls[k]][s] ELSE D(k)[s] = 0
  <2>1. version + k \in 0..version' /\ 0 \in 0..version'
    BY SMT, <1>2, <1>7, <1>8
  <2>2. D(k) \in Contents'
    BY <2>1 DEF Contents
  <2>3. ASSUME NEW s \in Sectors PROVE version + k > latest[ls[k]][s]
    <3>1. latest[ls[k]][s] \in 0..version
      BY <1>6 DEF Numbers, Contents
    <3> QED BY SMT, <1>2, <1>8, <3>1
  <2> QED BY <2>2, <2>3
<1> HIDE DEF D
<1>11. DOMAIN ts = 1..n /\ \A k \in 1..n : /\ ts[k].type = reqs[k].type /\ ts[k].lpa = ls[k]
                                           /\ ts[k].bitmap = reqs[k].bitmap /\ ts[k].data = D(k)
  BY <1>2
<1> HIDE DEF ts
<1>12. /\ q = [s \in {"pc", "ret", "txns", "i", "frame", "mvpn"} |-> q[s]]
       /\ q.i = 1 /\ q.txns = ts
  BY DEF Idle
<1> HIDE DEF q
<1>13. /\ rec.pc = "page" /\ rec.i = 1 /\ rec.txns = ts /\ rec.mvpn = ts[1].lpa[1]
       /\ rec.ret = IF ts[1].type = "read" THEN "get_ppa" ELSE "alloc"
  BY <1>12 DEF NeedPage
<1> HIDE DEF rec
<1>14. Moved(w, rec)
  BY <1>6, <1>9 DEF Types, Moved
<1>15. ASSUME NEW k \in 1..n
       PROVE  /\ ts[k].type \in {"read", "write"} /\ ts[k].data \in Contents' /\ Brings(ts[k])
              /\ \A j \in 1..n : ts[j].lpa = ts[k].lpa => j = k
              /\ \A v \in Workers : \A j \in DOMAIN wt[v].txns : wt[v].txns[j].lpa # ts[k].lpa
  <2>1. ts[k].type \in {"read", "write"}
    <3>1. reqs[k] \in Requests
      OBVIOUS
    <3>2. reqs[k].type \in {"read", "write"}
      BY <3>1, AmuAssumption
    <3> QED BY <1>11, <3>2
  <2>2. ts[k].data \in Contents' /\ Brings(ts[k])
    BY <1>10, <1>11 DEF Brings
  <2>3. ASSUME NEW j \in 1..n, ts[j].lpa = ts[k].lpa PROVE j = k
    <3>1. ls[j] = ls[k] /\ (j < k => ls[j] # ls[k]) /\ (k < j => ls[k] # ls[j])
      BY <1>1, <1>11, <2>3
    <3> QED BY SMT, <1>2, <3>1
  <2>4. ~Outstanding(ls[k])
    BY <1>1, <1>2 DEF Dispatch
  <2>5. \A v \in Workers : \A j \in DOMAIN wt[v].txns : wt[v].txns[j].lpa # ls[k]
    BY <2>4 DEF Outstanding, Range
  <2> QED BY <1>11, <2>1, <2>2, <2>3, <2>5
<1>16. DOMAIN rec.txns = 1..n /\ 1..n \subseteq Nat \ {0}
  BY SMT, <1>2, <1>11, <1>13
<1>17. New(ts)
  BY <1>11, <1>15 DEF New
<1> QED BY <1>2, <1>4, <1>6, <1>8, <1>13, <1>14, <1>16, <1>17, BeginData

----------------------------------------------------------------------------
(* The theorem                                                             *)

\* At the start nothing is mapped and nothing is written.
LEMMA InitData == Init => DataInv
<1> SUFFICES ASSUME Init PROVE Updates
  BY DEF DataInv
<1>1. /\ xpgs = [f \in Frames |-> NoPage] /\ wt = [w \in Workers |-> Idle]
      /\ gtd = [m \in Mvpns |-> NONE] /\ data = [p \in Ppas |-> NoData] /\ version = 0
      /\ latest = [l \in Lpas |-> NoData]
  BY DEF Init
<1>2. Idle.txns = <<>> /\ Idle.pc = "idle" /\ Idle.ret = "none"
  BY DEF Idle
<1>3. DOMAIN Idle.txns = {}
  BY SMT, <1>2
<1>4. \A w \in Workers : wt[w] = Idle
  BY <1>1
<1>5. \A f \in Frames : ~xpgs[f].in_tree
  BY <1>1 DEF NoPage
<1>6. \A l \in Lpas : MappedPpa(l) = NONE
  <2>1. ASSUME NEW l \in Lpas PROVE MappedPpa(l) = NONE
    <3>1. \A g \in Frames : ~Loads(xpgs, Busy, g, l)
      BY <1>5 DEF Loads
    <3>2. l[1] \in Mvpns
      BY DEF Lpas
    <3> QED BY <1>1, <3>1, <3>2, MappedStored DEF Stored
  <2> QED BY <2>1
<1>7. Numbers
  <2>1. 0 \in 0..0 /\ 0 \in Nat
    BY SMT
  <2> QED BY <1>1, <1>3, <1>4, <2>1 DEF Numbers, Contents, NoData
<1>8. Apart /\ Blank /\ Settled /\ Covered
  BY <1>1, <1>3, <1>4, <1>5, <1>6 DEF Apart, Blank, Settled, Covered, Faithful, NoData, Loads
<1>9. \A w \in Workers : Course(w) /\ Transit(w)
  BY <1>2, <1>3, <1>4 DEF Course, Transit, Translating, Placed, Coming
<1> QED BY <1>7, <1>8, <1>9 DEF Updates

\* Every step keeps it.
LEMMA NextData == Exclusive /\ Inv /\ DataInv /\ [Next]_vars => DataInv'
<1> SUFFICES ASSUME Exclusive, Inv, DataInv, [Next]_vars PROVE DataInv'
  OBVIOUS
<1>1. CASE UNCHANGED vars
  <2> SUFFICES ASSUME Roomy' PROVE Updates'
    BY DEF DataInv
  <2>1. UNCHANGED <<setup, evicted, data, latest, lost, version, used, wt, xpgs, gtd, table>>
    BY <1>1 DEF vars
  <2>2. Inv' /\ Roomy
    BY <2>1, NextInv DEF Roomy
  <2>3. Updates /\ Types /\ Types'
    BY <2>2 DEF DataInv, Inv
  <2>4. Busy' = Busy /\ \A g \in Frames : Same(g)
    BY <2>1 DEF Busy, Loading, Same
  <2>5. \A l \in Lpas : Stays(l)
    <3>1. CachedOnce /\ FlashOK /\ CleanMatchesFlash /\ NoAliasing /\ CachedOnce'
      BY <2>2 DEF Inv, Mapping, Pages, Roomy
    <3> QED BY <2>1, <2>2, <2>4, <3>1, SameMapping
  <2>6. \A w \in Workers : Course(w)'
    BY <2>1, <2>3, <2>5, TxnLpa, CourseKept DEF Updates, Stays
  <2> QED BY <2>1, <2>3, <2>5, <2>6, Quiet
<1>2. CASE Reboot
  BY <1>2, RebootData
<1>3. ASSUME NEW w \in Workers, DispatchSome(w) \/ SaveDomain(w) PROVE DataInv'
  BY <1>3, DispatchData, SaveDomainData
<1>4. ASSUME NEW w \in Workers, Work(w) PROVE DataInv'
  BY <1>4, HitPageData, AddPageData, LockedData, EvictPageData, NotRoomyData, GetPpaData,
     AllocPageData, UpdateReadData, SubmitData, FlushDomainData, SavingData DEF Work
<1> QED BY <1>1, <1>2, <1>3, <1>4 DEF Next

\* No update is lost.  When callers never have two transactions on one logical page,
\* the mapping leads to a flash page with every sector that the completed writes left,
\* once no transaction on the logical page is outstanding: through read-modify-writes,
\* failed dispatches (their own pages excepted), saves and restarts, for every number
\* of workers, pages and transactions.
THEOREM NoUpdateLost == ASSUME Exclusive PROVE Spec => []MappingFaithful
<1>1. Inv /\ DataInv => MappingFaithful
  <2> SUFFICES ASSUME Inv, DataInv, Roomy, NEW l \in Lpas \ lost, ~Outstanding(l),
                      NEW s \in Sectors, latest[l][s] # 0
               PROVE  MappedPpa(l) # NONE /\ data[MappedPpa(l)][s] = latest[l][s]
    BY DEF MappingFaithful
  <2>1. ~InFlight(l)
    BY DEF InFlight, Writes, Outstanding, Range
  <2>2. Faithful(l)
    BY <2>1 DEF DataInv, Updates, Settled
  <2> QED BY <2>2 DEF Faithful
<1>2. Init => DataInv
  BY InitData
<1>3. Inv /\ DataInv /\ [Next]_vars => DataInv'
  BY NextData
<1> QED BY <1>1, <1>2, <1>3, Invariance, PTL DEF Spec
=============================================================================
