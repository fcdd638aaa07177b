-------------------------- MODULE FlashWaitProofs --------------------------
(***************************************************************************)
(* Any number of workers and requests, rings of any size: a worker that    *)
(* never timed out gets the result of its own request, and without a       *)
(* timeout no assertion fails.  (That a ring is large enough for what is   *)
(* put on it is not needed: a ring that overflows loses requests, and then *)
(* nobody is answered.)                                                    *)
(*                                                                         *)
(* A leaf is given to Zenon, unless it says SMT or PTL.                    *)
(***************************************************************************)
EXTENDS FlashWait, TLAPS

\* Task w is at most once among the unread elements of ring q.
Once(q, w) == \A i, j \in Filled(q) : q.elem[i] = w /\ q.elem[j] = w => i = j

\* Ring r is ring q with task s added; an overflow loses elements.
Adds(r, q, s) ==
    /\ Unread(r) \subseteq Unread(q) \cup {s}
    /\ \A w \in Workers : Once(q, w) /\ (w = s => w \notin Unread(q)) => Once(r, w)

\* Where the task of worker w can be, on its way to core c and back.
InAvail(w, c) == w \in Unread(ring[c].avail)
InHelper(w, c) == IF c = "fil" THEN w \in held ELSE w = engine
InUsed(w, c) == w \in Unread(ring[c].used)
In(w, c) == InAvail(w, c) \/ InHelper(w, c) \/ InUsed(w, c)

Gone(w) == \A c \in Cores : /\ ~In(w, c) /\ ~InAvail(w, c) /\ ~InHelper(w, c) /\ ~InUsed(w, c)
                             /\ Once(ring[c].avail, w)

\* The request of w is answered, and the answer is in its task.
Answered(w, c) == task[c][w].completed /\ task[c][w].status = outcome[th[w].id]

\* A worker that has not timed out: it runs or it sleeps for its request; the
\* request is in one place as long as it sleeps, and nobody else has its number.
Good(w) ==
    /\ ~th[w].timed_out /\ th[w].pc # "dump"
    /\ IF cur = w THEN th[w].blocked_on = "none" /\ ~th[w].woken
       ELSE IF th[w].pc \in Cores THEN th[w].blocked_on = th[w].pc
       ELSE th[w].pc = "idle" /\ th[w].blocked_on = "none"
    /\ \A c \in Cores :
         /\ In(w, c) => cur # w /\ th[w].pc = c /\ ~th[w].woken
         /\ InAvail(w, c) => ~InHelper(w, c) /\ ~InUsed(w, c)
         /\ InHelper(w, c) => ~InUsed(w, c)
         /\ Once(ring[c].avail, w)
         /\ th[w].pc = c => task[c][w].id = th[w].id
         /\ th[w].pc = c /\ (cur = w \/ th[w].woken \/ InUsed(w, c)) => Answered(w, c)
    /\ th[w].pc = "returned" => th[w].result = outcome[th[w].id]
    /\ th[w].pc # "idle" =>
         /\ th[w].id \in Ids
         /\ \A c \in Cores, s \in Workers \ {w} : task[c][s].id # th[w].id

\* What the rings hold, and the numbers given out.
Traffic ==
    /\ \A c \in Cores :
         /\ Unread(ring[c].avail) \subseteq Slots /\ Unread(ring[c].used) \subseteq Slots
         /\ DUMP \in Unread(ring[c].avail) \cup Unread(ring[c].used) => c = "fil" /\ late # {}
         /\ \A s \in Workers : task[c][s].opaque \in {s, NONE}
         /\ task[c][DUMP].opaque \in late \cup {NONE}
         /\ \A s \in Slots : task[c][s].id <= ids
    /\ \A w \in Workers : th[w].id <= ids
    /\ late = {} => ~failed

\* The inductive invariant.
Inv == TypeOK /\ Traffic /\ \A w \in Workers \ late : Good(w)

USE ZenonT(60)

----------------------------------------------------------------------------
(* The rings                                                               *)

LEMMA RingEmpty ==
  ASSUME NEW n \in Nat, Start \in Nat, Start < n
  PROVE  Empty(n) \in Rings(n) /\ Unread(Empty(n)) = {} /\ \A w \in Workers : Once(Empty(n), w)
<1>1. Empty(n) \in Rings(n)
  BY SMT DEF Empty, Rings
<1>2. Filled(Empty(n)) = {}
  BY SMT DEF Empty, Filled
<1> QED BY <1>1, <1>2 DEF Unread, Once

LEMMA RingAdds ==
  ASSUME NEW n \in Nat \ {0}, NEW q \in Rings(n), NEW e \in Slots
  PROVE  RingAdd(q, e) \in Rings(n) /\ Adds(RingAdd(q, e), q, e)
<1> DEFINE r == RingAdd(q, e)
<1>1. /\ q.head \in 0..n - 1 /\ q.tail \in 0..n - 1 /\ q.elem \in [0..n - 1 -> Slots \cup {NONE}]
      /\ q.num = n
  BY DEF Rings
<1>2. RingNext(q.tail, n) \in 0..n - 1
  BY SMT, <1>1 DEF RingNext
<1>4. /\ r.elem = [q.elem EXCEPT ![q.tail] = e] /\ r.head = q.head
      /\ r.tail = RingNext(q.tail, n)
  BY <1>1 DEF RingAdd, Rings
<1>5. r \in Rings(n)
  BY <1>1, <1>2 DEF RingAdd, Rings
<1> HIDE DEF r
<1>6. /\ Filled(r) \subseteq Filled(q) \cup {q.tail} /\ q.tail \notin Filled(q)
      /\ Filled(q) \subseteq 0..n - 1
  BY SMT, <1>1, <1>4 DEF Filled, RingNext
<1>7. r.elem[q.tail] = e /\ \A i \in Filled(q) : r.elem[i] = q.elem[i]
  BY <1>1, <1>4, <1>6
<1>8. Unread(r) \subseteq Unread(q) \cup {e}
  BY SMT, <1>6, <1>7 DEF Unread
<1>9. ASSUME NEW w \in Workers, Once(q, w), w = e => w \notin Unread(q) PROVE Once(r, w)
  BY SMT, <1>6, <1>7, <1>9 DEF Once, Unread
<1> QED BY <1>5, <1>8, <1>9 DEF r, Adds

LEMMA RingGets ==
  ASSUME NEW n \in Nat \ {0}, NEW q \in Rings(n), RingHas(q)
  PROVE  /\ RingHead(q) \in Unread(q) /\ RingGet(q) \in Rings(n)
         /\ Unread(RingGet(q)) \subseteq Unread(q)
         /\ \A w \in Workers : Once(q, w) =>
              Once(RingGet(q), w) /\ (w = RingHead(q) => w \notin Unread(RingGet(q)))
<1> DEFINE r == RingGet(q)
<1>1. /\ q.head \in 0..n - 1 /\ q.tail \in 0..n - 1 /\ q.elem \in [0..n - 1 -> Slots \cup {NONE}]
      /\ q.num = n
  BY DEF Rings
<1>2. RingNext(q.head, n) \in 0..n - 1
  BY SMT, <1>1 DEF RingNext
<1>4. /\ r.elem = [q.elem EXCEPT ![q.head] = NONE] /\ r.tail = q.tail
      /\ r.head = RingNext(q.head, n)
  BY <1>1 DEF RingGet, Rings
<1>5. r \in Rings(n)
  BY <1>1, <1>2 DEF RingGet, Rings
<1> HIDE DEF r
<1>6. /\ Filled(r) \subseteq Filled(q) \ {q.head} /\ q.head \in Filled(q)
      /\ Filled(q) \subseteq 0..n - 1
  BY SMT, <1>1, <1>4 DEF Filled, RingNext, RingHas
<1>7. \A i \in Filled(r) : i # q.head /\ r.elem[i] = q.elem[i]
  BY <1>1, <1>4, <1>6
<1>8. Unread(r) \subseteq Unread(q) /\ RingHead(q) \in Unread(q)
  BY <1>6, <1>7 DEF Unread, RingHead
<1>9. ASSUME NEW w \in Workers, Once(q, w)
      PROVE  Once(r, w) /\ (w = RingHead(q) => w \notin Unread(r))
  BY <1>6, <1>7, <1>9 DEF Once, Unread, RingHead
<1> QED BY <1>5, <1>8, <1>9 DEF r

LEMMA RingGetsAll ==
  ASSUME NEW n \in Nat \ {0}, NEW q \in Rings(n)
  PROVE  RingGetAll(q) \in Rings(n) /\ Unread(RingGetAll(q)) = {}
<1> DEFINE r == RingGetAll(q)
           e == [i \in DOMAIN q.elem |-> IF i \in Filled(q) THEN NONE ELSE q.elem[i]]
<1>0. /\ q.elem \in [0..n - 1 -> Slots \cup {NONE}] /\ q.tail \in 0..n - 1
      /\ e \in [0..n - 1 -> Slots \cup {NONE}]
  BY DEF Rings
<1>1. r.head = q.tail /\ r.tail = q.tail /\ r \in Rings(n)
  <2>1. r = [q EXCEPT !.elem = e, !.head = q.tail]
    BY DEF RingGetAll
  <2> HIDE DEF r, e
  <2> QED BY <1>0, <2>1 DEF Rings
<1>2. q.tail \in 0..n - 1 /\ DOMAIN r.elem = 0..n - 1
  BY <1>0, <1>1 DEF Rings
<1>3. Filled(r) = {}
  BY SMT, <1>1, <1>2 DEF Filled
<1> QED BY <1>1, <1>3 DEF Unread

----------------------------------------------------------------------------
(* The exchange                                                            *)

LEMMA Sizes == /\ AvailNum \in Nat \ {0} /\ UsedNum \in Nat \ {0} /\ DUMP \notin Workers
               /\ NONE \notin Slots /\ MAIN \notin Workers /\ 0 \notin Ids
BY SMT, FlashWaitAssumption DEF Slots

LEMMA InitInv == Init => Inv
<1> SUFFICES ASSUME Init PROVE Inv
  OBVIOUS
<1>1. /\ Empty(AvailNum) \in Rings(AvailNum) /\ Unread(Empty(AvailNum)) = {}
      /\ Empty(UsedNum) \in Rings(UsedNum) /\ Unread(Empty(UsedNum)) = {}
      /\ \A w \in Workers : Once(Empty(AvailNum), w)
  BY RingEmpty, FlashWaitAssumption
<1>2. \A c \in Cores : /\ Unread(ring[c].avail) = {} /\ Unread(ring[c].used) = {}
                       /\ \A w \in Workers : Once(ring[c].avail, w)
  BY <1>1 DEF Init
<1>3. TypeOK
  <2>1. th \in [Workers -> Threads]
    BY DEF Init, Awake, Threads
  <2>2. task \in [Cores -> [Slots -> Tasks]]
    BY DEF Init, NoTask, Tasks
  <2>3. ring \in [Cores -> [avail : Rings(AvailNum), used : Rings(UsedNum)]]
    BY <1>1 DEF Init
  <2> QED BY <2>1, <2>2, <2>3 DEF Init, TypeOK
<1>4. Traffic
  <2>1. /\ \A c \in Cores, s \in Slots : task[c][s].opaque = NONE /\ task[c][s].id = 0
        /\ \A w \in Workers : th[w].id = 0
        /\ ids = 0 /\ ~failed
    BY DEF Init, NoTask, Awake
  <2>2. DUMP \in Slots /\ Workers \subseteq Slots /\ 0 <= ids
    BY SMT, <2>1 DEF Slots
  <2> QED BY <1>2, <2>1, <2>2 DEF Traffic
<1>5. ASSUME NEW w \in Workers PROVE Good(w)
  <2>1. /\ th[w].pc = "idle" /\ ~th[w].timed_out /\ th[w].blocked_on = "none"
        /\ cur # w /\ w \notin held /\ w # engine
    BY Sizes DEF Init, Awake, Slots
  <2>2. \A c \in Cores : ~In(w, c) /\ Once(ring[c].avail, w)
    BY <1>2, <2>1 DEF In, InAvail, InHelper, InUsed
  <2>3. \A c \in Cores : ~InAvail(w, c) /\ ~InHelper(w, c) /\ c # "idle"
    BY <2>2 DEF In, Cores
  <2> QED BY <2>1, <2>2, <2>3 DEF Good
<1> QED BY <1>3, <1>4, <1>5 DEF Inv

LEMMA GoodNow == ASSUME Inv, NEW v \in Workers \ late PROVE Good(v)
BY DEF Inv

\* Nobody else has the number of a request.
LEMMA Numbered ==
  ASSUME NEW v \in Workers, Good(v), th[v].pc # "idle"
  PROVE  th[v].id \in Ids /\ \A c \in Cores, s \in Workers \ {v} : task[c][s].id # th[v].id
BY DEF Good

\* Where the task of a worker is that has not timed out: in one place, and
\* nowhere if the worker runs, has been woken or waits for nothing.
LEMMA Nowhere ==
  ASSUME NEW v \in Workers, Good(v), cur = v \/ th[v].woken \/ th[v].pc \notin Cores
  PROVE  Gone(v)
BY DEF Good, In, Gone

LEMMA Sent ==
  ASSUME NEW v \in Workers, Good(v), NEW c \in Cores, InAvail(v, c)
  PROVE  /\ th[v].pc = c /\ cur # v /\ ~th[v].woken
         /\ \A d \in Cores : ~InHelper(v, d) /\ ~InUsed(v, d) /\ (InAvail(v, d) => d = c)
BY DEF Good, In

LEMMA Held ==
  ASSUME NEW v \in Workers, Good(v), NEW c \in Cores, InHelper(v, c)
  PROVE  /\ th[v].pc = c /\ cur # v /\ ~th[v].woken
         /\ \A d \in Cores : ~InAvail(v, d) /\ ~InUsed(v, d) /\ (InHelper(v, d) => d = c)
BY DEF Good, In

LEMMA Back ==
  ASSUME NEW v \in Workers, Good(v), NEW c \in Cores, InUsed(v, c)
  PROVE  /\ th[v].pc = c /\ cur # v /\ ~th[v].woken /\ Answered(v, c)
         /\ \A d \in Cores : ~InAvail(v, d) /\ ~InHelper(v, d) /\ (InUsed(v, d) => d = c)
BY DEF Good, In

LEMMA AvailOnce ==
  ASSUME NEW v \in Workers, Good(v) PROVE \A c \in Cores : Once(ring[c].avail, v)
BY DEF Good

LEMMA TaskNumber ==
  ASSUME NEW v \in Workers, Good(v), NEW c \in Cores, th[v].pc = c
  PROVE  task[c][v].id = th[v].id /\ th[v].id \in Ids /\ c # "idle"
BY DEF Good, Cores

LEMMA Prompt == ASSUME NEW v \in Workers, Good(v) PROVE ~th[v].timed_out /\ th[v].pc # "dump"
BY DEF Good

LEMMA IdleGood ==
  ASSUME NEW v \in Workers, Gone(v)', th'[v].pc = "idle", ~th'[v].timed_out,
         th'[v].blocked_on = "none", cur' = v => ~th'[v].woken
  PROVE  Good(v)'
BY DEF Good, Gone, Cores

LEMMA ReturnedGood ==
  ASSUME NEW v \in Workers, Gone(v)', cur' = v, th'[v].pc = "returned", ~th'[v].timed_out,
         th'[v].blocked_on = "none", ~th'[v].woken, th'[v].result = outcome'[th'[v].id],
         th'[v].id \in Ids, \A c \in Cores, s \in Workers \ {v} : task'[c][s].id # th'[v].id
  PROVE  Good(v)'
BY DEF Good, Gone, Cores

\* A worker that has been woken gets the core.
LEMMA RunningGood ==
  ASSUME NEW v \in Workers, Good(v), th[v].woken, cur # v, Gone(v)', cur' = v,
         th'[v].blocked_on = "none", ~th'[v].woken, th'[v].pc = th[v].pc, th'[v].id = th[v].id,
         th'[v].result = th[v].result, th'[v].timed_out = th[v].timed_out,
         UNCHANGED <<task, outcome>>
  PROVE  Good(v)'
<1>1. \A c \in Cores : th[v].pc = c => task[c][v].id = th[v].id /\ Answered(v, c)
  BY DEF Good
<1>2. \A c \in Cores : th'[v].pc = c => task'[c][v].id = th'[v].id /\ Answered(v, c)'
  BY <1>1 DEF Answered
<1>3. ~th[v].timed_out /\ th[v].pc # "dump"
  BY Prompt
<1>4. th[v].pc = "returned" => th[v].result = outcome[th[v].id]
  BY DEF Good
<1> QED BY SMT, <1>2, <1>3, <1>4, Numbered DEF Good, Gone

\* A worker whose task has been queued sleeps.
LEMMA SleepingGood ==
  ASSUME NEW v \in Workers, NEW c \in Cores, cur' # v, th'[v].pc = c, th'[v].blocked_on = c,
         ~th'[v].timed_out, ~th'[v].woken, task'[c][v].id = th'[v].id, th'[v].id \in Ids,
         \A d \in Cores, s \in Workers \ {v} : task'[d][s].id # th'[v].id,
         \A d \in Cores : ~InHelper(v, d)' /\ ~InUsed(v, d)' /\ Once(ring[d].avail, v)'
                          /\ (InAvail(v, d)' => d = c)
  PROVE  Good(v)'
<1>1. \A d \in Cores : In(v, d)' => d = c
  BY DEF In
<1>2. c # "dump" /\ c # "idle" /\ c # "returned"
  BY DEF Cores
<1> QED BY <1>1, <1>2 DEF Good

\* The task of a worker that sleeps is moved to another place.
LEMMA MovedGood ==
  ASSUME NEW v \in Workers, Good(v), NEW c \in Cores, th[v].pc = c, cur # v, ~th[v].woken,
         th'[v] = th[v], cur' # v,
         \A d \in Cores : /\ In(v, d)' => d = c
                          /\ InAvail(v, d)' => ~InHelper(v, d)' /\ ~InUsed(v, d)'
                          /\ InHelper(v, d)' => ~InUsed(v, d)'
                          /\ Once(ring[d].avail, v)'
                          /\ \A x \in Workers : task'[d][x].id = task[d][x].id,
         InUsed(v, c)' => Answered(v, c)'
  PROVE  Good(v)'
<1>1. \A d \in Cores, s \in Workers \ {v} : task'[d][s].id # th[v].id
  BY SMT, Numbered DEF Cores
<1>2. ~th[v].timed_out /\ th[v].blocked_on = c /\ th[v].id \in Ids /\ task'[c][v].id = th[v].id
  BY DEF Good, Cores
<1>3. c # "idle" /\ c # "dump" /\ c # "returned"
  BY DEF Cores
<1> QED BY SMT, <1>1, <1>2, <1>3 DEF Good

\* A worker whose answer has been collected is woken.
LEMMA WokenGood ==
  ASSUME NEW v \in Workers, Good(v), NEW c \in Cores, th[v].pc = c, cur # v,
         th'[v].woken, th'[v].pc = th[v].pc, th'[v].id = th[v].id,
         th'[v].timed_out = th[v].timed_out, th'[v].blocked_on = th[v].blocked_on,
         UNCHANGED <<cur, task, outcome>>, Answered(v, c)',
         \A d \in Cores : /\ ~In(v, d)' /\ ~InAvail(v, d)' /\ ~InHelper(v, d)'
                          /\ Once(ring[d].avail, v)'
  PROVE  Good(v)'
<1>1. \A d \in Cores, s \in Workers \ {v} : task[d][s].id # th[v].id
  BY Numbered DEF Cores
<1>2. ~th[v].timed_out /\ th[v].blocked_on = c /\ th[v].id \in Ids /\ task[c][v].id = th[v].id
  BY DEF Good, Cores
<1>3. c # "idle" /\ c # "dump" /\ c # "returned"
  BY DEF Cores
<1> QED BY SMT, <1>1, <1>2, <1>3 DEF Good

\* What a step of others leaves of worker v.
LEMMA Frame ==
  ASSUME Inv, NEW v \in Workers \ late, th'[v] = th[v], cur' = v <=> cur = v,
         \A c \in Cores :
           /\ InAvail(v, c)' => InAvail(v, c)
           /\ InHelper(v, c)' => InHelper(v, c)
           /\ InUsed(v, c)' => InUsed(v, c)
           /\ Once(ring[c].avail, v) => Once(ring[c].avail, v)'
           /\ task'[c][v] = task[c][v],
         th[v].pc # "idle" =>
             /\ outcome'[th[v].id] = outcome[th[v].id]
             /\ \A c \in Cores, s \in Workers \ {v} : task'[c][s].id # th[v].id
  PROVE  Good(v)'
<1>0. Good(v)
  BY DEF Inv
<1>1. ASSUME NEW c \in Cores
      PROVE  /\ In(v, c)' => cur' # v /\ th'[v].pc = c /\ ~th'[v].woken
             /\ InAvail(v, c)' => ~InHelper(v, c)' /\ ~InUsed(v, c)'
             /\ InHelper(v, c)' => ~InUsed(v, c)'
             /\ Once(ring[c].avail, v)'
             /\ th'[v].pc = c => task'[c][v].id = th'[v].id
  BY <1>0 DEF Good, In
<1>2. ASSUME NEW c \in Cores, th'[v].pc = c, cur' = v \/ th'[v].woken \/ InUsed(v, c)'
      PROVE  Answered(v, c)'
  <2>1. Answered(v, c) /\ th[v].pc # "idle"
    BY <1>0, <1>2 DEF Good, Cores
  <2> QED BY <2>1 DEF Answered
<1> QED BY SMT, <1>0, <1>1, <1>2 DEF Good

\* Steps of the worker that runs, or of the main loop, that leave the tasks and the
\* rings alone.
LEMMA Apart ==
  ASSUME Inv, UNCHANGED <<task, ring, held, engine, outcome>>,
         NEW v \in Workers \ late, th'[v] = th[v], cur' = v <=> cur = v
  PROVE  Good(v)'
<1>1. \A c \in Cores : /\ InAvail(v, c)' => InAvail(v, c)
                       /\ InHelper(v, c)' => InHelper(v, c)
                       /\ InUsed(v, c)' => InUsed(v, c)
                       /\ Once(ring[c].avail, v) => Once(ring[c].avail, v)'
  BY DEF InAvail, InHelper, InUsed
<1>2. th[v].pc # "idle" =>
         \A c \in Cores, s \in Workers \ {v} : task'[c][s].id # th[v].id
  BY GoodNow, Numbered
<1> QED BY <1>1, <1>2, Frame

LEMMA SameTraffic ==
  ASSUME Traffic, UNCHANGED <<task, ring, ids, failed>>, late \subseteq late',
         \A w \in Workers : th'[w].id = th[w].id \/ th'[w].id = 0, ids \in Nat
  PROVE  Traffic'
BY SMT DEF Traffic

\* What may be on the rings of core d.
Fit(d) == {x \in Slots : x = DUMP => d = "fil" /\ late # {}}

\* Tasks that move between the rings and the helper cores.
LEMMA TrafficFits ==
  ASSUME Traffic, UNCHANGED <<ids, late>>, late = {} => ~failed',
         \A w \in Workers : th'[w].id = th[w].id,
         \A d \in Cores : /\ Unread(ring'[d].avail) \cup Unread(ring'[d].used)
                               \subseteq Unread(ring[d].avail) \cup Unread(ring[d].used) \cup Fit(d)
                          /\ \A x \in Slots : /\ task'[d][x].id = task[d][x].id
                                              /\ task'[d][x].opaque = task[d][x].opaque
  PROVE  Traffic'
<1>1. ASSUME NEW d \in Cores
      PROVE  /\ Unread(ring'[d].avail) \subseteq Slots /\ Unread(ring'[d].used) \subseteq Slots
             /\ DUMP \in Unread(ring'[d].avail) \cup Unread(ring'[d].used)
                  => d = "fil" /\ late # {}
  BY DEF Traffic, Fit
<1>2. ASSUME NEW d \in Cores
      PROVE  /\ \A s \in Workers : task'[d][s].opaque \in {s, NONE}
             /\ task'[d][DUMP].opaque \in late \cup {NONE}
             /\ \A s \in Slots : task'[d][s].id <= ids
  BY DEF Traffic, Slots
<1>3. \A w \in Workers : th'[w].id <= ids
  BY DEF Traffic
<1> QED BY <1>1, <1>2, <1>3 DEF Traffic

LEMMA IdsNat == ASSUME TypeOK PROVE ids \in Nat /\ \A i \in Ids : i \in Nat /\ i # 0
BY SMT, FlashWaitAssumption DEF TypeOK

LEMMA WaitKeeps ==
  ASSUME Inv, UNCHANGED <<cur, th, task, ring, held, engine, ids, outcome, late, failed>>,
         main' \in {"wfe", "poll_fil", "poll_ecc", "yield"}
  PROVE  Inv'
<1>1. TypeOK'
  BY DEF Inv, TypeOK
<1>2. Traffic'
  BY SameTraffic, IdsNat DEF Inv
<1>3. ASSUME NEW v \in Workers \ late' PROVE Good(v)'
  BY Apart
<1> QED BY <1>1, <1>2, <1>3 DEF Inv

\* A step of worker w that only changes its own state.
LEMMA OwnStep ==
  ASSUME Inv, NEW w \in Workers, NEW t \in Threads, th' = [th EXCEPT ![w] = t],
         t.id \in {th[w].id, 0}, cur = w \/ cur = MAIN, cur' \in {w, MAIN},
         UNCHANGED <<main, task, ring, held, engine, ids, outcome, failed>>,
         late' \in {late, late \cup {w}},
         w \notin late' => Good(w)'
  PROVE  Inv'
<1>1. th' \in [Workers -> Threads] /\ th'[w] = t /\ \A v \in Workers \ {w} : th'[v] = th[v]
  BY DEF Inv, TypeOK
<1>2. TypeOK'
  BY <1>1 DEF Inv, TypeOK
<1>3. Traffic'
  <2>1. \A v \in Workers : th'[v].id = th[v].id \/ th'[v].id = 0
    BY <1>1
  <2> QED BY <2>1, SameTraffic, IdsNat DEF Inv
<1>4. ASSUME NEW v \in Workers \ late', v # w PROVE Good(v)'
  BY SMT, <1>1, <1>4, Apart, Sizes
<1> QED BY <1>2, <1>3, <1>4 DEF Inv

\* The places of the tasks, when nobody moves one.
LEMMA SamePlaces ==
  ASSUME UNCHANGED <<ring, held, engine>>, NEW v \in Workers, Gone(v) PROVE Gone(v)'
<1>1. \A c \in Cores :
        /\ InAvail(v, c)' = InAvail(v, c) /\ InHelper(v, c)' = InHelper(v, c)
        /\ InUsed(v, c)' = InUsed(v, c)
        /\ Once(ring[c].avail, v)' = Once(ring[c].avail, v)
  BY DEF InAvail, InHelper, InUsed
<1> QED BY <1>1 DEF Gone, In

\* A worker that gets the core, and one whose time is over.
Resumed(x) == [x EXCEPT !.woken = FALSE, !.blocked_on = "none", !.armed = FALSE]
TimedOut(x) == [x EXCEPT !.armed = FALSE, !.timed_out = TRUE, !.woken = TRUE]

LEMMA ResumedThread ==
  ASSUME NEW x \in Threads
  PROVE  /\ Resumed(x) \in Threads /\ Resumed(x).pc = x.pc /\ Resumed(x).id = x.id
         /\ Resumed(x).result = x.result /\ Resumed(x).timed_out = x.timed_out
         /\ Resumed(x).blocked_on = "none" /\ ~Resumed(x).woken
BY DEF Threads, Resumed

LEMMA TimedOutThread ==
  ASSUME NEW x \in Threads PROVE TimedOut(x) \in Threads /\ TimedOut(x).id = x.id
BY DEF Threads, TimedOut

LEMMA RunKeeps == ASSUME Inv, NEW w \in Workers, Run(w) PROVE Inv'
<1>1. th[w] \in Threads
  BY DEF Inv, TypeOK
<1>2. PICK t \in Threads : t = Resumed(th[w])
  BY <1>1, ResumedThread
<1>3. /\ t.pc = th[w].pc /\ t.id = th[w].id /\ t.result = th[w].result
      /\ t.timed_out = th[w].timed_out /\ t.blocked_on = "none" /\ ~t.woken
  BY <1>1, <1>2, ResumedThread
<1>4. th' = [th EXCEPT ![w] = t] /\ th'[w] = t
  BY <1>2 DEF Run, Inv, TypeOK, Resumed
<1>5. /\ cur # w /\ cur = MAIN /\ th[w].woken /\ cur' = w
      /\ UNCHANGED <<main, task, ring, held, engine, ids, outcome, late, failed>>
  BY Sizes DEF Run
<1>6. ASSUME w \notin late' PROVE Good(w)'
  <2>1. Good(w)
    BY <1>5, <1>6, GoodNow
  <2>2. Gone(w)'
    BY <1>5, <2>1, Nowhere, SamePlaces
  <2> QED BY <1>3, <1>4, <1>5, <2>1, <2>2, RunningGood
<1> QED BY <1>3, <1>4, <1>5, <1>6, OwnStep

LEMMA TimeoutKeeps == ASSUME Inv, NEW w \in Workers, Timeout(w) PROVE Inv'
<1>0. th[w] \in Threads
  BY DEF Inv, TypeOK
<1>1. PICK t \in Threads : t = TimedOut(th[w])
  BY <1>0, TimedOutThread
<1>2. /\ UNCHANGED <<main, task, ring, held, engine, ids, outcome, failed>> /\ cur' = cur
      /\ late' = late \cup {w} /\ th' = [th EXCEPT ![w] = t] /\ t.id = th[w].id
  <2>1. t.id = th[w].id
    BY <1>0, <1>1, TimedOutThread
  <2>2. th' = [th EXCEPT ![w] = t]
    BY <1>1 DEF Timeout, TimedOut, Inv, TypeOK
  <2> QED BY <2>1, <2>2 DEF Timeout
<1>3. th' \in [Workers -> Threads] /\ th'[w] = t /\ \A v \in Workers \ {w} : th'[v] = th[v]
  BY <1>2 DEF Inv, TypeOK
<1>4. TypeOK'
  BY <1>2, <1>3 DEF Inv, TypeOK
<1>5. Traffic'
  <2>1. \A v \in Workers : th'[v].id = th[v].id \/ th'[v].id = 0
    BY <1>2, <1>3
  <2> QED BY <1>2, <2>1, SameTraffic, IdsNat DEF Inv
<1>6. ASSUME NEW v \in Workers \ late' PROVE Good(v)'
  BY <1>2, <1>3, <1>6, Apart
<1> QED BY <1>4, <1>5, <1>6 DEF Inv

\* Worker w, which runs, goes on with its result, or is done with it.
LEMMA GoesOn ==
  ASSUME Inv, NEW w \in Workers, cur = w, NEW t \in Threads, th' = [th EXCEPT ![w] = t],
         UNCHANGED <<cur, main, task, ring, held, engine, ids, outcome, late, failed>>,
         t.id \in {th[w].id, 0},
         w \notin late => /\ ~t.timed_out /\ ~t.woken /\ t.blocked_on = "none"
                         /\ \/ t.pc = "idle"
                            \/ /\ t.pc = "returned" /\ t.id = th[w].id /\ th[w].pc # "idle"
                               /\ t.result = outcome[th[w].id]
  PROVE  Inv'
<1>1. th'[w] = t
  BY DEF Inv, TypeOK
<1>2. ASSUME w \notin late' PROVE Good(w)'
  <2>1. Good(w)
    BY <1>2, GoodNow
  <2>2. Gone(w)'
    BY <2>1, Nowhere, SamePlaces
  <2>3. CASE t.pc = "idle"
    BY <1>1, <1>2, <2>2, <2>3, IdleGood
  <2>4. CASE t.pc # "idle"
    <3>1. /\ th[w].id \in Ids
          /\ \A c \in Cores, s \in Workers \ {w} : task[c][s].id # th[w].id
      BY <1>2, <2>1, <2>4, Numbered
    <3> QED BY <1>1, <1>2, <2>2, <2>4, <3>1, ReturnedGood
  <2> QED BY <2>3, <2>4
<1> QED BY <1>2, OwnStep

LEMMA DumpedKeeps == ASSUME Inv, NEW w \in Workers, Dumped(w) PROVE Inv'
<1> DEFINE t == [th[w] EXCEPT !.pc = "returned", !.result = "timeout"]
<1>1. t \in Threads /\ t.id = th[w].id /\ th' = [th EXCEPT ![w] = t]
  BY DEF Dumped, Inv, TypeOK, Threads
<1>2. w \in late
  BY GoodNow, Prompt DEF Dumped
<1> HIDE DEF t
<1> QED BY <1>1, <1>2, GoesOn DEF Dumped

LEMMA ReturnKeeps == ASSUME Inv, NEW w \in Workers, Return(w) PROVE Inv'
<1>1. /\ Awake \in Threads /\ Awake.id = 0 /\ ~Awake.timed_out /\ ~Awake.woken
      /\ Awake.blocked_on = "none" /\ Awake.pc = "idle"
  BY DEF Awake, Threads
<1> QED BY <1>1, GoesOn DEF Return

\* The wait of w ends with the status in its task.
LEMMA ResultKeeps ==
  ASSUME Inv, NEW w \in Workers, NEW c \in Cores, cur = w, th[w].pc = c,
         NEW r, r = IF th[w].timed_out THEN "timeout" ELSE task[c][w].status,
         th' = [th EXCEPT ![w].pc = "returned", ![w].result = r],
         UNCHANGED <<cur, main, task, ring, held, engine, ids, outcome, late, failed>>
  PROVE  Inv'
<1> DEFINE t == [th[w] EXCEPT !.pc = "returned", !.result = r]
<1>0. r \in {"none", "ok", "error", "timeout"}
  BY SMT DEF Inv, TypeOK, Tasks, Slots
<1>1. /\ t \in Threads /\ t.id = th[w].id /\ th' = [th EXCEPT ![w] = t]
      /\ t.timed_out = th[w].timed_out /\ t.woken = th[w].woken
      /\ t.blocked_on = th[w].blocked_on /\ t.pc = "returned" /\ t.result = r
  BY <1>0 DEF Inv, TypeOK, Threads
<1>2. ASSUME w \notin late
      PROVE  /\ ~th[w].timed_out /\ ~th[w].woken /\ th[w].blocked_on = "none"
             /\ th[w].pc # "idle" /\ r = outcome[th[w].id]
  BY <1>2 DEF Inv, Good, Answered, Cores
<1> HIDE DEF t
<1> QED BY <1>1, <1>2, GoesOn

LEMMA EccWaitedKeeps == ASSUME Inv, NEW w \in Workers, EccWaited(w) PROVE Inv'
BY ResultKeeps DEF EccWaited, Cores

LEMMA RestKeeps == ASSUME Inv, NEW w \in Workers, Rest(w) PROVE Inv'
<1> DEFINE b == ids + 1 \in Ids
           t == [th[w] EXCEPT !.woken = b]
<1>1. /\ t \in Threads /\ t.id = th[w].id /\ th' = [th EXCEPT ![w] = t]
      /\ t.timed_out = th[w].timed_out /\ t.blocked_on = th[w].blocked_on /\ t.pc = "idle"
  <2>1. b \in BOOLEAN /\ th' = [th EXCEPT ![w].woken = b] /\ th[w].pc = "idle"
    BY SMT DEF Rest
  <2> HIDE DEF b
  <2> QED BY <2>1 DEF Inv, TypeOK, Threads
<1>2. th'[w] = t
  BY <1>1 DEF Inv, TypeOK
<1> HIDE DEF t
<1>3. ASSUME w \notin late' PROVE Good(w)'
  <2>1. cur = w /\ cur' # w /\ UNCHANGED <<ring, held, engine>> /\ w \notin late
    BY <1>3, Sizes DEF Rest
  <2>2. Good(w)
    BY <2>1, GoodNow
  <2>3. Gone(w)'
    BY <2>1, <2>2, Nowhere, SamePlaces
  <2>4. ~th[w].timed_out /\ th[w].blocked_on = "none"
    BY <2>1, <2>2 DEF Good
  <2> QED BY <1>1, <1>2, <2>1, <2>3, <2>4, IdleGood
<1> QED BY <1>1, <1>3, OwnStep DEF Rest

AllRings == [Cores -> [avail : Rings(AvailNum), used : Rings(UsedNum)]]

LEMMA SetAvail ==
  ASSUME ring \in AllRings, NEW c \in Cores, NEW r \in Rings(AvailNum),
         ring' = [ring EXCEPT ![c].avail = r]
  PROVE  /\ ring' \in AllRings /\ ring'[c].avail = r /\ ring'[c].used = ring[c].used
         /\ \A d \in Cores \ {c} : ring'[d] = ring[d]
BY DEF AllRings

LEMMA SetUsed ==
  ASSUME ring \in AllRings, NEW c \in Cores, NEW r \in Rings(UsedNum),
         ring' = [ring EXCEPT ![c].used = r]
  PROVE  /\ ring' \in AllRings /\ ring'[c].used = r /\ ring'[c].avail = ring[c].avail
         /\ \A d \in Cores \ {c} : ring'[d] = ring[d]
BY DEF AllRings

LEMMA Enqueued ==
  ASSUME Inv, NEW w \in Workers, NEW c \in Cores, NEW s \in Slots,
         NEW pc \in {"fil", "ecc", "dump"}, NEW id \in Ids \cup {0}, Enqueue(w, c, s, pc, id)
  PROVE  /\ task' \in [Cores -> [Slots -> Tasks]]
         /\ task'[c][s].id = id /\ task'[c][s].opaque = w
         /\ \A d \in Cores, x \in Slots : d # c \/ x # s => task'[d][x] = task[d][x]
         /\ ring' \in AllRings
         /\ \A d \in Cores : ring'[d].used = ring[d].used
         /\ \A d \in Cores \ {c} : ring'[d].avail = ring[d].avail
         /\ Adds(ring'[c].avail, ring[c].avail, s)
         /\ th' \in [Workers -> Threads]
         /\ \A v \in Workers \ {w} : th'[v] = th[v]
         /\ th'[w].pc = pc /\ th'[w].blocked_on = c /\ ~th'[w].timed_out
         /\ ~th'[w].woken /\ th'[w].id = id
         /\ cur' = MAIN /\ UNCHANGED <<main, held, engine>>
<1>1. /\ task' \in [Cores -> [Slots -> Tasks]]
      /\ task'[c][s].id = id /\ task'[c][s].opaque = w
      /\ \A d \in Cores, x \in Slots : d # c \/ x # s => task'[d][x] = task[d][x]
  <2> DEFINE t == [NoTask EXCEPT !.id = id, !.opaque = w]
  <2>1. t \in Tasks /\ t.id = id /\ t.opaque = w
    BY DEF NoTask, Tasks
  <2>2. task' = [task EXCEPT ![c][s] = t]
    BY DEF Enqueue
  <2> HIDE DEF t
  <2> QED BY <2>1, <2>2 DEF Inv, TypeOK
<1>2. ring[c].avail \in Rings(AvailNum) /\ ring \in AllRings
  BY DEF Inv, TypeOK, AllRings
<1>3. /\ RingAdd(ring[c].avail, s) \in Rings(AvailNum)
      /\ Adds(RingAdd(ring[c].avail, s), ring[c].avail, s)
  BY <1>2, RingAdds, Sizes
<1>4. ring' = [ring EXCEPT ![c].avail = RingAdd(ring[c].avail, s)]
  BY DEF Enqueue, Inv, TypeOK
<1>5. /\ ring' \in AllRings /\ ring'[c].used = ring[c].used
      /\ ring'[c].avail = RingAdd(ring[c].avail, s)
      /\ \A d \in Cores \ {c} : ring'[d] = ring[d]
  BY <1>2, <1>3, <1>4, SetAvail
<1>6. /\ th' \in [Workers -> Threads]
      /\ \A v \in Workers \ {w} : th'[v] = th[v]
      /\ th'[w].pc = pc /\ th'[w].blocked_on = c /\ ~th'[w].timed_out
      /\ ~th'[w].woken /\ th'[w].id = id
  <2> DEFINE t == [Awake EXCEPT !.pc = pc, !.blocked_on = c, !.armed = TRUE, !.id = id]
  <2>1. /\ t \in Threads /\ t.pc = pc /\ t.blocked_on = c /\ ~t.timed_out
        /\ ~t.woken /\ t.id = id
    BY DEF Awake, Threads, Cores
  <2>2. th' = [th EXCEPT ![w] = t]
    BY DEF Enqueue
  <2> HIDE DEF t
  <2> QED BY <2>1, <2>2 DEF Inv, TypeOK
<1> QED BY <1>1, <1>3, <1>5, <1>6 DEF Enqueue

LEMMA SubmitKeeps ==
  ASSUME Inv, NEW w \in Workers, NEW c \in Cores, cur = w, th[w].pc = "idle",
         ids + 1 \in Ids, ids' = ids + 1, Enqueue(w, c, w, c, ids + 1),
         UNCHANGED <<outcome, late>>, failed' \in BOOLEAN, late = {} => ~failed'
  PROVE  Inv'
<1>0. w \in Slots /\ c \in {"fil", "ecc", "dump"} /\ ids \in Nat
  BY IdsNat DEF Slots, Cores, Inv
<1>1. /\ task' \in [Cores -> [Slots -> Tasks]]
      /\ task'[c][w].id = ids + 1 /\ task'[c][w].opaque = w
      /\ \A d \in Cores, x \in Slots : d # c \/ x # w => task'[d][x] = task[d][x]
  BY SMT, <1>0, Enqueued
<1>2. /\ ring' \in AllRings
      /\ \A d \in Cores : ring'[d].used = ring[d].used
      /\ \A d \in Cores \ {c} : ring'[d].avail = ring[d].avail
      /\ Adds(ring'[c].avail, ring[c].avail, w)
  BY SMT, <1>0, Enqueued
<1>3. /\ th' \in [Workers -> Threads]
      /\ \A v \in Workers \ {w} : th'[v] = th[v]
      /\ th'[w].pc = c /\ th'[w].blocked_on = c /\ ~th'[w].timed_out
      /\ ~th'[w].woken /\ th'[w].id = ids + 1
      /\ cur' = MAIN /\ UNCHANGED <<main, held, engine>>
  BY SMT, <1>0, Enqueued
<1>4. TypeOK'
  BY <1>1, <1>2, <1>3 DEF Inv, TypeOK, AllRings
<1>5. /\ \A d \in Cores, x \in Slots : task[d][x].id \in Nat /\ task[d][x].id <= ids
      /\ \A v \in Workers : th[v].id \in Nat /\ th[v].id <= ids
  BY SMT, IdsNat DEF Inv, TypeOK, Traffic, Tasks, Threads
<1>6. Traffic'
  <2>1. ASSUME NEW d \in Cores
        PROVE  /\ Unread(ring'[d].avail) \subseteq Slots /\ Unread(ring'[d].used) \subseteq Slots
               /\ DUMP \in Unread(ring'[d].avail) \cup Unread(ring'[d].used)
                  => d = "fil" /\ late # {}
    BY <1>0, <1>2, Sizes DEF Inv, Traffic, Adds
  <2>2. ASSUME NEW d \in Cores
        PROVE  /\ \A x \in Workers : task'[d][x].opaque \in {x, NONE}
               /\ task'[d][DUMP].opaque \in late \cup {NONE}
    BY SMT, <1>1, Sizes DEF Inv, Traffic, Slots
  <2>3. ASSUME NEW d \in Cores, NEW x \in Slots PROVE task'[d][x].id <= ids'
    BY SMT, <1>0, <1>1, <1>5
  <2>4. \A v \in Workers : th'[v].id <= ids'
    BY SMT, <1>0, <1>3, <1>5
  <2> QED BY <2>1, <2>2, <2>3, <2>4 DEF Traffic
<1>7. ASSUME NEW v \in Workers \ late, v # w PROVE Good(v)'
  <2>1. ASSUME NEW d \in Cores
        PROVE  /\ InAvail(v, d)' => InAvail(v, d)
               /\ InHelper(v, d)' => InHelper(v, d)
               /\ InUsed(v, d)' => InUsed(v, d)
               /\ Once(ring[d].avail, v) => Once(ring[d].avail, v)'
               /\ task'[d][v] = task[d][v]
    BY <1>1, <1>2, <1>3, <1>7 DEF InAvail, InHelper, InUsed, Slots, Adds
  <2>2. ASSUME th[v].pc # "idle", NEW d \in Cores, NEW x \in Workers \ {v}
        PROVE  task'[d][x].id # th[v].id
    <3>1. task[d][x].id # th[v].id /\ x \in Slots
      BY <2>2, GoodNow, Numbered DEF Slots
    <3> QED BY SMT, <1>0, <1>1, <1>5, <3>1
  <2>3. th'[v] = th[v] /\ cur' # v /\ cur # v
    BY <1>3, <1>7, Sizes
  <2> QED BY <2>1, <2>2, <2>3, Frame
<1>8. ASSUME w \notin late PROVE Good(w)'
  <2>1. Gone(w)
    BY <1>8, GoodNow, Nowhere
  <2>2. \A d \in Cores : ~InHelper(w, d)' /\ ~InUsed(w, d)' /\ Once(ring[d].avail, w)'
                         /\ (InAvail(w, d)' => d = c)
    BY <1>2, <1>3, <2>1 DEF Gone, InAvail, InHelper, InUsed, Adds
  <2>3. \A d \in Cores, x \in Workers \ {w} : task'[d][x].id # th'[w].id
    BY SMT, <1>0, <1>1, <1>3, <1>5 DEF Slots
  <2>4. cur' # w
    BY <1>3, Sizes
  <2> QED BY <1>1, <1>3, <2>2, <2>3, <2>4, SleepingGood
<1> QED BY <1>4, <1>6, <1>7, <1>8 DEF Inv

LEMMA SubmitFlashKeeps == ASSUME Inv, NEW w \in Workers, SubmitFlash(w) PROVE Inv'
<1>1. late = {} => w \notin held
  <2>1. late = {} => Gone(w)
    BY GoodNow, Nowhere DEF SubmitFlash
  <2> QED BY <2>1 DEF Gone, InHelper, Cores
<1>2. failed' \in BOOLEAN /\ (late = {} => ~failed')
  <2>1. failed' = (w \in held) /\ UNCHANGED late
    BY DEF SubmitFlash
  <2>2. CASE w \in held
    BY <1>1, <2>1, <2>2
  <2>3. CASE w \notin held
    <3>1. (w \in held) = FALSE
      BY SMT, <2>3
    <3>2. failed' = FALSE
      BY <2>1, <3>1
    <3> QED BY <3>2
  <2> QED BY <2>2, <2>3
<1> QED BY <1>2, SubmitKeeps DEF SubmitFlash, Cores

LEMMA SubmitEccKeeps == ASSUME Inv, NEW w \in Workers, SubmitEcc(w) PROVE Inv'
<1>1. late = {} => w # engine /\ w \notin Unread(ring["ecc"].used)
  <2>1. late = {} => Gone(w)
    BY GoodNow, Nowhere DEF SubmitEcc
  <2> QED BY <2>1 DEF Gone, InHelper, InUsed, Cores
<1>2. failed' \in BOOLEAN /\ (late = {} => ~failed')
  BY <1>1 DEF SubmitEcc
<1> QED BY <1>2, SubmitKeeps DEF SubmitEcc, Cores

\* dump_fil: the worker that timed out queues the shared slot.
LEMMA DumpKeeps ==
  ASSUME Inv, NEW w \in Workers, w \in late, cur = w, Enqueue(w, "fil", DUMP, "dump", 0),
         UNCHANGED <<ids, outcome, late, failed>>
  PROVE  Inv'
<1>0. DUMP \in Slots /\ "fil" \in Cores /\ ids \in Nat
  BY IdsNat DEF Slots, Cores, Inv
<1>1. /\ task' \in [Cores -> [Slots -> Tasks]]
      /\ task'["fil"][DUMP].id = 0 /\ task'["fil"][DUMP].opaque = w
      /\ \A d \in Cores, x \in Slots : d # "fil" \/ x # DUMP => task'[d][x] = task[d][x]
  BY SMT, <1>0, Enqueued
<1>2. /\ ring' \in AllRings
      /\ \A d \in Cores : ring'[d].used = ring[d].used
      /\ \A d \in Cores \ {"fil"} : ring'[d].avail = ring[d].avail
      /\ Adds(ring'["fil"].avail, ring["fil"].avail, DUMP)
  BY SMT, <1>0, Enqueued
<1>3. /\ th' \in [Workers -> Threads]
      /\ \A v \in Workers \ {w} : th'[v] = th[v]
      /\ th'[w].id = 0 /\ cur' = MAIN /\ UNCHANGED <<main, held, engine>>
  BY SMT, <1>0, Enqueued
<1>4. TypeOK'
  BY <1>1, <1>2, <1>3 DEF Inv, TypeOK, AllRings
<1>5. \A d \in Cores, x \in Workers : task'[d][x] = task[d][x]
  BY <1>1, Sizes DEF Slots
<1>6. Traffic'
  <2>1. ASSUME NEW d \in Cores
        PROVE  /\ Unread(ring'[d].avail) \subseteq Slots /\ Unread(ring'[d].used) \subseteq Slots
               /\ DUMP \in Unread(ring'[d].avail) \cup Unread(ring'[d].used)
                  => d = "fil" /\ late # {}
    BY <1>0, <1>2 DEF Inv, Traffic, Adds
  <2>2. ASSUME NEW d \in Cores
        PROVE  /\ \A x \in Workers : task'[d][x].opaque \in {x, NONE}
               /\ task'[d][DUMP].opaque \in late \cup {NONE}
    BY <1>0, <1>1, <1>5 DEF Inv, Traffic
  <2>3. ASSUME NEW d \in Cores, NEW x \in Slots PROVE task'[d][x].id <= ids
    BY SMT, <1>0, <1>1 DEF Inv, Traffic
  <2>4. \A v \in Workers : th'[v].id <= ids
    BY SMT, <1>0, <1>3 DEF Inv, Traffic
  <2>5. late = {} => ~failed
    BY DEF Inv, Traffic
  <2> QED BY <2>1, <2>2, <2>3, <2>4, <2>5 DEF Traffic
<1>7. ASSUME NEW v \in Workers \ late PROVE Good(v)'
  <2>1. ASSUME NEW d \in Cores
        PROVE  /\ InAvail(v, d)' => InAvail(v, d)
               /\ InHelper(v, d)' => InHelper(v, d)
               /\ InUsed(v, d)' => InUsed(v, d)
               /\ Once(ring[d].avail, v) => Once(ring[d].avail, v)'
    BY SMT, <1>2, <1>3, Sizes DEF InAvail, InHelper, InUsed, Adds
  <2>2. th[v].pc # "idle" =>
           \A d \in Cores, x \in Workers \ {v} : task'[d][x].id # th[v].id
    BY SMT, <1>5, GoodNow, Numbered
  <2>3. th'[v] = th[v] /\ cur' # v /\ cur # v
    BY <1>3, Sizes
  <2> QED BY <1>5, <2>1, <2>2, <2>3, Frame
<1> QED BY <1>4, <1>6, <1>7 DEF Inv

LEMMA FlashWaitedKeeps == ASSUME Inv, NEW w \in Workers, FlashWaited(w) PROVE Inv'
<1>1. CASE th[w].timed_out /\ Enqueue(w, "fil", DUMP, "dump", 0)
  <2>1. w \in late
    BY <1>1, GoodNow, Prompt
  <2> QED BY <1>1, <2>1, DumpKeeps DEF FlashWaited
<1>2. CASE /\ ~th[w].timed_out
           /\ th' = [th EXCEPT ![w].pc = "returned", ![w].result = task["fil"][w].status]
           /\ UNCHANGED <<cur, main, task, ring, held, engine>>
  BY <1>2, ResultKeeps DEF FlashWaited, Cores
<1> QED BY <1>1, <1>2 DEF FlashWaited


----------------------------------------------------------------------------
(* The main loop                                                           *)

\* An answer that is polled is for the worker whose task it is, or for one that has
\* timed out.
LEMMA PolledOwn ==
  ASSUME Inv, NEW c \in Cores, NEW v \in Workers \ late, v \in Owners(c, Unread(ring[c].used))
  PROVE  InUsed(v, c)
<1>1. PICK s \in Unread(ring[c].used) : v = task[c][s].opaque
  BY DEF Owners
<1>2. s \in Slots /\ v # NONE
  BY Sizes DEF Inv, Traffic, Slots
<1>3. s \in Workers
  BY <1>1, <1>2 DEF Inv, Traffic, Slots
<1> QED BY <1>1, <1>2, <1>3 DEF Inv, Traffic, InUsed

LEMMA PollKeeps == ASSUME Inv, NEW c \in Cores, Poll(c) PROVE Inv'
<1> DEFINE polled == Unread(ring[c].used)
<1>0. UNCHANGED <<cur, task, held, engine, ids, outcome, late>>
  BY DEF Poll
<1>1. /\ ring' \in AllRings /\ Unread(ring'[c].used) = {}
      /\ \A d \in Cores : ring'[d].avail = ring[d].avail
      /\ \A d \in Cores \ {c} : ring'[d].used = ring[d].used
  <2>1. ring \in AllRings /\ ring[c].used \in Rings(UsedNum)
    BY DEF Inv, TypeOK, AllRings
  <2>2. RingGetAll(ring[c].used) \in Rings(UsedNum) /\ Unread(RingGetAll(ring[c].used)) = {}
    BY <2>1, RingGetsAll, Sizes
  <2>3. ring' = [ring EXCEPT ![c].used = RingGetAll(ring[c].used)]
    BY <2>1 DEF Poll, AllRings
  <2> QED BY <2>1, <2>2, <2>3, SetUsed
<1>2. ASSUME NEW v \in Workers
      PROVE  /\ th'[v] \in Threads /\ th'[v].pc = th[v].pc /\ th'[v].id = th[v].id
             /\ th'[v].timed_out = th[v].timed_out /\ th'[v].blocked_on = th[v].blocked_on
             /\ th'[v].result = th[v].result
             /\ \/ th'[v] = th[v]
                \/ v \in Owners(c, polled) /\ th[v].blocked_on = c /\ th'[v].woken
  <2>1. th'[v] = IF v \in Owners(c, polled) /\ th[v].blocked_on = c
                 THEN [th[v] EXCEPT !.woken = TRUE] ELSE th[v]
    BY DEF Poll, Wakes
  <2>2. th[v] \in Threads
    BY DEF Inv, TypeOK
  <2> QED BY <2>1, <2>2 DEF Threads
<1>3. TypeOK'
  <2>1. th' \in [Workers -> Threads]
    <3>1. th' = [w \in Workers |-> th'[w]]
      BY DEF Poll
    <3> QED BY <1>2, <3>1
  <2>2. main' \in {"wfe", "poll_fil", "poll_ecc", "yield"} /\ failed' \in BOOLEAN
    BY DEF Poll
  <2> QED BY <1>0, <1>1, <2>1, <2>2 DEF Inv, TypeOK, AllRings
<1>4. ASSUME late = {} PROVE ~failed'
  <2>1. ASSUME NEW s \in polled PROVE task[c][s].completed /\ (c = "ecc" => OnStack(s))
    <3>1. s \in Workers \ late
      BY <1>4, <2>1 DEF Inv, Traffic, Slots
    <3>2. Good(s) /\ InUsed(s, c)
      BY <2>1, <3>1 DEF Inv, InUsed
    <3> QED BY <3>2 DEF Good, In, Answered, OnStack
  <2> QED BY <2>1 DEF Poll
<1>5. Traffic'
  <2>1. ASSUME NEW d \in Cores
        PROVE  /\ Unread(ring'[d].avail) \subseteq Slots /\ Unread(ring'[d].used) \subseteq Slots
               /\ DUMP \in Unread(ring'[d].avail) \cup Unread(ring'[d].used)
                  => d = "fil" /\ late # {}
    BY <1>1 DEF Inv, Traffic
  <2> QED BY <1>0, <1>2, <1>4, <2>1 DEF Inv, Traffic
<1>6. ASSUME NEW v \in Workers \ late PROVE Good(v)'
  <2>0. Good(v)
    BY DEF Inv
  <2>1. ASSUME NEW d \in Cores
        PROVE  /\ InAvail(v, d)' = InAvail(v, d)
               /\ InHelper(v, d)' = InHelper(v, d)
               /\ InUsed(v, d)' => InUsed(v, d) /\ d # c
               /\ Once(ring[d].avail, v)' = Once(ring[d].avail, v)
    BY <1>0, <1>1 DEF InAvail, InHelper, InUsed
  <2>2. CASE th'[v] = th[v]
    <3>1. th[v].pc # "idle" =>
             \A d \in Cores, x \in Workers \ {v} : task'[d][x].id # th[v].id
      BY <1>0, <2>0 DEF Good
    <3> QED BY <1>0, <2>1, <2>2, <3>1, Frame
  <2>3. CASE v \in Owners(c, polled) /\ th[v].blocked_on = c /\ th'[v].woken
    <3>1. InUsed(v, c)
      BY <2>3, PolledOwn
    <3>2. /\ th[v].pc = c /\ cur # v /\ Answered(v, c)
          /\ \A d \in Cores : ~InAvail(v, d) /\ ~InHelper(v, d) /\ (InUsed(v, d) => d = c)
      BY <2>0, <3>1 DEF Good, In
    <3>3. \A d \in Cores : ~In(v, d)' /\ ~InAvail(v, d)' /\ ~InHelper(v, d)'
                           /\ Once(ring[d].avail, v)'
      BY <2>0, <2>1, <3>2 DEF In, Good
    <3>4. Answered(v, c)'
      BY <1>0, <1>2, <3>2 DEF Answered
    <3> QED BY <1>0, <1>2, <2>0, <2>3, <3>2, <3>3, <3>4, WokenGood
  <2> QED BY <1>2, <2>2, <2>3
<1> QED BY <1>0, <1>3, <1>5, <1>6 DEF Inv

----------------------------------------------------------------------------
(* The helper cores                                                        *)

\* Ring r is ring q without its first element e.
Takes(r, q, e) ==
    /\ e \in Unread(q) /\ Unread(r) \subseteq Unread(q)
    /\ \A w \in Workers : Once(q, w) => Once(r, w) /\ (w = e => w \notin Unread(r))

LEMMA RingTakes ==
  ASSUME ring \in AllRings, NEW c \in Cores, RingHas(ring[c].avail)
  PROVE  /\ RingGet(ring[c].avail) \in Rings(AvailNum)
         /\ Takes(RingGet(ring[c].avail), ring[c].avail, RingHead(ring[c].avail))
<1>1. ring[c].avail \in Rings(AvailNum)
  BY DEF AllRings
<1> QED BY <1>1, RingGets, Sizes DEF Takes

\* A helper core takes the task of worker s off the avail ring.
TakeStep(c, s) ==
    /\ Takes(ring'[c].avail, ring[c].avail, s)
    /\ ring' \in AllRings /\ \A d \in Cores \ {c} : ring'[d].avail = ring[d].avail
    /\ \A d \in Cores : ring'[d].used = ring[d].used
    /\ held' \subseteq Workers /\ engine' \in Workers \cup {NONE}
    /\ \A v \in Workers, d \in Cores : InHelper(v, d)' => InHelper(v, d) \/ (v = s /\ d = c)
    /\ UNCHANGED <<cur, main, th, task, ids, outcome, late, failed>>

LEMMA TakeMoves ==
  ASSUME NEW c \in Cores, NEW s \in Workers, TakeStep(c, s), NEW v \in Workers, NEW d \in Cores,
         Once(ring[d].avail, v)
  PROVE  /\ InAvail(v, d)' => InAvail(v, d)
         /\ InUsed(v, d)' = InUsed(v, d)
         /\ Once(ring[d].avail, v)'
         /\ v = s /\ d = c => InAvail(v, d) /\ ~InAvail(v, d)'
<1>1. ring'[d].used = ring[d].used
  BY DEF TakeStep
<1>2. CASE d = c
  <2>1. Takes(ring'[d].avail, ring[d].avail, s)
    BY <1>2 DEF TakeStep
  <2> QED BY <1>1, <2>1 DEF Takes, InAvail, InUsed
<1>3. CASE d # c
  <2>1. ring'[d].avail = ring[d].avail
    BY <1>3 DEF TakeStep
  <2> QED BY <1>1, <1>3, <2>1 DEF InAvail, InUsed
<1> QED BY <1>2, <1>3

LEMMA TakeLeaves ==
  ASSUME NEW c \in Cores, NEW s \in Workers, TakeStep(c, s)
  PROVE  /\ cur' = cur /\ th' = th /\ task' = task /\ ids' = ids /\ late' = late
         /\ outcome' = outcome /\ failed' = failed
         /\ \A v \in Workers, d \in Cores : InHelper(v, d)' => InHelper(v, d) \/ (v = s /\ d = c)
BY DEF TakeStep

LEMMA TakeKeepsOther ==
  ASSUME Inv, NEW c \in Cores, NEW s \in Workers, TakeStep(c, s),
         NEW v \in Workers \ late, v # s
  PROVE  Good(v)'
<1>1. Good(v)
  BY GoodNow
<1>2. ASSUME NEW d \in Cores
      PROVE  /\ InAvail(v, d)' => InAvail(v, d)
             /\ InHelper(v, d)' => InHelper(v, d)
             /\ InUsed(v, d)' => InUsed(v, d)
             /\ Once(ring[d].avail, v) => Once(ring[d].avail, v)'
  BY <1>1, AvailOnce, TakeMoves, TakeLeaves
<1>3. th[v].pc # "idle" => \A d \in Cores, x \in Workers \ {v} : task[d][x].id # th[v].id
  BY <1>1, Numbered
<1>4. cur' = cur /\ th' = th /\ task' = task /\ outcome' = outcome
  BY TakeLeaves
<1> QED BY <1>2, <1>3, <1>4, Frame

LEMMA TakeKeepsOwn ==
  ASSUME NEW c \in Cores, NEW s \in Workers, TakeStep(c, s), Good(s)
  PROVE  Good(s)'
<1>1. ASSUME NEW d \in Cores
      PROVE  /\ InAvail(s, d)' => InAvail(s, d)
             /\ InUsed(s, d)' = InUsed(s, d)
             /\ Once(ring[d].avail, s)' /\ (d = c => InAvail(s, d) /\ ~InAvail(s, d)')
  BY AvailOnce, TakeMoves
<1>2. /\ th[s].pc = c /\ cur # s /\ ~th[s].woken
      /\ \A d \in Cores : ~InHelper(s, d) /\ ~InUsed(s, d) /\ (InAvail(s, d) => d = c)
  BY <1>1, Sent
<1>3. \A d \in Cores : ~InAvail(s, d)' /\ ~InUsed(s, d)' /\ (InHelper(s, d)' => d = c)
  BY <1>1, <1>2, TakeLeaves
<1>4. \A d \in Cores : In(s, d)' => d = c
  BY <1>3 DEF In
<1>5. cur' = cur /\ th' = th /\ task' = task
  BY TakeLeaves
<1> QED BY <1>1, <1>2, <1>3, <1>4, <1>5, MovedGood

LEMMA TakeKeeps == ASSUME Inv, NEW c \in Cores, NEW s \in Workers, TakeStep(c, s) PROVE Inv'
<1>1. TypeOK'
  BY DEF Inv, TypeOK, AllRings, TakeStep
<1>2. Traffic'
  <2>1. \A d \in Cores : /\ Unread(ring'[d].avail) \subseteq Unread(ring[d].avail)
                         /\ ring'[d].used = ring[d].used
    BY DEF Takes, TakeStep
  <2>2. Traffic /\ (late = {} => ~failed)
    BY DEF Inv, Traffic
  <2> QED BY <2>1, <2>2, TakeLeaves, TrafficFits
<1>3. late' = late
  BY TakeLeaves
<1>4. ASSUME NEW v \in Workers \ late PROVE Good(v)'
  BY GoodNow, TakeKeepsOther, TakeKeepsOwn
<1> QED BY <1>1, <1>2, <1>3, <1>4 DEF Inv

LEMMA EccTakeKeeps == ASSUME Inv, EccTake PROVE Inv'
<1> DEFINE s == RingHead(ring["ecc"].avail)
<1>0. ring \in AllRings /\ "ecc" \in Cores /\ RingHas(ring["ecc"].avail)
  BY DEF Inv, TypeOK, AllRings, Cores, EccTake
<1>1. /\ RingGet(ring["ecc"].avail) \in Rings(AvailNum)
      /\ Takes(RingGet(ring["ecc"].avail), ring["ecc"].avail, s)
  BY <1>0, RingTakes
<1>2. /\ ring' \in AllRings /\ ring'["ecc"].avail = RingGet(ring["ecc"].avail)
      /\ ring'["ecc"].used = ring["ecc"].used
      /\ \A d \in Cores \ {"ecc"} : ring'[d] = ring[d]
  <2>1. ring' = [ring EXCEPT !["ecc"].avail = RingGet(ring["ecc"].avail)]
    BY DEF EccTake
  <2> QED BY <1>0, <1>1, <2>1, SetAvail
<1>3. s \in Workers
  BY <1>0, <1>1 DEF Takes, Inv, Traffic, Slots
<1>4. engine' = s /\ UNCHANGED <<cur, main, th, task, held, ids, outcome, late, failed>>
  BY DEF EccTake
<1>5. PICK w \in Workers : w = s
  BY <1>3
<1> HIDE DEF s
<1>6. ASSUME NEW v \in Workers, NEW d \in Cores, InHelper(v, d)'
      PROVE  InHelper(v, d) \/ (v = w /\ d = "ecc")
  BY <1>4, <1>5, <1>6 DEF InHelper, Cores
<1>7. /\ Takes(ring'["ecc"].avail, ring["ecc"].avail, w)
      /\ \A d \in Cores \ {"ecc"} : ring'[d].avail = ring[d].avail
      /\ \A d \in Cores : ring'[d].used = ring[d].used
      /\ held' \subseteq Workers /\ engine' \in Workers \cup {NONE}
  BY <1>1, <1>2, <1>4, <1>5 DEF Inv, TypeOK
<1>8. TakeStep("ecc", w)
  BY <1>2, <1>4, <1>6, <1>7 DEF TakeStep
<1> QED BY <1>0, <1>8, TakeKeeps

\* A task that is answered, and the shared slot, of which only the completion is said.
Completed(x) == [x EXCEPT !.completed = TRUE]
CompletedWith(x, y) == [x EXCEPT !.completed = TRUE, !.status = y]

LEMMA CompletedTask ==
  ASSUME NEW x \in Tasks
  PROVE  Completed(x) \in Tasks /\ Completed(x).id = x.id /\ Completed(x).opaque = x.opaque
BY DEF Tasks, Completed

LEMMA CompletedWithTask ==
  ASSUME NEW x \in Tasks, NEW y \in {"ok", "error"}
  PROVE  /\ CompletedWith(x, y) \in Tasks /\ CompletedWith(x, y).id = x.id
         /\ CompletedWith(x, y).opaque = x.opaque
         /\ CompletedWith(x, y).completed /\ CompletedWith(x, y).status = y
BY DEF Tasks, CompletedWith

LEMMA FilTakeKeeps == ASSUME Inv, FilTake PROVE Inv'
<1> DEFINE q == ring["fil"].avail
           s == RingHead(q)
<1>0. /\ ring \in AllRings /\ "fil" \in Cores /\ RingHas(q) /\ DUMP \in Slots
      /\ UNCHANGED <<cur, main, th, engine, ids, outcome, late, failed>>
  BY DEF Inv, TypeOK, AllRings, Cores, Slots, FilTake
<1>1. RingGet(q) \in Rings(AvailNum) /\ Takes(RingGet(q), q, s)
  BY <1>0, RingTakes
<1>2. s \in Slots /\ (s = DUMP => late # {})
  BY <1>0, <1>1 DEF Takes, Inv, Traffic
<1>3. CASE s # DUMP
  <2>1. ring' = [ring EXCEPT !["fil"].avail = RingGet(q)] /\ held' = held \cup {s} /\ task' = task
    BY <1>3 DEF FilTake
  <2>2. /\ ring' \in AllRings /\ ring'["fil"].avail = RingGet(q)
        /\ ring'["fil"].used = ring["fil"].used
        /\ \A d \in Cores \ {"fil"} : ring'[d] = ring[d]
    BY <1>0, <1>1, <2>1, SetAvail
  <2>3. PICK w \in Workers : w = s
    BY <1>2, <1>3 DEF Slots
  <2> HIDE DEF s
  <2>4. ASSUME NEW v \in Workers, NEW d \in Cores, InHelper(v, d)'
        PROVE  InHelper(v, d) \/ (v = w /\ d = "fil")
    BY <1>0, <2>1, <2>3, <2>4 DEF InHelper, Cores
  <2>5. /\ Takes(ring'["fil"].avail, ring["fil"].avail, w)
        /\ \A d \in Cores \ {"fil"} : ring'[d].avail = ring[d].avail
        /\ \A d \in Cores : ring'[d].used = ring[d].used
        /\ held' \subseteq Workers /\ engine' \in Workers \cup {NONE}
    BY <1>0, <1>1, <2>1, <2>2, <2>3 DEF Inv, TypeOK
  <2>6. UNCHANGED <<cur, main, th, task, ids, outcome, late, failed>>
    BY <1>0, <2>1
  <2>7. TakeStep("fil", w)
    BY <2>2, <2>4, <2>5, <2>6 DEF TakeStep
  <2> QED BY <1>0, <2>7, TakeKeeps
<1>4. CASE s = DUMP
  <2>1. /\ task' = [task EXCEPT !["fil"][DUMP].completed = TRUE]
        /\ ring' = [ring EXCEPT !["fil"] = [avail |-> RingGet(q),
                                            used |-> RingAdd(ring["fil"].used, DUMP)]]
        /\ held' = held
    BY <1>0, <1>4 DEF FilTake, AllRings
  <2>2. /\ RingAdd(ring["fil"].used, DUMP) \in Rings(UsedNum)
        /\ Adds(RingAdd(ring["fil"].used, DUMP), ring["fil"].used, DUMP)
    <3>1. ring["fil"].used \in Rings(UsedNum)
      BY <1>0 DEF AllRings
    <3> QED BY <1>0, <3>1, RingAdds, Sizes
  <2>3. /\ ring' \in AllRings /\ ring'["fil"].avail = RingGet(q)
        /\ ring'["fil"].used = RingAdd(ring["fil"].used, DUMP)
        /\ \A d \in Cores \ {"fil"} : ring'[d] = ring[d]
    BY <1>0, <1>1, <2>1, <2>2 DEF AllRings
  <2>4. /\ task' \in [Cores -> [Slots -> Tasks]]
        /\ \A d \in Cores, x \in Slots : /\ task'[d][x].id = task[d][x].id
                                         /\ task'[d][x].opaque = task[d][x].opaque
                                         /\ x # DUMP => task'[d][x] = task[d][x]
    <3>1. task["fil"][DUMP] \in Tasks
      BY SMT, <1>0 DEF Inv, TypeOK
    <3>2. PICK t \in Tasks : t = Completed(task["fil"][DUMP])
      BY <3>1, CompletedTask
    <3>3. t.id = task["fil"][DUMP].id /\ t.opaque = task["fil"][DUMP].opaque
      BY <3>1, <3>2, CompletedTask
    <3>4. task' = [task EXCEPT !["fil"][DUMP] = t]
      BY <1>0, <2>1, <3>2 DEF Inv, TypeOK, Completed
    <3> QED BY <1>0, <3>3, <3>4 DEF Inv, TypeOK
  <2>5. TypeOK'
    BY <1>0, <2>1, <2>3, <2>4 DEF Inv, TypeOK, AllRings
  <2>6. ASSUME NEW d \in Cores
        PROVE  /\ Unread(ring'[d].avail) \subseteq Unread(ring[d].avail)
               /\ Unread(ring'[d].used) \subseteq Unread(ring[d].used) \cup {DUMP}
               /\ d # "fil" => Unread(ring'[d].used) = Unread(ring[d].used)
               /\ \A v \in Workers : Once(ring[d].avail, v) => Once(ring'[d].avail, v)
    BY <1>1, <2>2, <2>3 DEF Takes, Adds
  <2>7. Traffic'
    <3>1. \A d \in Cores : Unread(ring'[d].avail) \cup Unread(ring'[d].used)
                             \subseteq Unread(ring[d].avail) \cup Unread(ring[d].used) \cup Fit(d)
      BY <1>0, <1>2, <1>4, <2>6 DEF Fit
    <3>2. Traffic /\ (late = {} => ~failed)
      BY DEF Inv, Traffic
    <3> QED BY <1>0, <2>4, <3>1, <3>2, TrafficFits
  <2>8. ASSUME NEW v \in Workers \ late PROVE Good(v)'
    <3>1. \A d \in Cores, x \in Workers : task'[d][x] = task[d][x]
      BY <2>4, Sizes DEF Slots
    <3>2. ASSUME NEW d \in Cores
          PROVE  /\ InAvail(v, d)' => InAvail(v, d)
                 /\ InHelper(v, d)' => InHelper(v, d)
                 /\ InUsed(v, d)' => InUsed(v, d)
                 /\ Once(ring[d].avail, v) => Once(ring[d].avail, v)'
      BY <1>0, <2>1, <2>6, Sizes DEF InAvail, InHelper, InUsed
    <3>3. th[v].pc # "idle" =>
             \A d \in Cores, x \in Workers \ {v} : task'[d][x].id # th[v].id
      <4>1. Good(v)
        BY DEF Inv
      <4> QED BY SMT, <3>1, <4>1, Numbered
    <3> QED BY <1>0, <3>1, <3>2, <3>3, Frame
  <2> QED BY <1>0, <2>5, <2>7, <2>8 DEF Inv
<1> QED BY <1>3, <1>4

\* A helper core answers the task of worker s.
AnswerStep(c, s, status) ==
    /\ Answer(c, s, status)
    /\ held' \subseteq Workers /\ engine' \in Workers \cup {NONE}
    /\ \A v \in Workers, d \in Cores : InHelper(v, d)' => InHelper(v, d) /\ ~(v = s /\ d = c)
    /\ failed' \in BOOLEAN /\ (late = {} => ~failed')
    /\ UNCHANGED <<cur, main, th, ids, late>>

LEMMA AnswerRings ==
  ASSUME TypeOK, NEW c \in Cores, NEW s \in Workers, NEW status \in {"ok", "error"},
         Answer(c, s, status)
  PROVE  /\ ring' \in AllRings /\ Adds(ring'[c].used, ring[c].used, s)
         /\ \A d \in Cores : ring'[d].avail = ring[d].avail
         /\ \A d \in Cores \ {c} : ring'[d].used = ring[d].used
<1>1. s \in Slots /\ ring \in AllRings
  BY DEF Slots, TypeOK, AllRings
<1>2. ring[c].used \in Rings(UsedNum)
  BY <1>1 DEF AllRings
<1>3. /\ RingAdd(ring[c].used, s) \in Rings(UsedNum)
      /\ Adds(RingAdd(ring[c].used, s), ring[c].used, s)
  BY <1>1, <1>2, RingAdds, Sizes
<1>4. ring' = [ring EXCEPT ![c].used = RingAdd(ring[c].used, s)]
  BY <1>1 DEF Answer, AllRings
<1> QED BY <1>1, <1>3, <1>4, SetUsed

LEMMA AnswerTasks ==
  ASSUME TypeOK, NEW c \in Cores, NEW s \in Workers, NEW status \in {"ok", "error"},
         Answer(c, s, status)
  PROVE  /\ task' \in [Cores -> [Slots -> Tasks]]
         /\ task'[c][s].completed /\ task'[c][s].status = status
         /\ \A d \in Cores, x \in Slots : /\ task'[d][x].id = task[d][x].id
                                          /\ task'[d][x].opaque = task[d][x].opaque
                                          /\ d # c \/ x # s => task'[d][x] = task[d][x]
<1>0. s \in Slots /\ task \in [Cores -> [Slots -> Tasks]]
  BY DEF Slots, TypeOK
<1>1. task[c][s] \in Tasks
  BY <1>0
<1>2. PICK t \in Tasks : t = CompletedWith(task[c][s], status)
  BY <1>1, CompletedWithTask
<1>3. /\ t.id = task[c][s].id /\ t.opaque = task[c][s].opaque
      /\ t.completed /\ t.status = status
  BY <1>1, <1>2, CompletedWithTask
<1>4. task' = [task EXCEPT ![c][s] = t]
  BY <1>0, <1>2 DEF Answer, CompletedWith
<1> QED BY <1>0, <1>3, <1>4

LEMMA AnswerOutcome ==
  ASSUME TypeOK, NEW c \in Cores, NEW s \in Workers, NEW status \in {"ok", "error"},
         Answer(c, s, status)
  PROVE  /\ outcome' \in [Ids -> {"none", "ok", "error"}]
         /\ \A i \in Ids : outcome'[i] = IF i = task[c][s].id THEN status ELSE outcome[i]
BY DEF Answer, TypeOK

LEMMA AnswerLeaves ==
  ASSUME TypeOK, NEW c \in Cores, NEW s \in Workers, NEW status, AnswerStep(c, s, status)
  PROVE  /\ Answer(c, s, status)
         /\ cur' = cur /\ th' = th /\ ids' = ids /\ late' = late
         /\ \A v \in Workers, d \in Cores :
               InHelper(v, d)' => InHelper(v, d) /\ ~(v = s /\ d = c)
BY DEF AnswerStep

LEMMA AnswerMoves ==
  ASSUME TypeOK, NEW c \in Cores, NEW s \in Workers, NEW status \in {"ok", "error"},
         Answer(c, s, status), NEW v \in Workers, NEW d \in Cores
  PROVE  /\ InAvail(v, d)' = InAvail(v, d)
         /\ InUsed(v, d)' => InUsed(v, d) \/ (v = s /\ d = c)
         /\ Once(ring[d].avail, v)' = Once(ring[d].avail, v)
<1>1. /\ ring'[d].avail = ring[d].avail
      /\ Unread(ring'[d].used) \subseteq Unread(ring[d].used) \cup {x \in {s} : d = c}
  BY SMT, AnswerRings DEF Adds
<1> QED BY <1>1 DEF InAvail, InUsed

LEMMA AnswerKeepsOther ==
  ASSUME Inv, NEW c \in Cores, NEW s \in Workers, NEW status \in {"ok", "error"},
         AnswerStep(c, s, status), NEW v \in Workers \ late, v # s
  PROVE  Good(v)'
<1>1. Good(v) /\ TypeOK
  BY GoodNow DEF Inv
<1>2. cur' = cur /\ th' = th /\ Answer(c, s, status)
  BY <1>1, AnswerLeaves
<1>3. ASSUME NEW d \in Cores
      PROVE  /\ InAvail(v, d)' => InAvail(v, d)
             /\ InHelper(v, d)' => InHelper(v, d)
             /\ InUsed(v, d)' => InUsed(v, d)
             /\ Once(ring[d].avail, v) => Once(ring[d].avail, v)'
  BY SMT, <1>1, <1>2, AnswerMoves, AnswerLeaves
<1>4. /\ \A d \in Cores : task'[d][v] = task[d][v]
      /\ \A d \in Cores, x \in Workers : task'[d][x].id = task[d][x].id
  BY SMT, <1>1, <1>2, AnswerTasks DEF Slots
<1>5. ASSUME th[v].pc # "idle"
      PROVE  /\ outcome'[th[v].id] = outcome[th[v].id]
             /\ \A d \in Cores, x \in Workers \ {v} : task'[d][x].id # th[v].id
  <2>1. /\ th[v].id \in Ids
        /\ \A d \in Cores, x \in Workers \ {v} : task[d][x].id # th[v].id
    BY <1>1, <1>5, Numbered
  <2>2. outcome'[th[v].id] = outcome[th[v].id]
    BY SMT, <1>1, <1>2, <2>1, AnswerOutcome
  <2> QED BY SMT, <1>4, <2>1, <2>2
<1> QED BY <1>2, <1>3, <1>4, <1>5, Frame

LEMMA AnswerKeepsOwn ==
  ASSUME TypeOK, NEW c \in Cores, NEW s \in Workers, NEW status \in {"ok", "error"},
         AnswerStep(c, s, status), InHelper(s, c), Good(s)
  PROVE  Good(s)'
<1>0. cur' = cur /\ th' = th /\ Answer(c, s, status)
  BY AnswerLeaves
<1>1. /\ th[s].pc = c /\ cur # s /\ ~th[s].woken
      /\ \A d \in Cores : ~InAvail(s, d) /\ ~InUsed(s, d) /\ (InHelper(s, d) => d = c)
  BY Held
<1>2. \A d \in Cores : ~InAvail(s, d)' /\ ~InHelper(s, d)' /\ (InUsed(s, d)' => d = c)
                       /\ Once(ring[d].avail, s)'
  BY SMT, <1>0, <1>1, AvailOnce, AnswerMoves, AnswerLeaves
<1>3. \A d \in Cores : In(s, d)' => d = c
  BY <1>2 DEF In
<1>4. \A d \in Cores, x \in Workers : task'[d][x].id = task[d][x].id
  BY SMT, <1>0, AnswerTasks DEF Slots
<1>5. Answered(s, c)'
  <2>1. task[c][s].id = th[s].id /\ th[s].id \in Ids
    BY <1>1, TaskNumber
  <2>2. task'[c][s].completed /\ task'[c][s].status = status
    BY <1>0, AnswerTasks
  <2>3. outcome'[th[s].id] = status
    BY SMT, <1>0, <2>1, AnswerOutcome
  <2> QED BY <1>0, <2>2, <2>3 DEF Answered
<1> QED BY <1>0, <1>1, <1>2, <1>3, <1>4, <1>5, MovedGood

LEMMA AnswerKeeps ==
  ASSUME Inv, NEW c \in Cores, NEW s \in Workers, NEW status \in {"ok", "error"},
         AnswerStep(c, s, status), InHelper(s, c)
  PROVE  Inv'
<1>0. TypeOK /\ Traffic
  BY DEF Inv
<1>1. /\ cur' = cur /\ th' = th /\ ids' = ids /\ late' = late /\ Answer(c, s, status)
  BY <1>0, AnswerLeaves
<1>2. TypeOK'
  <2>1. /\ ring' \in AllRings /\ task' \in [Cores -> [Slots -> Tasks]]
        /\ outcome' \in [Ids -> {"none", "ok", "error"}]
    BY SMT, <1>0, <1>1, AnswerRings, AnswerTasks, AnswerOutcome
  <2> QED BY <1>0, <2>1 DEF TypeOK, AllRings, AnswerStep
<1>3. Traffic'
  <2>1. s \in Slots /\ s # DUMP
    BY Sizes DEF Slots
  <2>2. \A d \in Cores : /\ Unread(ring'[d].avail) = Unread(ring[d].avail)
                         /\ Unread(ring'[d].used) \subseteq Unread(ring[d].used) \cup {s}
    BY SMT, <1>0, <1>1, AnswerRings DEF Adds
  <2>3. \A d \in Cores : s \in Fit(d)
    BY <2>1 DEF Fit
  <2>4. late = {} => ~failed'
    BY DEF AnswerStep
  <2>5. \A d \in Cores, x \in Slots : /\ task'[d][x].id = task[d][x].id
                                       /\ task'[d][x].opaque = task[d][x].opaque
    BY SMT, <1>0, <1>1, AnswerTasks
  <2> QED BY <1>0, <1>1, <2>2, <2>3, <2>4, <2>5, TrafficFits
<1>4. ASSUME NEW v \in Workers \ late PROVE Good(v)'
  BY <1>0, GoodNow, AnswerKeepsOther, AnswerKeepsOwn
<1> QED BY <1>1, <1>2, <1>3, <1>4 DEF Inv

LEMMA FilAnswerKeeps == ASSUME Inv, NEW s \in Slots, FilAnswer(s) PROVE Inv'
<1>1. PICK status \in {"ok", "error"} : Answer("fil", s, status)
  BY DEF FilAnswer
<1>2. /\ s \in Workers /\ s \in held /\ held' = held \ {s} /\ "fil" \in Cores
      /\ UNCHANGED <<cur, main, th, engine, ids, late, failed>>
  BY DEF FilAnswer, Inv, TypeOK, Cores
<1>3. /\ held' \subseteq Workers /\ engine' \in Workers \cup {NONE}
      /\ failed' \in BOOLEAN /\ (late = {} => ~failed')
  BY <1>2 DEF Inv, TypeOK, Traffic
<1>4. /\ InHelper(s, "fil")
      /\ \A v \in Workers, d \in Cores :
            InHelper(v, d)' => InHelper(v, d) /\ ~(v = s /\ d = "fil")
  BY <1>2 DEF InHelper, Cores
<1>5. AnswerStep("fil", s, status)
  BY <1>1, <1>2, <1>3, <1>4 DEF AnswerStep
<1> QED BY <1>2, <1>4, <1>5, AnswerKeeps

LEMMA EccAnswerKeeps == ASSUME Inv, EccAnswer PROVE Inv'
<1>1. PICK s \in Workers : s = engine
  BY DEF EccAnswer, Inv, TypeOK
<1>2. PICK status \in {"ok", "error"} : Answer("ecc", s, status)
  BY <1>1 DEF EccAnswer
<1>3. /\ engine' = NONE /\ "ecc" \in Cores /\ UNCHANGED <<cur, main, th, held, ids, late>>
      /\ failed' = ~OnStack(s)
  BY <1>1 DEF EccAnswer, Cores
<1>4. InHelper(s, "ecc")
  BY <1>1 DEF InHelper
<1>5. late = {} => OnStack(s)
  BY <1>3, <1>4, GoodNow, Held DEF OnStack
<1>6. failed' \in BOOLEAN /\ (late = {} => ~failed')
  BY <1>3, <1>5 DEF OnStack
<1>7. held' \subseteq Workers /\ engine' \in Workers \cup {NONE}
  BY <1>3 DEF Inv, TypeOK
<1>8. \A v \in Workers, d \in Cores :
         InHelper(v, d)' => InHelper(v, d) /\ ~(v = s /\ d = "ecc")
  BY <1>3, Sizes DEF InHelper, Cores, Slots
<1>9. AnswerStep("ecc", s, status)
  BY <1>2, <1>3, <1>6, <1>7, <1>8 DEF AnswerStep
<1> QED BY <1>3, <1>4, <1>9, AnswerKeeps

LEMMA NextInv == Inv /\ [Next]_vars => Inv'
<1> SUFFICES ASSUME Inv, [Next]_vars PROVE Inv'
  OBVIOUS
<1>0. main \in {"wfe", "poll_fil", "poll_ecc", "yield"} /\ {"fil", "ecc"} = Cores
  BY DEF Inv, TypeOK, Cores
<1>1. ASSUME NEW w \in Workers, Step(w) PROVE Inv'
  BY <1>1, SubmitFlashKeeps, SubmitEccKeeps, FlashWaitedKeeps, DumpedKeeps, EccWaitedKeeps,
     ReturnKeeps, RestKeeps DEF Step
<1>2. CASE MainLoop
  <2>1. CASE WaitForEvent
    BY <2>1, WaitKeeps DEF WaitForEvent
  <2>2. CASE NoneRunnable
    BY <2>2, WaitKeeps DEF NoneRunnable
  <2> QED BY <1>0, <1>2, <2>1, <2>2, PollKeeps DEF MainLoop
<1>3. CASE UNCHANGED vars
  BY <1>0, <1>3, WaitKeeps DEF vars
<1>4. CASE Halted
  BY <1>3, <1>4 DEF Halted
<1> QED BY <1>1, <1>2, <1>3, <1>4, RunKeeps, TimeoutKeeps, FilTakeKeeps, EccTakeKeeps,
           FilAnswerKeeps, EccAnswerKeeps DEF Next

LEMMA Invariance == Spec => []Inv
BY InitInv, NextInv, PTL DEF Spec

\* The workers, the rings and the tasks of both helper cores keep their types: the
\* ring indices stay in range whatever wraps around or overflows.
THEOREM TypeCorrect == Spec => []TypeOK
<1>1. Inv => TypeOK
  BY DEF Inv
<1> QED BY <1>1, Invariance, PTL

\* submit_flash_transaction and submit_ecc_task return the status of the caller's
\* own request to every worker that has never timed out, for any number of workers
\* and requests and rings of any size.
THEOREM ResultsOwn == Spec => []OwnResult
<1>1. ASSUME NEW w \in Workers, Good(w), th[w].pc = "returned"
      PROVE  th[w].result = outcome[th[w].id]
  BY <1>1 DEF Good
<1>2. Inv => OwnResult
  BY <1>1, GoodNow DEF OwnResult
<1> QED BY <1>2, Invariance, PTL

\* Without a timeout the assertion of handle_fil_response (main.c:105) holds, and
\* neither a FIL slot nor the stack of an ECC task is used while a helper core
\* has it.
THEOREM PromptAnswersSafe == Spec => []PromptIsSafe
<1>1. Inv => PromptIsSafe
  BY DEF Inv, Traffic, PromptIsSafe
<1> QED BY <1>1, Invariance, PTL
=============================================================================
