----------------------------- MODULE CoroProofs -----------------------------
(***************************************************************************)
(* Coro: for any number of threads, mutexes and condition variables no     *)
(* thread is ever lost between the queues of the runtime.                  *)
(***************************************************************************)
EXTENDS Coro, TLAPS

QueueMap == [QueueIds -> Seq(AllThreads)]

\* Linking a TCB that is on no queue puts it on that queue and changes
\* nothing else (coro_queue_enqueue).
LEMMA EnqueueFacts ==
  ASSUME NEW qs \in QueueMap, NEW q \in QueueIds, NEW t \in AllThreads,
         NoSharedLink(qs),
         \A p \in QueueIds : ~OnQueue(qs, t, p)
  PROVE  /\ Enqueue(qs, q, t) \in QueueMap
         /\ NoSharedLink(Enqueue(qs, q, t))
         /\ \A u, p : p \in QueueIds =>
              (OnQueue(Enqueue(qs, q, t), u, p) <=>
                 OnQueue(qs, u, p) \/ (u = t /\ p = q))
<1> DEFINE rs == Enqueue(qs, q, t)
<1>1. /\ rs \in QueueMap
      /\ \A p \in QueueIds \ {q} : rs[p] = qs[p]
      /\ rs[q] = Append(qs[q], t)
  BY DEF Enqueue, QueueMap
<1> HIDE DEF rs
<1>2. /\ DOMAIN rs[q] = 1 .. Len(qs[q]) + 1
      /\ DOMAIN qs[q] = 1 .. Len(qs[q])
      /\ Len(qs[q]) \in Nat
      /\ \A i \in 1 .. Len(qs[q]) : rs[q][i] = qs[q][i]
      /\ rs[q][Len(qs[q]) + 1] = t
  BY <1>1 DEF QueueMap
<1>3. \A u, p : p \in QueueIds =>
              (OnQueue(rs, u, p) <=> OnQueue(qs, u, p) \/ (u = t /\ p = q))
  <2> SUFFICES ASSUME NEW u, NEW p \in QueueIds
               PROVE  OnQueue(rs, u, p) <=> OnQueue(qs, u, p) \/ (u = t /\ p = q)
    OBVIOUS
  <2>1. CASE p = q
    <3>1. ASSUME NEW i \in DOMAIN rs[q], rs[q][i] = u, u # t PROVE OnQueue(qs, u, q)
      <4>1. i \in DOMAIN qs[q]
        BY <1>2, <3>1
      <4>2. qs[q][i] = u
        BY <1>2, <3>1, <4>1
      <4> QED BY <4>1, <4>2, Zenon DEF OnQueue
    <3>2. ASSUME NEW i \in DOMAIN qs[q], qs[q][i] = u PROVE OnQueue(rs, u, q)
      <4>1. i \in DOMAIN rs[q]
        BY <1>2
      <4>2. rs[q][i] = u
        BY <1>2, <3>2
      <4> QED BY <4>1, <4>2, Zenon DEF OnQueue
    <3>3. OnQueue(rs, t, q)
      <4>1. Len(qs[q]) + 1 \in DOMAIN rs[q]
        BY <1>2
      <4> QED BY <1>2, <4>1, Zenon DEF OnQueue
    <3> QED BY <2>1, <3>1, <3>2, <3>3, Zenon DEF OnQueue
  <2>2. CASE p # q
    BY <1>1, <2>2 DEF OnQueue
  <2> QED BY <2>1, <2>2
<1>4. ASSUME NEW p \in QueueIds, NEW i \in DOMAIN rs[p]
      PROVE  /\ rs[p][i] = t => p = q /\ i = Len(qs[q]) + 1
             /\ rs[p][i] # t => i \in DOMAIN qs[p] /\ rs[p][i] = qs[p][i]
  <2>1. CASE p = q
    <3>1. ASSUME i \in 1 .. Len(qs[q]) PROVE rs[p][i] = qs[p][i] /\ rs[p][i] # t
      BY <1>2, <2>1, <3>1 DEF OnQueue
    <3> QED BY <1>2, <2>1, <3>1
  <2>2. CASE p # q
    BY <1>1, <2>2 DEF OnQueue
  <2> QED BY <2>1, <2>2
<1>5. NoSharedLink(rs)
  <2> SUFFICES ASSUME NEW p \in QueueIds, NEW r \in QueueIds,
                      NEW i \in DOMAIN rs[p], NEW j \in DOMAIN rs[r],
                      rs[p][i] = rs[r][j]
               PROVE  p = r /\ i = j
    BY DEF NoSharedLink
  <2>1. CASE rs[p][i] = t
    <3>1. p = q /\ i = Len(qs[q]) + 1
      BY <1>4, <2>1, Zenon
    <3>2. r = q /\ j = Len(qs[q]) + 1
      BY <1>4, <2>1, Zenon
    <3> QED BY <3>1, <3>2, Zenon
  <2>2. CASE rs[p][i] # t
    <3>1. i \in DOMAIN qs[p] /\ rs[p][i] = qs[p][i]
      BY <1>4, <2>2, Zenon
    <3>2. j \in DOMAIN qs[r] /\ rs[r][j] = qs[r][j]
      BY <1>4, <2>2, Zenon
    <3>3. qs[p][i] = qs[r][j]
      BY <3>1, <3>2, Zenon
    <3>4. NoSharedLink(qs) => p = r /\ i = j
      BY ONLY <3>1, <3>2, <3>3, p \in QueueIds, r \in QueueIds DEF NoSharedLink
    <3> QED BY <3>4
  <2> QED BY <2>1, <2>2
<1> QED BY <1>1, <1>3, <1>5 DEF rs

\* Unlinking the head of a queue leaves it on no queue (coro_queue_dequeue).
LEMMA DequeueFacts ==
  ASSUME NEW qs \in QueueMap, NEW q \in QueueIds, NoSharedLink(qs),
         qs[q] # <<>>
  PROVE  /\ Dequeue(qs, q) \in QueueMap
         /\ NoSharedLink(Dequeue(qs, q))
         /\ Head(qs[q]) \in AllThreads
         /\ OnQueue(qs, Head(qs[q]), q)
         /\ \A u, p : p \in QueueIds =>
              (OnQueue(Dequeue(qs, q), u, p) <=>
                 OnQueue(qs, u, p) /\ u # Head(qs[q]))
<1> DEFINE rs == Dequeue(qs, q)
           n == Len(qs[q])
           h == Head(qs[q])
<1>1. /\ qs[q] \in Seq(AllThreads)
      /\ rs \in QueueMap
      /\ \A p \in QueueIds \ {q} : rs[p] = qs[p]
      /\ rs[q] = Tail(qs[q])
  BY DEF Dequeue, QueueMap
<1> HIDE DEF rs
<1>2. /\ n \in Nat /\ n >= 1
      /\ DOMAIN qs[q] = 1 .. n
      /\ DOMAIN rs[q] = 1 .. n - 1
      /\ \A i \in 1 .. n - 1 : rs[q][i] = qs[q][i + 1]
      /\ h = qs[q][1] /\ h \in AllThreads
  BY <1>1
<1>3. OnQueue(qs, h, q)
  BY <1>2 DEF OnQueue
<1>4. \A u, p : p \in QueueIds =>
              (OnQueue(rs, u, p) <=> OnQueue(qs, u, p) /\ u # h)
  <2> SUFFICES ASSUME NEW u, NEW p \in QueueIds
               PROVE  OnQueue(rs, u, p) <=> OnQueue(qs, u, p) /\ u # h
    OBVIOUS
  <2>1. CASE p = q
    <3>1. ASSUME OnQueue(rs, u, p) PROVE OnQueue(qs, u, p) /\ u # h
      <4>1. PICK i \in 1 .. n - 1 : rs[q][i] = u
        BY <3>1, <2>1, <1>2 DEF OnQueue
      <4>2. i + 1 \in DOMAIN qs[q] /\ qs[q][i + 1] = u /\ i + 1 # 1
        BY <4>1, <1>2
      <4>3. 1 \in DOMAIN qs[q]
        BY <1>2
      <4>4. u # h
        <5>1. \A a, b \in DOMAIN qs[q] : qs[q][a] = qs[q][b] => a = b
          BY DEF NoSharedLink
        <5>2. qs[q][1] = h
          BY <1>2
        <5> HIDE DEF h, n
        <5> QED BY <4>2, <4>3, <5>1, <5>2
      <4> QED BY <4>2, <4>4, <2>1 DEF OnQueue
    <3>2. ASSUME OnQueue(qs, u, p), u # h PROVE OnQueue(rs, u, p)
      <4>1. PICK i \in 1 .. n : qs[q][i] = u
        BY <3>2, <2>1, <1>2 DEF OnQueue
      <4>2. i - 1 \in 1 .. n - 1 /\ rs[q][i - 1] = u
        BY <4>1, <3>2, <1>2
      <4> QED BY <4>2, <2>1, <1>2 DEF OnQueue
    <3> QED BY <3>1, <3>2
  <2>2. CASE p # q
    <3>1. u = h => ~OnQueue(qs, u, p)
      BY <1>2, <2>2 DEF OnQueue, NoSharedLink
    <3> QED BY <3>1, <2>2, <1>1 DEF OnQueue
  <2> QED BY <2>1, <2>2
<1>5. NoSharedLink(rs)
  <2> DEFINE k(p, i) == IF p = q THEN i + 1 ELSE i
  <2>1. ASSUME NEW p \in QueueIds, NEW i \in DOMAIN rs[p]
        PROVE  k(p, i) \in DOMAIN qs[p] /\ rs[p][i] = qs[p][k(p, i)]
    <3>1. CASE p = q
      <4>1. i \in 1 .. n - 1
        BY <1>2, <3>1
      <4>2. i + 1 \in 1 .. n
        BY <4>1, <1>2
      <4> QED BY <4>1, <4>2, <1>2, <3>1
    <3>2. CASE p # q
      BY <1>1, <3>2
    <3> QED BY <3>1, <3>2
  <2> SUFFICES ASSUME NEW p \in QueueIds, NEW r \in QueueIds,
                      NEW i \in DOMAIN rs[p], NEW j \in DOMAIN rs[r],
                      rs[p][i] = rs[r][j]
               PROVE  p = r /\ i = j
    BY DEF NoSharedLink
  <2>2. p = r /\ k(p, i) = k(r, j)
    BY <2>1 DEF NoSharedLink
  <2> QED BY <2>2, <1>2
<1> QED BY <1>1, <1>2, <1>3, <1>4, <1>5 DEF rs

\* Waking the head of a wait queue moves it to the run queue.
LEMMA UnsuspendFacts ==
  ASSUME NEW qs \in QueueMap, NEW q \in QueueIds \ {RunQueue},
         NoSharedLink(qs)
  PROVE  /\ Unsuspend(qs, q) \in QueueMap
         /\ NoSharedLink(Unsuspend(qs, q))
         /\ qs[q] = <<>> => Unsuspend(qs, q) = qs
         /\ qs[q] # <<>> =>
              /\ Head(qs[q]) \in AllThreads
              /\ OnQueue(qs, Head(qs[q]), q)
              /\ \A u, p : p \in QueueIds =>
                   (OnQueue(Unsuspend(qs, q), u, p) <=>
                      \/ OnQueue(qs, u, p) /\ u # Head(qs[q])
                      \/ u = Head(qs[q]) /\ p = RunQueue)
<1>1. CASE qs[q] = <<>>
  BY <1>1 DEF Unsuspend
<1>2. CASE qs[q] # <<>>
  <2> DEFINE ds == Dequeue(qs, q)
             h == Head(qs[q])
  <2>1. /\ ds \in QueueMap /\ NoSharedLink(ds) /\ h \in AllThreads
        /\ OnQueue(qs, h, q)
        /\ \A u, p : p \in QueueIds =>
             (OnQueue(ds, u, p) <=> OnQueue(qs, u, p) /\ u # h)
    BY <1>2, DequeueFacts
  <2>2. Unsuspend(qs, q) = Enqueue(ds, RunQueue, h)
    BY <1>2 DEF Unsuspend
  <2>3. \A p \in QueueIds : ~OnQueue(ds, h, p)
    BY <2>1
  <2>4. RunQueue \in QueueIds
    BY DEF QueueIds
  <2> HIDE DEF ds, h
  <2>5. /\ Enqueue(ds, RunQueue, h) \in QueueMap
        /\ NoSharedLink(Enqueue(ds, RunQueue, h))
        /\ \A u, p : p \in QueueIds =>
              (OnQueue(Enqueue(ds, RunQueue, h), u, p) <=>
                 OnQueue(ds, u, p) \/ (u = h /\ p = RunQueue))
    BY <2>1, <2>3, <2>4, EnqueueFacts
  <2> QED BY <1>2, <2>1, <2>2, <2>5 DEF h
<1> QED BY <1>1, <1>2

\* coro_schedule gives the CPU to a thread that is then on no queue.
LEMMA ScheduleFacts ==
  ASSUME NEW qs \in QueueMap, NoSharedLink(qs), Schedule(qs),
         \A p \in QueueIds : OnQueue(qs, MAIN_THREAD, p) => p = RunQueue
  PROVE  /\ queue' \in QueueMap
         /\ NoSharedLink(queue')
         /\ current_thread' \in AllThreads
         /\ \A u, p : p \in QueueIds =>
              (OnQueue(queue', u, p) <=>
                 OnQueue(qs, u, p) /\ u # current_thread')
         /\ \/ OnQueue(qs, current_thread', RunQueue)
            \/ /\ current_thread' = MAIN_THREAD
               /\ \A u : ~OnQueue(qs, u, RunQueue)
<1>0. RunQueue \in QueueIds
  BY DEF QueueIds
<1>1. CASE qs[RunQueue] = <<>>
  <2>1. \A u : ~OnQueue(qs, u, RunQueue)
    BY <1>1 DEF OnQueue
  <2>2. queue' = qs /\ current_thread' = MAIN_THREAD
    BY <1>1 DEF Schedule, Dequeue
  <2>3. \A p \in QueueIds : ~OnQueue(qs, MAIN_THREAD, p)
    BY <2>1
  <2> QED BY <2>1, <2>2, <2>3 DEF AllThreads
<1>2. CASE qs[RunQueue] # <<>>
  <2>1. queue' = Dequeue(qs, RunQueue) /\ current_thread' = Head(qs[RunQueue])
    BY <1>2 DEF Schedule
  <2> QED BY <1>0, <1>2, <2>1, DequeueFacts
<1> QED BY <1>1, <1>2

LEMMA NonEmpty ==
  ASSUME NEW qs \in QueueMap, NEW q \in QueueIds
  PROVE  qs[q] # <<>> <=> \E u : OnQueue(qs, u, q)
<1>1. qs[q] \in Seq(AllThreads)
  BY DEF QueueMap
<1>2. qs[q] # <<>> <=> 1 \in DOMAIN qs[q]
  BY <1>1
<1>3. qs[q] = <<>> => DOMAIN qs[q] = {}
  BY <1>1
<1> QED BY ZenonT(60), <1>2, <1>3 DEF OnQueue

QueueInv(cur, qs, st) ==
  /\ cur \in AllThreads
  /\ qs \in QueueMap
  /\ st \in [AllThreads -> States]
  /\ NoSharedLink(qs)
  /\ Placed(cur, qs, st)

LEMMA Names ==
  /\ RunQueue \in QueueIds
  /\ FreeThreads \in QueueIds
  /\ Mutexes \cup Conds \subseteq QueueIds
  /\ RunQueue # FreeThreads
  /\ RunQueue \notin Mutexes \cup Conds
  /\ FreeThreads \notin Mutexes \cup Conds
  /\ MAIN_THREAD \notin Threads
  /\ NO_THREAD \notin AllThreads
BY CoroAssumption
   DEF QueueIds, RunQueue, FreeThreads, MAIN_THREAD, NO_THREAD, Threads, AllThreads

\* Waking the head of a wait queue keeps every thread where its state says.
LEMMA WakeKeeps ==
  ASSUME NEW cur, NEW qs, NEW st, QueueInv(cur, qs, st),
         NEW q \in QueueIds \ {RunQueue}
  PROVE  QueueInv(cur, Unsuspend(qs, q), UnsuspendState(st, qs, q))
<1>1. CASE qs[q] = <<>>
  BY <1>1 DEF Unsuspend, UnsuspendState
<1>2. CASE qs[q] # <<>>
  <2> DEFINE h == Head(qs[q])
             rs == Unsuspend(qs, q)
             su == UnsuspendState(st, qs, q)
  <2>1. /\ rs \in QueueMap
        /\ NoSharedLink(rs)
        /\ h \in AllThreads
        /\ OnQueue(qs, h, q)
        /\ \A u, p : p \in QueueIds =>
             (OnQueue(rs, u, p) <=>
                \/ OnQueue(qs, u, p) /\ u # h
                \/ u = h /\ p = RunQueue)
    BY <1>2, UnsuspendFacts DEF QueueInv
  <2>2. su = [st EXCEPT ![h] = "CR_RUNNABLE"]
    BY <1>2 DEF UnsuspendState
  <2> HIDE DEF h, rs, su
  <2>3. su \in [AllThreads -> States]
    BY ZenonT(60), <2>2 DEF QueueInv, States
  <2>4. h \in Threads /\ h # cur /\ h # MAIN_THREAD
    BY <2>1 DEF QueueInv, Placed, AllThreads
  <2>5. \A t \in Threads : su[t] = IF t = h THEN "CR_RUNNABLE" ELSE st[t]
    BY <2>2 DEF QueueInv, AllThreads
  <2>6. /\ \A p \in QueueIds : ~OnQueue(rs, cur, p)
        /\ \A p \in QueueIds \ {RunQueue} : ~OnQueue(rs, MAIN_THREAD, p)
    BY <2>1, <2>4 DEF QueueInv, Placed
  <2>7. cur # MAIN_THREAD => OnQueue(rs, MAIN_THREAD, RunQueue)
    BY <2>1, <2>4, Names DEF QueueInv, Placed
  <2>8. ASSUME NEW t \in Threads
        PROVE  /\ su[t] = "CR_RUNNABLE" <=> t = cur \/ OnQueue(rs, t, RunQueue)
               /\ su[t] = "CR_DEAD" <=> OnQueue(rs, t, FreeThreads)
               /\ su[t] = "CR_BLOCKED" <=>
                    \E p \in Mutexes \cup Conds : OnQueue(rs, t, p)
    <3>1. CASE t = h
      BY <2>1, <2>5, <3>1, Names
    <3>2. CASE t # h
      BY <2>1, <2>5, <3>2, Names DEF QueueInv, Placed
    <3> QED BY <3>1, <3>2
  <2> QED BY <2>1, <2>3, <2>6, <2>7, <2>8 DEF QueueInv, Placed, rs, su
<1> QED BY <1>1, <1>2

\* The running thread queues itself and gives up the CPU.
LEMMA SwitchKeeps ==
  ASSUME NEW qs, NEW st, QueueInv(current_thread, qs, st),
         NEW q \in {RunQueue} \cup Mutexes \cup Conds,
         current_thread = MAIN_THREAD => q = RunQueue,
         NEW new, new = IF q = RunQueue THEN "CR_RUNNABLE" ELSE "CR_BLOCKED",
         Schedule(Enqueue(qs, q, current_thread))
  PROVE  /\ QueueInv(current_thread', queue', [st EXCEPT ![current_thread] = new])
         /\ \A u, p : p \in QueueIds =>
              (OnQueue(queue', u, p) <=>
                 /\ u # current_thread'
                 /\ OnQueue(qs, u, p) \/ (u = current_thread /\ p = q))
<1> DEFINE es == Enqueue(qs, q, current_thread)
           sn == [st EXCEPT ![current_thread] = new]
<1>1. q \in QueueIds
  BY Names
<1>2. /\ es \in QueueMap
      /\ NoSharedLink(es)
      /\ \A u, p : p \in QueueIds =>
           (OnQueue(es, u, p) <=>
              OnQueue(qs, u, p) \/ (u = current_thread /\ p = q))
  BY <1>1, EnqueueFacts DEF QueueInv, Placed
<1> HIDE DEF es
<1>3. \A p \in QueueIds : OnQueue(es, MAIN_THREAD, p) => p = RunQueue
  BY <1>2 DEF QueueInv, Placed
<1>4. /\ queue' \in QueueMap
      /\ NoSharedLink(queue')
      /\ current_thread' \in AllThreads
      /\ \A u, p : p \in QueueIds =>
           (OnQueue(queue', u, p) <=> OnQueue(es, u, p) /\ u # current_thread')
      /\ \/ OnQueue(es, current_thread', RunQueue)
         \/ /\ current_thread' = MAIN_THREAD
            /\ \A u : ~OnQueue(es, u, RunQueue)
  BY <1>2, <1>3, ScheduleFacts DEF es
<1>5. sn \in [AllThreads -> States]
  BY DEF QueueInv, States
<1>6. \A t \in Threads : sn[t] = IF t = current_thread THEN new ELSE st[t]
  BY DEF QueueInv, AllThreads
<1> HIDE DEF sn
<1>7. \A u, p : p \in QueueIds =>
        (OnQueue(queue', u, p) <=>
           /\ u # current_thread'
           /\ OnQueue(qs, u, p) \/ (u = current_thread /\ p = q))
  BY <1>2, <1>4
<1>8. \A p \in QueueIds : ~OnQueue(queue', current_thread', p)
  BY <1>7
<1>9. \A p \in QueueIds \ {RunQueue} : ~OnQueue(queue', MAIN_THREAD, p)
  BY <1>3, <1>4
<1>10. OnQueue(es, MAIN_THREAD, RunQueue)
  BY <1>2, Names DEF QueueInv, Placed
<1>11. OnQueue(es, current_thread', RunQueue)
  BY <1>4, <1>10
<1>12. current_thread' # MAIN_THREAD => OnQueue(queue', MAIN_THREAD, RunQueue)
  BY <1>4, <1>10, Names
<1>13. ASSUME NEW t \in Threads
       PROVE  /\ sn[t] = "CR_RUNNABLE" <=>
                   t = current_thread' \/ OnQueue(queue', t, RunQueue)
              /\ sn[t] = "CR_DEAD" <=> OnQueue(queue', t, FreeThreads)
              /\ sn[t] = "CR_BLOCKED" <=>
                   \E p \in Mutexes \cup Conds : OnQueue(queue', t, p)
  <2>1. CASE t = current_thread'
    <3>1. sn[t] = "CR_RUNNABLE"
      <4>1. CASE t = current_thread
        <5>1. ~OnQueue(qs, t, RunQueue)
          BY <4>1, Names DEF QueueInv, Placed
        <5>2. q = RunQueue
          BY <1>2, <1>11, <2>1, <5>1, Names
        <5> QED BY <4>1, <5>2, <1>6
      <4>2. CASE t # current_thread
        BY <1>2, <1>6, <1>11, <2>1, <4>2, Names DEF QueueInv, Placed
      <4> QED BY <4>1, <4>2
    <3> QED BY <1>8, <2>1, <3>1, Names
  <2>2. CASE t # current_thread' /\ t = current_thread
    <3>1. \A p \in QueueIds : OnQueue(queue', t, p) <=> p = q
      BY <1>7, <2>2 DEF QueueInv, Placed
    <3> QED BY <1>6, <2>2, <3>1, Names
  <2>3. CASE t # current_thread' /\ t # current_thread
    <3>1. \A p \in QueueIds : OnQueue(queue', t, p) <=> OnQueue(qs, t, p)
      BY <1>7, <2>3
    <3> QED BY <1>6, <2>3, <3>1, Names DEF QueueInv, Placed
  <2> QED BY <2>1, <2>2, <2>3
<1>14. Placed(current_thread', queue', sn)
  BY <1>8, <1>9, <1>12, <1>13 DEF Placed
<1> QED BY <1>4, <1>5, <1>7, <1>14 DEF QueueInv, sn

LEMMA InitKeeps == Init => QueueInv(current_thread, queue, state)
<1> SUFFICES ASSUME Init PROVE QueueInv(current_thread, queue, state)
  OBVIOUS
<1>1. /\ NrThreads \in Nat
      /\ [i \in 1 .. NrThreads |-> i - 1] \in Seq(AllThreads)
  BY CoroAssumption DEF AllThreads, Threads
<1>2. /\ current_thread \in AllThreads
      /\ queue \in QueueMap
      /\ state \in [AllThreads -> States]
  <2>1. <<>> \in Seq(AllThreads)
    OBVIOUS
  <2>2. queue \in QueueMap
    BY <1>1, <2>1 DEF Init, QueueMap
  <2>3. current_thread \in AllThreads /\ state \in [AllThreads -> States]
    BY DEF Init, AllThreads, States
  <2> QED BY <2>2, <2>3
<1>3. \A q \in QueueIds :
        IF q = FreeThreads
        THEN /\ DOMAIN queue[q] = 1 .. NrThreads
             /\ \A i \in 1 .. NrThreads : queue[q][i] = i - 1
        ELSE DOMAIN queue[q] = {}
  BY DEF Init
<1>4. NoSharedLink(queue)
  <2> SUFFICES ASSUME NEW p \in QueueIds, NEW q \in QueueIds,
                      NEW i \in DOMAIN queue[p], NEW j \in DOMAIN queue[q],
                      queue[p][i] = queue[q][j]
               PROVE  p = q /\ i = j
    BY DEF NoSharedLink
  <2>1. p = FreeThreads /\ q = FreeThreads
    BY <1>3
  <2>2. i \in 1 .. NrThreads /\ j \in 1 .. NrThreads /\ i - 1 = j - 1
    BY ZenonT(60), <1>3, <2>1
  <2> QED BY <1>1, <2>1, <2>2
<1>5. \A t, q : q \in QueueIds =>
        (OnQueue(queue, t, q) <=> q = FreeThreads /\ t \in Threads)
  <2> SUFFICES ASSUME NEW t, NEW q \in QueueIds
               PROVE  OnQueue(queue, t, q) <=> q = FreeThreads /\ t \in Threads
    OBVIOUS
  <2>1. ASSUME q = FreeThreads, t \in Threads PROVE OnQueue(queue, t, q)
    <3>1. t + 1 \in 1 .. NrThreads /\ (t + 1) - 1 = t
      BY <1>1, <2>1 DEF Threads
    <3> QED BY ZenonT(60), <1>3, <2>1, <3>1 DEF OnQueue
  <2>2. ASSUME OnQueue(queue, t, q) PROVE q = FreeThreads /\ t \in Threads
    BY <1>1, <1>3, <2>2 DEF OnQueue, Threads
  <2> QED BY <2>1, <2>2
<1>6. \A t \in Threads : state[t] = "CR_DEAD" /\ t # current_thread
  BY Names DEF Init, AllThreads
<1>7. current_thread = MAIN_THREAD
  BY DEF Init
<1>8. Placed(current_thread, queue, state)
  BY <1>5, <1>6, <1>7, Names DEF Placed
<1> QED BY <1>2, <1>4, <1>8 DEF QueueInv

\* A thread that exits leaves every queue to the others.
LEMMA ExitKeeps ==
  ASSUME QueueInv(current_thread, queue, state), Exit
  PROVE  /\ QueueInv(current_thread', queue', state')
         /\ \A u, p : p \in QueueIds =>
              (OnQueue(queue', u, p) <=>
                 OnQueue(queue, u, p) /\ u # current_thread')
<1>1. \A p \in QueueIds : OnQueue(queue, MAIN_THREAD, p) => p = RunQueue
  BY DEF QueueInv, Placed
<1>2. /\ queue' \in QueueMap
      /\ NoSharedLink(queue')
      /\ current_thread' \in AllThreads
      /\ \A u, p : p \in QueueIds =>
           (OnQueue(queue', u, p) <=> OnQueue(queue, u, p) /\ u # current_thread')
      /\ \/ OnQueue(queue, current_thread', RunQueue)
         \/ /\ current_thread' = MAIN_THREAD
            /\ \A u : ~OnQueue(queue, u, RunQueue)
  BY <1>1, ScheduleFacts DEF QueueInv, Exit
<1>3. OnQueue(queue, MAIN_THREAD, RunQueue)
  BY DEF Exit, QueueInv, Placed
<1>4. OnQueue(queue, current_thread', RunQueue)
  BY <1>2, <1>3
<1>5. \A t \in Threads :
        state'[t] = IF t = current_thread THEN "CR_EXITING" ELSE state[t]
  BY DEF Exit, QueueInv, AllThreads
<1>6. state' \in [AllThreads -> States]
  BY DEF Exit, QueueInv, States
<1>7. ASSUME NEW t \in Threads
      PROVE  /\ state'[t] = "CR_RUNNABLE" <=>
                  t = current_thread' \/ OnQueue(queue', t, RunQueue)
             /\ state'[t] = "CR_DEAD" <=> OnQueue(queue', t, FreeThreads)
             /\ state'[t] = "CR_BLOCKED" <=>
                  \E p \in Mutexes \cup Conds : OnQueue(queue', t, p)
  <2>1. CASE t = current_thread
    <3>1. \A p \in QueueIds : ~OnQueue(queue, t, p)
      BY <2>1 DEF QueueInv, Placed
    <3>2. t # current_thread'
      BY <3>1, <1>4, Names
    <3> QED BY <1>2, <1>5, <2>1, <3>1, <3>2, Names
  <2>2. CASE t # current_thread /\ t = current_thread'
    <3>1. state[t] = "CR_RUNNABLE"
      BY <1>4, <2>2 DEF QueueInv, Placed
    <3> QED BY <1>2, <1>5, <2>2, <3>1, Names
  <2>3. CASE t # current_thread /\ t # current_thread'
    <3>1. \A p \in QueueIds : OnQueue(queue', t, p) <=> OnQueue(queue, t, p)
      BY <1>2, <2>3
    <3> QED BY <1>5, <2>3, <3>1, Names DEF QueueInv, Placed
  <2> QED BY <2>1, <2>2, <2>3
<1>8. Placed(current_thread', queue', state')
  <2>1. \A p \in QueueIds : ~OnQueue(queue', current_thread', p)
    BY <1>2
  <2>2. \A p \in QueueIds \ {RunQueue} : ~OnQueue(queue', MAIN_THREAD, p)
    BY <1>1, <1>2
  <2>3. current_thread' # MAIN_THREAD => OnQueue(queue', MAIN_THREAD, RunQueue)
    BY <1>2, <1>3, Names
  <2> QED BY <1>7, <2>1, <2>2, <2>3 DEF Placed
<1> QED BY <1>2, <1>6, <1>8 DEF QueueInv

\* Every waiter of a condition variable moves to the run queue.
LEMMA BroadcastKeeps ==
  ASSUME QueueInv(current_thread, queue, state),
         NEW c \in Conds, CondBroadcast(c)
  PROVE  /\ QueueInv(current_thread', queue', state')
         /\ \A u, p : p \in Mutexes => (OnQueue(queue', u, p) <=> OnQueue(queue, u, p))
         /\ \A t \in AllThreads : state'[t] \in {state[t], "CR_RUNNABLE"}
<1> DEFINE r == queue[RunQueue]
           w == queue[c]
<1>1. /\ c \in QueueIds /\ c # RunQueue /\ c # FreeThreads /\ c \notin Mutexes
      /\ RunQueue \in QueueIds
  BY Names, CoroAssumption
<1>2. r \in Seq(AllThreads) /\ w \in Seq(AllThreads)
  BY <1>1 DEF QueueInv, QueueMap
<1>3. /\ queue' \in QueueMap
      /\ queue'[RunQueue] = r \o w
      /\ queue'[c] = <<>>
      /\ \A p \in QueueIds \ {RunQueue, c} : queue'[p] = queue[p]
  <2>1. r \o w \in Seq(AllThreads) /\ <<>> \in Seq(AllThreads)
    BY <1>2
  <2>2. /\ queue \in [QueueIds -> Seq(AllThreads)]
        /\ queue' = [queue EXCEPT ![RunQueue] = r \o w, ![c] = <<>>]
    BY DEF CondBroadcast, QueueInv, QueueMap
  <2> HIDE DEF r, w
  <2> QED BY ZenonT(60), <1>1, <2>1, <2>2 DEF QueueMap
<1> HIDE DEF r, w
<1>4. /\ Len(r) \in Nat /\ Len(w) \in Nat
      /\ DOMAIN r = 1 .. Len(r) /\ DOMAIN w = 1 .. Len(w)
      /\ DOMAIN (r \o w) = 1 .. Len(r) + Len(w)
      /\ \A i \in 1 .. Len(r) : (r \o w)[i] = r[i]
      /\ \A i \in Len(r) + 1 .. Len(r) + Len(w) : (r \o w)[i] = w[i - Len(r)]
  BY <1>2
\* Where the element at place i of queue p of the new map comes from.
<1> DEFINE oldQ(p, i) == IF p = RunQueue /\ i > Len(r) THEN c ELSE p
           oldI(p, i) == IF p = RunQueue /\ i > Len(r) THEN i - Len(r) ELSE i
<1>5. ASSUME NEW p \in QueueIds, NEW i \in DOMAIN queue'[p]
      PROVE  /\ oldQ(p, i) \in QueueIds
             /\ oldI(p, i) \in DOMAIN queue[oldQ(p, i)]
             /\ queue'[p][i] = queue[oldQ(p, i)][oldI(p, i)]
             /\ p # c
  <2>1. CASE p = RunQueue /\ i > Len(r)
    <3>1. i \in Len(r) + 1 .. Len(r) + Len(w)
      BY <1>3, <1>4, <2>1
    <3>2. i - Len(r) \in 1 .. Len(w)
      BY <3>1, <1>4
    <3> QED BY <1>1, <1>3, <1>4, <2>1, <3>1, <3>2 DEF w
  <2>2. CASE p = RunQueue /\ ~(i > Len(r))
    <3>1. i \in 1 .. Len(r)
      BY <1>3, <1>4, <2>2
    <3> QED BY <1>1, <1>3, <1>4, <2>2, <3>1 DEF r
  <2>3. CASE p # RunQueue
    BY <1>3, <2>3
  <2> QED BY <2>1, <2>2, <2>3
<1>6. NoSharedLink(queue')
  <2> SUFFICES ASSUME NEW p \in QueueIds, NEW q \in QueueIds,
                      NEW i \in DOMAIN queue'[p], NEW j \in DOMAIN queue'[q],
                      queue'[p][i] = queue'[q][j]
               PROVE  p = q /\ i = j
    BY DEF NoSharedLink
  <2>1. oldQ(p, i) = oldQ(q, j) /\ oldI(p, i) = oldI(q, j)
    <3> HIDE DEF oldQ, oldI
    <3>1. /\ oldQ(p, i) \in QueueIds /\ oldI(p, i) \in DOMAIN queue[oldQ(p, i)]
          /\ oldQ(q, j) \in QueueIds /\ oldI(q, j) \in DOMAIN queue[oldQ(q, j)]
          /\ queue[oldQ(p, i)][oldI(p, i)] = queue[oldQ(q, j)][oldI(q, j)]
      BY <1>5
    <3> QED BY <3>1 DEF QueueInv, NoSharedLink
  <2>2. p # c /\ q # c
    BY <1>5
  <2>3. i \in Int /\ j \in Int
    BY <1>3 DEF QueueMap
  <2> QED BY <1>1, <1>4, <2>1, <2>2, <2>3
<1>7. ASSUME NEW u, NEW p \in QueueIds
      PROVE  OnQueue(queue', u, p) <=>
               \/ p # c /\ OnQueue(queue, u, p)
               \/ p = RunQueue /\ OnQueue(queue, u, c)
  <2>1. CASE p = c
    BY <1>1, <1>3, <2>1 DEF OnQueue
  <2>2. CASE p = RunQueue
    <3>1. ASSUME OnQueue(queue', u, p)
          PROVE  OnQueue(queue, u, RunQueue) \/ OnQueue(queue, u, c)
      <4>1. PICK i \in DOMAIN queue'[p] : queue'[p][i] = u
        BY <3>1 DEF OnQueue
      <4>2. oldQ(p, i) \in {RunQueue, c}
        BY <2>2
      <4> HIDE DEF oldQ, oldI
      <4>3. OnQueue(queue, u, oldQ(p, i))
        BY <4>1, <1>5 DEF OnQueue
      <4> QED BY <4>2, <4>3
    <3>2. ASSUME OnQueue(queue, u, RunQueue) PROVE OnQueue(queue', u, p)
      <4>1. PICK i \in 1 .. Len(r) : r[i] = u
        BY <3>2, <1>4 DEF OnQueue, r
      <4>2. i \in DOMAIN (r \o w) /\ (r \o w)[i] = u
        BY <4>1, <1>4
      <4> QED BY <4>2, <1>3, <2>2 DEF OnQueue
    <3>3. ASSUME OnQueue(queue, u, c) PROVE OnQueue(queue', u, p)
      <4>1. PICK i \in 1 .. Len(w) : w[i] = u
        BY <3>3, <1>4 DEF OnQueue, w
      <4>2. /\ i + Len(r) \in Len(r) + 1 .. Len(r) + Len(w)
            /\ (i + Len(r)) - Len(r) = i
        BY <4>1, <1>4
      <4>3. i + Len(r) \in DOMAIN (r \o w) /\ (r \o w)[i + Len(r)] = u
        BY <4>1, <4>2, <1>4
      <4> QED BY <4>3, <1>3, <2>2 DEF OnQueue
    <3> QED BY <3>1, <3>2, <3>3, <2>2, <1>1
  <2>3. CASE p # c /\ p # RunQueue
    BY <1>3, <2>3 DEF OnQueue
  <2> QED BY <2>1, <2>2, <2>3
<1>8. /\ current_thread' = current_thread
      /\ \A t \in AllThreads :
           state'[t] = IF OnQueue(queue, t, c) THEN "CR_RUNNABLE" ELSE state[t]
      /\ state' \in [AllThreads -> States]
  BY DEF CondBroadcast, OnQueue, QueueInv, States
<1> HIDE DEF oldQ, oldI
<1>9. ASSUME NEW t \in Threads
      PROVE  /\ state'[t] = "CR_RUNNABLE" <=>
                  t = current_thread \/ OnQueue(queue', t, RunQueue)
             /\ state'[t] = "CR_DEAD" <=> OnQueue(queue', t, FreeThreads)
             /\ state'[t] = "CR_BLOCKED" <=>
                  \E p \in Mutexes \cup Conds : OnQueue(queue', t, p)
  <2>0. t \in AllThreads
    BY DEF AllThreads
  <2>1. CASE OnQueue(queue, t, c)
    <3>1. \A p \in QueueIds : p # c => ~OnQueue(queue, t, p)
      BY <1>1, <2>1 DEF QueueInv, NoSharedLink, OnQueue
    <3> QED BY <1>1, <1>7, <1>8, <2>0, <2>1, <3>1, Names
  <2>2. CASE ~OnQueue(queue, t, c)
    <3>1. \A p \in QueueIds : OnQueue(queue', t, p) <=> OnQueue(queue, t, p)
      BY <1>7, <2>2
    <3> QED BY <1>8, <2>0, <2>2, <3>1, Names DEF QueueInv, Placed
  <2> QED BY <2>1, <2>2
<1>10. Placed(current_thread', queue', state')
  <2>1. \A p \in QueueIds : ~OnQueue(queue', current_thread, p)
    BY <1>1, <1>7 DEF QueueInv, Placed
  <2>2. \A p \in QueueIds \ {RunQueue} : ~OnQueue(queue', MAIN_THREAD, p)
    BY <1>1, <1>7 DEF QueueInv, Placed
  <2>3. current_thread # MAIN_THREAD => OnQueue(queue', MAIN_THREAD, RunQueue)
    BY <1>1, <1>7 DEF QueueInv, Placed
  <2> QED BY <1>8, <1>9, <2>1, <2>2, <2>3 DEF Placed
<1>11. \A u, p : p \in Mutexes => (OnQueue(queue', u, p) <=> OnQueue(queue, u, p))
  BY <1>1, <1>7, Names
<1> QED BY <1>3, <1>6, <1>8, <1>10, <1>11 DEF QueueInv

-----------------------------------------------------------------------------
Alive == {"CR_RUNNABLE", "CR_BLOCKED"}

\* WaitersHaveOwner, for any queues and states.
OwnerInv(qs, st, ow) ==
  /\ ow \in [Mutexes -> AllThreads \cup {NO_THREAD}]
  /\ \A m \in Mutexes :
       /\ \A u : OnQueue(qs, u, m) => ow[m] # NO_THREAD /\ u # ow[m]
       /\ ow[m] \in Threads => st[ow[m]] \in Alive

\* The inductive invariant of the runtime.
Inv ==
  /\ QueueInv(current_thread, queue, state)
  /\ OwnerInv(queue, state, owner)
  /\ relock \in [AllThreads -> Mutexes \cup {NoMutex}]

\* A step that adds no waiter and kills no owner keeps the owners.
LEMMA OwnersKept ==
  ASSUME NEW qs, NEW st, NEW ow, OwnerInv(qs, st, ow), NEW rs, NEW su,
         \A u, m : m \in Mutexes => (OnQueue(rs, u, m) => OnQueue(qs, u, m)),
         \A m \in Mutexes :
           ow[m] \in Threads => su[ow[m]] = st[ow[m]] \/ su[ow[m]] \in Alive
  PROVE  OwnerInv(rs, su, ow)
BY DEF OwnerInv

\* coro_mutex_unlock: the first waiter, now runnable, is the owner.
LEMMA HandOff ==
  ASSUME NEW cur, NEW qs, NEW st, NEW ow,
         QueueInv(cur, qs, st), OwnerInv(qs, st, ow), NEW m \in Mutexes
  PROVE  OwnerInv(Unsuspend(qs, m), UnsuspendState(st, qs, m),
                  [ow EXCEPT ![m] = First(qs, m)])
<1> DEFINE rs == Unsuspend(qs, m)
           su == UnsuspendState(st, qs, m)
           oh == [ow EXCEPT ![m] = First(qs, m)]
<1>1. m \in QueueIds \ {RunQueue} /\ Mutexes \subseteq QueueIds /\ RunQueue \notin Mutexes
  BY Names
<1>2. CASE qs[m] = <<>>
  <2>1. rs = qs /\ su = st
    BY <1>2 DEF Unsuspend, UnsuspendState
  <2>2. /\ oh \in [Mutexes -> AllThreads \cup {NO_THREAD}]
        /\ oh[m] = NO_THREAD
        /\ \A n \in Mutexes \ {m} : oh[n] = ow[n]
    BY <1>2 DEF First, OwnerInv
  <2>3. \A u : ~OnQueue(qs, u, m)
    BY <1>2 DEF OnQueue
  <2>4. NO_THREAD \notin Threads
    BY Names DEF AllThreads
  <2> HIDE DEF oh
  <2>5. OwnerInv(qs, st, oh)
    BY <2>2, <2>3, <2>4 DEF OwnerInv
  <2> QED BY <2>1, <2>5 DEF oh
<1>3. CASE qs[m] # <<>>
  <2> DEFINE h == Head(qs[m])
  <2>1. /\ h \in AllThreads
        /\ \A u, p : p \in Mutexes => (OnQueue(rs, u, p) <=> OnQueue(qs, u, p) /\ u # h)
    BY <1>1, <1>3, UnsuspendFacts DEF QueueInv
  <2>2. su = [st EXCEPT ![h] = "CR_RUNNABLE"] /\ oh = [ow EXCEPT ![m] = h]
    BY <1>3 DEF UnsuspendState, First
  <2> HIDE DEF h
  <2>3. /\ oh \in [Mutexes -> AllThreads \cup {NO_THREAD}]
        /\ oh[m] = h
        /\ \A n \in Mutexes \ {m} : oh[n] = ow[n]
    BY <2>1, <2>2 DEF OwnerInv
  <2>4. \A t \in AllThreads : su[t] = IF t = h THEN "CR_RUNNABLE" ELSE st[t]
    BY <2>2 DEF QueueInv
  <2>5. h # NO_THREAD /\ Threads \subseteq AllThreads
    BY <2>1, Names DEF AllThreads
  <2> HIDE DEF oh, rs, su
  <2>6. ASSUME NEW n \in Mutexes
        PROVE  /\ \A u : OnQueue(rs, u, n) => oh[n] # NO_THREAD /\ u # oh[n]
               /\ oh[n] \in Threads => su[oh[n]] \in Alive
    <3>1. CASE n = m
      BY <2>1, <2>3, <2>4, <2>5, <3>1 DEF Alive
    <3>2. CASE n # m
      BY <2>1, <2>3, <2>4, <2>5, <3>2 DEF Alive, OwnerInv
    <3> QED BY <3>1, <3>2
  <2>7. OwnerInv(rs, su, oh)
    BY <2>3, <2>6 DEF OwnerInv
  <2> QED BY <2>7 DEF rs, su, oh
<1> QED BY <1>2, <1>3

\* Both halves of coro_mutex_lock, which coro_cond_wait also ends with.
LEMMA LockKeeps ==
  ASSUME Inv, NEW m \in Mutexes, TryLock(m) \/ Block(m)
  PROVE  QueueInv(current_thread', queue', state') /\ OwnerInv(queue', state', owner')
<1>0. m \in QueueIds /\ m # RunQueue /\ Mutexes \subseteq QueueIds
  BY Names
<1>1. CASE TryLock(m)
  <2>1. QueueInv(current_thread', queue', state')
    BY <1>1 DEF TryLock, Inv
  <2>2. /\ owner' \in [Mutexes -> AllThreads \cup {NO_THREAD}]
        /\ owner'[m] = current_thread
        /\ \A n \in Mutexes \ {m} : owner'[n] = owner[n]
    BY <1>1 DEF TryLock, Inv, OwnerInv, QueueInv
  <2>3. \A u : ~OnQueue(queue, u, m)
    BY <1>1 DEF TryLock, Inv, OwnerInv
  <2>4. current_thread \in Threads => state[current_thread] \in Alive
    BY DEF Inv, QueueInv, Placed, Alive
  <2>5. queue' = queue /\ state' = state
    BY <1>1 DEF TryLock
  <2>6. OwnerInv(queue, state, owner')
    BY <2>2, <2>3, <2>4 DEF Inv, OwnerInv
  <2> QED BY <2>1, <2>5, <2>6
<1>2. CASE Block(m)
  <2>1. /\ QueueInv(current_thread', queue', [state EXCEPT ![current_thread] = "CR_BLOCKED"])
        /\ \A u, p : p \in QueueIds =>
              (OnQueue(queue', u, p) <=>
                 /\ u # current_thread'
                 /\ OnQueue(queue, u, p) \/ (u = current_thread /\ p = m))
    BY ZenonT(60), <1>0, <1>2, SwitchKeeps DEF Block, Inv
  <2>2. /\ state' = [state EXCEPT ![current_thread] = "CR_BLOCKED"]
        /\ owner' = owner
        /\ owner[m] # NO_THREAD /\ owner[m] # current_thread
    BY <1>2 DEF Block
  <2>3. \A t \in Threads : state'[t] = state[t] \/ state'[t] \in Alive
    BY <2>2 DEF Inv, QueueInv, AllThreads, Alive
  <2>4. ASSUME NEW n \in Mutexes
        PROVE  /\ \A u : OnQueue(queue', u, n) => owner[n] # NO_THREAD /\ u # owner[n]
               /\ owner[n] \in Threads => state'[owner[n]] \in Alive
    BY <1>0, <2>1, <2>2, <2>3 DEF Inv, OwnerInv
  <2>5. OwnerInv(queue', state', owner)
    BY <2>4 DEF OwnerInv, Inv
  <2> QED BY <2>1, <2>2, <2>5
<1> QED BY <1>1, <1>2

\* Waking somebody from a queue that is no mutex's changes no owner.
LEMMA WakeOwners ==
  ASSUME Inv, NEW q \in {FreeThreads} \cup Conds
  PROVE  OwnerInv(Unsuspend(queue, q), UnsuspendState(state, queue, q), owner)
<1> DEFINE rs == Unsuspend(queue, q)
           su == UnsuspendState(state, queue, q)
<1>1. q \in QueueIds \ {RunQueue} /\ Mutexes \subseteq QueueIds /\ RunQueue \notin Mutexes
  BY Names
<1>2. \A u, m : m \in Mutexes => (OnQueue(rs, u, m) => OnQueue(queue, u, m))
  BY <1>1, UnsuspendFacts DEF Inv, QueueInv
<1>3. \A t \in Threads : su[t] = state[t] \/ su[t] \in Alive
  BY DEF UnsuspendState, Inv, QueueInv, AllThreads, Alive
<1> QED BY <1>2, <1>3, OwnersKept DEF Inv

LEMMA InitInv == Init => Inv
<1> SUFFICES ASSUME Init PROVE Inv
  OBVIOUS
<1>1. QueueInv(current_thread, queue, state)
  BY InitKeeps
<1>2. \A m \in Mutexes : owner[m] = NO_THREAD /\ \A u : ~OnQueue(queue, u, m)
  <2>1. \A m \in Mutexes : m \in QueueIds /\ m # FreeThreads
    BY Names
  <2>2. \A m \in Mutexes : queue[m] = <<>>
    BY <2>1 DEF Init
  <2>3. \A m \in Mutexes : owner[m] = NO_THREAD
    BY DEF Init
  <2>4. DOMAIN <<>> = {}
    OBVIOUS
  <2> QED BY <2>2, <2>3, <2>4 DEF OnQueue
<1>3. NO_THREAD \notin Threads
  BY Names DEF AllThreads
<1>4. OwnerInv(queue, state, owner)
  BY <1>2, <1>3 DEF OwnerInv, Init
<1> QED BY <1>1, <1>4 DEF Inv, Init

LEMMA NextInv == Inv /\ [Next]_vars => Inv'
<1> SUFFICES ASSUME Inv, [Next]_vars PROVE Inv'
  OBVIOUS
<1>0. /\ RunQueue \in QueueIds /\ FreeThreads \in QueueIds \ {RunQueue}
      /\ Mutexes \subseteq QueueIds \ {RunQueue}
      /\ Conds \subseteq QueueIds \ {RunQueue}
      /\ Mutexes \cap Conds = {} /\ FreeThreads \notin Mutexes
  BY Names, CoroAssumption
<1>1. CASE Create
  BY <1>0, <1>1, WakeKeeps, WakeOwners DEF Create, Inv
<1>2. CASE Yield
  <2>1. /\ QueueInv(current_thread', queue', state')
        /\ \A u, p : p \in QueueIds =>
              (OnQueue(queue', u, p) <=>
                 /\ u # current_thread'
                 /\ OnQueue(queue, u, p) \/ (u = current_thread /\ p = RunQueue))
    BY ZenonT(60), <1>2, SwitchKeeps DEF Yield, Inv
  <2>2. \A t \in Threads : state'[t] = state[t] \/ state'[t] \in Alive
    BY <1>2 DEF Yield, Inv, QueueInv, AllThreads, Alive
  <2>3. OwnerInv(queue', state', owner)
    BY <1>0, <2>1, <2>2, OwnersKept DEF Inv
  <2> QED BY <1>2, <2>1, <2>3 DEF Yield, Inv
<1>3. CASE Exit
  <2>1. /\ QueueInv(current_thread', queue', state')
        /\ \A u, p : p \in QueueIds => (OnQueue(queue', u, p) => OnQueue(queue, u, p))
    BY <1>3, ExitKeeps DEF Inv
  <2>2. \A t \in Threads : t # current_thread => state'[t] = state[t]
    BY <1>3 DEF Exit, Inv, QueueInv, AllThreads
  <2>3. \A m \in Mutexes : owner[m] # current_thread
    BY <1>3 DEF Exit
  <2>4. OwnerInv(queue', state', owner)
    BY <1>0, <2>1, <2>2, <2>3, OwnersKept DEF Inv
  <2> QED BY <1>3, <2>1, <2>4 DEF Exit, Inv
<1>4. ASSUME NEW m \in Mutexes, MutexLock(m) PROVE Inv'
  BY <1>4, LockKeeps DEF MutexLock, Inv
<1>5. ASSUME NEW m \in Mutexes, MutexUnlock(m) PROVE Inv'
  <2>1. QueueInv(current_thread, queue', state')
    BY <1>0, <1>5, WakeKeeps DEF MutexUnlock, Inv
  <2>2. OwnerInv(queue', state', owner')
    BY ZenonT(60), <1>5, HandOff DEF MutexUnlock, Inv
  <2> QED BY <1>5, <2>1, <2>2 DEF MutexUnlock, Inv
<1>6. ASSUME NEW m \in Mutexes, CondWaitResume(m) PROVE Inv'
  <2>1. relock' \in [AllThreads -> Mutexes \cup {NoMutex}]
    BY ZenonT(60), <1>6 DEF CondWaitResume, Inv
  <2>2. TryLock(m) \/ Block(m)
    BY <1>6 DEF CondWaitResume
  <2> QED BY <2>1, <2>2, LockKeeps DEF Inv
<1>7. ASSUME NEW c \in Conds, CondSignal(c) PROVE Inv'
  <2>1. QueueInv(current_thread, queue', state')
    BY <1>0, <1>7, WakeKeeps DEF CondSignal, Inv
  <2>2. OwnerInv(queue', state', owner)
    BY <1>7, WakeOwners DEF CondSignal
  <2> QED BY <1>7, <2>1, <2>2 DEF CondSignal, Inv
<1>8. ASSUME NEW c \in Conds, CondBroadcast(c) PROVE Inv'
  <2>1. /\ QueueInv(current_thread', queue', state')
        /\ \A u, p : p \in Mutexes => (OnQueue(queue', u, p) <=> OnQueue(queue, u, p))
        /\ \A t \in AllThreads : state'[t] \in {state[t], "CR_RUNNABLE"}
    BY <1>8, BroadcastKeeps DEF Inv
  <2>2. OwnerInv(queue', state', owner)
    BY <2>1, OwnersKept DEF Inv, AllThreads, Alive
  <2> QED BY <1>8, <2>1, <2>2 DEF CondBroadcast, Inv
<1>9. ASSUME NEW c \in Conds, NEW m \in Mutexes, CondWait(c, m) PROVE Inv'
  <2> DEFINE rs == Unsuspend(queue, m)
             su == UnsuspendState(state, queue, m)
  <2>1. QueueInv(current_thread, rs, su)
    BY <1>0, WakeKeeps DEF Inv
  <2>2. OwnerInv(rs, su, owner')
    BY ZenonT(60), <1>9, HandOff DEF CondWait, Inv
  <2>3. /\ Schedule(Enqueue(rs, c, current_thread))
        /\ state' = [su EXCEPT ![current_thread] = "CR_BLOCKED"]
        /\ current_thread # MAIN_THREAD
    BY <1>9 DEF CondWait
  <2> HIDE DEF rs, su
  <2>4. /\ QueueInv(current_thread', queue', state')
        /\ \A u, p : p \in QueueIds =>
              (OnQueue(queue', u, p) <=>
                 /\ u # current_thread'
                 /\ OnQueue(rs, u, p) \/ (u = current_thread /\ p = c))
    BY ZenonT(60), <1>0, <2>1, <2>3, SwitchKeeps
  <2>5. \A u, n : n \in Mutexes => (OnQueue(queue', u, n) => OnQueue(rs, u, n))
    BY <1>0, <2>4
  <2>6. \A t \in Threads : state'[t] = su[t] \/ state'[t] \in Alive
    BY <2>1, <2>3 DEF QueueInv, AllThreads, Alive
  <2>7. OwnerInv(queue', state', owner')
    BY <2>2, <2>5, <2>6, OwnersKept
  <2>8. relock' \in [AllThreads -> Mutexes \cup {NoMutex}]
    BY ZenonT(60), <1>9 DEF CondWait, Inv
  <2> QED BY <2>4, <2>7, <2>8 DEF Inv
<1>10. CASE UNCHANGED vars
  BY <1>10 DEF vars, Inv, QueueInv, OwnerInv, NoSharedLink, Placed, OnQueue
<1> QED
  BY <1>1, <1>2, <1>3, <1>4, <1>5, <1>6, <1>7, <1>8, <1>9, <1>10 DEF Next

LEMMA InvImplies ==
  Inv => TypeOK /\ LinkedOnce /\ StateMatchesQueue /\ WaitersHaveOwner
<1> SUFFICES ASSUME Inv PROVE TypeOK /\ LinkedOnce /\ StateMatchesQueue /\ WaitersHaveOwner
  OBVIOUS
<1>1. TypeOK
  BY DEF Inv, QueueInv, OwnerInv, QueueMap, TypeOK
<1>2. LinkedOnce /\ StateMatchesQueue
  BY DEF Inv, QueueInv, LinkedOnce, StateMatchesQueue
<1>3. ASSUME NEW m \in Mutexes
      PROVE  /\ queue[m] # <<>> => owner[m] # NO_THREAD
             /\ owner[m] # NO_THREAD =>
                  /\ owner[m] # MAIN_THREAD => state[owner[m]] \in Alive
                  /\ ~OnQueue(queue, owner[m], m)
  <2>1. queue[m] # <<>> => \E u : OnQueue(queue, u, m)
    BY NonEmpty, Names DEF Inv, QueueInv
  <2>2. owner[m] \notin {NO_THREAD, MAIN_THREAD} => owner[m] \in Threads
    BY DEF Inv, OwnerInv, AllThreads
  <2> QED BY <2>1, <2>2 DEF Inv, OwnerInv
<1> QED BY <1>1, <1>2, <1>3 DEF WaitersHaveOwner, Alive

\* Every reachable state of the coroutine runtime is well typed.
THEOREM TypeCorrect == Spec => []TypeOK
<1>1. Spec => []Inv
  BY InitInv, NextInv, PTL DEF Spec
<1> QED BY <1>1, InvImplies, PTL

\* No TCB is ever linked into two queues, or twice into one, so the single
\* `next' pointer of coro_queue_enqueue and coro_queue_dequeue is enough.
THEOREM QueuesDisjoint == Spec => []LinkedOnce
<1>1. Spec => []Inv
  BY InitInv, NextInv, PTL DEF Spec
<1> QED BY <1>1, InvImplies, PTL

\* No thread is lost: one that is blocked or runnable is on the queue that
\* wakes or runs it, whatever the order of the calls into the runtime.
THEOREM NoThreadLost == Spec => []StateMatchesQueue
<1>1. Spec => []Inv
  BY InitInv, NextInv, PTL DEF Spec
<1> QED BY <1>1, InvImplies, PTL

\* The direct hand-off of coro_mutex_unlock, inside coro_cond_wait too, never
\* leaves a mutex with waiters and no live owner.
THEOREM HandOffSafe == Spec => []WaitersHaveOwner
<1>1. Spec => []Inv
  BY InitInv, NextInv, PTL DEF Spec
<1> QED BY <1>1, InvImplies, PTL

=============================================================================
