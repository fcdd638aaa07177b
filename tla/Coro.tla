-------------------------------- MODULE Coro --------------------------------
(***************************************************************************)
(* The coroutine runtime of the FTL core (myssd_sdk/src/coro): a           *)
(* cooperative scheduler with FIFO mutexes and condition variables.        *)
(*                                                                         *)
(* Every thread control block (TCB) has ONE `next' pointer, so the run     *)
(* queue, the free list and every wait queue are threaded through the same *)
(* field.  All of them are kept in one function here, queue, indexed by    *)
(* the name of the queue.                                                  *)
(*                                                                         *)
(* One action is one library call by the running thread, from the call to  *)
(* its return or to the context switch inside it.  Interrupt handlers run  *)
(* on the stack of the running thread and wake workers with                *)
(* coro_cond_signal, so CondSignal stands for them too.                    *)
(***************************************************************************)
EXTENDS Integers, Sequences

CONSTANTS
  NrThreads,  \* size of the TCB pool (nr_threads)
  Mutexes,    \* mutex objects
  Conds,      \* condition variables
  NoMutex     \* "nothing to lock again"

MAIN_THREAD == -1
NO_THREAD == -2
Threads == 0 .. NrThreads - 1
AllThreads == Threads \cup {MAIN_THREAD}

RunQueue == "run_queue"
FreeThreads == "free_threads"
QueueIds == {RunQueue, FreeThreads} \cup Mutexes \cup Conds

ASSUME CoroAssumption ==
  /\ NrThreads \in Nat
  /\ Mutexes \cap Conds = {}
  /\ RunQueue \notin Mutexes \cup Conds
  /\ FreeThreads \notin Mutexes \cup Conds
  /\ NoMutex \notin Mutexes

VARIABLES
  current_thread, \* the thread that has the CPU
  queue,          \* queue[q]: the TCBs linked into q, head first
  state,          \* coro_state_t of each TCB
  owner,          \* owner of each mutex
  relock          \* the mutex coro_cond_wait takes again when t resumes

vars == <<current_thread, queue, state, owner, relock>>

States == {"CR_DEAD", "CR_BLOCKED", "CR_RUNNABLE", "CR_EXITING"}

TypeOK ==
  /\ current_thread \in AllThreads
  /\ queue \in [QueueIds -> Seq(AllThreads)]
  /\ state \in [AllThreads -> States]
  /\ owner \in [Mutexes -> AllThreads \cup {NO_THREAD}]
  /\ relock \in [AllThreads -> Mutexes \cup {NoMutex}]

-----------------------------------------------------------------------------
(* Faulty variants of the definitions below, for mutation checks.          *)

\* The woken thread is not taken off the queue it waited on.
UnsuspendStillLinked(qs, q) ==
  IF qs[q] = <<>> THEN qs
  ELSE [qs EXCEPT ![RunQueue] = Append(@, Head(qs[q]))]

\* The woken thread keeps the state CR_BLOCKED.
UnsuspendStateForgotten(st, qs, q) == st

\* A released mutex becomes free although the first waiter is woken as owner.
FirstForgotten(qs, q) == NO_THREAD

-----------------------------------------------------------------------------
(* queue.c and scheduler.c.                                                *)

Enqueue(qs, q, t) == [qs EXCEPT ![q] = Append(@, t)]

Dequeue(qs, q) == IF qs[q] = <<>> THEN qs ELSE [qs EXCEPT ![q] = Tail(@)]

First(qs, q) == IF qs[q] = <<>> THEN NO_THREAD ELSE Head(qs[q])

\* The thread at the head of q, if there is one, moves to the run queue.
Unsuspend(qs, q) ==
  IF qs[q] = <<>> THEN qs ELSE Enqueue(Dequeue(qs, q), RunQueue, Head(qs[q]))

UnsuspendState(st, qs, q) ==
  IF qs[q] = <<>> THEN st ELSE [st EXCEPT ![Head(qs[q])] = "CR_RUNNABLE"]

\* An empty run queue hands the CPU to the main thread.
Schedule(qs) ==
  /\ current_thread' =
       IF qs[RunQueue] = <<>> THEN MAIN_THREAD ELSE Head(qs[RunQueue])
  /\ queue' = Dequeue(qs, RunQueue)

-----------------------------------------------------------------------------
\* The pool has been allocated: every TCB is dead and on the free list.
Init ==
  /\ current_thread = MAIN_THREAD
  /\ queue = [q \in QueueIds |->
                IF q = FreeThreads THEN [i \in 1 .. NrThreads |-> i - 1]
                                   ELSE <<>>]
  /\ state = [t \in AllThreads |-> "CR_DEAD"]
  /\ owner = [m \in Mutexes |-> NO_THREAD]
  /\ relock = [t \in AllThreads |-> NoMutex]

\* The running thread executes its own code, not the tail of coro_cond_wait.
InUserCode == relock[current_thread] = NoMutex

\* worker_init creates the workers from the main thread.
Create ==
  /\ current_thread = MAIN_THREAD
  /\ queue[FreeThreads] # <<>>
  /\ queue' = Unsuspend(queue, FreeThreads)
  /\ state' = UnsuspendState(state, queue, FreeThreads)
  /\ UNCHANGED <<current_thread, owner, relock>>

\* coro_yield: refused when there is nobody to run.
Yield ==
  /\ InUserCode
  /\ queue[RunQueue] # <<>>
  /\ Schedule(Enqueue(queue, RunQueue, current_thread))
  /\ state' = [state EXCEPT ![current_thread] = "CR_RUNNABLE"]
  /\ UNCHANGED <<owner, relock>>

\* A worker's procedure returns; it holds no lock then.
Exit ==
  /\ InUserCode
  /\ current_thread # MAIN_THREAD
  /\ \A m \in Mutexes : owner[m] # current_thread
  /\ state' = [state EXCEPT ![current_thread] = "CR_EXITING"]
  /\ Schedule(queue)
  /\ UNCHANGED <<owner, relock>>

\* The uncontended half of coro_mutex_lock, and all of coro_mutex_trylock.
TryLock(m) ==
  /\ owner[m] = NO_THREAD
  /\ owner' = [owner EXCEPT ![m] = current_thread]
  /\ UNCHANGED <<current_thread, queue, state>>

\* The contended half of coro_mutex_lock.  Ownership comes with the wake-up.
\* The main loop takes only mutexes that are free.
Block(m) ==
  /\ current_thread # MAIN_THREAD
  /\ owner[m] \notin {NO_THREAD, current_thread}
  /\ state' = [state EXCEPT ![current_thread] = "CR_BLOCKED"]
  /\ Schedule(Enqueue(queue, m, current_thread))
  /\ UNCHANGED owner

MutexLock(m) ==
  /\ InUserCode
  /\ TryLock(m) \/ Block(m)
  /\ UNCHANGED relock

\* The owner hands the mutex to the first waiter.
MutexUnlock(m) ==
  /\ InUserCode
  /\ owner[m] = current_thread
  /\ owner' = [owner EXCEPT ![m] = First(queue, m)]
  /\ queue' = Unsuspend(queue, m)
  /\ state' = UnsuspendState(state, queue, m)
  /\ UNCHANGED <<current_thread, relock>>

CondSignal(c) ==
  /\ queue[c] # <<>>
  /\ queue' = Unsuspend(queue, c)
  /\ state' = UnsuspendState(state, queue, c)
  /\ UNCHANGED <<current_thread, owner, relock>>

CondBroadcast(c) ==
  /\ InUserCode
  /\ queue[c] # <<>>
  /\ queue' = [queue EXCEPT ![RunQueue] = @ \o queue[c], ![c] = <<>>]
  /\ state' = [t \in AllThreads |->
                 IF \E i \in DOMAIN queue[c] : queue[c][i] = t
                 THEN "CR_RUNNABLE" ELSE state[t]]
  /\ UNCHANGED <<current_thread, owner, relock>>

\* coro_cond_wait up to its context switch: unlock, enqueue, suspend.
CondWait(c, m) ==
  /\ InUserCode
  /\ current_thread # MAIN_THREAD
  /\ owner[m] = current_thread
  /\ owner' = [owner EXCEPT ![m] = First(queue, m)]
  /\ state' = [UnsuspendState(state, queue, m)
                 EXCEPT ![current_thread] = "CR_BLOCKED"]
  /\ relock' = [relock EXCEPT ![current_thread] = m]
  /\ Schedule(Enqueue(Unsuspend(queue, m), c, current_thread))

\* coro_cond_wait after its context switch: take the mutex again.
CondWaitResume(m) ==
  /\ relock[current_thread] = m
  /\ relock' = [relock EXCEPT ![current_thread] = NoMutex]
  /\ TryLock(m) \/ Block(m)

Next ==
  \/ Create \/ Yield \/ Exit
  \/ \E m \in Mutexes : MutexLock(m) \/ MutexUnlock(m) \/ CondWaitResume(m)
  \/ \E c \in Conds : CondSignal(c) \/ CondBroadcast(c)
  \/ \E c \in Conds, m \in Mutexes : CondWait(c, m)

Spec == Init /\ [][Next]_vars

-----------------------------------------------------------------------------
OnQueue(qs, t, q) == \E i \in DOMAIN qs[q] : qs[q][i] = t

NoSharedLink(qs) ==
  \A p, q \in QueueIds : \A i \in DOMAIN qs[p], j \in DOMAIN qs[q] :
    qs[p][i] = qs[q][j] => p = q /\ i = j

\* A TCB is linked into at most one queue, once.  The single `next' pointer
\* of coro_queue_enqueue would otherwise splice two queues together.
LinkedOnce == NoSharedLink(queue)

Placed(cur, qs, st) ==
  /\ \A q \in QueueIds : ~OnQueue(qs, cur, q)
  /\ \A q \in QueueIds \ {RunQueue} : ~OnQueue(qs, MAIN_THREAD, q)
  /\ cur # MAIN_THREAD => OnQueue(qs, MAIN_THREAD, RunQueue)
  /\ \A t \in Threads :
       /\ st[t] = "CR_RUNNABLE" <=> t = cur \/ OnQueue(qs, t, RunQueue)
       /\ st[t] = "CR_DEAD" <=> OnQueue(qs, t, FreeThreads)
       /\ st[t] = "CR_BLOCKED" <=>
            \E q \in Mutexes \cup Conds : OnQueue(qs, t, q)

\* The queue a TCB is on says what the thread waits for; no blocked or
\* runnable thread is on no queue at all, where nothing would ever wake it;
\* and the main thread, which coro_schedule runs when the run queue is empty,
\* is never asleep on another queue.
StateMatchesQueue == Placed(current_thread, queue, state)

\* A mutex with waiters has an owner, and the owner can run: it is neither
\* dead nor queued behind itself, so the hand-off of coro_mutex_unlock never
\* leaves a free mutex with sleepers.
WaitersHaveOwner ==
  \A m \in Mutexes :
    /\ queue[m] # <<>> => owner[m] # NO_THREAD
    /\ owner[m] # NO_THREAD =>
         /\ owner[m] # MAIN_THREAD =>
              state[owner[m]] \in {"CR_RUNNABLE", "CR_BLOCKED"}
         /\ ~OnQueue(queue, owner[m], m)

=============================================================================
