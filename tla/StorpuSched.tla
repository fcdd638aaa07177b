---------------------------- MODULE StorpuSched ----------------------------
(***************************************************************************)
(* The threads of the StorPU runtime, on several cores                     *)
(* (myssd_sdk/src/storpu): the scheduler and its wake-ups, migration by    *)
(* the stopper threads (sched.c, cpu_stop.c), futexes, mutexes, condition  *)
(* variables and completions (sync/), the life of a thread (thread.c), its *)
(* file operations (file.c) and the main loop of each core (main.c).       *)
(*                                                                         *)
(* code[t] is what thread t has still to do: a sequence of instructions,   *)
(* each one atomic step of a function.  A step takes the instruction at    *)
(* the head of the running thread's code away and puts what the function   *)
(* does next, the calls it makes included, in its place.  A thread gives   *)
(* up its core only in schedule().  A critical section that looks at       *)
(* nothing but what its spinlocks protect is one step, which waits for     *)
(* them to be free; `locks' has those held over several steps.             *)
(***************************************************************************)
EXTENDS Integers, Sequences, FiniteSets, FiniteSetsExt, SequencesExt

CONSTANTS
    Cpus,      \* the StorPU cores: 0 .. n, STORPU_CPU_ID first
    Users,     \* threads that run offloaded programs
    Mutexes,   \* the mutexes of the programs
    Programs,  \* what they may do: [code : of each thread, invoked : by the host]
    NONE

ASSUME CpusAssumption == 0 \in Cpus

Main(c) == <<"main", c>>
Stopper(c) == <<"stopper", c>>
Threads == Users \cup {Main(c) : c \in Cpus} \cup {Stopper(c) : c \in Cpus}

\* A mutex or a condition variable is a word and a futex.  Each thread has the
\* pair it is joined with, and one in the completion of its set_affinity_task.
exitm(t) == <<"exitm", t>>
exited(t) == <<"exited", t>>
eventm(t) == <<"eventm", t>>
event(t) == <<"event", t>>
Futexes == Mutexes \cup UNION {{exitm(t), exited(t), eventm(t), event(t)} : t \in Users}

UNLOCKED == 0
LOCKED_UNCONTENDED == 1
LOCKED_CONTENDED == 2
Everyone == Cardinality(Threads)

VARIABLES
    code,      \* what each thread has still to do
    th,        \* struct thread
    curr,      \* current_thread of each core
    prev,      \* the thread a core is switching from
    queue,     \* run_queue of each core
    locks,     \* spinlocks held
    word,      \* the word of each futex
    waitq,     \* wait_queue of each futex
    job,       \* the set_affinity_task on each thread's stack
    works,     \* stop work of each core, named by the thread whose job it is
    host,      \* threads the host has still to invoke
    requests,  \* avail_queue, newest first
    replies,   \* used_queue
    answered,  \* invocations the FTL has seen completed
    ftl,       \* file operations the FTL works on
    used       \* ftl_used_queue of each core, newest first

sched == <<th, curr, prev, queue, locks>>
sync == <<word, waitq>>
stop == <<job, works>>
tasks == <<host, requests, replies, answered>>
files == <<ftl, used>>
vars == <<code, sched, sync, stop, tasks, files>>

Rq(c) == <<"rq", c>>
Pi(t) == <<"pi", t>>
Queue(f) == <<"queue", f>>
Stop(c) == <<"stop", c>>
Free(l) == l \notin locks

\* The instruction core c is at, and what replaces it.
At(c, op) == Head(code[curr[c]])[1] = op
Arg(c, i) == Head(code[curr[c]])[i + 1]
Goto(c, is) == code' = [code EXCEPT ![curr[c]] = is \o Tail(@)]

----------------------------------------------------------------------------
(* Mutexes, condition variables and completions (sync/)                    *)

Lock(m) == <<"mutex_lock", m>>
Unlock(m) == <<"mutex_unlock", m>>

\* The compare-and-swap of mutex_trylock.
MutexLock(c) ==
    LET m == Arg(c, 1)
    IN  /\ At(c, "mutex_lock")
        /\ IF word[m] = UNLOCKED
           THEN word' = [word EXCEPT ![m] = LOCKED_UNCONTENDED] /\ Goto(c, <<>>)
           ELSE Goto(c, <<<<"mutex_contend", m>>>>) /\ UNCHANGED word
        /\ UNCHANGED <<sched, waitq, stop, tasks, files>>

ContendedOnce(m) == <<<<"futex_wait", m, LOCKED_CONTENDED>>>>
\* The exchange in the loop of mutex_lock, which is tried again after each wait.
Contended(m) == <<<<"futex_wait", m, LOCKED_CONTENDED>>, <<"mutex_contend", m>>>>
MutexContend(c) ==
    LET m == Arg(c, 1)
    IN  /\ At(c, "mutex_contend")
        /\ word' = [word EXCEPT ![m] = LOCKED_CONTENDED]
        /\ Goto(c, IF word[m] = UNLOCKED THEN <<>> ELSE Contended(m))
        /\ UNCHANGED <<sched, waitq, stop, tasks, files>>

MutexUnlock(c) ==
    LET m == Arg(c, 1)
    IN  /\ At(c, "mutex_unlock")
        /\ word' = [word EXCEPT ![m] = UNLOCKED]
        /\ Goto(c, IF word[m] = LOCKED_CONTENDED THEN <<<<"futex_wake", m, 1>>>> ELSE <<>>)
        /\ UNCHANGED <<sched, waitq, stop, tasks, files>>

\* futex_wait looks at the word again, under queue_lock.
Stale(f, v) == word[f] # v
FutexWait(c) ==
    LET f == Arg(c, 1)
        t == curr[c]
    IN  /\ At(c, "futex_wait")
        /\ Free(Queue(f))
        /\ IF Stale(f, Arg(c, 2)) THEN Goto(c, <<>>) /\ UNCHANGED <<th, waitq>>
           ELSE /\ th' = [th EXCEPT ![t].state = "BLOCKED"]
                /\ waitq' = [waitq EXCEPT ![f] = Append(@, t)]
                /\ Goto(c, <<<<"schedule">>>>)
        /\ UNCHANGED <<curr, prev, queue, locks, word, stop, tasks, files>>

\* futex_wake up to the first thread it wakes, under queue_lock, which is held
\* until the last one is awake.
FutexWake(c) ==
    LET f == Arg(c, 1)
    IN  /\ At(c, "futex_wake")
        /\ Free(Queue(f))
        /\ IF waitq[f] = <<>> THEN Goto(c, <<>>) /\ UNCHANGED locks
           ELSE /\ locks' = locks \cup {Queue(f)}
                /\ Goto(c, <<<<"futex_wake_next", f, Arg(c, 2)>>>>)
        /\ UNCHANGED <<th, curr, prev, queue, sync, stop, tasks, files>>

FutexWakeNext(c) ==
    LET f == Arg(c, 1)
        n == Arg(c, 2)
    IN  /\ At(c, "futex_wake_next")
        /\ IF waitq[f] = <<>> \/ n = 0
           THEN /\ locks' = locks \ {Queue(f)} /\ Goto(c, <<>>)
                /\ UNCHANGED waitq
           ELSE /\ waitq' = [waitq EXCEPT ![f] = Tail(@)]
                /\ Goto(c, <<<<"wake_up", Head(waitq[f])>>, <<"futex_wake_next", f, n - 1>>>>)
                /\ UNCHANGED locks
        /\ UNCHANGED <<th, curr, prev, queue, word, stop, tasks, files>>

\* cond_wait reads the word before it releases the mutex; all that changes the word,
\* by cond_signal or cond_broadcast, hold the mutex as well.
cond_wait(v, m) == <<Unlock(m), <<"futex_wait", v, word[v]>>, Lock(m)>>
Pulsed(v) == [word EXCEPT ![v] = @ + 1]

complete_all(p) == <<Lock(eventm(p)), <<"complete", p>>, Unlock(eventm(p))>>
wait_for_completion(p) == <<Lock(eventm(p)), <<"wait_done", p>>, Unlock(eventm(p))>>

Complete(c) ==
    LET p == Arg(c, 1)
    IN  /\ At(c, "complete")
        /\ job' = [job EXCEPT ![p].done = TRUE]
        /\ word' = Pulsed(event(p))
        /\ Goto(c, <<<<"futex_wake", event(p), Everyone>>>>)
        /\ UNCHANGED <<sched, waitq, works, tasks, files>>

WaitDone(c) ==
    LET p == Arg(c, 1)
    IN  /\ At(c, "wait_done")
        /\ Goto(c, IF job[p].done THEN <<>>
                   ELSE Append(cond_wait(event(p), eventm(p)), <<"wait_done", p>>))
        /\ UNCHANGED <<sched, sync, stop, tasks, files>>

----------------------------------------------------------------------------
(* try_to_wake_up (sched.c)                                                *)

\* The thread's pi_lock is kept if the thread is blocked; the running thread just
\* goes on running.
WakeUp(c) ==
    LET t == Arg(c, 1)
        blocked == th[t].state = "BLOCKED"
    IN  /\ At(c, "wake_up")
        /\ t # curr[c] => Free(Pi(t))
        /\ th' = IF t = curr[c] /\ blocked THEN [th EXCEPT ![t].state = "RUNNING"] ELSE th
        /\ IF t # curr[c] /\ blocked
           THEN locks' = locks \cup {Pi(t)} /\ Goto(c, <<<<"wake_on_rq", t>>>>)
           ELSE Goto(c, <<>>) /\ UNCHANGED locks
        /\ UNCHANGED <<curr, prev, queue, sync, stop, tasks, files>>

\* The look at on_rq, without the lock of the run queue.
WakeOnRq(c) ==
    LET t == Arg(c, 1)
    IN  /\ At(c, "wake_on_rq")
        /\ IF th[t].on_rq # "NO"
           THEN Goto(c, <<<<"wake_runnable", t>>>>) /\ UNCHANGED th
           ELSE /\ th' = [th EXCEPT ![t].state = "WAKING"]
                /\ Goto(c, <<<<"wake_on_cpu", t>>>>)
        /\ UNCHANGED <<curr, prev, queue, locks, sync, stop, tasks, files>>

\* ttwu_runnable: a thread that has not left its run queue yet just stays on it.
WakeRunnable(c) ==
    LET t == Arg(c, 1)
    IN  /\ At(c, "wake_runnable")
        /\ Free(Rq(th[t].cpu)) /\ th[t].on_rq # "MIGRATING"
        /\ IF th[t].on_rq = "QUEUED"
           THEN /\ th' = [th EXCEPT ![t].state = "RUNNING"]
                /\ locks' = locks \ {Pi(t)} /\ Goto(c, <<>>)
           ELSE /\ th' = [th EXCEPT ![t].state = "WAKING"]
                /\ Goto(c, <<<<"wake_on_cpu", t>>>>) /\ UNCHANGED locks
        /\ UNCHANGED <<curr, prev, queue, sync, stop, tasks, files>>

PlacedNowhere(t) == th
\* __set_thread_cpu.
Placed(t) == [th EXCEPT ![t].cpu = th[t].wake_cpu]
\* The thread's registers must have been saved.
WakeOnCpu(c) ==
    LET t == Arg(c, 1)
    IN  /\ At(c, "wake_on_cpu")
        /\ ~th[t].on_cpu
        /\ th' = Placed(t)
        /\ Goto(c, <<<<"wake_queue", t>>>>)
        /\ UNCHANGED <<curr, prev, queue, locks, sync, stop, tasks, files>>

\* activate_thread.
Activated(ts, t) == [ts EXCEPT ![t].on_rq = "QUEUED"]
Enqueued(t, c) == [queue EXCEPT ![c] = Append(@, t)]
Dequeued(t, c) == [queue EXCEPT ![c] = SelectSeq(@, LAMBDA u : u # t)]

\* ttwu_queue.
WakeQueue(c) ==
    LET t == Arg(c, 1)
    IN  /\ At(c, "wake_queue")
        /\ Free(Rq(th[t].wake_cpu))
        /\ th' = [Activated(th, t) EXCEPT ![t].state = "RUNNING"]
        /\ queue' = Enqueued(t, th[t].wake_cpu)
        /\ locks' = locks \ {Pi(t)}
        /\ Goto(c, <<>>)
        /\ UNCHANGED <<curr, prev, sync, stop, tasks, files>>

----------------------------------------------------------------------------
(* schedule (sched.c)                                                      *)

\* The thread leaves the run queue unless it is running, the next one is picked
\* round-robin, and the core goes on with its registers and the run queue locked.
\* The main thread never sleeps, so the idle thread is never picked.
Schedule(c) ==
    LET p == curr[c]
        asleep == th[p].state # "RUNNING"
        q == IF asleep THEN Dequeued(p, c)[c] ELSE queue[c]
        n == Head(q)
        left == [th EXCEPT ![p].on_rq = IF asleep THEN "NO" ELSE @]
        rest == IF At(c, "loop") THEN code[p] ELSE Tail(code[p])
    IN  /\ At(c, "schedule") \/ At(c, "loop")
        /\ Free(Rq(c))
        /\ queue' = [queue EXCEPT ![c] = Append(Tail(q), n)]
        /\ IF n = p THEN code' = [code EXCEPT ![p] = rest] /\ UNCHANGED <<th, curr, prev, locks>>
           ELSE /\ th' = [left EXCEPT ![n].on_cpu = TRUE]
                /\ curr' = [curr EXCEPT ![c] = n]
                /\ prev' = [prev EXCEPT ![c] = p]
                /\ locks' = locks \cup {Rq(c)}
                /\ code' = [code EXCEPT ![p] = rest, ![n] = <<<<"finish_switch">>>> \o @]
        /\ UNCHANGED <<sync, stop, tasks, files>>

\* finish_thread_switch, as far as it holds the lock of the run queue.
FinishSwitch(c) ==
    LET p == prev[c]
    IN  /\ At(c, "finish_switch")
        /\ th' = [th EXCEPT ![p].on_cpu = FALSE]
        /\ prev' = [prev EXCEPT ![c] = NONE]
        /\ locks' = locks \ {Rq(c)}
        /\ Goto(c, <<<<"reapable", p>>>>)
        /\ UNCHANGED <<curr, queue, sync, stop, tasks, files>>

\* Its look at the state of the thread it switched from.
Reapable(c) ==
    LET p == Arg(c, 1)
    IN  /\ At(c, "reapable")
        /\ Goto(c, IF th[p].state = "REAPABLE" THEN <<<<"thread_reap", p>>>> ELSE <<>>)
        /\ UNCHANGED <<sched, sync, stop, tasks, files>>

----------------------------------------------------------------------------
(* sched_setaffinity (sched.c) and the stopper threads (cpu_stop.c)        *)

\* stop_one_cpu_nowait: the stopper is woken under the lock of its list.
StopOneCpu(c) ==
    LET d == Arg(c, 1)
    IN  /\ At(c, "stop_one_cpu")
        /\ Free(Stop(d))
        /\ locks' = locks \cup {Stop(d)}
        /\ works' = [works EXCEPT ![d] = Append(@, Arg(c, 2))]
        /\ Goto(c, <<<<"wake_up", Stopper(d)>>, <<"stop_queued", d>>>>)
        /\ UNCHANGED <<th, curr, prev, queue, sync, job, tasks, files>>

StopQueued(c) ==
    /\ At(c, "stop_queued")
    /\ locks' = locks \ {Stop(Arg(c, 1))}
    /\ Goto(c, <<>>)
    /\ UNCHANGED <<th, curr, prev, queue, sync, stop, tasks, files>>

\* cpu_stopper_thread: blocked first, then the look at the list.
StopperBlocks(c) ==
    /\ At(c, "stopper_loop")
    /\ th' = [th EXCEPT ![curr[c]].state = "BLOCKED"]
    /\ Goto(c, <<<<"stopper_work">>>>)
    /\ UNCHANGED <<curr, prev, queue, locks, sync, stop, tasks, files>>

StopperWork(c) ==
    /\ At(c, "stopper_work")
    /\ Free(Stop(c))
    /\ IF works[c] = <<>>
       THEN Goto(c, <<<<"schedule">>, <<"stopper_loop">>>>) /\ UNCHANGED works
       ELSE /\ works' = [works EXCEPT ![c] = Tail(@)]
            /\ Goto(c, <<<<"stopper_runs">>, <<"migration_cpu_stop", Head(works[c])>>,
                         <<"stopper_loop">>>>)
    /\ UNCHANGED <<sched, sync, job, tasks, files>>

StopperRuns(c) ==
    /\ At(c, "stopper_runs")
    /\ th' = [th EXCEPT ![curr[c]].state = "RUNNING"]
    /\ Goto(c, <<>>)
    /\ UNCHANGED <<curr, prev, queue, locks, sync, stop, tasks, files>>

\* thread_rq_lock of the target of sched_setaffinity, while it is alive.
Affinity(c, t) ==
    /\ Free(Pi(t)) /\ Free(Rq(th[t].cpu)) /\ th[t].on_rq # "MIGRATING"
    /\ UNCHANGED <<curr, prev, waitq, tasks, files>>

AffinityKept(c, t) ==
    /\ Affinity(c, t)
    /\ th[t].state = "DEAD" \/ th[t].mask = Arg(c, 2)
    /\ Goto(c, <<>>)
    /\ UNCHANGED <<th, queue, locks, word, stop>>

Changes(c, t) == th[t].state # "DEAD" /\ th[t].mask # Arg(c, 2)

\* affine_move_task of a thread that is on a core of the new mask.
AffinityHere(c, t) ==
    LET p == th[t].pending
        complete == p # NONE /\ ~job[p].stop_pending
    IN  /\ Affinity(c, t) /\ Changes(c, t)
        /\ th[t].cpu \in Arg(c, 2)
        /\ th' = [th EXCEPT ![t].mask = Arg(c, 2), ![t].pending = IF complete THEN NONE ELSE @]
        /\ Goto(c, IF complete THEN complete_all(p) ELSE <<>>)
        /\ UNCHANGED <<queue, locks, word, stop>>

\* The thread's pending task is the caller's, new, or one there is already.
Task(c, t) == IF th[t].pending = NONE THEN curr[c] ELSE th[t].pending
Posted(c, t) ==
    LET dest == Min(Arg(c, 2))
    IN  IF th[t].pending # NONE THEN [job EXCEPT ![th[t].pending].dest = dest]
        ELSE [job EXCEPT ![curr[c]] = [thread |-> t, dest |-> dest, stop_pending |-> FALSE,
                                       done |-> FALSE]]
\* init_completion of a new task.
Reset(c, t) ==
    IF th[t].pending # NONE THEN word
    ELSE [word EXCEPT ![eventm(curr[c])] = UNLOCKED, ![event(curr[c])] = 0]

Moves(c, t) ==
    /\ Affinity(c, t) /\ Changes(c, t)
    /\ th[t].cpu \notin Arg(c, 2)
    /\ word' = Reset(c, t)

\* A running thread, the caller included, is moved by the stopper of its core.
AffinityRunning(c, t) ==
    LET p == Task(c, t)
        queued == th[t].pending # NONE /\ job[p].stop_pending
    IN  /\ Moves(c, t)
        /\ th[t].on_cpu \/ th[t].state = "WAKING"
        /\ th' = [th EXCEPT ![t].mask = Arg(c, 2), ![t].pending = p]
        /\ job' = [Posted(c, t) EXCEPT ![p].stop_pending = TRUE]
        /\ Goto(c, (IF queued THEN <<>> ELSE <<<<"stop_one_cpu", th[t].cpu, p>>>>)
                   \o wait_for_completion(p))
        /\ UNCHANGED <<queue, locks, works>>

\* A thread that waits on a run queue is moved to the other one in two steps.
AffinityQueued(c, t) ==
    LET p == Task(c, t)
    IN  /\ Moves(c, t)
        /\ ~th[t].on_cpu /\ th[t].on_rq = "QUEUED"
        /\ th' = [th EXCEPT ![t].mask = Arg(c, 2), ![t].pending = p, ![t].on_rq = "MIGRATING",
                            ![t].cpu = Min(Arg(c, 2)), ![t].wake_cpu = Min(Arg(c, 2))]
        /\ queue' = Dequeued(t, th[t].cpu)
        /\ locks' = locks \cup {Pi(t)}
        /\ job' = Posted(c, t)
        /\ Goto(c, <<<<"affinity_moved", t>>>>)
        /\ UNCHANGED works

\* A task without stop work is complete as soon as its thread has been moved.
AffinityMoved(c) ==
    LET t == Arg(c, 1)
        p == th[t].pending
        complete == ~job[p].stop_pending
    IN  /\ At(c, "affinity_moved")
        /\ Free(Rq(th[t].cpu))
        /\ th' = [Activated(th, t) EXCEPT ![t].pending = IF complete THEN NONE ELSE @]
        /\ queue' = Enqueued(t, th[t].cpu)
        /\ locks' = locks \ {Pi(t)}
        /\ Goto(c, (IF complete THEN complete_all(p) ELSE <<>>) \o wait_for_completion(p))
        /\ UNCHANGED <<curr, prev, sync, stop, tasks, files>>

\* A sleeping thread is left where it is.
AffinityAsleep(c, t) ==
    LET p == Task(c, t)
        complete == ~Posted(c, t)[p].stop_pending
    IN  /\ Moves(c, t)
        /\ ~th[t].on_cpu /\ th[t].on_rq = "NO" /\ th[t].state # "WAKING"
        /\ th' = [th EXCEPT ![t].mask = Arg(c, 2), ![t].pending = IF complete THEN NONE ELSE p]
        /\ job' = Posted(c, t)
        /\ Goto(c, (IF complete THEN complete_all(p) ELSE <<>>) \o wait_for_completion(p))
        /\ UNCHANGED <<queue, locks, works>>

SetAffinity(c) ==
    /\ At(c, "sched_setaffinity")
    /\ LET t == Arg(c, 1)
       IN  \/ AffinityKept(c, t) \/ AffinityHere(c, t) \/ AffinityRunning(c, t)
           \/ AffinityQueued(c, t) \/ AffinityAsleep(c, t)

\* migration_cpu_stop takes pi_lock and the lock of its own run queue.
Migration(c, t) ==
    /\ Free(Pi(t)) /\ Free(Rq(c))
    /\ UNCHANGED <<curr, prev, sync, works, tasks, files>>

\* There is nothing left to move: the thread is on a core of its mask.
MigrationDone(c, t) ==
    LET p == Arg(c, 1)
    IN  /\ Migration(c, t)
        /\ th[t].cpu \in th[t].mask
        /\ th' = [th EXCEPT ![t].pending = NONE]
        /\ job' = [job EXCEPT ![p].stop_pending = FALSE]
        /\ Goto(c, complete_all(p))
        /\ UNCHANGED <<queue, locks>>

MigrationQueued(c, t) ==
    LET d == job[Arg(c, 1)].dest
    IN  /\ Migration(c, t)
        /\ th[t].cpu = c /\ c \notin th[t].mask /\ th[t].on_rq = "QUEUED"
        /\ th' = [th EXCEPT ![t].pending = NONE, ![t].on_rq = "MIGRATING",
                            ![t].cpu = d, ![t].wake_cpu = d]
        /\ queue' = Dequeued(t, c)
        /\ locks' = locks \cup {Pi(t)}
        /\ Goto(c, <<<<"migration_moved", Arg(c, 1)>>>>)
        /\ UNCHANGED job

MigrationMoved(c) ==
    LET p == Arg(c, 1)
        t == job[p].thread
    IN  /\ At(c, "migration_moved")
        /\ Free(Rq(th[t].cpu))
        /\ th' = Activated(th, t)
        /\ queue' = Enqueued(t, th[t].cpu)
        /\ locks' = locks \ {Pi(t)}
        /\ job' = [job EXCEPT ![p].stop_pending = FALSE]
        /\ Goto(c, complete_all(p))
        /\ UNCHANGED <<curr, prev, sync, works, tasks, files>>

\* A sleeping thread will wake up on the other core.
MigrationAsleep(c, t) ==
    LET p == Arg(c, 1)
    IN  /\ Migration(c, t)
        /\ th[t].cpu = c /\ c \notin th[t].mask /\ th[t].on_rq # "QUEUED"
        /\ th' = [th EXCEPT ![t].pending = NONE, ![t].wake_cpu = job[p].dest]
        /\ job' = [job EXCEPT ![p].stop_pending = FALSE]
        /\ Goto(c, complete_all(p))
        /\ UNCHANGED <<queue, locks>>

\* The thread has left this core for one that is not in its mask either.
MigrationChases(c, t) ==
    /\ Migration(c, t)
    /\ th[t].cpu # c /\ th[t].cpu \notin th[t].mask
    /\ Goto(c, <<<<"stop_again", Arg(c, 1)>>>>)
    /\ UNCHANGED <<th, queue, locks, job>>

MigrationCpuStop(c) ==
    /\ At(c, "migration_cpu_stop")
    /\ LET t == job[Arg(c, 1)].thread
       IN  \/ MigrationDone(c, t) \/ MigrationQueued(c, t) \/ MigrationAsleep(c, t)
           \/ MigrationChases(c, t)

StopAgain(c) ==
    LET p == Arg(c, 1)
    IN  /\ At(c, "stop_again")
        /\ Goto(c, <<<<"stop_one_cpu", th[job[p].thread].cpu, p>>>>)
        /\ UNCHANGED <<sched, sync, stop, tasks, files>>

----------------------------------------------------------------------------
(* The life of a thread (thread.c)                                         *)

Dead == [state |-> "DEAD", on_rq |-> "NO", on_cpu |-> FALSE, cpu |-> 0, wake_cpu |-> 0,
         mask |-> {}, pending |-> NONE, task |-> FALSE]
New(c, task) == [Dead EXCEPT !.state = "RUNNING", !.on_rq = "QUEUED", !.cpu = c,
                             !.wake_cpu = c, !.mask = Cpus, !.task = task]

\* thread_create puts the new thread on the creator's core.
ThreadCreate(c) ==
    LET t == Arg(c, 1)
    IN  /\ At(c, "thread_create")
        /\ Free(Rq(c))
        /\ th' = [th EXCEPT ![t] = New(c, Arg(c, 2))]
        /\ queue' = Enqueued(t, c)
        /\ Goto(c, <<>>)
        /\ UNCHANGED <<curr, prev, locks, sync, stop, tasks, files>>

\* A thread with a task leaves it to the next thread on its core to reap it.
Leaves(t) == <<<<"schedule">>>>
ThreadExit(c) ==
    LET t == curr[c]
    IN  /\ At(c, "thread_exit")
        /\ IF th[t].task
           THEN /\ th' = [th EXCEPT ![t].state = "REAPABLE"]
                /\ Goto(c, Leaves(t))
           ELSE /\ Goto(c, <<Lock(exitm(t)), <<"exiting">>, Unlock(exitm(t)), <<"schedule">>>>)
                /\ UNCHANGED th
        /\ UNCHANGED <<curr, prev, queue, locks, sync, stop, tasks, files>>

Exiting(c) ==
    LET t == curr[c]
    IN  /\ At(c, "exiting")
        /\ th' = [th EXCEPT ![t].state = "EXITING"]
        /\ word' = Pulsed(exited(t))
        /\ Goto(c, <<<<"futex_wake", exited(t), 1>>>>)
        /\ UNCHANGED <<curr, prev, queue, locks, waitq, stop, tasks, files>>

ThreadJoin(c) ==
    LET t == Arg(c, 1)
    IN  /\ At(c, "thread_join")
        /\ Goto(c, IF th[t].state = "DEAD" THEN <<>>
                   ELSE <<Lock(exitm(t)), <<"join_wait", t>>, Unlock(exitm(t)),
                          <<"thread_stop", t>>>>)
        /\ UNCHANGED <<sched, sync, stop, tasks, files>>

JoinWait(c) ==
    LET t == Arg(c, 1)
    IN  /\ At(c, "join_wait")
        /\ Goto(c, IF th[t].state = "EXITING" THEN <<>>
                   ELSE Append(cond_wait(exited(t), exitm(t)), <<"join_wait", t>>))
        /\ UNCHANGED <<sched, sync, stop, tasks, files>>

\* thread_stop frees the thread and its stack.
ThreadStop(c) ==
    /\ At(c, "thread_stop")
    /\ th' = [th EXCEPT ![Arg(c, 1)] = Dead]
    /\ Goto(c, <<>>)
    /\ UNCHANGED <<curr, prev, queue, locks, sync, stop, tasks, files>>

\* thread_reap: the invocation is over.
ThreadReap(c) ==
    LET t == Arg(c, 1)
    IN  /\ At(c, "thread_reap")
        /\ replies' = replies \cup {t}
        /\ Goto(c, <<<<"thread_stop", t>>>>)
        /\ UNCHANGED <<sched, sync, stop, host, requests, answered, files>>

----------------------------------------------------------------------------
(* File operations (file.c) and the main loops (main.c)                    *)

FileRuns(t) == th
FileBlocks(t) == [th EXCEPT ![t].state = "BLOCKED"]
\* file_readwrite and file_sync: the task is on the caller's stack, and the thread
\* goes on as soon as it is woken.
FileTask(c) ==
    LET t == curr[c]
    IN  /\ At(c, "file_task")
        /\ th' = FileBlocks(t)
        /\ ftl' = ftl \cup {[thread |-> t, src_cpu |-> c]}
        /\ Goto(c, <<<<"schedule">>, <<"file_result">>>>)
        /\ UNCHANGED <<curr, prev, queue, locks, sync, stop, tasks, used>>

FileResult(c) ==
    /\ At(c, "file_result")
    /\ Goto(c, <<>>)
    /\ UNCHANGED <<sched, sync, stop, tasks, files>>

\* enqueue_storpu_ftl_completion by the FTL's core.
FtlCompletes(x) ==
    /\ x \in ftl /\ ftl' = ftl \ {x}
    /\ used' = [used EXCEPT ![x.src_cpu] = <<x.thread>> \o @]
    /\ UNCHANGED <<code, sched, sync, stop, tasks>>

\* handle_storpu_ftl_completion wakes the threads of the list one by one; the link
\* to the next task is read after the thread of the last has been woken.
handle_ftl(c) ==
    IF used[c] = <<>> THEN <<>>
    ELSE <<<<"wake_up", Head(used[c])>>, <<"ftl_next", used[c]>>>>

FtlNext(c) ==
    LET rest == Tail(Arg(c, 1))
    IN  /\ At(c, "ftl_next")
        /\ Goto(c, IF rest = <<>> THEN <<>>
                   ELSE <<<<"wake_up", Head(rest)>>, <<"ftl_next", rest>>>>)
        /\ UNCHANGED <<sched, sync, stop, tasks, files>>

\* enqueue_storpu_request.
Invoke(t) ==
    /\ t \in host /\ host' = host \ {t}
    /\ requests' = <<t>> \o requests
    /\ UNCHANGED <<code, sched, sync, stop, replies, answered, files>>

\* send_storpu_completion on the first core, upon which the FTL takes what there is,
\* and the look at the answers to file operations.
Handled(c) ==
    /\ used' = [used EXCEPT ![c] = <<>>]
    /\ IF c = 0 THEN replies' = {} /\ answered' = answered \cup replies
       ELSE UNCHANGED <<replies, answered>>
    /\ UNCHANGED <<sched, sync, stop, host, ftl>>

\* A turn of a main loop, after wfe, up to schedule.  On the first core
\* process_request_queue comes first: it takes the requests there are and creates a
\* thread for each.  What follows concerns queues that have one other user each, and
\* is one step.  The send after schedule is left to the next turn.
MainLoop(c) ==
    /\ At(c, "main_loop")
    /\ \/ /\ c = 0 /\ requests # <<>>
          /\ requests' = <<>>
          /\ Goto(c, [k \in DOMAIN requests |-> <<"thread_create", requests[k], TRUE>>]
                     \o <<<<"handle_ftl">>, <<"schedule">>, <<"main_loop">>>>)
          /\ UNCHANGED <<sched, sync, stop, host, replies, answered, files>>
       \/ /\ c # 0 \/ requests = <<>>
          /\ Goto(c, handle_ftl(c) \o <<<<"schedule">>, <<"main_loop">>>>)
          /\ Handled(c) /\ UNCHANGED requests

\* The rest of the turn, after the requests.
HandleFtl(c) ==
    /\ At(c, "handle_ftl")
    /\ Goto(c, handle_ftl(c))
    /\ Handled(c) /\ UNCHANGED requests

----------------------------------------------------------------------------
\* Before the first invocation: the main loops turn and the stoppers sleep.
Init ==
    /\ \E p \in Programs :
         /\ code = [t \in Threads |-> IF t \in Users THEN p.code[t] ELSE <<<<t[1] \o "_loop">>>>]
         /\ host = p.invoked
    /\ th = [t \in Threads |->
               IF t \in Users THEN Dead
               ELSE IF t[1] = "main" THEN [New(t[2], FALSE) EXCEPT !.on_cpu = TRUE]
               ELSE [New(t[2], FALSE) EXCEPT !.state = "BLOCKED", !.on_rq = "NO"]]
    /\ curr = [c \in Cpus |-> Main(c)]
    /\ prev = [c \in Cpus |-> NONE]
    /\ queue = [c \in Cpus |-> <<Main(c)>>]
    /\ locks = {}
    /\ word = [f \in Futexes |-> 0] /\ waitq = [f \in Futexes |-> <<>>]
    /\ job = [t \in Users |-> [thread |-> t, dest |-> 0, stop_pending |-> FALSE, done |-> FALSE]]
    /\ works = [c \in Cpus |-> <<>>]
    /\ requests = <<>> /\ replies = {} /\ answered = {}
    /\ ftl = {} /\ used = [c \in Cpus |-> <<>>]

Run(c) ==
    \/ MutexLock(c) \/ MutexContend(c) \/ MutexUnlock(c) \/ FutexWait(c) \/ FutexWake(c)
    \/ FutexWakeNext(c) \/ Complete(c) \/ WaitDone(c)
    \/ WakeUp(c) \/ WakeOnRq(c) \/ WakeRunnable(c) \/ WakeOnCpu(c) \/ WakeQueue(c)
    \/ Schedule(c) \/ FinishSwitch(c) \/ Reapable(c)
    \/ StopOneCpu(c) \/ StopQueued(c) \/ StopperBlocks(c) \/ StopperWork(c) \/ StopperRuns(c)
    \/ SetAffinity(c) \/ AffinityMoved(c) \/ MigrationCpuStop(c)
    \/ MigrationMoved(c) \/ StopAgain(c)
    \/ ThreadCreate(c) \/ ThreadExit(c) \/ Exiting(c) \/ ThreadJoin(c) \/ JoinWait(c)
    \/ ThreadStop(c) \/ ThreadReap(c)
    \/ FileTask(c) \/ FileResult(c) \/ HandleFtl(c) \/ FtlNext(c)
    \/ MainLoop(c)

Next ==
    \/ \E c \in Cpus : Run(c)
    \/ \E x \in ftl : FtlCompletes(x)
    \/ \E t \in host : Invoke(t)

Spec == Init /\ [][Next]_vars

\* Every core goes on, wfe returns, and a spinlock that is free again and again is
\* taken; the FTL completes what it is given.
FairSpec ==
    /\ Spec
    /\ \A c \in Cpus : SF_vars(Run(c))
    /\ WF_vars(\E x \in ftl : FtlCompletes(x))

----------------------------------------------------------------------------
(* Properties                                                              *)

\* No thread runs on two cores, or on one before the core it left has saved its
\* registers: try_to_wake_up waits for on_cpu, and keeps a thread that has not left
\* its run queue there.  Each thread is on the run queue that its on_rq and cpu say,
\* and once, and the thread a core runs is one of that core.
QueuesAgree ==
    /\ \A c, d \in Cpus : c # d => curr[c] # curr[d] /\ prev[c] # curr[d]
    /\ \A t \in Threads, c \in Cpus :
         t \in Range(queue[c]) <=> th[t].on_rq = "QUEUED" /\ th[t].cpu = c
    /\ \A c \in Cpus : IsInjective(queue[c])
    /\ \A c \in Cpus : th[curr[c]].on_cpu /\ th[curr[c]].cpu = c

\* A thread between mutex_lock and mutex_unlock is the only one, on all cores.
Holds(t, m) ==
    /\ Unlock(m) \in Range(code[t])
    /\ {Lock(m), <<"mutex_contend", m>>} \cap Range(code[t]) = {}
    /\ th[t].state # "DEAD"
MutexExclusive == \A m \in Mutexes : \A t, u \in Users : Holds(t, m) /\ Holds(u, m) => t = u


\* A file operation returns when the FTL is done with its task and no queue has it, and
\* the task, on the caller's stack, is there when handle_storpu_ftl_completion follows
\* the link it holds.
Awaits(t) == (\E x \in ftl : x.thread = t) \/ \E c \in Cpus : t \in Range(used[c])
FileResults ==
    \A c \in Cpus :
        /\ At(c, "file_result") => ~Awaits(curr[c])
        /\ At(c, "ftl_next") => <<"file_result">> \in Range(code[Head(Arg(c, 1))])

=============================================================================
