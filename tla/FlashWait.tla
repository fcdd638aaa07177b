----------------------------- MODULE FlashWait -----------------------------
(***************************************************************************)
(* How the workers of the FTL core use the two helper cores (myssd_sdk/src *)
(* /main.c, worker.c, include/ringq.h, r5poll/main.c, eccengine/main.c):   *)
(* a worker writes a task, puts it on the ring queue of the FIL or of the  *)
(* ECC core and sleeps; the main loop polls for answers and wakes it; the  *)
(* tick wakes it when its time is over.  A FIL task is in a slot of shared *)
(* memory that belongs to the worker, an ECC task on the worker's stack;   *)
(* all workers share one more FIL slot, for the dump after a timeout.      *)
(*                                                                         *)
(* The main loop and the workers share the FTL core (`cur'); the FIL and   *)
(* ECC cores run beside it.  What the FIL does with a task is FilAnswer:   *)
(* it may take any time, and answers in any order.                         *)
(***************************************************************************)
EXTENDS Integers

CONSTANTS
    Workers,      \* the coroutines: NR_FTL_THREADS of them
    NONE, MAIN, DUMP,
    AvailNum,     \* the size of the avail ring of each core, avail_num
    UsedNum,      \* the size of its used ring, used_num
    Start,        \* where the rings start: 0, or any place after earlier traffic
    Ids           \* bound: the requests of a behaviour, 1 .. n

Cores == {"fil", "ecc"}
Slots == Workers \cup {DUMP}

ASSUME FlashWaitAssumption ==
    /\ {NONE, MAIN, DUMP} \cap Workers = {} /\ NONE # DUMP
    /\ AvailNum \in Nat /\ UsedNum \in Nat /\ Start \in Nat
    /\ Start < AvailNum /\ Start < UsedNum
    /\ Ids \subseteq Nat \ {0}

VARIABLES
    cur,          \* who runs on the FTL core: MAIN or a worker
    main,         \* where the main loop is
    th,           \* per worker: program point, blocked_on, timer, its request
    task,         \* the FIL slots and the ECC tasks: [id, completed, status, opaque]
    ring,         \* the avail and used rings of each core, with head and tail
    held,         \* FIL slots the FIL has taken and not answered yet
    engine,       \* the task the ECC core works on, or NONE
    ids,          \* requests so far
    outcome,      \* how the helper core answered each request
    late,         \* workers that have timed out
    failed        \* an assertion has failed or shared memory is corrupt

vars == <<cur, main, th, task, ring, held, engine, ids, outcome, late, failed>>

----------------------------------------------------------------------------
(* ringq.h                                                                 *)

Empty(n) == [elem |-> [i \in 0..n - 1 |-> NONE], num |-> n, head |-> Start, tail |-> Start]
RingNext(i, n) == IF i + 1 >= n THEN 0 ELSE i + 1
\* ringq_add_avail, ringq_add_used with the tail written back; a full ring is not
\* looked for.
RingAdd(q, e) == [q EXCEPT !.elem[q.tail] = e, !.tail = RingNext(@, q.num)]
RingHas(q) == q.head # q.tail
RingHead(q) == q.elem[q.head]
\* The indices of the elements added and not yet taken.
Filled(q) ==
    {i \in DOMAIN q.elem :
        IF q.head <= q.tail THEN q.head <= i /\ i < q.tail ELSE q.head <= i \/ i < q.tail}
Unread(q) == {q.elem[i] : i \in Filled(q)}
\* ringq_get_avail, ringq_get_used, for the first and for all elements.  What was
\* taken stays in the ring, and nobody looks at it: here it becomes NONE.
RingGet(q) == [q EXCEPT !.elem[q.head] = NONE, !.head = RingNext(@, q.num)]
RingGetAll(q) ==
    [q EXCEPT !.elem = [i \in DOMAIN @ |-> IF i \in Filled(q) THEN NONE ELSE @[i]],
              !.head = q.tail]

----------------------------------------------------------------------------
NoTask == [id |-> 0, completed |-> FALSE, status |-> "ok", opaque |-> NONE]
Awake == [pc |-> "idle", blocked_on |-> "none", armed |-> FALSE, timed_out |-> FALSE,
          woken |-> FALSE, id |-> 0, result |-> "none"]

Init ==
    /\ cur = MAIN /\ main = "yield"
    /\ th = [w \in Workers |-> [Awake EXCEPT !.woken = TRUE]]
    /\ task = [c \in Cores |-> [s \in Slots |-> NoTask]]
    /\ ring = [c \in Cores |-> [avail |-> Empty(AvailNum), used |-> Empty(UsedNum)]]
    /\ held = {} /\ engine = NONE
    /\ ids = 0 /\ outcome = [i \in Ids |-> "none"]
    /\ late = {} /\ failed = FALSE

InterruptsEnabled == cur \in Workers \/ main = "wfe"

----------------------------------------------------------------------------
(* The main loop                                                           *)

WaitForEvent ==
    /\ ~failed /\ cur = MAIN /\ main = "wfe"
    /\ main' = "poll_fil"
    /\ UNCHANGED <<cur, th, task, ring, held, engine, ids, outcome, late, failed>>

WakesEcc(t, c) == t.blocked_on = "ecc"
\* worker_wake of a worker in state t by an answer of core c.
Wakes(t, c) == t.blocked_on = c

\* The ECC task of worker w is still on its stack.
OnStack(w) == th[w].pc = "ecc"

\* handle_fil_response, handle_ecc_response: the workers the answers are for.
Owners(c, polled) == {task[c][s].opaque : s \in polled}

\* poll_fil_responses, poll_ecc_responses: every answered task must be completed,
\* and its owner is woken if it is blocked on this core.
Poll(c) ==
    LET polled == Unread(ring[c].used)
    IN  /\ ~failed /\ cur = MAIN
        /\ main = IF c = "fil" THEN "poll_fil" ELSE "poll_ecc"
        /\ main' = IF c = "fil" THEN "poll_ecc" ELSE "yield"
        /\ failed' = \E s \in polled : ~task[c][s].completed \/ (c = "ecc" /\ ~OnStack(s))
        /\ th' = [w \in Workers |-> IF w \in Owners(c, polled) /\ Wakes(th[w], c)
                                    THEN [th[w] EXCEPT !.woken = TRUE] ELSE th[w]]
        /\ ring' = [ring EXCEPT ![c].used = RingGetAll(@)]
        /\ UNCHANGED <<cur, task, held, engine, ids, outcome, late>>

\* coro_yield_all runs every runnable worker in turn; worker_resume ends its wait.
Run(w) ==
    /\ ~failed /\ cur = MAIN /\ main = "yield" /\ th[w].woken
    /\ cur' = w
    /\ th' = [th EXCEPT ![w].woken = FALSE, ![w].blocked_on = "none", ![w].armed = FALSE]
    /\ UNCHANGED <<main, task, ring, held, engine, ids, outcome, late, failed>>

NoneRunnable ==
    /\ ~failed /\ cur = MAIN /\ main = "yield" /\ \A w \in Workers : ~th[w].woken
    /\ main' = "wfe"
    /\ UNCHANGED <<cur, th, task, ring, held, engine, ids, outcome, late, failed>>

TimesOutEcc(w) == th[w].blocked_on = "ecc" /\ th[w].armed
TimesOut(w) == th[w].blocked_on # "none" /\ th[w].armed

\* worker_check_timeout, in the tick interrupt: the time of a blocked worker is
\* over, also if it has been woken and has not run since.  The helper cores look
\* at their rings all the time: what was added 3 s ago has been taken.
Timeout(w) ==
    /\ ~failed /\ InterruptsEnabled
    /\ TimesOut(w)
    /\ \A c \in Cores : ~RingHas(ring[c].avail)
    /\ th' = [th EXCEPT ![w].armed = FALSE, ![w].timed_out = TRUE, ![w].woken = TRUE]
    /\ late' = late \cup {w}
    /\ UNCHANGED <<cur, main, task, ring, held, engine, ids, outcome, failed>>

----------------------------------------------------------------------------
(* Workers                                                                 *)

\* Task s of core c is filled in and queued, and w waits: worker_wait_timeout.
Enqueue(w, c, s, pc, id) ==
    /\ task' = [task EXCEPT ![c][s] = [NoTask EXCEPT !.id = id, !.opaque = w]]
    /\ ring' = [ring EXCEPT ![c].avail = RingAdd(@, s)]
    /\ th' = [th EXCEPT ![w] = [Awake EXCEPT !.pc = pc, !.blocked_on = c, !.armed = TRUE,
                                             !.id = id]]
    /\ cur' = MAIN
    /\ UNCHANGED <<main, held, engine>>

\* submit_flash_transaction.  Writing to a task that the FIL has linked into its
\* queues breaks them.
SubmitFlash(w) ==
    /\ ~failed /\ cur = w /\ th[w].pc = "idle" /\ ids + 1 \in Ids
    /\ ids' = ids + 1
    /\ Enqueue(w, "fil", w, "fil", ids + 1)
    /\ failed' = (w \in held)
    /\ UNCHANGED <<outcome, late>>

\* submit_ecc_task.  The task is on the stack, and may lie where an earlier one was
\* that the ECC core still knows of.
SubmitEcc(w) ==
    /\ ~failed /\ cur = w /\ th[w].pc = "idle" /\ ids + 1 \in Ids
    /\ ids' = ids + 1
    /\ Enqueue(w, "ecc", w, "ecc", ids + 1)
    /\ failed' = (w = engine \/ w \in Unread(ring["ecc"].used))
    /\ UNCHANGED <<outcome, late>>

\* The end of the wait of submit_flash_transaction: after a timeout, dump_fil.
FlashWaited(w) ==
    /\ ~failed /\ cur = w /\ th[w].pc = "fil"
    /\ \/ /\ th[w].timed_out
          /\ Enqueue(w, "fil", DUMP, "dump", 0)
       \/ /\ ~th[w].timed_out
          /\ th' = [th EXCEPT ![w].pc = "returned", ![w].result = task["fil"][w].status]
          /\ UNCHANGED <<cur, main, task, ring, held, engine>>
    /\ UNCHANGED <<ids, outcome, late, failed>>

\* The result of the wait of dump_fil is not looked at.
Dumped(w) ==
    /\ ~failed /\ cur = w /\ th[w].pc = "dump"
    /\ th' = [th EXCEPT ![w].pc = "returned", ![w].result = "timeout"]
    /\ UNCHANGED <<cur, main, task, ring, held, engine, ids, outcome, late, failed>>

EccWaited(w) ==
    /\ ~failed /\ cur = w /\ th[w].pc = "ecc"
    /\ th' = [th EXCEPT ![w].pc = "returned",
                        ![w].result = IF th[w].timed_out THEN "timeout"
                                      ELSE task["ecc"][w].status]
    /\ UNCHANGED <<cur, main, task, ring, held, engine, ids, outcome, late, failed>>

\* The caller has its result and goes on.
Return(w) ==
    /\ ~failed /\ cur = w /\ th[w].pc = "returned"
    /\ th' = [th EXCEPT ![w] = Awake]
    /\ UNCHANGED <<cur, main, task, ring, held, engine, ids, outcome, late, failed>>

\* A worker without requests waits for other work: another worker gets the core.
Rest(w) ==
    /\ ~failed /\ cur = w /\ th[w].pc = "idle"
    /\ cur' = MAIN
    /\ th' = [th EXCEPT ![w].woken = (ids + 1 \in Ids)]
    /\ UNCHANGED <<main, task, ring, held, engine, ids, outcome, late, failed>>

----------------------------------------------------------------------------
(* The helper cores                                                        *)

AnswerIncomplete(c, s, status) ==
    /\ task' = [task EXCEPT ![c][s].status = status]
    /\ ring' = [ring EXCEPT ![c].used = RingAdd(@, s)]
    /\ outcome' = IF s \in Workers THEN [outcome EXCEPT ![task[c][s].id] = status]
                  ELSE outcome
AnswerOk(c, s, status) ==
    /\ task' = [task EXCEPT ![c][s].completed = TRUE]
    /\ ring' = [ring EXCEPT ![c].used = RingAdd(@, s)]
    /\ outcome' = IF s \in Workers THEN [outcome EXCEPT ![task[c][s].id] = status]
                  ELSE outcome
\* notify_task_complete: the answer is in the task before the task is on the ring.
Answer(c, s, status) ==
    /\ task' = [task EXCEPT ![c][s].completed = TRUE, ![c][s].status = status]
    /\ ring' = [ring EXCEPT ![c].used = RingAdd(@, s)]
    /\ outcome' = IF s \in Workers THEN [outcome EXCEPT ![task[c][s].id] = status]
                  ELSE outcome

\* dequeue_requests of the FIL core, for one element.
FilTake ==
    LET q == ring["fil"].avail
        s == RingHead(q)
    IN  /\ ~failed /\ RingHas(q)
        /\ IF s = DUMP
           THEN /\ task' = [task EXCEPT !["fil"][DUMP].completed = TRUE]
                /\ ring' = [ring EXCEPT !["fil"] = [avail |-> RingGet(q),
                                                    used |-> RingAdd(@.used, DUMP)]]
                /\ held' = held
           ELSE /\ ring' = [ring EXCEPT !["fil"].avail = RingGet(q)]
                /\ held' = held \cup {s}
                /\ task' = task
        /\ UNCHANGED <<cur, main, th, engine, ids, outcome, late, failed>>

\* The flash operation of task s ends.
FilAnswer(s) ==
    /\ ~failed /\ s \in held
    /\ \E status \in {"ok", "error"} : Answer("fil", s, status)
    /\ held' = held \ {s}
    /\ UNCHANGED <<cur, main, th, engine, ids, late, failed>>

\* dequeue_request of the ECC core: the engine does one task at a time.
EccTake ==
    LET q == ring["ecc"].avail
    IN  /\ ~failed /\ engine = NONE /\ RingHas(q)
        /\ ring' = [ring EXCEPT !["ecc"].avail = RingGet(q)]
        /\ engine' = RingHead(q)
        /\ UNCHANGED <<cur, main, th, task, held, ids, outcome, late, failed>>

\* The engine is ready.  The answer to a caller that has left goes to a stack
\* that is in use for something else.
EccAnswer ==
    /\ ~failed /\ engine # NONE
    /\ \E status \in {"ok", "error"} : Answer("ecc", engine, status)
    /\ failed' = ~OnStack(engine)
    /\ engine' = NONE
    /\ UNCHANGED <<cur, main, th, held, ids, late>>

----------------------------------------------------------------------------
\* An assertion that failed loops for ever; corrupt memory is not followed.
Halted == failed /\ UNCHANGED vars

MainLoop == WaitForEvent \/ Poll("fil") \/ Poll("ecc") \/ NoneRunnable

Step(w) ==
    \/ SubmitFlash(w) \/ SubmitEcc(w) \/ FlashWaited(w) \/ Dumped(w) \/ EccWaited(w)
    \/ Return(w) \/ Rest(w)

Next ==
    \/ MainLoop
    \/ \E w \in Workers : Run(w) \/ Step(w) \/ Timeout(w)
    \/ FilTake \/ EccTake \/ EccAnswer \/ \E s \in Slots : FilAnswer(s)
    \/ Halted

Spec == Init /\ [][Next]_vars

\* The tick ends each wait for an event and each wait that lasts too long, the run
\* queue is first in first out, and the helper cores take what is queued (the ECC
\* engine also ends).  Nothing makes the flash answer.
FairSpec ==
    /\ Spec
    /\ WF_vars(MainLoop)
    /\ \A w \in Workers : SF_vars(Run(w)) /\ WF_vars(Step(w)) /\ SF_vars(Timeout(w))
    /\ WF_vars(FilTake) /\ WF_vars(EccTake) /\ WF_vars(EccAnswer)

----------------------------------------------------------------------------
(* Properties                                                              *)

Threads == [pc : {"idle", "fil", "dump", "ecc", "returned"},
            blocked_on : {"none", "fil", "ecc"}, armed : BOOLEAN, timed_out : BOOLEAN,
            woken : BOOLEAN, id : Ids \cup {0}, result : {"none", "ok", "error", "timeout"}]
Tasks == [id : Ids \cup {0}, completed : BOOLEAN, status : {"ok", "error"},
          opaque : Workers \cup {NONE}]
Rings(n) ==
    [elem : [0..n - 1 -> Slots \cup {NONE}], num : {n}, head : 0..n - 1, tail : 0..n - 1]

\* Type invariant of the exchange.
TypeOK ==
    /\ cur \in Workers \cup {MAIN} /\ main \in {"wfe", "poll_fil", "poll_ecc", "yield"}
    /\ th \in [Workers -> Threads] /\ task \in [Cores -> [Slots -> Tasks]]
    /\ ring \in [Cores -> [avail : Rings(AvailNum), used : Rings(UsedNum)]]
    /\ held \subseteq Workers /\ engine \in Workers \cup {NONE}
    /\ ids \in Ids \cup {0} /\ outcome \in [Ids -> {"none", "ok", "error"}]
    /\ late \subseteq Workers /\ failed \in BOOLEAN

\* A timeout of one worker does no harm to another: a worker that has never timed
\* out gets the result of the request it made, and of no other, whatever late
\* answers and dumps are on their way.
OwnResult ==
    \A w \in Workers \ late :
        th[w].pc = "returned" => th[w].result = outcome[th[w].id]

\* The request of a worker that waits for its first answer is in exactly one
\* place -- on the avail ring, with the helper core, on the used ring -- until
\* the worker has been woken: the rings lose and double nothing when they wrap
\* around.
RequestsKept ==
    \A w \in Workers \ late : ~failed /\ th[w].blocked_on # "none" =>
        LET c == th[w].blocked_on
            places == <<w \in Unread(ring[c].avail), w \in held \/ w = engine,
                        w \in Unread(ring[c].used), th[w].woken>>
        IN  \E i \in 1..4 : places[i] /\ \A j \in (1..4) \ {i} : ~places[j]

\* "we do not touch the task when FIL is processing it so there shouldn't be stale
\* cachelines and task->completed should always be TRUE" (main.c:105), as far as it
\* is true: as long as no wait has timed out, no task is written while a helper
\* core has it, and every task that is polled is completed.
PromptIsSafe == late = {} => ~failed

\* Every request returns, answered or not: no wake-up is lost between the answer,
\* the tick and the wait, and when the FIL never answers the timeouts end both
\* waits.
RequestsReturn ==
    \A w \in Workers : th[w].pc # "idle" ~> th[w].pc = "idle" \/ failed
=============================================================================
