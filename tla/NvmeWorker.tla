----------------------------- MODULE NvmeWorker -----------------------------
(***************************************************************************)
(* The NVMe workers (myssd_sdk/src/hostif/nvme.c, main.c, worker.c): the   *)
(* main loop of the FTL core hands host commands and StorPU tasks to worker *)
(* coroutines through one command slot per worker; worker 0 also serves    *)
(* shutdown requests, which arrive in an interrupt.                        *)
(*                                                                         *)
(* The main loop and the workers share the core (`cur').  Interrupts are   *)
(* enabled while a worker runs and while the main loop waits for an event. *)
(***************************************************************************)
EXTENDS Integers, Sequences, FiniteSets, FiniteSetsExt

CONSTANTS
    NrWorkers,      \* NR_WORKER_THREADS
    NONE,
    Ios,            \* host commands for the FTL or the controller itself
    Zeroes,         \* Write Zeroes commands
    Invokes,        \* storpu_invoke commands
    MaxShutdowns    \* bound: shutdown requests

Workers == 0 .. NrWorkers - 1
SHUTDOWN_THREAD == 0
MAIN == -1

Work(op, id) == [op |-> op, id |-> id]
Commands == {Work("io", c) : c \in Ios} \cup {Work("write_zeroes", c) : c \in Zeroes}
            \cup {Work("invoke", c) : c \in Invokes}
\* A program started by an invoke command may ask the FTL for one transfer.
Tasks == {Work("task", c) : c \in Invokes}

ASSUME NvmeAssumption ==
    /\ NrWorkers \in Nat \ {0} /\ MaxShutdowns \in Nat
    /\ Ios \cap Zeroes = {} /\ Ios \cap Invokes = {} /\ Zeroes \cap Invokes = {}
    /\ NONE \notin Commands \cup Tasks

VARIABLES
    cur,            \* who runs on the core: MAIN or a worker
    main,           \* where the main loop is
    fifo,           \* submission queue entries the controller has fetched
    ftl_avail,      \* ftl_avail_queue, last added first
    slot,           \* nvme_command_slot of each worker, NONE if not valid
    cmd_slot_empty, worker_idle,
    th,             \* per worker: program point, blocked_on, woken, its work
    nvme_shutdown_req, shutdowns,
    spu,            \* the StorPU program of each invoke command
    posted,         \* commands the host has submitted
    done            \* completions: [work, status]

vars == <<cur, main, fifo, ftl_avail, slot, cmd_slot_empty, worker_idle, th,
          nvme_shutdown_req, shutdowns, spu, posted, done>>

Init ==
    /\ cur = MAIN /\ main = "yield"
    /\ fifo = <<>> /\ ftl_avail = <<>>
    /\ slot = [w \in Workers |-> NONE]
    /\ cmd_slot_empty = {} /\ worker_idle = {}
    /\ th = [w \in Workers |-> [pc |-> "boot", blocked_on |-> "none", woken |-> TRUE,
                                work |-> NONE]]
    /\ nvme_shutdown_req = FALSE /\ shutdowns = 0
    /\ spu = [c \in Invokes |-> "none"]
    /\ posted = {} /\ done = {}

----------------------------------------------------------------------------
(* worker_wait, worker_wake and the scheduler                              *)

\* worker_wake: only a worker that waits for this.
Wake(ths, w, why) ==
    IF ths[w].blocked_on = why THEN [ths EXCEPT ![w].woken = TRUE] ELSE ths

\* The worker goes on at pc.
Goto(w, rec, pc) == th' = [th EXCEPT ![w] = [rec EXCEPT !.pc = pc]] /\ UNCHANGED <<cur, main>>
\* worker_wait: the worker sleeps, the others get their turn.
Sleep(w, rec, pc, why) ==
    /\ th' = [th EXCEPT ![w] = [rec EXCEPT !.pc = pc, !.blocked_on = why, !.woken = FALSE]]
    /\ cur' = MAIN /\ UNCHANGED main

\* coro_yield_all runs every runnable worker; worker_resume ends its wait.
Run(w) ==
    /\ cur = MAIN /\ main = "yield"
    /\ th[w].woken
    /\ cur' = w
    /\ th' = [th EXCEPT ![w].woken = FALSE, ![w].blocked_on = "none"]
    /\ UNCHANGED <<main, fifo, ftl_avail, slot, cmd_slot_empty, worker_idle,
                   nvme_shutdown_req, shutdowns, spu, posted, done>>

NoneRunnable ==
    /\ cur = MAIN /\ main = "yield"
    /\ \A w \in Workers : ~th[w].woken
    /\ main' = "wfe"
    /\ UNCHANGED <<cur, fifo, ftl_avail, slot, cmd_slot_empty, worker_idle, th,
                   nvme_shutdown_req, shutdowns, spu, posted, done>>

InterruptsEnabled == cur \in Workers \/ main = "wfe"

----------------------------------------------------------------------------
(* The main loop                                                           *)

\* The worker nvme_worker_dispatch chooses: an idle one if there is one, else any
\* with an empty slot.
Pick ==
    LET both == worker_idle \cap cmd_slot_empty
    IN  IF both # {} THEN Min(both)
        ELSE IF cmd_slot_empty # {} THEN Min(cmd_slot_empty)
        ELSE NONE

\* nvme_worker_dispatch, nvme_worker_dispatch_storpu.
Dispatch(w, work) ==
    /\ slot' = [slot EXCEPT ![w] = work]
    /\ cmd_slot_empty' = cmd_slot_empty \ {w}
    /\ th' = Wake(th, w, "nvme_sq")

WaitForEvent ==
    /\ cur = MAIN /\ main = "wfe"
    /\ main' = "nvme"
    /\ UNCHANGED <<cur, fifo, ftl_avail, slot, cmd_slot_empty, worker_idle, th,
                   nvme_shutdown_req, shutdowns, spu, posted, done>>

PollNvme ==
    /\ cur = MAIN /\ main = "nvme"
    /\ \/ /\ fifo # <<>> /\ Pick # NONE
          /\ Dispatch(Pick, Head(fifo))
          /\ fifo' = Tail(fifo) /\ UNCHANGED main
       \/ /\ fifo = <<>> \/ Pick = NONE
          /\ main' = "storpu"
          /\ UNCHANGED <<fifo, slot, cmd_slot_empty, th>>
    /\ UNCHANGED <<cur, ftl_avail, worker_idle, nvme_shutdown_req, shutdowns, spu,
                   posted, done>>

NotDispatchedDropped == IF ftl_avail = <<>> THEN ftl_avail ELSE Tail(ftl_avail)
\* A task that is not dispatched is put back at the head of the queue.
NotDispatched == ftl_avail

PollStorpu ==
    /\ cur = MAIN /\ main = "storpu"
    /\ \/ /\ ftl_avail # <<>> /\ Pick # NONE
          /\ Dispatch(Pick, Head(ftl_avail))
          /\ ftl_avail' = Tail(ftl_avail) /\ UNCHANGED main
       \/ /\ ftl_avail = <<>> \/ Pick = NONE
          /\ ftl_avail' = NotDispatched
          /\ main' = "yield"
          /\ UNCHANGED <<slot, cmd_slot_empty, th>>
    /\ UNCHANGED <<cur, fifo, worker_idle, nvme_shutdown_req, shutdowns, spu, posted, done>>

----------------------------------------------------------------------------
(* nvme_worker_main                                                        *)

Boot(w) ==
    /\ cur = w /\ th[w].pc = "boot"
    /\ cmd_slot_empty' = cmd_slot_empty \cup {w}
    /\ Goto(w, th[w], "check")
    /\ UNCHANGED <<fifo, ftl_avail, slot, worker_idle, nvme_shutdown_req, shutdowns,
                   spu, posted, done>>

ShutdownDue(w) == nvme_shutdown_req /\ w = SHUTDOWN_THREAD

\* nvme_worker_get_work, the first look at the shutdown request.
CheckShutdown(w) ==
    /\ cur = w /\ th[w].pc = "check"
    /\ Goto(w, th[w], IF ShutdownDue(w) THEN "shutdown" ELSE "look")
    /\ UNCHANGED <<fifo, ftl_avail, slot, cmd_slot_empty, worker_idle,
                   nvme_shutdown_req, shutdowns, spu, posted, done>>

TakeSlotKept(w) ==
    /\ cmd_slot_empty' = cmd_slot_empty \cup {w}
    /\ Goto(w, [th[w] EXCEPT !.work = slot[w]], "body")
    /\ UNCHANGED slot
\* The command in the worker's slot is its work now.  A worker that was woken for
\* nothing leaves the loop of nvme_worker_main.
TakeSlot(w) ==
    LET found == slot[w] # NONE
    IN  /\ slot' = [slot EXCEPT ![w] = NONE]
        /\ cmd_slot_empty' = cmd_slot_empty \cup {w}
        /\ th' = [th EXCEPT ![w].work = slot[w], ![w].pc = IF found THEN "body" ELSE "exit"]
        /\ cur' = (IF found THEN w ELSE MAIN) /\ UNCHANGED main

\* The rest of nvme_worker_get_work up to the wait: the slot, the submission
\* queues, the StorPU tasks, and if there is nothing the worker is idle.
Look(w) ==
    /\ cur = w /\ th[w].pc = "look"
    /\ \/ /\ slot[w] # NONE
          /\ TakeSlot(w)
          /\ UNCHANGED <<fifo, ftl_avail, worker_idle>>
       \/ /\ slot[w] = NONE /\ fifo # <<>>
          /\ Goto(w, [th[w] EXCEPT !.work = Head(fifo)], "body")
          /\ fifo' = Tail(fifo)
          /\ UNCHANGED <<slot, cmd_slot_empty, ftl_avail, worker_idle>>
       \/ /\ slot[w] = NONE /\ fifo = <<>> /\ ftl_avail # <<>>
          /\ Goto(w, [th[w] EXCEPT !.work = Head(ftl_avail)], "body")
          /\ ftl_avail' = Tail(ftl_avail)
          /\ UNCHANGED <<slot, cmd_slot_empty, fifo, worker_idle>>
       \/ /\ slot[w] = NONE /\ fifo = <<>> /\ ftl_avail = <<>>
          /\ worker_idle' = worker_idle \cup {w}
          /\ Goto(w, th[w], "wait")
          /\ UNCHANGED <<slot, cmd_slot_empty, fifo, ftl_avail>>
    /\ UNCHANGED <<nvme_shutdown_req, shutdowns, spu, posted, done>>

WaitForWork(w) ==
    /\ cur = w /\ th[w].pc = "wait"
    /\ Sleep(w, th[w], "waiting", "nvme_sq")
    /\ UNCHANGED <<fifo, ftl_avail, slot, cmd_slot_empty, worker_idle,
                   nvme_shutdown_req, shutdowns, spu, posted, done>>

\* The end of nvme_worker_get_work.
GotWork(w) ==
    /\ cur = w /\ th[w].pc = "waiting"
    /\ worker_idle' = worker_idle \ {w}
    /\ \/ ShutdownDue(w) /\ Goto(w, th[w], "shutdown") /\ UNCHANGED <<slot, cmd_slot_empty>>
       \/ ~ShutdownDue(w) /\ TakeSlot(w)
    /\ UNCHANGED <<fifo, ftl_avail, nvme_shutdown_req, shutdowns, spu, posted, done>>

\* The body of the loop looks at the shutdown request again, work or not.
Body(w) ==
    /\ cur = w /\ th[w].pc = "body"
    /\ Goto(w, th[w], IF ShutdownDue(w) THEN "shutdown" ELSE "process")
    /\ UNCHANGED <<fifo, ftl_avail, slot, cmd_slot_empty, worker_idle,
                   nvme_shutdown_req, shutdowns, spu, posted, done>>

\* ftl_shutdown writes to the flash.
Shutdown(w) ==
    /\ cur = w /\ th[w].pc = "shutdown"
    /\ Sleep(w, th[w], "shutting", "ftl")
    /\ UNCHANGED <<fifo, ftl_avail, slot, cmd_slot_empty, worker_idle,
                   nvme_shutdown_req, shutdowns, spu, posted, done>>

ShutdownDone(w) ==
    /\ cur = w /\ th[w].pc = "shutting"
    /\ nvme_shutdown_req' = FALSE
    /\ Goto(w, th[w], IF th[w].work = NONE THEN "check" ELSE "process")
    /\ UNCHANGED <<fifo, ftl_avail, slot, cmd_slot_empty, worker_idle, shutdowns, spu,
                   posted, done>>

\* process_storpu_task, process_admin_command, process_io_command: wait for the
\* flash or for the StorPU; an opcode process_io_command does not know fails.
Process(w) ==
    LET work == th[w].work
    IN  /\ cur = w /\ th[w].pc = "process"
        /\ \/ /\ work.op \in {"io", "task"}
              /\ Sleep(w, th[w], "busy", "ftl")
              /\ UNCHANGED <<spu, done>>
           \/ /\ work.op = "invoke"
              /\ spu' = [spu EXCEPT ![work.id] = "running"]
              /\ Sleep(w, th[w], "busy", "storpu")
              /\ UNCHANGED done
           \/ /\ work.op = "write_zeroes"
              /\ done' = done \cup {[work |-> work, status |-> "INVALID_OPCODE"]}
              /\ Goto(w, [th[w] EXCEPT !.work = NONE], "check")
              /\ UNCHANGED spu
        /\ UNCHANGED <<fifo, ftl_avail, slot, cmd_slot_empty, worker_idle,
                       nvme_shutdown_req, shutdowns, posted>>

\* The command completes (nvme_pcie_post_cqe), or the task
\* (enqueue_storpu_ftl_completion).
Finish(w) ==
    LET work == th[w].work
    IN  /\ cur = w /\ th[w].pc = "busy"
        /\ done' = done \cup {[work |-> work, status |-> "SUCCESS"]}
        /\ spu' = IF work.op = "task" THEN [spu EXCEPT ![work.id] = "served"] ELSE spu
        /\ Goto(w, [th[w] EXCEPT !.work = NONE], "check")
        /\ UNCHANGED <<fifo, ftl_avail, slot, cmd_slot_empty, worker_idle,
                       nvme_shutdown_req, shutdowns, posted>>

----------------------------------------------------------------------------
(* The host, the flash and the StorPU                                      *)

Submit(c) ==
    /\ c \notin posted
    /\ posted' = posted \cup {c} /\ fifo' = Append(fifo, c)
    /\ UNCHANGED <<cur, main, ftl_avail, slot, cmd_slot_empty, worker_idle, th,
                   nvme_shutdown_req, shutdowns, spu, done>>

\* The answer of the flash or of a transfer wakes the worker.
Answer(w) ==
    /\ th[w].blocked_on = "ftl" /\ ~th[w].woken
    /\ th' = Wake(th, w, "ftl")
    /\ UNCHANGED <<cur, main, fifo, ftl_avail, slot, cmd_slot_empty, worker_idle,
                   nvme_shutdown_req, shutdowns, spu, posted, done>>

\* The program of invoke command c asks the FTL for a transfer and waits.
SpuCall(c) ==
    /\ spu[c] = "running"
    /\ spu' = [spu EXCEPT ![c] = "waiting"]
    /\ ftl_avail' = <<Work("task", c)>> \o ftl_avail
    /\ UNCHANGED <<cur, main, fifo, slot, cmd_slot_empty, worker_idle, th,
                   nvme_shutdown_req, shutdowns, posted, done>>

\* The program ends: handle_storpu_completion, in an interrupt.
SpuExit(c) ==
    /\ InterruptsEnabled
    /\ spu[c] \in {"running", "served"}
    /\ spu' = [spu EXCEPT ![c] = "exited"]
    /\ \E w \in Workers : th[w].work = Work("invoke", c) /\ th' = Wake(th, w, "storpu")
    /\ UNCHANGED <<cur, main, fifo, ftl_avail, slot, cmd_slot_empty, worker_idle,
                   nvme_shutdown_req, shutdowns, posted, done>>

\* nvme_request_shutdown, in an interrupt.
RequestShutdown ==
    /\ InterruptsEnabled
    /\ shutdowns < MaxShutdowns /\ shutdowns' = shutdowns + 1
    /\ nvme_shutdown_req' = TRUE
    /\ th' = Wake(th, SHUTDOWN_THREAD, "nvme_sq")
    /\ UNCHANGED <<cur, main, fifo, ftl_avail, slot, cmd_slot_empty, worker_idle, spu,
                   posted, done>>

MainLoop == WaitForEvent \/ PollNvme \/ PollStorpu \/ NoneRunnable

Step(w) ==
    \/ Boot(w) \/ CheckShutdown(w) \/ Look(w) \/ WaitForWork(w) \/ GotWork(w) \/ Body(w)
    \/ Shutdown(w) \/ ShutdownDone(w) \/ Process(w) \/ Finish(w)

Next ==
    \/ MainLoop
    \/ \E w \in Workers : Run(w) \/ Step(w) \/ Answer(w)
    \/ \E c \in Commands : Submit(c)
    \/ \E c \in Invokes : SpuCall(c) \/ SpuExit(c)
    \/ RequestShutdown

Spec == Init /\ [][Next]_vars

\* The tick interrupt ends each wait for an event, the run queue is first in
\* first out, the flash answers or times out, and programs end.
FairSpec ==
    /\ Spec
    /\ WF_vars(MainLoop)
    /\ \A w \in Workers : SF_vars(Run(w)) /\ WF_vars(Step(w)) /\ WF_vars(Answer(w))
    /\ \A c \in Invokes : SF_vars(SpuExit(c))

----------------------------------------------------------------------------
(* Properties                                                              *)

Pcs == {"boot", "check", "look", "wait", "waiting", "body", "shutdown", "shutting",
        "process", "busy", "exit"}
Threads == [pc : Pcs, blocked_on : {"none", "nvme_sq", "ftl", "storpu"},
            woken : BOOLEAN, work : Commands \cup Tasks \cup {NONE}]

\* Type invariant of the front end's state.
TypeOK ==
    /\ cur \in Workers \cup {MAIN} /\ main \in {"wfe", "nvme", "storpu", "yield"}
    /\ fifo \in Seq(Commands) /\ ftl_avail \in Seq(Tasks)
    /\ slot \in [Workers -> Commands \cup Tasks \cup {NONE}]
    /\ cmd_slot_empty \subseteq Workers /\ worker_idle \subseteq Workers
    /\ th \in [Workers -> Threads]
    /\ nvme_shutdown_req \in BOOLEAN /\ shutdowns \in 0..MaxShutdowns
    /\ spu \in [Invokes -> {"none", "running", "waiting", "served", "exited"}]
    /\ posted \subseteq Commands
    /\ done \subseteq [work : Commands \cup Tasks, status : {"SUCCESS", "INVALID_OPCODE"}]

\* The assertions of nvme_worker_dispatch and nvme_worker_get_work: a worker's bit
\* in cmd_slot_empty says whether its slot is free, whoever looks at it.
SlotsAgree ==
    \A w \in Workers : th[w].pc # "boot" => (slot[w] = NONE <=> w \in cmd_slot_empty)

\* nvme_worker_main is left only by a worker that is woken without work; none ever
\* is, so no worker is lost: not by a shutdown request that arrives before, during
\* or after the wait for work, nor together with a command.
WorkersStay == \A w \in Workers : th[w].pc # "exit"

\* How many times work x is somewhere between submission and completion.
Count(x) ==
    Cardinality({i \in DOMAIN fifo : fifo[i] = x})
    + Cardinality({i \in DOMAIN ftl_avail : ftl_avail[i] = x})
    + Cardinality({w \in Workers : slot[w] = x})
    + Cardinality({w \in Workers : th[w].work = x})
    + Cardinality({d \in done : d.work = x})

\* A submitted command and a task of a running program are in exactly one place:
\* none is dropped or executed twice while the main loop and the workers take
\* them from the queues and the slots.
WorkKept ==
    /\ \A c \in Commands : Count(c) = IF c \in posted THEN 1 ELSE 0
    /\ \A c \in Invokes : spu[c] \in {"waiting", "served"} => Count(Work("task", c)) = 1

\* A command or task in a slot is never forgotten: its worker is on its way to
\* look at the slot, or has been woken for it.
SlotWatched ==
    \A w \in Workers : slot[w] # NONE /\ th[w].pc = "waiting" /\ cur # w => th[w].woken

\* The transfer that the program of invoke command id asks for is in the slot of a
\* worker which itself waits for a program.
TaskBehindInvoke(id) ==
    \E w \in Workers : /\ slot[w] = Work("task", id)
                       /\ th[w].pc = "busy" /\ th[w].work.op = "invoke"


\* The shutdown request "is the MOST urgent" (nvme.c:668): it is served even if the
\* host sends nothing more.
ShutdownServed == nvme_shutdown_req ~> ~nvme_shutdown_req
=============================================================================
