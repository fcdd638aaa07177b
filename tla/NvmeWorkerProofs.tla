-------------------------- MODULE NvmeWorkerProofs --------------------------
(***************************************************************************)
(* Any number of workers and of commands: the slots and their bitmap       *)
(* agree, no command waits in the slot of a worker that sleeps, no worker  *)
(* is ever woken without work, and no command or StorPU task is lost or    *)
(* handled twice.                                                          *)
(***************************************************************************)
EXTENDS NvmeWorker, FiniteSetTheorems, WellFoundedInduction, TLAPS

\* Where worker w may be: it sleeps for what it waits for, or has the core.
Waits(w) ==
    \/ th[w].pc = "boot" /\ th[w].blocked_on = "none" /\ th[w].woken
    \/ th[w].pc = "waiting" /\ th[w].blocked_on = "nvme_sq"
    \/ th[w].pc = "shutting" /\ th[w].blocked_on = "ftl"
    \/ th[w].pc = "busy" /\ th[w].blocked_on \in {"ftl", "storpu"}
Runs(w) == th[w].blocked_on = "none" /\ ~th[w].woken /\ th[w].pc # "exit"

\* There is a reason to wake w: work in its slot or a shutdown request.
Wanted(w) == slot[w] # NONE \/ ShutdownDue(w)

Good(w) ==
    /\ IF cur = w THEN Runs(w) ELSE Waits(w)
    /\ th[w].pc \in {"shutdown", "shutting"} => w = SHUTDOWN_THREAD
    /\ th[w].pc = "boot" => slot[w] = NONE /\ w \notin cmd_slot_empty
    /\ th[w].pc # "boot" => (slot[w] = NONE <=> w \in cmd_slot_empty)
    /\ th[w].pc = "wait" => slot[w] = NONE
    /\ th[w].pc = "waiting" /\ cur # w /\ slot[w] # NONE => th[w].woken
    /\ th[w].pc = "waiting" /\ (cur = w \/ th[w].woken) => Wanted(w)
    /\ th[w].pc \in {"body", "process", "busy"} => th[w].work \in Commands \cup Tasks

\* The inductive invariant.
Inv == TypeOK /\ \A w \in Workers : Good(w)

LEMMA MainApart == MAIN \notin Workers
BY DEF MAIN, Workers

\* A worker that is picked has an empty slot.
LEMMA PickEmpty == ASSUME TypeOK, Pick # NONE PROVE Pick \in cmd_slot_empty
<1>1. ASSUME NEW S \in SUBSET Workers, S # {} PROVE Min(S) \in S
  <2>1. S \subseteq Nat
    BY NvmeAssumption DEF Workers
  <2>2. PICK x \in S : \A y \in S : ~(<<y, x>> \in OpToRel(<, Nat))
    BY ZenonT(60), <1>1, <2>1, NatLessThanWellFounded, WFMin
  <2>3. \A y \in S : ~(y < x)
    BY <2>1, <2>2, Zenon DEF OpToRel
  <2>4. \A y \in S : x <= y
    BY <2>1, <2>3
  <2> QED BY <2>4 DEF Min
<1>2. worker_idle \cap cmd_slot_empty \in SUBSET Workers /\ cmd_slot_empty \in SUBSET Workers
  BY DEF TypeOK
<1> QED BY <1>1, <1>2 DEF Pick

LEMMA InitInv == Init => Inv
<1> SUFFICES ASSUME Init PROVE Inv
  OBVIOUS
<1>1. TypeOK
  <2>1. fifo \in Seq(Commands) /\ ftl_avail \in Seq(Tasks)
    BY DEF Init
  <2>2. th \in [Workers -> Threads]
    BY DEF Init, Threads, Pcs
  <2>3. shutdowns \in 0..MaxShutdowns
    BY NvmeAssumption DEF Init
  <2> QED BY ZenonT(60), <2>1, <2>2, <2>3 DEF Init, TypeOK
<1>2. ASSUME NEW w \in Workers PROVE Good(w)
  BY MainApart DEF Init, Good, Waits
<1> QED BY <1>1, <1>2 DEF Inv

\* What a step of the running worker w leaves of another one, v.
LEMMA Others ==
  ASSUME Inv, NEW w \in Workers, cur = w, cur' \in {w, MAIN},
         NEW v \in Workers, v # w, th'[v] = th[v], slot'[v] = slot[v],
         v \in cmd_slot_empty' <=> v \in cmd_slot_empty,
         ShutdownDue(v)' <=> ShutdownDue(v)
  PROVE  Good(v)'
BY MainApart DEF Inv, Good, Runs, Waits, Wanted

\* Worker w goes on at program point p, with its work or without.
LEMMA GoesOn ==
  ASSUME Inv, NEW w \in Workers, NEW p \in Pcs, NEW x \in Commands \cup Tasks \cup {NONE},
         th' = [th EXCEPT ![w] = [[th[w] EXCEPT !.work = x] EXCEPT !.pc = p]]
  PROVE  /\ th' \in [Workers -> Threads]
         /\ th'[w].pc = p /\ th'[w].work = x
         /\ th'[w].blocked_on = th[w].blocked_on /\ th'[w].woken = th[w].woken
         /\ \A v \in Workers : v # w => th'[v] = th[v]
BY ZenonT(60) DEF Inv, TypeOK, Threads

LEMMA BootKeeps == ASSUME Inv, NEW w \in Workers, Boot(w) PROVE Inv'
<1>1. TypeOK'
  BY ZenonT(60) DEF Inv, TypeOK, Threads, Pcs, Boot, Goto
<1>2. Good(w)'
  BY MainApart DEF Inv, TypeOK, Good, Runs, Waits, Wanted, Boot, Goto
<1>3. ASSUME NEW v \in Workers, v # w PROVE Good(v)'
  BY <1>3, Others DEF Inv, TypeOK, Good, ShutdownDue, Boot, Goto
<1> QED BY <1>1, <1>2, <1>3 DEF Inv

LEMMA CheckShutdownKeeps == ASSUME Inv, NEW w \in Workers, CheckShutdown(w) PROVE Inv'
<1> DEFINE p == IF ShutdownDue(w) THEN "shutdown" ELSE "look"
<1>1. p \in Pcs /\ th[w].work \in Commands \cup Tasks \cup {NONE}
  BY DEF Inv, TypeOK, Threads, Pcs
<1>2. /\ th' \in [Workers -> Threads] /\ th'[w].pc = p /\ th'[w].work = th[w].work
      /\ th'[w].blocked_on = th[w].blocked_on /\ th'[w].woken = th[w].woken
      /\ \A v \in Workers : v # w => th'[v] = th[v]
  <2>1. th' = [th EXCEPT ![w] = [[th[w] EXCEPT !.work = th[w].work] EXCEPT !.pc = p]]
    BY ZenonT(60) DEF CheckShutdown, Goto, Inv, TypeOK, Threads
  <2> HIDE DEF p
  <2> QED BY ZenonT(60), <1>1, <2>1, GoesOn
<1>3. TypeOK'
  BY <1>2 DEF Inv, TypeOK, CheckShutdown, Goto
<1>4. Good(w)'
  BY <1>2, MainApart DEF Inv, Good, Runs, Waits, Wanted, ShutdownDue, CheckShutdown, Goto
<1>5. ASSUME NEW v \in Workers, v # w PROVE Good(v)'
  BY <1>2, <1>5, Others DEF Inv, TypeOK, Good, ShutdownDue, CheckShutdown, Goto
<1> QED BY <1>3, <1>4, <1>5 DEF Inv

LEMMA WaitForWorkKeeps == ASSUME Inv, NEW w \in Workers, WaitForWork(w) PROVE Inv'
<1>1. TypeOK'
  BY ZenonT(60) DEF Inv, TypeOK, Threads, Pcs, WaitForWork, Sleep
<1>2. Good(w)'
  BY MainApart DEF Inv, TypeOK, Good, Runs, Waits, Wanted, WaitForWork, Sleep
<1>3. ASSUME NEW v \in Workers, v # w PROVE Good(v)'
  BY <1>3, Others DEF Inv, TypeOK, Good, ShutdownDue, WaitForWork, Sleep
<1> QED BY <1>1, <1>2, <1>3 DEF Inv

LEMMA BodyKeeps == ASSUME Inv, NEW w \in Workers, Body(w) PROVE Inv'
<1> DEFINE p == IF ShutdownDue(w) THEN "shutdown" ELSE "process"
<1>1. p \in Pcs /\ th[w].work \in Commands \cup Tasks \cup {NONE}
  BY DEF Inv, TypeOK, Threads, Pcs
<1>2. /\ th' \in [Workers -> Threads] /\ th'[w].pc = p /\ th'[w].work = th[w].work
      /\ th'[w].blocked_on = th[w].blocked_on /\ th'[w].woken = th[w].woken
      /\ \A v \in Workers : v # w => th'[v] = th[v]
  <2>1. th' = [th EXCEPT ![w] = [[th[w] EXCEPT !.work = th[w].work] EXCEPT !.pc = p]]
    BY ZenonT(60) DEF Body, Goto, Inv, TypeOK, Threads
  <2> HIDE DEF p
  <2> QED BY ZenonT(60), <1>1, <2>1, GoesOn
<1>3. TypeOK'
  BY <1>2 DEF Inv, TypeOK, Body, Goto
<1>4. Good(w)'
  BY <1>2, MainApart DEF Inv, Good, Runs, Waits, Wanted, ShutdownDue, Body, Goto
<1>5. ASSUME NEW v \in Workers, v # w PROVE Good(v)'
  BY <1>2, <1>5, Others DEF Inv, TypeOK, Good, ShutdownDue, Body, Goto
<1> QED BY <1>3, <1>4, <1>5 DEF Inv

LEMMA ShutdownKeeps == ASSUME Inv, NEW w \in Workers, Shutdown(w) PROVE Inv'
<1>1. TypeOK'
  BY ZenonT(60) DEF Inv, TypeOK, Threads, Pcs, Shutdown, Sleep
<1>2. Good(w)'
  BY MainApart DEF Inv, TypeOK, Good, Runs, Waits, Wanted, Shutdown, Sleep
<1>3. ASSUME NEW v \in Workers, v # w PROVE Good(v)'
  BY <1>3, Others DEF Inv, TypeOK, Good, ShutdownDue, Shutdown, Sleep
<1> QED BY <1>1, <1>2, <1>3 DEF Inv

LEMMA ShutdownDoneKeeps == ASSUME Inv, NEW w \in Workers, ShutdownDone(w) PROVE Inv'
<1> DEFINE p == IF th[w].work = NONE THEN "check" ELSE "process"
<1>1. p \in Pcs /\ th[w].work \in Commands \cup Tasks \cup {NONE}
  BY DEF Inv, TypeOK, Threads, Pcs
<1>2. /\ th' \in [Workers -> Threads] /\ th'[w].pc = p /\ th'[w].work = th[w].work
      /\ th'[w].blocked_on = th[w].blocked_on /\ th'[w].woken = th[w].woken
      /\ \A v \in Workers : v # w => th'[v] = th[v]
  <2>1. th' = [th EXCEPT ![w] = [[th[w] EXCEPT !.work = th[w].work] EXCEPT !.pc = p]]
    BY ZenonT(60) DEF ShutdownDone, Goto, Inv, TypeOK, Threads
  <2> HIDE DEF p
  <2> QED BY ZenonT(60), <1>1, <2>1, GoesOn
<1>3. TypeOK'
  BY ZenonT(60), <1>2 DEF Inv, TypeOK, ShutdownDone, Goto
<1>4. Good(w)'
  BY <1>1, <1>2, MainApart DEF Inv, Good, Runs, Waits, Wanted, ShutdownDue, ShutdownDone, Goto
<1>5. ASSUME NEW v \in Workers, v # w PROVE Good(v)'
  BY <1>2, <1>5, Others DEF Inv, TypeOK, Good, ShutdownDue, ShutdownDone, Goto
<1> QED BY <1>3, <1>4, <1>5 DEF Inv

\* The worker takes the command from its slot.
LEMMA TakeSlotKeeps ==
  ASSUME Inv, NEW w \in Workers, cur = w, th[w].pc \in {"look", "waiting"}, slot[w] # NONE,
         TakeSlot(w), nvme_shutdown_req' = nvme_shutdown_req
  PROVE  /\ th' \in [Workers -> Threads] /\ slot' \in [Workers -> Commands \cup Tasks \cup {NONE}]
         /\ cmd_slot_empty' \subseteq Workers /\ cur' = w /\ main' = main
         /\ \A v \in Workers : Good(v)'
<1>1. slot[w] \in Commands \cup Tasks /\ "body" \in Pcs
  BY DEF Inv, TypeOK, Pcs
<1>2. th' = [th EXCEPT ![w] = [[th[w] EXCEPT !.work = slot[w]] EXCEPT !.pc = "body"]]
  BY DEF TakeSlot, Inv, TypeOK, Threads
<1>3. /\ th' \in [Workers -> Threads] /\ th'[w].pc = "body" /\ th'[w].work = slot[w]
      /\ th'[w].blocked_on = th[w].blocked_on /\ th'[w].woken = th[w].woken
      /\ \A v \in Workers : v # w => th'[v] = th[v]
  BY ZenonT(60), <1>1, <1>2, GoesOn
<1>4. /\ slot' = [slot EXCEPT ![w] = NONE] /\ cmd_slot_empty' = cmd_slot_empty \cup {w}
      /\ cur' = w /\ main' = main
  BY DEF TakeSlot
<1>5. Good(w)'
  BY <1>1, <1>3, <1>4 DEF Inv, TypeOK, Good, Runs
<1>6. ASSUME NEW v \in Workers, v # w PROVE Good(v)'
  BY <1>3, <1>4, <1>6, Others DEF Inv, TypeOK, ShutdownDue
<1> QED BY <1>3, <1>4, <1>5, <1>6 DEF Inv, TypeOK

\* The worker takes work x from a queue.
LEMMA TakeWorkKeeps ==
  ASSUME Inv, NEW w \in Workers, cur = w, th[w].pc = "look", NEW x \in Commands \cup Tasks,
         Goto(w, [th[w] EXCEPT !.work = x], "body"),
         UNCHANGED <<slot, cmd_slot_empty, nvme_shutdown_req>>
  PROVE  th' \in [Workers -> Threads] /\ \A v \in Workers : Good(v)'
<1>1. /\ th' \in [Workers -> Threads] /\ th'[w].pc = "body" /\ th'[w].work = x
      /\ th'[w].blocked_on = th[w].blocked_on /\ th'[w].woken = th[w].woken
      /\ \A v \in Workers : v # w => th'[v] = th[v]
  <2>1. "body" \in Pcs
    BY DEF Pcs
  <2> QED BY ZenonT(60), <2>1, GoesOn DEF Goto
<1>2. Good(w)'
  BY <1>1 DEF Inv, TypeOK, Good, Runs, Goto
<1>3. ASSUME NEW v \in Workers, v # w PROVE Good(v)'
  BY <1>1, <1>3, Others DEF Inv, TypeOK, ShutdownDue, Goto
<1> QED BY <1>1, <1>2, <1>3

LEMMA LookKeeps == ASSUME Inv, NEW w \in Workers, Look(w) PROVE Inv'
<1>0. /\ cur = w /\ th[w].pc = "look"
      /\ UNCHANGED <<nvme_shutdown_req, shutdowns, spu, posted, done>>
  BY DEF Look
<1>1. CASE slot[w] # NONE
  <2>1. TakeSlot(w) /\ UNCHANGED <<fifo, ftl_avail, worker_idle>>
    BY <1>1 DEF Look
  <2> QED BY <1>0, <1>1, <2>1, TakeSlotKeeps DEF Inv, TypeOK
<1>2. CASE slot[w] = NONE /\ fifo # <<>>
  <2>1. /\ Goto(w, [th[w] EXCEPT !.work = Head(fifo)], "body") /\ fifo' = Tail(fifo)
        /\ UNCHANGED <<slot, cmd_slot_empty, ftl_avail, worker_idle>>
    BY <1>2 DEF Look
  <2>2. Head(fifo) \in Commands \cup Tasks /\ fifo' \in Seq(Commands)
    BY <1>2, <2>1 DEF Inv, TypeOK
  <2>3. th' \in [Workers -> Threads] /\ \A v \in Workers : Good(v)'
    BY <1>0, <2>1, <2>2, TakeWorkKeeps
  <2> QED BY <1>0, <2>1, <2>2, <2>3 DEF Inv, TypeOK, Goto
<1>3. CASE slot[w] = NONE /\ fifo = <<>> /\ ftl_avail # <<>>
  <2>1. /\ Goto(w, [th[w] EXCEPT !.work = Head(ftl_avail)], "body")
        /\ ftl_avail' = Tail(ftl_avail)
        /\ UNCHANGED <<slot, cmd_slot_empty, fifo, worker_idle>>
    BY <1>3 DEF Look
  <2>2. Head(ftl_avail) \in Commands \cup Tasks /\ ftl_avail' \in Seq(Tasks)
    BY <1>3, <2>1 DEF Inv, TypeOK
  <2>3. th' \in [Workers -> Threads] /\ \A v \in Workers : Good(v)'
    BY ZenonT(60), <1>0, <2>1, <2>2, TakeWorkKeeps
  <2> QED BY <1>0, <2>1, <2>2, <2>3 DEF Inv, TypeOK, Goto
<1>4. CASE slot[w] = NONE /\ fifo = <<>> /\ ftl_avail = <<>>
  <2>1. /\ Goto(w, th[w], "wait") /\ worker_idle' = worker_idle \cup {w}
        /\ UNCHANGED <<slot, cmd_slot_empty, fifo, ftl_avail>>
    BY <1>4 DEF Look
  <2>2. /\ th' \in [Workers -> Threads] /\ th'[w].pc = "wait"
        /\ th'[w].blocked_on = th[w].blocked_on /\ th'[w].woken = th[w].woken
        /\ \A v \in Workers : v # w => th'[v] = th[v]
    BY ZenonT(60), <2>1 DEF Goto, Inv, TypeOK, Threads, Pcs
  <2>3. Good(w)'
    BY <1>0, <1>4, <2>1, <2>2 DEF Inv, TypeOK, Good, Runs, Goto
  <2>4. ASSUME NEW v \in Workers, v # w PROVE Good(v)'
    BY <1>0, <2>1, <2>2, <2>4, Others DEF Inv, TypeOK, ShutdownDue, Goto
  <2> QED BY <1>0, <2>1, <2>2, <2>3, <2>4 DEF Inv, TypeOK, Goto
<1> QED BY <1>1, <1>2, <1>3, <1>4

\* The wait has ended for a reason: there is a command in the slot, unless the worker
\* is the one that serves a shutdown request.
LEMMA GotWorkKeeps == ASSUME Inv, NEW w \in Workers, GotWork(w) PROVE Inv'
<1>0. /\ cur = w /\ th[w].pc = "waiting" /\ worker_idle' = worker_idle \ {w}
      /\ UNCHANGED <<fifo, ftl_avail, nvme_shutdown_req, shutdowns, spu, posted, done>>
  BY DEF GotWork
<1>1. CASE ShutdownDue(w)
  <2>1. Goto(w, th[w], "shutdown") /\ UNCHANGED <<slot, cmd_slot_empty>>
    BY <1>1 DEF GotWork
  <2>2. /\ th' \in [Workers -> Threads] /\ th'[w].pc = "shutdown"
        /\ th'[w].blocked_on = th[w].blocked_on /\ th'[w].woken = th[w].woken
        /\ \A v \in Workers : v # w => th'[v] = th[v]
    BY <2>1 DEF Goto, Inv, TypeOK, Threads, Pcs
  <2>3. Good(w)'
    BY <1>0, <1>1, <2>1, <2>2 DEF Inv, TypeOK, Good, Runs, Goto, ShutdownDue
  <2>4. ASSUME NEW v \in Workers, v # w PROVE Good(v)'
    BY <1>0, <2>1, <2>2, <2>4, Others DEF Inv, TypeOK, ShutdownDue, Goto
  <2> QED BY <1>0, <2>1, <2>2, <2>3, <2>4 DEF Inv, TypeOK, Goto
<1>2. CASE ~ShutdownDue(w)
  <2>1. TakeSlot(w)
    BY <1>2 DEF GotWork
  <2>2. slot[w] # NONE
    BY <1>0, <1>2 DEF Inv, Good, Wanted
  <2> QED BY <1>0, <2>1, <2>2, TakeSlotKeeps DEF Inv, TypeOK
<1> QED BY <1>1, <1>2

LEMMA ProcessKeeps == ASSUME Inv, NEW w \in Workers, Process(w) PROVE Inv'
<1> DEFINE x == th[w].work
<1>0. /\ cur = w /\ th[w].pc = "process" /\ x \in Commands \cup Tasks
      /\ UNCHANGED <<fifo, ftl_avail, slot, cmd_slot_empty, worker_idle,
                     nvme_shutdown_req, shutdowns, posted>>
  BY DEF Process, Inv, Good
<1>1. ASSUME NEW why \in {"ftl", "storpu"}, Sleep(w, th[w], "busy", why)
      PROVE  /\ th' \in [Workers -> Threads] /\ cur' = MAIN /\ main' = main
             /\ \A v \in Workers : Good(v)'
  <2>1. /\ th' \in [Workers -> Threads] /\ th'[w].pc = "busy" /\ th'[w].work = x
        /\ th'[w].blocked_on = why
        /\ \A v \in Workers : v # w => th'[v] = th[v]
    BY ZenonT(60), <1>1 DEF Sleep, Inv, TypeOK, Threads, Pcs
  <2>2. cur' = MAIN /\ main' = main
    BY <1>1 DEF Sleep
  <2>3. Good(w)'
    BY <1>0, <2>1, <2>2, MainApart DEF Inv, TypeOK, Good, Waits
  <2>4. ASSUME NEW v \in Workers, v # w PROVE Good(v)'
    BY <1>0, <2>1, <2>2, <2>4, Others DEF Inv, TypeOK, ShutdownDue
  <2> QED BY <2>1, <2>2, <2>3, <2>4
<1>2. CASE x.op \in {"io", "task"} /\ Sleep(w, th[w], "busy", "ftl") /\ UNCHANGED <<spu, done>>
  BY <1>0, <1>1, <1>2 DEF Inv, TypeOK
<1>3. CASE /\ x.op = "invoke" /\ spu' = [spu EXCEPT ![x.id] = "running"]
           /\ Sleep(w, th[w], "busy", "storpu") /\ UNCHANGED done
  <2>1. spu' \in [Invokes -> {"none", "running", "waiting", "served", "exited"}]
    BY ZenonT(60), <1>3 DEF Inv, TypeOK
  <2> QED BY <1>0, <1>1, <1>3, <2>1 DEF Inv, TypeOK
<1>4. CASE /\ x.op = "write_zeroes" /\ done' = done \cup {[work |-> x, status |-> "INVALID_OPCODE"]}
           /\ Goto(w, [th[w] EXCEPT !.work = NONE], "check") /\ UNCHANGED spu
  <2>1. /\ th' \in [Workers -> Threads] /\ th'[w].pc = "check"
        /\ th'[w].blocked_on = th[w].blocked_on /\ th'[w].woken = th[w].woken
        /\ \A v \in Workers : v # w => th'[v] = th[v]
    BY ZenonT(60), <1>4 DEF Goto, Inv, TypeOK, Threads, Pcs
  <2>2. cur' = cur /\ main' = main
    BY <1>4 DEF Goto
  <2>3. Good(w)'
    BY <1>0, <2>1, <2>2 DEF Inv, TypeOK, Good, Runs
  <2>4. ASSUME NEW v \in Workers, v # w PROVE Good(v)'
    BY <1>0, <2>1, <2>2, <2>4, Others DEF Inv, TypeOK, ShutdownDue
  <2>5. done' \subseteq [work : Commands \cup Tasks, status : {"SUCCESS", "INVALID_OPCODE"}]
    BY <1>0, <1>4 DEF Inv, TypeOK
  <2> QED BY <1>0, <1>4, <2>1, <2>2, <2>3, <2>4, <2>5 DEF Inv, TypeOK
<1> QED BY <1>2, <1>3, <1>4 DEF Process

LEMMA FinishKeeps == ASSUME Inv, NEW w \in Workers, Finish(w) PROVE Inv'
<1> DEFINE x == th[w].work
<1>0. /\ cur = w /\ th[w].pc = "busy" /\ x \in Commands \cup Tasks
      /\ UNCHANGED <<fifo, ftl_avail, slot, cmd_slot_empty, worker_idle,
                     nvme_shutdown_req, shutdowns, posted>>
  BY DEF Finish, Inv, Good
<1>1. /\ th' \in [Workers -> Threads] /\ th'[w].pc = "check"
      /\ th'[w].blocked_on = th[w].blocked_on /\ th'[w].woken = th[w].woken
      /\ \A v \in Workers : v # w => th'[v] = th[v]
  BY ZenonT(60) DEF Finish, Goto, Inv, TypeOK, Threads, Pcs
<1>2. cur' = cur /\ main' = main
  BY DEF Finish, Goto
<1>3. Good(w)'
  BY <1>0, <1>1, <1>2 DEF Inv, TypeOK, Good, Runs
<1>4. ASSUME NEW v \in Workers, v # w PROVE Good(v)'
  BY <1>0, <1>1, <1>2, <1>4, Others DEF Inv, TypeOK, ShutdownDue
<1>5. done' \subseteq [work : Commands \cup Tasks, status : {"SUCCESS", "INVALID_OPCODE"}]
  BY <1>0 DEF Inv, TypeOK, Finish
<1>6. spu' \in [Invokes -> {"none", "running", "waiting", "served", "exited"}]
  BY ZenonT(60) DEF Inv, TypeOK, Finish
<1> QED BY <1>0, <1>1, <1>2, <1>3, <1>4, <1>5, <1>6 DEF Inv, TypeOK

\* worker_wake on worker u.
LEMMA WakeEffect ==
  ASSUME Inv, NEW u \in Workers, NEW why, why # "none", th' = Wake(th, u, why)
  PROVE  /\ th' \in [Workers -> Threads]
         /\ \A v \in Workers : v # u => th'[v] = th[v]
         /\ th'[u] = IF th[u].blocked_on = why THEN [th[u] EXCEPT !.woken = TRUE] ELSE th[u]
BY ZenonT(60) DEF Wake, Inv, TypeOK, Threads

\* A worker that is woken for what it waits for, when it is wanted, stays good.
LEMMA WokenGood ==
  ASSUME Inv, NEW u \in Workers, NEW why, why # "none", th' = Wake(th, u, why),
         UNCHANGED <<cur, slot, cmd_slot_empty>>,
         \A v \in Workers : ShutdownDue(v) => ShutdownDue(v)',
         th[u].blocked_on = "nvme_sq" /\ why = "nvme_sq" => Wanted(u)'
  PROVE  th' \in [Workers -> Threads] /\ \A v \in Workers : Good(v)'
<1>1. ASSUME NEW v \in Workers, v # u PROVE Good(v)'
  <2>1. th'[v] = th[v]
    BY ZenonT(60), <1>1, WakeEffect
  <2> QED BY <1>1, <2>1 DEF Inv, Good, Runs, Waits, Wanted
<1>2. Good(u)'
  <2>1. th'[u] = IF th[u].blocked_on = why THEN [th[u] EXCEPT !.woken = TRUE] ELSE th[u]
    BY WakeEffect
  <2>2. th[u] \in Threads
    BY DEF Inv, TypeOK
  <2>3. CASE th[u].blocked_on = why
    <3>1. /\ th'[u].pc = th[u].pc /\ th'[u].work = th[u].work
          /\ th'[u].blocked_on = why /\ th'[u].woken
      BY <2>1, <2>2, <2>3 DEF Threads
    <3>2. cur # u /\ Waits(u)
      BY <2>3 DEF Inv, Good, Runs
    <3> QED BY <2>3, <3>1, <3>2 DEF Inv, Good, Waits, Wanted
  <2>4. CASE th[u].blocked_on # why
    BY <2>1, <2>4 DEF Inv, Good, Runs, Waits, Wanted
  <2> QED BY <2>3, <2>4
<1> QED BY ZenonT(60), <1>1, <1>2, WakeEffect

LEMMA RunKeeps == ASSUME Inv, NEW w \in Workers, Run(w) PROVE Inv'
<1>1. TypeOK'
  <2>1. th[w] \in Threads /\ th \in [Workers -> Threads]
    BY DEF Inv, TypeOK
  <2>2. th' = [th EXCEPT ![w] = [th[w] EXCEPT !.woken = FALSE, !.blocked_on = "none"]]
    BY ZenonT(60), <2>1 DEF Run
  <2>3. [th[w] EXCEPT !.woken = FALSE, !.blocked_on = "none"] \in Threads
    BY ZenonT(60), <2>1 DEF Threads
  <2>4. th' \in [Workers -> Threads]
    BY <2>1, <2>2, <2>3
  <2> QED BY <2>4 DEF Inv, TypeOK, Run
<1>2. /\ th'[w].pc = th[w].pc /\ th'[w].work = th[w].work
      /\ th'[w].blocked_on = "none" /\ ~th'[w].woken /\ cur' = w /\ cur # w /\ th[w].woken
      /\ \A v \in Workers : v # w => th'[v] = th[v] /\ cur' # v /\ cur # v
      /\ UNCHANGED <<slot, cmd_slot_empty, nvme_shutdown_req>>
  BY MainApart DEF Inv, TypeOK, Threads, Run
<1>3. Good(w)'
  BY <1>2 DEF Inv, Good, Runs, Waits, Wanted, ShutdownDue
<1>4. ASSUME NEW v \in Workers, v # w PROVE Good(v)'
  BY <1>2, <1>4 DEF Inv, Good, Runs, Waits, Wanted, ShutdownDue
<1> QED BY <1>1, <1>3, <1>4 DEF Inv

\* A step of the main loop or of the world around it that touches no worker.
LEMMA Untouched ==
  ASSUME Inv, UNCHANGED <<cur, th, slot, cmd_slot_empty, nvme_shutdown_req>>
  PROVE  \A w \in Workers : Good(w)'
BY DEF Inv, Good, Runs, Waits, Wanted, ShutdownDue

LEMMA DispatchKeeps ==
  ASSUME Inv, Pick # NONE, NEW x \in Commands \cup Tasks, Dispatch(Pick, x),
         UNCHANGED <<cur, nvme_shutdown_req>>, cur = MAIN
  PROVE  /\ th' \in [Workers -> Threads]
         /\ slot' \in [Workers -> Commands \cup Tasks \cup {NONE}]
         /\ cmd_slot_empty' \subseteq Workers
         /\ \A w \in Workers : Good(w)'
<1>1. PICK u \in Workers : u = Pick /\ u \in cmd_slot_empty
  BY PickEmpty DEF Inv, TypeOK
<1>2. /\ slot' = [slot EXCEPT ![u] = x] /\ cmd_slot_empty' = cmd_slot_empty \ {u}
      /\ th' = Wake(th, u, "nvme_sq")
  BY <1>1 DEF Dispatch
<1>3. /\ th' \in [Workers -> Threads]
      /\ \A v \in Workers : v # u => th'[v] = th[v]
      /\ th'[u] = IF th[u].blocked_on = "nvme_sq" THEN [th[u] EXCEPT !.woken = TRUE] ELSE th[u]
  BY <1>1, <1>2, WakeEffect
<1>4. /\ slot' \in [Workers -> Commands \cup Tasks \cup {NONE}] /\ slot'[u] = x /\ x # NONE
      /\ cmd_slot_empty' \subseteq Workers
      /\ \A v \in Workers : v # u => slot'[v] = slot[v]
  BY <1>1, <1>2, NvmeAssumption DEF Inv, TypeOK
<1>5. ASSUME NEW v \in Workers, v # u PROVE Good(v)'
  BY <1>2, <1>3, <1>4, <1>5 DEF Inv, Good, Runs, Waits, Wanted, ShutdownDue
<1>6. Good(u)'
  <2>1. th[u] \in Threads /\ th[u].pc # "boot" /\ cur # u /\ Waits(u)
    BY <1>1, MainApart DEF Inv, TypeOK, Good
  <2>2. /\ th'[u].pc = th[u].pc /\ th'[u].work = th[u].work
        /\ th'[u].blocked_on = th[u].blocked_on
        /\ th[u].blocked_on = "nvme_sq" => th'[u].woken
    BY <1>3, <2>1 DEF Threads
  <2>3. Waits(u)'
    BY <2>1, <2>2 DEF Waits
  <2> QED BY <1>1, <1>2, <1>4, <2>1, <2>2, <2>3 DEF Inv, Good, Waits, Wanted
<1> QED BY <1>3, <1>4, <1>5, <1>6

LEMMA MainLoopKeeps == ASSUME Inv, MainLoop PROVE Inv'
<1>1. CASE NoneRunnable
  BY <1>1, Untouched DEF NoneRunnable, Inv, TypeOK
<1>2. CASE WaitForEvent
  BY <1>2, Untouched DEF WaitForEvent, Inv, TypeOK
<1>3. CASE PollNvme
  <2>1. CASE fifo # <<>> /\ Pick # NONE /\ Dispatch(Pick, Head(fifo)) /\ fifo' = Tail(fifo)
    <3>1. Head(fifo) \in Commands /\ fifo' \in Seq(Commands)
      BY <2>1 DEF Inv, TypeOK
    <3> QED BY <1>3, <2>1, <3>1, DispatchKeeps DEF PollNvme, Inv, TypeOK
  <2>2. CASE UNCHANGED <<fifo, slot, cmd_slot_empty, th>>
    BY <1>3, <2>2, Untouched DEF PollNvme, Inv, TypeOK
  <2> QED BY <1>3, <2>1, <2>2 DEF PollNvme
<1>4. CASE PollStorpu
  <2>1. CASE /\ ftl_avail # <<>> /\ Pick # NONE /\ Dispatch(Pick, Head(ftl_avail))
             /\ ftl_avail' = Tail(ftl_avail)
    <3>1. Head(ftl_avail) \in Tasks /\ ftl_avail' \in Seq(Tasks)
      BY <2>1 DEF Inv, TypeOK
    <3> QED BY <1>4, <2>1, <3>1, DispatchKeeps DEF PollStorpu, Inv, TypeOK
  <2>2. CASE ftl_avail' = NotDispatched /\ UNCHANGED <<slot, cmd_slot_empty, th>>
    BY <1>4, <2>2, Untouched DEF PollStorpu, NotDispatched, Inv, TypeOK
  <2> QED BY <1>4, <2>1, <2>2 DEF PollStorpu
<1> QED BY <1>1, <1>2, <1>3, <1>4 DEF MainLoop

LEMMA AroundKeeps ==
  ASSUME Inv,
         \/ \E w \in Workers : Answer(w)
         \/ \E c \in Commands : Submit(c)
         \/ \E c \in Invokes : SpuCall(c) \/ SpuExit(c)
         \/ RequestShutdown
  PROVE  Inv'
<1>1. ASSUME NEW w \in Workers, Answer(w) PROVE Inv'
  BY <1>1, WokenGood DEF Answer, ShutdownDue, Inv, TypeOK
<1>2. ASSUME NEW c \in Commands, Submit(c) PROVE Inv'
  <2>1. fifo' \in Seq(Commands) /\ posted' \subseteq Commands
    BY <1>2 DEF Submit, Inv, TypeOK
  <2> QED BY <1>2, <2>1, Untouched DEF Submit, Inv, TypeOK
<1>3. ASSUME NEW c \in Invokes, SpuCall(c) PROVE Inv'
  <2>1. <<Work("task", c)>> \in Seq(Tasks)
    BY DEF Tasks
  <2>2. ftl_avail' \in Seq(Tasks)
    BY <1>3, <2>1 DEF SpuCall, Inv, TypeOK
  <2>3. spu' \in [Invokes -> {"none", "running", "waiting", "served", "exited"}]
    BY <1>3 DEF SpuCall, Inv, TypeOK
  <2> QED BY <1>3, <2>2, <2>3, Untouched DEF SpuCall, Inv, TypeOK
<1>4. ASSUME NEW c \in Invokes, SpuExit(c) PROVE Inv'
  <2>1. PICK w \in Workers : th' = Wake(th, w, "storpu")
    BY <1>4 DEF SpuExit
  <2>2. th' \in [Workers -> Threads] /\ \A v \in Workers : Good(v)'
    BY <1>4, <2>1, WokenGood DEF SpuExit, ShutdownDue
  <2>3. spu' \in [Invokes -> {"none", "running", "waiting", "served", "exited"}]
    BY <1>4 DEF SpuExit, Inv, TypeOK
  <2> QED BY <1>4, <2>2, <2>3 DEF SpuExit, Inv, TypeOK
<1>5. CASE RequestShutdown
  <2>1. SHUTDOWN_THREAD \in Workers
    BY NvmeAssumption DEF SHUTDOWN_THREAD, Workers
  <2>2. th' \in [Workers -> Threads] /\ \A v \in Workers : Good(v)'
    BY <1>5, <2>1, WokenGood DEF RequestShutdown, ShutdownDue, Wanted
  <2>3. shutdowns' \in 0..MaxShutdowns
    BY <1>5, NvmeAssumption DEF RequestShutdown, Inv, TypeOK
  <2> QED BY <1>5, <2>2, <2>3 DEF RequestShutdown, Inv, TypeOK
<1> QED BY <1>1, <1>2, <1>3, <1>4, <1>5

LEMMA NextInv == Inv /\ [Next]_vars => Inv'
<1> SUFFICES ASSUME Inv, [Next]_vars PROVE Inv'
  OBVIOUS
<1>1. ASSUME NEW w \in Workers, Step(w) PROVE Inv'
  BY <1>1, BootKeeps, CheckShutdownKeeps, LookKeeps, WaitForWorkKeeps, GotWorkKeeps,
     BodyKeeps, ShutdownKeeps, ShutdownDoneKeeps, ProcessKeeps, FinishKeeps DEF Step
<1>2. CASE UNCHANGED vars
  BY <1>2, Untouched DEF vars, Inv, TypeOK
<1> QED BY <1>1, <1>2, RunKeeps, MainLoopKeeps, AroundKeeps DEF Next

LEMMA Invariance == Spec => []Inv
BY InitInv, NextInv, PTL DEF Spec

\* Every state of the NVMe front end is well typed, for any number of workers and
\* commands.
THEOREM TypeCorrect == Spec => []TypeOK
<1>1. Inv => TypeOK
  BY DEF Inv
<1> QED BY <1>1, Invariance, PTL

\* cmd_slot_empty and the valid flags of the slots never disagree, whoever of the
\* main loop and the workers runs: the assertions of nvme_worker_dispatch and
\* nvme_worker_get_work hold.
THEOREM SlotsConsistent == Spec => []SlotsAgree
<1>1. Inv => SlotsAgree
  BY DEF Inv, Good, SlotsAgree
<1> QED BY <1>1, Invariance, PTL

\* No worker leaves the loop of nvme_worker_main: each wake-up finds a command in
\* the slot or a shutdown request that is still there.
THEOREM WorkersNeverLeave == Spec => []WorkersStay
<1>1. Inv => WorkersStay
  BY DEF Inv, Good, Runs, Waits, WorkersStay
<1> QED BY <1>1, Invariance, PTL

\* A worker that sleeps in nvme_worker_get_work with a command or task in its slot
\* has been woken: no command is dispatched to a worker that sleeps on.
THEOREM NoWakeupLost == Spec => []SlotWatched
<1>1. Inv => SlotWatched
  BY DEF Inv, Good, SlotWatched
<1> QED BY <1>1, Invariance, PTL

----------------------------------------------------------------------------
(* Work is neither dropped nor executed twice.  Each place work may be in is *)
(* the set of positions that hold it; a step moves it from a place where it  *)
(* is once to one where it is not.                                           *)
USE ZenonT(60)

\* The positions of x in a queue.
At(s, x) == {i \in DOMAIN s : s[i] = x}
Slots(x) == {w \in Workers : slot[w] = x}
Held(x) == {w \in Workers : th[w].work = x}
Ends(x) == {d \in done : d.work = x}

One(S) == \E a : S = {a}
\* Exactly one of the five sets of places has a member, and only one.
Sole(A, B, C, D, E) ==
    \/ One(A) /\ B = {} /\ C = {} /\ D = {} /\ E = {}
    \/ A = {} /\ One(B) /\ C = {} /\ D = {} /\ E = {}
    \/ A = {} /\ B = {} /\ One(C) /\ D = {} /\ E = {}
    \/ A = {} /\ B = {} /\ C = {} /\ One(D) /\ E = {}
    \/ A = {} /\ B = {} /\ C = {} /\ D = {} /\ One(E)

Single(x) == Sole(At(fifo, x), At(ftl_avail, x), Slots(x), Held(x), Ends(x))
Absent(x) == /\ At(fifo, x) = {} /\ At(ftl_avail, x) = {} /\ Slots(x) = {}
             /\ Held(x) = {} /\ Ends(x) = {}

\* The invoke command c has been given to the StorPU.
Given(c) ==
    /\ Single(Work("invoke", c)) /\ At(fifo, Work("invoke", c)) = {}
    /\ At(ftl_avail, Work("invoke", c)) = {} /\ Slots(Work("invoke", c)) = {}
    /\ \A w \in Held(Work("invoke", c)) : th[w].pc = "busy"

\* A task exists once its program has asked for it.
Asked(c) ==
    /\ spu[c] \in {"none", "running"} => Absent(Work("task", c))
    /\ spu[c] \in {"waiting", "served"} => Single(Work("task", c))
    /\ spu[c] = "exited" => Single(Work("task", c)) \/ Absent(Work("task", c))

Idle(w) == th[w].pc \in {"boot", "check", "look", "wait", "waiting"} => th[w].work = NONE

\* The inductive invariant: where commands and tasks are.
Once ==
    /\ \A c \in Commands : IF c \in posted THEN Single(c) ELSE Absent(c)
    /\ \A c \in Invokes : Asked(c)
    /\ \A c \in Invokes : spu[c] # "none" => Given(c)
    /\ \A w \in Workers : Idle(w)

\* One position is counted as one, and none as none.
LEMMA CountOne == ASSUME NEW S, One(S) PROVE Cardinality(S) = 1
BY FS_Singleton DEF One

LEMMA CountSingle == ASSUME NEW x, Single(x) PROVE Count(x) = 1
<1>1. Cardinality({}) = 0
  BY FS_EmptySet
<1>2. \A S : One(S) => Cardinality(S) = 1
  BY CountOne
<1> DEFINE A == At(fifo, x)
           B == At(ftl_avail, x)
           C == Slots(x)
           D == Held(x)
           E == Ends(x)
<1>3. Sole(A, B, C, D, E)
  BY DEF Single
<1>4. Count(x) = Cardinality(A) + Cardinality(B) + Cardinality(C) + Cardinality(D) + Cardinality(E)
  BY DEF Count, At, Slots, Held, Ends
<1> HIDE DEF A, B, C, D, E
<1>5. \/ Cardinality(A) = 1 /\ Cardinality(B) = 0 /\ Cardinality(C) = 0 /\ Cardinality(D) = 0 /\ Cardinality(E) = 0
      \/ Cardinality(A) = 0 /\ Cardinality(B) = 1 /\ Cardinality(C) = 0 /\ Cardinality(D) = 0 /\ Cardinality(E) = 0
      \/ Cardinality(A) = 0 /\ Cardinality(B) = 0 /\ Cardinality(C) = 1 /\ Cardinality(D) = 0 /\ Cardinality(E) = 0
      \/ Cardinality(A) = 0 /\ Cardinality(B) = 0 /\ Cardinality(C) = 0 /\ Cardinality(D) = 1 /\ Cardinality(E) = 0
      \/ Cardinality(A) = 0 /\ Cardinality(B) = 0 /\ Cardinality(C) = 0 /\ Cardinality(D) = 0 /\ Cardinality(E) = 1
  BY <1>1, <1>2, <1>3 DEF Sole
<1> QED BY <1>4, <1>5, SMT

LEMMA CountAbsent == ASSUME NEW x, Absent(x) PROVE Count(x) = 0
<1>1. Cardinality({}) = 0
  BY FS_EmptySet
<1>2. Count(x) = 0 + 0 + 0 + 0 + 0
  BY <1>1 DEF Count, Absent, At, Slots, Held, Ends
<1> QED BY <1>2, SMT

\* Once says what WorkKept does.
LEMMA OnceKept == ASSUME Once PROVE WorkKept
<1>1. ASSUME NEW c \in Commands PROVE Count(c) = IF c \in posted THEN 1 ELSE 0
  BY CountSingle, CountAbsent DEF Once
<1>2. ASSUME NEW c \in Invokes, spu[c] \in {"waiting", "served"} PROVE Count(Work("task", c)) = 1
  BY <1>2, CountSingle DEF Once, Asked
<1> QED BY <1>1, <1>2 DEF WorkKept

\* What the head, the end and the front of a queue hold.
LEMMA TailAt ==
  ASSUME NEW S, NEW s \in Seq(S), s # <<>>, NEW x
  PROVE  /\ Head(s) = x /\ One(At(s, x)) => At(Tail(s), x) = {}
         /\ Head(s) # x /\ One(At(s, x)) => One(At(Tail(s), x))
         /\ Head(s) # x /\ At(s, x) = {} => At(Tail(s), x) = {}
         /\ Head(s) = x => At(s, x) # {}
<1>1. /\ Tail(s) \in Seq(S) /\ Len(Tail(s)) = Len(s) - 1 /\ Len(s) \in Nat /\ Len(s) >= 1
      /\ \A i \in 1..Len(Tail(s)) : Tail(s)[i] = s[i + 1]
      /\ Head(s) = s[1]
      /\ DOMAIN s = 1..Len(s) /\ DOMAIN Tail(s) = 1..Len(Tail(s))
  BY SMT
<1>2. ASSUME NEW i \in At(Tail(s), x) PROVE i + 1 \in At(s, x) /\ i \in Nat /\ i >= 1
  BY <1>1, <1>2, SMT DEF At
<1>3. Head(s) = x => 1 \in At(s, x)
  BY <1>1, SMT DEF At
<1>4. ASSUME NEW j \in At(s, x), Head(s) # x PROVE j - 1 \in At(Tail(s), x) /\ j \in Nat
  BY <1>1, <1>4, SMT DEF At
<1>5. ASSUME Head(s) = x, One(At(s, x)) PROVE At(Tail(s), x) = {}
  <2>1. At(s, x) = {1}
    BY <1>3, <1>5 DEF One
  <2> SUFFICES ASSUME NEW i \in At(Tail(s), x) PROVE FALSE
    OBVIOUS
  <2>2. i + 1 = 1 /\ i \in Nat /\ i >= 1
    BY <1>2, <2>1
  <2> QED BY <2>2, SMT
<1>6. ASSUME Head(s) # x, One(At(s, x)) PROVE One(At(Tail(s), x))
  <2>1. PICK j : At(s, x) = {j}
    BY <1>6 DEF One
  <2>2. j - 1 \in At(Tail(s), x) /\ j \in Nat
    BY <1>4, <1>6, <2>1
  <2>3. ASSUME NEW i \in At(Tail(s), x) PROVE i = j - 1
    <3>1. i + 1 = j /\ i \in Nat
      BY <1>2, <2>1
    <3> QED BY <2>2, <3>1, SMT
  <2>4. At(Tail(s), x) = {j - 1}
    BY <2>2, <2>3
  <2> QED BY <2>4 DEF One
<1>7. ASSUME At(s, x) = {} PROVE At(Tail(s), x) = {}
  BY <1>2, <1>7
<1> QED BY <1>3, <1>5, <1>6, <1>7

LEMMA AppendAt ==
  ASSUME NEW S, NEW s \in Seq(S), NEW c \in S, NEW x
  PROVE  /\ c # x => At(Append(s, c), x) = At(s, x)
         /\ c = x /\ At(s, x) = {} => One(At(Append(s, c), x))
<1>1. /\ Len(s) \in Nat /\ DOMAIN s = 1..Len(s)
      /\ DOMAIN Append(s, c) = 1..(Len(s) + 1) /\ Append(s, c)[Len(s) + 1] = c
      /\ \A i \in 1..Len(s) : Append(s, c)[i] = s[i]
  BY SMT
<1>2. c # x => At(Append(s, c), x) = At(s, x)
  BY <1>1, SMT DEF At
<1>3. ASSUME c = x, At(s, x) = {} PROVE At(Append(s, c), x) = {Len(s) + 1}
  BY <1>1, <1>3, SMT DEF At
<1> QED BY <1>2, <1>3 DEF One

LEMMA FrontAt ==
  ASSUME NEW S, NEW s \in Seq(S), NEW c \in S, NEW x
  PROVE  /\ c # x /\ One(At(s, x)) => One(At(<<c>> \o s, x))
         /\ c # x /\ At(s, x) = {} => At(<<c>> \o s, x) = {}
         /\ c = x /\ At(s, x) = {} => One(At(<<c>> \o s, x))
<1>1. /\ Len(s) \in Nat /\ DOMAIN s = 1..Len(s)
      /\ DOMAIN (<<c>> \o s) = 1..(Len(s) + 1) /\ (<<c>> \o s)[1] = c
      /\ \A i \in 2..(Len(s) + 1) : (<<c>> \o s)[i] = s[i - 1]
  BY SMT
<1> DEFINE t == <<c>> \o s
<1> HIDE DEF t
<1>2. /\ DOMAIN t = 1..(Len(s) + 1) /\ t[1] = c
      /\ \A i \in 2..(Len(s) + 1) : t[i] = s[i - 1]
  BY <1>1 DEF t
<1>3. ASSUME NEW j \in At(s, x) PROVE j + 1 \in At(t, x) /\ j \in Nat
  <2>1. j \in 1..Len(s) /\ s[j] = x
    BY <1>1 DEF At
  <2>2. PICK k : k = j + 1
    OBVIOUS
  <2>3. k \in 2..(Len(s) + 1) /\ k - 1 = j /\ k \in 1..(Len(s) + 1) /\ j \in Nat
    BY <1>1, <2>1, <2>2, SMT
  <2>4. t[k] = s[k - 1]
    BY <1>2, <2>3
  <2>5. t[k] = x /\ k \in DOMAIN t
    BY <1>2, <2>1, <2>3, <2>4
  <2> QED BY <2>2, <2>3, <2>5 DEF At
<1>4. ASSUME NEW i \in At(t, x), i # 1 PROVE i - 1 \in At(s, x) /\ i \in Nat
  <2>1. i \in 1..(Len(s) + 1) /\ t[i] = x
    BY <1>2 DEF At
  <2>2. i \in 2..(Len(s) + 1) /\ i - 1 \in 1..Len(s) /\ i \in Nat
    BY <1>1, <1>4, <2>1, SMT
  <2> QED BY <1>1, <1>2, <2>1, <2>2 DEF At
<1>5. c # x => 1 \notin At(t, x)
  BY <1>2 DEF At
<1>6. ASSUME c # x, One(At(s, x)) PROVE One(At(t, x))
  <2>1. PICK j : At(s, x) = {j}
    BY <1>6 DEF One
  <2>2. j + 1 \in At(t, x) /\ j \in Nat
    BY <1>3, <2>1
  <2>3. ASSUME NEW i \in At(t, x) PROVE i = j + 1
    <3>1. i - 1 = j /\ i \in Nat
      BY <1>4, <1>5, <1>6, <2>1
    <3> QED BY <2>2, <3>1, SMT
  <2>4. At(t, x) = {j + 1}
    BY <2>2, <2>3
  <2> QED BY <2>4 DEF One
<1>7. ASSUME c # x, At(s, x) = {} PROVE At(t, x) = {}
  BY <1>4, <1>5, <1>7
<1>8. ASSUME c = x, At(s, x) = {} PROVE At(t, x) = {1}
  <2>1. 1 \in At(t, x)
    <3>1. 1 \in 1..(Len(s) + 1)
      BY <1>1, SMT
    <3> QED BY <1>2, <1>8, <3>1 DEF At
  <2>2. ASSUME NEW i \in At(t, x) PROVE i = 1
    BY <1>4, <1>8
  <2> QED BY <2>1, <2>2
<1> QED BY <1>6, <1>7, <1>8 DEF One, t

\* A work that is in one place is in no other.
LEMMA OnlyThere ==
  ASSUME NEW x, Single(x)
  PROVE  /\ At(fifo, x) # {} =>
              /\ One(At(fifo, x)) /\ At(ftl_avail, x) = {} /\ Slots(x) = {}
              /\ Held(x) = {} /\ Ends(x) = {}
         /\ At(ftl_avail, x) # {} =>
              /\ One(At(ftl_avail, x)) /\ At(fifo, x) = {} /\ Slots(x) = {}
              /\ Held(x) = {} /\ Ends(x) = {}
         /\ Slots(x) # {} =>
              /\ One(Slots(x)) /\ At(fifo, x) = {} /\ At(ftl_avail, x) = {}
              /\ Held(x) = {} /\ Ends(x) = {}
         /\ Held(x) # {} =>
              /\ One(Held(x)) /\ At(fifo, x) = {} /\ At(ftl_avail, x) = {}
              /\ Slots(x) = {} /\ Ends(x) = {}
<1> DEFINE A == At(fifo, x)
           B == At(ftl_avail, x)
           C == Slots(x)
           D == Held(x)
           E == Ends(x)
<1>1. Sole(A, B, C, D, E)
  BY DEF Single
<1> HIDE DEF A, B, C, D, E
<1>2. /\ A # {} => One(A) /\ B = {} /\ C = {} /\ D = {} /\ E = {}
      /\ B # {} => One(B) /\ A = {} /\ C = {} /\ D = {} /\ E = {}
      /\ C # {} => One(C) /\ A = {} /\ B = {} /\ D = {} /\ E = {}
      /\ D # {} => One(D) /\ A = {} /\ B = {} /\ C = {} /\ E = {}
  BY <1>1 DEF Sole
<1> QED BY <1>2 DEF A, B, C, D, E

\* Commands and tasks differ from each other and from NONE.
LEMMA Works ==
  /\ \A c \in Invokes : Work("task", c) \in Tasks /\ Work("invoke", c) \in Commands
  /\ \A x \in Tasks : x \notin Commands
  /\ \A c \in Commands \cup Tasks : c # NONE
<1>1. \A x \in Tasks : x.op = "task"
  BY SMT DEF Tasks, Work
<1>2. \A x \in Commands : x.op \in {"io", "write_zeroes", "invoke"}
  BY SMT DEF Commands, Work
<1>3. \A x \in Tasks : x \notin Commands
  BY <1>1, <1>2
<1>4. \A c \in Invokes : Work("task", c) \in Tasks /\ Work("invoke", c) \in Commands
  BY DEF Tasks, Commands
<1> QED BY <1>3, <1>4, NvmeAssumption

\* Work that no step moves stays where it is.
LEMMA StillThere ==
  ASSUME NEW x, At(fifo, x) = {} => At(fifo, x)' = {}, One(At(fifo, x)) => One(At(fifo, x)'),
         At(ftl_avail, x) = {} => At(ftl_avail, x)' = {},
         One(At(ftl_avail, x)) => One(At(ftl_avail, x)'),
         Slots(x)' = Slots(x), Held(x)' = Held(x), Ends(x)' = Ends(x)
  PROVE  (Single(x) => Single(x)') /\ (Absent(x) => Absent(x)')
<1>1. Single(x) => Single(x)'
  BY DEF Single, Sole
<1>2. Absent(x) => Absent(x)'
  BY DEF Absent
<1> QED BY <1>1, <1>2

\* What a step must respect that starts no program and submits nothing.
LEMMA OnceStays ==
  ASSUME Once, UNCHANGED <<spu, posted>>,
         \A x \in Commands \cup Tasks : (Single(x) => Single(x)') /\ (Absent(x) => Absent(x)'),
         \A c \in Invokes : Given(c) => Given(c)',
         \A w \in Workers : Idle(w)'
  PROVE  Once'
<1>1. ASSUME NEW c \in Commands PROVE (IF c \in posted THEN Single(c) ELSE Absent(c))'
  BY DEF Once
<1>2. ASSUME NEW c \in Invokes PROVE Asked(c)'
  <2>1. Work("task", c) \in Tasks
    BY Works
  <2> QED BY <2>1 DEF Once, Asked
<1>3. ASSUME NEW c \in Invokes, spu'[c] # "none" PROVE Given(c)'
  BY <1>3 DEF Once
<1> QED BY <1>1, <1>2, <1>3 DEF Once

\* A step that moves no work.
LEMMA NothingMoved ==
  ASSUME Once, UNCHANGED <<fifo, ftl_avail, slot, spu, posted, done>>,
         \A w \in Workers : /\ th'[w].work = th[w].work
                            /\ th[w].pc = "busy" => th'[w].pc = "busy",
         \A w \in Workers : Idle(w)'
  PROVE  Once'
<1>1. ASSUME NEW x PROVE /\ Slots(x)' = Slots(x) /\ Held(x)' = Held(x) /\ Ends(x)' = Ends(x)
                         /\ At(fifo, x)' = At(fifo, x) /\ At(ftl_avail, x)' = At(ftl_avail, x)
  BY DEF Slots, Held, Ends, At
<1>2. ASSUME NEW x PROVE (Single(x) => Single(x)') /\ (Absent(x) => Absent(x)')
  BY <1>1, StillThere
<1>3. ASSUME NEW c \in Invokes, Given(c) PROVE Given(c)'
  <2>1. ASSUME NEW w \in Held(Work("invoke", c))' PROVE th'[w].pc = "busy"
    <3>1. w \in Held(Work("invoke", c)) /\ w \in Workers
      BY <1>1 DEF Held
    <3> QED BY <1>3, <3>1 DEF Given
  <2> QED BY <1>1, <1>2, <1>3, <2>1 DEF Given
<1> QED BY <1>2, <1>3, OnceStays

\* A step of worker w with its program point moved on, its work kept.
LEMMA GoneOn ==
  ASSUME Inv, Once, NEW w \in Workers, th[w].pc # "busy",
         UNCHANGED <<fifo, ftl_avail, slot, spu, posted, done>>,
         \A v \in Workers : v # w => th'[v] = th[v], th'[w].work = th[w].work,
         th'[w].pc \in {"boot", "check", "look", "wait", "waiting"} => th[w].work = NONE
  PROVE  Once'
<1>1. ASSUME NEW v \in Workers PROVE /\ th'[v].work = th[v].work
                                     /\ th[v].pc = "busy" => th'[v].pc = "busy"
  OBVIOUS
<1>2. ASSUME NEW v \in Workers PROVE Idle(v)'
  BY DEF Once, Idle
<1> QED BY <1>1, <1>2, NothingMoved

\* A wake-up changes nobody's place or work.
LEMMA WokenOnce ==
  ASSUME Inv, Once, NEW u \in Workers, NEW why, why # "none", th' = Wake(th, u, why)
  PROVE  \A v \in Workers : th'[v].work = th[v].work /\ th'[v].pc = th[v].pc
<1>1. ASSUME NEW v \in Workers PROVE th'[v].work = th[v].work /\ th'[v].pc = th[v].pc
  <2>1. th[v] \in Threads
    BY DEF Inv, TypeOK
  <2>2. th'[v] = th[v] \/ th'[v] = [th[v] EXCEPT !.woken = TRUE]
    BY WakeEffect
  <2> QED BY <2>1, <2>2 DEF Threads
<1> QED BY <1>1

LEMMA WakeOnce ==
  ASSUME Inv, Once, NEW u \in Workers, NEW why, why # "none", th' = Wake(th, u, why),
         UNCHANGED <<fifo, ftl_avail, slot, spu, posted, done>>
  PROVE  Once'
<1>1. \A v \in Workers : th'[v].work = th[v].work /\ th'[v].pc = th[v].pc
  BY WokenOnce
<1>2. \A v \in Workers : Idle(v)'
  BY <1>1 DEF Once, Idle
<1> QED BY <1>1, <1>2, NothingMoved

\* Everything is in one place or in none.
LEMMA SingleOrAbsent ==
  ASSUME Inv, Once, NEW x \in Commands \cup Tasks PROVE Single(x) \/ Absent(x)
<1>1. CASE x \in Commands
  BY <1>1 DEF Once
<1>2. CASE x \in Tasks
  <2>1. PICK c \in Invokes : x = Work("task", c)
    BY <1>2 DEF Tasks
  <2>2. spu[c] \in {"none", "running", "waiting", "served", "exited"}
    BY DEF Inv, TypeOK
  <2> QED BY <2>1, <2>2 DEF Once, Asked
<1> QED BY <1>1, <1>2

\* Worker w, which has no work, takes y; v keeps what it has.
LEMMA HeldNow ==
  ASSUME NEW w \in Workers, th[w].work = NONE, NEW y \in Commands \cup Tasks, th'[w].work = y,
         \A v \in Workers : v # w => th'[v] = th[v],
         NEW x \in Commands \cup Tasks
  PROVE  /\ x # y => Held(x)' = Held(x)
         /\ x = y /\ Held(x) = {} => Held(x)' = {w}
<1>1. x # NONE
  BY Works
<1>2. ASSUME x # y PROVE Held(x)' = Held(x)
  BY <1>1, <1>2 DEF Held
<1>3. ASSUME x = y, Held(x) = {} PROVE Held(x)' = {w}
  BY <1>3 DEF Held
<1> QED BY <1>2, <1>3

\* The queues and the slots give up y and nothing else.
Leaves(y, x) ==
    /\ x = y /\ Single(x) => At(fifo, x)' = {} /\ At(ftl_avail, x)' = {}
    /\ x # y => /\ At(fifo, x) = {} => At(fifo, x)' = {}
                /\ At(ftl_avail, x) = {} => At(ftl_avail, x)' = {}
                /\ One(At(fifo, x)) => One(At(fifo, x)')
                /\ One(At(ftl_avail, x)) => One(At(ftl_avail, x)')

LEMMA TakenOnce ==
  ASSUME Inv, Once, NEW w \in Workers, th[w].work = NONE,
         NEW y \in Commands \cup Tasks, th'[w].work = y, th'[w].pc = "body",
         \A v \in Workers : v # w => th'[v] = th[v],
         UNCHANGED <<spu, posted, done>>,
         At(fifo, y) # {} \/ At(ftl_avail, y) # {} \/ Slots(y) # {},
         \A x \in Commands \cup Tasks :
            Leaves(y, x) /\ (x = y => Slots(x)' = {}) /\ (x # y => Slots(x)' = Slots(x))
  PROVE  Once'
<1>0. Single(y) /\ ~Absent(y)
  BY SingleOrAbsent DEF Absent
<1>1. ASSUME NEW x \in Commands \cup Tasks
      PROVE  /\ x # y => Held(x)' = Held(x)
             /\ x = y /\ Held(x) = {} => Held(x)' = {w}
  BY HeldNow
<1>2. ASSUME NEW x PROVE Ends(x)' = Ends(x)
  BY DEF Ends
<1>3. Single(y)'
  <2>1. Held(y) = {} /\ Ends(y) = {}
    BY <1>0, OnlyThere
  <2>2. /\ Held(y)' = {w} /\ Ends(y)' = {} /\ Slots(y)' = {} 
        /\ At(fifo, y)' = {} /\ At(ftl_avail, y)' = {}
    BY <1>0, <1>1, <1>2, <2>1 DEF Leaves
  <2>3. One({w})
    BY DEF One
  <2> QED BY <2>2, <2>3 DEF Single, Sole
<1>4. ASSUME NEW x \in Commands \cup Tasks, x # y
      PROVE  (Single(x) => Single(x)') /\ (Absent(x) => Absent(x)')
  <2>1. /\ Slots(x)' = Slots(x) /\ Held(x)' = Held(x) /\ Ends(x)' = Ends(x) /\ Leaves(y, x)
    BY <1>1, <1>2, <1>4
  <2> QED BY <1>4, <2>1, StillThere DEF Leaves
<1>5. ASSUME NEW c \in Invokes, Given(c) PROVE Given(c)'
  <2>1. PICK x \in Commands : x = Work("invoke", c)
    BY Works
  <2>2. x # y
    BY <1>5, <2>1 DEF Given
  <2>3. /\ At(fifo, x)' = {} /\ At(ftl_avail, x)' = {} /\ Slots(x)' = {} /\ Held(x)' = Held(x)
    BY <1>1, <1>5, <2>1, <2>2 DEF Given, Leaves
  <2>4. Single(x)'
    BY <1>4, <1>5, <2>1, <2>2 DEF Given
  <2>5. ASSUME NEW v \in Held(x)' PROVE th'[v].pc = "busy"
    <3>1. v \in Held(x) /\ v \in Workers /\ th[v].work = x /\ x # NONE
      BY <2>3, Works DEF Held
    <3>2. th[v].pc = "busy" /\ v # w
      BY <1>5, <2>1, <3>1 DEF Given
    <3> QED BY <3>1, <3>2
  <2> QED BY <2>1, <2>3, <2>4, <2>5 DEF Given
<1>6. ASSUME NEW v \in Workers PROVE Idle(v)'
  BY DEF Once, Idle
<1> QED BY <1>0, <1>3, <1>4, <1>5, <1>6, OnceStays

LEMMA TailLeaves ==
  ASSUME Inv, Once,
         \/ fifo # <<>> /\ fifo' = Tail(fifo) /\ ftl_avail' = ftl_avail
         \/ ftl_avail # <<>> /\ ftl_avail' = Tail(ftl_avail) /\ fifo' = fifo,
         NEW y \in Commands \cup Tasks,
         y = IF ftl_avail' = ftl_avail THEN Head(fifo) ELSE Head(ftl_avail),
         NEW x \in Commands \cup Tasks
  PROVE  Leaves(y, x) /\ (At(fifo, y) # {} \/ At(ftl_avail, y) # {})
<1>0. fifo \in Seq(Commands) /\ ftl_avail \in Seq(Tasks)
  BY DEF Inv, TypeOK
<1>1. CASE fifo # <<>> /\ fifo' = Tail(fifo) /\ ftl_avail' = ftl_avail
  <2>1. y = Head(fifo)
    BY <1>1
  <2>2. /\ y = x /\ One(At(fifo, x)) => At(Tail(fifo), x) = {}
        /\ y # x /\ One(At(fifo, x)) => One(At(Tail(fifo), x))
        /\ y # x /\ At(fifo, x) = {} => At(Tail(fifo), x) = {}
        /\ At(fifo, y) # {}
    BY <1>0, <1>1, <2>1, TailAt
  <2>3. At(fifo, x)' = At(Tail(fifo), x) /\ At(ftl_avail, x)' = At(ftl_avail, x)
    BY <1>1 DEF At
  <2>4. x = y /\ Single(x) => One(At(fifo, x)) /\ At(ftl_avail, x) = {}
    BY <2>2, OnlyThere
  <2> QED BY <2>2, <2>3, <2>4 DEF Leaves
<1>2. CASE ftl_avail # <<>> /\ ftl_avail' = Tail(ftl_avail) /\ fifo' = fifo
  <2>0. Len(ftl_avail') # Len(ftl_avail)
    BY <1>0, <1>2, SMT
  <2>1. y = Head(ftl_avail)
    BY <2>0
  <2>2. /\ y = x /\ One(At(ftl_avail, x)) => At(Tail(ftl_avail), x) = {}
        /\ y # x /\ One(At(ftl_avail, x)) => One(At(Tail(ftl_avail), x))
        /\ y # x /\ At(ftl_avail, x) = {} => At(Tail(ftl_avail), x) = {}
        /\ At(ftl_avail, y) # {}
    BY <1>0, <1>2, <2>1, TailAt
  <2>3. At(ftl_avail, x)' = At(Tail(ftl_avail), x) /\ At(fifo, x)' = At(fifo, x)
    BY <1>2 DEF At
  <2>4. x = y /\ Single(x) => One(At(ftl_avail, x)) /\ At(fifo, x) = {}
    BY <2>2, OnlyThere
  <2> QED BY <2>2, <2>3, <2>4 DEF Leaves
<1> QED BY <1>1, <1>2

LEMMA TakeSlotOnce ==
  ASSUME Inv, Once, NEW w \in Workers, cur = w, th[w].pc \in {"look", "waiting"}, slot[w] # NONE,
         TakeSlot(w), UNCHANGED <<fifo, ftl_avail, spu, posted, done>>
  PROVE  Once'
<1>0. PICK y \in Commands \cup Tasks : y = slot[w]
  BY DEF Inv, TypeOK
<1>1. th[w].work = NONE
  BY DEF Once, Idle
<1>2. th' = [th EXCEPT ![w] = [[th[w] EXCEPT !.work = y] EXCEPT !.pc = "body"]] /\ "body" \in Pcs
  BY <1>0, SMT DEF TakeSlot, Inv, TypeOK, Threads, Pcs
<1>3. /\ th'[w].pc = "body" /\ th'[w].work = y
      /\ \A v \in Workers : v # w => th'[v] = th[v]
  BY <1>2, GoesOn
<1>4. /\ slot'[w] = NONE /\ \A v \in Workers : v # w => slot'[v] = slot[v]
  BY DEF TakeSlot, Inv, TypeOK
<1>5. w \in Slots(y)
  BY <1>0 DEF Slots
<1>6. Single(y) /\ One(Slots(y)) /\ At(fifo, y) = {} /\ At(ftl_avail, y) = {}
  <2>1. Single(y)
    BY <1>5, SingleOrAbsent DEF Absent
  <2> QED BY <1>5, <2>1, OnlyThere
<1>7. ASSUME NEW x \in Commands \cup Tasks
      PROVE  Leaves(y, x) /\ (x = y => Slots(x)' = {}) /\ (x # y => Slots(x)' = Slots(x))
  <2>1. At(fifo, x)' = At(fifo, x) /\ At(ftl_avail, x)' = At(ftl_avail, x)
    BY DEF At
  <2>2. ASSUME x = y PROVE Slots(x)' = {}
    <3>1. Slots(y) = {w}
      BY <1>5, <1>6 DEF One
    <3>2. y # NONE
      BY Works
    <3>3. ASSUME NEW v \in Slots(y)' PROVE FALSE
      <4>1. v \in Workers /\ slot'[v] = y
        BY <3>3 DEF Slots
      <4>2. v # w /\ v \in Slots(y)
        BY <1>4, <3>2, <4>1 DEF Slots
      <4> QED BY <3>1, <4>2
    <3> QED BY <2>2, <3>3
  <2>3. ASSUME x # y PROVE Slots(x)' = Slots(x)
    <3>1. x # NONE
      BY Works
    <3> QED BY <1>0, <1>4, <2>3, <3>1 DEF Slots
  <2> QED BY <1>6, <2>1, <2>2, <2>3 DEF Leaves
<1> QED BY <1>1, <1>3, <1>5, <1>7, TakenOnce

LEMMA TakeHeadOnce ==
  ASSUME Inv, Once, NEW w \in Workers, cur = w, th[w].pc = "look",
         NEW y \in Commands \cup Tasks, Goto(w, [th[w] EXCEPT !.work = y], "body"),
         \/ fifo # <<>> /\ fifo' = Tail(fifo) /\ ftl_avail' = ftl_avail
         \/ ftl_avail # <<>> /\ ftl_avail' = Tail(ftl_avail) /\ fifo' = fifo,
         y = IF ftl_avail' = ftl_avail THEN Head(fifo) ELSE Head(ftl_avail),
         slot[w] = NONE, UNCHANGED <<slot, spu, posted, done>>
  PROVE  Once'
<1>1. th[w].work = NONE
  BY DEF Once, Idle
<1>2. th' = [th EXCEPT ![w] = [[th[w] EXCEPT !.work = y] EXCEPT !.pc = "body"]] /\ "body" \in Pcs
  BY DEF Goto, Pcs
<1>3. /\ th'[w].pc = "body" /\ th'[w].work = y
      /\ \A v \in Workers : v # w => th'[v] = th[v]
  BY <1>2, GoesOn
<1>4. ASSUME NEW x \in Commands \cup Tasks
      PROVE  Leaves(y, x) /\ (At(fifo, y) # {} \/ At(ftl_avail, y) # {})
  BY TailLeaves
<1>5. Single(y)
  BY <1>4, SingleOrAbsent DEF Absent
<1>6. ASSUME NEW x PROVE Slots(x)' = Slots(x)
  BY DEF Slots
<1>7. Slots(y)' = {}
  BY <1>4, <1>5, <1>6, OnlyThere
<1> QED BY <1>1, <1>3, <1>4, <1>6, <1>7, TakenOnce

LEMMA LookOnce == ASSUME Inv, Once, NEW w \in Workers, Look(w) PROVE Once'
<1>0. /\ cur = w /\ th[w].pc = "look" /\ UNCHANGED <<spu, posted, done>>
      /\ fifo \in Seq(Commands) /\ ftl_avail \in Seq(Tasks)
  BY DEF Look, Inv, TypeOK
<1>1. CASE slot[w] # NONE
  <2>1. TakeSlot(w) /\ UNCHANGED <<fifo, ftl_avail>>
    BY <1>1 DEF Look
  <2> QED BY <1>0, <1>1, <2>1, TakeSlotOnce
<1>2. CASE slot[w] = NONE /\ fifo # <<>>
  <2>1. /\ Goto(w, [th[w] EXCEPT !.work = Head(fifo)], "body") /\ fifo' = Tail(fifo)
        /\ UNCHANGED <<slot, ftl_avail>>
    BY <1>2 DEF Look
  <2>2. PICK y \in Commands : y = Head(fifo)
    BY <1>0, <1>2, SMT
  <2>3. Goto(w, [th[w] EXCEPT !.work = y], "body")
    BY <2>1, <2>2
  <2> QED BY <1>0, <1>2, <2>1, <2>2, <2>3, TakeHeadOnce
<1>3. CASE slot[w] = NONE /\ fifo = <<>> /\ ftl_avail # <<>>
  <2>1. /\ Goto(w, [th[w] EXCEPT !.work = Head(ftl_avail)], "body")
        /\ ftl_avail' = Tail(ftl_avail) /\ UNCHANGED <<slot, fifo>>
    BY <1>3 DEF Look
  <2>2. PICK y \in Tasks : y = Head(ftl_avail)
    BY <1>0, <1>3, SMT
  <2>3. Goto(w, [th[w] EXCEPT !.work = y], "body")
    BY <2>1, <2>2
  <2>4. Len(ftl_avail') # Len(ftl_avail)
    BY <1>0, <1>3, <2>1, SMT
  <2>5. y = IF ftl_avail' = ftl_avail THEN Head(fifo) ELSE Head(ftl_avail)
    BY <2>2, <2>4
  <2> QED BY <1>0, <1>3, <2>1, <2>3, <2>5, TakeHeadOnce
<1>4. CASE slot[w] = NONE /\ fifo = <<>> /\ ftl_avail = <<>>
  <2>1. Goto(w, th[w], "wait") /\ UNCHANGED <<slot, fifo, ftl_avail>>
    BY <1>4 DEF Look
  <2>2. /\ th'[w].pc = "wait" /\ th'[w].work = th[w].work
        /\ \A v \in Workers : v # w => th'[v] = th[v]
    BY <2>1 DEF Goto, Inv, TypeOK, Threads
  <2>3. th[w].work = NONE
    BY <1>0 DEF Once, Idle
  <2> QED BY <1>0, <2>1, <2>2, <2>3, GoneOn
<1> QED BY <1>1, <1>2, <1>3, <1>4

\* The steps of worker w that move no work.
LEMMA QuietOnce ==
  ASSUME Inv, Once, NEW w \in Workers,
         \/ Boot(w) \/ CheckShutdown(w) \/ WaitForWork(w) \/ Body(w) \/ Shutdown(w)
         \/ ShutdownDone(w)
  PROVE  Once'
<1>0. th \in [Workers -> Threads] /\ th[w] \in Threads
  BY DEF Inv, TypeOK
<1>1. CASE Boot(w)
  <2>1. /\ th'[w].work = th[w].work
        /\ \A v \in Workers : v # w => th'[v] = th[v]
    BY <1>0, <1>1 DEF Boot, Goto, Threads
  <2>2. th[w].work = NONE /\ th[w].pc # "busy" /\ UNCHANGED <<fifo, ftl_avail, slot, spu, posted, done>>
    BY <1>1 DEF Boot, Once, Idle
  <2> QED BY <2>1, <2>2, GoneOn
<1>2. CASE CheckShutdown(w)
  <2>1. /\ th'[w].work = th[w].work
        /\ \A v \in Workers : v # w => th'[v] = th[v]
    BY <1>0, <1>2 DEF CheckShutdown, Goto, Threads
  <2>2. th[w].work = NONE /\ th[w].pc # "busy" /\ UNCHANGED <<fifo, ftl_avail, slot, spu, posted, done>>
    BY <1>2 DEF CheckShutdown, Once, Idle
  <2> QED BY <2>1, <2>2, GoneOn
<1>3. CASE WaitForWork(w)
  <2>1. /\ th'[w].work = th[w].work
        /\ \A v \in Workers : v # w => th'[v] = th[v]
    BY <1>0, <1>3 DEF WaitForWork, Sleep, Threads
  <2>2. th[w].work = NONE /\ th[w].pc # "busy" /\ UNCHANGED <<fifo, ftl_avail, slot, spu, posted, done>>
    BY <1>3 DEF WaitForWork, Once, Idle
  <2> QED BY <2>1, <2>2, GoneOn
<1>4. CASE Body(w)
  <2>1. /\ th'[w].work = th[w].work /\ th'[w].pc \in {"shutdown", "process"}
        /\ \A v \in Workers : v # w => th'[v] = th[v]
    BY <1>0, <1>4 DEF Body, Goto, Threads
  <2>2. th[w].pc # "busy" /\ UNCHANGED <<fifo, ftl_avail, slot, spu, posted, done>>
    BY <1>4 DEF Body
  <2> QED BY <2>1, <2>2, GoneOn
<1>5. CASE Shutdown(w)
  <2>1. /\ th'[w].work = th[w].work /\ th'[w].pc = "shutting"
        /\ \A v \in Workers : v # w => th'[v] = th[v]
    BY <1>0, <1>5 DEF Shutdown, Sleep, Threads
  <2>2. th[w].pc # "busy" /\ UNCHANGED <<fifo, ftl_avail, slot, spu, posted, done>>
    BY <1>5 DEF Shutdown
  <2> QED BY <2>1, <2>2, GoneOn
<1>6. CASE ShutdownDone(w)
  <2>1. /\ th'[w].work = th[w].work
        /\ th'[w].pc = IF th[w].work = NONE THEN "check" ELSE "process"
        /\ \A v \in Workers : v # w => th'[v] = th[v]
    BY <1>0, <1>6 DEF ShutdownDone, Goto, Threads
  <2>2. th[w].pc # "busy" /\ UNCHANGED <<fifo, ftl_avail, slot, spu, posted, done>>
    BY <1>6 DEF ShutdownDone
  <2> QED BY <2>1, <2>2, GoneOn
<1> QED BY <1>1, <1>2, <1>3, <1>4, <1>5, <1>6

LEMMA GotWorkOnce == ASSUME Inv, Once, NEW w \in Workers, GotWork(w) PROVE Once'
<1>0. /\ cur = w /\ th[w].pc = "waiting" /\ UNCHANGED <<fifo, ftl_avail, spu, posted, done>>
  BY DEF GotWork
<1>1. CASE ShutdownDue(w)
  <2>1. Goto(w, th[w], "shutdown") /\ UNCHANGED slot
    BY <1>1 DEF GotWork
  <2>2. /\ th'[w].work = th[w].work /\ th'[w].pc = "shutdown"
        /\ \A v \in Workers : v # w => th'[v] = th[v]
    BY <2>1 DEF Goto, Inv, TypeOK, Threads
  <2> QED BY <1>0, <2>1, <2>2, GoneOn
<1>2. CASE ~ShutdownDue(w)
  <2>1. TakeSlot(w)
    BY <1>2 DEF GotWork
  <2>2. slot[w] # NONE
    BY <1>0, <1>2 DEF Inv, Good, Wanted
  <2> QED BY <1>0, <2>1, <2>2, TakeSlotOnce
<1> QED BY <1>1, <1>2

\* The main loop puts the head of a queue into the empty slot of worker u.
LEMMA DispatchOnce ==
  ASSUME Inv, Once, Pick # NONE, NEW y \in Commands \cup Tasks, Dispatch(Pick, y),
         \/ fifo # <<>> /\ fifo' = Tail(fifo) /\ ftl_avail' = ftl_avail
         \/ ftl_avail # <<>> /\ ftl_avail' = Tail(ftl_avail) /\ fifo' = fifo,
         y = IF ftl_avail' = ftl_avail THEN Head(fifo) ELSE Head(ftl_avail),
         UNCHANGED <<spu, posted, done>>
  PROVE  Once'
<1>1. PICK u \in Workers : u = Pick /\ u \in cmd_slot_empty
  BY PickEmpty DEF Inv, TypeOK
<1>2. slot' = [slot EXCEPT ![u] = y] /\ th' = Wake(th, u, "nvme_sq") /\ slot[u] = NONE
  BY <1>1 DEF Dispatch, Inv, Good
<1>3. \A v \in Workers : th'[v].work = th[v].work /\ th'[v].pc = th[v].pc
  BY <1>2, WokenOnce
<1>4. slot'[u] = y /\ \A v \in Workers : v # u => slot'[v] = slot[v]
  BY <1>2 DEF Inv, TypeOK
<1>5. ASSUME NEW x \in Commands \cup Tasks
      PROVE  Leaves(y, x) /\ (At(fifo, y) # {} \/ At(ftl_avail, y) # {})
  BY TailLeaves
<1>6. Single(y)
  BY <1>5, SingleOrAbsent DEF Absent
<1>7. ASSUME NEW x PROVE Held(x)' = Held(x) /\ Ends(x)' = Ends(x)
  BY <1>3 DEF Held, Ends
<1>8. ASSUME NEW x \in Commands \cup Tasks, x # y PROVE Slots(x)' = Slots(x)
  <2>1. x # NONE
    BY Works
  <2> QED BY <1>2, <1>4, <1>8, <2>1 DEF Slots
<1>9. Single(y)'
  <2>1. Slots(y) = {} /\ Held(y) = {} /\ Ends(y) = {}
    BY <1>5, <1>6, OnlyThere
  <2>2. Slots(y)' = {u}
    BY <1>4, <2>1 DEF Slots
  <2>3. At(fifo, y)' = {} /\ At(ftl_avail, y)' = {} /\ Held(y)' = {} /\ Ends(y)' = {}
    BY <1>5, <1>6, <1>7, <2>1 DEF Leaves
  <2>4. One({u})
    BY DEF One
  <2> QED BY <2>2, <2>3, <2>4 DEF Single, Sole
<1>10. ASSUME NEW x \in Commands \cup Tasks
       PROVE  (Single(x) => Single(x)') /\ (Absent(x) => Absent(x)')
  <2>1. CASE x = y
    BY <1>5, <1>9, <2>1 DEF Absent
  <2>2. CASE x # y
    <3>1. Slots(x)' = Slots(x) /\ Held(x)' = Held(x) /\ Ends(x)' = Ends(x) /\ Leaves(y, x)
      BY <1>5, <1>7, <1>8, <2>2
    <3> QED BY <2>2, <3>1, StillThere DEF Leaves
  <2> QED BY <2>1, <2>2
<1>11. ASSUME NEW c \in Invokes, Given(c) PROVE Given(c)'
  <2>1. PICK x \in Commands : x = Work("invoke", c)
    BY Works
  <2>2. x # y
    BY <1>5, <1>11, <2>1 DEF Given
  <2>3. /\ At(fifo, x)' = {} /\ At(ftl_avail, x)' = {} /\ Slots(x)' = {} /\ Held(x)' = Held(x)
    BY <1>5, <1>7, <1>8, <1>11, <2>1, <2>2 DEF Given, Leaves
  <2>4. Single(x)'
    BY <1>10, <1>11, <2>1 DEF Given
  <2>5. ASSUME NEW v \in Held(x)' PROVE th'[v].pc = "busy"
    <3>1. v \in Held(x) /\ v \in Workers
      BY <2>3 DEF Held
    <3> QED BY <1>3, <1>11, <2>1, <3>1 DEF Given
  <2> QED BY <2>1, <2>3, <2>4, <2>5 DEF Given
<1>12. \A v \in Workers : Idle(v)'
  BY <1>3 DEF Once, Idle
<1> QED BY <1>10, <1>11, <1>12, OnceStays

LEMMA MainLoopOnce == ASSUME Inv, Once, MainLoop PROVE Once'
<1>0. fifo \in Seq(Commands) /\ ftl_avail \in Seq(Tasks)
  BY DEF Inv, TypeOK
<1>1. ASSUME UNCHANGED <<fifo, ftl_avail, slot, th, spu, posted, done>> PROVE Once'
  <2>1. \A w \in Workers : Idle(w)'
    BY <1>1 DEF Once, Idle
  <2> QED BY <1>1, <2>1, NothingMoved
<1>2. CASE NoneRunnable \/ WaitForEvent
  BY <1>1, <1>2 DEF NoneRunnable, WaitForEvent
<1>3. CASE PollNvme
  <2>1. CASE fifo # <<>> /\ Pick # NONE /\ Dispatch(Pick, Head(fifo)) /\ fifo' = Tail(fifo)
    <3>1. PICK y \in Commands : y = Head(fifo)
      BY <1>0, <2>1, SMT
    <3>2. Dispatch(Pick, y)
      BY <2>1, <3>1
    <3>3. UNCHANGED <<ftl_avail, spu, posted, done>>
      BY <1>3 DEF PollNvme
    <3> QED BY <2>1, <3>1, <3>2, <3>3, DispatchOnce
  <2>2. CASE UNCHANGED <<fifo, slot, th>>
    BY <1>1, <1>3, <2>2 DEF PollNvme
  <2> QED BY <1>3, <2>1, <2>2 DEF PollNvme
<1>4. CASE PollStorpu
  <2>1. CASE /\ ftl_avail # <<>> /\ Pick # NONE /\ Dispatch(Pick, Head(ftl_avail))
             /\ ftl_avail' = Tail(ftl_avail)
    <3>1. PICK y \in Tasks : y = Head(ftl_avail)
      BY <1>0, <2>1, SMT
    <3>2. Dispatch(Pick, y)
      BY <2>1, <3>1
    <3>3. UNCHANGED <<fifo, spu, posted, done>>
      BY <1>4 DEF PollStorpu
    <3>4. Len(ftl_avail') # Len(ftl_avail)
      BY <1>0, <2>1, SMT
    <3>5. y = IF ftl_avail' = ftl_avail THEN Head(fifo) ELSE Head(ftl_avail)
      BY <3>1, <3>4
    <3> QED BY <2>1, <3>2, <3>3, <3>5, DispatchOnce
  <2>2. CASE ftl_avail' = NotDispatched /\ UNCHANGED <<slot, th>>
    BY <1>1, <1>4, <2>2 DEF PollStorpu, NotDispatched
  <2> QED BY <1>4, <2>1, <2>2 DEF PollStorpu
<1> QED BY <1>2, <1>3, <1>4 DEF MainLoop

\* Worker w completes its work y.
LEMMA Completed ==
  ASSUME Inv, Once, NEW w \in Workers, NEW y \in Commands \cup Tasks, th[w].work = y, NEW st,
         Goto(w, [th[w] EXCEPT !.work = NONE], "check"),
         done' = done \cup {[work |-> y, status |-> st]}, UNCHANGED <<fifo, ftl_avail, slot>>
  PROVE  /\ \A x \in Commands \cup Tasks :
              (Single(x) => Single(x)') /\ (Absent(x) => Absent(x)')
         /\ \A c \in Invokes : Given(c) => Given(c)'
         /\ \A v \in Workers : Idle(v)'
         /\ Single(y)
<1>1. /\ th'[w].pc = "check" /\ th'[w].work = NONE
      /\ \A v \in Workers : v # w => th'[v] = th[v]
  BY DEF Goto, Inv, TypeOK, Threads
<1>2. Single(y) /\ One(Held(y)) /\ At(fifo, y) = {} /\ At(ftl_avail, y) = {} /\ Slots(y) = {}
      /\ Ends(y) = {} /\ w \in Held(y) /\ ~Absent(y)
  <2>1. w \in Held(y)
    BY DEF Held
  <2>2. Single(y) /\ ~Absent(y)
    BY <2>1, SingleOrAbsent DEF Absent
  <2> QED BY <2>1, <2>2, OnlyThere
<1>3. Held(y)' = {}
  <2>1. Held(y) = {w} /\ y # NONE
    BY <1>2, Works DEF One
  <2>2. ASSUME NEW v \in Held(y)' PROVE FALSE
    <3>1. v \in Workers /\ th'[v].work = y
      BY <2>2 DEF Held
    <3>2. v # w /\ v \in Held(y)
      BY <1>1, <2>1, <3>1 DEF Held
    <3> QED BY <2>1, <3>2
  <2> QED BY <2>2
<1>4. ASSUME NEW x PROVE /\ At(fifo, x)' = At(fifo, x) /\ At(ftl_avail, x)' = At(ftl_avail, x)
                         /\ Slots(x)' = Slots(x)
  BY DEF At, Slots
<1>5. Single(y)'
  <2>1. PICK d : d = [work |-> y, status |-> st]
    OBVIOUS
  <2>2. d.work = y /\ done' = done \cup {d}
    BY <2>1
  <2>3. Ends(y)' = {d}
    BY <1>2, <2>2 DEF Ends
  <2>4. One({d})
    BY DEF One
  <2> QED BY <1>2, <1>3, <1>4, <2>3, <2>4 DEF Single, Sole
<1>6. ASSUME NEW x \in Commands \cup Tasks, x # y PROVE Held(x)' = Held(x) /\ Ends(x)' = Ends(x)
  <2>1. x # NONE
    BY Works
  <2>2. Held(x)' = Held(x)
    BY <1>1, <1>6, <2>1 DEF Held
  <2>3. Ends(x)' = Ends(x)
    <3>1. PICK d : d = [work |-> y, status |-> st]
      OBVIOUS
    <3>2. d.work # x /\ done' = done \cup {d}
      BY <1>6, <3>1
    <3> QED BY <3>2 DEF Ends
  <2> QED BY <2>2, <2>3
<1>7. ASSUME NEW x \in Commands \cup Tasks
      PROVE  (Single(x) => Single(x)') /\ (Absent(x) => Absent(x)')
  <2>1. CASE x = y
    BY <1>2, <1>5, <2>1
  <2>2. CASE x # y
    BY <1>4, <1>6, <2>2, StillThere
  <2> QED BY <2>1, <2>2
<1>8. ASSUME NEW c \in Invokes, Given(c) PROVE Given(c)'
  <2>1. PICK x \in Commands : x = Work("invoke", c)
    BY Works
  <2>2. /\ Single(x)' /\ At(fifo, x)' = {} /\ At(ftl_avail, x)' = {} /\ Slots(x)' = {}
    BY <1>4, <1>7, <1>8, <2>1 DEF Given
  <2>3. ASSUME NEW v \in Held(x)' PROVE th'[v].pc = "busy"
    <3>1. x # y
      BY <1>3, <2>3
    <3>2. v \in Held(x) /\ v \in Workers /\ th[v].work = x
      BY <1>6, <2>3, <3>1 DEF Held
    <3>3. v # w /\ th[v].pc = "busy"
      BY <1>8, <2>1, <3>1, <3>2 DEF Given
    <3> QED BY <1>1, <3>2, <3>3
  <2> QED BY <2>1, <2>2, <2>3 DEF Given
<1>9. ASSUME NEW v \in Workers PROVE Idle(v)'
  BY <1>1 DEF Once, Idle
<1> QED BY <1>2, <1>7, <1>8, <1>9

\* The task of an invoke command, and the command, by their number.
LEMMA Numbers ==
  ASSUME NEW x \in Commands \cup Tasks
  PROVE  /\ x.op = "task" => x.id \in Invokes /\ x = Work("task", x.id)
         /\ x.op = "invoke" => x.id \in Invokes /\ x = Work("invoke", x.id)
BY SMT DEF Commands, Tasks, Work

LEMMA FinishOnce == ASSUME Inv, Once, NEW w \in Workers, Finish(w) PROVE Once'
<1>1. PICK y \in Commands \cup Tasks : y = th[w].work
  BY DEF Finish, Inv, Good
<1>2. /\ done' = done \cup {[work |-> y, status |-> "SUCCESS"]}
      /\ spu' = IF y.op = "task" THEN [spu EXCEPT ![y.id] = "served"] ELSE spu
      /\ Goto(w, [th[w] EXCEPT !.work = NONE], "check")
      /\ UNCHANGED <<fifo, ftl_avail, slot, posted>>
  BY <1>1 DEF Finish
<1>3. /\ \A x \in Commands \cup Tasks :
           (Single(x) => Single(x)') /\ (Absent(x) => Absent(x)')
      /\ \A c \in Invokes : Given(c) => Given(c)'
      /\ \A v \in Workers : Idle(v)'
      /\ Single(y)
  BY <1>1, <1>2, Completed
<1>4. CASE y.op # "task"
  BY <1>2, <1>3, <1>4, OnceStays
<1>5. CASE y.op = "task"
  <2>1. PICK i \in Invokes : i = y.id /\ y = Work("task", i)
    BY <1>5, Numbers
  <2>2. spu'[i] = "served" /\ \A c \in Invokes : c # i => spu'[c] = spu[c]
    BY <1>2, <1>5, <2>1 DEF Inv, TypeOK
  <2>3. spu[i] # "none"
    <3>1. ~Absent(y)
      BY <1>1 DEF Absent, Held
    <3> QED BY <2>1, <3>1 DEF Once, Asked
  <2>4. ASSUME NEW c \in Commands PROVE (IF c \in posted THEN Single(c) ELSE Absent(c))'
    BY <1>2, <1>3 DEF Once
  <2>5. ASSUME NEW c \in Invokes PROVE Asked(c)'
    <3>1. Work("task", c) \in Tasks
      BY Works
    <3>2. CASE c = i
      <4>1. Single(Work("task", c))'
        BY <1>3, <2>1, <3>2
      <4> QED BY <2>2, <3>2, <4>1 DEF Asked
    <3>3. CASE c # i
      BY <1>3, <2>2, <3>1, <3>3 DEF Once, Asked
    <3> QED BY <3>2, <3>3
  <2>6. ASSUME NEW c \in Invokes, spu'[c] # "none" PROVE Given(c)'
    <3>1. spu[c] # "none"
      BY <2>2, <2>3, <2>6
    <3> QED BY <1>3, <3>1 DEF Once
  <2> QED BY <1>3, <2>4, <2>5, <2>6 DEF Once
<1> QED BY <1>4, <1>5

LEMMA ProcessOnce == ASSUME Inv, Once, NEW w \in Workers, Process(w) PROVE Once'
<1>1. PICK y \in Commands \cup Tasks : y = th[w].work
  BY DEF Process, Inv, Good
<1>2. th[w].pc = "process" /\ UNCHANGED <<fifo, ftl_avail, slot, posted>>
  BY DEF Process
<1>3. ASSUME NEW why, Sleep(w, th[w], "busy", why)
      PROVE  /\ th'[w].pc = "busy" /\ th'[w].work = y
             /\ \A v \in Workers : v # w => th'[v] = th[v]
  BY <1>1, <1>3 DEF Sleep, Inv, TypeOK, Threads
<1>4. CASE Sleep(w, th[w], "busy", "ftl") /\ UNCHANGED <<spu, done>>
  <2>1. /\ th'[w].pc = "busy" /\ th'[w].work = y
        /\ \A v \in Workers : v # w => th'[v] = th[v]
    BY <1>3, <1>4
  <2> QED BY <1>1, <1>2, <1>4, <2>1, GoneOn
<1>5. CASE /\ y.op = "write_zeroes"
           /\ done' = done \cup {[work |-> y, status |-> "INVALID_OPCODE"]}
           /\ Goto(w, [th[w] EXCEPT !.work = NONE], "check") /\ UNCHANGED spu
  <2>1. /\ \A x \in Commands \cup Tasks :
             (Single(x) => Single(x)') /\ (Absent(x) => Absent(x)')
        /\ \A c \in Invokes : Given(c) => Given(c)'
        /\ \A v \in Workers : Idle(v)'
    BY <1>1, <1>2, <1>5, Completed
  <2> QED BY <1>2, <1>5, <2>1, OnceStays
<1>6. CASE /\ y.op = "invoke" /\ spu' = [spu EXCEPT ![y.id] = "running"]
           /\ Sleep(w, th[w], "busy", "storpu") /\ UNCHANGED done
  <2>1. PICK i \in Invokes : i = y.id /\ y = Work("invoke", i)
    BY <1>6, Numbers
  <2>2. spu'[i] = "running" /\ \A c \in Invokes : c # i => spu'[c] = spu[c]
    BY <1>6, <2>1 DEF Inv, TypeOK
  <2>3. /\ th'[w].pc = "busy" /\ th'[w].work = y
        /\ \A v \in Workers : v # w => th'[v] = th[v]
    BY <1>3, <1>6
  <2>4. \A v \in Workers : th'[v].work = th[v].work
    BY <1>1, <2>3
  <2>5. ASSUME NEW x PROVE /\ Slots(x)' = Slots(x) /\ Held(x)' = Held(x) /\ Ends(x)' = Ends(x)
                           /\ At(fifo, x)' = At(fifo, x) /\ At(ftl_avail, x)' = At(ftl_avail, x)
    BY <1>2, <1>6, <2>4 DEF Slots, Held, Ends, At
  <2>6. ASSUME NEW x PROVE (Single(x) => Single(x)') /\ (Absent(x) => Absent(x)')
    BY <2>5, StillThere
  <2>7. w \in Held(y) /\ Single(y)
    <3>1. w \in Held(y)
      BY <1>1 DEF Held
    <3>2. ~Absent(y)
      BY <3>1 DEF Absent
    <3> QED BY <3>1, <3>2, SingleOrAbsent
  <2>8. spu[i] = "none"
    BY <1>2, <2>1, <2>7 DEF Once, Given
  <2>9. Given(i)'
    <3>1. One(Held(y)) /\ At(fifo, y) = {} /\ At(ftl_avail, y) = {} /\ Slots(y) = {}
      BY <2>7, OnlyThere
    <3>0. Held(y)' = {w}
      <4>1. PICK a : Held(y) = {a}
        BY <3>1 DEF One
      <4>2. Held(y) = {w}
        BY <2>7, <4>1
      <4> QED BY <2>5, <4>2
    <3>2. ASSUME NEW v \in Held(y)' PROVE th'[v].pc = "busy"
      BY <2>3, <3>0, <3>2
    <3> QED BY <2>1, <2>5, <2>6, <2>7, <3>1, <3>2 DEF Given
  <2>10. ASSUME NEW c \in Commands PROVE (IF c \in posted THEN Single(c) ELSE Absent(c))'
    BY <1>2, <2>6 DEF Once
  <2>11. ASSUME NEW c \in Invokes PROVE Asked(c)'
    <3>1. CASE c = i
      <4>1. Absent(Work("task", c))'
        BY <2>6, <2>8, <3>1 DEF Once, Asked
      <4> QED BY <2>2, <3>1, <4>1 DEF Asked
    <3>2. CASE c # i
      BY <2>2, <2>6, <3>2 DEF Once, Asked
    <3> QED BY <3>1, <3>2
  <2>12. ASSUME NEW c \in Invokes, c # i, spu'[c] # "none" PROVE Given(c)'
    <3>1. Given(c)
      BY <2>2, <2>12 DEF Once
    <3>2. ASSUME NEW v \in Held(Work("invoke", c))' PROVE th'[v].pc = "busy"
      <4>1. v \in Held(Work("invoke", c)) /\ v \in Workers
        BY <2>5, <3>2 DEF Held
      <4>2. th[v].pc = "busy"
        BY <3>1, <4>1 DEF Given
      <4> QED BY <2>3, <4>1, <4>2
    <3> QED BY <2>5, <2>6, <3>1, <3>2 DEF Given
  <2>13. ASSUME NEW v \in Workers PROVE Idle(v)'
    BY <2>3 DEF Once, Idle
  <2> QED BY <2>9, <2>10, <2>11, <2>12, <2>13 DEF Once
<1> QED BY <1>1, <1>4, <1>5, <1>6 DEF Process

LEMMA SubmitOnce == ASSUME Inv, Once, NEW c \in Commands, Submit(c) PROVE Once'
<1>1. /\ c \notin posted /\ posted' = posted \cup {c} /\ fifo' = Append(fifo, c)
      /\ UNCHANGED <<ftl_avail, slot, th, spu, done>> /\ fifo \in Seq(Commands)
  BY DEF Submit, Inv, TypeOK
<1>2. ASSUME NEW x
      PROVE  /\ Slots(x)' = Slots(x) /\ Held(x)' = Held(x) /\ Ends(x)' = Ends(x)
             /\ At(ftl_avail, x)' = At(ftl_avail, x)
             /\ x # c => At(fifo, x)' = At(fifo, x)
             /\ x = c /\ At(fifo, x) = {} => One(At(fifo, x)')
  <2>1. Slots(x)' = Slots(x) /\ Held(x)' = Held(x) /\ Ends(x)' = Ends(x)
    BY <1>1 DEF Slots, Held, Ends
  <2>2. At(ftl_avail, x)' = At(ftl_avail, x) /\ At(fifo, x)' = At(Append(fifo, c), x)
    BY <1>1 DEF At
  <2> QED BY <1>1, <2>1, <2>2, AppendAt
<1>3. ASSUME NEW x, x # c PROVE (Single(x) => Single(x)') /\ (Absent(x) => Absent(x)')
  BY <1>2, <1>3, StillThere
<1>4. Single(c)' /\ Absent(c)
  <2>1. Absent(c)
    BY <1>1 DEF Once
  <2>2. One(At(fifo, c)') /\ At(ftl_avail, c)' = {} /\ Slots(c)' = {} /\ Held(c)' = {} /\ Ends(c)' = {}
    BY <1>2, <2>1 DEF Absent
  <2> QED BY <2>1, <2>2 DEF Single, Sole
<1>5. ASSUME NEW x \in Commands PROVE (IF x \in posted THEN Single(x) ELSE Absent(x))'
  BY <1>1, <1>3, <1>4 DEF Once
<1>6. ASSUME NEW i \in Invokes PROVE Asked(i)'
  <2>1. Work("task", i) # c
    BY Works
  <2> QED BY <1>1, <1>3, <2>1 DEF Once, Asked
<1>7. ASSUME NEW i \in Invokes, spu'[i] # "none" PROVE Given(i)'
  <2>1. Given(i)
    BY <1>1, <1>7 DEF Once
  <2>2. Work("invoke", i) # c
    BY <1>4, <2>1 DEF Given, Single, Sole, Absent, One
  <2>3. ASSUME NEW v \in Held(Work("invoke", i))' PROVE th'[v].pc = "busy"
    BY <1>1, <1>2, <2>1, <2>3 DEF Given
  <2> QED BY <1>2, <1>3, <2>1, <2>2, <2>3 DEF Given
<1>8. ASSUME NEW v \in Workers PROVE Idle(v)'
  BY <1>1 DEF Once, Idle
<1> QED BY <1>5, <1>6, <1>7, <1>8 DEF Once

LEMMA SpuCallOnce == ASSUME Inv, Once, NEW i \in Invokes, SpuCall(i) PROVE Once'
<1>0. PICK y \in Tasks : y = Work("task", i)
  BY Works
<1>1. /\ spu[i] = "running" /\ spu' = [spu EXCEPT ![i] = "waiting"] /\ ftl_avail' = <<y>> \o ftl_avail
      /\ UNCHANGED <<fifo, slot, th, posted, done>> /\ ftl_avail \in Seq(Tasks)
  BY <1>0 DEF SpuCall, Inv, TypeOK
<1>2. spu'[i] = "waiting" /\ \A c \in Invokes : c # i => spu'[c] = spu[c]
  BY <1>1 DEF Inv, TypeOK
<1>3. ASSUME NEW x
      PROVE  /\ Slots(x)' = Slots(x) /\ Held(x)' = Held(x) /\ Ends(x)' = Ends(x)
             /\ At(fifo, x)' = At(fifo, x)
             /\ x # y /\ One(At(ftl_avail, x)) => One(At(ftl_avail, x)')
             /\ x # y /\ At(ftl_avail, x) = {} => At(ftl_avail, x)' = {}
             /\ x = y /\ At(ftl_avail, x) = {} => One(At(ftl_avail, x)')
  <2>1. Slots(x)' = Slots(x) /\ Held(x)' = Held(x) /\ Ends(x)' = Ends(x)
    BY <1>1 DEF Slots, Held, Ends
  <2>2. At(fifo, x)' = At(fifo, x) /\ At(ftl_avail, x)' = At(<<y>> \o ftl_avail, x)
    BY <1>1 DEF At
  <2> QED BY <1>1, <2>1, <2>2, FrontAt
<1>4. ASSUME NEW x, x # y PROVE (Single(x) => Single(x)') /\ (Absent(x) => Absent(x)')
  BY <1>3, <1>4, StillThere
<1>5. Single(y)'
  <2>1. Absent(y)
    BY <1>0, <1>1 DEF Once, Asked
  <2>2. One(At(ftl_avail, y)') /\ At(fifo, y)' = {} /\ Slots(y)' = {} /\ Held(y)' = {} /\ Ends(y)' = {}
    BY <1>3, <2>1 DEF Absent
  <2> QED BY <2>1, <2>2 DEF Single, Sole
<1>6. ASSUME NEW x \in Commands PROVE (IF x \in posted THEN Single(x) ELSE Absent(x))'
  <2>1. x # y
    BY Works
  <2> QED BY <1>1, <1>4, <2>1 DEF Once
<1>7. ASSUME NEW c \in Invokes PROVE Asked(c)'
  <2>1. CASE c = i
    BY <1>0, <1>2, <1>5, <2>1 DEF Asked
  <2>2. CASE c # i
    <3>1. Work("task", c) # y
      BY <1>0, <2>2, SMT DEF Work
    <3> QED BY <1>2, <1>4, <2>2, <3>1 DEF Once, Asked
  <2> QED BY <2>1, <2>2
<1>8. ASSUME NEW c \in Invokes, spu'[c] # "none" PROVE Given(c)'
  <2>1. Given(c)
    BY <1>1, <1>2, <1>8 DEF Once
  <2>2. Work("invoke", c) # y
    BY Works
  <2>3. ASSUME NEW v \in Held(Work("invoke", c))' PROVE th'[v].pc = "busy"
    BY <1>1, <1>3, <2>1, <2>3 DEF Given
  <2> QED BY <1>3, <1>4, <2>1, <2>2, <2>3 DEF Given
<1>9. ASSUME NEW v \in Workers PROVE Idle(v)'
  BY <1>1 DEF Once, Idle
<1> QED BY <1>6, <1>7, <1>8, <1>9 DEF Once

LEMMA SpuExitOnce == ASSUME Inv, Once, NEW i \in Invokes, SpuExit(i) PROVE Once'
<1>1. PICK w \in Workers : th' = Wake(th, w, "storpu")
  BY DEF SpuExit
<1>2. /\ spu[i] \in {"running", "served"} /\ spu' = [spu EXCEPT ![i] = "exited"]
      /\ UNCHANGED <<fifo, ftl_avail, slot, posted, done>>
  BY DEF SpuExit
<1>3. spu'[i] = "exited" /\ \A c \in Invokes : c # i => spu'[c] = spu[c]
  BY <1>2 DEF Inv, TypeOK
<1>4. \A v \in Workers : th'[v].work = th[v].work /\ th'[v].pc = th[v].pc
  BY <1>1, WokenOnce
<1>5. ASSUME NEW x PROVE /\ Slots(x)' = Slots(x) /\ Held(x)' = Held(x) /\ Ends(x)' = Ends(x)
                         /\ At(fifo, x)' = At(fifo, x) /\ At(ftl_avail, x)' = At(ftl_avail, x)
  BY <1>2, <1>4 DEF Slots, Held, Ends, At
<1>6. ASSUME NEW x PROVE (Single(x) => Single(x)') /\ (Absent(x) => Absent(x)')
  BY <1>5, StillThere
<1>7. ASSUME NEW x \in Commands PROVE (IF x \in posted THEN Single(x) ELSE Absent(x))'
  BY <1>2, <1>6 DEF Once
<1>8. ASSUME NEW c \in Invokes PROVE Asked(c)'
  <2>1. CASE c = i
    <3>1. Single(Work("task", c)) \/ Absent(Work("task", c))
      BY <1>2, <2>1 DEF Once, Asked
    <3> QED BY <1>3, <1>6, <2>1, <3>1 DEF Asked
  <2>2. CASE c # i
    BY <1>3, <1>6, <2>2 DEF Once, Asked
  <2> QED BY <2>1, <2>2
<1>9. ASSUME NEW c \in Invokes, spu'[c] # "none" PROVE Given(c)'
  <2>1. Given(c)
    BY <1>2, <1>3, <1>9 DEF Once
  <2>2. ASSUME NEW v \in Held(Work("invoke", c))' PROVE th'[v].pc = "busy"
    <3>1. v \in Held(Work("invoke", c)) /\ v \in Workers
      BY <1>5, <2>2 DEF Held
    <3> QED BY <1>4, <2>1, <3>1 DEF Given
  <2> QED BY <1>5, <1>6, <2>1, <2>2 DEF Given
<1>10. ASSUME NEW v \in Workers PROVE Idle(v)'
  BY <1>4 DEF Once, Idle
<1> QED BY <1>7, <1>8, <1>9, <1>10 DEF Once

LEMMA RunOnce == ASSUME Inv, Once, NEW w \in Workers, Run(w) PROVE Once'
<1>1. \A v \in Workers : th'[v].work = th[v].work /\ th'[v].pc = th[v].pc
  BY DEF Run, Inv, TypeOK, Threads
<1>2. \A v \in Workers : Idle(v)'
  BY <1>1 DEF Once, Idle
<1>3. UNCHANGED <<fifo, ftl_avail, slot, spu, posted, done>>
  BY DEF Run
<1> QED BY <1>1, <1>2, <1>3, NothingMoved

LEMMA InitOnce == Init => Once
<1> SUFFICES ASSUME Init PROVE Once
  OBVIOUS
<1>1. ASSUME NEW x \in Commands \cup Tasks PROVE Absent(x)
  <2>0. x # NONE
    BY Works
  <2>1. \A w \in Workers : slot[w] = NONE /\ th[w].work = NONE
    BY DEF Init
  <2>2. Slots(x) = {} /\ Held(x) = {}
    BY <2>0, <2>1 DEF Slots, Held
  <2>3. Ends(x) = {}
    BY DEF Init, Ends
  <2>4. At(fifo, x) = {} /\ At(ftl_avail, x) = {}
    BY SMT DEF Init, At
  <2> QED BY <2>2, <2>3, <2>4 DEF Absent
<1>2. \A c \in Invokes : spu[c] = "none" /\ Work("task", c) \in Tasks
  BY Works DEF Init
<1>3. \A w \in Workers : Idle(w)
  BY DEF Init, Idle
<1>4. posted = {}
  BY DEF Init
<1> QED BY <1>1, <1>2, <1>3, <1>4 DEF Once, Asked

LEMMA NextOnce == Inv /\ Once /\ [Next]_vars => Once'
<1> SUFFICES ASSUME Inv, Once, [Next]_vars PROVE Once'
  OBVIOUS
<1>1. ASSUME NEW w \in Workers, Step(w) PROVE Once'
  BY <1>1, QuietOnce, LookOnce, GotWorkOnce, ProcessOnce, FinishOnce DEF Step
<1>2. ASSUME NEW w \in Workers, Answer(w) PROVE Once'
  BY <1>2, WakeOnce DEF Answer
<1>3. CASE RequestShutdown
  <2>1. SHUTDOWN_THREAD \in Workers
    BY NvmeAssumption, SMT DEF SHUTDOWN_THREAD, Workers
  <2> QED BY <1>3, <2>1, WakeOnce DEF RequestShutdown
<1>4. CASE UNCHANGED vars
  <2>1. UNCHANGED <<fifo, ftl_avail, slot, th, spu, posted, done>>
    BY <1>4 DEF vars
  <2>2. \A w \in Workers : Idle(w)'
    BY <2>1 DEF Once, Idle
  <2> QED BY <2>1, <2>2, NothingMoved
<1> QED BY <1>1, <1>2, <1>3, <1>4, RunOnce, MainLoopOnce, SubmitOnce, SpuCallOnce, SpuExitOnce
        DEF Next

\* A command that has been submitted, and the task of a program that has asked for
\* one, are in exactly one place of the queues, the slots, the workers' hands and
\* the completions, for any number of workers and commands: whatever the order in
\* which the main loop and the workers take work, none is dropped or done twice.
THEOREM WorkNeverLost == Spec => []WorkKept
<1>1. Spec => []Once
  BY Invariance, InitOnce, NextOnce, PTL DEF Spec
<1>2. Once => WorkKept
  BY OnceKept
<1> QED BY <1>1, <1>2, PTL
=============================================================================
