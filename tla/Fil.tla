-------------------------------- MODULE Fil --------------------------------
(***************************************************************************)
(* The flash interface layer, on a core of its own (myssd_sdk/r5poll: fil/ *)
(* tsu.c, fil/fil.c, main.c): one channel, whose bus its chips share, with *)
(* several dies per chip that work in parallel.  The channels share        *)
(* nothing.  The core loops: it takes tasks off the ring into the queues   *)
(* of their chips, dispatches what the bus and the dies allow, and looks   *)
(* which transfers and die operations are over.                            *)
(*                                                                         *)
(* Dispatching calls itself: a command without data is over on the bus at  *)
(* once, which makes the channel idle, which dispatches the next.  `f' is  *)
(* the state of tsu.c and fil.c, and the functions of the code are         *)
(* operators from f to f.  ENABLE_MULTIPLANE is not defined: a command has *)
(* one transaction.                                                        *)
(***************************************************************************)
EXTENDS Integers, Sequences, FiniteSets, SequencesExt

CONSTANTS
    Tasks,        \* the task slots in shared memory
    NrChips,      \* CHIPS_ENABLED_PER_CHANNEL
    NrDies,       \* DIES_PER_CHIP
    Shapes,       \* what tasks ask for: [type, source, chip, die]
    MaxSubmits,   \* bound: tasks put on the ring
    NONE

Chips == 0..NrChips - 1
Dies == 0..NrDies - 1
Queues == {"read", "write", "mapping_read", "mapping_write", "gc_read", "gc_write",
           "gc_erase"}

ASSUME FilAssumption ==
    /\ NrChips \in Nat \ {0} /\ NrDies \in Nat \ {0} /\ MaxSubmits \in Nat
    /\ NONE \notin Tasks
    /\ Shapes \subseteq [type : {"read", "write", "erase", "dump"},
                         source : {"user", "mapping", "gc"}, chip : Nat, die : Dies]

VARIABLES
    f,            \* the state of tsu.c and fil.c
    shape,        \* what each task asks for
    ring,         \* tasks on the avail ring
    answered,     \* tasks on the used ring
    pc,           \* where the main loop of the core is
    batch,        \* dies found ready in this round
    over,         \* something was found over in this step
    submits

vars == <<f, shape, ring, answered, pc, batch, over, submits>>

FilInit ==
    [queue |-> [c \in Chips |-> [q \in Queues |-> <<>>]],
     count |-> [c \in Chips |-> 0],             \* request_count
     rr |-> 0,                                  \* channel_rr_index
     bus |-> "idle",                            \* channel_status
     txn |-> [x \in Chips \X Dies |-> NONE],    \* active_cmd with its transaction
     exec |-> [x \in Chips \X Dies |-> FALSE],  \* current_cmd # NULL
     xfer |-> [x \in Chips \X Dies |-> NONE],   \* active_xfer
     cmds |-> [c \in Chips |-> <<>>],           \* cmd_xfer_queue
     current |-> [c \in Chips |-> NONE],        \* current_xfer
     active |-> [c \in Chips |-> 0],            \* active_dies
     status |-> [c \in Chips |-> "idle"],
     waiting |-> [c \in Chips |-> 0],           \* nr_waiting_read_xfers
     reads |-> <<>>,                            \* waiting_read_xfer
     in |-> <<>>,                               \* chip_in_transfer_list
     out |-> <<>>,                              \* chip_out_transfer_list
     done |-> {},                               \* notify_task_complete since the last step
     failed |-> FALSE]                          \* an Xil_Assert has failed

Init ==
    /\ f = FilInit
    /\ shape = [t \in Tasks |-> NONE]
    /\ ring = <<>> /\ answered = {}
    /\ pc = "dequeue" /\ batch = <<>> /\ over = FALSE
    /\ submits = 0

Type(t) == shape[t].type
Die(t) == <<shape[t].chip, shape[t].die>>

----------------------------------------------------------------------------
(* fil.c and tsu.c: dispatching                                            *)

Asserted(g, ok) == [g EXCEPT !.failed = @ \/ ~ok]

DieBusyAlone(g, c, d, program) == g.txn[c, d] # NONE
\* fil_is_die_busy: the rules for operations on several LUNs of one chip.
DieBusy(g, c, d, program) ==
    \/ g.txn[c, d] # NONE
    \/ /\ program
       /\ \E e \in Dies : g.txn[c, e] # NONE /\ (Type(g.txn[c, e]) = "read" \/ ~g.exec[c, e])

StatusOf(type) ==
    CASE type = "read" -> "reading" [] type = "write" -> "writing" [] type = "erase" -> "erasing"

RECURSIVE CompleteChipTransfer(_, _), FlushChips(_, _), DispatchDies(_, _, _, _, _)

\* start_cmd_data_transfer: only a program command has data to send.
SendCommand(g, c, d) ==
    IF Type(g.txn[c, d]) = "write"
    THEN [g EXCEPT !.cmds[c] = Tail(@), !.status[c] = "cmd_data_in", !.current[c] = d,
                   !.in = Append(@, c)]
    ELSE CompleteChipTransfer(
            [g EXCEPT !.cmds[c] = Tail(@), !.status[c] = "cmd_data_in", !.current[c] = d], c)
StartCmdDataTransfer(g, c) ==
    IF g.cmds[c] = <<>> THEN Asserted(g, g.current[c] = NONE)
    ELSE SendCommand(Asserted(g, g.current[c] = NONE), c, Head(g.cmds[c]))

\* tsu_flush_channel, with n chips to go.
TsuFlushChannel(g) == FlushChips(g, NrChips)

\* start_die_command: die d of chip c works.
StartDieCommand(g, c, d) ==
    [g EXCEPT !.current[c] = NONE, !.exec[c, d] = TRUE, !.active[c] = @ + 1]

CompleteChipTransferQuiet(g, c) ==
    LET d == g.current[c]
    IN  IF g.cmds[c] # <<>> THEN StartCmdDataTransfer(StartDieCommand(g, c, d), c)
        ELSE [StartDieCommand(g, c, d) EXCEPT !.status[c] = StatusOf(Type(g.txn[c, d])),
                                              !.bus = "idle"]
\* complete_chip_transfer: the bus is free unless another command waits for it.
CompleteChipTransfer(g, c) ==
    LET d == g.current[c]
    IN  IF g.cmds[c] # <<>> THEN StartCmdDataTransfer(StartDieCommand(g, c, d), c)
        ELSE TsuFlushChannel([StartDieCommand(g, c, d) EXCEPT
                                 !.status[c] = StatusOf(Type(g.txn[c, d])), !.bus = "idle"])

\* fil_dispatch of transaction t.
FilDispatch(g, t) ==
    LET c == shape[t].chip
        ok == g.txn[Die(t)] = NONE /\ (g.bus = "idle" \/ g.current[c] # NONE)
    IN  StartCmdDataTransfer(
            [Asserted(g, ok) EXCEPT !.txn[Die(t)] = t, !.bus = "busy",
                                    !.cmds[c] = Append(@, shape[t].die)], c)

\* The candidates of dispatch_queue_request: dies that are not busy, with a
\* transaction in the first queue; one only if it is a write.
Candidates(g, c, prim) ==
    LET q == g.queue[c][prim]
        able == {i \in DOMAIN q : ~DieBusy(g, c, shape[q[i]].die, Type(q[i]) = "write")}
        taken == {i \in able : Type(q[i]) = "write" => \A j \in able : i <= j}
    IN  {shape[q[i]].die : i \in taken}

\* The rest of dispatch_queue_request, for the dies `todo': the dispatch of one die
\* may have made another busy, and stops when the bus is.
DispatchDie(g, c, qs, d) ==
    LET of(q) == SelectSeq(g.queue[c][q], LAMBDA t : shape[t].die = d)
        q == IF of(qs[1]) # <<>> THEN qs[1] ELSE qs[Len(qs)]
        t == Head(of(q))
    IN  FilDispatch([g EXCEPT !.queue[c][q] = Remove(@, t)], t)
DispatchDies(g, c, qs, todo, found) ==
    LET d == Min(todo)
        program == qs[1] \in {"write", "mapping_write", "gc_write"}
        skip == DieBusy(g, c, d, program)
    IN  IF todo = {} \/ (found > 0 /\ g.bus = "busy") THEN [g |-> g, found |-> found]
        ELSE DispatchDies(IF skip THEN g ELSE DispatchDie(g, c, qs, d), c, qs, todo \ {d},
                          IF skip THEN found ELSE found + 1)

Uncount(r, c) == [r EXCEPT !.g.count[c] = @ - r.found]
DispatchQueue(g, c, qs) ==
    IF qs = <<>> THEN [g |-> g, found |-> 0]
    ELSE Uncount(DispatchDies(g, c, SubSeq(qs, 1, IF Len(qs) > 1 THEN 2 ELSE 1),
                              Candidates(g, c, qs[1]), 0), c)

\* The queues that dispatch_read_request and dispatch_write_request look at.
ReadQueues(g, c) ==
    LET has(q) == g.queue[c][q] # <<>>
    IN  IF has("mapping_read") THEN SelectSeq(<<"mapping_read", "read", "gc_read">>, has)
        ELSE IF has("read") THEN SelectSeq(<<"read", "gc_read">>, has)
        ELSE IF has("write") \/ ~has("gc_read") THEN <<>> ELSE <<"gc_read">>
WriteQueues(g, c) ==
    LET has(q) == g.queue[c][q] # <<>>
    IN  SelectSeq(<<"mapping_write", "write", "gc_write">>, has)
EraseQueues(g, c) ==
    IF g.queue[c]["gc_erase"] # <<>> THEN <<"gc_erase">> ELSE <<>>

\* dispatch_request: reads before writes before erases; the second queue, if there
\* is one, is the first of the rest.
AfterWrites(w, c) ==
    IF w.found > 0 THEN w.g ELSE DispatchQueue(w.g, c, EraseQueues(w.g, c)).g
AfterReads(r, c) ==
    IF r.found > 0 THEN r.g
    ELSE AfterWrites(DispatchQueue(r.g, c, WriteQueues(r.g, c)), c)
DispatchRequest(g, c) == AfterReads(DispatchQueue(g, c, ReadQueues(g, c)), c)

\* One chip after the other, until the bus is busy.
NextChip(g) == [g EXCEPT !.rr = (@ + 1) % NrChips]
FlushPast(g, n) ==
    IF n = 0 THEN g
    ELSE FlushChips(NextChip(IF g.count[g.rr] # 0 THEN DispatchRequest(g, g.rr) ELSE g), n - 1)
FlushChips(g, n) ==
    IF n = 0 \/ (n < NrChips /\ g.bus = "busy") THEN g
    ELSE FlushChips(NextChip(IF g.count[g.rr] # 0 THEN DispatchRequest(g, g.rr) ELSE g), n - 1)

\* tsu_notify_chip_idle.
NotifyChipIdle(g, c) == IF g.bus = "busy" THEN g ELSE DispatchRequest(g, c)
NotifyIfIdle(g) == IF g.bus = "idle" THEN TsuFlushChannel(g) ELSE g

----------------------------------------------------------------------------
(* fil.c: completions                                                      *)

\* start_data_out_transfer.
StartDataOut(g) ==
    LET t == Head(g.reads)
    IN  IF g.bus # "idle" \/ g.reads = <<>> THEN g
        ELSE [Asserted(g, g.xfer[Die(t)] = NONE /\ Type(t) = "read") EXCEPT
                 !.reads = Tail(@), !.status[shape[t].chip] = "data_out",
                 !.xfer[Die(t)] = t, !.bus = "busy", !.out = Append(@, Die(t))]

\* complete_die_command; what a read found is still to be transferred.
CompleteDieCommand(g, x) ==
    LET c == x[1]
        t == g.txn[x]
        g1 == [g EXCEPT !.active[c] = @ - 1, !.exec[x] = FALSE]
        idle(g0, s) == IF g0.active[c] = 0 THEN [g0 EXCEPT !.status[c] = s] ELSE g0
        g2 == IF Type(t) = "read"
              THEN StartDataOut([idle(g1, "wait_for_data_out") EXCEPT
                                    !.waiting[c] = @ + 1, !.reads = Append(@, t)])
              ELSE idle([g1 EXCEPT !.txn[x] = NONE, !.done = @ \cup {t}], "idle")
        g3 == NotifyIfIdle(g2)
    IN  IF g3.status[c] = "idle" THEN NotifyChipIdle(g3, c) ELSE g3

CompleteDataOutKept(g, x) ==
    LET t == g.xfer[x]
        g1 == [g EXCEPT !.xfer[x] = NONE, !.txn[x] = NONE, !.done = @ \cup {t}]
    IN  TsuFlushChannel(g1)
\* complete_data_out_transfer.  The waiting transfers are only counted down when no
\* die of the chip works.
CompleteDataOut(g, x) ==
    LET c == x[1]
        t == g.xfer[x]
        g1 == [g EXCEPT !.xfer[x] = NONE, !.txn[x] = NONE, !.done = @ \cup {t}]
        left == g1.waiting[c] - 1
        g2 == IF g1.active[c] # 0 THEN g1
              ELSE [g1 EXCEPT !.waiting[c] = left,
                       !.status[c] = IF left = 0 THEN "idle" ELSE "wait_for_data_out"]
    IN  TsuFlushChannel([g2 EXCEPT !.bus = "idle"])

----------------------------------------------------------------------------
(* The steps of the core                                                   *)

QueueOf(s) ==
    IF s.type = "erase" THEN "gc_erase"
    ELSE CASE s.source = "user" -> s.type
           [] s.source = "mapping" -> "mapping_" \o s.type
           [] s.source = "gc" -> "gc_" \o s.type

TsuProcessTaskDropped(g, t) ==
    LET s == shape[t]
    IN  IF s.type = "dump" THEN [g EXCEPT !.done = @ \cup {t}]
        ELSE IF s.chip \notin Chips THEN g
        ELSE [g EXCEPT !.queue[s.chip][QueueOf(s)] = Append(@, t), !.count[s.chip] = @ + 1]
\* tsu_process_task; dequeue_requests answers a dump itself.
TsuProcessTask(g, t) ==
    LET s == shape[t]
    IN  IF s.type = "dump" \/ s.chip \notin Chips THEN [g EXCEPT !.done = @ \cup {t}]
        ELSE [g EXCEPT !.queue[s.chip][QueueOf(s)] = Append(@, t), !.count[s.chip] = @ + 1]

\* What was notified since the last step goes to the used ring.
Become(g) ==
    /\ f' = [g EXCEPT !.done = {}]
    /\ answered' = answered \cup g.done

\* dequeue_requests and, if there were any, tsu_flush_queues.
Dequeue ==
    LET g == FoldLeft(TsuProcessTask, f, ring)
    IN  /\ pc = "dequeue" /\ pc' = "in" /\ over' = FALSE
        /\ Become(IF ring # <<>> THEN NotifyIfIdle(g) ELSE g)
        /\ ring' = <<>>
        /\ UNCHANGED <<shape, batch, submits>>

\* check_completion: the transfer to a chip is over or not.
CheckIn(now) ==
    /\ pc = "in" /\ pc' = "collect" /\ over' = now
    /\ now => f.in # <<>>
    /\ Become(IF now THEN CompleteChipTransfer([f EXCEPT !.in = Tail(@)], Head(f.in)) ELSE f)
    /\ UNCHANGED <<shape, ring, batch, submits>>

\* die_command_get_completion: the status of a die can be read when the bus is
\* idle; some dies are ready, in the order of their predicted ends.
Collect(ready) ==
    /\ pc = "collect" /\ pc' = "dies" /\ over' = (ready # {})
    /\ \A x \in ready : f.exec[x] /\ f.bus = "idle"
    /\ batch' \in SetToSeqs(ready)
    /\ UNCHANGED <<f, shape, ring, answered, submits>>

CheckDie ==
    /\ pc = "dies" /\ batch # <<>> /\ over' = FALSE
    /\ batch' = Tail(batch)
    /\ Become(CompleteDieCommand(f, Head(batch)))
    /\ UNCHANGED <<shape, ring, pc, submits>>

\* The transfer from a die is over or not; then the idle bus is given away.
CheckOut(now) ==
    LET g == IF now THEN CompleteDataOut([f EXCEPT !.out = Tail(@)], Head(f.out)) ELSE f
    IN  /\ pc = "dies" /\ batch = <<>> /\ pc' = "dequeue" /\ over' = now
        /\ now => f.out # <<>>
        /\ Become(NotifyIfIdle(StartDataOut(g)))
        /\ UNCHANGED <<shape, ring, batch, submits>>

Core == Dequeue \/ (\E now \in BOOLEAN : CheckIn(now) \/ CheckOut(now))
        \/ CheckDie \/ \E ready \in SUBSET (Chips \X Dies) : Collect(ready)

----------------------------------------------------------------------------
(* The FTL core.  The FIL looks at the ring in Dequeue only and never at    *)
(* the used ring: it makes no difference when in a round a task is put on  *)
(* the one and taken off the other, and here it is at the end.             *)

\* submit_flash_transaction.
Submit(t, s) ==
    /\ pc = "dequeue" /\ shape[t] = NONE /\ submits < MaxSubmits
    /\ shape' = [shape EXCEPT ![t] = s]
    /\ ring' = Append(ring, t)
    /\ submits' = submits + 1
    /\ UNCHANGED <<f, answered, pc, batch, over>>

\* poll_fil_responses: the slot is free again.
Poll(t) ==
    /\ pc = "dequeue" /\ t \in answered
    /\ answered' = answered \ {t}
    /\ shape' = [shape EXCEPT ![t] = NONE]
    /\ UNCHANGED <<f, ring, pc, batch, over, submits>>

Next == Core \/ \E t \in Tasks : Poll(t) \/ \E s \in Shapes : Submit(t, s)

Spec == Init /\ [][Next]_vars

\* The flash has something to do.
Working == f.in # <<>> \/ f.out # <<>> \/ \E x \in Chips \X Dies : f.exec[x]

\* The core loops for ever, and as long as the flash has something to do it gets
\* some of it done.
FairSpec ==
    /\ Spec
    /\ []<>(pc = "dequeue") /\ []<>(pc # "dequeue")
    /\ []<>Working => []<>over

----------------------------------------------------------------------------
(* Properties                                                              *)

\* The assertions of fil.c hold: a die is given one command at a time, a chip one
\* transfer, and a command only goes out on a bus that is free.
AssertionsHold == ~f.failed

\* The bus is busy exactly while one transfer, into a chip or out of a die, is on
\* it: it is never given away twice, and never kept after the transfer.
BusOwned ==
    Len(f.in) + Len(f.out) = IF f.bus = "busy" THEN 1 ELSE 0

\* "A PROGRAM-series operation must be issued before the READ-series operation for
\* multi-LUN operations" (fil_is_die_busy): while data goes into a chip, no die of
\* the chip is reading or holds data to be read.
ProgramBeforeRead ==
    \A i \in DOMAIN f.in : \A d \in Dies :
        LET t == f.txn[f.in[i], d] IN t # NONE => Type(t) # "read"

\* When the bus is idle after a round, no chip has a transaction that could be
\* dispatched: nothing waits for the next interrupt or task to be noticed.
NothingLeft ==
    pc = "dequeue" /\ f.bus = "idle" => \A c \in Chips : DispatchRequest(f, c) = f

\* Every task that is taken is answered once, and all of them are: the layer
\* implements FlashService.
Place(t) ==
    CASE t \in answered -> "answered"
      [] t \notin answered /\ shape[t] = NONE -> "free"
      [] t \notin answered /\ shape[t] # NONE /\ \E i \in DOMAIN ring : ring[i] = t -> "ring"
      [] OTHER -> "held"
Service == INSTANCE FlashService WITH place <- [t \in Tasks |-> Place(t)]
ImplementsFlashService == Service!Spec
=============================================================================
