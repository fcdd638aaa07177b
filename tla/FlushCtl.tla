------------------------------ MODULE FlushCtl ------------------------------
(***************************************************************************)
(* Starting the flushers and waiting for them (myssd_sdk/src/ftl/          *)
(* data_cache.c, start_flush_sync and flusher_main): a worker that flushes *)
(* a namespace gives every flusher its order, wakes them and waits until   *)
(* all are done; one flush at a time.                                      *)
(*                                                                         *)
(* flusher_mutex is never held across a wait, and coroutines switch only   *)
(* at waits: each section between two waits is one step.                   *)
(***************************************************************************)
EXTENDS Integers

CONSTANTS
    Workers,       \* coroutines that may ask for a flush
    NR_FLUSHERS,   \* number of flusher coroutines
    Namespaces,
    NULL

ASSUME FlushAssumption == NR_FLUSHERS \in Nat \ {0} /\ NULL \notin Namespaces

Flushers == 0..NR_FLUSHERS - 1

VARIABLES
    flushing,        \* a flush is going on
    ctrl,            \* per flusher: the namespace to flush (cache and nsid), or NULL
    flusher_active,  \* the flushers with their bit set
    fpc,             \* per flusher: at the top of its loop, blocked, or flushing
    wpc,             \* per worker: where it is in start_flush_sync
    nsid,            \* per worker: its argument
    sleeping,        \* the workers waiting on flusher_cond
    since,           \* per flusher: the calls its current scan is in time for
    covers           \* per worker: the flushers that have scanned for its call

vars == <<flushing, ctrl, flusher_active, fpc, wpc, nsid, sleeping, since, covers>>

\* The flushers have started and wait for their first order.
Init ==
    /\ flushing = FALSE
    /\ ctrl = [i \in Flushers |-> NULL] /\ flusher_active = {}
    /\ fpc = [i \in Flushers |-> "blocked"]
    /\ wpc = [w \in Workers |-> "idle"] /\ nsid = [w \in Workers |-> NULL]
    /\ sleeping = {}
    /\ since = [i \in Flushers |-> {}] /\ covers = [w \in Workers |-> {}]

Call(w, n) ==
    /\ wpc[w] = "idle"
    /\ wpc' = [wpc EXCEPT ![w] = "turn"] /\ nsid' = [nsid EXCEPT ![w] = n]
    /\ covers' = [covers EXCEPT ![w] = {}]
    /\ UNCHANGED <<flushing, ctrl, flusher_active, fpc, sleeping, since>>

WaitTurn(w) ==
    /\ wpc[w] = "turn" /\ w \notin sleeping
    /\ flushing
    /\ sleeping' = sleeping \cup {w}
    /\ UNCHANGED <<flushing, ctrl, flusher_active, fpc, wpc, nsid, since, covers>>

\* The flushers the loop over NR_FLUSHERS gives an order.
Ordered == Flushers

Start(w) ==
    /\ wpc[w] = "turn" /\ w \notin sleeping
    /\ ~flushing
    /\ flushing' = TRUE
    /\ ctrl' = [i \in Flushers |-> nsid[w]] /\ flusher_active' = Ordered
    /\ fpc' = [i \in Flushers |-> IF fpc[i] = "blocked" THEN "loop" ELSE fpc[i]]
    /\ wpc' = [wpc EXCEPT ![w] = "done"]
    /\ UNCHANGED <<nsid, sleeping, since, covers>>

AnyActiveFirst == 0 \in flusher_active

\* find_first_bit(flusher_active) < NR_FLUSHERS.
AnyActive == flusher_active # {}

WaitDone(w) ==
    /\ wpc[w] = "done" /\ w \notin sleeping
    /\ AnyActive
    /\ sleeping' = sleeping \cup {w}
    /\ UNCHANGED <<flushing, ctrl, flusher_active, fpc, wpc, nsid, since, covers>>

Finish(w) ==
    /\ wpc[w] = "done" /\ w \notin sleeping
    /\ ~AnyActive
    /\ flushing' = FALSE
    /\ sleeping' = {}
    /\ wpc' = [wpc EXCEPT ![w] = "returned"]
    /\ UNCHANGED <<ctrl, flusher_active, fpc, nsid, since, covers>>

Return(w) ==
    /\ wpc[w] = "returned"
    /\ wpc' = [wpc EXCEPT ![w] = "idle"]
    /\ UNCHANGED <<flushing, ctrl, flusher_active, fpc, nsid, sleeping, since, covers>>

\* The loop of flusher_main: wait for an order, or begin to flush.
Loop(i) ==
    /\ fpc[i] = "loop"
    /\ \/ /\ i \notin flusher_active
          /\ fpc' = [fpc EXCEPT ![i] = "blocked"] /\ UNCHANGED since
       \/ /\ i \in flusher_active
          /\ fpc' = [fpc EXCEPT ![i] = "flush"]
          /\ since' = [since EXCEPT ![i] = {w \in Workers : /\ wpc[w] \in {"turn", "done"}
                                                            /\ nsid[w] = ctrl[i]}]
    /\ UNCHANGED <<flushing, ctrl, flusher_active, wpc, nsid, sleeping, covers>>

ClearedKept(i) == ctrl

\* ctrl->cache = NULL.
Cleared(i) == [ctrl EXCEPT ![i] = NULL]

FlushedAgain(i) ==
    /\ fpc[i] = "flush"
    /\ sleeping' = {}
    /\ fpc' = [fpc EXCEPT ![i] = "loop"]
    /\ UNCHANGED <<flushing, ctrl, flusher_active, wpc, nsid, since, covers>>

\* flush_cache_range returns.
Flushed(i) ==
    /\ fpc[i] = "flush"
    /\ flusher_active' = flusher_active \ {i}
    /\ ctrl' = Cleared(i)
    /\ sleeping' = {}
    /\ fpc' = [fpc EXCEPT ![i] = "loop"]
    /\ covers' = [w \in Workers |-> IF w \in since[i] THEN covers[w] \cup {i} ELSE covers[w]]
    /\ UNCHANGED <<flushing, wpc, nsid, since>>

Work(w) == WaitTurn(w) \/ Start(w) \/ WaitDone(w) \/ Finish(w) \/ Return(w)

Next ==
    \/ \E w \in Workers : Work(w) \/ \E n \in Namespaces : Call(w, n)
    \/ \E i \in Flushers : Loop(i) \/ Flushed(i)

Spec == Init /\ [][Next]_vars

\* Every coroutine gets the core again, and a scan of the cache comes to an end.
FairSpec ==
    /\ Spec
    /\ \A w \in Workers : WF_vars(Work(w))
    /\ \A i \in Flushers : WF_vars(Loop(i) \/ Flushed(i))

----------------------------------------------------------------------------
\* Type invariant of the flushers' controls.
TypeOK ==
    /\ flushing \in BOOLEAN
    /\ ctrl \in [Flushers -> Namespaces \cup {NULL}] /\ flusher_active \subseteq Flushers
    /\ fpc \in [Flushers -> {"blocked", "loop", "flush"}]
    /\ wpc \in [Workers -> {"idle", "turn", "done", "returned"}]
    /\ nsid \in [Workers -> Namespaces \cup {NULL}]
    /\ sleeping \subseteq Workers
    /\ since \in [Flushers -> SUBSET Workers] /\ covers \in [Workers -> SUBSET Flushers]

\* The assertions of start_flush_sync and flusher_main: no order is overwritten,
\* since a worker whose turn it is finds every flusher without one, and a flusher
\* that begins to flush has one.
OrdersKept ==
    /\ ~flushing => flusher_active = {}
    /\ \A i \in Flushers : i \in flusher_active <=> ctrl[i] # NULL
    /\ \A i \in Flushers : fpc[i] = "flush" => i \in flusher_active

\* When start_flush_sync returns, every flusher has scanned the namespace of this
\* call, from beginning to end, since the call: the orders of two workers are not
\* mixed up, and no flusher is missed because it was still busy when woken.
FlushCovers == \A w \in Workers : wpc[w] = "returned" => covers[w] = Flushers

\* No wake-up is lost, whether the flusher or the worker is not yet waiting when
\* it is sent: a flush that was started returns, and while workers wait for their
\* turn one of them gets it (not the same one as first came: a worker whose next
\* command is another flush may start it before the waiting ones have run).
FlushReturns ==
    /\ \A w \in Workers : wpc[w] = "done" ~> wpc[w] = "returned"
    /\ (\E w \in Workers : wpc[w] = "turn") ~> (\E w \in Workers : wpc[w] = "done")
=============================================================================
