--------------------------- MODULE FlushCtlProofs ---------------------------
(* Theorems about FlushCtl for any number of workers and flushers.         *)
EXTENDS FlushCtl, TLAPS

\* What is true of the call that holds the turn: it is the only one, and each
\* flusher either still has its order or has scanned for it.
Turn ==
    /\ \A v, w \in Workers : wpc[v] = "done" /\ wpc[w] = "done" => v = w
    /\ flushing <=> \E w \in Workers : wpc[w] = "done"
    /\ \A w \in Workers : wpc[w] \in {"turn", "done"} => nsid[w] \in Namespaces
    /\ \A w \in Workers : wpc[w] = "done" =>
         \A i \in Flushers :
           /\ i \notin flusher_active => i \in covers[w]
           /\ i \in flusher_active => ctrl[i] = nsid[w]
           /\ fpc[i] = "flush" => w \in since[i]

IInv == TypeOK /\ OrdersKept /\ Turn /\ FlushCovers

LEMMA InitInv == Init => IInv
  BY ZenonT(60), FlushAssumption DEF Init, IInv, TypeOK, OrdersKept, Turn, FlushCovers

\* Each step preserves the invariant.
LEMMA Inductive == IInv /\ [Next]_vars => IInv'
<1> SUFFICES ASSUME IInv, [Next]_vars PROVE IInv'
  OBVIOUS
<1> USE DEF IInv, TypeOK, OrdersKept, Turn, FlushCovers
<1>1. ASSUME NEW w \in Workers, NEW n \in Namespaces, Call(w, n) PROVE IInv'
  <2>1. TypeOK' /\ OrdersKept' /\ FlushCovers'
    BY <1>1 DEF Call
  <2>2. Turn'
    BY <1>1 DEF Call
  <2> QED BY <2>1, <2>2
<1>2. ASSUME NEW w \in Workers, WaitTurn(w) PROVE IInv'
  BY <1>2 DEF WaitTurn
<1>3. ASSUME NEW w \in Workers, Start(w) PROVE IInv'
  <2>1. TypeOK'
    BY <1>3 DEF Start, Ordered
  <2>2. OrdersKept'
    BY <1>3, FlushAssumption DEF Start, Ordered
  <2>3. Turn'
    BY <1>3 DEF Start, Ordered
  <2>4. FlushCovers'
    BY <1>3 DEF Start
  <2> QED BY <2>1, <2>2, <2>3, <2>4
<1>4. ASSUME NEW w \in Workers, WaitDone(w) PROVE IInv'
  BY <1>4 DEF WaitDone
<1>5. ASSUME NEW w \in Workers, Finish(w) PROVE IInv'
  <2>1. flusher_active = {} /\ covers[w] = Flushers
    <3>1. flusher_active = {} /\ wpc[w] = "done"
      BY <1>5 DEF Finish, AnyActive
    <3>2. \A i \in Flushers : i \in covers[w]
      BY <3>1
    <3> QED BY <3>1, <3>2
  <2>2. TypeOK' /\ OrdersKept'
    BY ZenonT(60), <1>5, <2>1 DEF Finish
  <2>3. Turn'
    BY <1>5 DEF Finish
  <2>4. FlushCovers'
    BY <1>5, <2>1 DEF Finish
  <2> QED BY <2>2, <2>3, <2>4
<1>6. ASSUME NEW w \in Workers, Return(w) PROVE IInv'
  BY <1>6 DEF Return
<1>7. ASSUME NEW i \in Flushers, Loop(i) PROVE IInv'
  BY <1>7 DEF Loop
<1>8. ASSUME NEW i \in Flushers, Flushed(i) PROVE IInv'
  <2>1. TypeOK'
    BY <1>8 DEF Flushed, Cleared
  <2>2. OrdersKept'
    BY <1>8 DEF Flushed, Cleared
  <2>3. Turn'
    BY <1>8 DEF Flushed, Cleared
  <2>4. FlushCovers'
    BY <1>8 DEF Flushed
  <2> QED BY <2>1, <2>2, <2>3, <2>4
<1>9. CASE UNCHANGED vars
  BY <1>9 DEF vars
<1> QED
  BY <1>1, <1>2, <1>3, <1>4, <1>5, <1>6, <1>7, <1>8, <1>9 DEF Next, Work

LEMMA Invariant == Spec => []IInv
  BY InitInv, Inductive, PTL DEF Spec

\* Type correctness of the flushers' controls.
THEOREM TypeCorrect == Spec => []TypeOK
  BY Invariant, PTL DEF IInv

\* The assertions of start_flush_sync and flusher_main never fail, however the
\* workers' calls and the flushers' scans interleave.
THEOREM AssertionsHold == Spec => []OrdersKept
  BY Invariant, PTL DEF IInv

\* A flush returns only when every flusher has scanned the namespace of this call
\* since the call, for any number of workers, flushers and namespaces.
THEOREM FlushComplete == Spec => []FlushCovers
  BY Invariant, PTL DEF IInv
=============================================================================
