------------------------------- MODULE MCCoro -------------------------------
(* Coro with three coroutines besides the main thread.                     *)
EXTENDS Coro
=============================================================================
