--------------------------- MODULE MCStorpuSched ---------------------------
(* Two cores and three programs' threads.                                    *)
EXTENDS StorpuSched, TLC

CONSTANTS u1, u2, u3, m1

Exit == <<"thread_exit">>
Move(t, c) == <<"sched_setaffinity", t, {c}>>
Read == <<"file_task">>
Create(t) == <<"thread_create", t, FALSE>>
Join(t) == <<"thread_join", t>>
Yield == <<"schedule">>
Forever == <<"loop">>
Code(p1, p2, p3) == u1 :> p1 @@ u2 :> p2 @@ u3 :> p3

\* Two programs that share a mutex; the first, or both, move to the other core.
Contend == [invoked |-> {u1, u2}, code |->
    Code(<<Move(u1, 1), Lock(m1), Read, Unlock(m1), Exit>>,
         <<Lock(m1), Read, Unlock(m1), Exit>>, <<>>)]
Follow == [invoked |-> {u1, u2}, code |->
    Code(<<Move(u1, 1), Lock(m1), Unlock(m1), Exit>>,
         <<Move(u2, 1), Lock(m1), Unlock(m1), Exit>>, <<>>)]
\* A program with a thread of its own, which it joins, and a second program.
Family == [invoked |-> {u1, u2}, code |->
    Code(<<Create(u3), Lock(m1), Read, Unlock(m1), Join(u3), Exit>>,
         <<Lock(m1), Read, Unlock(m1), Exit>>, <<Lock(m1), Unlock(m1), Exit>>)]
\* One program moves another: on its core, and from the other core.
Neighbour == [invoked |-> {u1, u2}, code |->
    Code(<<Read, Lock(m1), Unlock(m1), Exit>>, <<Move(u1, 1), Lock(m1), Unlock(m1), Exit>>, <<>>)]
Remote == [invoked |-> {u1, u2}, code |->
    Code(<<Move(u1, 1), Move(u2, 1), Exit>>, <<Yield, Forever>>, <<>>)]
\* A program is called back while it moves.
Back == [invoked |-> {u1, u2}, code |->
    Code(<<Move(u1, 1), Forever>>, <<Move(u1, 0), Exit>>, <<>>)]
\* Three threads disagree where one of them is to run.
Tug == [invoked |-> {u1}, code |->
    Code(<<Create(u3), Move(u1, 1), Create(u2), Yield, Yield, Move(u2, 1), Move(u2, 0), Exit>>,
         <<Yield, Move(u2, 1), Exit>>, <<Yield, Move(u2, 0), Exit>>)]
Cases == {Contend, Follow, Family, Neighbour, Remote, Back, Tug}
=============================================================================
