---------------------------- MODULE FlashService ----------------------------
(***************************************************************************)
(* What the flash interface layer promises the FTL: a task that is put on  *)
(* its ring is taken and answered once, in any order, and nothing is       *)
(* answered that was not asked for.  Fil implements this; FlashWait relies *)
(* on it (its `held' and FilAnswer).                                       *)
(***************************************************************************)
CONSTANT Tasks

VARIABLE place    \* of each task: with the FTL, on the ring, with the FIL, answered

Places == {"free", "ring", "held", "answered"}

Init == place = [t \in Tasks |-> "free"]

Submit(t) == place[t] = "free" /\ place' = [place EXCEPT ![t] = "ring"]

\* The FIL takes and answers tasks, several of them in one step.
Onward(from) ==
    CASE from = "ring" -> {"ring", "held", "answered"}
      [] from = "held" -> {"held", "answered"}
      [] OTHER -> {from}
Serve ==
    place' \in {q \in [Tasks -> Places] : \A t \in Tasks : q[t] \in Onward(place[t])}

Poll(t) == place[t] = "answered" /\ place' = [place EXCEPT ![t] = "free"]

Next == Serve \/ \E t \in Tasks : Submit(t) \/ Poll(t)

\* Every task on the ring is answered.
AllAnswered == \A t \in Tasks : place[t] = "ring" ~> place[t] = "answered"

Spec == Init /\ [][Next]_place /\ AllAnswered
=============================================================================
