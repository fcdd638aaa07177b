--------------------------- MODULE PageAllocator ---------------------------
(***************************************************************************)
(* What the block manager promises the address mapping unit: a page that   *)
(* is handed out is blank, stays its owner's until all of the flash is     *)
(* erased, and shares its block with pages of the same stream only.  The   *)
(* promise lasts as long as the allocator keeps track of its pages; once   *)
(* it has lost track it may hand out any page again.                       *)
(***************************************************************************)
CONSTANTS Blocks, Pages, Streams

VARIABLES
  owner,    \* of each page: the stream that got it, "erased", or "twice"
  intact    \* the allocator has kept track of its pages

Blank == [b \in Blocks |-> [p \in Pages |-> "erased"]]

Init == owner = Blank /\ intact = TRUE

Alloc(s) ==
  \E b \in Blocks, p \in Pages :
    /\ intact
    /\ owner[b][p] = "erased"
    /\ \A q \in Pages : owner[b][q] \in {"erased", s}
    /\ owner' = [owner EXCEPT ![b][p] = s]
    /\ UNCHANGED intact

Reuse(s) ==
  \E b \in Blocks, p \in Pages :
    /\ ~intact
    /\ owner' = [owner EXCEPT ![b][p] = IF @ = "erased" THEN s ELSE "twice"]
    /\ UNCHANGED intact

LoseTrack ==
  /\ intact' = FALSE
  /\ UNCHANGED owner

\* Also when the blocks are erased but the list of free ones is the old one.
EraseAll ==
  /\ owner' = Blank
  /\ intact' \in BOOLEAN

Next == EraseAll \/ LoseTrack \/ \E s \in Streams : Alloc(s) \/ Reuse(s)

Spec == Init /\ [][Next]_<<owner, intact>>
=============================================================================
