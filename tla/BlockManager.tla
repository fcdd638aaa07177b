---------------------------- MODULE BlockManager ----------------------------
(***************************************************************************)
(* The block manager of the FTL (myssd_sdk/src/ftl/block_manager.c): free  *)
(* blocks, write frontiers and bad blocks of one flash plane, and the two  *)
(* files on the eMMC that carry them over a power cycle.  The planes       *)
(* share nothing but the files, so one plane is modelled.                  *)
(*                                                                         *)
(* The free list is a set: which of its blocks comes next is left open,    *)
(* which covers both the order of reset_blocks and that of                 *)
(* restore_plane_info.  There is no garbage collector in the code: a block *)
(* becomes free again only when the drive is wiped.                        *)
(***************************************************************************)
EXTENDS Integers, FiniteSets

CONSTANTS
  Blocks,         \* the BLOCKS_PER_PLANE blocks of the plane
  NULL,           \* no block
  PagesPerBlock,  \* PAGES_PER_BLOCK
  LsbPages,       \* the pages whose bit is set in lsb_bitmap
  MaxBad,         \* bound: blocks that go bad
  MaxPages,       \* bound: pages programmed between two erases
  MaxFaults       \* bound: operations during which the eMMC fails

Pages == 0 .. PagesPerBlock - 1
Streams == {"data", "gc", "mapping"}

\* Pages below p with the same lsb_bitmap bit, after all LSB pages for an MSB
\* page: the position bm_init gives p.
Rank(p) ==
  IF p \in LsbPages
  THEN Cardinality({q \in LsbPages : q < p})
  ELSE Cardinality(LsbPages) + Cardinality({q \in Pages \ LsbPages : q < p})

page_idx_map == [i \in Pages |-> CHOOSE p \in Pages : Rank(p) = i]

\* A frontier is replaced after half of its pages, all of them LSB pages.
HalfBlock == PagesPerBlock \div 2

ASSUME BlockAssumption ==
  /\ IsFiniteSet(Blocks) /\ NULL \notin Blocks
  /\ PagesPerBlock \in Nat /\ PagesPerBlock >= 2
  /\ LsbPages \subseteq Pages
  /\ page_idx_map \in [Pages -> Pages]
  /\ \A i, j \in Pages : page_idx_map[i] = page_idx_map[j] => i = j
  /\ \A i \in 0 .. HalfBlock - 1 : page_idx_map[i] \in LsbPages

VARIABLES
  faults,            \* operations during which the eMMC failed
  power,             \* "off", "on", or "panic": the firmware stopped
  free_list,
  free_list_size,
  wf,                \* data_wf, gc_wf and mapping_wf
  page_write_index,
  bad,               \* blocks with BF_BAD set
  planes_file,       \* PLANE_INFO_FILE
  bad_file,          \* BAD_BLOCKS_FILE
  content,           \* the flash: what each page was programmed with
  saved,             \* what bm_shutdown did to planes_file since the last page was
                     \* allocated: "none" (not called), "done" or "missed"
  stale,             \* history: since the last wipe, the drive came up on a plane
                     \* file that had missed a save or was not seen
  retired,           \* history: the bad blocks known when the drive came up
  consumed           \* history: blocks allocated from, or known to be bad at a
                     \* start, since the planes were last reset

vars == <<faults, power, free_list, free_list_size, wf, page_write_index, bad,
          planes_file, bad_file, content, saved, stale, retired, consumed>>

\* A short file is one whose f_write failed.
File == [state : {"absent", "short", "ok"}, map : SUBSET Blocks]
Contents == {"erased", "twice"} \cup Streams

TypeOK ==
  /\ faults \in Nat
  /\ power \in {"off", "on", "panic"}
  /\ free_list \subseteq Blocks
  /\ free_list_size \in Nat
  /\ wf \in [Streams -> Blocks \cup {NULL}]
  /\ page_write_index \in [Blocks -> 0 .. PagesPerBlock]
  /\ bad \subseteq Blocks
  /\ planes_file \in File
  /\ bad_file \in File
  /\ content \in [Blocks -> [Pages -> Contents]]
  /\ saved \in {"none", "done", "missed"}
  /\ stale \in BOOLEAN
  /\ retired \subseteq Blocks
  /\ consumed \subseteq Blocks

-----------------------------------------------------------------------------
(* Faulty variants of the definitions below, for mutation checks.          *)

\* Frontiers already written to are saved as free.
UnusedFrontiersAll == {wf[s] : s \in Streams} \ {NULL}

\* Frontiers are not saved as free.
UnusedFrontiersNone == {}

\* The bad blocks stay on the free list.
GoodBlocksAll(fl, bb) == fl

-----------------------------------------------------------------------------
\* The blocks get_free_block may return.
GetFreeBlock(fl) == IF fl = {} THEN {NULL} ELSE fl

\* The list as reset_blocks or restore_plane_info builds it is counted.
ListSize(listed) == Cardinality(listed)

\* list_del on every bad block; free_list_size is not counted down.
GoodBlocks(fl, bb) == fl \ bb

\* "Write frontiers assigned by not yet used."
UnusedFrontiers ==
  {wf[s] : s \in {t \in Streams : wf[t] # NULL /\ page_write_index[wf[t]] = 0}}

\* The blocks of the free list that the loop of save_plane_info visits: it
\* stops after free_list_size blocks, or at the end of the list.
Visited ==
  IF free_list_size \in 1 .. Cardinality(free_list)
  THEN {fl \in SUBSET free_list : Cardinality(fl) = free_list_size}
  ELSE {free_list}

FrontierOf(s) == wf[s]

\* The page just taken from b was the last one of its half.
FrontierFull(b) == page_write_index[b] + 1 = HalfBlock

Program(b, p, s) ==
  [content EXCEPT ![b][p] = IF @ = "erased" THEN s ELSE "twice"]

Programmed == {bp \in Blocks \X Pages : content[bp[1]][bp[2]] # "erased"}

Erased == [b \in Blocks |-> [p \in Pages |-> "erased"]]

-----------------------------------------------------------------------------
Init ==
  /\ faults = 0
  /\ power = "off"
  /\ free_list = {} /\ free_list_size = 0
  /\ wf = [s \in Streams |-> NULL]
  /\ page_write_index = [b \in Blocks |-> 0]
  /\ bad = {}
  /\ planes_file = [state |-> "absent", map |-> {}]
  /\ bad_file = [state |-> "absent", map |-> {}]
  /\ content = Erased
  /\ saved = "done" /\ stale = FALSE
  /\ retired = {} /\ consumed = {}

\* The eMMC fails during an operation, or does not.
Fault(fail) ==
  /\ fail => faults < MaxFaults
  /\ faults' = IF fail THEN faults + 1 ELSE faults

\* A file after a save.  A save that cannot open it returns EIO, which no caller
\* looks at, and leaves the old file, or none; one that cannot write the data
\* leaves a short file.
Saved(fail, file, map) ==
  {[state |-> "ok", map |-> map]}
    \cup (IF fail THEN {file, [state |-> "short", map |-> {}]} ELSE {})

FileOf(f) == IF f = "planes" THEN planes_file ELSE bad_file

Absent == {f \in {"planes", "bad"} : FileOf(f).state = "absent"}

\* The files bm_init restores when f_stat fails on those in unseen.
Restored(wipe, unseen) == {f \in {"planes", "bad"} \ unseen : f = "bad" \/ ~wipe}

\* A short file cannot be restored.
BootPanics(wipe, unseen) == \E f \in Restored(wipe, unseen) : FileOf(f).state = "short"

\* bm_init.  f_stat fails on the files in unseen; found and worn are the blocks the
\* two scans find bad.
Boot(wipe, full, fail, unseen, found, worn) ==
  LET reset == "planes" \in unseen \/ wipe
      listed == IF reset THEN Blocks ELSE planes_file.map
      scan == "bad" \in unseen
      known == IF scan THEN found ELSE bad_file.map
      broken == IF full THEN known \cup worn ELSE known
      free == GoodBlocks(listed, broken)
  IN
  /\ power = "off"
  /\ Fault(fail)
  /\ Absent \subseteq unseen
  /\ fail \/ unseen = Absent
  /\ ~BootPanics(wipe, unseen)
  /\ scan \/ found = {}
  /\ full \/ worn = {}
  /\ Cardinality(broken) <= MaxBad
  /\ power' = "on"
  /\ bad' = broken
  /\ page_write_index' = [b \in Blocks |-> 0]
  /\ content' = IF wipe \/ full THEN Erased ELSE content
  /\ planes_file' \in IF reset THEN Saved(fail, planes_file, Blocks) ELSE {planes_file}
  /\ bad_file' \in IF scan \/ full THEN Saved(fail, bad_file, broken) ELSE {bad_file}
  /\ \E d \in GetFreeBlock(free) :
     \E g \in GetFreeBlock(free \ {d}) :
     \E m \in GetFreeBlock(free \ {d, g}) :
       /\ wf' = [data |-> d, gc |-> g, mapping |-> m]
       /\ free_list' = free \ {d, g, m}
       /\ free_list_size' = ListSize(listed) - Cardinality({d, g, m} \ {NULL})
  /\ saved' = "none"
  /\ stale' = (/\ ~wipe
               /\ \/ stale \/ saved = "missed"
                  \/ "planes" \in unseen \ Absent)
  /\ retired' = broken
  /\ consumed' = broken \cup (IF reset THEN {} ELSE consumed)

\* A file that is short, or cannot be read, is not restored.
PanicAtBoot(wipe, fail) ==
  /\ power = "off"
  /\ Fault(fail)
  /\ BootPanics(wipe, Absent) \/ (fail /\ Restored(wipe, Absent) # {})
  /\ power' = "panic"
  /\ UNCHANGED <<free_list, free_list_size, wf, page_write_index, bad, planes_file, bad_file,
                 content, saved, stale, retired, consumed>>

\* bm_alloc_page, and the program of the page it returns.
AllocPage(s) ==
  LET b == FrontierOf(s)
      p == page_idx_map[page_write_index[b]]
  IN
  /\ power = "on"
  /\ b # NULL
  /\ Cardinality(Programmed) < MaxPages
  /\ content' = Program(b, p, s)
  /\ page_write_index' = [page_write_index EXCEPT ![b] = @ + 1]
  /\ consumed' = consumed \cup {b}
  /\ saved' = "none"
  /\ \/ /\ FrontierFull(b)
        /\ \E n \in GetFreeBlock(free_list) :
             /\ wf' = [wf EXCEPT ![s] = n]
             /\ free_list' = free_list \ {n}
             /\ free_list_size' = IF n = NULL THEN free_list_size
                                              ELSE free_list_size - 1
     \/ /\ ~FrontierFull(b)
        /\ UNCHANGED <<wf, free_list, free_list_size>>
  /\ UNCHANGED <<faults, power, bad, planes_file, bad_file, stale, retired>>

\* bm_alloc_page on a plane that has run out of blocks: the frontier is a null
\* pointer, and page 0 of the address space is not mapped.
AllocNull(s) ==
  /\ power = "on"
  /\ FrontierOf(s) = NULL
  /\ power' = "panic"
  /\ UNCHANGED <<faults, free_list, free_list_size, wf, page_write_index, bad, planes_file, bad_file,
                 content, saved, stale, retired, consumed>>

\* The console command mark_bad: the block stays where it is until it is
\* saved and the drive restarts.
MarkBad(b) ==
  /\ power = "on"
  /\ Cardinality(bad \cup {b}) <= MaxBad
  /\ bad' = bad \cup {b}
  /\ UNCHANGED <<faults, power, free_list, free_list_size, wf, page_write_index, planes_file, bad_file,
                 content, saved, stale, retired, consumed>>

\* The console command save_bad.
SaveBadBlocks(fail) ==
  /\ power = "on"
  /\ Fault(fail)
  /\ bad_file' \in Saved(fail, bad_file, bad)
  /\ UNCHANGED <<power, free_list, free_list_size, wf, page_write_index, bad, planes_file,
                 content, saved, stale, retired, consumed>>

\* bm_shutdown, also behind the console command sync.  The firmware goes on.
Shutdown(fail) ==
  /\ power = "on"
  /\ Fault(fail)
  /\ \E fl \in Visited : planes_file' \in Saved(fail, planes_file, fl \cup UnusedFrontiers)
  /\ saved' = IF fail /\ planes_file' = planes_file THEN "missed" ELSE "done"
  /\ UNCHANGED <<power, free_list, free_list_size, wf, page_write_index, bad, bad_file,
                 content, stale, retired, consumed>>

\* Power is removed after bm_shutdown only, and the RAM is lost.
PowerOff ==
  /\ power = "on" /\ saved # "none"
  /\ power' = "off"
  /\ free_list' = {} /\ free_list_size' = 0
  /\ wf' = [s \in Streams |-> NULL]
  /\ page_write_index' = [b \in Blocks |-> 0]
  /\ bad' = {}
  /\ retired' = {}
  /\ UNCHANGED <<faults, planes_file, bad_file, content, saved, stale, consumed>>

\* The blocks a scan finds bad.
Few == {B \in SUBSET Blocks : Cardinality(B) <= MaxBad}

Next ==
  \/ \E wipe, full, fail \in BOOLEAN, unseen \in SUBSET {"planes", "bad"},
        found, worn \in Few : Boot(wipe, full, fail, unseen, found, worn)
  \/ \E wipe, fail \in BOOLEAN : PanicAtBoot(wipe, fail)
  \/ \E s \in Streams : AllocPage(s) \/ AllocNull(s)
  \/ \E b \in Blocks : MarkBad(b)
  \/ \E fail \in BOOLEAN : SaveBadBlocks(fail) \/ Shutdown(fail)
  \/ PowerOff

Spec == Init /\ [][Next]_vars

-----------------------------------------------------------------------------
\* NAND flash: no page is programmed twice without an erase in between, over
\* any number of orderly restarts: bm_alloc_page never hands a page out again.
\* The exception is a drive that came up on a stale plane file and was not wiped
\* since: nobody looks at the result of save_plane_info, so a save that cannot
\* open the file leaves the old map, and bm_init takes it for the current one.
ProgramOnce == ~stale => \A b \in Blocks, p \in Pages : content[b][p] # "twice"

\* A block holds pages of one stream, so mapping pages are never mixed with
\* data pages (the three write frontiers never meet in one block); the exception
\* is that of ProgramOnce.
OneStreamPerBlock ==
  ~stale =>
    \A b \in Blocks : \A p, q \in Pages :
      content[b][p] = "erased" \/ content[b][q] = "erased" \/ content[b][p] = content[b][q]

\* A block known to be bad when the drive came up is neither free nor a write
\* frontier (restore_bad_blocks and scan_bad_blocks unlink it).
BadRetired ==
  power = "on" => retired \cap (free_list \cup {wf[s] : s \in Streams}) = {}

\* No good block that was never written is forgotten: it is on the free list
\* or a write frontier, after any restart (save_plane_info saves both) but one
\* from a stale plane file.
NoBlockLost ==
  power = "on" /\ ~stale =>
    \A b \in Blocks \ consumed : b \in free_list \/ \E s \in Streams : wf[s] = b

\* "Always allocate LSB pages first before giving out MSB pages": with half of
\* each block in use, no MSB page is ever programmed.
LsbOnly == \A b \in Blocks, p \in Pages : content[b][p] # "erased" => p \in LsbPages

\* The block manager is a page allocator: each step hands out one blank page of a
\* block of the right stream, erases everything, or leaves the flash alone --
\* whatever is saved, cut short and restored in between.  The allocator loses
\* track of its pages only where bm_init comes up on a stale plane file.
Allocator == INSTANCE PageAllocator WITH owner <- content, intact <- ~stale
ImplementsPageAllocator == Allocator!Spec

=============================================================================
