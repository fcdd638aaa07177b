------------------------- MODULE BlockManagerProofs -------------------------
(***************************************************************************)
(* BlockManager: for any number of blocks and pages, over any number of    *)
(* orderly restarts and of failures of the eMMC, bad blocks are retired;   *)
(* and as long as the drive does not come up on a stale plane file, no     *)
(* flash page is programmed twice, streams are not mixed, and no block is  *)
(* forgotten.                                                              *)
(***************************************************************************)
EXTENDS BlockManager, FiniteSetTheorems, TLAPS

IsErased(b) == \A p \in Pages : content[b][p] = "erased"

\* A write frontier is off the free list, good, and less than half full.
Frontier(b) ==
  /\ b \notin free_list
  /\ b \notin retired
  /\ page_write_index[b] < HalfBlock

\* The pages of the write frontier b of stream s are blank from the write index on
\* and hold pages of s below it.
FrontierPages(s, b) ==
  /\ \A i \in Pages : i >= page_write_index[b] =>
       content[b][page_idx_map[i]] = "erased"
  /\ \A p \in Pages : content[b][p] \in {"erased", s}
  /\ page_write_index[b] = 0 => IsErased(b)

Running ==
  power = "on" =>
    /\ \A b \in free_list : page_write_index[b] = 0 /\ b \notin retired
    /\ \A s \in Streams : wf[s] # NULL => Frontier(wf[s])
    /\ \A s, t \in Streams : wf[s] # NULL /\ wf[s] = wf[t] => s = t
    /\ Cardinality(free_list) <= free_list_size
    /\ \A b \in Blocks : page_write_index[b] > 0 => b \in consumed

\* What the lists say of the flash, unless they come from a stale file.
Tracked ==
  power = "on" /\ ~stale =>
    /\ \A b \in free_list : IsErased(b)
    /\ \A s \in Streams : wf[s] # NULL => FrontierPages(s, wf[s])
    /\ \A b \in Blocks \ consumed : b \in free_list \/ \E s \in Streams : wf[s] = b

\* What the plane file says of the flash once bm_shutdown has written it.
Files ==
  /\ power = "off" => saved # "none"
  /\ saved = "done" /\ ~stale /\ planes_file.state = "absent" =>
       \A b \in Blocks : IsErased(b)
  /\ saved = "done" /\ ~stale /\ planes_file.state = "ok" =>
       /\ \A b \in planes_file.map : IsErased(b)
       /\ Blocks \ consumed \subseteq planes_file.map

\* The history of the flash.
Flash == ProgramOnce /\ OneStreamPerBlock /\ LsbOnly

\* The inductive invariant.
Inv == TypeOK /\ Running /\ Tracked /\ Files /\ Flash

LEMMA Half == /\ HalfBlock \in Nat /\ 1 <= HalfBlock /\ HalfBlock < PagesPerBlock
              /\ PagesPerBlock \in Nat
BY BlockAssumption DEF HalfBlock

LEMMA InitInv == Init => Inv
<1> SUFFICES ASSUME Init PROVE Inv
  OBVIOUS
<1>1. \A b \in Blocks : IsErased(b)
  BY DEF Init, Erased, IsErased
<1>2. content \in [Blocks -> [Pages -> Contents]]
  BY DEF Init, Erased, Contents
<1>3. TypeOK
  <2>1. page_write_index \in [Blocks -> 0 .. PagesPerBlock]
    BY Half DEF Init
  <2>2. planes_file \in File /\ bad_file \in File
    BY DEF Init, File
  <2> QED BY ZenonT(60), <1>2, <2>1, <2>2 DEF Init, TypeOK
<1>4. Running /\ Tracked /\ Files
  BY <1>1 DEF Init, Running, Tracked, Files
<1>5. Flash
  BY <1>1 DEF Flash, ProgramOnce, OneStreamPerBlock, LsbOnly, IsErased, Streams
<1> QED BY <1>3, <1>4, <1>5 DEF Inv

\* bm_alloc_page.
LEMMA AllocKeeps == ASSUME Inv, NEW s \in Streams, AllocPage(s) PROVE Inv'
<1> DEFINE b == wf[s]
           w == page_write_index[b]
           p == page_idx_map[w]
<1> USE DEF FrontierOf
<1>1. /\ power = "on" /\ power' = "on"
      /\ b # NULL /\ b \in Blocks
      /\ Frontier(b)
      /\ ~stale => FrontierPages(s, b)
  BY DEF AllocPage, Inv, TypeOK, Running, Tracked
<1>2. w \in Nat /\ w < HalfBlock /\ w \in Pages /\ p \in Pages
      /\ w + 1 <= PagesPerBlock
  BY <1>1, Half, BlockAssumption DEF Frontier, Inv, TypeOK, Pages
<1>3. p \in LsbPages /\ (~stale => content[b][p] = "erased")
  <2>1. w \in 0 .. HalfBlock - 1 /\ w >= w
    BY <1>2, Half
  <2>2. p \in LsbPages
    BY <2>1, BlockAssumption
  <2>3. ~stale => content[b][p] = "erased"
    BY <1>1, <1>2, <2>1 DEF FrontierPages
  <2> QED BY <2>2, <2>3
<1>4. PICK x \in Contents :
        /\ ~stale => x = s
        /\ content' \in [Blocks -> [Pages -> Contents]]
        /\ \A c \in Blocks, q \in Pages :
             content'[c][q] = IF c = b /\ q = p THEN x ELSE content[c][q]
  <2> DEFINE x == IF content[b][p] = "erased" THEN s ELSE "twice"
  <2>1. content' = [content EXCEPT ![b] = [content[b] EXCEPT ![p] = x]]
    BY DEF AllocPage, Program
  <2>2. x \in Contents /\ (~stale => x = s)
    BY <1>3 DEF Contents
  <2> HIDE DEF x
  <2>3. /\ content' \in [Blocks -> [Pages -> Contents]]
        /\ \A c \in Blocks, q \in Pages :
             content'[c][q] = IF c = b /\ q = p THEN x ELSE content[c][q]
    BY <2>1, <2>2, <1>1, <1>2 DEF Inv, TypeOK
  <2> QED BY <2>2, <2>3
<1>5. /\ page_write_index' \in [Blocks -> 0 .. PagesPerBlock]
      /\ \A c \in Blocks :
           page_write_index'[c] = IF c = b THEN w + 1 ELSE page_write_index[c]
  BY <1>1, <1>2 DEF AllocPage, Inv, TypeOK
<1>6. /\ consumed' = consumed \cup {b} /\ saved' = "none"
      /\ UNCHANGED <<faults, bad, planes_file, bad_file, stale, retired>>
  BY DEF AllocPage
<1>7. PICK n \in Blocks \cup {NULL} :
        \/ /\ w + 1 = HalfBlock
           /\ n \in free_list \/ (n = NULL /\ free_list = {})
           /\ wf' = [wf EXCEPT ![s] = n]
           /\ free_list' = free_list \ {n}
           /\ free_list_size' = IF n = NULL THEN free_list_size ELSE free_list_size - 1
        \/ /\ w + 1 # HalfBlock
           /\ n = b
           /\ UNCHANGED <<wf, free_list, free_list_size>>
  <2>1. CASE FrontierFull(b)
    BY <2>1 DEF AllocPage, GetFreeBlock, FrontierFull, Inv, TypeOK
  <2>2. CASE ~FrontierFull(b)
    BY <1>1, <2>2 DEF AllocPage, FrontierFull
  <2> QED BY <2>1, <2>2
<1> HIDE DEF b, w, p
<1>8. /\ wf'[s] = n /\ \A t \in Streams \ {s} : wf'[t] = wf[t]
      /\ wf' \in [Streams -> Blocks \cup {NULL}]
      /\ free_list' \subseteq free_list
      /\ n \notin free_list'
      /\ \A c \in free_list : c \in free_list' \/ c = n
  BY <1>1, <1>7 DEF Inv, TypeOK, Frontier, b
<1>9. /\ Cardinality(free_list') <= free_list_size'
      /\ free_list_size' \in Nat
  <2>1. /\ Cardinality(free_list) <= free_list_size /\ free_list_size \in Nat
        /\ IsFiniteSet(free_list)
    BY <1>1, BlockAssumption, FS_Subset DEF Inv, Running, TypeOK
  <2>2. CASE n \in free_list /\ free_list' = free_list \ {n} /\ n # NULL
    <3>1. Cardinality(free_list') = Cardinality(free_list) - 1
      BY ZenonT(60), <2>1, <2>2, FS_RemoveElement
    <3>2. free_list_size' = free_list_size - 1
      BY <1>1, <1>7, <2>2 DEF Frontier, b
    <3>3. Cardinality(free_list) \in Nat /\ Cardinality(free_list') \in Nat
      BY <2>1, <2>2, FS_CardinalityType, FS_Subset
    <3> QED BY <2>1, <3>1, <3>2, <3>3
  <2>3. CASE n = NULL \/ n \notin free_list
    <3>1. free_list' = free_list /\ free_list_size' = free_list_size
      BY ZenonT(60), <1>7, <2>3, BlockAssumption DEF Inv, TypeOK
    <3> QED BY <2>1, <3>1
  <2> QED BY <1>7, <1>1, <2>2, <2>3, BlockAssumption DEF Inv, TypeOK, Frontier, b
<1>10. TypeOK'
  BY ZenonT(60), <1>1, <1>4, <1>5, <1>6, <1>8, <1>9 DEF Inv, TypeOK
\* Every other block is as it was.
<1>11. \A c \in Blocks : c # b =>
         /\ page_write_index'[c] = page_write_index[c]
         /\ \A q \in Pages : content'[c][q] = content[c][q]
  BY <1>4, <1>5
<1>12. \A c \in free_list : /\ c # b /\ c \in Blocks
                            /\ ~stale => \A q \in Pages : content[c][q] = "erased"
                            /\ page_write_index[c] = 0 /\ c \notin retired
  BY <1>1 DEF Frontier, Inv, TypeOK, Running, Tracked, IsErased
<1>13. ASSUME NEW t \in Streams, wf'[t] # NULL
       PROVE  Frontier(wf[t])' /\ (~stale' => FrontierPages(t, wf[t])')
  <2>1. CASE t # s
    <3>1. /\ wf'[t] = wf[t] /\ wf[t] # b /\ wf[t] \in Blocks
          /\ Frontier(wf[t]) /\ (~stale => FrontierPages(t, wf[t]))
      BY <1>1, <1>8, <1>13, <2>1 DEF Inv, Running, Tracked, TypeOK, b
    <3>2. Frontier(wf[t])'
      BY <3>1, <1>6, <1>8, <1>11 DEF Frontier
    <3>3. ~stale' => FrontierPages(t, wf[t])'
      BY <3>1, <1>6, <1>11, BlockAssumption DEF FrontierPages, IsErased
    <3> QED BY <3>2, <3>3
  <2>2. CASE t = s /\ n \in free_list
    <3>1. n # b /\ n \in Blocks /\ wf'[t] = n
      BY <1>8, <1>12, <2>2
    <3>2. /\ page_write_index'[n] = 0
          /\ n \notin free_list' /\ n \notin retired'
      BY <3>1, <1>6, <1>8, <1>11, <1>12, <2>2
    <3>3. ~stale' => \A q \in Pages : content'[n][q] = "erased"
      BY <3>1, <1>6, <1>11, <1>12, <2>2
    <3>4. Frontier(wf[t])'
      BY <3>1, <3>2, Half DEF Frontier
    <3>5. ~stale' => FrontierPages(t, wf[t])'
      BY <3>1, <3>3, BlockAssumption DEF FrontierPages, IsErased
    <3> QED BY <3>4, <3>5
  <2>3. CASE t = s /\ n \notin free_list
    <3>1. n = b /\ wf'[t] = b /\ w + 1 # HalfBlock /\ free_list' = free_list
      BY <1>7, <1>8, <1>13, <2>3
    <3>2. page_write_index'[b] = w + 1 /\ w + 1 < HalfBlock /\ w + 1 # 0
      BY <1>1, <1>2, <1>5, <3>1, Half
    <3>3. ASSUME ~stale, NEW i \in Pages, i >= w + 1
          PROVE  content'[b][page_idx_map[i]] = "erased"
      <4>1. i >= w /\ i # w
        BY <1>2, <3>3 DEF Pages
      <4>2. page_idx_map[i] # p /\ page_idx_map[i] \in Pages
        BY <1>2, <4>1, BlockAssumption DEF p
      <4>3. content[b][page_idx_map[i]] = "erased"
        BY <1>1, <3>3, <4>1 DEF FrontierPages, w
      <4> QED BY <1>1, <1>4, <4>2, <4>3
    <3>4. ~stale => \A q \in Pages : content'[b][q] \in {"erased", s}
      BY <1>1, <1>4 DEF FrontierPages
    <3>5. Frontier(wf[t])'
      BY <1>1, <1>6, <3>1, <3>2 DEF Frontier
    <3>6. ~stale' => FrontierPages(t, wf[t])'
      BY <1>6, <3>1, <3>2, <3>3, <3>4, <2>3 DEF FrontierPages
    <3> QED BY <3>5, <3>6
  <2> QED BY <2>1, <2>2, <2>3
<1>14. ASSUME NEW t \in Streams, NEW u \in Streams, wf'[t] # NULL, wf'[t] = wf'[u]
       PROVE  t = u
  <2>1. n = b \/ n = NULL \/ \A y \in Streams : wf[y] # n
    BY <1>1, <1>7, BlockAssumption DEF Inv, Running, Frontier, TypeOK
  <2> QED BY <1>1, <1>8, <1>14, <2>1 DEF Inv, Running, b
<1>15. ASSUME ~stale, NEW c \in Blocks \ consumed'
       PROVE  c \in free_list' \/ \E t \in Streams : wf'[t] = c
  <2>1. c # b /\ (c \in free_list \/ \E t \in Streams : wf[t] = c)
    BY <1>1, <1>6, <1>15 DEF Inv, Tracked
  <2> QED BY <2>1, <1>8 DEF b
<1>16. Running'
  <2>1. \A c \in free_list' : page_write_index'[c] = 0 /\ c \notin retired'
    BY <1>6, <1>8, <1>11, <1>12
  <2>2. \A c \in Blocks : page_write_index'[c] > 0 => c \in consumed'
    BY <1>1, <1>5, <1>6 DEF Inv, Running
  <2> QED BY <2>1, <2>2, <1>9, <1>13, <1>14 DEF Running
<1>17. Tracked'
  <2>1. ~stale' => \A c \in free_list' : IsErased(c)'
    BY <1>6, <1>8, <1>11, <1>12 DEF IsErased
  <2> QED BY <2>1, <1>6, <1>13, <1>15 DEF Tracked
<1>18. Files'
  BY <1>1, <1>6 DEF Files
<1>19. Flash'
  <2>1. ProgramOnce'
    BY <1>4, <1>6 DEF Inv, Flash, ProgramOnce, Streams
  <2>2. OneStreamPerBlock'
    <3> SUFFICES ASSUME ~stale, NEW c \in Blocks, NEW y \in Pages, NEW z \in Pages
                 PROVE  \/ content'[c][y] = "erased" \/ content'[c][z] = "erased"
                        \/ content'[c][y] = content'[c][z]
      BY <1>6 DEF OneStreamPerBlock
    <3>1. CASE c = b
      <4>1. \A q \in Pages : content'[c][q] \in {"erased", s}
        BY <1>1, <1>4, <3>1 DEF FrontierPages
      <4> QED BY <4>1
    <3>2. CASE c # b
      BY <1>4, <3>2 DEF Inv, Flash, OneStreamPerBlock
    <3> QED BY <3>1, <3>2
  <2>3. LsbOnly'
    BY <1>3, <1>4 DEF Inv, Flash, LsbOnly
  <2> QED BY <2>1, <2>2, <2>3 DEF Flash
<1> QED BY <1>10, <1>16, <1>17, <1>18, <1>19 DEF Inv

\* save_plane_info visits the whole free list: free_list_size is never less
\* than its length, although list_del of a bad block does not count it down.
LEMMA VisitedAll == ASSUME Inv, power = "on" PROVE Visited = {free_list}
<1>1. /\ Cardinality(free_list) <= free_list_size /\ free_list_size \in Nat
      /\ IsFiniteSet(free_list)
  BY BlockAssumption, FS_Subset DEF Inv, Running, TypeOK
<1>2. Cardinality(free_list) \in Nat
  BY <1>1, FS_CardinalityType
<1>3. CASE free_list_size \in 1 .. Cardinality(free_list)
  <2>1. free_list_size = Cardinality(free_list)
    BY <1>1, <1>2, <1>3
  <2>2. \A fl \in SUBSET free_list : Cardinality(fl) = Cardinality(free_list) <=> fl = free_list
    BY <1>1, FS_Subset
  <2> QED BY <1>3, <2>1, <2>2 DEF Visited
<1>4. CASE free_list_size \notin 1 .. Cardinality(free_list)
  BY <1>4 DEF Visited
<1> QED BY <1>3, <1>4

\* save_plane_info and save_bad_blocks.
LEMMA SavedFile ==
  ASSUME NEW fail \in BOOLEAN, NEW file \in File, NEW map \in SUBSET Blocks
  PROVE  \A f \in Saved(fail, file, map) :
           /\ f \in File
           /\ ~(fail /\ f = file) => f.state \in {"ok", "short"}
           /\ ~(fail /\ f = file) /\ f.state = "ok" => f.map = map
BY DEF Saved, File

\* bm_shutdown.
LEMMA ShutdownKeeps == ASSUME Inv, NEW fail \in BOOLEAN, Shutdown(fail) PROVE Inv'
<1>1. power = "on" /\ faults' \in Nat
  BY DEF Shutdown, Fault, Inv, TypeOK
<1>2. planes_file' \in Saved(fail, planes_file, free_list \cup UnusedFrontiers)
  BY <1>1, VisitedAll DEF Shutdown
<1>3. UNCHANGED <<power, free_list, free_list_size, wf, page_write_index, bad,
                  bad_file, content, stale, retired, consumed>>
  BY DEF Shutdown
<1>4. \A b \in UnusedFrontiers : b \in Blocks /\ (~stale => IsErased(b))
  BY <1>1 DEF UnusedFrontiers, Inv, TypeOK, Tracked, FrontierPages
<1>5. \A b \in free_list \cup UnusedFrontiers : b \in Blocks /\ (~stale => IsErased(b))
  BY <1>1, <1>4 DEF Inv, TypeOK, Tracked
<1>6. ~stale => Blocks \ consumed \subseteq free_list \cup UnusedFrontiers
  <2> SUFFICES ASSUME ~stale, NEW b \in Blocks \ consumed, b \notin free_list
               PROVE  b \in UnusedFrontiers
    OBVIOUS
  <2>1. PICK s \in Streams : wf[s] = b
    BY <1>1 DEF Inv, Tracked
  <2>2. page_write_index[b] = 0 /\ b # NULL
    BY <1>1, BlockAssumption, Half DEF Inv, Running, TypeOK
  <2> QED BY <2>1, <2>2 DEF UnusedFrontiers
<1>7. /\ planes_file' \in File
      /\ saved' \in {"done", "missed"}
      /\ saved' = "done" => planes_file'.state \in {"ok", "short"}
      /\ saved' = "done" /\ planes_file'.state = "ok" =>
           planes_file'.map = free_list \cup UnusedFrontiers
  <2>1. free_list \cup UnusedFrontiers \in SUBSET Blocks /\ planes_file \in File
    BY <1>5 DEF Inv, TypeOK
  <2>2. saved' = IF fail /\ planes_file' = planes_file THEN "missed" ELSE "done"
    BY DEF Shutdown
  <2>3. /\ planes_file' \in File
        /\ ~(fail /\ planes_file' = planes_file) => planes_file'.state \in {"ok", "short"}
        /\ ~(fail /\ planes_file' = planes_file) /\ planes_file'.state = "ok" =>
             planes_file'.map = free_list \cup UnusedFrontiers
    BY <1>2, <2>1 DEF Saved, File
  <2> QED BY <2>2, <2>3
<1>8. \A b : IsErased(b)' <=> IsErased(b)
  BY <1>3 DEF IsErased
<1>9. TypeOK'
  BY ZenonT(60), <1>1, <1>3, <1>7 DEF Inv, TypeOK
<1>10. Running' /\ Tracked'
  BY <1>3 DEF Inv, Running, Tracked, Frontier, FrontierPages, IsErased
<1>11. Files'
  BY <1>1, <1>3, <1>5, <1>6, <1>7, <1>8 DEF Files
<1>12. Flash'
  BY <1>3 DEF Inv, Flash, ProgramOnce, OneStreamPerBlock, LsbOnly
<1> QED BY <1>9, <1>10, <1>11, <1>12 DEF Inv

\* bm_init.
LEMMA BootKeeps ==
  ASSUME Inv, NEW wipe \in BOOLEAN, NEW full \in BOOLEAN, NEW fail \in BOOLEAN,
         NEW unseen \in SUBSET {"planes", "bad"},
         NEW found \in SUBSET Blocks, NEW worn \in SUBSET Blocks,
         Boot(wipe, full, fail, unseen, found, worn)
  PROVE  Inv'
<1> DEFINE reset == "planes" \in unseen \/ wipe
           listed == IF reset THEN Blocks ELSE planes_file.map
           known == IF "bad" \in unseen THEN found ELSE bad_file.map
           broken == IF full THEN known \cup worn ELSE known
           free == listed \ broken
<1>1. /\ power = "off" /\ power' = "on"
      /\ bad' = broken /\ retired' = broken
      /\ saved' = "none"
      /\ page_write_index' = [b \in Blocks |-> 0]
      /\ content' = IF wipe \/ full THEN Erased ELSE content
      /\ consumed' = broken \cup (IF reset THEN {} ELSE consumed)
      /\ planes_file' \in IF reset THEN Saved(fail, planes_file, Blocks) ELSE {planes_file}
      /\ bad_file' \in IF "bad" \in unseen \/ full THEN Saved(fail, bad_file, broken) ELSE {bad_file}
      /\ ~BootPanics(wipe, unseen)
      /\ Absent \subseteq unseen
      /\ stale' = (~wipe /\ (stale \/ saved = "missed" \/ "planes" \in unseen \ Absent))
  BY DEF Boot
<1>0. faults' \in Nat
  <2>1. Fault(fail)
    BY DEF Boot
  <2> QED BY <2>1 DEF Fault, Inv, TypeOK
<1>2. PICK d \in Blocks \cup {NULL}, g \in Blocks \cup {NULL}, m \in Blocks \cup {NULL} :
        /\ d \in GetFreeBlock(free)
        /\ g \in GetFreeBlock(free \ {d})
        /\ m \in GetFreeBlock(free \ {d, g})
        /\ wf' = [data |-> d, gc |-> g, mapping |-> m]
        /\ free_list' = free \ {d, g, m}
        /\ free_list_size' = Cardinality(listed) - Cardinality({d, g, m} \ {NULL})
  <2>1. \E d \in GetFreeBlock(free) :
        \E g \in GetFreeBlock(free \ {d}) :
        \E m \in GetFreeBlock(free \ {d, g}) :
          /\ wf' = [data |-> d, gc |-> g, mapping |-> m]
          /\ free_list' = free \ {d, g, m}
          /\ free_list_size' = Cardinality(listed) - Cardinality({d, g, m} \ {NULL})
    BY ZenonT(60) DEF Boot, GoodBlocks, ListSize
  <2>2. listed \subseteq Blocks
    BY DEF Inv, TypeOK, File
  <2>3. \A fl \in SUBSET Blocks : GetFreeBlock(fl) \subseteq Blocks \cup {NULL}
    BY DEF GetFreeBlock
  <2> HIDE DEF reset, listed, known, broken, free
  <2>4. free \subseteq Blocks
    BY <2>2 DEF free
  <2> QED BY ZenonT(60), <2>1, <2>3, <2>4
<1>3. listed \subseteq Blocks /\ broken \subseteq Blocks
  BY DEF Inv, TypeOK, File
\* Unless it is wiped, a drive that does not come up stale has a plane file that
\* bm_shutdown wrote, or none and a blank flash.
<1>4. ASSUME ~stale', ~wipe
      PROVE  /\ ~stale
             /\ \A b \in listed : IsErased(b)
             /\ Blocks \ consumed' \subseteq listed
  <2>1. ~stale /\ saved = "done" /\ ("planes" \in unseen => "planes" \in Absent)
    BY <1>1, <1>4 DEF Inv, TypeOK, Files
  <2>2. CASE "planes" \in unseen
    <3>1. planes_file.state = "absent"
      BY <2>1, <2>2 DEF Absent, FileOf
    <3> QED BY <1>4, <2>1, <2>2, <3>1 DEF Inv, Files
  <2>3. CASE "planes" \notin unseen
    <3>1. planes_file.state # "absent"
      BY <1>1, <2>3 DEF Absent, FileOf
    <3>2. planes_file.state # "short"
      BY <1>1, <1>4, <2>3 DEF BootPanics, Restored, FileOf
    <3>3. planes_file.state = "ok"
      BY <3>1, <3>2 DEF Inv, TypeOK, File
    <3> QED BY <1>1, <1>4, <2>1, <2>3, <3>3 DEF Inv, Files
  <2> QED BY <2>2, <2>3
<1>5. /\ wipe => listed = Blocks
      /\ wipe => \A b \in Blocks, p \in Pages : content'[b][p] = "erased"
      /\ ~stale' => \A b \in listed : \A p \in Pages : content'[b][p] = "erased"
      /\ ~stale' => Blocks \ consumed' \subseteq listed
  <2>1. wipe => listed = Blocks /\ \A b \in Blocks, p \in Pages : content'[b][p] = "erased"
    BY <1>1 DEF Erased
  <2>2. ~stale' /\ ~wipe => \A b \in listed : \A p \in Pages : content'[b][p] = "erased"
    BY <1>1, <1>3, <1>4 DEF Erased, IsErased
  <2> QED BY <2>1, <2>2, <1>4
<1>6. planes_file' \in File /\ bad_file' \in File
  <2>1. \A file \in File, map \in SUBSET Blocks : Saved(fail, file, map) \subseteq File
    BY ZenonT(60), SavedFile
  <2>2. planes_file \in File /\ bad_file \in File
    BY DEF Inv, TypeOK
  <2> HIDE DEF reset, broken
  <2> QED BY ZenonT(60), <1>1, <1>3, <2>1, <2>2
<1>7. /\ content' \in [Blocks -> [Pages -> Contents]]
      /\ \A b \in Blocks, p \in Pages :
           content'[b][p] = content[b][p] \/ content'[b][p] = "erased"
  BY <1>1 DEF Erased, Contents, Inv, TypeOK
<1>8. consumed' \subseteq Blocks
  BY <1>1, <1>3 DEF Inv, TypeOK
<1> HIDE DEF reset, listed, known, broken
\* The three frontiers are different blocks of the free list.
<1>10. /\ d \in free \/ (d = NULL /\ free = {})
       /\ g \in free \ {d} \/ (g = NULL /\ free \ {d} = {})
       /\ m \in free \ {d, g} \/ (m = NULL /\ free \ {d, g} = {})
  BY <1>2 DEF GetFreeBlock
<1>11. /\ wf' \in [Streams -> Blocks \cup {NULL}]
       /\ \A s \in Streams : wf'[s] = NULL \/ wf'[s] \in free \ free_list'
       /\ \A s, t \in Streams : wf'[s] # NULL /\ wf'[s] = wf'[t] => s = t
       /\ \A b \in free : b \in free_list' \/ \E s \in Streams : wf'[s] = b
  <2>1. /\ wf'["data"] = d /\ wf'["gc"] = g /\ wf'["mapping"] = m
        /\ wf' \in [Streams -> Blocks \cup {NULL}]
    BY <1>2 DEF Streams
  <2>2. \A s \in Streams : wf'[s] = NULL \/ wf'[s] \in free \ free_list'
    BY <1>2, <1>10, <2>1 DEF Streams
  <2>3. \A s, t \in Streams : wf'[s] # NULL /\ wf'[s] = wf'[t] => s = t
    BY <1>10, <2>1 DEF Streams
  <2>4. \A b \in free : b \in free_list' \/ \E s \in Streams : wf'[s] = b
    BY <1>2, <2>1 DEF Streams
  <2> QED BY <2>1, <2>2, <2>3, <2>4
<1>12. Cardinality(free_list') <= free_list_size' /\ free_list_size' \in Nat
  <2> DEFINE taken == {d, g, m} \ {NULL}
  <2>1. taken \subseteq listed /\ free_list' \subseteq listed \ taken
    BY <1>2, <1>10
  <2>2. IsFiniteSet(listed)
    BY <1>3, BlockAssumption, FS_Subset
  <2> HIDE DEF taken
  <2>3. IsFiniteSet(taken) /\ IsFiniteSet(listed \ taken) /\ IsFiniteSet(free_list')
    BY <2>1, <2>2, FS_Subset, FS_Difference
  <2>4. Cardinality(listed \ taken) = Cardinality(listed) - Cardinality(taken)
    <3>1. listed \cap taken = taken
      BY <2>1
    <3> QED BY ZenonT(60), <2>2, <3>1, FS_Difference
  <2>5. Cardinality(free_list') <= Cardinality(listed \ taken)
    BY <2>1, <2>3, FS_Subset
  <2>6. Cardinality(listed \ taken) \in Nat
    BY <2>3, FS_CardinalityType
  <2>7. free_list_size' = Cardinality(listed) - Cardinality(taken)
    BY <1>2 DEF taken
  <2> QED BY <2>4, <2>5, <2>6, <2>7
<1>13. TypeOK'
  <2>1. page_write_index' \in [Blocks -> 0 .. PagesPerBlock]
    BY <1>1, Half
  <2>2. free_list' \subseteq Blocks
    BY <1>2, <1>3
  <2>3. stale' \in BOOLEAN
    BY <1>1
  <2> QED BY ZenonT(60), <1>0, <1>1, <1>3, <1>6, <1>7, <1>8, <1>11, <1>12, <2>1, <2>2, <2>3 DEF TypeOK
<1>14. Running' /\ Tracked'
  <2>1. \A b \in free :
          /\ b \in Blocks /\ b \notin retired' /\ page_write_index'[b] = 0
          /\ ~stale' => \A p \in Pages : content'[b][p] = "erased"
    BY <1>1, <1>3, <1>5
  <2>2. free_list' \subseteq free
    BY <1>2
  <2>3. ASSUME NEW s \in Streams, wf'[s] # NULL
        PROVE  Frontier(wf[s])' /\ (~stale' => FrontierPages(s, wf[s])')
    <3>1. wf'[s] \in free /\ wf'[s] \notin free_list'
      BY <1>11, <2>3
    <3>2. Frontier(wf[s])'
      BY <2>1, <3>1, Half DEF Frontier
    <3>3. ~stale' => FrontierPages(s, wf[s])'
      BY <2>1, <3>1, BlockAssumption DEF FrontierPages, IsErased
    <3> QED BY <3>2, <3>3
  <2>4. \A b \in free_list' : page_write_index'[b] = 0 /\ b \notin retired'
    BY <2>1, <2>2
  <2>5. \A b \in Blocks : ~(page_write_index'[b] > 0)
    BY <1>1
  <2>6. ~stale' => \A b \in free_list' : IsErased(b)'
    BY <2>1, <2>2 DEF IsErased
  <2>7. ~stale' => \A b \in Blocks \ consumed' :
          b \in free_list' \/ \E s \in Streams : wf'[s] = b
    BY <1>1, <1>5, <1>11
  <2>8. Running'
    BY <1>11, <1>12, <2>3, <2>4, <2>5 DEF Running
  <2>9. Tracked'
    BY <2>3, <2>6, <2>7 DEF Tracked
  <2> QED BY <2>8, <2>9
<1>15. Files'
  BY <1>1 DEF Files
<1>16. Flash'
  <2>1. ProgramOnce'
    BY <1>4, <1>5, <1>7 DEF Inv, Flash, ProgramOnce
  <2>2. OneStreamPerBlock'
    <3>1. CASE wipe \/ full
      BY <1>1, <3>1 DEF Erased, OneStreamPerBlock
    <3>2. CASE ~(wipe \/ full)
      BY <1>1, <1>4, <3>2 DEF Inv, Flash, OneStreamPerBlock
    <3> QED BY <3>1, <3>2
  <2>3. LsbOnly'
    BY <1>7 DEF Inv, Flash, LsbOnly
  <2> QED BY <2>1, <2>2, <2>3 DEF Flash
<1> QED BY <1>13, <1>14, <1>15, <1>16 DEF Inv

LEMMA NextInv == Inv /\ [Next]_vars => Inv'
<1> SUFFICES ASSUME Inv, [Next]_vars PROVE Inv'
  OBVIOUS
<1> USE DEF Inv
<1>1. ASSUME NEW wipe \in BOOLEAN, NEW full \in BOOLEAN, NEW fail \in BOOLEAN,
             NEW unseen \in SUBSET {"planes", "bad"}, NEW found \in Few, NEW worn \in Few,
             Boot(wipe, full, fail, unseen, found, worn)
      PROVE  Inv'
  <2>1. found \in SUBSET Blocks /\ worn \in SUBSET Blocks
    BY DEF Few
  <2> QED BY <1>1, <2>1, BootKeeps
<1>2. ASSUME NEW s \in Streams, AllocPage(s) PROVE Inv'
  BY <1>2, AllocKeeps
<1>3. ASSUME NEW fail \in BOOLEAN, Shutdown(fail) PROVE Inv'
  BY <1>3, ShutdownKeeps
\* The other steps leave the flash and the blocks alone.
<1>4. ASSUME UNCHANGED <<content, stale>> PROVE Flash'
  BY <1>4 DEF Flash, ProgramOnce, OneStreamPerBlock, LsbOnly
<1>5. CASE /\ power' = "panic" /\ faults' \in Nat
           /\ UNCHANGED <<free_list, free_list_size, wf, page_write_index, bad, planes_file,
                          bad_file, content, saved, stale, retired, consumed>>
  <2>1. TypeOK' /\ Running' /\ Tracked'
    BY ZenonT(60), <1>5 DEF TypeOK, Running, Tracked
  <2>2. Files'
    BY <1>5 DEF Files, IsErased
  <2> QED BY <1>4, <1>5, <2>1, <2>2
<1>6. ASSUME NEW wipe \in BOOLEAN, NEW fail \in BOOLEAN, PanicAtBoot(wipe, fail) PROVE Inv'
  <2>1. faults' \in Nat
    BY <1>6 DEF PanicAtBoot, Fault, TypeOK
  <2> QED BY <1>5, <1>6, <2>1 DEF PanicAtBoot
<1>7. ASSUME NEW s \in Streams, AllocNull(s) PROVE Inv'
  BY <1>5, <1>7 DEF AllocNull, TypeOK
<1>8. ASSUME NEW b \in Blocks, MarkBad(b) PROVE Inv'
  <2>1. TypeOK' /\ Running' /\ Tracked'
    BY <1>8 DEF MarkBad, TypeOK, Running, Tracked, Frontier, FrontierPages, IsErased
  <2>2. Files'
    BY <1>8 DEF MarkBad, Files, IsErased
  <2> QED BY <1>4, <1>8, <2>1, <2>2 DEF MarkBad
<1>9. ASSUME NEW fail \in BOOLEAN, SaveBadBlocks(fail) PROVE Inv'
  <2>0. UNCHANGED <<power, free_list, free_list_size, wf, page_write_index, bad, planes_file,
                    content, saved, stale, retired, consumed>>
    BY <1>9 DEF SaveBadBlocks
  <2>1. bad_file' \in File /\ faults' \in Nat
    <3>1. bad_file' \in Saved(fail, bad_file, bad) /\ Fault(fail)
      BY <1>9 DEF SaveBadBlocks
    <3>2. bad_file \in File /\ bad \in SUBSET Blocks /\ faults \in Nat
      BY DEF TypeOK
    <3>3. bad_file' \in File
      BY ZenonT(60), <3>1, <3>2, SavedFile
    <3> QED BY <3>1, <3>2, <3>3 DEF Fault
  <2>2. TypeOK' /\ Running' /\ Tracked'
    BY <2>0, <2>1 DEF TypeOK, Running, Tracked, Frontier, FrontierPages, IsErased
  <2>3. Files'
    BY <2>0 DEF Files, IsErased
  <2> QED BY <1>4, <2>0, <2>2, <2>3
<1>10. CASE PowerOff
  <2>0. page_write_index' \in [Blocks -> 0 .. PagesPerBlock]
    BY <1>10, Half DEF PowerOff
  <2>1. TypeOK' /\ Running' /\ Tracked'
    BY ZenonT(60), <1>10, <2>0 DEF PowerOff, TypeOK, Running, Tracked
  <2>2. Files'
    BY <1>10 DEF PowerOff, Files, IsErased
  <2> QED BY <1>4, <1>10, <2>1, <2>2 DEF PowerOff
<1>11. CASE UNCHANGED vars
  <2>1. TypeOK' /\ Running' /\ Tracked'
    BY <1>11 DEF vars, TypeOK, Running, Tracked, Frontier, FrontierPages, IsErased
  <2>2. Files'
    BY <1>11 DEF vars, Files, IsErased
  <2> QED BY <1>4, <1>11, <2>1, <2>2 DEF vars
<1> QED BY <1>1, <1>2, <1>3, <1>6, <1>7, <1>8, <1>9, <1>10, <1>11 DEF Next

LEMMA Invariance == Spec => []Inv
BY InitInv, NextInv, PTL DEF Spec

\* No flash page is programmed twice between two erases: bm_alloc_page never
\* gives a page out again, whatever was saved, cut short and restored in between,
\* unless the drive came up on a plane file that had missed a save.
THEOREM PagesProgrammedOnce == Spec => []ProgramOnce
<1>1. Inv => ProgramOnce
  BY DEF Inv, Flash
<1> QED BY <1>1, Invariance, PTL

\* Mapping, data and GC pages never share a block, with the same exception.
THEOREM StreamsSeparate == Spec => []OneStreamPerBlock
<1>1. Inv => OneStreamPerBlock
  BY DEF Inv, Flash
<1> QED BY <1>1, Invariance, PTL

\* save_plane_info and restore_plane_info lose no block that was never used, with
\* the same exception.
THEOREM BlocksKept == Spec => []NoBlockLost
<1>1. Inv => NoBlockLost
  BY DEF Inv, Tracked, NoBlockLost
<1> QED BY <1>1, Invariance, PTL

\* Bad blocks found or restored at start-up are never written to.
THEOREM BadBlocksRetired == Spec => []BadRetired
<1>1. Inv => BadRetired
  BY BlockAssumption DEF Inv, TypeOK, Running, Frontier, BadRetired
<1> QED BY <1>1, Invariance, PTL

\* The types of the allocator's state and of its files.
THEOREM TypeCorrect == Spec => []TypeOK
<1>1. Inv => TypeOK
  BY DEF Inv
<1> QED BY <1>1, Invariance, PTL

\* MSB pages are never programmed: bm_alloc_page replaces a frontier at half a block.
THEOREM OnlyLsbPages == Spec => []LsbOnly
<1>1. Inv => LsbOnly
  BY DEF Inv, Flash
<1> QED BY <1>1, Invariance, PTL

\* bm_alloc_page programs one blank page of its stream's block, unless the free
\* list is stale.
LEMMA AllocIsAlloc ==
  ASSUME Inv, NEW s \in Streams, AllocPage(s)
  PROVE  Allocator!Alloc(s) \/ Allocator!Reuse(s)
<1> DEFINE b == wf[s]
           p == page_idx_map[page_write_index[b]]
<1>1. b \in Blocks /\ Frontier(b) /\ (~stale => FrontierPages(s, b))
  BY DEF AllocPage, FrontierOf, Inv, TypeOK, Running, Tracked
<1>2. page_write_index[b] \in Pages /\ page_write_index[b] >= page_write_index[b]
  BY <1>1, Half DEF Frontier, Inv, TypeOK, Pages
<1>3. p \in Pages /\ (~stale => content[b][p] = "erased")
  BY <1>1, <1>2, BlockAssumption DEF FrontierPages
<1>4. ~stale => \A q \in Pages : content[b][q] \in {"erased", s}
  BY <1>1 DEF FrontierPages
<1>5. content' = [content EXCEPT ![b][p] = IF @ = "erased" THEN s ELSE "twice"]
      /\ stale' = stale
  BY DEF AllocPage, FrontierOf, Program
<1> HIDE DEF b, p
<1>6. CASE stale
  BY ZenonT(60), <1>1, <1>3, <1>5, <1>6 DEF Allocator!Reuse
<1>7. CASE ~stale
  <2>1. content' = [content EXCEPT ![b][p] = s]
    BY <1>3, <1>5, <1>7
  <2> QED BY ZenonT(60), <1>1, <1>3, <1>4, <1>5, <1>7, <2>1 DEF Allocator!Alloc
<1> QED BY <1>6, <1>7

\* BlockManager implements PageAllocator: over restarts, failed saves and bad blocks,
\* the flash only ever changes by handing out a blank page or by erasing it all, until
\* bm_init comes up on a stale plane file.
THEOREM Refinement == Spec => ImplementsPageAllocator
<1>1. Init => Allocator!Init
  BY DEF Init, Erased, Allocator!Init, Allocator!Blank
<1>2. Inv /\ [Next]_vars => [Allocator!Next]_<<content, ~stale>>
  <2> SUFFICES ASSUME Inv, [Next]_vars PROVE [Allocator!Next]_<<content, ~stale>>
    OBVIOUS
  <2>1. ASSUME NEW wipe \in BOOLEAN, NEW full \in BOOLEAN, NEW fail \in BOOLEAN,
               NEW unseen \in SUBSET {"planes", "bad"}, NEW found \in Few, NEW worn \in Few,
               Boot(wipe, full, fail, unseen, found, worn)
        PROVE  Allocator!EraseAll \/ Allocator!LoseTrack \/ UNCHANGED <<content, stale>>
    <3>1. content' = Erased \/ (content' = content /\ ~wipe)
      BY <2>1 DEF Boot
    <3>2. stale' = (~wipe /\ (stale \/ saved = "missed" \/ "planes" \in unseen \ Absent))
      BY <2>1 DEF Boot
    <3>3. stale \in BOOLEAN /\ stale' \in BOOLEAN
      BY <3>2 DEF Inv, TypeOK
    <3>4. CASE content' = Erased
      BY <3>3, <3>4 DEF Erased, Allocator!EraseAll, Allocator!Blank
    <3>5. CASE content' = content /\ ~wipe
      <4>1. stale' \/ stale' = stale
        BY <3>2, <3>3, <3>5
      <4> QED BY <3>5, <4>1 DEF Allocator!LoseTrack
    <3> QED BY <3>1, <3>4, <3>5
  <2>2. ASSUME NEW s \in Streams, AllocPage(s) PROVE Allocator!Alloc(s) \/ Allocator!Reuse(s)
    BY <2>2, AllocIsAlloc
  <2>3. ASSUME \/ \E wipe, fail \in BOOLEAN : PanicAtBoot(wipe, fail)
               \/ \E s \in Streams : AllocNull(s)
               \/ \E b \in Blocks : MarkBad(b)
               \/ \E fail \in BOOLEAN : SaveBadBlocks(fail) \/ Shutdown(fail)
               \/ PowerOff \/ UNCHANGED vars
        PROVE  UNCHANGED <<content, stale>>
    BY ZenonT(60), <2>3 DEF PanicAtBoot, AllocNull, MarkBad, SaveBadBlocks, Shutdown, PowerOff, vars
  <2>4. UNCHANGED <<content, stale>> => UNCHANGED <<content, ~stale>>
    OBVIOUS
  <2> QED BY <2>1, <2>2, <2>3, <2>4 DEF Next, Allocator!Next
<1> QED BY <1>1, <1>2, Invariance, PTL DEF Spec, ImplementsPageAllocator, Allocator!Spec

=============================================================================
