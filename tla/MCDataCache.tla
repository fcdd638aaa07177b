---------------------------- MODULE MCDataCache ----------------------------
(* Two workers and a flusher.                                                *)
EXTENDS DataCache, TLC

\* One page, in part or whole.
Part(l) == [lpa |-> l, bitmap |-> {1}]
Whole(l) == [lpa |-> l, bitmap |-> Sectors]
OnePage == {<<Part(l)>> : l \in Lpas} \cup {<<Whole(l)>> : l \in Lpas}
\* Requests that meet on page 1, in part, and one next to them.
Overlapping == {<<Part(0), Part(1)>>, <<Whole(1)>>, <<Whole(2)>>}
Neighbours == {<<Whole(0), Whole(1)>>, <<Whole(2)>>}

\* There is room for every page, and nothing fails.
Roomy == [capacity |-> 3, faults |-> {}, shapes |-> Overlapping,
          writes |-> 2, reads |-> 1, flushes |-> 2]
\* Pages are evicted, and anything may fail, under a reader and under a flusher.
Failing == [capacity |-> 2, faults |-> {"dma", "amu_read", "amu_write", "nomem"},
            shapes |-> Neighbours, writes |-> 2, reads |-> 1, flushes |-> 0]
RoomyOrFailing == {Roomy, Failing, [Failing EXCEPT !.reads = 0, !.flushes = 1]}
\* Pages are evicted while one is read.
Evicting == {[capacity |-> 2, faults |-> {}, shapes |-> OnePage,
              writes |-> 3, reads |-> 1, flushes |-> 0]}
=============================================================================
