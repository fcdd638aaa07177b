------------------------------- MODULE MCAmu -------------------------------
EXTENDS Amu

\* A read of one sector, and writes that cover a part or the whole of a page.
SmallRequests == {[type |-> "read", bitmap |-> {1}],
                  [type |-> "write", bitmap |-> {1}],
                  [type |-> "write", bitmap |-> {1, 2}]}
AllRequests == [type : {"read", "write"}, bitmap : {{1}, {1, 2}}]

\* Room for every translation page, and dispatches that fail; and a cache of one page on a faulty flash.
RoomyOrFaulty ==
    {[capacity |-> 2, txns |-> 2, faults |-> {"update_read", "submit"}],
     [capacity |-> 1, txns |-> 2,
      faults |-> {"xpg_read", "xpg_flush", "update_read", "submit"}]}
OnePage == {[capacity |-> 1, txns |-> 3, faults |-> {}]}
=============================================================================
