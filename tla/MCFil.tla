------------------------------- MODULE MCFil -------------------------------
EXTENDS Fil

Task(type, source, chip, die) == [type |-> type, source |-> source, chip |-> chip, die |-> die]

\* Each kind of queue, on two dies of one chip and on a second chip; a dump, and an
\* address out of range.
Mixed == {Task("read", "user", 0, 0), Task("read", "gc", 0, 1), Task("write", "user", 0, 1),
          Task("erase", "gc", 0, 0), Task("write", "mapping", 1, 0), 
          Task("read", "mapping", 1, 0), Task("write", "gc", 0, 0),
          Task("dump", "user", 0, 0), Task("read", "user", 2, 0)}
=============================================================================
