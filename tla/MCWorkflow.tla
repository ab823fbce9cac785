------------------------------ MODULE MCWorkflow ------------------------------
(* Small instances of Workflow for TLC: two steps, the first of which is    *)
(* edited, dropped, or alone.                                               *)
EXTENDS Workflow

CONSTANTS a, b, x, y

S(name, spec) == [name |-> name, spec |-> spec]
F(tasks) == [tasks |-> tasks, notifyURL |-> TRUE]

Pair   == F(<<S(a, x), S(b, x)>>)
Single == F(<<S(a, y)>>)
Silent == [tasks |-> <<S(a, x)>>, notifyURL |-> FALSE]

One     == {Pair}
Two     == {Pair, Single}
Singles == {Single, Silent}
=============================================================================
