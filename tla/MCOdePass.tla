----------------------------- MODULE MCOdePass -----------------------------
EXTENDS OdePass
Seeds == 0 .. 3
Shapes == { [kind |-> "rk4", n |-> 6, chi |-> TRUE, steps |-> 2],
            [kind |-> "rk4", n |-> 5, chi |-> TRUE, steps |-> 1],
            [kind |-> "rk4", n |-> 4, chi |-> TRUE, steps |-> 2],
            [kind |-> "rk4", n |-> 3, chi |-> FALSE, steps |-> 3],
            [kind |-> "split", n |-> 4, chi |-> FALSE, steps |-> 3],
            [kind |-> "split", n |-> 5, chi |-> FALSE, steps |-> 4],
            [kind |-> "split", n |-> 2, chi |-> FALSE, steps |-> 1] }
MCJobs == { [kind |-> s.kind, n |-> s.n, chi |-> s.chi, steps |-> s.steps, seed |-> i] :
            s \in Shapes, i \in Seeds }
=============================================================================
