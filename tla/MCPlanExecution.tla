--------------------------- MODULE MCPlanExecution ---------------------------
(* Instances of PlanExecution for TLC.                                        *)
EXTENDS PlanExecution

CONSTANTS a, b, c, v

Shape(D, W, P) ==
    {[deps |-> d, write |-> x, param |-> p] : d \in D, x \in W, p \in P}

\* Every dependency relation on three tasks, cyclic and dangling ones too; two
\* of the tasks write, one of them what the read found.
AllShapes ==
    Shape([{a, b, c} -> SUBSET {a, b, c, Unknown}],
          {[t \in {a, b, c} |-> t # a]},
          {[t \in {a, b, c} |-> IF t = c THEN [of |-> a] ELSE v]})
=============================================================================
