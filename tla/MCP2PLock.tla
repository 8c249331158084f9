----------------------------- MODULE MCP2PLock -----------------------------
\* Instances of P2PLock for TLC.
EXTENDS P2PLock, TLC

CONSTANT Busiest  \* the process of the threads beside the first ones

\* The first thread of a process is named like the process.
HomeOf == [t \in Thread |-> IF t \in Node THEN t ELSE Busiest]

\* Bound: every process has given itself the first slot.
FirstSlots == \A n \in Node : slot[n] = 1

Symmetry == Permutations(Node)
=============================================================================
