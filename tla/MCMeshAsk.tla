------------------------------ MODULE MCMeshAsk ------------------------------
EXTENDS MeshAsk

CONSTANTS S, a1, a2, c1, c2, c3

\* One call of each node.
MCBy == [c \in {c1, c2, c3} |-> CASE c = c1 -> S [] c = c2 -> a1 [] c = c3 -> a2]
==============================================================================
