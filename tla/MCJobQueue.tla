----------------------------- MODULE MCJobQueue -----------------------------
EXTENDS JobQueue, TLC
CONSTANTS A, j1, j2, r1, r2, rootCapacity

MCChannel == {root, A}
MCParent == A :> root
MCUp == root :> {root} @@ A :> {A, root}
MCCapacity == root :> rootCapacity @@ A :> 2
MCThrottle == root :> 0 @@ A :> 0
MCSeq == [j \in Job |-> IF j = j1 THEN 1 ELSE 2]
MCChannelOf == [j \in Job |-> A]
MCPriorityOf == [j \in Job |-> 1]
Symmetry == Permutations({r1, r2})
=============================================================================
