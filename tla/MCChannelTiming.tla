-------------------------- MODULE MCChannelTiming --------------------------
(* A sequential channel S below a throttled one, T, below the root.        *)
EXTENDS ChannelTiming, TLC
CONSTANTS T, S, j1, j2, rootCapacity

MCChannel == {root, T, S}
MCParent == T :> root @@ S :> T
MCUp == root :> {root} @@ T :> {T, root} @@ S :> {S, T, root}
MCCapacity == root :> rootCapacity @@ T :> 0 @@ S :> 1
MCThrottle == root :> 0 @@ T :> 2 @@ S :> 0
MCSeq == j1 :> 1 @@ j2 :> 2
=============================================================================
