----------------------------- MODULE MCLazyHeap -----------------------------
(* Four objects, two of which compare equal, so that ties are met. *)
EXTENDS LazyHeap, TLC
CONSTANTS a, b, c, d

MCKey == a :> 1 @@ b :> 2 @@ c :> 2 @@ d :> 3
=============================================================================
