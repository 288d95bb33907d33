---------------------------- MODULE MCDelayedJobs ----------------------------
EXTENDS DelayedJobs, TLC
CONSTANTS j1, j2, c1, c2, maxRetries

MCMaxRetries == [j \in Job |-> IF j = j1 THEN maxRetries ELSE 0]
MCPattern == 1 :> 10 @@ 2 :> 20
=============================================================================
