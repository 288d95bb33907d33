---------------------------- MODULE MCTransfer ----------------------------
EXTENDS TransferOverLocations, TLC
CONSTANTS r1, r2, s, a, l1, l2

MCFrom == [r \in Rec |-> s]
MCTo == [r \in Rec |-> a]
MCQty == [r \in Rec |-> IF r = r1 THEN 0 ELSE 1]
MCSerials == [r \in Rec |-> 1]
MCMaxReturns == [r \in Rec |-> IF r = r1 THEN 2 ELSE 1]
=============================================================================
