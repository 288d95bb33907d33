---------------------------- MODULE StockLedger ----------------------------
(***************************************************************************)
(* What reserving stock promises: pieces are claimed for a move only while *)
(* nobody else has claimed them, and a move gives back or takes away what  *)
(* it has claimed and nothing else.                                        *)
(***************************************************************************)
EXTENDS Totals

CONSTANTS Place, Move
VARIABLES held, claimed

Unclaimed(p) == held[p] - Total([m \in Move |-> claimed[m][p]])

Others(m) == \A x \in Move \ {m} : claimed'[x] = claimed[x]

Claim(m) ==
    /\ \A p \in Place : claimed'[m][p] # claimed[m][p]
                        => claimed'[m][p] - claimed[m][p] \in 1 .. Unclaimed(p)
    /\ Others(m) /\ UNCHANGED held

Release(m) ==
    /\ \A p \in Place : claimed'[m][p] = 0
    /\ Others(m) /\ UNCHANGED held

Deliver(m) ==
    /\ \A p \in Place : /\ held'[p] = held[p] - claimed[m][p]
                        /\ claimed'[m][p] = 0
    /\ Others(m)

Count(p) ==
    /\ \A x \in Place \ {p} : held'[x] = held[x]
    /\ UNCHANGED claimed

LedgerInit == \A p \in Place, m \in Move : claimed[m][p] = 0

LedgerNext ==
    \/ \E m \in Move : Claim(m) \/ Release(m) \/ Deliver(m)
    \/ \E p \in Place : Count(p)

LedgerSpec == LedgerInit /\ [][LedgerNext]_<<held, claimed>>
=============================================================================
