--------------------------- MODULE MCReservation ---------------------------
(* Two chained moves and a third one, without imports; three chained moves   *)
(* and one lot; or an import, a move that reserves and one that bypasses     *)
(* reservation, with validation jobs.                                        *)
EXTENDS Reservation, TLC
CONSTANTS m1, m2, m3

Chained == [demand |-> m1 :> 2 @@ m2 :> 1 @@ m3 :> 2,
            group |-> m1 :> "g" @@ m2 :> "g" @@ m3 :> NoGroup,
            bypass |-> {}, import |-> {}, maxQty |-> <<2, 2>>, maxJobs |-> 0]

Siblings3 == [demand |-> m1 :> 3 @@ m2 :> 1 @@ m3 :> 1, group |-> [m \in Move |-> "g"],
              bypass |-> {}, import |-> {}, maxQty |-> <<3, 0>>, maxJobs |-> 0]

Imported == [demand |-> [m \in Move |-> 1], group |-> [m \in Move |-> NoGroup],
             bypass |-> {m3}, import |-> {m1, m2}, maxQty |-> <<1, 1>>, maxJobs |-> 2]

MCPlan == {Chained, Siblings3, Imported}
=============================================================================
