---------------------------- MODULE Reservation ----------------------------
(***************************************************************************)
(* Reserving stock for moves: _action_assign (stock_optimization), which   *)
(* stops after three minutes and writes the states of the moves at its     *)
(* end; the import of serial numbers and _update_reserved_quantity         *)
(* (inventory_serial_import); the job that validates a picking.            *)
(*                                                                         *)
(* One product at one location; a quant for each lot, in removal order; a  *)
(* picking has one move.  Moves with a group are chained: all moves of the *)
(* group have the same original moves, and share what these have brought.  *)
(* A run of _action_assign is one transaction, so nothing else happens     *)
(* between its moves.  A make_to_order move without origins is passed over *)
(* and is left out; "waiting" counts as "confirmed".                       *)
(***************************************************************************)
EXTENDS Totals, FiniteSets

CONSTANTS
    Lots,           \* quants are 1 .. Lots
    Move, NoGroup,  \* moves; the group of one that is not chained
    Plan            \* what the moves are, and two bounds: see PlanType

PlanType ==
    [demand : [Move -> Nat \ {0}],   \* product_qty
     group  : [Move -> STRING \cup {NoGroup}],
     bypass : SUBSET Move,    \* consumables, or from locations that bypass reservation
     import : SUBSET Move,    \* those for which users import serial numbers
     maxQty : [1 .. Lots -> Nat],   \* bound: pieces in a quant
     maxJobs : Nat]           \* bound: validation jobs of a picking

ASSUME ReservationAssumption == 
    /\ Lots \in Nat /\ IsFiniteSet(Move)
    /\ \A p \in Plan : p \in PlanType

VARIABLES
    quant,      \* quantity and reserved_quantity of each quant
    move,       \* state; product_qty of the lines by lot (0: no quant); what went out; qty_done entered
    brought,    \* by group and lot: what the done original moves brought
    plan,       \* the plan of this behaviour
    batch,      \* the run of _action_assign: moves to do, assigned, partially available
    jobs,       \* by move: validation jobs in the queue
    overdrawn   \* history: the siblings of a move had taken more than was brought

svars == <<plan, quant, move, brought, batch, jobs, overdrawn>>

Demand == plan.demand
Group == plan.group
Bypass == plan.bypass
Import == plan.import

Quant == 1 .. Lots
Groups == {Group[m] : m \in Move} \ {NoGroup}
NoBatch == [open |-> FALSE, todo |-> {}, assigned |-> {}, partial |-> {}]
NoLines == [q \in 0 .. Lots |-> 0]

Plus(line, more) == [q \in DOMAIN line |-> line[q] + more[q]]

-----------------------------------------------------------------------------
(* Quants.                                                                 *)

\* Mutant: what is reserved counts as available.
Mutant_Free(q) == Pos(quant[q].qty)

\* _get_available_quantity of one lot.
Free(q) == Pos(quant[q].qty - quant[q].reserved)

\* _update_reserved_quantity over all quants, in their order.
TakenInOrder(n) ==
    [q \in 0 .. Lots |-> IF q = 0 THEN 0
                         ELSE Least(Free(q), Pos(n - Total([p \in 1 .. q-1 |-> Free(p)])))]

Reserve(more) == [q \in Quant |-> [quant[q] EXCEPT !.reserved = @ + more[q]]]

\* Mutant: lines are removed and their reservation stays.
Mutant_Unreserved(line) == quant

\* A removed line frees what it has on its quant, or what is reserved there if
\* that is less: whoever it was reserved for (the check is commented out). One
\* below 0 reserves, which fails if that is not free.
Unreserved(line) == [q \in Quant |-> [quant[q] EXCEPT !.reserved = @ - Least(@, line[q])]]

Removable(line) == \A q \in Quant : line[q] >= 0 \/ -line[q] <= Free(q)

-----------------------------------------------------------------------------
(* _action_assign.                                                         *)

Busy == batch.open

ActionAssign(moves) ==
    /\ ~Busy /\ moves # {}
    /\ batch' = [NoBatch EXCEPT !.open = TRUE,
                   !.todo = {m \in moves : move[m].state \in {"confirmed", "partially_available"}}]
    /\ UNCHANGED <<quant, move, brought, jobs, overdrawn>>

Need(m) == Demand[m] - Total(move[m].line)

\* Lines are added, and the states are noted for the end.
Assign(m, more, full, some) ==
    /\ quant' = Reserve(more)
    /\ move' = [move EXCEPT ![m].line = Plus(@, more), ![m].filled = @ /\ more = NoLines]
    /\ batch' = [batch EXCEPT !.todo = @ \ {m},
                              !.assigned = IF full THEN @ \cup {m} ELSE @,
                              !.partial = IF some /\ ~full THEN @ \cup {m} ELSE @]
    /\ UNCHANGED <<brought, jobs>>

AssignBypass(m) ==
    /\ m \in batch.todo \cap Bypass
    /\ Assign(m, [NoLines EXCEPT ![0] = Need(m)], TRUE, FALSE)
    /\ UNCHANGED overdrawn

\* Mutant: what was taken is compared with the demand.
Mutant_AssignFromStock(m) ==
    /\ m \in batch.todo \ Bypass /\ Group[m] = NoGroup /\ UNCHANGED overdrawn
    /\ LET more == TakenInOrder(Need(m))
       IN  Assign(m, more, Total(more) = Demand[m], Total(more) > 0)

AssignFromStock(m) ==
    /\ m \in batch.todo \ Bypass /\ Group[m] = NoGroup /\ UNCHANGED overdrawn
    /\ LET more == TakenInOrder(Need(m))
       IN  Assign(m, more, Total(more) = Need(m), Total(more) > 0)

Siblings(m) == {x \in Move \ {m} : Group[x] = Group[m]}

\* Siblings that have reserved, in the table or earlier in this run.
Reserving(m) == {x \in Siblings(m) : \/ move[x].state \in {"partially_available", "assigned"}
                                     \/ x \in batch.assigned \cup batch.partial}

\* What siblings took of a lot: what the reserved lines say replaces the sum
\* over the done ones (grouped_move_lines_out is written twice).
SiblingsTook(m, q) ==
    IF \E x \in Reserving(m) : move[x].line[q] # 0
    THEN Total([x \in Reserving(m) |-> move[x].line[q]])
    ELSE Total([x \in Siblings(m) |-> move[x].out[q]])

\* The lots that still have something of what was brought, less the move's own lines.
Share(m, q) == brought[Group[m]][q] - SiblingsTook(m, q) - move[m].line[q]
Shared(m) == {q \in Quant : brought[Group[m]][q] > 0 /\ brought[Group[m]][q] # SiblingsTook(m, q)}

\* Mutant: the need is not computed again for each lot.
Mutant_StillNeeded(m, sofar) == Need(m)

StillNeeded(m, sofar) == Need(m) - Total(sofar)

\* One lot of the loop, after what was taken of the lots before it. A share
\* below 0 is given back, out of what is reserved of the lot for anybody.
OneLot(m, q, sofar) ==
    LET taken == Least(StillNeeded(m, sofar.more), Least(Share(m, q), Free(q)))
        given == IF taken > 0 THEN taken ELSE -Least(quant[q].reserved, -taken)
    IN  IF sofar.done \/ q \notin Shared(m) \/ Free(q) = 0 \/ taken = 0 THEN sofar
        ELSE [more |-> [sofar.more EXCEPT ![q] = given],
              done |-> taken = StillNeeded(m, sofar.more), some |-> TRUE]

\* Lot by lot, until the need is met.
AssignChained(m) ==
    /\ m \in batch.todo \ Bypass /\ Group[m] # NoGroup
    /\ LET upto[q \in 0 .. Lots] ==
               IF q = 0 THEN [more |-> NoLines, done |-> FALSE, some |-> FALSE]
               ELSE OneLot(m, q, upto[q-1])
       IN  Assign(m, upto[Lots].more, upto[Lots].done, upto[Lots].some)
    /\ overdrawn' = (overdrawn \/ \E q \in Shared(m) : Share(m, q) < 0)

\* The end of the loop, or its break after three minutes.
EndAssign ==
    /\ Busy
    /\ move' = [m \in Move |-> IF m \in batch.assigned THEN [move[m] EXCEPT !.state = "assigned"]
                               ELSE IF m \in batch.partial THEN [move[m] EXCEPT !.state = "partially_available"]
                               ELSE move[m]]
    /\ batch' = NoBatch
    /\ UNCHANGED <<quant, brought, jobs, overdrawn>>

-----------------------------------------------------------------------------
(* Import, validation jobs.                                                *)

FileFits(m, serials) == Cardinality(serials) <= Demand[m]

\* input_file: the lines are replaced by one of 1 for each serial; creating
\* them reserves nothing, and nobody looks whether the serials are there.
InputFile(m, serials) ==
    /\ ~Busy /\ m \in Import /\ move[m].state # "done"
    /\ FileFits(m, serials) /\ Removable(move[m].line)
    /\ quant' = Unreserved(move[m].line)
    /\ move' = [move EXCEPT ![m].line = [q \in 0 .. Lots |-> IF q \in serials THEN 1 ELSE 0],
                            ![m].filled = TRUE, ![m].state = "assigned"]
    /\ UNCHANGED <<brought, batch, jobs, overdrawn>>

Delivered(m) ==
    /\ quant' = [q \in Quant |-> [Unreserved(move[m].line)[q] EXCEPT !.qty = @ - move[m].line[q]]]
    /\ move' = [move EXCEPT ![m].state = "done", ![m].out = Plus(@, move[m].line),
                            ![m].line = NoLines]

\* do_button_validate_job: no identity key, so a picking may have several jobs.
DoButtonValidateJob(m) ==
    /\ ~Busy /\ move[m].state \in {"partially_available", "assigned"} /\ jobs[m] < plan.maxJobs
    /\ jobs' = [jobs EXCEPT ![m] = @ + 1]
    /\ UNCHANGED <<quant, move, brought, batch, overdrawn>>

\* button_validate_job: button_validate returns a wizard, and the job is done
\* without it, unless all that is asked for has a qty_done.
ButtonValidateJob(m) ==
    /\ ~Busy /\ jobs[m] > 0
    /\ jobs' = [jobs EXCEPT ![m] = @ - 1]
    /\ IF move[m].state # "done" /\ move[m].filled /\ Need(m) = 0
       THEN Delivered(m) ELSE UNCHANGED <<quant, move>>
    /\ UNCHANGED <<brought, batch, overdrawn>>

-----------------------------------------------------------------------------
(* Odoo (external).                                                        *)

\* Quantities done are never below 0.
Deliverable(m) == \A q \in 0 .. Lots : move[m].line[q] >= 0

\* The user enters all quantities, or validates and goes through the wizards.
EnterDone(m) ==
    /\ ~Busy /\ move[m].state \in {"partially_available", "assigned"} /\ ~move[m].filled
    /\ Deliverable(m)
    /\ move' = [move EXCEPT ![m].filled = TRUE]
    /\ UNCHANGED <<quant, brought, batch, jobs, overdrawn>>

Validate(m) ==
    /\ ~Busy /\ move[m].state \in {"partially_available", "assigned"} /\ Total(move[m].line) > 0
    /\ Deliverable(m) /\ Delivered(m)
    /\ UNCHANGED <<brought, batch, jobs, overdrawn>>

DoUnreserve(m) ==
    /\ ~Busy /\ move[m].state \in {"partially_available", "assigned"} /\ Removable(move[m].line)
    /\ quant' = Unreserved(move[m].line)
    /\ move' = [move EXCEPT ![m].line = NoLines, ![m].filled = FALSE, ![m].state = "confirmed"]
    /\ UNCHANGED <<brought, batch, jobs, overdrawn>>

\* Stock that others bring or take, and what an original move of a group brings.
Recount(q, n) ==
    /\ ~Busy /\ quant[q].qty + n \in 0 .. plan.maxQty[q]
    /\ quant' = [quant EXCEPT ![q].qty = @ + n]
    /\ UNCHANGED <<move, brought, batch, jobs, overdrawn>>

OriginDone(g, q) ==
    /\ ~Busy /\ quant[q].qty < plan.maxQty[q] /\ brought[g][q] < plan.maxQty[q]
    /\ quant' = [quant EXCEPT ![q].qty = @ + 1]
    /\ brought' = [brought EXCEPT ![g][q] = @ + 1]
    /\ UNCHANGED <<move, batch, jobs, overdrawn>>

-----------------------------------------------------------------------------
ReservationInit ==
    /\ plan \in Plan
    /\ quant = [q \in Quant |-> [qty |-> 0, reserved |-> 0]]
    /\ move = [m \in Move |-> [state |-> "confirmed", line |-> NoLines, out |-> NoLines, filled |-> FALSE]]
    /\ brought = [g \in Groups |-> [q \in Quant |-> 0]]
    /\ batch = NoBatch
    /\ jobs = [m \in Move |-> 0]
    /\ overdrawn = FALSE

Assigning == \/ \E moves \in SUBSET Move : ActionAssign(moves)
             \/ \E m \in Move : AssignBypass(m) \/ AssignFromStock(m) \/ AssignChained(m)
             \/ EndAssign

Users(m) == \/ Validate(m) \/ DoUnreserve(m) \/ EnterDone(m)
            \/ DoButtonValidateJob(m) \/ ButtonValidateJob(m)
            \/ \E serials \in SUBSET Quant : InputFile(m, serials)

ReservationNext ==
    /\ UNCHANGED plan
    /\ \/ Assigning
       \/ \E m \in Move : Users(m)
       \/ \E q \in Quant : Recount(q, 1) \/ Recount(q, -1) \/ \E g \in Groups : OriginDone(g, q)

ReservationSpec == ReservationInit /\ [][ReservationNext]_svars

-----------------------------------------------------------------------------
ReservationTypeOK ==
    /\ quant \in [Quant -> [qty : Int, reserved : Nat]]
    /\ \A m \in Move : /\ move[m].state \in {"confirmed", "partially_available", "assigned", "done"}
                       /\ move[m].line \in [0 .. Lots -> Nat] /\ move[m].out \in [0 .. Lots -> Nat]
    /\ batch.assigned \cap batch.partial = {} /\ (~Busy => batch = NoBatch)

OnLines(q) == Total([m \in Move |-> move[m].line[q]])

\* What a quant has reserved is what the lines of the moves say, whatever is
\* assigned, cut short, delivered, given back or counted anew, in any order.
\* Imports of serial numbers may take away what is reserved for others, but
\* they leave no reservation without a line.
ReservationsBacked ==
    \A q \in Quant : /\ Import = {} => quant[q].reserved = OnLines(q)
                     /\ quant[q].reserved \in 0 .. OnLines(q)

\* The invariant of the stock: its types, and a line behind every reservation,
\* unless siblings took more than was brought: then the next of them gives back
\* what is reserved, and its lines may go below 0.
ReservationInv == overdrawn \/ (ReservationTypeOK /\ ReservationsBacked)

\* "A stock move is considered reserved once the sum of `product_qty` for all
\* its move lines is equal to its `product_qty`. If it is less, the stock move is
\* considered partially available" (_action_assign), also when the loop broke off
\* (when nobody imports serial numbers, and until siblings take too much: a move
\* that gives back counts as partially available, whatever is left to it).
StateAgrees ==
    ~Busy /\ Import = {} /\ ~overdrawn =>
        \A m \in Move : CASE move[m].state = "assigned" -> Need(m) = 0
                          [] move[m].state = "partially_available" -> Need(m) \in 1 .. Demand[m] - 1
                          [] move[m].state = "confirmed" -> Need(m) = Demand[m]
                          [] move[m].state = "done" -> Total(move[m].line) = 0

\* No move reserves or delivers more than it asks for, however often it is
\* assigned in parts from several lots, filled from a file or validated by jobs
\* (until siblings take too much).
NoMoreThanDemand ==
    overdrawn \/ \A m \in Move : Total(move[m].line) + Total(move[m].out) <= Demand[m]

Ledger == INSTANCE StockLedger WITH
    Place <- Quant,
    held <- [q \in Quant |-> quant[q].qty],
    claimed <- [m \in Move |-> [q \in Quant |-> move[m].line[q]]]

\* Reservation keeps the ledger: what the quants count as reserved is enough to
\* never claim a piece twice (when nobody imports serial numbers, and until a
\* move gives back a part because its siblings took too much).
ImplementsLedger ==
    /\ Ledger!LedgerInit
    /\ [][Import # {} \/ overdrawn' \/ Ledger!LedgerNext]_<<quant, move>>
=============================================================================
