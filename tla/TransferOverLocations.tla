----------------------- MODULE TransferOverLocations -----------------------
(***************************************************************************)
(* fifo_return_and_transfer: goods go from one internal location to        *)
(* another by two pickings, a return to the vendor with negative value and *)
(* a receipt with the same value, so that they keep the cost they came     *)
(* with.  A record goes draft, available, confirmed, transferred; every    *)
(* button is a transaction of its own.                                     *)
(*                                                                         *)
(* One product without tracking and one with serial numbers; a line with   *)
(* lot tracking is refused by the check.  What else moves stock is Odoo's  *)
(* (external): other deliveries and receipts, at any time.                 *)
(***************************************************************************)
EXTENDS Totals, FiniteSets, Sequences

CONSTANTS
    Rec,                \* records of transfer.over.locations
    Loc, From, To,      \* internal locations; source and destination of each record
    Qty, Serials,       \* quantities of a record's line without tracking and with serials (0: no line)
    Lot,                \* serial numbers
    Price,              \* unit prices of what comes in
    MaxOthers,          \* bound: moves of others
    MaxListed,          \* bound: lines of a record with the same serial
    MaxReturns          \* bounds: returns of each record

ASSUME TransferAssumption ==
    /\ From \in [Rec -> Loc] /\ To \in [Rec -> Loc] /\ \A r \in Rec : From[r] # To[r]
    /\ Qty \in [Rec -> Nat] /\ Serials \in [Rec -> Nat] /\ \A r \in Rec : Qty[r] + Serials[r] > 0
    /\ IsFiniteSet(Lot) /\ Price \subseteq Nat \ {0} /\ MaxOthers \in Nat
    /\ MaxListed \in Nat /\ MaxReturns \in [Rec -> Nat]

VARIABLES
    rec,    \* state, how often each serial is listed, the price of each one's origin_move_id
    stock,  \* by location: pieces without tracking, serials (Odoo lets both go below 0)
    came,   \* by location: price of the earliest done move (0: none); prices each serial came with
    moved,  \* by record: its return and final pickings so far
    \* For the properties only, by record: whether the serials were edited since
    \* the last check and since the last return; how often a check set it back
    \* from confirmed.
    edited, setBack,
    others  \* moves of others so far

tvars == <<rec, stock, came, moved, edited, setBack, others>>

TransferState == {"draft", "available", "confirmed", "transferred"}
Nothing == [l \in Lot |-> 0]


-----------------------------------------------------------------------------
(* The goods of a record.                                                  *)

\* Mutant: the origin is looked for in every location.
Mutant_Origins(r, l) == UNION {came[loc].lot[l] : loc \in Loc}

\* update_transfer_relation_vals: any one of the done moves that brought the
\* serial to the source; without one the origin stays as it is.
Origins(r, l) == came[From[r]].lot[l]

Listed(r) == {l \in Lot : rec[r].lots[l] > 0}

\* Line by line: a serial that is listed twice is found twice.
Available(r) ==
    /\ stock[From[r]].qty >= Qty[r]
    /\ Serials[r] > 0 => /\ Total(rec[r].lots) = Serials[r]
                         /\ \A l \in Listed(r) : stock[From[r]].lot[l] >= 1

\* _prepare_stock_moves: the first move's price for what has no tracking, the
\* price of its origin for each serial, and 0 for the serials without one.
Worth(r) == came[From[r]].first * Qty[r] + Total([l \in Lot |-> rec[r].lots[l] * rec[r].origin[l]])

Picking(r, sign) == [qty |-> Qty[r], lots |-> rec[r].lots, value |-> sign * Worth(r)]

Shifted(s, r, n) ==
    [qty |-> s.qty + n * Qty[r],
     lot |-> [l \in Lot |-> s.lot[l] + n * rec[r].lots[l]]]

\* _prepare_stock_moves refuses a line that has lost its serials.
Prepared(r) == Serials[r] > 0 => Listed(r) # {}

-----------------------------------------------------------------------------
(* The record.                                                             *)

\* What the origins of the lines can be when the serials have been edited: a new
\* line has none, an old one keeps its own, also when it gets another serial.
KeptOrigins(r, lots) ==
    {origin \in [Lot -> {0} \cup {rec[r].origin[l] : l \in Listed(r)}] :
        \A l \in Lot : lots[l] = 0 => origin[l] = 0}

\* input_file replaces the lot lines; the dialog adds, changes and removes them.
\* Neither looks at the state of the record.
EditSerials(r, lots) ==
    /\ Serials[r] > 0
    /\ \E origin \in KeptOrigins(r, lots) :
         rec' = [rec EXCEPT ![r].lots = lots, ![r].origin = origin]
    /\ edited' = [edited EXCEPT ![r] = {"check", "return"}]
    /\ UNCHANGED <<stock, came, moved, setBack>>

\* Nor does the check: the button is hidden after draft, but a form may be stale.
CheckAvailableMoves(r) ==
    /\ Available(r)
    /\ \E origin \in [Lot -> Price \cup {0}] :
         /\ \A l \in Lot : IF l \in Listed(r) /\ Origins(r, l) # {} THEN origin[l] \in Origins(r, l)
                           ELSE origin[l] = rec[r].origin[l]
         /\ rec' = [rec EXCEPT ![r].state = "available", ![r].origin = origin]
    /\ edited' = [edited EXCEPT ![r] = @ \ {"check"}]
    /\ setBack' = [setBack EXCEPT ![r] = IF rec[r].state = "confirmed" THEN @ + 1 ELSE @]
    /\ UNCHANGED <<stock, came, moved>>

\* Mutant: the sign of is_return is lost.
Mutant_CreateReturnPicking(r) ==
    /\ Prepared(r) /\ Len(moved[r].returned) < MaxReturns[r]
    /\ stock' = [stock EXCEPT ![From[r]] = Shifted(@, r, -1)]
    /\ moved' = [moved EXCEPT ![r].returned = Append(@, Picking(r, 1))]
    /\ UNCHANGED came

\* The picking is done whatever _action_assign could reserve.
CreateReturnPicking(r) ==
    /\ Prepared(r) /\ Len(moved[r].returned) < MaxReturns[r]
    /\ stock' = [stock EXCEPT ![From[r]] = Shifted(@, r, -1)]
    /\ moved' = [moved EXCEPT ![r].returned = Append(@, Picking(r, -1))]
    /\ UNCHANGED came

ActionConfirm(r) ==
    /\ rec[r].state = "available"
    /\ CreateReturnPicking(r)
    /\ rec' = [rec EXCEPT ![r].state = "confirmed"]
    /\ edited' = [edited EXCEPT ![r] = @ \ {"return"}]
    /\ UNCHANGED setBack

UnitPrice(r) == came[From[r]].first

\* Odoo refuses a serial that is in the location already, or comes twice.
CreateFinalTransferPicking(r) ==
    /\ Prepared(r)
    /\ \A l \in Listed(r) : stock[To[r]].lot[l] + rec[r].lots[l] <= 1
    /\ stock' = [stock EXCEPT ![To[r]] = Shifted(@, r, 1)]
    /\ moved' = [moved EXCEPT ![r].received = Append(@, Picking(r, 1))]
    /\ came' = [came EXCEPT
          ![To[r]].first = IF Qty[r] > 0 /\ @ = 0 THEN UnitPrice(r) ELSE @,
          ![To[r]].lot = [l \in Lot |-> IF l \in Listed(r) THEN @[l] \cup {rec[r].origin[l]} ELSE @[l]]]

\* For whatever records it is called, the loop returns after the first one that
\* is confirmed (any of them may be first): the others are left as they are.
DoTransfer(rs) ==
    /\ \E r \in rs :
         /\ rec[r].state = "confirmed"
         /\ CreateFinalTransferPicking(r)
         /\ rec' = [rec EXCEPT ![r].state = "transferred"]
    /\ UNCHANGED <<edited, setBack>>

-----------------------------------------------------------------------------
(* Other stock moves (external).                                           *)

Bring(loc, price) ==
    /\ stock' = [stock EXCEPT ![loc].qty = @ + 1]
    /\ came' = [came EXCEPT ![loc].first = IF @ = 0 THEN price ELSE @]
    /\ UNCHANGED <<rec, moved, edited, setBack>>

BringSerial(loc, l, price) ==
    /\ \A x \in Loc : stock[x].lot[l] = 0
    /\ stock' = [stock EXCEPT ![loc].lot[l] = 1]
    /\ came' = [came EXCEPT ![loc].lot[l] = @ \cup {price}]
    /\ UNCHANGED <<rec, moved, edited, setBack>>

Ship(loc) ==
    /\ stock[loc].qty > 0
    /\ stock' = [stock EXCEPT ![loc].qty = @ - 1]
    /\ UNCHANGED <<rec, came, moved, edited, setBack>>

ShipSerial(loc, l) ==
    /\ stock[loc].lot[l] > 0
    /\ stock' = [stock EXCEPT ![loc].lot[l] = @ - 1]
    /\ UNCHANGED <<rec, came, moved, edited, setBack>>

-----------------------------------------------------------------------------
TransferInit ==
    /\ rec = [r \in Rec |-> [state |-> "draft", lots |-> Nothing, origin |-> Nothing]]
    /\ stock = [loc \in Loc |-> [qty |-> 0, lot |-> [l \in Lot |-> 0]]]
    /\ came = [loc \in Loc |-> [first |-> 0, lot |-> [l \in Lot |-> {}]]]
    /\ moved = [r \in Rec |-> [returned |-> <<>>, received |-> <<>>]]
    /\ edited = [r \in Rec |-> {}] /\ setBack = [r \in Rec |-> 0] /\ others = 0

Buttons(r) ==
    \/ CheckAvailableMoves(r) \/ ActionConfirm(r)
    \/ \E lots \in [Lot -> 0 .. MaxListed] : EditSerials(r, lots)

Others(loc) ==
    /\ others < MaxOthers /\ others' = others + 1
    /\ \/ Ship(loc) \/ \E price \in Price : Bring(loc, price)
       \/ \E l \in Lot : ShipSerial(loc, l) \/ \E price \in Price : BringSerial(loc, l, price)

TransferNext ==
    \/ /\ (\E r \in Rec : Buttons(r)) \/ (\E rs \in SUBSET Rec : DoTransfer(rs))
       /\ UNCHANGED others
    \/ \E loc \in Loc : Others(loc)

TransferSpec == TransferInit /\ [][TransferNext]_tvars

-----------------------------------------------------------------------------
TransferTypeOK ==
    /\ \A r \in Rec : /\ rec[r].state \in TransferState /\ rec[r].lots \in [Lot -> 0 .. MaxListed]
                      /\ rec[r].origin \in [Lot -> Price \cup {0}]
                      /\ edited[r] \subseteq {"check", "return"} /\ setBack[r] \in Nat
    /\ \A loc \in Loc : /\ stock[loc].qty \in Int /\ stock[loc].lot \in [Lot -> Int]
                        /\ came[loc].first \in Price \cup {0}
                        /\ came[loc].lot \in [Lot -> SUBSET (Price \cup {0})]

Mirror(picking) == [picking EXCEPT !.value = 0 - @]

\* "Return Products And Receive In New Location" (__manifest__.py).  Goods are
\* on their way once: each return of a record is received once, except those of
\* a confirmed record that a check has set back.  And what is received is what
\* was returned, with the opposite value, whatever else moves or changes price
\* in between, unless the serials were edited in between.
ReceivedAsReturned ==
    \A r \in Rec :
        LET out == moved[r].returned
            in == moved[r].received
        IN  /\ Len(out) = Len(in) + setBack[r] + (IF rec[r].state = "confirmed" THEN 1 ELSE 0)
            /\ rec[r].state = "transferred" /\ "return" \notin edited[r]
                 => in[Len(in)] = Mirror(out[Len(out)])

\* Unless its serials were edited after the check, a record returns each of
\* them with a price at which it came to the location it leaves (the one price,
\* when it came there once), not with one it had elsewhere or with none.
ReturnedAtItsCost ==
    [][\A r \in Rec : moved'[r].returned # moved[r].returned /\ "check" \notin edited[r]
         => \A l \in Listed(r) : rec[r].origin[l] \in came[From[r]].lot[l]]_tvars

\* The invariant of the transfer: the types, and what was returned received.
TransferInv == TransferTypeOK /\ ReceivedAsReturned
=============================================================================
