---------------------------- MODULE StockReports ----------------------------
(***************************************************************************)
(* Two reports that reconstruct the stock of a product at a location from  *)
(* its moves: the aging report (both of its forms, pdf and xlsx, compute   *)
(* the same) and the average cost report.  The reference is the stock of   *)
(* the location, the company's only one, and Odoo's valuation of a product *)
(* that is costed first in, first out, whatever the lot.                   *)
(*                                                                         *)
(* Moves happen during a day, one line each; the end date of the aging     *)
(* report is the midnight at which its day begins, and may be in the past. *)
(***************************************************************************)
EXTENDS Totals, FiniteSets, Sequences

CONSTANTS
    Lots,           \* the lots of the product (one: no tracking), in the order of their quants
    Price,          \* unit prices
    Period, Oldest,   \* period_length, the last bucket (6)
    Ahead,          \* the end dates asked for, in days from today
    MaxMoves, MaxOpen, MaxQty, MaxDay   \* bounds: moves, those entered and not done, ...

ASSUME ReportsAssumption ==
    /\ Lots \in Seq({Lots[k] : k \in DOMAIN Lots})
    /\ \A k, n \in DOMAIN Lots : Lots[k] = Lots[n] => k = n
    /\ Price \subseteq Nat \ {0} /\ Period \in Nat \ {0} /\ Oldest \in Nat
    /\ Ahead \subseteq Int /\ MaxMoves \in Nat /\ MaxOpen \in Nat /\ MaxQty \in Nat /\ MaxDay \in Nat

VARIABLES
    lines,  \* the move lines with a qty_done, done or not, by id
    hist,   \* the done ones, in the order in which they were done
    pieces, \* the days on which what is there of each lot came, oldest first
    left,   \* the prices of what is there, in the order in which it came (remaining_qty)
    since,  \* in_date of each lot's quant
    today

pvars == <<lines, hist, pieces, left, since, today>>

Lot == {Lots[k] : k \in DOMAIN Lots}
Bucket == 0 .. Oldest
Ends == {today + days : days \in Ahead}

Worth(prices) == Total(prices)

-----------------------------------------------------------------------------
(* Stock aging.                                                            *)

\* Mutant: the periods are counted from one.
Mutant_Key(end, day) == Least(Pos(end - day - 1) \div Period + 1, Oldest)

\* (end_date - move.date).days, by periods.
Key(end, day) == Least(Pos(end - day - 1) \div Period, Oldest)

In(end, buckets, m) == [buckets EXCEPT ![Key(end, m.day)] = @ + m.qty]

\* What is left for a bucket to give when the older ones are empty.
Missing(buckets, m, i) == Pos(m.qty - Total([k \in i+1 .. Oldest |-> buckets[k]]))

\* Mutant: a bucket gives what it does not have.
Mutant_Out(buckets, m) == [i \in Bucket |-> buckets[i] - Missing(buckets, m, i)]

\* From the oldest bucket down; what no bucket has is dropped.
Out(buckets, m) ==
    [i \in Bucket |-> buckets[i] - Least(buckets[i], Missing(buckets, m, i))]

Counted(end, buckets, m) == IF m.kind = "in" THEN In(end, buckets, m) ELSE Out(buckets, m)

\* The lines of a lot, those after the end date and those not done too, on top
\* of what is in the buckets.
CountedLot(end, buckets, l) ==
    LET after[n \in 0 .. Len(lines)] ==
            IF n = 0 THEN buckets
            ELSE IF lines[n].lot = l THEN Counted(end, after[n-1], lines[n]) ELSE after[n-1]
    IN  after[Len(lines)]

\* The lots whose quant was there before the end date.
Quants(end) == {l \in Lot : pieces[l] # <<>> /\ since[l] < end}

Empty == [i \in Bucket |-> 0]

\* Lot by lot, all in the same buckets.
Aging(end) ==
    LET after[n \in 0 .. Len(Lots)] ==
            IF n = 0 THEN Empty
            ELSE IF Lots[n] \in Quants(end) THEN CountedLot(end, after[n-1], Lots[n]) ELSE after[n-1]
    IN  after[Len(Lots)]

-----------------------------------------------------------------------------
(* Average cost.                                                           *)

\* Without date_to.
Moved(kind, column) ==
    Total([i \in {k \in DOMAIN hist : hist[k].kind = kind} |-> hist[i][column]])

OnHand == Moved("in", "qty") - Moved("out", "qty")

\* Mutant: the values of outgoing moves are subtracted, though they are negative.
Mutant_StockValue == Moved("in", "value") - Moved("out", "value")

\* product_average_cost is this divided by OnHand.
StockValue == Moved("in", "value") + Moved("out", "value")

-----------------------------------------------------------------------------
(* Stock moves (external).                                                 *)

Line(kind, l, n, value, done) ==
    [kind |-> kind, lot |-> l, qty |-> n, value |-> value, day |-> today, done |-> done]

\* A quantity is entered, or imported, before the move is done.
Enter(kind, l, n) ==
    /\ Len(lines) < MaxMoves /\ Cardinality({k \in DOMAIN lines : ~lines[k].done}) < MaxOpen
    /\ lines' = Append(lines, Line(kind, l, n, 0, FALSE))
    /\ UNCHANGED <<hist, pieces, left, since, today>>

Entered(line, kind, l, n) == ~line.done /\ line.kind = kind /\ line.lot = l /\ line.qty = n

\* A move is done, with a line of its own or one that was entered; its date is now.
Done(kind, l, n, value) ==
    LET line == Line(kind, l, n, value, TRUE) IN
    /\ hist' = Append(hist, line)
    /\ \/ Len(lines) < MaxMoves /\ lines' = Append(lines, line)
       \/ \E k \in DOMAIN lines : Entered(lines[k], kind, l, n) /\ lines' = [lines EXCEPT ![k] = line]
    /\ UNCHANGED today

Receive(l, n, price) ==
    /\ Done("in", l, n, n * price)
    /\ pieces' = [pieces EXCEPT ![l] = @ \o [i \in 1 .. n |-> today]]
    /\ left' = left \o [i \in 1 .. n |-> price]
    /\ since' = [since EXCEPT ![l] = IF pieces[l] = <<>> THEN today ELSE @]

\* The oldest pieces of the lot leave, at the cost of the oldest of the product.
Ship(l, n) ==
    /\ n <= Len(pieces[l])
    /\ Done("out", l, n, 0 - Worth(SubSeq(left, 1, n)))
    /\ pieces' = [pieces EXCEPT ![l] = SubSeq(@, n + 1, Len(@))]
    /\ left' = SubSeq(left, n + 1, Len(left))
    /\ UNCHANGED since

Tomorrow ==
    /\ today < MaxDay
    /\ today' = today + 1
    /\ UNCHANGED <<lines, hist, pieces, left, since>>

ReportsInit ==
    /\ lines = <<>> /\ hist = <<>> /\ left = <<>> /\ today = 0
    /\ pieces = [l \in Lot |-> <<>>]
    /\ since = [l \in Lot |-> 0]

ReportsNext ==
    \/ Tomorrow
    \/ \E l \in Lot, n \in 1 .. MaxQty :
         \/ \E kind \in {"in", "out"} : Enter(kind, l, n)
         \/ Ship(l, n)
         \/ \E price \in Price : Receive(l, n, price)

ReportsSpec == ReportsInit /\ [][ReportsNext]_pvars

-----------------------------------------------------------------------------
ReportsTypeOK ==
    /\ \A end \in Ends : Aging(end) \in [Bucket -> Nat]
    /\ OnHand \in Nat /\ StockValue \in Int
    /\ \A i \in DOMAIN lines : lines[i].day \in 0 .. today /\ lines[i].qty \in 1 .. MaxQty

\* How old a piece is at the end date, in full days: what comes after it is new.
Age(end, day) == Pos(end - day - 1)
InColumn(age, i) == i * Period <= age /\ (i = Oldest \/ age < (i+1) * Period)

HeldOf(end, l, i) == {k \in DOMAIN pieces[l] : InColumn(Age(end, pieces[l][k]), i)}
Held(end, i) == Total([l \in Quants(end) |-> Cardinality(HeldOf(end, l, i))])

\* Nothing is entered and not done, and the lines were done in the order of their ids.
InOrderOfIds == lines = hist

\* The columns "0-30", "30-60", ... "> 180" of the report are the ages at the end
\* date of what is there now of the lots that were there before it: rebuilt from
\* the lines, for any order of receipts and deliveries of any size, on any day
\* before or after the end date, with the oldest pieces leaving first.  While one
\* such lot is in stock, and no line is counted before it is done or ahead of an
\* earlier one.
AgesOfStock ==
    \A end \in Ends :
        InOrderOfIds /\ Cardinality(Quants(end)) <= 1
        => Aging(end) = [i \in Bucket |-> Held(end, i)]

\* The total of the columns is what is there of the lots that were there before
\* the end date, however many: what leaves one lot may be taken from a bucket
\* that another has filled (Aging keeps one set of buckets), but it is taken once,
\* and none of it is dropped.  While no line is counted before it is done or ahead
\* of an earlier one.
AgesAddUp ==
    InOrderOfIds =>
        \A end \in Ends : Total(Aging(end)) = Total([l \in Quants(end) |-> Len(pieces[l])])

\* "Quantity On Hand" and "AVCO(unit)": whatever lots the deliveries took, the
\* moves add up to the pieces that are there, and their values to the layers of
\* receipts that are left of the product, as many as the pieces.
CostOfStock ==
    /\ OnHand = Total([l \in Lot |-> Len(pieces[l])]) /\ OnHand = Len(left)
    /\ StockValue = Worth(left)

\* The invariant of the history: its types, and quantities and costs that agree.
ReportsInv == ReportsTypeOK /\ CostOfStock
=============================================================================
