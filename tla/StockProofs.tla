----------------------------- MODULE StockProofs -----------------------------
(***************************************************************************)
(* What the stock modules keep, proved for every set of records, moves,    *)
(* quants, quantities and prices: first the transfer over locations, then  *)
(* the reservation of stock.  The two share no state; they share the facts *)
(* about totals.                                                           *)
(*                                                                         *)
(* CostInv says where the prices of a transfer are: what is at a location  *)
(* came there at a price, and a checked record has found the prices of     *)
(* what it returns, which is why both its pickings carry the same value.   *)
(*                                                                         *)
(* StockInv ties the lines of the moves to the quants they reserve, and    *)
(* the state of a move to its lines, also while _action_assign runs and    *)
(* has sorted only some of its moves.                                      *)
(***************************************************************************)
EXTENDS TransferOverLocations, Reservation, TotalsProofs

\* ---------------------------------------------------------------------------
\* Transfer over locations
\* ---------------------------------------------------------------------------

Cost == Price \cup {0}

PickingType == [qty : Nat, lots : [Lot -> 0 .. MaxListed], value : Int]

RecordTypes == rec \in [Rec -> [state : TransferState, lots : [Lot -> 0 .. MaxListed],
                                origin : [Lot -> Cost]]]
GoodsTypes == stock \in [Loc -> [qty : Int, lot : [Lot -> Int]]]
PriceTypes == came \in [Loc -> [first : Cost, lot : [Lot -> SUBSET Cost]]]
MovedTypes == moved \in [Rec -> [returned : Seq(PickingType), received : Seq(PickingType)]]

EditedTypes == edited \in [Rec -> SUBSET {"check", "return"}] /\ setBack \in [Rec -> Nat]

TransferTypes == RecordTypes /\ GoodsTypes /\ PriceTypes /\ MovedTypes /\ EditedTypes

\* What is at a location came there, at a price.
Priced(loc) ==
    /\ stock[loc].qty > 0 => came[loc].first # 0
    /\ \A l \in Lot : stock[loc].lot[l] > 0 => came[loc].lot[l] # {}

\* A checked record has found its prices where its goods are.
Checked(r) ==
    /\ rec[r].state # "draft" /\ Qty[r] > 0 => came[From[r]].first # 0
    /\ "check" \notin edited[r] => \A l \in Listed(r) : rec[r].origin[l] \in came[From[r]].lot[l]

\* Both pickings are made from what the record says in their turn; as long as
\* its serials are not edited, that is what it says now.
Pickings(r) ==
    /\ Serials[r] = 0 => Listed(r) = {}
    /\ Len(moved[r].returned) = Len(moved[r].received) + setBack[r]
                               + (IF rec[r].state = "confirmed" THEN 1 ELSE 0)
    /\ rec[r].state \in {"confirmed", "transferred"} /\ "return" \notin edited[r]
         => moved[r].returned[Len(moved[r].returned)] = Picking(r, -1)
    /\ rec[r].state = "transferred" /\ "return" \notin edited[r]
         => moved[r].received[Len(moved[r].received)] = Picking(r, 1)

CostInv ==
    /\ TransferTypes
    /\ \A loc \in Loc : Priced(loc)
    /\ \A r \in Rec : Checked(r) /\ Pickings(r)

-----------------------------------------------------------------------------
(* Records that a step leaves alone.                                       *)

\* A price once known is kept, and no price is forgotten.
PricesKept ==
    \A loc \in Loc : /\ came[loc].first # 0 => came'[loc].first = came[loc].first
                     /\ \A l \in Lot : came[loc].lot[l] \subseteq came'[loc].lot[l]

\* What the assumptions say of one record and of prices.
LEMMA TransferFacts ==
    /\ Cost \in SUBSET Nat /\ 0 \in Cost /\ Price \in SUBSET Cost /\ 0 \notin Price
    /\ \A c \in Cost : c # 0 => c \in Price
    /\ MaxListed \in Nat /\ IsFiniteSet(Lot)
    /\ \A r \in Rec : /\ From[r] \in Loc /\ To[r] \in Loc /\ From[r] # To[r]
                      /\ Qty[r] \in Nat /\ Serials[r] \in Nat
  BY TransferAssumption DEF TransferAssumption, Cost

\* The worth of a record's goods is a number.
LEMMA WorthType ==
    ASSUME TransferTypes, NEW r \in Rec
    PROVE  Worth(r) \in Nat
  <1> DEFINE each == [l \in Lot |-> rec[r].lots[l] * rec[r].origin[l]]
  <1>1. each \in [Lot -> Nat]
    <2>1. rec[r].lots \in [Lot -> 0 .. MaxListed] /\ rec[r].origin \in [Lot -> Cost]
      BY DEF TransferTypes, RecordTypes
    <2>2. ASSUME NEW l \in Lot PROVE rec[r].lots[l] \in Nat /\ rec[r].origin[l] \in Nat
      <3>1. rec[r].lots[l] \in 0 .. MaxListed /\ rec[r].origin[l] \in Cost
        BY <2>1
      <3>2. rec[r].lots[l] \in Nat
        BY <3>1, TransferFacts
      <3>3. rec[r].origin[l] \in Nat
        BY <3>1, TransferFacts
      <3> QED BY <3>2, <3>3
    <2> QED BY <2>2
  <1>2. Total(each) \in Nat
    <2> HIDE DEF each
    <2> QED BY <1>1, TotalType, TransferFacts
  <1>3. came[From[r]].first \in Nat /\ Qty[r] \in Nat
    BY TransferFacts DEF TransferTypes, RecordTypes, PriceTypes
  <1>4. came[From[r]].first * Qty[r] \in Nat
    BY <1>3
  <1> HIDE DEF each
  <1>5. Worth(r) = came[From[r]].first * Qty[r] + Total(each)
    BY DEF Worth, each
  <1> QED BY <1>2, <1>4, <1>5

\* A checked record is worth what it was: its prices are fixed.
LEMMA WorthKept ==
    ASSUME TransferTypes, PricesKept, NEW r \in Rec, Checked(r), rec[r].state # "draft",
           rec'[r].lots = rec[r].lots, rec'[r].origin = rec[r].origin,
           came'[From[r]].first \in Nat
    PROVE  Worth(r)' = Worth(r)
  <1>1. From[r] \in Loc /\ Qty[r] \in Nat /\ came[From[r]].first \in Nat
    BY TransferFacts DEF TransferTypes, RecordTypes, PriceTypes
  <1>2. came'[From[r]].first * Qty[r] = came[From[r]].first * Qty[r]
    <2>1. CASE Qty[r] > 0
      BY <1>1, <2>1 DEF Checked, PricesKept
    <2>2. CASE Qty[r] = 0
      BY <1>1, <2>2
    <2> QED BY <1>1, <2>1, <2>2
  <1> QED BY <1>2 DEF Worth

\* A record that the step does not touch stays checked, and its pickings right.
LEMMA RecordKept ==
    ASSUME TransferTypes, TransferTypes', PricesKept, NEW r \in Rec, Checked(r), Pickings(r),
           rec'[r] = rec[r], moved'[r] = moved[r],
           edited'[r] = edited[r], setBack'[r] = setBack[r]
    PROVE  Checked(r)' /\ Pickings(r)'
  <1>1. From[r] \in Loc /\ Listed(r)' = Listed(r) /\ Listed(r) \subseteq Lot
    BY TransferFacts DEF Listed
  <1>2. Checked(r)'
    BY <1>1 DEF Checked, PricesKept
  <1>3. CASE rec[r].state = "draft"
    BY <1>1, <1>2, <1>3 DEF Pickings
  <1>4. CASE rec[r].state # "draft"
    <2>1. came'[From[r]].first \in Nat
      BY <1>1, TransferFacts DEF TransferTypes, RecordTypes, PriceTypes
    <2>2. Worth(r)' = Worth(r)
      BY <2>1, <1>4, WorthKept
    <2>3. Picking(r, -1)' = Picking(r, -1) /\ Picking(r, 1)' = Picking(r, 1)
      BY <2>2 DEF Picking
    <2> QED BY <1>1, <1>2, <2>3 DEF Pickings
  <1> QED BY <1>3, <1>4

-----------------------------------------------------------------------------
(* Moves of others.                                                        *)

\* Whatever others bring or ship, the records keep their prices.
LEMMA OthersKeep ==
    ASSUME CostInv, NEW loc \in Loc, Others(loc)
    PROVE  CostInv'
  <1> USE TransferFacts
  <1> SUFFICES /\ TransferTypes'
               /\ \A x \in Loc : Priced(x)'
               /\ PricesKept
               /\ rec' = rec /\ moved' = moved /\ edited' = edited /\ setBack' = setBack
    BY RecordKept DEF CostInv
  <1>1. CASE Ship(loc)
    <2>1. /\ stock' = [stock EXCEPT ![loc].qty = @ - 1] /\ rec' = rec /\ came' = came
          /\ moved' = moved /\ edited' = edited /\ setBack' = setBack
      BY <1>1 DEF Ship
    <2>2. GoodsTypes /\ GoodsTypes'
      BY <2>1 DEF CostInv, TransferTypes, GoodsTypes
    <2>3. TransferTypes' /\ PricesKept
      BY <2>1, <2>2 DEF CostInv, TransferTypes, RecordTypes, PriceTypes, MovedTypes, EditedTypes, PricesKept
    <2>4. ASSUME NEW x \in Loc PROVE Priced(x)'
      <3>1. stock'[x].qty <= stock[x].qty /\ stock'[x].lot = stock[x].lot
        BY <2>1, <2>2 DEF GoodsTypes
      <3>2. stock'[x].qty \in Int /\ stock[x].qty \in Int
        BY <2>2 DEF GoodsTypes
      <3> QED BY <3>1, <3>2, <2>1 DEF CostInv, Priced
    <2> QED BY <2>1, <2>3, <2>4
  <1>2. ASSUME NEW price \in Price, Bring(loc, price)
        PROVE  TransferTypes' /\ (\A x \in Loc : Priced(x)') /\ PricesKept /\ rec' = rec
               /\ moved' = moved /\ edited' = edited /\ setBack' = setBack
    <2>1. /\ stock' = [stock EXCEPT ![loc].qty = @ + 1]
          /\ came' = [came EXCEPT ![loc].first = IF @ = 0 THEN price ELSE @]
          /\ rec' = rec /\ moved' = moved /\ edited' = edited /\ setBack' = setBack
      BY <1>2 DEF Bring
    <2>2. GoodsTypes /\ GoodsTypes'
      BY <2>1 DEF CostInv, TransferTypes, GoodsTypes
    <2>3. PriceTypes /\ PriceTypes'
      BY <2>1 DEF CostInv, TransferTypes, PriceTypes
    <2>4. TransferTypes'
      BY <2>1, <2>2, <2>3 DEF CostInv, TransferTypes, RecordTypes, MovedTypes, EditedTypes
    <2>5. /\ \A x \in Loc : stock'[x].lot = stock[x].lot
          /\ \A x \in Loc \ {loc} : stock'[x] = stock[x]
      BY <2>1, <2>2 DEF GoodsTypes
    <2>6. /\ \A x \in Loc : came'[x].lot = came[x].lot
          /\ \A x \in Loc : came[x].first # 0 => came'[x].first = came[x].first
          /\ came'[loc].first # 0
      BY <2>1, <2>3 DEF PriceTypes
    <2> QED BY <2>1, <2>4, <2>5, <2>6 DEF CostInv, Priced, PricesKept
  <1>3. ASSUME NEW l \in Lot, ShipSerial(loc, l)
        PROVE  TransferTypes' /\ (\A x \in Loc : Priced(x)') /\ PricesKept /\ rec' = rec
               /\ moved' = moved /\ edited' = edited /\ setBack' = setBack
    <2>1. /\ stock' = [stock EXCEPT ![loc].lot[l] = @ - 1] /\ rec' = rec /\ came' = came
          /\ moved' = moved /\ edited' = edited /\ setBack' = setBack
      BY <1>3 DEF ShipSerial
    <2>2. GoodsTypes /\ GoodsTypes'
      BY <2>1 DEF CostInv, TransferTypes, GoodsTypes
    <2>3. TransferTypes' /\ PricesKept
      BY <2>1, <2>2 DEF CostInv, TransferTypes, RecordTypes, PriceTypes, MovedTypes, EditedTypes, PricesKept
    <2>4. ASSUME NEW x \in Loc PROVE Priced(x)'
      <3>1. /\ stock'[x].qty = stock[x].qty
            /\ \A k \in Lot : stock'[x].lot[k] <= stock[x].lot[k]
        BY <2>1, <2>2 DEF GoodsTypes
      <3>2. \A k \in Lot : stock'[x].lot[k] \in Int /\ stock[x].lot[k] \in Int
        BY <2>2 DEF GoodsTypes
      <3> QED BY <3>1, <3>2, <2>1 DEF CostInv, Priced
    <2> QED BY <2>1, <2>3, <2>4
  <1>4. ASSUME NEW l \in Lot, NEW price \in Price, BringSerial(loc, l, price)
        PROVE  TransferTypes' /\ (\A x \in Loc : Priced(x)') /\ PricesKept /\ rec' = rec
               /\ moved' = moved /\ edited' = edited /\ setBack' = setBack
    <2>1. /\ stock' = [stock EXCEPT ![loc].lot[l] = 1]
          /\ came' = [came EXCEPT ![loc].lot[l] = @ \cup {price}]
          /\ rec' = rec /\ moved' = moved /\ edited' = edited /\ setBack' = setBack
      BY <1>4 DEF BringSerial
    <2>2. GoodsTypes /\ GoodsTypes'
      BY <2>1 DEF CostInv, TransferTypes, GoodsTypes
    <2>3. PriceTypes /\ PriceTypes'
      BY <2>1 DEF CostInv, TransferTypes, PriceTypes
    <2>4. TransferTypes'
      BY <2>1, <2>2, <2>3 DEF CostInv, TransferTypes, RecordTypes, MovedTypes, EditedTypes
    <2>5. /\ \A x \in Loc : stock'[x].qty = stock[x].qty
          /\ \A x \in Loc, k \in Lot : <<x, k>> # <<loc, l>> => stock'[x].lot[k] = stock[x].lot[k]
      BY <2>1, <2>2 DEF GoodsTypes
    <2>6. \A x \in Loc : came'[x].first = came[x].first
      BY <2>1, <2>3 DEF PriceTypes
    <2>7. ASSUME NEW x \in Loc, NEW k \in Lot
          PROVE  came'[x].lot[k] = IF x = loc /\ k = l THEN came[x].lot[k] \cup {price} ELSE came[x].lot[k]
      <3>1. CASE x = loc
        <4> DEFINE c == [came[x].lot EXCEPT ![l] = @ \cup {price}]
        <4>1. came'[x].lot = c /\ came[x].lot \in [Lot -> SUBSET Cost]
          BY <3>1, <2>1, <2>3 DEF PriceTypes
        <4> QED BY <3>1, <4>1
      <3>2. CASE x # loc
        BY <3>2, <2>1, <2>3 DEF PriceTypes
      <3> QED BY <3>1, <3>2
    <2>8. PricesKept
      BY <2>6, <2>7 DEF PricesKept
    <2>9. ASSUME NEW x \in Loc PROVE Priced(x)'
      <3>1. x = loc => came'[x].lot[l] # {}
        BY <2>7
      <3>2. ASSUME NEW k \in Lot, stock'[x].lot[k] > 0 PROVE came'[x].lot[k] # {}
        <4>1. CASE x = loc /\ k = l
          BY <3>1, <4>1
        <4>2. CASE ~(x = loc /\ k = l)
          BY <2>5, <2>7, <3>2, <4>2 DEF CostInv, Priced
        <4> QED BY <4>1, <4>2
      <3> QED BY <2>5, <2>6, <3>2 DEF CostInv, Priced
    <2> QED BY <2>1, <2>4, <2>8, <2>9
  <1> QED BY <1>1, <1>2, <1>3, <1>4 DEF Others

-----------------------------------------------------------------------------
(* The buttons of a record.                                                *)

\* What is found available at a location has a price there.
LEMMA AvailablePriced ==
    ASSUME CostInv, NEW r \in Rec, Available(r)
    PROVE  /\ Qty[r] > 0 => came[From[r]].first # 0
           /\ \A l \in Listed(r) : Origins(r, l) # {}
  <1>1. From[r] \in Loc /\ Qty[r] \in Nat /\ Serials[r] \in Nat
    BY TransferFacts
  <1>2. stock[From[r]].qty \in Int /\ \A l \in Lot : stock[From[r]].lot[l] \in Int
    BY <1>1 DEF CostInv, TransferTypes, GoodsTypes
  <1>3. Qty[r] > 0 => came[From[r]].first # 0
    BY <1>1, <1>2 DEF CostInv, Priced, Available
  <1>4. \A l \in Listed(r) : l \in Lot /\ Serials[r] > 0
    <2>1. Serials[r] = 0 => Listed(r) = {}
      BY DEF CostInv, Pickings
    <2>2. Serials[r] = 0 \/ Serials[r] > 0
      BY <1>1
    <2> QED BY <2>1, <2>2 DEF Listed
  <1>5. \A l \in Listed(r) : stock[From[r]].lot[l] > 0
    BY <1>2, <1>4 DEF Available
  <1> QED BY <1>1, <1>3, <1>4, <1>5 DEF CostInv, Priced, Origins

\* Serials that are edited leave the goods, and what was moved, alone.
LEMMA EditKeeps ==
    ASSUME CostInv, NEW r \in Rec, NEW lots \in [Lot -> 0 .. MaxListed], EditSerials(r, lots)
    PROVE  CostInv'
  <1>1. PICK origin \in KeptOrigins(r, lots) : rec' = [rec EXCEPT ![r].lots = lots, ![r].origin = origin]
    BY DEF EditSerials
  <1>2. /\ Serials[r] # 0 /\ edited' = [edited EXCEPT ![r] = {"check", "return"}]
        /\ stock' = stock /\ came' = came /\ moved' = moved /\ setBack' = setBack
    BY TransferFacts DEF EditSerials
  <1>3. origin \in [Lot -> Cost]
    <2>1. rec[r].origin \in [Lot -> Cost]
      BY DEF CostInv, TransferTypes, RecordTypes
    <2>2. {0} \cup {rec[r].origin[l] : l \in Listed(r)} \subseteq Cost
      BY <2>1, TransferFacts DEF Listed
    <2> QED BY <1>1, <2>2 DEF KeptOrigins
  <1>4. TransferTypes' /\ PricesKept /\ \A loc \in Loc : Priced(loc)'
    BY <1>1, <1>2, <1>3 DEF CostInv, TransferTypes, RecordTypes, GoodsTypes, PriceTypes, MovedTypes,
                            EditedTypes, PricesKept, Priced
  <1>5. /\ rec'[r].state = rec[r].state /\ edited'[r] = {"check", "return"}
        /\ \A x \in Rec \ {r} : rec'[x] = rec[x] /\ edited'[x] = edited[x]
    BY <1>1, <1>2 DEF CostInv, TransferTypes, RecordTypes, EditedTypes
  <1>6. Checked(r)' /\ Pickings(r)'
    BY <1>2, <1>5 DEF CostInv, Checked, Pickings
  <1>7. ASSUME NEW x \in Rec, x # r PROVE Checked(x)' /\ Pickings(x)'
    BY <1>2, <1>4, <1>5, <1>7, RecordKept DEF CostInv
  <1> QED BY <1>4, <1>6, <1>7 DEF CostInv

\* The check finds the prices of what it finds available.
LEMMA CheckKeeps ==
    ASSUME CostInv, NEW r \in Rec, CheckAvailableMoves(r)
    PROVE  CostInv'
  <1> DEFINE more == IF rec[r].state = "confirmed" THEN setBack[r] + 1 ELSE setBack[r]
  <1>1. PICK origin \in [Lot -> Cost] :
           /\ \A l \in Lot : IF l \in Listed(r) /\ Origins(r, l) # {} THEN origin[l] \in Origins(r, l)
                             ELSE origin[l] = rec[r].origin[l]
           /\ rec' = [rec EXCEPT ![r].state = "available", ![r].origin = origin]
    BY DEF CheckAvailableMoves, Cost
  <1>2. /\ edited' = [edited EXCEPT ![r] = @ \ {"check"}]
        /\ setBack' = [setBack EXCEPT ![r] = more]
        /\ stock' = stock /\ came' = came /\ moved' = moved
    BY DEF CheckAvailableMoves
  <1>3. more \in Nat
    BY DEF CostInv, TransferTypes, EditedTypes
  <1>4. edited[r] \ {"check"} \in SUBSET {"check", "return"}
    BY DEF CostInv, TransferTypes, EditedTypes
  <1>5. TransferTypes' /\ PricesKept /\ \A loc \in Loc : Priced(loc)'
    <2> HIDE DEF more
    <2>1. RecordTypes'
      BY <1>1 DEF CostInv, TransferTypes, RecordTypes, TransferState
    <2>2. EditedTypes'
      BY <1>2, <1>3, <1>4 DEF CostInv, TransferTypes, EditedTypes
    <2> QED BY <1>2, <2>1, <2>2 DEF CostInv, TransferTypes, GoodsTypes, PriceTypes, MovedTypes, PricesKept, Priced
  <1>6. /\ rec'[r].state = "available" /\ rec'[r].lots = rec[r].lots /\ rec'[r].origin = origin
        /\ setBack'[r] = more
        /\ \A x \in Rec \ {r} : rec'[x] = rec[x] /\ edited'[x] = edited[x] /\ setBack'[x] = setBack[x]
    BY <1>1, <1>2 DEF CostInv, TransferTypes, RecordTypes, EditedTypes
  <1>7. Listed(r)' = Listed(r) /\ Listed(r) \subseteq Lot
    BY <1>6 DEF Listed
  <1>8. /\ Qty[r] > 0 => came[From[r]].first # 0
        /\ \A l \in Listed(r) : origin[l] \in came[From[r]].lot[l]
    BY <1>1, <1>7, AvailablePriced DEF CheckAvailableMoves, Origins
  <1>9. Checked(r)' /\ Pickings(r)'
    <2>1. Checked(r)'
      BY <1>2, <1>6, <1>7, <1>8 DEF Checked
    <2>2. Len(moved[r].returned) = Len(moved[r].received) + more
      <3>1. /\ Len(moved[r].returned) = Len(moved[r].received) + setBack[r]
                                         + (IF rec[r].state = "confirmed" THEN 1 ELSE 0)
        BY DEF CostInv, Pickings
      <3>2. setBack[r] \in Nat /\ Len(moved[r].received) \in Nat
        BY DEF CostInv, TransferTypes, EditedTypes, MovedTypes
      <3> DEFINE received == Len(moved[r].received)
                 back == setBack[r]
      <3>3. CASE rec[r].state = "confirmed"
        <4>1. Len(moved[r].returned) = received + back + 1 /\ more = back + 1
          BY <3>1, <3>3
        <4> HIDE DEF received, back, more
        <4> QED BY <3>2, <4>1 DEF received, back
      <3>4. CASE rec[r].state # "confirmed"
        <4>1. Len(moved[r].returned) = received + back + 0 /\ more = back
          BY <3>1, <3>4
        <4> HIDE DEF received, back, more
        <4> QED BY <3>2, <4>1 DEF received, back
      <3> QED BY <3>3, <3>4
    <2>3. more + 0 = more /\ Len(moved[r].received) + more + 0 = Len(moved[r].received) + more
      <3>1. Len(moved[r].received) \in Nat
        BY DEF CostInv, TransferTypes, MovedTypes
      <3> QED BY <3>1, <1>3
    <2> QED BY <2>1, <2>2, <2>3, <1>2, <1>6, <1>7 DEF CostInv, Pickings
  <1>10. ASSUME NEW x \in Rec, x # r PROVE Checked(x)' /\ Pickings(x)'
    BY <1>2, <1>5, <1>6, <1>10, RecordKept DEF CostInv
  <1> QED BY <1>5, <1>9, <1>10 DEF CostInv

\* A picking that is made comes last, and there is one more.
LEMMA OneMorePicking ==
    ASSUME NEW pickings \in Seq(PickingType), NEW picking \in PickingType
    PROVE  LET more == Append(pickings, picking)
           IN  more \in Seq(PickingType) /\ Len(more) = Len(pickings) + 1 /\ more[Len(more)] = picking
  OBVIOUS

\* What a picking of a record says is a picking.
LEMMA PickingTyped ==
    ASSUME TransferTypes, NEW r \in Rec, NEW sign \in {-1, 1}
    PROVE  Picking(r, sign) \in PickingType
  <1>1. rec[r].lots \in [Lot -> 0 .. MaxListed]
    BY DEF TransferTypes, RecordTypes
  <1>2. Worth(r) \in Nat
    BY WorthType
  <1>3. sign * Worth(r) \in Int
    BY <1>2
  <1> QED BY <1>1, <1>3, TransferFacts DEF Picking, PickingType

\* A shift of stock by a picking: every lot and the quantity.
LEMMA ShiftedType ==
    ASSUME TransferTypes, NEW r \in Rec, NEW n \in {-1, 1}, NEW loc \in Loc
    PROVE  /\ Shifted(stock[loc], r, n) \in [qty : Int, lot : [Lot -> Int]]
           /\ n = -1 => /\ Shifted(stock[loc], r, n).qty <= stock[loc].qty
                        /\ \A l \in Lot : Shifted(stock[loc], r, n).lot[l] <= stock[loc].lot[l]
           /\ Qty[r] = 0 => Shifted(stock[loc], r, n).qty = stock[loc].qty
           /\ \A l \in Lot : l \notin Listed(r) => Shifted(stock[loc], r, n).lot[l] = stock[loc].lot[l]
  <1> DEFINE q == stock[loc].qty + n * Qty[r]
             s == [l \in Lot |-> stock[loc].lot[l] + n * rec[r].lots[l]]
  <1>1. Shifted(stock[loc], r, n) = [qty |-> q, lot |-> s]
    BY DEF Shifted
  <1>2. stock[loc].qty \in Int /\ stock[loc].lot \in [Lot -> Int]
    BY DEF TransferTypes, GoodsTypes
  <1>3. rec[r].lots \in [Lot -> 0 .. MaxListed]
    BY DEF TransferTypes, RecordTypes
  <1>4. \A l \in Lot : rec[r].lots[l] \in Nat
    BY <1>3, TransferFacts
  <1>5. q \in Int /\ (n = -1 => q <= stock[loc].qty) /\ (Qty[r] = 0 => q = stock[loc].qty)
    BY <1>2, TransferFacts
  <1>6. /\ s \in [Lot -> Int]
        /\ n = -1 => \A l \in Lot : s[l] <= stock[loc].lot[l]
        /\ \A l \in Lot : l \notin Listed(r) => s[l] = stock[loc].lot[l]
    BY <1>2, <1>4 DEF Listed
  <1> HIDE DEF q, s
  <1> QED BY <1>1, <1>5, <1>6

\* The return leaves the prices, and states one more picking of the record.
LEMMA ConfirmKeeps ==
    ASSUME CostInv, NEW r \in Rec, ActionConfirm(r)
    PROVE  CostInv'
  <1> DEFINE src == From[r]
             left == Shifted(stock[src], r, -1)
             out == Picking(r, -1)
             more == Append(moved[r].returned, out)
             since == edited[r] \ {"return"}
  <1>1. /\ rec[r].state = "available" /\ rec' = [rec EXCEPT ![r].state = "confirmed"]
        /\ stock' = [stock EXCEPT ![src] = left] /\ came' = came
        /\ moved' = [moved EXCEPT ![r].returned = more]
        /\ edited' = [edited EXCEPT ![r] = since] /\ setBack' = setBack
    BY DEF ActionConfirm, CreateReturnPicking
  <1>2. src \in Loc /\ out \in PickingType /\ left \in [qty : Int, lot : [Lot -> Int]]
    BY TransferFacts, PickingTyped, ShiftedType DEF CostInv
  <1>3. /\ left.qty <= stock[src].qty
        /\ \A l \in Lot : left.lot[l] <= stock[src].lot[l]
    BY <1>2, ShiftedType DEF CostInv
  <1>4. moved[r].returned \in Seq(PickingType) /\ since \in SUBSET {"check", "return"}
    BY DEF CostInv, TransferTypes, MovedTypes, EditedTypes
  <1>5. more \in Seq(PickingType) /\ Len(more) = Len(moved[r].returned) + 1 /\ more[Len(more)] = out
    BY <1>2, <1>4, OneMorePicking
  <1>6. "check" \notin since => "check" \notin edited[r]
    OBVIOUS
  <1> HIDE DEF src, left, out, more, since
  <1>7. RecordTypes' /\ GoodsTypes' /\ PriceTypes' /\ PricesKept
    BY <1>1, <1>2 DEF CostInv, TransferTypes, RecordTypes, GoodsTypes, PriceTypes, PricesKept, TransferState
  <1>8. MovedTypes' /\ EditedTypes'
    BY <1>1, <1>4, <1>5 DEF CostInv, TransferTypes, MovedTypes, EditedTypes
  <1>9. /\ rec'[r].state = "confirmed" /\ rec'[r].lots = rec[r].lots /\ rec'[r].origin = rec[r].origin
        /\ moved'[r].returned = more /\ moved'[r].received = moved[r].received
        /\ edited'[r] = since /\ setBack'[r] = setBack[r]
        /\ \A x \in Rec \ {r} : rec'[x] = rec[x] /\ moved'[x] = moved[x] /\ edited'[x] = edited[x]
    BY <1>1 DEF CostInv, TransferTypes, RecordTypes, MovedTypes, EditedTypes
  <1>10. ASSUME NEW loc \in Loc PROVE Priced(loc)'
    <2>1. CASE loc = src
      <3>1. stock'[loc] = left /\ came'[loc] = came[loc]
        BY <2>1, <1>1, <1>2 DEF CostInv, TransferTypes, GoodsTypes
      <3>2. /\ left.qty \in Int /\ stock[src].qty \in Int
            /\ \A l \in Lot : left.lot[l] \in Int /\ stock[src].lot[l] \in Int
        BY <1>2 DEF CostInv, TransferTypes, GoodsTypes
      <3> QED BY <2>1, <3>1, <3>2, <1>3 DEF CostInv, Priced
    <2>2. CASE loc # src
      BY <2>2, <1>1 DEF CostInv, TransferTypes, GoodsTypes, Priced
    <2> QED BY <2>1, <2>2
  <1>11. Checked(r)' /\ Pickings(r)'
    <2>1. Listed(r)' = Listed(r)
      BY <1>9 DEF Listed
    <2>2. Checked(r)'
      BY <2>1, <1>1, <1>6, <1>9 DEF CostInv, Checked
    <2>3. Worth(r)' = Worth(r)
      BY <1>1, <1>9 DEF Worth
    <2>4. Picking(r, -1)' = out
      BY <2>3, <1>9 DEF Picking, out
    <2>5. Len(more) = Len(moved[r].received) + setBack[r] + 1
      <3>1. /\ Len(moved[r].returned) = Len(moved[r].received) + setBack[r]
                                         + (IF rec[r].state = "confirmed" THEN 1 ELSE 0)
            /\ setBack[r] \in Nat /\ moved[r].received \in Seq(PickingType)
        BY DEF CostInv, Pickings, TransferTypes, EditedTypes, MovedTypes
      <3> QED BY <3>1, <1>1, <1>5
    <2> QED BY <2>1, <2>2, <2>4, <2>5, <1>5, <1>9 DEF CostInv, Pickings
  <1>12. ASSUME NEW x \in Rec, x # r PROVE Checked(x)' /\ Pickings(x)'
    BY <1>1, <1>7, <1>8, <1>9, <1>12, RecordKept DEF CostInv, TransferTypes
  <1> QED BY <1>7, <1>8, <1>10, <1>11, <1>12 DEF CostInv, TransferTypes

\* The receipt brings the prices the goods have left with.
LEMMA TransferKeeps ==
    ASSUME CostInv, NEW r \in Rec, rec[r].state = "confirmed", CreateFinalTransferPicking(r),
           rec' = [rec EXCEPT ![r].state = "transferred"], edited' = edited, setBack' = setBack
    PROVE  CostInv'
  <1> DEFINE dst == To[r]
             there == Shifted(stock[dst], r, 1)
             in == Picking(r, 1)
             more == Append(moved[r].received, in)
             price == UnitPrice(r)
             first == IF Qty[r] > 0 /\ came[dst].first = 0 THEN price ELSE came[dst].first
             lot == [l \in Lot |-> IF l \in Listed(r) THEN came[dst].lot[l] \cup {rec[r].origin[l]}
                                   ELSE came[dst].lot[l]]
  <1>1. /\ rec[r].state = "confirmed" /\ rec' = [rec EXCEPT ![r].state = "transferred"]
        /\ stock' = [stock EXCEPT ![dst] = there]
        /\ moved' = [moved EXCEPT ![r].received = more]
    BY DEF CreateFinalTransferPicking
  <1>2. came' = [came EXCEPT ![dst].first = first, ![dst].lot = lot]
    BY DEF CreateFinalTransferPicking
  <1>3. /\ dst \in Loc /\ From[r] \in Loc /\ Qty[r] \in Nat
        /\ in \in PickingType /\ there \in [qty : Int, lot : [Lot -> Int]]
    BY TransferFacts, PickingTyped, ShiftedType DEF CostInv
  <1>4. /\ Qty[r] = 0 => there.qty = stock[dst].qty
        /\ \A l \in Lot : l \notin Listed(r) => there.lot[l] = stock[dst].lot[l]
    BY <1>3, ShiftedType DEF CostInv
  <1>5. /\ Qty[r] > 0 => price # 0
        /\ price \in Cost
    BY <1>1, <1>3 DEF CostInv, Checked, UnitPrice, TransferTypes, PriceTypes
  <1>6. /\ first \in Cost
        /\ Qty[r] > 0 => first # 0
        /\ came[dst].first # 0 => first = came[dst].first
    BY <1>3, <1>5 DEF CostInv, TransferTypes, PriceTypes
  <1>7. /\ lot \in [Lot -> SUBSET Cost]
        /\ \A l \in Lot : came[dst].lot[l] \subseteq lot[l]
        /\ \A l \in Listed(r) : lot[l] # {}
    <2>1. came[dst].lot \in [Lot -> SUBSET Cost] /\ came[From[r]].lot \in [Lot -> SUBSET Cost]
      BY <1>3 DEF CostInv, TransferTypes, PriceTypes
    <2>2. \A l \in Listed(r) : l \in Lot /\ rec[r].origin[l] \in Cost
      BY DEF CostInv, TransferTypes, RecordTypes, Listed
    <2>3. ASSUME NEW l \in Lot
          PROVE  /\ lot[l] \in SUBSET Cost /\ came[dst].lot[l] \subseteq lot[l]
                 /\ l \in Listed(r) => lot[l] # {}
      <3>1. came[dst].lot[l] \in SUBSET Cost
        BY <2>1
      <3>2. CASE l \in Listed(r)
        <4>1. rec[r].origin[l] \in Cost
          BY <2>2, <3>2
        <4>2. lot[l] = came[dst].lot[l] \cup {rec[r].origin[l]}
          BY <3>2
        <4> HIDE DEF lot
        <4> QED BY <3>1, <4>1, <4>2
      <3>3. CASE l \notin Listed(r)
        BY <3>1, <3>3
      <3> QED BY <3>2, <3>3
    <2>4. lot = [l \in Lot |-> lot[l]] /\ \A l \in Listed(r) : l \in Lot
      BY DEF Listed
    <2> HIDE DEF lot
    <2> QED BY <2>3, <2>4
  <1> HIDE DEF dst, there, in, more, price, first, lot
  <1>8. PriceTypes' /\ came'[dst].first = first /\ came'[dst].lot = lot /\ \A x \in Loc \ {dst} : came'[x] = came[x]
    BY <1>2, <1>3, <1>6, <1>7 DEF CostInv, TransferTypes, PriceTypes
  <1>9. PricesKept
    BY <1>6, <1>7, <1>8 DEF PricesKept
  <1>10. RecordTypes' /\ GoodsTypes' /\ EditedTypes'
    <2>1. RecordTypes' /\ GoodsTypes'
      BY <1>1, <1>3 DEF CostInv, TransferTypes, RecordTypes, GoodsTypes, TransferState
    <2>2. EditedTypes'
      BY DEF CostInv, TransferTypes, EditedTypes
    <2> QED BY <2>1, <2>2
  <1>11. more \in Seq(PickingType) /\ Len(more) = Len(moved[r].received) + 1 /\ more[Len(more)] = in
    BY <1>3, OneMorePicking DEF more, CostInv, TransferTypes, MovedTypes
  <1>12. MovedTypes' /\ moved'[r].returned = moved[r].returned /\ moved'[r].received = more
    BY <1>1, <1>11 DEF CostInv, TransferTypes, MovedTypes
  <1>13. /\ rec'[r].state = "transferred" /\ rec'[r].lots = rec[r].lots /\ rec'[r].origin = rec[r].origin
         /\ \A x \in Rec \ {r} : rec'[x] = rec[x] /\ moved'[x] = moved[x]
    BY <1>1 DEF CostInv, TransferTypes, RecordTypes, MovedTypes
  <1>14. ASSUME NEW loc \in Loc PROVE Priced(loc)'
    <2>1. CASE loc = dst
      <3>1. stock'[loc] = there
        BY <2>1, <1>1, <1>3 DEF CostInv, TransferTypes, GoodsTypes
      <3>2. there.qty > 0 => first # 0
        BY <1>3, <1>4, <1>6 DEF CostInv, Priced
      <3>3. \A l \in Lot : there.lot[l] > 0 => lot[l] # {}
        BY <1>3, <1>4, <1>7 DEF CostInv, Priced
      <3> QED BY <2>1, <3>1, <3>2, <3>3, <1>8 DEF Priced
    <2>2. CASE loc # dst
      <3>1. stock'[loc] = stock[loc] /\ came'[loc] = came[loc]
        BY <2>2, <1>1, <1>8 DEF CostInv, TransferTypes, GoodsTypes
      <3> QED BY <3>1 DEF CostInv, Priced
    <2> QED BY <2>1, <2>2
  <1>15. Checked(r)' /\ Pickings(r)'
    <2>1. Listed(r)' = Listed(r) /\ Listed(r) \subseteq Lot
      BY <1>13 DEF Listed
    <2>2. Checked(r)'
      BY <2>1, <1>1, <1>3, <1>9, <1>13 DEF CostInv, Checked, PricesKept
    <2>3. Worth(r)' = Worth(r)
      <3>1. came'[From[r]].first \in Nat
        BY <1>3, <1>8, TransferFacts DEF PriceTypes
      <3> QED BY <3>1, <1>1, <1>9, <1>13, WorthKept DEF CostInv
    <2>4. Picking(r, -1)' = Picking(r, -1) /\ Picking(r, 1)' = in
      BY <2>3, <1>13 DEF Picking, in
    <2>5. Len(moved[r].returned) = Len(more) + setBack[r] + 0
      <3>1. /\ Len(moved[r].returned) = Len(moved[r].received) + setBack[r]
                                         + (IF rec[r].state = "confirmed" THEN 1 ELSE 0)
            /\ setBack[r] \in Nat /\ moved[r].received \in Seq(PickingType)
        BY DEF CostInv, Pickings, TransferTypes, EditedTypes, MovedTypes
      <3>2. Len(moved[r].returned) = Len(moved[r].received) + setBack[r] + 1
        BY <3>1, <1>1
      <3>3. Len(more) = Len(moved[r].received) + 1 /\ Len(moved[r].received) \in Nat
        BY <3>1, <1>11
      <3> QED BY <3>1, <3>2, <3>3
    <2> QED BY <2>1, <2>2, <2>4, <2>5, <1>1, <1>11, <1>12, <1>13 DEF CostInv, Pickings
  <1>16. ASSUME NEW x \in Rec, x # r PROVE Checked(x)' /\ Pickings(x)'
    BY <1>8, <1>9, <1>10, <1>12, <1>13, <1>16, RecordKept DEF CostInv, TransferTypes
  <1> QED BY <1>8, <1>10, <1>12, <1>14, <1>15, <1>16 DEF CostInv, TransferTypes

-----------------------------------------------------------------------------
(* The theorems.                                                           *)

\* At first nothing is there and nothing is planned.
LEMMA InitCost == TransferInit => CostInv
  <1> SUFFICES ASSUME TransferInit PROVE CostInv
    OBVIOUS
  <1>1. Nothing \in [Lot -> Cost] /\ Nothing \in [Lot -> 0 .. MaxListed]
    BY TransferFacts DEF Nothing
  <1>2. RecordTypes /\ GoodsTypes
    BY <1>1 DEF TransferInit, RecordTypes, GoodsTypes, TransferState
  <1>3. PriceTypes /\ MovedTypes
    BY TransferFacts DEF TransferInit, PriceTypes, MovedTypes
  <1>6. EditedTypes
    BY DEF TransferInit, EditedTypes
  <1>4. \A loc \in Loc : Priced(loc)
    BY DEF TransferInit, Priced
  <1>5. \A r \in Rec : Checked(r) /\ Pickings(r)
    BY DEF TransferInit, Checked, Pickings, Listed, Nothing
  <1> QED BY <1>2, <1>3, <1>4, <1>5, <1>6 DEF CostInv, TransferTypes

\* Nor does a step that changes nothing.
LEMMA StutterCost == CostInv /\ UNCHANGED tvars => CostInv'
  <1> SUFFICES ASSUME CostInv, UNCHANGED tvars PROVE CostInv'
    OBVIOUS
  <1>1. rec' = rec /\ stock' = stock /\ came' = came /\ moved' = moved /\ edited' = edited /\ setBack' = setBack
    BY DEF tvars
  <1>2. TransferTypes' /\ (\A loc \in Loc : Priced(loc)') /\ PricesKept
    BY <1>1 DEF CostInv, TransferTypes, RecordTypes, GoodsTypes, PriceTypes, MovedTypes, EditedTypes, Priced, PricesKept
  <1>3. \A r \in Rec : Checked(r)' /\ Pickings(r)'
    BY <1>1, <1>2, RecordKept DEF CostInv
  <1> QED BY <1>2, <1>3 DEF CostInv

\* Every step keeps the invariant.
LEMMA StepCost == CostInv /\ [TransferNext]_tvars => CostInv'
  <1> SUFFICES ASSUME CostInv, [TransferNext]_tvars PROVE CostInv'
    OBVIOUS
  <1>1. ASSUME NEW r \in Rec, Buttons(r) PROVE CostInv'
    BY <1>1, EditKeeps, CheckKeeps, ConfirmKeeps DEF Buttons
  <1>2. ASSUME NEW rs \in SUBSET Rec, DoTransfer(rs) PROVE CostInv'
    BY <1>2, TransferKeeps DEF DoTransfer
  <1>3. ASSUME NEW loc \in Loc, Others(loc) PROVE CostInv'
    BY <1>3, OthersKeep
  <1> QED BY <1>1, <1>2, <1>3, StutterCost DEF TransferNext

\* The pickings of a record as the property wants them.
LEMMA ReceivedThen == CostInv => TransferInv
  <1> SUFFICES ASSUME CostInv PROVE TransferInv
    OBVIOUS
  <1>1. TransferTypeOK
    BY DEF CostInv, TransferTypes, RecordTypes, GoodsTypes, PriceTypes, EditedTypes, TransferTypeOK, Cost
  <1>2. ASSUME NEW r \in Rec PROVE Mirror(Picking(r, -1)) = Picking(r, 1)
    <2>1. Worth(r) \in Nat
      BY WorthType DEF CostInv
    <2>2. ASSUME NEW w \in Nat, NEW q, NEW lots
          PROVE  [[qty |-> q, lots |-> lots, value |-> -1 * w] EXCEPT !.value = 0 - @]
                   = [qty |-> q, lots |-> lots, value |-> 1 * w]
      <3>1. 0 - (-1 * w) = 1 * w
        OBVIOUS
      <3> QED BY <3>1
    <2> QED BY <2>1, <2>2 DEF Mirror, Picking
  <1>3. ReceivedAsReturned
    BY <1>2 DEF CostInv, Pickings, ReceivedAsReturned
  <1> QED BY <1>1, <1>3 DEF TransferInv

\* "Return Products And Receive In New Location" (__manifest__.py): each return
\* of a record is received once, but for those of a record that a check has set
\* back; and with the opposite value, unless its serials were edited in between.
\* For any number of records, locations and serials, whoever edits, checks and
\* confirms when, and whatever else moves.
THEOREM ReceivedOnce == TransferSpec => []TransferInv
  <1>1. TransferInit => CostInv
    BY InitCost
  <1>2. CostInv /\ [TransferNext]_tvars => CostInv'
    BY StepCost
  <1>3. CostInv => TransferInv
    BY ReceivedThen
  <1> QED BY <1>1, <1>2, <1>3, PTL DEF TransferSpec

\* Unless edited after the check, a serial is returned at a price at which it
\* came to the location it leaves.
THEOREM CostReturned == TransferSpec => ReturnedAtItsCost
  <1> DEFINE Returned == \A r \in Rec : moved'[r].returned # moved[r].returned /\ "check" \notin edited[r]
                            => \A l \in Listed(r) : rec[r].origin[l] \in came[From[r]].lot[l]
  <1>1. TransferInit => CostInv
    BY InitCost
  <1>2. CostInv /\ [TransferNext]_tvars => CostInv'
    BY StepCost
  <1>3. CostInv => Returned
    BY DEF CostInv, Checked
  <1> QED BY <1>1, <1>2, <1>3, PTL DEF TransferSpec, ReturnedAtItsCost

\* ---------------------------------------------------------------------------
\* Reservation of stock
\* ---------------------------------------------------------------------------

Line == 0 .. Lots
Lines == [Line -> Nat]
MoveState == {"confirmed", "partially_available", "assigned", "done"}

QuantTypes == quant \in [Quant -> [qty : Int, reserved : Nat]]
MoveTypes == move \in [Move -> [state : MoveState, line : Lines, out : Lines, filled : BOOLEAN]]
BatchTypes == batch \in [open : BOOLEAN, todo : SUBSET Move, assigned : SUBSET Move, partial : SUBSET Move]
BroughtTypes == brought \in [Groups -> [Quant -> Int]]

ReservationTypes == plan \in Plan /\ QuantTypes /\ MoveTypes /\ BatchTypes /\ BroughtTypes

\* A run of _action_assign sorts the moves it found waiting, each once.
Sorted ==
    /\ ~Busy => batch = NoBatch
    /\ batch.todo \cap (batch.assigned \cup batch.partial) = {}
    /\ batch.assigned \cap batch.partial = {}
    /\ \A m \in batch.todo \cup batch.assigned \cup batch.partial :
         move[m].state \in {"confirmed", "partially_available"}

\* A move's lines become what went out, and neither is more than the demand.
Within(m) ==
    /\ Total(move[m].line) <= Demand[m] /\ Total(move[m].out) <= Demand[m]
    /\ IF move[m].state = "done" THEN move[m].line = NoLines ELSE move[m].out = NoLines

\* The state a move will be in when the run of _action_assign has ended.
Coming(m) == IF m \in batch.assigned THEN "assigned"
             ELSE IF m \in batch.partial THEN "partially_available" ELSE move[m].state

\* StateAgrees, for one move and the state it is in or comes to.
Agrees(m, state) ==
    CASE state = "assigned" -> Need(m) = 0
      [] state = "partially_available" -> Need(m) \in 1 .. Demand[m] - 1
      [] state = "confirmed" -> Need(m) = Demand[m]
      [] state = "done" -> Total(move[m].line) = 0

StockInv ==
    /\ ReservationTypes /\ Sorted /\ ReservationsBacked
    /\ \A m \in Move : Within(m)
    /\ Import = {} => \A m \in Move : Agrees(m, Coming(m))

-----------------------------------------------------------------------------
(* Constants, lines.                                                       *)

\* What the assumptions say of the moves and the numbers of the quants.
LEMMA StockFacts ==
    /\ Lots \in Nat /\ IsFiniteSet(Move) /\ IsFiniteSet(Line) /\ IsFiniteSet(Quant)
    /\ 0 \in Line /\ Quant \in SUBSET Line /\ Line \ {0} = Quant /\ 0 \notin Quant
    /\ \A q \in Quant : q \in Nat /\ q # 0
  <1>1. Lots \in Nat /\ IsFiniteSet(Move)
    BY ReservationAssumption DEF ReservationAssumption
  <1>2. IsFiniteSet(Line) /\ IsFiniteSet(Quant)
    BY <1>1, FS_Interval DEF Line, Quant
  <1> QED BY <1>1, <1>2 DEF Line, Quant

\* What a plan says.
LEMMA PlanFacts ==
    ASSUME plan \in Plan
    PROVE  /\ \A m \in Move : Demand[m] \in Nat /\ Demand[m] > 0
           /\ Bypass \in SUBSET Move /\ Import \in SUBSET Move
  <1>1. plan \in PlanType
    BY ReservationAssumption DEF ReservationAssumption
  <1> QED BY <1>1 DEF PlanType, Demand, Bypass, Import

\* Lines add up to a natural number.
LEMMA LinesTotal ==
    ASSUME NEW f \in Lines
    PROVE  Total(f) \in Nat /\ \A q \in Line : f[q] \in Nat /\ f[q] <= Total(f)
  BY StockFacts, TotalType, TotalBounds DEF Lines

\* A move without lines has a total of 0.
LEMMA NoLinesTotal == NoLines \in Lines /\ Total(NoLines) = 0
  <1>1. NoLines \in Lines /\ NoLines \in [Line -> Int] /\ \A q \in Line : NoLines[q] = 0
    BY DEF NoLines, Lines, Line
  <1> HIDE DEF NoLines
  <1> QED BY <1>1, TotalZero, StockFacts

\* Adding lines adds their totals.
LEMMA PlusTotal ==
    ASSUME NEW f \in Lines, NEW h \in Lines
    PROVE  /\ Plus(f, h) \in Lines /\ Total(Plus(f, h)) = Total(f) + Total(h)
           /\ \A q \in Line : Plus(f, h)[q] = f[q] + h[q]
  <1>1. Plus(f, h) = [q \in Line |-> f[q] + h[q]]
    BY DEF Plus, Lines
  <1>2. f \in [Line -> Int] /\ h \in [Line -> Int]
    BY DEF Lines
  <1>3. Total([q \in Line |-> f[q] + h[q]]) = Total(f) + Total(h)
    BY <1>2, TotalPlus, StockFacts
  <1>4. [q \in Line |-> f[q] + h[q]] \in Lines
    BY DEF Lines
  <1> QED BY <1>1, <1>3, <1>4

\* Lines that change for one move change what is on the lines of a quant.
LEMMA OnLinesStep ==
    ASSUME MoveTypes, MoveTypes', NEW m \in Move,
           \A x \in Move \ {m} : move'[x].line = move[x].line
    PROVE  \A q \in Line :
             /\ OnLines(q) \in Nat /\ OnLines(q)' \in Nat /\ move[m].line[q] <= OnLines(q)
             /\ move[m].line[q] \in Nat /\ move'[m].line[q] \in Nat
             /\ OnLines(q)' = OnLines(q) - move[m].line[q] + move'[m].line[q]
  <1> SUFFICES ASSUME NEW q \in Line
               PROVE  /\ OnLines(q) \in Nat /\ OnLines(q)' \in Nat /\ move[m].line[q] <= OnLines(q)
                      /\ move[m].line[q] \in Nat /\ move'[m].line[q] \in Nat
                      /\ OnLines(q)' = OnLines(q) - move[m].line[q] + move'[m].line[q]
    OBVIOUS
  <1> DEFINE f == [x \in Move |-> move[x].line[q]]
             h == [x \in Move |-> move'[x].line[q]]
  <1>1. f \in [Move -> Nat] /\ h \in [Move -> Nat]
    <2>1. \A x \in Move : move[x].line \in Lines /\ move'[x].line \in Lines
      BY DEF MoveTypes
    <2> QED BY <2>1 DEF Lines
  <1>2. \A x \in Move \ {m} : h[x] = f[x]
    OBVIOUS
  <1>3. OnLines(q) = Total(f) /\ OnLines(q)' = Total(h)
    BY DEF OnLines
  <1>4. f[m] = move[m].line[q] /\ h[m] = move'[m].line[q]
    OBVIOUS
  <1> HIDE DEF f, h
  <1>5. Total(f) \in Nat /\ Total(h) \in Nat /\ f[m] <= Total(f)
    BY <1>1, StockFacts, TotalType, TotalBounds
  <1>6. Total(h) = Total(f) - f[m] + h[m]
    BY <1>1, <1>2, StockFacts, TotalExcept
  <1> QED BY <1>1, <1>3, <1>4, <1>5, <1>6

-----------------------------------------------------------------------------
(* What a run of _action_assign takes.                                     *)

\* Nothing beyond what is free, and nothing beyond n.
Modest(more, n) ==
    /\ more \in Lines /\ Total(more) <= n
    /\ \A q \in Quant : more[q] <= Free(q)

\* What is free is a natural number.
LEMMA FreeType ==
    ASSUME QuantTypes, NEW q \in Quant
    PROVE  Free(q) \in Nat /\ (Free(q) > 0 => Free(q) = quant[q].qty - quant[q].reserved)
  BY DEF QuantTypes, Free, Pos

\* Taking in the order of the quants: after each quant as much is taken as was
\* free so far, or the need.
LEMMA TakenModest ==
    ASSUME QuantTypes, NEW n \in Nat
    PROVE  Modest(TakenInOrder(n), n)
  <1> DEFINE free == [p \in Quant |-> Free(p)]
             F(k) == Total([p \in 1 .. k |-> Free(p)])
             more == TakenInOrder(n)
             S(k) == Total([p \in 1 .. k |-> more[p]])
  <1>1. \A k \in Line : F(k) \in Nat
    <2> SUFFICES ASSUME NEW k \in Line PROVE F(k) \in Nat
      OBVIOUS
    <2> DEFINE f == [p \in 1 .. k |-> Free(p)]
    <2>0. k \in Nat /\ 1 .. k \in SUBSET Quant
      BY StockFacts DEF Line, Quant
    <2>1. f \in [1 .. k -> Nat] /\ IsFiniteSet(1 .. k)
      BY <2>0, FreeType, FS_Subset, StockFacts
    <2>2. Total(f) \in Nat
      <3> HIDE DEF f
      <3> QED BY <2>1, TotalType
    <2> QED BY <2>2
  <1>2. \A q \in Quant : more[q] = Least(Free(q), Pos(n - F(q-1)))
    BY StockFacts DEF TakenInOrder, Line
  <1>3. more[0] = 0 /\ DOMAIN more = Line
    BY StockFacts DEF TakenInOrder, Line
  <1>4. \A q \in Quant : more[q] \in Nat /\ more[q] <= Free(q)
    <2> SUFFICES ASSUME NEW q \in Quant PROVE more[q] \in Nat /\ more[q] <= Free(q)
      OBVIOUS
    <2>1. Free(q) \in Nat
      BY FreeType
    <2>2. q - 1 \in Line
      BY StockFacts DEF Quant, Line
    <2>3. F(q-1) \in Nat
      BY <2>2, <1>1
    <2> HIDE DEF F, more
    <2> QED BY <2>1, <2>3, <1>2 DEF Least, Pos
  <1>5. more \in Lines
    <2>1. \A q \in Line : more[q] \in Nat
      BY <1>3, <1>4, StockFacts
    <2>2. more = [q \in Line |-> more[q]]
      BY DEF TakenInOrder, Line
    <2> HIDE DEF more
    <2> QED BY <2>1, <2>2 DEF Lines
  <1>6. \A k \in Line : S(k) = Least(n, F(k))
    <2> DEFINE wrong == {k \in Line : S(k) # Least(n, F(k))}
    <2> SUFFICES ASSUME wrong # {} PROVE FALSE
      OBVIOUS
    <2>1. PICK k \in wrong : \A i \in wrong : k <= i
      <3>1. wrong \in SUBSET Nat
        BY StockFacts DEF Line
      <3> HIDE DEF wrong
      <3> QED BY <3>1, FirstNumber
    <2>2. k \in Line /\ S(k) # Least(n, F(k))
      OBVIOUS
    <2>3. k # 0
      <3> SUFFICES ASSUME k = 0 PROVE FALSE
        OBVIOUS
      <3> DEFINE e == [p \in {} |-> 0]
      <3>1. [p \in 1 .. 0 |-> more[p]] = e /\ [p \in 1 .. 0 |-> Free(p)] = e
        OBVIOUS
      <3>2. e \in [{} -> Int] /\ IsFiniteSet({})
        BY FS_EmptySet
      <3>3. Total(e) = 0
        BY <3>2, TotalZero
      <3>4. S(0) = 0 /\ F(0) = 0
        BY <3>1, <3>3
      <3> HIDE DEF S, F
      <3> QED BY <2>2, <3>4 DEF Least
    <2>4. k \in Quant /\ k-1 \in Line /\ k \in Nat \ {0}
      BY <2>2, <2>3, StockFacts DEF Line, Quant
    <2>5. S(k-1) = Least(n, F(k-1))
      <3>1. k-1 \notin wrong
        BY <2>1, <2>4
      <3> QED BY <3>1, <2>4
    <2>6. S(k) = S(k-1) + more[k]
      <3> DEFINE f == [p \in 1 .. k |-> more[p]]
      <3>1. f \in [1 .. k -> Nat]
        BY <1>4, <2>4, StockFacts DEF Quant
      <3>2. [p \in 1 .. k-1 |-> f[p]] = [p \in 1 .. k-1 |-> more[p]] /\ f[k] = more[k]
        BY <2>4
      <3>3. Total(f) = Total([p \in 1 .. k-1 |-> f[p]]) + f[k]
        <4>1. f \in [1 .. k -> Int] /\ k \in Nat \ {0}
          BY <3>1, <2>4
        <4> HIDE DEF f
        <4> QED BY <4>1, TotalLast
      <3> QED BY <3>2, <3>3
    <2>7. F(k) = F(k-1) + Free(k)
      <3> DEFINE f == [p \in 1 .. k |-> Free(p)]
      <3>1. f \in [1 .. k -> Nat]
        BY FreeType, <2>4, StockFacts DEF Quant
      <3>2. [p \in 1 .. k-1 |-> f[p]] = [p \in 1 .. k-1 |-> Free(p)] /\ f[k] = Free(k)
        BY <2>4
      <3>3. Total(f) = Total([p \in 1 .. k-1 |-> f[p]]) + f[k]
        <4>1. f \in [1 .. k -> Int] /\ k \in Nat \ {0}
          BY <3>1, <2>4
        <4> HIDE DEF f
        <4> QED BY <4>1, TotalLast
      <3> QED BY <3>2, <3>3
    <2>8. F(k-1) \in Nat /\ Free(k) \in Nat
      BY <1>1, <2>4, FreeType
    <2>9. more[k] = Least(Free(k), Pos(n - F(k-1)))
      BY <1>2, <2>4
    <2> HIDE DEF F, S, more
    <2> QED BY <2>2, <2>5, <2>6, <2>7, <2>8, <2>9 DEF Least, Pos
  <1>7. Total(more) = S(Lots)
    <2>1. more \in [Line -> Int]
      BY <1>5 DEF Lines
    <2>2. Total(more) = more[0] + Total([q \in Line \ {0} |-> more[q]])
      <3> HIDE DEF more
      <3> QED BY <2>1, StockFacts, TotalRemove
    <2>3. Line \ {0} = 1 .. Lots /\ Lots \in Line
      BY StockFacts DEF Quant, Line
    <2>4. Least(n, F(Lots)) \in Nat
      <3>1. F(Lots) \in Nat
        BY <1>1, <2>3
      <3> HIDE DEF F
      <3> QED BY <3>1 DEF Least
    <2>5. S(Lots) \in Nat
      BY <1>6, <2>3, <2>4
    <2>6. Total(more) = 0 + S(Lots)
      BY <2>2, <2>3, <1>3
    <2> HIDE DEF S, more
    <2> QED BY <2>5, <2>6
  <1>8. Total(more) <= n
    <2>1. Lots \in Line
      BY StockFacts DEF Line
    <2>2. F(Lots) \in Nat
      BY <2>1, <1>1
    <2>3. Total(more) = Least(n, F(Lots))
      BY <2>1, <1>6, <1>7
    <2> HIDE DEF F, more
    <2> QED BY <2>2, <2>3 DEF Least
  <1> QED BY <1>4, <1>5, <1>8 DEF Modest

NothingTaken == [more |-> NoLines, done |-> FALSE, some |-> FALSE]

\* What a move takes lot by lot of what its group has been brought.
Taken(m, upto) ==
    upto = [q \in 0 .. Lots |->
              IF q = 0 THEN [more |-> NoLines, done |-> FALSE, some |-> FALSE]
              ELSE OneLot(m, q, upto[q-1])]

Sofar == [more : Lines, done : BOOLEAN, some : BOOLEAN]

\* The lines taken so far, each within what is free and all within the need;
\* the flags say whether it is met and whether there are any.
TakenSofar(m, u, k) ==
    /\ u \in Sofar /\ Total(u.more) <= Need(m)
    /\ u.done => Total(u.more) = Need(m)
    /\ ~u.done /\ u.some => Total(u.more) \in 1 .. Need(m) - 1
    /\ ~u.done /\ ~u.some => Total(u.more) = 0
    /\ \A q \in Line : (q = 0 \/ q > k) => u.more[q] = 0
    /\ \A q \in Quant : u.more[q] <= Free(q)

\* A share is a number.
LEMMA ShareType ==
    ASSUME MoveTypes, BroughtTypes, NEW m \in Move, Group[m] # NoGroup, NEW q \in Quant
    PROVE  Share(m, q) \in Int
  <1>1. Group[m] \in Groups /\ brought[Group[m]][q] \in Int
    BY DEF BroughtTypes, Groups
  <1>2. q \in Line
    BY StockFacts
  <1>3. move[m].line[q] \in Int
    BY <1>2 DEF MoveTypes, Lines
  <1> DEFINE lines == [x \in Reserving(m) |-> move[x].line[q]]
             outs == [x \in Siblings(m) |-> move[x].out[q]]
  <1>4. IsFiniteSet(Reserving(m)) /\ IsFiniteSet(Siblings(m))
    BY StockFacts, FS_Subset DEF Reserving, Siblings
  <1>5. \A x \in Move : move[x].line[q] \in Int /\ move[x].out[q] \in Int
    <2>1. \A x \in Move : move[x].line \in Lines /\ move[x].out \in Lines
      BY DEF MoveTypes
    <2> QED BY <2>1, <1>2 DEF Lines
  <1>6. lines \in [Reserving(m) -> Int] /\ outs \in [Siblings(m) -> Int]
    BY <1>5 DEF Reserving, Siblings
  <1>7. Total(lines) \in Int /\ Total(outs) \in Int
    <2> HIDE DEF lines, outs
    <2> QED BY <1>4, <1>6, TotalType
  <1>8. SiblingsTook(m, q) \in {Total(lines), Total(outs)}
    BY DEF SiblingsTook
  <1>9. SiblingsTook(m, q) \in Int
    <2> HIDE DEF lines, outs
    <2> QED BY <1>7, <1>8
  <1> QED BY <1>1, <1>3, <1>9 DEF Share

\* One lot more keeps within the need, when the share is not below 0.
LEMMA OneLotMore ==
    ASSUME QuantTypes, NEW m \in Move, NEW k \in Quant, k \in Shared(m) => Share(m, k) \in Nat,
           Need(m) \in Nat, NEW u, TakenSofar(m, u, k-1)
    PROVE  TakenSofar(m, OneLot(m, k, u), k)
  <1> DEFINE f == u.more
             taken == Least(StillNeeded(m, f), Least(Share(m, k), Free(k)))
             given == IF taken > 0 THEN taken ELSE -Least(quant[k].reserved, -taken)
             skip == u.done \/ k \notin Shared(m) \/ Free(k) = 0 \/ taken = 0
             g == [f EXCEPT ![k] = given]
  <1>1. k \in Line /\ k \in Nat /\ k # 0 /\ u \in Sofar /\ f \in Lines /\ f[k] = 0
    <2>1. k \in Line /\ k \in Nat /\ k # 0
      BY StockFacts
    <2>2. k > k-1
      BY <2>1
    <2> QED BY <2>1, <2>2 DEF TakenSofar, Sofar
  <1>2. OneLot(m, k, u) = IF skip THEN u
                          ELSE [more |-> g, done |-> taken = StillNeeded(m, f), some |-> TRUE]
    BY DEF OneLot
  <1>3. \A q \in Line : q > k => q > k-1
    BY <1>1, StockFacts DEF Line
  <1>4. CASE skip
    <2>1. OneLot(m, k, u) = u
      BY <1>2, <1>4
    <2> QED BY <2>1, <1>3 DEF TakenSofar
  <1>5. CASE ~skip
    <2>1. Total(f) \in Nat /\ Free(k) \in Nat /\ Share(m, k) \in Nat /\ StillNeeded(m, f) = Need(m) - Total(f)
      BY <1>1, <1>5, LinesTotal, FreeType DEF StillNeeded
    <2>2. ~u.done /\ Total(f) <= Need(m) /\ taken # 0
      BY <1>5 DEF TakenSofar
    <2>3. taken \in Nat /\ taken > 0 /\ taken <= Need(m) - Total(f) /\ taken <= Free(k)
      <3>1. Need(m) - Total(f) \in Nat
        BY <2>1, <2>2
      <3> QED BY <2>1, <2>2, <3>1 DEF Least
    <2>4. given = taken
      BY <2>3
    <2>5. taken = StillNeeded(m, f) \/ taken < Need(m) - Total(f)
      BY <2>1, <2>3
    <2> HIDE DEF f, taken, given, skip
    <2>6. g \in Lines /\ g[k] = taken /\ \A q \in Line \ {k} : g[q] = f[q]
      BY <1>1, <2>3, <2>4 DEF Lines
    <2>7. Total(g) = Total(f) + taken
      <3>1. f \in [Line -> Int] /\ g \in [Line -> Int]
        BY <1>1, <2>6 DEF Lines
      <3>2. IsFiniteSet(Line) /\ k \in Line /\ \A q \in Line \ {k} : g[q] = f[q]
        BY <1>1, <2>6, StockFacts
      <3>3. Total(g) = Total(f) - f[k] + g[k]
        <4> HIDE DEF g
        <4> QED BY <3>1, <3>2, TotalExcept
      <3> HIDE DEF g
      <3> QED BY <3>3, <1>1, <2>1, <2>3, <2>6
    <2> HIDE DEF g
    <2>8. ASSUME NEW q \in Line, q = 0 \/ q > k PROVE g[q] = 0
      <3>1. q # k /\ (q = 0 \/ q > k-1)
        BY <1>1, <1>3, <2>8
      <3> QED BY <3>1, <2>6 DEF TakenSofar, f
    <2>9. ASSUME NEW q \in Quant PROVE g[q] <= Free(q)
      BY <2>3, <2>6, StockFacts DEF TakenSofar, f
    <2>10. OneLot(m, k, u) = [more |-> g, done |-> taken = StillNeeded(m, f), some |-> TRUE]
      BY <1>2, <1>5
    <2>11. /\ Total(g) <= Need(m)
           /\ taken = StillNeeded(m, f) => Total(g) = Need(m)
           /\ taken # StillNeeded(m, f) => Total(g) \in 1 .. Need(m) - 1
      BY <2>1, <2>3, <2>5, <2>7
    <2> DEFINE last == taken = StillNeeded(m, f)
               v == [more |-> g, done |-> last, some |-> TRUE]
    <2>12. v.more = g /\ (v.done <=> last) /\ v.some = TRUE /\ v \in Sofar
      <3>1. g \in Lines /\ last \in BOOLEAN
        BY <2>6
      <3> HIDE DEF last
      <3> QED BY <3>1 DEF Sofar
    <2>13. OneLot(m, k, u) = v
      BY <2>10
    <2>14. last => Total(g) = Need(m)
      BY <2>11
    <2>15. ~last => Total(g) \in 1 .. Need(m) - 1
      BY <2>11
    <2> HIDE DEF last, v
    <2>16. TakenSofar(m, v, k)
      BY <2>8, <2>9, <2>11, <2>12, <2>14, <2>15 DEF TakenSofar
    <2> QED BY <2>13, <2>16
  <1> QED BY <1>4, <1>5

\* So it is after every lot.
LEMMA SofarAlways ==
    ASSUME QuantTypes, MoveTypes, BroughtTypes, NEW m \in Move, Group[m] # NoGroup, Need(m) \in Nat,
           \A q \in Shared(m) : Share(m, q) >= 0,
           NEW upto, upto[0] = NothingTaken,
           \A q \in Quant : TakenSofar(m, upto[q-1], q-1) => upto[q] = OneLot(m, q, upto[q-1])
    PROVE  \A k \in Line : TakenSofar(m, upto[k], k)
  <1>1. \A q \in Shared(m) : q \in Quant /\ Share(m, q) \in Nat
    BY ShareType DEF Shared
  <1> DEFINE wrong == {k \in Line : ~ TakenSofar(m, upto[k], k)}
  <1> SUFFICES ASSUME wrong # {} PROVE FALSE
    OBVIOUS
  <1>2. PICK k \in wrong : \A i \in wrong : k <= i
    <2>1. wrong \in SUBSET Nat
      BY DEF Line
    <2> HIDE DEF wrong
    <2> QED BY <2>1, FirstNumber
  <1>3. k \in Line /\ ~ TakenSofar(m, upto[k], k)
    OBVIOUS
  <1>4. k # 0
    <2>1. \A q \in Line : NoLines[q] = 0
      BY DEF NoLines, Line
    <2>2. \A q \in Quant : Free(q) >= 0
      BY FreeType
    <2>3. NothingTaken.more = NoLines /\ ~NothingTaken.done /\ ~NothingTaken.some /\ NothingTaken \in Sofar
      BY NoLinesTotal DEF NothingTaken, Sofar
    <2>4. TakenSofar(m, NothingTaken, 0)
      BY <2>1, <2>2, <2>3, NoLinesTotal, StockFacts DEF TakenSofar
    <2> QED BY <1>3, <2>4
  <1>5. k \in Quant /\ k-1 \in Line /\ k-1 \notin wrong
    BY <1>2, <1>3, <1>4, StockFacts DEF Line, Quant
  <1>6. TakenSofar(m, upto[k-1], k-1)
    BY <1>5
  <1>7. upto[k] = OneLot(m, k, upto[k-1])
    BY <1>5, <1>6
  <1>8. TakenSofar(m, OneLot(m, k, upto[k-1]), k)
    BY <1>1, <1>5, <1>6, OneLotMore
  <1> QED BY <1>3, <1>7, <1>8

\* The lines of a chained move, lot by lot, as a function.
LEMMA TakenExists ==
    ASSUME QuantTypes, MoveTypes, BroughtTypes, NEW m \in Move, Group[m] # NoGroup, Need(m) \in Nat,
           \A q \in Shared(m) : Share(m, q) >= 0
    PROVE  \E f : Taken(m, f)
  <1> DEFINE Next(u, q) == IF TakenSofar(m, u, q-1) THEN OneLot(m, q, u) ELSE u
             step == [q \in Quant |-> [u \in Sofar |-> Next(u, q)]]
  <1>1. \A q \in Shared(m) : q \in Quant /\ Share(m, q) \in Nat
    BY ShareType DEF Shared
  <1>2. ASSUME NEW u \in Sofar, NEW q \in Quant PROVE Next(u, q) \in Sofar
    <2>1. CASE TakenSofar(m, u, q-1)
      <3>1. TakenSofar(m, OneLot(m, q, u), q)
        BY <1>1, <2>1, OneLotMore
      <3> QED BY <2>1, <3>1 DEF TakenSofar
    <2>2. CASE ~TakenSofar(m, u, q-1)
      BY <2>2
    <2> QED BY <2>1, <2>2
  <1>3. step \in [Quant -> [Sofar -> Sofar]]
    <2> HIDE DEF Next
    <2> QED BY <1>2
  <1>4. PICK g \in [Line -> Sofar] : g[0] = NothingTaken /\ \A q \in Quant : g[q] = step[q][g[q-1]]
    <2>1. NothingTaken \in Sofar /\ Lots \in Nat /\ Line = 0 .. Lots /\ Quant = 1 .. Lots
      BY NoLinesTotal, StockFacts DEF Line, Quant, NothingTaken, Sofar
    <2> HIDE DEF step
    <2>2. PICK g : Along(g, Lots, Sofar, NothingTaken, step)
      BY <1>3, <2>1, StepsExist
    <2> QED BY <2>1, <2>2 DEF Along
  <1>5. ASSUME NEW q \in Quant PROVE g[q] = Next(g[q-1], q)
    <2>1. q-1 \in Line
      BY StockFacts DEF Line, Quant
    <2>2. g[q-1] \in Sofar
      BY <2>1, <1>4
    <2> HIDE DEF Next
    <2> QED BY <2>2, <1>4
  <1>6. \A k \in Line : TakenSofar(m, g[k], k)
    <2> HIDE DEF step
    <2> QED BY <1>4, <1>5, SofarAlways
  <1>7. ASSUME NEW q \in Line
        PROVE  g[q] = IF q = 0 THEN [more |-> NoLines, done |-> FALSE, some |-> FALSE]
                      ELSE OneLot(m, q, g[q-1])
    <2>1. CASE q = 0
      BY <2>1, <1>4 DEF NothingTaken
    <2>2. CASE q # 0
      <3>1. q \in Quant /\ q-1 \in Line
        BY <2>2, StockFacts DEF Line, Quant
      <3>2. TakenSofar(m, g[q-1], q-1)
        BY <3>1, <1>6
      <3> QED BY <2>2, <3>1, <3>2, <1>5
    <2> QED BY <2>1, <2>2
  <1>8. g = [q \in Line |-> IF q = 0 THEN [more |-> NoLines, done |-> FALSE, some |-> FALSE]
                           ELSE OneLot(m, q, g[q-1])]
    <2> HIDE DEF step
    <2>1. g = [q \in Line |-> g[q]]
      BY <1>4
    <2> QED BY <2>1, <1>7
  <1> QED BY <1>8 DEF Taken, Line

\* Lot by lot, a chained move takes what is free and no more than it needs.
LEMMA ChainedModest ==
    ASSUME QuantTypes, MoveTypes, BroughtTypes, NEW m \in Move, Group[m] # NoGroup, Need(m) \in Nat,
           \A q \in Shared(m) : Share(m, q) >= 0,
           NEW upto, upto = CHOOSE f : Taken(m, f)
    PROVE  TakenSofar(m, upto[Lots], Lots)
  <1>1. Taken(m, upto)
    BY TakenExists
  <1>2. \A q \in Line : upto[q] = IF q = 0 THEN [more |-> NoLines, done |-> FALSE, some |-> FALSE]
                                  ELSE OneLot(m, q, upto[q-1])
    BY <1>1 DEF Taken, Line
  <1>3. upto[0] = NothingTaken /\ \A q \in Quant : upto[q] = OneLot(m, q, upto[q-1])
    BY <1>2, StockFacts DEF NothingTaken
  <1>4. Lots \in Line
    BY StockFacts DEF Line
  <1> QED BY <1>3, <1>4, SofarAlways

-----------------------------------------------------------------------------
(* Steps that take, give back or deliver lines of one move.                *)

\* Reservations stay backed where neither they nor the lines change.
LEMMA BackedKept ==
    ASSUME ReservationsBacked, plan' = plan,
           \A m \in Move : move'[m].line = move[m].line,
           \A q \in Quant : quant'[q].reserved = quant[q].reserved
    PROVE  ReservationsBacked'
  <1>1. Import' = Import
    BY DEF Import
  <1>2. \A q \in Quant : OnLines(q)' = OnLines(q)
    BY DEF OnLines
  <1> QED BY <1>1, <1>2 DEF ReservationsBacked

\* A move that keeps its lines, what went out and whether it is done.
LEMMA MoveKept ==
    ASSUME plan' = plan, NEW m \in Move, Within(m),
           move'[m].line = move[m].line, move'[m].out = move[m].out,
           (move'[m].state = "done") <=> (move[m].state = "done")
    PROVE  Within(m)' /\ Need(m)' = Need(m)
  <1>1. Demand' = Demand
    BY DEF Demand
  <1> QED BY <1>1 DEF Within, Need

\* What a move needs, and what its totals are.
LEMMA NeedType ==
    ASSUME plan \in Plan, MoveTypes, NEW m \in Move, Within(m)
    PROVE  /\ Need(m) \in Nat /\ Need(m) = Demand[m] - Total(move[m].line)
           /\ Total(move[m].line) \in Nat /\ Total(move[m].out) \in Nat /\ Demand[m] \in Nat \ {0}
  <1>1. move[m].line \in Lines /\ move[m].out \in Lines
    BY DEF MoveTypes
  <1>2. Total(move[m].line) \in Nat /\ Total(move[m].out) \in Nat
    BY <1>1, LinesTotal
  <1>3. Demand[m] \in Nat /\ Demand[m] > 0
    BY PlanFacts
  <1> QED BY <1>2, <1>3 DEF Need, Within

\* The run of _action_assign adds lines to a move and sorts it: assigned when
\* it has all it needs, partially available when it got something, else not.
AddedAndSorted(m, more) ==
    /\ quant' = Reserve(more)
    /\ move' = [move EXCEPT ![m].line = Plus(@, more), ![m].filled = @ /\ more = NoLines]
    /\ batch'.open = batch.open /\ batch'.todo = batch.todo \ {m}
    /\ UNCHANGED <<plan, brought>>
    /\ \/ Total(more) = Need(m) /\ batch'.assigned = batch.assigned \cup {m} /\ batch'.partial = batch.partial
       \/ Total(more) \in 1 .. Need(m) - 1 /\ batch'.assigned = batch.assigned /\ batch'.partial = batch.partial \cup {m}
       \/ Total(more) = 0 /\ batch'.assigned = batch.assigned /\ batch'.partial = batch.partial

\* Sorting one move of a run keeps the invariant.
LEMMA AddedKeeps ==
    ASSUME StockInv, NEW m \in batch.todo, NEW more \in Lines, Total(more) <= Need(m),
           AddedAndSorted(m, more), BatchTypes'
    PROVE  StockInv'
  <1>1. m \in Move /\ Busy
    BY DEF StockInv, ReservationTypes, BatchTypes, Sorted, NoBatch, Busy
  <1>2. Need(m) \in Nat /\ Total(more) \in Nat
    BY <1>1, LinesTotal, NeedType DEF StockInv, ReservationTypes
  <1> DEFINE plus == Plus(move[m].line, more)
             filled == move[m].filled /\ more = NoLines
  <1>3. move[m].line \in Lines /\ plus \in Lines /\ filled \in BOOLEAN
        /\ Total(plus) = Total(move[m].line) + Total(more)
        /\ \A q \in Line : plus[q] = move[m].line[q] + more[q]
    <2>1. move[m].line \in Lines
      BY <1>1 DEF StockInv, ReservationTypes, MoveTypes
    <2> QED BY <2>1, PlusTotal
  <1>4. move' = [move EXCEPT ![m].line = plus, ![m].filled = filled]
    BY DEF AddedAndSorted
  <1> HIDE DEF plus, filled
  <1>5. MoveTypes'
    BY <1>1, <1>3, <1>4 DEF StockInv, ReservationTypes, MoveTypes
  <1>6. /\ move'[m].line = plus /\ move'[m].out = move[m].out /\ move'[m].state = move[m].state
        /\ \A x \in Move \ {m} : move'[x] = move[x]
    BY <1>1, <1>4 DEF StockInv, ReservationTypes, MoveTypes
  <1>7. quant' = [q \in Quant |-> [quant[q] EXCEPT !.reserved = @ + more[q]]]
    BY DEF AddedAndSorted, Reserve
  <1>8. \A q \in Quant : q \in Line /\ more[q] \in Nat
    BY LinesTotal, StockFacts
  <1>9. QuantTypes' /\ \A q \in Quant : quant'[q].reserved = quant[q].reserved + more[q]
    BY <1>7, <1>8 DEF StockInv, ReservationTypes, QuantTypes
  <1>10. Demand' = Demand /\ Import' = Import /\ plan' \in Plan /\ Groups' = Groups /\ brought' = brought
    BY DEF AddedAndSorted, StockInv, ReservationTypes, Demand, Import, Groups, Group
  <1>11. ReservationTypes'
    BY <1>5, <1>9, <1>10 DEF StockInv, ReservationTypes, BroughtTypes
  <1>12. Sorted'
    <2>1. batch'.open /\ batch.open /\ batch'.todo = batch.todo \ {m}
      BY <1>1 DEF AddedAndSorted, Busy
    <2>2. \/ batch'.assigned = batch.assigned \cup {m} /\ batch'.partial = batch.partial
          \/ batch'.assigned = batch.assigned /\ batch'.partial = batch.partial \cup {m}
          \/ batch'.assigned = batch.assigned /\ batch'.partial = batch.partial
      BY DEF AddedAndSorted
    <2>3. \A x \in Move : move'[x].state = move[x].state
      BY <1>6
    <2>4. batch \in [open : BOOLEAN, todo : SUBSET Move, assigned : SUBSET Move, partial : SUBSET Move]
      BY DEF StockInv, ReservationTypes, BatchTypes
    <2>5. Sorted
      BY DEF StockInv
    <2> QED BY <2>1, <2>2, <2>3, <2>4, <2>5 DEF Sorted, Busy
  <1>13. ReservationsBacked'
    <2> SUFFICES ASSUME NEW q \in Quant
                 PROVE  /\ Import = {} => quant'[q].reserved = OnLines(q)'
                        /\ quant'[q].reserved \in 0 .. OnLines(q)'
      BY <1>10 DEF ReservationsBacked
    <2>1. /\ OnLines(q) \in Nat /\ move[m].line[q] \in Nat
          /\ OnLines(q)' = OnLines(q) - move[m].line[q] + move'[m].line[q]
      BY <1>1, <1>5, <1>6, <1>8, OnLinesStep DEF StockInv, ReservationTypes
    <2>2. OnLines(q)' = OnLines(q) + more[q]
      BY <2>1, <1>3, <1>6, <1>8
    <2>3. quant[q].reserved \in 0 .. OnLines(q) /\ (Import = {} => quant[q].reserved = OnLines(q))
      BY DEF StockInv, ReservationsBacked
    <2> QED BY <2>1, <2>2, <2>3, <1>8, <1>9
  <1>14. Within(m)' /\ Need(m)' = Need(m) - Total(more)
    <2>1. Total(move[m].line) \in Nat /\ Need(m) = Demand[m] - Total(move[m].line) /\ Demand[m] \in Nat
      BY <1>1, NeedType DEF StockInv, ReservationTypes
    <2>2. Total(plus) <= Demand[m] /\ Demand[m] - Total(plus) = Need(m) - Total(more)
      BY <2>1, <1>2, <1>3
    <2>3. move[m].state # "done"
      BY DEF StockInv, Sorted
    <2> QED BY <2>2, <2>3, <1>1, <1>6, <1>10 DEF Within, Need, StockInv
  <1>15. \A x \in Move \ {m} : Within(x)' /\ Need(x)' = Need(x)
    BY <1>6, <1>10, MoveKept DEF AddedAndSorted, StockInv
  <1>16. ASSUME Import = {}, NEW x \in Move
         PROVE  Agrees(x, Coming(x))'
    <2>1. Agrees(x, Coming(x))
      BY <1>16 DEF StockInv
    <2>2. CASE x # m
      <3>1. Coming(x)' = Coming(x)
        <4>1. /\ x \in batch'.assigned <=> x \in batch.assigned
              /\ x \in batch'.partial <=> x \in batch.partial
          BY <2>2 DEF AddedAndSorted
        <4> QED BY <4>1, <2>2, <1>6 DEF Coming
      <3>2. move'[x].line = move[x].line /\ Need(x)' = Need(x)
        BY <2>2, <1>6, <1>15
      <3> QED BY <2>1, <3>1, <3>2, <1>10 DEF Agrees
    <2>3. CASE x = m
      <3>1. Coming(m) = move[m].state /\ move[m].state \in {"confirmed", "partially_available"}
            /\ m \notin batch.assigned /\ m \notin batch.partial
        BY DEF Coming, StockInv, Sorted
      <3>2. Demand[m] \in Nat \ {0} /\ Need(m) \in 1 .. Demand[m]
        <4>1. Demand[m] \in Nat \ {0}
          BY <1>1, NeedType DEF StockInv, ReservationTypes
        <4>2. Agrees(m, move[m].state)
          BY <2>1, <2>3, <3>1
        <4>3. CASE move[m].state = "confirmed"
          BY <4>1, <4>2, <4>3 DEF Agrees
        <4>4. CASE move[m].state = "partially_available"
          <5>1. Need(m) \in 1 .. Demand[m] - 1
            BY <4>2, <4>4 DEF Agrees
          <5> QED BY <4>1, <5>1
        <4> QED BY <3>1, <4>1, <4>3, <4>4
      <3>3. CASE Total(more) = Need(m) /\ m \in batch'.assigned
        <4>1. Coming(m)' = "assigned" /\ Need(m)' = 0
          BY <3>3, <1>2, <1>14 DEF Coming
        <4> QED BY <2>3, <4>1 DEF Agrees
      <3>4. CASE Total(more) \in 1 .. Need(m) - 1 /\ m \notin batch'.assigned /\ m \in batch'.partial
        <4>1. Coming(m)' = "partially_available"
          BY <3>4 DEF Coming
        <4>2. Need(m)' \in 1 .. Demand[m] - 1
          BY <3>2, <3>4, <1>2, <1>14
        <4> QED BY <2>3, <4>1, <4>2, <1>10 DEF Agrees
      <3>5. CASE Total(more) = 0 /\ m \notin batch'.assigned /\ m \notin batch'.partial
        <4>1. Coming(m)' = Coming(m) /\ Need(m)' = Need(m)
          BY <3>1, <3>5, <1>2, <1>6, <1>14 DEF Coming
        <4> QED BY <2>1, <2>3, <4>1, <3>1, <1>10 DEF Agrees
      <3> QED BY <3>1, <3>3, <3>4, <3>5 DEF AddedAndSorted
    <2> QED BY <2>2, <2>3
  <1> QED BY <1>10, <1>11, <1>12, <1>13, <1>14, <1>15, <1>16 DEF StockInv

\* A run adds lines and sorts by what was taken.
LEMMA AssignSorts ==
    ASSUME UNCHANGED <<plan, brought>>, BatchTypes, NEW m \in Move, NEW more,
           quant' = Reserve(more),
           move' = [move EXCEPT ![m].line = Plus(@, more), ![m].filled = @ /\ more = NoLines],
           NEW assigned, NEW partial,
           batch' = [batch EXCEPT !.todo = @ \ {m}, !.assigned = assigned, !.partial = partial],
           \/ Total(more) = Need(m) /\ assigned = batch.assigned \cup {m} /\ partial = batch.partial
           \/ Total(more) \in 1 .. Need(m) - 1 /\ assigned = batch.assigned /\ partial = batch.partial \cup {m}
           \/ Total(more) = 0 /\ assigned = batch.assigned /\ partial = batch.partial
    PROVE  AddedAndSorted(m, more) /\ BatchTypes'
  <1>1. batch.todo \ {m} \in SUBSET Move /\ assigned \in SUBSET Move /\ partial \in SUBSET Move
    BY DEF BatchTypes
  <1>2. /\ batch'.open = batch.open /\ batch'.todo = batch.todo \ {m}
        /\ batch'.assigned = assigned /\ batch'.partial = partial
    BY DEF BatchTypes
  <1>3. BatchTypes'
    BY <1>1 DEF BatchTypes
  <1> QED BY <1>2, <1>3 DEF AddedAndSorted

\* The three branches of _action_assign add and sort what they find modestly.
LEMMA BranchesAdd ==
    ASSUME StockInv, NEW m \in Move, plan' = plan,
           AssignBypass(m) \/ AssignFromStock(m) \/ AssignChained(m), ~overdrawn'
    PROVE  /\ m \in batch.todo /\ BatchTypes'
           /\ \E more \in Lines : /\ Total(more) <= Need(m) /\ AddedAndSorted(m, more)
                                  /\ \A q \in Quant : more[q] = 0 \/ more[q] <= Free(q)
  <1>1. plan \in Plan /\ MoveTypes /\ QuantTypes /\ BroughtTypes /\ BatchTypes
        /\ Need(m) \in Nat
    BY NeedType DEF StockInv, ReservationTypes
  <1>2. CASE AssignBypass(m)
    <2> DEFINE more == [NoLines EXCEPT ![0] = Need(m)]
    <2>1. more \in Lines /\ Total(more) = Need(m) /\ \A q \in Quant : more[q] = 0
      <3>1. /\ NoLines \in [Line -> Int] /\ more \in [Line -> Int] /\ more \in Lines
            /\ \A q \in Line \ {0} : more[q] = NoLines[q]
            /\ NoLines[0] = 0 /\ more[0] = Need(m) /\ \A q \in Quant : more[q] = 0
        BY <1>1, StockFacts DEF NoLines, Lines, Line
      <3> HIDE DEF more
      <3>2. Total(more) = Total(NoLines) - NoLines[0] + more[0]
        BY <3>1, StockFacts, TotalExcept
      <3> QED BY <1>1, <3>1, <3>2, NoLinesTotal
    <2>2. m \in batch.todo /\ Assign(m, more, TRUE, FALSE)
      BY <1>2 DEF AssignBypass
    <2> HIDE DEF more
    <2>3. AddedAndSorted(m, more) /\ BatchTypes'
      <3> DEFINE assigned == IF TRUE THEN batch.assigned \cup {m} ELSE batch.assigned
                 partial == IF FALSE /\ ~TRUE THEN batch.partial \cup {m} ELSE batch.partial
      <3>1. /\ quant' = Reserve(more) /\ UNCHANGED <<plan, brought>>
            /\ move' = [move EXCEPT ![m].line = Plus(@, more), ![m].filled = @ /\ more = NoLines]
            /\ batch' = [batch EXCEPT !.todo = @ \ {m}, !.assigned = assigned, !.partial = partial]
        BY <2>2 DEF Assign
      <3>2. \/ Total(more) = Need(m) /\ assigned = batch.assigned \cup {m} /\ partial = batch.partial
            \/ Total(more) \in 1 .. Need(m) - 1 /\ assigned = batch.assigned /\ partial = batch.partial \cup {m}
            \/ Total(more) = 0 /\ assigned = batch.assigned /\ partial = batch.partial
        BY <2>1, <1>1
      <3> HIDE DEF assigned, partial
      <3> QED BY <3>1, <3>2, <1>1, AssignSorts
    <2>4. Total(more) <= Need(m)
      BY <1>1, <2>1
    <2> QED BY <2>1, <2>2, <2>3, <2>4
  <1>3. CASE AssignFromStock(m)
    <2> DEFINE more == TakenInOrder(Need(m))
    <2>1. m \in batch.todo /\ Assign(m, more, Total(more) = Need(m), Total(more) > 0)
      BY <1>3 DEF AssignFromStock
    <2>2. Modest(more, Need(m))
      BY <1>1, TakenModest
    <2> HIDE DEF more
    <2>3. Total(more) \in Nat /\ Total(more) <= Need(m) /\ more \in Lines
      BY <2>2, LinesTotal DEF Modest
    <2>4. AddedAndSorted(m, more) /\ BatchTypes'
      <3> DEFINE assigned == IF Total(more) = Need(m) THEN batch.assigned \cup {m} ELSE batch.assigned
                 partial == IF Total(more) > 0 /\ ~(Total(more) = Need(m)) THEN batch.partial \cup {m} ELSE batch.partial
      <3>1. /\ quant' = Reserve(more) /\ UNCHANGED <<plan, brought>>
            /\ move' = [move EXCEPT ![m].line = Plus(@, more), ![m].filled = @ /\ more = NoLines]
            /\ batch' = [batch EXCEPT !.todo = @ \ {m}, !.assigned = assigned, !.partial = partial]
        BY <2>1 DEF Assign
      <3>2. \/ Total(more) = Need(m) /\ assigned = batch.assigned \cup {m} /\ partial = batch.partial
            \/ Total(more) \in 1 .. Need(m) - 1 /\ assigned = batch.assigned /\ partial = batch.partial \cup {m}
            \/ Total(more) = 0 /\ assigned = batch.assigned /\ partial = batch.partial
        BY <2>3, <1>1
      <3> HIDE DEF assigned, partial
      <3> QED BY <3>1, <3>2, <1>1, AssignSorts
    <2> QED BY <2>1, <2>2, <2>3, <2>4 DEF Modest
  <1>4. CASE AssignChained(m)
    <2> DEFINE upto == CHOOSE f : Taken(m, f)
               more == upto[Lots].more
               done == upto[Lots].done
               some == upto[Lots].some
    <2>1. /\ m \in batch.todo /\ Group[m] # NoGroup /\ \A q \in Shared(m) : ~(Share(m, q) < 0)
          /\ Assign(m, more, done, some)
      BY <1>4 DEF AssignChained, Taken
    <2>2. TakenSofar(m, upto[Lots], Lots)
      <3> HIDE DEF upto
      <3>1. upto = CHOOSE f : Taken(m, f)
        BY DEF upto
      <3>2. \A q \in Shared(m) : Share(m, q) >= 0
        BY <1>1, <2>1, ShareType DEF Shared
      <3> QED BY <3>1, <3>2, <1>1, <2>1, ChainedModest
    <2>3. /\ more \in Lines /\ done \in BOOLEAN /\ some \in BOOLEAN /\ Total(more) <= Need(m)
          /\ done => Total(more) = Need(m)
          /\ ~done /\ some => Total(more) \in 1 .. Need(m) - 1
          /\ ~done /\ ~some => Total(more) = 0
          /\ \A q \in Quant : more[q] <= Free(q)
      <3> HIDE DEF upto
      <3> QED BY <2>2 DEF TakenSofar, Sofar
    <2> HIDE DEF upto, more, done, some
    <2>4. AddedAndSorted(m, more) /\ BatchTypes'
      <3> DEFINE assigned == IF done THEN batch.assigned \cup {m} ELSE batch.assigned
                 partial == IF some /\ ~done THEN batch.partial \cup {m} ELSE batch.partial
      <3>1. /\ quant' = Reserve(more) /\ UNCHANGED <<plan, brought>>
            /\ move' = [move EXCEPT ![m].line = Plus(@, more), ![m].filled = @ /\ more = NoLines]
            /\ batch' = [batch EXCEPT !.todo = @ \ {m}, !.assigned = assigned, !.partial = partial]
        BY <2>1 DEF Assign
      <3>2. \/ Total(more) = Need(m) /\ assigned = batch.assigned \cup {m} /\ partial = batch.partial
            \/ Total(more) \in 1 .. Need(m) - 1 /\ assigned = batch.assigned /\ partial = batch.partial \cup {m}
            \/ Total(more) = 0 /\ assigned = batch.assigned /\ partial = batch.partial
        BY <2>3
      <3> HIDE DEF assigned, partial
      <3> QED BY <3>1, <3>2, <1>1, AssignSorts
    <2> QED BY <2>1, <2>3, <2>4
  <1> QED BY <1>2, <1>3, <1>4
\* Steps that leave every line, and what will become of every move, alone.
LEMMA LinesKept ==
    ASSUME StockInv, plan' = plan, QuantTypes', MoveTypes', BatchTypes', BroughtTypes', Sorted',
           \A q \in Quant : quant'[q].reserved = quant[q].reserved,
           \A m \in Move : /\ move'[m].line = move[m].line /\ move'[m].out = move[m].out
                           /\ (move'[m].state = "done") <=> (move[m].state = "done")
                           /\ Coming(m)' = Coming(m)
    PROVE  StockInv'
  <1>1. ReservationTypes' /\ Demand' = Demand /\ Import' = Import
    BY DEF StockInv, ReservationTypes, Demand, Import
  <1>2. ReservationsBacked'
    BY BackedKept DEF StockInv
  <1>3. \A m \in Move : Within(m)' /\ Need(m)' = Need(m)
    BY MoveKept DEF StockInv
  <1>4. ASSUME Import = {}, NEW m \in Move PROVE Agrees(m, Coming(m))'
    <2>1. Agrees(m, Coming(m))
      BY <1>4 DEF StockInv
    <2> QED BY <2>1, <1>1, <1>3 DEF Agrees
  <1> QED BY <1>1, <1>2, <1>3, <1>4 DEF StockInv

\* The lines of a move are given back, taken away or replaced.
LEMMA ReplacedKeeps ==
    ASSUME StockInv, UNCHANGED <<plan, brought, batch>>, ~Busy, NEW m \in Move,
           QuantTypes', MoveTypes', \A x \in Move \ {m} : move'[x] = move[x],
           \A q \in Quant : quant'[q].reserved = quant[q].reserved - Least(quant[q].reserved, move[m].line[q]),
           Total(move'[m].line) <= Demand[m], Total(move'[m].out) <= Demand[m],
           IF move'[m].state = "done" THEN move'[m].line = NoLines ELSE move'[m].out = NoLines,
           Import = {} => move'[m].line = NoLines /\ move'[m].state \in {"confirmed", "done"}
    PROVE  StockInv'
  <1>1. ReservationTypes' /\ Demand' = Demand /\ Import' = Import
    BY DEF StockInv, ReservationTypes, BatchTypes, BroughtTypes, Demand, Import, Groups, Group
  <1>2. Sorted' /\ \A x \in Move : Coming(x) = move[x].state /\ Coming(x)' = move'[x].state
    BY DEF StockInv, Sorted, Busy, NoBatch, Coming
  <1>3. ReservationsBacked'
    <2> SUFFICES ASSUME NEW q \in Quant
                 PROVE  /\ Import = {} => quant'[q].reserved = OnLines(q)'
                        /\ quant'[q].reserved \in 0 .. OnLines(q)'
      BY <1>1 DEF ReservationsBacked
    <2>1. q \in Line
      BY StockFacts
    <2>2. /\ OnLines(q) \in Nat /\ OnLines(q)' \in Nat /\ move[m].line[q] <= OnLines(q)
          /\ move[m].line[q] \in Nat /\ move'[m].line[q] \in Nat
          /\ OnLines(q)' = OnLines(q) - move[m].line[q] + move'[m].line[q]
      BY <2>1, OnLinesStep DEF StockInv, ReservationTypes
    <2>3. quant[q].reserved \in 0 .. OnLines(q) /\ (Import = {} => quant[q].reserved = OnLines(q))
      BY DEF StockInv, ReservationsBacked
    <2>4. Import = {} => move'[m].line[q] = 0
      BY <2>1 DEF NoLines, Line
    <2>5. quant'[q].reserved = quant[q].reserved - Least(quant[q].reserved, move[m].line[q])
      OBVIOUS
    <2> QED BY <2>2, <2>3, <2>4, <2>5 DEF Least
  <1>4. \A x \in Move : Within(x)'
    <2>1. Within(m)'
      BY <1>1 DEF Within
    <2>2. \A x \in Move \ {m} : Within(x)'
      BY MoveKept DEF StockInv
    <2> QED BY <2>1, <2>2
  <1>5. ASSUME Import = {}, NEW x \in Move PROVE Agrees(x, Coming(x))'
    <2>1. CASE x = m
      <3>1. Need(m)' = Demand[m] - 0 /\ Total(move'[m].line) = 0 /\ Demand[m] \in Nat
        BY <1>1, <1>5, NoLinesTotal, PlanFacts DEF Need, StockInv, ReservationTypes
      <3>2. Need(m)' = Demand[m] /\ Coming(m)' \in {"confirmed", "done"}
        BY <3>1, <1>2, <1>5
      <3> QED BY <3>1, <3>2, <2>1, <1>1 DEF Agrees
    <2>2. CASE x # m
      <3>1. Agrees(x, Coming(x)) /\ Coming(x)' = Coming(x) /\ Need(x)' = Need(x) /\ move'[x] = move[x]
        BY <2>2, <1>2, <1>5, MoveKept DEF StockInv
      <3> QED BY <3>1, <1>1 DEF Agrees
    <2> QED BY <2>1, <2>2
  <1> QED BY <1>1, <1>2, <1>3, <1>4, <1>5 DEF StockInv

\* What a move had reserved is freed on its quants.
LEMMA UnreservedQuants ==
    ASSUME QuantTypes, NEW line \in Lines
    PROVE  /\ Unreserved(line) \in [Quant -> [qty : Int, reserved : Nat]]
           /\ \A q \in Quant : /\ Unreserved(line)[q].qty = quant[q].qty
                               /\ Unreserved(line)[q].reserved = quant[q].reserved - Least(quant[q].reserved, line[q])
  <1>1. ASSUME NEW q \in Quant
        PROVE  /\ quant[q] \in [qty : Int, reserved : Nat]
               /\ quant[q].reserved - Least(quant[q].reserved, line[q]) \in Nat
    <2>1. quant[q] \in [qty : Int, reserved : Nat] /\ quant[q].reserved \in Nat /\ line[q] \in Nat
      BY LinesTotal, StockFacts DEF QuantTypes
    <2> QED BY <2>1 DEF Least
  <1>2. Unreserved(line) = [q \in Quant |-> [quant[q] EXCEPT !.reserved = quant[q].reserved - Least(quant[q].reserved, line[q])]]
    BY DEF Unreserved
  <1> QED BY <1>1, <1>2

\* A delivery takes its lines from the quants, and leaves them with the move.
LEMMA DeliveredKeeps ==
    ASSUME StockInv, NEW m \in Move, Delivered(m), ~Busy, move[m].state # "done",
           UNCHANGED <<plan, brought, batch>>
    PROVE  /\ StockInv'
           /\ \A q \in Quant : quant'[q].qty = quant[q].qty - move[m].line[q]
           /\ move'[m].line = NoLines /\ \A x \in Move \ {m} : move'[x] = move[x]
  <1> DEFINE line == move[m].line
  <1>1. line \in Lines /\ QuantTypes /\ MoveTypes /\ \A q \in Quant : line[q] \in Nat
    BY LinesTotal, StockFacts DEF StockInv, ReservationTypes, MoveTypes
  <1>2. quant' = [q \in Quant |-> [Unreserved(line)[q] EXCEPT !.qty = @ - line[q]]]
    BY DEF Delivered
  <1>3. /\ \A q \in Quant : /\ quant'[q] \in [qty : Int, reserved : Nat]
                            /\ quant'[q].qty = quant[q].qty - line[q]
                            /\ quant'[q].reserved = quant[q].reserved - Least(quant[q].reserved, line[q])
    <2> SUFFICES ASSUME NEW q \in Quant
                 PROVE  /\ quant'[q] \in [qty : Int, reserved : Nat]
                        /\ quant'[q].qty = quant[q].qty - line[q]
                        /\ quant'[q].reserved = quant[q].reserved - Least(quant[q].reserved, line[q])
      OBVIOUS
    <2> DEFINE u == Unreserved(line)[q]
               n == line[q]
    <2>1. /\ u \in [qty : Int, reserved : Nat] /\ u.qty = quant[q].qty /\ n \in Nat
          /\ u.reserved = quant[q].reserved - Least(quant[q].reserved, n)
      BY <1>1, UnreservedQuants
    <2>2. quant'[q] = [u EXCEPT !.qty = u.qty - n]
      BY <1>2
    <2> HIDE DEF u, n
    <2>3. quant'[q] \in [qty : Int, reserved : Nat] /\ quant'[q].qty = u.qty - n /\ quant'[q].reserved = u.reserved
      BY <2>1, <2>2
    <2> QED BY <2>1, <2>3 DEF n
  <1>4. move' = [move EXCEPT ![m].state = "done", ![m].out = line, ![m].line = NoLines]
    <2> DEFINE out == Plus(move[m].out, line)
    <2>1. move' = [move EXCEPT ![m].state = "done", ![m].out = out, ![m].line = NoLines]
      BY DEF Delivered
    <2>2. out = line
      <3>1. move[m].out = NoLines
        BY DEF StockInv, Within
      <3>2. \A q \in Line : NoLines[q] + line[q] = line[q]
        <4>1. \A q \in Line : NoLines[q] = 0
          BY DEF NoLines, Line
        <4>2. \A q \in Line : line[q] \in Nat
          BY <1>1 DEF Lines
        <4> HIDE DEF line
        <4> QED BY <4>1, <4>2
      <3>3. Plus(NoLines, line) = [q \in Line |-> NoLines[q] + line[q]]
        BY DEF Plus, NoLines, Line
      <3>4. line = [q \in Line |-> line[q]]
        BY <1>1 DEF Lines
      <3> HIDE DEF line
      <3> QED BY <3>1, <3>2, <3>3, <3>4
    <2> HIDE DEF out, line
    <2> QED BY <2>1, <2>2
  <1> HIDE DEF line
  <1>5. /\ MoveTypes' /\ \A x \in Move \ {m} : move'[x] = move[x]
        /\ move'[m].line = NoLines /\ move'[m].out = line /\ move'[m].state = "done"
    BY <1>1, <1>4, NoLinesTotal DEF MoveTypes, MoveState
  <1>6. QuantTypes'
    <2>1. quant' = [q \in Quant |-> quant'[q]]
      BY <1>2
    <2> QED BY <2>1, <1>3 DEF QuantTypes
  <1>7. Total(line) <= Demand[m] /\ Total(NoLines) <= Demand[m]
    BY NoLinesTotal, NeedType DEF StockInv, ReservationTypes, Within, line
  <1>8. StockInv'
    BY <1>3, <1>5, <1>6, <1>7, ReplacedKeeps DEF line
  <1> QED BY <1>3, <1>5, <1>8 DEF line

\* Lines are given back, and the move waits again.
LEMMA UnreserveKeeps ==
    ASSUME StockInv, NEW m \in Move, DoUnreserve(m), plan' = plan
    PROVE  /\ StockInv' /\ \A q \in Quant : quant'[q].qty = quant[q].qty
           /\ move'[m].line = NoLines /\ \A x \in Move \ {m} : move'[x] = move[x]
  <1>1. /\ ~Busy /\ move[m].state # "done" /\ UNCHANGED <<plan, brought, batch>>
        /\ quant' = Unreserved(move[m].line)
        /\ move' = [move EXCEPT ![m].line = NoLines, ![m].filled = FALSE, ![m].state = "confirmed"]
    BY DEF DoUnreserve
  <1>2. move[m].line \in Lines /\ QuantTypes /\ MoveTypes
    BY DEF StockInv, ReservationTypes, MoveTypes
  <1>3. /\ QuantTypes' /\ \A q \in Quant : quant'[q].qty = quant[q].qty
        /\ \A q \in Quant : quant'[q].reserved = quant[q].reserved - Least(quant[q].reserved, move[m].line[q])
    BY <1>1, <1>2, UnreservedQuants DEF QuantTypes
  <1>4. /\ MoveTypes' /\ \A x \in Move \ {m} : move'[x] = move[x]
        /\ move'[m].line = NoLines /\ move'[m].out = move[m].out /\ move'[m].state = "confirmed"
    BY <1>1, <1>2, NoLinesTotal DEF MoveTypes, MoveState
  <1>5. move[m].out = NoLines /\ Total(NoLines) <= Demand[m]
    BY <1>1, NoLinesTotal, NeedType DEF StockInv, ReservationTypes, Within
  <1>6. StockInv'
    BY <1>1, <1>3, <1>4, <1>5, ReplacedKeeps
  <1> QED BY <1>3, <1>4, <1>6

\* An import replaces the lines by as many as there are serials in the file.
LEMMA InputKeeps ==
    ASSUME StockInv, NEW m \in Move, NEW serials \in SUBSET Quant, InputFile(m, serials), plan' = plan
    PROVE  StockInv'
  <1> DEFINE line == [q \in Line |-> IF q \in serials THEN 1 ELSE 0]
  <1>1. /\ ~Busy /\ m \in Import /\ move[m].state # "done" /\ Cardinality(serials) <= Demand[m]
        /\ quant' = Unreserved(move[m].line) /\ UNCHANGED <<plan, brought, batch>>
        /\ move' = [move EXCEPT ![m].line = line, ![m].filled = TRUE, ![m].state = "assigned"]
    BY DEF InputFile, FileFits, Line
  <1>2. move[m].line \in Lines /\ QuantTypes /\ MoveTypes
    BY DEF StockInv, ReservationTypes, MoveTypes
  <1>3. line \in Lines /\ Total(line) = Cardinality(serials)
    <2>1. Line \cap serials = serials
      BY StockFacts
    <2> QED BY <2>1, StockFacts, TotalIndicator DEF Lines
  <1> HIDE DEF line
  <1>4. /\ QuantTypes'
        /\ \A q \in Quant : quant'[q].reserved = quant[q].reserved - Least(quant[q].reserved, move[m].line[q])
    BY <1>1, <1>2, UnreservedQuants DEF QuantTypes
  <1>5. /\ MoveTypes' /\ \A x \in Move \ {m} : move'[x] = move[x]
        /\ move'[m].line = line /\ move'[m].out = move[m].out /\ move'[m].state = "assigned"
    BY <1>1, <1>2, <1>3 DEF MoveTypes, MoveState
  <1>6. move[m].out = NoLines /\ Total(NoLines) <= Demand[m]
    BY <1>1, NoLinesTotal, NeedType DEF StockInv, ReservationTypes, Within
  <1> QED BY <1>1, <1>3, <1>4, <1>5, <1>6, ReplacedKeeps

-----------------------------------------------------------------------------
(* The other steps, and all of them.                                       *)

\* Nothing happens to the lines at the beginning and the end of a run.
LEMMA RunKeeps ==
    ASSUME StockInv, plan' = plan, EndAssign \/ \E moves \in SUBSET Move : ActionAssign(moves)
    PROVE  StockInv'
  <1>1. MoveTypes /\ BatchTypes /\ QuantTypes /\ BroughtTypes
    BY DEF StockInv, ReservationTypes
  <1>2. CASE EndAssign
    <2>1. /\ UNCHANGED <<quant, brought>> /\ batch' = NoBatch
          /\ move' = [m \in Move |-> IF m \in batch.assigned THEN [move[m] EXCEPT !.state = "assigned"]
                                     ELSE IF m \in batch.partial THEN [move[m] EXCEPT !.state = "partially_available"]
                                     ELSE move[m]]
      BY <1>2 DEF EndAssign
    <2>2. ASSUME NEW m \in Move
          PROVE  /\ move'[m] \in [state : MoveState, line : Lines, out : Lines, filled : BOOLEAN]
                 /\ move'[m].line = move[m].line /\ move'[m].out = move[m].out /\ move'[m].state = Coming(m)
      <3>1. move[m] \in [state : MoveState, line : Lines, out : Lines, filled : BOOLEAN]
        BY <1>1 DEF MoveTypes
      <3>2. CASE m \in batch.assigned
        BY <2>1, <3>1, <3>2 DEF Coming, MoveState
      <3>3. CASE m \notin batch.assigned /\ m \in batch.partial
        BY <2>1, <3>1, <3>3 DEF Coming, MoveState
      <3>4. CASE m \notin batch.assigned /\ m \notin batch.partial
        BY <2>1, <3>1, <3>4 DEF Coming
      <3> QED BY <3>2, <3>3, <3>4
    <2>3. MoveTypes'
      <3>1. move' = [m \in Move |-> move'[m]]
        BY <2>1
      <3> QED BY <3>1, <2>2 DEF MoveTypes
    <2>4. \A m \in Move : /\ (move'[m].state = "done") <=> (move[m].state = "done")
                          /\ Coming(m)' = Coming(m)
      BY <2>1, <2>2 DEF Coming, StockInv, Sorted, NoBatch
    <2>5. BatchTypes' /\ Sorted' /\ QuantTypes' /\ BroughtTypes'
      BY <2>1, <1>1 DEF BatchTypes, Sorted, NoBatch, Busy, QuantTypes, BroughtTypes, Groups, Group
    <2> QED BY <2>1, <2>2, <2>3, <2>4, <2>5, LinesKept
  <1>3. ASSUME NEW moves \in SUBSET Move, ActionAssign(moves) PROVE StockInv'
    <2> DEFINE todo == {m \in moves : move[m].state \in {"confirmed", "partially_available"}}
    <2>1. ~Busy /\ UNCHANGED <<quant, move, brought>> /\ batch = NoBatch
          /\ batch' = [NoBatch EXCEPT !.open = TRUE, !.todo = todo]
      BY <1>3 DEF ActionAssign, StockInv, Sorted
    <2>2. todo \in SUBSET Move /\ \A m \in todo : move[m].state \in {"confirmed", "partially_available"}
      OBVIOUS
    <2> HIDE DEF todo
    <2>3. /\ batch'.open = TRUE /\ batch'.todo = todo /\ batch'.assigned = {} /\ batch'.partial = {}
          /\ BatchTypes'
      BY <2>1, <2>2 DEF NoBatch, BatchTypes
    <2>4. Sorted'
      BY <2>1, <2>2, <2>3 DEF Sorted, Busy
    <2>5. \A m \in Move : Coming(m)' = Coming(m)
      BY <2>1, <2>3 DEF Coming, NoBatch
    <2>6. MoveTypes' /\ QuantTypes' /\ BroughtTypes'
      BY <2>1, <1>1 DEF MoveTypes, QuantTypes, BroughtTypes, Groups, Group
    <2> QED BY <2>1, <2>3, <2>4, <2>5, <2>6, LinesKept
  <1> QED BY <1>2, <1>3

\* Nor when a quantity done is entered, or stock is counted or arrives.
LEMMA CountsKeep ==
    ASSUME StockInv, plan' = plan,
           \/ \E m \in Move : EnterDone(m)
           \/ \E q \in Quant : \/ Recount(q, 1) \/ Recount(q, -1)
                               \/ \E g \in Groups : OriginDone(g, q)
    PROVE  StockInv'
  <1>1. MoveTypes /\ BatchTypes /\ QuantTypes /\ BroughtTypes
    BY DEF StockInv, ReservationTypes
  <1>2. ASSUME NEW m \in Move, EnterDone(m) PROVE StockInv'
    <2>1. UNCHANGED <<quant, brought, batch>> /\ move' = [move EXCEPT ![m].filled = TRUE]
      BY <1>2 DEF EnterDone
    <2>2. MoveTypes' /\ \A x \in Move : /\ move'[x].line = move[x].line /\ move'[x].out = move[x].out
                                        /\ move'[x].state = move[x].state
      BY <2>1, <1>1 DEF MoveTypes
    <2>3. BatchTypes' /\ QuantTypes' /\ BroughtTypes' /\ Sorted'
      BY <2>1, <2>2, <1>1 DEF BatchTypes, QuantTypes, BroughtTypes, Groups, Group, Sorted, Busy, StockInv
    <2>4. \A x \in Move : Coming(x)' = Coming(x)
      BY <2>1, <2>2 DEF Coming
    <2> QED BY <2>1, <2>2, <2>3, <2>4, LinesKept
  <1>3. ASSUME NEW q \in Quant, NEW n \in {-1, 1}, quant' = [quant EXCEPT ![q].qty = @ + n],
               move' = move, batch' = batch, BroughtTypes'
        PROVE  StockInv'
    <2>1. QuantTypes' /\ \A p \in Quant : quant'[p].reserved = quant[p].reserved
      BY <1>1, <1>3 DEF QuantTypes
    <2>2. MoveTypes' /\ BatchTypes' /\ Sorted' /\ \A x \in Move : Coming(x)' = Coming(x)
      BY <1>1, <1>3 DEF MoveTypes, BatchTypes, Sorted, Busy, StockInv, Coming
    <2> QED BY <2>1, <2>2, <1>3, LinesKept
  <1>4. ASSUME NEW q \in Quant, Recount(q, 1) \/ Recount(q, -1) PROVE StockInv'
    <2>1. brought' = brought /\ move' = move /\ batch' = batch
          /\ \E n \in {-1, 1} : quant' = [quant EXCEPT ![q].qty = @ + n]
      BY <1>4 DEF Recount
    <2>2. BroughtTypes'
      BY <2>1, <1>1 DEF BroughtTypes, Groups, Group
    <2> QED BY <2>1, <2>2, <1>3
  <1>5. ASSUME NEW q \in Quant, NEW g \in Groups, OriginDone(g, q) PROVE StockInv'
    <2>1. brought' = [brought EXCEPT ![g][q] = @ + 1] /\ move' = move /\ batch' = batch
          /\ quant' = [quant EXCEPT ![q].qty = @ + 1]
      BY <1>5 DEF OriginDone
    <2>2. BroughtTypes'
      <3>1. Groups' = Groups
        BY DEF Groups, Group
      <3>2. brought' \in [Groups -> [Quant -> Int]]
        BY <2>1, <1>1 DEF BroughtTypes
      <3> QED BY <3>1, <3>2 DEF BroughtTypes
    <2> QED BY <2>1, <2>2, <1>3
  <1> QED BY <1>2, <1>4, <1>5

\* Every step keeps the invariant, until siblings take too much.
LEMMA StepStock == StockInv /\ [ReservationNext]_svars /\ ~overdrawn' => StockInv'
  <1> SUFFICES ASSUME StockInv, [ReservationNext]_svars, ~overdrawn' PROVE StockInv'
    OBVIOUS
  <1>1. plan' = plan
    BY DEF ReservationNext, svars
  <1>2. ASSUME UNCHANGED <<quant, move, brought, batch>> PROVE StockInv'
    <2>1. ReservationTypes' /\ Sorted' /\ \A m \in Move : Coming(m)' = Coming(m)
      BY <1>1, <1>2 DEF StockInv, ReservationTypes, QuantTypes, MoveTypes, BatchTypes, BroughtTypes,
                        Groups, Group, Sorted, Busy, Coming
    <2> QED BY <2>1, <1>1, <1>2, LinesKept DEF ReservationTypes
  <1>3. ASSUME NEW m \in Move, AssignBypass(m) \/ AssignFromStock(m) \/ AssignChained(m) PROVE StockInv'
    BY <1>1, <1>3, BranchesAdd, AddedKeeps
  <1>4. ASSUME Assigning PROVE StockInv'
    BY <1>1, <1>3, <1>4, RunKeeps DEF Assigning
  <1>5. ASSUME NEW m \in Move, Users(m) PROVE StockInv'
    <2>1. CASE Validate(m)
      BY <2>1, <1>1, DeliveredKeeps DEF Validate
    <2>2. CASE DoUnreserve(m)
      BY <2>2, <1>1, UnreserveKeeps
    <2>3. CASE EnterDone(m)
      BY <2>3, <1>1, CountsKeep
    <2>4. CASE DoButtonValidateJob(m)
      BY <2>4, <1>2 DEF DoButtonValidateJob
    <2>5. CASE ButtonValidateJob(m)
      BY <2>5, <1>1, <1>2, DeliveredKeeps DEF ButtonValidateJob
    <2>6. CASE \E serials \in SUBSET Quant : InputFile(m, serials)
      BY <2>6, <1>1, InputKeeps
    <2> QED BY <2>1, <2>2, <2>3, <2>4, <2>5, <2>6, <1>5 DEF Users
  <1> QED BY <1>1, <1>2, <1>4, <1>5, CountsKeep DEF ReservationNext, svars

\* At first nothing is reserved.
LEMMA InitStock == ReservationInit => StockInv
  <1> SUFFICES ASSUME ReservationInit PROVE StockInv
    OBVIOUS
  <1>1. ReservationTypes
    BY NoLinesTotal DEF ReservationInit, ReservationTypes, QuantTypes, MoveTypes, MoveState, BatchTypes, BroughtTypes, NoBatch
  <1>2. Sorted
    BY DEF ReservationInit, Sorted, NoBatch
  <1>3. \A m \in Move : move[m].line = NoLines /\ move[m].out = NoLines /\ move[m].state = "confirmed"
    BY DEF ReservationInit
  <1>4. ReservationsBacked
    <2>1. ASSUME NEW q \in Quant PROVE OnLines(q) = 0
      <3> DEFINE f == [m \in Move |-> move[m].line[q]]
      <3>1. q \in Line
        BY StockFacts
      <3>2. \A m \in Move : move[m].line[q] = 0
        BY <3>1, <1>3 DEF NoLines, Line
      <3>3. f \in [Move -> Int] /\ \A m \in Move : f[m] = 0
        BY <3>2
      <3>4. Total(f) = 0
        <4> HIDE DEF f
        <4> QED BY <3>3, StockFacts, TotalZero
      <3> QED BY <3>4 DEF OnLines
    <2>2. \A q \in Quant : quant[q].reserved = 0
      BY DEF ReservationInit
    <2> QED BY <2>1, <2>2 DEF ReservationsBacked
  <1>5. ASSUME NEW m \in Move PROVE Within(m) /\ Agrees(m, Coming(m))
    <2>1. Demand[m] \in Nat /\ Demand[m] > 0
      BY <1>1, PlanFacts DEF ReservationTypes
    <2>2. Coming(m) = "confirmed"
      BY <1>3 DEF ReservationInit, Coming, NoBatch
    <2>3. Total(move[m].line) = 0 /\ Total(move[m].out) = 0 /\ Need(m) = Demand[m]
      BY <2>1, <1>3, NoLinesTotal DEF Need
    <2> QED BY <2>1, <2>2, <2>3, <1>3 DEF Within, Agrees
  <1> QED BY <1>1, <1>2, <1>4, <1>5 DEF StockInv
-----------------------------------------------------------------------------
(* The ledger.                                                             *)

\* The ledger adds as the reservation does.
LEMMA LedgerTotal == ASSUME NEW f PROVE Ledger!Total(f) = Total(f)
  BY DEF Ledger!Total, Total, Ledger!MapThenSumSet, MapThenSumSet, Ledger!MapThenFoldSet, MapThenFoldSet

\* What nobody has claimed of a quant, when its reservations are the lines.
LEMMA UnclaimedFree ==
    ASSUME StockInv, Import = {}, NEW q \in Quant
    PROVE  Ledger!Unclaimed(q) = quant[q].qty - quant[q].reserved
  <1> DEFINE claims == [m \in Move |-> [p \in Quant |-> move[m].line[p]][q]]
             lines == [m \in Move |-> move[m].line[q]]
  <1>1. claims = lines
    OBVIOUS
  <1>2. Ledger!Unclaimed(q) = quant[q].qty - Total(claims)
    BY LedgerTotal DEF Ledger!Unclaimed
  <1>3. OnLines(q) = Total(lines) /\ quant[q].reserved = OnLines(q)
    BY DEF OnLines, StockInv, ReservationsBacked
  <1> HIDE DEF claims, lines
  <1> QED BY <1>1, <1>2, <1>3

\* The lines of other moves are the claims of others.
LEMMA OthersSame ==
    ASSUME NEW m \in Move, \A x \in Move \ {m} : move'[x].line = move[x].line
    PROVE  Ledger!Others(m)
  BY DEF Ledger!Others

\* A run of _action_assign claims for one move what nobody has claimed.
LEMMA BranchClaims ==
    ASSUME StockInv, Import = {}, NEW m \in Move, plan' = plan, ~overdrawn',
           AssignBypass(m) \/ AssignFromStock(m) \/ AssignChained(m)
    PROVE  Ledger!Claim(m)
  <1>1. PICK more \in Lines : AddedAndSorted(m, more) /\ \A q \in Quant : more[q] = 0 \/ more[q] <= Free(q)
    BY BranchesAdd
  <1>2. quant' = Reserve(more) /\ move' = [move EXCEPT ![m].line = Plus(@, more), ![m].filled = @ /\ more = NoLines]
    BY <1>1 DEF AddedAndSorted
  <1>3. QuantTypes /\ MoveTypes /\ move[m].line \in Lines
    BY DEF StockInv, ReservationTypes, MoveTypes
  <1>4. /\ move'[m].line = Plus(move[m].line, more)
        /\ \A x \in Move \ {m} : move'[x].line = move[x].line
    BY <1>2, <1>3 DEF MoveTypes
  <1>5. ASSUME NEW q \in Quant
        PROVE  /\ move'[m].line[q] = move[m].line[q] + more[q] /\ move[m].line[q] \in Nat /\ more[q] \in Nat
               /\ quant'[q].qty = quant[q].qty
               /\ more[q] # 0 => more[q] \in 1 .. Ledger!Unclaimed(q)
    <2>1. q \in Line
      BY StockFacts
    <2>2. move[m].line[q] \in Nat /\ more[q] \in Nat
      BY <2>1, <1>3, LinesTotal
    <2>3. Plus(move[m].line, more)[q] = move[m].line[q] + more[q]
      BY <2>1, <1>3, PlusTotal
    <2>4. quant'[q].qty = quant[q].qty
      BY <1>2, <1>3 DEF Reserve, QuantTypes
    <2>5. ASSUME more[q] # 0 PROVE more[q] \in 1 .. Ledger!Unclaimed(q)
      <3>1. more[q] <= Free(q)
        BY <1>1, <2>5
      <3>2. Free(q) \in Nat /\ (Free(q) > 0 => Free(q) = quant[q].qty - quant[q].reserved)
        BY <1>3, FreeType
      <3>3. Ledger!Unclaimed(q) = quant[q].qty - quant[q].reserved
        BY UnclaimedFree
      <3>4. Free(q) > 0
        BY <2>2, <2>5, <3>1, <3>2
      <3> QED BY <2>2, <2>5, <3>1, <3>2, <3>3, <3>4
    <2> QED BY <1>4, <2>2, <2>3, <2>4, <2>5
  <1>6. \A p \in Quant :
          LET before == [q \in Quant |-> move[m].line[q]][p]
              after == [q \in Quant |-> move'[m].line[q]][p]
          IN  after # before => after - before \in 1 .. Ledger!Unclaimed(p)
    <2> SUFFICES ASSUME NEW p \in Quant, move'[m].line[p] # move[m].line[p]
                 PROVE  move'[m].line[p] - move[m].line[p] \in 1 .. Ledger!Unclaimed(p)
      OBVIOUS
    <2>1. move'[m].line[p] - move[m].line[p] = more[p] /\ more[p] # 0
      BY <1>5
    <2> QED BY <2>1, <1>5
  <1>7. [q \in Quant |-> quant[q].qty]' = [q \in Quant |-> quant[q].qty]
    BY <1>5
  <1>8. Ledger!Others(m)
    BY <1>4, OthersSame
  <1> QED BY <1>6, <1>7, <1>8 DEF Ledger!Claim

\* The end of a run, and entering quantities, claim nothing.
LEMMA NothingClaims ==
    ASSUME NEW m \in Move, quant' = quant, \A x \in Move : move'[x].line = move[x].line
    PROVE  Ledger!Claim(m)
  <1>1. Ledger!Others(m)
    BY OthersSame
  <1> QED BY <1>1 DEF Ledger!Claim

\* A step takes what the ledger allows, when nobody imports serial numbers.
LEMMA StepLedger ==
    StockInv /\ [ReservationNext]_svars /\ ~overdrawn'
      => [Import # {} \/ overdrawn' \/ Ledger!LedgerNext]_<<quant, move>>
  <1> SUFFICES ASSUME StockInv, ReservationNext, Import = {}, ~overdrawn', ~UNCHANGED <<quant, move>>
               PROVE  Ledger!LedgerNext
    BY DEF svars
  <1>1. plan' = plan /\ QuantTypes /\ MoveTypes
    BY DEF ReservationNext, StockInv, ReservationTypes
  <1>2. ASSUME Assigning PROVE Ledger!LedgerNext
    <2>1. CASE \E moves \in SUBSET Move : ActionAssign(moves)
      BY <2>1 DEF ActionAssign
    <2>2. CASE \E m \in Move : AssignBypass(m) \/ AssignFromStock(m) \/ AssignChained(m)
      BY <2>2, <1>1, BranchClaims DEF Ledger!LedgerNext
    <2>3. CASE EndAssign
      <3>1. quant' = quant /\ move' = [m \in Move |-> IF m \in batch.assigned THEN [move[m] EXCEPT !.state = "assigned"]
                               ELSE IF m \in batch.partial THEN [move[m] EXCEPT !.state = "partially_available"]
                               ELSE move[m]]
        BY <2>3 DEF EndAssign
      <3>2. ASSUME NEW x \in Move PROVE move'[x].line = move[x].line
        <4>1. move[x] \in [state : MoveState, line : Lines, out : Lines, filled : BOOLEAN]
          BY <1>1 DEF MoveTypes
        <4> QED BY <3>1, <4>1
      <3>3. Move # {}
        <4> SUFFICES ASSUME Move = {} PROVE FALSE
          OBVIOUS
        <4>1. move = [m \in {} |-> 0] /\ move' = [m \in {} |-> 0]
          BY <1>1, <3>1 DEF MoveTypes
        <4> QED BY <4>1, <3>1
      <3> QED BY <3>1, <3>2, <3>3, NothingClaims DEF Ledger!LedgerNext
    <2> QED BY <1>2, <2>1, <2>2, <2>3 DEF Assigning
  <1>3. ASSUME NEW m \in Move, \A x \in Move \ {m} : move'[x] = move[x], move'[m].line = NoLines,
               \/ \A q \in Quant : quant'[q].qty = quant[q].qty
               \/ \A q \in Quant : quant'[q].qty = quant[q].qty - move[m].line[q]
        PROVE  Ledger!LedgerNext
    <2>1. Ledger!Others(m)
      BY <1>3, OthersSame
    <2>2. \A p \in Quant : [q \in Quant |-> move'[m].line[q]][p] = 0
      BY <1>3, StockFacts DEF NoLines, Line
    <2>3. CASE \A q \in Quant : quant'[q].qty = quant[q].qty
      <3>1. Ledger!Release(m)
        BY <2>1, <2>2, <2>3 DEF Ledger!Release
      <3> QED BY <3>1 DEF Ledger!LedgerNext
    <2>4. CASE \A q \in Quant : quant'[q].qty = quant[q].qty - move[m].line[q]
      <3>1. Ledger!Deliver(m)
        BY <2>1, <2>2, <2>4 DEF Ledger!Deliver
      <3> QED BY <3>1 DEF Ledger!LedgerNext
    <2> QED BY <1>3, <2>3, <2>4
  <1>4. ASSUME NEW m \in Move, Users(m) PROVE Ledger!LedgerNext
    <2>1. CASE Validate(m)
      BY <2>1, <1>1, <1>3, DeliveredKeeps DEF Validate
    <2>2. CASE DoUnreserve(m)
      BY <2>2, <1>1, <1>3, UnreserveKeeps
    <2>3. CASE EnterDone(m)
      <3>1. quant' = quant /\ \A x \in Move : move'[x].line = move[x].line
        BY <2>3, <1>1 DEF EnterDone, MoveTypes
      <3> QED BY <3>1, NothingClaims DEF Ledger!LedgerNext
    <2>4. CASE DoButtonValidateJob(m)
      BY <2>4 DEF DoButtonValidateJob
    <2>5. CASE ButtonValidateJob(m)
      BY <2>5, <1>1, <1>3, DeliveredKeeps DEF ButtonValidateJob
    <2>6. CASE \E serials \in SUBSET Quant : InputFile(m, serials)
      BY <2>6 DEF InputFile
    <2> QED BY <1>4, <2>1, <2>2, <2>3, <2>4, <2>5, <2>6 DEF Users
  <1>5. ASSUME NEW q \in Quant, Recount(q, 1) \/ Recount(q, -1) \/ \E g \in Groups : OriginDone(g, q)
        PROVE  Ledger!LedgerNext
    <2>1. move' = move /\ \E n \in {-1, 1} : quant' = [quant EXCEPT ![q].qty = @ + n]
      BY <1>5 DEF Recount, OriginDone
    <2>2. \A p \in Quant \ {q} : quant'[p] = quant[p]
      BY <2>1, <1>1 DEF QuantTypes
    <2>3. Ledger!Count(q)
      BY <2>1, <2>2 DEF Ledger!Count
    <2> QED BY <2>3 DEF Ledger!LedgerNext
  <1> QED BY <1>2, <1>4, <1>5 DEF ReservationNext

\* At first nothing is claimed.
LEMMA InitLedger == ReservationInit => Ledger!LedgerInit
  <1> SUFFICES ASSUME ReservationInit, NEW p \in Quant, NEW m \in Move
               PROVE  [q \in Quant |-> move[m].line[q]][p] = 0
    BY DEF Ledger!LedgerInit
  <1>1. p \in Line /\ move[m].line = NoLines
    BY StockFacts DEF ReservationInit
  <1> QED BY <1>1 DEF NoLines, Line

-----------------------------------------------------------------------------
(* The theorems.                                                           *)

\* Once siblings have taken too much, that is remembered.
LEMMA StaysOverdrawn == overdrawn /\ [ReservationNext]_svars => overdrawn'
  BY DEF ReservationNext, svars, Assigning, ActionAssign, AssignBypass, AssignFromStock, AssignChained,
         EndAssign, Users, Validate, DoUnreserve, EnterDone, DoButtonValidateJob, ButtonValidateJob,
         InputFile, Recount, OriginDone

\* The invariant holds until then.
LEMMA AlwaysStock == ReservationSpec => [](overdrawn \/ StockInv)
  <1>1. (overdrawn \/ StockInv) /\ [ReservationNext]_svars => (overdrawn \/ StockInv)'
    BY StepStock, StaysOverdrawn
  <1> QED BY <1>1, InitStock, PTL DEF ReservationSpec

\* Behind every reservation of every quant there are lines of moves, however
\* many moves, lots and groups there are and wherever a run is cut short; and
\* when nobody imports serial numbers, quants and lines say the same. All that
\* until chained moves have taken more than was brought for them.
THEOREM ReservedOnLines == ReservationSpec => []ReservationInv
  <1>1. overdrawn \/ StockInv => ReservationInv
    BY DEF StockInv, ReservationTypes, QuantTypes, MoveTypes, MoveState, Sorted, Lines, Line,
           ReservationInv, ReservationTypeOK
  <1> QED BY <1>1, AlwaysStock, PTL

\* No move reserves or delivers more than it asks for, until then.
THEOREM WithinDemand == ReservationSpec => []NoMoreThanDemand
  <1>1. overdrawn \/ StockInv => NoMoreThanDemand
    <2> SUFFICES ASSUME StockInv, NEW m \in Move
                 PROVE  Total(move[m].line) + Total(move[m].out) <= Demand[m]
      BY DEF NoMoreThanDemand
    <2>1. /\ Total(move[m].line) \in Nat /\ Total(move[m].out) \in Nat /\ Demand[m] \in Nat
          /\ Within(m)
      BY NeedType DEF StockInv, ReservationTypes
    <2>2. Total(NoLines) = 0
      BY NoLinesTotal
    <2>3. Total(move[m].line) = 0 \/ Total(move[m].out) = 0
      BY <2>1, <2>2 DEF Within
    <2> QED BY <2>1, <2>3 DEF Within
  <1> QED BY <1>1, AlwaysStock, PTL

\* "A stock move is considered reserved once the sum of `product_qty` for all
\* its move lines is equal to its `product_qty`" (_action_assign): the states
\* say so between the runs, also when the last run was cut short, until siblings
\* have taken too much.
THEOREM StatesAgree == ReservationSpec => []StateAgrees
  <1>1. overdrawn \/ StockInv => StateAgrees
    <2> SUFFICES ASSUME StockInv, ~Busy, Import = {}, NEW m \in Move
                 PROVE  Agrees(m, move[m].state)
      BY DEF StateAgrees, Agrees
    <2>1. Coming(m) = move[m].state
      BY DEF StockInv, Sorted, NoBatch, Coming
    <2> QED BY <2>1 DEF StockInv
  <1> QED BY <1>1, AlwaysStock, PTL

\* Reserving keeps the ledger: no step claims for a move a piece that another
\* has claimed, or gives back or delivers what is not its own, until siblings
\* have taken too much.
THEOREM KeepsLedger == ReservationSpec => ImplementsLedger
  <1>1. ReservationInit => Ledger!LedgerInit
    BY InitLedger
  <1>2. (overdrawn \/ StockInv) /\ [ReservationNext]_svars
          => [Import # {} \/ overdrawn' \/ Ledger!LedgerNext]_<<quant, move>>
    BY StepLedger, StaysOverdrawn
  <1> QED BY <1>1, <1>2, AlwaysStock, PTL DEF ReservationSpec, ImplementsLedger

=============================================================================
