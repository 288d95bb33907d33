---------------------------- MODULE ReportsProofs ----------------------------
(***************************************************************************)
(* What the reports on stock say, proved for every history of moves, every *)
(* number of lots and every period: the totals agree with the stock, and   *)
(* the columns of the aging report with the ages of what is there.         *)
(***************************************************************************)
EXTENDS StockReports, TotalsProofs, SequenceTheorems

Buckets == [Bucket -> Nat]
Mv == [kind : {"in", "out"}, lot : Lot, qty : 1 .. MaxQty, value : Int, day : Nat, done : BOOLEAN]

HistType == hist \in Seq(Mv) /\ lines \in Seq(Mv)
PiecesType == pieces \in [Lot -> Seq(Nat)] /\ left \in Seq(Nat)
DaysType == since \in [Lot -> Nat] /\ today \in Nat
Types == HistType /\ PiecesType /\ DaysType

-----------------------------------------------------------------------------
(* Constants, buckets.                                                     *)

\* What the assumptions say.
LEMMA ReportsFacts ==
    /\ Period \in Nat \ {0} /\ Oldest \in Nat /\ Ahead \in SUBSET Int /\ MaxQty \in Nat
    /\ Lots \in Seq(Lot) /\ Len(Lots) \in Nat /\ DOMAIN Lots = 1 .. Len(Lots)
    /\ \A k \in 1 .. Len(Lots) : Lots[k] \in Lot
    /\ \A l \in Lot : \E k \in 1 .. Len(Lots) : Lots[k] = l
    /\ \A k, n \in 1 .. Len(Lots) : Lots[k] = Lots[n] => k = n
    /\ IsFiniteSet(Lot) /\ IsFiniteSet(Bucket)
    /\ \A price \in Price : price \in Nat
  <1>1. Lots \in Seq(Lot)
    BY ReportsAssumption DEF ReportsAssumption, Lot
  <1>2. Len(Lots) \in Nat /\ DOMAIN Lots = 1 .. Len(Lots)
    BY <1>1
  <1>3. IsFiniteSet(1 .. Len(Lots))
    BY <1>2, FS_Interval
  <1>4. Lot = {Lots[k] : k \in 1 .. Len(Lots)}
    BY <1>2 DEF Lot
  <1>5. IsFiniteSet(Lot)
    <2> DEFINE f == [k \in 1 .. Len(Lots) |-> Lots[k]]
    <2>1. f \in Surjection(1 .. Len(Lots), Lot)
      BY <1>4 DEF Surjection
    <2> QED BY <1>3, <2>1, FS_Surjection
  <1>6. IsFiniteSet(Bucket)
    BY ReportsAssumption, FS_Interval DEF ReportsAssumption, Bucket
  <1>7. Period \in Nat \ {0} /\ Oldest \in Nat /\ Ahead \in SUBSET Int /\ MaxQty \in Nat
        /\ \A price \in Price : price \in Nat
    BY ReportsAssumption DEF ReportsAssumption
  <1>8. \A k, n \in 1 .. Len(Lots) : Lots[k] = Lots[n] => k = n
    BY <1>2, ReportsAssumption DEF ReportsAssumption
  <1> QED BY <1>1, <1>2, <1>4, <1>5, <1>6, <1>7, <1>8

\* A number of days lies in one period.
LEMMA Periods ==
    ASSUME NEW n \in Nat, NEW p \in Nat \ {0}
    PROVE  /\ n \div p \in Nat
           /\ \A i \in Nat : i <= n \div p <=> i * p <= n
           /\ \A i \in Nat : n \div p = i <=> i * p <= n /\ n < (i+1) * p
  <1> DEFINE q == n \div p
  <1>1. q \in Int /\ q * p <= n /\ n < q * p + p
    OBVIOUS
  <1>2. q \in Nat
    <2>1. ASSUME q < 0 PROVE FALSE
      <3>1. ASSUME NEW a \in Int, a <= -1, NEW b \in Nat \ {0} PROVE a * b + b <= 0
        <4>1. PICK c \in Nat : a = -1 - c
          <5>1. -1 - a \in Nat /\ a = -1 - (-1 - a)
            BY <3>1
          <5> QED BY <5>1
        <4>2. c * b \in Nat
          OBVIOUS
        <4>3. a * b = -b - c * b
          BY <4>1
        <4> QED BY <4>2, <4>3
      <3> HIDE DEF q
      <3> QED BY <1>1, <2>1, <3>1
    <2> QED BY <1>1, <2>1
  <1>3. ASSUME NEW i \in Nat PROVE i <= q <=> i * p <= n
    <2> HIDE DEF q
    <2>1. ASSUME NEW a \in Nat, NEW b \in Nat, a <= b PROVE a * p <= b * p
      <3>1. PICK c \in Nat : b = a + c
        <4>1. b - a \in Nat /\ b = a + (b - a)
          BY <2>1
        <4> QED BY <4>1
      <3>2. c * p \in Nat /\ a * p \in Nat
        OBVIOUS
      <3>3. b * p = a * p + c * p
        BY <3>1
      <3> QED BY <3>2, <3>3
    <2>2. CASE i <= q
      BY <1>1, <1>2, <2>1, <2>2
    <2>3. CASE i >= q + 1
      <3>1. (q + 1) * p <= i * p
        BY <1>2, <2>1, <2>3
      <3>2. (q + 1) * p = q * p + p /\ i * p \in Int /\ q * p \in Int
        BY <1>2
      <3> QED BY <1>1, <1>2, <2>3, <3>1, <3>2
    <2> QED BY <1>2, <2>2, <2>3
  <1>4. ASSUME NEW i \in Nat PROVE q = i <=> i * p <= n /\ n < (i+1) * p
    <2> HIDE DEF q
    <2>1. i <= q <=> i * p <= n
      BY <1>3
    <2>2. i+1 <= q <=> (i+1) * p <= n
      BY <1>3
    <2>3. (i+1) * p \in Int
      OBVIOUS
    <2> QED BY <1>2, <2>1, <2>2, <2>3
  <1> QED BY <1>2, <1>3, <1>4

\* A move has a bucket, and a later one no older bucket.
LEMMA KeyType ==
    ASSUME NEW end \in Int, NEW day \in Nat
    PROVE  /\ Key(end, day) \in Bucket
           /\ \A later \in Nat : day <= later => Key(end, later) <= Key(end, day)
  <1> DEFINE period(d) == Pos(end - d - 1) \div Period
  <1>1. ASSUME NEW d \in Nat PROVE Pos(end - d - 1) \in Nat /\ period(d) \in Nat
    <2>1. Pos(end - d - 1) \in Nat
      BY <1>1 DEF Pos
    <2> QED BY <2>1, Periods, ReportsFacts
  <1>2. ASSUME NEW later \in Nat, day <= later PROVE period(later) <= period(day)
    <2>1. Pos(end - later - 1) <= Pos(end - day - 1)
      BY <1>2 DEF Pos
    <2> DEFINE a == Pos(end - later - 1)
               b == Pos(end - day - 1)
    <2>2. a \in Nat /\ b \in Nat /\ a \div Period \in Nat /\ b \div Period \in Nat
      BY <1>1
    <2> HIDE DEF a, b
    <2>3. (a \div Period) * Period <= a
      BY <2>2, Periods, ReportsFacts
    <2>4. (a \div Period) * Period <= b
      <3>1. (a \div Period) * Period \in Int
        BY <2>2, ReportsFacts
      <3> QED BY <2>1, <2>2, <2>3, <3>1 DEF a, b
    <2>5. a \div Period <= b \div Period
      BY <2>2, <2>4, Periods, ReportsFacts
    <2> QED BY <2>5 DEF a, b
  <1>3. \A d \in Nat : Key(end, d) = Least(period(d), Oldest)
    BY DEF Key
  <1> HIDE DEF period
  <1>4. Key(end, day) \in Bucket
    <2>1. period(day) \in Nat /\ Key(end, day) = Least(period(day), Oldest)
      BY <1>1, <1>3
    <2> QED BY <2>1, ReportsFacts DEF Least, Bucket
  <1>5. ASSUME NEW later \in Nat, day <= later PROVE Key(end, later) <= Key(end, day)
    <2>1. /\ period(later) \in Nat /\ Key(end, later) = Least(period(later), Oldest)
          /\ period(day) \in Nat /\ Key(end, day) = Least(period(day), Oldest)
      BY <1>1, <1>3
    <2>2. period(later) <= period(day)
      BY <1>2, <1>5
    <2> QED BY <2>1, <2>2, ReportsFacts DEF Least
  <1> QED BY <1>4, <1>5

\* What is in the buckets older than i.
Above(f, i) == Total([k \in i+1 .. Oldest |-> f[k]])

LEMMA AboveSteps ==
    ASSUME NEW f \in [Bucket -> Int]
    PROVE  /\ Above(f, Oldest) = 0 /\ Above(f, -1) = Total(f)
           /\ \A i \in Bucket : Above(f, i) \in Int /\ Above(f, i-1) = f[i] + Above(f, i)
           /\ f \in Buckets => \A i \in Bucket : Above(f, i) \in Nat
  <1> DEFINE older(i) == [k \in i+1 .. Oldest |-> f[k]]
  <1>0. Oldest \in Nat
    BY ReportsFacts
  <1>1. ASSUME NEW i \in Int, -1 <= i
        PROVE  /\ IsFiniteSet(i+1 .. Oldest) /\ older(i) \in [i+1 .. Oldest -> Int]
               /\ f \in Buckets => older(i) \in [i+1 .. Oldest -> Nat]
    <2>1. IsFiniteSet(i+1 .. Oldest)
      BY <1>0, FS_Interval
    <2>2. i+1 .. Oldest \in SUBSET Bucket
      BY <1>0, <1>1 DEF Bucket
    <2> QED BY <2>1, <2>2 DEF Buckets
  <1>2. Above(f, Oldest) = 0
    <2> DEFINE g == older(Oldest)
    <2>1. Oldest+1 .. Oldest = {}
      BY <1>0
    <2>2. g \in [Oldest+1 .. Oldest -> Int] /\ IsFiniteSet(Oldest+1 .. Oldest)
      BY <1>0, <1>1
    <2> HIDE DEF g
    <2>3. Total(g) = 0
      BY <2>1, <2>2, TotalZero
    <2> QED BY <2>3 DEF g, Above
  <1>3. Above(f, -1) = Total(f)
    <2>1. older(-1) = f
      BY DEF Bucket
    <2> QED BY <2>1 DEF Above
  <1>4. ASSUME NEW i \in Bucket
        PROVE  /\ Above(f, i) \in Int /\ Above(f, i-1) = f[i] + Above(f, i)
               /\ f \in Buckets => Above(f, i) \in Nat
    <2> DEFINE g == older(i)
               h == older(i-1)
               D == i-1+1 .. Oldest
    <2>1. i \in Int /\ i-1 \in Int /\ -1 <= i-1 /\ i \in D /\ D \ {i} = i+1 .. Oldest
      BY <1>0 DEF Bucket
    <2>2. /\ g \in [i+1 .. Oldest -> Int] /\ IsFiniteSet(i+1 .. Oldest)
          /\ h \in [D -> Int] /\ IsFiniteSet(D)
          /\ f \in Buckets => g \in [i+1 .. Oldest -> Nat]
      BY <1>1, <2>1
    <2>3. Total(g) \in Int /\ (f \in Buckets => Total(g) \in Nat)
      <3> HIDE DEF g
      <3> QED BY <2>2, TotalType
    <2>4. Total(h) = h[i] + Total([k \in D \ {i} |-> h[k]])
      <3>1. \A x \in D : Total(h) = h[x] + Total([k \in D \ {x} |-> h[k]])
        <4> HIDE DEF h, D
        <4> QED BY <2>2, TotalRemove
      <3> QED BY <2>1, <3>1
    <2>5. h[i] = f[i] /\ [k \in D \ {i} |-> h[k]] = g
      BY <2>1
    <2>6. Above(f, i) = Total(g) /\ Above(f, i-1) = Total(h)
      BY DEF Above
    <2> HIDE DEF g, h, D
    <2> QED BY <2>3, <2>4, <2>5, <2>6
  <1> QED BY <1>2, <1>3, <1>4

\* What comes in fills one bucket.
LEMMA InKeeps ==
    ASSUME NEW b \in Buckets, NEW end \in Int, NEW m \in Mv
    PROVE  /\ In(end, b, m) \in Buckets
           /\ Total(In(end, b, m)) = Total(b) + m.qty
           /\ \A i \in Bucket : In(end, b, m)[i] = IF i = Key(end, m.day) THEN b[i] + m.qty ELSE b[i]
  <1> DEFINE key == Key(end, m.day)
             new == [b EXCEPT ![key] = @ + m.qty]
  <1>1. key \in Bucket /\ m.qty \in Nat
    BY KeyType, ReportsFacts DEF Mv
  <1>2. In(end, b, m) = new
    BY DEF In
  <1> HIDE DEF key
  <1>3. new \in Buckets /\ \A i \in Bucket : new[i] = IF i = key THEN b[i] + m.qty ELSE b[i]
    BY <1>1 DEF Buckets
  <1> HIDE DEF new
  <1>4. b \in [Bucket -> Int] /\ new \in [Bucket -> Int] /\ IsFiniteSet(Bucket)
    BY <1>3, ReportsFacts DEF Buckets
  <1>5. Total(b) \in Int
    BY <1>4, TotalType
  <1>6. \A i \in Bucket \ {key} : new[i] = b[i]
    BY <1>3
  <1>7. Total(new) = Total(b) - b[key] + new[key]
    BY <1>1, <1>4, <1>6, TotalExcept
  <1>8. new[key] = b[key] + m.qty /\ b[key] \in Int
    BY <1>1, <1>3, <1>4
  <1>9. Total(new) = Total(b) + m.qty
    BY <1>1, <1>5, <1>7, <1>8
  <1> QED BY <1>2, <1>3, <1>9 DEF key

\* What goes out is taken from the oldest buckets, as far as they have it.
LEMMA OutKeeps ==
    ASSUME NEW b \in Buckets, NEW m \in Mv
    PROVE  /\ Out(b, m) \in Buckets
           /\ Total(Out(b, m)) = Total(b) - Least(m.qty, Total(b))
           /\ \A i \in Bucket : Out(b, m)[i] = b[i] - Least(b[i], Pos(m.qty - Above(b, i)))
  <1> DEFINE q == m.qty
             o == Out(b, m)
  <1>1. q \in Nat /\ Oldest \in Nat /\ b \in [Bucket -> Int]
    BY ReportsFacts DEF Mv, Buckets
  <1>2. \A i \in Bucket : Above(b, i) \in Nat /\ b[i] \in Nat
    BY <1>1, AboveSteps DEF Buckets
  <1>3. \A i \in Bucket : o[i] = b[i] - Least(b[i], Pos(q - Above(b, i)))
    BY DEF Out, Missing, Above
  <1>4. o \in Buckets
    <2>1. ASSUME NEW i \in Bucket PROVE o[i] \in Nat
      <3>1. Above(b, i) \in Nat /\ b[i] \in Nat /\ o[i] = b[i] - Least(b[i], Pos(q - Above(b, i)))
        BY <1>2, <1>3
      <3> QED BY <1>1, <3>1 DEF Least, Pos
    <2>2. o = [i \in Bucket |-> o[i]]
      BY DEF Out
    <2> QED BY <2>1, <2>2 DEF Buckets
  <1> HIDE DEF o
  <1>5. o \in [Bucket -> Int] /\ \A i \in Bucket : Above(o, i) \in Nat
    <2>1. o \in [Bucket -> Int]
      BY <1>4 DEF Buckets
    <2> QED BY <1>4, <2>1, AboveSteps
  <1> DEFINE Right(i) == Above(o, i) = Above(b, i) - Least(q, Above(b, i))
             wrong == {k \in Bucket : ~Right(Oldest - k)}
  <1>6. ASSUME NEW i \in Bucket PROVE Right(i) => Right(i-1)
    <2>1. /\ Above(b, i-1) = b[i] + Above(b, i) /\ Above(o, i-1) = o[i] + Above(o, i)
          /\ Above(b, i) \in Nat /\ b[i] \in Nat /\ Above(o, i) \in Nat
      BY <1>1, <1>2, <1>5, AboveSteps
    <2>2. o[i] = b[i] - Least(b[i], Pos(q - Above(b, i)))
      BY <1>3
    <2> QED BY <1>1, <2>1, <2>2 DEF Least, Pos
  <1>7. wrong # {} => FALSE
    <2> SUFFICES ASSUME wrong # {} PROVE FALSE
      OBVIOUS
    <2>1. wrong \in SUBSET Nat /\ \A k \in Bucket : k \in wrong <=> ~Right(Oldest - k)
      BY DEF Bucket
    <2> HIDE DEF wrong
    <2>2. PICK k \in wrong : \A j \in wrong : k <= j
      BY <2>1, FirstNumber
    <2>3. k \in Bucket /\ ~Right(Oldest - k)
      <3>1. wrong \in SUBSET Bucket
        BY DEF wrong
      <3> QED BY <2>1, <3>1
    <2>4. CASE k = 0
      <3>1. Oldest - k = Oldest /\ Above(o, Oldest) = 0 /\ Above(b, Oldest) = 0
        BY <1>1, <1>5, <2>4, AboveSteps
      <3> QED BY <1>1, <2>3, <3>1 DEF Least
    <2>5. CASE k # 0
      <3>1. k-1 \in Bucket /\ ~(k <= k-1) /\ Oldest - (k-1) \in Bucket /\ Oldest - (k-1) - 1 = Oldest - k
        BY <1>1, <2>3, <2>5 DEF Bucket
      <3>2. Right(Oldest - (k-1))
        BY <2>1, <2>2, <3>1
      <3> HIDE DEF Right
      <3> QED BY <1>6, <2>3, <3>1, <3>2
    <2> QED BY <2>4, <2>5
  <1>8. Right(-1)
    <2>1. Oldest \in Bucket /\ Oldest \notin wrong /\ Oldest - Oldest = 0 /\ 0 \in Bucket /\ 0 - 1 = -1
      <3>1. Oldest \in Bucket /\ Oldest - Oldest = 0 /\ 0 \in Bucket /\ 0 - 1 = -1
        BY <1>1 DEF Bucket
      <3> HIDE DEF wrong
      <3> QED BY <1>7, <3>1
    <2>2. Right(0)
      BY <2>1
    <2> HIDE DEF Right
    <2> QED BY <1>6, <2>1, <2>2
  <1>9. Above(o, -1) = Total(o) /\ Above(b, -1) = Total(b)
    BY <1>1, <1>5, AboveSteps
  <1>10. Total(o) = Total(b) - Least(q, Total(b))
    BY <1>8, <1>9
  <1> QED BY <1>3, <1>4, <1>10 DEF o

-----------------------------------------------------------------------------
(* The moves of a lot, one after the other.                                *)

CountedType ==
    \A end \in Int, b \in Buckets, m \in Mv : Counted(end, b, m) \in Buckets

LEMMA CountedKeeps == CountedType
  BY InKeeps, OutKeeps DEF CountedType, Counted

\* What a move makes of the buckets of a lot.
Step(end, b, l, m) == IF m.lot = l THEN Counted(end, b, m) ELSE b

\* The buckets after every move.
Follows(f, h, end, b, l) ==
    f = [n \in 0 .. Len(h) |-> IF n = 0 THEN b ELSE Step(end, f[n-1], l, h[n])]

\* CountedLot, of any history.
CountedIn(h, end, b, l) == (CHOOSE f : Follows(f, h, end, b, l))[Len(h)]

LEMMA CountedLotIs ==
    ASSUME NEW end, NEW b, NEW l
    PROVE  CountedLot(end, b, l) = CountedIn(lines, end, b, l)
  BY DEF CountedLot, CountedIn, Follows, Step

\* f tells the buckets after every move.
Tells(f, h, end, b, l) ==
    /\ f \in [0 .. Len(h) -> Buckets] /\ f[0] = b
    /\ \A q \in 1 .. Len(h) : f[q] = Step(end, f[q-1], l, h[q])
    /\ CountedIn(h, end, b, l) = f[Len(h)]

LEMMA CountedAlong ==
    ASSUME NEW h \in Seq(Mv), NEW end \in Int, NEW b \in Buckets, NEW l \in Lot
    PROVE  \E f : Tells(f, h, end, b, l)
  <1> DEFINE n == Len(h)
             step == [q \in 1 .. n |-> [c \in Buckets |-> Step(end, c, l, h[q])]]
  <1>1. n \in Nat /\ \A q \in 1 .. n : h[q] \in Mv
    OBVIOUS
  <1>2. \A q \in 1 .. n : \A c \in Buckets : Step(end, c, l, h[q]) \in Buckets
    BY <1>1, CountedKeeps DEF CountedType, Step
  <1>3. step \in [1 .. n -> [Buckets -> Buckets]]
    BY <1>2
  <1>4. \A q \in 1 .. n : \A c \in Buckets : step[q][c] = Step(end, c, l, h[q])
    OBVIOUS
  <1> HIDE DEF step
  <1>5. PICK f : Along(f, n, Buckets, b, step)
    <2> HIDE DEF n
    <2> QED BY <1>1, <1>3, StepsExist
  <1>6. f \in [0 .. n -> Buckets] /\ f[0] = b
    BY <1>5 DEF Along
  <1>7. ASSUME NEW q \in 1 .. n PROVE f[q] = Step(end, f[q-1], l, h[q])
    <2>1. f[q] = step[q][f[q-1]]
      BY <1>5 DEF Along
    <2>2. q-1 \in 0 .. n
      BY <1>1
    <2> QED BY <1>4, <1>6, <2>1, <2>2
  <1>8. Follows(f, h, end, b, l)
    <2>1. \A q \in 0 .. n : f[q] = IF q = 0 THEN b ELSE Step(end, f[q-1], l, h[q])
      BY <1>1, <1>6, <1>7
    <2> QED BY <1>6, <2>1 DEF Follows
  <1> DEFINE g == CHOOSE x : Follows(x, h, end, b, l)
  <1>9. Follows(g, h, end, b, l)
    BY <1>8
  <1>10. CountedIn(h, end, b, l) = g[n]
    BY DEF CountedIn
  <1> HIDE DEF g
  <1>11. g[0] = b /\ \A q \in 1 .. n : g[q] = Step(end, g[q-1], l, h[q])
    <2>1. \A q \in 0 .. n : g[q] = IF q = 0 THEN b ELSE Step(end, g[q-1], l, h[q])
      BY <1>9 DEF Follows
    <2> QED BY <1>1, <2>1
  <1>12. g[n] = f[n]
    <2>1. Together(g, f, n)
      BY <1>6, <1>7, <1>11 DEF Together
    <2> HIDE DEF n
    <2> QED BY <1>1, <2>1, StepsUnique
  <1> QED BY <1>6, <1>7, <1>10, <1>12 DEF Tells

\* Counted from the first move, and one move more.
LEMMA CountedNext ==
    ASSUME NEW end \in Int, NEW b \in Buckets, NEW l \in Lot
    PROVE  /\ CountedIn(<<>>, end, b, l) = b
           /\ \A h \in Seq(Mv) : CountedIn(h, end, b, l) \in Buckets
           /\ \A h \in Seq(Mv), m \in Mv :
                CountedIn(Append(h, m), end, b, l) = Step(end, CountedIn(h, end, b, l), l, m)
  <1>1. CountedIn(<<>>, end, b, l) = b
    <2> DEFINE e == <<>>
    <2>1. e \in Seq(Mv) /\ Len(e) = 0
      OBVIOUS
    <2> HIDE DEF e
    <2>2. PICK f : Tells(f, e, end, b, l)
      BY <2>1, CountedAlong
    <2> QED BY <2>1, <2>2 DEF e, Tells
  <1>2. ASSUME NEW h \in Seq(Mv) PROVE CountedIn(h, end, b, l) \in Buckets
    <2>1. PICK f : Tells(f, h, end, b, l)
      BY CountedAlong
    <2>2. Len(h) \in 0 .. Len(h)
      OBVIOUS
    <2> QED BY <2>1, <2>2 DEF Tells
  <1>3. ASSUME NEW h \in Seq(Mv), NEW m \in Mv
        PROVE  CountedIn(Append(h, m), end, b, l) = Step(end, CountedIn(h, end, b, l), l, m)
    <2> DEFINE k == Append(h, m)
               n == Len(h)
    <2>1. /\ k \in Seq(Mv) /\ Len(k) = n+1 /\ n \in Nat /\ k[n+1] = m
          /\ \A q \in 1 .. n : k[q] = h[q]
      OBVIOUS
    <2>2. PICK f : Tells(f, h, end, b, l)
      BY CountedAlong
    <2> HIDE DEF k
    <2>3. PICK g : Tells(g, k, end, b, l)
      BY <2>1, CountedAlong
    <2>4. /\ f[0] = b /\ \A q \in 1 .. n : f[q] = Step(end, f[q-1], l, h[q])
          /\ CountedIn(h, end, b, l) = f[n]
      BY <2>2 DEF Tells
    <2> HIDE DEF n
    <2>5. /\ g[0] = b /\ \A q \in 1 .. n+1 : g[q] = Step(end, g[q-1], l, k[q])
          /\ CountedIn(k, end, b, l) = g[n+1]
      BY <2>1, <2>3 DEF Tells
    <2>6. Together(f, g, n)
      <3>1. \A q \in 1 .. n : q \in 1 .. n+1
        BY <2>1
      <3> QED BY <2>1, <2>4, <2>5, <3>1 DEF Together
    <2>7. f[n] = g[n]
      BY <2>1, <2>6, StepsUnique
    <2>8. g[n+1] = Step(end, g[n], l, m)
      <3>1. n+1 \in 1 .. n+1 /\ (n+1)-1 = n
        BY <2>1
      <3> QED BY <2>1, <2>5, <3>1
    <2> QED BY <2>4, <2>5, <2>7, <2>8 DEF k
  <1> QED BY <1>1, <1>2, <1>3

-----------------------------------------------------------------------------
(* The ages of pieces.                                                     *)

InOrder(s) == \A j, k \in 1 .. Len(s) : j <= k => s[j] <= s[k]

\* The pieces in bucket i and in the older ones, and their number.
From(end, s, i) == {k \in 1 .. Len(s) : i <= Key(end, s[k])}
Older(end, s, i) == Cardinality(From(end, s, i))

Ages(end, s) == [i \in Bucket |-> Cardinality({k \in 1 .. Len(s) : Key(end, s[k]) = i})]

\* What holds for what comes before, too, holds up to a point.
LEMMA Prefix ==
    ASSUME NEW n \in Nat, NEW S \in SUBSET (1 .. n), \A k \in S : \A j \in 1 .. k : j \in S
    PROVE  S = 1 .. Cardinality(S) /\ Cardinality(S) \in 0 .. n
  <1> DEFINE out == (1 .. n) \ S
  <1>1. \E c \in 0 .. n : S = 1 .. c
    <2>1. CASE out = {}
      <3>1. S = 1 .. n
        BY <2>1
      <3> QED BY <3>1
    <2>2. CASE out # {}
      <3>1. out \in SUBSET Nat
        OBVIOUS
      <3>2. PICK f \in out : \A j \in out : f <= j
        <4> HIDE DEF out
        <4> QED BY <2>2, <3>1, FirstNumber
      <3>3. f \in 1 .. n /\ f \notin S /\ f-1 \in 0 .. n
        OBVIOUS
      <3>4. ASSUME NEW j \in 1 .. n PROVE j \in S <=> j <= f-1
        <4>1. CASE j <= f-1
          <5>1. j \notin out
            BY <3>2, <3>3, <4>1
          <5> QED BY <4>1, <5>1
        <4>2. CASE j >= f
          <5>1. f \in 1 .. j
            BY <3>3, <4>2
          <5>2. j \notin S
            BY <3>3, <5>1
          <5> QED BY <3>3, <4>2, <5>2
        <4> QED BY <3>3, <4>1, <4>2
      <3>5. S = 1 .. f-1
        <4>1. \A j : j \in S => j \in 1 .. n
          OBVIOUS
        <4>2. \A j : j \in 1 .. f-1 <=> j \in 1 .. n /\ j <= f-1
          BY <3>3
        <4>3. \A j : j \in S <=> j \in 1 .. f-1
          BY <3>4, <4>1, <4>2
        <4> QED BY <4>3
      <3> QED BY <3>3, <3>5
    <2> QED BY <2>1, <2>2
  <1>2. PICK c \in 0 .. n : S = 1 .. c
    BY <1>1
  <1>3. Cardinality(S) = c
    <2>1. c \in Int /\ c >= 0
      OBVIOUS
    <2>2. Cardinality(1 .. c) = IF 1 > c THEN 0 ELSE c - 1 + 1
      BY <2>1, FS_Interval
    <2> QED BY <1>2, <2>1, <2>2
  <1> QED BY <1>2, <1>3

\* Oldest first: the pieces from a bucket on are the first ones.
LEMMA OlderFirst ==
    ASSUME NEW end \in Int, NEW s \in Seq(Nat), InOrder(s), NEW i \in Int
    PROVE  From(end, s, i) = 1 .. Older(end, s, i) /\ Older(end, s, i) \in 0 .. Len(s)
  <1> DEFINE n == Len(s)
             S == From(end, s, i)
  <1>1. n \in Nat /\ S \in SUBSET (1 .. n) /\ \A k \in 1 .. n : s[k] \in Nat
    <2>1. \A k \in 1 .. n : s[k] \in Nat
      OBVIOUS
    <2> QED BY <2>1 DEF From
  <1>2. ASSUME NEW k \in S, NEW j \in 1 .. k PROVE j \in S
    <2>1. k \in 1 .. n /\ j \in 1 .. n /\ j <= k /\ i <= Key(end, s[k])
      BY <1>1 DEF From
    <2>2. s[j] \in Nat /\ s[k] \in Nat /\ s[j] <= s[k]
      BY <1>1, <2>1 DEF InOrder
    <2>3. /\ Key(end, s[k]) <= Key(end, s[j])
          /\ Key(end, s[k]) \in Int /\ Key(end, s[j]) \in Int
      <3>1. ASSUME NEW a \in Nat, NEW b \in Nat, a <= b
            PROVE  Key(end, b) <= Key(end, a) /\ Key(end, b) \in Int /\ Key(end, a) \in Int
        <4>1. Key(end, a) \in Bucket /\ Key(end, b) \in Bucket /\ Key(end, b) <= Key(end, a)
          BY <3>1, KeyType
        <4> QED BY <4>1 DEF Bucket
      <3> QED BY <2>2, <3>1
    <2>4. i <= Key(end, s[j])
      BY <2>1, <2>3
    <2> QED BY <2>1, <2>4 DEF From
  <1> HIDE DEF S, n
  <1>3. S = 1 .. Cardinality(S) /\ Cardinality(S) \in 0 .. n
    BY <1>1, <1>2, Prefix
  <1> QED BY <1>3 DEF S, n, Older

\* A bucket has the pieces from it on but not from the next, and the older
\* buckets those from the next on.
LEMMA AgesOlder ==
    ASSUME NEW end \in Int, NEW s \in Seq(Nat), InOrder(s)
    PROVE  /\ Ages(end, s) \in Buckets
           /\ Older(end, s, 0) = Len(s) /\ Older(end, s, Oldest+1) = 0
           /\ \A i \in Bucket : /\ Older(end, s, i+1) <= Older(end, s, i)
                                /\ Ages(end, s)[i] = Older(end, s, i) - Older(end, s, i+1)
  <1> DEFINE n == Len(s)
             key(k) == Key(end, s[k])
             c(i) == Older(end, s, i)
  <1>1. n \in Nat /\ \A k \in 1 .. n : key(k) \in Bucket
    <2>1. \A k \in 1 .. n : s[k] \in Nat
      OBVIOUS
    <2>2. \A k \in 1 .. n : s[k] \in Nat
      BY <2>1
    <2> QED BY <2>2, KeyType
  <1>2. \A i \in Int : c(i) \in 0 .. n /\ From(end, s, i) = 1 .. c(i)
    BY OlderFirst
  <1>3. \A i \in Int : From(end, s, i) = {k \in 1 .. n : i <= key(k)}
    BY DEF From
  <1>4. Oldest \in Nat /\ 0 \in Int /\ Oldest+1 \in Int /\ \A i \in Bucket : i \in Int /\ i+1 \in Int
    BY ReportsFacts DEF Bucket
  <1> HIDE DEF c
  <1>5. ASSUME NEW i \in Int PROVE c(i) \in Nat /\ c(i) <= n /\ \A k \in 1 .. n : k <= c(i) <=> i <= key(k)
    <2>1. c(i) \in 0 .. n /\ {k \in 1 .. n : i <= key(k)} = 1 .. c(i)
      BY <1>2, <1>3
    <2> HIDE DEF key
    <2>2. \A k \in 1 .. n : k \in 1 .. c(i) <=> i <= key(k)
      BY <2>1
    <2> QED BY <1>1, <2>1, <2>2
  <1>6. c(0) = n
    <2>1. c(0) \in Nat /\ c(0) <= n /\ \A k \in 1 .. n : k <= c(0) <=> 0 <= key(k)
      BY <1>4, <1>5
    <2>2. CASE n = 0
      BY <2>1, <2>2
    <2>3. CASE n # 0
      <3>1. n \in 1 .. n
        BY <1>1, <2>3
      <3>2. 0 <= key(n)
        BY <1>1, <3>1 DEF Bucket
      <3> HIDE DEF key, n
      <3> QED BY <1>1, <2>1, <3>1, <3>2
    <2> QED BY <2>2, <2>3
  <1>7. c(Oldest+1) = 0
    <2>1. /\ c(Oldest+1) \in Nat /\ c(Oldest+1) <= n
          /\ \A k \in 1 .. n : k <= c(Oldest+1) <=> Oldest+1 <= key(k)
      BY <1>4, <1>5
    <2>2. CASE c(Oldest+1) # 0
      <3>1. 1 \in 1 .. n /\ 1 <= c(Oldest+1)
        BY <1>1, <2>1, <2>2
      <3>2. key(1) \in Bucket /\ Oldest+1 <= key(1)
        BY <1>1, <2>1, <3>1
      <3> HIDE DEF key
      <3> QED BY <1>4, <3>2 DEF Bucket
    <2> QED BY <2>2
  <1>8. ASSUME NEW i \in Bucket
        PROVE  c(i+1) <= c(i) /\ Ages(end, s)[i] = c(i) - c(i+1)
    <2>1. /\ c(i) \in Nat /\ c(i) <= n /\ \A k \in 1 .. n : k <= c(i) <=> i <= key(k)
          /\ c(i+1) \in Nat /\ c(i+1) <= n /\ \A k \in 1 .. n : k <= c(i+1) <=> i+1 <= key(k)
      BY <1>4, <1>5
    <2> DEFINE mine == {k \in 1 .. n : key(k) = i}
    <2>2. Ages(end, s)[i] = Cardinality(mine)
      BY DEF Ages
    <2>3. \A k \in 1 .. n : key(k) \in Int
      BY <1>1 DEF Bucket
    <2> HIDE DEF key, n
    <2>4. c(i+1) <= c(i)
      <3>1. CASE c(i+1) = 0
        BY <2>1, <3>1
      <3>2. CASE c(i+1) # 0
        <4>1. c(i+1) \in 1 .. n
          BY <1>1, <2>1, <3>2
        <4>2. i+1 <= key(c(i+1))
          BY <2>1, <4>1
        <4>3. i <= key(c(i+1))
          BY <1>4, <2>3, <4>1, <4>2
        <4> QED BY <2>1, <4>1, <4>3
      <3> QED BY <3>1, <3>2
    <2>5. mine = c(i+1)+1 .. c(i)
      <3>1. \A k \in 1 .. n : key(k) = i <=> k <= c(i) /\ ~(k <= c(i+1))
        BY <1>4, <2>1, <2>3
      <3>2. c(i+1)+1 .. c(i) = {k \in 1 .. n : k <= c(i) /\ ~(k <= c(i+1))}
        BY <1>1, <2>1
      <3> QED BY <3>1, <3>2
    <2>6. Cardinality(c(i+1)+1 .. c(i)) = IF c(i+1)+1 > c(i) THEN 0 ELSE c(i) - (c(i+1)+1) + 1
      <3>1. ASSUME NEW a \in Int, NEW b \in Int
            PROVE  Cardinality(a .. b) = IF a > b THEN 0 ELSE b - a + 1
        BY FS_Interval
      <3>2. c(i+1)+1 \in Int /\ c(i) \in Int
        BY <2>1
      <3> QED BY <3>1, <3>2
    <2>7. Cardinality(mine) = IF c(i+1)+1 > c(i) THEN 0 ELSE c(i) - (c(i+1)+1) + 1
      BY <2>5, <2>6
    <2> DEFINE x == c(i)
               y == c(i+1)
    <2>8. x \in Nat /\ y \in Nat /\ y <= x /\ Cardinality(mine) = IF y+1 > x THEN 0 ELSE x - (y+1) + 1
      BY <2>1, <2>4, <2>7
    <2> HIDE DEF x, y, mine
    <2>9. Cardinality(mine) = x - y
      BY <2>8
    <2> QED BY <2>2, <2>4, <2>9 DEF x, y
  <1>9. Ages(end, s) \in Buckets
    <2>1. \A i \in Bucket : Ages(end, s)[i] \in Nat
      <3>1. ASSUME NEW i \in Bucket PROVE Ages(end, s)[i] \in Nat
        <4>1. c(i) \in Nat /\ c(i+1) \in Nat
          BY <1>4, <1>5
        <4> QED BY <1>8, <4>1
      <3> QED BY <3>1
    <2>2. Ages(end, s) = [i \in Bucket |-> Ages(end, s)[i]]
      BY DEF Ages
    <2> QED BY <2>1, <2>2 DEF Buckets
  <1> QED BY <1>6, <1>7, <1>8, <1>9 DEF c

\* What is above a bucket are the pieces from the next on; all are those there are.
LEMMA AgesAbove ==
    ASSUME NEW end \in Int, NEW s \in Seq(Nat), InOrder(s)
    PROVE  /\ \A i \in Bucket : Above(Ages(end, s), i) = Older(end, s, i+1)
           /\ Total(Ages(end, s)) = Len(s)
  <1> DEFINE a == Ages(end, s)
             c(i) == Older(end, s, i)
  <1>1. /\ a \in [Bucket -> Int] /\ c(0) = Len(s) /\ c(Oldest+1) = 0
        /\ \A i \in Bucket : a[i] = c(i) - c(i+1)
    BY AgesOlder DEF Buckets
  <1>2. Oldest \in Nat /\ \A i \in Bucket : i \in Int /\ i+1 \in Int
    BY ReportsFacts DEF Bucket
  <1>3. \A i \in Int : c(i) \in Nat
    <2>1. \A i \in Int : c(i) \in 0 .. Len(s)
      BY OlderFirst
    <2> QED BY <2>1
  <1> HIDE DEF a, c
  <1>4. /\ Above(a, Oldest) = 0 /\ Above(a, -1) = Total(a)
        /\ \A i \in Bucket : Above(a, i) \in Int /\ Above(a, i-1) = a[i] + Above(a, i)
    BY <1>1, AboveSteps
  <1> DEFINE Right(i) == Above(a, i) = c(i+1)
             wrong == {k \in Bucket : ~Right(Oldest - k)}
  <1>5. ASSUME NEW i \in Bucket, Right(i) PROVE Right(i-1)
    <2>1. a[i] = c(i) - c(i+1) /\ c(i) \in Nat /\ c(i+1) \in Nat
      BY <1>1, <1>2, <1>3
    <2>2. Above(a, i-1) = a[i] + Above(a, i)
      BY <1>4
    <2>3. i - 1 + 1 = i
      BY <1>2
    <2> QED BY <1>5, <2>1, <2>2, <2>3
  <1>6. wrong = {}
    <2> SUFFICES ASSUME wrong # {} PROVE FALSE
      OBVIOUS
    <2>1. wrong \in SUBSET Nat /\ wrong \in SUBSET Bucket /\ \A k \in Bucket : k \in wrong <=> ~Right(Oldest - k)
      BY DEF Bucket
    <2> HIDE DEF wrong
    <2>2. PICK k \in wrong : \A j \in wrong : k <= j
      BY <2>1, FirstNumber
    <2>3. k \in Bucket /\ ~Right(Oldest - k)
      BY <2>1
    <2>4. CASE k = 0
      <3>1. Oldest - k = Oldest
        BY <1>2, <2>4
      <3> QED BY <1>1, <1>4, <2>3, <3>1
    <2>5. CASE k # 0
      <3>1. k-1 \in Bucket /\ ~(k <= k-1) /\ Oldest - (k-1) \in Bucket /\ Oldest - (k-1) - 1 = Oldest - k
        BY <1>2, <2>3, <2>5 DEF Bucket
      <3>2. Right(Oldest - (k-1))
        BY <2>1, <2>2, <3>1
      <3> HIDE DEF Right
      <3> QED BY <1>5, <2>3, <3>1, <3>2
    <2> QED BY <2>4, <2>5
  <1>7. ASSUME NEW i \in Bucket PROVE Right(i)
    <2>1. Oldest - i \in Bucket /\ Oldest - (Oldest - i) = i
      BY <1>2 DEF Bucket
    <2>2. Oldest - i \notin wrong
      BY <1>6
    <2>3. Right(Oldest - (Oldest - i))
      BY <2>1, <2>2
    <2> HIDE DEF Right
    <2> QED BY <2>1, <2>3
  <1>8. Total(a) = Len(s)
    <2>1. 0 \in Bucket /\ 0 - 1 = -1
      BY <1>2 DEF Bucket
    <2>2. Right(0)
      BY <1>7, <2>1
    <2>3. Above(a, 0-1) = c(0 - 1 + 1)
      BY <1>5, <2>1, <2>2
    <2>4. 0 - 1 + 1 = 0
      OBVIOUS
    <2> QED BY <1>1, <1>4, <2>1, <2>3, <2>4
  <1> QED BY <1>7, <1>8 DEF a, c

\* Two rows of pieces with as many pieces from every bucket on have the same ages.
LEMMA AgesSame ==
    ASSUME NEW end \in Int, NEW s \in Seq(Nat), InOrder(s), NEW b \in Buckets,
           \A i \in Bucket : b[i] = Older(end, s, i) - Older(end, s, i+1)
    PROVE  Ages(end, s) = b
  <1>1. Ages(end, s) \in Buckets /\ \A i \in Bucket : Ages(end, s)[i] = Older(end, s, i) - Older(end, s, i+1)
    BY AgesOlder
  <1> QED BY <1>1 DEF Buckets

\* The rows of pieces after a receipt and after a delivery.
More(t, s, q, p) ==
    /\ t \in Seq(Nat) /\ Len(t) = Len(s) + q
    /\ \A k \in 1 .. Len(s) : t[k] = s[k]
    /\ \A k \in Len(s)+1 .. Len(s)+q : t[k] = p

Fewer(t, s, q) ==
    /\ t \in Seq(Nat) /\ Len(t) = Len(s) - q
    /\ \A k \in 1 .. Len(s)-q : t[k] = s[q+k]

LEMMA RowsMore ==
    ASSUME NEW s \in Seq(Nat), NEW q \in Nat, NEW p \in Nat
    PROVE  More(s \o [i \in 1 .. q |-> p], s, q, p)
  <1> DEFINE n == Len(s)
             r == [i \in 1 .. q |-> p]
             t == s \o r
  <1>1. r \in Seq(Nat) /\ Len(r) = q /\ \A i \in 1 .. q : r[i] = p
    OBVIOUS
  <1> HIDE DEF r
  <1>2. /\ t \in Seq(Nat) /\ Len(t) = n + q
        /\ \A k \in 1 .. n + q : t[k] = IF k <= n THEN s[k] ELSE r[k-n]
    <2>1. s \in Seq(Nat) /\ r \in Seq(Nat)
      BY <1>1
    <2>2. /\ t \in Seq(Nat) /\ Len(t) = Len(s) + Len(r)
          /\ \A k \in 1 .. Len(s) + Len(r) : t[k] = IF k <= Len(s) THEN s[k] ELSE r[k - Len(s)]
      BY <2>1, ConcatProperties
    <2> QED BY <1>1, <2>2
  <1>3. n \in Nat
    OBVIOUS
  <1> HIDE DEF t, n
  <1>4. ASSUME NEW k \in 1 .. n PROVE t[k] = s[k]
    <2>1. k \in 1 .. n+q /\ k <= n
      BY <1>3
    <2> QED BY <1>2, <2>1
  <1>5. ASSUME NEW k \in n+1 .. n+q PROVE t[k] = p
    <2>1. k \in 1 .. n+q /\ ~(k <= n) /\ k-n \in 1 .. q
      BY <1>3
    <2>2. t[k] = r[k-n]
      BY <1>2, <2>1
    <2> QED BY <1>1, <2>1, <2>2
  <1>6. More(t, s, q, p)
    BY <1>2, <1>4, <1>5 DEF More, n
  <1> QED BY <1>6 DEF t, r

LEMMA RowsFewer ==
    ASSUME NEW s \in Seq(Nat), NEW q \in Nat, q <= Len(s)
    PROVE  Fewer(SubSeq(s, q+1, Len(s)), s, q)
  <1> DEFINE n == Len(s)
             t == SubSeq(s, q+1, n)
  <1>1. n \in Nat /\ \A i \in q+1 .. n : s[i] \in Nat
    OBVIOUS
  <1>2. t \in Seq(Nat) /\ Len(t) = n - q
    BY <1>1
  <1>3. ASSUME NEW k \in 1 .. n-q PROVE t[k] = s[q+k]
    BY <1>1
  <1> QED BY <1>2, <1>3 DEF Fewer

\* Pieces of the day are received: they are the youngest.
LEMMA AgesReceived ==
    ASSUME NEW end \in Int, NEW s \in Seq(Nat), InOrder(s), NEW m \in Mv,
           \A k \in 1 .. Len(s) : s[k] <= m.day, NEW p \in Nat, p = m.day, NEW t, More(t, s, m.qty, p)
    PROVE  InOrder(t) /\ Ages(end, t) = In(end, Ages(end, s), m)
  <1> DEFINE n == Len(s)
             q == m.qty
             d == m.day
             sd == [k \in 1 .. n |-> s[k]]
             td == [k \in 1 .. n+q |-> t[k]]
  <1>1. q \in Nat /\ d \in Nat /\ n \in Nat
    BY ReportsFacts DEF Mv
  <1>2. /\ t \in Seq(Nat) /\ Len(t) = n + q
        /\ \A k \in 1 .. n : t[k] = s[k]
        /\ \A k \in n+1 .. n+q : t[k] = d
    <2>1. \A k \in n+1 .. n+q : t[k] = p
      BY DEF More
    <2> QED BY <2>1 DEF More
  <1>3. \A k \in 1 .. n+q : k \in 1 .. n \/ k \in n+1 .. n+q
    BY <1>1
  <1>4. \A k \in 1 .. n : k \in 1 .. n+q
    BY <1>1
  <1>5. \A k \in n+1 .. n+q : k \in 1 .. n+q /\ k \notin 1 .. n
    BY <1>1
  <1>6. \A k \in 1 .. n : s[k] \in Nat /\ s[k] <= d
    <2>1. \A k \in 1 .. n : s[k] \in Nat
      OBVIOUS
    <2> QED BY <2>1
  <1>7. \A k \in 1 .. n : sd[k] \in Nat /\ sd[k] <= d /\ sd[k] = s[k]
    BY <1>6
  <1>8. \A k \in 1 .. n+q : td[k] = t[k]
    OBVIOUS
  <1>9. \A j, k \in 1 .. n : j <= k => sd[j] <= sd[k]
    BY DEF InOrder
  <1> HIDE DEF n, q, d, sd, td
  <1>10. (\A k \in 1 .. n : td[k] = sd[k]) /\ \A k \in n+1 .. n+q : td[k] = d
    BY <1>2, <1>4, <1>5, <1>7, <1>8
  <1>11. \A j, k \in 1 .. n+q : j <= k => td[j] <= td[k]
    <2> SUFFICES ASSUME NEW j \in 1 .. n+q, NEW k \in 1 .. n+q, j <= k PROVE td[j] <= td[k]
      OBVIOUS
    <2>1. CASE k \in 1 .. n
      <3>1. j \in 1 .. n
        BY <1>1, <2>1
      <3> QED BY <1>9, <1>10, <2>1, <3>1
    <2>2. CASE k \in n+1 .. n+q /\ j \in 1 .. n
      BY <1>1, <1>7, <1>10, <2>2
    <2>3. CASE k \in n+1 .. n+q /\ j \in n+1 .. n+q
      BY <1>1, <1>10, <2>3
    <2> QED BY <1>3, <2>1, <2>2, <2>3
  <1>12. InOrder(t)
    BY <1>2, <1>8, <1>11 DEF InOrder
  <1> DEFINE key == Key(end, d)
  <1>13. ASSUME NEW x \in Nat PROVE Key(end, x) \in Int /\ Key(end, x) \in Bucket /\ (x <= d => key <= Key(end, x))
    <2>1. Key(end, x) \in Bucket /\ (x <= d => key <= Key(end, x))
      BY <1>1, KeyType
    <2> QED BY <2>1 DEF Bucket
  <1> HIDE DEF key
  <1>14. key \in Int /\ key \in Bucket
    BY <1>1, <1>13 DEF key
  <1>15. \A k \in 1 .. n : key <= Key(end, sd[k]) /\ Key(end, sd[k]) \in Int
    BY <1>7, <1>13
  <1>16. ASSUME NEW i \in Int
         PROVE  /\ Older(end, t, i) = Older(end, s, i) + (IF i <= key THEN q ELSE 0)
                /\ Older(end, s, i) \in Nat
    <2> DEFINE x == Older(end, s, i)
               u == Older(end, t, i)
               old == From(end, s, i)
               new == From(end, t, i)
    <2>1. x \in 0 .. n /\ old = 1 .. x /\ x = Cardinality(old)
      BY OlderFirst DEF n, Older
    <2>2. u = Cardinality(new)
      BY DEF Older
    <2>3. old = {k \in 1 .. n : i <= Key(end, sd[k])}
      BY <1>7 DEF From, n
    <2>4. new = {k \in 1 .. n+q : i <= Key(end, td[k])}
      BY <1>2, <1>8 DEF From
    <2> HIDE DEF x, u, old, new
    <2>5. ASSUME NEW c \in Nat PROVE Cardinality(1 .. c) = c
      <3>1. c \in Int /\ 1 \in Int /\ c >= 0
        OBVIOUS
      <3>2. Cardinality(1 .. c) = IF 1 > c THEN 0 ELSE c - 1 + 1
        BY <3>1, FS_Interval
      <3> QED BY <3>1, <3>2
    <2>6. CASE i <= key
      <3>1. \A k \in 1 .. n : i <= Key(end, sd[k])
        BY <1>14, <1>15, <2>6
      <3>2. \A k \in 1 .. n+q : i <= Key(end, td[k])
        BY <1>3, <1>10, <2>6, <3>1 DEF key
      <3>3. old = 1 .. n /\ new = 1 .. n+q /\ n+q \in Nat
        BY <1>1, <2>3, <2>4, <3>1, <3>2
      <3>4. x = n /\ u = n+q
        BY <1>1, <2>1, <2>2, <2>5, <3>3
      <3> QED BY <1>1, <2>6, <3>4 DEF x, u
    <2>7. CASE ~(i <= key)
      <3>1. \A k \in n+1 .. n+q : ~(i <= Key(end, td[k]))
        BY <1>10, <2>7 DEF key
      <3>2. \A k : k \in new <=> k \in old
        BY <1>3, <1>4, <1>10, <2>3, <2>4, <3>1
      <3>3. new = old
        BY <3>2
      <3>4. u = x /\ x \in Nat
        BY <1>1, <2>1, <2>2, <3>3
      <3> QED BY <2>7, <3>4 DEF x, u
    <2> QED BY <2>6, <2>7
  <1>17. Ages(end, t) = In(end, Ages(end, s), m)
    <2> DEFINE a == Ages(end, s)
               b == In(end, a, m)
    <2>1. a \in Buckets /\ \A i \in Bucket : a[i] = Older(end, s, i) - Older(end, s, i+1)
      BY AgesOlder
    <2>2. b \in Buckets /\ \A i \in Bucket : b[i] = IF i = key THEN a[i] + q ELSE a[i]
      <3> HIDE DEF a
      <3> QED BY <2>1, InKeeps DEF q, d, key
    <2> HIDE DEF a, b
    <2>3. ASSUME NEW i \in Bucket PROVE b[i] = Older(end, t, i) - Older(end, t, i+1)
      <3>1. i \in Int /\ i+1 \in Int
        BY DEF Bucket
      <3> DEFINE x == Older(end, s, i)
                 y == Older(end, s, i+1)
                 u == Older(end, t, i)
                 v == Older(end, t, i+1)
      <3>2. /\ u = x + (IF i <= key THEN q ELSE 0) /\ x \in Nat
            /\ v = y + (IF i+1 <= key THEN q ELSE 0) /\ y \in Nat
        BY <1>16, <3>1
      <3>3. a[i] = x - y /\ b[i] = IF i = key THEN a[i] + q ELSE a[i]
        BY <2>1, <2>2
      <3> HIDE DEF x, y, u, v
      <3>4. b[i] = u - v
        BY <1>1, <1>14, <3>1, <3>2, <3>3
      <3> QED BY <3>4 DEF u, v
    <2>4. Ages(end, t) = b
      BY <1>2, <1>12, <2>2, <2>3, AgesSame
    <2> QED BY <2>4 DEF a, b
  <1> QED BY <1>12, <1>17

\* The oldest pieces leave: they leave the oldest buckets.
LEMMA AgesShipped ==
    ASSUME NEW end \in Int, NEW s \in Seq(Nat), InOrder(s), NEW m \in Mv, m.qty <= Len(s),
           NEW t, Fewer(t, s, m.qty)
    PROVE  InOrder(t) /\ Ages(end, t) = Out(Ages(end, s), m)
  <1> DEFINE n == Len(s)
             q == m.qty
  <1>1. q \in Nat /\ n \in Nat /\ q <= n
    BY ReportsFacts DEF Mv
  <1>2. t \in Seq(Nat) /\ Len(t) = n - q /\ \A k \in 1 .. n-q : t[k] = s[q+k]
    BY DEF Fewer
  <1> HIDE DEF n, q
  <1>3. \A k \in 1 .. n-q : q+k \in 1 .. n
    BY <1>1
  <1>4. InOrder(t)
    <2>1. \A j, k \in 1 .. n : j <= k => s[j] <= s[k]
      BY DEF InOrder, n
    <2> SUFFICES ASSUME NEW j \in 1 .. n-q, NEW k \in 1 .. n-q, j <= k PROVE t[j] <= t[k]
      BY <1>2 DEF InOrder
    <2>2. q+j <= q+k /\ q+j \in 1 .. n /\ q+k \in 1 .. n
      BY <1>1
    <2> QED BY <1>2, <2>1, <2>2
  <1>5. ASSUME NEW i \in Int
        PROVE  Older(end, t, i) = Pos(Older(end, s, i) - q) /\ Older(end, s, i) \in Nat
    <2> DEFINE c == Older(end, s, i)
    <2>1. c \in 0 .. n /\ From(end, s, i) = 1 .. c
      BY OlderFirst DEF n
    <2>2. From(end, s, i) = {k \in 1 .. n : i <= Key(end, s[k])}
      BY DEF From, n
    <2> HIDE DEF c
    <2>3. From(end, t, i) = {k \in 1 .. n-q : i <= Key(end, t[k])}
      BY <1>2 DEF From
    <2>4. \A k \in 1 .. n-q : i <= Key(end, t[k]) <=> q+k <= c
      <3>1. ASSUME NEW k \in 1 .. n-q PROVE i <= Key(end, t[k]) <=> q+k <= c
        <4>1. q+k \in 1 .. n /\ t[k] = s[q+k]
          BY <1>1, <1>2
        <4>2. i <= Key(end, s[q+k]) <=> q+k \in 1 .. c
          BY <2>1, <2>2, <4>1
        <4>3. q+k \in 1 .. c <=> q+k <= c
          BY <1>1, <2>1
        <4> QED BY <4>1, <4>2, <4>3
      <3> QED BY <3>1
    <2>5. From(end, t, i) = {k \in 1 .. n-q : q+k <= c}
      BY <2>3, <2>4
    <2>6. {k \in 1 .. n-q : q+k <= c} = 1 .. Pos(c-q)
      BY <1>1, <2>1 DEF Pos
    <2>7. Cardinality(1 .. Pos(c-q)) = Pos(c-q)
      <3>1. ASSUME NEW x \in Nat PROVE Cardinality(1 .. x) = x
        <4>1. x \in Int /\ 1 \in Int /\ x >= 0
          OBVIOUS
        <4>2. Cardinality(1 .. x) = IF 1 > x THEN 0 ELSE x - 1 + 1
          BY <4>1, FS_Interval
        <4> QED BY <4>1, <4>2
      <3>2. Pos(c-q) \in Nat
        BY <1>1, <2>1 DEF Pos
      <3> QED BY <3>1, <3>2
    <2>8. Older(end, t, i) = Pos(c-q)
      <3> DEFINE p == Pos(c-q)
      <3>1. From(end, t, i) = 1 .. p /\ Cardinality(1 .. p) = p
        BY <2>5, <2>6, <2>7
      <3> HIDE DEF p
      <3>2. Older(end, t, i) = p
        BY <3>1 DEF Older
      <3> QED BY <3>2 DEF p
    <2>9. c \in Nat
      BY <2>1
    <2> QED BY <2>8, <2>9 DEF c
  <1>6. Ages(end, t) = Out(Ages(end, s), m)
    <2> DEFINE a == Ages(end, s)
               b == Out(a, m)
    <2>1. /\ a \in Buckets
          /\ \A i \in Bucket : /\ a[i] = Older(end, s, i) - Older(end, s, i+1)
                               /\ Older(end, s, i+1) <= Older(end, s, i)
      BY AgesOlder
    <2>2. \A i \in Bucket : Above(a, i) = Older(end, s, i+1)
      BY AgesAbove
    <2>3. b \in Buckets /\ \A i \in Bucket : b[i] = a[i] - Least(a[i], Pos(q - Above(a, i)))
      <3> HIDE DEF a
      <3> QED BY <2>1, OutKeeps DEF q
    <2> HIDE DEF a, b
    <2>4. ASSUME NEW i \in Bucket PROVE b[i] = Older(end, t, i) - Older(end, t, i+1)
      <3>1. i \in Int /\ i+1 \in Int
        BY DEF Bucket
      <3> DEFINE x == Older(end, s, i)
                 y == Older(end, s, i+1)
                 u == Older(end, t, i)
                 v == Older(end, t, i+1)
      <3>2. u = Pos(x - q) /\ x \in Nat /\ v = Pos(y - q) /\ y \in Nat
        BY <1>5, <3>1
      <3>3. a[i] = x - y /\ y <= x /\ b[i] = a[i] - Least(a[i], Pos(q - y))
        BY <2>1, <2>2, <2>3
      <3> HIDE DEF x, y, u, v
      <3>4. b[i] = u - v
        BY <1>1, <3>2, <3>3 DEF Least, Pos
      <3> QED BY <3>4 DEF u, v
    <2>5. Ages(end, t) = b
      BY <1>2, <1>4, <2>3, <2>4, AgesSame
    <2> QED BY <2>5 DEF a, b
  <1> QED BY <1>4, <1>6

-----------------------------------------------------------------------------
(* Costs.                                                                  *)

LEMMA WorthType ==
    ASSUME NEW s \in Seq(Nat)
    PROVE  Worth(s) \in Nat
  <1>1. Len(s) \in Nat /\ s \in [1 .. Len(s) -> Nat]
    OBVIOUS
  <1>2. IsFiniteSet(1 .. Len(s))
    BY <1>1, FS_Interval
  <1> QED BY <1>1, <1>2, TotalType DEF Worth

\* What pieces of one price add to the cost.
LEMMA WorthMore ==
    ASSUME NEW s \in Seq(Nat), NEW q \in Nat, NEW p \in Nat, NEW t, More(t, s, q, p)
    PROVE  Worth(t) = Worth(s) + q * p
  <1> DEFINE n == Len(s)
             first == [k \in 1 .. n |-> t[k]]
             next == [k \in 1 .. q |-> t[n+k]]
  <1>1. /\ t \in Seq(Nat) /\ Len(t) = n + q /\ n \in Nat
        /\ \A k \in 1 .. n : t[k] = s[k]
        /\ \A k \in n+1 .. n+q : t[k] = p
    BY DEF More
  <1>2. t \in [1 .. n+q -> Int]
    BY <1>1
  <1>3. s = first
    <2>1. s \in [1 .. n -> Nat] /\ \A k \in 1 .. n : first[k] = s[k]
      BY <1>1
    <2> QED BY <2>1
  <1>4. Total(next) = q * p
    <2>1. \A k \in 1 .. q : n+k \in n+1 .. n+q
      BY <1>1
    <2>2. next = [k \in 1 .. q |-> p]
      BY <1>1, <2>1
    <2> HIDE DEF next
    <2>3. p \in Int => Total([k \in 1 .. q |-> p]) = q * p
      BY TotalConstant
    <2> QED BY <2>2, <2>3
  <1>5. Total(t) = Total(first) + Total(next)
    <2> HIDE DEF n
    <2> QED BY <1>1, <1>2, TotalSplit
  <1> HIDE DEF first, next
  <1> QED BY <1>3, <1>4, <1>5 DEF Worth

\* The first pieces take their cost along.
LEMMA WorthFewer ==
    ASSUME NEW s \in Seq(Nat), NEW q \in Nat, q <= Len(s), NEW t, Fewer(t, s, q)
    PROVE  Worth(t) = Worth(s) - Worth(SubSeq(s, 1, q))
  <1> DEFINE n == Len(s)
             r == n - q
             u == SubSeq(s, 1, q)
             first == [k \in 1 .. q |-> s[k]]
             next == [k \in 1 .. r |-> s[q+k]]
  <1>1. n \in Nat /\ r \in Nat /\ q + r = n
    OBVIOUS
  <1>2. t \in Seq(Nat) /\ Len(t) = r /\ \A k \in 1 .. r : t[k] = s[q+k]
    BY DEF Fewer
  <1>3. u \in Seq(Nat) /\ Len(u) = q /\ \A k \in 1 .. q : u[k] = s[k]
    <2>1. \A k \in 1 .. q : s[k] \in Nat
      OBVIOUS
    <2> QED BY <2>1
  <1> HIDE DEF u, r
  <1>4. s \in [1 .. q+r -> Int]
    BY <1>1
  <1>5. u = first
    <2>1. u \in [1 .. q -> Nat] /\ \A k \in 1 .. q : first[k] = u[k]
      BY <1>3
    <2> QED BY <2>1
  <1>6. t = next
    <2>1. t \in [1 .. r -> Nat] /\ \A k \in 1 .. r : next[k] = t[k]
      BY <1>2
    <2> QED BY <2>1
  <1>7. Total(s) = Total(first) + Total(next)
    <2> HIDE DEF n
    <2> QED BY <1>1, <1>4, TotalSplit
  <1>8. Worth(u) \in Nat /\ Worth(t) \in Nat
    BY <1>2, <1>3, WorthType
  <1> HIDE DEF first, next
  <1>9. Worth(t) = Worth(s) - Worth(u)
    BY <1>5, <1>6, <1>7, <1>8 DEF Worth
  <1> QED BY <1>9 DEF u

\* Moved, of any history.
MovedIn(h, kind, column) ==
    Total([i \in {k \in DOMAIN h : h[k].kind = kind} |-> h[i][column]])

LEMMA MovedNext ==
    ASSUME NEW h \in Seq(Mv), NEW m \in Mv, NEW kind, NEW column \in {"qty", "value"}
    PROVE  /\ MovedIn(h, kind, column) \in Int
           /\ MovedIn(Append(h, m), kind, column) =
                MovedIn(h, kind, column) + (IF m.kind = kind THEN m[column] ELSE 0)
  <1> DEFINE n == Len(h)
             k == Append(h, m)
             D == {i \in 1 .. n : h[i].kind = kind}
             E == {i \in 1 .. n+1 : k[i].kind = kind}
             f == [i \in D |-> h[i][column]]
             g == [i \in E |-> k[i][column]]
  <1>1. n \in Nat /\ DOMAIN h = 1 .. n /\ DOMAIN k = 1 .. n+1 /\ k[n+1] = m
        /\ \A i \in 1 .. n : k[i] = h[i] /\ h[i] \in Mv
    OBVIOUS
  <1> HIDE DEF n, k
  <1>2. MovedIn(h, kind, column) = Total(f) /\ MovedIn(k, kind, column) = Total(g)
    BY <1>1 DEF MovedIn
  <1>3. \A e \in Mv : e[column] \in Int
    <2>1. ASSUME NEW e \in Mv PROVE e["qty"] \in Int /\ e["value"] \in Int
      BY ReportsFacts DEF Mv
    <2> QED BY <2>1
  <1>4. \A i \in 1 .. n+1 : k[i] \in Mv
    <2>1. \A i \in 1 .. n+1 : i \in 1 .. n \/ i = n+1
      BY <1>1
    <2> QED BY <1>1, <2>1
  <1>5. f \in [D -> Int] /\ g \in [E -> Int]
    BY <1>1, <1>3, <1>4
  <1>6. IsFiniteSet(D) /\ IsFiniteSet(E)
    <2>1. IsFiniteSet(1 .. n) /\ IsFiniteSet(1 .. n+1)
      BY <1>1, FS_Interval
    <2>2. D \in SUBSET (1 .. n) /\ E \in SUBSET (1 .. n+1)
      OBVIOUS
    <2> HIDE DEF D, E
    <2> QED BY <2>1, <2>2, FS_Subset
  <1>7. Total(f) \in Int
    <2> HIDE DEF f, D
    <2> QED BY <1>5, <1>6, TotalType
  <1>8. n+1 \in 1 .. n+1 /\ n+1 \notin 1 .. n /\ \A i \in 1 .. n+1 : i \in 1 .. n \/ i = n+1
    BY <1>1
  <1>9. \A i \in 1 .. n : i \in 1 .. n+1
    BY <1>1
  <1>10. CASE m.kind = kind
    <2>1. n+1 \in E /\ E \ {n+1} = D
      BY <1>1, <1>8, <1>9, <1>10
    <2>2. Total(g) = g[n+1] + Total([i \in E \ {n+1} |-> g[i]])
      <3>1. \A x \in E : Total(g) = g[x] + Total([i \in E \ {x} |-> g[i]])
        <4> HIDE DEF g, E
        <4> QED BY <1>5, <1>6, TotalRemove
      <3> QED BY <2>1, <3>1
    <2>3. g[n+1] = m[column]
      BY <1>1, <2>1
    <2>4. [i \in E \ {n+1} |-> g[i]] = f
      <3>1. \A i \in D : i \in E /\ g[i] = h[i][column]
        BY <1>1, <2>1
      <3> HIDE DEF E, g
      <3> QED BY <2>1, <3>1
    <2>5. m[column] \in Int
      BY <1>3
    <2> HIDE DEF f, g, D, E
    <2>6. Total(g) = Total(f) + m[column]
      BY <1>7, <2>2, <2>3, <2>4, <2>5
    <2> QED BY <1>2, <1>7, <1>10, <2>6 DEF k
  <1>11. CASE m.kind # kind
    <2>1. E = D
      BY <1>1, <1>8, <1>9, <1>11
    <2>2. \A i \in D : k[i] = h[i]
      BY <1>1
    <2>3. g = f
      BY <2>1, <2>2
    <2> HIDE DEF f, g, D, E
    <2> QED BY <1>2, <1>7, <1>11, <2>3 DEF k
  <1> QED BY <1>10, <1>11

-----------------------------------------------------------------------------
(* The invariant of the history.                                           *)

\* Nothing is from tomorrow, and the pieces of a lot are in order.
DaysInv ==
    /\ \A i \in 1 .. Len(lines) : lines[i].day <= today
    /\ \A l \in Lot : /\ since[l] <= today /\ InOrder(pieces[l])
                      /\ \A k \in 1 .. Len(pieces[l]) : pieces[l][k] <= today

\* Counted on top of other lots, a lot adds as many pieces as it has; counted by
\* itself, their ages.
CountInv ==
    \A end \in Int, l \in Lot :
        /\ \A b \in Buckets : Total(CountedIn(hist, end, b, l)) = Total(b) + Len(pieces[l])
        /\ CountedIn(hist, end, Empty, l) = Ages(end, pieces[l])

HistoryInv == Types /\ DaysInv /\ CountInv /\ CostOfStock

LEMMA EmptyBuckets == Empty \in Buckets /\ Total(Empty) = 0
  <1>1. Empty \in Buckets /\ Empty \in [Bucket -> Int] /\ \A i \in Bucket : Empty[i] = 0
    BY DEF Empty, Buckets
  <1>2. IsFiniteSet(Bucket)
    BY ReportsFacts
  <1> QED BY <1>1, <1>2, TotalZero

\* Totals over the lots.
LEMMA TotalLots ==
    ASSUME NEW f \in [Lot -> Int]
    PROVE  /\ Total(f) \in Int
           /\ \A g \in [Lot -> Int], l \in Lot :
                (\A k \in Lot \ {l} : g[k] = f[k]) => Total(g) = Total(f) - f[l] + g[l]
  <1>1. IsFiniteSet(Lot)
    BY ReportsFacts
  <1>2. Total(f) \in Int
    BY <1>1, TotalType
  <1>3. ASSUME NEW g \in [Lot -> Int], NEW l \in Lot, \A k \in Lot \ {l} : g[k] = f[k]
        PROVE  Total(g) = Total(f) - f[l] + g[l]
    BY <1>1, <1>3, TotalExcept
  <1> QED BY <1>2, <1>3

LEMMA HistoryInit == ReportsInit => HistoryInv
  <1> SUFFICES ASSUME ReportsInit PROVE HistoryInv
    OBVIOUS
  <1>1. /\ hist = <<>> /\ lines = <<>> /\ left = <<>> /\ today = 0
        /\ \A l \in Lot : pieces[l] = <<>> /\ since[l] = 0
        /\ pieces \in [Lot -> Seq(Nat)] /\ since \in [Lot -> Nat]
        /\ hist \in Seq(Mv) /\ lines \in Seq(Mv) /\ left \in Seq(Nat)
    BY DEF ReportsInit
  <1>2. Types
    BY <1>1 DEF Types, HistType, PiecesType, DaysType
  <1>3. DaysInv
    BY <1>1 DEF DaysInv, InOrder
  <1>4. CountInv
    <2> SUFFICES ASSUME NEW end \in Int, NEW l \in Lot
                 PROVE  /\ \A b \in Buckets : Total(CountedIn(hist, end, b, l)) = Total(b) + Len(pieces[l])
                        /\ CountedIn(hist, end, Empty, l) = Ages(end, pieces[l])
      BY DEF CountInv
    <2>1. Len(pieces[l]) = 0 /\ pieces[l] \in Seq(Nat) /\ InOrder(pieces[l])
      BY <1>1, <1>3 DEF DaysInv
    <2>2. \A b \in Buckets : CountedIn(hist, end, b, l) = b
      BY <1>1, CountedNext
    <2>3. \A b \in Buckets : Total(b) \in Int
      <3>1. \A b \in [Bucket -> Int] : Total(b) \in Int
        BY ReportsFacts, TotalType
      <3>2. \A b \in Buckets : b \in [Bucket -> Int]
        BY DEF Buckets
      <3> QED BY <3>1, <3>2
    <2>4. Ages(end, pieces[l]) = Empty
      <3> DEFINE s == pieces[l]
      <3>1. s \in Seq(Nat) /\ InOrder(s) /\ Len(s) = 0
        BY <2>1
      <3> HIDE DEF s
      <3>2. \A i \in Int : Older(end, s, i) = 0
        <4>1. \A i \in Int : Older(end, s, i) \in 0 .. Len(s)
          BY <3>1, OlderFirst
        <4> QED BY <3>1, <4>1
      <3>3. \A i \in Bucket : Empty[i] = Older(end, s, i) - Older(end, s, i+1)
        <4>1. \A i \in Bucket : i \in Int /\ i+1 \in Int /\ Empty[i] = 0
          BY DEF Bucket, Empty
        <4> QED BY <3>2, <4>1
      <3>4. Ages(end, s) = Empty
        BY <3>1, <3>3, EmptyBuckets, AgesSame
      <3> QED BY <3>4 DEF s
    <2>5. \A b \in Buckets : Total(b) + 0 = Total(b)
      BY <2>3
    <2> QED BY <2>1, <2>2, <2>4, <2>5, EmptyBuckets
  <1>5. CostOfStock
    <2> DEFINE lens == [l \in Lot |-> Len(pieces[l])]
    <2>1. \A l \in Lot : lens[l] = 0
      BY <1>1
    <2>2. lens \in [Lot -> Int] /\ IsFiniteSet(Lot)
      BY <2>1, ReportsFacts
    <2>3. Total(lens) = 0
      <3> HIDE DEF lens
      <3> QED BY <2>1, <2>2, TotalZero
    <2>4. Worth(left) = 0 /\ Len(left) = 0
      <3>1. left \in [{} -> Int] /\ IsFiniteSet({}) /\ Len(left) = 0
        BY <1>1, FS_EmptySet
      <3>2. Total(left) = 0
        BY <3>1, TotalZero
      <3> QED BY <3>1, <3>2 DEF Worth
    <2>5. \A kind, column : Moved(kind, column) = 0
      <3> SUFFICES ASSUME NEW kind, NEW column PROVE Moved(kind, column) = 0
        OBVIOUS
      <3> DEFINE D == {k \in DOMAIN hist : hist[k].kind = kind}
                 f == [i \in D |-> hist[i][column]]
      <3>1. D = {} /\ IsFiniteSet({})
        BY <1>1, FS_EmptySet
      <3> HIDE DEF D
      <3>2. f \in [{} -> Int]
        BY <3>1
      <3> HIDE DEF f
      <3>3. Total(f) = 0
        BY <3>1, <3>2, TotalZero
      <3> QED BY <3>3 DEF Moved, f, D
    <2>6. OnHand = 0 /\ StockValue = 0
      BY <2>5 DEF OnHand, StockValue
    <2> QED BY <2>3, <2>4, <2>6 DEF CostOfStock
  <1> QED BY <1>2, <1>3, <1>4, <1>5 DEF HistoryInv

\* A move of one lot that its pieces follow.
Fits(l, m, s, t) ==
    /\ m.lot = l /\ m.day = today /\ t \in Seq(Nat) /\ InOrder(t)
    /\ \A k \in 1 .. Len(t) : t[k] <= today
    /\ m.kind = "in" => Len(t) = Len(s) + m.qty
    /\ m.kind = "out" => Len(t) = Len(s) - m.qty
    /\ \A end \in Int : Counted(end, Ages(end, s), m) = Ages(end, t)

\* ... and that the layers of receipts follow.
Costs(m, u) ==
    /\ u \in Seq(Nat) /\ Worth(u) = Worth(left) + m.value
    /\ m.kind = "in" => Len(u) = Len(left) + m.qty
    /\ m.kind = "out" => Len(u) = Len(left) - m.qty

\* The line of a move that is done is new, or one that was entered.
Written(m) ==
    lines' = Append(lines, m) \/ \E k \in DOMAIN lines : lines' = [lines EXCEPT ![k] = m]

LEMMA LinesKeep ==
    ASSUME Types, DaysInv, NEW m \in Mv, m.day = today, Written(m)
    PROVE  lines' \in Seq(Mv) /\ \A i \in 1 .. Len(lines') : lines'[i].day <= today
  <1>1. /\ lines \in Seq(Mv) /\ Len(lines) \in Nat /\ DOMAIN lines = 1 .. Len(lines) /\ today \in Nat
        /\ \A i \in 1 .. Len(lines) : lines[i].day <= today
    BY DEF Types, HistType, DaysType, DaysInv
  <1>2. m.day <= today
    BY <1>1
  <1>3. CASE lines' = Append(lines, m)
    <2>1. /\ lines' \in Seq(Mv) /\ Len(lines') = Len(lines) + 1 /\ lines'[Len(lines) + 1] = m
          /\ \A i \in 1 .. Len(lines) : lines'[i] = lines[i]
      BY <1>1, <1>3
    <2>2. \A i \in 1 .. Len(lines') : i \in 1 .. Len(lines) \/ i = Len(lines) + 1
      BY <1>1, <2>1
    <2> QED BY <1>1, <1>2, <2>1, <2>2
  <1>4. ASSUME NEW k \in DOMAIN lines, lines' = [lines EXCEPT ![k] = m]
        PROVE  lines' \in Seq(Mv) /\ \A i \in 1 .. Len(lines') : lines'[i].day <= today
    <2>1. lines' \in Seq(Mv) /\ Len(lines') = Len(lines)
      BY <1>1, <1>4
    <2>2. \A i \in 1 .. Len(lines) : lines'[i] = IF i = k THEN m ELSE lines[i]
      BY <1>1, <1>4
    <2> QED BY <1>1, <1>2, <2>1, <2>2
  <1> QED BY <1>3, <1>4 DEF Written

LEMMA MoveKeeps ==
    ASSUME HistoryInv, NEW l \in Lot, NEW m \in Mv, NEW t, Fits(l, m, pieces[l], t), Costs(m, left'),
           hist' = Append(hist, m), Written(m), pieces' = [pieces EXCEPT ![l] = t], today' = today,
           since' \in [Lot -> Nat], \A k \in Lot : since'[k] <= today
    PROVE  HistoryInv'
  <1> DEFINE s == pieces[l]
  <1>1. /\ hist \in Seq(Mv) /\ pieces \in [Lot -> Seq(Nat)] /\ since \in [Lot -> Nat]
        /\ today \in Nat /\ s \in Seq(Nat)
    BY DEF HistoryInv, Types, HistType, PiecesType, DaysType
  <1>2. /\ m.lot = l /\ m.day = today /\ t \in Seq(Nat) /\ InOrder(t)
        /\ \A k \in 1 .. Len(t) : t[k] <= today
    BY DEF Fits
  <1>3. pieces' \in [Lot -> Seq(Nat)] /\ \A k \in Lot : pieces'[k] = IF k = l THEN t ELSE pieces[k]
    BY <1>1, <1>2
  <1>4. Types'
    <2>1. lines' \in Seq(Mv) /\ left' \in Seq(Nat)
      BY <1>2, LinesKeep DEF HistoryInv, Costs
    <2> QED BY <1>1, <1>3, <2>1 DEF Types, HistType, PiecesType, DaysType
  <1>5. DaysInv'
    <2>1. \A i \in 1 .. Len(lines') : lines'[i].day <= today'
      BY <1>2, LinesKeep DEF HistoryInv
    <2>2. \A k \in Lot : /\ since'[k] <= today' /\ InOrder(pieces'[k])
                         /\ \A i \in 1 .. Len(pieces'[k]) : pieces'[k][i] <= today'
      <3>1. \A k \in Lot : InOrder(pieces[k]) /\ \A i \in 1 .. Len(pieces[k]) : pieces[k][i] <= today
        BY DEF HistoryInv, DaysInv
      <3> SUFFICES ASSUME NEW k \in Lot
                   PROVE  /\ since'[k] <= today' /\ InOrder(pieces'[k])
                          /\ \A i \in 1 .. Len(pieces'[k]) : pieces'[k][i] <= today'
        OBVIOUS
      <3>2. CASE k = l
        <4>1. pieces'[k] = t
          BY <1>3, <3>2
        <4> QED BY <1>2, <4>1
      <3>3. CASE k # l
        <4>1. pieces'[k] = pieces[k]
          BY <1>3, <3>3
        <4> QED BY <3>1, <4>1
      <3> QED BY <3>2, <3>3
    <2> QED BY <2>1, <2>2 DEF DaysInv, InOrder
  <1>6. CountInv'
    <2> SUFFICES ASSUME NEW end \in Int, NEW k \in Lot
                 PROVE  /\ \A b \in Buckets : Total(CountedIn(hist', end, b, k)) = Total(b) + Len(pieces'[k])
                        /\ CountedIn(hist', end, Empty, k) = Ages(end, pieces'[k])
      BY DEF CountInv, Ages
    <2>1. /\ \A b \in Buckets : Total(CountedIn(hist, end, b, k)) = Total(b) + Len(pieces[k])
          /\ CountedIn(hist, end, Empty, k) = Ages(end, pieces[k])
      BY DEF HistoryInv, CountInv
    <2>2. \A b \in Buckets : /\ CountedIn(hist, end, b, k) \in Buckets
                             /\ CountedIn(hist', end, b, k) = Step(end, CountedIn(hist, end, b, k), k, m)
      <3>1. ASSUME NEW b \in Buckets
            PROVE  /\ CountedIn(hist, end, b, k) \in Buckets
                   /\ CountedIn(Append(hist, m), end, b, k) = Step(end, CountedIn(hist, end, b, k), k, m)
        <4>1. /\ \A h \in Seq(Mv) : CountedIn(h, end, b, k) \in Buckets
              /\ \A h \in Seq(Mv), e \in Mv :
                   CountedIn(Append(h, e), end, b, k) = Step(end, CountedIn(h, end, b, k), k, e)
          BY CountedNext
        <4> QED BY <1>1, <4>1
      <3> QED BY <3>1
    <2>3. CASE k # l
      <3>1. \A b \in Buckets : CountedIn(hist', end, b, k) = CountedIn(hist, end, b, k)
        BY <1>2, <2>2, <2>3 DEF Step
      <3>2. pieces'[k] = pieces[k]
        BY <1>3, <2>3
      <3> QED BY <2>1, <3>1, <3>2, EmptyBuckets
    <2>4. CASE k = l
      <3>1. pieces'[k] = t /\ s = pieces[k]
        BY <1>3, <2>4
      <3>2. \A b \in Buckets : CountedIn(hist', end, b, k) = Counted(end, CountedIn(hist, end, b, k), m)
        BY <1>2, <2>2, <2>4 DEF Step
      <3>3. CountedIn(hist', end, Empty, k) = Ages(end, t)
        BY <2>1, <2>4, <3>2, EmptyBuckets DEF Fits
      <3>4. ASSUME NEW b \in Buckets PROVE Total(CountedIn(hist', end, b, k)) = Total(b) + Len(t)
        <4> DEFINE c == CountedIn(hist, end, b, k)
        <4>1. c \in Buckets /\ Total(c) = Total(b) + Len(s) /\ CountedIn(hist', end, b, k) = Counted(end, c, m)
          BY <2>1, <2>2, <3>1, <3>2
        <4> HIDE DEF c
        <4>2. Total(b) \in Nat
          <5>1. IsFiniteSet(Bucket)
            BY ReportsFacts
          <5> QED BY <5>1, TotalType DEF Buckets
        <4>3. m.qty \in Nat /\ m.kind \in {"in", "out"} /\ Len(s) \in Nat /\ Len(t) \in Nat
          <5>1. m.qty \in Nat /\ m.kind \in {"in", "out"}
            BY ReportsFacts DEF Mv
          <5>2. Len(s) \in Nat /\ Len(t) \in Nat
            BY <1>1, <1>2
          <5> QED BY <5>1, <5>2
        <4>4. CASE m.kind = "in"
          <5>1. Len(t) = Len(s) + m.qty
            BY <4>4 DEF Fits
          <5>2. Counted(end, c, m) = In(end, c, m)
            BY <4>4 DEF Counted
          <5>3. Total(In(end, c, m)) = Total(c) + m.qty
            BY <4>1, InKeeps
          <5> QED BY <4>1, <4>2, <4>3, <5>1, <5>2, <5>3
        <4>5. CASE m.kind = "out"
          <5>1. Len(t) = Len(s) - m.qty
            BY <4>5 DEF Fits
          <5>2. Counted(end, c, m) = Out(c, m)
            BY <4>5 DEF Counted
          <5>3. Total(Out(c, m)) = Total(c) - Least(m.qty, Total(c))
            BY <4>1, OutKeeps
          <5>4. Least(m.qty, Total(c)) = m.qty
            BY <4>1, <4>2, <4>3, <5>1 DEF Least
          <5> QED BY <4>1, <4>2, <4>3, <5>1, <5>2, <5>3, <5>4
        <4> QED BY <4>3, <4>4, <4>5
      <3> QED BY <3>1, <3>3, <3>4
    <2> QED BY <2>3, <2>4
  <1>7. CostOfStock'
    <2> DEFINE lens == [k \in Lot |-> Len(pieces[k])]
               newlens == [k \in Lot |-> Len(pieces'[k])]
    <2>1. \A k \in Lot : lens[k] \in Int /\ newlens[k] \in Int
      <3>1. \A k \in Lot : pieces[k] \in Seq(Nat) /\ pieces'[k] \in Seq(Nat)
        BY <1>1, <1>3
      <3> QED BY <3>1
    <2>2. lens \in [Lot -> Int] /\ newlens \in [Lot -> Int]
      BY <2>1
    <2>3. \A k \in Lot \ {l} : newlens[k] = lens[k]
      BY <1>3
    <2>4. newlens[l] = Len(t) /\ lens[l] = Len(s)
      BY <1>3
    <2>5. OnHand = Total(lens) /\ OnHand = Len(left) /\ StockValue = Worth(left)
      BY DEF HistoryInv, CostOfStock
    <2>6. OnHand' = MovedIn(hist', "in", "qty") - MovedIn(hist', "out", "qty")
          /\ StockValue' = MovedIn(hist', "in", "value") + MovedIn(hist', "out", "value")
          /\ OnHand = MovedIn(hist, "in", "qty") - MovedIn(hist, "out", "qty")
          /\ StockValue = MovedIn(hist, "in", "value") + MovedIn(hist, "out", "value")
      BY DEF OnHand, StockValue, Moved, MovedIn
    <2>7. \A kind : \A column \in {"qty", "value"} :
             /\ MovedIn(hist, kind, column) \in Int
             /\ MovedIn(hist', kind, column) = MovedIn(hist, kind, column) + (IF m.kind = kind THEN m[column] ELSE 0)
      BY <1>1, MovedNext
    <2>8. m.kind \in {"in", "out"} /\ m["qty"] = m.qty /\ m["value"] = m.value /\ m.qty \in Nat /\ m.value \in Int
      BY ReportsFacts DEF Mv
    <2>9. Len(s) \in Nat /\ Len(t) \in Nat /\ Worth(left) \in Nat /\ Worth(left') \in Nat
      BY <1>1, <1>2, WorthType DEF Costs, HistoryInv, Types, PiecesType
    <2> HIDE DEF lens, newlens
    <2>10. Total(lens) \in Int /\ Total(newlens) = Total(lens) - Len(s) + Len(t)
      <3>1. ASSUME NEW f \in [Lot -> Int], NEW g \in [Lot -> Int], \A k \in Lot \ {l} : g[k] = f[k]
            PROVE  Total(f) \in Int /\ Total(g) = Total(f) - f[l] + g[l]
        BY <3>1, TotalLots
      <3>2. Total(lens) \in Int /\ Total(newlens) = Total(lens) - lens[l] + newlens[l]
        BY <2>2, <2>3, <3>1
      <3> QED BY <2>4, <3>2
    <2>11. OnHand' = Total(newlens) /\ OnHand' = Len(left') /\ StockValue' = Worth(left')
      <3> DEFINE iq == MovedIn(hist, "in", "qty")
                 oq == MovedIn(hist, "out", "qty")
                 iv == MovedIn(hist, "in", "value")
                 ov == MovedIn(hist, "out", "value")
                 niq == MovedIn(hist', "in", "qty")
                 noq == MovedIn(hist', "out", "qty")
                 niv == MovedIn(hist', "in", "value")
                 nov == MovedIn(hist', "out", "value")
                 q == m.qty
                 v == m.value
                 ls == Len(s)
                 lt == Len(t)
                 ws == Worth(left)
                 wt == Worth(left')
                 ll == Len(left)
                 lu == Len(left')
      <3>1. iq \in Int /\ oq \in Int /\ iv \in Int /\ ov \in Int
        BY <2>7
      <3>2. /\ OnHand' = niq - noq /\ StockValue' = niv + nov
            /\ Total(lens) = iq - oq /\ ll = iq - oq /\ ws = iv + ov
        BY <2>5, <2>6
      <3>3. q \in Int /\ v \in Int /\ ls \in Int /\ lt \in Int /\ ws \in Int /\ wt \in Int
        BY <2>8, <2>9
      <3>4. Total(newlens) = Total(lens) - ls + lt
        BY <2>10
      <3>5. CASE m.kind = "in"
        <4>1. lt = ls + q /\ wt = ws + v /\ lu = ll + q
          BY <3>5 DEF Fits, Costs
        <4>2. niq = iq + q /\ noq = oq + 0 /\ niv = iv + v /\ nov = ov + 0
          BY <2>7, <2>8, <3>5
        <4> HIDE DEF iq, oq, iv, ov, niq, noq, niv, nov, q, v, ls, lt, ws, wt, ll, lu
        <4>3. niq - noq = iq - oq - ls + lt /\ niq - noq = lu /\ niv + nov = wt
          BY <3>1, <3>2, <3>3, <4>1, <4>2
        <4> QED BY <3>1, <3>2, <3>3, <3>4, <4>3 DEF lu, wt
      <3>6. CASE m.kind = "out"
        <4>1. lt = ls - q /\ wt = ws + v /\ lu = ll - q
          BY <3>6 DEF Fits, Costs
        <4>2. niq = iq + 0 /\ noq = oq + q /\ niv = iv + 0 /\ nov = ov + v
          BY <2>7, <2>8, <3>6
        <4> HIDE DEF iq, oq, iv, ov, niq, noq, niv, nov, q, v, ls, lt, ws, wt, ll, lu
        <4>3. niq - noq = iq - oq - ls + lt /\ niq - noq = lu /\ niv + nov = wt
          BY <3>1, <3>2, <3>3, <4>1, <4>2
        <4> QED BY <3>1, <3>2, <3>3, <3>4, <4>3 DEF lu, wt
      <3> QED BY <2>8, <3>5, <3>6
    <2> QED BY <2>11 DEF CostOfStock, newlens
  <1> QED BY <1>4, <1>5, <1>6, <1>7 DEF HistoryInv

LEMMA ReceiveKeeps ==
    ASSUME HistoryInv, NEW l \in Lot, NEW n \in 1 .. MaxQty, NEW price \in Price, Receive(l, n, price)
    PROVE  HistoryInv'
  <1> DEFINE m == [kind |-> "in", lot |-> l, qty |-> n, value |-> n * price, day |-> today, done |-> TRUE]
             s == pieces[l]
             t == s \o [i \in 1 .. n |-> today]
             u == left \o [i \in 1 .. n |-> price]
  <1>1. /\ hist \in Seq(Mv) /\ pieces \in [Lot -> Seq(Nat)] /\ since \in [Lot -> Nat]
        /\ today \in Nat /\ s \in Seq(Nat) /\ left \in Seq(Nat)
    BY DEF HistoryInv, Types, HistType, PiecesType, DaysType
  <1>2. /\ hist' = Append(hist, m) /\ pieces' = [pieces EXCEPT ![l] = t] /\ today' = today
        /\ since' = [since EXCEPT ![l] = IF pieces[l] = <<>> THEN today ELSE @]
        /\ left' = u /\ Written(m)
    BY <1>1 DEF Receive, Done, Line, Written
  <1>3. n \in Nat /\ price \in Nat /\ n * price \in Nat
    <2>1. n \in Nat /\ price \in Nat
      BY ReportsFacts
    <2> QED BY <2>1
  <1>5. m \in Mv /\ m.kind = "in" /\ m.lot = l /\ m.qty = n /\ m.value = n * price /\ m.day = today
    BY <1>1, <1>3 DEF Mv
  <1>6. InOrder(s) /\ (\A k \in 1 .. Len(s) : s[k] <= today) /\ \A k \in Lot : since[k] <= today
    BY DEF HistoryInv, DaysInv
  <1>7. since' \in [Lot -> Nat] /\ \A k \in Lot : since'[k] <= today
    <2>1. today <= today
      BY <1>1
    <2>2. \A k \in Lot : since'[k] = since[k] \/ since'[k] = today
      BY <1>1, <1>2
    <2>3. since' \in [Lot -> Nat]
      BY <1>1, <1>2
    <2> QED BY <1>6, <2>1, <2>2, <2>3
  <1> HIDE DEF m
  <1>8. More(t, s, n, today) /\ More(u, left, n, price)
    BY <1>1, <1>3, RowsMore
  <1> HIDE DEF s, t, u
  <1>9. Costs(m, u)
    <2>1. Worth(u) = Worth(left) + n * price
      BY <1>1, <1>3, <1>8, WorthMore
    <2> QED BY <1>5, <1>8, <2>1 DEF Costs, More
  <1>10. InOrder(t) /\ \A end \in Int : Ages(end, t) = In(end, Ages(end, s), m)
    <2>1. More(t, s, m.qty, today) /\ today = m.day /\ \A k \in 1 .. Len(s) : s[k] <= m.day
      BY <1>5, <1>6, <1>8
    <2>2. ASSUME NEW end \in Int PROVE InOrder(t) /\ Ages(end, t) = In(end, Ages(end, s), m)
      BY <1>1, <1>5, <1>6, <2>1, AgesReceived
    <2>3. 0 \in Int
      OBVIOUS
    <2> QED BY <2>2, <2>3
  <1>11. t \in Seq(Nat) /\ Len(t) = Len(s) + n /\ \A k \in 1 .. Len(t) : t[k] <= today
    <2>1. /\ t \in Seq(Nat) /\ Len(t) = Len(s) + n /\ Len(s) \in Nat
          /\ \A k \in 1 .. Len(s) : t[k] = s[k]
          /\ \A k \in Len(s)+1 .. Len(s)+n : t[k] = today
      BY <1>1, <1>8 DEF More
    <2>2. \A k \in 1 .. Len(t) : k \in 1 .. Len(s) \/ k \in Len(s)+1 .. Len(s)+n
      BY <1>3, <2>1
    <2>3. today <= today
      BY <1>1
    <2> QED BY <1>6, <2>1, <2>2, <2>3
  <1>12. Fits(l, m, s, t)
    <2>1. \A end \in Int : Counted(end, Ages(end, s), m) = Ages(end, t)
      BY <1>5, <1>10 DEF Counted
    <2> QED BY <1>5, <1>10, <1>11, <2>1 DEF Fits
  <1> QED BY <1>2, <1>5, <1>7, <1>9, <1>12, MoveKeeps DEF s

LEMMA ShipKeeps ==
    ASSUME HistoryInv, NEW l \in Lot, NEW n \in 1 .. MaxQty, Ship(l, n)
    PROVE  HistoryInv'
  <1> DEFINE s == pieces[l]
             cost == Worth(SubSeq(left, 1, n))
             m == [kind |-> "out", lot |-> l, qty |-> n, value |-> 0 - cost, day |-> today, done |-> TRUE]
             t == SubSeq(s, n+1, Len(s))
             u == SubSeq(left, n+1, Len(left))
  <1>1. /\ hist \in Seq(Mv) /\ pieces \in [Lot -> Seq(Nat)] /\ since \in [Lot -> Nat]
        /\ today \in Nat /\ s \in Seq(Nat) /\ left \in Seq(Nat)
    BY DEF HistoryInv, Types, HistType, PiecesType, DaysType
  <1>2. /\ hist' = Append(hist, m) /\ pieces' = [pieces EXCEPT ![l] = t] /\ today' = today
        /\ since' = since /\ n <= Len(s) /\ left' = u /\ Written(m)
    BY <1>1 DEF Ship, Done, Line, Written
  <1>3. n \in Nat /\ n <= Len(left)
    <2>1. Len(s) <= Total([k \in Lot |-> Len(pieces[k])])
      <3> DEFINE lens == [k \in Lot |-> Len(pieces[k])]
      <3>1. lens \in [Lot -> Nat] /\ IsFiniteSet(Lot) /\ lens[l] = Len(s)
        BY <1>1, ReportsFacts
      <3> HIDE DEF lens
      <3>2. lens[l] <= Total(lens)
        BY <3>1, TotalBounds
      <3> QED BY <3>1, <3>2 DEF lens
    <2>2. Len(left) = Total([k \in Lot |-> Len(pieces[k])])
      BY DEF HistoryInv, CostOfStock
    <2>3. n \in Nat /\ Len(s) \in Nat /\ Len(left) \in Nat
      BY <1>1, ReportsFacts
    <2> QED BY <1>2, <2>1, <2>2, <2>3
  <1>4. cost \in Nat
    <2>1. SubSeq(left, 1, n) \in Seq(Nat)
      BY <1>1, <1>3
    <2> QED BY <2>1, WorthType
  <1> HIDE DEF cost
  <1>5. m \in Mv /\ m.kind = "out" /\ m.lot = l /\ m.qty = n /\ m.value = 0 - cost /\ m.day = today
    BY <1>1, <1>3, <1>4 DEF Mv
  <1>6. InOrder(s) /\ (\A k \in 1 .. Len(s) : s[k] <= today) /\ \A k \in Lot : since[k] <= today
    BY DEF HistoryInv, DaysInv
  <1>7. since' \in [Lot -> Nat] /\ \A k \in Lot : since'[k] <= today
    BY <1>1, <1>2, <1>6
  <1> HIDE DEF m
  <1>8. Fewer(t, s, n) /\ Fewer(u, left, n)
    BY <1>1, <1>2, <1>3, RowsFewer
  <1> HIDE DEF s, t, u
  <1>9. Costs(m, u)
    <2>1. Worth(u) = Worth(left) - cost
      BY <1>1, <1>3, <1>8, WorthFewer DEF cost
    <2>2. Worth(left) \in Nat
      BY <1>1, WorthType
    <2>3. Worth(u) = Worth(left) + m.value
      BY <1>4, <1>5, <2>1, <2>2
    <2> QED BY <1>5, <1>8, <2>3 DEF Costs, Fewer
  <1>10. InOrder(t) /\ \A end \in Int : Ages(end, t) = Out(Ages(end, s), m)
    <2>1. Fewer(t, s, m.qty) /\ m.qty <= Len(s)
      BY <1>2, <1>5, <1>8
    <2>2. ASSUME NEW end \in Int PROVE InOrder(t) /\ Ages(end, t) = Out(Ages(end, s), m)
      BY <1>1, <1>5, <1>6, <2>1, AgesShipped
    <2>3. 0 \in Int
      OBVIOUS
    <2> QED BY <2>2, <2>3
  <1>11. t \in Seq(Nat) /\ Len(t) = Len(s) - n /\ \A k \in 1 .. Len(t) : t[k] <= today
    <2>1. t \in Seq(Nat) /\ Len(t) = Len(s) - n /\ Len(s) \in Nat /\ \A k \in 1 .. Len(s) - n : t[k] = s[n+k]
      BY <1>1, <1>8 DEF Fewer
    <2>2. \A k \in 1 .. Len(s) - n : n+k \in 1 .. Len(s)
      BY <1>3, <2>1
    <2> QED BY <1>6, <2>1, <2>2
  <1>12. Fits(l, m, s, t)
    <2>1. \A end \in Int : Counted(end, Ages(end, s), m) = Ages(end, t)
      BY <1>5, <1>10 DEF Counted
    <2> QED BY <1>5, <1>10, <1>11, <2>1 DEF Fits
  <1> QED BY <1>2, <1>5, <1>7, <1>9, <1>12, MoveKeeps DEF s

LEMMA NoMoveKeeps ==
    ASSUME HistoryInv, hist' = hist, pieces' = pieces, left' = left
    PROVE  CountInv' /\ CostOfStock'
  <1>1. CountInv'
    <2> SUFFICES ASSUME NEW end \in Int, NEW l \in Lot
                 PROVE  /\ \A b \in Buckets : Total(CountedIn(hist', end, b, l)) = Total(b) + Len(pieces'[l])
                        /\ CountedIn(hist', end, Empty, l) = Ages(end, pieces'[l])
      BY DEF CountInv, Ages
    <2>1. /\ \A b \in Buckets : Total(CountedIn(hist, end, b, l)) = Total(b) + Len(pieces[l])
          /\ CountedIn(hist, end, Empty, l) = Ages(end, pieces[l])
      BY DEF HistoryInv, CountInv
    <2> QED BY <2>1
  <1>2. CostOfStock'
    BY DEF HistoryInv, CostOfStock, OnHand, StockValue, Moved, Worth
  <1> QED BY <1>1, <1>2

\* What is entered changes what the aging report counts, and no more.
LEMMA EnterKeeps ==
    ASSUME HistoryInv, NEW kind \in {"in", "out"}, NEW l \in Lot, NEW n \in 1 .. MaxQty, Enter(kind, l, n)
    PROVE  HistoryInv'
  <1> DEFINE m == Line(kind, l, n, 0, FALSE)
  <1>1. /\ Written(m) /\ hist' = hist /\ pieces' = pieces /\ left' = left
        /\ since' = since /\ today' = today
    BY DEF Enter, Written
  <1>2. m \in Mv /\ m.day = today
    BY DEF Line, Mv, HistoryInv, Types, DaysType
  <1> HIDE DEF m
  <1>3. lines' \in Seq(Mv) /\ \A i \in 1 .. Len(lines') : lines'[i].day <= today
    BY <1>1, <1>2, LinesKeep DEF HistoryInv
  <1>4. Types'
    BY <1>1, <1>3 DEF HistoryInv, Types, HistType, PiecesType, DaysType
  <1>5. DaysInv'
    BY <1>1, <1>3 DEF HistoryInv, DaysInv, InOrder
  <1> QED BY <1>1, <1>4, <1>5, NoMoveKeeps DEF HistoryInv

\* The invariant is one: what the reports are made of, at any time.
THEOREM HistoryHolds == ReportsSpec => []HistoryInv
  <1>1. HistoryInv /\ [ReportsNext]_pvars => HistoryInv'
    <2> SUFFICES ASSUME HistoryInv, [ReportsNext]_pvars PROVE HistoryInv'
      OBVIOUS
    <2>1. CASE Tomorrow
      <3>1. /\ hist' = hist /\ lines' = lines /\ pieces' = pieces /\ left' = left /\ since' = since
            /\ today' = today + 1
            /\ today \in Nat /\ since \in [Lot -> Nat] /\ hist \in Seq(Mv) /\ lines \in Seq(Mv)
            /\ pieces \in [Lot -> Seq(Nat)] /\ left \in Seq(Nat)
        BY <2>1 DEF Tomorrow, HistoryInv, Types, HistType, PiecesType, DaysType
      <3>2. Types'
        BY <3>1 DEF Types, HistType, PiecesType, DaysType
      <3>3. DaysInv'
        <4>1. \A i \in 1 .. Len(lines) : lines[i].day \in Nat /\ lines[i].day <= today
          <5>1. \A i \in 1 .. Len(lines) : lines[i] \in Mv
            BY <3>1
          <5> QED BY <5>1 DEF Mv, HistoryInv, DaysInv
        <4>2. ASSUME NEW l \in Lot
              PROVE  /\ since[l] <= today + 1 /\ InOrder(pieces[l])
                     /\ \A k \in 1 .. Len(pieces[l]) : pieces[l][k] <= today + 1
          <5>2. \A k \in 1 .. Len(pieces[l]) : pieces[l][k] \in Nat
            BY <3>1
          <5>3. /\ since[l] \in Nat /\ since[l] <= today /\ InOrder(pieces[l])
                /\ \A k \in 1 .. Len(pieces[l]) : pieces[l][k] <= today
            BY <3>1 DEF HistoryInv, DaysInv
          <5> QED BY <3>1, <5>2, <5>3
        <4>3. \A i \in 1 .. Len(lines) : lines[i].day <= today + 1
          BY <3>1, <4>1
        <4> QED BY <3>1, <4>2, <4>3 DEF DaysInv, InOrder
      <3> QED BY <3>1, <3>2, <3>3, NoMoveKeeps DEF HistoryInv
    <2>2. ASSUME NEW l \in Lot, NEW n \in 1 .. MaxQty, Ship(l, n) PROVE HistoryInv'
      BY <2>2, ShipKeeps
    <2>3. ASSUME NEW l \in Lot, NEW n \in 1 .. MaxQty, NEW price \in Price, Receive(l, n, price)
          PROVE  HistoryInv'
      BY <2>3, ReceiveKeeps
    <2>4. ASSUME NEW kind \in {"in", "out"}, NEW l \in Lot, NEW n \in 1 .. MaxQty, Enter(kind, l, n)
          PROVE  HistoryInv'
      BY <2>4, EnterKeeps
    <2>5. CASE UNCHANGED pvars
      <3>1. /\ hist' = hist /\ lines' = lines /\ pieces' = pieces /\ left' = left
            /\ since' = since /\ today' = today
        BY <2>5 DEF pvars
      <3>2. Types' /\ DaysInv'
        BY <3>1 DEF HistoryInv, Types, HistType, PiecesType, DaysType, DaysInv, InOrder
      <3> QED BY <3>1, <3>2, NoMoveKeeps DEF HistoryInv
    <2> QED BY <2>1, <2>2, <2>3, <2>4, <2>5 DEF ReportsNext
  <1> QED BY <1>1, HistoryInit, PTL DEF ReportsSpec

-----------------------------------------------------------------------------
(* The report: lot by lot in the same buckets.                             *)

LotStep(end, b, l) == IF l \in Quants(end) THEN CountedIn(lines, end, b, l) ELSE b

LotsFollow(end, f) == f = [n \in 0 .. Len(Lots) |-> IF n = 0 THEN Empty ELSE LotStep(end, f[n-1], Lots[n])]

\* f tells the buckets after every lot.
LotsTell(end, f) ==
    /\ f \in [0 .. Len(Lots) -> Buckets] /\ f[0] = Empty
    /\ \A q \in 1 .. Len(Lots) : f[q] = LotStep(end, f[q-1], Lots[q])
    /\ Aging(end) = f[Len(Lots)]

LEMMA AgingIs ==
    ASSUME NEW end
    PROVE  Aging(end) = (CHOOSE f : LotsFollow(end, f))[Len(Lots)]
  <1>1. \A b, l : CountedLot(end, b, l) = CountedIn(lines, end, b, l)
    BY CountedLotIs
  <1>2. \A f : LotsFollow(end, f) <=>
           f = [n \in 0 .. Len(Lots) |->
                  IF n = 0 THEN Empty
                  ELSE IF Lots[n] \in Quants(end) THEN CountedLot(end, f[n-1], Lots[n]) ELSE f[n-1]]
    BY <1>1 DEF LotsFollow, LotStep
  <1> QED BY <1>2 DEF Aging

LEMMA AgingAlong ==
    ASSUME Types, NEW end \in Int
    PROVE  \E f : LotsTell(end, f)
  <1> DEFINE n == Len(Lots)
             step == [q \in 1 .. n |-> [b \in Buckets |-> LotStep(end, b, Lots[q])]]
  <1>1. n \in Nat /\ \A q \in 1 .. n : Lots[q] \in Lot
    BY ReportsFacts
  <1>2. ASSUME NEW b \in Buckets, NEW l \in Lot PROVE LotStep(end, b, l) \in Buckets
    <2>1. lines \in Seq(Mv)
      BY DEF Types, HistType
    <2>2. CountedIn(lines, end, b, l) \in Buckets
      BY <2>1, CountedNext
    <2> QED BY <2>2 DEF LotStep
  <1>3. step \in [1 .. n -> [Buckets -> Buckets]]
    BY <1>1, <1>2
  <1>4. \A q \in 1 .. n : \A b \in Buckets : step[q][b] = LotStep(end, b, Lots[q])
    OBVIOUS
  <1> HIDE DEF step
  <1>5. PICK f : Along(f, n, Buckets, Empty, step)
    <2>1. Empty \in Buckets
      BY EmptyBuckets
    <2> HIDE DEF n
    <2> QED BY <1>1, <1>3, <2>1, StepsExist
  <1>6. f \in [0 .. n -> Buckets] /\ f[0] = Empty
    BY <1>5 DEF Along
  <1>7. ASSUME NEW q \in 1 .. n PROVE f[q] = LotStep(end, f[q-1], Lots[q])
    <2>1. f[q] = step[q][f[q-1]]
      BY <1>5 DEF Along
    <2>2. q-1 \in 0 .. n
      BY <1>1
    <2> QED BY <1>4, <1>6, <2>1, <2>2
  <1>8. LotsFollow(end, f)
    <2>1. \A q \in 0 .. n : f[q] = IF q = 0 THEN Empty ELSE LotStep(end, f[q-1], Lots[q])
      BY <1>1, <1>6, <1>7
    <2> QED BY <1>6, <2>1 DEF LotsFollow
  <1> DEFINE g == CHOOSE x : LotsFollow(end, x)
  <1>9. LotsFollow(end, g)
    BY <1>8
  <1>10. Aging(end) = g[n]
    BY AgingIs
  <1> HIDE DEF g
  <1>11. g[0] = Empty /\ \A q \in 1 .. n : g[q] = LotStep(end, g[q-1], Lots[q])
    <2>1. \A q \in 0 .. n : g[q] = IF q = 0 THEN Empty ELSE LotStep(end, g[q-1], Lots[q])
      BY <1>9 DEF LotsFollow
    <2> QED BY <1>1, <2>1
  <1>12. g[n] = f[n]
    <2>1. Together(g, f, n)
      BY <1>6, <1>7, <1>11 DEF Together
    <2> HIDE DEF n
    <2> QED BY <1>1, <2>1, StepsUnique
  <1> QED BY <1>6, <1>7, <1>10, <1>12 DEF LotsTell

LEMMA AgingType ==
    ASSUME Types, NEW end \in Int
    PROVE  Aging(end) \in Buckets
  <1>1. PICK f : LotsTell(end, f)
    BY AgingAlong
  <1>2. Len(Lots) \in 0 .. Len(Lots)
    BY ReportsFacts
  <1> QED BY <1>1, <1>2 DEF LotsTell

LEMMA EndsType ==
    ASSUME Types, NEW end \in Ends
    PROVE  end \in Int
  BY ReportsFacts DEF Types, DaysType, Ends

\* The types of both reports, and the quantities and the costs: the moves add up
\* to the pieces that are there, whatever was received and shipped.
THEOREM ReportsHold == ReportsSpec => []ReportsInv
  <1>1. HistoryInv => ReportsInv
    <2> SUFFICES ASSUME HistoryInv PROVE ReportsInv
      OBVIOUS
    <2>1. Types /\ DaysInv /\ CostOfStock
      BY DEF HistoryInv
    <2>2. \A end \in Ends : Aging(end) \in [Bucket -> Nat]
      <3>1. \A end \in Ends : end \in Int
        BY <2>1, EndsType
      <3> QED BY <2>1, <3>1, AgingType DEF Buckets
    <2>3. OnHand \in Nat /\ StockValue \in Int
      <3>1. left \in Seq(Nat) /\ OnHand = Len(left) /\ StockValue = Worth(left)
        BY <2>1 DEF Types, PiecesType, CostOfStock
      <3> QED BY <3>1, WorthType
    <2>4. \A i \in DOMAIN lines : lines[i].day \in 0 .. today /\ lines[i].qty \in 1 .. MaxQty
      <3>1. lines \in Seq(Mv) /\ today \in Nat
        BY <2>1 DEF Types, HistType, DaysType
      <3>2. ASSUME NEW i \in DOMAIN lines
            PROVE  lines[i].day \in 0 .. today /\ lines[i].qty \in 1 .. MaxQty
        <4>1. i \in 1 .. Len(lines) /\ lines[i] \in Mv
          BY <3>1
        <4>2. lines[i].day \in Nat /\ lines[i].qty \in 1 .. MaxQty
          BY <4>1 DEF Mv
        <4>3. lines[i].day <= today
          BY <2>1, <4>1 DEF DaysInv
        <4> QED BY <3>1, <4>2, <4>3
      <3> QED BY <3>2
    <2> QED BY <2>1, <2>2, <2>3, <2>4 DEF ReportsInv, ReportsTypeOK
  <1> QED BY <1>1, HistoryHolds, PTL

-----------------------------------------------------------------------------
(* The report of any end date, when every line is done in its turn.        *)

LEMMA CountedTells ==
    ASSUME HistoryInv, InOrderOfIds, NEW end \in Int, NEW l \in Lot
    PROVE  /\ \A b \in Buckets : Total(CountedIn(lines, end, b, l)) = Total(b) + Len(pieces[l])
           /\ CountedIn(lines, end, Empty, l) = Ages(end, pieces[l])
  BY DEF HistoryInv, CountInv, InOrderOfIds

\* The columns are the buckets.
LEMMA HeldAre ==
    ASSUME HistoryInv, NEW end \in Int, NEW l \in Lot, NEW i \in Bucket
    PROVE  Cardinality(HeldOf(end, l, i)) = Ages(end, pieces[l])[i]
  <1> DEFINE s == pieces[l]
  <1>1. s \in Seq(Nat) /\ DOMAIN s = 1 .. Len(s) /\ \A k \in 1 .. Len(s) : s[k] \in Nat
    <2>1. s \in Seq(Nat)
      BY DEF HistoryInv, Types, PiecesType
    <2> QED BY <2>1
  <1>2. Oldest \in Nat /\ Period \in Nat \ {0} /\ i \in Nat /\ i <= Oldest
    BY ReportsFacts DEF Bucket
  <1>3. ASSUME NEW day \in Nat
        PROVE  InColumn(Age(end, day), i) <=> Key(end, day) = i
    <2> DEFINE n == Age(end, day)
               d == n \div Period
    <2>1. n \in Nat
      BY DEF Age, Pos
    <2>2. Key(end, day) = Least(d, Oldest)
      BY DEF Age, Key
    <2> HIDE DEF n
    <2>3. /\ d \in Nat /\ (i <= d <=> i * Period <= n)
          /\ (d = i <=> i * Period <= n /\ n < (i+1) * Period)
      BY <1>2, <2>1, Periods
    <2>4. InColumn(n, i) <=> i * Period <= n /\ (i = Oldest \/ n < (i+1) * Period)
      BY DEF InColumn
    <2> HIDE DEF d
    <2>5. Least(d, Oldest) = i <=> i <= d /\ (i = Oldest \/ d = i)
      BY <1>2, <2>3 DEF Least
    <2>6. InColumn(n, i) <=> Least(d, Oldest) = i
      BY <2>3, <2>4, <2>5
    <2> QED BY <2>2, <2>6 DEF n
  <1>4. HeldOf(end, l, i) = {k \in 1 .. Len(s) : Key(end, s[k]) = i}
    <2>1. HeldOf(end, l, i) = {k \in 1 .. Len(s) : InColumn(Age(end, s[k]), i)}
      BY <1>1 DEF HeldOf
    <2>2. \A k \in 1 .. Len(s) : InColumn(Age(end, s[k]), i) <=> Key(end, s[k]) = i
      BY <1>1, <1>3
    <2> QED BY <2>1, <2>2
  <1>5. Ages(end, s)[i] = Cardinality({k \in 1 .. Len(s) : Key(end, s[k]) = i})
    BY DEF Ages
  <1> QED BY <1>4, <1>5

\* One lot with a quant from before the end date: the buckets are the ages of its pieces.
LEMMA OneLot ==
    ASSUME HistoryInv, InOrderOfIds, NEW end \in Int, NEW l \in Lot, Quants(end) = {l}
    PROVE  Aging(end) = Ages(end, pieces[l])
  <1> DEFINE n == Len(Lots)
             ages == Ages(end, pieces[l])
             seen(q) == \E j \in 1 .. q : Lots[j] = l
  <1>1. /\ n \in Nat /\ (\A k \in 1 .. n : Lots[k] \in Lot) /\ (\E k \in 1 .. n : Lots[k] = l)
        /\ \A j, k \in 1 .. n : Lots[j] = Lots[k] => j = k
    BY ReportsFacts
  <1>2. PICK f : LotsTell(end, f)
    BY AgingAlong DEF HistoryInv
  <1>3. /\ f[0] = Empty /\ Aging(end) = f[n] /\ \A q \in 1 .. n : f[q] = LotStep(end, f[q-1], Lots[q])
    BY <1>2 DEF LotsTell
  <1>5. CountedIn(lines, end, Empty, l) = ages
    BY CountedTells
  <1>6. LotStep(end, Empty, l) = ages
    BY <1>5 DEF LotStep
  <1>7. \A b : \A k \in Lot \ {l} : LotStep(end, b, k) = b
    BY DEF LotStep
  <1> HIDE DEF ages, n
  <1> DEFINE g == [q \in 0 .. n |-> IF seen(q) THEN ages ELSE Empty]
  <1>8. Together(f, g, n)
    <2>1. f[0] = g[0]
      <3>1. ~seen(0) /\ 0 \in 0 .. n
        BY <1>1
      <3> HIDE DEF seen
      <3> QED BY <1>3, <3>1
    <2>2. ASSUME NEW q \in 1 .. n, f[q-1] = g[q-1] PROVE f[q] = g[q]
      <3>1. q \in 0 .. n /\ q-1 \in 0 .. n
        BY <1>1
      <3>2. f[q] = LotStep(end, f[q-1], Lots[q]) /\ Lots[q] \in Lot
        BY <1>1, <1>3
      <3>3. CASE Lots[q] = l
        <4>1. seen(q)
          BY <1>1, <3>3
        <4>2. ~seen(q-1)
          <5>1. ASSUME NEW j \in 1 .. q-1 PROVE Lots[j] # l
            <6>1. j \in 1 .. n /\ j # q
              BY <1>1
            <6> QED BY <1>1, <3>3, <6>1
          <5> QED BY <5>1
        <4> HIDE DEF seen
        <4>3. g[q] = ages /\ g[q-1] = Empty
          BY <3>1, <4>1, <4>2
        <4> QED BY <1>6, <2>2, <3>2, <3>3, <4>3
      <3>4. CASE Lots[q] # l
        <4>1. seen(q) <=> seen(q-1)
          <5>1. \A j \in 1 .. q : j = q \/ j \in 1 .. q-1
            BY <1>1
          <5>2. \A j \in 1 .. q-1 : j \in 1 .. q
            BY <1>1
          <5> QED BY <3>4, <5>1, <5>2
        <4> HIDE DEF seen
        <4>2. g[q] = g[q-1]
          BY <3>1, <4>1
        <4> QED BY <1>7, <2>2, <3>2, <3>4, <4>2
      <3> QED BY <3>3, <3>4
    <2> HIDE DEF g
    <2> QED BY <2>1, <2>2 DEF Together
  <1>9. g[n] = ages
    <2>1. n \in 0 .. n /\ seen(n)
      BY <1>1
    <2> HIDE DEF seen
    <2> QED BY <2>1
  <1> HIDE DEF g
  <1>10. f[n] = g[n]
    BY <1>1, <1>8, StepsUnique
  <1> QED BY <1>3, <1>9, <1>10 DEF ages

\* With none, they are empty.
LEMMA NoLot ==
    ASSUME HistoryInv, NEW end \in Int, Quants(end) = {}
    PROVE  Aging(end) = Empty
  <1> DEFINE n == Len(Lots)
             g == [q \in 0 .. n |-> Empty]
  <1>1. n \in Nat
    BY ReportsFacts
  <1>2. PICK f : LotsTell(end, f)
    BY AgingAlong DEF HistoryInv
  <1>3. /\ f[0] = Empty /\ Aging(end) = f[n] /\ \A q \in 1 .. n : f[q] = f[q-1]
    BY <1>2 DEF LotsTell, LotStep
  <1> HIDE DEF n
  <1>4. Together(f, g, n)
    <2>1. f[0] = g[0] /\ \A q \in 1 .. n : f[q-1] = g[q-1] => f[q] = g[q]
      <3>1. 0 \in 0 .. n /\ \A q \in 1 .. n : q \in 0 .. n /\ q-1 \in 0 .. n
        BY <1>1
      <3> QED BY <1>3, <3>1
    <2> HIDE DEF g
    <2> QED BY <2>1 DEF Together
  <1>5. g[n] = Empty
    BY <1>1
  <1> HIDE DEF g
  <1>6. f[n] = g[n]
    BY <1>1, <1>4, StepsUnique
  <1> QED BY <1>3, <1>5, <1>6

\* The aging report of one lot, or of a product without lots: its columns are the
\* ages of what is there, whatever was received and shipped, for every end date,
\* every period and every number of columns.  The lines are done, in the order
\* of their ids.
THEOREM ReportAges == ReportsSpec => []AgesOfStock
  <1>1. HistoryInv => AgesOfStock
    <2> SUFFICES ASSUME HistoryInv, InOrderOfIds, NEW end \in Ends, Cardinality(Quants(end)) <= 1
                 PROVE  Aging(end) = [i \in Bucket |-> Held(end, i)]
      BY DEF AgesOfStock
    <2>1. Quants(end) \in SUBSET Lot /\ IsFiniteSet(Quants(end)) /\ end \in Int
      <3>1. Quants(end) \in SUBSET Lot /\ IsFiniteSet(Lot)
        BY ReportsFacts DEF Quants
      <3>2. end \in Int
        BY EndsType DEF HistoryInv
      <3> QED BY <3>1, <3>2, FS_Subset
    <2>2. CASE Quants(end) = {}
      <3>1. \A i \in Bucket : Held(end, i) = 0
        <4> SUFFICES ASSUME NEW i \in Bucket PROVE Held(end, i) = 0
          OBVIOUS
        <4> DEFINE h == [l \in Quants(end) |-> Cardinality(HeldOf(end, l, i))]
        <4>1. h \in [{} -> Int] /\ IsFiniteSet({})
          BY <2>2, FS_EmptySet
        <4>2. Held(end, i) = Total(h)
          BY DEF Held
        <4> HIDE DEF h
        <4>3. Total(h) = 0
          BY <4>1, TotalZero
        <4> QED BY <4>2, <4>3
      <3>2. Aging(end) = Empty
        BY <2>1, <2>2, NoLot
      <3> QED BY <3>1, <3>2 DEF Empty
    <2>3. ASSUME NEW l \in Lot, Quants(end) = {l}
          PROVE  Aging(end) = [i \in Bucket |-> Held(end, i)]
      <3>1. Aging(end) = Ages(end, pieces[l])
        BY <2>1, <2>3, OneLot
      <3>2. pieces[l] \in Seq(Nat) /\ InOrder(pieces[l])
        BY DEF HistoryInv, Types, PiecesType, DaysInv
      <3>3. Ages(end, pieces[l]) \in Buckets
        BY <2>1, <3>2, AgesOlder
      <3>4. ASSUME NEW i \in Bucket PROVE Held(end, i) = Ages(end, pieces[l])[i]
        <4> DEFINE a == Ages(end, pieces[l])[i]
                   h == [k \in Quants(end) |-> Cardinality(HeldOf(end, k, i))]
                   z == [k \in Quants(end) |-> 0]
        <4>1. h[l] = a
          BY <2>1, <2>3, HeldAre
        <4>2. a \in Int
          BY <3>3 DEF Buckets
        <4>3. Held(end, i) = Total(h)
          BY DEF Held
        <4>4. /\ h \in [{l} -> Int] /\ z \in [{l} -> Int] /\ z[l] = 0 /\ IsFiniteSet({l}) /\ l \in {l}
              /\ \A k \in {l} : z[k] = 0
              /\ \A k \in {l} \ {l} : h[k] = z[k]
          <5>1. \A k \in {l} : h[k] \in Int
            BY <2>3, <4>1, <4>2
          <5>2. h \in [{l} -> Int]
            BY <2>3, <5>1
          <5> HIDE DEF h
          <5> QED BY <2>1, <2>3, <5>2
        <4> HIDE DEF h, z, a
        <4>5. Total(z) = 0
          BY <4>4, TotalZero
        <4>6. Total(h) = Total(z) - z[l] + h[l]
          BY <4>4, TotalExcept
        <4> QED BY <4>1, <4>2, <4>3, <4>4, <4>5, <4>6 DEF a
      <3> QED BY <3>1, <3>3, <3>4 DEF Buckets
    <2>4. CASE Quants(end) # {}
      <3>1. Cardinality(Quants(end)) = 1
        <4>1. Cardinality(Quants(end)) \in Nat /\ Cardinality(Quants(end)) # 0
          BY <2>1, <2>4, FS_CardinalityType, FS_EmptySet
        <4> QED BY <4>1
      <3>2. PICK l : Quants(end) = {l}
        BY <2>1, <3>1, FS_Singleton
      <3> QED BY <2>1, <2>3, <3>2
    <2> QED BY <2>2, <2>4
  <1> QED BY <1>1, HistoryHolds, PTL

\* The lots up to one that have a quant, and the pieces of these.
UpTo(end, q) == {Lots[j] : j \in 1 .. q} \cap Quants(end)
PiecesUpTo(end, q) == Total([l \in UpTo(end, q) |-> Len(pieces[l])])

\* Lot by lot, the buckets get what the lot has.
LEMMA AgingTotal ==
    ASSUME HistoryInv, InOrderOfIds, NEW end \in Int
    PROVE  Total(Aging(end)) = Total([l \in Quants(end) |-> Len(pieces[l])])
  <1> DEFINE n == Len(Lots)
  <1>1. /\ n \in Nat /\ (\A k \in 1 .. n : Lots[k] \in Lot) /\ IsFiniteSet(Lot)
        /\ (\A l \in Lot : \E k \in 1 .. n : Lots[k] = l)
        /\ \A j, k \in 1 .. n : Lots[j] = Lots[k] => j = k
    BY ReportsFacts
  <1>2. PICK f : LotsTell(end, f)
    BY AgingAlong DEF HistoryInv
  <1>3. /\ f \in [0 .. n -> Buckets] /\ f[0] = Empty /\ Aging(end) = f[n]
        /\ \A q \in 1 .. n : f[q] = LotStep(end, f[q-1], Lots[q])
    BY <1>2 DEF LotsTell
  <1>4. \A l \in Lot : pieces[l] \in Seq(Nat)
    BY DEF HistoryInv, Types, PiecesType
  <1>5. ASSUME NEW b \in Buckets, NEW l \in Lot
        PROVE  /\ Total(LotStep(end, b, l)) = Total(b) + (IF l \in Quants(end) THEN Len(pieces[l]) ELSE 0)
               /\ Total(b) \in Int
    <2>1. Total(b) \in Int
      <3>1. IsFiniteSet(Bucket) /\ b \in [Bucket -> Int]
        BY ReportsFacts DEF Buckets
      <3> QED BY <3>1, TotalType
    <2>2. CASE l \in Quants(end)
      <3>1. Total(CountedIn(lines, end, b, l)) = Total(b) + Len(pieces[l])
        BY CountedTells
      <3> QED BY <2>1, <2>2, <3>1 DEF LotStep
    <2>3. CASE l \notin Quants(end)
      BY <2>1, <2>3 DEF LotStep
    <2> QED BY <2>1, <2>2, <2>3
  <1> HIDE DEF n
  <1> DEFINE wrong == {q \in 0 .. n : Total(f[q]) # PiecesUpTo(end, q)}
  <1>6. wrong = {}
    <2> SUFFICES ASSUME wrong # {} PROVE FALSE
      OBVIOUS
    <2>1. wrong \in SUBSET Nat /\ \A q \in 0 .. n : q \in wrong <=> Total(f[q]) # PiecesUpTo(end, q)
      OBVIOUS
    <2>2. wrong \in SUBSET (0 .. n)
      OBVIOUS
    <2> HIDE DEF wrong
    <2>3. PICK q \in wrong : \A k \in wrong : q <= k
      BY <2>1, FirstNumber
    <2>4. q \in 0 .. n /\ Total(f[q]) # PiecesUpTo(end, q)
      BY <2>1, <2>2
    <2>5. CASE q = 0
      <3> DEFINE h == [l \in UpTo(end, q) |-> Len(pieces[l])]
      <3>1. UpTo(end, q) = {} /\ IsFiniteSet({})
        BY <2>5, FS_EmptySet DEF UpTo
      <3>2. h \in [{} -> Int]
        BY <3>1
      <3> HIDE DEF h
      <3>3. Total(h) = 0
        BY <3>1, <3>2, TotalZero
      <3>4. PiecesUpTo(end, q) = 0
        BY <3>3 DEF PiecesUpTo, h
      <3> QED BY <1>3, <2>4, <2>5, <3>4, EmptyBuckets
    <2>6. CASE q # 0
      <3> DEFINE l == Lots[q]
                 D == UpTo(end, q)
                 E == UpTo(end, q-1)
                 h == [k \in D |-> Len(pieces[k])]
                 r == [k \in E |-> Len(pieces[k])]
      <3>1. q \in 1 .. n /\ q-1 \in 0 .. n /\ ~(q <= q-1)
        <4>1. q \in Nat /\ q <= n /\ q # 0 /\ n \in Nat
          BY <1>1, <2>4, <2>6
        <4> QED BY <4>1
      <3>2. q-1 \notin wrong
        BY <2>3, <3>1
      <3>3. Total(f[q-1]) = PiecesUpTo(end, q-1)
        BY <2>1, <3>1, <3>2
      <3>4. f[q] = LotStep(end, f[q-1], l) /\ f[q-1] \in Buckets /\ l \in Lot
        BY <1>1, <1>3, <3>1
      <3>5. Total(f[q]) = PiecesUpTo(end, q-1) + (IF l \in Quants(end) THEN Len(pieces[l]) ELSE 0)
        BY <1>5, <3>3, <3>4
      <3>6. /\ D \ {l} = E /\ l \notin E /\ D \in SUBSET Lot /\ E \in SUBSET Lot
            /\ l \in D <=> l \in Quants(end)
        <4>1. \A j \in 1 .. q : j \in 1 .. n /\ (j = q \/ j \in 1 .. q-1)
          BY <1>1, <3>1
        <4>2. \A j \in 1 .. q-1 : j \in 1 .. q /\ j # q
          BY <3>1
        <4>3. \A j \in 1 .. q-1 : Lots[j] # l
          BY <1>1, <4>1, <4>2, <3>1
        <4>4. q \in 1 .. q
          BY <3>1
        <4>5. l \notin E
          BY <4>3 DEF UpTo
        <4>6. \A x : x \in D => x \in E \/ x = l
          BY <4>1 DEF UpTo
        <4>7. \A x : x \in E => x \in D
          BY <4>2 DEF UpTo
        <4>8. l \in D <=> l \in Quants(end)
          BY <4>4 DEF UpTo
        <4>9. D \in SUBSET Lot
          BY DEF UpTo, Quants
        <4> HIDE DEF D, E
        <4> QED BY <4>5, <4>6, <4>7, <4>8, <4>9
      <3>7. \A k \in Lot : Len(pieces[k]) \in Int
        BY <1>4
      <3>8. /\ h \in [D -> Int] /\ r \in [E -> Int] /\ IsFiniteSet(D) /\ IsFiniteSet(E)
            /\ \A k \in D : h[k] = Len(pieces[k])
            /\ \A k \in E : r[k] = Len(pieces[k])
        <4> HIDE DEF D, E
        <4> QED BY <1>1, <3>6, <3>7, FS_Subset
      <3>9. PiecesUpTo(end, q) = Total(h) /\ PiecesUpTo(end, q-1) = Total(r)
        BY DEF PiecesUpTo
      <3> HIDE DEF h, r, D, E, l
      <3>10. Total(r) \in Int
        BY <3>8, TotalType
      <3>11. CASE l \in Quants(end)
        <4>1. [k \in D \ {l} |-> h[k]] = r
          BY <3>6, <3>8
        <4>2. \A x \in D : Total(h) = h[x] + Total([k \in D \ {x} |-> h[k]])
          BY <3>8, TotalRemove
        <4>3. Total(h) = Len(pieces[l]) + Total(r)
          BY <3>6, <3>8, <3>11, <4>1, <4>2
        <4>4. Len(pieces[l]) \in Int
          BY <3>4, <3>7
        <4> QED BY <2>4, <3>5, <3>9, <3>10, <3>11, <4>3, <4>4
      <3>12. CASE l \notin Quants(end)
        <4>1. D = E
          BY <3>6, <3>12
        <4>2. h = r
          BY <3>8, <4>1
        <4> QED BY <2>4, <3>5, <3>9, <3>10, <3>12, <4>2
      <3> QED BY <3>11, <3>12
    <2> QED BY <2>5, <2>6
  <1>7. Total(f[n]) = PiecesUpTo(end, n)
    <2>1. n \in 0 .. n
      BY <1>1
    <2> QED BY <1>6, <2>1
  <1>8. UpTo(end, n) = Quants(end)
    BY <1>1 DEF UpTo, Quants
  <1> QED BY <1>3, <1>7, <1>8 DEF PiecesUpTo

\* The columns add up to what is there of the lots from before the end date, of
\* however many and for every end date: what leaves a lot is taken once, even if
\* from the bucket of another, and none of it is dropped.  The lines are done, in
\* the order of their ids.
THEOREM ReportTotal == ReportsSpec => []AgesAddUp
  <1>1. HistoryInv => AgesAddUp
    <2> SUFFICES ASSUME HistoryInv, InOrderOfIds, NEW end \in Ends
                 PROVE  Total(Aging(end)) = Total([l \in Quants(end) |-> Len(pieces[l])])
      BY DEF AgesAddUp
    <2>1. end \in Int
      BY EndsType DEF HistoryInv
    <2> QED BY <2>1, AgingTotal
  <1> QED BY <1>1, HistoryHolds, PTL
=============================================================================
