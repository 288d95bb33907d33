------------------------- MODULE DelayedJobsProofs -------------------------
(***************************************************************************)
(* For every number of jobs, callers and keys, every maximum of retries    *)
(* and every pattern: how often a job is tried, how long it waits in       *)
(* between, and when an identity key keeps a second job out.               *)
(***************************************************************************)
EXTENDS DelayedJobs, WellFoundedInduction, TLAPS

Tx == [open : BOOLEAN, seen : SUBSET Job, made : SUBSET Job, alone : BOOLEAN]

RowsTyped == row \in [Job -> Row] /\ caller \in [Caller -> Tx]

\* The rows and transactions that the module writes have these types.
LEMMA RowTypes ==
    /\ NoRow \in Row /\ NoTx \in Tx
    /\ \A k \in Key \cup {NoKey} : NewJob(k) \in Row
  <1>1. NoRow \in Row
    BY DEF NoRow, Row, RowState, Wait
  <1>2. ASSUME NEW k \in Key \cup {NoKey} PROVE NewJob(k) \in Row
    BY <1>1 DEF NewJob, Row, RowState, NoRow
  <1> QED BY <1>1, <1>2 DEF NoTx, Tx

-----------------------------------------------------------------------------
(* The retry pattern.                                                      *)

\* A nonempty set of counts has a first one: induction along the counts.
LEMMA FirstCount ==
    ASSUME NEW S \in SUBSET Nat, S # {}
    PROVE  \E m \in S : \A n \in S : m <= n
  <1> DEFINE R == {p \in Nat \X Nat : p[1] < p[2]}
  <1>1. IsWellFoundedOn(R, Nat)
    BY NatLessThanWellFounded DEF OpToRel
  <1>2. PICK m \in S : \A n \in S : <<n, m>> \notin R
    <2> HIDE DEF R
    <2> QED BY <1>1, WFMin
  <1>3. ASSUME NEW n \in S PROVE m <= n
    <2>1. m \in Nat /\ n \in Nat /\ <<n, m>> \notin R
      BY <1>2
    <2> QED BY <2>1
  <1> QED BY <1>3

\* What the entry of the last count reached says, count by count.
LEMMA LastReachedSteps ==
    ASSUME NEW n \in Nat
    PROVE  /\ n \in DOMAIN Pattern => LastReached(n) = Pattern[n]
           /\ n \notin DOMAIN Pattern /\ n = 0 => LastReached(n) = RetryInterval
           /\ n \notin DOMAIN Pattern /\ n # 0 => LastReached(n) = LastReached(n - 1)
  <1> USE DelayedJobsAssumption
  <1>1. ASSUME n \in DOMAIN Pattern PROVE LastReached(n) = Pattern[n]
    <2>1. n \in Reached(n) /\ \A m \in Reached(n) : m \in Nat /\ m <= n
      BY <1>1 DEF Reached
    <2>2. Max(Reached(n)) = n
      BY <2>1 DEF Max
    <2> QED BY <2>1, <2>2 DEF LastReached
  <1>2. ASSUME n \notin DOMAIN Pattern, n = 0 PROVE LastReached(n) = RetryInterval
    <2>1. Reached(n) = {}
      BY <1>2 DEF Reached
    <2> QED BY <2>1 DEF LastReached
  <1>3. ASSUME n \notin DOMAIN Pattern, n # 0 PROVE LastReached(n) = LastReached(n - 1)
    <2>1. Reached(n) = Reached(n - 1)
      BY <1>3 DEF Reached
    <2> QED BY <2>1 DEF LastReached
  <1> QED BY <1>1, <1>2, <1>3

\* It is one of the waiting times: the counts up to the first one at which it
\* would not be lead back to an earlier one.
LEMMA LastReachedWaits == \A n \in Nat : LastReached(n) \in Wait
  <1> DEFINE wrong == {n \in Nat : LastReached(n) \notin Wait}
  <1> SUFFICES ASSUME wrong # {} PROVE FALSE
    OBVIOUS
  <1>1. PICK n \in wrong : \A m \in wrong : n <= m
    BY FirstCount
  <1>2. n \in Nat /\ LastReached(n) \notin Wait
    OBVIOUS
  <1>3. n # 0 => LastReached(n - 1) \in Wait
    BY <1>1, <1>2
  <1>4. RetryInterval \in Wait /\ \A m \in DOMAIN Pattern : Pattern[m] \in Wait
    BY DEF Wait
  <1> QED BY <1>2, <1>3, <1>4, LastReachedSteps

\* _get_retry_seconds returns what the error asks for, else what the last entry
\* reached says: there is one way to go along the counts, and it ends there.
LEMMA RetrySecondsValue ==
    ASSUME NEW tries \in Nat, NEW asked
    PROVE  RetrySeconds(tries, asked) = IF asked # 0 THEN asked ELSE LastReached(tries)
  <1> DEFINE Along(f) == f = [n \in 0 .. tries |->
                                 IF n \in DOMAIN Pattern THEN Pattern[n]
                                 ELSE IF n = 0 THEN RetryInterval ELSE f[n - 1]]
             last == [n \in 0 .. tries |-> LastReached(n)]
  <1>1. Along(last)
    <2>1. ASSUME NEW n \in 0 .. tries
          PROVE  last[n] = IF n \in DOMAIN Pattern THEN Pattern[n]
                           ELSE IF n = 0 THEN RetryInterval ELSE last[n - 1]
      <3>1. n # 0 => last[n - 1] = LastReached(n - 1)
        OBVIOUS
      <3> QED BY <3>1, LastReachedSteps
    <2> QED BY <2>1
  <1> DEFINE seconds == CHOOSE f : Along(f)
  <1>2. Along(seconds)
    BY <1>1
  <1>3. seconds[tries] = LastReached(tries)
    <2> DEFINE wrong == {n \in 0 .. tries : seconds[n] # LastReached(n)}
    <2> HIDE DEF seconds
    <2> SUFFICES ASSUME wrong # {} PROVE FALSE
      OBVIOUS
    <2>1. PICK n \in wrong : \A m \in wrong : n <= m
      <3>1. wrong \in SUBSET Nat
        OBVIOUS
      <3> QED BY <3>1, FirstCount
    <2>2. n \in 0 .. tries /\ seconds[n] # LastReached(n)
      OBVIOUS
    <2>3. n # 0 => seconds[n - 1] = LastReached(n - 1)
      BY <2>1, <2>2
    <2>4. seconds[n] = IF n \in DOMAIN Pattern THEN Pattern[n]
                       ELSE IF n = 0 THEN RetryInterval ELSE seconds[n - 1]
      BY <1>2, <2>2
    <2> QED BY <2>2, <2>3, <2>4, LastReachedSteps
  <1>4. RetrySeconds(tries, asked) = IF asked # 0 THEN asked ELSE seconds[tries]
    BY DEF RetrySeconds
  <1> QED BY <1>3, <1>4

\* A job that is retried waits as its tries and the pattern say.
Waits(r) ==
    r.state = "pending" /\ r.cause = "retry" =>
        r.wait \in {PgRetry, LastReached(r.retry)} \cup (Asked \ {0})

\* What a postponed job looks like.
LEMMA PostponedType ==
    ASSUME RowsTyped, NEW j \in Job, NEW n \in Nat, NEW asked \in Asked \cup {PgRetry}
    PROVE  Postponed(j, n, asked) \in Row /\ Waits(Postponed(j, n, asked))
  <1> DEFINE wait == RetrySeconds(n, asked)
             r == [row[j] EXCEPT !.state = "pending", !.retry = n, !.cause = "retry", !.wait = wait]
  <1>1. wait \in Wait /\ wait \in {PgRetry, LastReached(n)} \cup (Asked \ {0})
    <2>1. LastReached(n) \in Wait
      BY LastReachedWaits
    <2>2. PgRetry \in Wait /\ \A a \in Asked : a \in Wait
      BY DEF Wait
    <2> QED BY <2>1, <2>2, RetrySecondsValue
  <1>2. Postponed(j, n, asked) = r
    BY DEF Postponed
  <1> HIDE DEF wait
  <1>3. r \in Row /\ r.wait = wait /\ r.retry = n
    BY <1>1 DEF RowsTyped, Row, RowState
  <1> QED BY <1>1, <1>2, <1>3 DEF Waits

-----------------------------------------------------------------------------
(* The steps of a job.                                                     *)


\* A row that is no job yet counts nothing; a job that is still to be executed
\* has a try left, if it has a maximum.
Left(r, max) ==
    /\ r.state \in {"none", "uncommitted"} => r.retry = 0 /\ r.lost = 0
    /\ max # 0 /\ r.state \in {"pending", "enqueued", "started"} => r.retry - r.lost < max

TriesInv == RowsTyped /\ \A j \in Job : Left(row[j], MaxRetries[j]) /\ Waits(row[j])

\* A job that waits for its first try.
Fresh(r) == r.state \in {"pending", "enqueued"} /\ r.cause = "new"

\* What a step of job j leaves of its row: a committed row with its key, that
\* waits for its first try only if it did so before, and has a try left.
Follows(j, r) ==
    /\ r \in Row /\ Left(r, MaxRetries[j]) /\ Waits(r)
    /\ row[j].state \notin {"none", "uncommitted"} /\ r.state \notin {"none", "uncommitted"}
    /\ r.key = row[j].key /\ r.alone = row[j].alone
    /\ Fresh(r) => Fresh(row[j])

JobMoves(j) == SetEnqueued(j) \/ SetStarted(j) \/ Outcomes(j) \/ Requeue(j)

\* The steps of a job, one by one.
LEMMA JobSteps ==
    ASSUME TriesInv, NEW j \in Job, JobMoves(j)
    PROVE  \E r : row' = [row EXCEPT ![j] = r] /\ Follows(j, r) /\ caller' = caller
  <1> USE DelayedJobsAssumption
  <1>0. row[j] \in Row /\ Left(row[j], MaxRetries[j]) /\ MaxRetries[j] \in Nat /\ Tried(j) \in Nat
    BY DEF TriesInv, RowsTyped, Row, Tried
  <1> DEFINE With(r) == row' = [row EXCEPT ![j] = r] /\ caller' = caller
             failed == [row[j] EXCEPT !.state = "failed", !.retry = Tried(j)]
  <1>1. CASE SetEnqueued(j)
    <2> DEFINE r == [row[j] EXCEPT !.state = "enqueued"]
    <2>1. Follows(j, r)
      BY <1>0, <1>1 DEF SetEnqueued, Waits, Follows, Fresh, Row, Left, RowState
    <2>2. With(r)
      BY <1>0, <1>1 DEF SetEnqueued, TriesInv, RowsTyped, Row
    <2> QED BY <2>1, <2>2
  <1>2. CASE SetStarted(j)
    <2> DEFINE r == [row[j] EXCEPT !.state = "started"]
    <2>1. Follows(j, r)
      BY <1>0, <1>2 DEF SetStarted, Waits, Follows, Fresh, Row, Left, RowState
    <2>2. With(r)
      BY <1>0, <1>2 DEF SetStarted, TriesInv, RowsTyped, Row
    <2> QED BY <2>1, <2>2
  <1>3. CASE JobDone(j)
    <2> DEFINE r == [row[j] EXCEPT !.state = "done", !.retry = Tried(j)]
    <2>1. Follows(j, r)
      BY <1>0, <1>3 DEF JobDone, Performed, Waits, Follows, Fresh, Row, Left, RowState
    <2>2. With(r)
      BY <1>0, <1>3 DEF JobDone, Performed, TriesInv, RowsTyped, Row
    <2> QED BY <2>1, <2>2
  <1>4. CASE JobFailed(j)
    <2> DEFINE r == failed
    <2>1. Follows(j, r)
      BY <1>0, <1>4 DEF JobFailed, Performed, Waits, Follows, Fresh, Row, Left, RowState
    <2>2. With(r)
      BY <1>0, <1>4 DEF JobFailed, Performed, TriesInv, RowsTyped, Row
    <2> QED BY <2>1, <2>2
  <1>5. ASSUME NEW n \in Nat, NEW asked \in Asked \cup {PgRetry}, row[j].state = "started",
               MaxRetries[j] # 0 => n - row[j].lost < MaxRetries[j]
        PROVE  Follows(j, Postponed(j, n, asked))
    <2>1. Postponed(j, n, asked) \in Row /\ Waits(Postponed(j, n, asked))
      BY PostponedType DEF TriesInv
    <2>2. Left(Postponed(j, n, asked), MaxRetries[j])
      BY <1>0, <1>5 DEF Left, Row, Postponed
    <2> QED BY <1>0, <1>5, <2>1, <2>2 DEF Follows, Fresh, Postponed, Row
  <1>6. CASE Retryable(j)
    <2>1. PICK asked \in Asked : row' = [row EXCEPT ![j] = IF Exhausted(j) THEN failed
                                                           ELSE Postponed(j, Tried(j), asked)]
      BY <1>6 DEF Retryable, TriesInv, RowsTyped
    <2>2. row[j].state = "started" /\ caller' = caller
      BY <1>6 DEF Retryable, Performed
    <2>3. CASE Exhausted(j)
      <3>1. Follows(j, failed)
        BY <1>0, <2>2 DEF Waits, Follows, Fresh, Row, Left, RowState
      <3> QED BY <2>1, <2>2, <2>3, <3>1
    <2>4. CASE ~Exhausted(j)
      <3>1. MaxRetries[j] # 0 => Tried(j) - row[j].lost < MaxRetries[j]
        BY <1>0, <2>4 DEF Exhausted, Row
      <3>2. Follows(j, Postponed(j, Tried(j), asked))
        BY <1>0, <1>5, <2>2, <3>1
      <3> QED BY <2>1, <2>2, <2>4, <3>2
    <2> QED BY <2>3, <2>4
  <1>7. CASE RetryIgnored(j)
    <2>1. PICK asked \in Asked : row' = [row EXCEPT ![j] = Postponed(j, row[j].retry, asked)]
      BY <1>7 DEF RetryIgnored
    <2>2. row[j].state = "started" /\ caller' = caller
      BY <1>7 DEF RetryIgnored, Performed
    <2>3. row[j].retry \in Nat /\ (MaxRetries[j] # 0 => row[j].retry - row[j].lost < MaxRetries[j])
      BY <1>0, <2>2 DEF Row, Left
    <2> QED BY <1>5, <2>1, <2>2, <2>3
  <1>8. CASE SerializationFailure(j)
    <2> DEFINE r == Postponed(j, Tried(j), PgRetry)
               lost == [r EXCEPT !.lost = @ + 1]
    <2>1. r \in Row /\ Waits(r)
      BY <1>0, PostponedType DEF TriesInv
    <2>2. /\ r.state = "pending" /\ r.cause = "retry" /\ r.retry = Tried(j) /\ r.lost = row[j].lost
          /\ r.key = row[j].key /\ r.alone = row[j].alone
      BY <1>0 DEF Postponed, Row
    <2>3. With(lost) /\ row[j].state = "started"
      BY <1>8 DEF SerializationFailure, Performed
    <2> HIDE DEF r
    <2>4. lost \in Row /\ Waits(lost)
      BY <2>1 DEF Row, Waits
    <2>5. Left(lost, MaxRetries[j])
      BY <1>0, <2>1, <2>2, <2>3 DEF Left, Row, Tried
    <2>6. Follows(j, lost)
      BY <2>1, <2>2, <2>3, <2>4, <2>5 DEF Follows, Fresh, Row
    <2> QED BY <2>3, <2>6
  <1>9. CASE Requeue(j)
    <2> DEFINE r == [row[j] EXCEPT !.state = "pending", !.retry = 0, !.cause = "requeue", !.lost = 0]
    <2>0. row[j].state \in {"pending", "enqueued", "started", "done", "failed"}
      BY <1>9 DEF Requeue
    <2>3. r \in Row /\ r.state = "pending" /\ r.cause = "requeue" /\ r.retry = 0 /\ r.lost = 0
          /\ r.key = row[j].key /\ r.alone = row[j].alone
      BY <1>0 DEF Row, RowState
    <2> HIDE DEF r
    <2>1. Follows(j, r)
      BY <1>0, <2>0, <2>3 DEF Follows, Fresh, Left, Waits
    <2> USE DEF r
    <2>2. With(r)
      BY <1>0, <1>9 DEF Requeue, TriesInv, RowsTyped, Row
    <2> QED BY <2>1, <2>2
  <1> QED BY <1>1, <1>2, <1>3, <1>4, <1>6, <1>7, <1>8, <1>9 DEF JobMoves, Outcomes

-----------------------------------------------------------------------------
(* The transactions.                                                       *)

\* The rows of an open transaction are its own, and alone means alone.
Owned ==
    /\ \A j \in Job : row[j].state = "uncommitted" => \E t \in Caller : j \in caller[t].made
    /\ \A t \in Caller :
        /\ \A i \in caller[t].made : row[i].state = "uncommitted" /\ row[i].cause = "new"
        /\ ~caller[t].open => caller[t].made = {} /\ ~caller[t].alone
        /\ \A u \in Caller \ {t} : /\ caller[t].made \cap caller[u].made = {}
                                   /\ caller[t].alone => ~caller[u].open

\* When job j and what transaction t does overlap with nothing that t does not see.
Apart(t, j) == row[j].alone \/ caller[t].alone

SameName(i, j) == row[i].key = row[j].key /\ row[i].key # NoKey

\* What a transaction has stored has a key of its own among all that it can see,
\* which is every job that one of both parties had to wait for.
KeysInv ==
    /\ \A t \in Caller : caller[t].open => \A j \in Job : Fresh(row[j]) /\ Apart(t, j) => j \in caller[t].seen
    /\ \A t \in Caller : \A i \in caller[t].made :
          /\ \A k \in caller[t].made : SameName(i, k) => i = k
          /\ \A j \in Job : Fresh(row[j]) /\ Apart(t, j) => ~SameName(i, j)
    /\ \A i, j \in Job : i # j /\ Fresh(row[i]) /\ Fresh(row[j]) /\ SameName(i, j)
                         => ~row[i].alone /\ ~row[j].alone

StoredInv == TriesInv /\ Owned /\ KeysInv

\* At first nothing is stored.
LEMMA InitStored == DelayedJobsInit => StoredInv
  <1> SUFFICES ASSUME DelayedJobsInit PROVE StoredInv
    OBVIOUS
  <1>1. RowsTyped
    BY RowTypes DEF DelayedJobsInit, RowsTyped
  <1>2. TriesInv
    BY <1>1 DEF DelayedJobsInit, TriesInv, Left, Waits, NoRow
  <1>3. Owned
    BY DEF DelayedJobsInit, Owned, NoTx, NoRow
  <1>4. KeysInv
    BY DEF DelayedJobsInit, KeysInv, NoTx, NoRow, Fresh
  <1> QED BY <1>2, <1>3, <1>4 DEF StoredInv

\* What happens to a job after its commit takes it at most out of the jobs that
\* an identity key is compared with.
LEMMA JobStored ==
    ASSUME StoredInv, NEW j \in Job, JobMoves(j)
    PROVE  StoredInv'
  <1>1. PICK r : row' = [row EXCEPT ![j] = r] /\ Follows(j, r) /\ caller' = caller
    BY JobSteps DEF StoredInv
  <1>2. row \in [Job -> Row] /\ r \in Row
    BY <1>1 DEF StoredInv, TriesInv, RowsTyped, Follows
  <1>3. TriesInv'
    BY <1>1, <1>2 DEF StoredInv, TriesInv, RowsTyped, Follows
  <1>4. \A i \in Job : /\ Fresh(row'[i]) => Fresh(row[i])
                       /\ row'[i].key = row[i].key /\ row'[i].alone = row[i].alone
                       /\ "uncommitted" \in {row[i].state, row'[i].state} => row'[i] = row[i]
    BY <1>1, <1>2 DEF Follows
  <1>5. Owned' /\ KeysInv'
    BY <1>1, <1>4 DEF StoredInv, TriesInv, RowsTyped, Tx, Owned, KeysInv, Apart, SameName
  <1> QED BY <1>3, <1>5 DEF StoredInv

\* A transaction that begins sees every job that waits for its first try; those
\* that are open are alone no longer.
LEMMA BeginStored ==
    ASSUME StoredInv, NEW t \in Caller, Begin(t)
    PROVE  StoredInv'
  <1>1. /\ row' = row /\ caller \in [Caller -> Tx] /\ ~caller[t].open
        /\ caller' = [u \in Caller |->
              IF u = t THEN [open |-> TRUE, seen |-> ToBeExecuted, made |-> {},
                             alone |-> \A v \in Caller : ~caller[v].open]
              ELSE [caller[u] EXCEPT !.alone = FALSE]]
    BY DEF StoredInv, TriesInv, RowsTyped, Begin
  <1>2. ToBeExecuted \in SUBSET Job /\ \A j \in Job : Fresh(row[j]) => j \in ToBeExecuted
    BY DEF ToBeExecuted, Fresh
  <1>3. \A u \in Caller \ {t} : /\ caller'[u].open = caller[u].open /\ ~caller'[u].alone
                                /\ caller'[u].made = caller[u].made /\ caller'[u].seen = caller[u].seen
    BY <1>1 DEF Tx
  <1>4. /\ caller'[t].open /\ caller'[t].seen = ToBeExecuted /\ caller'[t].made = {}
        /\ caller'[t].alone => \A v \in Caller : ~caller[v].open
    BY <1>1
  <1>5. caller' \in [Caller -> Tx]
    BY <1>1, <1>2 DEF Tx
  <1>6. TriesInv'
    BY <1>1, <1>5 DEF StoredInv, TriesInv, RowsTyped
  <1>7. Owned'
    BY <1>1, <1>3, <1>4 DEF StoredInv, Owned
  <1>8. KeysInv'
    BY <1>1, <1>2, <1>3, <1>4 DEF StoredInv, KeysInv, Apart, SameName
  <1> QED BY <1>6, <1>7, <1>8 DEF StoredInv

\* A job is stored with a key that no job in sight has.
LEMMA EnqueueStored ==
    ASSUME StoredInv, NEW t \in Caller, NEW k \in Key \cup {NoKey}, Enqueue(t, k)
    PROVE  StoredInv'
  <1>1. CASE UNCHANGED dvars
    BY <1>1 DEF dvars, StoredInv, TriesInv, RowsTyped, Owned, KeysInv, Apart, SameName
  <1>2. ASSUME NEW j \in Job, row[j].state = "none", k = NoKey \/ SameKey(t, k) = {},
               row' = [row EXCEPT ![j] = NewJob(k)],
               caller' = [caller EXCEPT ![t].made = @ \cup {j}]
        PROVE  StoredInv'
    <2>1. row \in [Job -> Row] /\ caller \in [Caller -> Tx] /\ caller[t].open
      BY DEF StoredInv, TriesInv, RowsTyped, Enqueue
    <2>2. /\ NewJob(k) \in Row /\ NewJob(k).state = "uncommitted" /\ NewJob(k).cause = "new"
          /\ NewJob(k).key = k /\ ~NewJob(k).alone /\ NewJob(k).retry = 0 /\ NewJob(k).lost = 0
      BY RowTypes DEF NewJob, NoRow
    <2>3. /\ row'[j] = NewJob(k)
          /\ \A i \in Job \ {j} : row'[i] = row[i]
      BY <1>2, <2>1
    <2>4. /\ \A u \in Caller : /\ caller'[u].open = caller[u].open /\ caller'[u].alone = caller[u].alone
                               /\ caller'[u].seen = caller[u].seen
          /\ caller'[t].made = caller[t].made \cup {j}
          /\ \A u \in Caller \ {t} : caller'[u].made = caller[u].made
      BY <1>2, <2>1 DEF Tx
    <2>5. TriesInv'
      <3>1. caller' \in [Caller -> Tx]
        BY <1>2, <2>1 DEF Tx
      <3> QED BY <1>2, <2>1, <2>2, <2>3, <3>1 DEF StoredInv, TriesInv, RowsTyped, Left, Waits
    <2>6. \A u \in Caller : j \notin caller[u].made /\ caller[u].made \subseteq Job
      BY <1>2, <2>1 DEF StoredInv, Owned, Tx
    <2>7. Owned'
      BY <2>1, <2>2, <2>3, <2>4, <2>6 DEF StoredInv, Owned
    <2>8. ~Fresh(row'[j]) /\ ~Fresh(row[j])
      BY <1>2, <2>2, <2>3 DEF Fresh
    <2>9. \A i \in caller[t].seen \cup caller[t].made : k = NoKey \/ row[i].key # k
      BY <1>2 DEF SameKey
    <2>10. KeysInv'
      <3>1. \A u \in Caller : caller'[u].open =>
               \A i \in Job : Fresh(row'[i]) /\ Apart(u, i)' => i \in caller'[u].seen
        BY <2>3, <2>4, <2>8 DEF StoredInv, KeysInv, Apart
      <3>2. \A u \in Caller : \A i \in caller'[u].made :
               \A l \in caller'[u].made : SameName(i, l)' => i = l
        BY <2>2, <2>3, <2>4, <2>6, <2>9 DEF StoredInv, KeysInv, SameName
      <3>3. ASSUME NEW u \in Caller, NEW i \in caller'[u].made, NEW l \in Job,
                   Fresh(row'[l]), Apart(u, l)'
            PROVE  ~SameName(i, l)'
        <4>1. l # j /\ row'[l] = row[l] /\ Apart(u, l) /\ Fresh(row[l])
          BY <2>3, <2>4, <2>8, <3>3 DEF Apart
        <4>2. CASE i = j
          <5>1. u = t
            BY <2>4, <2>6, <4>2, <3>3
          <5>2. l \in caller[t].seen
            BY <2>1, <4>1, <5>1 DEF StoredInv, KeysInv
          <5> QED BY <2>2, <2>3, <2>9, <4>1, <4>2, <5>2 DEF SameName
        <4>3. CASE i # j
          <5>1. i \in caller[u].made /\ row'[i] = row[i]
            BY <2>3, <2>4, <2>6, <4>3, <3>3
          <5> QED BY <4>1, <5>1 DEF StoredInv, KeysInv, SameName
        <4> QED BY <4>2, <4>3
      <3>4. \A i, l \in Job : i # l /\ Fresh(row'[i]) /\ Fresh(row'[l]) /\ SameName(i, l)'
                              => ~row'[i].alone /\ ~row'[l].alone
        BY <2>3, <2>8 DEF StoredInv, KeysInv, SameName
      <3> QED BY <3>1, <3>2, <3>3, <3>4 DEF KeysInv
    <2> QED BY <2>5, <2>7, <2>10 DEF StoredInv
  <1> QED BY <1>1, <1>2 DEF Enqueue

\* A commit makes jobs visible to others that do not see them only if neither
\* side is alone.
LEMMA EndStored ==
    ASSUME StoredInv, NEW t \in Caller, NEW state \in {"pending", "none"}, End(t, state)
    PROVE  StoredInv'
  <1>1. row \in [Job -> Row] /\ caller \in [Caller -> Tx] /\ caller[t].open
    BY DEF StoredInv, TriesInv, RowsTyped, End
  <1>2. /\ caller'[t] = NoTx /\ \A u \in Caller \ {t} : caller'[u] = caller[u]
        /\ caller' \in [Caller -> Tx]
    BY <1>1, RowTypes DEF End
  <1>3. \A u \in Caller \ {t} : ~caller[u].alone \/ ~caller[u].open
    BY <1>1 DEF StoredInv, Owned
  <1> DEFINE stored(j) == [row[j] EXCEPT !.state = "pending", !.alone = caller[t].alone]
  <1>4. /\ row' = [j \in Job |-> row'[j]]
        /\ \A j \in Job : \/ j \notin caller[t].made /\ row'[j] = row[j]
                          \/ j \in caller[t].made /\ state = "none" /\ row'[j] = NoRow
                          \/ j \in caller[t].made /\ state = "pending" /\ row'[j] = stored(j)
    BY DEF End
  <1>5. ASSUME NEW j \in caller[t].made
        PROVE  /\ row[j].state = "uncommitted" /\ row[j].cause = "new" /\ j \in Job
               /\ \A u \in Caller \ {t} : j \notin caller[u].made
               /\ stored(j) \in Row /\ stored(j).key = row[j].key /\ stored(j).cause = "new"
               /\ stored(j).state = "pending" /\ stored(j).alone = caller[t].alone
               /\ stored(j).retry = 0 /\ stored(j).lost = 0
    <2>1. j \in Job /\ row[j].state = "uncommitted" /\ row[j].cause = "new"
          /\ \A u \in Caller \ {t} : j \notin caller[u].made
      BY <1>1 DEF StoredInv, Owned, Tx
    <2>2. row[j] \in Row /\ caller[t].alone \in BOOLEAN /\ row[j].retry = 0 /\ row[j].lost = 0
      BY <1>1, <2>1 DEF StoredInv, TriesInv, Left, Tx
    <2> QED BY <2>1, <2>2 DEF Row, RowState
  <1> HIDE DEF stored
  <1>6. TriesInv'
    <2>1. ASSUME NEW j \in Job PROVE row'[j] \in Row /\ Left(row'[j], MaxRetries[j]) /\ Waits(row'[j])
      <3>1. Left(NoRow, MaxRetries[j]) /\ Waits(NoRow)
        BY DEF Left, Waits, NoRow
      <3>2. CASE j \in caller[t].made /\ row'[j] = stored(j)
        <4>1. MaxRetries[j] \in Nat
          BY DelayedJobsAssumption
        <4> QED BY <3>2, <1>5, <4>1 DEF Left, Waits
      <3> QED BY <1>1, <1>4, <3>1, <3>2, RowTypes DEF StoredInv, TriesInv
    <2> QED BY <1>2, <1>4, <2>1 DEF TriesInv, RowsTyped
  <1>7. /\ \A u \in Caller \ {t} : \A i \in caller[u].made : row'[i] = row[i]
        /\ NoTx.made = {} /\ ~NoTx.open /\ ~NoTx.alone
    <2>1. ASSUME NEW u \in Caller \ {t}, NEW i \in caller[u].made PROVE row'[i] = row[i]
      <3>1. i \in Job /\ i \notin caller[t].made
        BY <1>1, <1>5 DEF Tx
      <3> QED BY <1>4, <3>1
    <2> QED BY <2>1 DEF NoTx
  <1>8. Owned'
    <2>1. ASSUME NEW j \in Job, row'[j].state = "uncommitted" PROVE \E u \in Caller : j \in caller'[u].made
      <3>1. j \notin caller[t].made /\ row[j].state = "uncommitted"
        BY <1>4, <1>5, <2>1 DEF NoRow
      <3>2. PICK u \in Caller : j \in caller[u].made
        BY <3>1 DEF StoredInv, Owned
      <3> QED BY <1>2, <3>1, <3>2
    <2> QED BY <1>2, <1>7, <2>1 DEF StoredInv, Owned
  <1>9. \A j \in Job : Fresh(row'[j]) =>
           \/ j \notin caller[t].made /\ row'[j] = row[j]
           \/ j \in caller[t].made /\ row'[j].key = row[j].key /\ row'[j].alone = caller[t].alone
    BY <1>4, <1>5 DEF Fresh, NoRow
  <1>10. KeysInv'
    <2>1. ASSUME NEW u \in Caller, caller'[u].open, NEW j \in Job, Fresh(row'[j]), Apart(u, j)'
          PROVE  u # t /\ row'[j] = row[j] /\ Apart(u, j) /\ caller'[u] = caller[u]
      <3>1. u # t /\ caller'[u] = caller[u] /\ ~caller[u].alone /\ caller[u].open
        BY <1>2, <1>3, <1>7, <2>1
      <3>2. ~caller[t].alone
        BY <3>1, <1>1 DEF StoredInv, Owned
      <3> QED BY <1>9, <2>1, <3>1, <3>2 DEF Apart
    <2>2. \A u \in Caller : caller'[u].open => \A j \in Job : Fresh(row'[j]) /\ Apart(u, j)' => j \in caller'[u].seen
      BY <2>1 DEF StoredInv, KeysInv
    <2>3. ASSUME NEW u \in Caller, NEW i \in caller'[u].made
          PROVE  /\ \A l \in caller'[u].made : SameName(i, l)' => i = l
                 /\ \A j \in Job : Fresh(row'[j]) /\ Apart(u, j)' => ~SameName(i, j)'
      <3>1. u # t /\ caller'[u] = caller[u] /\ caller'[u].open
        BY <1>2, <1>7, <2>3 DEF StoredInv, Owned
      <3> QED BY <1>7, <2>1, <2>3, <3>1 DEF StoredInv, KeysInv, SameName
    <2>4. ASSUME NEW i \in Job, NEW j \in Job, i # j, Fresh(row'[i]), Fresh(row'[j]), SameName(i, j)'
          PROVE  ~row'[i].alone
      <3>1. CASE i \in caller[t].made /\ j \in caller[t].made
        BY <1>9, <2>4, <3>1 DEF StoredInv, KeysInv, SameName
      <3>2. CASE i \notin caller[t].made /\ j \notin caller[t].made
        BY <1>9, <2>4, <3>2 DEF StoredInv, KeysInv, SameName
      <3>3. CASE i \in caller[t].made /\ j \notin caller[t].made
        BY <1>9, <2>4, <3>3 DEF StoredInv, KeysInv, SameName, Apart
      <3>4. CASE i \notin caller[t].made /\ j \in caller[t].made
        BY <1>9, <2>4, <3>4 DEF StoredInv, KeysInv, SameName, Apart
      <3> QED BY <3>1, <3>2, <3>3, <3>4
    <2>5. \A i, j \in Job : i # j /\ Fresh(row'[i]) /\ Fresh(row'[j]) /\ SameName(i, j)'
                            => ~row'[i].alone /\ ~row'[j].alone
      BY <2>4 DEF SameName
    <2> QED BY <2>2, <2>3, <2>5 DEF KeysInv
  <1> QED BY <1>6, <1>8, <1>10 DEF StoredInv

\* Every step keeps the invariant.
LEMMA StepStored == StoredInv /\ [DelayedJobsNext]_dvars => StoredInv'
  <1> SUFFICES ASSUME StoredInv, [DelayedJobsNext]_dvars PROVE StoredInv'
    OBVIOUS
  <1>1. CASE UNCHANGED dvars
    BY <1>1 DEF dvars, StoredInv, TriesInv, RowsTyped, Owned, KeysInv, Apart, SameName
  <1>2. ASSUME NEW t \in Caller, Calls(t) PROVE StoredInv'
    BY <1>2, BeginStored, EnqueueStored, EndStored DEF Calls, Commit, Rollback
  <1>3. ASSUME NEW j \in Job, JobMoves(j) PROVE StoredInv'
    BY <1>3, JobStored
  <1> QED BY <1>1, <1>2, <1>3 DEF DelayedJobsNext, JobMoves

\* A job that is retried waits as long as the last entry of its pattern says that
\* its tries have reached, whatever the pattern is: none, entries at any counts,
\* seconds that grow or shrink; but for a try that an entry after the first names,
\* of which the docstring says two things.  The rows and transactions have their
\* types.
THEOREM PatternWaits == DelayedJobsSpec => []DelayedInv
  <1>1. StoredInv => DelayedInv
    BY DEF StoredInv, TriesInv, RowsTyped, Tx, Owned, Waits, DelayedInv, DelayedJobsTypeOK, WaitsByPattern
  <1> QED BY <1>1, InitStored, StepStored, PTL DEF DelayedJobsSpec

\* A job that has a maximum of tries and is still to be executed has a try left.
THEOREM Tries == DelayedJobsSpec => []TriesBounded
  <1>1. StoredInv => TriesBounded
    BY DEF StoredInv, TriesInv, Left, TriesBounded
  <1> QED BY <1>1, InitStored, StepStored, PTL DEF DelayedJobsSpec

\* Two jobs with one identity key wait for their first try only if both were
\* stored by transactions that overlapped others.
THEOREM IdentityKey == DelayedJobsSpec => []OneJobPerKey
  <1>1. StoredInv => OneJobPerKey
    BY DEF StoredInv, KeysInv, OneJobPerKey, Fresh, SameName
  <1> QED BY <1>1, InitStored, StepStored, PTL DEF DelayedJobsSpec
=============================================================================
