---------------------------- MODULE DelayedJobs ----------------------------
(***************************************************************************)
(* The Job object of queue_job (job.py): what delaying a method stores,    *)
(* when an identity key keeps a job out, and how often a job is tried.     *)
(*                                                                         *)
(* Callers delay methods in transactions of their own, which read the      *)
(* table as it was when they began (repeatable read) plus what they wrote. *)
(* The runner and the crashes of workers are in JobQueue.tla; here a job   *)
(* is sent when its eta has come and performed to one of its outcomes.     *)
(***************************************************************************)
EXTENDS Integers, FiniteSetsExt

CONSTANTS
    Job,            \* bound: the rows that callers may create
    Caller,         \* transactions that delay methods at the same time
    Key, NoKey,     \* identity keys; identity_key=None
    MaxRetries,     \* MaxRetries[j]: max_retries of j, 0 is for ever
    Pattern,        \* retry_pattern: seconds by count of retries
    RetryInterval,  \* RETRY_INTERVAL
    PgRetry,        \* PG_RETRY
    Asked,          \* seconds that a RetryableJobError asks for, 0 is none
    Outcome,        \* the outcomes of perform() that happen
    RequeueFrom,    \* the states from which users requeue jobs
    MaxTry          \* bound: tries of a job that is retried for ever

ASSUME DelayedJobsAssumption ==
    /\ NoKey \notin Key
    /\ MaxRetries \in [Job -> Nat]
    /\ Pattern \in [DOMAIN Pattern -> Nat \ {0}] /\ DOMAIN Pattern \subseteq Nat
    /\ RetryInterval \in Nat \ {0} /\ PgRetry \in Nat \ {0} /\ Asked \subseteq Nat
    /\ Outcome \subseteq {"done", "error", "retryable", "ignored", "serialization"}
    /\ RequeueFrom \subseteq {"pending", "enqueued", "started", "done", "failed"}
    /\ MaxTry \in Nat

VARIABLES
    row,     \* the table and, in state "uncommitted", rows of open transactions
    caller   \* the open transactions

dvars == <<row, caller>>

RowState == {"none", "uncommitted", "pending", "enqueued", "started", "done", "failed"}
Wait == {0, RetryInterval, PgRetry} \cup Asked \cup {Pattern[n] : n \in DOMAIN Pattern}

\* wait: the seconds by which the job was last postponed (its eta).
\* History: alone, the job was stored by a transaction that overlapped no other;
\* cause, why it is pending; lost, the tries since then that ended in a conflict.
Row == [state : RowState, key : Key \cup {NoKey}, retry : Nat, wait : Wait,
        alone : BOOLEAN, cause : {"new", "retry", "requeue"}, lost : Nat]
NoRow == [state |-> "none", key |-> NoKey, retry |-> 0, wait |-> 0,
          alone |-> FALSE, cause |-> "new", lost |-> 0]

\* seen: the jobs a search finds in the snapshot; made: the jobs created since;
\* alone (history): no other transaction has been open meanwhile.
NoTx == [open |-> FALSE, seen |-> {}, made |-> {}, alone |-> FALSE]

-----------------------------------------------------------------------------
(* Delaying a method.                                                      *)

\* Mutant: only pending jobs are looked for.
Mutant_ToBeExecuted == {j \in Job : row[j].state = "pending"}

\* The jobs that job_record_with_same_identity_key may find.
ToBeExecuted == {j \in Job : row[j].state \in {"pending", "enqueued"}}

\* (Bound: a transaction begins as long as there are rows left to create.)
Begin(t) ==
    /\ ~caller[t].open
    /\ \E j \in Job : row[j].state = "none"
    /\ caller' = [u \in Caller |->
         IF u = t THEN [open |-> TRUE, seen |-> ToBeExecuted, made |-> {},
                        alone |-> \A v \in Caller : ~caller[v].open]
         ELSE [caller[u] EXCEPT !.alone = FALSE]]
    /\ UNCHANGED row

SameKey(t, k) == {i \in caller[t].seen \cup caller[t].made : row[i].key = k}

\* Job(func, ...): pending, no try yet; the row is visible at the commit.
NewJob(k) == [NoRow EXCEPT !.state = "uncommitted", !.key = k]

\* Job.enqueue: an existing job with the key is returned, else one is stored.
Enqueue(t, k) ==
    /\ caller[t].open
    /\ IF k # NoKey /\ SameKey(t, k) # {}
       THEN UNCHANGED dvars
       ELSE \E j \in Job :
            /\ row[j].state = "none"
            /\ row' = [row EXCEPT ![j] = NewJob(k)]
            /\ caller' = [caller EXCEPT ![t].made = @ \cup {j}]

End(t, state) ==
    /\ caller[t].open
    /\ row' = [j \in Job |-> IF j \notin caller[t].made THEN row[j]
                             ELSE IF state = "none" THEN NoRow
                             ELSE [row[j] EXCEPT !.state = state, !.alone = caller[t].alone]]
    /\ caller' = [caller EXCEPT ![t] = NoTx]

Commit(t) == End(t, "pending")
Rollback(t) == End(t, "none")

-----------------------------------------------------------------------------
(* Performing a job.                                                       *)

SetEnqueued(j) == /\ row[j].state = "pending"
                  /\ row' = [row EXCEPT ![j].state = "enqueued"]
                  /\ UNCHANGED caller

SetStarted(j) == /\ row[j].state = "enqueued"
                 /\ row' = [row EXCEPT ![j].state = "started"]
                 /\ UNCHANGED caller

\* perform() counts the try before it calls the function.
Performed(j, outcome) ==
    /\ row[j].state = "started" /\ outcome \in Outcome
    /\ MaxRetries[j] = 0 \/ outcome \in {"ignored", "serialization"} => row[j].retry < MaxTry
    /\ UNCHANGED caller

Tried(j) == row[j].retry + 1

Reached(tries) == {count \in DOMAIN Pattern : count <= tries}

\* Mutant: the try to come is counted.
Mutant_RetrySeconds(tries, asked) ==
    IF asked # 0 THEN asked
    ELSE IF Reached(tries + 1) = {} THEN RetryInterval ELSE Pattern[Max(Reached(tries + 1))]

\* _get_retry_seconds: the entries in the order of their counts, each reached one
\* in place of those before it.
RetrySeconds(tries, asked) ==
    LET seconds[n \in 0 .. tries] ==
            IF n \in DOMAIN Pattern THEN Pattern[n]
            ELSE IF n = 0 THEN RetryInterval ELSE seconds[n - 1]
    IN  IF asked # 0 THEN asked ELSE seconds[tries]

\* Mutant: the retries are reset when the job is set pending.
Mutant_Postponed(j, tries, asked) ==
    [row[j] EXCEPT !.state = "pending", !.retry = 0, !.cause = "retry",
                   !.wait = RetrySeconds(tries, asked)]

\* postpone, set_pending(reset_retry=False).
Postponed(j, tries, asked) ==
    [row[j] EXCEPT !.state = "pending", !.retry = tries, !.cause = "retry",
                   !.wait = RetrySeconds(tries, asked)]

JobDone(j) ==
    /\ Performed(j, "done")
    /\ row' = [row EXCEPT ![j].state = "done", ![j].retry = Tried(j)]

JobFailed(j) ==
    /\ Performed(j, "error")
    /\ row' = [row EXCEPT ![j].state = "failed", ![j].retry = Tried(j)]

\* Mutant: one try too many.
Mutant_Exhausted(j) == MaxRetries[j] # 0 /\ Tried(j) > MaxRetries[j]

\* RetryableJobError becomes FailedJobError.
Exhausted(j) == MaxRetries[j] # 0 /\ Tried(j) >= MaxRetries[j]

Retryable(j) ==
    /\ Performed(j, "retryable")
    /\ \E asked \in Asked :
         row' = [row EXCEPT ![j] = IF Exhausted(j)
                                   THEN [@ EXCEPT !.state = "failed", !.retry = Tried(j)]
                                   ELSE Postponed(j, Tried(j), asked)]

\* RetryableJobError(ignore_retry=True): the count is taken back.
RetryIgnored(j) ==
    /\ Performed(j, "ignored")
    /\ \E asked \in Asked : row' = [row EXCEPT ![j] = Postponed(j, row[j].retry, asked)]

\* A serialization failure leaves perform() as it is, and runjob turns it into
\* a RetryableJobError where nobody looks at max_retries any more.
SerializationFailure(j) ==
    /\ Performed(j, "serialization")
    /\ row' = [row EXCEPT ![j] = [Postponed(j, Tried(j), PgRetry) EXCEPT !.lost = @ + 1]]

\* set_pending(reset_retry=True).
Requeue(j) ==
    /\ row[j].state \in RequeueFrom
    /\ row' = [row EXCEPT ![j].state = "pending", ![j].retry = 0,
                           ![j].cause = "requeue", ![j].lost = 0]
    /\ UNCHANGED caller

-----------------------------------------------------------------------------
DelayedJobsInit ==
    /\ row = [j \in Job |-> NoRow]
    /\ caller = [t \in Caller |-> NoTx]

Calls(t) == Begin(t) \/ Commit(t) \/ Rollback(t) \/ \E k \in Key \cup {NoKey} : Enqueue(t, k)

Outcomes(j) == JobDone(j) \/ JobFailed(j) \/ Retryable(j) \/ RetryIgnored(j) \/ SerializationFailure(j)

DelayedJobsNext ==
    \/ \E t \in Caller : Calls(t)
    \/ \E j \in Job : SetEnqueued(j) \/ SetStarted(j) \/ Outcomes(j) \/ Requeue(j)

DelayedJobsSpec == DelayedJobsInit /\ [][DelayedJobsNext]_dvars

\* The runner sends pending jobs and the workers end what they perform; a job
\* does not conflict with others, or ask not to count the try, for ever.
FairDelayedJobsSpec ==
    /\ DelayedJobsSpec
    /\ \A j \in Job : /\ WF_dvars(SetEnqueued(j)) /\ WF_dvars(SetStarted(j))
                       /\ SF_dvars(JobDone(j) \/ JobFailed(j) \/ Retryable(j))

-----------------------------------------------------------------------------
DelayedJobsTypeOK ==
    /\ row \in [Job -> Row]
    /\ caller \in [Caller -> [open : BOOLEAN, seen : SUBSET Job, made : SUBSET Job, alone : BOOLEAN]]
    /\ \A j \in Job : row[j].state = "uncommitted" <=> \E t \in Caller : j \in caller[t].made

\* "multiple job with the same key will not be added to a channel if the
\* existing job with the same key is not yet started or executed" (job.py): two
\* jobs with one key wait for their first try only when the transactions that
\* stored them overlapped.  (A job that is retried or requeued does not look
\* for others.)
OneJobPerKey ==
    \A i, j \in Job :
        /\ i # j /\ row[i].key = row[j].key /\ row[i].key # NoKey
        /\ {row[i].state, row[j].state} \subseteq {"pending", "enqueued"}
        /\ {row[i].cause, row[j].cause} = {"new"}
        => ~row[i].alone /\ ~row[j].alone

\* A job that is still to be executed has a try left: with a maximum of n, a
\* job that keeps raising RetryableJobError is given up after n tries and not
\* tried again, whatever tries did not count and however often it waited; only
\* tries lost to a conflict of transactions, which runjob postpones itself,
\* come on top.
TriesBounded ==
    \A j \in Job : MaxRetries[j] # 0 /\ row[j].state \in {"pending", "enqueued", "started"}
                   => row[j].retry - row[j].lost < MaxRetries[j]

LastReached(tries) == IF Reached(tries) = {} THEN RetryInterval ELSE Pattern[Max(Reached(tries))]

\* A try that an entry after the first names: "5 first retries postponed 10
\* minutes" gives it to the entry before, "retries 5 to 10 ... 20 minutes" to its
\* own.
Between(tries) == tries \in DOMAIN Pattern /\ \E count \in DOMAIN Pattern : count < tries

\* retry_pattern: a job that is retried waits as long as the last entry says
\* that its tries have reached, however it got there, unless the error asks for
\* other seconds or it was a conflict.  A try between two entries, of which the
\* docstring says both, is left out.
WaitsByPattern ==
    \A j \in Job : row[j].state = "pending" /\ row[j].cause = "retry" /\ ~Between(row[j].retry) =>
        row[j].wait \in {PgRetry, LastReached(row[j].retry)} \cup (Asked \ {0})

\* A job that fails to find what it waits for is not retried for ever: with a
\* maximum, every pending job ends, done or failed, whatever happens in between.
PendingEnds ==
    \A j \in Job : MaxRetries[j] # 0 /\ row[j].state = "pending"
                   ~> row[j].state \in {"done", "failed"}

\* The invariant of the waiting times: the types, and the pattern.
DelayedInv == DelayedJobsTypeOK /\ WaitsByPattern
=============================================================================
