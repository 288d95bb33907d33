--------------------------- MODULE JobQueueProofs ---------------------------
(***************************************************************************)
(* Safety of the job queue for every set of jobs and requests, every tree  *)
(* of channels and any number of failures.                                 *)
(*                                                                         *)
(* What the table shows and what the channels show differ most of the      *)
(* time.  What always holds is one half of their agreement: a busy row     *)
(* runs in the root channel of a runner that has loaded the table          *)
(* (BusyRuns), and the job the runner is about to mark enqueued is not     *)
(* busy (Taken).  The bound on the table and the single executor rest on   *)
(* these two and on the placement of jobs in the channels (Placed).        *)
(***************************************************************************)
EXTENDS JobQueue, ChannelsProofs, FiniteSetTheorems

\* A slot that is in use belongs to a job.
UsedSlot == {s \in Slot : s = FreeSlot \/ s.job \in Job}

QueueTypes ==
    /\ row \in [Job -> Row]
    /\ inbox \in [Job -> 0 .. MaxCopies]
    /\ req \in [Request -> UsedSlot]
    /\ faults \in 0 .. MaxFaults

Executes(s, j) == s.job = j /\ s.server \in {"started", "performing"}

-----------------------------------------------------------------------------
(* What the helpers of JobQueue.tla build.                                 *)

\* A free slot is one, and nobody executes in it.
LEMMA FreeSlotFacts ==
    /\ FreeSlot \in UsedSlot
    /\ \A j \in Job : ~Executes(FreeSlot, j)
  BY DEF FreeSlot, UsedSlot, Slot, Row, NoRow, RowState, State, Executes

\* Closing a slot leaves a slot in which the same is executed.
LEMMA CloseFacts ==
    ASSUME NEW s \in Slot, s.job \in Job
    PROVE  /\ Close(s) \in UsedSlot
           /\ \A j \in Job : Executes(Close(s), j) <=> Executes(s, j)
  BY FreeSlotFacts DEF Close, UsedSlot, Executes

\* A client thread moves on: nothing changes for the server.
LEMMA WithClientFacts ==
    ASSUME QueueTypes, NEW r \in Request, NEW v \in {"waiting", "failing", "gone"},
           req[r] # FreeSlot
    PROVE  /\ WithClient(r, v) \in [Request -> UsedSlot]
           /\ \A i \in Request, j \in Job : Executes(WithClient(r, v)[i], j) <=> Performs(i, j)
  <1> DEFINE s == [req[r] EXCEPT !.client = v]
  <1>1. s \in Slot /\ s.job \in Job /\ s.server = req[r].server /\ s.job = req[r].job
    BY DEF QueueTypes, UsedSlot, Slot
  <1>2. WithClient(r, v) = [req EXCEPT ![r] = Close(s)]
    BY DEF WithClient
  <1> HIDE DEF s
  <1>3. Close(s) \in UsedSlot /\ \A j \in Job : Executes(Close(s), j) <=> Executes(s, j)
    BY <1>1, CloseFacts
  <1>4. WithClient(r, v)[r] = Close(s) /\ \A i \in Request \ {r} : WithClient(r, v)[i] = req[i]
    BY <1>2 DEF QueueTypes
  <1> QED BY <1>1, <1>2, <1>3, <1>4 DEF QueueTypes, Executes, Performs

\* The server side of a request ends: its job is no longer executed by it.
LEMMA WithServerFacts ==
    ASSUME QueueTypes, NEW r \in Request, NEW v \in {"ok", "error", "gone"},
           req[r] # FreeSlot
    PROVE  /\ WithServer(r, v) \in [Request -> UsedSlot]
           /\ \A j \in Job : ~Executes(WithServer(r, v)[r], j)
           /\ \A i \in Request \ {r} : WithServer(r, v)[i] = req[i]
  <1> DEFINE s == [req[r] EXCEPT !.server = v, !.copy = NoRow, !.dirty = FALSE]
  <1>1. s \in Slot /\ s.job \in Job /\ s.server = v
    BY DEF QueueTypes, UsedSlot, Slot, NoRow, Row, RowState, State
  <1>2. WithServer(r, v) = [req EXCEPT ![r] = Close(s)]
    BY DEF WithServer
  <1> HIDE DEF s
  <1>3. Close(s) \in UsedSlot /\ \A j \in Job : ~Executes(Close(s), j)
    BY <1>1, CloseFacts DEF Executes
  <1> QED BY <1>2, <1>3 DEF QueueTypes

\* Marking the workers whose snapshot is old changes nothing else.
LEMMA DirtiedFacts ==
    ASSUME NEW rq \in [Request -> UsedSlot], NEW j \in Job
    PROVE  /\ Dirtied(rq, j) \in [Request -> UsedSlot]
           /\ \A i \in Request, k \in Job : Executes(Dirtied(rq, j)[i], k) <=> Executes(rq[i], k)
  <1>1. ASSUME NEW i \in Request, rq[i].job = j
        PROVE  /\ [rq[i] EXCEPT !.dirty = TRUE] \in UsedSlot
               /\ [rq[i] EXCEPT !.dirty = TRUE].job = rq[i].job
               /\ [rq[i] EXCEPT !.dirty = TRUE].server = rq[i].server
    BY <1>1 DEF Slot, UsedSlot
  <1> QED BY <1>1 DEF Dirtied, Executes

\* A write of one row, with its notification.
LEMMA TouchFacts ==
    ASSUME QueueTypes, NEW j \in Job, NEW new \in Row, Touch(j, new)
    PROVE  /\ row' \in [Job -> Row]
           /\ inbox' \in [Job -> 0 .. MaxCopies]
           /\ row'[j] = new
           /\ \A i \in Job \ {j} : row'[i] = row[i]
  <1>1. Min2(inbox[j] + 1, MaxCopies) \in 0 .. MaxCopies
    BY JobQueueAssumption DEF QueueTypes, Min2
  <1> QED BY <1>1 DEF Touch, Trigger, QueueTypes

SameExecutors == \A r \in Request, j \in Job : Performs(r, j)' <=> Performs(r, j)

\* A write by somebody who has no request.
LEMMA WriteFacts ==
    ASSUME QueueTypes, NEW j \in Job, NEW new \in Row, Write(j, new)
    PROVE  /\ row' \in [Job -> Row]
           /\ inbox' \in [Job -> 0 .. MaxCopies]
           /\ req' \in [Request -> UsedSlot]
           /\ SameExecutors
           /\ row'[j] = new
           /\ \A i \in Job \ {j} : row'[i] = row[i]
  BY TouchFacts, DirtiedFacts DEF Write, QueueTypes, SameExecutors, Performs, Executes

\* A failure is counted.
LEMMA FailingType == ASSUME QueueTypes, NEW k, Failing(k) PROVE faults' \in 0 .. MaxFaults
  BY JobQueueAssumption DEF QueueTypes, Failing

\* The rows the program writes are rows.
LEMMA RowTypes ==
    /\ NoRow \in Row
    /\ \A r \in Row, s \in RowState : [r EXCEPT !.state = s] \in Row
                                      /\ [r EXCEPT !.state = s].state = s
    /\ \A r \in Row, s \in RowState, b \in BOOLEAN :
         /\ [r EXCEPT !.state = s, !.dateDone = b] \in Row
         /\ [r EXCEPT !.state = s, !.dateDone = b].state = s
    /\ \A n \in Nat : [state |-> "pending", eta |-> n, dateDone |-> FALSE] \in Row
    /\ \A s \in State : s \in RowState
  BY DEF Row, NoRow, RowState, State

-----------------------------------------------------------------------------
(* What users, crons and client threads do: the runner is not touched, no  *)
(* row becomes enqueued or started, nobody begins to execute a job.        *)

NoNewBusy == \A j \in Job : Busy(j)' => Busy(j)

Outside == /\ UNCHANGED runnerVars
           /\ QueueTypes'
           /\ NoNewBusy
           /\ SameExecutors

Gone == {"started", "deleted"}

\* A job that is started or deleted stays so, unless one that executes it ends.
Kept == \A j \in Job : row[j].state \in Gone =>
            \/ row'[j].state \in Gone
            \/ \E r \in Request : Performs(r, j) /\ ~Performs(r, j)'

\* Users and crons leave started jobs alone.
Calm == "started" \notin RequeueFrom \cup DoneFrom \cup CronFrom

\* A write of one row that makes it neither enqueued nor started.
LEMMA QuietWrite ==
    ASSUME QueueTypes, NEW j \in Job, NEW new \in Row, Write(j, new),
           new.state \notin {"enqueued", "started"},
           UNCHANGED runnerVars, faults' \in 0 .. MaxFaults
    PROVE  /\ Outside
           /\ row[j].state \notin Gone \/ new.state \in Gone => Kept
  <1>1. /\ row' \in [Job -> Row] /\ inbox' \in [Job -> 0 .. MaxCopies]
        /\ req' \in [Request -> UsedSlot] /\ SameExecutors
        /\ row'[j] = new /\ \A i \in Job \ {j} : row'[i] = row[i]
    BY WriteFacts
  <1> QED BY <1>1 DEF Outside, QueueTypes, NoNewBusy, Busy, Kept

\* The users and the crons.
LEMMA UsersOutside == ASSUME QueueTypes, Users PROVE Outside /\ (Calm => Kept)
  <1> PICK j \in Job :
        Create(j) \/ ButtonDone(j) \/ Requeue(j) \/ CronRequeue(j) \/ Autovacuum(j)
    BY DEF Users
  <1>r. /\ row[j] \in Row /\ faults \in 0 .. MaxFaults
        /\ {"pending", "done", "deleted"} \subseteq RowState
    BY DEF QueueTypes, RowState, State
  <1>1. CASE Create(j)
    <2>1. PICK e \in Eta \cup {0} :
            Write(j, [state |-> "pending", eta |-> e, dateDone |-> FALSE])
      BY <1>1 DEF Create
    <2> DEFINE new == [state |-> "pending", eta |-> e, dateDone |-> FALSE]
    <2>2. new \in Row /\ new.state = "pending"
      BY ConfigAssumption, RowTypes
    <2>3. Write(j, new) /\ UNCHANGED <<runnerVars, faults>> /\ row[j].state = "none"
      BY <1>1, <2>1 DEF Create
    <2> HIDE DEF new
    <2> QED BY <2>2, <2>3, <1>r, QuietWrite DEF Gone
  <1>2. CASE ButtonDone(j)
    <2> DEFINE new == [row[j] EXCEPT !.state = "done", !.dateDone = TRUE]
    <2>1. new \in Row /\ new.state = "done"
      BY <1>r, RowTypes
    <2>2. Write(j, new) /\ UNCHANGED <<runnerVars, faults>> /\ row[j].state \in DoneFrom
      BY <1>2 DEF ButtonDone
    <2>3. row[j].state # "deleted" /\ (Calm => row[j].state # "started")
      BY <2>2, JobQueueAssumption DEF Calm
    <2> HIDE DEF new
    <2> QED BY <2>1, <2>2, <2>3, <1>r, QuietWrite DEF Gone
  <1>p. SetPendingRow(j) \in Row /\ SetPendingRow(j).state = "pending"
    BY <1>r, RowTypes DEF SetPendingRow
  <1>3. CASE Requeue(j)
    <2>1. /\ Write(j, SetPendingRow(j)) /\ UNCHANGED <<runnerVars, faults>>
          /\ row[j].state \in RequeueFrom
      BY <1>3 DEF Requeue
    <2>2. row[j].state # "deleted" /\ (Calm => row[j].state # "started")
      BY <2>1, JobQueueAssumption DEF Calm
    <2> QED BY <1>p, <1>r, <2>1, <2>2, QuietWrite DEF Gone
  <1>4. CASE CronRequeue(j)
    <2>1. /\ Write(j, SetPendingRow(j)) /\ UNCHANGED runnerVars
          /\ row[j].state \in CronFrom
      BY <1>4 DEF CronRequeue
    <2>2. faults' \in 0 .. MaxFaults
      BY <1>4, <1>r, FailingType DEF CronRequeue
    <2>3. row[j].state # "deleted" /\ (Calm => row[j].state # "started")
      BY <2>1, JobQueueAssumption DEF Calm
    <2> QED BY <1>p, <2>1, <2>2, <2>3, QuietWrite DEF Gone
  <1>5. CASE Autovacuum(j)
    <2> DEFINE new == [row[j] EXCEPT !.state = "deleted"]
    <2>1. new \in Row /\ new.state = "deleted"
      BY <1>r, RowTypes
    <2>2. /\ UNCHANGED <<runnerVars, faults>>
          /\ \/ row' = [row EXCEPT ![j] = new] /\ req' = Dirtied(req, j) /\ UNCHANGED inbox
             \/ Write(j, new)
      BY <1>5 DEF Autovacuum
    <2> HIDE DEF new
    <2>3. CASE row' = [row EXCEPT ![j] = new] /\ req' = Dirtied(req, j) /\ UNCHANGED inbox
      <3>1. req' \in [Request -> UsedSlot] /\ SameExecutors
        BY <2>3, DirtiedFacts DEF QueueTypes, SameExecutors, Performs, Executes
      <3>2. row' \in [Job -> Row] /\ row'[j] = new /\ \A i \in Job \ {j} : row'[i] = row[i]
        BY <2>1, <2>3 DEF QueueTypes
      <3> QED BY <2>1, <2>2, <2>3, <3>1, <3>2, <1>r
              DEF Outside, QueueTypes, NoNewBusy, Busy, Kept, Gone
    <2>4. CASE Write(j, new)
      BY <2>1, <2>2, <2>4, <1>r, QuietWrite DEF Gone
    <2> QED BY <2>2, <2>3, <2>4
  <1> QED BY <1>1, <1>2, <1>3, <1>4, <1>5

\* A slot changes and the table does not.
LEMMA SlotOnly ==
    ASSUME QueueTypes, UNCHANGED <<runnerVars, row, inbox>>,
           req' \in [Request -> UsedSlot], faults' \in 0 .. MaxFaults
    PROVE  (SameExecutors => Outside) /\ Kept /\ QueueTypes' /\ NoNewBusy
  BY DEF QueueTypes, Outside, NoNewBusy, Busy, Kept

\* The client threads of requests.
LEMMA ClientOutside == ASSUME QueueTypes, NEW r \in Request, Client(r) PROVE Outside /\ Kept
  <1>f. req[r] # FreeSlot /\ faults \in 0 .. MaxFaults
    BY DEF Client, ClientOk, ClientError, ClientTimeout, SetJobPending, FreeSlot, QueueTypes
  <1>w. \A v \in {"waiting", "failing", "gone"} :
            /\ WithClient(r, v) \in [Request -> UsedSlot]
            /\ req' = WithClient(r, v) => SameExecutors
    BY <1>f, WithClientFacts DEF SameExecutors, Performs, Executes
  <1>1. CASE ClientOk(r) \/ ClientError(r) \/ ClientTimeout(r)
    <2>1. /\ UNCHANGED <<runnerVars, row, inbox>>
          /\ \E v \in {"failing", "gone"} : req' = WithClient(r, v)
          /\ faults' \in 0 .. MaxFaults
      BY <1>1, <1>f, FailingType DEF ClientOk, ClientError, ClientTimeout
    <2> QED BY <2>1, <1>w, SlotOnly
  <1>2. CASE SetJobPending(r)
    <2> DEFINE j == req[r].job
               new == [row[j] EXCEPT !.state = "pending"]
    <2>j. j \in Job
      BY <1>f DEF QueueTypes, UsedSlot
    <2>1. CASE row[j].state = "enqueued"
      <3>1. new \in Row /\ new.state = "pending"
        <4>1. row[j] \in Row /\ "pending" \in RowState
          BY <2>j DEF QueueTypes, RowState, State
        <4> QED BY <4>1, RowTypes
      <3>2. /\ Touch(j, new)
            /\ req' = Dirtied(WithClient(r, "gone"), j)
            /\ UNCHANGED <<runnerVars, faults>>
        BY <1>2, <2>1 DEF SetJobPending
      <3> HIDE DEF j, new
      <3>3. req' \in [Request -> UsedSlot] /\ SameExecutors
        BY <2>j, <3>2, <1>f, WithClientFacts, DirtiedFacts DEF SameExecutors, Performs, Executes
      <3>4. /\ row' \in [Job -> Row] /\ inbox' \in [Job -> 0 .. MaxCopies]
            /\ row'[j] = new /\ \A i \in Job \ {j} : row'[i] = row[i]
        BY <2>j, <3>1, <3>2, TouchFacts
      <3> QED BY <2>1, <3>1, <3>2, <3>3, <3>4, <1>f
              DEF Outside, QueueTypes, NoNewBusy, Busy, Kept, Gone
    <2>2. CASE row[j].state # "enqueued"
      <3>1. req' = WithClient(r, "gone") /\ UNCHANGED <<runnerVars, row, inbox, faults>>
        BY <1>2, <2>2 DEF SetJobPending
      <3> QED BY <3>1, <1>f, <1>w, SlotOnly
    <2> QED BY <2>1, <2>2
  <1> QED BY <1>1, <1>2 DEF Client

-----------------------------------------------------------------------------
(* The workers.  Only a start makes somebody execute a job, and it takes   *)
(* the job from the state enqueued.                                        *)

\* Nobody begins to execute a job.
FewerExecutors == \A r \in Request, j \in Job : Performs(r, j)' => Performs(r, j)

\* Somebody begins to execute a job whose row was enqueued and is started now.
OneStarts == \E r \in Request, j \in Job :
    /\ row[j].state = "enqueued" /\ row'[j].state = "started"
    /\ \A i \in Request, k \in Job :
         Performs(i, k)' => Performs(i, k) \/ (i = r /\ k = j)

\* What a worker stores at the end: its job is not executed by it any more.
LEMMA FinishFacts ==
    ASSUME QueueTypes, NEW r \in Request, req[r].server = "performing",
           NEW new \in Row, new.state \notin {"enqueued", "started"},
           NEW v \in {"ok", "error"}, Finish(r, new, v)
    PROVE  /\ UNCHANGED runnerVars /\ QueueTypes' /\ NoNewBusy
           /\ FewerExecutors /\ Kept
  <1>j. req[r] # FreeSlot /\ req[r].job \in Job
    BY DEF FreeSlot, QueueTypes, UsedSlot
  <1>1. PICK j \in Job : j = req[r].job
    BY <1>j
  <1> DEFINE rq == WithServer(r, v)
  <1>2. Touch(j, new) /\ req' = Dirtied(rq, j) /\ UNCHANGED <<runnerVars, faults>>
    BY <1>1 DEF Finish
  <1>3. /\ rq \in [Request -> UsedSlot]
        /\ \A k \in Job : ~Executes(rq[r], k)
        /\ \A i \in Request \ {r} : rq[i] = req[i]
    BY <1>j, WithServerFacts
  <1>p. Performs(r, j)
    BY <1>1 DEF Performs
  <1> HIDE DEF rq
  <1>4. /\ req' \in [Request -> UsedSlot]
        /\ \A i \in Request, k \in Job : Executes(req'[i], k) <=> Executes(rq[i], k)
    BY <1>1, <1>2, <1>3, DirtiedFacts
  <1>5. /\ row' \in [Job -> Row] /\ inbox' \in [Job -> 0 .. MaxCopies]
        /\ row'[j] = new /\ \A i \in Job \ {j} : row'[i] = row[i]
    BY <1>1, <1>2, TouchFacts
  <1>6. QueueTypes' /\ NoNewBusy
    BY <1>2, <1>4, <1>5 DEF QueueTypes, NoNewBusy, Busy
  <1>7. FewerExecutors /\ ~Performs(r, j)'
    BY <1>1, <1>3, <1>4 DEF FewerExecutors, Performs, Executes
  <1>8. Kept
    BY <1>1, <1>5, <1>7, <1>p DEF Kept
  <1> QED BY <1>2, <1>6, <1>7, <1>8

\* The workers.
LEMMA WorkerOutside ==
    ASSUME QueueTypes, now \in Nat, NEW r \in Request, Worker(r)
    PROVE  /\ UNCHANGED runnerVars /\ QueueTypes' /\ NoNewBusy /\ Kept
           /\ FewerExecutors \/ OneStarts
  <1>f. req[r] # FreeSlot /\ faults \in 0 .. MaxFaults
    BY DEF Worker, Start, Reject, ServeError, Snapshot, JobDone, DoneConflict,
           RetryPostpone, JobFailed, WorkerCrash, FreeSlot, QueueTypes
  <1>j. /\ req[r].job \in Job /\ req[r].copy \in Row /\ req[r] \in Slot
        /\ {"started", "done", "failed"} \subseteq RowState
    BY <1>f DEF QueueTypes, UsedSlot, Slot, RowState, State
  <1>1. CASE Start(r)
    <2> DEFINE j == req[r].job
               new == [row[j] EXCEPT !.state = "started"]
               rq == Dirtied(req, j)
    <2>r. row[j] \in Row
      BY <1>j DEF QueueTypes
    <2>1. new \in Row /\ new.state = "started"
      BY <2>r, <1>j, RowTypes
    <2>2. /\ row[j].state = "enqueued" /\ Touch(j, new)
          /\ req' = [rq EXCEPT ![r].server = "started", ![r].copy = new]
          /\ UNCHANGED <<runnerVars, faults>>
      BY <1>1 DEF Start
    <2>3. /\ rq \in [Request -> UsedSlot]
          /\ \A i \in Request, k \in Job : Executes(rq[i], k) <=> Performs(i, k)
          /\ rq[r].job = j
      BY <1>j, DirtiedFacts DEF QueueTypes, Performs, Executes, Dirtied, Slot
    <2> HIDE DEF new, rq
    <2>4. req' = [rq EXCEPT ![r] = [rq[r] EXCEPT !.server = "started", !.copy = new]]
      BY <2>2, <2>3
    <2> DEFINE s == [rq[r] EXCEPT !.server = "started", !.copy = new]
    <2>5. s \in UsedSlot /\ s.job = j
      BY <2>1, <2>3, <1>j DEF UsedSlot, Slot
    <2> HIDE DEF s
    <2>6. /\ req' \in [Request -> UsedSlot] /\ req'[r].job = j
          /\ \A i \in Request \ {r} : req'[i] = rq[i]
      BY <2>3, <2>4, <2>5 DEF s
    <2>7. /\ row' \in [Job -> Row] /\ inbox' \in [Job -> 0 .. MaxCopies]
          /\ row'[j] = new /\ \A i \in Job \ {j} : row'[i] = row[i]
      BY <1>j, <2>1, <2>2, TouchFacts
    <2>8. QueueTypes' /\ NoNewBusy
      BY <2>2, <2>6, <2>7 DEF QueueTypes, NoNewBusy, Busy
    <2>9. Kept
      BY <1>j, <2>2, <2>7 DEF Kept, Gone
    <2>10. \A i \in Request, k \in Job : Performs(i, k)' => Performs(i, k) \/ (i = r /\ k = j)
      BY <2>3, <2>6 DEF Performs, Executes
    <2>11. OneStarts
      BY <1>j, <2>1, <2>2, <2>7, <2>10 DEF OneStarts
    <2> QED BY <2>2, <2>8, <2>9, <2>11
  <1>e. ASSUME UNCHANGED <<runnerVars, row, inbox>>, faults' \in 0 .. MaxFaults,
               NEW v \in {"ok", "error"}, req' = WithServer(r, v)
        PROVE  /\ UNCHANGED runnerVars /\ QueueTypes' /\ NoNewBusy /\ Kept
               /\ FewerExecutors
    <2>1. /\ req' \in [Request -> UsedSlot]
          /\ \A j \in Job : ~Executes(req'[r], j)
          /\ \A i \in Request \ {r} : req'[i] = req[i]
      BY <1>e, <1>f, WithServerFacts
    <2>2. FewerExecutors
      BY <2>1 DEF FewerExecutors, Performs, Executes
    <2> QED BY <1>e, <2>1, <2>2, SlotOnly
  <1>2. CASE Reject(r) \/ ServeError(r) \/ DoneConflict(r) \/ WorkerCrash(r)
    <2>1. /\ UNCHANGED <<runnerVars, row, inbox>>
          /\ \E v \in {"ok", "error"} : req' = WithServer(r, v)
          /\ faults' \in 0 .. MaxFaults
      BY <1>2, <1>f, FailingType DEF Reject, ServeError, DoneConflict, WorkerCrash
    <2> QED BY <2>1, <1>e
  <1>3. CASE Snapshot(r)
    <2> DEFINE s == [req[r] EXCEPT !.server = "performing"]
    <2>1. req[r].server = "started" /\ UNCHANGED <<runnerVars, row, inbox, faults>>
          /\ req' = [req EXCEPT ![r] = s]
      BY <1>3 DEF Snapshot
    <2>2. s \in UsedSlot /\ s.job = req[r].job /\ s.server = "performing"
      BY <1>j DEF UsedSlot, Slot
    <2> HIDE DEF s
    <2>3. /\ req' \in [Request -> UsedSlot] /\ req'[r] = s
          /\ \A i \in Request \ {r} : req'[i] = req[i]
      BY <2>1, <2>2 DEF QueueTypes
    <2>4. FewerExecutors
      BY <2>1, <2>2, <2>3 DEF FewerExecutors, Performs
    <2> QED BY <2>1, <2>3, <2>4, <1>f, SlotOnly
  <1>4. CASE JobDone(r)
    <2> DEFINE new == [req[r].copy EXCEPT !.state = "done", !.dateDone = TRUE]
    <2>1. new \in Row /\ new.state = "done"
      BY <1>j, RowTypes
    <2>2. req[r].server = "performing" /\ Finish(r, new, "ok")
      BY <1>4 DEF JobDone
    <2> HIDE DEF new
    <2> QED BY <2>1, <2>2, FinishFacts
  <1>5. CASE RetryPostpone(r)
    <2> DEFINE new == [state |-> "pending", eta |-> now + RetryDelay, dateDone |-> FALSE]
    <2>n. now + RetryDelay \in Nat
      BY JobQueueAssumption
    <2>1. new \in Row /\ new.state = "pending"
      BY <2>n, RowTypes
    <2>2. req[r].server = "performing" /\ Finish(r, new, "ok")
      BY <1>5 DEF RetryPostpone
    <2> HIDE DEF new
    <2> QED BY <2>1, <2>2, FinishFacts
  <1>6. CASE JobFailed(r)
    <2> DEFINE new == [req[r].copy EXCEPT !.state = "failed"]
    <2>1. new \in Row /\ new.state = "failed"
      BY <1>j, RowTypes
    <2>2. req[r].server = "performing" /\ Finish(r, new, "error")
      BY <1>6 DEF JobFailed
    <2> HIDE DEF new
    <2> QED BY <2>1, <2>2, FinishFacts
  <1> QED BY <1>1, <1>2, <1>3, <1>4, <1>5, <1>6 DEF Worker

-----------------------------------------------------------------------------
(* The runner's view of the table.                                         *)

VisitTypes ==
    /\ pauseUntil \in [Channel -> Nat] /\ now \in Nat
    /\ todo \subseteq Channel /\ cur \in Channel \cup {NoChannel}
    /\ yielded \in Job \cup {NoJob}
    /\ rpc \in RunnerPC

\* A runner that has not loaded the table knows no job.
Unloaded == ~Mirroring => \A j \in Job : job[j] = NoJob

\* A busy row runs in the root channel of a runner that has loaded the table.
BusyRuns == Mirroring => \A j \in Job : Busy(j) => j \in chan[root].running

\* The job in the runner's hands; it is not busy when it is about to be marked.
Taken == /\ rpc \in {"enqueue", "http"} => yielded \in Job
         /\ rpc = "enqueue" => ~Busy(yielded) /\ yielded \in chan[root].running

RunnerInv == PlacedInv /\ Unloaded /\ BusyRuns /\ Taken

\* What a step may do to the slots of the root channel.
RootStep ==
    /\ ~Mirroring' => NoNewBusy
    /\ Mirroring' =>
         \/ Mirroring /\ chan'[root].running \subseteq chan[root].running
         \/ Mirroring /\ HasCapacity(root)
            /\ \E j \in Job : chan'[root].running = chan[root].running \cup {j}
         \/ \A j \in Job : j \in chan'[root].running => Busy(j)

\* The row of a job as the runner reads it.
LEMMA DataType == ASSUME QueueTypes, NEW j \in Job PROVE Data(j) \in ChannelJob
  <1>1. PriorityOf[j] \in Priority /\ row[j].eta \in Nat
    BY JobQueueAssumption DEF QueueTypes, Row
  <1> QED BY <1>1, ResolveType DEF Data, ChannelJob

\* Loading the table puts each job where a notification of its row would.
LEMMA LoadPlaced ==
    ASSUME QueueTypes, PlacedInv, \A j \in Job : job[j] = NoJob, LoadJobs
    PROVE  PlacedInv' /\ \A j \in Job : j \in chan'[root].running <=> Busy(j)
  <1>1. \A c \in Channel, j \in Job : ~InPlace(chan[c], j)
    BY DEF PlacedInv, Placed, JobPlaced
  <1>2. chan' \in PlaceMap
    BY DEF LoadJobs, PlaceMap, Place, PlacedInv
  <1>3. \A c \in Channel, j \in Job :
           LET st == row[j].state
               own == Data(j).channel IN
           /\ j \in chan'[c].queue <=> st = "pending" /\ own = c /\ row[j].eta = 0
           /\ j \in chan'[c].eta <=> st = "pending" /\ own = c /\ row[j].eta # 0
           /\ j \in chan'[c].running <=> st \in {"enqueued", "started"} /\ c \in Up[own]
           /\ j \in chan'[c].failed <=> st = "failed" /\ own = c
    BY <1>1 DEF LoadJobs, NotDone, InPlace
  <1>4. \A j \in Job : job'[j] = IF row[j].state \in NotDone THEN Data(j) ELSE NoJob
    BY DEF LoadJobs
  <1>5. job' \in JobMap
    BY DataType DEF LoadJobs, JobMap
  <1>6. ASSUME NEW j \in Job
        PROVE  JobPlaced(chan', job', j)
    <2>1. Data(j) \in ChannelJob
      BY DataType
    <2> DEFINE own == Data(j).channel
    <2>2. /\ own \in Channel /\ own \in Up[own] /\ Up[own] \subseteq Channel
          /\ \A d \in Up[own] : own \in Up[d] => d = own
      BY <2>1, UpFacts DEF ChannelJob
    <2>3. \A c \in Channel : Up[c] \subseteq Channel
      BY UpFacts
    <2>4. \A c \in Channel : InPlace(chan'[c], j) => job'[j] = Data(j) /\ c \in Up[own]
      BY <1>3, <1>4, <2>2 DEF InPlace, NotDone
    <2>5. \A c \in Channel : OneSet(chan'[c], j)
      BY <1>3 DEF OneSet, InQueue
    <2>6. \A c \in Channel : InQueue(chan'[c], j) \/ j \in chan'[c].failed
                             => \A a \in Channel \ {c} : ~InPlace(chan'[a], j)
      BY <1>3 DEF InPlace, InQueue
    <2>7. \A c \in Channel : InPlace(chan'[c], j) => \A d \in Up[own] :
                                c \in Up[d] /\ c # d => j \in chan'[d].running
      BY <1>3, <2>2 DEF InPlace
    <2> HIDE DEF own
    <2>8. Data(j) # NoJob
      BY <2>1, NoJobAssumption
    <2> QED BY <2>3, <2>4, <2>5, <2>6, <2>7, <2>8 DEF JobPlaced, own
  <1>7. \A j \in Job : j \in chan'[root].running <=> Busy(j)
    <2>1. \A j \in Job : Data(j).channel \in Channel
      BY DataType DEF ChannelJob
    <2> QED BY <1>3, <2>1, TreeAssumption DEF Busy
  <1> QED BY <1>2, <1>5, <1>6, <1>7 DEF PlacedInv, Placed

\* A notification in the root channel: other jobs keep their slots, a running
\* one whose row is busy keeps its slot, one whose row is not takes none.
LEMMA NotifyRoot ==
    ASSUME PlacedInv, NEW j \in Job, NEW r \in ChannelJob, NEW st \in State,
           Notify(j, r, st)
    PROVE  /\ \A i \in Job \ {j} : i \in chan'[root].running <=> i \in chan[root].running
           /\ j \in chan[root].running /\ st \in {"enqueued", "started"}
                => j \in chan'[root].running
           /\ st \notin {"enqueued", "started"} /\ j \in chan'[root].running
                => j \in chan[root].running
  <1> USE DEF PlacedInv
  <1> DEFINE moved == job[j] # NoJob /\ job[j] # r
             base == IF moved THEN RemoveFrom(chan, j, job[j].channel) ELSE chan
  <1>r. root \in Channel /\ r.channel \in Channel /\ root \in Up[r.channel]
    BY TreeAssumption DEF ChannelJob
  <1>1. /\ base \in PlaceMap
        /\ moved => \A c \in Channel : ~InPlace(base[c], j)
        /\ ~moved => base = chan
    BY RemovePlaced
  <1>2. /\ \A i \in Job \ {j} : i \in base[root].running <=> i \in chan[root].running
        /\ j \in base[root].running => j \in chan[root].running
    <2>1. CASE moved
      <3>1. job[j].channel \in Channel
        BY <2>1 DEF JobMap, ChannelJob
      <3>2. base[root] = IF root \in Up[job[j].channel] THEN Without(chan[root], {j})
                                                        ELSE chan[root]
        BY <2>1, <1>r DEF RemoveFrom
      <3>3. chan[root] \in Place
        BY <1>r DEF PlaceMap
      <3> QED BY <3>2, <3>3, WithoutFacts
    <2>2. CASE ~moved
      BY <2>2
    <2> QED BY <2>1, <2>2
  <1>b. base[root] \in Place /\ base[r.channel] \in Place
    BY <1>1, <1>r DEF PlaceMap
  <1> HIDE DEF base
  <1>p. LET p == RemoveFrom(base, j, r.channel) IN
        /\ p \in PlaceMap
        /\ p[root].running = base[root].running \ {j}
        /\ p[r.channel] = Without(base[r.channel], {j})
    <2>1. r.channel \in Up[r.channel]
      BY <1>r, UpFacts
    <2> QED BY <1>1, <1>r, <1>b, <2>1, RemoveFromFacts, WithoutFacts
  <1> DEFINE p == RemoveFrom(base, j, r.channel)
  <1>q. p \in PlaceMap /\ p[root].running = base[root].running \ {j}
    BY <1>p
  <1>3. CASE st \in {"none", "done"}
    <2>1. chan' = p
      BY <1>3 DEF Notify, Notified, SetDone, base
    <2> QED BY <2>1, <1>3, <1>q, <1>2
  <1>4. CASE st = "pending"
    <2>1. chan' = SetPending(base, j, r.channel, r.eta)
      BY <1>4 DEF Notify, Notified, base
    <2>2. CASE InQueue(base[r.channel], j)
      BY <2>1, <2>2, <1>4, <1>2 DEF SetPending
    <2>3. CASE ~InQueue(base[r.channel], j)
      <3>1. chan' = [p EXCEPT ![r.channel] = Enqueue(p[r.channel], j, r.eta)]
        BY <2>1, <2>3 DEF SetPending
      <3> HIDE DEF p
      <3>2. p[r.channel] \in Place /\ r.eta \in Nat
        BY <1>q, <1>r DEF PlaceMap, ChannelJob
      <3>3. \A i : i \in Enqueue(p[r.channel], j, r.eta).running <=> i \in p[r.channel].running
        BY <3>2, EnqueueFacts
      <3>4. \A i : i \in chan'[root].running <=> i \in p[root].running
        BY <3>1, <3>3, <1>q, <1>r DEF PlaceMap
      <3> QED BY <3>4, <1>q, <1>4, <1>2
    <2> QED BY <2>2, <2>3
  <1>5. CASE st \in {"enqueued", "started"}
    <2>1. chan' = SetRunning(base, j, r.channel)
      BY <1>5 DEF Notify, Notified, base
    <2>2. chan'[root] = IF root \in Climbed(base, j, r.channel)
                        THEN [Without(base[root], {j}) EXCEPT !.running = @ \cup {j}]
                        ELSE base[root]
      BY <2>1, <1>r DEF SetRunning
    <2>3. moved => root \in Climbed(base, j, r.channel)
      BY <1>1, <1>r, UpFacts DEF Climbed, InPlace
    <2>4. \A i : i \in [Without(base[root], {j}) EXCEPT !.running = @ \cup {j}].running
                 <=> i \in base[root].running \/ i = j
      BY <1>b DEF Without, Place
    <2>5. \A i \in Job \ {j} : i \in chan'[root].running <=> i \in base[root].running
      BY <2>2, <2>4
    <2>6. j \in chan[root].running => j \in chan'[root].running
      BY <2>2, <2>3, <2>4, <1>1
    <2> QED BY <2>5, <2>6, <1>2, <1>5
  <1>6. CASE st = "failed"
    <2>1. chan' = SetFailed(base, j, r.channel)
      BY <1>6 DEF Notify, Notified, base
    <2>2. CASE j \in base[r.channel].failed
      BY <2>1, <2>2, <1>6, <1>2 DEF SetFailed
    <2>3. CASE j \notin base[r.channel].failed
      <3>1. chan' = [p EXCEPT ![r.channel] = [p[r.channel] EXCEPT
                                !.failed = p[r.channel].failed \cup {j}]]
        BY <2>1, <2>3 DEF SetFailed
      <3> HIDE DEF p
      <3>2. p[r.channel] \in Place
        BY <1>q, <1>r DEF PlaceMap
      <3>4. chan'[root].running = p[root].running
        BY <3>1, <3>2, <1>q, <1>r DEF PlaceMap, Place
      <3> QED BY <3>4, <1>q, <1>6, <1>2
    <2> QED BY <2>2, <2>3
  <1> QED BY <1>3, <1>4, <1>5, <1>6 DEF State

-----------------------------------------------------------------------------
(* The steps of the runner.                                                *)

QueueSame == UNCHANGED <<row, req, faults>> /\ inbox' \in [Job -> 0 .. MaxCopies]

\* A step that leaves the table and the requests alone.
LEMMA QueueSameFacts ==
    ASSUME QueueTypes, QueueSame
    PROVE  QueueTypes' /\ NoNewBusy /\ FewerExecutors /\ Kept
           /\ \A j \in Job : Busy(j)' <=> Busy(j)
  BY DEF QueueSame, QueueTypes, NoNewBusy, Busy, FewerExecutors, Performs, Kept

RunnerStep == RunnerInv' /\ RootStep /\ QueueTypes' /\ FewerExecutors /\ Kept

\* The runner starts to listen, then loads the table.
LEMMA StartingStep ==
    ASSUME QueueTypes, RunnerInv, Listen \/ LoadJobs
    PROVE  RunnerStep
  <1>1. CASE Listen
    <2>1. QueueSame /\ UNCHANGED cvars /\ rpc' = "listening" /\ rpc = "down"
      BY <1>1, JobQueueAssumption DEF Listen, QueueSame
    <2>2. RunnerInv'
      BY <2>1 DEF RunnerInv, PlacedInv, Placed, JobPlaced, Unloaded, BusyRuns, Taken,
                  Mirroring, cvars
    <2>3. RootStep
      BY <2>1, QueueSameFacts DEF RootStep, Mirroring
    <2> QED BY <2>1, <2>2, <2>3, QueueSameFacts DEF RunnerStep
  <1>2. CASE LoadJobs
    <2>1. /\ UNCHANGED <<row, req, faults, inbox>> /\ rpc' = "notify" /\ rpc = "listening"
      BY <1>2 DEF LoadJobs
    <2>q. QueueSame
      BY <2>1 DEF QueueSame, QueueTypes
    <2>2. PlacedInv' /\ \A j \in Job : j \in chan'[root].running <=> Busy(j)
      BY <1>2, <2>1, LoadPlaced DEF RunnerInv, Unloaded, Mirroring
    <2>3. RunnerInv'
      BY <2>1, <2>2 DEF RunnerInv, Unloaded, BusyRuns, Taken, Mirroring, Busy
    <2>4. RootStep
      BY <2>1, <2>2 DEF RootStep, Mirroring
    <2> QED BY <2>3, <2>4, <2>q, QueueSameFacts DEF RunnerStep
  <1> QED BY <1>1, <1>2

\* A notification.
LEMMA ProcessStep ==
    ASSUME QueueTypes, RunnerInv, NEW j \in Job, ProcessNotification(j)
    PROVE  RunnerStep
  <1>1. /\ UNCHANGED <<row, rpc, req, faults, yielded>> /\ rpc = "notify"
        /\ inbox' = [inbox EXCEPT ![j] = inbox[j] - 1] /\ inbox[j] > 0
        /\ IF Exists(j) THEN Notify(j, Data(j), row[j].state) ELSE RemoveJob(j)
    BY DEF ProcessNotification, visitVars
  <1>q. QueueSame
    BY <1>1, JobQueueAssumption DEF QueueSame, QueueTypes
  <1>s. row[j].state \in RowState
    BY DEF QueueTypes, Row
  <1>2. /\ PlacedInv'
        /\ \A i \in Job \ {j} : i \in chan'[root].running <=> i \in chan[root].running
        /\ Busy(j) /\ j \in chan[root].running => j \in chan'[root].running
        /\ ~Busy(j) /\ j \in chan'[root].running => j \in chan[root].running
    <2>1. CASE Exists(j)
      <3>1. row[j].state \in State /\ Data(j) \in ChannelJob
        BY <2>1, <1>s, DataType DEF Exists, RowState
      <3>2. Notify(j, Data(j), row[j].state)
        BY <2>1, <1>1
      <3> QED BY <3>1, <3>2, NotifyPlaced, NotifyRoot DEF RunnerInv, PlacedInv, Busy
    <2>2. CASE ~Exists(j)
      <3>1. RemoveJob(j)
        BY <2>2, <1>1
      <3>2. PlacedInv'
        BY <3>1, RemoveJobPlaced DEF RunnerInv, PlacedInv
      <3>3. \A i \in Job : i \in chan'[root].running <=>
               i \in chan[root].running /\ (i # j \/ job[j] = NoJob \/ root \notin Up[job[j].channel])
        <4>1. root \in Channel /\ chan[root] \in Place
          BY TreeAssumption DEF RunnerInv, PlacedInv, PlaceMap
        <4>2. job[j] # NoJob => chan'[root] = IF root \in Up[job[j].channel]
                                  THEN Without(chan[root], {j}) ELSE chan[root]
          BY <3>1, <4>1 DEF RemoveJob, RemoveFrom
        <4>3. job[j] = NoJob => chan' = chan
          BY <3>1 DEF RemoveJob
        <4> QED BY <4>1, <4>2, <4>3, WithoutFacts
      <3>4. ~Busy(j)
        BY <2>2 DEF Busy, Exists
      <3> QED BY <3>2, <3>3, <3>4
    <2> QED BY <2>1, <2>2
  <1>3. \A i \in Job : Busy(i)' <=> Busy(i)
    BY <1>q, QueueSameFacts
  <1>4. RunnerInv'
    BY <1>1, <1>2, <1>3 DEF RunnerInv, Unloaded, BusyRuns, Taken, Mirroring
  <1>5. \A i \in Job : i \in chan'[root].running => i \in chan[root].running
    BY <1>1, <1>2 DEF RunnerInv, BusyRuns, Mirroring
  <1>6. chan'[root].running \subseteq Job
    BY <1>2, TreeAssumption DEF PlacedInv, PlaceMap, Place
  <1>7. RootStep
    BY <1>1, <1>5, <1>6 DEF RootStep, Mirroring
  <1> QED BY <1>4, <1>7, <1>q, QueueSameFacts DEF RunnerStep

\* The generator moves jobs between channels, and none into the root's slots.
LEMMA VisitStep ==
    ASSUME QueueTypes, RunnerInv, RunJobs \/ VisitChannels \/ WaitNotification
    PROVE  RunnerStep
  <1>1. QueueSame /\ rpc \in {"notify", "run"} /\ rpc' \in {"notify", "run"}
    BY DEF RunJobs, VisitChannels, WaitNotification, QueueSame, QueueTypes
  <1>r. root \in Channel
    BY TreeAssumption
  <1>2. PlacedInv' /\ chan'[root].running = chan[root].running
    <2>1. CASE UNCHANGED <<chan, job>>
      BY <2>1 DEF RunnerInv, PlacedInv, Placed, JobPlaced
    <2>2. ASSUME NEW c \in Channel, LeaveChannel(c)
          PROVE  PlacedInv' /\ chan'[root].running = chan[root].running
      <3>1. PlacedInv'
        BY <2>2, LeaveChannelPlaced DEF RunnerInv, PlacedInv
      <3>2. chan[c].running \cup {} = chan[c].running /\ chan[c] \in Place
        BY DEF RunnerInv, PlacedInv, PlaceMap
      <3>3. chan'[root].running = chan[root].running
        BY <2>2, <3>2, <1>r DEF LeaveChannel, AfterPop, RunnerInv, PlacedInv, PlaceMap, Place
      <3> QED BY <3>1, <3>3
    <2>3. ASSUME NEW c \in Channel, NEW j \in Job, YieldToParent(c, j)
          PROVE  PlacedInv' /\ chan'[root].running = chan[root].running
      <3>1. PlacedInv'
        BY <2>3, YieldToParentPlaced DEF RunnerInv, PlacedInv
      <3>2. c # root /\ Parent[c] \in Channel /\ Parent[c] # c
        BY <2>3, ParentFacts DEF YieldToParent
      <3>3. chan'[root] = chan[root] \/ \E e : chan'[root] = Enqueue(chan[root], j, e)
        BY <2>3, <3>2, <1>r DEF YieldToParent, RunnerInv, PlacedInv, PlaceMap
      <3>4. chan[root] \in Place
        BY <1>r DEF RunnerInv, PlacedInv, PlaceMap
      <3>5. \A e : Enqueue(chan[root], j, e).running = chan[root].running
        BY <3>4 DEF Enqueue, Place
      <3> QED BY <3>1, <3>3, <3>5
    <2>4. ASSUME NEW c \in Channel, EnterChannel(c)
          PROVE  UNCHANGED <<chan, job>>
      BY <2>4 DEF EnterChannel
    <2>5. RunJobs \/ WaitNotification => UNCHANGED <<chan, job>>
      BY DEF RunJobs, StartVisit, WaitNotification, cvars
    <2> QED BY <2>1, <2>2, <2>3, <2>4, <2>5 DEF VisitChannels
  <1>3. \A i \in Job : Busy(i)' <=> Busy(i)
    BY <1>1, QueueSameFacts
  <1>4. RunnerInv'
    BY <1>1, <1>2, <1>3 DEF RunnerInv, Unloaded, BusyRuns, Taken, Mirroring
  <1>5. RootStep
    BY <1>1, <1>2 DEF RootStep, Mirroring
  <1> QED BY <1>1, <1>4, <1>5, QueueSameFacts DEF RunnerStep

\* The runner takes a job: it waited in the root channel, so it did not run
\* there, so its row is not busy.
LEMMA TakeStep == ASSUME QueueTypes, RunnerInv, TakeJob PROVE RunnerStep
  <1>1. PICK j \in Job : YieldToRunner(j)
    BY DEF TakeJob
  <1>2. QueueSame /\ rpc = "run" /\ rpc' = "enqueue" /\ yielded' = j
    BY <1>1 DEF TakeJob, QueueSame, QueueTypes, YieldToRunner
  <1>3. PlacedInv'
    BY <1>1, YieldToRunnerPlaced DEF RunnerInv, PlacedInv
  <1>r. root \in Channel
    BY TreeAssumption
  <1>4. {j} \in SUBSET Ready(root)
    BY <1>1 DEF YieldToRunner, Poppable, FirstReady
  <1>5. /\ \A i : i \in chan'[root].running <=> i \in chan[root].running \/ i = j
        /\ InQueue(chan[root], j)
    <2>1. chan'[root] = AfterPop(root, {j})
      BY <1>1, <1>r DEF YieldToRunner, RunnerInv, PlacedInv, PlaceMap
    <2> QED BY <2>1, <1>4, <1>r, AfterPopFacts DEF RunnerInv, PlacedInv
  <1>6. j \notin chan[root].running
    BY <1>5, <1>r DEF RunnerInv, PlacedInv, Placed, JobPlaced, OneSet
  <1>7. \A i \in Job : Busy(i)' <=> Busy(i)
    BY <1>2, QueueSameFacts
  <1>8. ~Busy(j)
    BY <1>2, <1>6 DEF RunnerInv, BusyRuns, Mirroring
  <1>9. yielded' \in Job /\ ~Busy(yielded)' /\ (yielded \in chan[root].running)'
    BY <1>2, <1>5, <1>8 DEF QueueSame, Busy
  <1>10. RunnerInv'
    BY <1>2, <1>3, <1>5, <1>7, <1>9 DEF RunnerInv, Unloaded, BusyRuns, Taken, Mirroring
  <1>11. RootStep
    <2>1. HasCapacity(root)
      BY <1>1 DEF YieldToRunner
    <2>2. chan'[root].running = chan[root].running \cup {j}
      BY <1>5
    <2> QED BY <1>2, <2>1, <2>2 DEF RootStep, Mirroring
  <1> QED BY <1>2, <1>10, <1>11, QueueSameFacts DEF RunnerStep

\* The runner marks the job: whatever became of the row since it was taken, it
\* is not started.
LEMMA MarkStep == ASSUME QueueTypes, RunnerInv, SetJobEnqueued PROVE RunnerStep
  <1>1. /\ rpc = "enqueue" /\ rpc' = "http" /\ UNCHANGED <<cvars, faults>>
        /\ yielded \in Job /\ ~Busy(yielded) /\ yielded \in chan[root].running
    BY DEF SetJobEnqueued, RunnerInv, Taken
  <1>2. PICK j \in Job : j = yielded
    BY <1>1
  <1>3. /\ QueueTypes' /\ SameExecutors
        /\ \A i \in Job \ {j} : row'[i] = row[i]
        /\ row[j].state = "deleted" => row'[j].state = "deleted"
    <2>1. CASE Exists(j)
      <3> DEFINE new == [row[j] EXCEPT !.state = "enqueued"]
      <3>1. row[j] \in Row /\ "enqueued" \in RowState
        BY DEF QueueTypes, RowState, State
      <3>2. new \in Row
        BY <3>1, RowTypes
      <3>3. Write(j, new)
        BY <2>1, <1>2 DEF SetJobEnqueued
      <3> HIDE DEF new
      <3> QED BY <3>2, <3>3, <1>1, <2>1, WriteFacts DEF QueueTypes, Exists
    <2>2. CASE ~Exists(j)
      BY <2>2, <1>1, <1>2 DEF SetJobEnqueued, QueueTypes, SameExecutors, Performs
    <2> QED BY <2>1, <2>2
  <1>4. \A i \in Job : Busy(i)' => Busy(i) \/ i = j
    BY <1>3 DEF Busy
  <1>5. PlacedInv' /\ UNCHANGED <<chan, job, yielded>>
    BY <1>1 DEF RunnerInv, PlacedInv, Placed, JobPlaced, cvars
  <1>6. RunnerInv'
    BY <1>1, <1>2, <1>4, <1>5 DEF RunnerInv, Unloaded, BusyRuns, Taken, Mirroring
  <1>7. RootStep
    BY <1>1, <1>5 DEF RootStep, Mirroring
  <1>8. Kept
    BY <1>1, <1>2, <1>3 DEF Kept, Gone, Busy
  <1>9. FewerExecutors
    BY <1>3 DEF FewerExecutors, SameExecutors
  <1> QED BY <1>3, <1>6, <1>7, <1>8, <1>9 DEF RunnerStep

\* The request is sent and the generator resumes.
LEMMA SendStep == ASSUME QueueTypes, RunnerInv, AsyncHttpGet PROVE RunnerStep
  <1>1. /\ rpc = "http" /\ rpc' = "run" /\ UNCHANGED <<row, inbox, faults, chan, job>>
        /\ yielded \in Job
    BY DEF AsyncHttpGet, Resume, RunnerInv, Taken
  <1>2. PICK r \in Request :
          /\ req[r] = FreeSlot
          /\ req' = [req EXCEPT ![r] = [FreeSlot EXCEPT
               !.job = yielded, !.client = "waiting", !.server = "inflight"]]
    BY DEF AsyncHttpGet
  <1> DEFINE s == [FreeSlot EXCEPT !.job = yielded, !.client = "waiting", !.server = "inflight"]
  <1>3. s \in UsedSlot /\ s.server = "inflight"
    BY <1>1 DEF FreeSlot, UsedSlot, Slot, NoRow, Row, RowState, State
  <1> HIDE DEF s
  <1>4. /\ req' \in [Request -> UsedSlot] /\ req'[r] = s
        /\ \A i \in Request \ {r} : req'[i] = req[i]
    BY <1>2, <1>3 DEF QueueTypes, s
  <1>5. QueueTypes' /\ FewerExecutors /\ Kept /\ \A i \in Job : Busy(i)' <=> Busy(i)
    BY <1>1, <1>3, <1>4 DEF QueueTypes, FewerExecutors, Performs, Kept, Busy
  <1>6. RunnerInv'
    BY <1>1, <1>5 DEF RunnerInv, PlacedInv, Placed, JobPlaced, Unloaded, BusyRuns, Taken, Mirroring
  <1>7. RootStep
    BY <1>1 DEF RootStep, Mirroring
  <1> QED BY <1>5, <1>6, <1>7 DEF RunnerStep

\* The runner forgets every job, by close_databases or with its process.
LEMMA FailureStep == ASSUME QueueTypes, RunnerInv, RunnerFailure PROVE RunnerStep
  <1>1. /\ UNCHANGED row /\ rpc' = "down" /\ faults' \in 0 .. MaxFaults
        /\ inbox' \in [Job -> 0 .. MaxCopies]
    BY FailingType, JobQueueAssumption DEF RunnerFailure, RunnerException, RunnerRestart
  <1>2. req' \in [Request -> UsedSlot] /\ FewerExecutors
    <2>1. CASE RunnerException
      BY <2>1 DEF RunnerException, QueueTypes, FewerExecutors, Performs
    <2>2. CASE RunnerRestart
      <3>1. ASSUME NEW r \in Request
            PROVE  /\ req'[r] \in UsedSlot
                   /\ \A j \in Job : Executes(req'[r], j) => Executes(req[r], j)
        <4> DEFINE s == [req[r] EXCEPT !.client = "gone"]
        <4>1. req'[r] = Close(s)
          BY <2>2 DEF RunnerRestart
        <4>2. s \in Slot /\ s.job = req[r].job /\ s.server = req[r].server
          BY DEF QueueTypes, UsedSlot, Slot
        <4>3. CASE req[r].job \in Job
          <5> HIDE DEF s
          <5> QED BY <4>1, <4>2, <4>3, CloseFacts DEF Executes
        <4>4. CASE req[r] = FreeSlot
          <5>1. Close(s) = FreeSlot
            BY <4>4 DEF Close, FreeSlot
          <5> QED BY <5>1, <4>1, FreeSlotFacts
        <4> QED BY <4>3, <4>4 DEF QueueTypes, UsedSlot
      <3>2. req' = [r \in Request |-> req'[r]]
        BY <2>2 DEF RunnerRestart
      <3> QED BY <3>1, <3>2 DEF FewerExecutors, Performs, Executes
    <2> QED BY <2>1, <2>2 DEF RunnerFailure
  <1>3. PlacedInv' /\ \A j \in Job : job'[j] = NoJob
    <2>1. CASE RunnerException
      BY <2>1, RemoveDbPlaced DEF RunnerException, RunnerInv, PlacedInv, RemoveDb
    <2>2. CASE RunnerRestart
      <3>1. /\ chan' = [c \in Channel |-> EmptyPlace]
            /\ job' = [j \in Job |-> NoJob]
        BY <2>2 DEF RunnerRestart
      <3> QED BY <3>1 DEF PlacedInv, EmptyPlace, PlaceMap, Place, JobMap,
                          Placed, JobPlaced, InPlace, InQueue, OneSet
    <2> QED BY <2>1, <2>2 DEF RunnerFailure
  <1>4. QueueTypes' /\ NoNewBusy /\ Kept
    BY <1>1, <1>2 DEF QueueTypes, NoNewBusy, Busy, Kept
  <1>5. RunnerInv'
    BY <1>1, <1>3 DEF RunnerInv, Unloaded, BusyRuns, Taken, Mirroring
  <1>6. RootStep
    BY <1>1, <1>4 DEF RootStep, Mirroring
  <1> QED BY <1>2, <1>4, <1>5, <1>6 DEF RunnerStep

\* What leaves the runner alone and makes no row busy keeps its invariant.
LEMMA OutsideStep ==
    ASSUME RunnerInv, UNCHANGED <<chan, job, rpc, yielded>>, NoNewBusy
    PROVE  RunnerInv' /\ RootStep
  <1>1. RunnerInv'
    BY DEF RunnerInv, PlacedInv, Placed, JobPlaced, Unloaded, BusyRuns, Taken, Mirroring,
           NoNewBusy
  <1>2. RootStep
    BY DEF RootStep, Mirroring
  <1> QED BY <1>1, <1>2

\* The runner's own variables keep their types.
LEMMA VisitTypesStep ==
    ASSUME VisitTypes, Runner \/ RunnerFailure \/ TimePasses
    PROVE  VisitTypes'
  <1>t. Throttle \in [Channel -> Nat] /\ root \in Channel
    BY TreeAssumption, ConfigAssumption
  <1> USE DEF VisitTypes, RunnerPC
  <1>1. CASE Listen \/ SetJobEnqueued \/ WaitNotification
    BY <1>1 DEF Listen, SetJobEnqueued, WaitNotification, cvars
  <1>2. CASE LoadJobs
    BY <1>2 DEF LoadJobs, visitVars
  <1>3. ASSUME NEW j \in Job, ProcessNotification(j)
        PROVE  VisitTypes'
    <2>1. UNCHANGED <<pauseUntil, now, todo, cur, yielded, rpc>>
      BY <1>3 DEF ProcessNotification, Notify, RemoveJob, visitVars
    <2> QED BY <2>1
  <1>4. CASE RunJobs
    BY <1>4 DEF RunJobs, StartVisit
  <1>5. ASSUME NEW c \in Channel, rpc' = rpc,
               EnterChannel(c) \/ LeaveChannel(c) \/ \E j \in Job : YieldToParent(c, j)
        PROVE  VisitTypes'
    <2>1. CASE EnterChannel(c)
      BY <2>1, <1>5 DEF EnterChannel
    <2>2. CASE LeaveChannel(c)
      BY <2>2, <1>5 DEF LeaveChannel
    <2>3. ASSUME NEW j \in Job, YieldToParent(c, j)
          PROVE  VisitTypes'
      <3>1. UNCHANGED <<now, todo, yielded, rpc>> /\ Throttled(c)
        BY <2>3, <1>5 DEF YieldToParent
      <3> QED BY <3>1, <1>t DEF Throttled
    <2> QED BY <1>5, <2>1, <2>2, <2>3
  <1>6. CASE TakeJob
    <2>1. \E j \in Job : yielded' = j /\ UNCHANGED <<pauseUntil, now, todo, cur>>
      BY <1>6 DEF TakeJob, YieldToRunner
    <2> QED BY <2>1, <1>6 DEF TakeJob
  <1>7. CASE AsyncHttpGet
    <2>1. yielded' = NoJob /\ UNCHANGED <<now, todo>> /\ Throttled(root) /\ rpc' = "run"
      BY <1>7 DEF AsyncHttpGet, Resume
    <2> QED BY <2>1, <1>t DEF Throttled
  <1>8. CASE RunnerFailure
    <2>1. /\ todo' = {} /\ cur' = NoChannel /\ yielded' = NoJob /\ now' = now
          /\ rpc' = "down"
          /\ pauseUntil' = pauseUntil \/ pauseUntil' = [c \in Channel |-> 0]
      BY <1>8 DEF RunnerFailure, RunnerException, RunnerRestart, RemoveDb, StopVisit
    <2> QED BY <2>1
  <1>9. CASE TimePasses
    BY <1>9 DEF TimePasses, Tick
  <1> QED BY <1>1, <1>2, <1>3, <1>4, <1>5, <1>6, <1>7, <1>8, <1>9 DEF Runner, VisitChannels

-----------------------------------------------------------------------------
(* The theorems.                                                           *)

JobQueueInv == QueueTypes /\ VisitTypes /\ RunnerInv

\* Before the runner starts the table is empty and nothing is loaded.
LEMMA InitInv == JobQueueInit => JobQueueInv
  <1> SUFFICES ASSUME JobQueueInit PROVE JobQueueInv
    OBVIOUS
  <1> USE DEF JobQueueInit
  <1>0. 0 \in 0 .. MaxCopies /\ 0 \in 0 .. MaxFaults
    BY JobQueueAssumption
  <1>1. QueueTypes
    BY <1>0, RowTypes, FreeSlotFacts DEF QueueTypes
  <1>2. VisitTypes
    BY DEF ChannelsInit, VisitTypes, RunnerPC
  <1>3. PlacedInv
    BY InitPlaced
  <1>4. Unloaded /\ BusyRuns /\ Taken
    BY DEF ChannelsInit, Unloaded, BusyRuns, Taken, Mirroring
  <1> QED BY <1>1, <1>2, <1>3, <1>4 DEF JobQueueInv, RunnerInv

\* Every step keeps the invariant, touches the root's slots as RootStep says and
\* makes at most one request execute a job, whose row was enqueued.
LEMMA StepInv ==
    ASSUME JobQueueInv, JobQueueNext
    PROVE  /\ JobQueueInv' /\ RootStep
           /\ FewerExecutors \/ OneStarts
           /\ Calm => Kept
  <1> USE DEF JobQueueInv
  <1>o. ASSUME UNCHANGED runnerVars, QueueTypes', NoNewBusy
        PROVE  JobQueueInv' /\ RootStep
    <2>1. UNCHANGED <<chan, job, rpc, yielded>> /\ VisitTypes'
      BY <1>o DEF runnerVars, cvars, VisitTypes
    <2> QED BY <2>1, <1>o, OutsideStep
  <1>s. SameExecutors => FewerExecutors
    BY DEF SameExecutors, FewerExecutors
  <1>1. CASE Users
    BY <1>1, <1>o, <1>s, UsersOutside DEF Outside
  <1>2. ASSUME NEW r \in Request, Client(r)
        PROVE  JobQueueInv' /\ RootStep /\ FewerExecutors /\ Kept
    BY <1>2, <1>o, <1>s, ClientOutside DEF Outside
  <1>3. ASSUME NEW r \in Request, Worker(r)
        PROVE  JobQueueInv' /\ RootStep /\ (FewerExecutors \/ OneStarts) /\ Kept
    <2>1. now \in Nat
      BY DEF VisitTypes
    <2> QED BY <1>3, <2>1, <1>o, WorkerOutside
  <1>4. CASE Runner
    <2>1. RunnerStep
      BY <1>4, StartingStep, ProcessStep, VisitStep, TakeStep, MarkStep, SendStep DEF Runner
    <2> QED BY <2>1, <1>4, VisitTypesStep DEF RunnerStep
  <1>5. CASE RunnerFailure
    <2>1. RunnerStep
      BY <1>5, FailureStep
    <2> QED BY <2>1, <1>5, VisitTypesStep DEF RunnerStep
  <1>6. CASE TimePasses
    <2>1. UNCHANGED <<chan, job, yielded, rpc, row, inbox, req, faults>>
      BY <1>6 DEF TimePasses, Tick
    <2>2. QueueTypes' /\ NoNewBusy /\ FewerExecutors /\ Kept
      BY <2>1 DEF QueueTypes, NoNewBusy, Busy, FewerExecutors, Performs, Kept
    <2> QED BY <2>1, <2>2, <1>6, VisitTypesStep, OutsideStep
  <1> QED BY <1>1, <1>2, <1>3, <1>4, <1>5, <1>6 DEF JobQueueNext

\* The invariant depends on the variables of the model only.
LEMMA StutterInv == JobQueueInv /\ UNCHANGED jvars => JobQueueInv'
  BY DEF JobQueueInv, QueueTypes, VisitTypes, RunnerInv, PlacedInv, Placed, JobPlaced,
         Unloaded, BusyRuns, Taken, Mirroring, Busy, jvars, cvars

\* The invariant holds along every behaviour.
LEMMA Invariance == JobQueueSpec => []JobQueueInv
  <1>1. JobQueueInv /\ [JobQueueNext]_jvars => JobQueueInv'
    BY StepInv, StutterInv
  <1> QED BY <1>1, InitInv, PTL DEF JobQueueSpec

\* The types of the whole system.
THEOREM JobQueueTypes == JobQueueSpec => []JobQueueTypeOK
  <1>1. JobQueueInv => JobQueueTypeOK
    BY DEF JobQueueInv, QueueTypes, UsedSlot, VisitTypes, RunnerInv, PlacedInv,
           PlaceMap, JobMap, JobQueueTypeOK, ChannelsTypeOK
  <1> QED BY <1>1, Invariance, PTL

\* No more jobs are enqueued or started in the table than the root channel has
\* capacity, whatever fails, for every tree of channels and number of jobs.
THEOREM RootCapacity == JobQueueSpec => []RootCapacityInTable
  <1> DEFINE Busies == {j \in Job : Busy(j)}
             Full(S) == IsFiniteSet(S) /\ Cardinality(S) <= Capacity[root]
             Bound == Capacity[root] # 0 =>
                        /\ Full(Busies)
                        /\ Mirroring => Full(chan[root].running)
  <1>c. Capacity[root] \in Nat
    BY TreeAssumption, ConfigAssumption
  <1>1. JobQueueInit => Bound
    <2> SUFFICES ASSUME JobQueueInit PROVE Full(Busies) /\ ~Mirroring
      OBVIOUS
    <2>1. Busies = {} /\ ~Mirroring
      BY DEF JobQueueInit, Busy, Mirroring, NoRow
    <2> QED BY <2>1, <1>c, FS_EmptySet
  <1>2. JobQueueInv /\ Bound /\ JobQueueNext => Bound'
    <2> SUFFICES ASSUME JobQueueInv, Bound, JobQueueNext, Capacity[root] # 0
                 PROVE  Full(Busies)' /\ (Mirroring' => Full(chan'[root].running))
      OBVIOUS
    <2>1. JobQueueInv' /\ RootStep
      BY StepInv
    <2>2. ASSUME NEW S, NEW T, Full(T), S \subseteq T
          PROVE  Full(S)
      BY <2>2, <1>c, FS_Subset, FS_CardinalityType
    <2>r. chan'[root].running \subseteq Job
      BY <2>1, TreeAssumption DEF JobQueueInv, RunnerInv, PlacedInv, PlaceMap, Place
    <2>b. Mirroring' => Busies' \subseteq chan'[root].running
      BY <2>1 DEF JobQueueInv, RunnerInv, BusyRuns
    <2>3. CASE ~Mirroring'
      <3>1. Busies' \subseteq Busies
        BY <2>1, <2>3 DEF NoNewBusy, RootStep
      <3> QED BY <2>2, <2>3, <3>1
    <2>4. ASSUME Mirroring', Full(chan'[root].running)
          PROVE  Full(Busies')
      BY <2>2, <2>4, <2>b
    <2>5. CASE Mirroring' /\ Mirroring /\ chan'[root].running \subseteq chan[root].running
      BY <2>2, <2>4, <2>5
    <2>6. CASE /\ Mirroring' /\ Mirroring /\ HasCapacity(root)
               /\ \E j \in Job : chan'[root].running = chan[root].running \cup {j}
      <3>1. PICK j \in Job : chan'[root].running = chan[root].running \cup {j}
        BY <2>6
      <3>2. /\ IsFiniteSet(chan[root].running)
            /\ Cardinality(chan[root].running) \in Nat
            /\ Cardinality(chan[root].running) < Capacity[root]
        BY <2>6, FS_CardinalityType DEF HasCapacity
      <3> DEFINE R == chan[root].running
      <3>3. /\ IsFiniteSet(R \cup {j})
            /\ Cardinality(R \cup {j}) = Cardinality(R) \/ Cardinality(R \cup {j}) = Cardinality(R) + 1
        BY <3>2, FS_AddElement
      <3>4. Full(R \cup {j})
        BY <3>2, <3>3, <1>c
      <3>5. Full(chan'[root].running)
        BY <3>1, <3>4
      <3> QED BY <2>4, <2>6, <3>5
    <2>7. CASE Mirroring' /\ \A j \in Job : j \in chan'[root].running => Busy(j)
      <3>1. chan'[root].running \subseteq Busies
        BY <2>7, <2>r
      <3> QED BY <2>2, <2>4, <2>7, <3>1
    <2> QED BY <2>1, <2>3, <2>5, <2>6, <2>7 DEF RootStep
  <1>3. Bound /\ UNCHANGED jvars => Bound'
    BY DEF jvars, cvars, Busy, Mirroring
  <1>4. Bound => RootCapacityInTable
    BY DEF RootCapacityInTable
  <1> HIDE DEF Bound
  <1> QED BY <1>1, <1>2, <1>3, <1>4, Invariance, PTL DEF JobQueueSpec

-----------------------------------------------------------------------------
(* One executor.                                                           *)

\* A job that is executed is started, or deleted, and executed by one request.
Executor ==
    \A r \in Request, j \in Job : Performs(r, j) =>
        /\ row[j].state \in Gone
        /\ \A i \in Request : Performs(i, j) => i = r

\* An executor is alone after each step: the one that starts found the row
\* enqueued, which no executed job is.
LEMMA ExecutorStep ==
    ASSUME Executor, Kept, FewerExecutors \/ OneStarts
    PROVE  Executor'
  <1> SUFFICES ASSUME NEW r \in Request, NEW j \in Job, Performs(r, j)'
               PROVE  /\ row'[j].state \in Gone
                      /\ \A i \in Request : Performs(i, j)' => i = r
    BY DEF Executor, Gone
  <1>1. CASE FewerExecutors
    <2>1. Performs(r, j) /\ \A i \in Request : Performs(i, j)' => Performs(i, j)
      BY <1>1 DEF FewerExecutors
    <2>2. row[j].state \in Gone /\ \A i \in Request : Performs(i, j) => i = r
      BY <2>1 DEF Executor
    <2> QED BY <2>1, <2>2 DEF Kept
  <1>2. CASE OneStarts
    <2>1. PICK q \in Request, k \in Job :
            /\ row[k].state = "enqueued" /\ row'[k].state = "started"
            /\ \A i \in Request, l \in Job :
                 Performs(i, l)' => Performs(i, l) \/ (i = q /\ l = k)
      BY <1>2 DEF OneStarts
    <2>2. CASE j = k
      <3>1. \A i \in Request : ~Performs(i, j)
        BY <2>1, <2>2 DEF Executor, Gone
      <3> QED BY <2>1, <2>2, <3>1 DEF Gone
    <2>3. CASE j # k
      <3>1. Performs(r, j) /\ \A i \in Request : Performs(i, j)' => Performs(i, j)
        BY <2>1, <2>3
      <3>2. row[j].state \in Gone /\ \A i \in Request : Performs(i, j) => i = r
        BY <3>1 DEF Executor
      <3> QED BY <3>1, <3>2 DEF Kept
    <2> QED BY <2>2, <2>3
  <1> QED BY <1>1, <1>2

\* An executed job has one executor along every behaviour.
LEMMA ExecutorInvariance == ASSUME Calm PROVE JobQueueSpec => []Executor
  <1>1. JobQueueInit => Executor
    BY FreeSlotFacts DEF JobQueueInit, Executor, Performs, Executes
  <1>2. JobQueueInv /\ Executor /\ [JobQueueNext]_jvars => Executor'
    <2>1. CASE UNCHANGED jvars
      BY <2>1 DEF Executor, Performs, jvars
    <2>2. CASE JobQueueNext
      BY <2>2, StepInv, ExecutorStep
    <2> QED BY <2>1, <2>2
  <1> QED BY <1>1, <1>2, Invariance, PTL DEF JobQueueSpec

\* When neither users nor the cron touch started jobs, at most one worker
\* executes a job: whatever fails, however late a request or a notification.
THEOREM SingleExecutor ==
    ASSUME "started" \notin RequeueFrom \cup DoneFrom \cup CronFrom
    PROVE  JobQueueSpec => []OneExecutor
  <1>1. Calm
    BY DEF Calm
  <1>2. Executor => OneExecutor
    BY DEF Executor, OneExecutor
  <1> QED BY <1>1, <1>2, ExecutorInvariance, PTL

\* Under the same condition nobody takes a started job from its worker.
THEOREM StartedStays ==
    ASSUME "started" \notin RequeueFrom \cup DoneFrom \cup CronFrom
    PROVE  JobQueueSpec => StartedLeftByWorkerOnly
  <1>1. JobQueueInv /\ [JobQueueNext]_jvars =>
          [\A j \in Job :
             row[j].state = "started" /\ row'[j].state \notin {"started", "deleted"}
             => \E r \in Request : Performs(r, j) /\ ~Performs(r, j)']_jvars
    BY StepInv DEF Calm, Kept, Gone
  <1> QED BY <1>1, Invariance, PTL DEF JobQueueSpec, StartedLeftByWorkerOnly

-----------------------------------------------------------------------------
(***************************************************************************)
(* The channels show the table once the notifications are processed        *)
(* (MirrorsTable).  Three facts make it inductive: a write that the runner *)
(* is not told of makes no difference to the channels (Told), a ChannelJob *)
(* is in the channel its row names (OwnChannel), and the row of the job in *)
(* the runner's hands is pending or there is a notification on its way     *)
(* (InHand).                                                               *)
(***************************************************************************)

Own(j) == Resolve(ChannelOf[j])

\* What ch shows of j when its row is in state st: MirrorsTable, for one job.
Mirrored(ch, j, st) ==
    /\ st \in {"enqueued", "started"} => \A c \in Up[Own(j)] : j \in ch[c].running
    /\ st = "pending" => /\ \E c \in Up[Own(j)] : InQueue(ch[c], j)
                         /\ j \notin ch[root].running
    /\ st = "failed" => /\ j \in ch[Own(j)].failed
                        /\ \A c \in Channel \ {Own(j)} : ~InPlace(ch[c], j)
    /\ st \in {"none", "done", "deleted"} => \A c \in Channel : ~InPlace(ch[c], j)

OwnChannel == \A j \in Job : job[j] # NoJob => job[j].channel = Own(j)

InHand == /\ rpc = "enqueue" /\ inbox[yielded] = 0 => row[yielded].state = "pending"
          /\ rpc = "http" => inbox[yielded] # 0

AllMirrored == Mirroring => \A j \in Job : inbox[j] = 0 /\ yielded # j
                                           => Mirrored(chan, j, row[j].state)

MirrorInv == OwnChannel /\ InHand /\ AllMirrored

\* A row changes only with a notification, unless the change does not show.
Told == rpc # "down" => \A j \in Job : inbox'[j] = 0 =>
            /\ inbox[j] = 0
            /\ \/ row'[j].state = row[j].state
               \/ {row[j].state, row'[j].state} \subseteq {"none", "done", "deleted"}

-----------------------------------------------------------------------------
(* The writers of the table.                                               *)

\* A write notifies the runner that listens.
LEMMA TouchTold ==
    ASSUME QueueTypes, NEW j \in Job, NEW new, Touch(j, new)
    PROVE  Told /\ (rpc # "down" => inbox'[j] # 0)
  <1> SUFFICES ASSUME rpc # "down"
               PROVE  Told /\ inbox'[j] # 0
    BY DEF Told
  <1>1. Min2(inbox[j] + 1, MaxCopies) # 0
    BY JobQueueAssumption DEF QueueTypes, Min2
  <1>2. /\ inbox' = [inbox EXCEPT ![j] = Min2(inbox[j] + 1, MaxCopies)]
        /\ row' = [row EXCEPT ![j] = new]
    BY DEF Touch, Trigger
  <1>3. inbox'[j] # 0 /\ \A i \in Job \ {j} : inbox'[i] = inbox[i] /\ row'[i] = row[i]
    BY <1>1, <1>2 DEF QueueTypes
  <1> QED BY <1>3 DEF Told

\* Users, crons, client threads and workers; the deletion of a done row is the
\* one change without a notification.
LEMMA OutsideTold ==
    ASSUME QueueTypes, Users \/ \E r \in Request : Client(r) \/ Worker(r)
    PROVE  Told
  <1>u. UNCHANGED <<row, inbox>> => Told
    BY DEF Told
  <1>w. ASSUME NEW j \in Job, NEW new, Write(j, new) \/ Touch(j, new)
        PROVE  Told
    BY <1>w, TouchTold DEF Write
  <1>1. ASSUME NEW j \in Job, Create(j) \/ ButtonDone(j) \/ Requeue(j) \/ CronRequeue(j)
        PROVE  Told
    <2>1. \E new : Write(j, new)
      BY <1>1 DEF Create, ButtonDone, Requeue, CronRequeue
    <2> QED BY <2>1, <1>w
  <1>2. ASSUME NEW j \in Job, Autovacuum(j)
        PROVE  Told
    <2> DEFINE new == [row[j] EXCEPT !.state = "deleted"]
    <2>r. row[j] \in Row /\ "deleted" \in RowState
      BY DEF QueueTypes, RowState
    <2>1. new.state = "deleted"
      BY <2>r, RowTypes
    <2>2. \/ Write(j, new)
          \/ row[j].state = "done" /\ row' = [row EXCEPT ![j] = new] /\ UNCHANGED inbox
      BY <1>2 DEF Autovacuum
    <2> HIDE DEF new
    <2>3. CASE row[j].state = "done" /\ row' = [row EXCEPT ![j] = new] /\ UNCHANGED inbox
      <3>1. row'[j] = new /\ \A i \in Job \ {j} : row'[i] = row[i]
        BY <2>3 DEF QueueTypes
      <3> QED BY <2>1, <2>3, <3>1 DEF Told
    <2> QED BY <2>2, <2>3, <1>w
  <1>3. ASSUME NEW r \in Request, Client(r) \/ Worker(r)
        PROVE  Told
    <2>f. req[r] # FreeSlot
      <3>0. FreeSlot.client = "gone" /\ FreeSlot.server = "gone"
        BY DEF FreeSlot
      <3>1. CASE Client(r)
        <4>1. req[r].client \in {"waiting", "failing"}
          BY <3>1 DEF Client, ClientOk, ClientError, ClientTimeout, SetJobPending
        <4> QED BY <4>1, <3>0
      <3>2. CASE Worker(r)
        <4>1. req[r].server \in {"inflight", "started", "performing"}
          BY <3>2 DEF Worker, Start, Reject, ServeError, Snapshot, JobDone, DoneConflict,
                      RetryPostpone, JobFailed, WorkerCrash
        <4> QED BY <4>1, <3>0
      <3> QED BY <3>1, <3>2, <1>3
    <2>j. req[r].job \in Job
      BY <2>f DEF QueueTypes, UsedSlot
    <2>1. UNCHANGED <<row, inbox>> \/ \E new : Touch(req[r].job, new)
      <3>1. CASE Client(r)
        BY <3>1 DEF Client, ClientOk, ClientError, ClientTimeout, SetJobPending
      <3>2. CASE Worker(r)
        BY <3>2 DEF Worker, Start, Reject, ServeError, Snapshot, JobDone, DoneConflict,
                    RetryPostpone, JobFailed, WorkerCrash, Finish
      <3> QED BY <3>1, <3>2, <1>3
    <2> QED BY <2>1, <2>j, <1>u, <1>w
  <1> QED BY <1>1, <1>2, <1>3 DEF Users

\* What leaves the runner alone and tells it of its writes keeps the mirror.
LEMMA ToldMirrors ==
    ASSUME MirrorInv, Taken, Told, UNCHANGED <<chan, job, rpc, yielded>>
    PROVE  MirrorInv'
  <1>1. OwnChannel'
    BY DEF MirrorInv, OwnChannel, Own
  <1>2. InHand'
    BY DEF MirrorInv, InHand, Told, Taken
  <1>3. ASSUME Mirroring', NEW j \in Job, inbox'[j] = 0, yielded' # j
        PROVE  Mirrored(chan', j, row'[j].state)
    <2>1. /\ inbox[j] = 0
          /\ \/ row'[j].state = row[j].state
             \/ {row[j].state, row'[j].state} \subseteq {"none", "done", "deleted"}
      BY <1>3 DEF Told, Mirroring
    <2>2. Mirrored(chan, j, row[j].state)
      BY <1>3, <2>1 DEF MirrorInv, AllMirrored, Mirroring
    <2>3. \A st, st2 : /\ Mirrored(chan, j, st)
                       /\ st = st2 \/ {st, st2} \subseteq {"none", "done", "deleted"}
                       => Mirrored(chan, j, st2)
      BY DEF Mirrored
    <2> QED BY <2>1, <2>2, <2>3
  <1>4. AllMirrored'
    BY <1>3 DEF AllMirrored
  <1> QED BY <1>1, <1>2, <1>4 DEF MirrorInv

-----------------------------------------------------------------------------
(* A notification.                                                         *)

SameView(p, q, j) == /\ InQueue(p, j) <=> InQueue(q, j)
                     /\ j \in p.running <=> j \in q.running
                     /\ j \in p.failed <=> j \in q.failed

\* A job that sits in the same sets is mirrored as before.
LEMMA SameMirrored ==
    ASSUME NEW ch, NEW new, NEW j \in Job, NEW st,
           \A c \in Channel : SameView(ch[c], new[c], j), Mirrored(ch, j, st)
    PROVE  Mirrored(new, j, st)
  <1>1. root \in Channel /\ Own(j) \in Channel /\ Up[Own(j)] \subseteq Channel
    BY TreeAssumption, UpFacts, ResolveType DEF Own
  <1>2. \A c \in Channel : InPlace(ch[c], j) <=> InPlace(new[c], j)
    BY DEF SameView, InPlace, InQueue
  <1> QED BY <1>1, <1>2 DEF Mirrored, SameView

\* The setters of one job leave the others where they are.
LEMMA SettersOthers ==
    ASSUME NEW ch \in PlaceMap, NEW j \in Job, NEW c \in Channel, NEW e \in Nat,
           NEW i \in Job \ {j}
    PROVE  \A d \in Channel :
             /\ SameIn(ch[d], RemoveFrom(ch, j, c)[d], i)
             /\ SameIn(ch[d], SetPending(ch, j, c, e)[d], i)
             /\ SameIn(ch[d], SetRunning(ch, j, c)[d], i)
             /\ SameIn(ch[d], SetFailed(ch, j, c)[d], i)
  <1> DEFINE base == RemoveFrom(ch, j, c)
  <1>1. base \in PlaceMap
    BY RemoveFromFacts
  <1>2. \A d \in Channel : SameIn(ch[d], base[d], i)
    BY DEF RemoveFrom, Without, SameIn, PlaceMap, Place
  <1>3. \A d \in Channel : SameIn(ch[d], SetRunning(ch, j, c)[d], i)
    BY DEF SetRunning, Without, SameIn, PlaceMap, Place
  <1>4. \A d \in Channel : SameIn(ch[d], SetPending(ch, j, c, e)[d], i)
    <2>1. CASE InQueue(ch[c], j)
      BY <2>1 DEF SetPending, SameIn
    <2>2. CASE ~InQueue(ch[c], j)
      <3>1. SetPending(ch, j, c, e) = [base EXCEPT ![c] = Enqueue(base[c], j, e)]
        BY <2>2 DEF SetPending
      <3> HIDE DEF base
      <3>2. SameIn(base[c], Enqueue(base[c], j, e), i)
        BY <1>1, EnqueueFacts DEF SameIn, PlaceMap
      <3>3. \A d \in Channel : SetPending(ch, j, c, e)[d] =
                                 IF d = c THEN Enqueue(base[c], j, e) ELSE base[d]
        BY <3>1, <1>1 DEF PlaceMap
      <3> QED BY <3>2, <3>3, <1>2 DEF SameIn
    <2> QED BY <2>1, <2>2
  <1>5. \A d \in Channel : SameIn(ch[d], SetFailed(ch, j, c)[d], i)
    <2>1. CASE j \in ch[c].failed
      BY <2>1 DEF SetFailed, SameIn
    <2>2. CASE j \notin ch[c].failed
      <3>1. SetFailed(ch, j, c) = [base EXCEPT ![c] = [base[c] EXCEPT
                                     !.failed = base[c].failed \cup {j}]]
        BY <2>2 DEF SetFailed
      <3> HIDE DEF base
      <3>2. SameIn(base[c], [base[c] EXCEPT !.failed = base[c].failed \cup {j}], i)
        BY <1>1 DEF SameIn, PlaceMap, Place
      <3>3. \A d \in Channel : SetFailed(ch, j, c)[d] =
              IF d = c THEN [base[c] EXCEPT !.failed = base[c].failed \cup {j}] ELSE base[d]
        BY <3>1, <1>1 DEF PlaceMap
      <3> QED BY <3>2, <3>3, <1>2 DEF SameIn
    <2> QED BY <2>1, <2>2
  <1> QED BY <1>2, <1>3, <1>4, <1>5

\* Each setter, called on the channel of a placed job, makes the channels show
\* the state it stands for.
LEMMA SettersMirror ==
    ASSUME NEW ch \in PlaceMap, NEW jb \in JobMap, Placed(ch, jb), NEW j \in Job,
           jb[j] # NoJob, jb[j].channel = Own(j), NEW e \in Nat
    PROVE  /\ Mirrored(SetDone(ch, j, Own(j)), j, "done")
           /\ Mirrored(SetPending(ch, j, Own(j), e), j, "pending")
           /\ Mirrored(SetFailed(ch, j, Own(j)), j, "failed")
           /\ (j \in ch[root].running \/ \A c \in Channel : ~InPlace(ch[c], j))
                => \A st \in {"enqueued", "started"} : Mirrored(SetRunning(ch, j, Own(j)), j, st)
  <1> DEFINE own == Own(j)
             base == RemoveFrom(ch, j, own)
  <1>1. /\ own \in Channel /\ own \in Up[own] /\ Up[own] \subseteq Channel
        /\ root \in Channel /\ root \in Up[own]
    BY UpFacts, TreeAssumption, ResolveType DEF Own
  <1> HIDE DEF own
  <1>2. base \in PlaceMap /\ \A c \in Channel : ~InPlace(base[c], j)
    BY RemovePlaced DEF own
  <1>p. \A c \in Channel :
          /\ InPlace(ch[c], j) => c \in Up[own]
          /\ InQueue(ch[c], j) \/ j \in ch[c].failed => \A a \in Up[c] \ {c} : ~InPlace(ch[a], j)
          /\ OneSet(ch[c], j)
          /\ InPlace(ch[c], j) => \A d \in Up[own] : c \in Up[d] /\ c # d => j \in ch[d].running
    BY DEF Placed, JobPlaced, own
  <1>3. Mirrored(SetDone(ch, j, own), j, "done")
    BY <1>2 DEF SetDone, Mirrored
  <1>4. Mirrored(SetPending(ch, j, own, e), j, "pending")
    <2>1. CASE InQueue(ch[own], j)
      <3>1. SetPending(ch, j, own, e) = ch
        BY <2>1 DEF SetPending
      <3>2. j \notin ch[root].running
        BY <1>1, <1>p, <2>1 DEF OneSet, InPlace
      <3> QED BY <2>1, <3>1, <3>2, <1>1 DEF Mirrored, own
    <2>2. CASE ~InQueue(ch[own], j)
      <3> DEFINE new == SetPending(ch, j, own, e)
      <3>1. new = [base EXCEPT ![own] = Enqueue(base[own], j, e)]
        BY <2>2 DEF SetPending
      <3> HIDE DEF new, base
      <3>2. \A d \in Channel : new[d] = IF d = own THEN Enqueue(base[own], j, e) ELSE base[d]
        BY <3>1, <1>2 DEF PlaceMap
      <3>3. /\ InQueue(Enqueue(base[own], j, e), j)
            /\ j \notin Enqueue(base[own], j, e).running
        BY <1>1, <1>2, EnqueueFacts DEF InQueue, InPlace, PlaceMap
      <3>4. InQueue(new[own], j) /\ j \notin new[root].running
        BY <1>1, <1>2, <3>2, <3>3 DEF InPlace
      <3> QED BY <3>4, <1>1 DEF Mirrored, own, new
    <2> QED BY <2>1, <2>2
  <1>5. Mirrored(SetFailed(ch, j, own), j, "failed")
    <2>1. CASE j \in ch[own].failed
      <3>1. SetFailed(ch, j, own) = ch
        BY <2>1 DEF SetFailed
      <3>2. \A c \in Channel \ {own} : ~InPlace(ch[c], j)
        BY <1>1, <1>p, <2>1
      <3> QED BY <2>1, <3>1, <3>2 DEF Mirrored, own
    <2>2. CASE j \notin ch[own].failed
      <3> DEFINE new == SetFailed(ch, j, own)
      <3>1. new = [base EXCEPT ![own] = [base[own] EXCEPT !.failed = base[own].failed \cup {j}]]
        BY <2>2 DEF SetFailed
      <3> HIDE DEF new, base
      <3>2. \A d \in Channel : new[d] = IF d = own
               THEN [base[own] EXCEPT !.failed = base[own].failed \cup {j}] ELSE base[d]
        BY <3>1, <1>2 DEF PlaceMap
      <3>3. j \in [base[own] EXCEPT !.failed = base[own].failed \cup {j}].failed
        BY <1>1, <1>2 DEF PlaceMap, Place
      <3>4. j \in new[own].failed /\ \A c \in Channel \ {own} : ~InPlace(new[c], j)
        BY <1>1, <1>2, <3>2, <3>3
      <3> QED BY <3>4 DEF Mirrored, own, new
    <2> QED BY <2>1, <2>2
  <1>6. ASSUME j \in ch[root].running \/ \A c \in Channel : ~InPlace(ch[c], j),
               NEW st \in {"enqueued", "started"}
        PROVE  Mirrored(SetRunning(ch, j, own), j, st)
    <2>1. ASSUME NEW c \in Up[own]
          PROVE  j \in SetRunning(ch, j, own)[c].running
      <3>1. c \in Channel /\ ch[c] \in Place
        BY <1>1 DEF PlaceMap
      <3>2. SetRunning(ch, j, own)[c] =
              IF c \in Climbed(ch, j, own)
              THEN [Without(ch[c], {j}) EXCEPT !.running = @ \cup {j}] ELSE ch[c]
        BY <3>1 DEF SetRunning
      <3>3. j \in [Without(ch[c], {j}) EXCEPT !.running = @ \cup {j}].running
        BY <3>1 DEF Without, Place
      <3>4. CASE j \in ch[root].running
        <4>1. root \in Up[c] /\ InPlace(ch[root], j)
          BY <3>1, <3>4, TreeAssumption DEF InPlace
        <4>2. j \in ch[c].running
          BY <4>1, <3>4, <1>1, <1>p
        <4> QED BY <4>2, <3>2, <3>3
      <3>5. CASE \A d \in Channel : ~InPlace(ch[d], j)
        <4>1. c \in Climbed(ch, j, own)
          BY <3>5, <1>1 DEF Climbed, InPlace
        <4> QED BY <4>1, <3>2, <3>3
      <3> QED BY <1>6, <3>4, <3>5
    <2> QED BY <2>1 DEF Mirrored, own
  <1> QED BY <1>3, <1>4, <1>5, <1>6 DEF own

\* A notification makes the channels show its row and moves no other job.
LEMMA NotifyMirrors ==
    ASSUME QueueTypes, RunnerInv, Mirroring, OwnChannel, NEW j \in Job, Exists(j),
           Notify(j, Data(j), row[j].state)
    PROVE  /\ Mirrored(chan', j, row[j].state)
           /\ job' = [job EXCEPT ![j] = job'[j]]
           /\ job'[j] = NoJob \/ job'[j] = Data(j)
           /\ \A i \in Job \ {j}, c \in Channel : SameView(chan[c], chan'[c], i)
  <1> DEFINE r == Data(j)
             st == row[j].state
             own == Own(j)
             moved == job[j] # NoJob /\ job[j] # r
             base == IF moved THEN RemoveFrom(chan, j, job[j].channel) ELSE chan
             jb == [job EXCEPT ![j] = r]
  <1>t. /\ chan \in PlaceMap /\ job \in JobMap /\ Placed(chan, job)
        /\ r \in ChannelJob /\ r # NoJob /\ r.channel = own /\ own \in Channel /\ r.eta \in Nat
        /\ st \in {"pending", "enqueued", "started", "done", "failed"}
    <2>1. r \in ChannelJob /\ r # NoJob
      BY DataType, NoJobAssumption
    <2>2. r.channel = own /\ own \in Channel
      BY ResolveType DEF Data, Own
    <2>3. st \in {"pending", "enqueued", "started", "done", "failed"}
      BY DEF QueueTypes, Row, RowState, State, Exists
    <2>4. r.eta \in Nat
      BY <2>1 DEF ChannelJob
    <2> QED BY <2>1, <2>2, <2>3, <2>4 DEF RunnerInv, PlacedInv
  <1> HIDE DEF r, st, own
  <1>1. jb \in JobMap /\ jb[j] = r
    BY <1>t DEF JobMap
  <1>2. /\ base \in PlaceMap /\ Placed(base, jb)
        /\ moved => \A c \in Channel : ~InPlace(base[c], j)
        /\ \A i \in Job \ {j}, c \in Channel : SameIn(chan[c], base[c], i)
    <2>1. CASE moved
      <3>1. job[j].channel \in Channel /\ job[j] # NoJob
        BY <2>1, <1>t DEF JobMap, ChannelJob
      <3>2. base = RemoveFrom(chan, j, job[j].channel)
        BY <2>1
      <3> HIDE DEF base, jb
      <3>3. base \in PlaceMap /\ Placed(base, jb) /\ \A c \in Channel : ~InPlace(base[c], j)
        BY <3>1, <3>2, <1>t, RemovePlaced DEF jb
      <3>4. 0 \in Nat
        OBVIOUS
      <3>5. \A i \in Job \ {j}, c \in Channel : SameIn(chan[c], base[c], i)
        BY <3>1, <3>2, <3>4, <1>t, SettersOthers
      <3> QED BY <3>3, <3>5
    <2>2. CASE ~moved
      <3>1. base = chan
        BY <2>2
      <3>2. Placed(chan, jb)
        <4>1. CASE job[j] = NoJob
          BY <4>1, <1>t, RemovePlaced
        <4>2. CASE job[j] = r
          <5>1. jb = job
            BY <4>2, <1>t DEF JobMap
          <5> QED BY <5>1, <1>t
        <4> QED BY <4>1, <4>2, <2>2
      <3> HIDE DEF base
      <3> QED BY <2>2, <3>1, <3>2, <1>t DEF SameIn
    <2> QED BY <2>1, <2>2
  <1>3. st \in {"enqueued", "started"} =>
            j \in base[root].running \/ \A c \in Channel : ~InPlace(base[c], j)
    <2>1. st \in {"enqueued", "started"} => j \in chan[root].running
      BY DEF RunnerInv, BusyRuns, Busy, st
    <2>2. ~moved => base = chan
      OBVIOUS
    <2> QED BY <2>1, <2>2, <1>2
  <1>4. chan' = CASE st \in {"none", "done"} -> SetDone(base, j, own)
                  [] st = "pending" -> SetPending(base, j, own, r.eta)
                  [] st \in {"enqueued", "started"} -> SetRunning(base, j, own)
                  [] st = "failed" -> SetFailed(base, j, own)
    BY <1>t DEF Notify, Notified, r, st
  <1>5. /\ job' = [job EXCEPT ![j] = IF st \in {"none", "done"} THEN NoJob ELSE r]
        /\ job' = [job EXCEPT ![j] = job'[j]]
        /\ job'[j] = NoJob \/ job'[j] = r
    <2>1. job' = [job EXCEPT ![j] = IF st \in {"none", "done"} THEN NoJob ELSE r]
      BY DEF Notify, r, st
    <2> QED BY <2>1, <1>t DEF JobMap
  <1> HIDE DEF base, jb
  <1>6. Mirrored(chan', j, st)
    <2>1. /\ Mirrored(SetDone(base, j, own), j, "done")
          /\ Mirrored(SetPending(base, j, own, r.eta), j, "pending")
          /\ Mirrored(SetFailed(base, j, own), j, "failed")
          /\ (j \in base[root].running \/ \A c \in Channel : ~InPlace(base[c], j))
                => \A s \in {"enqueued", "started"} : Mirrored(SetRunning(base, j, own), j, s)
      BY <1>t, <1>1, <1>2, SettersMirror DEF own
    <2>2. CASE st = "done"
      BY <2>1, <2>2, <1>4
    <2>3. CASE st = "pending"
      BY <2>1, <2>3, <1>4
    <2>4. CASE st = "failed"
      BY <2>1, <2>4, <1>4
    <2>5. CASE st \in {"enqueued", "started"}
      BY <2>1, <2>5, <1>3, <1>4
    <2> QED BY <2>2, <2>3, <2>4, <2>5, <1>t
  <1>7. ASSUME NEW i \in Job \ {j}, NEW c \in Channel
        PROVE  SameView(chan[c], chan'[c], i)
    <2>1. /\ SameIn(base[c], RemoveFrom(base, j, own)[c], i)
          /\ SameIn(base[c], SetPending(base, j, own, r.eta)[c], i)
          /\ SameIn(base[c], SetRunning(base, j, own)[c], i)
          /\ SameIn(base[c], SetFailed(base, j, own)[c], i)
      BY <1>t, <1>2, SettersOthers
    <2>2. SameIn(base[c], chan'[c], i)
      BY <2>1, <1>4, <1>t DEF SetDone
    <2>3. SameIn(chan[c], base[c], i)
      BY <1>2
    <2> QED BY <2>2, <2>3 DEF SameIn, SameView, InQueue
  <1> QED BY <1>5, <1>6, <1>7 DEF r, st

-----------------------------------------------------------------------------
(* The steps of the runner.                                                *)

\* A job that waits in a channel and of which the runner knows all is pending.
LEMMA WaitingIsPending ==
    ASSUME QueueTypes, PlacedInv, OwnChannel, NEW j \in Job, NEW c \in Channel,
           InQueue(chan[c], j), Mirrored(chan, j, row[j].state)
    PROVE  row[j].state = "pending" /\ c \in Up[Own(j)]
  <1>1. InPlace(chan[c], j) /\ OneSet(chan[c], j) /\ c \in Up[Own(j)]
    <2>1. InPlace(chan[c], j)
      BY DEF InPlace, InQueue
    <2> QED BY <2>1 DEF PlacedInv, Placed, JobPlaced, OwnChannel
  <1>2. row[j].state \in {"none", "deleted", "done", "failed", "enqueued", "started", "pending"}
    BY DEF QueueTypes, Row, RowState, State
  <1>3. row[j].state \notin {"none", "deleted", "done"}
    BY <1>1 DEF Mirrored
  <1>4. row[j].state \notin {"enqueued", "started"}
    BY <1>1 DEF Mirrored, OneSet
  <1>5. row[j].state # "failed"
    BY <1>1 DEF Mirrored, OneSet
  <1> QED BY <1>1, <1>2, <1>3, <1>4, <1>5

\* After it has loaded the table the runner shows it.
LEMMA LoadMirrors ==
    ASSUME QueueTypes, PlacedInv, \A j \in Job : job[j] = NoJob, LoadJobs
    PROVE  MirrorInv'
  <1>1. \A c \in Channel, j \in Job : ~InPlace(chan[c], j)
    BY DEF PlacedInv, Placed, JobPlaced
  <1>2. \A c \in Channel, j \in Job :
           LET st == row[j].state IN
           /\ j \in chan'[c].queue <=> st = "pending" /\ Own(j) = c /\ row[j].eta = 0
           /\ j \in chan'[c].eta <=> st = "pending" /\ Own(j) = c /\ row[j].eta # 0
           /\ j \in chan'[c].running <=> st \in {"enqueued", "started"} /\ c \in Up[Own(j)]
           /\ j \in chan'[c].failed <=> st = "failed" /\ Own(j) = c
    BY <1>1 DEF LoadJobs, NotDone, InPlace, Data, Own
  <1>3. OwnChannel'
    <2>1. \A j \in Job : job'[j] = NoJob \/ job'[j] = Data(j)
      BY DEF LoadJobs
    <2>2. \A j \in Job : Data(j).channel = Own(j)
      BY DEF Data, Own
    <2> QED BY <2>1, <2>2 DEF OwnChannel, Own
  <1>4. rpc' = "notify" /\ UNCHANGED row
    BY DEF LoadJobs
  <1>5. ASSUME NEW j \in Job
        PROVE  Mirrored(chan', j, row[j].state)
    <2>1. /\ Own(j) \in Channel /\ Own(j) \in Up[Own(j)] /\ Up[Own(j)] \subseteq Channel
          /\ root \in Channel
      BY ResolveType, UpFacts, TreeAssumption DEF Own
    <2> QED BY <1>2, <2>1 DEF Mirrored, InQueue, InPlace
  <1> QED BY <1>3, <1>4, <1>5 DEF MirrorInv, InHand, AllMirrored

\* A step that leaves the rows and the notifications alone and every job but
\* those in X in its sets.
LEMMA SameSetsMirror ==
    ASSUME MirrorInv, Mirroring, UNCHANGED <<row, inbox>>, NEW X,
           \A j \in Job, c \in Channel : j \notin X => SameView(chan[c], chan'[c], j),
           \A j \in Job \ X : yielded' # j => yielded # j,
           \A j \in Job \cap X : inbox[j] = 0 /\ yielded' # j => Mirrored(chan', j, row[j].state)
    PROVE  AllMirrored'
  <1>1. ASSUME NEW j \in Job \ X, inbox[j] = 0, yielded' # j
        PROVE  Mirrored(chan', j, row[j].state)
    <2>1. Mirrored(chan, j, row[j].state)
      BY <1>1 DEF MirrorInv, AllMirrored
    <2> QED BY <2>1, <1>1, SameMirrored
  <1> QED BY <1>1 DEF AllMirrored

\* A notification is processed: the row as it is now shows.
LEMMA ProcessMirrors ==
    ASSUME QueueTypes, RunnerInv, MirrorInv, NEW j \in Job, ProcessNotification(j)
    PROVE  MirrorInv'
  <1>1. /\ UNCHANGED <<row, rpc, yielded>> /\ rpc = "notify"
        /\ inbox' = [inbox EXCEPT ![j] = inbox[j] - 1]
        /\ IF Exists(j) THEN Notify(j, Data(j), row[j].state) ELSE RemoveJob(j)
    BY DEF ProcessNotification, visitVars
  <1>2. \A i \in Job \ {j} : inbox'[i] = inbox[i]
    BY <1>1 DEF QueueTypes
  <1>3. /\ Mirrored(chan', j, row[j].state)
        /\ job' = [job EXCEPT ![j] = job'[j]]
        /\ job'[j] = NoJob \/ job'[j] = Data(j)
        /\ \A i \in Job \ {j}, c \in Channel : SameView(chan[c], chan'[c], i)
    <2>1. CASE Exists(j)
      BY <2>1, <1>1, NotifyMirrors DEF Mirroring, MirrorInv
    <2>2. CASE ~Exists(j)
      <3>1. RemoveJob(j)
        BY <2>2, <1>1
      <3>2. job' = [job EXCEPT ![j] = job'[j]] /\ job'[j] = NoJob
        BY <3>1 DEF RemoveJob, RunnerInv, PlacedInv, JobMap
      <3>3. /\ \A c \in Channel : ~InPlace(chan'[c], j)
            /\ \A i \in Job \ {j}, c \in Channel : SameView(chan[c], chan'[c], i)
        <4>1. CASE job[j] = NoJob
          <5>1. chan' = chan
            BY <3>1, <4>1 DEF RemoveJob
          <5> QED BY <4>1, <5>1, RemovePlaced DEF RunnerInv, PlacedInv, SameView
        <4>2. CASE job[j] # NoJob
          <5>1. chan' = RemoveFrom(chan, j, job[j].channel) /\ job[j].channel \in Channel
            BY <3>1, <4>2 DEF RemoveJob, RunnerInv, PlacedInv, JobMap, ChannelJob
          <5>2. \A c \in Channel : ~InPlace(chan'[c], j)
            BY <4>2, <5>1, RemovePlaced DEF RunnerInv, PlacedInv
          <5>3. 0 \in Nat
            OBVIOUS
          <5>4. \A i \in Job \ {j}, c \in Channel : SameIn(chan[c], chan'[c], i)
            BY <5>1, <5>3, SettersOthers DEF RunnerInv, PlacedInv
          <5> QED BY <5>2, <5>4 DEF SameIn, SameView, InQueue
        <4> QED BY <4>1, <4>2
      <3>4. Mirrored(chan', j, row[j].state)
        BY <2>2, <3>3 DEF Exists, Mirrored
      <3> QED BY <3>2, <3>3, <3>4
    <2> QED BY <2>1, <2>2
  <1>4. OwnChannel'
    <2>1. Data(j).channel = Own(j)
      BY DEF Data, Own
    <2>2. \A i \in Job \ {j} : job'[i] = job[i]
      BY <1>3 DEF RunnerInv, PlacedInv, JobMap
    <2> QED BY <1>3, <2>1, <2>2 DEF MirrorInv, OwnChannel, Own
  <1>5. AllMirrored'
    <2>1. ASSUME NEW i \in Job \ {j}, inbox'[i] = 0, yielded' # i
          PROVE  Mirrored(chan', i, row'[i].state)
      <3>1. Mirrored(chan, i, row[i].state)
        BY <2>1, <1>1, <1>2 DEF MirrorInv, AllMirrored, Mirroring
      <3> QED BY <3>1, <1>1, <1>3, SameMirrored
    <2> QED BY <2>1, <1>1, <1>3 DEF AllMirrored
  <1>6. InHand'
    BY <1>1 DEF InHand
  <1> QED BY <1>4, <1>5, <1>6 DEF MirrorInv

\* Clearing the eta of a job leaves it in its channel.
LEMMA EtaClearedOwn ==
    ASSUME PlacedInv, OwnChannel, NEW S, job' = EtaCleared(S)
    PROVE  OwnChannel'
  BY EtaClearedFacts DEF PlacedInv, OwnChannel, Own

\* The pop of a channel: jobs that are not popped sit in the same sets.
LEMMA PopView ==
    ASSUME PlacedInv, NEW c \in Channel, NEW S \in SUBSET Ready(c), NEW j \in Job, j \notin S
    PROVE  SameView(chan[c], AfterPop(c, S), j)
  BY AfterPopFacts DEF PlacedInv, SameView, InQueue

\* The generator: a job that is yielded to the parent is pending and waits there.
LEMMA VisitMirrors ==
    ASSUME QueueTypes, RunnerInv, MirrorInv, RunJobs \/ VisitChannels \/ WaitNotification
    PROVE  MirrorInv'
  <1>1. /\ UNCHANGED <<row, inbox, yielded>> /\ rpc \in {"notify", "run"}
        /\ rpc' \in {"notify", "run"} /\ Mirroring /\ Mirroring' /\ PlacedInv
    <2>1. /\ UNCHANGED <<row, inbox>> /\ rpc \in {"notify", "run"}
          /\ rpc' \in {"notify", "run"}
      BY DEF RunJobs, VisitChannels, WaitNotification
    <2>2. UNCHANGED yielded
      BY DEF RunJobs, VisitChannels, WaitNotification, StartVisit, EnterChannel,
             LeaveChannel, YieldToParent, cvars
    <2> QED BY <2>1, <2>2 DEF Mirroring, RunnerInv
  <1>2. InHand'
    BY <1>1 DEF InHand
  <1>3. ASSUME UNCHANGED <<chan, job>>
        PROVE  MirrorInv'
    <2>1. OwnChannel' /\ AllMirrored'
      BY <1>1, <1>3 DEF MirrorInv, OwnChannel, Own, AllMirrored, Mirrored
    <2> QED BY <2>1, <1>2 DEF MirrorInv
  <1>4. ASSUME NEW c \in Channel, LeaveChannel(c)
        PROVE  MirrorInv'
    <2>1. CASE UNCHANGED <<chan, job>>
      BY <2>1, <1>3
    <2>2. CASE job' = EtaCleared(Due(c)) /\ chan' = [chan EXCEPT ![c] = AfterPop(c, {})]
      <3>1. OwnChannel'
        BY <2>2, <1>1, EtaClearedOwn DEF MirrorInv
      <3>2. {} \in SUBSET Ready(c)
        OBVIOUS
      <3>3. \A j \in Job, d \in Channel : SameView(chan[d], chan'[d], j)
        <4>1. \A j \in Job : SameView(chan[c], AfterPop(c, {}), j)
          BY <1>1, <3>2, PopView
        <4>2. \A d \in Channel : chan'[d] = IF d = c THEN AfterPop(c, {}) ELSE chan[d]
          BY <2>2, <1>1 DEF PlacedInv, PlaceMap
        <4> QED BY <4>1, <4>2 DEF SameView
      <3>4. AllMirrored'
        <4> DEFINE X == {}
        <4>1. \A j \in Job, d \in Channel : j \notin X => SameView(chan[d], chan'[d], j)
          BY <3>3
        <4>2. \A j \in Job \cap X : inbox[j] = 0 /\ yielded' # j
                                    => Mirrored(chan', j, row[j].state)
          OBVIOUS
        <4> HIDE DEF X
        <4> QED BY <4>1, <4>2, <1>1, SameSetsMirror
      <3> QED BY <3>1, <3>4, <1>2 DEF MirrorInv
    <2> QED BY <1>4, <2>1, <2>2 DEF LeaveChannel
  <1>5. ASSUME NEW c \in Channel, NEW j \in Job, YieldToParent(c, j)
        PROVE  MirrorInv'
    <2> DEFINE p == Parent[c]
    <2>1. /\ p \in Channel /\ p # c /\ p \in Up[c] /\ c # root
      BY <1>5, ParentFacts DEF YieldToParent
    <2>2. {j} \in SUBSET Ready(c)
      BY <1>5 DEF YieldToParent, Poppable, FirstReady
    <2>3. /\ job' = EtaCleared(Due(c))
          /\ chan' = [chan EXCEPT ![c] = AfterPop(c, {j}),
                                  ![p] = Enqueue(chan[p], j, job'[j].eta)]
      BY <1>5, <2>1 DEF YieldToParent, PlacedInv, PlaceMap
    <2>4. OwnChannel'
      BY <2>3, <1>1, EtaClearedOwn DEF MirrorInv
    <2> HIDE DEF p
    <2>5. \A d \in Channel : chan'[d] = IF d = p THEN Enqueue(chan[p], j, job'[j].eta)
                                        ELSE IF d = c THEN AfterPop(c, {j}) ELSE chan[d]
      <3> DEFINE q == Enqueue(chan[p], j, job'[j].eta)
                 a == AfterPop(c, {j})
      <3>1. chan' = [chan EXCEPT ![c] = a, ![p] = q] /\ DOMAIN chan = Channel
        BY <2>3, <1>1 DEF PlacedInv, PlaceMap
      <3> HIDE DEF q, a
      <3>2. \A d \in Channel : chan'[d] = IF d = p THEN q ELSE IF d = c THEN a ELSE chan[d]
        BY <3>1, <2>1
      <3> QED BY <3>2 DEF q, a
    <2>6. chan[p] \in Place /\ chan[c] \in Place
      BY <2>1, <1>1 DEF PlacedInv, PlaceMap
    <2>e. \A e : /\ InQueue(Enqueue(chan[p], j, e), j)
                 /\ Enqueue(chan[p], j, e).running = chan[p].running
                 /\ \A i \in Job \ {j} : SameView(chan[p], Enqueue(chan[p], j, e), i)
      BY <2>6 DEF Enqueue, InQueue, SameView, Place
    <2>7. \A i \in Job, d \in Channel : i # j => SameView(chan[d], chan'[d], i)
      <3>1. \A i \in Job : i # j => SameView(chan[c], AfterPop(c, {j}), i)
        BY <1>1, <2>2, PopView
      <3> QED BY <3>1, <2>5, <2>e DEF SameView
    <2>8. ASSUME inbox[j] = 0, yielded # j
          PROVE  Mirrored(chan', j, row[j].state)
      <3>1. InQueue(chan[c], j)
        BY <2>2, <1>1, AfterPopFacts DEF PlacedInv
      <3>2. Mirrored(chan, j, row[j].state)
        BY <2>8, <1>1 DEF MirrorInv, AllMirrored
      <3>3. row[j].state = "pending" /\ c \in Up[Own(j)]
        BY <3>1, <3>2, <1>1, WaitingIsPending DEF MirrorInv
      <3>4. p \in Up[Own(j)]
        <4>1. Own(j) \in Channel
          BY ResolveType DEF Own
        <4> QED BY <4>1, <3>3, <2>1, TreeAssumption
      <3>5. InQueue(chan'[p], j)
        BY <2>1, <2>5, <2>e
      <3>6. chan'[root].running = chan[root].running
        <4>1. root \in Channel
          BY TreeAssumption
        <4> QED BY <4>1, <2>1, <2>5, <2>e
      <3> QED BY <3>2, <3>3, <3>4, <3>5, <3>6 DEF Mirrored
    <2>9. AllMirrored'
      <3> DEFINE X == {j}
      <3>1. \A i \in Job, d \in Channel : i \notin X => SameView(chan[d], chan'[d], i)
        BY <2>7
      <3>2. \A i \in Job \cap X : inbox[i] = 0 /\ yielded' # i
                                  => Mirrored(chan', i, row[i].state)
        BY <2>8, <1>1
      <3> HIDE DEF X
      <3> QED BY <3>1, <3>2, <1>1, SameSetsMirror
    <2> QED BY <2>4, <2>9, <1>2 DEF MirrorInv
  <1>6. ASSUME NEW c \in Channel, EnterChannel(c)
        PROVE  UNCHANGED <<chan, job>>
    BY <1>6 DEF EnterChannel
  <1>7. RunJobs \/ WaitNotification => UNCHANGED <<chan, job>>
    BY DEF RunJobs, StartVisit, WaitNotification, cvars
  <1> QED BY <1>3, <1>4, <1>5, <1>6, <1>7 DEF VisitChannels

\* The runner takes a job that waits, so its row is pending or has changed since.
LEMMA TakeMirrors ==
    ASSUME QueueTypes, RunnerInv, MirrorInv, TakeJob
    PROVE  MirrorInv'
  <1>1. PICK j \in Job : YieldToRunner(j)
    BY DEF TakeJob
  <1>r. root \in Channel
    BY TreeAssumption
  <1>2. /\ UNCHANGED <<row, inbox>> /\ rpc = "run" /\ rpc' = "enqueue"
        /\ yielded = NoJob /\ yielded' = j /\ Mirroring /\ PlacedInv
    BY <1>1 DEF TakeJob, YieldToRunner, Mirroring, RunnerInv
  <1>3. {j} \in SUBSET Ready(root)
    BY <1>1 DEF YieldToRunner, Poppable, FirstReady
  <1>4. job' = EtaCleared(Due(root)) /\ chan' = [chan EXCEPT ![root] = AfterPop(root, {j})]
    BY <1>1 DEF YieldToRunner
  <1>5. OwnChannel'
    BY <1>2, <1>4, EtaClearedOwn DEF MirrorInv
  <1>6. InHand'
    <2>1. ASSUME inbox[j] = 0
          PROVE  row[j].state = "pending"
      <3>1. InQueue(chan[root], j)
        BY <1>2, <1>3, <1>r, AfterPopFacts DEF PlacedInv
      <3>2. Mirrored(chan, j, row[j].state)
        BY <2>1, <1>2, ConfigAssumption DEF MirrorInv, AllMirrored
      <3> QED BY <3>1, <3>2, <1>2, <1>r, WaitingIsPending DEF MirrorInv
    <2> QED BY <2>1, <1>2 DEF InHand
  <1>7. AllMirrored'
    <2> DEFINE X == {j}
    <2>1. \A i \in Job, d \in Channel : i \notin X => SameView(chan[d], chan'[d], i)
      <3>1. \A i \in Job : i \notin X => SameView(chan[root], AfterPop(root, {j}), i)
        BY <1>2, <1>3, <1>r, PopView
      <3>2. \A d \in Channel : chan'[d] = IF d = root THEN AfterPop(root, {j}) ELSE chan[d]
        BY <1>4, <1>2 DEF PlacedInv, PlaceMap
      <3> QED BY <3>1, <3>2 DEF SameView
    <2>2. \A i \in Job \cap X : ~(inbox[i] = 0 /\ yielded' # i)
      BY <1>2
    <2>3. \A i \in Job \ X : yielded # i
      BY <1>2, ConfigAssumption
    <2> HIDE DEF X
    <2> QED BY <2>1, <2>2, <2>3, <1>2, SameSetsMirror
  <1> QED BY <1>5, <1>6, <1>7 DEF MirrorInv

\* The runner marks the job and is notified of that; if the row is gone it has
\* been notified before.
LEMMA MarkMirrors ==
    ASSUME QueueTypes, RunnerInv, MirrorInv, SetJobEnqueued
    PROVE  MirrorInv'
  <1>1. /\ rpc = "enqueue" /\ rpc' = "http" /\ UNCHANGED cvars /\ yielded \in Job
    BY DEF SetJobEnqueued, RunnerInv, Taken
  <1>2. Told /\ inbox'[yielded] # 0
    <2>1. CASE Exists(yielded)
      <3>1. PICK j \in Job : j = yielded
        BY <1>1
      <3>2. \E new : Touch(j, new)
        BY <2>1, <3>1 DEF SetJobEnqueued, Write
      <3>3. Told /\ inbox'[j] # 0
        BY <3>2, <1>1, TouchTold
      <3> QED BY <3>1, <3>3
    <2>2. CASE ~Exists(yielded)
      <3>1. UNCHANGED <<row, inbox>>
        BY <2>2 DEF SetJobEnqueued
      <3>2. inbox[yielded] # 0
        BY <2>2, <1>1 DEF Exists, MirrorInv, InHand
      <3> QED BY <3>1, <3>2 DEF Told
    <2> QED BY <2>1, <2>2
  <1>3. UNCHANGED <<chan, job, yielded>>
    BY <1>1 DEF cvars
  <1>4. OwnChannel' /\ InHand'
    BY <1>1, <1>2, <1>3 DEF MirrorInv, OwnChannel, Own, InHand
  <1>5. ASSUME NEW j \in Job, inbox'[j] = 0, yielded # j
        PROVE  Mirrored(chan', j, row'[j].state)
    <2>1. /\ inbox[j] = 0
          /\ \/ row'[j].state = row[j].state
             \/ {row[j].state, row'[j].state} \subseteq {"none", "done", "deleted"}
      BY <1>1, <1>2, <1>5 DEF Told
    <2>2. Mirrored(chan, j, row[j].state)
      BY <1>1, <1>5, <2>1 DEF MirrorInv, AllMirrored, Mirroring
    <2>3. \A st, st2 : /\ Mirrored(chan, j, st)
                       /\ st = st2 \/ {st, st2} \subseteq {"none", "done", "deleted"}
                       => Mirrored(chan, j, st2)
      BY DEF Mirrored
    <2> QED BY <2>1, <2>2, <2>3, <1>3
  <1>6. AllMirrored'
    BY <1>3, <1>5 DEF AllMirrored
  <1> QED BY <1>4, <1>6 DEF MirrorInv

\* The request is sent: the notification of the mark is still on its way.
LEMMA SendMirrors ==
    ASSUME QueueTypes, RunnerInv, MirrorInv, AsyncHttpGet
    PROVE  MirrorInv'
  <1>1. /\ rpc = "http" /\ rpc' = "run" /\ UNCHANGED <<row, inbox, chan, job>>
        /\ Mirroring /\ inbox[yielded] # 0
    BY DEF AsyncHttpGet, Resume, MirrorInv, InHand, Mirroring
  <1>2. OwnChannel' /\ InHand'
    BY <1>1 DEF MirrorInv, OwnChannel, Own, InHand
  <1>3. \A j \in Job : inbox[j] = 0 => Mirrored(chan, j, row[j].state)
    BY <1>1 DEF MirrorInv, AllMirrored
  <1>4. AllMirrored'
    BY <1>1, <1>3 DEF AllMirrored
  <1> QED BY <1>2, <1>4 DEF MirrorInv

\* Before the runner has loaded the table, there is nothing to show.
LEMMA DownMirrors ==
    ASSUME rpc' \in {"down", "listening"}, \A j \in Job : job'[j] = NoJob
    PROVE  MirrorInv'
  BY DEF MirrorInv, OwnChannel, InHand, AllMirrored, Mirroring

-----------------------------------------------------------------------------
(* The theorem.                                                            *)

\* Every step keeps the mirror.
LEMMA StepMirrors ==
    ASSUME JobQueueInv, MirrorInv, JobQueueNext
    PROVE  MirrorInv'
  <1> USE DEF JobQueueInv
  <1>1. CASE Users \/ \E r \in Request : Client(r) \/ Worker(r)
    <2>1. Told
      BY <1>1, OutsideTold
    <2>2. UNCHANGED runnerVars
      <3>1. now \in Nat
        BY DEF VisitTypes
      <3> QED BY <3>1, <1>1, UsersOutside, ClientOutside, WorkerOutside DEF Outside
    <2>3. UNCHANGED <<chan, job, rpc, yielded>>
      BY <2>2 DEF runnerVars, cvars
    <2> QED BY <2>1, <2>3, ToldMirrors DEF RunnerInv
  <1>2. CASE Listen
    <2>1. rpc = "down" /\ rpc' = "listening" /\ UNCHANGED job
      BY <1>2 DEF Listen, cvars
    <2> QED BY <2>1, DownMirrors DEF RunnerInv, Unloaded, Mirroring
  <1>3. CASE LoadJobs
    <2>1. rpc = "listening"
      BY <1>3 DEF LoadJobs
    <2> QED BY <2>1, <1>3, LoadMirrors DEF RunnerInv, Unloaded, Mirroring
  <1>4. CASE \E j \in Job : ProcessNotification(j)
    BY <1>4, ProcessMirrors
  <1>5. CASE RunJobs \/ VisitChannels \/ WaitNotification
    BY <1>5, VisitMirrors
  <1>6. CASE TakeJob
    BY <1>6, TakeMirrors
  <1>7. CASE SetJobEnqueued
    BY <1>7, MarkMirrors
  <1>8. CASE AsyncHttpGet
    BY <1>8, SendMirrors
  <1>9. CASE RunnerFailure
    <2>1. rpc' = "down" /\ job' = [j \in Job |-> NoJob]
      BY <1>9 DEF RunnerFailure, RunnerException, RunnerRestart, RemoveDb
    <2> QED BY <2>1, DownMirrors
  <1>10. CASE TimePasses
    <2>1. UNCHANGED <<chan, job, rpc, yielded, row, inbox>>
      BY <1>10 DEF TimePasses, Tick
    <2>2. Told
      BY <2>1 DEF Told
    <2> QED BY <2>1, <2>2, ToldMirrors DEF RunnerInv
  <1> QED BY <1>1, <1>2, <1>3, <1>4, <1>5, <1>6, <1>7, <1>8, <1>9, <1>10
          DEF JobQueueNext, Runner

\* Once every notification of a job is processed the channels show its row, for
\* every tree and number of jobs and whatever fails: no slot leaks, no job is
\* forgotten.
THEOREM Mirror == JobQueueSpec => []MirrorsTable
  <1>1. JobQueueInit => MirrorInv
    BY DEF JobQueueInit, ChannelsInit, MirrorInv, OwnChannel, InHand, AllMirrored, Mirroring
  <1>2. JobQueueInv /\ MirrorInv /\ [JobQueueNext]_jvars => MirrorInv'
    <2>1. JobQueueInv /\ MirrorInv /\ UNCHANGED jvars => MirrorInv'
      <3>1. SUFFICES ASSUME JobQueueInv, MirrorInv, UNCHANGED jvars
                     PROVE  MirrorInv'
        OBVIOUS
      <3>2. UNCHANGED <<chan, job, rpc, yielded, row, inbox>>
        BY <3>1 DEF jvars, cvars
      <3>3. Told
        BY <3>2 DEF Told
      <3> QED BY <3>1, <3>2, <3>3, ToldMirrors DEF JobQueueInv, RunnerInv
    <2> QED BY <2>1, StepMirrors
  <1>3. JobQueueInv /\ MirrorInv => MirrorsTable
    <2> SUFFICES ASSUME JobQueueInv, MirrorInv, Mirroring,
                        NEW j \in Job, inbox[j] = 0, yielded # j
                 PROVE  LET own == Data(j).channel IN
                        CASE Busy(j) -> \A c \in Up[own] : j \in chan[c].running
                          [] row[j].state = "pending" ->
                               /\ \E c \in Up[own] : InQueue(chan[c], j)
                               /\ j \notin chan[root].running
                          [] row[j].state = "failed" ->
                               j \in chan[own].failed
                               /\ \A c \in Channel \ {own} : ~Present(j, c)
                          [] OTHER -> \A c \in Channel : ~Present(j, c)
      BY DEF MirrorsTable
    <2>1. Mirrored(chan, j, row[j].state)
      BY DEF MirrorInv, AllMirrored
    <2>2. Data(j).channel = Own(j)
      BY DEF Data, Own
    <2>3. \A c \in Channel : Present(j, c) <=> InPlace(chan[c], j)
      BY DEF Present, InPlace
    <2>4. row[j].state \in {"none", "deleted", "done", "failed", "enqueued", "started", "pending"}
      BY DEF JobQueueInv, QueueTypes, Row, RowState, State
    <2> QED BY <2>1, <2>2, <2>3, <2>4 DEF Mirrored, Busy
  <1> QED BY <1>1, <1>2, <1>3, Invariance, PTL DEF JobQueueSpec
=============================================================================
