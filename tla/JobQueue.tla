------------------------------ MODULE JobQueue ------------------------------
(***************************************************************************)
(* The life of jobs between the queue_job table, the job runner and the    *)
(* workers of the Odoo server:                                             *)
(*                                                                         *)
(*  - the table and its NOTIFY trigger (models/queue_job.py,               *)
(*    hooks/post_init_hook.py), the users' buttons and the crons;          *)
(*  - the runner, one thread that mirrors the table in its channels        *)
(*    (Channels.tla) from notifications, marks a job enqueued and asks the *)
(*    server over HTTP to run it (jobrunner/runner.py);                    *)
(*  - one HTTP client thread per request, which puts the job back when the *)
(*    request fails (_async_http_get);                                     *)
(*  - the controller that runs the job (controllers/main.py).              *)
(*                                                                         *)
(* A database transaction that locks the row it has checked, or that is    *)
(* one statement, is one step.                                             *)
(***************************************************************************)
EXTENDS Channels

CONSTANTS
    Request,      \* bound: the requests that may be open at a time
    ChannelOf,    \* ChannelOf[j]: the channel name in the row of j
    PriorityOf,   \* PriorityOf[j]: the priority in the row of j
    RequeueFrom,  \* the states from which users requeue jobs
    DoneFrom,     \* the states from which users set jobs done
    CronFrom,     \* the states requeue_stuck_jobs looks for
    RetryDelay,   \* seconds a job that is to be retried is postponed
    MaxCopies,    \* bound: notifications of one job counted apart
    MaxFaults,    \* bound: failures of any kind in a behaviour
    Fault         \* the kinds of failures that happen

ASSUME JobQueueAssumption ==
    /\ ChannelOf \in [Job -> ChannelName]
    /\ PriorityOf \in [Job -> Priority]
    /\ RequeueFrom \cup DoneFrom \cup CronFrom
         \subseteq {"pending", "enqueued", "started", "done", "failed"}
    /\ RetryDelay \in Nat \ {0}
    /\ MaxCopies \in Nat \ {0}
    /\ MaxFaults \in Nat

VARIABLES
    row,     \* the table: state, eta and whether date_done is set
    inbox,   \* notifications sent to the runner and not yet processed
    rpc,     \* where the runner's thread is
    req,     \* the open requests: the client thread and the server side
    faults   \* failures so far (for the bound)

runnerVars == <<cvars, rpc>>
jvars == <<cvars, row, inbox, rpc, req, faults>>

RowState == State \cup {"deleted"}     \* "none": not created yet
Exists(j) == row[j].state \notin {"none", "deleted"}

Row == [state : RowState, eta : Nat, dateDone : BOOLEAN]

NoRow == [state |-> "none", eta |-> 0, dateDone |-> FALSE]

FreeSlot == [job |-> NoJob, client |-> "gone", server |-> "gone",
             copy |-> NoRow, dirty |-> FALSE]

\* client: the thread of _async_http_get waits for the answer, is about to call
\*   set_job_pending, or has ended.
\* server: the request is on its way, the job is started, it is being performed
\*   in a transaction that has its snapshot, the answer (200 or 500) is on its
\*   way back, or there is nothing left.
\* copy: the row as the worker has loaded it (the Job object it will store).
\* dirty: the row was written by somebody else after the worker's snapshot.
Slot == [job : Job \cup {NoJob},
         client : {"waiting", "failing", "gone"},
         server : {"inflight", "started", "performing", "ok", "error", "gone"},
         copy : Row, dirty : BOOLEAN]

RunnerPC == {"down", "listening", "notify", "run", "enqueue", "http"}

-----------------------------------------------------------------------------
(* Writing a row.                                                          *)

Min2(a, b) == IF a < b THEN a ELSE b

\* The trigger sends a notification for the job; it reaches the runner's
\* connection when that has executed LISTEN.
Trigger(j) == inbox' = IF rpc = "down" THEN inbox
                       ELSE [inbox EXCEPT ![j] = Min2(@ + 1, MaxCopies)]

\* Workers that perform j and hold an older snapshot of its row.
Dirtied(rq, j) ==
    [r \in Request |-> IF rq[r].job = j /\ rq[r].server = "performing"
                       THEN [rq[r] EXCEPT !.dirty = TRUE] ELSE rq[r]]

Touch(j, new) == row' = [row EXCEPT ![j] = new] /\ Trigger(j)

\* A write by somebody who has no request.
Write(j, new) == Touch(j, new) /\ req' = Dirtied(req, j)

\* A slot is free again when neither side is left.
Close(s) == IF s.client = "gone" /\ s.server \in {"ok", "error", "gone"} THEN FreeSlot ELSE s
WithClient(r, c) == [req EXCEPT ![r] = Close([@ EXCEPT !.client = c])]
WithServer(r, v) ==
    [req EXCEPT ![r] = Close([@ EXCEPT !.server = v, !.copy = NoRow, !.dirty = FALSE])]

Failing(kind) == /\ kind \in Fault
                 /\ faults < MaxFaults
                 /\ faults' = faults + 1

-----------------------------------------------------------------------------
(* The users and the crons.                                                *)

Create(j) ==
    /\ row[j].state = "none"
    /\ \E e \in Eta \cup {0} :
         Write(j, [state |-> "pending", eta |-> e, dateDone |-> FALSE])
    /\ UNCHANGED <<runnerVars, faults>>

ButtonDone(j) ==
    /\ row[j].state \in DoneFrom
    /\ Write(j, [row[j] EXCEPT !.state = "done", !.dateDone = TRUE])
    /\ UNCHANGED <<runnerVars, faults>>

SetPendingRow(j) == [row[j] EXCEPT !.state = "pending", !.dateDone = FALSE]

Requeue(j) ==
    /\ row[j].state \in RequeueFrom
    /\ Write(j, SetPendingRow(j))
    /\ UNCHANGED <<runnerVars, faults>>

Served(j) == \/ rpc = "http" /\ yielded = j
             \/ \E r \in Request : req[r].job = j /\ req[r].server \in {"inflight", "started", "performing"}

\* Mutant: the cron does not look for enqueued jobs.
Mutant_CronRequeue(j) ==
    /\ row[j].state \in CronFrom \ {"enqueued"}
    /\ IF Served(j) THEN Failing("slow") ELSE UNCHANGED faults
    /\ Write(j, SetPendingRow(j))
    /\ UNCHANGED runnerVars

\* requeue_stuck_jobs looks at the age of the state only.  A job that nothing
\* serves any more gets that old; one that is being served does when the runner
\* or the server is slow, which counts as a failure.
CronRequeue(j) ==
    /\ row[j].state \in CronFrom
    /\ IF Served(j) THEN Failing("slow") ELSE UNCHANGED faults
    /\ Write(j, SetPendingRow(j))
    /\ UNCHANGED runnerVars

\* autovacuum deletes by date_done, whatever the state; the trigger is silent
\* on the deletion of a row whose state is done.
Autovacuum(j) ==
    /\ Exists(j) /\ row[j].dateDone
    /\ LET new == [row[j] EXCEPT !.state = "deleted"]
       IN  IF row[j].state = "done"
           THEN row' = [row EXCEPT ![j] = new] /\ req' = Dirtied(req, j) /\ UNCHANGED inbox
           ELSE Write(j, new)
    /\ UNCHANGED <<runnerVars, faults>>

-----------------------------------------------------------------------------
(* The runner.                                                             *)

Data(j) == [channel |-> Resolve(ChannelOf[j]), priority |-> PriorityOf[j], eta |-> row[j].eta]

\* Database(db_name): the connection listens before the table is read.
Listen ==
    /\ rpc = "down"
    /\ rpc' = "listening"
    /\ inbox' = [j \in Job |-> 0]
    /\ UNCHANGED <<cvars, row, req, faults>>

\* Mutants: one state is forgotten.
Mutant_WithoutPending == {"enqueued", "started", "failed"}
Mutant_WithoutStarted == {"pending", "enqueued", "failed"}

\* NOT_DONE: the states of the jobs the runner loads when it starts.
NotDone == {"pending", "enqueued", "started", "failed"}

\* initialize_databases: the cursor reads every row that is not done, as of one
\* moment, and notify is called for each (the channels are empty before).
LoadJobs ==
    /\ rpc = "listening"
    /\ LET Read(S) == {j \in Job : row[j].state \in S \cap NotDone}
           In(c, S) == {j \in Read(S) : Data(j).channel = c}
           Below(c, S) == {j \in Read(S) : c \in Up[Data(j).channel]}
       IN  chan' = [c \in Channel |->
                      [queue   |-> chan[c].queue \cup {j \in In(c, {"pending"}) : row[j].eta = 0},
                       eta     |-> chan[c].eta \cup {j \in In(c, {"pending"}) : row[j].eta # 0},
                       running |-> chan[c].running \cup Below(c, {"enqueued", "started"}),
                       failed  |-> chan[c].failed \cup In(c, {"failed"})]]
    /\ job' = [j \in Job |-> IF row[j].state \in NotDone THEN Data(j) ELSE NoJob]
    /\ rpc' = "notify"
    /\ UNCHANGED <<pauseUntil, now, visitVars, row, inbox, req, faults>>

\* Mutant: a notification for a row that is gone is ignored.
Mutant_IgnoreDeleted(j) ==
    /\ rpc = "notify" /\ inbox[j] > 0
    /\ inbox' = [inbox EXCEPT ![j] = @ - 1]
    /\ IF Exists(j) THEN Notify(j, Data(j), row[j].state) ELSE UNCHANGED chanVars
    /\ UNCHANGED <<now, visitVars, row, rpc, req, faults>>

\* process_notifications reads the row as it is now, not as it was when the
\* notification was sent.
ProcessNotification(j) ==
    /\ rpc = "notify" /\ inbox[j] > 0
    /\ inbox' = [inbox EXCEPT ![j] = @ - 1]
    /\ IF Exists(j) THEN Notify(j, Data(j), row[j].state) ELSE RemoveJob(j)
    /\ UNCHANGED <<now, visitVars, row, rpc, req, faults>>

\* Notifications that are on their way wait for the next round.
RunJobs ==
    /\ rpc = "notify"
    /\ StartVisit
    /\ rpc' = "run"
    /\ UNCHANGED <<row, inbox, req, faults>>

VisitChannels ==
    /\ rpc = "run"
    /\ \/ \E c \in Channel : EnterChannel(c) \/ LeaveChannel(c)
       \/ \E c \in Channel, j \in Job : YieldToParent(c, j)
    /\ UNCHANGED <<row, inbox, rpc, req, faults>>

TakeJob ==
    /\ rpc = "run"
    /\ \E j \in Job : YieldToRunner(j)
    /\ rpc' = "enqueue"
    /\ UNCHANGED <<row, inbox, req, faults>>

\* set_job_enqueued writes the state, whatever it is by now.
SetJobEnqueued ==
    /\ rpc = "enqueue"
    /\ rpc' = "http"
    /\ IF Exists(yielded)
       THEN Write(yielded, [row[yielded] EXCEPT !.state = "enqueued"])
       ELSE UNCHANGED <<row, inbox, req>>
    /\ UNCHANGED <<cvars, faults>>

\* _async_http_get starts a thread and the generator resumes.
AsyncHttpGet ==
    /\ rpc = "http"
    /\ \E r \in Request :
         /\ req[r] = FreeSlot
         /\ req' = [req EXCEPT ![r] = [FreeSlot EXCEPT
              !.job = yielded, !.client = "waiting", !.server = "inflight"]]
    /\ rpc' = "run"
    /\ Resume
    /\ UNCHANGED <<row, inbox, faults>>

\* run_jobs is over; wait_notification returns when there is something to do.
WaitNotification ==
    /\ rpc = "run" /\ Idle
    /\ rpc' = "notify"
    /\ UNCHANGED <<cvars, row, inbox, req, faults>>

StopVisit == todo' = {} /\ cur' = NoChannel /\ yielded' = NoJob

\* Any exception in run(): a lost connection, or the GET of the session cookie
\* in _async_http_get.  close_databases, sleep, start over.
RunnerException ==
    /\ rpc \in {"listening", "notify", "enqueue", "http"}
    /\ Failing("exception")
    /\ RemoveDb
    /\ StopVisit
    /\ rpc' = "down"
    /\ inbox' = [j \in Job |-> 0]
    /\ UNCHANGED <<now, row, req>>

\* The runner's process ends, gracefully or not, and another one starts: its
\* client threads are daemons and die with it, the server goes on.
RunnerRestart ==
    /\ Failing("restart")
    /\ chan' = [c \in Channel |-> EmptyPlace]
    /\ job' = [j \in Job |-> NoJob]
    /\ pauseUntil' = [c \in Channel |-> 0]
    /\ StopVisit
    /\ rpc' = "down"
    /\ inbox' = [j \in Job |-> 0]
    /\ req' = [r \in Request |-> Close([req[r] EXCEPT !.client = "gone"])]
    /\ UNCHANGED <<now, row>>

-----------------------------------------------------------------------------
(* The client thread of a request.                                         *)

ClientOk(r) ==
    /\ req[r].client = "waiting" /\ req[r].server = "ok"
    /\ req' = WithClient(r, "gone")
    /\ UNCHANGED <<runnerVars, row, inbox, faults>>

ClientError(r) ==
    /\ req[r].client = "waiting" /\ req[r].server = "error"
    /\ req' = WithClient(r, "failing")
    /\ UNCHANGED <<runnerVars, row, inbox, faults>>

\* A timeout or a broken connection: the server side goes on unnoticed.
ClientTimeout(r) ==
    /\ req[r].client = "waiting"
    /\ Failing("timeout")
    /\ req' = WithClient(r, "failing")
    /\ UNCHANGED <<runnerVars, row, inbox>>

\* Mutant: the update is not guarded.
Mutant_SetJobPending(r) ==
    /\ req[r].client = "failing"
    /\ LET j == req[r].job IN
       /\ Exists(j)
       /\ Touch(j, [row[j] EXCEPT !.state = "pending"])
       /\ req' = Dirtied(WithClient(r, "gone"), j)
    /\ UNCHANGED <<runnerVars, faults>>

\* set_job_pending: a guarded update.
SetJobPending(r) ==
    /\ req[r].client = "failing"
    /\ LET j == req[r].job IN
       IF row[j].state = "enqueued"
       THEN /\ Touch(j, [row[j] EXCEPT !.state = "pending"])
            /\ req' = Dirtied(WithClient(r, "gone"), j)
       ELSE req' = WithClient(r, "gone") /\ UNCHANGED <<row, inbox>>
    /\ UNCHANGED <<runnerVars, faults>>

-----------------------------------------------------------------------------
(* The server side of a request: RunJobController.runjob.                  *)

\* Mutant: the state is not checked under the lock.
Mutant_Start(r) ==
    /\ req[r].server = "inflight"
    /\ LET j == req[r].job
           new == [row[j] EXCEPT !.state = "started"]
       IN  /\ Exists(j)
           /\ Touch(j, new)
           /\ req' = [Dirtied(req, j) EXCEPT ![r].server = "started", ![r].copy = new]
    /\ UNCHANGED <<runnerVars, faults>>

\* SELECT ... FOR UPDATE, Job.load, set_started, store, commit.
Start(r) ==
    /\ req[r].server = "inflight"
    /\ LET j == req[r].job
           new == [row[j] EXCEPT !.state = "started"]
       IN  /\ row[j].state = "enqueued"
           /\ Touch(j, new)
           /\ req' = [Dirtied(req, j) EXCEPT ![r].server = "started", ![r].copy = new]
    /\ UNCHANGED <<runnerVars, faults>>

\* perform() runs in the transaction after that commit: its first query takes
\* the snapshot that a later write of the row conflicts with.
Snapshot(r) ==
    /\ req[r].server = "started"
    /\ req' = [req EXCEPT ![r].server = "performing"]
    /\ UNCHANGED <<runnerVars, row, inbox, faults>>

\* The row is not there or not in state enqueued.
Reject(r) ==
    /\ req[r].server = "inflight"
    /\ row[req[r].job].state # "enqueued"
    /\ req' = WithServer(r, "ok")
    /\ UNCHANGED <<runnerVars, row, inbox, faults>>

\* The request is lost, the server refuses it, or Job.load raises, before
\* anything is written.
ServeError(r) ==
    /\ req[r].server = "inflight"
    /\ Failing("error")
    /\ req' = WithServer(r, "error")
    /\ UNCHANGED <<runnerVars, row, inbox>>

\* What the worker stores at the end, from the Job it loaded at the start.
Finish(r, new, answer) ==
    /\ Touch(req[r].job, new)
    /\ req' = Dirtied(WithServer(r, answer), req[r].job)
    /\ UNCHANGED <<runnerVars, faults>>

\* perform() returns or raises NothingToDoJob; store and commit in the worker's
\* transaction, which fails when the row has changed since its snapshot.
JobDone(r) ==
    /\ req[r].server = "performing" /\ ~req[r].dirty
    /\ Finish(r, [req[r].copy EXCEPT !.state = "done", !.dateDone = TRUE], "ok")

\* NothingToDoJob when the row has changed: the error of store() escapes.
DoneConflict(r) ==
    /\ req[r].server = "performing" /\ req[r].dirty
    /\ req' = WithServer(r, "error")
    /\ UNCHANGED <<runnerVars, row, inbox, faults>>

\* RetryableJobError or a serialization failure: retry_postpone writes the row
\* in a transaction of its own, whatever it contains by now; store() creates
\* the row again when it has been deleted.
RetryPostpone(r) ==
    /\ req[r].server = "performing"
    /\ now + RetryDelay <= MaxTime
    /\ Finish(r, [state |-> "pending", eta |-> now + RetryDelay, dateDone |-> FALSE], "ok")

\* Any other exception, or no retry left: set_failed, in a transaction of its
\* own as well, and the error is raised again.
JobFailed(r) ==
    /\ req[r].server = "performing"
    /\ Finish(r, [req[r].copy EXCEPT !.state = "failed"], "error")

\* The worker process dies: the row stays as it is.
WorkerCrash(r) ==
    /\ req[r].server \in {"started", "performing"}
    /\ Failing("worker")
    /\ req' = WithServer(r, "error")
    /\ UNCHANGED <<runnerVars, row, inbox>>

-----------------------------------------------------------------------------
JobQueueInit ==
    /\ ChannelsInit
    /\ row = [j \in Job |-> NoRow]
    /\ inbox = [j \in Job |-> 0]
    /\ rpc = "down"
    /\ req = [r \in Request |-> FreeSlot]
    /\ faults = 0

Users == \E j \in Job :
    Create(j) \/ ButtonDone(j) \/ Requeue(j) \/ CronRequeue(j) \/ Autovacuum(j)

Runner ==
    \/ Listen \/ LoadJobs
    \/ \E j \in Job : ProcessNotification(j)
    \/ RunJobs \/ VisitChannels \/ TakeJob \/ SetJobEnqueued \/ AsyncHttpGet
    \/ WaitNotification

RunnerFailure == RunnerException \/ RunnerRestart

Client(r) == ClientOk(r) \/ ClientError(r) \/ ClientTimeout(r) \/ SetJobPending(r)

Worker(r) == \/ Start(r) \/ Reject(r) \/ ServeError(r) \/ Snapshot(r)
             \/ JobDone(r) \/ DoneConflict(r) \/ RetryPostpone(r) \/ JobFailed(r)
             \/ WorkerCrash(r)

TimePasses == Tick /\ UNCHANGED <<row, inbox, rpc, req, faults>>

JobQueueNext ==
    \/ Users
    \/ Runner
    \/ RunnerFailure
    \/ \E r \in Request : Client(r) \/ Worker(r)
    \/ TimePasses

JobQueueSpec == JobQueueInit /\ [][JobQueueNext]_jvars

\* The runner's thread does not stop for ever between two steps; its loop
\* empties the list of notifications before it runs jobs, so none is passed
\* over for ever; client threads and workers go on; the cron keeps running.
Fairness ==
    /\ WF_jvars(Listen) /\ WF_jvars(LoadJobs)
    /\ \A j \in Job : SF_jvars(ProcessNotification(j))
    /\ SF_jvars(RunJobs) /\ WF_jvars(VisitChannels) /\ WF_jvars(TakeJob)
    /\ WF_jvars(SetJobEnqueued) /\ WF_jvars(AsyncHttpGet) /\ WF_jvars(WaitNotification)
    /\ \A r \in Request :
         /\ WF_jvars(ClientOk(r)) /\ WF_jvars(ClientError(r)) /\ WF_jvars(SetJobPending(r))
         /\ WF_jvars(Start(r) \/ Reject(r)) /\ WF_jvars(Snapshot(r))
         /\ WF_jvars(JobDone(r) \/ DoneConflict(r) \/ RetryPostpone(r) \/ JobFailed(r))
    /\ \A j \in Job : WF_jvars(CronRequeue(j) /\ ~Served(j))
    /\ SF_jvars(TimePasses)

FairJobQueueSpec == JobQueueSpec /\ Fairness

-----------------------------------------------------------------------------
JobQueueTypeOK ==
    /\ ChannelsTypeOK
    /\ row \in [Job -> Row]
    /\ inbox \in [Job -> 0 .. MaxCopies]
    /\ rpc \in RunnerPC
    /\ req \in [Request -> Slot]
    /\ faults \in 0 .. MaxFaults

Busy(j) == row[j].state \in {"enqueued", "started"}
Performs(r, j) == req[r].job = j /\ req[r].server \in {"started", "performing"}
Mirroring == rpc \notin {"down", "listening"}

\* The table never shows more jobs enqueued or started than the root channel
\* has capacity, through exceptions and restarts of the runner, which rebuilds
\* its channels from the table, and late, merged or reordered notifications.
RootCapacityInTable ==
    Capacity[root] # 0 => Cardinality({j \in Job : Busy(j)}) <= Capacity[root]

\* At most one worker performs a job, however often the job was sent to the
\* server: the state is checked and changed under the row lock, and neither a
\* late set_job_pending nor the cron nor the runner gives away a started job.
OneExecutor ==
    \A r, s \in Request : \A j \in Job : Performs(r, j) /\ Performs(s, j) => r = s

\* A started job leaves its state by its own worker only (or is deleted, see
\* autovacuum): set_job_pending of an earlier request, the cron and the runner's
\* set_job_enqueued never take it from under the worker.
StartedLeftByWorkerOnly ==
    [][\A j \in Job :
         row[j].state = "started" /\ row'[j].state \notin {"started", "deleted"}
         => \E r \in Request : Performs(r, j) /\ ~Performs(r, j)']_jvars

\* Once every notification of a job is processed the channels show its row: a
\* busy job holds a slot in each channel down to the root, a pending one waits
\* and holds none in the root, a failed one blocks its own channel only, a
\* finished or deleted one is nowhere.  No slot leaks and no job is forgotten.
MirrorsTable ==
    Mirroring => \A j \in Job :
        inbox[j] = 0 /\ yielded # j =>
        LET own == Data(j).channel IN
        CASE Busy(j) -> \A c \in Up[own] : j \in chan[c].running
          [] row[j].state = "pending" ->
               /\ \E c \in Up[own] : InQueue(chan[c], j)
               /\ j \notin chan[root].running
          [] row[j].state = "failed" ->
               j \in chan[own].failed /\ \A c \in Channel \ {own} : ~Present(j, c)
          [] OTHER -> \A c \in Channel : ~Present(j, c)

\* "the final state is done" (job.py): a job that is done stays done until it
\* is deleted; users requeue failed jobs only.
DoneIsFinal ==
    [][\A j \in Job : row[j].state = "done" => row'[j].state \in {"done", "deleted"}]_jvars

\* Every pending job is served: a worker starts it, or somebody sets it done.
PendingIsServed ==
    \A j \in Job : row[j].state = "pending"
                   ~> row[j].state \in {"started", "done", "failed", "deleted"}

\* No job stays enqueued: a request that was never sent, was lost or died
\* before the job started is made up for by its client thread or by the cron.
EnqueuedIsLeft == \A j \in Job : row[j].state = "enqueued" ~> row[j].state # "enqueued"
=============================================================================
