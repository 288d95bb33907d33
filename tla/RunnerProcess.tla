---------------------------- MODULE RunnerProcess ----------------------------
(***************************************************************************)
(* How the job runner is started, stopped and started again: the patches   *)
(* of Odoo's servers in jobrunner/__init__.py and the outer loops of       *)
(* QueueJobRunner.run.  In a threaded server the runner is a thread of it, *)
(* started and stopped once; in a prefork server it is a child process     *)
(* that the parent spawns whenever it has none.  Either way stop() is      *)
(* called by another thread than the one that runs run().                  *)
(*                                                                         *)
(* A runner is constructed, and its channels configured (ChannelConfig),   *)
(* by the server's thread before the runner's starts; a child process that *)
(* is spawned again reads its configuration again.                         *)
(*                                                                         *)
(* What the runner does to jobs is JobQueue's and ChannelTiming's subject: *)
(* here a visit hands out a number of jobs.                                *)
(***************************************************************************)
EXTENDS ChannelConfig, FiniteSets

CONSTANTS
    Proc,         \* slots for runner threads and for pids of child processes
    MaxJobs,      \* bound on the jobs of one visit
    MaxFollowed   \* bound: a runner is started for texts of this length only

ASSUME ProcessAssumption == MaxJobs \in Nat /\ MaxFollowed \in Nat

VARIABLES
    threaded,   \* the server is a ThreadedServer, else a PreforkServer
    server,     \* starting, up, stopping, stopped
    runners,    \* runner_thread or server.jobrunner: what the server knows of
    pc,         \* where each runner's thread is; a process is dead until its parent sees it
    asked,      \* a signal, or threaded_stop, calls stop()
    flag, pipe, \* _stop; the byte in _stop_pipe
    notified,   \* a database connection has a notification
    jobs, late  \* jobs left in the visit; jobs sent since _stop was set

zvars == <<threaded, server, runners, pc, asked, flag, pipe, notified, jobs, late>>
pvars == <<fvars, zvars>>
thread == <<threaded, server, runners, asked, flag, pipe>>
world == <<threaded, server, runners, pc, notified, jobs, late>>

Running == {"delay", "outer", "init", "inner", "jobs", "send", "wait", "select", "recover", "close"}

Goto(p, from, to) == pc[p] = from /\ pc' = [pc EXCEPT ![p] = to]

-----------------------------------------------------------------------------
(* QueueJobRunner.run.                                                     *)

StartDelay(p) == Goto(p, "delay", "outer") /\ UNCHANGED <<thread, notified, jobs, late>>

OuterLoop(p) ==
    /\ Goto(p, "outer", IF flag[p] THEN "close" ELSE "init")
    /\ UNCHANGED <<thread, notified, jobs, late>>

\* Every job that is not done is read: there is something to hand out.
InitializeDatabases(p) ==
    /\ Goto(p, "init", "inner")
    /\ notified' = [notified EXCEPT ![p] = FALSE]
    /\ UNCHANGED <<thread, jobs, late>>

\* The inner loop: process_notifications, then get_jobs_to_run.
ProcessNotifications(p) ==
    /\ Goto(p, "inner", IF flag[p] THEN "outer" ELSE "jobs")
    /\ notified' = [notified EXCEPT ![p] = @ /\ flag[p]]
    /\ \E n \in 0 .. MaxJobs : jobs' = [jobs EXCEPT ![p] = IF flag[p] THEN 0 ELSE n]
    /\ UNCHANGED <<thread, late>>

\* Mutant: run_jobs does not look at _stop.
Mutant_RunJobs(p) ==
    /\ Goto(p, "jobs", IF jobs[p] = 0 THEN "wait" ELSE "send")
    /\ UNCHANGED <<thread, notified, jobs, late>>

RunJobs(p) ==
    /\ Goto(p, "jobs", IF jobs[p] = 0 \/ flag[p] THEN "wait" ELSE "send")
    /\ UNCHANGED <<thread, notified, jobs, late>>

\* set_job_enqueued and _async_http_get.
SendJob(p) ==
    /\ Goto(p, "send", "jobs")
    /\ jobs' = [jobs EXCEPT ![p] = @ - 1]
    /\ late' = [late EXCEPT ![p] = IF flag[p] THEN @ + 1 ELSE 0]
    /\ UNCHANGED <<thread, notified>>

WaitNotification(p) ==
    /\ Goto(p, "wait", IF notified[p] THEN "inner" ELSE "select")
    /\ UNCHANGED <<thread, notified, jobs, late>>

\* select() ends with a notification, the byte in the pipe or its timeout; a
\* pipe that is polled like a connection would raise.
Wakes(p) == notified[p] \/ pipe[p]

SelectEnds(p) ==
    /\ Goto(p, "select", IF pipe[p] /\ ~flag[p] THEN "recover" ELSE "inner")
    /\ UNCHANGED <<thread, notified, jobs, late>>

\* An exception that is no OSError, of the database for one.
Exception(p) ==
    /\ \E from \in {"init", "inner", "jobs", "send", "select"} : Goto(p, from, "recover")
    /\ jobs' = [jobs EXCEPT ![p] = 0]
    /\ UNCHANGED <<thread, notified, late>>

\* requests' errors are OSErrors, which is what select.error is: e[0] raises a
\* TypeError in the handler, out of run().
RequestError(p) ==
    /\ Goto(p, "send", "ended")
    /\ UNCHANGED <<thread, notified, jobs, late>>

\* close_databases and the sleep.
Recovered(p) == Goto(p, "recover", "outer") /\ UNCHANGED <<thread, notified, jobs, late>>

CloseDatabases(p) == Goto(p, "close", "ended") /\ UNCHANGED <<thread, notified, jobs, late>>

Step(p) ==
    \/ StartDelay(p) \/ OuterLoop(p) \/ InitializeDatabases(p) \/ ProcessNotifications(p)
    \/ RunJobs(p) \/ SendJob(p) \/ WaitNotification(p) \/ (Wakes(p) /\ SelectEnds(p))
    \/ Recovered(p) \/ CloseDatabases(p)

-----------------------------------------------------------------------------
(* stop(), from the server's thread or a signal handler.                   *)

SetStop(p) ==
    /\ asked[p] /\ ~flag[p]
    /\ flag' = [flag EXCEPT ![p] = TRUE]
    /\ UNCHANGED <<world, asked, pipe>>

\* Mutant: only the flag is set.
Mutant_WriteStopPipe(p) == FALSE /\ UNCHANGED zvars

WriteStopPipe(p) ==
    /\ flag[p] /\ ~pipe[p]
    /\ pipe' = [pipe EXCEPT ![p] = TRUE]
    /\ UNCHANGED <<world, asked, flag>>

-----------------------------------------------------------------------------
(* The servers.                                                            *)

\* Mutant: a runner is spawned whatever server.jobrunner holds.
Mutant_StartRunner(p) ==
    /\ status = "ready" /\ server = "up"
    /\ pc[p] = "none"
    /\ server' = "up" /\ runners' = runners \cup {p}
    /\ pc' = [pc EXCEPT ![p] = "delay"]
    /\ UNCHANGED <<threaded, asked, flag, pipe, notified, jobs, late>>

\* threaded_start, prefork_process_spawn: the runner has been constructed.
StartRunner(p) ==
    /\ status = "ready"
    /\ server = IF threaded THEN "starting" ELSE "up"
    /\ runners = {} /\ pc[p] = "none"
    /\ server' = "up" /\ runners' = {p}
    /\ pc' = [pc EXCEPT ![p] = "delay"]
    /\ UNCHANGED <<threaded, asked, flag, pipe, notified, jobs, late>>

\* A process ends with its run(), or is killed.
Dies(p) ==
    /\ ~threaded /\ pc[p] \in Running \cup {"ended"}
    /\ pc' = [pc EXCEPT ![p] = "dead"]
    /\ UNCHANGED <<thread, notified, jobs, late>>

Forget(p) ==
    /\ pc' = [pc EXCEPT ![p] = "none"]
    /\ asked' = [asked EXCEPT ![p] = FALSE] /\ flag' = [flag EXCEPT ![p] = FALSE]
    /\ pipe' = [pipe EXCEPT ![p] = FALSE] /\ notified' = [notified EXCEPT ![p] = FALSE]
    /\ jobs' = [jobs EXCEPT ![p] = 0] /\ late' = [late EXCEPT ![p] = 0]

\* The next runner is constructed from the same text.
Unconfigured == left' = text /\ conf' = RootOnly /\ status' = "starting" /\ UNCHANGED text

\* Mutant: jobrunner keeps the pid.
Mutant_WorkerPop(p) ==
    pc[p] = "dead" /\ Forget(p) /\ Unconfigured /\ UNCHANGED <<threaded, server, runners>>

\* prefork_worker_pop, for a child that waitpid has returned.
WorkerPop(p) ==
    /\ pc[p] = "dead"
    /\ runners' = runners \ {p}
    /\ Forget(p)
    /\ Unconfigured
    /\ UNCHANGED <<threaded, server>>

\* A signal for one child; the server's own stop calls stop() or signals all.
Signal(p) ==
    /\ ~threaded /\ server = "up" /\ p \in runners /\ pc[p] # "dead"
    /\ asked' = [asked EXCEPT ![p] = TRUE]
    /\ UNCHANGED <<world, flag, pipe>>

StopServer ==
    /\ server = "up"
    /\ server' = "stopping"
    /\ asked' = [p \in Proc |-> asked[p] \/ p \in runners]
    /\ UNCHANGED <<threaded, runners, pc, flag, pipe, notified, jobs, late>>

\* threaded_stop joins the thread; the prefork server waits for its children.
ServerStopped ==
    /\ server = "stopping"
    /\ IF threaded THEN \A p \in runners : pipe[p] /\ pc[p] = "ended" ELSE runners = {}
    /\ server' = "stopped" /\ runners' = {}
    /\ UNCHANGED <<threaded, pc, asked, flag, pipe, notified, jobs, late>>

Notification(p) ==
    /\ pc[p] \in Running /\ ~notified[p]
    /\ notified' = [notified EXCEPT ![p] = TRUE]
    /\ UNCHANGED <<thread, pc, jobs, late>>

-----------------------------------------------------------------------------
ProcessInit ==
    /\ ChannelConfigInit
    /\ threaded \in BOOLEAN
    /\ server = IF threaded THEN "starting" ELSE "up"
    /\ runners = {}
    /\ pc = [p \in Proc |-> "none"]
    /\ asked = [p \in Proc |-> FALSE] /\ flag = asked /\ pipe = asked /\ notified = asked
    /\ jobs = [p \in Proc |-> 0] /\ late = jobs

\* The constructor of the runner, in the thread of the server.
ConfigureChannels == runners = {} /\ server \in {"starting", "up"} /\ ChannelConfigNext

Followed == Len(text) <= MaxFollowed

Lives(p) ==
    \/ Step(p) \/ SelectEnds(p) \/ Exception(p) \/ RequestError(p)
    \/ SetStop(p) \/ WriteStopPipe(p)
    \/ (Followed /\ StartRunner(p)) \/ Dies(p) \/ Signal(p) \/ Notification(p)

ProcessNext ==
    \/ ConfigureChannels /\ UNCHANGED zvars
    \/ Followed /\ status # "configuring" /\ StopServer /\ UNCHANGED fvars
    \/ ServerStopped /\ UNCHANGED fvars
    \/ \E p \in Proc : Lives(p) /\ UNCHANGED fvars
    \/ \E p \in Proc : WorkerPop(p)

\* The threads go on, a select() whose timeout is 60 hours excepted; the parent
\* polls for children that have ended and that are missing; nothing makes
\* exceptions, signals, notifications or kills happen.
ProcessFairness ==
    /\ WF_fvars(ConfigureChannels) /\ WF_zvars(ServerStopped)
    /\ \A p \in Proc :
         /\ WF_zvars(Step(p)) /\ WF_zvars(SetStop(p)) /\ WF_zvars(WriteStopPipe(p))
         /\ WF_zvars(Followed /\ StartRunner(p)) /\ WF_pvars(WorkerPop(p))
         /\ WF_zvars(pc[p] = "ended" /\ Dies(p))

ProcessSpec == ProcessInit /\ [][ProcessNext]_pvars
FairProcessSpec == ProcessSpec /\ ProcessFairness

-----------------------------------------------------------------------------
ProcessTypeOK ==
    /\ threaded \in BOOLEAN
    /\ server \in {"starting", "up", "stopping", "stopped"} /\ runners \subseteq Proc
    /\ pc \in [Proc -> Running \cup {"none", "ended", "dead"}]
    /\ {jobs, late} \subseteq [Proc -> 0 .. MaxJobs]
    /\ {asked, flag, pipe, notified} \subseteq [Proc -> BOOLEAN]

\* No two runners at once, which would each hand out the capacity of every
\* channel: a runner that is still there, or dead and not yet seen, is the one
\* that the server knows of, until the server itself has stopped.
OneRunner ==
    /\ Cardinality({p \in Proc : pc[p] # "none"}) <= 1
    /\ server # "stopped" => {p \in Proc : pc[p] # "none"} \subseteq runners

\* "graceful stop requested": at most the job past its look at _stop is still
\* handed out, however many there are in the visit.
OneJobAfterStop == \A p \in Proc : late[p] <= 1

\* "wakeup the select() in wait_notification": a stop ends, wherever the runner
\* is when it comes, even asleep with no notification to expect.
StopEnds == server = "stopping" ~> server = "stopped"

\* "if not server.jobrunner": a child that crashed, or that a signal ended, is
\* replaced as long as the server is up.
Replaced == \A p \in Proc : pc[p] = "dead" ~> server # "up" \/ \E q \in Proc : pc[q] \in Running

\* The invariant of the process: its types, and one runner.
ProcessInv == ProcessTypeOK /\ OneRunner
=============================================================================
