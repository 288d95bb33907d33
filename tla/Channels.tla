------------------------------ MODULE Channels ------------------------------
(***************************************************************************)
(* The in-memory job channels of the job runner: ChannelManager, Channel,  *)
(* ChannelQueue and ChannelJob of queue_job/jobrunner/channels.py.         *)
(*                                                                         *)
(* The runner's single thread tells the manager what the database says of  *)
(* a job (notify, remove_job, remove_db) and asks for the jobs to run      *)
(* (get_jobs_to_run).  That generator visits the channels, children before *)
(* parents, moves jobs towards the root, and hands a job that leaves the   *)
(* root to the runner, which acts on it before the generator resumes: the  *)
(* visit is modelled one yield a step.                                     *)
(*                                                                         *)
(* The order of a PriorityQueue is used as PriorityQueue.tla states it.    *)
(***************************************************************************)
EXTENDS Integers, FiniteSets

CONSTANTS
    Job,          \* job uuids
    Channel,      \* the configured channels
    root,         \* the root channel
    Parent,       \* Parent[c]: the parent of a channel other than the root
    Up,           \* Up[c]: c, its parent, the parent of that, ... the root
    ChannelName,  \* the channel names found in the table (some not configured)
    Capacity,     \* Capacity[c]: 0 stands for None, no limit
    Sequential,   \* the channels with the sequential option
    Throttle,     \* Throttle[c]: seconds between two yields, 0 for no throttle
    Seq,          \* Seq[j]: (date_created, seq) of j, the last sorting keys
    Priority,     \* the priorities in use
    Eta,          \* the etas in use, as epoch seconds; 0 stands for None
    RecoveryDelay,  \* ERROR_RECOVERY_DELAY: seconds slept after an exception
    MaxTime,      \* bound on the clock
    NoJob, NoChannel

ASSUME TreeAssumption ==
    /\ root \in Channel /\ NoChannel \notin Channel
    /\ Parent \in [Channel \ {root} -> Channel]
    /\ Up \in [Channel -> SUBSET Channel]
    /\ Up[root] = {root}
    /\ \A c \in Channel \ {root} : c \notin Up[Parent[c]] /\ Up[c] = {c} \cup Up[Parent[c]]
    /\ \A c \in Channel :
         /\ root \in Up[c]
         /\ \A a \in Up[c] : Up[a] \subseteq Up[c]
         /\ \A a, b \in Up[c] : a \in Up[b] \/ b \in Up[a]

ASSUME ConfigAssumption ==
    /\ NoJob \notin Job
    /\ Capacity \in [Channel -> Nat] /\ Throttle \in [Channel -> Nat]
    /\ Sequential \subseteq Channel
    /\ \A c \in Sequential : Capacity[c] = 1     \* configure() raises otherwise
    /\ Seq \in [Job -> Nat]
    /\ \A i, j \in Job : i # j => Seq[i] # Seq[j]
    /\ Priority \subseteq Nat /\ Eta \subseteq Nat
    /\ RecoveryDelay \in Nat /\ MaxTime \in Nat

VARIABLES
    chan,        \* chan[c]: the queue, eta queue, running and failed sets of c
    job,         \* job[j]: the ChannelJob of uuid j, NoJob when there is none
    pauseUntil,  \* pauseUntil[c]: _pause_until of c
    now,         \* the clock, in seconds, as the runner reads it
    todo,        \* get_jobs_to_run: channels not visited yet
    cur,         \* the channel whose generator is running
    yielded      \* the job the root's generator has handed to the runner

chanVars == <<chan, job, pauseUntil>>
visitVars == <<todo, cur, yielded>>
cvars == <<chan, job, pauseUntil, now, todo, cur, yielded>>

State == {"none", "pending", "enqueued", "started", "done", "failed"}

Place == [queue : SUBSET Job, eta : SUBSET Job,
          running : SUBSET Job, failed : SUBSET Job]
ChannelJob == [channel : Channel, priority : Priority, eta : Nat]

ASSUME NoJobAssumption == NoJob \notin ChannelJob

EmptyPlace == [queue |-> {}, eta |-> {}, running |-> {}, failed |-> {}]

\* get_channel_by_name, and the ChannelNotFound branch of notify: a name that
\* is not configured is the root channel.
Resolve(name) == IF name \in Channel THEN name ELSE root

Children(c) == {d \in Channel \ {root} : Parent[d] = c}

-----------------------------------------------------------------------------
(* Channel: where a job sits.  Each operator returns the new value of chan. *)

\* The jobs of S leave every structure of one channel.
Without(p, S) == [queue |-> p.queue \ S, eta |-> p.eta \ S,
                  running |-> p.running \ S, failed |-> p.failed \ S]

\* Channel.remove: it climbs to the root.
RemoveFrom(ch, j, c) ==
    [d \in Channel |-> IF d \in Up[c] THEN Without(ch[d], {j}) ELSE ch[d]]

\* ChannelQueue.add
Enqueue(p, j, eta) == IF eta # 0 THEN [p EXCEPT !.eta = @ \cup {j}]
                                 ELSE [p EXCEPT !.queue = @ \cup {j}]

InQueue(p, j) == j \in p.queue \/ j \in p.eta

\* Mutant: a finished job keeps its slots.
Mutant_SetDone(ch, j, c) == ch

SetDone(ch, j, c) == RemoveFrom(ch, j, c)

\* Mutant: set_pending does not remove the job from the parent channels.
Mutant_SetPending(ch, j, c, eta) ==
    IF InQueue(ch[c], j)
    THEN ch
    ELSE [ch EXCEPT ![c] = Enqueue(Without(@, {j}), j, eta)]

SetPending(ch, j, c, eta) ==
    IF InQueue(ch[c], j)
    THEN ch
    ELSE [RemoveFrom(ch, j, c) EXCEPT ![c] = Enqueue(@, j, eta)]

\* The channels set_running reaches: it climbs until the first channel where
\* the job runs already.
Climbed(ch, j, c) ==
    {a \in Up[c] : \A b \in Up[c] : a \in Up[b] => j \notin ch[b].running}

\* Mutant: set_running leaves the job in the queues.
Mutant_SetRunning(ch, j, c) ==
    [d \in Channel |-> IF d \in Climbed(ch, j, c)
                       THEN [ch[d] EXCEPT !.running = @ \cup {j}]
                       ELSE ch[d]]

SetRunning(ch, j, c) ==
    [d \in Channel |-> IF d \in Climbed(ch, j, c)
                       THEN [Without(ch[d], {j}) EXCEPT !.running = @ \cup {j}]
                       ELSE ch[d]]

SetFailed(ch, j, c) ==
    IF j \in ch[c].failed
    THEN ch
    ELSE [RemoveFrom(ch, j, c) EXCEPT ![c].failed = @ \cup {j}]

HasCapacity(c) ==
    /\ c \in Sequential => chan[c].failed = {}
    /\ Capacity[c] # 0 => Cardinality(chan[c].running) < Capacity[c]

-----------------------------------------------------------------------------
(* ChannelManager: notify, remove_job, remove_db.                          *)

\* What notify makes of chan for a job whose row says r (a ChannelJob) and st.
\* A job whose channel, priority or eta has changed is removed first.
Notified(j, r, st) ==
    LET moved == job[j] # NoJob /\ job[j] # r
        base  == IF moved THEN RemoveFrom(chan, j, job[j].channel) ELSE chan
    IN  CASE st \in {"none", "done"} -> SetDone(base, j, r.channel)
          [] st = "pending" -> SetPending(base, j, r.channel, r.eta)
          [] st \in {"enqueued", "started"} -> SetRunning(base, j, r.channel)
          [] st = "failed" -> SetFailed(base, j, r.channel)

\* After notify the manager holds a ChannelJob equal to r.  A finished job is
\* referenced by no channel and its ChannelJob is garbage (the dictionary is a
\* weak one), or not yet: it makes no difference to a later notify.
Notify(j, r, st) ==
    /\ chan' = Notified(j, r, st)
    /\ job' = [job EXCEPT ![j] = IF st \in {"none", "done"} THEN NoJob ELSE r]
    /\ UNCHANGED pauseUntil

RemoveJob(j) ==
    /\ chan' = IF job[j] = NoJob THEN chan ELSE RemoveFrom(chan, j, job[j].channel)
    /\ job' = [job EXCEPT ![j] = NoJob]
    /\ UNCHANGED pauseUntil

\* Mutant: remove_db clears the channel of each job, not its parents.
Mutant_RemoveDb ==
    /\ chan' = [c \in Channel |->
                  Without(chan[c], {j \in Job : job[j] # NoJob /\ c = job[j].channel})]
    /\ job' = [j \in Job |-> NoJob]
    /\ UNCHANGED pauseUntil

\* remove_db for every database, as close_databases does after an exception.
\* It removes each job from its own channel upwards; the throttle pauses stay.
RemoveDb ==
    /\ chan' = [c \in Channel |->
                  Without(chan[c], {j \in Job : job[j] # NoJob /\ c \in Up[job[j].channel]})]
    /\ job' = [j \in Job |-> NoJob]
    /\ UNCHANGED pauseUntil

-----------------------------------------------------------------------------
(* ChannelQueue.pop and Channel.get_jobs_to_run.                           *)

\* ChannelJob.__lt__ for jobs without an eta, and sorting_key_ignoring_eta.
Before(i, j) == \/ job[i].priority < job[j].priority
                \/ job[i].priority = job[j].priority /\ Seq[i] < Seq[j]

EtaBefore(i, j) == \/ job[i].eta < job[j].eta
                   \/ job[i].eta = job[j].eta /\ Before(i, j)

\* pop() first moves the jobs whose eta is past to the ordinary queue ...
Due(c) == {j \in chan[c].eta : job[j].eta <= now}
Ready(c) == chan[c].queue \cup Due(c)
Later(c) == chan[c].eta \ Due(c)

\* ... and clears their eta.
EtaCleared(S) ==
    [j \in Job |-> IF j \in S /\ job[j] # NoJob THEN [job[j] EXCEPT !.eta = 0] ELSE job[j]]

FirstReady(c) == {j \in Ready(c) : \A i \in Ready(c) \ {j} : Before(j, i)}
FirstLater(c) == {j \in Later(c) : \A i \in Later(c) \ {j} : EtaBefore(j, i)}

\* A sequential queue waits when its first job with an eta would, eta ignored,
\* come before its first job without one.
SequentialWait(c) ==
    /\ c \in Sequential
    /\ \E e \in FirstLater(c), j \in FirstReady(c) : Before(e, j)

\* The jobs pop() may return (one, or none when the queue is empty or waits).
Poppable(c) == IF SequentialWait(c) THEN {} ELSE FirstReady(c)

Idle == todo = {} /\ cur = NoChannel

\* The runner asks for jobs to run: every channel is to be visited.
StartVisit ==
    /\ Idle
    /\ todo' = Channel
    /\ UNCHANGED <<chan, job, pauseUntil, now, cur, yielded>>

Paused(c) == Throttle[c] # 0 /\ pauseUntil[c] # 0 /\ now < pauseUntil[c]

\* Mutant: the queue of a channel is emptied before its children have filled it.
Mutant_EnterBeforeChildren(c) ==
    /\ cur = NoChannel
    /\ c \in todo
    /\ todo' = todo \ {c}
    /\ \/ Paused(c) /\ UNCHANGED <<cur, pauseUntil>>
       \/ /\ ~Paused(c)
          /\ cur' = c
          /\ pauseUntil' = [pauseUntil EXCEPT ![c] = 0]
    /\ UNCHANGED <<chan, job, now, yielded>>

\* Mutant: a pause that is over is not forgotten.
Mutant_EnterStaysPaused(c) ==
    /\ cur = NoChannel
    /\ c \in todo /\ Children(c) \cap todo = {}
    /\ todo' = todo \ {c}
    /\ cur' = IF Paused(c) THEN cur ELSE c
    /\ UNCHANGED <<chan, job, pauseUntil, now, yielded>>

\* The generator of c starts once those of its children are exhausted.  In a
\* pause it returns at once; a pause that is over is forgotten.
EnterChannel(c) ==
    /\ cur = NoChannel
    /\ c \in todo /\ Children(c) \cap todo = {}
    /\ todo' = todo \ {c}
    /\ \/ Paused(c) /\ UNCHANGED <<cur, pauseUntil>>
       \/ /\ ~Paused(c)
          /\ cur' = c
          /\ pauseUntil' = IF Throttle[c] = 0 THEN pauseUntil
                           ELSE [pauseUntil EXCEPT ![c] = 0]
    /\ UNCHANGED <<chan, job, now, yielded>>

\* Mutant: the generator returns without a pause.
Mutant_ThrottledNoPause(c) ==
    /\ cur' = IF Throttle[c] = 0 THEN cur ELSE NoChannel
    /\ UNCHANGED pauseUntil

\* After a yield a throttled channel pauses and its generator returns.
Throttled(c) ==
    IF Throttle[c] = 0
    THEN UNCHANGED <<pauseUntil, cur>>
    ELSE pauseUntil' = [pauseUntil EXCEPT ![c] = now + Throttle[c]] /\ cur' = NoChannel

\* Mutant: the popped job does not count as running.
Mutant_AfterPop(c, S) == [chan[c] EXCEPT !.queue = Ready(c) \ S, !.eta = Later(c)]

\* The place of c after a pop: due jobs moved, S of them popped and running.
AfterPop(c, S) == [chan[c] EXCEPT !.queue = Ready(c) \ S,
                                  !.eta = Later(c),
                                  !.running = @ \cup S]

\* c yields j to its parent, which adds it to its own queue.
YieldToParent(c, j) ==
    /\ cur = c /\ c # root
    /\ HasCapacity(c)
    /\ j \in Poppable(c)
    /\ job' = EtaCleared(Due(c))
    /\ chan' = [chan EXCEPT ![c] = AfterPop(c, {j}),
                            ![Parent[c]] = Enqueue(@, j, job'[j].eta)]
    /\ Throttled(c)
    /\ UNCHANGED <<now, todo, yielded>>

\* The root yields j to the runner and is suspended until the runner is done
\* with it: the throttle is applied by Resume.
YieldToRunner(j) ==
    /\ cur = root /\ yielded = NoJob
    /\ HasCapacity(root)
    /\ j \in Poppable(root)
    /\ job' = EtaCleared(Due(root))
    /\ chan' = [chan EXCEPT ![root] = AfterPop(root, {j})]
    /\ yielded' = j
    /\ UNCHANGED <<pauseUntil, now, todo, cur>>

Resume ==
    /\ yielded # NoJob
    /\ yielded' = NoJob
    /\ Throttled(root)
    /\ UNCHANGED <<chan, job, now, todo>>

\* The generator of c is exhausted: no capacity, or pop() returns None (having
\* moved the due jobs).
LeaveChannel(c) ==
    /\ cur = c /\ yielded = NoJob
    /\ \/ ~HasCapacity(c) /\ UNCHANGED <<chan, job>>
       \/ /\ HasCapacity(c)
          /\ Poppable(c) = {}
          /\ job' = EtaCleared(Due(c))
          /\ chan' = [chan EXCEPT ![c] = AfterPop(c, {})]
    /\ cur' = NoChannel
    /\ UNCHANGED <<pauseUntil, now, todo, yielded>>

\* An exception in the runner while it is idle or holds a yielded job: the
\* suspended generator is dropped, close_databases removes every job, and the
\* runner sleeps before it starts over.
Recover ==
    /\ Idle \/ yielded # NoJob
    /\ now + RecoveryDelay <= MaxTime
    /\ RemoveDb
    /\ todo' = {} /\ cur' = NoChannel /\ yielded' = NoJob
    /\ now' = now + RecoveryDelay

\* The clock moves while no visit runs: get_jobs_to_run keeps the time it was
\* given when it was called.
Tick == /\ Idle
        /\ now < MaxTime
        /\ now' = now + 1
        /\ UNCHANGED <<chan, job, pauseUntil, todo, cur, yielded>>

-----------------------------------------------------------------------------
(* The channels driven by every sequence of calls.                         *)

ChannelsInit ==
    /\ chan = [c \in Channel |-> EmptyPlace]
    /\ job = [j \in Job |-> NoJob]
    /\ pauseUntil = [c \in Channel |-> 0]
    /\ now = 0
    /\ todo = {} /\ cur = NoChannel /\ yielded = NoJob

\* The runner calls the manager only between two runs of the generator.
External ==
    /\ Idle
    /\ \E j \in Job :
         \/ \E name \in ChannelName, p \in Priority, e \in Eta \cup {0}, st \in State :
              Notify(j, [channel |-> Resolve(name), priority |-> p, eta |-> e], st)
         \/ RemoveJob(j)
    /\ UNCHANGED <<now, todo, cur, yielded>>

Visit ==
    \/ StartVisit
    \/ \E c \in Channel : EnterChannel(c) \/ LeaveChannel(c)
    \/ \E c \in Channel, j \in Job : YieldToParent(c, j)
    \/ \E j \in Job : YieldToRunner(j)
    \/ Resume

ChannelsNext == External \/ Visit \/ Recover \/ Tick

ChannelsSpec == ChannelsInit /\ [][ChannelsNext]_cvars

-----------------------------------------------------------------------------
ChannelsTypeOK ==
    /\ chan \in [Channel -> Place]
    /\ job \in [Job -> ChannelJob \cup {NoJob}]
    /\ pauseUntil \in [Channel -> Nat]
    /\ now \in Nat
    /\ todo \subseteq Channel
    /\ cur \in Channel \cup {NoChannel}
    /\ yielded \in Job \cup {NoJob}

Present(j, c) == \/ j \in chan[c].queue \/ j \in chan[c].eta
                 \/ j \in chan[c].running \/ j \in chan[c].failed

\* A job the manager knows sits only in its channel and the channels below it
\* on the way to the root, a job it does not know sits nowhere: notify and
\* remove_job, which only climb from the job's channel, leave nothing behind.
Confined ==
    \A j \in Job, c \in Channel :
        Present(j, c) => job[j] # NoJob /\ c \in Up[job[j].channel]

\* In one channel a job is in one of the four sets at most: it is never both
\* waiting for a slot of the channel and holding one.
Exclusive ==
    \A j \in Job, c \in Channel :
        /\ ~(j \in chan[c].queue /\ j \in chan[c].eta)
        /\ ~(InQueue(chan[c], j) /\ j \in chan[c].running)
        /\ ~(InQueue(chan[c], j) /\ j \in chan[c].failed)
        /\ ~(j \in chan[c].running /\ j \in chan[c].failed)

\* A job that waits or has failed in a channel takes no place in the channels
\* further down to the root: no slot of theirs leaks to a job that is not
\* running, whatever sequence of notifications and yields got it there.
AbsentAbove ==
    \A j \in Job, c \in Channel :
        InQueue(chan[c], j) \/ j \in chan[c].failed
        => \A a \in Up[c] \ {c} : ~Present(j, a)

\* A job that has reached a channel runs in every channel it came through: the
\* capacity of a subchannel counts its jobs further down.
BackedBelow ==
    \A j \in Job, a \in Channel :
        Present(j, a) => \A c \in Up[job[j].channel] :
                            a \in Up[c] /\ a # c => j \in chan[c].running
=============================================================================
