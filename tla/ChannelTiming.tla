--------------------------- MODULE ChannelTiming ---------------------------
(***************************************************************************)
(* The channels as the runner's inner loop uses them over time             *)
(* (QueueJobRunner.run in queue_job/jobrunner/runner.py): notifications    *)
(* are processed, the jobs to run are taken, then the thread sleeps in     *)
(* select() until the wakeup time the channels asked for, the next         *)
(* notification, or SELECT_TIMEOUT (which may end the sleep at any time).  *)
(***************************************************************************)
EXTENDS Channels, FiniteSetsExt

VARIABLES
    stage,      \* "notify", "run" or "wait": the three calls of the inner loop
    wakeup,     \* the wakeup time select() waits for, 0 for none
    quiet,      \* nothing was notified since wakeup was computed (history)
    lastYield   \* lastYield[c]: when c last yielded a job, -1 before (history)

tvars == <<cvars, stage, wakeup, quiet, lastYield>>

\* Mutant: get_wakeup_time does not ask the children.
Mutant_Consulted == {root}

\* get_wakeup_time looks at a channel when no channel below it, towards the
\* root, is full or paused.
Consulted == {c \in Channel : \A a \in Up[c] \ {c} : HasCapacity(a) /\ pauseUntil[a] = 0}

\* A full channel asks for nothing, a paused one for the end of its pause, any
\* other for the eta of its first job with an eta.
WakeupOf(c) == IF ~HasCapacity(c) THEN {}
               ELSE IF pauseUntil[c] # 0 THEN {pauseUntil[c]}
               ELSE {job[j].eta : j \in chan[c].eta}

WakeupTime == LET times == UNION {WakeupOf(c) : c \in Consulted}
              IN  IF times = {} THEN 0 ELSE Min(times)

TimingInit == /\ ChannelsInit
              /\ stage = "notify"
              /\ wakeup = 0
              /\ quiet = FALSE
              /\ lastYield = [c \in Channel |-> -1]

ProcessNotification == /\ stage = "notify"
                       /\ External
                       /\ quiet' = FALSE
                       /\ UNCHANGED <<stage, wakeup, lastYield>>

RunJobs == /\ stage = "notify"
           /\ StartVisit
           /\ stage' = "run"
           /\ UNCHANGED <<wakeup, quiet, lastYield>>

YieldStep == /\ \/ \E c \in Channel, j \in Job :
                     YieldToParent(c, j) /\ lastYield' = [lastYield EXCEPT ![c] = now]
                \/ \E j \in Job :
                     YieldToRunner(j) /\ lastYield' = [lastYield EXCEPT ![root] = now]
             /\ UNCHANGED <<stage, wakeup, quiet>>

OtherStep == /\ \/ \E c \in Channel : EnterChannel(c) \/ LeaveChannel(c)
                \/ Resume
             /\ UNCHANGED <<stage, wakeup, quiet, lastYield>>

WaitNotification == /\ stage = "run" /\ Idle
                    /\ stage' = "wait"
                    /\ wakeup' = WakeupTime
                    /\ quiet' = TRUE
                    /\ UNCHANGED <<cvars, lastYield>>

\* select() returns; or a notification is there already and it was not called.
Wake == /\ \/ stage = "wait"
           \/ stage = "run" /\ Idle
        /\ stage' = "notify"
        /\ UNCHANGED <<cvars, wakeup, quiet, lastYield>>

\* The outer loop closes the databases and starts over.
HandleException == /\ Recover
                   /\ stage' = "notify"
                   /\ quiet' = FALSE
                   /\ UNCHANGED <<wakeup, lastYield>>

Sleep == /\ stage = "wait"
         /\ Tick
         /\ UNCHANGED <<stage, wakeup, quiet, lastYield>>

TimingNext == \/ ProcessNotification
              \/ RunJobs
              \/ YieldStep
              \/ OtherStep
              \/ WaitNotification
              \/ Wake
              \/ HandleException
              \/ Sleep

TimingSpec == TimingInit /\ [][TimingNext]_tvars

-----------------------------------------------------------------------------
TimingTypeOK == /\ stage \in {"notify", "run", "wait"}
                /\ wakeup \in Nat
                /\ quiet \in BOOLEAN
                /\ lastYield \in [Channel -> Nat \cup {-1}]

\* When a run is over no job is stranded: a channel where one waits and is due
\* is itself full, blocked by a failed job, paused, or waiting for an earlier
\* job of its sequence; one visit moves a job through as many channels as it can.
NoStrandedJob ==
    stage = "run" /\ Idle =>
        \A c \in Channel : Ready(c) # {} => ~HasCapacity(c) \/ Paused(c) \/ SequentialWait(c)

\* The wakeup time the channels ask for after a run is in the future ("if
\* timeout remains a large negative number, it is most probably a bug",
\* runner.py): the runner never spins on a pause or an eta that is over in a
\* channel it cannot take a job from.
WakeupInFuture == stage = "run" /\ Idle => WakeupTime = 0 \/ WakeupTime > now

\* No wakeup is missed: while nothing is notified, no job can leave the root
\* before the time get_wakeup_time asked for; sleeping until then delays no
\* job, however many channels with their own pauses, etas and capacities the
\* job has to cross.
NoEarlyYield ==
    [][yielded = NoJob /\ yielded' # NoJob
       => ~(quiet /\ (wakeup = 0 \/ now < wakeup))]_tvars

\* "it yields no job until at least throttle seconds have elapsed since the
\* previous yield" (Channel.get_jobs_to_run), across exceptions too, which
\* empty the channels but keep their pauses: for every channel but the root.
Spaced(c) == lastYield[c] # -1 => now - lastYield[c] >= Throttle[c]

ThrottleSpacing ==
    [][\A c \in Channel \ {root}, j \in Job : YieldToParent(c, j) => Spaced(c)]_tvars

\* The invariant of the loop: its types, and a wakeup time that is ahead.
TimingInv == TimingTypeOK /\ ChannelsTypeOK /\ WakeupInFuture
=============================================================================
