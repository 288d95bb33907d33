------------------------- MODULE ChannelTimingProofs -------------------------
(***************************************************************************)
(* What the runner's loop makes of the channels over time, proved for      *)
(* every tree, configuration and sequence of notifications (TimingSpec).   *)
(*                                                                         *)
(* Two invariants carry the proof.  VisitInv follows one visit: the        *)
(* channels are visited children first, and one that has been visited is   *)
(* exhausted and stays so until the visit is over.  QuietInv follows the   *)
(* time after it: until a notification comes or the wakeup time is         *)
(* reached, every channel the wakeup time was asked from is held back.     *)
(***************************************************************************)
EXTENDS ChannelTiming, ChannelsProofs, WellFoundedInduction

\* A visited channel cannot yield any more in this visit: it is full, in a
\* pause, or has no job that is due and may come first.
Exhausted(c) ==
    \/ ~HasCapacity(c)
    \/ Throttle[c] # 0 /\ now < pauseUntil[c]
    \/ pauseUntil[c] = 0 /\ Due(c) = {} /\ (Ready(c) = {} \/ SequentialWait(c))

VisitInv ==
    /\ stage # "run" => Idle
    /\ yielded # NoJob => cur = root
    /\ \A d \in Channel \ {root} : d \in todo \/ d = cur => Parent[d] \in todo
    /\ cur \notin todo
    /\ cur # NoChannel => pauseUntil[cur] = 0
    /\ \A c \in Channel : Throttle[c] = 0 => pauseUntil[c] = 0
    /\ stage = "run" => \A c \in Channel \ todo : cur # c => Exhausted(c)

\* The wakeup time is ahead, or nothing but a notification can change anything.
Early == quiet /\ (wakeup = 0 \/ now < wakeup)

NotBeforeWakeup(t) == wakeup # 0 /\ wakeup <= t

\* A channel yields nothing before the wakeup time: it is full, in a pause, or
\* waits for jobs whose eta is not before it.
Held(c) ==
    \/ ~HasCapacity(c)
    \/ NotBeforeWakeup(pauseUntil[c])
    \/ /\ pauseUntil[c] = 0
       /\ \A j \in chan[c].eta : NotBeforeWakeup(job[j].eta)
       /\ Ready(c) = {} \/ SequentialWait(c)

QuietInv == Early => yielded = NoJob /\ \A c \in Consulted : Held(c)

\* The throttle of c allows another yield.
Elapsed(c) == lastYield[c] # -1 => now - lastYield[c] >= Throttle[c]

SpacingInv ==
    \A c \in Channel \ {root} :
        /\ lastYield[c] <= now
        /\ Elapsed(c) \/ pauseUntil[c] = lastYield[c] + Throttle[c]
        /\ cur = c => Elapsed(c)

Typed == ChannelsTypeOK /\ PlacedInv

-----------------------------------------------------------------------------
(* The steps of the loop are steps of the channels.                        *)

\* Whatever the runner's loop does, the channels see one of their own steps.
LEMMA LoopStep == [TimingNext]_tvars => [ChannelsNext]_cvars
  <1>1. ProcessNotification => ChannelsNext
    BY DEF ProcessNotification, ChannelsNext
  <1>2. RunJobs \/ YieldStep \/ OtherStep => ChannelsNext
    BY DEF RunJobs, YieldStep, OtherStep, ChannelsNext, Visit
  <1>3. HandleException \/ Sleep => ChannelsNext
    BY DEF HandleException, Sleep, ChannelsNext
  <1>4. WaitNotification \/ Wake \/ UNCHANGED tvars => UNCHANGED cvars
    BY DEF WaitNotification, Wake, tvars, cvars
  <1> QED BY <1>1, <1>2, <1>3, <1>4 DEF TimingNext

\* The runner's loop is one way of using the channels: what ChannelsProofs proves
\* of every sequence of calls holds of the loop's.
THEOREM LoopUsesChannels == TimingSpec => ChannelsSpec
  <1>1. TimingInit => ChannelsInit
    BY DEF TimingInit
  <1> QED BY <1>1, LoopStep, PTL DEF TimingSpec, ChannelsSpec

\* So the types and the places of the jobs are kept.
LEMMA AlwaysTyped == TimingSpec => []Typed
  <1>1. TimingInit => Typed
    BY InitTypes, InitPlaced DEF TimingInit, Typed
  <1>2. Typed /\ [TimingNext]_tvars => Typed'
    BY LoopStep, StepTypes, StepPlaced DEF Typed
  <1> QED BY <1>1, <1>2, PTL DEF TimingSpec

-----------------------------------------------------------------------------
(* The queues of a channel.                                                *)

\* A nonempty set of numbers has a smallest one.
LEMMA SmallestNat ==
    ASSUME NEW S \in SUBSET Nat, S # {}
    PROVE  \E m \in S : \A n \in S : m <= n
  <1> DEFINE R == {p \in Nat \X Nat : p[1] < p[2]}
  <1>1. IsWellFoundedOn(R, Nat)
    BY NatLessThanWellFounded DEF OpToRel
  <1>2. PICK m \in S : \A n \in S : <<n, m>> \notin R
    <2> HIDE DEF R
    <2> QED BY <1>1, WFMin
  <1>3. ASSUME NEW n \in S PROVE m <= n
    <2>1. m \in Nat /\ n \in Nat /\ <<n, m>> \notin R
      BY <1>2
    <2> QED BY <2>1
  <1> QED BY <1>3

\* A job waits in one channel at most.
LEMMA WaitsOnce ==
    ASSUME PlacedInv, NEW j \in Job, NEW c \in Channel, NEW d \in Channel,
           InQueue(chan[c], j), InQueue(chan[d], j)
    PROVE  c = d
  <1>1. JobPlaced(chan, job, j) /\ InPlace(chan[c], j) /\ InPlace(chan[d], j)
    BY DEF PlacedInv, Placed, InPlace, InQueue
  <1>2. job[j] # NoJob /\ c \in Up[job[j].channel] /\ d \in Up[job[j].channel]
    BY <1>1 DEF JobPlaced
  <1>3. job[j].channel \in Channel
    BY <1>2 DEF PlacedInv, JobMap, ChannelJob
  <1>4. c \in Up[d] \/ d \in Up[c]
    BY <1>2, <1>3, TreeAssumption
  <1> QED BY <1>1, <1>4 DEF JobPlaced

\* The jobs that wait in a channel are known: they have a priority and an eta.
LEMMA WaitersKnown ==
    ASSUME Typed, NEW c \in Channel
    PROVE  /\ chan[c] \in Place /\ Ready(c) \subseteq Job /\ Later(c) \subseteq Job
           /\ \A j \in chan[c].queue \cup chan[c].eta :
                j \in Job /\ job[j] \in ChannelJob /\ job[j].priority \in Nat
                /\ job[j].eta \in Nat
  <1>1. chan[c] \in Place
    BY DEF Typed, ChannelsTypeOK
  <1>2. ASSUME NEW j \in chan[c].queue \cup chan[c].eta
        PROVE  j \in Job /\ job[j] \in ChannelJob /\ job[j].priority \in Nat
               /\ job[j].eta \in Nat
    <2>1. j \in Job /\ InPlace(chan[c], j)
      BY <1>1 DEF Place, InPlace
    <2>2. job[j] # NoJob
      BY <2>1 DEF Typed, PlacedInv, Placed, JobPlaced
    <2>3. job[j] \in ChannelJob
      BY <2>1, <2>2 DEF Typed, ChannelsTypeOK
    <2> QED BY <2>1, <2>3, ConfigAssumption DEF ChannelJob
  <1>3. Ready(c) \subseteq Job /\ Later(c) \subseteq Job
    BY <1>1 DEF Ready, Later, Due, Place
  <1> QED BY <1>1, <1>2, <1>3

\* Jobs that are due have a first one: pop() finds it.
LEMMA FirstExists ==
    ASSUME Typed, NEW c \in Channel, Ready(c) # {}
    PROVE  FirstReady(c) # {}
  <1> DEFINE priorities == {job[j].priority : j \in Ready(c)}
  <1>1. \A j \in Ready(c) : j \in Job /\ job[j].priority \in Nat /\ Seq[j] \in Nat
    BY WaitersKnown, ConfigAssumption DEF Ready, Due
  <1>2. priorities \in SUBSET Nat /\ priorities # {}
    BY <1>1
  <1>3. PICK p \in priorities : \A q \in priorities : p <= q
    BY <1>2, SmallestNat
  <1> DEFINE urgent == {j \in Ready(c) : job[j].priority = p}
             numbers == {Seq[j] : j \in urgent}
  <1>4. numbers \in SUBSET Nat /\ numbers # {}
    BY <1>1
  <1>5. PICK n \in numbers : \A m \in numbers : n <= m
    BY <1>4, SmallestNat
  <1>6. PICK j \in urgent : Seq[j] = n
    OBVIOUS
  <1>7. ASSUME NEW i \in Ready(c) \ {j} PROVE Before(j, i)
    <2>1. i \in Job /\ j \in Job /\ job[i].priority \in Nat /\ p \in Nat
          /\ Seq[i] \in Nat /\ Seq[j] \in Nat /\ Seq[i] # Seq[j]
      BY <1>1, <1>2, ConfigAssumption
    <2>2. p <= job[i].priority /\ job[j].priority = p
      BY <1>3
    <2>3. job[i].priority = p => Seq[j] <= Seq[i]
      BY <1>5, <1>6
    <2> QED BY <2>1, <2>2, <2>3 DEF Before
  <1> QED BY <1>7 DEF FirstReady

\* Which job comes first depends on the two queues and the jobs in them.
LEMMA SameOrder ==
    ASSUME NEW c \in Channel, Ready(c)' = Ready(c), Later(c)' = Later(c),
           \A j \in Ready(c) \cup Later(c) : job'[j].priority = job[j].priority,
           \A j \in Later(c) : job'[j].eta = job[j].eta
    PROVE  SequentialWait(c)' <=> SequentialWait(c)
  <1>1. \A i, j \in Ready(c) \cup Later(c) : Before(i, j)' <=> Before(i, j)
    BY DEF Before
  <1>2. \A i, j \in Later(c) : EtaBefore(i, j)' <=> EtaBefore(i, j)
    BY <1>1 DEF EtaBefore
  <1>3. FirstReady(c)' = FirstReady(c) /\ FirstReady(c) \subseteq Ready(c)
    BY <1>1 DEF FirstReady
  <1>4. FirstLater(c)' = FirstLater(c) /\ FirstLater(c) \subseteq Later(c)
    BY <1>2 DEF FirstLater
  <1> QED BY <1>1, <1>3, <1>4 DEF SequentialWait

\* A channel whose place and whose waiting jobs do not change, nor which of them
\* are due, is as full and waits as before.
LEMMA SameOutlook ==
    ASSUME NEW c \in Channel, chan'[c] = chan[c], Due(c)' = Due(c),
           \A j \in chan[c].queue \cup chan[c].eta : job'[j] = job[j]
    PROVE  /\ HasCapacity(c)' <=> HasCapacity(c)
           /\ Ready(c)' = Ready(c)
           /\ SequentialWait(c)' <=> SequentialWait(c)
  <1>1. HasCapacity(c)' <=> HasCapacity(c)
    BY DEF HasCapacity
  <1>2. Ready(c)' = Ready(c) /\ Later(c)' = Later(c)
    BY DEF Ready, Later
  <1>3. \A j \in Ready(c) \cup Later(c) : job'[j] = job[j]
    BY DEF Ready, Later, Due
  <1>4. SequentialWait(c)' <=> SequentialWait(c)
    BY <1>2, <1>3, SameOrder
  <1> QED BY <1>1, <1>2, <1>4

\* While the clock stands still the same jobs are due.
LEMMA SameDue ==
    ASSUME NEW c \in Channel, chan'[c] = chan[c], now' = now,
           \A j \in chan[c].queue \cup chan[c].eta : job'[j] = job[j]
    PROVE  Due(c)' = Due(c)
  BY DEF Due

\* A pop at one channel clears the eta of no job that waits in another.
LEMMA PopTouchesItsOwn ==
    ASSUME Typed, NEW c \in Channel, NEW d \in Channel \ {c}, job' = EtaCleared(Due(c))
    PROVE  \A j \in chan[d].queue \cup chan[d].eta : job'[j] = job[j]
  <1> SUFFICES ASSUME NEW j \in chan[d].queue \cup chan[d].eta
               PROVE  job'[j] = job[j]
    OBVIOUS
  <1>1. j \in Job /\ InQueue(chan[d], j)
    BY WaitersKnown DEF InQueue
  <1>2. j \notin chan[c].eta
    BY <1>1, WaitsOnce DEF Typed, InQueue
  <1> QED BY <1>1, <1>2 DEF EtaCleared, Due

\* A generator that ends with an empty pop has moved its due jobs: the same jobs
\* wait, none of them for an eta that is past.
LEMMA EmptyPop ==
    ASSUME Typed, NEW c \in Channel, job' = EtaCleared(Due(c)),
           chan' = [chan EXCEPT ![c] = AfterPop(c, {})], now' = now
    PROVE  /\ HasCapacity(c)' <=> HasCapacity(c)
           /\ Due(c)' = {} /\ Ready(c)' = Ready(c)
           /\ SequentialWait(c)' <=> SequentialWait(c)
  <1>1. chan \in [Channel -> Place]
    BY DEF Typed, ChannelsTypeOK
  <1>2. /\ chan'[c] = AfterPop(c, {}) /\ chan[c] \in Place
        /\ chan'[c].queue = Ready(c) /\ chan'[c].eta = Later(c)
        /\ chan'[c].running = chan[c].running /\ chan'[c].failed = chan[c].failed
    BY <1>1 DEF AfterPop, Place
  <1>3. \A j \in Later(c) : job'[j] = job[j]
    BY WaitersKnown DEF EtaCleared, Later
  <1>4. Due(c)' = {}
    BY <1>2, <1>3 DEF Due, Later
  <1>5. Ready(c)' = Ready(c) /\ Later(c)' = Later(c)
    BY <1>2, <1>4 DEF Ready, Later
  <1>6. \A j \in Ready(c) : j \in Job /\ job[j] \in ChannelJob
    BY WaitersKnown DEF Ready, Due
  <1>7. \A j \in Ready(c) : job'[j].priority = job[j].priority
    BY <1>6 DEF EtaCleared, ChannelJob
  <1>8. SequentialWait(c)' <=> SequentialWait(c)
    BY <1>3, <1>5, <1>7, SameOrder
  <1>9. HasCapacity(c)' <=> HasCapacity(c)
    BY <1>2 DEF HasCapacity
  <1> QED BY <1>4, <1>5, <1>8, <1>9

\* pop() returns nothing when nothing is due or the sequence waits.
LEMMA NothingToPop ==
    ASSUME Typed, NEW c \in Channel
    PROVE  Poppable(c) = {} <=> Ready(c) = {} \/ SequentialWait(c)
  BY FirstExists DEF Poppable, FirstReady

-----------------------------------------------------------------------------
(* One visit.                                                              *)

\* A channel that is not touched stays exhausted.
LEMMA StaysExhausted ==
    ASSUME NEW c \in Channel, Exhausted(c), chan'[c] = chan[c], now' = now,
           pauseUntil'[c] = pauseUntil[c],
           \A j \in chan[c].queue \cup chan[c].eta : job'[j] = job[j]
    PROVE  Exhausted(c)'
  <1>1. Due(c)' = Due(c)
    BY SameDue
  <1>2. /\ HasCapacity(c)' <=> HasCapacity(c)
        /\ Ready(c)' = Ready(c)
        /\ SequentialWait(c)' <=> SequentialWait(c)
    BY <1>1, SameOutlook
  <1> QED BY <1>1, <1>2 DEF Exhausted

\* A pause that starts now is not over.
LEMMA PauseExhausts ==
    ASSUME ChannelsTypeOK, NEW c \in Channel, Throttle[c] # 0, now' = now,
           pauseUntil' = [pauseUntil EXCEPT ![c] = now + Throttle[c]]
    PROVE  Exhausted(c)'
  <1>1. Throttle[c] \in Nat /\ now \in Nat /\ pauseUntil'[c] = now + Throttle[c]
    BY ConfigAssumption DEF ChannelsTypeOK
  <1> QED BY <1>1 DEF Exhausted

\* A visit that has begun is in stage "run"; no channel is NoChannel.
LEMMA InVisit ==
    ASSUME VisitInv, cur \in Channel \/ todo # {}
    PROVE  stage = "run"
  BY TreeAssumption DEF VisitInv, Idle

\* A yield to the parent: the parent has not been visited, so every visited
\* channel is left alone, and the channel itself pauses or goes on.
LEMMA YieldToParentVisit ==
    ASSUME Typed, VisitInv, NEW c \in Channel, NEW j \in Job, YieldToParent(c, j),
           UNCHANGED stage
    PROVE  VisitInv'
  <1> USE DEF YieldToParent
  <1>1. /\ cur = c /\ c # root /\ Parent[c] \in todo /\ c \notin todo /\ yielded = NoJob
        /\ pauseUntil[c] = 0 /\ stage = "run" /\ todo' = todo /\ now' = now /\ yielded' = NoJob
    BY InVisit, TreeAssumption DEF VisitInv
  <1>2. ASSUME NEW d \in Channel \ todo, d # c, Exhausted(d), pauseUntil'[d] = pauseUntil[d]
        PROVE  Exhausted(d)'
    <2>1. chan'[d] = chan[d]
      BY <1>1, <1>2 DEF Typed, ChannelsTypeOK
    <2>2. \A i \in chan[d].queue \cup chan[d].eta : job'[i] = job[i]
      BY <1>2, PopTouchesItsOwn
    <2> QED BY <1>1, <1>2, <2>1, <2>2, StaysExhausted
  <1>3. \A d \in Channel \ todo : d # c => Exhausted(d)
    BY <1>1 DEF VisitInv
  <1>4. pauseUntil \in [Channel -> Nat]
    BY DEF Typed, ChannelsTypeOK
  <1>5. CASE Throttle[c] = 0
    <2>1. pauseUntil' = pauseUntil /\ cur' = c
      BY <1>1, <1>5 DEF Throttled
    <2>2. \A d \in Channel \ todo' : cur' # d => Exhausted(d)'
      BY <2>1, <1>1, <1>2, <1>3
    <2> HIDE DEF YieldToParent
    <2> QED BY <1>1, <2>1, <2>2 DEF VisitInv, Idle
  <1>6. CASE Throttle[c] # 0
    <2>1. pauseUntil' = [pauseUntil EXCEPT ![c] = now + Throttle[c]] /\ cur' = NoChannel
      BY <1>1, <1>6 DEF Throttled
    <2>2. Exhausted(c)'
      BY <2>1, <1>1, <1>6, PauseExhausts DEF Typed
    <2>3. \A d \in Channel \ {c} : pauseUntil'[d] = pauseUntil[d]
      BY <2>1, <1>4
    <2>4. \A d \in Channel \ todo' : cur' # d => Exhausted(d)'
      BY <2>2, <2>3, <1>1, <1>2, <1>3
    <2>5. NoChannel \notin todo /\ NoChannel \notin Channel
      BY TreeAssumption DEF Typed, ChannelsTypeOK
    <2> HIDE DEF YieldToParent
    <2> QED BY <1>1, <1>6, <2>1, <2>3, <2>4, <2>5 DEF VisitInv, Idle
  <1> QED BY <1>5, <1>6

\* A yield to the runner changes the root alone, whose generator is running.
LEMMA YieldToRunnerVisit ==
    ASSUME Typed, VisitInv, NEW j \in Job, YieldToRunner(j), UNCHANGED stage
    PROVE  VisitInv'
  <1> USE DEF YieldToRunner
  <1>1. /\ cur = root /\ root \in Channel /\ cur' = root /\ stage = "run"
        /\ UNCHANGED <<todo, now, pauseUntil>>
    BY InVisit, TreeAssumption
  <1>2. ASSUME NEW d \in Channel \ todo, d # root
        PROVE  Exhausted(d)'
    <2>1. chan'[d] = chan[d]
      BY <1>1, <1>2 DEF Typed, ChannelsTypeOK
    <2>2. \A i \in chan[d].queue \cup chan[d].eta : job'[i] = job[i]
      BY <1>1, <1>2, PopTouchesItsOwn
    <2>3. Exhausted(d)
      BY <1>1, <1>2 DEF VisitInv
    <2> QED BY <1>1, <2>1, <2>2, <2>3, StaysExhausted
  <1> HIDE DEF YieldToRunner
  <1> QED BY <1>1, <1>2 DEF VisitInv, Idle

\* When the runner is done with the job the root pauses or goes on.
LEMMA ResumeVisit ==
    ASSUME Typed, VisitInv, Resume, UNCHANGED stage
    PROVE  VisitInv'
  <1> USE DEF Resume
  <1>1. /\ cur = root /\ root \in Channel /\ yielded' = NoJob /\ stage = "run"
        /\ UNCHANGED <<todo, now, chan, job>>
    BY InVisit, TreeAssumption DEF VisitInv
  <1>2. \A d \in Channel \ todo : d # root /\ pauseUntil'[d] = pauseUntil[d] => Exhausted(d)'
    BY <1>1, StaysExhausted DEF VisitInv
  <1>3. pauseUntil \in [Channel -> Nat]
    BY DEF Typed, ChannelsTypeOK
  <1>4. CASE Throttle[root] = 0
    <2>1. pauseUntil' = pauseUntil /\ cur' = root
      BY <1>1, <1>4 DEF Throttled
    <2> HIDE DEF Resume
    <2> QED BY <1>1, <1>2, <2>1 DEF VisitInv, Idle
  <1>5. CASE Throttle[root] # 0
    <2>1. pauseUntil' = [pauseUntil EXCEPT ![root] = now + Throttle[root]] /\ cur' = NoChannel
      BY <1>1, <1>5 DEF Throttled
    <2>2. Exhausted(root)'
      BY <2>1, <1>1, <1>5, PauseExhausts DEF Typed
    <2>3. \A d \in Channel \ {root} : pauseUntil'[d] = pauseUntil[d]
      BY <2>1, <1>3
    <2>4. NoChannel \notin todo /\ NoChannel \notin Channel
      BY TreeAssumption DEF Typed, ChannelsTypeOK
    <2> HIDE DEF Resume
    <2> QED BY <1>1, <1>2, <1>5, <2>1, <2>2, <2>3, <2>4 DEF VisitInv, Idle
  <1> QED BY <1>4, <1>5

\* A channel is entered after its children; in a pause it is exhausted at once.
LEMMA EnterChannelVisit ==
    ASSUME Typed, VisitInv, NEW c \in Channel, EnterChannel(c), UNCHANGED stage
    PROVE  VisitInv'
  <1> USE DEF EnterChannel
  <1>1. /\ cur = NoChannel /\ c \in todo /\ todo' = todo \ {c} /\ stage = "run"
        /\ UNCHANGED <<now, chan, job, yielded>> /\ c \in todo /\ yielded = NoJob
    BY InVisit, TreeAssumption DEF VisitInv
  <1>2. cur' \in {c, NoChannel}
    BY <1>1
  <1>3. \A d \in Channel \ {root} : d \in todo => Parent[d] \in todo'
    BY <1>1 DEF VisitInv, Children
  <1>4. pauseUntil \in [Channel -> Nat] /\ NoChannel \notin todo /\ NoChannel \notin Channel
    BY TreeAssumption DEF Typed, ChannelsTypeOK
  <1>5. \A d \in Channel \ {c} : pauseUntil'[d] = pauseUntil[d]
    BY <1>4
  <1>6. ASSUME NEW d \in Channel \ todo PROVE Exhausted(d)'
    <2>1. Exhausted(d) /\ d # c
      BY <1>1, <1>4 DEF VisitInv
    <2> QED BY <2>1, <1>1, <1>5, StaysExhausted
  <1>7. CASE Paused(c) /\ UNCHANGED <<cur, pauseUntil>>
    <2>1. Exhausted(c)'
      BY <1>1, <1>7 DEF Exhausted, Paused
    <2> HIDE DEF EnterChannel
    <2> QED BY <1>1, <1>3, <1>4, <1>6, <1>7, <2>1 DEF VisitInv, Idle
  <1>8. CASE cur' = c /\ pauseUntil' = IF Throttle[c] = 0 THEN pauseUntil
                                       ELSE [pauseUntil EXCEPT ![c] = 0]
    <2>1. pauseUntil'[c] = 0
      BY <1>4, <1>8 DEF VisitInv
    <2>2. \A d \in Channel : Throttle[d] = 0 => pauseUntil'[d] = 0
      BY <1>4, <1>8 DEF VisitInv
    <2> HIDE DEF EnterChannel
    <2> QED BY <1>1, <1>3, <1>4, <1>6, <1>8, <2>1, <2>2 DEF VisitInv, Idle
  <1> QED BY <1>7, <1>8

\* A generator ends when its channel is exhausted.
LEMMA LeaveChannelVisit ==
    ASSUME Typed, VisitInv, NEW c \in Channel, LeaveChannel(c), UNCHANGED stage
    PROVE  VisitInv'
  <1>1. /\ cur = c /\ cur' = NoChannel /\ yielded = NoJob /\ stage = "run" /\ pauseUntil[c] = 0
        /\ UNCHANGED <<now, todo, pauseUntil, yielded>>
    BY InVisit, TreeAssumption DEF VisitInv, LeaveChannel
  <1>2. NoChannel \notin todo /\ NoChannel \notin Channel
    BY TreeAssumption DEF Typed, ChannelsTypeOK
  <1>3. ASSUME NEW d \in Channel \ todo PROVE Exhausted(d)'
    <2>1. CASE ~HasCapacity(c) /\ UNCHANGED <<chan, job>>
      <3>1. Exhausted(d)
        BY <1>1, <2>1 DEF VisitInv, Exhausted
      <3> QED BY <3>1, <2>1, <1>1, StaysExhausted
    <2>2. CASE /\ Poppable(c) = {} /\ job' = EtaCleared(Due(c))
               /\ chan' = [chan EXCEPT ![c] = AfterPop(c, {})]
      <3>1. CASE d = c
        <4>1. Due(c)' = {} /\ Ready(c)' = Ready(c) /\ (SequentialWait(c)' <=> SequentialWait(c))
          BY <1>1, <2>2, EmptyPop
        <4>2. Ready(c) = {} \/ SequentialWait(c)
          BY <2>2, NothingToPop
        <4> QED BY <3>1, <4>1, <4>2, <1>1 DEF Exhausted
      <3>2. CASE d # c
        <4>1. chan'[d] = chan[d]
          BY <2>2, <3>2 DEF Typed, ChannelsTypeOK
        <4>2. \A i \in chan[d].queue \cup chan[d].eta : job'[i] = job[i]
          BY <2>2, <3>2, PopTouchesItsOwn
        <4>3. Exhausted(d)
          BY <1>1, <3>2 DEF VisitInv
        <4> QED BY <1>1, <4>1, <4>2, <4>3, StaysExhausted
      <3> QED BY <3>1, <3>2
    <2> QED BY <2>1, <2>2 DEF LeaveChannel
  <1> QED BY <1>1, <1>2, <1>3 DEF VisitInv, Idle

\* The runner's loop keeps VisitInv: notifications and exceptions come between
\* two visits or end one, the clock moves while it waits.
LEMMA VisitStep == Typed /\ VisitInv /\ [TimingNext]_tvars => VisitInv'
  <1> SUFFICES ASSUME Typed, VisitInv, [TimingNext]_tvars
               PROVE  VisitInv'
    OBVIOUS
  <1>1. CASE ProcessNotification
    <2>1. UNCHANGED <<stage, todo, cur, yielded, pauseUntil>> /\ stage = "notify"
      BY <1>1 DEF ProcessNotification, External, Notify, RemoveJob
    <2> QED BY <2>1 DEF VisitInv, Idle
  <1>2. CASE RunJobs
    <2>1. /\ Idle /\ todo' = Channel /\ stage' = "run"
          /\ UNCHANGED <<chan, job, pauseUntil, now, cur, yielded>>
      BY <1>2 DEF RunJobs, StartVisit
    <2>2. cur' = NoChannel /\ NoChannel \notin Channel /\ Parent \in [Channel \ {root} -> Channel]
      BY <2>1, TreeAssumption DEF Idle
    <2> QED BY <2>1, <2>2 DEF VisitInv, Idle
  <1>3. CASE YieldStep
    BY <1>3, YieldToParentVisit, YieldToRunnerVisit DEF YieldStep
  <1>4. CASE OtherStep
    BY <1>4, EnterChannelVisit, LeaveChannelVisit, ResumeVisit DEF OtherStep
  <1>5. CASE WaitNotification \/ Wake
    <2>1. Idle /\ UNCHANGED cvars /\ stage' # "run"
      BY <1>5 DEF WaitNotification, Wake, VisitInv
    <2> QED BY <2>1 DEF cvars, VisitInv, Idle
  <1>6. CASE HandleException
    <2>1. /\ stage' = "notify" /\ todo' = {} /\ cur' = NoChannel /\ yielded' = NoJob
          /\ pauseUntil' = pauseUntil
      BY <1>6 DEF HandleException, Recover, RemoveDb
    <2> QED BY <2>1, TreeAssumption DEF VisitInv, Idle
  <1>7. CASE Sleep
    <2>1. stage = "wait" /\ UNCHANGED <<stage, todo, cur, yielded, pauseUntil>>
      BY <1>7 DEF Sleep, Tick
    <2> QED BY <2>1 DEF VisitInv, Idle
  <1>8. CASE UNCHANGED tvars
    <2>1. UNCHANGED <<chan, job, pauseUntil, now, todo, cur, yielded, stage>>
      BY <1>8 DEF tvars, cvars
    <2>2. \A c \in Channel : Exhausted(c) => Exhausted(c)'
      BY <2>1, StaysExhausted
    <2> QED BY <2>1, <2>2 DEF VisitInv, Idle
  <1> QED BY <1>1, <1>2, <1>3, <1>4, <1>5, <1>6, <1>7, <1>8 DEF TimingNext

\* The loop starts before its first visit.
LEMMA VisitInit == TimingInit => VisitInv
  BY TreeAssumption DEF TimingInit, ChannelsInit, VisitInv, Idle

\* The types and VisitInv hold along every behaviour.
LEMMA AlwaysVisit == TimingSpec => [](Typed /\ VisitInv)
  BY AlwaysTyped, VisitInit, VisitStep, PTL DEF TimingSpec

\* After a visit no channel has a due job it could pass on: for every tree, every
\* mix of capacities, sequential channels and throttles.
THEOREM NobodyStranded == TimingSpec => []NoStrandedJob
  <1>1. Typed /\ VisitInv => NoStrandedJob
    <2> SUFFICES ASSUME Typed, VisitInv, stage = "run", Idle, NEW c \in Channel, Ready(c) # {}
                 PROVE  ~HasCapacity(c) \/ Paused(c) \/ SequentialWait(c)
      BY DEF NoStrandedJob
    <2>1. Exhausted(c)
      BY TreeAssumption DEF VisitInv, Idle
    <2>2. pauseUntil[c] \in Nat /\ now \in Nat
      BY DEF Typed, ChannelsTypeOK
    <2> QED BY <2>1, <2>2 DEF Exhausted, Paused
  <1> QED BY <1>1, AlwaysVisit, PTL

-----------------------------------------------------------------------------
(* The throttle.                                                           *)

\* When a channel has yielded is known by the clock.
TimesOK == lastYield \in [Channel -> Nat \cup {-1}]

\* Between two yields of a throttled channel its pause keeps the distance, even
\* when an exception has emptied the channels in between.
LEMMA SpacingStep ==
    Typed /\ VisitInv /\ TimesOK /\ SpacingInv /\ [TimingNext]_tvars => TimesOK' /\ SpacingInv'
  <1> SUFFICES ASSUME Typed, VisitInv, TimesOK, SpacingInv, [TimingNext]_tvars
               PROVE  TimesOK' /\ SpacingInv'
    OBVIOUS
  <1>1. /\ now \in Nat /\ pauseUntil \in [Channel -> Nat] /\ NoChannel \notin Channel
        /\ Throttle \in [Channel -> Nat] /\ RecoveryDelay \in Nat /\ root \in Channel
    BY TreeAssumption, ConfigAssumption DEF Typed, ChannelsTypeOK
  <1>2. \A d \in Channel : lastYield[d] \in Int /\ (lastYield[d] = -1 \/ lastYield[d] >= 0)
    BY DEF TimesOK
  <1>3. ASSUME UNCHANGED <<lastYield, pauseUntil>>, now' \in Nat, now' >= now,
               cur' \in {cur, NoChannel}
        PROVE  TimesOK' /\ SpacingInv'
    BY <1>1, <1>2, <1>3 DEF TimesOK, SpacingInv, Elapsed
  <1>4. ASSUME NEW c \in Channel, NEW j \in Job, YieldToParent(c, j),
               lastYield' = [lastYield EXCEPT ![c] = now]
        PROVE  TimesOK' /\ SpacingInv'
    <2>1. cur = c /\ c # root /\ now' = now /\ Throttled(c)
      BY <1>4 DEF YieldToParent
    <2>2. TimesOK'
      BY <1>1, <1>4 DEF TimesOK
    <2>3. ASSUME NEW d \in Channel \ {root, c}
          PROVE  /\ lastYield'[d] <= now'
                 /\ Elapsed(d)' \/ pauseUntil'[d] = lastYield'[d] + Throttle[d]
                 /\ cur' = d => Elapsed(d)'
      <3>1. lastYield'[d] = lastYield[d] /\ pauseUntil'[d] = pauseUntil[d] /\ cur' # d
        BY <2>1, <1>1, <1>4 DEF TimesOK, Throttled
      <3> QED BY <3>1, <2>1 DEF SpacingInv, Elapsed
    <2>4. /\ lastYield'[c] <= now'
          /\ Elapsed(c)' \/ pauseUntil'[c] = lastYield'[c] + Throttle[c]
          /\ cur' = c => Elapsed(c)'
      <3>1. lastYield'[c] = now /\ Throttle[c] \in Nat
        BY <1>1, <1>4 DEF TimesOK
      <3>2. CASE Throttle[c] = 0
        BY <3>1, <3>2, <2>1, <1>1 DEF Elapsed
      <3>3. CASE Throttle[c] # 0
        BY <3>1, <3>3, <2>1, <1>1 DEF Throttled
      <3> QED BY <3>2, <3>3
    <2> QED BY <2>2, <2>3, <2>4 DEF SpacingInv
  <1>5. ASSUME NEW j \in Job, YieldToRunner(j), lastYield' = [lastYield EXCEPT ![root] = now]
        PROVE  TimesOK' /\ SpacingInv'
    <2>1. UNCHANGED <<pauseUntil, now, cur>>
      BY <1>5 DEF YieldToRunner
    <2>2. \A d \in Channel \ {root} : lastYield'[d] = lastYield[d]
      BY <1>5 DEF TimesOK
    <2>3. TimesOK'
      BY <1>1, <1>5 DEF TimesOK
    <2> QED BY <2>1, <2>2, <2>3 DEF SpacingInv, Elapsed
  <1>6. ASSUME NEW c \in Channel, EnterChannel(c), lastYield' = lastYield
        PROVE  TimesOK' /\ SpacingInv'
    <2>1. CASE Paused(c) /\ UNCHANGED <<cur, pauseUntil>>
      BY <2>1, <1>1, <1>3, <1>6 DEF EnterChannel
    <2>2. CASE /\ ~Paused(c) /\ cur' = c
               /\ pauseUntil' = IF Throttle[c] = 0 THEN pauseUntil
                                ELSE [pauseUntil EXCEPT ![c] = 0]
      <3>1. now' = now /\ TimesOK'
        BY <1>6 DEF EnterChannel, TimesOK
      <3>2. ASSUME NEW d \in Channel \ {root, c}
            PROVE  pauseUntil'[d] = pauseUntil[d] /\ cur' # d
        BY <2>2, <1>1
      <3>3. c # root => Elapsed(c)
        <4>1. CASE Elapsed(c)
          BY <4>1
        <4>2. CASE c # root /\ pauseUntil[c] = lastYield[c] + Throttle[c]
          <5>1. Throttle[c] = 0 \/ pauseUntil[c] = 0 \/ now >= pauseUntil[c]
            BY <2>2, <1>1 DEF Paused
          <5>2. lastYield[c] <= now /\ Throttle[c] \in Nat
            BY <1>1, <4>2 DEF SpacingInv
          <5> QED BY <4>2, <5>1, <5>2, <1>1, <1>2 DEF Elapsed
        <4> QED BY <4>1, <4>2 DEF SpacingInv
      <3> QED BY <3>1, <3>2, <3>3, <1>6 DEF SpacingInv, Elapsed
    <2> QED BY <2>1, <2>2, <1>6 DEF EnterChannel
  <1>7. CASE ProcessNotification
    <2>1. UNCHANGED <<lastYield, pauseUntil, now, cur>>
      BY <1>7 DEF ProcessNotification, External, Notify, RemoveJob
    <2> QED BY <2>1, <1>1, <1>3
  <1>8. CASE RunJobs \/ WaitNotification \/ Wake \/ UNCHANGED tvars
    <2>1. UNCHANGED <<lastYield, pauseUntil, now, cur>>
      BY <1>8 DEF RunJobs, StartVisit, WaitNotification, Wake, tvars, cvars
    <2> QED BY <2>1, <1>1, <1>3
  <1>9. ASSUME NEW c \in Channel, LeaveChannel(c), lastYield' = lastYield
        PROVE  TimesOK' /\ SpacingInv'
    <2>1. UNCHANGED <<lastYield, pauseUntil, now>> /\ cur' = NoChannel
      BY <1>9 DEF LeaveChannel
    <2> QED BY <2>1, <1>1, <1>3
  <1>10. CASE Resume /\ lastYield' = lastYield
    <2>1. cur = root /\ now' = now /\ Throttled(root)
      BY <1>10 DEF Resume, VisitInv
    <2>2. cur' \in {root, NoChannel} /\ \A d \in Channel \ {root} : pauseUntil'[d] = pauseUntil[d]
      BY <2>1, <1>1 DEF Throttled
    <2> QED BY <2>1, <2>2, <1>1, <1>10 DEF SpacingInv, Elapsed, TimesOK
  <1>11. CASE HandleException
    <2>1. UNCHANGED <<lastYield, pauseUntil>> /\ cur' = NoChannel /\ now' = now + RecoveryDelay
      BY <1>11 DEF HandleException, Recover, RemoveDb
    <2> QED BY <2>1, <1>1, <1>3
  <1>12. CASE Sleep
    <2>1. UNCHANGED <<lastYield, pauseUntil, cur>> /\ now' = now + 1
      BY <1>12 DEF Sleep, Tick
    <2> QED BY <2>1, <1>1, <1>3
  <1>13. YieldStep => TimesOK' /\ SpacingInv'
    BY <1>4, <1>5 DEF YieldStep
  <1>14. OtherStep => TimesOK' /\ SpacingInv'
    BY <1>6, <1>9, <1>10 DEF OtherStep
  <1> QED BY <1>7, <1>8, <1>11, <1>12, <1>13, <1>14 DEF TimingNext

\* No channel has yielded when the loop starts.
LEMMA SpacingInit == TimingInit => TimesOK /\ SpacingInv
  BY TreeAssumption DEF TimingInit, ChannelsInit, TimesOK, SpacingInv, Elapsed

\* Typing, the visit and the throttle together.
LEMMA AlwaysSpaced == TimingSpec => [](Typed /\ VisitInv /\ TimesOK /\ SpacingInv)
  BY AlwaysVisit, SpacingInit, SpacingStep, PTL DEF TimingSpec

\* A channel other than the root yields no two jobs closer in time than its
\* throttle, whatever notifications and exceptions come in between.
THEOREM ThrottleHolds == TimingSpec => ThrottleSpacing
  <1>1. Typed /\ VisitInv /\ TimesOK /\ SpacingInv /\ [TimingNext]_tvars
        => [\A c \in Channel \ {root}, j \in Job : YieldToParent(c, j) => Spaced(c)]_tvars
    BY DEF SpacingInv, Elapsed, Spaced, YieldToParent
  <1> QED BY <1>1, AlwaysSpaced, PTL DEF TimingSpec, ThrottleSpacing

-----------------------------------------------------------------------------
(* The wakeup time.                                                        *)

WakeupTimes == UNION {WakeupOf(c) : c \in Consulted}

\* What the channels ask for are times, in a finite or an infinite set.
LEMMA WakeupTypes ==
    ASSUME Typed
    PROVE  /\ \A c \in Channel : WakeupOf(c) \subseteq Nat
           /\ WakeupTimes \in SUBSET Nat
           /\ WakeupTimes = {} => WakeupTime = 0
           /\ WakeupTimes # {} => WakeupTime \in WakeupTimes
                                  /\ \A t \in WakeupTimes : WakeupTime <= t
  <1>1. ASSUME NEW c \in Channel PROVE WakeupOf(c) \subseteq Nat
    BY WaitersKnown DEF WakeupOf, Typed, ChannelsTypeOK
  <1>2. WakeupTimes \in SUBSET Nat
    BY <1>1 DEF WakeupTimes, Consulted
  <1>3. WakeupTimes = {} => WakeupTime = 0
    BY DEF WakeupTime, WakeupTimes
  <1>4. ASSUME WakeupTimes # {}
        PROVE  WakeupTime \in WakeupTimes /\ \A t \in WakeupTimes : WakeupTime <= t
    <2>1. \E m \in WakeupTimes : \A t \in WakeupTimes : m <= t
      BY <1>2, <1>4, SmallestNat
    <2>2. WakeupTime = Min(WakeupTimes)
      BY <1>4 DEF WakeupTime, WakeupTimes
    <2> QED BY <2>1, <2>2 DEF Min
  <1> QED BY <1>1, <1>2, <1>3, <1>4

\* After a visit, what a channel asks for is ahead: a pause that was over has
\* been forgotten, a job whose eta is past has been moved.
LEMMA AskedAhead ==
    ASSUME Typed, VisitInv, stage = "run", Idle, NEW c \in Channel, NEW t \in WakeupOf(c)
    PROVE  t > now
  <1>1. Exhausted(c) /\ now \in Nat /\ pauseUntil[c] \in Nat
    BY TreeAssumption DEF VisitInv, Idle, Typed, ChannelsTypeOK
  <1>2. CASE pauseUntil[c] # 0
    BY <1>1, <1>2 DEF WakeupOf, Exhausted
  <1>3. CASE pauseUntil[c] = 0
    <2>1. Due(c) = {} /\ t \in {job[j].eta : j \in chan[c].eta}
      BY <1>1, <1>3 DEF WakeupOf, Exhausted
    <2>2. PICK j \in chan[c].eta : t = job[j].eta
      BY <2>1
    <2>3. t \in Nat /\ ~(t <= now)
      BY <2>1, <2>2, WaitersKnown DEF Due
    <2> QED BY <2>3, <1>1
  <1> QED BY <1>2, <1>3

\* The types of the loop's own variables.
LEMMA TimingTypesStep ==
    Typed /\ TimesOK' /\ TimingTypeOK /\ [TimingNext]_tvars => TimingTypeOK'
  <1> SUFFICES ASSUME Typed, TimesOK', TimingTypeOK, [TimingNext]_tvars
               PROVE  TimingTypeOK'
    OBVIOUS
  <1>1. WakeupTime \in Nat
    BY WakeupTypes
  <1>2. stage' \in {"notify", "run", "wait"} /\ wakeup' \in Nat /\ quiet' \in BOOLEAN
    BY <1>1 DEF TimingTypeOK, TimingNext, ProcessNotification, RunJobs, YieldStep, OtherStep,
                WaitNotification, Wake, HandleException, Sleep, tvars
  <1> QED BY <1>2 DEF TimingTypeOK, TimesOK

\* All the invariants but QuietInv.
LEMMA AlwaysTimed ==
    TimingSpec => [](Typed /\ VisitInv /\ TimesOK /\ SpacingInv /\ TimingTypeOK)
  <1>1. TimingInit => TimingTypeOK
    <2>1. TimingInit => lastYield \in [Channel -> Nat \cup {-1}]
      BY DEF TimingInit
    <2>2. TimingInit => stage \in {"notify", "run", "wait"} /\ wakeup \in Nat
      BY DEF TimingInit
    <2>3. TimingInit => quiet \in BOOLEAN
      BY Zenon DEF TimingInit
    <2> QED BY <2>1, <2>2, <2>3 DEF TimingTypeOK
  <1> QED BY <1>1, AlwaysSpaced, TimingTypesStep, PTL DEF TimingSpec

\* The invariant of the loop: its types, and a wakeup time that is ahead, so that
\* the timeout computed from it is never negative.
THEOREM LoopInvariant == TimingSpec => []TimingInv
  <1>1. Typed /\ VisitInv => WakeupInFuture
    <2> SUFFICES ASSUME Typed, VisitInv, stage = "run", Idle, WakeupTimes # {}
                 PROVE  WakeupTime > now
      BY WakeupTypes DEF WakeupInFuture
    <2>1. PICK c \in Consulted : WakeupTime \in WakeupOf(c)
      BY WakeupTypes DEF WakeupTimes
    <2> QED BY <2>1, AskedAhead DEF Consulted
  <1>2. Typed /\ VisitInv /\ TimingTypeOK => TimingInv
    BY <1>1 DEF Typed, TimingInv
  <1> QED BY <1>2, AlwaysTimed, PTL

-----------------------------------------------------------------------------
(* The time until the wakeup.                                              *)

\* Nothing is above c that stops it from passing jobs on.
Open(c) == HasCapacity(c) /\ pauseUntil[c] = 0

\* Which channels are asked depends on which are open above them; a channel that
\* is not asked itself does not matter.
LEMMA SameConsulted ==
    ASSUME NEW c \in Channel,
           \A a \in Channel \ {c} : Open(a)' <=> Open(a),
           c \in Consulted => (Open(c)' <=> Open(c))
    PROVE  Consulted' = Consulted
  <1>1. \A d \in Channel : d \in Consulted <=> \A a \in Up[d] \ {d} : Open(a)
    BY DEF Consulted, Open
  <1>2. \A d \in Channel : d \in Consulted' <=> \A a \in Up[d] \ {d} : Open(a)'
    BY DEF Consulted, Open
  <1>3. \A d \in Channel : Up[d] \subseteq Channel
    BY UpFacts
  <1>4. CASE c \in Consulted
    BY <1>1, <1>2, <1>3, <1>4 DEF Consulted
  <1>5. CASE c \notin Consulted
    <2>1. PICK b \in Up[c] \ {c} : ~Open(b)
      BY <1>1, <1>5
    <2>2. b \in Channel /\ ~Open(b)'
      BY <2>1, <1>3
    <2>3. ASSUME NEW d \in Channel, c \in Up[d], c # d
          PROVE  b \in Up[d] \ {d}
      <3>1. b \in Up[d]
        BY <2>1, <2>3, TreeAssumption
      <3>2. b # d
        BY <2>1, <2>3, UpFacts
      <3> QED BY <3>1, <3>2
    <2>4. ASSUME NEW d \in Channel PROVE d \in Consulted' <=> d \in Consulted
      <3>1. CASE c \in Up[d] /\ c # d
        BY <3>1, <2>1, <2>2, <2>3, <1>1, <1>2
      <3>2. CASE ~(c \in Up[d] /\ c # d)
        BY <3>2, <1>1, <1>2, <1>3
      <3> QED BY <3>1, <3>2
    <2> QED BY <2>4 DEF Consulted
  <1> QED BY <1>4, <1>5

\* Nothing but capacities and pauses matters.
LEMMA NothingChanged ==
    ASSUME chan' = chan, pauseUntil' = pauseUntil
    PROVE  Consulted' = Consulted
  <1>1. \A c \in Channel : HasCapacity(c)' <=> HasCapacity(c)
    BY DEF HasCapacity
  <1>2. \A c \in Channel : Up[c] \subseteq Channel
    BY UpFacts
  <1> QED BY <1>1, <1>2 DEF Consulted

\* A channel that is not touched is held as long as the wakeup time is ahead.
LEMMA StaysHeld ==
    ASSUME Typed, wakeup \in Nat, Early, Early', NEW c \in Channel, Held(c),
           chan'[c] = chan[c], pauseUntil'[c] = pauseUntil[c], wakeup' = wakeup, now' \in Nat,
           \A j \in chan[c].queue \cup chan[c].eta : job'[j] = job[j]
    PROVE  Held(c)'
  <1>1. HasCapacity(c)' <=> HasCapacity(c)
    BY DEF HasCapacity
  <1>2. CASE \A j \in chan[c].eta : NotBeforeWakeup(job[j].eta)
    <2>1. \A j \in chan[c].eta : job[j].eta \in Nat /\ job'[j].eta = job[j].eta
      BY WaitersKnown
    <2>2. now \in Nat
      BY DEF Typed, ChannelsTypeOK
    <2>3. Due(c) = {} /\ Due(c)' = {}
      BY <1>2, <2>1, <2>2 DEF Due, NotBeforeWakeup, Early
    <2>4. Ready(c)' = Ready(c) /\ (SequentialWait(c)' <=> SequentialWait(c))
      BY <2>3, SameOutlook
    <2>5. \A j \in chan'[c].eta : NotBeforeWakeup(job[j].eta)'
      BY <1>2, <2>1 DEF NotBeforeWakeup
    <2> QED BY <1>1, <2>4, <2>5 DEF Held, NotBeforeWakeup
  <1>3. CASE ~HasCapacity(c) \/ NotBeforeWakeup(pauseUntil[c])
    BY <1>1, <1>3 DEF Held, NotBeforeWakeup
  <1> QED BY <1>2, <1>3 DEF Held

\* A held channel whose generator runs has nothing to pop.
LEMMA HeldPopsNothing ==
    ASSUME Typed, VisitInv, wakeup \in Nat, NEW c \in Channel, Held(c), cur = c, HasCapacity(c)
    PROVE  /\ Poppable(c) = {} /\ pauseUntil[c] = 0
           /\ \A j \in chan[c].eta : NotBeforeWakeup(job[j].eta)
           /\ Ready(c) = {} \/ SequentialWait(c)
  <1>1. pauseUntil[c] = 0
    BY TreeAssumption DEF VisitInv
  <1> QED BY <1>1, NothingToPop DEF Held, NotBeforeWakeup

\* The moment the wakeup time is computed: what a channel that is asked waits for
\* is not before it.
LEMMA HeldAtWait ==
    ASSUME Typed, VisitInv, WaitNotification
    PROVE  QuietInv'
  <1>1. /\ stage = "run" /\ Idle /\ wakeup' = WakeupTime
        /\ UNCHANGED <<chan, job, pauseUntil, now, todo, cur, yielded>>
    BY DEF WaitNotification, cvars
  <1>2. yielded = NoJob
    BY <1>1, TreeAssumption DEF VisitInv, Idle
  <1>3. Consulted' = Consulted
    BY <1>1, NothingChanged
  <1>4. ASSUME NEW c \in Consulted PROVE Held(c)'
    <2>1. c \in Channel /\ Exhausted(c) /\ now \in Nat /\ pauseUntil[c] \in Nat
      BY <1>1, TreeAssumption DEF VisitInv, Idle, Consulted, Typed, ChannelsTypeOK
    <2>2. ASSUME NEW t \in WakeupOf(c) PROVE wakeup' # 0 /\ wakeup' <= t
      <3>1. t \in WakeupTimes
        BY <2>2 DEF WakeupTimes
      <3>2. PICK d \in Consulted : WakeupTime \in WakeupOf(d)
        BY <3>1, WakeupTypes DEF WakeupTimes
      <3>3. WakeupTime > now
        BY <3>2, <1>1, AskedAhead DEF Consulted
      <3> QED BY <3>1, <3>3, <2>1, <1>1, WakeupTypes
    <2>3. /\ HasCapacity(c)' <=> HasCapacity(c)
          /\ Ready(c)' = Ready(c) /\ (SequentialWait(c)' <=> SequentialWait(c))
      <3>1. Due(c)' = Due(c)
        BY <1>1 DEF Due
      <3> QED BY <3>1, <1>1, <2>1, SameOutlook
    <2>4. CASE ~HasCapacity(c)
      BY <2>3, <2>4 DEF Held
    <2>5. CASE HasCapacity(c) /\ pauseUntil[c] # 0
      <3>1. wakeup' # 0 /\ wakeup' <= pauseUntil[c]
        BY <2>2, <2>5 DEF WakeupOf
      <3> QED BY <3>1, <1>1 DEF Held, NotBeforeWakeup
    <2>6. CASE HasCapacity(c) /\ pauseUntil[c] = 0
      <3>1. Ready(c) = {} \/ SequentialWait(c)
        BY <2>1, <2>6 DEF Exhausted
      <3>2. \A j \in chan[c].eta : wakeup' # 0 /\ wakeup' <= job[j].eta
        BY <2>2, <2>6 DEF WakeupOf
      <3> QED BY <3>1, <3>2, <2>3, <2>6, <1>1 DEF Held, NotBeforeWakeup
    <2> QED BY <2>4, <2>5, <2>6
  <1> QED BY <1>1, <1>2, <1>3, <1>4 DEF QuietInv

\* A yield before the wakeup time is one of a channel that was not asked: a
\* channel on its way to the root is full or in a pause, its parent included.
LEMMA YieldToParentQuiet ==
    ASSUME Typed, VisitInv, wakeup \in Nat, QuietInv, NEW c \in Channel, NEW j \in Job,
           YieldToParent(c, j), UNCHANGED <<wakeup, quiet>>
    PROVE  QuietInv'
  <1> SUFFICES ASSUME Early'
               PROVE  yielded' = NoJob /\ \A d \in Consulted' : Held(d)'
    BY DEF QuietInv
  <1> DEFINE p == Parent[c]
  <1>1. /\ cur = c /\ c # root /\ HasCapacity(c) /\ j \in Poppable(c) /\ now' = now
        /\ yielded' = yielded /\ job' = EtaCleared(Due(c)) /\ p \in Channel /\ p # c
        /\ pauseUntil \in [Channel -> Nat] /\ now \in Nat
    <2>1. p \in Channel /\ (c # root => p # c)
      BY TreeAssumption DEF YieldToParent
    <2> QED BY <2>1 DEF YieldToParent, Typed, ChannelsTypeOK
  <1>2. Early /\ yielded = NoJob /\ \A d \in Consulted : Held(d)
    BY <1>1 DEF Early, QuietInv
  <1>3. c \notin Consulted
    BY <1>1, <1>2, HeldPopsNothing
  <1>4. \A d \in Channel \ {c} : pauseUntil'[d] = pauseUntil[d]
    BY <1>1 DEF YieldToParent, Throttled
  <1>5. \A d \in Channel \ {c, p} : chan'[d] = chan[d]
    BY <1>1 DEF YieldToParent, Typed, ChannelsTypeOK
  <1>6. chan'[p].running = chan[p].running /\ chan'[p].failed = chan[p].failed
    <2>1. chan \in [Channel -> Place]
      BY DEF Typed, ChannelsTypeOK
    <2>2. chan'[p] = Enqueue(chan[p], j, job'[j].eta)
      BY <1>1, <2>1 DEF YieldToParent
    <2> QED BY <1>1, <2>1, <2>2 DEF Enqueue, Place
  <1>7. \A d \in Channel \ {c} : HasCapacity(d)' <=> HasCapacity(d)
    BY <1>5, <1>6 DEF HasCapacity
  <1>8. Consulted' = Consulted
    BY <1>3, <1>4, <1>7, SameConsulted DEF Open
  <1>9. ASSUME NEW d \in Consulted PROVE Held(d)'
    <2>1. d \in Channel /\ d # c /\ Held(d)
      BY <1>2, <1>3 DEF Consulted
    <2>2. CASE d = p
      <3>1. ~(HasCapacity(p) /\ pauseUntil[p] = 0)
        <4>1. Up[c] \ {c} = Up[p]
          BY <1>1, TreeAssumption
        <4> QED BY <4>1, <1>3, <2>2 DEF Consulted
      <3> QED BY <3>1, <2>1, <2>2, <1>4, <1>7 DEF Held, NotBeforeWakeup
    <2>3. CASE d # p
      <3>1. \A i \in chan[d].queue \cup chan[d].eta : job'[i] = job[i]
        BY <1>1, <2>1, PopTouchesItsOwn
      <3> QED BY <3>1, <2>1, <2>3, <1>1, <1>2, <1>4, <1>5, StaysHeld
    <2> QED BY <2>2, <2>3
  <1> QED BY <1>1, <1>2, <1>8, <1>9

\* The root yields nothing before the wakeup time, and is waited for nothing.
LEMMA RootQuiet ==
    ASSUME Typed, VisitInv, wakeup \in Nat, QuietInv, Early
    PROVE  /\ yielded = NoJob
           /\ \A j \in Job : ~YieldToRunner(j)
           /\ ~Resume
  <1>1. root \in Consulted
    BY TreeAssumption DEF Consulted
  <1>2. Held(root) /\ yielded = NoJob /\ root \in Channel
    BY <1>1, TreeAssumption DEF QuietInv
  <1>3. ASSUME NEW j \in Job, YieldToRunner(j) PROVE FALSE
    BY <1>2, <1>3, HeldPopsNothing DEF YieldToRunner
  <1> QED BY <1>2, <1>3 DEF Resume

\* A visit goes past a channel whose pause reaches to the wakeup time.
LEMMA EnterChannelQuiet ==
    ASSUME Typed, VisitInv, wakeup \in Nat, QuietInv, NEW c \in Channel, EnterChannel(c),
           UNCHANGED <<wakeup, quiet>>
    PROVE  QuietInv'
  <1> SUFFICES ASSUME Early'
               PROVE  yielded' = NoJob /\ \A d \in Consulted' : Held(d)'
    BY DEF QuietInv
  <1>1. UNCHANGED <<chan, job, now, yielded>> /\ now \in Nat /\ pauseUntil \in [Channel -> Nat]
    BY DEF EnterChannel, Typed, ChannelsTypeOK
  <1>2. Early /\ yielded = NoJob /\ \A d \in Consulted : Held(d)
    BY <1>1 DEF Early, QuietInv
  <1>3. \A d \in Channel \ {c} : pauseUntil'[d] = pauseUntil[d]
    BY <1>1 DEF EnterChannel
  <1>4. \A d \in Channel : HasCapacity(d)' <=> HasCapacity(d)
    BY <1>1 DEF HasCapacity
  <1>5. c \in Consulted => ~HasCapacity(c) \/ pauseUntil'[c] = pauseUntil[c]
    <2>1. CASE NotBeforeWakeup(pauseUntil[c])
      <3>1. Throttle[c] # 0 /\ pauseUntil[c] # 0 /\ now < pauseUntil[c]
        BY <2>1, <1>1, <1>2 DEF VisitInv, NotBeforeWakeup, Early
      <3> QED BY <3>1 DEF EnterChannel, Paused
    <2>2. CASE pauseUntil[c] = 0
      BY <2>2, <1>1 DEF EnterChannel
    <2> QED BY <2>1, <2>2, <1>2 DEF Held
  <1>6. Consulted' = Consulted
    <2>1. c \in Consulted => (Open(c)' <=> Open(c))
      BY <1>4, <1>5 DEF Open
    <2>2. \A d \in Channel \ {c} : Open(d)' <=> Open(d)
      BY <1>3, <1>4 DEF Open
    <2> QED BY <2>1, <2>2, SameConsulted
  <1>7. ASSUME NEW d \in Consulted PROVE Held(d)'
    <2>1. d \in Channel /\ Held(d)
      BY <1>2 DEF Consulted
    <2>2. CASE pauseUntil'[d] = pauseUntil[d]
      BY <2>1, <2>2, <1>1, <1>2, StaysHeld
    <2>3. CASE d = c /\ ~HasCapacity(c)
      BY <2>3, <1>4 DEF Held
    <2> QED BY <2>2, <2>3, <1>3, <1>5, <2>1
  <1> QED BY <1>1, <1>2, <1>6, <1>7

\* A generator that ends leaves capacities and pauses as they are.
LEMMA LeaveChannelQuiet ==
    ASSUME Typed, VisitInv, wakeup \in Nat, QuietInv, NEW c \in Channel, LeaveChannel(c),
           UNCHANGED <<wakeup, quiet>>
    PROVE  QuietInv'
  <1> SUFFICES ASSUME Early'
               PROVE  yielded' = NoJob /\ \A d \in Consulted' : Held(d)'
    BY DEF QuietInv
  <1>1. /\ UNCHANGED <<pauseUntil, now, yielded>> /\ now \in Nat /\ cur = c
        /\ chan \in [Channel -> Place]
    BY DEF LeaveChannel, Typed, ChannelsTypeOK
  <1>2. Early /\ yielded = NoJob /\ \A d \in Consulted : Held(d)
    BY <1>1 DEF Early, QuietInv
  <1>3. CASE ~HasCapacity(c) /\ UNCHANGED <<chan, job>>
    <2>1. Consulted' = Consulted
      BY <1>1, <1>3, NothingChanged
    <2>2. \A d \in Consulted : Held(d)'
      BY <1>1, <1>2, <1>3, StaysHeld DEF Consulted
    <2> QED BY <2>1, <2>2, <1>1, <1>2
  <1>4. CASE /\ HasCapacity(c) /\ job' = EtaCleared(Due(c))
             /\ chan' = [chan EXCEPT ![c] = AfterPop(c, {})]
    <2>1. \A d \in Channel \ {c} : chan'[d] = chan[d]
      BY <1>1, <1>4
    <2>2. /\ HasCapacity(c)' <=> HasCapacity(c)
          /\ Ready(c)' = Ready(c) /\ (SequentialWait(c)' <=> SequentialWait(c))
      BY <1>1, <1>4, EmptyPop
    <2>3. \A d \in Channel : HasCapacity(d)' <=> HasCapacity(d)
      BY <2>1, <2>2 DEF HasCapacity
    <2>4. Consulted' = Consulted
      BY <2>3, <1>1, UpFacts DEF Consulted
    <2>5. ASSUME NEW d \in Consulted PROVE Held(d)'
      <3>1. d \in Channel /\ Held(d)
        BY <1>2 DEF Consulted
      <3>2. CASE d # c
        <4>1. \A i \in chan[d].queue \cup chan[d].eta : job'[i] = job[i]
          BY <1>4, <3>1, <3>2, PopTouchesItsOwn
        <4> QED BY <4>1, <3>1, <3>2, <2>1, <1>1, <1>2, StaysHeld
      <3>3. CASE d = c
        <4>1. /\ pauseUntil[c] = 0 /\ \A j \in chan[c].eta : NotBeforeWakeup(job[j].eta)
              /\ Ready(c) = {} \/ SequentialWait(c)
          BY <3>1, <3>3, <1>1, <1>4, HeldPopsNothing
        <4>2. chan'[c].eta = Later(c)
          BY <1>1, <1>4 DEF AfterPop, Place
        <4>3. \A j \in Later(c) : job'[j] = job[j] /\ j \in chan[c].eta
          BY WaitersKnown, <1>4 DEF EtaCleared, Later
        <4>4. \A j \in chan'[c].eta : NotBeforeWakeup(job[j].eta)'
          BY <4>1, <4>2, <4>3 DEF NotBeforeWakeup
        <4> QED BY <3>3, <4>1, <4>4, <2>2, <1>1 DEF Held
      <3> QED BY <3>2, <3>3
    <2> QED BY <2>4, <2>5, <1>1, <1>2
  <1> QED BY <1>3, <1>4 DEF LeaveChannel

\* The runner's loop keeps QuietInv.
LEMMA QuietStep ==
    Typed /\ VisitInv /\ TimingTypeOK /\ QuietInv /\ [TimingNext]_tvars /\ Typed' => QuietInv'
  <1> SUFFICES ASSUME Typed, VisitInv, TimingTypeOK, QuietInv, [TimingNext]_tvars, Typed'
               PROVE  QuietInv'
    OBVIOUS
  <1>1. wakeup \in Nat
    BY DEF TimingTypeOK
  <1>2. CASE ProcessNotification \/ HandleException
    BY <1>2 DEF ProcessNotification, HandleException, QuietInv, Early
  <1>3. CASE RunJobs \/ Wake \/ Sleep \/ UNCHANGED tvars
    <2> SUFFICES ASSUME Early'
                 PROVE  yielded' = NoJob /\ \A d \in Consulted' : Held(d)'
      BY DEF QuietInv
    <2>1. /\ UNCHANGED <<chan, job, pauseUntil, yielded, wakeup, quiet>>
          /\ now' \in {now, now + 1} /\ now \in Nat
      BY <1>3 DEF RunJobs, StartVisit, Wake, Sleep, Tick, tvars, cvars, Typed, ChannelsTypeOK
    <2>2. Early
      BY <2>1, <1>1 DEF Early
    <2>3. Consulted' = Consulted
      BY <2>1, NothingChanged
    <2>4. \A d \in Consulted : Held(d)'
      BY <2>1, <2>2, <1>1, StaysHeld DEF Consulted, QuietInv
    <2> QED BY <2>1, <2>2, <2>3, <2>4 DEF QuietInv
  <1>4. CASE YieldStep
    <2>1. ASSUME NEW j \in Job, YieldToRunner(j), UNCHANGED <<wakeup, quiet>>
          PROVE  QuietInv'
      <3>1. now' = now
        BY <2>1 DEF YieldToRunner
      <3>2. ~Early
        BY <2>1, <1>1, RootQuiet
      <3> QED BY <3>1, <3>2, <2>1 DEF QuietInv, Early
    <2> QED BY <1>1, <1>4, <2>1, YieldToParentQuiet DEF YieldStep
  <1>5. CASE OtherStep
    <2>1. ASSUME Resume, UNCHANGED <<wakeup, quiet>>
          PROVE  QuietInv'
      <3>1. now' = now
        BY <2>1 DEF Resume
      <3>2. ~Early
        BY <2>1, <1>1, RootQuiet
      <3> QED BY <3>1, <3>2, <2>1 DEF QuietInv, Early
    <2> QED BY <1>1, <1>5, <2>1, EnterChannelQuiet, LeaveChannelQuiet DEF OtherStep
  <1>6. CASE WaitNotification
    BY <1>6, HeldAtWait
  <1> QED BY <1>2, <1>3, <1>4, <1>5, <1>6 DEF TimingNext

\* No wakeup is missed: sleeping until the wakeup time, or for ever when there is
\* none, delays no job that only time would release.
THEOREM NoWakeupMissed == TimingSpec => NoEarlyYield
  <1>1. TimingInit => QuietInv
    BY DEF TimingInit, QuietInv, Early
  <1>2. TimingSpec => [](Typed /\ VisitInv /\ TimingTypeOK /\ QuietInv)
    BY <1>1, AlwaysTimed, QuietStep, PTL DEF TimingSpec
  <1>3. Typed /\ VisitInv /\ TimingTypeOK /\ QuietInv /\ [TimingNext]_tvars
        => [yielded = NoJob /\ yielded' # NoJob
            => ~(quiet /\ (wakeup = 0 \/ now < wakeup))]_tvars
    <2> SUFFICES ASSUME Typed, VisitInv, TimingTypeOK, QuietInv, TimingNext, Early,
                        yielded = NoJob, yielded' # NoJob
                 PROVE  FALSE
      BY DEF Early, tvars, cvars
    <2>1. wakeup \in Nat
      BY DEF TimingTypeOK
    <2>2. ~YieldStep
      BY <2>1, RootQuiet DEF YieldStep, YieldToParent
    <2>3. ~(ProcessNotification \/ RunJobs \/ WaitNotification \/ Wake \/ Sleep)
      BY DEF ProcessNotification, External, RunJobs, StartVisit, WaitNotification, Wake,
             Sleep, Tick, cvars
    <2>4. ~OtherStep
      BY <2>1, RootQuiet DEF OtherStep, EnterChannel, LeaveChannel
    <2>5. ~HandleException
      BY DEF HandleException, Recover
    <2> QED BY <2>2, <2>3, <2>4, <2>5 DEF TimingNext
  <1> QED BY <1>2, <1>3, PTL DEF TimingSpec, NoEarlyYield
=============================================================================
