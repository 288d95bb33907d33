--------------------------- MODULE ChannelsProofs ---------------------------
(***************************************************************************)
(* Where a job may sit in the channels, proved for every tree of channels, *)
(* every configuration and every sequence of calls (ChannelsSpec).         *)
(*                                                                         *)
(* The four invariants of Channels.tla hold only together: that a waiting  *)
(* job is absent from the channels below it (AbsentAbove) is what makes a  *)
(* yield to the parent safe (Exclusive), that a job is confined to its     *)
(* path (Confined) is what makes its removal complete.  Placed is their    *)
(* conjunction, stated for any chan and job so that the operators of       *)
(* Channels.tla can be treated one by one.                                 *)
(***************************************************************************)
EXTENDS Channels, LazyHeap, FiniteSetTheorems, TLAPS

InPlace(p, j) == j \in p.queue \/ j \in p.eta \/ j \in p.running \/ j \in p.failed

OneSet(p, j) == /\ ~(j \in p.queue /\ j \in p.eta)
                /\ ~(InQueue(p, j) /\ j \in p.running)
                /\ ~(InQueue(p, j) /\ j \in p.failed)
                /\ ~(j \in p.running /\ j \in p.failed)

JobPlaced(ch, jb, j) ==
    \A c \in Channel :
        /\ InPlace(ch[c], j) => jb[j] # NoJob /\ c \in Up[jb[j].channel]
        /\ OneSet(ch[c], j)
        /\ InQueue(ch[c], j) \/ j \in ch[c].failed
           => \A a \in Up[c] \ {c} : ~InPlace(ch[a], j)
        /\ InPlace(ch[c], j) => \A d \in Up[jb[j].channel] :
                                   c \in Up[d] /\ c # d => j \in ch[d].running

Placed(ch, jb) == \A j \in Job : JobPlaced(ch, jb, j)

JobMap == [Job -> ChannelJob \cup {NoJob}]
PlaceMap == [Channel -> Place]

-----------------------------------------------------------------------------
(* The tree of channels.                                                   *)

\* A channel is on its own path, and two channels on each other's are one.
LEMMA UpFacts ==
    /\ \A c \in Channel : c \in Up[c] /\ Up[c] \subseteq Channel
    /\ \A a, c \in Channel : a \in Up[c] /\ c \in Up[a] => a = c
  <1>1. \A c \in Channel : c \in Up[c] /\ Up[c] \subseteq Channel
    BY TreeAssumption
  <1>2. ASSUME NEW a \in Channel, NEW c \in Channel, a \in Up[c], c \in Up[a], a # c
        PROVE  FALSE
    <2>1. CASE c = root
      BY <2>1, <1>2, TreeAssumption
    <2>2. CASE c # root
      <3>1. a \in Up[Parent[c]] /\ Parent[c] \in Channel
        BY <2>2, <1>2, TreeAssumption
      <3>2. Up[a] \subseteq Up[Parent[c]]
        BY <3>1, TreeAssumption
      <3> QED BY <3>2, <2>2, <1>2, TreeAssumption
    <2> QED BY <2>1, <2>2
  <1> QED BY <1>1, <1>2

\* The strict ancestors of c are its parent and the parent's strict ancestors.
LEMMA ParentFacts ==
    ASSUME NEW c \in Channel, c # root
    PROVE  /\ Parent[c] \in Channel /\ Parent[c] # c /\ Parent[c] \in Up[c]
           /\ Up[c] \ {c} = Up[Parent[c]]
           /\ c \notin Up[Parent[c]]
  BY UpFacts, TreeAssumption

-----------------------------------------------------------------------------
(* One lemma for each operator on places.                                  *)

\* The fields of a place after the elementary changes.
LEMMA WithoutFacts ==
    \A p \in Place, j \in Job :
        /\ Without(p, {j}) \in Place
        /\ Without(p, {j}).queue = p.queue \ {j} /\ Without(p, {j}).eta = p.eta \ {j}
        /\ Without(p, {j}).running = p.running \ {j}
        /\ Without(p, {j}).failed = p.failed \ {j}
  BY DEF Place, Without

\* ChannelQueue.add puts the job in one of the two queues.
LEMMA EnqueueFacts ==
    ASSUME NEW p \in Place, NEW j \in Job, NEW e \in Nat
    PROVE  LET q == Enqueue(p, j, e) IN
           /\ q \in Place
           /\ \A i : i \in q.queue <=> i \in p.queue \/ (i = j /\ e = 0)
           /\ \A i : i \in q.eta <=> i \in p.eta \/ (i = j /\ e # 0)
           /\ \A i : i \in q.running <=> i \in p.running
           /\ \A i : i \in q.failed <=> i \in p.failed
  BY DEF Place, Enqueue

\* Channel.remove changes the channels on the path, and only by j.
LEMMA RemoveFromFacts ==
    \A ch \in PlaceMap, j \in Job, c \in Channel :
        /\ RemoveFrom(ch, j, c) \in PlaceMap
        /\ \A d \in Channel : RemoveFrom(ch, j, c)[d] =
                                IF d \in Up[c] THEN Without(ch[d], {j}) ELSE ch[d]
  BY WithoutFacts DEF RemoveFrom, PlaceMap

SameIn(p, q, j) == /\ j \in p.queue <=> j \in q.queue
                   /\ j \in p.eta <=> j \in q.eta
                   /\ j \in p.running <=> j \in q.running
                   /\ j \in p.failed <=> j \in q.failed

\* A job that is not touched stays where it may be.
LEMMA UntouchedPlaced ==
    ASSUME NEW ch, NEW new, NEW jb \in JobMap, NEW jb2, NEW i \in Job,
           JobPlaced(ch, jb, i), jb2[i] = jb[i] \/ (jb[i] # NoJob /\ jb2[i] # NoJob
                                                      /\ jb2[i].channel = jb[i].channel),
           \A c \in Channel : SameIn(ch[c], new[c], i)
    PROVE  JobPlaced(new, jb2, i)
  <1>1. jb[i] # NoJob => Up[jb[i].channel] \subseteq Channel
    BY UpFacts DEF JobMap, ChannelJob
  <1>2. \A c \in Channel : Up[c] \subseteq Channel
    BY UpFacts
  <1> QED BY <1>1, <1>2 DEF JobPlaced, InPlace, InQueue, OneSet, SameIn

\* Channel.remove, from the channel of the job, leaves the job nowhere.
LEMMA RemovePlaced ==
    ASSUME NEW ch \in PlaceMap, NEW jb \in JobMap, Placed(ch, jb), NEW j \in Job
    PROVE  /\ jb[j] # NoJob =>
                LET new == RemoveFrom(ch, j, jb[j].channel) IN
                /\ new \in PlaceMap
                /\ \A c \in Channel : ~InPlace(new[c], j)
                /\ \A r \in ChannelJob \cup {NoJob} : Placed(new, [jb EXCEPT ![j] = r])
           /\ jb[j] = NoJob =>
                /\ \A c \in Channel : ~InPlace(ch[c], j)
                /\ \A r \in ChannelJob \cup {NoJob} : Placed(ch, [jb EXCEPT ![j] = r])
  <1>1. ASSUME jb[j] # NoJob
        PROVE LET new == RemoveFrom(ch, j, jb[j].channel) IN
                /\ new \in PlaceMap
                /\ \A c \in Channel : ~InPlace(new[c], j)
                /\ \A r \in ChannelJob \cup {NoJob} : Placed(new, [jb EXCEPT ![j] = r])
    <2> DEFINE new == RemoveFrom(ch, j, jb[j].channel)
    <2>1. jb[j].channel \in Channel
      BY <1>1 DEF JobMap, ChannelJob
    <2>2. new \in PlaceMap
      BY <2>1 DEF RemoveFrom, Without, PlaceMap, Place
    <2>3. \A c \in Channel : ~InPlace(new[c], j)
      BY <2>1 DEF RemoveFrom, Without, InPlace, Placed, JobPlaced, PlaceMap, Place
    <2>4. ASSUME NEW r \in ChannelJob \cup {NoJob}, NEW i \in Job
          PROVE  JobPlaced(new, [jb EXCEPT ![j] = r], i)
      <3>1. CASE i = j
        BY <3>1, <2>3 DEF JobPlaced, InPlace, InQueue, OneSet
      <3>2. CASE i # j
        <4>1. \A c \in Channel : SameIn(ch[c], new[c], i)
          BY <3>2 DEF RemoveFrom, Without, SameIn
        <4>2. [jb EXCEPT ![j] = r][i] = jb[i]
          BY <3>2 DEF JobMap
        <4> HIDE DEF new
        <4> QED BY <4>1, <4>2, UntouchedPlaced DEF Placed
      <3> QED BY <3>1, <3>2
    <2> QED BY <2>2, <2>3, <2>4 DEF Placed
  <1>2. ASSUME jb[j] = NoJob
        PROVE  /\ \A c \in Channel : ~InPlace(ch[c], j)
               /\ \A r \in ChannelJob \cup {NoJob} : Placed(ch, [jb EXCEPT ![j] = r])
    <2>1. \A c \in Channel : ~InPlace(ch[c], j)
      BY <1>2 DEF Placed, JobPlaced
    <2>2. ASSUME NEW r \in ChannelJob \cup {NoJob}, NEW i \in Job
          PROVE  JobPlaced(ch, [jb EXCEPT ![j] = r], i)
      <3>1. CASE i = j
        BY <3>1, <2>1 DEF JobPlaced, InPlace, InQueue, OneSet
      <3>2. CASE i # j
        BY <3>2 DEF JobPlaced, Placed, JobMap
      <3> QED BY <3>1, <3>2
    <2> QED BY <2>1, <2>2 DEF Placed
  <1> QED BY <1>1, <1>2

\* The three setters, called on the channel of a job the manager knows.
LEMMA SetPendingPlaced ==
    ASSUME NEW ch \in PlaceMap, NEW jb \in JobMap, Placed(ch, jb),
           NEW j \in Job, jb[j] # NoJob
    PROVE  LET new == SetPending(ch, j, jb[j].channel, jb[j].eta)
           IN  new \in PlaceMap /\ Placed(new, jb)
  <1> DEFINE own == jb[j].channel
             new == SetPending(ch, j, own, jb[j].eta)
  <1>1. own \in Channel /\ own \in Up[own] /\ Up[own] \subseteq Channel
    BY UpFacts DEF JobMap, ChannelJob
  <1>2. CASE InQueue(ch[own], j)
    BY <1>2 DEF SetPending
  <1>3. CASE ~InQueue(ch[own], j)
    <2> DEFINE base == RemoveFrom(ch, j, own)
    <2>1. new = [base EXCEPT ![own] = Enqueue(base[own], j, jb[j].eta)]
      BY <1>3 DEF SetPending
    <2>a. /\ base \in PlaceMap
          /\ \A d \in Channel : base[d] = IF d \in Up[own] THEN Without(ch[d], {j}) ELSE ch[d]
      BY <1>1, RemoveFromFacts
    <2> HIDE DEF base, new
    <2>b. /\ new \in [Channel -> Place]
          /\ new[own] = Enqueue(base[own], j, jb[j].eta)
          /\ \A d \in Channel \ {own} : new[d] = base[d]
          /\ base[own] \in Place /\ ch[own] \in Place /\ jb[j].eta \in Nat
      BY <2>1, <2>a, <1>1, EnqueueFacts DEF PlaceMap, JobMap, ChannelJob
    <2>c. /\ \A i : i \in new[own].queue <=> i \in base[own].queue \/ (i = j /\ jb[j].eta = 0)
          /\ \A i : i \in new[own].eta <=> i \in base[own].eta \/ (i = j /\ jb[j].eta # 0)
          /\ \A i : i \in new[own].running <=> i \in base[own].running
          /\ \A i : i \in new[own].failed <=> i \in base[own].failed
      BY <2>b, EnqueueFacts
    <2>d. /\ j \notin base[own].queue /\ j \notin base[own].eta
          /\ j \notin base[own].running /\ j \notin base[own].failed
      BY <2>a, <2>b, <1>1, WithoutFacts
    <2>2. new \in PlaceMap
      BY <2>b DEF PlaceMap
    <2>3. \A c \in Channel \ {own} : ~InPlace(new[c], j)
      BY <2>a, <2>b, <1>1 DEF Without, InPlace, Placed, JobPlaced, PlaceMap, Place
    <2>4. /\ InQueue(new[own], j) /\ OneSet(new[own], j)
          /\ j \notin new[own].running /\ j \notin new[own].failed
      BY <2>c, <2>d DEF InQueue, OneSet
    <2>5. \A i \in Job \ {j}, c \in Channel : SameIn(ch[c], new[c], i)
      <3>1. \A c \in Channel, i \in Job \ {j} : SameIn(ch[c], base[c], i)
        BY <2>a, <1>1 DEF Without, SameIn, PlaceMap, Place
      <3>2. \A i \in Job \ {j} : SameIn(base[own], new[own], i)
        BY <2>c DEF SameIn
      <3> QED BY <3>1, <3>2, <2>b, <1>1 DEF SameIn
    <2>6. JobPlaced(new, jb, j)
      <3>1. \A c \in Channel : OneSet(new[c], j)
        BY <2>3, <2>4 DEF OneSet, InPlace, InQueue
      <3>2. \A d \in Up[own] : own \in Up[d] => d = own
        BY <1>1, UpFacts
      <3>3. \A c \in Channel : InPlace(new[c], j) => c = own
        BY <2>3
      <3>4. \A c \in Channel : InQueue(new[c], j) \/ j \in new[c].failed => InPlace(new[c], j)
        BY DEF InPlace, InQueue
      <3>5. \A c \in Channel : Up[c] \subseteq Channel
        BY UpFacts
      <3> QED BY <1>1, <3>1, <3>2, <3>3, <3>4, <3>5 DEF JobPlaced
    <2>7. \A i \in Job \ {j} : JobPlaced(new, jb, i)
      BY <2>5, UntouchedPlaced DEF Placed
    <2> QED BY <2>2, <2>6, <2>7 DEF Placed, new
  <1> QED BY <1>2, <1>3

\* set_failed leaves the job in the failed set of its own channel alone.
LEMMA SetFailedPlaced ==
    ASSUME NEW ch \in PlaceMap, NEW jb \in JobMap, Placed(ch, jb),
           NEW j \in Job, jb[j] # NoJob
    PROVE  LET new == SetFailed(ch, j, jb[j].channel)
           IN  new \in PlaceMap /\ Placed(new, jb)
  <1> DEFINE own == jb[j].channel
             new == SetFailed(ch, j, own)
  <1>1. own \in Channel /\ own \in Up[own] /\ Up[own] \subseteq Channel
    BY UpFacts DEF JobMap, ChannelJob
  <1>2. CASE j \in ch[own].failed
    BY <1>2 DEF SetFailed
  <1>3. CASE j \notin ch[own].failed
    <2> DEFINE base == RemoveFrom(ch, j, own)
    <2>1. new = [base EXCEPT ![own] = [base[own] EXCEPT !.failed = base[own].failed \cup {j}]]
      BY <1>3 DEF SetFailed
    <2>a. /\ base \in PlaceMap
          /\ \A d \in Channel : base[d] = IF d \in Up[own] THEN Without(ch[d], {j}) ELSE ch[d]
      BY <1>1, RemoveFromFacts
    <2> HIDE DEF base, new
    <2>b. /\ new[own] = [base[own] EXCEPT !.failed = base[own].failed \cup {j}]
          /\ \A d \in Channel \ {own} : new[d] = base[d]
          /\ base[own] \in Place /\ ch[own] \in Place
      BY <2>1, <2>a, <1>1 DEF PlaceMap
    <2>c. /\ new[own] \in Place
          /\ new[own].queue = base[own].queue /\ new[own].eta = base[own].eta
          /\ new[own].running = base[own].running
          /\ new[own].failed = base[own].failed \cup {j}
      BY <2>b DEF Place
    <2>2. new \in PlaceMap
      BY <2>1, <2>a, <2>b, <2>c, <1>1 DEF PlaceMap
    <2>3. \A c \in Channel \ {own} : ~InPlace(new[c], j)
      BY <2>a, <2>b, <1>1 DEF Without, InPlace, Placed, JobPlaced, PlaceMap, Place
    <2>4. OneSet(new[own], j)
      <3>1. /\ j \notin base[own].queue /\ j \notin base[own].eta
            /\ j \notin base[own].running
        BY <2>a, <2>b, <1>1, WithoutFacts
      <3> QED BY <3>1, <2>c DEF InQueue, OneSet
    <2>5. \A i \in Job \ {j}, c \in Channel : SameIn(ch[c], new[c], i)
      <3>1. \A c \in Channel, i \in Job \ {j} : SameIn(ch[c], base[c], i)
        BY <2>a, <1>1 DEF Without, SameIn, PlaceMap, Place
      <3>2. \A i \in Job \ {j} : SameIn(base[own], new[own], i)
        BY <2>c DEF SameIn
      <3> QED BY <3>1, <3>2, <2>b, <1>1 DEF SameIn
    <2>6. JobPlaced(new, jb, j)
      <3>1. \A c \in Channel : OneSet(new[c], j)
        BY <2>3, <2>4 DEF OneSet, InPlace, InQueue
      <3>2. \A d \in Up[own] : own \in Up[d] => d = own
        BY <1>1, UpFacts
      <3>3. \A c \in Channel : InPlace(new[c], j) => c = own
        BY <2>3
      <3>4. \A c \in Channel : InQueue(new[c], j) \/ j \in new[c].failed => InPlace(new[c], j)
        BY DEF InPlace, InQueue
      <3>5. \A c \in Channel : Up[c] \subseteq Channel
        BY UpFacts
      <3> QED BY <1>1, <3>1, <3>2, <3>3, <3>4, <3>5 DEF JobPlaced
    <2>7. \A i \in Job \ {j} : JobPlaced(new, jb, i)
      BY <2>5, UntouchedPlaced DEF Placed
    <2> QED BY <2>2, <2>6, <2>7 DEF Placed, new
  <1> QED BY <1>2, <1>3

\* The climb of set_running stops where the job runs already; by BackedBelow
\* everything it leaves alone above that is as it should be.
LEMMA SetRunningPlaced ==
    ASSUME NEW ch \in PlaceMap, NEW jb \in JobMap, Placed(ch, jb),
           NEW j \in Job, jb[j] # NoJob
    PROVE  LET new == SetRunning(ch, j, jb[j].channel)
           IN  new \in PlaceMap /\ Placed(new, jb)
  <1> DEFINE own == jb[j].channel
             climb == Climbed(ch, j, own)
             new == SetRunning(ch, j, own)
  <1>1. own \in Channel /\ own \in Up[own] /\ Up[own] \subseteq Channel
    BY UpFacts DEF JobMap, ChannelJob
  <1>2. new \in PlaceMap
    BY DEF SetRunning, Without, PlaceMap, Place
  <1>3. \A c \in climb : /\ j \in new[c].running /\ OneSet(new[c], j)
                         /\ ~InQueue(new[c], j) /\ j \notin new[c].failed
    BY <1>1 DEF SetRunning, Without, OneSet, InQueue, Climbed, PlaceMap, Place
  <1>4. \A c \in Channel \ climb : new[c] = ch[c]
    BY DEF SetRunning
  <1>5. \A i \in Job \ {j}, c \in Channel : SameIn(ch[c], new[c], i)
    BY DEF SetRunning, Without, SameIn, PlaceMap, Place
  <1>6. climb \subseteq Up[own] /\ \A a \in climb : j \notin ch[a].running
    BY <1>1, UpFacts DEF Climbed
  <1>7. \A a \in climb, d \in Up[own] : a \in Up[d] => d \in climb
    BY <1>1, TreeAssumption DEF Climbed
  <1>8. JobPlaced(ch, jb, j)
    BY DEF Placed
  <1> HIDE DEF new, climb
  <1>9. JobPlaced(new, jb, j)
    <2> SUFFICES ASSUME NEW c \in Channel
                 PROVE
        /\ InPlace(new[c], j) => jb[j] # NoJob /\ c \in Up[jb[j].channel]
        /\ OneSet(new[c], j)
        /\ InQueue(new[c], j) \/ j \in new[c].failed
           => \A a \in Up[c] \ {c} : ~InPlace(new[a], j)
        /\ InPlace(new[c], j) => \A d \in Up[jb[j].channel] :
                                   c \in Up[d] /\ c # d => j \in new[d].running
      BY DEF JobPlaced
    <2>1. OneSet(new[c], j) /\ (InPlace(new[c], j) => c \in Up[own])
      BY <1>3, <1>4, <1>6, <1>8 DEF JobPlaced
    <2>2. ASSUME InQueue(new[c], j) \/ j \in new[c].failed
          PROVE  \A a \in Up[c] \ {c} : ~InPlace(new[a], j)
      <3>1. c \notin climb /\ new[c] = ch[c]
        BY <2>2, <1>3, <1>4
      <3>2. c \in Up[own]
        BY <2>1, <2>2 DEF InPlace, InQueue
      <3>3. \A a \in Up[c] : a \notin climb /\ a \in Channel
        BY <3>1, <3>2, <1>1, <1>7, UpFacts
      <3> QED BY <2>2, <3>1, <3>3, <1>4, <1>8 DEF JobPlaced
    <2>3. ASSUME InPlace(new[c], j), NEW d \in Up[own], c \in Up[d], c # d
          PROVE  j \in new[d].running
      <3>1. d \in Channel
        BY <1>1
      <3>2. CASE c \in climb
        BY <3>2, <1>7, <1>3, <2>3
      <3>3. CASE c \notin climb
        <4>1. j \in ch[d].running
          BY <3>3, <2>3, <1>4, <1>8 DEF JobPlaced
        <4> QED BY <4>1, <1>6, <1>4, <3>1
      <3> QED BY <3>2, <3>3
    <2> QED BY <2>1, <2>2, <2>3
  <1>10. \A i \in Job \ {j} : JobPlaced(new, jb, i)
    BY <1>5, UntouchedPlaced DEF Placed
  <1> QED BY <1>2, <1>9, <1>10 DEF Placed, new

-----------------------------------------------------------------------------
(* One lemma for each call of the manager and each step of the generator.  *)

\* notify, whatever the row says: the job is removed first when it has moved,
\* so the setter finds it in its channel's path or nowhere.
LEMMA NotifyPlaced ==
    ASSUME chan \in PlaceMap, job \in JobMap, Placed(chan, job),
           NEW j \in Job, NEW r \in ChannelJob, NEW st \in State,
           Notify(j, r, st)
    PROVE  chan' \in PlaceMap /\ job' \in JobMap /\ Placed(chan', job')
  <1> DEFINE moved == job[j] # NoJob /\ job[j] # r
             base == IF moved THEN RemoveFrom(chan, j, job[j].channel) ELSE chan
             jb == [job EXCEPT ![j] = r]
  <1>1. r # NoJob /\ jb \in JobMap /\ jb[j] = r
    BY NoJobAssumption DEF JobMap
  <1>2. base \in PlaceMap /\ Placed(base, jb)
    <2>1. CASE moved
      BY <2>1, RemovePlaced
    <2>2. CASE job[j] = NoJob
      BY <2>2, RemovePlaced
    <2>3. CASE job[j] = r
      <3>1. jb = job
        BY <2>3 DEF JobMap
      <3> QED BY <3>1, <2>3
    <2> QED BY <2>1, <2>2, <2>3
  <1> HIDE DEF base, jb
  <1>3. CASE st \in {"none", "done"}
    <2>1. chan' = RemoveFrom(base, j, r.channel) /\ job' = [job EXCEPT ![j] = NoJob]
      BY <1>3 DEF Notify, Notified, SetDone, base
    <2>2. /\ RemoveFrom(base, j, r.channel) \in PlaceMap
          /\ Placed(RemoveFrom(base, j, r.channel), [jb EXCEPT ![j] = NoJob])
      BY <1>1, <1>2, RemovePlaced
    <2>3. [jb EXCEPT ![j] = NoJob] = [job EXCEPT ![j] = NoJob]
      BY DEF jb, JobMap
    <2>4. [job EXCEPT ![j] = NoJob] \in JobMap
      BY DEF JobMap
    <2> QED BY <2>1, <2>2, <2>3, <2>4
  <1>4. CASE st = "pending"
    <2>1. chan' = SetPending(base, j, r.channel, r.eta) /\ job' = jb
      BY <1>4 DEF Notify, Notified, base, jb
    <2> QED BY <2>1, <1>1, <1>2, SetPendingPlaced
  <1>5. CASE st \in {"enqueued", "started"}
    <2>1. chan' = SetRunning(base, j, r.channel) /\ job' = jb
      BY <1>5 DEF Notify, Notified, base, jb
    <2> QED BY <2>1, <1>1, <1>2, SetRunningPlaced
  <1>6. CASE st = "failed"
    <2>1. chan' = SetFailed(base, j, r.channel) /\ job' = jb
      BY <1>6 DEF Notify, Notified, base, jb
    <2> QED BY <2>1, <1>1, <1>2, SetFailedPlaced
  <1> QED BY <1>3, <1>4, <1>5, <1>6 DEF State

\* remove_job, of a job the manager knows or not.
LEMMA RemoveJobPlaced ==
    ASSUME chan \in PlaceMap, job \in JobMap, Placed(chan, job),
           NEW j \in Job, RemoveJob(j)
    PROVE  chan' \in PlaceMap /\ job' \in JobMap /\ Placed(chan', job')
  <1>1. job' = [job EXCEPT ![j] = NoJob] /\ job' \in JobMap
    BY DEF RemoveJob, JobMap
  <1>2. CASE job[j] = NoJob
    <2>1. chan' = chan
      BY <1>2 DEF RemoveJob
    <2>2. Placed(chan, [job EXCEPT ![j] = NoJob])
      BY <1>2, RemovePlaced
    <2> QED BY <1>1, <2>1, <2>2
  <1>3. CASE job[j] # NoJob
    <2>1. chan' = RemoveFrom(chan, j, job[j].channel)
      BY <1>3 DEF RemoveJob
    <2>2. LET new == RemoveFrom(chan, j, job[j].channel)
          IN  new \in PlaceMap /\ Placed(new, [job EXCEPT ![j] = NoJob])
      BY <1>3, RemovePlaced
    <2> QED BY <1>1, <2>1, <2>2
  <1> QED BY <1>2, <1>3

\* remove_db empties every channel: no job sits off its own path.
LEMMA RemoveDbPlaced ==
    ASSUME chan \in PlaceMap, job \in JobMap, Placed(chan, job), RemoveDb
    PROVE  /\ chan' \in PlaceMap /\ job' \in JobMap /\ Placed(chan', job')
           /\ \A c \in Channel, i \in Job : ~InPlace(chan'[c], i)
  <1>1. chan' \in PlaceMap /\ job' \in JobMap
    BY DEF RemoveDb, Without, PlaceMap, Place, JobMap
  <1>2. \A c \in Channel, i \in Job : ~InPlace(chan'[c], i)
    <2> SUFFICES ASSUME NEW c \in Channel, NEW i \in Job PROVE ~InPlace(chan'[c], i)
      OBVIOUS
    <2>1. InPlace(chan[c], i) => job[i] # NoJob /\ c \in Up[job[i].channel]
      BY DEF Placed, JobPlaced
    <2> QED BY <2>1 DEF RemoveDb, Without, InPlace, PlaceMap, Place
  <1>3. \A i \in Job : JobPlaced(chan', job', i)
    BY <1>2 DEF JobPlaced, InPlace, InQueue, OneSet
  <1> QED BY <1>1, <1>2, <1>3 DEF Placed

\* Due jobs change from the eta queue to the queue of c, those of S (none or the
\* one that is popped) from either to its running set.
LEMMA AfterPopFacts ==
    ASSUME chan \in PlaceMap, NEW c \in Channel, NEW S \in SUBSET Ready(c)
    PROVE  LET q == AfterPop(c, S)
               p == chan[c] IN
           /\ q \in Place
           /\ \A i : i \in q.queue <=> (i \in p.queue \/ i \in Due(c)) /\ i \notin S
           /\ \A i : i \in q.eta <=> i \in p.eta /\ i \notin Due(c)
           /\ \A i : i \in q.running <=> i \in p.running \/ i \in S
           /\ \A i : i \in q.failed <=> i \in p.failed
           /\ \A i \in S : InQueue(p, i)
           /\ \A i \in Due(c) : i \in p.eta
  <1>1. chan[c] \in Place /\ S \subseteq Job
    BY DEF PlaceMap, Place, Ready, Due
  <1> QED BY <1>1 DEF AfterPop, Ready, Later, Due, Place, InQueue

\* Clearing etas changes no channel of a job and forgets none.
LEMMA EtaClearedFacts ==
    ASSUME job \in JobMap, NEW S
    PROVE  /\ EtaCleared(S) \in JobMap
           /\ \A i \in Job : /\ EtaCleared(S)[i] = NoJob <=> job[i] = NoJob
                             /\ job[i] # NoJob => EtaCleared(S)[i].channel = job[i].channel
  <1>1. \A i \in Job : job[i] # NoJob =>
            /\ job[i] \in ChannelJob /\ [job[i] EXCEPT !.eta = 0] \in ChannelJob
            /\ [job[i] EXCEPT !.eta = 0].channel = job[i].channel
    BY DEF JobMap, ChannelJob
  <1> QED BY <1>1, NoJobAssumption DEF EtaCleared, JobMap

\* A pop keeps every job placed, the popped ones included: they have waited in
\* c, so nothing of them is above c.
LEMMA PopPlaced ==
    ASSUME chan \in PlaceMap, job \in JobMap, Placed(chan, job),
           NEW c \in Channel, NEW S \in SUBSET Ready(c)
    PROVE  LET ch == [chan EXCEPT ![c] = AfterPop(c, S)]
               jb == EtaCleared(Due(c)) IN
           /\ ch \in PlaceMap /\ jb \in JobMap /\ Placed(ch, jb)
           /\ \A i \in S, a \in Up[c] \ {c} : ~InPlace(ch[a], i)
           /\ \A i \in S : jb[i] # NoJob /\ c \in Up[jb[i].channel] /\ i \in ch[c].running
           /\ \A i \in S : \A d \in Up[jb[i].channel] : c \in Up[d] => i \in ch[d].running
  <1> DEFINE ch == [chan EXCEPT ![c] = AfterPop(c, S)]
             jb == EtaCleared(Due(c))
  <1>1. ch \in PlaceMap /\ ch[c] = AfterPop(c, S) /\ \A d \in Channel \ {c} : ch[d] = chan[d]
    BY AfterPopFacts DEF PlaceMap
  <1>2. jb \in JobMap /\ S \subseteq Job
    BY EtaClearedFacts DEF Ready, Due, PlaceMap, Place
  <1>3. \A i \in Job : /\ jb[i] = NoJob <=> job[i] = NoJob
                       /\ job[i] # NoJob => jb[i].channel = job[i].channel
    BY EtaClearedFacts
  <1> HIDE DEF ch, jb
  <1>4. \A d \in Channel : d \in Up[d] /\ Up[d] \subseteq Channel
    BY UpFacts
  <1>5. ASSUME NEW i \in Job
        PROVE  JobPlaced(ch, jb, i)
    <2>1. JobPlaced(chan, job, i)
      BY DEF Placed
    <2>2. \A d \in Channel : InPlace(ch[d], i) <=> InPlace(chan[d], i)
      BY <1>1, AfterPopFacts DEF InPlace, InQueue
    <2>3. \A d \in Channel : OneSet(ch[d], i)
      <3>1. OneSet(chan[c], i) /\ \A d \in Channel \ {c} : OneSet(ch[d], i)
        BY <1>1, <2>1 DEF JobPlaced
      <3>2. i \in S => i \in chan[c].queue \/ i \in Due(c)
        BY DEF Ready
      <3>3. OneSet(ch[c], i)
        BY <1>1, <3>1, <3>2, AfterPopFacts DEF OneSet, InQueue
      <3> QED BY <3>1, <3>3
    <2>4. \A d \in Channel : InQueue(ch[d], i) \/ i \in ch[d].failed
                             => InQueue(chan[d], i) \/ i \in chan[d].failed
      BY <1>1, AfterPopFacts DEF InQueue
    <2>5. \A d \in Channel : i \in chan[d].running => i \in ch[d].running
      BY <1>1, AfterPopFacts
    <2>6. job[i] # NoJob => job[i].channel \in Channel
      BY DEF JobMap, ChannelJob
    <2> QED BY <2>1, <2>2, <2>3, <2>4, <2>5, <2>6, <1>3, <1>4 DEF JobPlaced
  <1>6. ASSUME NEW i \in S
        PROVE  /\ \A a \in Up[c] \ {c} : ~InPlace(ch[a], i)
               /\ jb[i] # NoJob /\ c \in Up[jb[i].channel] /\ i \in ch[c].running
               /\ \A d \in Up[jb[i].channel] : c \in Up[d] => i \in ch[d].running
    <2>1. InQueue(chan[c], i) /\ JobPlaced(chan, job, i) /\ i \in Job
      BY <1>2, AfterPopFacts DEF Placed
    <2>2. InPlace(chan[c], i)
      BY <2>1 DEF InPlace, InQueue
    <2>3. job[i] # NoJob /\ c \in Up[job[i].channel] /\ job[i].channel \in Channel
      BY <2>1, <2>2 DEF JobPlaced, JobMap, ChannelJob
    <2>4. i \in ch[c].running
      BY <1>1, AfterPopFacts
    <2>5. \A a \in Up[c] \ {c} : ~InPlace(ch[a], i)
      BY <2>1, <1>1, <1>4 DEF JobPlaced
    <2>6. \A d \in Up[job[i].channel] : c \in Up[d] => i \in ch[d].running
      BY <2>1, <2>2, <2>3, <2>4, <1>1, <1>4 DEF JobPlaced
    <2> QED BY <1>3, <2>1, <2>3, <2>4, <2>5, <2>6
  <1> QED BY <1>1, <1>2, <1>5, <1>6 DEF Placed, ch, jb

\* A yield to the parent: nothing of the job is above c, so adding it to the
\* parent's queue puts it in one set there, and c is the last channel below.
LEMMA YieldToParentPlaced ==
    ASSUME chan \in PlaceMap, job \in JobMap, Placed(chan, job),
           NEW c \in Channel, NEW j \in Job, YieldToParent(c, j)
    PROVE  chan' \in PlaceMap /\ job' \in JobMap /\ Placed(chan', job')
  <1> DEFINE p == Parent[c]
             ch == [chan EXCEPT ![c] = AfterPop(c, {j})]
             jb == EtaCleared(Due(c))
  <1>1. /\ c # root /\ p \in Channel /\ p # c /\ p \in Up[c] \ {c}
        /\ Up[c] \ {c} = Up[p] /\ c \notin Up[p]
    BY ParentFacts DEF YieldToParent
  <1>2. {j} \in SUBSET Ready(c)
    BY DEF YieldToParent, Poppable, FirstReady
  <1>3. /\ ch \in PlaceMap /\ jb \in JobMap /\ Placed(ch, jb)
        /\ \A a \in Up[c] \ {c} : ~InPlace(ch[a], j)
        /\ jb[j] # NoJob /\ c \in Up[jb[j].channel] /\ j \in ch[c].running
        /\ \A d \in Up[jb[j].channel] : c \in Up[d] => j \in ch[d].running
    BY <1>2, PopPlaced
  <1>4. job' = jb /\ chan' = [ch EXCEPT ![p] = Enqueue(ch[p], j, jb[j].eta)]
    BY <1>1 DEF YieldToParent, PlaceMap
  <1> HIDE DEF ch, jb
  <1>5. jb[j].channel \in Channel /\ jb[j].eta \in Nat /\ ch[p] \in Place
    BY <1>1, <1>3 DEF JobMap, ChannelJob, PlaceMap
  <1>6. /\ chan' \in PlaceMap /\ \A d \in Channel \ {p} : chan'[d] = ch[d]
        /\ chan'[p] = Enqueue(ch[p], j, jb[j].eta)
    BY <1>1, <1>3, <1>4, <1>5, EnqueueFacts DEF PlaceMap
  <1>7. /\ \A i : i \in chan'[p].queue <=> i \in ch[p].queue \/ (i = j /\ jb[j].eta = 0)
        /\ \A i : i \in chan'[p].eta <=> i \in ch[p].eta \/ (i = j /\ jb[j].eta # 0)
        /\ \A i : i \in chan'[p].running <=> i \in ch[p].running
        /\ \A i : i \in chan'[p].failed <=> i \in ch[p].failed
    BY <1>5, <1>6, EnqueueFacts
  <1>8. \A i \in Job \ {j} : JobPlaced(chan', jb, i)
    <2>1. \A i \in Job \ {j}, d \in Channel : SameIn(ch[d], chan'[d], i)
      BY <1>6, <1>7 DEF SameIn
    <2> QED BY <2>1, <1>3, UntouchedPlaced DEF Placed
  <1>9. JobPlaced(chan', jb, j)
    <2> DEFINE own == jb[j].channel
    <2>1. JobPlaced(ch, jb, j)
      BY <1>3 DEF Placed
    <2>2. /\ InPlace(chan'[p], j) /\ InQueue(chan'[p], j) /\ OneSet(chan'[p], j)
          /\ ~InPlace(ch[p], j)
      BY <1>1, <1>3, <1>7 DEF InPlace, InQueue, OneSet
    <2>3. p \in Up[own] /\ own \in Channel /\ Up[own] \subseteq Channel
      BY <1>1, <1>3, <1>5, TreeAssumption
    <2>4. \A a \in Up[p] \ {p} : ~InPlace(chan'[a], j)
      BY <1>1, <1>3, <1>6, UpFacts
    <2>5. ASSUME NEW d \in Up[own], p \in Up[d], p # d
          PROVE  j \in chan'[d].running
      <3>1. c \in Up[d] \/ d \in Up[c]
        BY <2>3, <1>3, TreeAssumption
      <3>2. c \in Up[d]
        <4>1. CASE d \in Up[c] /\ d # c
          BY <4>1, <2>5, <2>3, <1>1, UpFacts
        <4>2. CASE d = c
          BY <4>2, UpFacts
        <4> QED BY <4>1, <4>2, <3>1
      <3> QED BY <3>2, <1>3, <2>5, <2>3, <1>6
    <2>6. ASSUME NEW d \in Channel, d # p
          PROVE  /\ InPlace(chan'[d], j) => d \in Up[own]
                 /\ OneSet(chan'[d], j)
                 /\ InQueue(chan'[d], j) \/ j \in chan'[d].failed
                      => \A a \in Up[d] \ {d} : ~InPlace(chan'[a], j)
                 /\ InPlace(chan'[d], j) => \A e \in Up[own] :
                                   d \in Up[e] /\ d # e => j \in chan'[e].running
      <3>1. chan'[d] = ch[d]
        BY <1>6, <2>6
      <3>2. ASSUME InQueue(ch[d], j) \/ j \in ch[d].failed
            PROVE  p \notin Up[d]
        <4>1. InPlace(ch[d], j)
          BY <3>2 DEF InPlace, InQueue
        <4>2. d \in Up[own] /\ d # c
          BY <4>1, <2>1, <3>2, <1>3 DEF JobPlaced, OneSet
        <4>3. c \in Up[d] \/ d \in Up[c]
          BY <4>2, <2>3, <1>3, TreeAssumption
        <4>4. c \notin Up[d]
          BY <2>1, <3>2, <1>3, <4>2 DEF JobPlaced, InPlace
        <4> QED BY <4>1, <4>2, <4>3, <4>4, <1>3
      <3>3. \A e \in Channel \ {p} : chan'[e] = ch[e]
        BY <1>6
      <3>4. Up[d] \subseteq Channel
        BY UpFacts
      <3>5. \A e \in Up[own] : j \in ch[e].running => e # p
        BY <2>2 DEF InPlace
      <3> QED BY <3>1, <3>2, <3>3, <3>4, <3>5, <2>1, <2>3 DEF JobPlaced
    <2> HIDE DEF own
    <2>7. jb[j] # NoJob
      BY <1>3
    <2> QED BY <2>2, <2>3, <2>4, <2>5, <2>6, <2>7 DEF JobPlaced, own, InQueue, OneSet
  <1> QED BY <1>3, <1>4, <1>6, <1>8, <1>9 DEF Placed

\* A yield to the runner is a pop of one job from the root.
LEMMA YieldToRunnerPlaced ==
    ASSUME chan \in PlaceMap, job \in JobMap, Placed(chan, job),
           NEW j \in Job, YieldToRunner(j)
    PROVE  chan' \in PlaceMap /\ job' \in JobMap /\ Placed(chan', job')
  <1>1. {j} \in SUBSET Ready(root) /\ root \in Channel
    BY TreeAssumption DEF YieldToRunner, Poppable, FirstReady
  <1>2. job' = EtaCleared(Due(root)) /\ chan' = [chan EXCEPT ![root] = AfterPop(root, {j})]
    BY DEF YieldToRunner
  <1> QED BY <1>1, <1>2, PopPlaced

\* A generator that ends has popped nothing.
LEMMA LeaveChannelPlaced ==
    ASSUME chan \in PlaceMap, job \in JobMap, Placed(chan, job),
           NEW c \in Channel, LeaveChannel(c)
    PROVE  chan' \in PlaceMap /\ job' \in JobMap /\ Placed(chan', job')
  <1>1. CASE UNCHANGED <<chan, job>>
    BY <1>1
  <1>2. CASE job' = EtaCleared(Due(c)) /\ chan' = [chan EXCEPT ![c] = AfterPop(c, {})]
    <2>1. {} \in SUBSET Ready(c)
      OBVIOUS
    <2> QED BY <1>2, <2>1, PopPlaced
  <1> QED BY <1>1, <1>2 DEF LeaveChannel

\* Whatever the name in the table, notify finds a channel.
LEMMA ResolveType == \A name : Resolve(name) \in Channel
  BY TreeAssumption DEF Resolve

-----------------------------------------------------------------------------
(* The theorems.                                                           *)

PlacedInv == chan \in PlaceMap /\ job \in JobMap /\ Placed(chan, job)

\* Placed is the conjunction of the four invariants of Channels.tla.
LEMMA PlacedMeans ==
    Placed(chan, job) => Confined /\ Exclusive /\ AbsentAbove /\ BackedBelow
  <1> SUFFICES ASSUME Placed(chan, job)
               PROVE  Confined /\ Exclusive /\ AbsentAbove /\ BackedBelow
    OBVIOUS
  <1>1. \A j \in Job, c \in Channel : Present(j, c) <=> InPlace(chan[c], j)
    BY DEF Present, InPlace
  <1>2. \A c \in Channel : Up[c] \subseteq Channel
    BY UpFacts
  <1>3. Confined
    BY <1>1 DEF Placed, JobPlaced, Confined
  <1>4. Exclusive
    BY DEF Placed, JobPlaced, Exclusive, OneSet
  <1>5. AbsentAbove
    BY <1>1, <1>2 DEF Placed, JobPlaced, AbsentAbove
  <1>6. BackedBelow
    BY <1>1 DEF Placed, JobPlaced, BackedBelow
  <1> QED BY <1>3, <1>4, <1>5, <1>6

\* The manager starts with empty channels.
LEMMA InitPlaced == ChannelsInit => PlacedInv
  BY DEF ChannelsInit, PlacedInv, EmptyPlace, PlaceMap, Place, JobMap,
         Placed, JobPlaced, InPlace, InQueue, OneSet

\* Every call and every step of the generator keeps the jobs placed.
LEMMA StepPlaced == PlacedInv /\ [ChannelsNext]_cvars => PlacedInv'
  <1> SUFFICES ASSUME PlacedInv, [ChannelsNext]_cvars
               PROVE  PlacedInv'
    OBVIOUS
  <1> USE DEF PlacedInv
  <1>1. CASE External
    <2>1. ASSUME NEW j \in Job, RemoveJob(j)
          PROVE  PlacedInv'
      BY <2>1, RemoveJobPlaced
    <2>2. ASSUME NEW j \in Job, NEW name \in ChannelName, NEW p \in Priority,
                 NEW e \in Eta \cup {0}, NEW st \in State,
                 Notify(j, [channel |-> Resolve(name), priority |-> p, eta |-> e], st)
          PROVE  PlacedInv'
      <3>1. [channel |-> Resolve(name), priority |-> p, eta |-> e] \in ChannelJob
        BY ResolveType, ConfigAssumption DEF ChannelJob
      <3> QED BY <2>2, <3>1, NotifyPlaced
    <2> QED BY <1>1, <2>1, <2>2 DEF External
  <1>2. ASSUME NEW c \in Channel, NEW j \in Job, YieldToParent(c, j)
        PROVE  PlacedInv'
    BY <1>2, YieldToParentPlaced
  <1>3. ASSUME NEW j \in Job, YieldToRunner(j)
        PROVE  PlacedInv'
    BY <1>3, YieldToRunnerPlaced
  <1>4. ASSUME NEW c \in Channel, LeaveChannel(c)
        PROVE  PlacedInv'
    BY <1>4, LeaveChannelPlaced
  <1>5. CASE Recover
    BY <1>5, RemoveDbPlaced DEF Recover
  <1>6. CASE UNCHANGED <<chan, job>>
    BY <1>6
  <1>7. ASSUME NEW c \in Channel, EnterChannel(c)
        PROVE  UNCHANGED <<chan, job>>
    BY <1>7 DEF EnterChannel
  <1>8. StartVisit \/ Resume \/ Tick \/ UNCHANGED cvars => UNCHANGED <<chan, job>>
    BY DEF StartVisit, Resume, Tick, cvars
  <1> QED BY <1>1, <1>2, <1>3, <1>4, <1>5, <1>6, <1>7, <1>8 DEF ChannelsNext, Visit

\* Every job is placed as it should be along every behaviour of the channels.
LEMMA AlwaysPlaced == ChannelsSpec => []PlacedInv
  BY InitPlaced, StepPlaced, PTL DEF ChannelsSpec

\* A job sits only on the path from its channel to the root, and one the manager
\* does not know sits nowhere: for every tree, configuration and sequence of
\* notifications, runs of the generator and exceptions.
THEOREM JobsConfined == ChannelsSpec => []Confined
  <1>1. PlacedInv => Confined
    BY PlacedMeans DEF PlacedInv
  <1> QED BY <1>1, AlwaysPlaced, PTL

\* A job is in one of the four sets of a channel at most.
THEOREM InOneSet == ChannelsSpec => []Exclusive
  <1>1. PlacedInv => Exclusive
    BY PlacedMeans DEF PlacedInv
  <1> QED BY <1>1, AlwaysPlaced, PTL

\* A waiting or failed job takes no slot of a channel further down to the root.
THEOREM NoSlotWhileWaiting == ChannelsSpec => []AbsentAbove
  <1>1. PlacedInv => AbsentAbove
    BY PlacedMeans DEF PlacedInv
  <1> QED BY <1>1, AlwaysPlaced, PTL

\* A job that has reached a channel counts as running in every one before it.
THEOREM SlotsBacked == ChannelsSpec => []BackedBelow
  <1>1. PlacedInv => BackedBelow
    BY PlacedMeans DEF PlacedInv
  <1> QED BY <1>1, AlwaysPlaced, PTL

\* The manager starts with its types.
LEMMA InitTypes == ChannelsInit => ChannelsTypeOK
  BY TreeAssumption DEF ChannelsInit, ChannelsTypeOK, EmptyPlace, Place, ChannelJob

\* Every step keeps them; those of the places come from PlacedInv.
LEMMA StepTypes == ChannelsTypeOK /\ PlacedInv' /\ [ChannelsNext]_cvars => ChannelsTypeOK'
  <1> SUFFICES ASSUME ChannelsTypeOK, PlacedInv', [ChannelsNext]_cvars
               PROVE  ChannelsTypeOK'
    OBVIOUS
  <1>1. chan' \in [Channel -> Place] /\ job' \in [Job -> ChannelJob \cup {NoJob}]
    BY DEF PlacedInv, PlaceMap, JobMap
  <1>2. Throttle \in [Channel -> Nat] /\ root \in Channel /\ RecoveryDelay \in Nat
    BY TreeAssumption, ConfigAssumption
  <1> SUFFICES /\ pauseUntil' \in [Channel -> Nat] /\ now' \in Nat
               /\ todo' \subseteq Channel /\ cur' \in Channel \cup {NoChannel}
               /\ yielded' \in Job \cup {NoJob}
    BY <1>1 DEF ChannelsTypeOK
  <1> USE <1>2 DEF ChannelsTypeOK
  <1>3. CASE External
    BY <1>3 DEF External, Notify, RemoveJob
  <1>4. ASSUME NEW c \in Channel, NEW j \in Job, YieldToParent(c, j)
        PROVE  pauseUntil' \in [Channel -> Nat] /\ UNCHANGED <<now, todo, yielded>>
               /\ cur' \in Channel \cup {NoChannel}
    BY <1>4 DEF YieldToParent, Throttled
  <1>5. ASSUME NEW j \in Job, YieldToRunner(j)
        PROVE  yielded' = j /\ UNCHANGED <<pauseUntil, now, todo, cur>>
    BY <1>5 DEF YieldToRunner
  <1>6. ASSUME NEW c \in Channel, LeaveChannel(c)
        PROVE  cur' = NoChannel /\ UNCHANGED <<pauseUntil, now, todo, yielded>>
    BY <1>6 DEF LeaveChannel
  <1>7. ASSUME NEW c \in Channel, EnterChannel(c)
        PROVE  /\ todo' \subseteq Channel /\ cur' \in Channel \cup {NoChannel}
               /\ pauseUntil' \in [Channel -> Nat] /\ UNCHANGED <<now, yielded>>
    BY <1>7 DEF EnterChannel
  <1>8. CASE StartVisit \/ Tick \/ UNCHANGED cvars
    BY <1>8 DEF StartVisit, Tick, cvars
  <1>9. CASE Resume
    BY <1>9 DEF Resume, Throttled
  <1>10. CASE Recover
    BY <1>10 DEF Recover, RemoveDb
  <1> QED BY <1>3, <1>4, <1>5, <1>6, <1>7, <1>8, <1>9, <1>10 DEF ChannelsNext, Visit

\* The types of the channels' state, along every behaviour.
THEOREM ChannelsTypes == ChannelsSpec => []ChannelsTypeOK
  BY InitTypes, StepTypes, AlwaysPlaced, PTL DEF ChannelsSpec

-----------------------------------------------------------------------------
(* PriorityQueue, the class the queues of the channels are made of, keeps  *)
(* the promise of its docstring for every set of objects and every order   *)
(* among them.                                                             *)

\* The inductive invariant: the structures agree with each other and with the
\* calls made, and only finitely many objects have been added, which is what
\* makes __len__ a number.
HeapInv == HeapTypeOK /\ Consistent /\ NothingLost /\ IsFiniteSet(known)

\* Once the structures agree, the objects in the list are those of _known.
LEMMA HeapIsKnown ==
    ASSUME HeapTypeOK, Consistent
    PROVE  InHeap = known
BY DEF HeapTypeOK, Consistent, InHeap

\* heap[0], when it is not marked removed, is a smallest object of the queue.
LEMMA TopIsSmallest ==
    ASSUME HeapTypeOK, Consistent, NEW o \in Top \ removed
    PROVE  o \in known /\ o \in Abstract!Smallest(known \ removed)
BY HeapIsKnown DEF Top, Abstract!Smallest

\* A new queue is empty and its structures agree.
LEMMA HeapStarts == HeapInit => HeapInv
BY FS_EmptySet DEF HeapInit, HeapInv, HeapTypeOK, Consistent, NothingLost, Contains

\* Every method, and every pass of a loop, keeps the structures in agreement.
LEMMA HeapStep == HeapInv /\ [HeapNext]_heapVars => HeapInv'
<1> SUFFICES ASSUME HeapInv, [HeapNext]_heapVars PROVE HeapInv'
    OBVIOUS
<1> USE HeapAssumption DEF HeapInv, HeapTypeOK, Consistent, NothingLost, Contains
<1>1. ASSUME NEW o \in Obj, Add(o) PROVE HeapInv'
    BY <1>1, FS_AddElement DEF Add, Push
<1>2. ASSUME NEW o \in Obj, Remove(o) PROVE HeapInv'
    BY <1>2 DEF Remove
<1>3. ASSUME NEW method \in {"pop", "getitem"}, Call(method) PROVE HeapInv'
    BY <1>3 DEF Call
<1>4. CASE FindEmpty
    BY <1>4 DEF FindEmpty
<1>5. CASE Discard
    BY <1>5, HeapIsKnown, FS_RemoveElement DEF Discard, HeapPop, Top
<1>6. CASE PopLive
    BY <1>6, HeapIsKnown, FS_RemoveElement DEF PopLive, HeapPop, Top
<1>7. CASE PeekLive
    BY <1>7, HeapIsKnown DEF PeekLive, Top
<1>8. CASE UNCHANGED heapVars
    BY <1>8 DEF heapVars
<1>9. QED
    BY <1>1, <1>2, <1>3, <1>4, <1>5, <1>6, <1>7, <1>8 DEF HeapNext

\* The heap, _known and _removed agree after every sequence of calls, and
\* during the loops: no object is in the heap twice, none is marked removed
\* that is not there (pop() cannot raise KeyError).
THEOREM HeapConsistent == HeapSpec => [](HeapTypeOK /\ Consistent)
<1>1. HeapInv => HeapTypeOK /\ Consistent
    BY DEF HeapInv
<1> QED
    BY <1>1, HeapStarts, HeapStep, PTL DEF HeapSpec

\* What the queue contains is what the calls have left in it, an object added
\* again while its removal is pending included.
THEOREM NothingIsLost == HeapSpec => []NothingLost
<1>1. HeapInv => NothingLost
    BY DEF HeapInv
<1> QED
    BY <1>1, HeapStarts, HeapStep, PTL DEF HeapSpec

\* __len__ counts what __contains__ admits.
THEOREM LenCounts == HeapSpec => []LenCountsContents
<1>1. ASSUME HeapInv PROVE LenCountsContents
    <2>1. {o \in Obj : Contains(o)} = known \ removed
        BY <1>1 DEF HeapInv, HeapTypeOK, Contains
    <2>2. /\ IsFiniteSet(known) /\ IsFiniteSet(removed)
          /\ removed \subseteq known
        BY <1>1, FS_Subset DEF HeapInv, Consistent
    <2>3. known \cap removed = removed
        BY <2>2
    <2>4. Cardinality(known \ removed) = Cardinality(known) - Cardinality(removed)
        BY <2>2, <2>3, FS_Difference
    <2> QED
        BY <2>1, <2>4 DEF LenCountsContents, Len
<1> QED
    BY <1>1, HeapStarts, HeapStep, PTL DEF HeapSpec

\* What every step does to the queue as its callers see it: each method does
\* what the abstract one says, a pass that throws a removed object away is not
\* visible.
LEMMA StepRefines ==
    ASSUME HeapInv, [HeapNext]_heapVars
    PROVE  [Abstract!Next]_Abstract!vars
<1> DEFINE items == known \ removed
<1>1. ASSUME NEW o \in Obj, Add(o) PROVE Abstract!Add(o)
    BY <1>1 DEF Add, Abstract!Add
<1>2. ASSUME NEW o \in Obj, Remove(o) PROVE Abstract!Remove(o)
    BY <1>2 DEF Remove, Abstract!Remove
<1>3. ASSUME FindEmpty PROVE Abstract!Pop
    BY <1>3, HeapIsKnown DEF FindEmpty, HeapInv, Abstract!Pop
<1>4. ASSUME PopLive PROVE Abstract!Pop
    <2>1. PICK o \in Top \ removed : /\ known' = known \ {o}
                                     /\ result' = o
                                     /\ removed' = removed
        BY <1>4 DEF PopLive
    <2>2. o \in Abstract!Smallest(items)
        BY TopIsSmallest DEF HeapInv
    <2>3. items' = items \ {o}
        BY <2>1
    <2> QED
        BY <2>1, <2>2, <2>3 DEF Abstract!Pop
<1>5. ASSUME PeekLive PROVE Abstract!Peek
    BY <1>5, TopIsSmallest DEF PeekLive, HeapInv, Abstract!Peek
<1>6. ASSUME Discard PROVE UNCHANGED Abstract!vars
    BY <1>6 DEF Discard, Abstract!vars
<1>7. ASSUME NEW method \in {"pop", "getitem"}, Call(method)
      PROVE  UNCHANGED Abstract!vars
    BY <1>7 DEF Call, Abstract!vars
<1>8. ASSUME UNCHANGED heapVars PROVE UNCHANGED Abstract!vars
    BY <1>8 DEF heapVars, Abstract!vars
<1> QED
    BY <1>1, <1>2, <1>3, <1>4, <1>5, <1>6, <1>7, <1>8 DEF HeapNext, Abstract!Next

\* Seen through __contains__, pop() and [0], the lazy heap implements the
\* abstract queue: a smallest object comes first, removed ones never come.
THEOREM LazyHeapRefines == HeapSpec => ImplementsPriorityQueue
<1>1. HeapInit => Abstract!Init
    BY DEF HeapInit, Abstract!Init
<1>2. HeapInv /\ [HeapNext]_heapVars => [Abstract!Next]_Abstract!vars
    BY StepRefines
<1> QED
    BY <1>1, <1>2, HeapStarts, HeapStep, PTL
    DEF HeapSpec, ImplementsPriorityQueue, Abstract!Spec
=============================================================================
