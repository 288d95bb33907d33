------------------------- MODULE ChannelTreeProofs -------------------------
(***************************************************************************)
(* The channels form a tree, in both places where they are kept: in the    *)
(* runner, for every text that it is configured with, and in the table     *)
(* queue_job_channel, for every sequence of changes that do not overlap,   *)
(* with the names that are stored there.  Of the runner that reads the     *)
(* text: there is one, and after stop() it hands out one more job at most. *)
(***************************************************************************)
EXTENDS RunnerProcess, ChannelRegistry, TotalsProofs

-----------------------------------------------------------------------------
(* The process.                                                            *)

Alive == {p \in Proc : pc[p] # "none"}

\* One runner, as a fact about pairs, and the one the server knows of.
Single == /\ \A p, q \in Alive : p = q
          /\ server # "stopped" => Alive \subseteq runners

\* What is left of a visit: a job is about to be sent only by a runner that was
\* not asked to stop when it looked, so none has been sent late.
Visiting(p) ==
    /\ late[p] = 0 \/ (late[p] = 1 /\ flag[p])
    /\ pc[p] = "send" => jobs[p] > 0 /\ late[p] = 0
    /\ late[p] + jobs[p] <= MaxJobs

ServerInv == ProcessTypeOK /\ Single /\ \A p \in Proc : Visiting(p)

\* No runner is there before the server starts one.
LEMMA InitServer == ProcessInit => ServerInv
  <1> USE ProcessAssumption
  <1> QED BY DEF ProcessInit, ServerInv, ProcessTypeOK, Single, Alive, Visiting

\* A step of run() leaves its runner where it is one, and hands out a job only
\* from "send".
LEMMA RunSteps ==
    ASSUME ServerInv, NEW p \in Proc,
           Step(p) \/ SelectEnds(p) \/ Exception(p) \/ RequestError(p) \/ Dies(p)
    PROVE  ServerInv'
  <1> USE ProcessAssumption DEF ServerInv, ProcessTypeOK, Single, Alive, Visiting, thread, Goto, Running
  <1>1. CASE StartDelay(p) BY <1>1 DEF StartDelay
  <1>2. CASE OuterLoop(p) BY <1>2 DEF OuterLoop
  <1>3. CASE InitializeDatabases(p) BY <1>3 DEF InitializeDatabases
  <1>4. CASE ProcessNotifications(p) BY <1>4 DEF ProcessNotifications
  <1>5. CASE RunJobs(p) BY <1>5 DEF RunJobs
  <1>6. CASE SendJob(p) BY <1>6 DEF SendJob
  <1>7. CASE WaitNotification(p) BY <1>7 DEF WaitNotification
  <1>8. CASE SelectEnds(p) BY <1>8 DEF SelectEnds
  <1>9. CASE Recovered(p) BY <1>9 DEF Recovered
  <1>10. CASE CloseDatabases(p) BY <1>10 DEF CloseDatabases
  <1>11. CASE Exception(p) BY <1>11 DEF Exception
  <1>12. CASE RequestError(p) BY <1>12 DEF RequestError
  <1>13. CASE Dies(p) BY <1>13 DEF Dies
  <1> QED BY <1>1, <1>2, <1>3, <1>4, <1>5, <1>6, <1>7, <1>8, <1>9, <1>10, <1>11, <1>12, <1>13 DEF Step

\* The server starts a runner when it knows of none, and forgets one that is dead.
LEMMA ServerSteps ==
    ASSUME ServerInv, NEW p \in Proc,
           \/ SetStop(p) \/ WriteStopPipe(p) \/ StartRunner(p) \/ WorkerPop(p)
           \/ Signal(p) \/ Notification(p)
    PROVE  ServerInv'
  <1> USE ProcessAssumption DEF ServerInv, ProcessTypeOK, Single, Alive, Visiting, thread, world, Running
  <1>1. CASE SetStop(p) BY <1>1 DEF SetStop
  <1>2. CASE WriteStopPipe(p) BY <1>2 DEF WriteStopPipe
  <1>3. CASE StartRunner(p) BY <1>3 DEF StartRunner
  <1>4. CASE WorkerPop(p) BY <1>4 DEF WorkerPop, Forget
  <1>5. CASE Signal(p) BY <1>5 DEF Signal
  <1>6. CASE Notification(p) BY <1>6 DEF Notification
  <1> QED BY <1>1, <1>2, <1>3, <1>4, <1>5, <1>6

\* A server that stops knows its runners until they have ended.
LEMMA StopSteps ==
    ASSUME ServerInv, StopServer \/ ServerStopped
    PROVE  ServerInv'
  <1> USE DEF ServerInv, ProcessTypeOK, Single, Alive, Visiting
  <1>1. CASE StopServer BY <1>1 DEF StopServer
  <1>2. CASE ServerStopped BY <1>2 DEF ServerStopped
  <1> QED BY <1>1, <1>2

\* Every step keeps the invariant.
LEMMA StepServer == ServerInv /\ [ProcessNext]_pvars => ServerInv'
  <1> SUFFICES ASSUME ServerInv, [ProcessNext]_pvars PROVE ServerInv'
    OBVIOUS
  <1>1. CASE UNCHANGED zvars
    BY <1>1 DEF zvars, ServerInv, ProcessTypeOK, Single, Alive, Visiting
  <1>2. CASE \E p \in Proc : Lives(p) \/ WorkerPop(p)
    BY <1>2, RunSteps, ServerSteps DEF Lives
  <1>3. CASE StopServer \/ ServerStopped
    BY <1>3, StopSteps
  <1> QED BY <1>1, <1>2, <1>3 DEF ProcessNext, pvars

\* What the invariant says of pairs of runners, in numbers.
LEMMA ServerMeans == ServerInv => ProcessInv /\ OneJobAfterStop
  <1> SUFFICES ASSUME ServerInv PROVE ProcessInv /\ OneJobAfterStop
    OBVIOUS
  <1>1. OneJobAfterStop
    BY DEF ServerInv, Visiting, OneJobAfterStop
  <1>2. Cardinality(Alive) <= 1
    <2>1. CASE Alive = {}
      BY <2>1, FS_EmptySet
    <2>2. ASSUME NEW p \in Alive PROVE Cardinality(Alive) <= 1
      <3>1. Alive = {p}
        BY <2>2 DEF ServerInv, Single
      <3>2. Cardinality({p}) = 1
        BY FS_Singleton
      <3> QED BY <3>1, <3>2
    <2> QED BY <2>1, <2>2
  <1> QED BY <1>1, <1>2 DEF ServerInv, Single, Alive, ProcessInv, OneRunner

\* A job queue has one runner: threaded or prefork, whenever the child dies, is
\* signalled or replaced; and the types of its state.
THEOREM OnlyRunner == ProcessSpec => []ProcessInv
  <1> QED BY InitServer, StepServer, ServerMeans, PTL DEF ProcessSpec

\* After stop() one more job is handed out at most, of however many.
THEOREM StopsSending == ProcessSpec => []OneJobAfterStop
  <1> QED BY InitServer, StepServer, ServerMeans, PTL DEF ProcessSpec
-----------------------------------------------------------------------------
(* The configuration.                                                      *)

\* What is left to configure are entries that could be read.
Readable == \A i \in DOMAIN left : ~Malformed(left[i])

TextInv == /\ ConfigInv
           /\ text \in Seq(Entry)
           /\ status = "starting" => left = text
           /\ status = "configuring" => Readable

\* The channels on the way to a path are closed under parents.
LEMMA AboveIsClosed ==
    ASSUME NEW S, NEW path \in Seq(S)
    PROVE  /\ <<>> \in Above(path) /\ path \in Above(path)
           /\ \A p \in Above(path) \ {<<>>} : Front(p) \in Above(path)
  <1>1. SubSeq(path, 1, 0) = <<>> /\ SubSeq(path, 1, Len(path)) = path
    OBVIOUS
  <1>2. ASSUME NEW p \in Above(path) \ {<<>>} PROVE Front(p) \in Above(path)
    <2>1. PICK i \in 0 .. Len(path) : p = SubSeq(path, 1, i)
      BY DEF Above
    <2>2. i > 0 /\ Len(p) = i
      BY <2>1, <1>1
    <2>3. Front(p) = SubSeq(path, 1, i-1)
      BY <2>1, <2>2 DEF Front
    <2> QED BY <2>2, <2>3 DEF Above
  <1>3. <<>> \in Above(path)
    BY <1>1, 0 \in 0 .. Len(path) DEF Above
  <1>4. path \in Above(path)
    BY <1>1, Len(path) \in 0 .. Len(path) DEF Above
  <1> QED BY <1>2, <1>3, <1>4

\* With or without the word root, a name leads to a channel.
LEMMA PathIsSequence ==
    ASSUME NEW S, NEW name \in Seq(S)
    PROVE  Path(name) \in Seq(S)
  BY DEF Path

\* An entry that could be read and is allowed gives a channel its settings.
LEMMA ParsedTypes ==
    ASSUME NEW e \in Entry, ~Malformed(e), Allowed(Parsed(e))
    PROVE  /\ Parsed(e).capacity \in Int
           /\ Parsed(e).sequential \in BOOLEAN /\ Parsed(e).throttle \in Int
           /\ Parsed(e).sequential => Parsed(e).capacity = 1
  <1>1. Parsed(e).capacity \in Int
    BY ConfigStringAssumption DEF Parsed, Malformed
  <1> QED BY <1>1 DEF Allowed, Parsed


\* What the types and TreeForChannels say of one channel.
Settings(c) == /\ c.capacity \in Int \cup {Unlimited}
               /\ c.sequential \in BOOLEAN /\ c.throttle \in Int
               /\ c.sequential => c.capacity = 1

\* A channel that is created on the way to another one, and the root.
LEMMA NewChannelSettings ==
    Settings(NewChannel(Unlimited)) /\ Settings(NewChannel(1))
  <1>1. \A c : /\ NewChannel(c).capacity = c
               /\ NewChannel(c).sequential = FALSE
               /\ NewChannel(c).throttle = 0
    BY DEF NewChannel
  <1>2. 1 \in Int \cup {Unlimited} /\ 0 \in Int
    OBVIOUS
  <1> QED BY <1>1, <1>2 DEF Settings

\* The invariant, channel by channel.
LEMMA TextInvSettings ==
    TextInv <=> /\ status \in Status /\ left \in Seq(Entry)
                /\ \A p \in DOMAIN conf : Settings(conf[p])
                /\ <<>> \in DOMAIN conf
                /\ \A p \in DOMAIN conf \ {<<>>} : Front(p) \in DOMAIN conf
                /\ text \in Seq(Entry)
                /\ status = "starting" => left = text
                /\ status = "configuring" => Readable
  BY DEF TextInv, ConfigInv, ChannelConfigTypeOK, TreeForChannels, Settings

\* The root alone is a tree.
LEMMA RootOnlyTree ==
    /\ DOMAIN RootOnly = {<<>>}
    /\ \A p \in DOMAIN RootOnly : Settings(RootOnly[p])
  BY NewChannelSettings DEF RootOnly

\* Nothing is configured at first.
LEMMA InitText == ChannelConfigInit => TextInv
  <1> SUFFICES ASSUME ChannelConfigInit PROVE TextInv
    OBVIOUS
  <1>1. text \in Seq(Entry)
    BY ConfigStringAssumption DEF ChannelConfigInit, BoundedSeq, SeqOf
  <1>2. conf = RootOnly /\ left = text /\ status = "starting"
    BY DEF ChannelConfigInit
  <1> QED BY <1>1, <1>2, RootOnlyTree, TextInvSettings DEF Status

\* Configuring one channel creates those on the way to it and keeps the others.
LEMMA ConfigureStep ==
    ASSUME TextInv, ConfigureChannel
    PROVE  TextInv'
  <1> DEFINE e == Head(left)
             path == Path(e.name)
             new == Parsed(e)
             before == Autocreated(path)
  <1>1. /\ e \in Entry /\ ~Malformed(e) /\ Allowed(new)
        /\ Tail(left) \in Seq(Entry)
        /\ \A i \in DOMAIN Tail(left) : ~Malformed(Tail(left)[i])
    <2>1. left \in Seq(Entry) /\ left # <<>> /\ Readable
      BY DEF TextInv, ConfigInv, ChannelConfigTypeOK, ConfigureChannel
    <2>2. e = left[1] /\ 1 \in DOMAIN left
      BY <2>1
    <2>3. \A i \in DOMAIN Tail(left) : i+1 \in DOMAIN left /\ Tail(left)[i] = left[i+1]
      BY <2>1
    <2> QED BY <2>1, <2>2, <2>3 DEF Readable, ConfigureChannel
  <1>2. \E S : path \in Seq(S)
    <2>1. e.name \in Seq(ToSet(e.name))
      BY <1>1, ConfigStringAssumption
    <2> QED BY <2>1, PathIsSequence
  <1>3. /\ DOMAIN before = DOMAIN conf \cup Above(path)
        /\ \A p \in DOMAIN before :
              before[p] = IF p \in DOMAIN conf THEN conf[p] ELSE NewChannel(Unlimited)
    BY DEF Autocreated
  <1>4. path \in DOMAIN before
    BY <1>2, <1>3, AboveIsClosed
  <1>5. /\ conf' = [before EXCEPT ![path] = new]
        /\ left' = Tail(left) /\ text' = text /\ status' = "configuring"
    BY DEF ConfigureChannel, TextInv
  <1> HIDE DEF e, path, new, before
  <1>6. /\ DOMAIN conf' = DOMAIN conf \cup Above(path)
        /\ conf'[path] = new
        /\ \A p \in DOMAIN conf' \ {path} :
              conf'[p] = IF p \in DOMAIN conf THEN conf[p] ELSE NewChannel(Unlimited)
    BY <1>3, <1>4, <1>5
  <1>7. \A p \in DOMAIN conf' : Settings(conf'[p])
    <2>1. Settings(new)
      BY <1>1, ParsedTypes DEF Settings, new
    <2> QED BY <1>6, <2>1, NewChannelSettings, TextInvSettings
  <1>8. \A p \in DOMAIN conf' \ {<<>>} : Front(p) \in DOMAIN conf'
    <2>1. \A p \in Above(path) \ {<<>>} : Front(p) \in Above(path)
      BY <1>2, AboveIsClosed
    <2> QED BY <1>6, <2>1, TextInvSettings
  <1>9. /\ <<>> \in DOMAIN conf' /\ text' \in Seq(Entry)
        /\ Readable'
    BY <1>1, <1>5, <1>6, TextInvSettings DEF Readable
  <1> QED BY <1>1, <1>5, <1>7, <1>8, <1>9
            DEF TextInv, ConfigInv, ChannelConfigTypeOK, TreeForChannels, Settings, Status

\* So does every step of the configuration.
LEMMA StepText == TextInv /\ [ChannelConfigNext]_fvars => TextInv'
  <1> SUFFICES ASSUME TextInv, [ChannelConfigNext]_fvars PROVE TextInv'
    OBVIOUS
  <1> USE DEF TextInv, ConfigInv, ChannelConfigTypeOK, TreeForChannels, Status
  <1>1. CASE Start
    BY <1>1 DEF Start, Readable
  <1>2. CASE ConfigureChannel
    BY <1>2, ConfigureStep
  <1>3. CASE RefuseChannel
    BY <1>3 DEF RefuseChannel
  <1>4. CASE Configured
    BY <1>4 DEF Configured
  <1>5. CASE UNCHANGED fvars
    BY <1>5 DEF fvars, Readable
  <1> QED BY <1>1, <1>2, <1>3, <1>4, <1>5 DEF ChannelConfigNext

\* The entries applied so far, and those of them that name a channel.
Applied == Len(text) - Len(left)
Naming(p) == {i \in 1 .. Applied : Path(text[i].name) = p}

\* A channel has the settings of the last entry so far that names it.
ByLast(p) ==
    \/ Naming(p) = {} /\ conf[p] = NewChannel(IF p = <<>> THEN 1 ELSE Unlimited)
    \/ \E i \in Naming(p) : (\A k \in Naming(p) : k <= i) /\ conf[p] = Parsed(text[i])

ProgressInv ==
    /\ TextInv
    /\ Applied \in Nat
    /\ \A i \in DOMAIN left : left[i] = text[Applied + i]
    /\ \A i \in 1 .. Applied : Path(text[i].name) \in DOMAIN conf
    /\ \A p \in DOMAIN conf : ByLast(p)
    /\ status = "ready" => left = <<>>

\* The entry at hand becomes the last one that names its channel; a channel
\* that is new on the way to it was not named before.
LEMMA ConfigureProgress ==
    ASSUME ProgressInv, ConfigureChannel, TextInv'
    PROVE  ProgressInv'
  <1> DEFINE n == Applied + 1
             path == Path(text[n].name)
  <1>1. /\ left \in Seq(Entry) /\ left # <<>> /\ text \in Seq(Entry) /\ Applied \in Nat
        /\ left' = Tail(left) /\ text' = text /\ status' = "configuring"
    BY TextInvSettings DEF ProgressInv, ConfigureChannel
  <1>2. /\ Head(left) = text[n] /\ n \in DOMAIN text
        /\ Applied' = n
        /\ \A i \in DOMAIN Tail(left) : Tail(left)[i] = text[n + i]
    BY <1>1 DEF ProgressInv, Applied
  <1>3. conf' = [Autocreated(path) EXCEPT ![path] = Parsed(text[n])]
    BY <1>2 DEF ConfigureChannel
  <1>4. path \in Above(path)
    <2>1. text[n].name \in Seq(ToSet(text[n].name))
      BY <1>1, <1>2, ConfigStringAssumption
    <2> QED BY <2>1, PathIsSequence, AboveIsClosed
  <1> HIDE DEF path
  <1>5. /\ DOMAIN conf' = DOMAIN conf \cup Above(path)
        /\ conf'[path] = Parsed(text[n])
        /\ \A p \in DOMAIN conf' \ {path} :
              conf'[p] = IF p \in DOMAIN conf THEN conf[p] ELSE NewChannel(Unlimited)
    BY <1>3, <1>4 DEF Autocreated
  <1>6. \A p : Naming(p)' = IF p = path THEN Naming(p) \cup {n} ELSE Naming(p)
    BY <1>1, <1>2 DEF Naming, path
  <1>7. ASSUME NEW p \in DOMAIN conf' PROVE ByLast(p)'
    <2>1. CASE p = path
      <3>1. Naming(p)' = Naming(p) \cup {n}
        BY <2>1, <1>6
      <3>2. \A k \in Naming(p) : k <= n
        BY <1>1 DEF Naming
      <3> QED BY <2>1, <3>1, <3>2, <1>1, <1>5 DEF ByLast
    <2>2. CASE p # path /\ p \in DOMAIN conf
      <3>1. conf'[p] = conf[p] /\ Naming(p)' = Naming(p) /\ ByLast(p)
        BY <2>2, <1>5, <1>6 DEF ProgressInv
      <3> QED BY <3>1, <1>1 DEF ByLast
    <2>3. CASE p # path /\ p \notin DOMAIN conf
      <3>1. conf'[p] = NewChannel(Unlimited) /\ Naming(p)' = Naming(p) /\ p # <<>>
        BY <2>3, <1>5, <1>6, TextInvSettings DEF ProgressInv
      <3>2. Naming(p) = {}
        BY <2>3 DEF ProgressInv, Naming
      <3> QED BY <3>1, <3>2 DEF ByLast
    <2> QED BY <2>1, <2>2, <2>3
  <1>8. \A i \in 1 .. n : Path(text[i].name) \in DOMAIN conf'
    BY <1>1, <1>4, <1>5 DEF ProgressInv, path
  <1> QED BY <1>1, <1>2, <1>7, <1>8 DEF ProgressInv

\* Nothing is applied at first.
LEMMA InitProgress == ProcessInit => ProgressInv
  <1> SUFFICES ASSUME ProcessInit PROVE ProgressInv
    OBVIOUS
  <1>1. text \in Seq(Entry) /\ left = text /\ conf = RootOnly /\ status = "starting" /\ TextInv
    BY InitText DEF ProcessInit, ChannelConfigInit, TextInv
  <1>2. Applied = 0
    BY <1>1 DEF Applied
  <1>3. \A p \in DOMAIN conf : ByLast(p)
    BY <1>1, <1>2 DEF ByLast, Naming, RootOnly
  <1> QED BY <1>1, <1>2, <1>3 DEF ProgressInv

\* Every step of the runner and the server configures channels or leaves them,
\* or starts all over.
LEMMA StepTextOrReset == TextInv /\ [ProcessNext]_pvars => TextInv'
  <1> SUFFICES ASSUME TextInv, [ProcessNext]_pvars PROVE TextInv'
    OBVIOUS
  <1>1. CASE [ChannelConfigNext]_fvars
    BY <1>1, StepText
  <1>2. CASE Unconfigured
    <2>1. /\ conf' = RootOnly /\ left' = text /\ text' = text /\ status' = "starting"
          /\ text \in Seq(Entry)
      BY <1>2 DEF Unconfigured, TextInv
    <2> QED BY <2>1, RootOnlyTree DEF TextInv, ConfigInv, ChannelConfigTypeOK,
               TreeForChannels, Status, Settings
  <1> QED BY <1>1, <1>2 DEF ProcessNext, ConfigureChannels, WorkerPop, pvars

\* Every step applies an entry or none.
LEMMA StepProgress == ProgressInv /\ [ProcessNext]_pvars => ProgressInv'
  <1> SUFFICES ASSUME ProgressInv, [ProcessNext]_pvars PROVE ProgressInv'
    OBVIOUS
  <1>1. TextInv'
    BY StepTextOrReset DEF ProgressInv
  <1>2. CASE ConfigureChannel
    BY <1>1, <1>2, ConfigureProgress
  <1>3. CASE UNCHANGED <<text, left, conf>> /\ (status' = "ready" => left = <<>>)
    BY <1>1, <1>3 DEF ProgressInv, Applied, ByLast, Naming
  <1>4. CASE Unconfigured
    <2>1. text' \in Seq(Entry) /\ left' = text' /\ conf' = RootOnly /\ status' = "starting"
      BY <1>4 DEF Unconfigured, ProgressInv, TextInv
    <2>2. Applied' = 0
      BY <2>1 DEF Applied
    <2>3. \A p \in DOMAIN conf' : ByLast(p)'
      BY <2>1, <2>2 DEF ByLast, Naming, RootOnly
    <2> QED BY <1>1, <2>1, <2>2, <2>3 DEF ProgressInv
  <1> QED BY <1>2, <1>3, <1>4 DEF ProcessNext, pvars, fvars, ConfigureChannels, ChannelConfigNext,
            Start, RefuseChannel, Configured, WorkerPop, ProgressInv

\* Whatever is written, in whatever order: what is configured is a tree, its
\* sequential channels run one job at a time, and its values are numbers; for
\* the first runner and for those that replace it.
THEOREM ConfiguredTree == ProcessSpec => []ConfigInv
  <1>1. ProcessInit => TextInv
    BY InitText DEF ProcessInit
  <1>2. TextInv => ConfigInv
    BY DEF TextInv
  <1> QED BY <1>1, <1>2, StepTextOrReset, PTL DEF ProcessSpec

\* That channel p has the settings of entry e.
AsWritten(p, e) ==
    LET written == ToSet(e.options) IN
    /\ conf[p].capacity = (IF e.capacity = Absent THEN 1 ELSE e.capacity)
    /\ conf[p].sequential = \E o \in written : o.key = "sequential" /\ o.value # Blank
    /\ \/ \E o \in written : o.key = "throttle" /\ o.value = conf[p].throttle
       \/ conf[p].throttle = 0 /\ \A o \in written : o.key # "throttle"

\* A channel whose settings were parsed from an entry has those of the entry.
LEMMA ParsedFields ==
    ASSUME NEW p, NEW e, conf[p] = Parsed(e)
    PROVE  AsWritten(p, e)
  <1> DEFINE written == ToSet(e.options)
  <1>1. \A key : Given(e, key) = {o.value : o \in {x \in written : x.key = key}}
    BY DEF Given, ToSet
  <1>2. conf[p].sequential = \E o \in written : o.key = "sequential" /\ o.value # Blank
    <2>1. Given(e, "sequential") \ {Blank} # {} <=> \E o \in written : o.key = "sequential" /\ o.value # Blank
      <3> HIDE DEF written
      <3> QED BY <1>1
    <2>2. conf[p].sequential = (Given(e, "sequential") \ {Blank} # {})
      BY DEF Parsed
    <2> HIDE DEF written
    <2> QED BY <2>1, <2>2
  <1>3. \/ \E o \in written : o.key = "throttle" /\ o.value = conf[p].throttle
        \/ conf[p].throttle = 0 /\ \A o \in written : o.key # "throttle"
    <2>1. CASE Given(e, "throttle") = {}
      <3>1. conf[p].throttle = 0
        BY <2>1 DEF Parsed
      <3> HIDE DEF written
      <3> QED BY <1>1, <2>1, <3>1
    <2>2. CASE Given(e, "throttle") # {}
      <3>1. conf[p].throttle \in Given(e, "throttle")
        BY <2>2 DEF Parsed
      <3> HIDE DEF written
      <3> QED BY <1>1, <3>1
    <2> QED BY <2>1, <2>2
  <1>4. conf[p].capacity = (IF e.capacity = Absent THEN 1 ELSE e.capacity)
    BY DEF Parsed
  <1> QED BY <1>2, <1>3, <1>4 DEF AsWritten

\* The entries of the whole text that name channel p.
NamedBy(p) == {i \in DOMAIN text : Path(text[i].name) = p}

\* A runner that is ready has, for each of its channels, the settings of the
\* last entry that names it, or the defaults.
THEOREM ConfiguredAsWritten == ProcessSpec => []LastEntryHolds
  <1>1. ProgressInv => LastEntryHolds
    <2> SUFFICES ASSUME ProgressInv, status = "ready", NEW p \in DOMAIN conf
                 PROVE  \/ NamedBy(p) = {} /\ conf[p] = NewChannel(IF p = <<>> THEN 1 ELSE Unlimited)
                        \/ \E last \in NamedBy(p) :
                              /\ \A k \in NamedBy(p) : k <= last
                              /\ AsWritten(p, text[last])
      BY DEF LastEntryHolds, NamedBy, AsWritten
    <2>1. Naming(p) = NamedBy(p)
      <3>1. left = <<>> /\ text \in Seq(Entry)
        BY TextInvSettings DEF ProgressInv
      <3> QED BY <3>1 DEF Naming, Applied, NamedBy
    <2>2. ByLast(p)
      BY DEF ProgressInv
    <2>3. \A e : conf[p] = Parsed(e) => AsWritten(p, e)
      BY ParsedFields
    <2> QED BY <2>1, <2>2, <2>3 DEF ByLast
  <1> QED BY <1>1, InitProgress, StepProgress, PTL DEF ProcessSpec

-----------------------------------------------------------------------------
(* The table of channels: what the tables hold.                            *)

Names == Part \cup {RootName, NoName}
Row == [name : Names, parent : Chan \cup {NoChan}, complete : Seq(Names)]
Table == [Chan -> Row]
\* The channels of a table.
There(chan) == {c \in Chan : chan[c] # Gone}

\* Parents are among the channels.
Closed(chan) == chan \in Table /\ \A c \in There(chan) : chan[c].parent \in There(chan) \cup {NoChan}

\* The steps that Chain takes.
Most == Cardinality(Chan)

\* What holds at 0 and from each number to the next holds along 0 .. n.
LEMMA AllSteps ==
    ASSUME NEW n \in Nat, NEW S, 0 \in S, \A q \in 1 .. n : q-1 \in S => q \in S
    PROVE  \A q \in 0 .. n : q \in S
  <1> DEFINE wrong == {q \in 0 .. n : q \notin S}
  <1> SUFFICES ASSUME wrong # {} PROVE FALSE
    OBVIOUS
  <1>1. wrong \in SUBSET Nat
    OBVIOUS
  <1>2. PICK q \in wrong : \A k \in wrong : q <= k
    <2> HIDE DEF wrong
    <2> QED BY <1>1, FirstNumber
  <1>3. q \in 1 .. n /\ q-1 \in 0 .. n /\ ~(q <= q-1)
    BY <1>2
  <1>4. q-1 \in S
    BY <1>2, <1>3
  <1> QED BY <1>2, <1>3, <1>4

\* What the assumptions say.
LEMMA MostFacts ==
    /\ Most \in Nat \ {0} /\ IsFiniteSet(Chan) /\ ChannelRoot \in Chan /\ NoChan \notin Chan
    /\ RootName \notin Part /\ NoName \notin Part \cup {RootName}
  <1>1. IsFiniteSet(Chan) /\ ChannelRoot \in Chan
    BY ChannelRegistryAssumption DEF ChannelRegistryAssumption
  <1>2. Most \in Nat /\ Most # 0
    BY <1>1, FS_EmptySet, FS_CardinalityType DEF Most
  <1> QED BY <1>1, <1>2, ChannelRegistryAssumption DEF ChannelRegistryAssumption

-----------------------------------------------------------------------------
(* Chains.                                                                 *)

Line == Seq(Chan) \ {<<>>}

\* One step up.
Climbed(chan, up) == LET top == chan[up[1]].parent IN IF top = NoChan THEN up ELSE <<top>> \o up

\* The chain of c, step by step.
Climb(chan, c, f) ==
    /\ f \in [0 .. Most -> Line] /\ f[0] = <<c>>
    /\ \A q \in 1 .. Most : f[q] = Climbed(chan, f[q-1])

\* One step up keeps a line a line.
LEMMA ClimbedIs ==
    ASSUME NEW chan \in Table, NEW up \in Line
    PROVE  /\ Climbed(chan, up) \in Line
           /\ Head(up) = up[1] /\ up[1] \in Chan /\ Len(up) \in Nat \ {0}
           /\ chan[up[1]].parent \in Chan \cup {NoChan}
  <1>1. up \in Seq(Chan) /\ Len(up) \in Nat \ {0} /\ up[1] \in Chan /\ Head(up) = up[1]
    BY DEF Line
  <1>2. chan[up[1]].parent \in Chan \cup {NoChan}
    BY <1>1 DEF Table, Row
  <1>3. ASSUME NEW top \in Chan PROVE <<top>> \o up \in Line
    <2>1. <<top>> \o up \in Seq(Chan) /\ Len(<<top>> \o up) = 1 + Len(up)
      BY <1>1
    <2>2. Len(<<top>> \o up) # 0
      BY <1>1, <2>1
    <2> QED BY <2>1, <2>2 DEF Line
  <1>4. Climbed(chan, up) \in Line
    BY <1>2, <1>3 DEF Climbed
  <1> QED BY <1>1, <1>2, <1>4

\* Chain is what its recursive function says, which exists.
LEMMA ChainClimbs ==
    ASSUME NEW chan \in Table, NEW c \in Chan
    PROVE  \E f : Climb(chan, c, f) /\ Chain(chan, c) = f[Most]
  <1> DEFINE step == [q \in 1 .. Most |-> [up \in Line |-> Climbed(chan, up)]]
             Own(g) == g = [n \in 0 .. Most |->
                              IF n = 0 THEN <<c>>
                              ELSE LET top == chan[Head(g[n-1])].parent
                                   IN  IF top = NoChan THEN g[n-1] ELSE <<top>> \o g[n-1]]
  <1>1. <<c>> \in Line /\ Most \in Nat
    BY MostFacts DEF Line
  <1>2. step \in [1 .. Most -> [Line -> Line]]
    BY ClimbedIs
  <1>3. PICK f : Along(f, Most, Line, <<c>>, step)
    <2> HIDE DEF step
    <2> QED BY <1>1, <1>2, StepsExist
  <1>4. Climb(chan, c, f)
    <2>1. f \in [0 .. Most -> Line] /\ f[0] = <<c>> /\ \A q \in 1 .. Most : f[q] = step[q][f[q-1]]
      <3> HIDE DEF step
      <3> QED BY <1>3 DEF Along
    <2>2. \A q \in 1 .. Most : f[q-1] \in Line
      BY <2>1, <1>1
    <2> QED BY <2>1, <2>2 DEF Climb
  <1>5. Own(f)
    <2>1. f = [q \in 0 .. Most |-> f[q]]
      BY <1>4 DEF Climb
    <2>2. \A q \in 0 .. Most : q # 0 => q \in 1 .. Most /\ f[q-1] \in Line
      BY <1>4, <1>1 DEF Climb
    <2>3. ASSUME NEW q \in 0 .. Most
          PROVE  f[q] = IF q = 0 THEN <<c>>
                        ELSE LET top == chan[Head(f[q-1])].parent
                             IN  IF top = NoChan THEN f[q-1] ELSE <<top>> \o f[q-1]
      <3>1. q # 0 => f[q] = Climbed(chan, f[q-1]) /\ Head(f[q-1]) = f[q-1][1]
        BY <1>4, <2>2, ClimbedIs DEF Climb
      <3>2. f[0] = <<c>>
        BY <1>4 DEF Climb
      <3> QED BY <3>1, <3>2 DEF Climbed
    <2> QED BY <2>1, <2>3
  <1>6. Own(CHOOSE g : Own(g)) /\ Chain(chan, c) = (CHOOSE g : Own(g))[Most]
    <2>1. Own(CHOOSE g : Own(g))
      <3> HIDE DEF Own
      <3> QED BY <1>5
    <2> QED BY <2>1 DEF Chain, Most
  <1>7. ASSUME NEW g, Own(g) PROVE g[Most] = f[Most]
    <2>1. \A q \in 0 .. Most : g[q] = IF q = 0 THEN <<c>>
                                      ELSE LET top == chan[Head(g[q-1])].parent
                                           IN  IF top = NoChan THEN g[q-1] ELSE <<top>> \o g[q-1]
      BY <1>7
    <2>2. \A q \in 0 .. Most : f[q] = IF q = 0 THEN <<c>>
                                      ELSE LET top == chan[Head(f[q-1])].parent
                                           IN  IF top = NoChan THEN f[q-1] ELSE <<top>> \o f[q-1]
      BY <1>5
    <2>3. g[0] = f[0] /\ \A q \in 1 .. Most : g[q-1] = f[q-1] => g[q] = f[q]
      <3>1. 0 \in 0 .. Most /\ \A q \in 1 .. Most : q \in 0 .. Most /\ q # 0
        BY <1>1
      <3>2. g[0] = <<c>> /\ f[0] = <<c>>
        BY <2>1, <2>2, <3>1
      <3> SUFFICES ASSUME NEW q \in 1 .. Most, g[q-1] = f[q-1] PROVE g[q] = f[q]
        BY <3>2
      <3> QED BY <2>1, <2>2, <3>1
    <2>4. Together(g, f, Most)
      BY <2>3 DEF Together
    <2> QED BY <2>4, <1>1, StepsUnique
  <1> HIDE DEF Own
  <1> QED BY <1>4, <1>6, <1>7

\* A climb by its steps, in lines.
LEMMA ClimbType ==
    ASSUME NEW chan \in Table, NEW c \in Chan, NEW f, Climb(chan, c, f), NEW q \in 0 .. Most
    PROVE  /\ f[q] \in Seq(Chan) /\ Len(f[q]) \in Nat \ {0} /\ f[q][1] \in Chan /\ Head(f[q]) = f[q][1]
           /\ f[q] \in Line
           /\ q \in Nat
           /\ q # 0 => /\ q-1 \in 0 .. Most /\ f[q-1] \in Line /\ q \in 1 .. Most
                       /\ f[q] = Climbed(chan, f[q-1])
  <1>1. Most \in Nat
    BY MostFacts
  <1>2. f[q] \in Line
    BY DEF Climb
  <1>3. q # 0 => q-1 \in 0 .. Most /\ q \in 1 .. Most
    BY <1>1
  <1>4. q # 0 => f[q-1] \in Line /\ f[q] = Climbed(chan, f[q-1])
    BY <1>3 DEF Climb
  <1> QED BY <1>1, <1>2, <1>3, <1>4, ClimbedIs DEF Line

\* A climb that is over stays where it is.
LEMMA ClimbOver ==
    ASSUME NEW chan \in Table, NEW c \in Chan, NEW f, Climb(chan, c, f),
           NEW q \in 0 .. Most, chan[f[q][1]].parent = NoChan
    PROVE  f[Most] = f[q]
  <1> DEFINE S == {n \in 0 .. Most : n >= q => f[n] = f[q]}
  <1>1. Most \in Nat /\ q \in Nat
    BY MostFacts
  <1>2. 0 \in S
    BY <1>1
  <1>3. ASSUME NEW n \in 1 .. Most, n-1 \in S PROVE n \in S
    <2>1. CASE n-1 >= q
      <3>1. f[n] = Climbed(chan, f[n-1]) /\ f[n-1] = f[q]
        BY <1>3, <2>1 DEF Climb
      <3> QED BY <3>1 DEF Climbed
    <2>2. CASE ~(n-1 >= q)
      <3>1. n >= q => n = q
        BY <1>1, <2>2
      <3> QED BY <3>1, <1>1
    <2> QED BY <2>1, <2>2
  <1>4. \A n \in 0 .. Most : n \in S
    <2> HIDE DEF S
    <2> QED BY <1>1, <1>2, <1>3, AllSteps
  <1>5. Most \in 0 .. Most /\ Most >= q
    BY <1>1
  <1> QED BY <1>4, <1>5

\* The chain of a channel that has no parent.
LEMMA ChainOfRoot ==
    ASSUME NEW chan \in Table, NEW c \in Chan, chan[c].parent = NoChan
    PROVE  Chain(chan, c) = <<c>> /\ ~Endless(chan, c)
  <1>1. PICK f : Climb(chan, c, f) /\ Chain(chan, c) = f[Most]
    BY ChainClimbs
  <1>2. 0 \in 0 .. Most /\ f[0] = <<c>>
    BY <1>1, MostFacts DEF Climb
  <1>3. f[Most] = <<c>>
    BY <1>1, <1>2, ClimbOver
  <1> QED BY <1>1, <1>3 DEF Endless

\* The climb of a channel is the one of its parent, a step later.
LEMMA ClimbOfParent ==
    ASSUME NEW chan \in Table, NEW c \in Chan, chan[c].parent \in Chan,
           NEW f, Climb(chan, c, f), NEW g, Climb(chan, chan[c].parent, g)
    PROVE  \A q \in 1 .. Most : f[q] = Append(g[q-1], c)
  <1> DEFINE p == chan[c].parent
             S == {n \in 0 .. Most : n = 0 \/ f[n] = Append(g[n-1], c)}
  <1>1. Most \in Nat /\ NoChan \notin Chan
    BY MostFacts
  <1>2. 0 \in S
    BY <1>1
  <1>3. ASSUME NEW n \in 1 .. Most, n-1 \in S PROVE n \in S
    <2>1. f[n] = Climbed(chan, f[n-1]) /\ n \in 0 .. Most /\ n # 0
      BY <1>1 DEF Climb
    <2>2. CASE n = 1
      <3>1. f[0] = <<c>> /\ g[0] = <<p>> /\ n-1 = 0
        BY <2>2 DEF Climb
      <3>2. p # NoChan
        BY <1>1
      <3>3. f[n] = <<p>> \o <<c>>
        <4>1. <<c>>[1] = c
          OBVIOUS
        <4>2. f[n] = Climbed(chan, <<c>>)
          BY <2>1, <3>1
        <4> QED BY <4>1, <4>2, <3>2 DEF Climbed
      <3>4. <<p>> \o <<c>> = Append(<<p>>, c)
        OBVIOUS
      <3> QED BY <2>1, <3>1, <3>3, <3>4
    <2>3. CASE n # 1
      <3>1. n-1 \in 0 .. Most /\ n-1 # 0 /\ n-1 \in 1 .. Most /\ n-1-1 \in 0 .. Most
        BY <1>1, <2>3
      <3> DEFINE u == g[n-1-1]
      <3>2. f[n-1] = Append(u, c)
        BY <1>3, <3>1
      <3>3. u \in Seq(Chan) /\ Len(u) \in Nat \ {0} /\ g[n-1] = Climbed(chan, u)
            /\ chan[u[1]].parent \in Chan \cup {NoChan}
        BY <3>1, ClimbType, ClimbedIs DEF Climb
      <3>4. Append(u, c)[1] = u[1]
        BY <3>3
      <3>5. f[n] = Append(Climbed(chan, u), c)
        <4>1. f[n] = Climbed(chan, Append(u, c))
          BY <2>1, <3>2
        <4> DEFINE top == chan[u[1]].parent
        <4>2. CASE top = NoChan
          BY <4>1, <4>2, <3>4 DEF Climbed
        <4>3. CASE top # NoChan
          <5>1. f[n] = <<top>> \o Append(u, c) /\ Climbed(chan, u) = <<top>> \o u
            BY <4>1, <4>3, <3>4 DEF Climbed
          <5>2. <<top>> \o Append(u, c) = Append(<<top>> \o u, c)
            <6>1. top \in Chan
              BY <3>3, <4>3
            <6> HIDE DEF top, u
            <6> QED BY <3>3, <6>1
          <5> QED BY <5>1, <5>2
        <4> QED BY <4>2, <4>3
      <3> QED BY <2>1, <3>3, <3>5
    <2> QED BY <2>2, <2>3
  <1>4. \A n \in 0 .. Most : n \in S
    <2> HIDE DEF S
    <2> QED BY <1>1, <1>2, <1>3, AllSteps
  <1> QED BY <1>1, <1>4

\* What ends for a channel has ended for its parent a step earlier.
LEMMA ChainOfParent ==
    ASSUME NEW chan \in Table, NEW c \in Chan, chan[c].parent \in Chan, ~Endless(chan, c)
    PROVE  /\ ~Endless(chan, chan[c].parent)
           /\ Chain(chan, c) = Append(Chain(chan, chan[c].parent), c)
  <1> DEFINE p == chan[c].parent
  <1>1. PICK f : Climb(chan, c, f) /\ Chain(chan, c) = f[Most]
    BY ChainClimbs
  <1>2. PICK g : Climb(chan, p, g) /\ Chain(chan, p) = g[Most]
    BY ChainClimbs
  <1>3. Most \in 1 .. Most /\ Most-1 \in 0 .. Most /\ Most \in 0 .. Most
    BY MostFacts
  <1>4. f[Most] = Append(g[Most-1], c)
    BY <1>1, <1>2, <1>3, ClimbOfParent
  <1>5. g[Most-1] \in Seq(Chan) /\ Len(g[Most-1]) \in Nat \ {0} /\ Head(g[Most-1]) = g[Most-1][1]
    BY <1>2, <1>3, ClimbType
  <1>6. Head(f[Most]) = g[Most-1][1]
    BY <1>4, <1>5
  <1>7. chan[g[Most-1][1]].parent = NoChan
    BY <1>1, <1>6 DEF Endless
  <1>8. g[Most] = g[Most-1]
    BY <1>2, <1>3, <1>7, ClimbOver
  <1> QED BY <1>1, <1>2, <1>4, <1>5, <1>7, <1>8 DEF Endless

\* A chain ends with its channel, and is in lines.
LEMMA ChainType ==
    ASSUME NEW chan \in Table, NEW c \in Chan
    PROVE  /\ Chain(chan, c) \in Seq(Chan) /\ Len(Chain(chan, c)) \in Nat \ {0}
           /\ Head(Chain(chan, c)) = Chain(chan, c)[1] /\ Chain(chan, c)[1] \in Chan
           /\ Chain(chan, c)[Len(Chain(chan, c))] = c
           /\ c \in ToSet(Chain(chan, c))
           /\ ToSet(Chain(chan, c)) = {Chain(chan, c)[i] : i \in 1 .. Len(Chain(chan, c))}
  <1>1. PICK f : Climb(chan, c, f) /\ Chain(chan, c) = f[Most]
    BY ChainClimbs
  <1> DEFINE S == {n \in 0 .. Most : f[n][Len(f[n])] = c}
  <1>2. Most \in Nat /\ Most \in 0 .. Most
    BY MostFacts
  <1>3. 0 \in S
    <2>1. f[0] = <<c>> /\ Len(<<c>>) = 1 /\ <<c>>[1] = c
      BY <1>1 DEF Climb
    <2> QED BY <1>2, <2>1
  <1>4. ASSUME NEW n \in 1 .. Most, n-1 \in S PROVE n \in S
    <2>1. n-1 \in 0 .. Most /\ n \in 0 .. Most /\ f[n] = Climbed(chan, f[n-1])
      BY <1>1, <1>2 DEF Climb
    <2> DEFINE u == f[n-1]
    <2>2. u \in Seq(Chan) /\ Len(u) \in Nat \ {0} /\ u[Len(u)] = c /\ chan[u[1]].parent \in Chan \cup {NoChan}
      BY <1>1, <1>4, <2>1, ClimbType, ClimbedIs
    <2>3. ASSUME NEW top \in Chan PROVE (<<top>> \o u)[Len(<<top>> \o u)] = c
      <3> HIDE DEF u
      <3> QED BY <2>2
    <2>4. f[n][Len(f[n])] = c
      BY <2>1, <2>2, <2>3 DEF Climbed
    <2> QED BY <2>1, <2>4
  <1>5. \A n \in 0 .. Most : n \in S
    <2> HIDE DEF S
    <2> QED BY <1>2, <1>3, <1>4, AllSteps
  <1>6. f[Most][Len(f[Most])] = c
    BY <1>2, <1>5
  <1>7. f[Most] \in Seq(Chan) /\ Len(f[Most]) \in Nat \ {0} /\ f[Most][1] \in Chan /\ Head(f[Most]) = f[Most][1]
    BY <1>1, <1>2, ClimbType
  <1>8. DOMAIN f[Most] = 1 .. Len(f[Most]) /\ Len(f[Most]) \in 1 .. Len(f[Most])
    BY <1>7
  <1> QED BY <1>1, <1>6, <1>7, <1>8 DEF ToSet

\* The chain of a channel that is above another is the first part of its chain.
LEMMA ChainAbove ==
    ASSUME NEW chan \in Table, NEW c \in Chan, ~Endless(chan, c), NEW i \in 1 .. Len(Chain(chan, c))
    PROVE  /\ Chain(chan, c)[i] \in Chan /\ ~Endless(chan, Chain(chan, c)[i])
           /\ Len(Chain(chan, Chain(chan, c)[i])) = i
           /\ \A k \in 1 .. i : Chain(chan, Chain(chan, c)[i])[k] = Chain(chan, c)[k]
  <1> DEFINE up == Chain(chan, c)
             n == Len(up)
             Ok(k) == /\ ~Endless(chan, up[k]) /\ Len(Chain(chan, up[k])) = k
                      /\ \A m \in 1 .. k : Chain(chan, up[k])[m] = up[m]
             S == {k \in 0 .. n-1 : Ok(n - k)}
  <1>1. up \in Seq(Chan) /\ n \in Nat \ {0} /\ up[n] = c /\ n-1 \in Nat
    BY ChainType
  <1>2. \A k \in 1 .. n : up[k] \in Chan
    BY <1>1
  <1>3. 0 \in S
    BY <1>1
  <1>4. ASSUME NEW k \in 1 .. n-1, k-1 \in S PROVE k \in S
    <2> DEFINE j == n - k
    <2>1. j \in Nat \ {0} /\ j+1 \in 1 .. n /\ j \in 1 .. n /\ n - (k-1) = j+1 /\ k \in 0 .. n-1
      BY <1>1
    <2> HIDE DEF j, Ok
    <2>2. Ok(j+1)
      BY <1>4, <2>1
    <2> DEFINE x == up[j+1]
    <2>3. x \in Chan /\ ~Endless(chan, x) /\ Len(Chain(chan, x)) = j+1
          /\ \A m \in 1 .. j+1 : Chain(chan, x)[m] = up[m]
      BY <1>2, <2>1, <2>2 DEF Ok
    <2> HIDE DEF x, up, n
    <2>4. chan[x].parent \in Chan
      <3>1. chan[x].parent \in Chan \cup {NoChan}
        BY <2>3 DEF Table, Row
      <3>2. ASSUME chan[x].parent = NoChan PROVE FALSE
        <4>1. Chain(chan, x) = <<x>> /\ Len(<<x>>) = 1
          BY <2>3, <3>2, ChainOfRoot
        <4> QED BY <4>1, <2>1, <2>3
      <3> QED BY <3>1, <3>2
    <2> DEFINE p == chan[x].parent
               v == Chain(chan, p)
    <2>5. ~Endless(chan, p) /\ Chain(chan, x) = Append(v, x) /\ v \in Seq(Chan) /\ v[Len(v)] = p /\ Len(v) \in Nat \ {0}
      BY <2>3, <2>4, ChainOfParent, ChainType
    <2> HIDE DEF p, v
    <2>6. Len(v) = j
      BY <2>1, <2>3, <2>5
    <2>7. \A m \in 1 .. j : v[m] = up[m]
      <3> SUFFICES ASSUME NEW m \in 1 .. j PROVE v[m] = up[m]
        OBVIOUS
      <3>1. m \in 1 .. j+1 /\ Append(v, x)[m] = v[m]
        BY <2>1, <2>5, <2>6
      <3> QED BY <3>1, <2>3, <2>5
    <2>8. up[j] = p
      BY <2>1, <2>5, <2>6, <2>7
    <2>9. Ok(j)
      BY <2>5, <2>6, <2>7, <2>8 DEF Ok, v
    <2> QED BY <2>1, <2>9 DEF j
  <1>5. \A k \in 0 .. n-1 : k \in S
    <2> HIDE DEF S
    <2> QED BY <1>1, <1>3, <1>4, AllSteps
  <1>6. n - i \in 0 .. n-1 /\ n - (n - i) = i
    BY <1>1
  <1>7. Ok(i)
    <2> HIDE DEF Ok
    <2> QED BY <1>5, <1>6
  <1> QED BY <1>2, <1>7

\* Without a cycle a chain has no channel twice, so it leaves room for what is not in it.
LEMMA ChainShort ==
    ASSUME NEW chan \in Table, NEW c \in Chan, ~Endless(chan, c), NEW x \in Chan, x \notin ToSet(Chain(chan, c))
    PROVE  Len(Chain(chan, c)) < Most
  <1> DEFINE up == Chain(chan, c)
             n == Len(up)
             T == Chan \ {x}
             h == [i \in 1 .. n |-> up[i]]
  <1>1. up \in Seq(Chan) /\ n \in Nat \ {0} /\ ToSet(up) = {up[i] : i \in 1 .. n}
    BY ChainType
  <1>2. IsFiniteSet(T) /\ Cardinality(T) = Most - 1
    BY MostFacts, FS_RemoveElement DEF Most
  <1>3. \A i \in 1 .. n : up[i] \in Chan /\ Len(Chain(chan, up[i])) = i
    BY ChainAbove
  <1>4. h \in Injection(1 .. n, T)
    <2>1. \A i \in 1 .. n : up[i] \in T
      BY <1>1, <1>3
    <2>2. \A i, k \in 1 .. n : up[i] = up[k] => i = k
      BY <1>3
    <2> HIDE DEF up, n
    <2> QED BY <2>1, <2>2 DEF Injection, IsInjective
  <1>5. Cardinality(1 .. n) <= Cardinality(T)
    <2> HIDE DEF h, T
    <2> QED BY <1>2, <1>4, FS_Injection
  <1>6. Cardinality(1 .. n) = n
    <2>1. n \in Int /\ 1 \in Int /\ ~(1 > n) /\ n - 1 + 1 = n
      BY <1>1
    <2> HIDE DEF n
    <2> QED BY ONLY <2>1, FS_Interval
  <1> QED BY <1>1, <1>2, <1>5, <1>6, MostFacts

\* While a climb goes on, its chain has a channel more for every step.
LEMMA ClimbGrows ==
    ASSUME NEW chan \in Table, NEW c \in Chan, NEW f, Climb(chan, c, f)
    PROVE  \A q \in 0 .. Most : chan[f[q][1]].parent # NoChan => Len(f[q]) = q+1
  <1> DEFINE S == {q \in 0 .. Most : chan[f[q][1]].parent # NoChan => Len(f[q]) = q+1}
  <1>1. Most \in Nat
    BY MostFacts
  <1>2. 0 \in S
    <2>1. f[0] = <<c>> /\ Len(<<c>>) = 1
      BY DEF Climb
    <2> QED BY <1>1, <2>1
  <1>3. ASSUME NEW q \in 1 .. Most, q-1 \in S PROVE q \in S
    <2>1. q-1 \in 0 .. Most /\ q \in 0 .. Most /\ f[q] = Climbed(chan, f[q-1])
      BY <1>1 DEF Climb
    <2> DEFINE u == f[q-1]
    <2>2. u \in Seq(Chan) /\ Len(u) \in Nat \ {0} /\ chan[u[1]].parent \in Chan \cup {NoChan}
      BY <2>1, ClimbType, ClimbedIs
    <2>3. CASE chan[u[1]].parent = NoChan
      BY <2>1, <2>3 DEF Climbed
    <2>4. CASE chan[u[1]].parent # NoChan
      <3>1. Len(u) = q-1+1 /\ f[q] = <<chan[u[1]].parent>> \o u
        BY <1>3, <2>1, <2>4 DEF Climbed
      <3>2. Len(f[q]) = 1 + Len(u)
        BY <2>2, <3>1
      <3> QED BY <2>1, <3>1, <3>2
    <2> QED BY <2>3, <2>4
  <1>4. \A q \in 0 .. Most : q \in S
    <2> HIDE DEF S
    <2> QED BY <1>1, <1>2, <1>3, AllSteps
  <1> QED BY <1>4

\* A channel that is not above its parent has a chain that ends where the parent's does.
LEMMA ChainOfChild ==
    ASSUME NEW chan \in Table, NEW c \in Chan, chan[c].parent \in Chan,
           ~Endless(chan, chan[c].parent), c \notin ToSet(Chain(chan, chan[c].parent))
    PROVE  ~Endless(chan, c) /\ Chain(chan, c) = Append(Chain(chan, chan[c].parent), c)
  <1> DEFINE p == chan[c].parent
  <1>1. PICK f : Climb(chan, c, f) /\ Chain(chan, c) = f[Most]
    BY ChainClimbs
  <1>2. PICK g : Climb(chan, p, g) /\ Chain(chan, p) = g[Most]
    BY ChainClimbs
  <1>3. Most \in Nat \ {0} /\ Most \in 1 .. Most /\ Most-1 \in 0 .. Most /\ Most \in 0 .. Most
    BY MostFacts
  <1> DEFINE u == g[Most-1]
  <1>4. f[Most] = Append(u, c)
    BY <1>1, <1>2, <1>3, ClimbOfParent
  <1>5. u \in Seq(Chan) /\ Len(u) \in Nat \ {0} /\ chan[u[1]].parent \in Chan \cup {NoChan} /\ Head(u) = u[1]
    BY <1>2, <1>3, ClimbType, ClimbedIs
  <1>6. Len(g[Most]) < Most
    BY <1>2, ChainShort
  <1>7. ASSUME chan[u[1]].parent # NoChan PROVE FALSE
    <2>1. Len(u) = Most
      BY <1>2, <1>3, <1>7, ClimbGrows
    <2>2. g[Most] = <<chan[u[1]].parent>> \o u
      BY <1>2, <1>3, <1>7 DEF Climb, Climbed
    <2>3. Len(g[Most]) = 1 + Len(u)
      BY <1>5, <2>2
    <2> QED BY <1>3, <1>6, <2>1, <2>3
  <1>8. g[Most] = u
    BY <1>2, <1>3, <1>7, ClimbOver
  <1>9. Head(f[Most]) = u[1]
    BY <1>4, <1>5
  <1> QED BY <1>1, <1>2, <1>4, <1>7, <1>8, <1>9 DEF Endless

\* The steps of a climb are parts of the chain.
LEMMA ClimbWithin ==
    ASSUME NEW chan \in Table, NEW c \in Chan, NEW f, Climb(chan, c, f), NEW q \in 0 .. Most
    PROVE  f[q][1] \in ToSet(f[Most])
  <1> DEFINE S == {k \in 0 .. Most : ToSet(f[Most - k]) \subseteq ToSet(f[Most])}
  <1>1. Most \in Nat /\ Most - 0 = Most
    BY MostFacts
  <1>2. 0 \in S
    BY <1>1
  <1>3. ASSUME NEW k \in 1 .. Most, k-1 \in S PROVE k \in S
    <2> DEFINE m == Most - k
               u == f[m]
    <2>1. m \in 0 .. Most /\ m+1 \in 1 .. Most /\ m+1-1 = m /\ Most - (k-1) = m+1 /\ k \in 0 .. Most
      BY <1>1
    <2>2. f[m+1] = Climbed(chan, u)
      BY <2>1 DEF Climb
    <2> HIDE DEF m
    <2>3. u \in Seq(Chan) /\ chan[u[1]].parent \in Chan \cup {NoChan}
      BY <2>1, ClimbType, ClimbedIs
    <2>4. ASSUME NEW top \in Chan PROVE ToSet(u) \subseteq ToSet(<<top>> \o u)
      <3> HIDE DEF u
      <3> SUFFICES ASSUME NEW i \in DOMAIN u PROVE u[i] \in ToSet(<<top>> \o u)
        BY DEF ToSet
      <3>1. i+1 \in DOMAIN (<<top>> \o u) /\ (<<top>> \o u)[i+1] = u[i]
        BY <2>3
      <3> QED BY <3>1 DEF ToSet
    <2>5. ToSet(u) \subseteq ToSet(f[m+1])
      BY <2>2, <2>3, <2>4 DEF Climbed
    <2>6. ToSet(f[m+1]) \subseteq ToSet(f[Most])
      BY <1>3, <2>1
    <2> QED BY <2>1, <2>5, <2>6 DEF m
  <1>4. \A k \in 0 .. Most : k \in S
    <2> HIDE DEF S
    <2> QED BY <1>1, <1>2, <1>3, AllSteps
  <1>5. Most - q \in 0 .. Most /\ Most - (Most - q) = q
    BY <1>1
  <1>6. ToSet(f[q]) \subseteq ToSet(f[Most])
    BY <1>4, <1>5
  <1>7. f[q] \in Seq(Chan) /\ Len(f[q]) \in Nat \ {0}
    BY ClimbType
  <1>8. 1 \in DOMAIN f[q]
    BY <1>7
  <1> QED BY <1>6, <1>8 DEF ToSet

\* A chain is as it was if the parents of the channels in it are.
LEMMA ChainSame ==
    ASSUME NEW a \in Table, NEW b \in Table, NEW c \in Chan,
           \A d \in ToSet(Chain(a, c)) : a[d].parent = b[d].parent
    PROVE  Chain(b, c) = Chain(a, c) /\ (Endless(a, c) <=> Endless(b, c))
  <1>1. PICK f : Climb(a, c, f) /\ Chain(a, c) = f[Most]
    BY ChainClimbs
  <1>2. PICK g : Climb(b, c, g) /\ Chain(b, c) = g[Most]
    BY ChainClimbs
  <1>3. Most \in Nat /\ Most \in 0 .. Most
    BY MostFacts
  <1> DEFINE S == {q \in 0 .. Most : f[q] = g[q]}
  <1>4. 0 \in S
    BY <1>1, <1>2, <1>3 DEF Climb
  <1>5. ASSUME NEW q \in 1 .. Most, q-1 \in S PROVE q \in S
    <2>1. q-1 \in 0 .. Most /\ q \in 0 .. Most /\ f[q-1] = g[q-1]
      BY <1>3, <1>5
    <2>2. f[q] = Climbed(a, f[q-1]) /\ g[q] = Climbed(b, g[q-1])
      BY <1>1, <1>2 DEF Climb
    <2>3. a[f[q-1][1]].parent = b[f[q-1][1]].parent
      BY <1>1, <2>1, ClimbWithin
    <2> QED BY <2>1, <2>2, <2>3 DEF Climbed
  <1>6. \A q \in 0 .. Most : q \in S
    <2> HIDE DEF S
    <2> QED BY <1>3, <1>4, <1>5, AllSteps
  <1>7. f[Most] = g[Most]
    BY <1>3, <1>6
  <1>8. f[Most][1] \in ToSet(f[Most]) /\ Head(f[Most]) = f[Most][1]
    BY <1>1, <1>3, ClimbWithin, ClimbType
  <1> QED BY <1>1, <1>2, <1>7, <1>8 DEF Endless

\* A chain stays among the channels.
LEMMA ChainThere ==
    ASSUME NEW chan, Closed(chan), NEW c \in There(chan)
    PROVE  ToSet(Chain(chan, c)) \subseteq There(chan)
  <1>0. chan \in Table /\ c \in Chan /\ \A d \in There(chan) : chan[d].parent \in There(chan) \cup {NoChan}
    BY DEF Closed, There
  <1>1. PICK f : Climb(chan, c, f) /\ Chain(chan, c) = f[Most]
    BY <1>0, ChainClimbs
  <1> DEFINE S == {q \in 0 .. Most : ToSet(f[q]) \subseteq There(chan)}
  <1>2. Most \in Nat /\ Most \in 0 .. Most
    BY MostFacts
  <1>3. 0 \in S
    <2>1. f[0] = <<c>> /\ ToSet(<<c>>) = {c}
      BY <1>1 DEF Climb, ToSet
    <2> QED BY <1>2, <2>1
  <1>4. ASSUME NEW q \in 1 .. Most, q-1 \in S PROVE q \in S
    <2>1. q-1 \in 0 .. Most /\ q \in 0 .. Most /\ f[q] = Climbed(chan, f[q-1])
      BY <1>1, <1>2 DEF Climb
    <2> DEFINE u == f[q-1]
    <2>2. u \in Seq(Chan) /\ Len(u) \in Nat \ {0} /\ ToSet(u) \subseteq There(chan)
      BY <1>0, <1>1, <1>4, <2>1, ClimbType
    <2>3. u[1] \in There(chan)
      <3>1. 1 \in DOMAIN u
        BY <2>2
      <3> QED BY <2>2, <3>1 DEF ToSet
    <2>4. ASSUME NEW top \in There(chan) PROVE ToSet(<<top>> \o u) \subseteq There(chan)
      <3> HIDE DEF u
      <3>1. top \in Chan
        BY DEF There
      <3> SUFFICES ASSUME NEW i \in DOMAIN (<<top>> \o u) PROVE (<<top>> \o u)[i] \in There(chan)
        BY DEF ToSet
      <3>2. CASE i = 1
        BY <2>2, <3>1, <3>2
      <3>3. CASE i # 1
        <4>1. i-1 \in DOMAIN u /\ (<<top>> \o u)[i] = u[i-1]
          BY <2>2, <3>1, <3>3
        <4> QED BY <2>2, <4>1 DEF ToSet
      <3> QED BY <3>2, <3>3
    <2>5. chan[u[1]].parent \in There(chan) \cup {NoChan}
      BY <1>0, <2>3
    <2>6. ToSet(f[q]) \subseteq There(chan)
      BY <2>1, <2>2, <2>4, <2>5 DEF Climbed
    <2> QED BY <2>1, <2>6
  <1>5. \A q \in 0 .. Most : q \in S
    <2> HIDE DEF S
    <2> QED BY <1>2, <1>3, <1>4, AllSteps
  <1> QED BY <1>1, <1>2, <1>5

-----------------------------------------------------------------------------
(* Names.                                                                  *)

\* Complete names are sequences of names.
LEMMA NameType ==
    ASSUME NEW chan \in Table, NEW c \in Chan
    PROVE  CompleteName(chan, c) \in Seq(Names)
  <1> DEFINE up == Chain(chan, c)
  <1>1. up \in Seq(Chan) /\ Len(up) \in Nat
    BY ChainType
  <1>2. \A i \in DOMAIN up : up[i] \in Chan /\ chan[up[i]].name \in Names
    BY <1>1 DEF Table, Row
  <1>3. DOMAIN up = 1 .. Len(up)
    BY <1>1
  <1>4. [i \in 1 .. Len(up) |-> chan[up[i]].name] \in Seq(Names)
    <2> HIDE DEF up
    <2> QED BY <1>1, <1>2, <1>3
  <1> QED BY <1>3, <1>4 DEF CompleteName

\* A channel without parent is called by its own name.
LEMMA NameOfRoot ==
    ASSUME NEW chan \in Table, NEW c \in Chan, chan[c].parent = NoChan
    PROVE  CompleteName(chan, c) = <<chan[c].name>>
  <1>1. Chain(chan, c) = <<c>>
    BY ChainOfRoot
  <1> QED BY <1>1 DEF CompleteName

\* The name is as it was if the channels in the chain are.
LEMMA NameSame ==
    ASSUME NEW a \in Table, NEW b \in Table, NEW c \in Chan,
           \A d \in ToSet(Chain(a, c)) : a[d].parent = b[d].parent /\ a[d].name = b[d].name
    PROVE  CompleteName(b, c) = CompleteName(a, c)
  <1> DEFINE up == Chain(a, c)
  <1>1. Chain(b, c) = up
    BY ChainSame
  <1>2. \A i \in DOMAIN up : up[i] \in ToSet(up)
    BY DEF ToSet
  <1>3. \A i \in DOMAIN up : a[up[i]].name = b[up[i]].name
    BY <1>2
  <1> HIDE DEF up
  <1>4. [i \in DOMAIN up |-> a[up[i]].name] = [i \in DOMAIN up |-> b[up[i]].name]
    BY <1>3
  <1> QED BY <1>1, <1>4 DEF CompleteName, up

FuncRows == [name : Func \cup {NoName}, channel : Chan \cup {NoChan}, path : Seq(Names)]
JobRows == [state : {"waiting", "done", NoName}, func : FuncRow \cup {NoName}, overridden : BOOLEAN,
            channel : Seq(Names) \cup Override]
Tables == [chan : Table, func : [FuncRow -> FuncRows], job : [Job -> JobRows]]

\* A tree: the channels have their parents among them, and all but the root one.
Tree(chan) ==
    /\ Closed(chan)
    /\ ChannelRoot \in There(chan) /\ chan[ChannelRoot].name = RootName /\ chan[ChannelRoot].parent = NoChan
    /\ \A c \in There(chan) : /\ chan[c].name # NoName
                              /\ chan[c].parent = NoChan => c = ChannelRoot
                              /\ ~Endless(chan, c)

\* Every stored name is the path.
NamesOk(chan) == \A c \in There(chan) : chan[c].complete = CompleteName(chan, c)

\* The functions are in channels, by their names.
FuncsOk(s) == \A r \in FuncRow : s.func[r] # NoFunc => /\ s.func[r].channel \in There(s.chan)
                                                      /\ s.func[r].path = s.chan[s.func[r].channel].complete

Sound(s) == s \in Tables /\ Tree(s.chan) /\ NamesOk(s.chan) /\ FuncsOk(s)

\* What recomputing the names below c leaves.
LEMMA Recomputed ==
    ASSUME NEW s \in Tables, Tree(s.chan), NEW c \in There(s.chan),
           \A d \in There(s.chan) : c \notin ToSet(Chain(s.chan, d)) => s.chan[d].complete = CompleteName(s.chan, d),
           \A r \in FuncRow : s.func[r] # NoFunc =>
                /\ s.func[r].channel \in There(s.chan)
                /\ c \notin ToSet(Chain(s.chan, s.func[r].channel)) => s.func[r].path = s.chan[s.func[r].channel].complete
    PROVE  /\ Sound(Named(s, c))
           /\ There(Named(s, c).chan) = There(s.chan)
           /\ Named(s, c).job = s.job
           /\ Named(s, c).chan[c].complete = CompleteName(s.chan, c)
           /\ \A d \in Chan : /\ Named(s, c).chan[d].name = s.chan[d].name
                              /\ Named(s, c).chan[d].parent = s.chan[d].parent
                              /\ d \notin There(s.chan) => Named(s, c).chan[d] = Gone
           /\ \A d \in There(s.chan) : c \notin ToSet(Chain(s.chan, d)) => Named(s, c).chan[d] = s.chan[d]
           /\ \A r \in FuncRow : s.func[r] = NoFunc => Named(s, c).func[r] = NoFunc
  <1> DEFINE old == s.chan
             below == Below(s, c)
             new == [d \in Chan |-> IF d \in below THEN [old[d] EXCEPT !.complete = CompleteName(old, d)] ELSE old[d]]
             rows == [r \in FuncRow |-> IF s.func[r].channel \in below
                                        THEN [s.func[r] EXCEPT !.path = new[s.func[r].channel].complete]
                                        ELSE s.func[r]]
             t == Named(s, c)
  <1>1. t = [s EXCEPT !.chan = new, !.func = rows]
    BY DEF Named
  <1>2. /\ s = [chan |-> s.chan, func |-> s.func, job |-> s.job]
        /\ old \in Table /\ s.func \in [FuncRow -> FuncRows] /\ s.job \in [Job -> JobRows]
    BY DEF Tables
  <1>3. t = [chan |-> new, func |-> rows, job |-> s.job]
    <2> HIDE DEF t, new, rows
    <2> QED BY <1>1, <1>2
  <1>4. below = {d \in There(old) : c \in ToSet(Chain(old, d))} /\ There(old) \subseteq Chan
    BY DEF Below, Channels, There
  <1> HIDE DEF t, below
  <1>5. \A d \in Chan : /\ CompleteName(old, d) \in Seq(Names)
                        /\ old[d] \in Row
                        /\ new[d] = IF d \in below THEN [old[d] EXCEPT !.complete = CompleteName(old, d)] ELSE old[d]
    BY <1>2, NameType DEF Table
  <1>6. \A d \in Chan : /\ new[d] \in Row
                        /\ new[d].name = old[d].name /\ new[d].parent = old[d].parent
                        /\ new[d].complete = IF d \in below THEN CompleteName(old, d) ELSE old[d].complete
    <2> HIDE DEF old, new
    <2> QED BY <1>5 DEF Row
  <1>7. new \in Table
    BY <1>6 DEF Table
  <1> HIDE DEF new
  <1>8. \A d \in Chan : (d \in There(new) <=> d \in There(old)) /\ (d \notin There(old) => new[d] = Gone)
    <2> SUFFICES ASSUME NEW d \in Chan
                 PROVE  (d \in There(new) <=> d \in There(old)) /\ (d \notin There(old) => new[d] = Gone)
      OBVIOUS
    <2>1. CASE d \in There(old)
      <3>1. old[d].name # NoName
        BY <2>1 DEF Tree
      <3>2. new[d].name # Gone.name
        BY <1>6, <3>1 DEF Gone
      <3>3. new[d] # Gone
        BY <3>2
      <3> QED BY <2>1, <3>3 DEF There
    <2>2. CASE d \notin There(old)
      BY <1>4, <1>5, <2>2 DEF There
    <2> QED BY <2>1, <2>2
  <1>9. There(new) = There(old)
    BY <1>8 DEF There
  <1>10. \A d \in Chan : /\ Chain(new, d) = Chain(old, d) /\ (Endless(old, d) <=> Endless(new, d))
                         /\ CompleteName(new, d) = CompleteName(old, d)
    <2> SUFFICES ASSUME NEW d \in Chan
                 PROVE  /\ Chain(new, d) = Chain(old, d) /\ (Endless(old, d) <=> Endless(new, d))
                        /\ CompleteName(new, d) = CompleteName(old, d)
      OBVIOUS
    <2>1. ToSet(Chain(old, d)) \subseteq Chan
      BY <1>2, ChainType DEF ToSet
    <2>2. \A e \in ToSet(Chain(old, d)) : old[e].parent = new[e].parent /\ old[e].name = new[e].name
      BY <1>6, <2>1
    <2> QED BY <1>2, <1>7, <2>2, ChainSame, NameSame
  <1>11. Tree(new)
    <2>1. Closed(new)
      BY <1>4, <1>6, <1>7, <1>9 DEF Closed, Tree
    <2> QED BY <1>4, <1>6, <1>9, <1>10, <2>1, MostFacts DEF Tree
  <1>12. NamesOk(new)
    BY <1>4, <1>6, <1>9, <1>10 DEF NamesOk
  <1>13. \A r \in FuncRow : /\ rows[r] \in FuncRows
                            /\ rows[r].name = s.func[r].name /\ rows[r].channel = s.func[r].channel
                            /\ rows[r].path = IF s.func[r].channel \in below THEN new[s.func[r].channel].complete
                                              ELSE s.func[r].path
                            /\ s.func[r].channel \notin below => rows[r] = s.func[r]
    <2> SUFFICES ASSUME NEW r \in FuncRow
                 PROVE  /\ rows[r] \in FuncRows
                        /\ rows[r].name = s.func[r].name /\ rows[r].channel = s.func[r].channel
                        /\ rows[r].path = IF s.func[r].channel \in below THEN new[s.func[r].channel].complete
                                          ELSE s.func[r].path
                        /\ s.func[r].channel \notin below => rows[r] = s.func[r]
      OBVIOUS
    <2> DEFINE row == s.func[r]
    <2>1. row \in FuncRows
      BY <1>2
    <2>2. rows[r] = IF row.channel \in below THEN [row EXCEPT !.path = new[row.channel].complete] ELSE row
      OBVIOUS
    <2>3. row.channel \in below => new[row.channel].complete \in Seq(Names)
      BY <1>4, <1>6 DEF Row
    <2> HIDE DEF row, rows
    <2> QED BY <2>1, <2>2, <2>3 DEF FuncRows, row
  <1>14. \A r \in FuncRow : s.func[r] = NoFunc => rows[r] = NoFunc
    <2> SUFFICES ASSUME NEW r \in FuncRow, s.func[r] = NoFunc PROVE rows[r] = NoFunc
      OBVIOUS
    <2>1. s.func[r].channel \notin below
      BY <1>4, MostFacts DEF NoFunc
    <2> QED BY <1>13, <2>1
  <1> HIDE DEF rows
  <1>15. FuncsOk(t)
    <2> SUFFICES ASSUME NEW r \in FuncRow, rows[r] # NoFunc
                 PROVE  rows[r].channel \in There(new) /\ rows[r].path = new[rows[r].channel].complete
      BY <1>3 DEF FuncsOk
    <2> DEFINE d == s.func[r].channel
    <2>1. s.func[r] # NoFunc /\ rows[r].channel = d
      BY <1>13, <1>14
    <2>2. d \in There(old) /\ d \in Chan
      BY <1>4, <2>1
    <2>3. CASE d \in below
      BY <1>9, <1>13, <2>1, <2>2, <2>3
    <2>4. CASE d \notin below
      <3>1. c \notin ToSet(Chain(old, d))
        BY <1>4, <2>2, <2>4
      <3>2. s.func[r].path = old[d].complete /\ new[d].complete = old[d].complete
        BY <1>6, <2>1, <2>2, <2>4, <3>1
      <3>3. rows[r].path = s.func[r].path
        BY <1>13, <2>4
      <3> QED BY <1>9, <2>1, <2>2, <3>2, <3>3
    <2> QED BY <2>3, <2>4
  <1>16. t \in Tables
    <2>1. rows \in [FuncRow -> FuncRows]
      BY <1>13 DEF rows
    <2> QED BY <1>2, <1>3, <1>7, <2>1 DEF Tables
  <1>17. Sound(t) /\ t.chan = new /\ t.func = rows /\ t.job = s.job
    BY <1>3, <1>11, <1>12, <1>15, <1>16 DEF Sound
  <1>18. c \in below
    <2>1. c \in ToSet(Chain(old, c))
      BY <1>2, <1>4, ChainType
    <2> QED BY <1>4, <2>1
  <1> QED BY <1>4, <1>5, <1>6, <1>8, <1>9, <1>14, <1>17, <1>18 DEF t

-----------------------------------------------------------------------------
(* Changes of the tree.                                                    *)

\* A new channel under one that is there.
LEMMA Added ==
    ASSUME NEW s, Sound(s), NEW c \in Chan, c \notin There(s.chan),
           NEW name \in Part \cup {RootName}, NEW parent \in There(s.chan), NEW u \in Tables,
           u.chan[c] = [name |-> name, parent |-> parent, complete |-> <<>>],
           \A d \in Chan : d # c => u.chan[d] = s.chan[d], u.func = s.func, u.job = s.job
    PROVE  /\ Sound(Named(u, c))
           /\ There(Named(u, c).chan) = There(s.chan) \cup {c}
           /\ Named(u, c).job = s.job
           /\ \A r \in FuncRow : s.func[r] = NoFunc => Named(u, c).func[r] = NoFunc
  <1> DEFINE old == s.chan
             row == [name |-> name, parent |-> parent, complete |-> <<>>]
             new == u.chan
  <1>1. /\ Tree(old) /\ NamesOk(old) /\ FuncsOk(s) /\ old \in Table
    BY DEF Sound, Tables
  <1>3. parent \in Chan /\ parent # c
    BY DEF There
  <1>5. new \in Table /\ new[c] = row /\ \A d \in Chan : d # c => new[d] = old[d]
    BY DEF Tables
  <1>6. u \in Tables /\ u.chan = new /\ u.func = s.func /\ u.job = s.job
    OBVIOUS
  <1>7. row # Gone
    BY <1>3, MostFacts DEF Gone
  <1> HIDE DEF new
  <1>8. There(new) = There(old) \cup {c}
    BY <1>5, <1>7 DEF There
  <1>9. ASSUME NEW d \in There(old)
        PROVE  /\ d \in Chan /\ d # c /\ c \notin ToSet(Chain(new, d)) /\ Chain(new, d) = Chain(old, d)
               /\ ~Endless(new, d) /\ CompleteName(new, d) = CompleteName(old, d)
    <2>1. d \in Chan /\ d # c /\ ~Endless(old, d)
      BY <1>1 DEF There, Tree
    <2>2. ToSet(Chain(old, d)) \subseteq There(old) /\ There(old) \subseteq Chan
      BY <1>1, ChainThere DEF Tree, There
    <2>3. \A e \in ToSet(Chain(old, d)) : old[e].parent = new[e].parent /\ old[e].name = new[e].name
      BY <1>5, <2>2
    <2> QED BY <1>1, <1>5, <2>1, <2>2, <2>3, ChainSame, NameSame
  <1>10. ~Endless(new, c)
    <2>1. new[c].parent = parent /\ parent \in Chan
      BY <1>3, <1>5
    <2>2. ~Endless(new, parent) /\ c \notin ToSet(Chain(new, parent))
      BY <1>9
    <2> QED BY <1>5, <2>1, <2>2, ChainOfChild
  <1>11. Tree(new)
    <2>1. Closed(new)
      BY <1>1, <1>5, <1>8 DEF Closed, Tree, There
    <2>2. new[c].name # NoName /\ new[c].parent # NoChan
      BY <1>3, <1>5, MostFacts
    <2>3. ChannelRoot # c
      BY <1>1 DEF Tree
    <2>4. \A d \in There(old) : new[d] = old[d]
      BY <1>5, <1>9
    <2> QED BY <1>1, <1>8, <1>9, <1>10, <2>1, <2>2, <2>3, <2>4 DEF Tree
  <1>12. \A d \in There(new) : c \notin ToSet(Chain(new, d)) => new[d].complete = CompleteName(new, d)
    <2>1. c \in ToSet(Chain(new, c))
      BY <1>5, ChainType
    <2> QED BY <1>1, <1>5, <1>8, <1>9, <2>1 DEF NamesOk
  <1>13. \A r \in FuncRow : s.func[r] # NoFunc =>
                /\ s.func[r].channel \in There(new)
                /\ s.func[r].path = new[s.func[r].channel].complete
    BY <1>1, <1>5, <1>8, <1>9 DEF FuncsOk
  <1>14. c \in There(new)
    BY <1>8
  <1>15. /\ c \in There(u.chan) /\ Tree(u.chan)
         /\ \A d \in There(u.chan) : c \notin ToSet(Chain(u.chan, d)) => u.chan[d].complete = CompleteName(u.chan, d)
         /\ \A r \in FuncRow : u.func[r] # NoFunc =>
                /\ u.func[r].channel \in There(u.chan)
                /\ c \notin ToSet(Chain(u.chan, u.func[r].channel)) => u.func[r].path = u.chan[u.func[r].channel].complete
    BY <1>6, <1>11, <1>12, <1>13, <1>14
  <1>16. /\ Sound(Named(u, c))
         /\ There(Named(u, c).chan) = There(u.chan)
         /\ Named(u, c).job = u.job
         /\ \A r \in FuncRow : u.func[r] = NoFunc => Named(u, c).func[r] = NoFunc
    BY <1>6, <1>15, Recomputed
  <1> QED BY <1>6, <1>8, <1>16

\* A channel that gets another name or another parent, with no cycle below it.
LEMMA Rewritten ==
    ASSUME NEW s, Sound(s), NEW c \in There(s.chan), c # ChannelRoot,
           NEW name \in Part \cup {RootName}, NEW parent \in There(s.chan),
           NEW u, u = [s EXCEPT !.chan[c].name = name, !.chan[c].parent = parent],
           \A d \in Below(u, c) : ~Endless(u.chan, d)
    PROVE  Sound(Named(u, c)) /\ Named(u, c).job = s.job
  <1> DEFINE old == s.chan
             row == [old[c] EXCEPT !.name = name, !.parent = parent]
             new == [old EXCEPT ![c] = row]
  <1>1. /\ s \in Tables /\ Tree(old) /\ NamesOk(old) /\ FuncsOk(s)
        /\ s = [chan |-> s.chan, func |-> s.func, job |-> s.job]
        /\ old \in Table /\ s.func \in [FuncRow -> FuncRows] /\ s.job \in [Job -> JobRows]
    BY DEF Sound, Tables
  <1>2. c \in Chan /\ parent \in Chan /\ old[c] \in Row
    BY <1>1 DEF There, Table
  <1>3. row \in Row /\ row.name = name /\ row.parent = parent
    BY <1>2 DEF Row, Names
  <1>4. u = [chan |-> new, func |-> s.func, job |-> s.job]
    <2>1. u = [s EXCEPT !.chan = [old EXCEPT ![c] = [old[c] EXCEPT !.name = name, !.parent = parent]]]
      BY <1>1, <1>2 DEF Table
    <2> QED BY <1>1, <2>1
  <1>5. new \in Table /\ new[c] = row /\ \A d \in Chan : d # c => new[d] = old[d]
    BY <1>1, <1>2, <1>3 DEF Table
  <1>6. u \in Tables /\ u.chan = new /\ u.func = s.func /\ u.job = s.job
    <2> HIDE DEF new, row
    <2> DEFINE v == [chan |-> new, func |-> s.func, job |-> s.job]
    <2>1. v \in Tables /\ v.chan = new /\ v.func = s.func /\ v.job = s.job
      BY <1>1, <1>5 DEF Tables
    <2> HIDE DEF v
    <2>2. u = v
      BY <1>4 DEF v
    <2> QED BY <2>1, <2>2
  <1>7. row # Gone
    BY <1>2, <1>3, MostFacts DEF Gone
  <1> HIDE DEF new, row
  <1>8. There(new) = There(old)
    BY <1>2, <1>5, <1>7 DEF There
  <1>9. ASSUME NEW d \in There(old), c \notin ToSet(Chain(new, d))
        PROVE  /\ d \in Chan /\ d # c /\ ~Endless(new, d) /\ CompleteName(new, d) = CompleteName(old, d)
    <2>1. d \in Chan /\ ~Endless(old, d)
      BY <1>1 DEF There, Tree
    <2>2. d # c
      BY <1>5, <1>9, <2>1, ChainType
    <2>3. ToSet(Chain(new, d)) \subseteq Chan
      BY <1>5, <2>1, ChainType DEF ToSet
    <2>4. \A e \in ToSet(Chain(new, d)) : old[e].parent = new[e].parent /\ old[e].name = new[e].name
      BY <1>5, <1>9, <2>3
    <2> QED BY <1>1, <1>5, <2>1, <2>2, <2>4, ChainSame, NameSame
  <1>10. \A d \in There(old) : ~Endless(new, d)
    <2>1. \A d \in There(old) : c \in ToSet(Chain(new, d)) => d \in Below(u, c)
      BY <1>6, <1>8 DEF Below, Channels, There
    <2> QED BY <1>6, <1>9, <2>1
  <1>11. Tree(new)
    <2>1. Closed(new)
      BY <1>1, <1>2, <1>3, <1>5, <1>8 DEF Closed, Tree, There
    <2>2. new[c].name # NoName /\ new[c].parent # NoChan
      BY <1>2, <1>3, <1>5, MostFacts
    <2>3. \A d \in There(old) : d # c => new[d] = old[d]
      BY <1>5 DEF There
    <2> QED BY <1>1, <1>8, <1>10, <2>1, <2>2, <2>3 DEF Tree
  <1>12. \A d \in There(new) : c \notin ToSet(Chain(new, d)) => new[d].complete = CompleteName(new, d)
    BY <1>1, <1>5, <1>8, <1>9 DEF NamesOk
  <1>13. \A r \in FuncRow : s.func[r] # NoFunc =>
                /\ s.func[r].channel \in There(new)
                /\ c \notin ToSet(Chain(new, s.func[r].channel)) => s.func[r].path = new[s.func[r].channel].complete
    BY <1>1, <1>5, <1>8, <1>9 DEF FuncsOk
  <1>15. /\ c \in There(u.chan) /\ Tree(u.chan)
         /\ \A d \in There(u.chan) : c \notin ToSet(Chain(u.chan, d)) => u.chan[d].complete = CompleteName(u.chan, d)
         /\ \A r \in FuncRow : u.func[r] # NoFunc =>
                /\ u.func[r].channel \in There(u.chan)
                /\ c \notin ToSet(Chain(u.chan, u.func[r].channel)) => u.func[r].path = u.chan[u.func[r].channel].complete
    BY <1>6, <1>8, <1>11, <1>12, <1>13
  <1>16. Sound(Named(u, c)) /\ Named(u, c).job = u.job
    BY <1>6, <1>15, Recomputed
  <1> QED BY <1>6, <1>16

\* Tables stay tables.
LEMMA NamedType ==
    ASSUME NEW s \in Tables, NEW c
    PROVE  Named(s, c) \in Tables
  <1> DEFINE below == Below(s, c)
             new == [d \in Chan |-> IF d \in below THEN [s.chan[d] EXCEPT !.complete = CompleteName(s.chan, d)] ELSE s.chan[d]]
             rows == [r \in FuncRow |-> IF s.func[r].channel \in below
                                        THEN [s.func[r] EXCEPT !.path = new[s.func[r].channel].complete]
                                        ELSE s.func[r]]
  <1>1. /\ s = [chan |-> s.chan, func |-> s.func, job |-> s.job]
        /\ s.chan \in Table /\ s.func \in [FuncRow -> FuncRows] /\ s.job \in [Job -> JobRows]
    BY DEF Tables
  <1>2. Named(s, c) = [s EXCEPT !.chan = new, !.func = rows] /\ below \subseteq Chan
    BY DEF Named, Below, Channels
  <1>3. \A d \in Chan : CompleteName(s.chan, d) \in Seq(Names) /\ s.chan[d] \in Row
    BY <1>1, NameType DEF Table
  <1> HIDE DEF below
  <1>4. \A d \in Chan : new[d] \in Row
    BY <1>3 DEF Row
  <1>5. new \in Table
    BY <1>4 DEF Table
  <1> HIDE DEF new
  <1>6. \A r \in FuncRow : s.func[r] \in FuncRows /\ (s.func[r].channel \in below => new[s.func[r].channel].complete \in Seq(Names))
    BY <1>1, <1>2, <1>4 DEF Row
  <1>7. \A r \in FuncRow : rows[r] \in FuncRows
    BY <1>6 DEF FuncRows
  <1>8. rows \in [FuncRow -> FuncRows]
    BY <1>7
  <1> HIDE DEF rows
  <1>9. Named(s, c) = [chan |-> new, func |-> rows, job |-> s.job]
    BY <1>1, <1>2
  <1> QED BY <1>1, <1>5, <1>8, <1>9 DEF Tables

\* A channel with no parent would be called "root" twice.
LEMMA SecondRoot ==
    ASSUME NEW s, Sound(s), NEW c \in Chan, c # ChannelRoot, NEW u \in Tables,
           u.chan[c].name = RootName, u.chan[c].parent = NoChan, \A d \in Chan : d # c => u.chan[d] = s.chan[d]
    PROVE  ~Constraints(Named(u, c))
  <1> DEFINE old == s.chan
             new == u.chan
             t == Named(u, c)
  <1>1. /\ old \in Table /\ new \in Table /\ Tree(old) /\ NamesOk(old) /\ ChannelRoot \in Chan
        /\ old[ChannelRoot].name = RootName /\ old[ChannelRoot].parent = NoChan /\ ChannelRoot \in There(old)
    BY MostFacts DEF Sound, Tables, Tree, Closed
  <1>2. new[ChannelRoot] = old[ChannelRoot]
    BY <1>1
  <1>3. t.chan = [d \in Chan |-> IF d \in Below(u, c) THEN [new[d] EXCEPT !.complete = CompleteName(new, d)] ELSE new[d]]
    BY DEF Named, Tables
  <1>4. c \in Channels(u) /\ ChannelRoot \in Channels(u)
    BY <1>1, <1>2, MostFacts DEF Channels, Gone, There
  <1>5. c \in Below(u, c) /\ ChannelRoot \notin Below(u, c)
    <2>1. c \in ToSet(Chain(new, c))
      BY <1>1, ChainType
    <2>2. Chain(new, ChannelRoot) = <<ChannelRoot>> /\ ToSet(<<ChannelRoot>>) = {ChannelRoot}
      BY <1>1, <1>2, ChainOfRoot DEF ToSet
    <2> QED BY <1>4, <2>1, <2>2 DEF Below
  <1>6. t.chan[c] = [new[c] EXCEPT !.complete = <<RootName>>] /\ t.chan[ChannelRoot] = old[ChannelRoot]
    BY <1>1, <1>2, <1>3, <1>5, NameOfRoot
  <1>7. old[ChannelRoot].complete = <<RootName>>
    BY <1>1, NameOfRoot DEF NamesOk
  <1>8. new[c] \in Row
    BY <1>1 DEF Table
  <1>9. t.chan[c].complete = <<RootName>> /\ t.chan[c].name = RootName
    BY <1>6, <1>8 DEF Row
  <1>10. c \in Channels(t) /\ ChannelRoot \in Channels(t)
    BY <1>1, <1>6, <1>9, MostFacts DEF Channels, Gone, There
  <1> HIDE DEF t
  <1>11. Constraints(t) => \A a, b \in Channels(t) : t.chan[a].complete = t.chan[b].complete => a = b
    BY DEF Constraints
  <1>12. t.chan[ChannelRoot].complete = <<RootName>>
    BY <1>6, <1>7
  <1> QED BY <1>9, <1>10, <1>11, <1>12 DEF t

\* A channel without sub-channels is removed.
LEMMA Removed ==
    ASSUME NEW s, Sound(s), NEW c \in There(s.chan), c # ChannelRoot,
           NEW u, u = [s EXCEPT !.chan[c] = Gone], Constraints(u)
    PROVE  Tree(u.chan) /\ NamesOk(u.chan) /\ FuncsOk(u) /\ u \in Tables
  <1> DEFINE old == s.chan
             new == [old EXCEPT ![c] = Gone]
  <1>1. /\ s \in Tables /\ Tree(old) /\ NamesOk(old) /\ FuncsOk(s)
        /\ s = [chan |-> s.chan, func |-> s.func, job |-> s.job]
        /\ old \in Table /\ s.func \in [FuncRow -> FuncRows] /\ s.job \in [Job -> JobRows]
        /\ c \in Chan
    BY DEF Sound, Tables, There
  <1>2. Gone \in Row
    BY DEF Row, Names, Gone
  <1>3. new \in Table /\ new[c] = Gone /\ \A d \in Chan : d # c => new[d] = old[d]
    BY <1>1, <1>2 DEF Table
  <1>4. u = [chan |-> new, func |-> s.func, job |-> s.job]
    BY <1>1
  <1>5. u \in Tables /\ u.chan = new /\ u.func = s.func /\ u.job = s.job
    BY <1>1, <1>3, <1>4 DEF Tables
  <1> HIDE DEF new
  <1>6. There(new) = There(old) \ {c} /\ There(new) \subseteq Chan /\ Channels(u) = There(new)
    BY <1>3, <1>5 DEF There, Channels
  <1>7. Closed(new)
    BY <1>3, <1>5, <1>6 DEF Closed, Constraints
  <1>8. ASSUME NEW d \in There(new)
        PROVE  /\ d \in Chan /\ d \in There(old) /\ new[d] = old[d]
               /\ ~Endless(new, d) /\ CompleteName(new, d) = CompleteName(old, d)
    <2>1. d \in Chan /\ d \in There(old) /\ d # c /\ ~Endless(old, d)
      BY <1>1, <1>6 DEF Tree
    <2>2. ToSet(Chain(new, d)) \subseteq There(new)
      BY <1>7, ChainThere
    <2>3. \A e \in ToSet(Chain(new, d)) : e \in Chan /\ e # c
      BY <1>6, <2>2
    <2>4. \A e \in ToSet(Chain(new, d)) : old[e].parent = new[e].parent /\ old[e].name = new[e].name
      BY <1>3, <2>3
    <2> QED BY <1>1, <1>3, <2>1, <2>4, ChainSame, NameSame
  <1>9. Tree(new)
    BY <1>1, <1>6, <1>7, <1>8 DEF Tree
  <1>10. NamesOk(new)
    BY <1>1, <1>8 DEF NamesOk
  <1>11. FuncsOk(u)
    <2>1. \A r \in FuncRow : s.func[r] # NoFunc => s.func[r].channel \in There(new)
      BY <1>5, <1>6 DEF Constraints
    <2> QED BY <1>1, <1>5, <1>8, <2>1 DEF FuncsOk
  <1> QED BY <1>5, <1>9, <1>10, <1>11

-----------------------------------------------------------------------------
(* Transactions.                                                           *)

\* The tables are sound, and a transaction sees channels and functions as they are.
RegistrySound ==
    /\ Sound(db)
    /\ snap \in [Session -> Tables \cup {NoSnap}]
    /\ \A t \in Session : snap[t] # NoSnap => snap[t].chan = db.chan /\ snap[t].func = db.func

\* One transaction at a time.
NoOverlap == \A t, u \in Session : snap[t] # NoSnap /\ snap[u] # NoSnap => t = u

\* Rows of a transaction, and rows of others.
LEMMA MergedType ==
    ASSUME NEW t, NEW new, NEW table, NEW D, NEW R, new[table] \in [D -> R], db[table] \in [D -> R]
    PROVE  Merged(t, new, table) \in [D -> R]
  <1>1. DOMAIN new[table] = D /\ \A x \in D : new[table][x] \in R /\ db[table][x] \in R
    OBVIOUS
  <1>2. Merged(t, new, table) =
          [x \in D |-> IF new[table][x] # snap[t][table][x] THEN new[table][x] ELSE db[table][x]]
    BY <1>1 DEF Merged
  <1> QED BY <1>1, <1>2

\* What a transaction commits is there afterwards, and it is over.
LEMMA CommitIs ==
    ASSUME RegistrySound, NEW t \in Session, snap[t] # NoSnap, NEW new \in Tables, Commit(t, new)
    PROVE  /\ db' \in Tables /\ db'.chan = new.chan /\ db'.func = new.func
           /\ Constraints(db')
           /\ snap' = [snap EXCEPT ![t] = NoSnap]
  <1>1. db \in Tables /\ snap[t] \in Tables /\ snap[t].chan = db.chan /\ snap[t].func = db.func
    BY DEF RegistrySound, Sound
  <1>2. DOMAIN db = {"chan", "func", "job"}
    BY <1>1 DEF Tables
  <1>3. db' = [table \in {"chan", "func", "job"} |-> Merged(t, new, table)]
    BY <1>2 DEF Commit
  <1>4. /\ db["chan"] \in [Chan -> Row] /\ new["chan"] \in [Chan -> Row] /\ snap[t]["chan"] = db["chan"]
        /\ db["func"] \in [FuncRow -> FuncRows] /\ new["func"] \in [FuncRow -> FuncRows] /\ snap[t]["func"] = db["func"]
        /\ db["job"] \in [Job -> JobRows] /\ new["job"] \in [Job -> JobRows]
    BY <1>1 DEF Tables, Table
  <1>5. /\ Merged(t, new, "chan") = new["chan"]
        /\ Merged(t, new, "func") = new["func"]
        /\ Merged(t, new, "job") \in [Job -> JobRows]
    <2>1. Merged(t, new, "chan") = new["chan"]
      <3>1. db["chan"] \in [Chan -> Row] /\ new["chan"] \in [Chan -> Row] /\ snap[t]["chan"] = db["chan"]
        BY <1>4
      <3>2. /\ Merged(t, new, "chan") = [x \in DOMAIN new["chan"] |->
                    IF new["chan"][x] # snap[t]["chan"][x] THEN new["chan"][x] ELSE db["chan"][x]]
        BY DEF Merged
      <3>3. new["chan"] = [x \in Chan |-> new["chan"][x]] /\ DOMAIN new["chan"] = Chan
        BY <3>1
      <3> QED BY ONLY <3>1, <3>2, <3>3
    <2>2. Merged(t, new, "func") = new["func"]
      <3>1. db["func"] \in [FuncRow -> FuncRows] /\ new["func"] \in [FuncRow -> FuncRows] /\ snap[t]["func"] = db["func"]
        BY <1>4
      <3>2. /\ Merged(t, new, "func") = [x \in DOMAIN new["func"] |->
                    IF new["func"][x] # snap[t]["func"][x] THEN new["func"][x] ELSE db["func"][x]]
        BY DEF Merged
      <3>3. new["func"] = [x \in FuncRow |-> new["func"][x]] /\ DOMAIN new["func"] = FuncRow
        BY <3>1
      <3> QED BY ONLY <3>1, <3>2, <3>3
    <2>3. Merged(t, new, "job") \in [Job -> JobRows]
      BY <1>4, MergedType
    <2> QED BY <2>1, <2>2, <2>3
  <1>6. db' = [chan |-> Merged(t, new, "chan"), func |-> Merged(t, new, "func"), job |-> Merged(t, new, "job")]
    BY <1>3
  <1>7. new["chan"] = new.chan /\ new["func"] = new.func
    OBVIOUS
  <1>8. db' \in Tables /\ db'.chan = new.chan /\ db'.func = new.func
    BY <1>4, <1>5, <1>6, <1>7 DEF Tables, Table
  <1> QED BY <1>8 DEF Commit

\* A transaction that commits sound tables leaves them sound.
LEMMA CommitKeeps ==
    ASSUME RegistrySound, NoOverlap, NEW t \in Session, snap[t] # NoSnap, NEW new, Sound(new), Commit(t, new)
    PROVE  RegistrySound'
  <1>1. new \in Tables /\ Tree(new.chan) /\ NamesOk(new.chan) /\ FuncsOk(new)
    BY DEF Sound
  <1>2. /\ db' \in Tables /\ db'.chan = new.chan /\ db'.func = new.func
        /\ snap' = [snap EXCEPT ![t] = NoSnap]
    BY <1>1, CommitIs
  <1>3. Sound(db')
    BY <1>1, <1>2 DEF Sound, FuncsOk
  <1>4. snap \in [Session -> Tables \cup {NoSnap}]
    BY DEF RegistrySound
  <1>5. snap' \in [Session -> Tables \cup {NoSnap}] /\ \A u \in Session : snap'[u] = NoSnap
    BY <1>2, <1>4 DEF NoOverlap
  <1> QED BY <1>3, <1>5 DEF RegistrySound

\* The constraints are about channels and functions.
LEMMA ConstraintsOf ==
    ASSUME NEW s, NEW u, s.chan = u.chan, s.func = u.func
    PROVE  Constraints(s) <=> Constraints(u)
BY DEF Constraints, Channels

\* No transaction has begun, and there is the root.
LEMMA RegistryStarts == RegistryInit => RegistrySound
  <1> SUFFICES ASSUME RegistryInit PROVE RegistrySound
    OBVIOUS
  <1> DEFINE chan == [c \in Chan |-> IF c = ChannelRoot
                                     THEN [name |-> RootName, parent |-> NoChan, complete |-> <<RootName>>] ELSE Gone]
             func == [r \in FuncRow |-> NoFunc]
             job == [j \in Job |-> NoJob]
  <1>1. db = [chan |-> chan, func |-> func, job |-> job]
    BY DEF RegistryInit
  <1>2. Gone \in Row /\ NoFunc \in FuncRows /\ NoJob \in JobRows
    BY DEF Gone, NoFunc, NoJob, Row, FuncRows, JobRows, Names
  <1>3. [name |-> RootName, parent |-> NoChan, complete |-> <<RootName>>] \in Row
    <2>1. <<RootName>> \in Seq(Names)
      BY DEF Names
    <2> QED BY <2>1 DEF Row, Names
  <1>4. chan \in Table /\ func \in [FuncRow -> FuncRows] /\ job \in [Job -> JobRows]
    BY <1>2, <1>3 DEF Table
  <1>5. db \in Tables /\ db.chan = chan /\ db.func = func
    <2> HIDE DEF chan, func, job
    <2> QED BY <1>1, <1>4 DEF Tables
  <1>6. There(chan) = {ChannelRoot} /\ chan[ChannelRoot].name = RootName /\ chan[ChannelRoot].parent = NoChan /\ chan[ChannelRoot].complete = <<RootName>>
    BY MostFacts DEF There, Gone
  <1>7. CompleteName(chan, ChannelRoot) = <<RootName>> /\ ~Endless(chan, ChannelRoot)
    <2> HIDE DEF chan
    <2> QED BY <1>4, <1>6, MostFacts, NameOfRoot, ChainOfRoot
  <1>8. Closed(chan) /\ Tree(chan) /\ NamesOk(chan)
    <2> HIDE DEF chan
    <2> QED BY <1>4, <1>6, <1>7, MostFacts DEF Closed, Tree, NamesOk
  <1>9. FuncsOk(db)
    BY <1>5 DEF FuncsOk
  <1>10. Sound(db)
    BY <1>5, <1>8, <1>9 DEF Sound
  <1>11. snap = [t \in Session |-> NoSnap]
    BY DEF RegistryInit
  <1> QED BY <1>10, <1>11 DEF RegistrySound

\* What a transaction sees is sound.
LEMMA SeenSound ==
    ASSUME RegistrySound, NEW t \in Session, snap[t] # NoSnap
    PROVE  Sound(snap[t]) /\ snap[t].chan = db.chan /\ snap[t].func = db.func
  <1>1. snap[t].chan = db.chan /\ snap[t].func = db.func /\ Sound(db) /\ snap[t] \in Tables
    BY DEF RegistrySound
  <1> QED BY <1>1 DEF Sound, FuncsOk

\* So that does not commit.
LEMMA SecondRootFails ==
    ASSUME RegistrySound, NEW t \in Session, snap[t] # NoSnap, NEW c \in Chan, c # ChannelRoot, NEW u \in Tables,
           u.chan[c].name = RootName, u.chan[c].parent = NoChan, \A d \in Chan : d # c => u.chan[d] = snap[t].chan[d]
    PROVE  ~Commit(t, Named(u, c))
  <1>1. ~Constraints(Named(u, c))
    BY SeenSound, SecondRoot
  <1>2. Named(u, c) \in Tables
    BY NamedType
  <1>3. Commit(t, Named(u, c)) => /\ db'.chan = Named(u, c).chan /\ db'.func = Named(u, c).func
                                  /\ Constraints(db')
    BY <1>2, CommitIs
  <1> QED BY <1>1, <1>3, ConstraintsOf

\* Changes of channels: no parent means a second root, which the constraint refuses.
LEMMA ChannelsKeep ==
    ASSUME RegistrySound, NoOverlap, NEW t \in Session,
           NEW name \in Part \cup {RootName}, NEW parent \in Chan \cup {NoChan}, NEW c \in Chan,
           CreateChannel(t, name, parent) \/ WriteChannel(t, c, name, parent) \/ UnlinkChannel(t, c)
    PROVE  RegistrySound'
  <1>1. snap[t] # NoSnap
    BY DEF CreateChannel, WriteChannel, UnlinkChannel
  <1> DEFINE s == snap[t]
  <1>2. Sound(s) /\ s \in Tables /\ Tree(s.chan) /\ Channels(s) = There(s.chan)
    BY <1>1, SeenSound DEF Sound, Channels, There
  <1>3. CASE CreateChannel(t, name, parent)
    <2> DEFINE u(d) == [s EXCEPT !.chan[d] = [name |-> name, parent |-> parent, complete |-> <<>>]]
    <2>1. PICK d \in Fresh(s) : Commit(t, Named(u(d), d))
      BY <1>3 DEF CreateChannel
    <2>2. d \in Chan /\ d \notin There(s.chan) /\ d # ChannelRoot
      BY <1>2 DEF Fresh, Tree
    <2> DEFINE row == [name |-> name, parent |-> parent, complete |-> <<>>]
    <2>3. row \in Row /\ row.name = name /\ row.parent = parent
      BY DEF Row, Names
    <2>4. u(d) = [s EXCEPT !.chan = [s.chan EXCEPT ![d] = row]]
      BY <1>2 DEF Tables
    <2> HIDE DEF row, u
    <2>5. /\ u(d) \in Tables /\ u(d).chan[d] = row /\ \A e \in Chan : e # d => u(d).chan[e] = s.chan[e]
          /\ u(d).func = s.func /\ u(d).job = s.job
      BY <1>2, <2>2, <2>3, <2>4 DEF Tables, Table
    <2>6. CASE parent \in There(s.chan)
      <3>1. Sound(Named(u(d), d))
        <4> HIDE DEF s
        <4> QED BY <1>2, <2>2, <2>5, <2>6, Added DEF row
      <3> QED BY <1>1, <2>1, <3>1, CommitKeeps
    <2>7. CASE parent \notin There(s.chan)
      <3>1. parent = NoChan /\ name = RootName
        BY <1>2, <1>3, <2>7 DEF CreateChannel, ParentRequired
      <3>2. u(d).chan[d].name = RootName /\ u(d).chan[d].parent = NoChan
        BY <2>3, <2>5, <3>1
      <3> QED BY <1>1, <1>2, <2>1, <2>2, <2>5, <3>2, SecondRootFails
    <2> QED BY <2>6, <2>7
  <1>4. CASE WriteChannel(t, c, name, parent)
    <2> DEFINE u == [s EXCEPT !.chan[c].name = name, !.chan[c].parent = parent]
    <2>1. /\ Commit(t, Named(u, c)) /\ \A d \in Below(u, c) : ~Endless(u.chan, d)
          /\ c \in There(s.chan) /\ c # ChannelRoot
          /\ parent \in There(s.chan) \cup {NoChan} /\ (name = RootName \/ parent # NoChan)
      BY <1>2, <1>4 DEF WriteChannel, ParentRequired, Tree
    <2>2. CASE parent \in There(s.chan)
      <3>1. Sound(Named(u, c))
        <4> HIDE DEF s
        <4> QED BY <1>2, <2>1, <2>2, Rewritten
      <3> QED BY <1>1, <2>1, <3>1, CommitKeeps
    <2>3. CASE parent \notin There(s.chan)
      <3>1. parent = NoChan /\ name = RootName
        BY <2>1, <2>3
      <3>2. u \in Tables /\ u.chan[c].name = RootName /\ u.chan[c].parent = NoChan
            /\ \A e \in Chan : e # c => u.chan[e] = s.chan[e]
        <4> DEFINE row == [s.chan[c] EXCEPT !.name = name, !.parent = parent]
        <4>1. s.chan[c] \in Row /\ s = [chan |-> s.chan, func |-> s.func, job |-> s.job]
              /\ s.chan \in Table /\ s.func \in [FuncRow -> FuncRows] /\ s.job \in [Job -> JobRows]
          BY <1>2 DEF Tables, Table
        <4>2. row \in Row /\ row.name = RootName /\ row.parent = NoChan
          BY <3>1, <4>1 DEF Row, Names
        <4>3. u = [s EXCEPT !.chan = [s.chan EXCEPT ![c] = row]]
          BY <4>1 DEF Table
        <4> HIDE DEF row, s
        <4>4. u = [chan |-> [s.chan EXCEPT ![c] = row], func |-> s.func, job |-> s.job]
          BY <4>1, <4>3
        <4>5. [s.chan EXCEPT ![c] = row] \in Table
          BY <4>1, <4>2 DEF Table
        <4> HIDE DEF u
        <4> QED BY <4>1, <4>2, <4>4, <4>5 DEF Tables, Table
      <3> HIDE DEF u
      <3> QED BY <1>1, <1>2, <2>1, <3>2, SecondRootFails
    <2> QED BY <2>2, <2>3
  <1>5. CASE UnlinkChannel(t, c)
    <2> DEFINE u == [s EXCEPT !.chan[c] = Gone]
    <2>1. c \in There(s.chan) /\ c # ChannelRoot /\ Commit(t, u)
      BY <1>2, <1>5 DEF UnlinkChannel, Tree
    <2>2. u \in Tables
      <3>1. s = [chan |-> s.chan, func |-> s.func, job |-> s.job] /\ s.chan \in Table
            /\ s.func \in [FuncRow -> FuncRows] /\ s.job \in [Job -> JobRows]
        BY <1>2 DEF Tables
      <3>2. Gone \in Row
        BY DEF Gone, Row, Names
      <3>3. [s.chan EXCEPT ![c] = Gone] \in Table
        BY <3>1, <3>2 DEF Table
      <3> HIDE DEF s
      <3> QED BY <3>1, <3>3 DEF Tables
    <2> HIDE DEF u
    <2>3. db'.chan = u.chan /\ db'.func = u.func /\ Constraints(db')
      BY <1>1, <2>1, <2>2, CommitIs
    <2>4. Constraints(u)
      BY <2>3, ConstraintsOf
    <2>5. Sound(u)
      <3> HIDE DEF s
      <3> QED BY <1>2, <2>1, <2>4, Removed DEF Sound, u
    <2> QED BY <1>1, <2>1, <2>5, CommitKeeps
  <1> QED BY <1>3, <1>4, <1>5

-----------------------------------------------------------------------------
(* Functions and jobs.                                                     *)

\* Where _find_or_create_channel may be: at a channel, or at the bound.
Searching(s) ==
    {x \in [s : Tables, c : Chan \cup {NoChan}] :
        /\ Sound(x.s) /\ x.s.job = s.job
        /\ x.c \in There(x.s.chan) \/ (x.c = NoChan /\ Fresh(x.s) = {})
        /\ \A r \in FuncRow : s.func[r] = NoFunc => x.s.func[r] = NoFunc}

\* Each turn of its loop stays there.
LEMMA TurnSearches ==
    ASSUME NEW s, NEW x \in Searching(s), NEW part \in Part
    PROVE  FindOrCreate(x, part) \in Searching(s)
  <1>1. /\ x = [s |-> x.s, c |-> x.c] /\ x.c \in Chan \cup {NoChan} /\ Sound(x.s) /\ x.s.job = s.job
        /\ x.c \in There(x.s.chan) \/ (x.c = NoChan /\ Fresh(x.s) = {})
        /\ \A r \in FuncRow : s.func[r] = NoFunc => x.s.func[r] = NoFunc
        /\ x.s \in Tables /\ Tree(x.s.chan) /\ Channels(x.s) = There(x.s.chan)
    BY DEF Searching, Sound, Channels, There
  <1> DEFINE sub == Subchannels(x.s, x.c, part)
             c == CHOOSE d \in Fresh(x.s) : TRUE
             u == [x.s EXCEPT !.chan[c] = [name |-> part, parent |-> x.c, complete |-> <<>>]]
  <1>2. sub \subseteq There(x.s.chan) /\ There(x.s.chan) \subseteq Chan
    BY <1>1 DEF Subchannels, There
  <1>3. CASE sub # {}
    <2> DEFINE d == CHOOSE d \in sub : TRUE
    <2>1. d \in sub
      BY <1>3
    <2>2. FindOrCreate(x, part) = [x EXCEPT !.c = d]
      BY <1>3 DEF FindOrCreate
    <2> HIDE DEF d, sub
    <2>3. [x EXCEPT !.c = d] = [s |-> x.s, c |-> d]
      BY <1>1
    <2>4. d \in There(x.s.chan) /\ d \in Chan
      BY <1>2, <2>1
    <2> QED BY <1>1, <2>2, <2>3, <2>4 DEF Searching
  <1>4. CASE sub = {} /\ Fresh(x.s) = {}
    <2>1. FindOrCreate(x, part) = [x EXCEPT !.c = NoChan]
      BY <1>4 DEF FindOrCreate
    <2>2. [x EXCEPT !.c = NoChan] = [s |-> x.s, c |-> NoChan]
      BY <1>1
    <2> QED BY <1>1, <1>4, <2>1, <2>2 DEF Searching
  <1>5. CASE sub = {} /\ Fresh(x.s) # {}
    <2>1. c \in Fresh(x.s)
      BY <1>5
    <2>2. FindOrCreate(x, part) = [s |-> Named(u, c), c |-> c]
      BY <1>5 DEF FindOrCreate
    <2>3. c \in Chan /\ c \notin There(x.s.chan) /\ x.c \in There(x.s.chan)
      BY <1>1, <1>5, <2>1 DEF Fresh
    <2> HIDE DEF c
    <2>4. /\ Sound(Named(u, c)) /\ There(Named(u, c).chan) = There(x.s.chan) \cup {c}
          /\ Named(u, c).job = x.s.job
          /\ \A r \in FuncRow : x.s.func[r] = NoFunc => Named(u, c).func[r] = NoFunc
      <3> DEFINE y == x.s
                 row == [name |-> part, parent |-> x.c, complete |-> <<>>]
      <3>1. /\ Sound(y) /\ c \in Chan /\ c \notin There(y.chan) /\ x.c \in There(y.chan)
            /\ part \in Part \cup {RootName} /\ y \in Tables /\ x.c \in Chan
        BY <1>1, <1>2, <2>3
      <3>2. row \in Row
        BY <3>1 DEF Row, Names
      <3>3. u = [y EXCEPT !.chan = [y.chan EXCEPT ![c] = row]]
        BY <3>1 DEF Tables
      <3> HIDE DEF y, u, row
      <3>4. /\ u \in Tables /\ u.chan[c] = row /\ \A d \in Chan : d # c => u.chan[d] = y.chan[d]
            /\ u.func = y.func /\ u.job = y.job
        BY <3>1, <3>2, <3>3 DEF Tables, Table
      <3>5. /\ Sound(Named(u, c)) /\ There(Named(u, c).chan) = There(y.chan) \cup {c}
            /\ Named(u, c).job = y.job
            /\ \A r \in FuncRow : y.func[r] = NoFunc => Named(u, c).func[r] = NoFunc
        BY <3>1, <3>4, Added DEF row
      <3> QED BY <3>5 DEF y
    <2> DEFINE v == Named(u, c)
    <2>5. v \in Tables
      BY <2>4 DEF Sound
    <2> HIDE DEF v
    <2> QED BY <1>1, <2>2, <2>3, <2>4, <2>5 DEF Searching, v
  <1> QED BY <1>3, <1>4, <1>5

\* So the loop ends in sound tables with a channel for the function, or at the bound.
LEMMA FoundSearches ==
    ASSUME NEW s, Sound(s), NEW root \in There(s.chan), NEW path \in Seq(Part)
    PROVE  Found(s, root, path) \in Searching(s)
  <1> DEFINE n == Len(path)
             T == Searching(s)
             base == [s |-> s, c |-> root]
             step == [q \in 1 .. n |-> [x \in T |-> FindOrCreate(x, path[q])]]
             Own(g) == g = [q \in 0 .. n |-> IF q = 0 THEN base ELSE FindOrCreate(g[q-1], path[q])]
  <1>1. n \in Nat /\ \A q \in 1 .. n : path[q] \in Part
    OBVIOUS
  <1>2. base \in T
    BY DEF Searching, Sound, There
  <1>3. step \in [1 .. n -> [T -> T]]
    BY <1>1, TurnSearches
  <1>4. PICK f : Along(f, n, T, base, step)
    <2> HIDE DEF n, T, base, step
    <2> QED BY <1>1, <1>2, <1>3, StepsExist
  <1>5. f \in [0 .. n -> T] /\ f[0] = base /\ \A q \in 1 .. n : f[q-1] \in T /\ f[q] = FindOrCreate(f[q-1], path[q])
    <2>1. f \in [0 .. n -> T] /\ f[0] = base /\ \A q \in 1 .. n : f[q] = step[q][f[q-1]]
      <3> HIDE DEF step, T, base, n
      <3> QED BY <1>4 DEF Along
    <2>2. \A q \in 1 .. n : q-1 \in 0 .. n
      BY <1>1
    <2>3. \A q \in 1 .. n : f[q-1] \in T
      BY <2>1, <2>2
    <2> QED BY <2>1, <2>3
  <1> HIDE DEF T, base
  <1>6. Own(f)
    <2>1. f = [q \in 0 .. n |-> f[q]]
      BY <1>5
    <2>2. \A q \in 0 .. n : q # 0 => q \in 1 .. n
      BY <1>1
    <2>3. \A q \in 0 .. n : f[q] = IF q = 0 THEN base ELSE FindOrCreate(f[q-1], path[q])
      BY <1>5, <2>2
    <2> QED BY <2>1, <2>3
  <1>7. Own(CHOOSE g : Own(g)) /\ Found(s, root, path) = (CHOOSE g : Own(g))[n]
    <2>1. Own(CHOOSE g : Own(g))
      <3> HIDE DEF Own
      <3> QED BY <1>6
    <2> QED BY <2>1 DEF Found, base
  <1>8. ASSUME NEW g, Own(g) PROVE g[n] = f[n]
    <2>1. \A q \in 0 .. n : g[q] = IF q = 0 THEN base ELSE FindOrCreate(g[q-1], path[q])
      BY <1>8
    <2>2. 0 \in 0 .. n /\ \A q \in 1 .. n : q \in 0 .. n /\ q # 0
      BY <1>1
    <2>3. g[0] = f[0] /\ \A q \in 1 .. n : g[q] = FindOrCreate(g[q-1], path[q])
      BY <1>5, <2>1, <2>2
    <2>4. Together(g, f, n)
      BY <1>5, <2>3 DEF Together
    <2> HIDE DEF n
    <2> QED BY <1>1, <2>4, StepsUnique
  <1>9. n \in 0 .. n
    BY <1>1
  <1> HIDE DEF Own
  <1> QED BY <1>5, <1>7, <1>8, <1>9 DEF T

\* A row of a function in a sound tree.
LEMMA RowKeeps ==
    ASSUME NEW s, Sound(s), NEW r \in FuncRow, NEW name \in Func \cup {NoName}, NEW c \in There(s.chan),
           NEW u, u.chan = s.chan,
           u.func = [s.func EXCEPT ![r] = [name |-> name, channel |-> c, path |-> s.chan[c].complete]],
           u \in Tables
    PROVE  Sound(u)
  <1> DEFINE row == [name |-> name, channel |-> c, path |-> s.chan[c].complete]
  <1>1. s.func \in [FuncRow -> FuncRows] /\ Tree(s.chan) /\ NamesOk(s.chan) /\ FuncsOk(s)
    BY DEF Sound, Tables
  <1>2. u.func[r] = row /\ \A q \in FuncRow : q # r => u.func[q] = s.func[q]
    BY <1>1
  <1>3. row.channel = c /\ row.path = s.chan[c].complete
    OBVIOUS
  <1> HIDE DEF row
  <1>4. FuncsOk(u)
    <2> SUFFICES ASSUME NEW q \in FuncRow, u.func[q] # NoFunc
                 PROVE  u.func[q].channel \in There(u.chan) /\ u.func[q].path = u.chan[u.func[q].channel].complete
      BY DEF FuncsOk
    <2>1. CASE q = r
      BY <1>2, <1>3, <2>1
    <2>2. CASE q # r
      BY <1>1, <1>2, <2>2 DEF FuncsOk
    <2> QED BY <2>1, <2>2
  <1> QED BY <1>1, <1>4 DEF Sound

\* Registering a function, with the channels on the way to its own.
LEMMA RegisterKeeps ==
    ASSUME RegistrySound, NoOverlap, NEW t \in Session, NEW f \in Func, RegisterJob(t, f)
    PROVE  RegistrySound'
  <1> DEFINE s == snap[t]
             RowFor(found) == [name |-> f, channel |-> found.c, path |-> found.s.chan[found.c].complete]
  <1>1. PICK root \in Chan, r \in FuncRow :
          /\ snap[t] # NoSnap /\ NamedRoot(s) = {root} /\ s.func[r] = NoFunc
          /\ Found(s, root, Default[f]).c # NoChan
          /\ Commit(t, [Found(s, root, Default[f]).s EXCEPT !.func[r] = RowFor(Found(s, root, Default[f]))])
    BY DEF RegisterJob
  <1>2. Sound(s)
    BY <1>1, SeenSound
  <1>3. root \in There(s.chan)
    BY <1>1 DEF NamedRoot, Channels, There
  <1>4. Default[f] \in Seq(Part)
    BY ChannelRegistryAssumption DEF ChannelRegistryAssumption
  <1> DEFINE x == Found(s, root, Default[f])
  <1>5. x \in Searching(s)
    <2> HIDE DEF s
    <2> QED BY <1>2, <1>3, <1>4, FoundSearches
  <1> HIDE DEF x
  <1>6. /\ x.s \in Tables /\ Sound(x.s) /\ x.c \in There(x.s.chan) /\ x.c # NoChan /\ x.c \in Chan
        /\ Commit(t, [x.s EXCEPT !.func[r] = RowFor(x)])
    BY <1>1, <1>5 DEF Searching, x, There
  <1> DEFINE y == x.s
             row == RowFor(x)
             u == [y EXCEPT !.func[r] = row]
  <1>7. y.chan[x.c].complete \in Seq(Names)
    BY <1>6 DEF Tables, Table, Row
  <1>8. row \in FuncRows
    BY <1>6, <1>7 DEF FuncRows
  <1>9. row = [name |-> f, channel |-> x.c, path |-> y.chan[x.c].complete]
    OBVIOUS
  <1>10. y = [chan |-> y.chan, func |-> y.func, job |-> y.job] /\ y.chan \in Table
         /\ y.func \in [FuncRow -> FuncRows] /\ y.job \in [Job -> JobRows]
    BY <1>6 DEF Tables
  <1>11. Commit(t, u) /\ Sound(y) /\ x.c \in There(y.chan)
    BY <1>6
  <1> HIDE DEF y, row
  <1>12. u.chan = y.chan /\ u.func = [y.func EXCEPT ![r] = row] /\ u \in Tables
    BY <1>8, <1>10 DEF Tables
  <1> HIDE DEF u
  <1>13. Sound(u)
    BY <1>9, <1>11, <1>12, RowKeeps
  <1> QED BY <1>1, <1>11, <1>13, CommitKeeps

\* A function gets another channel, and its jobs with it.
LEMMA SetKeeps ==
    ASSUME RegistrySound, NoOverlap, NEW t \in Session, NEW r \in FuncRow, NEW c \in Chan, SetFunctionChannel(t, r, c)
    PROVE  RegistrySound'
  <1> DEFINE s == snap[t]
             path == s.chan[c].complete
             changed == [j \in Job |-> IF s.job[j].func = r /\ ~s.job[j].overridden
                                    THEN [s.job[j] EXCEPT !.channel = path] ELSE s.job[j]]
             u == [s EXCEPT !.func[r].channel = c, !.func[r].path = path, !.job = changed]
             row == [name |-> s.func[r].name, channel |-> c, path |-> path]
  <1>1. s # NoSnap /\ c \in Channels(s) /\ Commit(t, u)
    BY DEF SetFunctionChannel
  <1>2. Sound(s) /\ c \in There(s.chan)
    BY <1>1, SeenSound DEF Channels, There
  <1>3. s = [chan |-> s.chan, func |-> s.func, job |-> s.job] /\ s.chan \in Table
        /\ s.func \in [FuncRow -> FuncRows] /\ s.job \in [Job -> JobRows]
    BY <1>2 DEF Sound, Tables
  <1>4. path \in Seq(Names)
    BY <1>3 DEF Table, Row
  <1>5. s.func[r] \in FuncRows /\ s.func[r].name \in Func \cup {NoName} /\ row \in FuncRows
        /\ [s.func[r] EXCEPT !.channel = c, !.path = path] = row
    <2> DEFINE old == s.func[r]
    <2>1. old \in FuncRows
      BY <1>3
    <2> HIDE DEF s, path, old
    <2>2. old.name \in Func \cup {NoName} /\ [old EXCEPT !.channel = c, !.path = path] = [name |-> old.name, channel |-> c, path |-> path]
      <3>1. old.name \in Func \cup {NoName}
        BY <2>1 DEF FuncRows
      <3> DEFINE new == [old EXCEPT !.channel = c, !.path = path]
      <3>2. new \in FuncRows /\ new.name = old.name /\ new.channel = c /\ new.path = path
        BY <1>4, <2>1 DEF FuncRows
      <3> HIDE DEF new
      <3>3. new = [name |-> new.name, channel |-> new.channel, path |-> new.path]
        BY <3>2 DEF FuncRows
      <3> QED BY <3>1, <3>2, <3>3 DEF new
    <2>3. [name |-> old.name, channel |-> c, path |-> path] \in FuncRows
      BY <1>4, <2>2 DEF FuncRows
    <2> QED BY <2>1, <2>2, <2>3 DEF old
  <1>6. changed \in [Job -> JobRows]
    <2> SUFFICES ASSUME NEW j \in Job PROVE changed[j] \in JobRows
      OBVIOUS
    <2>1. s.job[j] \in JobRows
      BY <1>3
    <2> HIDE DEF path, s
    <2> QED BY <1>4, <2>1 DEF JobRows
  <1>7. u = [chan |-> s.chan, func |-> [s.func EXCEPT ![r] = row], job |-> changed]
    <2>1. u = [s EXCEPT !.func = [s.func EXCEPT ![r] = [s.func[r] EXCEPT !.channel = c, !.path = path]], !.job = changed]
      <3> HIDE DEF changed, path, s
      <3> QED BY <1>3
    <2>2. u = [s EXCEPT !.func = [s.func EXCEPT ![r] = row], !.job = changed]
      <3> HIDE DEF changed, path, s, row, u
      <3> QED BY <1>5, <2>1
    <2> HIDE DEF changed, path, s, row, u
    <2> QED BY <1>3, <2>2
  <1>8. u.chan = s.chan /\ u.func = [s.func EXCEPT ![r] = row] /\ u \in Tables
    <2> HIDE DEF changed, row, s
    <2> QED BY <1>3, <1>5, <1>6, <1>7 DEF Tables
  <1> HIDE DEF u, changed
  <1>9. Sound(u)
    <2> HIDE DEF s
    <2> QED BY <1>2, <1>5, <1>8, RowKeeps DEF row
  <1> QED BY <1>1, <1>9, CommitKeeps

\* A transaction that writes only jobs.
LEMMA JobsKeep ==
    ASSUME RegistrySound, NoOverlap, NEW t \in Session, snap[t] # NoSnap, NEW changed \in [Job -> JobRows],
           Commit(t, [snap[t] EXCEPT !.job = changed])
    PROVE  RegistrySound'
  <1> DEFINE s == snap[t]
             u == [s EXCEPT !.job = changed]
  <1>1. Sound(s) /\ s \in Tables
    BY SeenSound DEF Sound
  <1>2. u \in Tables /\ u.chan = s.chan /\ u.func = s.func
    BY <1>1 DEF Tables
  <1>3. Sound(u)
    <2> HIDE DEF u, s
    <2> QED BY <1>1, <1>2 DEF Sound, FuncsOk
  <1> QED BY <1>3, CommitKeeps

\* Jobs are delayed, edited, vacuumed.
LEMMA UsesKeep ==
    ASSUME RegistrySound, NoOverlap, NEW t \in Session, UseJobs(t) \/ Autovacuum(t)
    PROVE  RegistrySound'
  <1> DEFINE s == snap[t]
  <1>1. s # NoSnap
    BY DEF UseJobs, Delay, EditJobChannel, Autovacuum
  <1>2. /\ s = [chan |-> s.chan, func |-> s.func, job |-> s.job] /\ s.chan \in Table
        /\ s.func \in [FuncRow -> FuncRows] /\ s.job \in [Job -> JobRows]
    BY <1>1, SeenSound DEF Sound, Tables
  <1>3. ASSUME NEW j \in Job, NEW row \in JobRows PROVE [s.job EXCEPT ![j] = row] \in [Job -> JobRows]
    BY <1>2
  <1>4. ASSUME NEW j \in Job, Delay(t, j) PROVE RegistrySound'
    <2>1. PICK r \in FuncRow, path \in Override \cup {<<>>} :
            Commit(t, [s EXCEPT !.job[j] = [state |-> "waiting", func |-> r, overridden |-> path # <<>>,
                            channel |-> IF path # <<>> THEN path ELSE s.func[r].path]])
      BY <1>4 DEF Delay
    <2> DEFINE row == [state |-> "waiting", func |-> r, overridden |-> path # <<>>,
                       channel |-> IF path # <<>> THEN path ELSE s.func[r].path]
    <2>2. row \in JobRows
      <3>1. s.func[r].path \in Seq(Names)
        BY <1>2 DEF FuncRows
      <3> HIDE DEF s
      <3> QED BY <3>1 DEF JobRows
    <2>3. Commit(t, [s EXCEPT !.job = [s.job EXCEPT ![j] = row]])
      BY <1>2, <2>1
    <2> HIDE DEF row
    <2> QED BY <1>1, <1>3, <2>2, <2>3, JobsKeep
  <1>5. ASSUME NEW j \in Job, NEW path \in Override, EditJobChannel(t, j, path) PROVE RegistrySound'
    <2> DEFINE row == [s.job[j] EXCEPT !.overridden = TRUE, !.channel = path]
    <2>1. Commit(t, [s EXCEPT !.job[j].overridden = TRUE, !.job[j].channel = path])
      BY <1>5 DEF EditJobChannel
    <2>2. row \in JobRows
      BY <1>2 DEF JobRows
    <2>3. Commit(t, [s EXCEPT !.job = [s.job EXCEPT ![j] = row]])
      BY <1>2, <2>1
    <2> HIDE DEF row
    <2> QED BY <1>1, <1>3, <2>2, <2>3, JobsKeep
  <1>6. ASSUME Autovacuum(t) PROVE RegistrySound'
    <2> DEFINE Due(j) == /\ s.job[j].state = "done"
                         /\ \E c \in Channels(s) : s.chan[c].complete = s.job[j].channel
               changed == [j \in Job |-> IF Due(j) THEN NoJob ELSE s.job[j]]
    <2>1. Commit(t, [s EXCEPT !.job = changed])
      BY <1>6 DEF Autovacuum
    <2>2. NoJob \in JobRows
      BY DEF NoJob, JobRows
    <2>3. changed \in [Job -> JobRows]
      <3> HIDE DEF Due
      <3> QED BY <1>2, <2>2
    <2> HIDE DEF changed
    <2> QED BY <1>1, <2>1, <2>3, JobsKeep
  <1> QED BY <1>4, <1>5, <1>6 DEF UseJobs

\* A job ends outside of these transactions, and they begin and fail.
LEMMA OthersKeep ==
    ASSUME RegistrySound,
           \/ \E t \in Session : Begin(t) \/ Rollback(t)
           \/ \E j \in Job : JobDone(j)
           \/ UNCHANGED rvars
    PROVE  RegistrySound'
  <1>1. /\ Sound(db) /\ db \in Tables /\ snap \in [Session -> Tables \cup {NoSnap}]
        /\ \A t \in Session : snap[t] # NoSnap => snap[t].chan = db.chan /\ snap[t].func = db.func
    BY DEF RegistrySound, Sound
  <1>2. ASSUME NEW t \in Session, Begin(t) PROVE RegistrySound'
    BY <1>1, <1>2 DEF Begin, RegistrySound
  <1>3. ASSUME NEW t \in Session, Rollback(t) PROVE RegistrySound'
    BY <1>1, <1>3 DEF Rollback, RegistrySound
  <1>4. ASSUME NEW j \in Job, JobDone(j) PROVE RegistrySound'
    <2>1. db' = [db EXCEPT !.job = [db.job EXCEPT ![j] = [db.job[j] EXCEPT !.state = "done"]]] /\ snap' = snap
      BY <1>1, <1>4 DEF JobDone, Tables
    <2>2. /\ db = [chan |-> db.chan, func |-> db.func, job |-> db.job] /\ db.chan \in Table
          /\ db.func \in [FuncRow -> FuncRows] /\ db.job \in [Job -> JobRows]
      BY <1>1 DEF Tables
    <2>3. [db.job[j] EXCEPT !.state = "done"] \in JobRows
      BY <2>2 DEF JobRows
    <2> DEFINE changed == [db.job EXCEPT ![j] = [db.job[j] EXCEPT !.state = "done"]]
    <2>4. changed \in [Job -> JobRows]
      BY <2>2, <2>3
    <2> HIDE DEF changed
    <2>5. db' \in Tables /\ db'.chan = db.chan /\ db'.func = db.func
      BY <2>1, <2>2, <2>4 DEF Tables, changed
    <2>6. Sound(db')
      BY <1>1, <2>5 DEF Sound, FuncsOk
    <2> QED BY <1>1, <2>1, <2>5, <2>6 DEF RegistrySound
  <1>5. ASSUME UNCHANGED rvars PROVE RegistrySound'
    BY <1>5 DEF RegistrySound, rvars
  <1> QED BY <1>2, <1>3, <1>4, <1>5

\* Every step.
LEMMA RegistryKeeps == NoOverlap /\ RegistrySound /\ [RegistryNext]_rvars => RegistrySound'
  <1> SUFFICES ASSUME NoOverlap, RegistrySound, [RegistryNext]_rvars PROVE RegistrySound'
    OBVIOUS
  <1>1. ASSUME NEW t \in Session, EditChannels(t) PROVE RegistrySound'
    <2>1. PICK name \in Part \cup {RootName}, parent \in Chan \cup {NoChan}, c \in Chan :
            CreateChannel(t, name, parent) \/ WriteChannel(t, c, name, parent) \/ UnlinkChannel(t, c)
      BY <1>1 DEF EditChannels
    <2> QED BY <2>1, ChannelsKeep
  <1>2. ASSUME NEW t \in Session, EditFunctions(t) PROVE RegistrySound'
    BY <1>2, RegisterKeeps, SetKeeps DEF EditFunctions
  <1>3. ASSUME NEW t \in Session, UseJobs(t) \/ Autovacuum(t) PROVE RegistrySound'
    BY <1>3, UsesKeep
  <1> QED BY <1>1, <1>2, <1>3, OthersKeep DEF RegistryNext

\* The inductive invariant, while transactions do not overlap.
THEOREM RegistryHolds == RegistrySpec /\ []NoOverlap => []RegistrySound
  <1> QED BY RegistryStarts, RegistryKeeps, PTL DEF RegistrySpec

\* While transactions do not overlap, the parents of every channel lead to the
\* root, whatever is created, renamed, moved, removed and registered, so that no
\* computation of a complete name runs forever; and the rows have their types.
THEOREM TreeStays == RegistrySpec /\ []NoOverlap => []RegistryInv
  <1>1. RegistrySound => RegistryInv
    <2> SUFFICES ASSUME RegistrySound PROVE RegistryInv
      OBVIOUS
    <2>1. /\ db \in Tables /\ Tree(db.chan) /\ FuncsOk(db) /\ Channels(db) = There(db.chan) /\ Closed(db.chan)
          /\ db.chan \in Table /\ db.func \in [FuncRow -> FuncRows] /\ db.job \in [Job -> JobRows]
      BY DEF RegistrySound, Sound, Tables, Channels, There, Tree
    <2>2. RegistryTypeOK
      <3>1. ASSUME NEW c \in Chan PROVE /\ db.chan[c].name \in Part \cup {RootName, NoName}
                                        /\ db.chan[c].parent \in Channels(db) \cup {NoChan}
        <4>1. db.chan[c] \in Row
          BY <2>1 DEF Table
        <4>2. c \notin There(db.chan) => db.chan[c] = Gone
          BY DEF There
        <4> QED BY <2>1, <4>1, <4>2 DEF Row, Names, Closed, Gone
      <3>2. ASSUME NEW r \in FuncRow PROVE /\ db.func[r].name \in Func \cup {NoName}
                                           /\ db.func[r].channel \in Channels(db) \cup {NoChan}
        <4>1. db.func[r] \in FuncRows
          BY <2>1
        <4> QED BY <2>1, <4>1 DEF FuncRows, FuncsOk, NoFunc
      <3>3. ASSUME NEW j \in Job PROVE db.job[j].state \in {"waiting", "done", NoName}
        <4>1. db.job[j] \in JobRows
          BY <2>1
        <4> QED BY <4>1 DEF JobRows
      <3> QED BY <3>1, <3>2, <3>3 DEF RegistryTypeOK
    <2>3. Rooted
      <3> SUFFICES ASSUME NEW c \in Channels(db) PROVE Head(Chain(db.chan, c)) = ChannelRoot
        BY DEF Rooted
      <3> DEFINE up == Chain(db.chan, c)
      <3>1. c \in There(db.chan) /\ c \in Chan /\ ~Endless(db.chan, c)
        BY <2>1 DEF There, Tree
      <3>2. Head(up) = up[1] /\ Len(up) \in Nat \ {0} /\ ToSet(up) = {up[i] : i \in 1 .. Len(up)}
        BY <2>1, <3>1, ChainType
      <3>3. up[1] \in ToSet(up)
        <4> HIDE DEF up
        <4>1. 1 \in 1 .. Len(up)
          BY <3>2
        <4> QED BY <3>2, <4>1
      <3>4. Head(up) \in There(db.chan)
        BY <2>1, <3>1, <3>2, <3>3, ChainThere
      <3> QED BY <2>1, <3>1, <3>4 DEF Endless, Tree
    <2> QED BY <2>2, <2>3 DEF RegistryInv
  <1> QED BY <1>1, RegistryHolds, PTL

\* While transactions do not overlap, stored names are the paths in the tree, and
\* functions have the names of their channels, after any renaming or moving above.
THEOREM NamesStay == RegistrySpec /\ []NoOverlap => []NamesArePaths
  <1>1. RegistrySound => NamesArePaths
    BY DEF RegistrySound, Sound, NamesOk, FuncsOk, NamesArePaths, Channels, There
  <1> QED BY <1>1, RegistryHolds, PTL
=============================================================================
