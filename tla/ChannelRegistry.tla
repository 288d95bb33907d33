-------------------------- MODULE ChannelRegistry --------------------------
(***************************************************************************)
(* queue.job.channel and queue.job.function (models/queue_job.py): the     *)
(* tree of channels, the functions that every load of the registry looks   *)
(* up or creates in it, and the channel that each job got from them.       *)
(*                                                                         *)
(* Users and loads work in transactions that read a snapshot.  One that    *)
(* writes a row which somebody else has changed since is rolled back, like *)
(* one that breaks a constraint of the database.                           *)
(***************************************************************************)
EXTENDS Naturals, FiniteSets, SequencesExt

CONSTANTS
    Chan, ChannelRoot,     \* bound: channels there may be; queue_job.channel_root
    NoChan,         \* no parent
    RootName, Part, \* "root"; the other names of channels
    Func, Default,  \* methods with @job, the parts of their default_channel below root
    FuncRow,        \* bound: rows of queue.job.function
    Job,            \* bound: jobs
    Override,       \* complete names given to with_delay or typed into a job's form
    Session,        \* transactions at the same time
    NoSnap

NoName == "none"

ASSUME ChannelRegistryAssumption ==
    /\ IsFiniteSet(Chan) /\ ChannelRoot \in Chan /\ NoChan \notin Chan
    /\ RootName \notin Part /\ NoName \notin Part \cup {RootName}
    /\ Default \in [Func -> Seq(Part)]

VARIABLES
    db,     \* the three tables
    snap    \* what each open transaction sees of them

rvars == <<db, snap>>

Gone == [name |-> NoName, parent |-> NoChan, complete |-> <<>>]
NoFunc == [name |-> NoName, channel |-> NoChan, path |-> <<>>]
NoJob == [state |-> NoName, func |-> NoName, overridden |-> FALSE, channel |-> <<>>]

Channels(s) == {c \in Chan : s.chan[c] # Gone}

-----------------------------------------------------------------------------
(* Complete names.                                                         *)

\* The channels from the root to c, as far as |Chan| steps up the parents lead.
Chain(chan, c) ==
    LET up[n \in 0 .. Cardinality(Chan)] ==
            IF n = 0 THEN <<c>>
            ELSE LET top == chan[Head(up[n-1])].parent
                 IN  IF top = NoChan THEN up[n-1] ELSE <<top>> \o up[n-1]
    IN  up[Cardinality(Chan)]

CompleteName(chan, c) == LET up == Chain(chan, c) IN [i \in DOMAIN up |-> chan[up[i]].name]

\* Among the parents of c is a cycle: _compute_complete_name never returns.
Endless(chan, c) == chan[Head(Chain(chan, c))].parent # NoChan

\* Mutant: the names of sub-channels are not computed again.
Mutant_Below(s, c) == {c}

Below(s, c) == {d \in Channels(s) : c \in ToSet(Chain(s.chan, d))}

\* The stored complete names of c, of what is below and of their functions.
Named(s, c) ==
    LET below == Below(s, c)
        chan == [d \in Chan |-> IF d \in below
                                THEN [s.chan[d] EXCEPT !.complete = CompleteName(s.chan, d)] ELSE s.chan[d]]
    IN  [s EXCEPT !.chan = chan,
                  !.func = [r \in FuncRow |-> IF s.func[r].channel \in below
                                              THEN [s.func[r] EXCEPT !.path = chan[s.func[r].channel].complete]
                                              ELSE s.func[r]]]

-----------------------------------------------------------------------------
(* Transactions.                                                           *)

Begin(t) ==
    /\ snap[t] = NoSnap
    /\ snap' = [snap EXCEPT ![t] = db]
    /\ UNCHANGED db

Unwritten(t, mine, theirs, x) == mine[x] # snap[t][theirs][x] => db[theirs][x] = snap[t][theirs][x]

Merged(t, new, table) ==
    [x \in DOMAIN new[table] |-> IF new[table][x] # snap[t][table][x] THEN new[table][x] ELSE db[table][x]]

\* unique(complete_name), and the foreign keys of parents and of functions.
Constraints(s) ==
    /\ \A c, d \in Channels(s) : s.chan[c].complete = s.chan[d].complete => c = d
    /\ \A c \in Channels(s) : s.chan[c].parent \in Channels(s) \cup {NoChan}
    /\ \A r \in FuncRow : s.func[r] # NoFunc => s.func[r].channel \in Channels(s)

Commit(t, new) ==
    /\ \A table \in DOMAIN db : \A x \in DOMAIN db[table] : Unwritten(t, new[table], table, x)
    /\ db' = [table \in DOMAIN db |-> Merged(t, new, table)]
    /\ Constraints(db')
    /\ snap' = [snap EXCEPT ![t] = NoSnap]

Rollback(t) ==
    /\ snap[t] # NoSnap
    /\ snap' = [snap EXCEPT ![t] = NoSnap]
    /\ UNCHANGED db

-----------------------------------------------------------------------------
(* Channels.                                                               *)

Fresh(s) == Chan \ (Channels(s) \cup Channels(db))

\* Mutant: no parent is required.
Mutant_ParentRequired(name, parent) == TRUE

ParentRequired(name, parent) == name = RootName \/ parent # NoChan

CreateChannel(t, name, parent) ==
    /\ snap[t] # NoSnap /\ ParentRequired(name, parent)
    /\ parent \in Channels(snap[t]) \cup {NoChan}
    /\ \E c \in Fresh(snap[t]) :
         Commit(t, Named([snap[t] EXCEPT !.chan[c] = [name |-> name, parent |-> parent, complete |-> <<>>]], c))

\* A name "root" cannot be changed, whichever channel has it.
WriteChannel(t, c, name, parent) ==
    /\ snap[t] # NoSnap /\ ParentRequired(name, parent)
    /\ c \in Channels(snap[t]) /\ snap[t].chan[c].name # RootName
    /\ parent \in Channels(snap[t]) \cup {NoChan}
    /\ LET new == [snap[t] EXCEPT !.chan[c].name = name, !.chan[c].parent = parent]
       IN  /\ \A d \in Below(new, c) : ~Endless(new.chan, d)
           /\ Commit(t, Named(new, c))

UnlinkChannel(t, c) ==
    /\ snap[t] # NoSnap
    /\ c \in Channels(snap[t]) /\ snap[t].chan[c].name # RootName
    /\ Commit(t, [snap[t] EXCEPT !.chan[c] = Gone])

-----------------------------------------------------------------------------
(* Functions.                                                              *)

NamedRoot(s) == {c \in Channels(s) : s.chan[c].name = RootName}

Subchannels(s, c, part) == {d \in Channels(s) : s.chan[d].name = part /\ s.chan[d].parent = c}

\* One turn of the loop of _find_or_create_channel (NoChan: beyond the bound).
FindOrCreate(found, part) ==
    LET sub == Subchannels(found.s, found.c, part)
        new == CHOOSE c \in Fresh(found.s) : TRUE
    IN  IF sub # {} THEN [found EXCEPT !.c = CHOOSE c \in sub : TRUE]
        ELSE IF Fresh(found.s) = {} THEN [found EXCEPT !.c = NoChan]
        ELSE [s |-> Named([found.s EXCEPT !.chan[new] = [name |-> part, parent |-> found.c, complete |-> <<>>]], new),
              c |-> new]

\* _find_or_create_channel: the parts of the name one after the other, below the root.
Found(s, root, path) ==
    LET after[n \in 0 .. Len(path)] ==
            IF n = 0 THEN [s |-> s, c |-> root] ELSE FindOrCreate(after[n-1], path[n])
    IN  after[Len(path)]

\* The search for the root must find one record; `parent_channel.id` of two raises.
RegisterJob(t, f) ==
    /\ snap[t] # NoSnap
    /\ \A r \in FuncRow : snap[t].func[r].name # f
    /\ \E root \in Chan, r \in FuncRow :
         /\ NamedRoot(snap[t]) = {root} /\ snap[t].func[r] = NoFunc /\ db.func[r] = NoFunc
         /\ LET found == Found(snap[t], root, Default[f])
            IN  /\ found.c # NoChan
                /\ Commit(t, [found.s EXCEPT !.func[r] = [name |-> f, channel |-> found.c,
                                                          path |-> found.s.chan[found.c].complete]])

\* _compute_channel is run again for the jobs of a function that gets another channel.
SetFunctionChannel(t, r, c) ==
    /\ snap[t] # NoSnap
    /\ snap[t].func[r] # NoFunc /\ c \in Channels(snap[t]) /\ c # snap[t].func[r].channel
    /\ LET path == snap[t].chan[c].complete
       IN  Commit(t, [snap[t] EXCEPT !.func[r].channel = c, !.func[r].path = path,
                        !.job = [j \in Job |-> IF snap[t].job[j].func = r /\ ~snap[t].job[j].overridden
                                               THEN [snap[t].job[j] EXCEPT !.channel = path]
                                               ELSE snap[t].job[j]]])

-----------------------------------------------------------------------------
(* Jobs.                                                                   *)

\* _compute_job_function: any one of the rows with the method's name.
Delay(t, j) ==
    /\ snap[t] # NoSnap /\ snap[t].job[j] = NoJob
    /\ \E r \in FuncRow, path \in Override \cup {<<>>} :
         /\ snap[t].func[r] # NoFunc
         /\ Commit(t, [snap[t] EXCEPT !.job[j] = [state |-> "waiting", func |-> r, overridden |-> path # <<>>,
                            channel |-> IF path # <<>> THEN path ELSE snap[t].func[r].path]])

\* _inverse_channel: what the user types overrides the function's channel.
EditJobChannel(t, j, path) ==
    /\ snap[t] # NoSnap /\ snap[t].job[j] # NoJob
    /\ Commit(t, [snap[t] EXCEPT !.job[j].overridden = TRUE, !.job[j].channel = path])

JobDone(j) ==
    /\ db.job[j].state = "waiting"
    /\ db' = [db EXCEPT !.job[j].state = "done"]
    /\ UNCHANGED snap

\* autovacuum, when the removal interval of every channel is over.
Autovacuum(t) ==
    /\ snap[t] # NoSnap
    /\ Commit(t, [snap[t] EXCEPT !.job =
          [j \in Job |-> IF /\ snap[t].job[j].state = "done"
                            /\ \E c \in Channels(snap[t]) : snap[t].chan[c].complete = snap[t].job[j].channel
                         THEN NoJob ELSE snap[t].job[j]]])

-----------------------------------------------------------------------------
RegistryInit ==
    /\ db = [chan |-> [c \in Chan |-> IF c = ChannelRoot
                                      THEN [name |-> RootName, parent |-> NoChan, complete |-> <<RootName>>]
                                      ELSE Gone],
             func |-> [r \in FuncRow |-> NoFunc],
             job |-> [j \in Job |-> NoJob]]
    /\ snap = [t \in Session |-> NoSnap]

EditChannels(t) ==
    \E name \in Part \cup {RootName}, parent \in Chan \cup {NoChan}, c \in Chan :
        CreateChannel(t, name, parent) \/ WriteChannel(t, c, name, parent) \/ UnlinkChannel(t, c)

EditFunctions(t) ==
    (\E f \in Func : RegisterJob(t, f)) \/ (\E r \in FuncRow, c \in Chan : SetFunctionChannel(t, r, c))

UseJobs(t) == \E j \in Job : Delay(t, j) \/ \E path \in Override : EditJobChannel(t, j, path)

RegistryNext ==
    \/ \E t \in Session : Begin(t) \/ Rollback(t) \/ EditChannels(t) \/ EditFunctions(t) \/ UseJobs(t) \/ Autovacuum(t)
    \/ \E j \in Job : JobDone(j)

RegistrySpec == RegistryInit /\ [][RegistryNext]_rvars

-----------------------------------------------------------------------------
RegistryTypeOK ==
    /\ \A c \in Chan : /\ db.chan[c].name \in Part \cup {RootName, NoName}
                       /\ db.chan[c].parent \in Channels(db) \cup {NoChan}
    /\ \A r \in FuncRow : /\ db.func[r].name \in Func \cup {NoName}
                          /\ db.func[r].channel \in Channels(db) \cup {NoChan}
    /\ \A j \in Job : db.job[j].state \in {"waiting", "done", NoName}

\* The parents of every channel lead to the root, so that complete names exist:
\* nothing but the loop in _compute_complete_name stands against a cycle.
Rooted == \A c \in Channels(db) : Head(Chain(db.chan, c)) = ChannelRoot

\* What is stored is what the tree says: the complete name of each channel is
\* the path to it ("root.sub.sub", test_model_job_channel.py), and a function
\* has the name of its channel, after any renaming and moving of channels above.
NamesArePaths ==
    /\ \A c \in Channels(db) : db.chan[c].complete = CompleteName(db.chan, c)
    /\ \A r \in FuncRow : db.func[r] # NoFunc => db.func[r].path = db.chan[db.func[r].channel].complete

\* The invariant of the tree: the types, and a way to the root from everywhere.
RegistryInv == RegistryTypeOK /\ Rooted
=============================================================================
