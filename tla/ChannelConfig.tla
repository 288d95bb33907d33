---------------------------- MODULE ChannelConfig ----------------------------
(***************************************************************************)
(* How the job runner gets its channels: whether it is started at all      *)
(* (_is_runner_enabled), parse_simple_config and simple_configure.  The    *)
(* tree this builds is what the constants of Channels.tla stand for.       *)
(*                                                                         *)
(* A channel is the sequence of names that leads to it from the root, <<>> *)
(* for the root itself.  An entry of the configuration string is a record; *)
(* of its layout only the whitespace around the first colon matters.       *)
(***************************************************************************)
EXTENDS Integers, Sequences, SequencesExt

CONSTANTS
    Root,           \* the word "root"
    Entry,          \* the entries in use: [name, spaced, capacity, options]
    Option,         \* the keys and values in use: [key, value]
    Absent, Bad,    \* a capacity left out; a value that is no number
    Blank,          \* an empty value, as in "sequential="
    MaxEntries,     \* bound on the length of the configuration
    Unlimited       \* None, the capacity of a channel that no entry configures

ASSUME ConfigStringAssumption ==
    /\ \A o \in Option : /\ o.key \in {"name", "capacity", "sequential", "throttle"}
                         /\ o.value \in Int \cup {Bad, Blank}
    /\ \A e \in Entry : /\ e.name \in Seq(ToSet(e.name))
                        /\ e.spaced \in BOOLEAN /\ e.capacity \in Int \cup {Absent, Bad}
                        /\ e.options \in Seq(Option)
                        /\ e.capacity = Absent => e.options = <<>>
    /\ MaxEntries \in Nat /\ {Unlimited, Blank, Bad} \cap Int = {}

VARIABLES
    text,   \* the configuration: the non-empty entries, in order
    left,   \* the entries that simple_configure has still to apply
    conf,   \* the channels there are, with capacity, sequential and throttle
    status  \* of the runner

fvars == <<text, left, conf, status>>

Status == {"starting", "off", "refused", "configuring", "ready"}

\* get_channel_by_name: the root may be left out.
Path(name) == IF name # <<>> /\ Head(name) = Root THEN Tail(name) ELSE name

Above(path) == {SubSeq(path, 1, i) : i \in 0 .. Len(path)}

-----------------------------------------------------------------------------
(* Parsing.                                                                *)

Malformed(e) ==
    \/ e.name = <<>> \/ e.capacity = Bad
    \/ \E i \in DOMAIN e.options : \/ e.options[i].key \in {"name", "capacity"}
                                   \/ \E k \in 1 .. i-1 : e.options[k].key = e.options[i].key

Given(e, key) == {e.options[i].value : i \in {k \in DOMAIN e.options : e.options[k].key = key}}

\* A key without a value is True, that is 1.  A channel is sequential with any
\* value but the empty one: bool("0") is True.
Parsed(e) ==
    [capacity   |-> IF e.capacity = Absent THEN 1 ELSE e.capacity,
     sequential |-> Given(e, "sequential") \ {Blank} # {},
     throttle   |-> IF Given(e, "throttle") = {} THEN 0 ELSE CHOOSE v \in Given(e, "throttle") : TRUE]

-----------------------------------------------------------------------------
(* The channels.                                                           *)

NewChannel(capacity) == [capacity |-> capacity, sequential |-> FALSE, throttle |-> 0]

\* Mutant: the channels on the way are created again.
Mutant_Autocreated(path) ==
    [p \in DOMAIN conf \cup Above(path) |->
        IF p \in Above(path) \ {<<>>} THEN NewChannel(Unlimited) ELSE conf[p]]

\* get_channel_by_name(..., autocreate=True)
Autocreated(path) ==
    [p \in DOMAIN conf \cup Above(path) |-> IF p \in DOMAIN conf THEN conf[p] ELSE NewChannel(Unlimited)]

\* Mutant: a sequential channel needs some capacity.
Mutant_Allowed(c) == c.throttle \in Int /\ (c.sequential => c.capacity # 0)

\* configure: the errors it raises; int("") is one of them, a negative number
\* is none.
Allowed(c) == c.throttle \in Int /\ (c.sequential => c.capacity = 1)

\* get_channel_from_config
ConfigureChannel ==
    LET path == Path(Head(left).name)
        new  == Parsed(Head(left))
    IN  /\ status = "configuring" /\ left # <<>>
        /\ Allowed(new)
        /\ conf' = [Autocreated(path) EXCEPT ![path] = new]
        /\ left' = Tail(left)
        /\ UNCHANGED <<text, status>>

RefuseChannel ==
    /\ status = "configuring" /\ left # <<>>
    /\ ~Allowed(Parsed(Head(left)))
    /\ status' = "refused"
    /\ UNCHANGED <<text, left, conf>>

Configured ==
    /\ status = "configuring" /\ left = <<>>
    /\ status' = "ready"
    /\ UNCHANGED <<text, left, conf>>

-----------------------------------------------------------------------------
(* The start.                                                              *)

\* _is_runner_enabled: the text does not start with "root:0".
Enabled ==
    ~ /\ text # <<>>
      /\ text[1].name = <<Root>> /\ ~text[1].spaced /\ text[1].capacity = 0

\* All of the text is parsed before a channel is configured.
Start ==
    /\ status = "starting"
    /\ status' = CASE ~Enabled -> "off"
                   [] Enabled /\ \E i \in DOMAIN text : Malformed(text[i]) -> "refused"
                   [] OTHER -> "configuring"
    /\ UNCHANGED <<text, left, conf>>

RootOnly == [p \in {<<>>} |-> NewChannel(1)]

ChannelConfigInit ==
    /\ text \in BoundedSeq(Entry, MaxEntries)
    /\ left = text
    /\ conf = RootOnly
    /\ status = "starting"

ChannelConfigNext == Start \/ ConfigureChannel \/ RefuseChannel \/ Configured

ChannelConfigSpec == ChannelConfigInit /\ [][ChannelConfigNext]_fvars

-----------------------------------------------------------------------------
ChannelConfigTypeOK ==
    /\ status \in Status /\ left \in Seq(Entry)
    /\ \A p \in DOMAIN conf : /\ conf[p].capacity \in Int \cup {Unlimited}
                              /\ conf[p].sequential \in BOOLEAN /\ conf[p].throttle \in Int

\* What Channels.tla assumes of its tree and configuration: the channels are
\* closed under parents, and a sequential channel runs one job at a time.
TreeForChannels ==
    /\ <<>> \in DOMAIN conf
    /\ \A p \in DOMAIN conf \ {<<>>} : Front(p) \in DOMAIN conf
    /\ \A p \in DOMAIN conf : conf[p].sequential => conf[p].capacity = 1

\* A running runner has exactly the settings that were written: each channel
\* the capacity, the throttle and the order of the last entry that names it, whatever entries for its parents and
\* children come before and after and with or without the word root; a channel
\* on the way that no entry names has no limit, and the root's limit is then 1
\* (docstring of get_channel_from_config).
LastEntryHolds ==
    status = "ready" =>
        \A p \in DOMAIN conf :
            LET of == {i \in DOMAIN text : Path(text[i].name) = p}
            IN  \/ of = {} /\ conf[p] = NewChannel(IF p = <<>> THEN 1 ELSE Unlimited)
                \/ \E last \in of : LET written == ToSet(text[last].options) IN
                      /\ \A k \in of : k <= last
                      /\ conf[p].capacity = (IF text[last].capacity = Absent THEN 1 ELSE text[last].capacity)
                      /\ conf[p].sequential = \E o \in written : o.key = "sequential" /\ o.value # Blank
                      /\ \/ \E o \in written : o.key = "throttle" /\ o.value = conf[p].throttle
                         \/ conf[p].throttle = 0 /\ \A o \in written : o.key # "throttle"

\* The invariant of the configuration: its types, and a tree.
ConfigInv == ChannelConfigTypeOK /\ TreeForChannels
=============================================================================
