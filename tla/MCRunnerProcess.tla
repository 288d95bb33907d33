-------------------------- MODULE MCRunnerProcess --------------------------
EXTENDS RunnerProcess, TLC
CONSTANTS a, b, p1, p2

MCOption == [key : {"sequential", "throttle", "capacity"}, value : {1, 2}]
           \cup [key : {"throttle"}, value : {Bad, Blank, -1}]
           \cup [key : {"sequential"}, value : {0, Blank}]
MCOptions == {<<>>} \cup {<<o>> : o \in MCOption}
             \cup {<<[key |-> "sequential", value |-> 1], [key |-> x, value |-> 2]>> : x \in {"sequential", "throttle"}}
             \cup {<<[key |-> "sequential", value |-> Blank], [key |-> "throttle", value |-> 2]>>}

\* root, a, root.a.b and b.a; with and without a capacity and options; root:0
\* in both layouts; entries that cannot be read.
MCEntry ==
    {e \in [name : {<<Root>>, <<a>>, <<Root, a, b>>, <<b, a>>}, spaced : {FALSE},
            capacity : {Absent, 1, 2}, options : {<<>>} \cup {<<[key |-> "sequential", value |-> 1]>>}] :
        e.capacity = Absent => e.options = <<>>}
    \cup [name : {<<a>>}, spaced : {TRUE}, capacity : {1}, options : MCOptions]
    \cup [name : {<<a>>}, spaced : {TRUE}, capacity : {Bad}, options : {<<>>}]
    \cup [name : {<<Root>>}, spaced : BOOLEAN, capacity : {0}, options : {<<>>}]
    \cup [name : {<<>>}, spaced : {FALSE}, capacity : {1}, options : {<<>>}]
=============================================================================
