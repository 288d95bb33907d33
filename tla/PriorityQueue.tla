--------------------------- MODULE PriorityQueue ---------------------------
(***************************************************************************)
(* What queue_job/jobrunner/channels.py promises of its PriorityQueue (the *)
(* class docstring): a set of objects; adding an object twice is a no-op,  *)
(* any object can be removed, popping returns a smallest object, popping   *)
(* an empty queue returns None.  LazyHeap is the class as written.         *)
(***************************************************************************)
EXTENDS Naturals

CONSTANTS
    Obj,      \* the objects
    Key,      \* Key[o]: the rank of o in the order of sorting_key()
    NoObj     \* Python's None

VARIABLES
    items,    \* the objects in the queue
    result    \* what the last pop() or [0] returned

vars == <<items, result>>

Smallest(S) == {o \in S : \A p \in S : Key[o] <= Key[p]}

Init == items = {} /\ result = NoObj

Add(o) == items' = items \cup {o} /\ UNCHANGED result

Remove(o) == items' = items \ {o} /\ UNCHANGED result

Pop == \/ /\ items = {}
          /\ result' = NoObj
          /\ UNCHANGED items
       \/ \E o \in Smallest(items) :
            /\ result' = o
            /\ items' = items \ {o}

Peek == /\ \/ items = {} /\ result' = NoObj
           \/ result' \in Smallest(items)
        /\ UNCHANGED items

Next == \/ \E o \in Obj : Add(o) \/ Remove(o)
        \/ Pop
        \/ Peek

Spec == Init /\ [][Next]_vars
=============================================================================
