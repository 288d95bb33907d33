------------------------------ MODULE LazyHeap ------------------------------
(***************************************************************************)
(* The PriorityQueue class of queue_job/jobrunner/channels.py as written:  *)
(* a heap from which remove() does not delete anything.  A removed object  *)
(* stays in the heap, is remembered in _removed, and is thrown away when   *)
(* pop() or [0] meets it.  An object added again before that is revived.   *)
(*                                                                         *)
(* The loops of pop() and __getitem__ are modelled one iteration a step.   *)
(* The heap is a bag (a count per object): that no object is in it twice   *)
(* is something the class has to ensure, not something the model grants.   *)
(***************************************************************************)
EXTENDS Integers, FiniteSets

CONSTANTS Obj, Key, NoObj

ASSUME HeapAssumption == NoObj \notin Obj /\ Key \in [Obj -> Nat]

VARIABLES
    heap,     \* _heap: how many times each object is in the list
    known,    \* _known: the objects in the heap, the removed ones included
    removed,  \* _removed: the objects of the heap that have been removed
    result,   \* what the last pop() or [0] returned
    loop,     \* the method whose loop is running: "none", "pop" or "getitem"
    held      \* what the callers have added and neither removed nor popped
              \* since (history)

heapVars == <<heap, known, removed, result, loop, held>>

InHeap == {o \in Obj : heap[o] > 0}

\* heap[0]: heapq keeps a smallest object there (any of them under ties).
Top == {o \in InHeap : \A p \in InHeap : Key[o] <= Key[p]}

Contains(o) == o \in known /\ o \notin removed

Len == Cardinality(known) - Cardinality(removed)

Push(o) == heap' = [heap EXCEPT ![o] = @ + 1]
HeapPop(o) == heap' = [heap EXCEPT ![o] = @ - 1]

HeapInit ==
    /\ heap = [o \in Obj |-> 0]
    /\ known = {}
    /\ removed = {}
    /\ result = NoObj
    /\ loop = "none"
    /\ held = {}

\* Mutant: add() without the test of _known.
Mutant_AddPushesAgain(o) ==
    /\ loop = "none"
    /\ removed' = removed \ {o}
    /\ known' = known \cup {o}
    /\ Push(o)
    /\ held' = held \cup {o}
    /\ UNCHANGED <<result, loop>>

\* Mutant: add() returns when the object is known, removed or not.
Mutant_AddForgetsRemoved(o) ==
    /\ loop = "none"
    /\ \/ o \in known /\ UNCHANGED <<heap, known>>
       \/ o \notin known /\ known' = known \cup {o} /\ Push(o)
    /\ held' = held \cup {o}
    /\ UNCHANGED <<removed, result, loop>>

Add(o) == /\ loop = "none"
          /\ removed' = removed \ {o}
          /\ \/ o \in known /\ UNCHANGED <<heap, known>>
             \/ o \notin known /\ known' = known \cup {o} /\ Push(o)
          /\ held' = held \cup {o}
          /\ UNCHANGED <<result, loop>>

Remove(o) == /\ loop = "none"
             /\ removed' = IF o \in known THEN removed \cup {o} ELSE removed
             /\ held' = held \ {o}
             /\ UNCHANGED <<heap, known, result, loop>>

Call(method) == /\ loop = "none"
                /\ loop' = method
                /\ UNCHANGED <<heap, known, removed, result, held>>

\* Both loops end on an empty heap: pop() returns None, [0] raises IndexError.
FindEmpty == /\ loop # "none"
             /\ InHeap = {}
             /\ result' = NoObj
             /\ loop' = "none"
             /\ UNCHANGED <<heap, known, removed, held>>

\* Mutant: the loop looks at heap[0] and forgets to pop it.
Mutant_DiscardKeepsTop ==
    /\ loop # "none"
    /\ Top \cap removed # {}
    /\ UNCHANGED heapVars

\* Both loops throw a removed object away and go on.
Discard == /\ loop # "none"
           /\ \E o \in Top \cap removed :
                /\ HeapPop(o)
                /\ known' = known \ {o}
                /\ removed' = removed \ {o}
           /\ UNCHANGED <<result, loop, held>>

\* Mutant: pop() returns an object that has been removed.
Mutant_PopRemoved ==
    /\ loop = "pop"
    /\ \E o \in Top :
         /\ HeapPop(o)
         /\ known' = known \ {o}
         /\ removed' = removed \ {o}
         /\ result' = o
         /\ held' = held \ {o}
    /\ loop' = "none"

PopLive == /\ loop = "pop"
           /\ \E o \in Top \ removed :
                /\ HeapPop(o)
                /\ known' = known \ {o}
                /\ result' = o
                /\ held' = held \ {o}
           /\ loop' = "none"
           /\ UNCHANGED removed

PeekLive == /\ loop = "getitem"
            /\ result' \in Top \ removed
            /\ loop' = "none"
            /\ UNCHANGED <<heap, known, removed, held>>

HeapNext ==
    \/ \E o \in Obj : Add(o) \/ Remove(o)
    \/ \E method \in {"pop", "getitem"} : Call(method)
    \/ FindEmpty
    \/ Discard
    \/ PopLive
    \/ PeekLive

HeapSpec == HeapInit /\ [][HeapNext]_heapVars /\ WF_heapVars(FindEmpty \/ Discard \/ PopLive \/ PeekLive)

-----------------------------------------------------------------------------
HeapTypeOK ==
    /\ heap \in [Obj -> Nat]
    /\ known \subseteq Obj
    /\ removed \subseteq Obj
    /\ result \in Obj \cup {NoObj}
    /\ loop \in {"none", "pop", "getitem"}
    /\ held \subseteq Obj

\* The three structures agree: an object is in the heap once when it is in
\* _known and not at all otherwise, and only known objects are marked removed.
\* Without it _known.remove(o) in pop() raises KeyError, or a job is returned
\* twice, and __len__ miscounts.
Consistent == /\ \A o \in Obj : heap[o] = IF o \in known THEN 1 ELSE 0
              /\ removed \subseteq known

\* __len__, computed from two sets that are changed by different methods, is
\* the number of objects __contains__ admits: a queue that looks empty is empty
\* (ChannelQueue.pop and get_wakeup_time both test it).
LenCountsContents == Len = Cardinality({o \in Obj : Contains(o)})

\* No call is lost: the queue contains what has been added and neither removed
\* nor returned by pop() since.  An object added again while it is still in the
\* heap as a removed one is in the queue, one removed twice is not.
NothingLost == \A o \in Obj : Contains(o) <=> o \in held

\* The class keeps the promise of its docstring: seen through _known minus
\* _removed, every method behaves like the one of PriorityQueue.
Abstract == INSTANCE PriorityQueue WITH items <- known \ removed
ImplementsPriorityQueue == Abstract!Spec

\* The loops of pop() and [0] end: every pass over a removed object makes the
\* heap smaller.
LoopEnds == loop # "none" ~> loop = "none"
=============================================================================
