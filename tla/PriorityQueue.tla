----------------------------- MODULE PriorityQueue -----------------------------
(* A queue from which an element with the least key is taken; an element that *)
(* is not queued has the key 0.                                               *)
EXTENDS Integers

CONSTANTS Elems, Keys

VARIABLES queue, key  \* the elements queued; the key of every element

Init == queue = {} /\ key = [e \in Elems |-> 0]

Push(e, k) ==
  /\ e \notin queue
  /\ queue' = queue \cup {e} /\ key' = [key EXCEPT ![e] = k]

Pop(e) ==
  /\ e \in queue /\ \A f \in queue : key[e] <= key[f]
  /\ queue' = queue \ {e} /\ key' = [key EXCEPT ![e] = 0]

Next == \E e \in Elems : Pop(e) \/ \E k \in Keys : Push(e, k)

Spec == Init /\ [][Next]_<<queue, key>>
================================================================================
