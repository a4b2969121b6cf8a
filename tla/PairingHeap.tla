------------------------------ MODULE PairingHeap ------------------------------
(***************************************************************************)
(* The pairing heap of lib/kernel/heap.c, with its pointers, as the timer  *)
(* uses it: the elements are threads, the key is wakeup_tick, and less is  *)
(* sleep_que_comp of devices/timer.c.                                      *)
(***************************************************************************)
EXTENDS Integers, FiniteSets

CONSTANTS
  Elems, NULL,
  Keys  \* numbers, 0 among them

VARIABLES
  top, size,       \* of struct heap
  child, sibling,  \* of struct heap_elem; an element outside the heap keeps them
  key,             \* 0 outside the heap, where nobody looks at it
  members          \* history: the elements that can be reached from the root

vars == <<top, size, child, sibling, key, members>>

Init ==
  /\ top = NULL /\ size = 0
  /\ child = [e \in Elems |-> NULL]
  /\ sibling = [e \in Elems |-> NULL]
  /\ key = [e \in Elems |-> 0] /\ members = {}

\* The pointers, and the root that meld or merge returns.
Links(c, s, r) == [child |-> c, sibling |-> s, root |-> r]

\* Mutant: the roots are not swapped.
MutMeldNoSwap(h, x, y, k) ==
  IF x = NULL THEN [h EXCEPT !.root = y]
  ELSE IF y = NULL THEN [h EXCEPT !.root = x]
  ELSE Links([h.child EXCEPT ![x] = y], [h.sibling EXCEPT ![y] = h.child[x]], x)

\* meld: the root with the greater key becomes the first child of the other.
meld(h, x, y, k) ==
  IF x = NULL THEN [h EXCEPT !.root = y]
  ELSE IF y = NULL THEN [h EXCEPT !.root = x]
  ELSE LET up == IF k[x] > k[y] THEN y ELSE x
           down == IF k[x] > k[y] THEN x ELSE y
       IN  Links([h.child EXCEPT ![up] = down], [h.sibling EXCEPT ![down] = h.child[up]], up)

\* merge: melds the siblings from x on in pairs, and the pairs from the last.
RECURSIVE merge(_, _, _)
merge(h, x, k) ==
  IF x = NULL \/ h.sibling[x] = NULL
    THEN [h EXCEPT !.root = x]
    ELSE LET y == h.sibling[x]
             cut == [h EXCEPT !.sibling[x] = NULL, !.sibling[y] = NULL]
             pair == meld(cut, x, y, k)
             rest == merge(pair, h.sibling[y], k)
         IN  meld(rest, rest.root, pair.root, k)

\* The elements that can be reached from the root.
Reach(h) ==
  LET reach[n \in 0..Cardinality(Elems)] ==
        IF n = 0 THEN {h.root}
        ELSE reach[n - 1] \cup UNION {{h.child[e], h.sibling[e]} : e \in reach[n - 1] \ {NULL}}
  IN  reach[Cardinality(Elems)] \ {NULL}

Install(h) == child' = h.child /\ sibling' = h.sibling /\ top' = h.root /\ members' = Reach(h)

heap_push(e, k) ==
  /\ e \notin members
  /\ key' = [key EXCEPT ![e] = k]
  /\ \E h \in {meld(Links([child EXCEPT ![e] = NULL], [sibling EXCEPT ![e] = NULL], top),
                  top, e, key')} : Install(h)
  /\ size' = size + 1

heap_pop ==
  /\ size # 0
  /\ \E h \in {merge(Links(child, sibling, top), child[top], key)} : Install(h)
  /\ size' = size - 1
  /\ key' = [key EXCEPT ![top] = 0]

Next == heap_pop \/ \E e \in Elems, k \in Keys : heap_push(e, k)

Spec == Init /\ [][Next]_vars
--------------------------------------------------------------------------------
\* The pointers of the heap form a tree: nobody but one element points to a
\* member, nobody points to the root, and the root has no sibling.  size, which
\* heap_empty looks at, counts the members: no element is lost by a merge.
IsTree ==
  /\ \A e, f \in members :
       /\ e # f => {child[e], sibling[e]} \cap {child[f], sibling[f]} \subseteq {NULL}
       /\ child[e] = sibling[e] => child[e] = NULL
  /\ \A e \in members : top \notin {child[e], sibling[e]}
  /\ top # NULL => sibling[top] = NULL
  /\ size = Cardinality(members)

\* The heap is a priority queue: it gives back what was pushed, least key
\* first.  The timer relies on it to stop at the first thread that is not due.
Queue == INSTANCE PriorityQueue WITH queue <- members
HeapIsQueue == Queue!Spec /\ []IsTree
================================================================================
