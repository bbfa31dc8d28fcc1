--------------------------- MODULE IntrusiveQueue ---------------------------
(***************************************************************************)
(* The intrusive singly linked queue of src/include/containers, pointer by *)
(* pointer.  A queue is a record: the _head and _tail pointers of the      *)
(* container and, for every node, the _next pointer embedded in the node   *)
(* (it belongs to the node and outlives its membership of the queue).      *)
(* The operators are the member functions; the modules that use a queue    *)
(* hold one in a variable.                                                 *)
(***************************************************************************)
EXTENDS Naturals

CONSTANTS Node,   \* the objects that can be queued
          NULL    \* nullptr

ASSUME NullIsNoNode == NULL \notin Node

Queue == [head : Node \cup {NULL},
          tail : Node \cup {NULL},
          next : [Node -> Node \cup {NULL}]]

EmptyQueue == [head |-> NULL, tail |-> NULL, next |-> [n \in Node |-> NULL]]

Empty(q) == q.head = NULL

(***************************************************************************)
(* The nodes an iteration from _head visits: the smallest set that has the *)
(* head in it and, with a node, its successor.                             *)
(***************************************************************************)
Closed(q, S) ==
  /\ q.head # NULL => q.head \in S
  /\ \A p \in S : q.next[p] # NULL => q.next[p] \in S

Reached(q) == {n \in Node : \A S \in SUBSET Node : Closed(q, S) => n \in S}

(***************************************************************************)
(* push refuses a node that has a successor or that is the tail: the code  *)
(* takes either for "already queued".                                      *)
(***************************************************************************)
Refused(q, n) == q.next[n] # NULL \/ n = q.tail

Push(q, n) ==
  IF Refused(q, n)
  THEN q
  ELSE [head |-> IF Empty(q) THEN n ELSE q.head,
        tail |-> n,
        next |-> IF q.tail # NULL THEN [q.next EXCEPT ![q.tail] = n] ELSE q.next]

\* Mutant of Pop: the popped node keeps its link.
PopKeepsNext(q) ==
  [q EXCEPT !.head = IF q.head # q.tail THEN q.next[q.head] ELSE NULL,
            !.tail = IF q.head # q.tail THEN q.tail ELSE NULL]

\* pop on a queue that is not empty; the node popped is q.head.
Pop(q) ==
  [head |-> IF q.head # q.tail THEN q.next[q.head] ELSE NULL,
   tail |-> IF q.head # q.tail THEN q.tail ELSE NULL,
   next |-> [q.next EXCEPT ![q.head] = NULL]]

\* Mutant of Remove: the base case of the head is forgotten.
RemoveInner(q, n) ==
  [q EXCEPT !.next = [p \in Node |-> IF p \in Reached(q) /\ q.next[p] = n
                                     THEN q.next[n] ELSE q.next[p]]]

(***************************************************************************)
(* remove unlinks the node from its predecessor.  It leaves _tail alone,   *)
(* and the removed node keeps its _next.                                   *)
(***************************************************************************)
Remove(q, n) ==
  LET before == {p \in Reached(q) : q.next[p] = n}
  IN  IF n = q.head
      THEN [q EXCEPT !.head = q.next[n]]
      ELSE [q EXCEPT !.next = [p \in Node |-> IF p \in before THEN q.next[n] ELSE q.next[p]]]
=============================================================================
