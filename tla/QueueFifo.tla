------------------------------ MODULE QueueFifo ------------------------------
(***************************************************************************)
(* An IntrusiveQueue under arbitrary calls of push, pop and remove, next   *)
(* to the first-in first-out queue it stands for.  fifo and pristine are   *)
(* history variables: fifo is what a FIFO queue without duplicates would   *)
(* hold after the same calls, and nothing in the container reads either.   *)
(***************************************************************************)
EXTENDS IntrusiveQueue, Lists

CONSTANT Removable   \* the nodes whose owner ever calls remove

ASSUME RemovableNodes == Removable \subseteq Node

VARIABLES list,   \* the container and the links embedded in the nodes
          fifo,   \* the FIFO queue it stands for
          pristine  \* remove has not been called yet

fifoVars == <<list, fifo, pristine>>

Pushed == Members(fifo)

-----------------------------------------------------------------------------
FifoInit == list = EmptyQueue /\ fifo = <<>> /\ pristine = TRUE

push(n) ==
  /\ list' = Push(list, n)
  /\ fifo' = IF n \in Pushed THEN fifo ELSE Append(fifo, n)
  /\ UNCHANGED pristine

pop ==
  /\ ~Empty(list)
  /\ list' = Pop(list)
  /\ fifo' = Without(fifo, list.head)
  /\ UNCHANGED pristine

remove(n) ==
  /\ list' = Remove(list, n)
  /\ fifo' = Without(fifo, n)
  /\ pristine' = FALSE

FifoNext == \/ \E n \in Node : push(n)
            \/ pop
            \/ \E n \in Removable : remove(n)

FifoSpec == FifoInit /\ [][FifoNext]_fifoVars

-----------------------------------------------------------------------------
FifoTypeOK == list \in Queue /\ fifo \in Seq(Node)

FifoOrder ==
  /\ Distinct(fifo)
  /\ fifo = <<>> => list.head = NULL /\ list.tail = NULL
  /\ fifo # <<>> => /\ list.head = fifo[1]
                    /\ list.tail = fifo[Len(fifo)]
                    /\ list.next[fifo[Len(fifo)]] = NULL
  /\ \A i \in 1..(Len(fifo) - 1) : list.next[fifo[i]] = fifo[i+1]
  /\ \A n \in Node \ Pushed : list.next[n] = NULL

(***************************************************************************)
(* Until remove is called, the links spell out the FIFO order: _head and   *)
(* _tail are its ends, every node points at the one pushed after it, and a *)
(* node that is not queued has a null link, so that push will accept it    *)
(* again.                                                                  *)
(***************************************************************************)
Represents == pristine => FifoOrder

(***************************************************************************)
(* The nodes the walk meets were pushed and neither popped nor removed     *)
(* since: remove really takes a node out, and no stale link brings one     *)
(* back.                                                                   *)
(***************************************************************************)
NoStaleNode == Reached(list) \subseteq Pushed

(***************************************************************************)
(* A node that its owner never removes is met by the walk from the moment  *)
(* it is pushed until it is popped, whatever the other owners remove       *)
(* (test_IntrusiveQueue: the size grows by one with every push).           *)
(***************************************************************************)
NothingLost == Pushed \ Removable \subseteq Reached(list)
=============================================================================
