--------------------------- MODULE WorkQueueProofs ---------------------------
(***************************************************************************)
(* The intrusive queue and the work queue built on it, for any number of   *)
(* items and of scheduling threads: the container is a FIFO queue until an *)
(* owner calls remove, and never leads to a node that left it; the work    *)
(* queue loses no wake-up, hears every request to stop, keeps running      *)
(* while an item is attached and is not destroyed under a Detach.          *)
(***************************************************************************)
EXTENDS QueueFifo, WorkQueue, TLAPS

-----------------------------------------------------------------------------
(* Sequences without duplicates.                                           *)

\* What is taken out is gone, and everything else stays.
LEMMA WithoutMembers ==
  ASSUME NEW T, NEW s \in Seq(T), NEW n, Distinct(s)
  PROVE  /\ Without(s, n) \in Seq(T) /\ Distinct(Without(s, n))
         /\ Members(Without(s, n)) = Members(s) \ {n}
<1> DEFINE r == Without(s, n)
<1>1. CASE ~\E k \in 1..Len(s) : s[k] = n
  <2>1. r = s
    BY <1>1, Zenon DEF Without
  <2> QED BY <1>1, <2>1, Zenon DEF Members
<1>2. CASE \E k \in 1..Len(s) : s[k] = n
  <2> DEFINE p == CHOOSE k \in 1..Len(s) : s[k] = n
             at(k) == IF k < p THEN k ELSE k + 1
             back(k) == IF k < p THEN k ELSE k - 1
  <2>1. p \in 1..Len(s) /\ s[p] = n
    BY <1>2, Zenon
  <2>2. Len(s) \in Nat /\ p \in Nat
    BY <2>1
  <2>3. r = [k \in 1..(Len(s) - 1) |-> s[at(k)]]
    BY <1>2, Zenon DEF Without
  <2> HIDE DEF p, r
  <2>4. \A k \in 1..(Len(s) - 1) : at(k) \in 1..Len(s) /\ at(k) # p /\ s[at(k)] \in T
    BY <2>1, <2>2
  <2>5. \A j, k \in 1..(Len(s) - 1) : at(j) = at(k) => j = k
    BY <2>1, <2>2
  <2>6. \A k \in 1..Len(s) : k # p => back(k) \in 1..(Len(s) - 1) /\ at(back(k)) = k
    BY <2>1, <2>2
  <2> HIDE DEF at, back
  <2>7. r \in Seq(T) /\ Len(r) = Len(s) - 1
    BY <2>1, <2>2, <2>3, <2>4
  <2>8. \A k \in 1..Len(r) : r[k] = s[at(k)]
    BY <2>3, <2>7, Zenon
  <2>9. \A k \in 1..Len(s) : s[k] = n => k = p
    BY <2>1, Zenon DEF Distinct
  <2>10. Distinct(r)
    <3> SUFFICES ASSUME NEW j \in 1..Len(r), NEW k \in 1..Len(r), r[j] = r[k] PROVE j = k
      BY Zenon DEF Distinct
    <3>1. /\ j \in 1..(Len(s) - 1) /\ k \in 1..(Len(s) - 1)
          /\ at(j) \in 1..Len(s) /\ at(k) \in 1..Len(s) /\ s[at(j)] = s[at(k)]
      BY <2>4, <2>7, <2>8, Zenon
    <3>2. at(j) = at(k)
      BY <3>1, Zenon DEF Distinct
    <3> QED BY <2>5, <3>1, <3>2, Zenon
  <2>11. \A m \in Members(r) : m \in Members(s) /\ m # n
    BY <2>4, <2>7, <2>8, <2>9, Zenon DEF Members
  <2>12. \A m \in Members(s) : m # n => m \in Members(r)
    <3> SUFFICES ASSUME NEW k \in 1..Len(s), s[k] # n PROVE s[k] \in Members(r)
      BY Zenon DEF Members
    <3>1. back(k) \in 1..Len(r) /\ r[back(k)] = s[k]
      BY <2>1, <2>6, <2>7, <2>8, Zenon
    <3> QED BY <3>1, Zenon DEF Members
  <2>13. Members(r) = Members(s) \ {n}
    BY <2>11, <2>12, Zenon
  <2> QED BY <2>7, <2>10, <2>13, Zenon DEF r
<1> QED BY <1>1, <1>2, Zenon

\* What is put in is there, and so is everything else.
LEMMA WithMembers ==
  ASSUME NEW T, NEW s \in Seq(T), NEW p \in 1..(Len(s) + 1), NEW n \in T
  PROVE  LET r == With(s, p, n)
         IN  /\ r \in Seq(T) /\ Len(r) = Len(s) + 1
             /\ Members(r) = Members(s) \cup {n}
             /\ Distinct(s) /\ n \notin Members(s) => Distinct(r)
<1> DEFINE r == With(s, p, n)
           at(k) == IF k < p THEN k ELSE k - 1
           to(k) == IF k < p THEN k ELSE k + 1
<1>1. Len(s) \in Nat /\ p \in Nat
  OBVIOUS
<1>2. /\ r \in Seq(T) /\ Len(r) = Len(s) + 1 /\ p \in 1..Len(r) /\ r[p] = n
      /\ \A k \in 1..Len(r) : k # p => r[k] = s[at(k)]
  <2>1. r \in [1..(Len(s) + 1) -> T]
    BY <1>1 DEF With
  <2>2. r \in Seq(T) /\ Len(r) = Len(s) + 1
    BY <1>1, <2>1
  <2>3. /\ p \in 1..Len(r) /\ r[p] = n
        /\ \A k \in 1..Len(r) : k # p => r[k] = s[at(k)]
    BY <1>1, <2>2 DEF With
  <2> QED BY <2>2, <2>3, Zenon
<1>3. \A k \in 1..Len(r) : k # p => at(k) \in 1..Len(s)
  BY <1>1, <1>2
<1>4. \A k \in 1..Len(s) : to(k) \in 1..Len(r) /\ to(k) # p /\ at(to(k)) = k
  BY <1>1, <1>2
<1>5. \A j, k \in 1..Len(r) : j # p /\ k # p /\ at(j) = at(k) => j = k
  BY <1>1, <1>2
<1> HIDE DEF r, at, to
<1>6. \A m \in Members(r) : m \in Members(s) \cup {n}
  BY <1>2, <1>3, Zenon DEF Members
<1>7. \A m \in Members(s) : m \in Members(r)
  <2>1. \A k \in 1..Len(s) : to(k) \in 1..Len(r) /\ r[to(k)] = s[k]
    BY <1>2, <1>4, Zenon
  <2> QED BY <2>1, Zenon DEF Members
<1>8. n \in Members(r)
  BY <1>2, Zenon DEF Members
<1>9. Members(r) = Members(s) \cup {n}
  BY <1>6, <1>7, <1>8, Zenon
<1>10. ASSUME Distinct(s), n \notin Members(s) PROVE Distinct(r)
  <2>1. \A k \in 1..Len(r) : k # p => r[k] # n
    BY <1>2, <1>3, <1>10, Zenon DEF Members
  <2>2. \A j, k \in 1..Len(r) : j # p /\ k # p /\ r[j] = r[k] => at(j) = at(k)
    BY <1>2, <1>3, <1>10, Zenon DEF Distinct
  <2> QED BY <1>2, <1>5, <2>1, <2>2, Zenon DEF Distinct
<1> QED BY <1>2, <1>9, <1>10, Zenon DEF r

-----------------------------------------------------------------------------
(* The operations of the container keep its pointers well typed.           *)

\* push keeps the pointers well typed.
LEMMA PushTypes ==
  ASSUME NEW x \in Queue, NEW n \in Node
  PROVE  Push(x, n) \in Queue
BY Zenon DEF Queue, Push, Empty, Refused

\* remove keeps the pointers well typed.
LEMMA RemoveTypes ==
  ASSUME NEW x \in Queue, NEW n \in Node
  PROVE  Remove(x, n) \in Queue
<1> DEFINE before == {p \in Reached(x) : x.next[p] = n}
<1>1. CASE n = x.head
  BY <1>1, Zenon DEF Queue, Remove
<1>2. CASE n # x.head
  <2> HIDE DEF before
  <2>1. [p \in Node |-> IF p \in before THEN x.next[n] ELSE x.next[p]]
          \in [Node -> Node \cup {NULL}]
    BY Zenon DEF Queue
  <2>2. Remove(x, n)
          = [x EXCEPT !.next = [p \in Node |-> IF p \in before THEN x.next[n] ELSE x.next[p]]]
    BY <1>2, Zenon DEF Remove, before
  <2> QED
    BY <2>1, <2>2, Zenon DEF Queue
<1> QED
  BY <1>1, <1>2, Zenon

\* pop keeps the pointers well typed.
LEMMA PopTypes ==
  ASSUME NEW x \in Queue, ~Empty(x)
  PROVE  x.head \in Node /\ Pop(x) \in Queue
BY Zenon DEF Queue, Pop, Empty

\* remove never turns an empty queue into one that is not.
LEMMA RemoveKeepsEmpty ==
  ASSUME NEW x \in Queue, NEW n \in Node, Empty(x)
  PROVE  Empty(Remove(x, n))
<1> DEFINE nx == [p \in Node |-> IF p \in {r \in Reached(x) : x.next[r] = n}
                                 THEN x.next[n] ELSE x.next[p]]
<1>1. n # x.head
  BY NullIsNoNode, Zenon DEF Empty
<1>2. Remove(x, n) = [x EXCEPT !.next = nx]
  BY <1>1, Zenon DEF Remove
<1> HIDE DEF nx
<1> QED
  BY <1>2, Zenon DEF Empty, Queue

-----------------------------------------------------------------------------
(* The walk along the links of an IntrusiveQueue.                          *)

\* No link of a node that is reached leads to the head, no two lead to the
\* same node or end, and the link of the tail is null if the tail is reached.
Chain(x) ==
  /\ \A p \in Reached(x) : x.head # NULL => x.next[p] # x.head
  /\ \A p, r \in Reached(x) : x.next[p] = x.next[r] => p = r
  /\ x.tail \in Reached(x) => x.next[x.tail] = NULL

\* The pointers of a queue, one by one.
LEMMA QueueFields ==
  ASSUME NEW x \in Queue
  PROVE  /\ x.head \in Node \cup {NULL} /\ x.tail \in Node \cup {NULL}
         /\ \A p \in Node : x.next[p] \in Node \cup {NULL}
         /\ x.next \in [Node -> Node \cup {NULL}]
  BY Zenon DEF Queue

\* What is reached is in every set that is closed, and is closed itself.
LEMMA ReachedIsLeast ==
  ASSUME NEW x \in Queue, NEW S \in SUBSET Node, Closed(x, S)
  PROVE  Reached(x) \subseteq S
  BY Zenon DEF Reached

\* What the links reach from the head is itself closed under them.
LEMMA ReachedIsClosed ==
  ASSUME NEW x \in Queue
  PROVE  Closed(x, Reached(x)) /\ Reached(x) \in SUBSET Node
  <1>1. x.head # NULL => x.head \in Reached(x)
    BY QueueFields, Zenon DEF Reached, Closed
  <1>2. ASSUME NEW p \in Reached(x), x.next[p] # NULL PROVE x.next[p] \in Reached(x)
    <2>1. p \in Node /\ x.next[p] \in Node
      BY <1>2, QueueFields, Zenon DEF Reached
    <2>2. ASSUME NEW S \in SUBSET Node, Closed(x, S) PROVE x.next[p] \in S
      BY <1>2, <2>2, Zenon DEF Reached, Closed
    <2> QED BY <2>1, <2>2, Zenon DEF Reached
  <1>3. Reached(x) \in SUBSET Node
    BY Zenon DEF Reached
  <1> QED BY <1>1, <1>2, <1>3, Zenon DEF Closed

\* A node that is reached is the head or the successor of another one.
LEMMA Predecessor ==
  ASSUME NEW x \in Queue, NEW n \in Reached(x), n # x.head
  PROVE  \E p \in Reached(x) : p # n /\ x.next[p] = n
  <1> SUFFICES ASSUME \A p \in Reached(x) : p # n => x.next[p] # n PROVE FALSE
    BY Zenon
  <1>1. Closed(x, Reached(x)) /\ Reached(x) \in SUBSET Node
    BY ReachedIsClosed, Zenon
  <1>2. Closed(x, Reached(x) \ {n})
    BY <1>1, Zenon DEF Closed
  <1>3. Reached(x) \subseteq Reached(x) \ {n}
    BY <1>1, <1>2, ReachedIsLeast, Zenon
  <1> QED BY <1>3, Zenon

\* push adds at most the node that was pushed.
LEMMA ReachedPush ==
  ASSUME NEW x \in Queue, NEW n \in Node, Chain(x)
  PROVE  Reached(Push(x, n)) \subseteq Reached(x) \cup {n} /\ Chain(Push(x, n))
  <1> DEFINE y == Push(x, n)
  <1>0. /\ Closed(x, Reached(x)) /\ Reached(x) \in SUBSET Node
        /\ y \in Queue /\ Reached(y) \in SUBSET Node
    BY ReachedIsClosed, PushTypes, Zenon
  <1>1. CASE Refused(x, n)
    BY <1>1, Zenon DEF Push
  <1>2. CASE ~Refused(x, n)
    <2>1. /\ x.next[n] = NULL /\ n # x.tail /\ n # NULL
          /\ y.head = (IF x.head = NULL THEN n ELSE x.head) /\ y.tail = n
          /\ y.next[n] = NULL
          /\ \A p \in Node : p # x.tail => y.next[p] = x.next[p]
          /\ x.tail \in Node => y.next[x.tail] = n
      BY <1>2, NullIsNoNode, QueueFields, Zenon DEF Push, Empty, Refused
    <2> HIDE DEF y
    <2>2. CASE x.head = NULL
      <3>1. Closed(y, {n})
        BY <2>1, <2>2, Zenon DEF Closed
      <3>2. Reached(y) \subseteq {n}
        BY <1>0, <3>1, ReachedIsLeast, Zenon
      <3> QED BY <2>1, <2>2, <3>2, Zenon DEF Chain, y
    <2>3. CASE x.head # NULL /\ x.tail \in Reached(x)
      <3>1. x.next[x.tail] = NULL /\ n \notin Reached(x)
        BY <2>1, <2>3, Zenon DEF Chain
      <3>2. Closed(y, Reached(x) \cup {n})
        BY <1>0, <2>1, <2>3, Zenon DEF Closed
      <3>3. Reached(y) \subseteq Reached(x) \cup {n}
        BY <1>0, <3>2, ReachedIsLeast, Zenon
      <3>4. x.tail \in Node /\ x.head \in Reached(x)
        BY <1>0, <2>3, Zenon DEF Closed
      <3>5. ASSUME NEW p \in Reached(x) \cup {n} PROVE y.next[p] # x.head
        BY <1>0, <2>1, <2>3, <3>1, <3>4, Zenon DEF Chain
      <3>6. ASSUME NEW p \in Reached(x) \cup {n}, NEW r \in Reached(x) \cup {n},
                   y.next[p] = y.next[r]
            PROVE  p = r
        <4>1. \A s \in Reached(x) : s # x.tail => y.next[s] = x.next[s] /\ x.next[s] \in Reached(x)
          BY <1>0, <2>1, <3>1, <2>3, Zenon DEF Chain, Closed
        <4> QED BY <2>1, <2>3, <3>1, <3>4, <3>6, <4>1 DEF Chain
      <3> QED BY <2>1, <2>3, <3>3, <3>5, <3>6, Zenon DEF Chain, y
    <2>4. CASE x.head # NULL /\ x.tail \notin Reached(x)
      <3>1. \A p \in Reached(x) : y.next[p] = x.next[p]
        BY <1>0, <2>1, <2>4, Zenon
      <3>2. Closed(y, Reached(x))
        BY <1>0, <2>1, <2>4, <3>1, Zenon DEF Closed
      <3>3. Reached(y) \subseteq Reached(x)
        BY <1>0, <3>2, ReachedIsLeast, Zenon
      <3> QED BY <2>1, <2>4, <3>1, <3>3, Zenon DEF Chain, y
    <2> QED BY <2>2, <2>3, <2>4, Zenon
  <1> QED BY <1>1, <1>2, Zenon

\* pop takes the head out.
LEMMA ReachedPop ==
  ASSUME NEW x \in Queue, Chain(x), ~Empty(x)
  PROVE  Reached(Pop(x)) \subseteq Reached(x) \ {x.head} /\ Chain(Pop(x))
  <1> DEFINE y == Pop(x)
  <1>0. /\ Closed(x, Reached(x)) /\ Reached(x) \in SUBSET Node
        /\ x.head \in Node /\ x.head # NULL /\ y \in Queue /\ Reached(y) \in SUBSET Node
    BY ReachedIsClosed, PopTypes, Zenon DEF Empty
  <1>1. /\ y.head = (IF x.head # x.tail THEN x.next[x.head] ELSE NULL)
        /\ y.tail = (IF x.head # x.tail THEN x.tail ELSE NULL)
        /\ y.next[x.head] = NULL
        /\ \A p \in Node : p # x.head => y.next[p] = x.next[p]
    BY <1>0, QueueFields, Zenon DEF Pop
  <1> HIDE DEF y
  <1>2. Closed(y, Reached(x) \ {x.head})
    BY <1>0, <1>1, Zenon DEF Closed, Chain
  <1>3. Reached(y) \subseteq Reached(x) \ {x.head}
    BY <1>0, <1>2, ReachedIsLeast, Zenon
  <1>4. \A p \in Reached(y) : p \in Reached(x) /\ p # x.head /\ y.next[p] = x.next[p]
    BY <1>0, <1>1, <1>3, Zenon
  <1>5. Chain(y)
    <2>1. ASSUME NEW p \in Reached(y), y.head # NULL PROVE y.next[p] # y.head
      BY <1>0, <1>1, <1>4, <2>1, Zenon DEF Chain, Closed
    <2>2. ASSUME NEW p \in Reached(y), NEW r \in Reached(y), y.next[p] = y.next[r] PROVE p = r
      BY <1>4, <2>2, Zenon DEF Chain
    <2>3. y.tail \in Reached(y) => y.next[y.tail] = NULL
      BY <1>0, <1>1, <1>4, NullIsNoNode, Zenon DEF Chain
    <2> QED BY <2>1, <2>2, <2>3, Zenon DEF Chain
  <1> QED BY <1>3, <1>5, Zenon DEF y

\* remove takes the node out.
LEMMA ReachedRemove ==
  ASSUME NEW x \in Queue, NEW n \in Node, Chain(x)
  PROVE  Reached(Remove(x, n)) \subseteq Reached(x) \ {n} /\ Chain(Remove(x, n))
  <1> DEFINE y == Remove(x, n)
  <1>0. /\ Closed(x, Reached(x)) /\ Reached(x) \in SUBSET Node
        /\ y \in Queue /\ Reached(y) \in SUBSET Node /\ n # NULL
    BY ReachedIsClosed, RemoveTypes, NullIsNoNode, Zenon
  <1>1. CASE n = x.head
    <2>1. y.head = x.next[n] /\ y.tail = x.tail /\ y.next = x.next
      BY <1>1, Zenon DEF Remove, Queue
    <2> HIDE DEF y
    <2>2. Closed(y, Reached(x) \ {n})
      BY <1>0, <1>1, <2>1, Zenon DEF Closed, Chain
    <2>3. Reached(y) \subseteq Reached(x) \ {n}
      BY <1>0, <2>2, ReachedIsLeast, Zenon
    <2>4. n \in Reached(x)
      BY <1>0, <1>1, Zenon DEF Closed
    <2> QED BY <1>1, <2>1, <2>3, <2>4 DEF Chain, y
  <1>2. CASE n # x.head
    <2>1. /\ y.head = x.head /\ y.tail = x.tail
          /\ \A p \in Reached(x) : y.next[p] = IF x.next[p] = n THEN x.next[n] ELSE x.next[p]
      BY <1>0, <1>2, Zenon DEF Remove, Queue
    <2> HIDE DEF y
    <2>2. CASE n \notin Reached(x)
      <3>1. \A p \in Reached(x) : y.next[p] = x.next[p]
        BY <1>0, <2>1, <2>2, Zenon DEF Closed
      <3>2. Closed(y, Reached(x))
        BY <1>0, <2>1, <3>1, Zenon DEF Closed
      <3>3. Reached(y) \subseteq Reached(x)
        BY <1>0, <3>2, ReachedIsLeast, Zenon
      <3> QED BY <2>1, <2>2, <3>1, <3>3, Zenon DEF Chain, y
    <2>3. CASE n \in Reached(x)
      <3>1. x.next[n] # n
        <4>1. PICK p \in Reached(x) : p # n /\ x.next[p] = n
          BY <1>2, <2>3, Predecessor, Zenon
        <4> QED BY <2>3, <4>1, Zenon DEF Chain
      <3>2. Closed(y, Reached(x) \ {n})
        BY <1>0, <1>2, <2>1, <2>3, <3>1, Zenon DEF Closed
      <3>3. Reached(y) \subseteq Reached(x) \ {n}
        BY <1>0, <3>2, ReachedIsLeast, Zenon
      <3>4. ASSUME NEW p \in Reached(y), y.head # NULL PROVE y.next[p] # y.head
        BY <2>1, <2>3, <3>3, <3>4, Zenon DEF Chain
      <3>5. ASSUME NEW p \in Reached(y), NEW r \in Reached(y), y.next[p] = y.next[r] PROVE p = r
        BY <2>1, <2>3, <3>3, <3>5, Zenon DEF Chain
      <3>6. y.tail \in Reached(y) => y.next[y.tail] = NULL
        BY <1>0, <2>1, <3>3, Zenon DEF Chain
      <3> QED BY <3>3, <3>4, <3>5, <3>6, Zenon DEF Chain, y
    <2> QED BY <2>2, <2>3, Zenon
  <1> QED BY <1>1, <1>2, Zenon

-----------------------------------------------------------------------------
(* The container under arbitrary calls of push, pop and remove.            *)

FifoInv == FifoTypeOK /\ FifoOrder

\* Popping the first element of a sequence without duplicates is Tail.
LEMMA WithoutHead ==
  ASSUME NEW s \in Seq(Node), s # <<>>,
         \A i, j \in 1..Len(s) : s[i] = s[j] => i = j
  PROVE  /\ Without(s, s[1]) \in Seq(Node)
         /\ Len(Without(s, s[1])) = Len(s) - 1
         /\ \A k \in 1..(Len(s) - 1) : Without(s, s[1])[k] = s[k+1]
<1> DEFINE p == CHOOSE i \in 1..Len(s) : s[i] = s[1]
<1>1. 1 \in 1..Len(s) /\ Len(s) \in Nat
  OBVIOUS
<1>2. p = 1
  <2>1. p \in 1..Len(s) /\ s[p] = s[1]
    BY <1>1, Zenon
  <2> QED
    BY <1>1, <2>1, Zenon
<1>3. Without(s, s[1]) = [k \in 1..(Len(s) - 1) |-> s[IF k < 1 THEN k ELSE k + 1]]
  BY <1>1, <1>2, Zenon DEF Without
<1>4. \A k \in 1..(Len(s) - 1) : s[IF k < 1 THEN k ELSE k + 1] = s[k+1]
  BY <1>1
<1>5. Without(s, s[1]) = [k \in 1..(Len(s) - 1) |-> s[k+1]]
  BY <1>3, <1>4, Zenon
<1>6. \A k \in 1..(Len(s) - 1) : s[k+1] \in Node
  BY <1>1
<1> QED
  BY <1>1, <1>5, <1>6

(***************************************************************************)
(* Until somebody calls remove, the links of IntrusiveQueue spell out      *)
(* exactly the sequence of nodes pushed and not yet popped, for any set of *)
(* nodes: push appends, pop takes the first, and a node already queued is  *)
(* refused.                                                                *)
(***************************************************************************)
THEOREM QueueIsFifo == FifoSpec => []Represents
<1>1. FifoInit => (pristine => FifoInv)
  BY NullIsNoNode DEF FifoInit, FifoInv, FifoTypeOK, FifoOrder, Distinct, Queue, EmptyQueue, Pushed, Members
<1>2. (pristine => FifoInv) /\ [FifoNext]_fifoVars => (pristine => FifoInv)'
  <2> SUFFICES ASSUME FifoInv, [FifoNext]_fifoVars, pristine' PROVE FifoInv'
    BY Zenon DEF FifoNext, push, pop, remove, fifoVars
  <2> USE NullIsNoNode
  <2>1. ASSUME NEW n \in Node, push(n) PROVE FifoInv'
    <3>1. CASE n \in Pushed
      <4>1. Refused(list, n)
        BY <3>1 DEF FifoInv, FifoTypeOK, FifoOrder, Distinct, Pushed, Members, Refused, Queue
      <4> QED
        BY <4>1, <3>1, <2>1 DEF FifoInv, FifoTypeOK, FifoOrder, Distinct, Pushed, Members, push, Push
    <3>2. CASE n \notin Pushed
      <4>1. ~Refused(list, n)
        BY <3>2 DEF FifoInv, FifoTypeOK, FifoOrder, Distinct, Pushed, Members, Refused, Queue
      <4>2. fifo' = Append(fifo, n) /\ list' = Push(list, n)
        BY <2>1, <3>2, Zenon DEF push
      <4>3. CASE fifo = <<>>
        <5>1. list' = [head |-> n, tail |-> n, next |-> list.next]
          BY <4>1, <4>2, <4>3, Zenon DEF Push, Empty, FifoInv, FifoOrder, Distinct
        <5> QED
          BY <4>2, <4>3, <5>1 DEF FifoInv, FifoTypeOK, FifoOrder, Distinct, Pushed, Members, Queue
      <4>4. CASE fifo # <<>>
        <5>1. list' = [head |-> list.head, tail |-> n, next |-> [list.next EXCEPT ![list.tail] = n]]
          BY <4>1, <4>2, <4>4 DEF Push, Empty, FifoInv, FifoOrder, Distinct, FifoTypeOK, Queue
        <5>2. /\ Len(fifo) \in Nat /\ 1 <= Len(fifo)
              /\ list.tail = fifo[Len(fifo)] /\ list.tail \in Node
              /\ list.next \in [Node -> Node \cup {NULL}]
              /\ list.head \in Node
          BY <4>4 DEF FifoInv, FifoTypeOK, FifoOrder, Distinct, Queue
        <5>3. FifoTypeOK'
          <6>1. list' \in Queue
            BY <5>1, <5>2, Zenon DEF Queue
          <6> QED
            BY <4>2, <6>1 DEF FifoInv, FifoTypeOK
        <5>4. /\ Len(fifo') = Len(fifo) + 1
              /\ \A i \in 1..Len(fifo) : fifo'[i] = fifo[i] /\ fifo[i] \in Node
              /\ fifo'[Len(fifo) + 1] = n
              /\ fifo' # <<>>
          BY <4>2, <5>2 DEF FifoInv, FifoTypeOK
        <5>5. /\ list'.head = list.head /\ list'.tail = n
              /\ list'.next[list.tail] = n
              /\ \A m \in Node : m # list.tail => list'.next[m] = list.next[m]
          BY <5>1, <5>2, Zenon
        <5>6. \A i \in 1..Len(fifo) : fifo[i] # n
          BY <3>2, Zenon DEF Pushed, Members
        <5>7. \A i, j \in 1..Len(fifo') : fifo'[i] = fifo'[j] => i = j
          BY <5>2, <5>4, <5>6 DEF FifoInv, FifoOrder, Distinct
        <5>8. /\ list'.head = fifo'[1] /\ list'.tail = fifo'[Len(fifo')]
              /\ list'.next[fifo'[Len(fifo')]] = NULL
          <6>1. list.next[n] = NULL /\ n # list.tail
            BY <4>1, Zenon DEF Refused
          <6>2. fifo'[1] = fifo[1] /\ fifo[1] = list.head
            BY <4>4, <5>2, <5>4 DEF FifoInv, FifoOrder, Distinct
          <6> QED
            BY <5>4, <5>5, <6>1, <6>2, Zenon
        <5>9. \A i \in 1..(Len(fifo') - 1) : list'.next[fifo'[i]] = fifo'[i+1]
          <6> SUFFICES ASSUME NEW i \in 1..Len(fifo)
                       PROVE  list'.next[fifo'[i]] = fifo'[i+1]
            BY <5>2, <5>4
          <6>1. CASE i = Len(fifo)
            BY <6>1, <5>2, <5>4, <5>5, Zenon
          <6>2. CASE i # Len(fifo)
            <7>1. i \in 1..(Len(fifo) - 1) /\ i + 1 \in 1..Len(fifo)
              BY <6>2, <5>2
            <7>2. fifo[i] # list.tail /\ list.next[fifo[i]] = fifo[i+1]
              BY <6>2, <7>1, <5>2 DEF FifoInv, FifoOrder, Distinct
            <7> QED
              BY <7>1, <7>2, <5>4, <5>5, Zenon
          <6> QED
            BY <6>1, <6>2, Zenon
        <5>10. \A m \in Node \ Pushed' : list'.next[m] = NULL
          <6> SUFFICES ASSUME NEW m \in Node, m \notin Pushed'
                       PROVE  list'.next[m] = NULL
            BY Zenon
          <6>1. \A i \in 1..(Len(fifo) + 1) : fifo'[i] # m
            BY <5>4, Zenon DEF Pushed, Members
          <6>2. m \notin Pushed /\ m # list.tail
            BY <6>1, <5>2, <5>4 DEF Pushed, Members
          <6> QED
            BY <6>2, <5>5, Zenon DEF FifoInv, FifoOrder, Distinct
        <5>11. FifoOrder'
          BY <5>4, <5>7, <5>8, <5>9, <5>10, Zenon DEF FifoOrder, Distinct
        <5> QED
          BY <5>3, <5>11, Zenon DEF FifoInv
      <4> QED
        BY <4>3, <4>4, Zenon
    <3> QED
      BY <3>1, <3>2, Zenon
  <2>2. ASSUME pop PROVE FifoInv'
    <3>1. fifo # <<>> /\ list.head = fifo[1]
      BY <2>2, Zenon DEF pop, Empty, FifoInv, FifoOrder, Distinct
    <3>2. /\ fifo' \in Seq(Node)
          /\ Len(fifo') = Len(fifo) - 1
          /\ \A k \in 1..(Len(fifo) - 1) : fifo'[k] = fifo[k+1]
      BY <2>2, <3>1, WithoutHead, Zenon DEF pop, FifoInv, FifoTypeOK, FifoOrder, Distinct
    <3>3. list' = Pop(list)
      BY <2>2, Zenon DEF pop
    <3>4. /\ Len(fifo) \in Nat /\ 1 <= Len(fifo)
          /\ list.next \in [Node -> Node \cup {NULL}]
          /\ list.head \in Node /\ list.tail \in Node
          /\ list.head = fifo[1]
          /\ list.tail = fifo[Len(fifo)] /\ list.next[list.tail] = NULL
      BY <3>1 DEF FifoInv, FifoTypeOK, FifoOrder, Distinct, Queue
    <3>n. Len(fifo) # 1 => /\ 1 \in 1..(Len(fifo) - 1) /\ 2 \in 1..Len(fifo)
                           /\ Len(fifo) - 1 \in 1..(Len(fifo) - 1)
      <4> DEFINE len == Len(fifo)
      <4>1. len \in Nat /\ 1 <= len
        BY <3>4, Zenon
      <4> HIDE DEF len
      <4>2. len # 1 => /\ 1 \in 1..(len - 1) /\ 2 \in 1..len
                       /\ len - 1 \in 1..(len - 1)
        BY <4>1
      <4> QED
        BY <4>2, Zenon DEF len
    <3>5. \A i \in 1..Len(fifo) : fifo[i] \in Node
      BY DEF FifoInv, FifoTypeOK
    <3>6. \A i, j \in 1..Len(fifo) : fifo[i] = fifo[j] => i = j
      BY Zenon DEF FifoInv, FifoOrder, Distinct
    <3>7. \A i \in 1..(Len(fifo) - 1) : list.next[fifo[i]] = fifo[i+1]
      BY Zenon DEF FifoInv, FifoOrder, Distinct
    <3>8. list.head = list.tail <=> Len(fifo) = 1
      <4>1. 1 \in 1..Len(fifo) /\ Len(fifo) \in 1..Len(fifo)
        BY <3>4
      <4>2. fifo[1] = fifo[Len(fifo)] => 1 = Len(fifo)
        BY <4>1, <3>6, Zenon
      <4> QED
        BY <4>2, <3>4, Zenon
    <3>9. /\ list'.head = IF Len(fifo) = 1 THEN NULL ELSE fifo[2]
          /\ list'.tail = IF Len(fifo) = 1 THEN NULL ELSE list.tail
          /\ list'.next \in [Node -> Node \cup {NULL}]
          /\ list'.next[list.head] = NULL
          /\ \A m \in Node : m # list.head => list'.next[m] = list.next[m]
          /\ list' = [head |-> list'.head, tail |-> list'.tail, next |-> list'.next]
      <4>1. Len(fifo) # 1 => list.next[list.head] = fifo[2]
        BY <3>n, <3>4, <3>7
      <4> QED
        BY <3>3, <3>4, <3>8, <4>1, Zenon DEF Pop
    <3>10. FifoTypeOK'
      <4>1. list'.head \in Node \cup {NULL} /\ list'.tail \in Node \cup {NULL}
        BY <3>n, <3>4, <3>5, <3>9, Zenon
      <4>2. list' \in Queue
        BY <3>9, <4>1, Zenon DEF Queue
      <4> QED
        BY <3>2, <4>2, Zenon DEF FifoTypeOK
    <3>11. \A i, j \in 1..Len(fifo') : fifo'[i] = fifo'[j] => i = j
      BY <3>2, <3>4, <3>6
    <3>e. fifo' = <<>> <=> Len(fifo) = 1
      <4>1. fifo' = <<>> <=> Len(fifo') = 0
        BY <3>2
      <4> QED
        BY <4>1, <3>2, <3>4
    <3>12. fifo' = <<>> => list'.head = NULL /\ list'.tail = NULL
      BY <3>e, <3>9, Zenon
    <3>13. fifo' # <<>> => /\ list'.head = fifo'[1]
                           /\ list'.tail = fifo'[Len(fifo')]
                           /\ list'.next[fifo'[Len(fifo')]] = NULL
      <4> SUFFICES ASSUME fifo' # <<>>
                   PROVE  /\ list'.head = fifo'[1]
                          /\ list'.tail = fifo'[Len(fifo')]
                          /\ list'.next[fifo'[Len(fifo')]] = NULL
        BY Zenon
      <4>1. Len(fifo) # 1
        BY <3>e, Zenon
      <4>2. fifo'[1] = fifo[2] /\ fifo'[Len(fifo')] = list.tail
        <5>1. 1 \in 1..(Len(fifo) - 1) /\ Len(fifo) - 1 \in 1..(Len(fifo) - 1)
          BY <4>1, <3>n, Zenon
        <5>2. fifo'[1] = fifo[1+1] /\ fifo'[Len(fifo) - 1] = fifo[Len(fifo) - 1 + 1]
          BY <5>1, <3>2, Zenon
        <5>3. 1 + 1 = 2 /\ Len(fifo) - 1 + 1 = Len(fifo)
          BY <3>4
        <5> QED
          BY <5>2, <5>3, <3>2, <3>4, Zenon
      <4>3. list.tail # list.head
        BY <4>1, <3>8, Zenon
      <4> QED
        BY <4>1, <4>2, <4>3, <3>4, <3>9, Zenon
    <3>14. \A i \in 1..(Len(fifo') - 1) : list'.next[fifo'[i]] = fifo'[i+1]
      <4> SUFFICES ASSUME NEW i \in 1..(Len(fifo) - 2)
                   PROVE  list'.next[fifo'[i]] = fifo'[i+1]
        BY <3>2, <3>4
      <4>1. /\ i + 1 \in 1..(Len(fifo) - 1) /\ i + 1 \in 1..Len(fifo)
            /\ fifo'[i] = fifo[i+1] /\ fifo'[i+1] = fifo[i+2]
        BY <3>2, <3>4
      <4>2. fifo[i+1] # list.head
        BY <4>1, <3>1, <3>4, <3>6
      <4>3. list.next[fifo[i+1]] = fifo[i+2]
        BY <4>1, <3>4, <3>7
      <4> QED
        BY <4>1, <4>2, <4>3, <3>5, <3>9, Zenon
    <3>15. \A m \in Node \ Pushed' : list'.next[m] = NULL
      <4> SUFFICES ASSUME NEW m \in Node, m \notin Pushed', m # list.head
                   PROVE  list.next[m] = NULL
        BY <3>9, Zenon
      <4>1. \A k \in 1..(Len(fifo) - 1) : fifo[k+1] # m
        BY <3>2, <3>4, Zenon DEF Pushed, Members
      <4>2. \A k \in 1..Len(fifo) : fifo[k] # m
        BY <4>1, <3>1, <3>4
      <4> QED
        BY <4>2, Zenon DEF Pushed, Members, FifoInv, FifoOrder, Distinct
    <3>16. FifoOrder'
      BY <3>11, <3>12, <3>13, <3>14, <3>15, Zenon DEF FifoOrder, Distinct
    <3> QED
      BY <3>10, <3>16, Zenon DEF FifoInv
  <2>3. ASSUME UNCHANGED fifoVars PROVE FifoInv'
    BY <2>3, Zenon DEF FifoInv, fifoVars, FifoTypeOK, FifoOrder, Distinct, Pushed, Members
  <2> QED
    BY <2>1, <2>2, <2>3, Zenon DEF FifoNext, remove
<1>3. (pristine => FifoInv) => Represents
  BY Zenon DEF FifoInv, Represents
<1> QED
  BY <1>1, <1>2, <1>3, PTL DEF FifoSpec

\* The walk meets nodes of the queue only, and the links form a chain.
WalkInv == FifoTypeOK /\ Distinct(fifo) /\ Chain(list) /\ NoStaleNode

(***************************************************************************)
(* The walk from _head never meets a node that was popped or removed and   *)
(* not pushed again: the link such a node keeps after remove is not on the *)
(* way from the head, and the stale _tail that remove leaves behind is not *)
(* either when the next push links the new node to it.                     *)
(***************************************************************************)
THEOREM NoNodeIsStale == FifoSpec => []NoStaleNode
<1>1. FifoInit => WalkInv
  <2> SUFFICES ASSUME FifoInit PROVE WalkInv
    BY Zenon
  <2>1. list \in Queue /\ fifo \in Seq(Node) /\ Distinct(fifo)
    BY DEF FifoInit, EmptyQueue, Queue, Distinct
  <2>2. Closed(list, {}) /\ list.head = NULL
    BY Zenon DEF FifoInit, EmptyQueue, Closed
  <2>3. Reached(list) = {}
    BY <2>1, <2>2, ReachedIsLeast, Zenon
  <2> QED BY <2>1, <2>3, Zenon DEF WalkInv, FifoTypeOK, Chain, NoStaleNode
<1>2. WalkInv /\ [FifoNext]_fifoVars => WalkInv'
  <2> SUFFICES ASSUME WalkInv, [FifoNext]_fifoVars PROVE WalkInv'
    BY Zenon
  <2>0. list \in Queue /\ fifo \in Seq(Node) /\ Distinct(fifo) /\ Chain(list)
        /\ Reached(list) \subseteq Members(fifo)
    BY Zenon DEF WalkInv, FifoTypeOK, NoStaleNode, Pushed
  <2>1. ASSUME NEW n \in Node, push(n) PROVE WalkInv'
    <3>1. list' \in Queue /\ Chain(list') /\ Reached(list') \subseteq Reached(list) \cup {n}
      BY <2>0, <2>1, PushTypes, ReachedPush, Zenon DEF push
    <3>2. fifo' \in Seq(Node) /\ Distinct(fifo') /\ Members(fifo') = Members(fifo) \cup {n}
      <4>1. CASE n \in Members(fifo)
        BY <2>0, <2>1, <4>1, Zenon DEF push, Pushed
      <4>2. CASE n \notin Members(fifo)
        <5>1. fifo' = Append(fifo, n)
          BY <2>1, <4>2, Zenon DEF push, Pushed
        <5>2. /\ fifo' \in Seq(Node) /\ Len(fifo') = Len(fifo) + 1 /\ Len(fifo) \in Nat
              /\ fifo'[Len(fifo) + 1] = n /\ \A k \in 1..Len(fifo) : fifo'[k] = fifo[k]
          BY <2>0, <5>1
        <5>3. \A k \in 1..(Len(fifo) + 1) : k \in 1..Len(fifo) \/ k = Len(fifo) + 1
          BY <5>2
        <5>4. \A k \in 1..Len(fifo) : k \in 1..(Len(fifo) + 1) /\ k # Len(fifo) + 1
          BY <5>2
        <5>5. Len(fifo) + 1 \in 1..(Len(fifo) + 1)
          BY <5>2
        <5>6. Members(fifo') = Members(fifo) \cup {n}
          BY <5>2, <5>3, <5>4, <5>5, Zenon DEF Members
        <5>7. Distinct(fifo')
          BY <2>0, <4>2, <5>2, <5>3, <5>4, Zenon DEF Members, Distinct
        <5> QED BY <5>2, <5>6, <5>7, Zenon
      <4> QED BY <4>1, <4>2, Zenon
    <3> QED BY <2>0, <3>1, <3>2, Zenon DEF WalkInv, FifoTypeOK, NoStaleNode, Pushed
  <2>2. ASSUME pop PROVE WalkInv'
    <3>1. /\ list' \in Queue /\ Chain(list')
          /\ Reached(list') \subseteq Reached(list) \ {list.head}
      BY <2>0, <2>2, PopTypes, ReachedPop, Zenon DEF pop
    <3>2. /\ fifo' \in Seq(Node) /\ Distinct(fifo')
          /\ Members(fifo') = Members(fifo) \ {list.head}
      BY <2>0, <2>2, WithoutMembers, Zenon DEF pop
    <3> QED BY <2>0, <3>1, <3>2, Zenon DEF WalkInv, FifoTypeOK, NoStaleNode, Pushed
  <2>3. ASSUME NEW n \in Removable, remove(n) PROVE WalkInv'
    <3>0. n \in Node
      BY RemovableNodes, Zenon
    <3>1. list' \in Queue /\ Chain(list') /\ Reached(list') \subseteq Reached(list) \ {n}
      BY <2>0, <2>3, <3>0, RemoveTypes, ReachedRemove, Zenon DEF remove
    <3>2. /\ fifo' \in Seq(Node) /\ Distinct(fifo')
          /\ Members(fifo') = Members(fifo) \ {n}
      BY <2>0, <2>3, WithoutMembers, Zenon DEF remove
    <3> QED BY <2>0, <3>1, <3>2, Zenon DEF WalkInv, FifoTypeOK, NoStaleNode, Pushed
  <2>4. ASSUME UNCHANGED fifoVars PROVE WalkInv'
    BY <2>4, Zenon DEF fifoVars, WalkInv, FifoTypeOK, NoStaleNode, Pushed
  <2> QED BY <2>1, <2>2, <2>3, <2>4, Zenon DEF FifoNext
<1> QED
  BY <1>1, <1>2, PTL DEF FifoSpec, WalkInv

-----------------------------------------------------------------------------
(* The work queue.                                                         *)

(***************************************************************************)
(* Who is attached and who holds the lock, by the position of the owners;  *)
(* and a worker that left its loop was asked to.                           *)
(***************************************************************************)
Positions ==
  /\ \A i \in Item : i \in workItems <=> opc[i] \in {"in", "nulled", "removed"}
  /\ \A i \in Item : qlock = i <=> opc[i] \in {"signal", "post"}
  /\ wpc \in {"exited", "destroyed"} => shouldExit
  /\ \A t \in Thread : cpc[t] = "checked" => citem[t] \in Item

IInv == /\ TypeOK /\ Positions
        /\ NoLostWakeup /\ StopIsHeard /\ AttachedKeepsRunning /\ DetachBeforeDestroy

\* A new queue has no item, no wake-up and a worker that is about to look.
LEMMA Initially == Init => IInv
<1> SUFFICES ASSUME Init PROVE IInv
  BY Zenon
<1>1. TypeOK
  BY Zenon DEF Init, TypeOK, Queue, EmptyQueue
<1>2. Positions
  BY NullIsNoNode, Zenon DEF Init, Positions, Item
<1>3. NoLostWakeup /\ StopIsHeard /\ AttachedKeepsRunning /\ DetachBeforeDestroy
  BY Zenon DEF Init, NoLostWakeup, StopIsHeard, AttachedKeepsRunning, DetachBeforeDestroy,
     EmptyQueue, Empty
<1> QED
  BY <1>1, <1>2, <1>3, Zenon DEF IInv

\* ScheduleNow: the test of _wq changes only the caller's position.
LEMMA ScheduleStep ==
  ASSUME IInv, NEW t \in Thread, NEW i \in Item, ScheduleNow(t, i)
  PROVE  IInv'
<1> USE DEF IInv, ScheduleNow, itemVars
<1>1. TypeOK'
  BY Zenon DEF TypeOK
<1>2. Positions'
  BY Zenon DEF TypeOK, Positions
<1>3. NoLostWakeup' /\ StopIsHeard' /\ AttachedKeepsRunning' /\ DetachBeforeDestroy'
  BY Zenon DEF TypeOK, NoLostWakeup, StopIsHeard, AttachedKeepsRunning, DetachBeforeDestroy, Signalling
<1> QED
  BY <1>1, <1>2, <1>3, Zenon

\* Add and signal_worker_thread.
LEMMA CallerSteps ==
  ASSUME IInv, NEW t \in Thread, CallerStep(t)
  PROVE  IInv'
<1> USE DEF IInv, itemVars
<1>1. CASE Add(t)
  <2>1. citem[t] \in Item /\ q' = Push(q, citem[t])
    BY <1>1, Zenon DEF Positions, Add
  <2>2. q' \in Queue
    BY <2>1, PushTypes, Zenon DEF TypeOK, Item
  <2>3. TypeOK'
    BY <1>1, <2>2, Zenon DEF TypeOK, Add
  <2>4. Positions'
    BY <1>1, Zenon DEF TypeOK, Positions, Add
  <2>5. cpc'[t] = "pushed"
    BY <1>1, Zenon DEF TypeOK, Add
  <2>6. NoLostWakeup' /\ StopIsHeard'
    BY <2>5, Zenon DEF NoLostWakeup, StopIsHeard, Signalling
  <2>7. AttachedKeepsRunning' /\ DetachBeforeDestroy'
    BY <1>1, Zenon DEF AttachedKeepsRunning, DetachBeforeDestroy, Add
  <2> QED
    BY <2>3, <2>4, <2>6, <2>7, Zenon
<1>2. CASE AddSignal(t)
  <2>1. TypeOK' /\ Positions'
    BY <1>2, Zenon DEF TypeOK, Positions, AddSignal
  <2>2. sem' > 0 \/ cpc'[t] = "post"
    BY <1>2 DEF TypeOK, AddSignal
  <2>3. NoLostWakeup' /\ StopIsHeard'
    BY <2>2, Zenon DEF NoLostWakeup, StopIsHeard, Signalling
  <2>4. AttachedKeepsRunning' /\ DetachBeforeDestroy'
    BY <1>2, Zenon DEF AttachedKeepsRunning, DetachBeforeDestroy, AddSignal
  <2> QED
    BY <2>1, <2>3, <2>4, Zenon
<1>3. CASE AddPost(t)
  <2>1. TypeOK' /\ Positions'
    BY <1>3 DEF TypeOK, Positions, AddPost
  <2>2. sem' > 0
    BY <1>3 DEF TypeOK, AddPost
  <2>3. NoLostWakeup' /\ StopIsHeard'
    BY <2>2, Zenon DEF NoLostWakeup, StopIsHeard
  <2>4. AttachedKeepsRunning' /\ DetachBeforeDestroy'
    BY <1>3, Zenon DEF AttachedKeepsRunning, DetachBeforeDestroy, AddPost
  <2> QED
    BY <2>1, <2>3, <2>4, Zenon
<1> QED
  BY <1>1, <1>2, <1>3, Zenon DEF CallerStep

\* The owner of an item: Attach, Deinit and Detach.
LEMMA OwnerSteps ==
  ASSUME IInv, NEW i \in Item, Attach(i) \/ Deinit(i) \/ OwnerStep(i)
  PROVE  IInv'
<1> USE NullIsNoNode DEF IInv, callVars
<1>1. CASE Attach(i)
  <2>1. TypeOK' /\ Positions'
    BY <1>1, Zenon DEF TypeOK, Positions, Attach, Item
  <2>2. NoLostWakeup' /\ StopIsHeard'
    BY <1>1, Zenon DEF NoLostWakeup, StopIsHeard, Attach
  <2>3. AttachedKeepsRunning' /\ DetachBeforeDestroy'
    BY <1>1, Zenon DEF TypeOK, Positions, AttachedKeepsRunning, DetachBeforeDestroy, Attach
  <2> QED
    BY <2>1, <2>2, <2>3, Zenon
<1>2. CASE Deinit(i)
  <2>1. TypeOK' /\ Positions'
    BY <1>2, Zenon DEF TypeOK, Positions, Deinit, Item
  <2>2. NoLostWakeup' /\ StopIsHeard'
    BY <1>2, Zenon DEF TypeOK, NoLostWakeup, StopIsHeard, Signalling, Deinit
  <2>3. AttachedKeepsRunning' /\ DetachBeforeDestroy'
    BY <1>2, Zenon DEF TypeOK, AttachedKeepsRunning, DetachBeforeDestroy, Deinit
  <2> QED
    BY <2>1, <2>2, <2>3, Zenon
<1>3. CASE DeinitRemove(i)
  <2>1. q' \in Queue /\ (Empty(q) => Empty(q'))
    BY <1>3, RemoveTypes, RemoveKeepsEmpty, Zenon DEF TypeOK, DeinitRemove, Item
  <2>2. TypeOK' /\ Positions'
    BY <1>3, <2>1, Zenon DEF TypeOK, Positions, DeinitRemove, Item
  <2>3. NoLostWakeup' /\ StopIsHeard'
    BY <1>3, <2>1, Zenon DEF TypeOK, NoLostWakeup, StopIsHeard, Signalling, DeinitRemove
  <2>4. AttachedKeepsRunning' /\ DetachBeforeDestroy'
    BY <1>3, Zenon DEF TypeOK, AttachedKeepsRunning, DetachBeforeDestroy, DeinitRemove
  <2> QED
    BY <2>2, <2>3, <2>4, Zenon
<1>4. CASE Detach(i)
  <2>1. TypeOK'
    BY <1>4, Zenon DEF TypeOK, Detach, Item
  <2>2. Positions'
    BY <1>4 DEF TypeOK, Positions, Detach, Item
  <2>3. NoLostWakeup'
    BY <1>4, Zenon DEF NoLostWakeup, Detach
  <2>4. StopIsHeard'
    BY <1>4, Zenon DEF TypeOK, StopIsHeard, Signalling, Detach
  <2>5. AttachedKeepsRunning' /\ DetachBeforeDestroy'
    BY <1>4, Zenon DEF TypeOK, AttachedKeepsRunning, DetachBeforeDestroy, Detach
  <2> QED
    BY <2>1, <2>2, <2>3, <2>4, <2>5, Zenon
<1>5. CASE DetachSignal(i) \/ DetachPost(i)
  <2>1. TypeOK'
    BY <1>5 DEF TypeOK, DetachSignal, DetachPost, Item
  <2>2. Positions'
    BY <1>5 DEF TypeOK, Positions, DetachSignal, DetachPost, Item
  <2>3. sem' > 0 \/ opc'[i] = "post"
    BY <1>5 DEF TypeOK, DetachSignal, DetachPost
  <2>4. NoLostWakeup' /\ StopIsHeard'
    BY <1>5, <2>3, Zenon DEF TypeOK, NoLostWakeup, StopIsHeard, Signalling, DetachSignal, DetachPost
  <2>5. AttachedKeepsRunning' /\ DetachBeforeDestroy'
    BY <1>5 DEF TypeOK, AttachedKeepsRunning, DetachBeforeDestroy, DetachSignal, DetachPost
  <2> QED
    BY <2>1, <2>2, <2>4, <2>5, Zenon
<1> QED
  BY <1>1, <1>2, <1>3, <1>4, <1>5, Zenon DEF OwnerStep

\* The worker thread: Run and the destructor.
LEMMA WorkerSteps ==
  ASSUME IInv, WorkerStep
  PROVE  IInv'
<1> USE DEF IInv, itemVars, callVars
<1>1. CASE Check \/ RunDone
  <2>1. TypeOK' /\ Positions'
    BY <1>1, Zenon DEF TypeOK, Positions, Check, RunDone
  <2>2. NoLostWakeup' /\ StopIsHeard'
    BY <1>1 DEF NoLostWakeup, StopIsHeard, Signalling, Check, RunDone
  <2>3. AttachedKeepsRunning' /\ DetachBeforeDestroy'
    BY <1>1 DEF AttachedKeepsRunning, DetachBeforeDestroy, Check, RunDone
  <2> QED
    BY <2>1, <2>2, <2>3, Zenon
<1>2. CASE Wait
  <2>1. TypeOK' /\ Positions'
    BY <1>2 DEF TypeOK, Positions, Wait
  <2>2. NoLostWakeup' /\ StopIsHeard' /\ AttachedKeepsRunning' /\ DetachBeforeDestroy'
    BY <1>2, Zenon DEF NoLostWakeup, StopIsHeard, AttachedKeepsRunning, DetachBeforeDestroy, Wait
  <2> QED
    BY <2>1, <2>2, Zenon
<1>3. CASE Take
  <2>1. q' \in Queue /\ running' \in Item \cup {NULL}
    <3>1. q \in Queue
      BY Zenon DEF TypeOK
    <3>2. CASE Empty(q)
      BY <1>3, <3>1, <3>2, Zenon DEF Take
    <3>3. CASE ~Empty(q)
      <4>1. q.head \in Node /\ Pop(q) \in Queue
        BY <3>1, <3>3, PopTypes, Zenon
      <4> QED
        BY <1>3, <3>3, <4>1, Zenon DEF Take, Item
    <3> QED
      BY <3>2, <3>3, Zenon
  <2>2. TypeOK' /\ Positions'
    BY <1>3, <2>1, Zenon DEF TypeOK, Positions, Take
  <2>3. NoLostWakeup' /\ StopIsHeard' /\ AttachedKeepsRunning' /\ DetachBeforeDestroy'
    BY <1>3, Zenon DEF NoLostWakeup, StopIsHeard, AttachedKeepsRunning, DetachBeforeDestroy, Take
  <2> QED
    BY <2>2, <2>3, Zenon
<1>4. CASE Destroy
  <2>1. TypeOK' /\ Positions'
    BY <1>4, Zenon DEF TypeOK, Positions, Destroy
  <2>2. NoLostWakeup' /\ StopIsHeard' /\ AttachedKeepsRunning'
    BY <1>4, Zenon DEF NoLostWakeup, StopIsHeard, AttachedKeepsRunning, Destroy
  <2>3. DetachBeforeDestroy'
    BY <1>4, NullIsNoNode, Zenon
       DEF TypeOK, Positions, AttachedKeepsRunning, DetachBeforeDestroy, Destroy, Item
  <2> QED
    BY <2>1, <2>2, <2>3, Zenon
<1> QED
  BY <1>1, <1>2, <1>3, <1>4, Zenon DEF WorkerStep

(***************************************************************************)
(* The inductive invariant: every item in the queue and every request to   *)
(* stop is backed by a posted semaphore, a post still to come, or a worker *)
(* that is awake.                                                          *)
(***************************************************************************)
THEOREM Invariance == Spec => []IInv
<1>1. IInv /\ [Next]_vars => IInv'
  <2> SUFFICES ASSUME IInv, [Next]_vars PROVE IInv'
    BY Zenon
  <2>1. CASE UNCHANGED vars
    BY <2>1, Zenon DEF vars, IInv, TypeOK, Positions, NoLostWakeup, StopIsHeard, Signalling,
       AttachedKeepsRunning, DetachBeforeDestroy
  <2> QED
    BY <2>1, ScheduleStep, CallerSteps, OwnerSteps, WorkerSteps, Zenon DEF Next, Stopped
<1> QED
  BY <1>1, Initially, PTL DEF Spec

\* Every reachable state of the queue is well typed.
THEOREM TypeCorrect == Spec => []TypeOK
BY Invariance, PTL DEF IInv

\* No wake-up is lost, whatever the interleaving of Add, Remove and Run.
THEOREM WakeupsAreKept == Spec => []NoLostWakeup
BY Invariance, PTL DEF IInv

\* The worker never sleeps through the request to stop of the last Detach.
THEOREM StopsAreHeard == Spec => []StopIsHeard
BY Invariance, PTL DEF IInv

\* No item is attached to a queue that is told to stop or whose worker left.
THEOREM AttachIsSafe == Spec => []AttachedKeepsRunning
BY Invariance, PTL DEF IInv

\* The last Detach is over before the queue is destroyed.
THEOREM DetachIsSafe == Spec => []DetachBeforeDestroy
BY Invariance, PTL DEF IInv
=============================================================================
