------------------------------ MODULE DeviceNode ------------------------------
(***************************************************************************)
(* One uORB topic instance: the DeviceNode with its ring of messages, the  *)
(* publishers that advertise and write it, and the readers, each with a    *)
(* generation of its own.  A reader in Handle uses the file descriptor     *)
(* interface (orb_subscribe, orb_check, orb_copy), the others are          *)
(* uORB::Subscription objects.                                             *)
(*                                                                         *)
(* A message is its number in the order of publication.  A region between  *)
(* ATOMIC_ENTER and ATOMIC_LEAVE, or between lock and unlock, is one step. *)
(* The history variables published, seen, got and skipped say what really  *)
(* happened to the messages; the code has no access to them.               *)
(***************************************************************************)
EXTENDS Integers

CONSTANTS Publisher, Subscriber,
          Handle,      \* the subscribers with a file descriptor
          MaxQueue,    \* the queue sizes advertised are 1..MaxQueue
          GenMod,      \* the generation counters are unsigned: 2^32 in the code
          FreeTries, TryEvery,   \* 1000 and 100 in Subscription::init
          MaxPub, MaxTries       \* bounds on publications and on failed init()s

ASSUME NodeConstants ==
  /\ MaxQueue \in Nat \ {0} /\ GenMod \in Nat \ {0}
  /\ FreeTries \in Nat /\ TryEvery \in Nat \ {0}
  /\ MaxPub \in Nat /\ MaxTries \in Nat
  /\ Handle \subseteq Subscriber

VARIABLES created,       \* the node exists
          queueSize,     \* _queue_size
          allocated,     \* _data is not null
          data,          \* the ring, by slot
          generation,    \* _generation
          advertised,    \* _advertised
          lostMessages,  \* _lost_messages
          ppc,           \* where a publisher is
          node,          \* node[s]: the subscriber's _node is set
          lastGen,       \* _last_generation, or generation of the SubscriberData
          rpc,           \* where a subscriber is in update() or copy()
          published,     \* number of messages written so far
          seen,          \* the newest message the subscriber got, or its start
          got,           \* what is in the subscriber's buffer
          skipped        \* messages that subscribers missed, in total

nodeVars == <<created, queueSize, allocated, data, generation, advertised, published>>
readVars == <<node, lastGen, rpc, seen, got, skipped, lostMessages>>
vars == <<nodeVars, ppc, readVars>>

Uninit == 0       \* the content of a slot nobody wrote
Zeros == -1       \* the content of a buffer nobody copied into
Wrap(g) == g % GenMod
Least(a, b) == IF a < b THEN a ELSE b

TypeOK ==
  /\ created \in BOOLEAN /\ allocated \in BOOLEAN /\ advertised \in BOOLEAN
  /\ queueSize \in 1..MaxQueue
  /\ data \in [0..MaxQueue-1 -> 0..MaxPub]
  /\ generation \in 0..GenMod-1
  /\ lostMessages \in Nat
  /\ ppc \in [Publisher -> {"out", "opened", "publish", "write", "in"}]
  /\ node \in [Subscriber -> BOOLEAN]
  /\ lastGen \in [Subscriber -> 0..GenMod-1]
  /\ rpc \in [Subscriber -> {"idle", "update", "copy"}]
  /\ published \in 0..MaxPub
  /\ seen \in [Subscriber -> 0..MaxPub]
  /\ got \in [Subscriber -> Zeros..MaxPub]
  /\ skipped \in Nat

Init ==
  /\ created = FALSE /\ queueSize = 1 /\ allocated = FALSE
  /\ data = [i \in 0..MaxQueue-1 |-> Uninit]
  /\ generation = 0 /\ advertised = FALSE /\ lostMessages = 0
  /\ ppc = [p \in Publisher |-> "out"]
  /\ node = [s \in Subscriber |-> FALSE]
  /\ lastGen = [s \in Subscriber |-> 0]
  /\ rpc = [s \in Subscriber |-> "idle"]
  /\ published = 0
  /\ seen = [s \in Subscriber |-> 0]
  /\ got = [s \in Subscriber |-> Zeros]
  /\ skipped = 0

-----------------------------------------------------------------------------
(***************************************************************************)
(* Publishers: orb_advertise_multi opens the node, sets the queue size and *)
(* publishes; later orb_publish only writes.  write allocates the ring in  *)
(* a locked region of its own before the one that stores the message.      *)
(***************************************************************************)
Advertise(p) ==
  /\ ppc[p] = "out"
  /\ created' = TRUE /\ advertised' = TRUE
  /\ ppc' = [ppc EXCEPT ![p] = "opened"]
  /\ UNCHANGED <<queueSize, allocated, data, generation, published, readVars>>

\* Mutant: the queue may be resized after the ring is allocated.
ResizeAllocated(n) == IF queueSize > n THEN queueSize ELSE n

UpdatedQueueSize(n) == IF allocated \/ queueSize > n THEN queueSize ELSE n

SetQueueSize(p, n) ==
  /\ ppc[p] = "opened"
  /\ queueSize' = UpdatedQueueSize(n)
  /\ ppc' = [ppc EXCEPT ![p] = "publish"]
  /\ UNCHANGED <<created, allocated, data, generation, advertised, published, readVars>>

Publish(p) ==
  /\ ppc[p] = "in"
  /\ ppc' = [ppc EXCEPT ![p] = "publish"]
  /\ UNCHANGED <<nodeVars, readVars>>

Allocate(p) ==
  /\ ppc[p] = "publish"
  /\ allocated' = TRUE
  /\ ppc' = [ppc EXCEPT ![p] = "write"]
  /\ UNCHANGED <<created, queueSize, data, generation, advertised, published, readVars>>

Write(p) ==
  /\ ppc[p] = "write" /\ published < MaxPub
  /\ data' = [data EXCEPT ![generation % queueSize] = published + 1]
  /\ generation' = Wrap(generation + 1)
  /\ published' = published + 1
  /\ ppc' = [ppc EXCEPT ![p] = "in"]
  /\ UNCHANGED <<created, queueSize, allocated, advertised, readVars>>

Unadvertise(p) ==
  /\ ppc[p] = "in"
  /\ advertised' = FALSE
  /\ ppc' = [ppc EXCEPT ![p] = "out"]
  /\ UNCHANGED <<created, queueSize, allocated, data, generation, published, readVars>>

-----------------------------------------------------------------------------
(***************************************************************************)
(* Subscribing.  A Subscription looks for the node whenever it is used and *)
(* counts the failures in _last_generation; orb_subscribe creates the node.*)
(***************************************************************************)

\* Mutant: the failed attempts are left in _last_generation.
StartAtTries(s) == lastGen[s]

\* Where a new subscriber starts: at most queueSize messages back.
Start(s) == generation - Least(queueSize, generation)

Subscribed(s) ==
  /\ node' = [node EXCEPT ![s] = TRUE]
  /\ lastGen' = [lastGen EXCEPT ![s] = Start(s)]
  /\ seen' = [seen EXCEPT ![s] = published - Least(queueSize, generation)]
  /\ UNCHANGED <<rpc, got, skipped, lostMessages>>

InitSubscription(s) ==
  /\ s \notin Handle /\ ~node[s]
  /\ IF created /\ (lastGen[s] < FreeTries \/ lastGen[s] % TryEvery = 0)
     THEN Subscribed(s)
     ELSE /\ lastGen[s] < MaxTries
          /\ lastGen' = [lastGen EXCEPT ![s] = Wrap(@ + 1)]
          /\ UNCHANGED <<node, rpc, seen, got, skipped, lostMessages>>
  /\ UNCHANGED <<nodeVars, ppc>>

OrbSubscribe(s) ==
  /\ s \in Handle /\ ~node[s]
  /\ created' = TRUE
  /\ Subscribed(s)
  /\ UNCHANGED <<queueSize, allocated, data, generation, advertised, published, ppc>>

Unsubscribe(s) ==
  /\ node[s] /\ rpc[s] = "idle"
  /\ node' = [node EXCEPT ![s] = FALSE]
  /\ lastGen' = [lastGen EXCEPT ![s] = 0]
  /\ UNCHANGED <<nodeVars, ppc, rpc, seen, got, skipped, lostMessages>>

-----------------------------------------------------------------------------
(***************************************************************************)
(* Reading.  update() is updated() and then copy(); copy() may be called   *)
(* on its own.  Both look at _advertised, the descriptor interface looks   *)
(* at _data instead.                                                       *)
(***************************************************************************)
Visible(s) == IF s \in Handle THEN allocated ELSE advertised

Updated(s) == Visible(s) /\ generation # lastGen[s]

\* Mutant: a reader that is too far behind is not moved forward.
CopyNoCatchUp(g) ==
  LET g2 == IF generation = g /\ g > 0 THEN g - 1 ELSE g
  IN  [msg |-> data[g2 % queueSize], lost |-> 0,
       gen |-> IF g2 < generation THEN g2 + 1 ELSE g2]

(***************************************************************************)
(* copy_locked for a reader at generation g, on a ring that is allocated.  *)
(***************************************************************************)
CopyLocked(g) ==
  LET behind == generation > Wrap(g + queueSize)
      g1 == IF behind THEN Wrap(GenMod + generation - queueSize) ELSE g
      g2 == IF generation = g1 /\ g1 > 0 THEN g1 - 1 ELSE g1
  IN  [msg |-> data[g2 % queueSize],
       lost |-> IF behind THEN generation - Wrap(g + queueSize) ELSE 0,
       gen |-> IF g2 < generation THEN g2 + 1 ELSE g2]

CallUpdate(s) ==
  /\ node[s] /\ rpc[s] = "idle" /\ Updated(s)
  /\ rpc' = [rpc EXCEPT ![s] = "update"]
  /\ UNCHANGED <<nodeVars, ppc, node, lastGen, seen, got, skipped, lostMessages>>

CallCopy(s) ==
  /\ node[s] /\ rpc[s] = "idle"
  /\ rpc' = [rpc EXCEPT ![s] = "copy"]
  /\ UNCHANGED <<nodeVars, ppc, node, lastGen, seen, got, skipped, lostMessages>>

Copy(s) ==
  /\ rpc[s] # "idle"
  /\ rpc' = [rpc EXCEPT ![s] = "idle"]
  /\ IF Visible(s) /\ allocated
     THEN LET c == CopyLocked(lastGen[s])
          IN  /\ lastGen' = [lastGen EXCEPT ![s] = c.gen]
              /\ lostMessages' = lostMessages + c.lost
              /\ got' = [got EXCEPT ![s] = c.msg]
              /\ IF c.msg > seen[s]
                 THEN /\ seen' = [seen EXCEPT ![s] = c.msg]
                      /\ skipped' = skipped + (c.msg - seen[s] - 1)
                 ELSE UNCHANGED <<seen, skipped>>
     ELSE UNCHANGED <<lastGen, lostMessages, got, seen, skipped>>
  /\ UNCHANGED <<nodeVars, ppc, node>>

-----------------------------------------------------------------------------
PublisherStep(p) ==
  \/ Advertise(p) \/ Publish(p) \/ Allocate(p) \/ Write(p) \/ Unadvertise(p)
  \/ \E n \in 1..MaxQueue : SetQueueSize(p, n)

SubscriberStep(s) ==
  \/ InitSubscription(s) \/ OrbSubscribe(s) \/ Unsubscribe(s)
  \/ CallUpdate(s) \/ CallCopy(s) \/ Copy(s)

Next == \/ \E p \in Publisher : PublisherStep(p)
        \/ \E s \in Subscriber : SubscriberStep(s)

Spec == Init /\ [][Next]_vars

-----------------------------------------------------------------------------
(***************************************************************************)
(* updated() is exact: it says so if and only if a message was published   *)
(* that the subscriber has neither been given nor been passed over.  This  *)
(* ties the generation of a reader, which also counts failed attempts to   *)
(* subscribe, to the messages themselves.                                  *)
(***************************************************************************)
UpdatedIsExact ==
  \A s \in Subscriber : node[s] => (generation # lastGen[s] <=> seen[s] < published)

(***************************************************************************)
(* Every message a subscriber misses is counted in _lost_messages, and     *)
(* nothing else is.                                                        *)
(***************************************************************************)
LostIsExact == lostMessages = skipped

Delivers(s) == rpc[s] # "idle" /\ rpc'[s] = "idle" /\ Visible(s) /\ allocated

(***************************************************************************)
(* A subscriber never gets a message older than one it got before: what a  *)
(* copy delivers is the newest message the subscriber has seen so far.     *)
(***************************************************************************)
DeliversInOrder == [][\A s \in Subscriber : Delivers(s) => got'[s] = seen'[s]]_vars

(***************************************************************************)
(* A copy delivers one of the last queueSize messages, once there is a     *)
(* message: never an overwritten one, never a slot that was not written.   *)
(***************************************************************************)
DeliversRecent ==
  [][\A s \in Subscriber :
        Delivers(s) /\ published > 0 =>
          got'[s] \in 1..published /\ got'[s] > published - queueSize]_vars

(***************************************************************************)
(* What update() delivers is new to the subscriber, although other         *)
(* publications come in between its test and its copy.                     *)
(***************************************************************************)
UpdateIsNew ==
  [][\A s \in Subscriber :
        Delivers(s) /\ rpc[s] = "update" => got'[s] > seen[s]]_vars
=============================================================================
