--------------------------- MODULE DeviceNodeProofs ---------------------------
(***************************************************************************)
(* Proofs about DeviceNode, for any number of publishers and subscribers   *)
(* and any queue size, as long as the generation counter does not wrap.    *)
(***************************************************************************)
EXTENDS DeviceNode, TLAPS

\* The counter cannot reach its width: fewer than 2^32 publications.
NoWrap == MaxPub + MaxQueue < GenMod

\* The ring holds the last queueSize messages, each in its slot.
Ring == \A k \in Nat : k < published /\ published <= k + queueSize
                         => data[k % queueSize] = k + 1

IInv ==
  /\ TypeOK
  /\ generation = published
  /\ ~allocated => published = 0
  /\ published = 0 => data = [i \in 0..MaxQueue-1 |-> Uninit]
  /\ \A p \in Publisher : ppc[p] = "write" => allocated
  /\ \A s \in Subscriber : node[s] => lastGen[s] = seen[s] /\ seen[s] <= published
  /\ \A s \in Subscriber : rpc[s] # "idle" => node[s]
  /\ \A s \in Subscriber : rpc[s] = "update" => seen[s] < published
  /\ Ring
  /\ lostMessages = skipped

-----------------------------------------------------------------------------
\* Division with remainder.
LEMMA DivMod == ASSUME NEW n \in Nat \ {0}, NEW a \in Nat
                PROVE  /\ a = n * (a \div n) + (a % n)
                       /\ a % n \in 0..n-1
                       /\ a \div n \in Nat
  OBVIOUS

\* A multiple of n lies at distance n or more from zero.
LEMMA NoMultiple == ASSUME NEW n \in Nat \ {0}, NEW d \in Int, n * d > 0, n * d < n
                    PROVE  FALSE
  <1>1. CASE d <= 0 BY <1>1
  <1>2. CASE d >= 1 BY <1>2
  <1> QED BY <1>1, <1>2

\* Messages fewer than n publications apart are in different slots.
LEMMA SlotsDiffer ==
  ASSUME NEW n \in Nat \ {0}, NEW a \in Nat, NEW b \in Nat, a < b, b < a + n
  PROVE  a % n # b % n
  <1> SUFFICES ASSUME a % n = b % n PROVE FALSE
    BY Zenon
  <1> DEFINE x == a \div n
             y == b \div n
             r == a % n
  <1>1. a = n * x + r /\ x \in Nat /\ r \in Nat
    OBVIOUS
  <1>2. b = n * y + r /\ y \in Nat
    OBVIOUS
  <1> HIDE DEF x, y, r
  <1>3. n * (y - x) = b - a
    BY <1>1, <1>2
  <1> QED BY <1>1, <1>2, <1>3, NoMultiple

\* Counting below the width is plain arithmetic.
LEMMA WrapSmall == ASSUME NEW g \in Nat, g < GenMod PROVE Wrap(g) = g
  BY NodeConstants DEF Wrap

-----------------------------------------------------------------------------
(***************************************************************************)
(* What copy_locked does for a subscriber that has seen message g: it      *)
(* hands out the oldest message that the subscriber has not seen and the   *)
(* ring still holds, or the last message again if there is none.           *)
(***************************************************************************)
LEMMA CopyResult ==
  ASSUME NoWrap, IInv, NEW s \in Subscriber, node[s]
  PROVE  LET c == CopyLocked(lastGen[s])
             g == seen[s]
             from == IF published > g + queueSize THEN published - queueSize ELSE g
         IN  /\ published = 0 => c.msg = 0 /\ c.lost = 0 /\ c.gen = 0
             /\ published > 0 /\ g = published =>
                  c.msg = published /\ c.lost = 0 /\ c.gen = published
             /\ g < published =>
                  c.msg = from + 1 /\ c.lost = from - g /\ c.gen = from + 1
  <1> DEFINE g == seen[s]
             p == published
             n == queueSize
             behind == p > g + n
             g1 == IF behind THEN p - n ELSE g
             g2 == IF p = g1 /\ g1 > 0 THEN g1 - 1 ELSE g1
  <1>0. /\ g \in Nat /\ p \in Nat /\ n \in Nat \ {0} /\ g <= p /\ p <= MaxPub
        /\ n <= MaxQueue /\ lastGen[s] = g /\ generation = p
        /\ MaxPub \in Nat /\ MaxQueue \in Nat /\ GenMod \in Nat \ {0}
    BY NodeConstants DEF IInv, TypeOK
  <1>1. Wrap(g + n) = g + n
    BY <1>0, WrapSmall DEF NoWrap
  <1>2. behind => Wrap(GenMod + p - n) = p - n
    <2>1. ASSUME behind PROVE (GenMod + p - n) % GenMod = p - n
      <3>1. p - n \in Nat /\ p - n < GenMod
        BY <2>1, <1>0 DEF NoWrap
      <3>2. \A m \in Nat : m < GenMod => (GenMod + m) % GenMod = m
        BY <1>0
      <3>3. GenMod + p - n = GenMod + (p - n)
        BY <1>0, Zenon
      <3> QED BY <3>1, <3>2, <3>3, Zenon
    <2> QED BY <2>1, Zenon DEF Wrap
  <1>3. CopyLocked(lastGen[s]) = [msg |-> data[g2 % n],
                                  lost |-> IF behind THEN p - (g + n) ELSE 0,
                                  gen |-> IF g2 < p THEN g2 + 1 ELSE g2]
    BY <1>0, <1>1, <1>2, Zenon DEF CopyLocked
  <1>4. CASE p = 0
    <2>1. g2 = 0 /\ ~behind
      BY <1>4, <1>0
    <2>2. 0 % n = 0 /\ 0 \in 0..MaxQueue-1
      BY <1>0, NodeConstants
    <2>3. data[0] = 0
      BY <1>4, <2>2, Zenon DEF IInv, Uninit
    <2> QED BY <1>3, <1>4, <1>0, <2>1, <2>2, <2>3
  <1>5. CASE p > 0 /\ g = p
    <2>1. g2 = p - 1 /\ ~behind /\ g2 \in Nat /\ g2 < p /\ p <= g2 + n
      BY <1>5, <1>0
    <2>2. data[g2 % n] = p
      BY <2>1, <1>0 DEF IInv, Ring
    <2> QED BY <1>3, <1>5, <1>0, <2>1, <2>2
  <1>6. CASE g < p
    <2>1. g2 = g1 /\ g1 \in Nat /\ g1 < p /\ p <= g1 + n
      BY <1>6, <1>0
    <2>2. data[g2 % n] = g1 + 1
      BY <2>1, <1>0, Zenon DEF IInv, Ring
    <2>3. behind => p - (g + n) = (p - n) - g
      BY <1>0
    <2> QED BY <1>3, <1>6, <1>0, <2>1, <2>2, <2>3
  <1> QED BY <1>0, <1>4, <1>5, <1>6, Zenon

-----------------------------------------------------------------------------
\* At the start there is no node and nobody has read anything.
LEMMA Initially == Init => IInv
  <1> SUFFICES ASSUME Init PROVE IInv
    BY Zenon
  <1>0. /\ 0 \in 0..GenMod-1 /\ 0 \in 0..MaxPub /\ 1 \in 1..MaxQueue
        /\ -1 \in -1..MaxPub
    BY NodeConstants
  <1>1. TypeOK
    BY <1>0, Zenon DEF Init, TypeOK, Uninit, Zeros
  <1> QED BY <1>1 DEF Init, IInv, Ring

\* write: the new message goes to a slot none of the messages kept is in.
LEMMA WriteStep ==
  ASSUME NoWrap, IInv, NEW p \in Publisher, Write(p)
  PROVE  IInv'
  <1>0. /\ published \in Nat /\ published < MaxPub /\ queueSize \in 1..MaxQueue
        /\ generation = published /\ allocated
        /\ MaxPub \in Nat /\ MaxQueue \in Nat /\ GenMod \in Nat \ {0}
    BY NodeConstants DEF IInv, TypeOK, Write
  <1>1. generation' = published + 1 /\ published' = published + 1
    BY <1>0, WrapSmall DEF Write, NoWrap
  <1>2. published % queueSize \in 0..queueSize-1
    BY <1>0, DivMod
  <1>3. published % queueSize \in 0..MaxQueue-1
    BY <1>0, <1>2
  <1>4. data' = [data EXCEPT ![published % queueSize] = published + 1]
    BY <1>0, Zenon DEF Write
  <1>5. TypeOK'
    BY <1>0, <1>1, <1>3, <1>4 DEF IInv, TypeOK, Write, readVars, NoWrap
  <1>6. Ring'
    <2> SUFFICES ASSUME NEW k \in Nat, k < published + 1, published + 1 <= k + queueSize
                 PROVE  data'[k % queueSize] = k + 1
      BY <1>1, Zenon DEF Ring, Write
    <2>1. k % queueSize \in 0..queueSize-1
      BY <1>0, DivMod
    <2>2. k % queueSize \in 0..MaxQueue-1
      BY <1>0, <2>1
    <2>3. CASE k = published
      BY <2>3, <1>3, <1>4, Zenon DEF IInv, TypeOK
    <2>4. CASE k < published
      <3>0. queueSize \in Nat \ {0} /\ published < k + queueSize
        BY <1>0
      <3>1. k % queueSize # published % queueSize
        BY <2>4, <1>0, <3>0, SlotsDiffer, Zenon
      <3>2. data[k % queueSize] = k + 1
        <4>1. published <= k + queueSize
          BY <1>0, <3>0
        <4> QED BY <2>4, <4>1, Zenon DEF IInv, Ring
      <3> QED BY <3>1, <3>2, <2>2, <1>4, Zenon DEF IInv, TypeOK
    <2> QED BY <2>3, <2>4, <1>0
  <1>7. \A s \in Subscriber : seen[s] \in Nat
    BY DEF IInv, TypeOK
  <1>8. /\ \A s \in Subscriber : node[s]' => lastGen[s]' = seen[s]' /\ seen[s]' <= published'
        /\ \A s \in Subscriber : rpc[s]' = "update" => seen[s]' < published'
    BY <1>0, <1>1, <1>7 DEF IInv, Write, readVars
  <1>9. \A o \in Publisher : ppc'[o] = "write" => allocated'
    BY <1>0, Zenon DEF Write
  <1> QED BY <1>0, <1>1, <1>5, <1>6, <1>8, <1>9 DEF IInv, Write, readVars

\* The other steps of a publisher; the queue size changes only before the
\* ring is allocated.
LEMMA PublisherSteps ==
  ASSUME NoWrap, IInv, NEW p \in Publisher, PublisherStep(p)
  PROVE  IInv'
  <1>1. CASE Advertise(p)
    <2>1. TypeOK' BY <1>1, Zenon DEF IInv, TypeOK, Advertise, readVars
    <2> QED BY <2>1, <1>1, Zenon DEF IInv, TypeOK, Advertise, readVars, Ring
  <1>2. CASE Publish(p)
    <2>1. TypeOK' BY <1>2, Zenon DEF IInv, TypeOK, Publish, nodeVars, readVars
    <2> QED BY <2>1, <1>2, Zenon DEF IInv, TypeOK, Publish, nodeVars, readVars, Ring
  <1>3. CASE Allocate(p)
    <2>1. TypeOK' BY <1>3, Zenon DEF IInv, TypeOK, Allocate, readVars
    <2> QED BY <2>1, <1>3, Zenon DEF IInv, TypeOK, Allocate, readVars, Ring
  <1>4. CASE Write(p)
    BY <1>4, WriteStep, Zenon
  <1>5. CASE Unadvertise(p)
    <2>1. TypeOK' BY <1>5, Zenon DEF IInv, TypeOK, Unadvertise, readVars
    <2> QED BY <2>1, <1>5, Zenon DEF IInv, TypeOK, Unadvertise, readVars, Ring
  <1>6. ASSUME NEW n \in 1..MaxQueue, SetQueueSize(p, n) PROVE IInv'
    <2>1. queueSize' \in 1..MaxQueue /\ (allocated => queueSize' = queueSize)
      BY <1>6, Zenon DEF IInv, TypeOK, SetQueueSize, UpdatedQueueSize
    <2>2. TypeOK'
      BY <2>1, <1>6, Zenon DEF IInv, TypeOK, SetQueueSize, readVars
    <2>3. Ring'
      <3>1. CASE allocated
        BY <3>1, <2>1, <1>6, Zenon DEF IInv, Ring, SetQueueSize
      <3>2. CASE ~allocated
        BY <3>2, <1>6 DEF IInv, Ring, SetQueueSize
      <3> QED BY <3>1, <3>2, Zenon
    <2> QED BY <2>2, <2>3, <1>6, Zenon DEF IInv, TypeOK, SetQueueSize, readVars
  <1> QED BY <1>1, <1>2, <1>3, <1>4, <1>5, <1>6, Zenon DEF PublisherStep

\* Subscribing, unsubscribing and the start of a read.
LEMMA SubscribeSteps ==
  ASSUME NoWrap, IInv, NEW s \in Subscriber,
         InitSubscription(s) \/ OrbSubscribe(s) \/ Unsubscribe(s)
           \/ CallUpdate(s) \/ CallCopy(s)
  PROVE  IInv'
  <1>0. /\ published \in 0..MaxPub /\ queueSize \in 1..MaxQueue /\ generation = published
        /\ MaxPub \in Nat /\ MaxQueue \in Nat /\ GenMod \in Nat \ {0}
        /\ seen \in [Subscriber -> 0..MaxPub] /\ lastGen \in [Subscriber -> 0..GenMod-1]
    BY NodeConstants, Zenon DEF IInv, TypeOK
  <1>1. ASSUME Subscribed(s), ~node[s], UNCHANGED <<queueSize, allocated, data, generation,
                 advertised, published, ppc>>, created' \in BOOLEAN
        PROVE  IInv'
    <2> DEFINE from == published - Least(queueSize, generation)
    <2>1. from \in 0..MaxPub /\ from <= published /\ from \in 0..GenMod-1
      BY <1>0 DEF Least, NoWrap
    <2>2. lastGen' = [lastGen EXCEPT ![s] = from] /\ seen' = [seen EXCEPT ![s] = from]
      BY <1>0, <1>1, Zenon DEF Subscribed, Start
    <2>3. TypeOK'
      BY <1>1, <2>1, <2>2 DEF IInv, TypeOK, Subscribed
    <2>4. \A r \in Subscriber : node'[r] => lastGen'[r] = seen'[r] /\ seen'[r] <= published'
      BY <1>0, <1>1, <2>1, <2>2, Zenon DEF IInv, TypeOK, Subscribed
    <2>5. rpc[s] = "idle"
      BY <1>1, Zenon DEF IInv
    <2>6. /\ \A r \in Subscriber : rpc'[r] # "idle" => node'[r]
          /\ \A r \in Subscriber : rpc'[r] = "update" => seen'[r] < published'
      BY <1>1, <2>2, <2>5, Zenon DEF IInv, TypeOK, Subscribed
    <2> QED BY <1>1, <2>3, <2>4, <2>6, Zenon DEF IInv, Ring, Subscribed
  <1>2. CASE InitSubscription(s)
    <2>1. CASE Subscribed(s)
      BY <1>1, <1>2, <2>1, Zenon DEF InitSubscription, nodeVars, IInv, TypeOK
    <2>2. CASE ~Subscribed(s)
      <3>1. /\ ~node[s] /\ lastGen' = [lastGen EXCEPT ![s] = Wrap(@ + 1)]
            /\ UNCHANGED <<node, rpc, seen, got, skipped, lostMessages, nodeVars, ppc>>
        BY <1>2, <2>2, Zenon DEF InitSubscription
      <3>2. Wrap(lastGen[s] + 1) \in 0..GenMod-1
        BY <1>0, DivMod DEF Wrap
      <3>3. TypeOK'
        BY <3>1, <3>2, Zenon DEF IInv, TypeOK, nodeVars
      <3>4. \A r \in Subscriber : node'[r] => lastGen'[r] = seen'[r] /\ seen'[r] <= published'
        BY <1>0, <3>1, Zenon DEF IInv, TypeOK, nodeVars
      <3> QED BY <3>1, <3>3, <3>4, Zenon DEF IInv, Ring, nodeVars
    <2> QED BY <2>1, <2>2, Zenon
  <1>3. CASE OrbSubscribe(s)
    BY <1>1, <1>3, Zenon DEF OrbSubscribe
  <1>4. CASE Unsubscribe(s)
    <2>1. 0 \in 0..GenMod-1
      BY <1>0
    <2>2. TypeOK'
      BY <1>4, <2>1, Zenon DEF IInv, TypeOK, Unsubscribe, nodeVars
    <2>3. \A r \in Subscriber : node'[r] => lastGen'[r] = seen'[r] /\ seen'[r] <= published'
      BY <1>0, <1>4, Zenon DEF IInv, TypeOK, Unsubscribe, nodeVars
    <2>4. \A r \in Subscriber : rpc'[r] # "idle" => node'[r]
      BY <1>4, Zenon DEF IInv, TypeOK, Unsubscribe
    <2> QED BY <1>4, <2>2, <2>3, <2>4, Zenon DEF IInv, Ring, Unsubscribe, nodeVars
  <1>5. CASE CallUpdate(s)
    <2>1. seen[s] < published
      BY <1>0, <1>5 DEF CallUpdate, Updated, IInv
    <2>2. TypeOK'
      BY <1>5, Zenon DEF IInv, TypeOK, CallUpdate, nodeVars
    <2>3. /\ \A r \in Subscriber : rpc'[r] # "idle" => node'[r]
          /\ \A r \in Subscriber : rpc'[r] = "update" => seen'[r] < published'
      BY <1>5, <2>1, Zenon DEF IInv, TypeOK, CallUpdate, nodeVars
    <2> QED BY <1>5, <2>2, <2>3, Zenon DEF IInv, Ring, CallUpdate, nodeVars
  <1>6. CASE CallCopy(s)
    <2>2. TypeOK'
      BY <1>6, Zenon DEF IInv, TypeOK, CallCopy, nodeVars
    <2>3. /\ \A r \in Subscriber : rpc'[r] # "idle" => node'[r]
          /\ \A r \in Subscriber : rpc'[r] = "update" => seen'[r] < published'
      BY <1>6, Zenon DEF IInv, TypeOK, CallCopy, nodeVars
    <2> QED BY <1>6, <2>2, <2>3, Zenon DEF IInv, Ring, CallCopy, nodeVars
  <1> QED BY <1>2, <1>3, <1>4, <1>5, <1>6, Zenon

\* What a copy that finds data changes, in terms of the messages.
LEMMA CopyEffect ==
  ASSUME NoWrap, IInv, NEW s \in Subscriber, Copy(s), Visible(s), allocated
  PROVE  /\ got'[s] = seen'[s]
         /\ lastGen'[s] = seen'[s]
         /\ seen[s] \in 0..published /\ seen'[s] \in 0..published
         /\ seen[s] < published => seen'[s] > seen[s]
         /\ published > 0 => seen'[s] >= 1 /\ seen'[s] > published - queueSize
         /\ lostMessages' - lostMessages = skipped' - skipped
         /\ lostMessages' \in Nat /\ skipped' \in Nat
         /\ seen' = [seen EXCEPT ![s] = seen'[s]]
         /\ got' = [got EXCEPT ![s] = seen'[s]]
         /\ lastGen' = [lastGen EXCEPT ![s] = seen'[s]]
  <1> DEFINE c == CopyLocked(lastGen[s])
             g == seen[s]
             from == IF published > g + queueSize THEN published - queueSize ELSE g
  <1>0. /\ published \in Nat /\ queueSize \in Nat \ {0} /\ g \in Nat /\ g <= published
        /\ lostMessages \in Nat /\ skipped \in Nat /\ node[s]
        /\ seen \in [Subscriber -> 0..MaxPub] /\ got \in [Subscriber -> Zeros..MaxPub]
        /\ lastGen \in [Subscriber -> 0..GenMod-1]
    BY NodeConstants DEF IInv, TypeOK, Copy
  <1>1. /\ lastGen' = [lastGen EXCEPT ![s] = c.gen]
        /\ lostMessages' = lostMessages + c.lost
        /\ got' = [got EXCEPT ![s] = c.msg]
        /\ IF c.msg > seen[s]
           THEN /\ seen' = [seen EXCEPT ![s] = c.msg]
                /\ skipped' = skipped + (c.msg - seen[s] - 1)
           ELSE UNCHANGED <<seen, skipped>>
    BY Zenon DEF Copy
  <1>2. /\ published = 0 => c.msg = 0 /\ c.lost = 0 /\ c.gen = 0
        /\ published > 0 /\ g = published =>
             c.msg = published /\ c.lost = 0 /\ c.gen = published
        /\ g < published => c.msg = from + 1 /\ c.lost = from - g /\ c.gen = from + 1
    BY <1>0, CopyResult, Zenon
  <1> HIDE DEF c
  <1>3. CASE g = published
    <2>1. c.msg = g /\ c.lost = 0 /\ c.gen = g
      BY <1>0, <1>2, <1>3
    <2>2. UNCHANGED <<seen, skipped>> /\ lostMessages' = lostMessages
      BY <1>0, <1>1, <2>1
    <2>3. got' = [got EXCEPT ![s] = g] /\ lastGen' = [lastGen EXCEPT ![s] = g]
      BY <1>1, <2>1, Zenon
    <2>4. seen'[s] = g /\ got'[s] = g /\ lastGen'[s] = g
      BY <1>0, <2>2, <2>3, Zenon
    <2>5. seen = [seen EXCEPT ![s] = g]
      BY <1>0, Zenon
    <2> QED BY <1>0, <1>3, <2>2, <2>3, <2>4, <2>5
  <1>4. CASE g < published
    <2>1. /\ from \in Nat /\ from >= g /\ from < published /\ from + 1 > published - queueSize
      BY <1>0, <1>4
    <2>2. c.msg = from + 1 /\ c.lost = from - g /\ c.gen = from + 1
      BY <1>2, <1>4, Zenon
    <2> HIDE DEF from
    <2>3. /\ seen' = [seen EXCEPT ![s] = from + 1]
          /\ skipped' = skipped + (from - g) /\ lostMessages' = lostMessages + (from - g)
      BY <1>0, <1>1, <2>1, <2>2
    <2>4. got' = [got EXCEPT ![s] = from + 1] /\ lastGen' = [lastGen EXCEPT ![s] = from + 1]
      BY <1>1, <2>2, Zenon
    <2>5. seen'[s] = from + 1 /\ got'[s] = from + 1 /\ lastGen'[s] = from + 1
      BY <1>0, <2>3, <2>4, Zenon
    <2>6. /\ seen'[s] \in 0..published /\ g \in 0..published /\ from - g \in Nat
      BY <1>0, <2>1, <2>5
    <2> QED BY <1>0, <2>1, <2>3, <2>4, <2>5, <2>6
  <1> QED BY <1>0, <1>3, <1>4

\* A copy keeps the reader's generation in step with the messages.
LEMMA CopyStep ==
  ASSUME NoWrap, IInv, NEW s \in Subscriber, Copy(s)
  PROVE  IInv'
  <1>0. /\ published \in 0..MaxPub /\ MaxPub \in Nat /\ GenMod \in Nat \ {0} /\ MaxQueue \in Nat
        /\ MaxPub < GenMod /\ rpc \in [Subscriber -> {"idle", "update", "copy"}]
        /\ rpc' = [rpc EXCEPT ![s] = "idle"] /\ UNCHANGED <<nodeVars, ppc, node>>
    BY NodeConstants DEF IInv, TypeOK, Copy, NoWrap
  <1>1. CASE Visible(s) /\ allocated
    <2>1. /\ seen'[s] \in 0..published /\ lostMessages' = skipped'
          /\ lostMessages' \in Nat /\ skipped' \in Nat
          /\ seen' = [seen EXCEPT ![s] = seen'[s]]
          /\ got' = [got EXCEPT ![s] = seen'[s]]
          /\ lastGen' = [lastGen EXCEPT ![s] = seen'[s]]
      <3>1. lostMessages = skipped /\ lostMessages \in Nat
        BY Zenon DEF IInv, TypeOK
      <3> QED BY <1>1, <3>1, CopyEffect
    <2>2. seen'[s] \in 0..MaxPub /\ seen'[s] \in 0..GenMod-1 /\ seen'[s] \in Zeros..MaxPub
      BY <1>0, <2>1 DEF Zeros
    <2>3. TypeOK'
      BY <1>0, <2>1, <2>2, Zenon DEF IInv, TypeOK, nodeVars
    <2>4. \A r \in Subscriber : node'[r] => lastGen'[r] = seen'[r] /\ seen'[r] <= published'
      BY <1>0, <2>1 DEF IInv, TypeOK, nodeVars
    <2>5. \A r \in Subscriber : rpc'[r] = "update" => seen'[r] < published'
      BY <1>0, <2>1, Zenon DEF IInv, TypeOK, nodeVars
    <2>6. \A r \in Subscriber : rpc'[r] # "idle" => node'[r]
      BY <1>0, Zenon DEF IInv
    <2> QED BY <1>0, <2>1, <2>3, <2>4, <2>5, <2>6, Zenon DEF IInv, Ring, nodeVars
  <1>2. CASE ~(Visible(s) /\ allocated)
    <2>1. UNCHANGED <<lastGen, lostMessages, got, seen, skipped>>
      BY <1>2, Zenon DEF Copy
    <2>2. TypeOK'
      BY <1>0, <2>1, Zenon DEF IInv, TypeOK, nodeVars
    <2>3. /\ \A r \in Subscriber : rpc'[r] = "update" => seen'[r] < published'
          /\ \A r \in Subscriber : rpc'[r] # "idle" => node'[r]
      BY <1>0, <2>1, Zenon DEF IInv, nodeVars
    <2> QED BY <1>0, <2>1, <2>2, <2>3, Zenon DEF IInv, Ring, nodeVars
  <1> QED BY <1>1, <1>2, Zenon

-----------------------------------------------------------------------------
\* The generations, the ring and the counters agree in every reachable state.
THEOREM Invariance == ASSUME NoWrap PROVE Spec => []IInv
  <1>1. IInv /\ [Next]_vars => IInv'
    <2> SUFFICES ASSUME IInv, [Next]_vars PROVE IInv'
      BY Zenon
    <2>1. ASSUME NEW p \in Publisher, PublisherStep(p) PROVE IInv'
      BY <2>1, PublisherSteps, Zenon
    <2>2. ASSUME NEW s \in Subscriber, SubscriberStep(s) PROVE IInv'
      BY <2>2, SubscribeSteps, CopyStep, Zenon DEF SubscriberStep
    <2>3. CASE UNCHANGED vars
      BY <2>3, Zenon DEF vars, nodeVars, readVars, IInv, TypeOK, Ring
    <2> QED BY <2>1, <2>2, <2>3, Zenon DEF Next
  <1> QED BY <1>1, Initially, PTL DEF Spec

\* updated() announces a message exactly when there is one the subscriber
\* has neither been given nor been passed over.
THEOREM UpdatesAreExact == ASSUME NoWrap PROVE Spec => []UpdatedIsExact
  <1>1. IInv => UpdatedIsExact
    <2> SUFFICES ASSUME IInv, NEW s \in Subscriber, node[s]
                 PROVE  generation # lastGen[s] <=> seen[s] < published
      BY Zenon DEF UpdatedIsExact
    <2>1. seen[s] \in Nat /\ published \in Nat
      BY DEF IInv, TypeOK
    <2> QED BY <2>1 DEF IInv
  <1> QED BY <1>1, Invariance, PTL

\* _lost_messages is the number of messages that subscribers missed.
THEOREM LossesAreExact == ASSUME NoWrap PROVE Spec => []LostIsExact
  <1>1. IInv => LostIsExact
    BY Zenon DEF IInv, LostIsExact
  <1> QED BY <1>1, Invariance, PTL

\* Only Copy ends a call.
LEMMA OnlyCopyDelivers ==
  ASSUME IInv, Next, NEW s \in Subscriber, Delivers(s)
  PROVE  Copy(s)
  <1>0. rpc \in [Subscriber -> {"idle", "update", "copy"}] /\ rpc[s] # "idle" /\ rpc'[s] = "idle"
    BY Zenon DEF IInv, TypeOK, Delivers
  <1>1. ASSUME NEW p \in Publisher, PublisherStep(p) PROVE FALSE
    BY <1>0, <1>1, Zenon DEF PublisherStep, Advertise, Publish, Allocate, Write, Unadvertise,
                      SetQueueSize, readVars
  <1>2. ASSUME NEW r \in Subscriber, SubscriberStep(r), ~Copy(r) PROVE FALSE
    BY <1>0, <1>2, Zenon DEF SubscriberStep, InitSubscription, Subscribed, OrbSubscribe, Unsubscribe,
                      CallUpdate, CallCopy
  <1>3. ASSUME NEW r \in Subscriber, Copy(r) PROVE r = s
    BY <1>0, <1>3, Zenon DEF Copy
  <1> QED BY <1>1, <1>2, <1>3, Zenon DEF Next

\* No subscriber gets a message older than one it got before.
THEOREM DeliveryInOrder == ASSUME NoWrap PROVE Spec => DeliversInOrder
  <1>1. IInv /\ [Next]_vars => [\A s \in Subscriber : Delivers(s) => got'[s] = seen'[s]]_vars
    <2> SUFFICES ASSUME IInv, Next, NEW s \in Subscriber, Delivers(s)
                 PROVE  got'[s] = seen'[s]
      BY Zenon
    <2>1. Copy(s) /\ Visible(s) /\ allocated
      BY OnlyCopyDelivers, Zenon DEF Delivers
    <2> QED BY <2>1, CopyEffect, Zenon
  <1> QED BY <1>1, Invariance, PTL DEF Spec, DeliversInOrder

\* A copy delivers one of the last queueSize messages.
THEOREM DeliveryIsRecent == ASSUME NoWrap PROVE Spec => DeliversRecent
  <1> DEFINE A == \A s \in Subscriber :
                    Delivers(s) /\ published > 0 =>
                      got'[s] \in 1..published /\ got'[s] > published - queueSize
  <1>1. IInv /\ [Next]_vars => [A]_vars
    <2> SUFFICES ASSUME IInv, Next, NEW s \in Subscriber, Delivers(s), published > 0
                 PROVE  got'[s] \in 1..published /\ got'[s] > published - queueSize
      BY Zenon
    <2>1. Copy(s) /\ Visible(s) /\ allocated
      BY OnlyCopyDelivers, Zenon DEF Delivers
    <2>2. /\ got'[s] = seen'[s] /\ seen'[s] \in 0..published
          /\ seen'[s] >= 1 /\ seen'[s] > published - queueSize
      BY <2>1, CopyEffect, Zenon
    <2>3. published \in Nat
      BY DEF IInv, TypeOK
    <2> QED BY <2>2, <2>3
  <1> QED BY <1>1, Invariance, PTL DEF Spec, DeliversRecent

\* What update() delivers is new to the subscriber.
THEOREM UpdatesAreNew == ASSUME NoWrap PROVE Spec => UpdateIsNew
  <1> DEFINE A == \A s \in Subscriber :
                    Delivers(s) /\ rpc[s] = "update" => got'[s] > seen[s]
  <1>1. IInv /\ [Next]_vars => [A]_vars
    <2> SUFFICES ASSUME IInv, Next, NEW s \in Subscriber, Delivers(s), rpc[s] = "update"
                 PROVE  got'[s] > seen[s]
      BY Zenon
    <2>1. Copy(s) /\ Visible(s) /\ allocated
      BY OnlyCopyDelivers, Zenon DEF Delivers
    <2>2. seen[s] < published
      BY Zenon DEF IInv
    <2> QED BY <2>1, <2>2, CopyEffect, Zenon
  <1> QED BY <1>1, Invariance, PTL DEF Spec, UpdateIsNew
=============================================================================
