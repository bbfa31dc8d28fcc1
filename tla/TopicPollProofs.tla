--------------------------- MODULE TopicPollProofs ---------------------------
(***************************************************************************)
(* Proofs about TopicPoll, for any number of topics, publishers and        *)
(* polling threads, any descriptors, any limits of the sets of waiters and *)
(* any queue size.                                                         *)
(*                                                                         *)
(* The three properties need each other.  A publisher notifies whoever is  *)
(* in the set of the topic, so that no notification is lost only because   *)
(* the sets are exact; and a semaphore that is not posted says something   *)
(* of every topic set up so far, throttled or not, because the interval of *)
(* a descriptor may end at any time.                                       *)
(***************************************************************************)
EXTENDS TopicPoll, TLAPS, WellFoundedInduction

\* Where p is in px4_poll, and how far.
Position(p) ==
  /\ stored[p] \in 0..Len(Fds[p])
  /\ ppc[p] = "out" => stored[p] = 0
  /\ ppc[p] \in {"out", "setup", "wait"} => i[p] = 1
  /\ ppc[p] = "teardown" => i[p] \in 1..(stored[p] + 1)

\* p is a waiter of its descriptor k.
Waits(p, k) == ppc[p] \in {"setup", "wait"} \/ (ppc[p] = "teardown" /\ i[p] <= k)

\* What p has not read of a topic it has set up was announced, came too early, or will be announced.
Announced(p) ==
  ppc[p] \in {"setup", "wait"} /\ ~sem[p] =>
    \A k \in 1..stored[p] : unread[p][Fds[p][k]] > 0 =>
       Fds[p][k] \in held[p] \/ \E w \in Publisher : notifying[w] = Fds[p][k]

\* p has set up t and not torn it down.
Registered(p, t) == \E k \in 1..stored[p] : Fds[p][k] = t /\ Waits(p, k)

Own(p) ==
  /\ Position(p)
  /\ \A t \in Topic : p \in Waiters(t) <=> Registered(p, t)
  /\ Announced(p)
  /\ \A t \in revents[p] : unread[p][t] > 0

IInv == TypeOK /\ \A p \in Poller : Own(p)

-----------------------------------------------------------------------------
(* Constants, and the sets of waiters.                                     *)

\* The descriptors of a call are different topics.
LEMMA FdsAre ==
  ASSUME NEW p \in Poller
  PROVE  /\ Len(Fds[p]) \in Nat /\ DOMAIN Fds[p] = 1..Len(Fds[p])
         /\ \A k \in 1..Len(Fds[p]) : Fds[p][k] \in Topic
         /\ \A j, k \in 1..Len(Fds[p]) : Fds[p][j] = Fds[p][k] => j = k
<1>1. Fds[p] \in Seq(Topic)
  BY PollConstants, Zenon
<1>2. Len(Fds[p]) \in Nat /\ DOMAIN Fds[p] = 1..Len(Fds[p])
  BY <1>1
<1>3. \A k \in 1..Len(Fds[p]) : Fds[p][k] \in Topic
  BY <1>1
<1> QED BY <1>2, <1>3, PollConstants, Zenon

\* A set of numbers that is not empty has a least one.
LEMMA Least ==
  ASSUME NEW S, S \subseteq Nat, S # {}
  PROVE  \E k \in S : \A j \in S : k <= j
<1> DEFINE R == OpToRel(<, Nat)
<1>1. \A j, k \in Nat : <<j, k>> \in R <=> j < k
  BY Zenon DEF OpToRel
<1>2. IsWellFoundedOn(R, Nat)
  BY NatLessThanWellFounded, Zenon
<1> HIDE DEF R
<1>3. \E k \in S : \A j \in S : <<j, k>> \notin R
  BY <1>2, WFMin, Zenon
<1>4. \A j, k \in S : ~(j < k) => k <= j
  OBVIOUS
<1>5. \A j, k \in S : <<j, k>> \notin R => k <= j
  BY <1>1, <1>4, Zenon
<1> QED BY <1>3, <1>5, Zenon

Slots == Seq(Poller \cup {NoPoller})
Occupants(set) == {set[k] : k \in DOMAIN set} \ {NoPoller}

\* store_poll_waiter, with or without doubling, adds the waiter and loses none.
LEMMA StoredAdds ==
  ASSUME NEW set \in Slots, NEW p \in Poller
  PROVE  Stored(set, p) \in Slots /\ Occupants(Stored(set, p)) = Occupants(set) \cup {p}
<1>0. p # NoPoller
  BY PollConstants, Zenon
<1>1. /\ Len(set) \in Nat /\ DOMAIN set = 1..Len(set)
      /\ \A k \in 1..Len(set) : set[k] \in Poller \cup {NoPoller}
  BY DEF Slots
<1>2. CASE Free(set) = {}
  <2> DEFINE n == IF set = <<>> THEN 1 ELSE 2 * Len(set)
             s == Doubled(set, p)
  <2>0. Stored(set, p) = s
    BY <1>2, Zenon DEF Stored
  <2>1. n \in Nat /\ Len(set) < n
    BY <1>1 DEF Slots
  <2>2. s = [k \in 1..n |-> IF k <= Len(set) THEN set[k] ELSE IF k = Len(set) + 1 THEN p ELSE NoPoller]
    BY Zenon DEF Doubled
  <2> HIDE DEF n, s
  <2>3. DOMAIN s = 1..n
    BY <2>2, Zenon
  <2>4. \A k \in 1..n : s[k] \in Poller \cup {NoPoller}
    BY <1>1, <2>1, <2>2
  <2>5. s \in Slots
    BY <2>1, <2>2, <2>3, <2>4 DEF Slots
  <2>6. \A k \in 1..Len(set) : k \in 1..n /\ s[k] = set[k]
    BY <1>1, <2>1, <2>2
  <2>7. Len(set) + 1 \in 1..n /\ s[Len(set) + 1] = p
    BY <1>1, <2>1, <2>2
  <2>8. \A k \in 1..n : k \in 1..Len(set) \/ s[k] \in {p, NoPoller}
    BY <1>1, <2>1, <2>2
  <2> QED BY <1>0, <1>1, <2>0, <2>3, <2>5, <2>6, <2>7, <2>8, Zenon DEF Occupants
<1>3. CASE Free(set) # {}
  <2> DEFINE f == First(Free(set))
             s == [set EXCEPT ![f] = p]
  <2>0. Stored(set, p) = s
    BY <1>3, Zenon DEF Stored
  <2>1. Free(set) \subseteq Nat
    BY <1>1 DEF Free
  <2>2. f \in Free(set)
    BY <1>3, <2>1, Least, Zenon DEF First
  <2>3. f \in 1..Len(set) /\ set[f] = NoPoller
    BY <1>1, <2>2, Zenon DEF Free
  <2> HIDE DEF f
  <2>4. DOMAIN s = 1..Len(set) /\ s[f] = p /\ \A k \in 1..Len(set) : k # f => s[k] = set[k]
    BY <1>1, <2>3, Zenon
  <2>5. s \in Slots
    BY <2>3 DEF Slots
  <2> HIDE DEF s
  <2> QED BY <1>0, <1>1, <2>0, <2>3, <2>4, <2>5, Zenon DEF Occupants
<1> QED BY <1>2, <1>3, Zenon

\* remove_poll_waiter takes out the waiter and no other.
LEMMA RemovedLeaves ==
  ASSUME NEW set \in Slots, NEW p \in Poller
  PROVE  /\ remove_poll_waiter(set, p) \in Slots
         /\ Occupants(remove_poll_waiter(set, p)) = Occupants(set) \ {p}
<1> DEFINE s == remove_poll_waiter(set, p)
<1>1. /\ Len(set) \in Nat /\ DOMAIN set = 1..Len(set)
      /\ \A k \in 1..Len(set) : set[k] \in Poller \cup {NoPoller}
  BY DEF Slots
<1>2. s = [k \in 1..Len(set) |-> IF set[k] = p THEN NoPoller ELSE set[k]]
  BY <1>1, Zenon DEF remove_poll_waiter
<1> HIDE DEF s
<1>3. DOMAIN s = 1..Len(set) /\ \A k \in 1..Len(set) : s[k] = IF set[k] = p THEN NoPoller ELSE set[k]
  BY <1>2, Zenon
<1>4. \A k \in 1..Len(set) : s[k] \in Poller \cup {NoPoller}
  BY <1>1, <1>3, Zenon
<1>5. s \in Slots
  BY <1>1, <1>2, <1>3, <1>4 DEF Slots
<1>6. Occupants(s) = Occupants(set) \ {p}
  BY <1>1, <1>3, Zenon DEF Occupants
<1> QED BY <1>5, <1>6, Zenon DEF s

-----------------------------------------------------------------------------
(* The steps.                                                              *)

\* At first nobody polls and nothing was published.
LEMMA Initially == Init => IInv
<1> SUFFICES ASSUME Init PROVE IInv
  BY Zenon
<1>1. <<>> \in Seq(Poller \cup {NoPoller}) /\ 0 \in Nat /\ 1 \in Nat /\ 0 \in 0..QueueSize
  BY PollConstants
<1>2. TypeOK
  BY <1>1, Zenon DEF Init, TypeOK
<1>3. ASSUME NEW p \in Poller PROVE Own(p)
  <2>1. 0 \in 0..Len(Fds[p]) /\ 1..0 = {}
    BY FdsAre
  <2>2. stored[p] = 0 /\ ppc[p] = "out" /\ i[p] = 1 /\ revents[p] = {}
    BY <1>3, Zenon DEF Init
  <2>3. \A t \in Topic : DOMAIN pollset[t] = {}
    <3>1. DOMAIN <<>> = {}
      OBVIOUS
    <3> QED BY <3>1, Zenon DEF Init
  <2> QED BY <2>1, <2>2, <2>3, Zenon DEF Own, Position, Announced, Registered, Waiters
<1> QED BY <1>2, <1>3, Zenon DEF IInv

\* A step of one thread, in which the others keep what is theirs.
Alone(p) ==
  /\ \A q \in Poller \ {p} :
       /\ ppc'[q] = ppc[q] /\ stored'[q] = stored[q] /\ i'[q] = i[q] /\ sem'[q] = sem[q]
       /\ held'[q] = held[q] /\ unread'[q] = unread[q] /\ revents'[q] = revents[q]
  /\ \A t \in Topic : \A q \in Poller \ {p} : q \in Waiters(t)' <=> q \in Waiters(t)
  /\ notifying' = notifying

\* It is enough to look at that thread.
LEMMA OneThread ==
  ASSUME IInv, NEW p \in Poller, Alone(p), TypeOK', Own(p)'
  PROVE  IInv'
<1>1. ASSUME NEW q \in Poller \ {p} PROVE Own(q)'
  <2>1. Own(q)
    BY Zenon DEF IInv
  <2>2. Position(q)'
    BY <2>1, Zenon DEF Own, Position, Alone
  <2>3. \A t \in Topic : Registered(q, t)' <=> Registered(q, t)
    BY Zenon DEF Registered, Waits, Alone
  <2>4. Announced(q)'
    BY <2>1, Zenon DEF Own, Announced, Alone
  <2> QED BY <2>1, <2>2, <2>3, <2>4, Zenon DEF Own, Alone
<1> QED BY <1>1, Zenon DEF IInv

\* What follows from the sets and the places in px4_poll alone.
LEMMA SameCalls ==
  ASSUME pollset' = pollset, ppc' = ppc, stored' = stored, i' = i
  PROVE  /\ \A t \in Topic : Waiters(t)' = Waiters(t)
         /\ \A p \in Poller : Position(p)' <=> Position(p)
         /\ \A p \in Poller, t \in Topic : Registered(p, t)' <=> Registered(p, t)
<1>1. \A t \in Topic : Waiters(t)' = Waiters(t)
  BY Zenon DEF Waiters
<1>2. \A p \in Poller : Position(p)' <=> Position(p)
  BY Zenon DEF Position
<1>3. \A p \in Poller, t \in Topic : Registered(p, t)' <=> Registered(p, t)
  BY Zenon DEF Registered, Waits
<1> QED BY <1>1, <1>2, <1>3, Zenon

\* Descriptor by descriptor: px4_poll adds itself to the set of the topic.
LEMMA SetupStep ==
  ASSUME IInv, NEW p \in Poller, Setup(p)
  PROVE  IInv'
<1> DEFINE k == stored[p] + 1
<1>0. PICK t : t = Fds[p][k]
  OBVIOUS
<1>1. TypeOK /\ Own(p)
  BY Zenon DEF IInv
<1>2. /\ stored[p] \in Nat /\ k \in 1..Len(Fds[p]) /\ k \in Nat /\ stored[p] < Len(Fds[p])
      /\ 1..k = 1..stored[p] \cup {k} /\ k \notin 1..stored[p]
      /\ 1..stored[p] \subseteq 1..Len(Fds[p])
  BY <1>1, FdsAre DEF Setup, Own, Position
<1>3. /\ ppc[p] = "setup" /\ ppc' = ppc /\ i' = i /\ timeout' = timeout
      /\ notifying' = notifying /\ unread' = unread /\ early' = early
      /\ pollset' = [pollset EXCEPT ![t] = Stored(pollset[t], p)]
      /\ stored' = [stored EXCEPT ![p] = k]
      /\ appears_updated(p, t) => /\ revents' = [revents EXCEPT ![p] = revents[p] \cup {t}]
                                  /\ sem' = [sem EXCEPT ![p] = TRUE]
      /\ ~appears_updated(p, t) => revents' = revents /\ sem' = sem
      /\ held' = [held EXCEPT ![p] = IF t \in early[p] /\ unread[p][t] > 0
                                    THEN held[p] \cup {t} ELSE held[p] \ {t}]
  BY <1>0, Zenon DEF Setup
<1>4. t \in Topic
  BY <1>0, <1>2, FdsAre, Zenon
<1>a. /\ pollset \in [Topic -> Slots] /\ stored \in [Poller -> Nat]
      /\ unread \in [Poller -> [Topic -> 0..QueueSize]] /\ sem \in [Poller -> BOOLEAN]
      /\ revents \in [Poller -> SUBSET Topic] /\ held \in [Poller -> SUBSET Topic]
  BY <1>1, Zenon DEF TypeOK, Slots
<1> HIDE DEF k
<1>5. /\ pollset' \in [Topic -> Slots]
      /\ Waiters(t)' = Waiters(t) \cup {p}
      /\ \A u \in Topic \ {t} : Waiters(u)' = Waiters(u)
  <2>1. Stored(pollset[t], p) \in Slots
        /\ Occupants(Stored(pollset[t], p)) = Occupants(pollset[t]) \cup {p}
    BY <1>4, <1>a, StoredAdds, Zenon
  <2>2. pollset' \in [Topic -> Slots] /\ pollset'[t] = Stored(pollset[t], p)
        /\ \A u \in Topic \ {t} : pollset'[u] = pollset[u]
    BY <1>3, <1>4, <1>a, <2>1, Zenon
  <2>3. \A u : Waiters(u) = Occupants(pollset[u])
    BY Zenon DEF Waiters, Occupants
  <2>4. \A u : Waiters(u)' = Occupants(pollset'[u])
    BY Zenon DEF Waiters, Occupants
  <2> QED BY <2>1, <2>2, <2>3, <2>4, Zenon
<1>6. TypeOK'
  <2>1. sem' \in [Poller -> BOOLEAN]
    BY <1>3, <1>a, Zenon
  <2>2. revents' \in [Poller -> SUBSET Topic]
    BY <1>3, <1>4, <1>a
  <2>3. held' \in [Poller -> SUBSET Topic]
    BY <1>3, <1>4, <1>a
  <2>4. stored' \in [Poller -> Nat]
    BY <1>2, <1>3, <1>a, Zenon
  <2> QED BY <1>1, <1>3, <1>5, <2>1, <2>2, <2>3, <2>4, Zenon DEF TypeOK, Slots
<1>b. /\ stored'[p] = k /\ sem'[p] = (sem[p] \/ appears_updated(p, t))
      /\ t \in early[p] /\ unread[p][t] > 0 => held'[p] = held[p] \cup {t}
      /\ held[p] \ {t} \subseteq held'[p]
      /\ revents'[p] \subseteq revents[p] \cup {t}
      /\ t \in revents'[p] => t \in revents[p] \/ appears_updated(p, t)
  <2>1. stored'[p] = k
    BY <1>3, <1>a, Zenon
  <2>2. sem'[p] = (sem[p] \/ appears_updated(p, t))
    BY <1>3, <1>a, Zenon
  <2>3. held'[p] = IF t \in early[p] /\ unread[p][t] > 0 THEN held[p] \cup {t} ELSE held[p] \ {t}
    BY <1>3, <1>a, Zenon
  <2>4. appears_updated(p, t) => revents'[p] = revents[p] \cup {t}
    BY <1>3, <1>a, Zenon
  <2>5. ~appears_updated(p, t) => revents'[p] = revents[p]
    BY <1>3, Zenon
  <2>6. held[p] \ {t} \subseteq held'[p] /\ (t \in early[p] /\ unread[p][t] > 0 => held'[p] = held[p] \cup {t})
    BY <2>3, Zenon
  <2>7. /\ revents'[p] \subseteq revents[p] \cup {t}
        /\ t \in revents'[p] => t \in revents[p] \/ appears_updated(p, t)
    BY <2>4, <2>5, Zenon
  <2> QED BY <2>1, <2>2, <2>6, <2>7, Zenon
<1>7. Alone(p)
  <2>1. \A q \in Poller \ {p} : stored'[q] = stored[q] /\ held'[q] = held[q]
    BY <1>3, <1>a, Zenon
  <2>2. \A q \in Poller \ {p} : sem'[q] = sem[q] /\ revents'[q] = revents[q]
    BY <1>3, <1>a, Zenon
  <2>3. \A u \in Topic : \A q \in Poller \ {p} : q \in Waiters(u)' <=> q \in Waiters(u)
    BY <1>5, Zenon
  <2> QED BY <1>3, <2>1, <2>2, <2>3, Zenon DEF Alone
<1>8. Own(p)'
  <2>1. Position(p)'
    BY <1>1, <1>2, <1>3, <1>b DEF Own, Position
  <2>2. \A u \in Topic : p \in Waiters(u)' <=> Registered(p, u)'
    <3>1. \A u \in Topic : Registered(p, u) <=> \E j \in 1..stored[p] : Fds[p][j] = u
      BY <1>3, Zenon DEF Registered, Waits
    <3>2. \A u \in Topic : Registered(p, u)' <=> \E j \in 1..k : Fds[p][j] = u
      BY <1>3, <1>b, Zenon DEF Registered, Waits
    <3>3. \A u \in Topic : Registered(p, u)' <=> Registered(p, u) \/ u = t
      BY <1>0, <1>2, <3>1, <3>2, Zenon
    <3> QED BY <1>1, <1>5, <3>3, Zenon DEF Own
  <2>3. Announced(p)'
    <3> SUFFICES ASSUME ~sem[p], ~appears_updated(p, t), NEW j \in 1..k, unread[p][Fds[p][j]] > 0
                 PROVE  Fds[p][j] \in held'[p] \/ \E w \in Publisher : notifying[w] = Fds[p][j]
      BY <1>3, <1>b, Zenon DEF Announced
    <3>1. CASE Fds[p][j] = t
      BY <1>b, <3>1, Zenon DEF appears_updated
    <3>2. CASE Fds[p][j] # t
      <4>1. j \in 1..stored[p]
        BY <1>0, <1>2, <3>2, Zenon
      <4> QED BY <1>1, <1>3, <1>b, <3>2, <4>1, Zenon DEF Own, Announced
    <3> QED BY <3>1, <3>2, Zenon
  <2>4. \A u \in revents'[p] : unread'[p][u] > 0
    BY <1>1, <1>3, <1>b, Zenon DEF Own, appears_updated
  <2> QED BY <2>1, <2>2, <2>3, <2>4, Zenon DEF Own
<1> QED BY <1>6, <1>7, <1>8, OneThread, Zenon

\* A step from one place of px4_poll to the next.
LEMMA MoveStep ==
  ASSUME IInv, NEW p \in Poller,
         NEW x \in {"out", "setup", "wait", "teardown", "returned"},
         ppc' = [ppc EXCEPT ![p] = x],
         timeout' \in [Poller -> {"finite", "forever"}],
         UNCHANGED <<topicVars, subVars, stored, i, revents, sem>>,
         \/ ppc[p] = "out" /\ x = "setup"
         \/ ppc[p] = "setup" /\ (x = "wait" \/ (x = "returned" /\ stored[p] = 0))
         \/ ppc[p] = "wait" /\ x = "teardown"
  PROVE  IInv'
<1>1. TypeOK /\ Own(p) /\ ppc \in [Poller -> {"out", "setup", "wait", "teardown", "returned"}]
  BY Zenon DEF IInv, TypeOK
<1>2. /\ pollset' = pollset /\ notifying' = notifying /\ unread' = unread /\ early' = early
      /\ held' = held /\ stored' = stored /\ i' = i /\ revents' = revents /\ sem' = sem
  BY Zenon DEF topicVars, subVars
<1>3. ppc' \in [Poller -> {"out", "setup", "wait", "teardown", "returned"}] /\ ppc'[p] = x
  BY <1>1, Zenon
<1>4. TypeOK'
  BY <1>1, <1>2, <1>3, Zenon DEF TypeOK
<1>5. Alone(p)
  BY <1>1, <1>2, Zenon DEF Alone, Waiters
<1>6. stored[p] = 0 => 1..stored[p] = {}
  OBVIOUS
<1>7. Position(p)'
  <2>1. stored[p] \in 0..Len(Fds[p]) => 1 \in 1..(stored[p] + 1)
    OBVIOUS
  <2> QED BY <1>1, <1>2, <1>3, <2>1, Zenon DEF Own, Position
<1>8. \A t \in Topic : Registered(p, t)' <=> Registered(p, t)
  <2>1. ppc[p] = "wait" => \A k \in 1..stored[p] : i[p] <= k
    BY <1>1 DEF Own, Position
  <2>2. ppc[p] = "out" => stored[p] = 0
    BY <1>1, Zenon DEF Own, Position
  <2> QED BY <1>2, <1>3, <1>6, <2>1, <2>2, Zenon DEF Registered, Waits
<1>9. Announced(p)'
  <2>1. ppc[p] = "out" => stored[p] = 0
    BY <1>1, Zenon DEF Own, Position
  <2> QED BY <1>1, <1>2, <1>3, <1>6, <2>1, Zenon DEF Own, Announced
<1>10. Own(p)'
  BY <1>1, <1>2, <1>7, <1>8, <1>9, Zenon DEF Own, Waiters
<1> QED BY <1>4, <1>5, <1>10, OneThread, Zenon

\* px4_poll is called, a set is full, all descriptors are set up, the wait ends.
LEMMA CallSteps ==
  ASSUME IInv, NEW p \in Poller,
         \/ \E how \in {"finite", "forever"} : px4_poll(p, how)
         \/ SetupFails(p) \/ SetupDone(p) \/ Wait(p) \/ Timeout(p)
  PROVE  IInv'
<1>1. timeout \in [Poller -> {"finite", "forever"}]
  BY Zenon DEF IInv, TypeOK
<1>2. ASSUME NEW how \in {"finite", "forever"}, px4_poll(p, how) PROVE IInv'
  BY <1>1, <1>2, MoveStep, Zenon DEF px4_poll
<1>3. CASE SetupFails(p)
  BY <1>1, <1>3, MoveStep, Zenon DEF SetupFails
<1>4. CASE SetupDone(p)
  BY <1>1, <1>4, MoveStep, Zenon DEF SetupDone
<1>5. CASE Wait(p)
  BY <1>1, <1>5, MoveStep, Zenon DEF Wait
<1>6. CASE Timeout(p)
  BY <1>1, <1>6, MoveStep, Zenon DEF Timeout
<1> QED BY <1>2, <1>3, <1>4, <1>5, <1>6, Zenon

\* The teardown goes on to the descriptors that were set up and ends after the last of them.
LEMMA TeardownStep ==
  ASSUME IInv, NEW p \in Poller, Teardown(p)
  PROVE  IInv'
<1>0. PICK t : t = Fds[p][i[p]]
  OBVIOUS
<1> DEFINE found == \E k \in DOMAIN pollset[t] : pollset[t][k] = p
           on == found /\ i[p] < Len(Fds[p])
<1>1. TypeOK /\ Own(p)
  BY Zenon DEF IInv
<1>2. /\ ppc[p] = "teardown"
      /\ pollset' = [pollset EXCEPT ![t] = remove_poll_waiter(pollset[t], p)]
      /\ on => i' = [i EXCEPT ![p] = i[p] + 1] /\ ppc' = ppc
      /\ ~on => ppc' = [ppc EXCEPT ![p] = "returned"] /\ i' = i
      /\ notifying' = notifying /\ unread' = unread /\ early' = early /\ held' = held
      /\ timeout' = timeout /\ stored' = stored /\ revents' = revents /\ sem' = sem
  BY <1>0, Zenon DEF Teardown, subVars
<1>3. /\ pollset \in [Topic -> Slots] /\ i \in [Poller -> Nat]
      /\ ppc \in [Poller -> {"out", "setup", "wait", "teardown", "returned"}]
  BY <1>1, Zenon DEF TypeOK, Slots
<1>4. /\ stored[p] \in 0..Len(Fds[p]) /\ i[p] \in 1..(stored[p] + 1) /\ Len(Fds[p]) \in Nat
      /\ i[p] \in Nat /\ i[p] + 1 \in Nat
      /\ i[p] <= Len(Fds[p]) => i[p] \in 1..Len(Fds[p])
      /\ 1..stored[p] \subseteq 1..Len(Fds[p])
      /\ i[p] > Len(Fds[p]) => \A k \in 1..stored[p] : ~(i[p] <= k)
      /\ \A k \in 1..stored[p] : i[p] <= k => i[p] \in 1..stored[p] /\ (i[p] = k \/ i[p] + 1 <= k)
      /\ \A k \in 1..stored[p] : i[p] + 1 <= k => i[p] <= k
      /\ \A k \in 1..stored[p] : ~(i[p] < Len(Fds[p])) /\ i[p] <= k => k = i[p]
      /\ i[p] \in 1..stored[p] => i[p] <= i[p] /\ ~(i[p] + 1 <= i[p]) /\ i[p] + 1 \in 1..(stored[p] + 1)
  BY <1>1, <1>2, FdsAre DEF Own, Position
<1>5. t \in Topic => (found <=> p \in Waiters(t))
  <2>1. p # NoPoller
    BY PollConstants, Zenon
  <2> QED BY <2>1, Zenon DEF Waiters
<1> HIDE DEF found, on
<1>6. /\ pollset' \in [Topic -> Slots]
      /\ \A u \in Topic : Waiters(u)' = IF u = t THEN Waiters(u) \ {p} ELSE Waiters(u)
  <2>1. ASSUME NEW u \in Topic
        PROVE  /\ remove_poll_waiter(pollset[u], p) \in Slots
               /\ Occupants(remove_poll_waiter(pollset[u], p)) = Occupants(pollset[u]) \ {p}
    BY <1>3, <2>1, RemovedLeaves, Zenon
  <2>2. \A u \in Topic : pollset'[u] = IF u = t THEN remove_poll_waiter(pollset[u], p) ELSE pollset[u]
    BY <1>2, <1>3, Zenon
  <2>3. pollset' \in [Topic -> Slots]
    BY <1>2, <1>3, <2>1, Zenon
  <2> QED BY <2>1, <2>2, <2>3, Zenon DEF Waiters, Occupants
<1>7. /\ ppc' \in [Poller -> {"out", "setup", "wait", "teardown", "returned"}]
      /\ i' \in [Poller -> Nat]
  BY <1>2, <1>3, <1>4, Zenon
<1>8. TypeOK'
  BY <1>1, <1>2, <1>6, <1>7, Zenon DEF TypeOK, Slots
<1>9. Alone(p)
  BY <1>2, <1>3, <1>6, Zenon DEF Alone
<1>10. \A u \in Topic : p \in Waiters(u) <=> \E k \in 1..stored[p] : Fds[p][k] = u /\ i[p] <= k
  BY <1>1, <1>2, Zenon DEF Own, Registered, Waits
<1>11. i[p] \in 1..stored[p] => t \in Topic /\ \A k \in 1..stored[p] : Fds[p][k] = t => k = i[p]
  BY <1>0, <1>4, FdsAre, Zenon
<1>12. CASE on
  <2>1. i[p] \in 1..stored[p]
    <3>1. t \in Topic
      BY <1>0, <1>4, <1>12, FdsAre DEF on
    <3> QED BY <1>4, <1>5, <1>10, <1>12, <3>1, Zenon DEF on
  <2>2. i'[p] = i[p] + 1 /\ ppc'[p] = "teardown"
    BY <1>2, <1>3, <1>12, Zenon
  <2>3. Position(p)'
    BY <1>1, <1>2, <1>4, <2>1, <2>2, Zenon DEF Own, Position
  <2>4. \A u \in Topic : Registered(p, u)' <=> \E k \in 1..stored[p] : Fds[p][k] = u /\ i[p] + 1 <= k
    BY <1>2, <2>2, Zenon DEF Registered, Waits
  <2>5. \A u \in Topic : p \in Waiters(u)' <=> Registered(p, u)'
    <3>1. ASSUME NEW u \in Topic, u # t PROVE p \in Waiters(u)' <=> Registered(p, u)'
      BY <1>0, <1>4, <1>6, <1>10, <2>1, <2>4, <3>1, Zenon
    <3>2. t \in Topic => ~Registered(p, t)' /\ p \notin Waiters(t)'
      BY <1>4, <1>6, <1>11, <2>1, <2>4, Zenon
    <3> QED BY <3>1, <3>2, Zenon
  <2>6. Own(p)'
    BY <1>1, <1>2, <2>2, <2>3, <2>5, Zenon DEF Own, Announced
  <2> QED BY <1>8, <1>9, <2>6, OneThread, Zenon
<1>13. CASE ~on
  <2>1. ppc'[p] = "returned" /\ i'[p] = i[p]
    BY <1>2, <1>3, <1>13, Zenon
  <2>2. Position(p)'
    BY <1>1, <1>2, <2>1, Zenon DEF Own, Position
  <2>3. \A u \in Topic : ~Registered(p, u)'
    BY <2>1, Zenon DEF Registered, Waits
  <2>4. ASSUME NEW u \in Topic PROVE p \notin Waiters(u)'
    <3>1. CASE i[p] \in 1..stored[p]
      <4>1. p \in Waiters(t)
        BY <1>0, <1>4, <1>10, <1>11, <3>1, Zenon
      <4>2. ~(i[p] < Len(Fds[p]))
        BY <1>5, <1>11, <1>13, <3>1, <4>1, Zenon DEF on
      <4> QED BY <1>0, <1>4, <1>6, <1>10, <4>2, Zenon
    <3>2. CASE i[p] \notin 1..stored[p]
      BY <1>4, <1>6, <1>10, <3>2, Zenon
    <3> QED BY <3>1, <3>2, Zenon
  <2>5. Own(p)'
    BY <1>1, <1>2, <2>1, <2>2, <2>3, <2>4, Zenon DEF Own, Announced
  <2> QED BY <1>8, <1>9, <2>5, OneThread, Zenon
<1> QED BY <1>12, <1>13, Zenon

\* The thread reads, its interval ends, or it is ready for the next call.
LEMMA ReaderSteps ==
  ASSUME IInv, NEW p \in Poller, Leave(p) \/ \E t \in Topic : orb_copy(p, t) \/ Elapse(p, t)
  PROVE  IInv'
<1>1. TypeOK /\ Own(p)
  BY Zenon DEF IInv
<1>2. /\ unread \in [Poller -> [Topic -> 0..QueueSize]] /\ early \in [Poller -> SUBSET Topic]
      /\ ppc \in [Poller -> {"out", "setup", "wait", "teardown", "returned"}]
      /\ timeout \in [Poller -> {"finite", "forever"}]
      /\ stored \in [Poller -> Nat] /\ i \in [Poller -> Nat]
      /\ revents \in [Poller -> SUBSET Topic] /\ sem \in [Poller -> BOOLEAN]
      /\ held \in [Poller -> SUBSET Topic] /\ 0 \in Nat /\ 1 \in Nat
  BY <1>1 DEF TypeOK
<1>3. CASE Leave(p)
  <2>1. /\ ppc[p] = "returned" /\ ppc' = [ppc EXCEPT ![p] = "out"]
        /\ timeout' = [timeout EXCEPT ![p] = "finite"]
        /\ stored' = [stored EXCEPT ![p] = 0] /\ i' = [i EXCEPT ![p] = 1]
        /\ revents' = [revents EXCEPT ![p] = {}] /\ sem' = [sem EXCEPT ![p] = FALSE]
        /\ held' = [held EXCEPT ![p] = {}]
        /\ pollset' = pollset /\ notifying' = notifying /\ unread' = unread /\ early' = early
    BY <1>3, Zenon DEF Leave, topicVars
  <2>2. TypeOK'
    <3>1. {} \in SUBSET Topic /\ FALSE \in BOOLEAN
      BY Zenon
    <3> QED BY <1>1, <1>2, <2>1, <3>1, Zenon DEF TypeOK
  <2>3. Alone(p)
    BY <1>2, <2>1, Zenon DEF Alone, Waiters
  <2>4. ppc'[p] = "out" /\ stored'[p] = 0 /\ i'[p] = 1 /\ revents'[p] = {}
    BY <1>2, <2>1, Zenon
  <2>5. 0 \in 0..Len(Fds[p]) /\ 1..0 = {}
    BY FdsAre
  <2>6. \A t \in Topic : p \notin Waiters(t)' /\ ~Registered(p, t)'
    BY <1>1, <2>1, <2>4, Zenon DEF Own, Registered, Waits, Waiters
  <2>7. Own(p)'
    BY <2>4, <2>5, <2>6, Zenon DEF Own, Position, Announced
  <2> QED BY <2>2, <2>3, <2>7, OneThread, Zenon
<1>4. ASSUME NEW t \in Topic, orb_copy(p, t) PROVE IInv'
  <2>1. /\ ppc[p] = "returned" /\ t \in revents[p]
        /\ unread' = [unread EXCEPT ![p] = [unread[p] EXCEPT ![t] = unread[p][t] - 1]]
        /\ early' = IF p \in Slow THEN [early EXCEPT ![p] = early[p] \cup {t}] ELSE early
        /\ revents' = [revents EXCEPT ![p] = revents[p] \ {t}]
        /\ pollset' = pollset /\ notifying' = notifying /\ held' = held /\ sem' = sem
        /\ ppc' = ppc /\ timeout' = timeout /\ stored' = stored /\ i' = i
    BY <1>4, Zenon DEF orb_copy, topicVars, callVars
  <2>2. unread[p][t] > 0 /\ unread[p][t] \in 0..QueueSize
    BY <1>1, <1>2, <2>1, Zenon DEF Own
  <2>3. unread[p][t] - 1 \in 0..QueueSize
    BY <2>2, PollConstants
  <2>4. unread' \in [Poller -> [Topic -> 0..QueueSize]]
    BY <1>2, <2>1, <2>3, Zenon
  <2>5. early' \in [Poller -> SUBSET Topic] /\ revents' \in [Poller -> SUBSET Topic]
    BY <1>2, <2>1
  <2>6. TypeOK'
    BY <1>1, <2>1, <2>4, <2>5, Zenon DEF TypeOK
  <2>7. Alone(p)
    BY <1>2, <2>1, Zenon DEF Alone, Waiters
  <2>8. \A u \in revents'[p] : u \in revents[p] /\ unread'[p][u] = unread[p][u]
    BY <1>2, <2>1, Zenon
  <2>9. Announced(p)'
    BY <2>1, Zenon DEF Announced
  <2>10. Own(p)'
    BY <1>1, <2>1, <2>8, <2>9, SameCalls, Zenon DEF Own
  <2> QED BY <2>6, <2>7, <2>10, OneThread, Zenon
<1>5. ASSUME NEW t \in Topic, Elapse(p, t) PROVE IInv'
  <2>1. /\ early' = [early EXCEPT ![p] = early[p] \ {t}]
        /\ pollset' = pollset /\ notifying' = notifying /\ held' = held /\ sem' = sem
        /\ ppc' = ppc /\ timeout' = timeout /\ stored' = stored /\ i' = i
        /\ unread' = unread /\ revents' = revents
    BY <1>5, Zenon DEF Elapse, topicVars, callVars
  <2>2. early' \in [Poller -> SUBSET Topic]
    BY <1>2, <2>1
  <2>3. TypeOK'
    BY <1>1, <2>1, <2>2, Zenon DEF TypeOK
  <2>4. Alone(p)
    BY <2>1, Zenon DEF Alone, Waiters
  <2>5. Announced(p)'
    BY <1>1, <2>1, Zenon DEF Own, Announced
  <2>6. Own(p)'
    BY <1>1, <2>1, <2>5, SameCalls, Zenon DEF Own
  <2> QED BY <2>3, <2>4, <2>6, OneThread, Zenon
<1> QED BY <1>3, <1>4, <1>5, Zenon

\* A publisher stores a message: it has yet to notify.
LEMMA WriteStep ==
  ASSUME IInv, NEW w \in Publisher, NEW t \in Topic, Write(w, t)
  PROVE  IInv'
<1>1. TypeOK /\ unread \in [Poller -> [Topic -> 0..QueueSize]]
      /\ notifying \in [Publisher -> Topic \cup {NoTopic}]
  BY Zenon DEF IInv, TypeOK
<1>2. /\ notifying[w] = NoTopic /\ notifying' = [notifying EXCEPT ![w] = t]
      /\ unread' = [p \in Poller |-> [unread[p] EXCEPT ![t] = Lesser(unread[p][t] + 1, QueueSize)]]
      /\ pollset' = pollset /\ early' = early /\ held' = held /\ revents' = revents /\ sem' = sem
      /\ ppc' = ppc /\ timeout' = timeout /\ stored' = stored /\ i' = i
  BY Zenon DEF Write, callVars
<1>3. \A n \in 0..QueueSize : Lesser(n + 1, QueueSize) \in 0..QueueSize /\ Lesser(n + 1, QueueSize) > 0
  BY PollConstants DEF Lesser
<1>4. \A p \in Poller : /\ unread'[p] \in [Topic -> 0..QueueSize] /\ unread'[p][t] > 0
                        /\ \A u \in Topic \ {t} : unread'[p][u] = unread[p][u]
  BY <1>1, <1>2, <1>3, Zenon
<1>5. TypeOK'
  <2>1. unread' \in [Poller -> [Topic -> 0..QueueSize]]
    BY <1>1, <1>2, <1>3, Zenon
  <2>2. notifying' \in [Publisher -> Topic \cup {NoTopic}]
    BY <1>1, <1>2, Zenon
  <2> QED BY <1>1, <1>2, <2>1, <2>2, Zenon DEF TypeOK
<1>6. \A u \in Topic : (\E v \in Publisher : notifying[v] = u) => \E v \in Publisher : notifying'[v] = u
  <2>1. NoTopic \notin Topic
    BY PollConstants, Zenon
  <2> QED BY <1>1, <1>2, <2>1, Zenon
<1>7. \E v \in Publisher : notifying'[v] = t
  BY <1>1, <1>2, Zenon
<1>8. ASSUME NEW p \in Poller PROVE Own(p)'
  <2>1. Own(p) /\ revents[p] \subseteq Topic
    BY <1>1, Zenon DEF IInv, TypeOK
  <2>2. Position(p)' /\ \A u \in Topic : p \in Waiters(u)' <=> Registered(p, u)'
    BY <1>2, <2>1, SameCalls, Zenon DEF Own
  <2>3. \A u \in revents'[p] : unread'[p][u] > 0
    BY <1>2, <1>4, <2>1, Zenon DEF Own
  <2>4. \A k \in 1..stored[p] : Fds[p][k] \in Topic
    <3>1. 1..stored[p] \subseteq 1..Len(Fds[p])
      BY <2>1, FdsAre DEF Own, Position
    <3> QED BY <3>1, FdsAre, Zenon
  <2>5. Announced(p)'
    BY <1>2, <1>4, <1>6, <1>7, <2>1, <2>4, Zenon DEF Own, Announced
  <2> QED BY <2>2, <2>3, <2>5, Zenon DEF Own
<1> QED BY <1>5, <1>8, Zenon DEF IInv

\* It notifies the waiters of the topic, who are exactly those that need it.
LEMMA NotifyStep ==
  ASSUME IInv, NEW w \in Publisher, poll_notify(w)
  PROVE  IInv'
<1> DEFINE t == notifying[w]
<1>1. /\ TypeOK /\ notifying \in [Publisher -> Topic \cup {NoTopic}]
      /\ revents \in [Poller -> SUBSET Topic] /\ held \in [Poller -> SUBSET Topic]
      /\ sem \in [Poller -> BOOLEAN] /\ early \in [Poller -> SUBSET Topic]
  BY Zenon DEF IInv, TypeOK
<1>2. /\ t # NoTopic /\ notifying' = [notifying EXCEPT ![w] = NoTopic]
      /\ revents' = [p \in Poller |-> IF p \in Notified(t) THEN revents[p] \cup {t} ELSE revents[p]]
      /\ sem' = [p \in Poller |-> sem[p] \/ p \in Notified(t)]
      /\ held' = [p \in Poller |-> IF p \in Waiters(t) \ Notified(t)
                                     THEN held[p] \cup ({t} \cap early[p]) ELSE held[p] \ {t}]
      /\ pollset' = pollset /\ unread' = unread /\ early' = early
      /\ ppc' = ppc /\ timeout' = timeout /\ stored' = stored /\ i' = i
  BY Zenon DEF poll_notify, callVars
<1>3. t \in Topic
  BY <1>1, <1>2, Zenon
<1> HIDE DEF t
<1>4. ASSUME NEW p \in Poller
      PROVE  /\ revents'[p] = IF p \in Notified(t) THEN revents[p] \cup {t} ELSE revents[p]
             /\ sem'[p] = (sem[p] \/ p \in Notified(t))
             /\ held'[p] = IF p \in Waiters(t) \ Notified(t)
                           THEN held[p] \cup ({t} \cap early[p]) ELSE held[p] \ {t}
  BY <1>2, <1>4, Zenon
<1>5. TypeOK'
  <2>1. revents' \in [Poller -> SUBSET Topic] /\ held' \in [Poller -> SUBSET Topic]
    <3>1. \A p \in Poller : revents[p] \subseteq Topic /\ held[p] \subseteq Topic
      BY <1>1, Zenon
    <3>2. \A p \in Poller : /\ (IF p \in Notified(t) THEN revents[p] \cup {t} ELSE revents[p]) \in SUBSET Topic
                            /\ (IF p \in Waiters(t) \ Notified(t)
                                THEN held[p] \cup ({t} \cap early[p]) ELSE held[p] \ {t}) \in SUBSET Topic
      BY <1>3, <3>1
    <3> QED BY <1>2, <3>2, Zenon
  <2>2. sem' \in [Poller -> BOOLEAN]
    BY <1>1, <1>2, Zenon
  <2>3. notifying' \in [Publisher -> Topic \cup {NoTopic}]
    BY <1>1, <1>2, Zenon
  <2> QED BY <1>1, <1>2, <2>1, <2>2, <2>3, Zenon DEF TypeOK
<1>6. ASSUME NEW p \in Poller PROVE Own(p)'
  <2>1. Own(p)
    BY Zenon DEF IInv
  <2>2. Position(p)' /\ \A u \in Topic : p \in Waiters(u)' <=> Registered(p, u)'
    BY <1>2, <2>1, SameCalls, Zenon DEF Own
  <2>3. \A u \in revents'[p] : unread'[p][u] > 0
    BY <1>2, <1>4, <2>1, Zenon DEF Own, Notified, appears_updated
  <2>4. Announced(p)'
    <3> SUFFICES ASSUME ppc[p] \in {"setup", "wait"}, ~sem[p], p \notin Notified(t),
                        NEW k \in 1..stored[p], unread[p][Fds[p][k]] > 0
                 PROVE  Fds[p][k] \in held'[p] \/ \E v \in Publisher : notifying'[v] = Fds[p][k]
      BY <1>2, <1>4, Zenon DEF Announced
    <3>1. CASE Fds[p][k] = t
      <4>1. p \in Waiters(t)
        BY <1>3, <2>1, <3>1, Zenon DEF Own, Registered, Waits
      <4>2. t \in early[p]
        BY <3>1, <4>1, Zenon DEF Notified, appears_updated
      <4> QED BY <1>4, <3>1, <4>1, <4>2, Zenon
    <3>2. CASE Fds[p][k] # t
      <4>1. Fds[p][k] \in held[p] \/ \E v \in Publisher : notifying[v] = Fds[p][k]
        BY <2>1, Zenon DEF Own, Announced
      <4>2. held[p] \ {t} \subseteq held'[p]
        BY <1>4, Zenon
      <4>3. \A v \in Publisher : notifying[v] = Fds[p][k] => notifying'[v] = Fds[p][k]
        BY <1>1, <1>2, <3>2, Zenon DEF t
      <4> QED BY <3>2, <4>1, <4>2, <4>3, Zenon
    <3> QED BY <3>1, <3>2, Zenon
  <2> QED BY <2>2, <2>3, <2>4, Zenon DEF Own
<1> QED BY <1>5, <1>6, Zenon DEF IInv

-----------------------------------------------------------------------------
(***************************************************************************)
(* The inductive invariant of px4_poll, poll_notify and the sets of        *)
(* waiters.                                                                *)
(***************************************************************************)
THEOREM Invariance == Spec => []IInv
<1>1. IInv /\ [Next]_vars => IInv'
  <2> SUFFICES ASSUME IInv, [Next]_vars PROVE IInv'
    BY Zenon
  <2>1. CASE UNCHANGED vars
    <3>1. /\ pollset' = pollset /\ notifying' = notifying /\ unread' = unread /\ early' = early
          /\ held' = held /\ revents' = revents /\ sem' = sem
          /\ ppc' = ppc /\ timeout' = timeout /\ stored' = stored /\ i' = i
      BY <2>1, Zenon DEF vars, topicVars, subVars, callVars
    <3>2. TypeOK'
      BY <3>1, Zenon DEF IInv, TypeOK
    <3>3. \A p \in Poller : Announced(p) => Announced(p)'
      BY <3>1, Zenon DEF Announced
    <3> QED BY <3>1, <3>2, <3>3, SameCalls, Zenon DEF IInv, Own
  <2>2. ASSUME NEW w \in Publisher, poll_notify(w) \/ \E t \in Topic : Write(w, t) PROVE IInv'
    BY <2>2, NotifyStep, WriteStep, Zenon
  <2>3. ASSUME NEW p \in Poller, InPoll(p) PROVE IInv'
    BY <2>3, SetupStep, CallSteps, TeardownStep, Zenon DEF InPoll
  <2>4. ASSUME NEW p \in Poller,
               \/ Leave(p)
               \/ \E how \in {"finite", "forever"} : px4_poll(p, how)
               \/ \E t \in Topic : orb_copy(p, t) \/ Elapse(p, t)
        PROVE  IInv'
    BY <2>4, ReaderSteps, CallSteps, Zenon
  <2> QED BY <2>1, <2>2, <2>3, <2>4, Zenon DEF Next
<1> QED BY <1>1, Initially, PTL DEF Spec

\* Every variable keeps its type; unread never goes below zero.
THEOREM TypeCorrect == Spec => []TypeOK
BY Invariance, PTL DEF IInv

\* The sets of waiters of CDev hold exactly the calls of px4_poll that are between setup and teardown.
THEOREM WaitersAreThere == Spec => []WaitersAreExact
<1>1. IInv => WaitersAreExact
  BY Zenon DEF IInv, Own, Registered, Waits, WaitersAreExact
<1> QED BY <1>1, Invariance, PTL

\* No thread sleeps in px4_poll on a topic that looks updated and that nobody will announce.
THEOREM NotificationsAreKept == Spec => []NoLostNotification
<1>1. IInv => NoLostNotification
  <2> SUFFICES ASSUME IInv, NEW p \in Poller, ppc[p] = "wait", ~sem[p], ~Failed(p),
                      NEW t \in Polled(p), appears_updated(p, t)
               PROVE  t \in held[p] \/ \E w \in Publisher : notifying[w] = t
    BY Zenon DEF NoLostNotification
  <2>1. Own(p) /\ unread[p][t] > 0
    BY Zenon DEF IInv, appears_updated
  <2>2. ~(stored[p] < Len(Fds[p]))
    BY Zenon DEF Failed
  <2>3. 1..stored[p] = DOMAIN Fds[p]
    BY <2>1, <2>2, FdsAre DEF Own, Position
  <2>4. PICK k \in 1..stored[p] : Fds[p][k] = t
    BY <2>3, Zenon DEF Polled
  <2> QED BY <2>1, <2>4, Zenon DEF Own, Announced
<1> QED BY <1>1, Invariance, PTL

\* POLLIN is reported only for a topic of which the thread has not read everything.
THEOREM ReportsAreNew == Spec => []PollinIsNew
<1>1. IInv => PollinIsNew
  BY Zenon DEF IInv, Own, PollinIsNew
<1> QED BY <1>1, Invariance, PTL
=============================================================================
