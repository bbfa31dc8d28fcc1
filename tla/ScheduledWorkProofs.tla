------------------------- MODULE ScheduledWorkProofs -------------------------
(***************************************************************************)
(* The high resolution timer and the work queue together, for any number   *)
(* of items, any delays and any bound on the time: the thread of the hrt   *)
(* sleeps no longer than it may, its list is ruined in one way only, items *)
(* that left are not queued again but in one case, the queue is used as    *)
(* WorkQueue says, and the hrt implements Timer.                           *)
(***************************************************************************)
EXTENDS ScheduledWork, WorkQueueProofs, WellFoundedInduction

Sorted(s, at) == \A j, k \in 1..Len(s) : j < k => at[s[j]] <= at[s[k]]

\* The list of callouts holds the entries that have a deadline, once and in order.
ListInv ==
  ~twice => /\ Distinct(callout_queue) /\ Sorted(callout_queue, deadline)
            /\ Queued = {e \in Entry : deadline[e] # 0}

(***************************************************************************)
(* The entry whose callout is being made has a deadline and a period only  *)
(* if it was put on an interval meanwhile, and then the deadline is later  *)
(* than the callout, unless intervals may start at once.                   *)
(***************************************************************************)
CallInv ==
  /\ call = NoEntry <=> tpc \notin {"callout", "called"}
  /\ seen <= now
  /\ twice => rearmed /\ tpc = "invoke"
  /\ call # NoEntry /\ deadline[call] # 0 /\ period[call] # 0
       => rearmed /\ (0 \notin Starts => seen < deadline[call])

\* _hrt_work is due in time for the first entry, and so is the end of the sleep.
SleepInv ==
  /\ tpc \in {"scan", "unlocked", "asleep"} /\ callout_queue # <<>>
       => expiry # 0 /\ expiry <= Greater(now + IntervalMin, deadline[Head(callout_queue)])
  /\ tpc = "unlocked" /\ ~missed /\ expiry # 0 => now + wake <= expiry
  /\ tpc = "asleep" /\ ~missed /\ expiry # 0 => wake <= expiry

(***************************************************************************)
(* Only the thread of the hrt schedules items, and only the one whose      *)
(* callout it makes.  An item that does not live has no deadline; its      *)
(* callout is being made, or it is queued after Remove, only if it was     *)
(* destroyed during its callout.                                           *)
(***************************************************************************)
LifeInv ==
  /\ Chain(q) /\ dying \subseteq Item
  /\ \A t \in Thread : cpc[t] # "idle" => t = Timer /\ tpc = "called" /\ citem[t] = call
  /\ \A i \in Item : ~Alive(i) => deadline[i] = 0 /\ period[i] = 0
  /\ \A i \in Item : ~Alive(i) /\ call = i => i \in overtaken
  /\ \A i \in Item : opc[i] \notin {"in", "nulled"} /\ i \in Reached(q) => i \in overtaken

SInv == IInv /\ TimerTypeOK /\ ListInv /\ CallInv /\ SleepInv /\ LifeInv

\* A set of numbers that is not empty has a least one.
LEMMA Least ==
  ASSUME NEW S, S \subseteq Nat, S # {}
  PROVE  \E k \in S : \A j \in S : k <= j
<1> DEFINE R == OpToRel(<, Nat)
<1>1. \A j, k \in Nat : <<j, k>> \in R <=> j < k
  BY Zenon DEF OpToRel
<1>2. IsWellFoundedOn(R, Nat)
  BY NatLessThanWellFounded, Zenon
<1> HIDE DEF R
<1>3. \E k \in S : \A j \in S : <<j, k>> \notin R
  BY <1>2, WFMin, Zenon
<1>4. \A j, k \in S : ~(j < k) => k <= j
  OBVIOUS
<1>5. \A j, k \in S : <<j, k>> \notin R => k <= j
  BY <1>1, <1>4, Zenon
<1> QED BY <1>3, <1>5, Zenon

\* hrt_call_enter finds the place before which no entry is later.
LEMMA PlaceIsFirstLater ==
  ASSUME NEW s \in Seq(Entry), NEW at \in [Entry -> Nat], NEW e \in Entry
  PROVE  LET p == Place(s, at, e)
         IN  /\ p \in 1..(Len(s) + 1)
             /\ \A k \in 1..Len(s) : k < p => at[s[k]] <= at[e]
             /\ Sorted(s, at) => \A k \in 1..Len(s) : p <= k => at[e] <= at[s[k]]
<1> DEFINE later == Later(s, at, e)
           p == Place(s, at, e)
<1>1. \A k \in 1..Len(s) : at[s[k]] \in Nat /\ at[e] \in Nat
  OBVIOUS
<1>2. Len(s) \in Nat
  OBVIOUS
<1>3. \A k \in 1..Len(s) : k \notin later => at[s[k]] <= at[e]
  BY <1>1 DEF Later
<1>4. \A k \in later : k \in 1..Len(s) /\ k \in Nat /\ at[e] <= at[s[k]]
  BY <1>1 DEF Later
<1>5. CASE later = {}
  <2>1. p = Len(s) + 1
    BY <1>5, Zenon DEF Place
  <2>2. \A k \in 1..Len(s) : at[s[k]] <= at[e]
    BY <1>3, <1>5, Zenon
  <2> HIDE DEF p
  <2>3. p \in 1..(Len(s) + 1) /\ \A k \in 1..Len(s) : ~(p <= k)
    BY <1>2, <2>1
  <2> QED BY <2>2, <2>3, Zenon DEF p
<1>6. CASE later # {}
  <2>1. \E k \in later : \A j \in later : k <= j
    BY <1>4, <1>6, Least, Zenon
  <2>2. p = CHOOSE k \in later : \A j \in later : k <= j
    BY <1>6, Zenon DEF Place
  <2>3. p \in later /\ \A j \in later : p <= j
    BY <2>1, <2>2, Zenon
  <2> HIDE DEF p, later
  <2>4. p \in 1..(Len(s) + 1) /\ p \in 1..Len(s) /\ at[e] <= at[s[p]]
    BY <1>2, <1>4, <2>3
  <2>5. ASSUME NEW k \in 1..Len(s), k < p PROVE at[s[k]] <= at[e]
    <3>1. k \notin later
      BY <2>3, <2>4, <2>5
    <3> QED BY <1>3, <3>1, Zenon
  <2>6. ASSUME Sorted(s, at), NEW k \in 1..Len(s), p <= k PROVE at[e] <= at[s[k]]
    <3>1. p = k \/ p < k
      BY <2>4, <2>6
    <3>2. at[s[p]] <= at[s[k]]
      BY <1>1, <2>4, <2>6, <3>1 DEF Sorted
    <3>3. at[s[p]] \in Nat /\ at[s[k]] \in Nat /\ at[e] \in Nat
      BY <1>1, <2>4, Zenon
    <3> QED BY <2>4, <3>2, <3>3
  <2> QED BY <2>4, <2>5, <2>6, Zenon DEF p
<1> QED BY <1>5, <1>6, Zenon

\* hrt_call_enter keeps the list sorted, and its first entry if that is not later.
LEMMA EnterSorted ==
  ASSUME NEW s \in Seq(Entry), NEW at \in [Entry -> Nat], NEW e \in Entry
  PROVE  LET r == Enter(s, at, e)
         IN  /\ r \in Seq(Entry) /\ r # <<>> /\ Head(r) \in Entry
             /\ Members(r) = Members(s) \cup {e}
             /\ Distinct(s) /\ e \notin Members(s) => Distinct(r)
             /\ Sorted(s, at) => Sorted(r, at)
             /\ s # <<>> /\ at[Head(s)] <= at[e] => Head(r) = Head(s)
<1> DEFINE p == Place(s, at, e)
           r == Enter(s, at, e)
<1>1. /\ p \in 1..(Len(s) + 1)
      /\ \A k \in 1..Len(s) : k < p => at[s[k]] <= at[e]
      /\ Sorted(s, at) => \A k \in 1..Len(s) : p <= k => at[e] <= at[s[k]]
  BY PlaceIsFirstLater, Zenon
<1>2. r = With(s, p, e)
  BY Zenon DEF Enter
<1> HIDE DEF p, r
<1>3. /\ r \in Seq(Entry) /\ Len(r) = Len(s) + 1
      /\ Members(r) = Members(s) \cup {e}
      /\ Distinct(s) /\ e \notin Members(s) => Distinct(r)
  BY <1>1, <1>2, WithMembers
<1>4. r # <<>> /\ Head(r) \in Entry /\ Len(s) \in Nat /\ Head(r) = r[1]
  BY <1>3
<1>5. \A k \in 1..(Len(s) + 1) : r[k] = IF k < p THEN s[k] ELSE IF k = p THEN e ELSE s[k - 1]
  BY <1>2, Zenon DEF With
<1>6. ASSUME Sorted(s, at) PROVE Sorted(r, at)
  <2> SUFFICES ASSUME NEW j \in 1..(Len(s) + 1), NEW k \in 1..(Len(s) + 1), j < k
               PROVE  at[r[j]] <= at[r[k]]
    BY <1>3, Zenon DEF Sorted
  <2>0. j \in Nat /\ k \in Nat /\ p \in Nat /\ at[e] \in Nat
    BY <1>1
  <2>1. CASE k < p
    <3>1. j \in 1..Len(s) /\ k \in 1..Len(s) /\ j < p
      BY <1>1, <1>4, <2>0, <2>1
    <3> QED BY <1>5, <1>6, <2>1, <3>1, Zenon DEF Sorted
  <2>2. CASE k = p
    <3>1. j \in 1..Len(s) /\ j < p
      BY <1>1, <1>4, <2>0, <2>2
    <3>2. r[j] = s[j] /\ r[k] = e
      BY <1>5, <2>0, <2>2, <3>1
    <3> QED BY <1>1, <3>1, <3>2, Zenon
  <2>3. CASE p < k
    <3>1. k - 1 \in 1..Len(s) /\ p <= k - 1 /\ ~(k < p) /\ k # p
      BY <1>1, <1>4, <2>0, <2>3
    <3>2. r[k] = s[k - 1]
      BY <1>5, <3>1, Zenon
    <3>3. CASE j < p
      <4>1. j \in 1..Len(s) /\ r[j] = s[j] /\ j < k - 1
        BY <1>5, <2>0, <3>1, <3>3
      <4> QED BY <1>6, <3>1, <3>2, <4>1, Zenon DEF Sorted
    <3>4. CASE j = p
      <4>1. r[j] = e
        BY <1>5, <2>0, <3>4
      <4> QED BY <1>1, <1>6, <3>1, <3>2, <4>1, Zenon
    <3>5. CASE p < j
      <4>1. j - 1 \in 1..Len(s) /\ r[j] = s[j - 1] /\ j - 1 < k - 1
        BY <1>1, <1>4, <1>5, <2>0, <3>5
      <4> QED BY <1>6, <3>1, <3>2, <4>1, Zenon DEF Sorted
    <3> QED BY <2>0, <3>3, <3>4, <3>5
  <2> QED BY <2>0, <2>1, <2>2, <2>3
<1>7. ASSUME s # <<>>, at[Head(s)] <= at[e] PROVE Head(r) = Head(s)
  <2>1. Head(s) = s[1] /\ 1 \in 1..Len(s) /\ 1 \in 1..(Len(s) + 1)
    BY <1>4, <1>7
  <2>2. p # 1
    <3> SUFFICES ASSUME p = 1 PROVE FALSE
      BY Zenon
    <3>1. Later(s, at, e) = {} => p = Len(s) + 1
      BY Zenon DEF Place, p
    <3>2. Later(s, at, e) # {} => p \in Later(s, at, e)
      <4> SUFFICES ASSUME Later(s, at, e) # {} PROVE p \in Later(s, at, e)
        BY Zenon
      <4>1. Later(s, at, e) \subseteq Nat
        BY DEF Later
      <4>2. \E k \in Later(s, at, e) : \A j \in Later(s, at, e) : k <= j
        BY <4>1, Least, Zenon
      <4>3. p = CHOOSE k \in Later(s, at, e) : \A j \in Later(s, at, e) : k <= j
        BY Zenon DEF Place, p
      <4> QED BY <4>2, <4>3, Zenon
    <3>3. 1 \notin Later(s, at, e)
      <4>1. at[s[1]] \in Nat /\ at[e] \in Nat
        BY <2>1
      <4> QED BY <1>7, <2>1, <4>1 DEF Later
    <3> QED BY <1>4, <1>7, <3>1, <3>2, <3>3, <2>1
  <2>3. 1 < p
    BY <1>1, <2>2
  <2> QED BY <1>4, <1>5, <2>1, <2>3, Zenon
<1> QED BY <1>3, <1>4, <1>6, <1>7, Zenon DEF r

\* Every element of r comes from s, in the same order.
InOrder(r, s) ==
  /\ \A j \in 1..Len(r) : \E a \in 1..Len(s) : r[j] = s[a]
  /\ \A j, k \in 1..Len(r) : j < k =>
        \E a, b \in 1..Len(s) : a < b /\ r[j] = s[a] /\ r[k] = s[b]

\* What is left of a sequence is in the same order.
LEMMA WithoutOrder ==
  ASSUME NEW s \in Seq(Entry), NEW n, NEW r, r = Without(s, n)
  PROVE  InOrder(r, s)
<1>1. CASE ~\E k \in 1..Len(s) : s[k] = n
  <2>1. r = s
    BY <1>1, Zenon DEF Without
  <2> QED BY <2>1, Zenon DEF InOrder
<1>2. CASE \E k \in 1..Len(s) : s[k] = n
  <2> DEFINE p == CHOOSE k \in 1..Len(s) : s[k] = n
             at(k) == IF k < p THEN k ELSE k + 1
  <2>1. p \in 1..Len(s) /\ s[p] = n
    BY <1>2, Zenon
  <2>2. Len(s) \in Nat /\ p \in Nat
    BY <2>1
  <2>3. r = [k \in 1..(Len(s) - 1) |-> s[at(k)]]
    BY <1>2, Zenon DEF Without
  <2> HIDE DEF p
  <2>4. \A k \in 1..(Len(s) - 1) : at(k) \in 1..Len(s) /\ s[at(k)] \in Entry
    BY <2>1, <2>2
  <2>5. \A j, k \in 1..(Len(s) - 1) : j < k => at(j) < at(k)
    BY <2>1, <2>2
  <2> HIDE DEF at
  <2>6. r \in Seq(Entry) /\ Len(r) = Len(s) - 1
    BY <2>1, <2>2, <2>3, <2>4
  <2>7. \A k \in 1..Len(r) : r[k] = s[at(k)]
    BY <2>3, <2>6, Zenon
  <2>8. \A j \in 1..Len(r) : \E a \in 1..Len(s) : r[j] = s[a]
    BY <2>4, <2>6, <2>7, Zenon
  <2>9. \A j, k \in 1..Len(r) : j < k =>
           \E a, b \in 1..Len(s) : a < b /\ r[j] = s[a] /\ r[k] = s[b]
    <3> SUFFICES ASSUME NEW j \in 1..Len(r), NEW k \in 1..Len(r), j < k
                 PROVE  \E a, b \in 1..Len(s) : a < b /\ r[j] = s[a] /\ r[k] = s[b]
      BY Zenon
    <3>1. /\ at(j) \in 1..Len(s) /\ at(k) \in 1..Len(s) /\ at(j) < at(k)
          /\ r[j] = s[at(j)] /\ r[k] = s[at(k)]
      BY <2>4, <2>5, <2>6, <2>7, Zenon
    <3> QED BY <3>1, Zenon
  <2> QED BY <2>6, <2>8, <2>9, Zenon DEF InOrder
<1> QED BY <1>1, <1>2, Zenon

\* sq_rem keeps the list sorted, and what is first then was not before the first.
LEMMA RemSorted ==
  ASSUME NEW s \in Seq(Entry), NEW at \in [Entry -> Nat], NEW e \in Entry,
         Distinct(s), Sorted(s, at)
  PROVE  LET r == sq_rem(s, e)
         IN  /\ r \in Seq(Entry) /\ Distinct(r) /\ Sorted(r, at)
             /\ Members(r) = Members(s) \ {e}
             /\ r # <<>> => /\ s # <<>> /\ Head(s) \in Entry /\ Head(r) \in Entry
                            /\ Head(r) # e /\ at[Head(s)] <= at[Head(r)]
<1> DEFINE r == sq_rem(s, e)
<1>1. /\ r \in Seq(Entry) /\ Distinct(r) /\ Members(r) = Members(s) \ {e}
      /\ InOrder(r, s)
  <2>1. r = Without(s, e)
    BY Zenon DEF sq_rem
  <2> HIDE DEF r
  <2>2. r \in Seq(Entry) /\ Distinct(r) /\ Members(r) = Members(s) \ {e}
    BY <2>1, WithoutMembers, Zenon
  <2>3. InOrder(r, s)
    BY <2>1, WithoutOrder, Zenon
  <2> QED BY <2>2, <2>3, Zenon
<1> HIDE DEF r
<1>2. Sorted(r, at)
  <2> SUFFICES ASSUME NEW j \in 1..Len(r), NEW k \in 1..Len(r), j < k
               PROVE  at[r[j]] <= at[r[k]]
    BY Zenon DEF Sorted
  <2>1. PICK a \in 1..Len(s), b \in 1..Len(s) : a < b /\ r[j] = s[a] /\ r[k] = s[b]
    BY <1>1, Zenon DEF InOrder
  <2>2. at[s[a]] <= at[s[b]]
    BY <2>1, Zenon DEF Sorted
  <2> QED BY <2>1, <2>2, Zenon
<1>3. ASSUME r # <<>>
      PROVE  /\ s # <<>> /\ Head(s) \in Entry /\ Head(r) \in Entry
             /\ Head(r) # e /\ at[Head(s)] <= at[Head(r)]
  <2>1. Head(r) = r[1] /\ 1 \in 1..Len(r) /\ Head(r) \in Entry
    BY <1>1, <1>3
  <2>2. Head(r) # e
    BY <1>1, <2>1, Zenon DEF Members
  <2>3. PICK a \in 1..Len(s) : r[1] = s[a]
    BY <1>1, <2>1, Zenon DEF InOrder
  <2>4. s # <<>> /\ Head(s) = s[1] /\ 1 \in 1..Len(s) /\ Head(s) \in Entry /\ (a = 1 \/ 1 < a)
    BY <2>3
  <2>5. at[s[1]] \in Nat
    BY <2>4, Zenon
  <2>6. at[s[1]] <= at[s[a]]
    <3>1. CASE a = 1
      BY <2>5, <3>1
    <3>2. CASE 1 < a
      BY <2>4, <3>2, Zenon DEF Sorted
    <3> QED BY <2>4, <3>1, <3>2, Zenon
  <2> QED BY <2>1, <2>2, <2>3, <2>4, <2>6, Zenon
<1> QED BY <1>1, <1>2, <1>3, Zenon DEF r

\* _hrt_work is never due later than the first entry, but for HRT_INTERVAL_MIN.
LEMMA ExpiryIsSoon ==
  ASSUME now \in Nat \ {0}, NEW s \in Seq(Entry), NEW at \in [Entry -> Nat]
  PROVE  /\ Expiry(s, at) \in Nat /\ Expiry(s, at) # 0
         /\ s # <<>> => Expiry(s, at) <= Greater(now + IntervalMin, at[Head(s)])
<1>1. IntervalMin \in Nat /\ IntervalMax \in Nat
  BY TimerConstants, Zenon
<1>2. s # <<>> => at[Head(s)] \in Nat
  OBVIOUS
<1> QED BY <1>1, <1>2 DEF Expiry, Greater, Lesser

\* hrt_call_internal: rest is the list without the entry.
LEMMA RestOfList ==
  ASSUME TimerTypeOK, ListInv, ~twice, NEW e \in Entry, NEW rest,
         rest = IF deadline[e] # 0 THEN sq_rem(callout_queue, e) ELSE callout_queue
  PROVE  /\ rest \in Seq(Entry) /\ Distinct(rest) /\ Sorted(rest, deadline)
         /\ Members(rest) = Queued \ {e}
         /\ rest # <<>> => /\ callout_queue # <<>> /\ Head(callout_queue) \in Entry
                           /\ Head(rest) \in Entry /\ Head(rest) # e
                           /\ deadline[Head(callout_queue)] <= deadline[Head(rest)]
<1>1. /\ callout_queue \in Seq(Entry) /\ deadline \in [Entry -> Nat]
      /\ Distinct(callout_queue) /\ Sorted(callout_queue, deadline)
      /\ Members(callout_queue) = {f \in Entry : deadline[f] # 0}
      /\ Queued = Members(callout_queue)
  BY Zenon DEF TimerTypeOK, ListInv, Queued
<1>2. CASE deadline[e] # 0
  <2>1. rest = sq_rem(callout_queue, e)
    BY <1>2, Zenon
  <2> QED BY <1>1, <2>1, RemSorted
<1>3. CASE deadline[e] = 0
  <2>1. rest = callout_queue /\ e \notin Members(callout_queue)
    BY <1>1, <1>3, Zenon
  <2>2. ASSUME rest # <<>>
        PROVE  /\ Head(rest) \in Entry /\ Head(rest) # e
               /\ deadline[Head(callout_queue)] <= deadline[Head(rest)]
    <3>1. Head(rest) = rest[1] /\ 1 \in 1..Len(rest) /\ Head(rest) \in Entry
      BY <1>1, <2>1, <2>2
    <3>2. deadline[Head(rest)] \in Nat
      BY <1>1, <3>1, Zenon
    <3>3. Head(rest) \in Members(rest)
      BY <3>1, Zenon DEF Members
    <3> QED BY <2>1, <3>1, <3>2, <3>3
  <2> QED BY <1>1, <2>1, <2>2, Zenon
<1> QED BY <1>2, <1>3, Zenon

\* What hrt_call_internal changes besides the list.
LEMMA ArmEffect ==
  ASSUME TimerTypeOK, NEW e \in Entry, NEW d \in Nat, NEW p \in Nat,
         hrt_call_internal(e, now + d, p)
  PROVE  /\ deadline'[e] = now + d /\ now + d # 0 /\ period'[e] = p
         /\ \A f \in Entry : f # e => deadline'[f] = deadline[f] /\ period'[f] = period[f]
         /\ now' = now /\ call' = call /\ base' = base /\ seen' = seen
         /\ tpc' = tpc \/ (tpc = "asleep" /\ tpc' = "scan")
<1>1. now \in Nat \ {0} /\ deadline \in [Entry -> Nat] /\ period \in [Entry -> Nat]
  BY Zenon DEF TimerTypeOK
<1>2. /\ deadline' = [deadline EXCEPT ![e] = now + d] /\ period' = [period EXCEPT ![e] = p]
      /\ now' = now /\ call' = call /\ base' = base /\ seen' = seen
  BY Zenon DEF hrt_call_internal
<1>3. tpc' = tpc \/ (tpc = "asleep" /\ tpc' = "scan")
  BY Zenon DEF hrt_call_internal, Signal
<1>4. now + d # 0
  BY <1>1
<1>5. /\ deadline'[e] = now + d /\ period'[e] = p
      /\ \A f \in Entry : f # e => deadline'[f] = deadline[f] /\ period'[f] = period[f]
  BY <1>1, <1>2, Zenon
<1> QED BY <1>2, <1>3, <1>4, <1>5, Zenon

\* What hrt_cancel changes besides the list.
LEMMA CancelEffect ==
  ASSUME TimerTypeOK, NEW e \in Entry, hrt_cancel(e)
  PROVE  /\ deadline'[e] = 0 /\ period'[e] = 0
         /\ \A f \in Entry : f # e => deadline'[f] = deadline[f] /\ period'[f] = period[f]
         /\ now' = now /\ call' = call /\ base' = base /\ seen' = seen /\ tpc' = tpc
<1>1. deadline \in [Entry -> Nat] /\ period \in [Entry -> Nat]
  BY Zenon DEF TimerTypeOK
<1> QED BY <1>1, Zenon DEF hrt_cancel, threadState

\* hrt_call_internal keeps the list, and has the thread wake up in time.
LEMMA ArmStep ==
  ASSUME TimerTypeOK, ListInv, SleepInv, ~twice,
         NEW e \in Entry, NEW d \in Nat, NEW p \in Nat, hrt_call_internal(e, now + d, p)
  PROVE  TimerTypeOK' /\ ListInv' /\ SleepInv' /\ ~twice'
<1> DEFINE rest == IF deadline[e] # 0 THEN sq_rem(callout_queue, e) ELSE callout_queue
           first == rest = <<>> \/ now + d < deadline[Head(rest)]
<1>0. /\ now \in Nat \ {0} /\ deadline \in [Entry -> Nat] /\ period \in [Entry -> Nat]
      /\ callout_queue \in Seq(Entry) /\ expiry \in Nat /\ missed \in BOOLEAN /\ wake \in Nat
  BY Zenon DEF TimerTypeOK
<1>1. /\ rest \in Seq(Entry) /\ Distinct(rest) /\ Sorted(rest, deadline)
      /\ Members(rest) = Queued \ {e}
      /\ rest # <<>> => /\ callout_queue # <<>> /\ Head(callout_queue) \in Entry
                        /\ Head(rest) \in Entry /\ Head(rest) # e
                        /\ deadline[Head(callout_queue)] <= deadline[Head(rest)]
  BY RestOfList
<1>2. /\ deadline' = [deadline EXCEPT ![e] = now + d]
      /\ period' = [period EXCEPT ![e] = p]
      /\ callout_queue' = Enter(rest, deadline', e)
      /\ twice' = (e \in Members(rest))
      /\ now' = now /\ call' = call /\ base' = base /\ seen' = seen
      /\ first => expiry' = Expiry(callout_queue', deadline') /\ Signal
      /\ ~first => expiry' = expiry /\ missed' = missed /\ tpc' = tpc /\ wake' = wake
  BY Zenon DEF hrt_call_internal
<1> HIDE DEF rest, first
<1>3. /\ deadline' \in [Entry -> Nat] /\ deadline'[e] = now + d /\ period' \in [Entry -> Nat]
      /\ \A f \in Entry : f # e => deadline'[f] = deadline[f]
  BY <1>0, <1>2
<1>4. ~twice'
  BY <1>1, <1>2, Zenon
<1>5. Sorted(rest, deadline')
  <2>1. \A k \in 1..Len(rest) : rest[k] \in Members(rest)
    BY Zenon DEF Members
  <2>2. \A k \in 1..Len(rest) : rest[k] # e /\ rest[k] \in Entry
    BY <1>1, <2>1
  <2> QED BY <1>1, <1>3, <2>2, Zenon DEF Sorted
<1>6. /\ callout_queue' \in Seq(Entry) /\ callout_queue' # <<>>
      /\ Head(callout_queue') \in Entry
      /\ Members(callout_queue') = Members(rest) \cup {e}
      /\ Distinct(callout_queue') /\ Sorted(callout_queue', deadline')
      /\ rest # <<>> /\ deadline'[Head(rest)] <= deadline'[e]
           => Head(callout_queue') = Head(rest)
  BY <1>1, <1>2, <1>3, <1>5, EnterSorted, Zenon
<1>7. ListInv'
  <2>1. Queued = {f \in Entry : deadline[f] # 0}
    BY Zenon DEF ListInv
  <2>2. now + d # 0
    BY <1>0
  <2>3. Members(callout_queue') = {f \in Entry : deadline'[f] # 0}
    BY <1>1, <1>3, <1>6, <2>1, <2>2, Zenon
  <2> QED BY <1>6, <2>3, Zenon DEF ListInv, Queued
<1>8. /\ expiry' \in Nat
      /\ tpc' \in {"scan", "unlocked", "asleep"}
           => expiry' # 0 /\ expiry' <= Greater(now + IntervalMin, deadline'[Head(callout_queue')])
  <2>1. CASE first
    BY <1>0, <1>2, <1>3, <1>6, <2>1, ExpiryIsSoon, Zenon
  <2>2. CASE ~first
    <3>1. rest # <<>> /\ ~(now + d < deadline[Head(rest)])
      BY <2>2, Zenon DEF first
    <3>2. /\ deadline[Head(rest)] \in Nat /\ deadline[Head(callout_queue)] \in Nat
          /\ deadline'[Head(rest)] = deadline[Head(rest)]
          /\ deadline[Head(callout_queue)] <= deadline[Head(rest)]
      BY <1>0, <1>1, <1>3, <3>1, Zenon
    <3>3. Head(callout_queue') = Head(rest)
      <4>1. deadline'[Head(rest)] <= deadline'[e]
        BY <1>0, <1>3, <3>1, <3>2
      <4> QED BY <1>6, <3>1, <4>1, Zenon
    <3>4. tpc \in {"scan", "unlocked", "asleep"}
            => expiry # 0 /\ expiry <= Greater(now + IntervalMin, deadline[Head(callout_queue)])
      BY <1>1, <3>1, Zenon DEF SleepInv
    <3>5. IntervalMin \in Nat
      BY TimerConstants, Zenon
    <3>6. expiry' = expiry /\ tpc' = tpc /\ now \in Nat
          /\ deadline'[Head(callout_queue')] = deadline[Head(rest)]
      BY <1>0, <1>2, <2>2, <3>2, <3>3, Zenon
    <3>7. ASSUME NEW a \in Nat, NEW b \in Nat, a <= b, NEW x \in Nat,
                 x <= Greater(now + IntervalMin, a)
          PROVE  x <= Greater(now + IntervalMin, b)
      BY <3>5, <3>6, <3>7 DEF Greater
    <3>8. expiry <= Greater(now + IntervalMin, deadline[Head(callout_queue)])
            => expiry <= Greater(now + IntervalMin, deadline[Head(rest)])
      BY <1>0, <3>2, <3>7, Zenon
    <3> QED BY <1>0, <3>4, <3>6, <3>8, Zenon
  <2> QED BY <2>1, <2>2, Zenon
<1>9. SleepInv' /\ tpc' \in {tpc, "scan"} /\ wake' \in Nat /\ missed' \in BOOLEAN
  <2>1. CASE first
    <3>1. Signal
      BY <1>2, <2>1, Zenon
    <3>2. /\ tpc' \in {tpc, "scan"} /\ wake' \in Nat /\ missed' \in BOOLEAN
          /\ tpc' \in {"unlocked", "asleep"} => missed'
      <4>1. CASE tpc' = "scan" /\ wake' = 0 /\ missed' = missed
        <5>1. wake' \in Nat
          BY <4>1, Zenon
        <5> QED BY <1>0, <4>1, <5>1, Zenon
      <4>2. CASE missed' = (missed \/ tpc \in {"unlocked", "asleep"}) /\ tpc' = tpc /\ wake' = wake
        BY <1>0, <4>2, Zenon
      <4> QED BY <3>1, <4>1, <4>2, Zenon DEF Signal
    <3>3. SleepInv'
      BY <1>2, <1>8, <3>2, Zenon DEF SleepInv
    <3> QED BY <3>2, <3>3, Zenon
  <2>2. CASE ~first
    BY <1>0, <1>2, <1>8, <2>2 DEF SleepInv
  <2> QED BY <2>1, <2>2, Zenon
<1>10. TimerTypeOK'
  BY <1>2, <1>3, <1>4, <1>6, <1>8, <1>9 DEF TimerTypeOK
<1> QED BY <1>4, <1>7, <1>9, <1>10, Zenon

\* hrt_cancel keeps the list; the thread may wake up too early then, never late.
LEMMA CancelStep ==
  ASSUME TimerTypeOK, ListInv, SleepInv, ~twice, NEW e \in Entry, hrt_cancel(e)
  PROVE  TimerTypeOK' /\ ListInv' /\ SleepInv' /\ ~twice'
<1>0. /\ now \in Nat \ {0} /\ deadline \in [Entry -> Nat] /\ period \in [Entry -> Nat]
      /\ callout_queue \in Seq(Entry) /\ expiry \in Nat
      /\ Distinct(callout_queue) /\ Sorted(callout_queue, deadline)
      /\ Members(callout_queue) = {f \in Entry : deadline[f] # 0}
  BY Zenon DEF TimerTypeOK, ListInv, Queued
<1>1. /\ deadline' = [deadline EXCEPT ![e] = 0]
      /\ period' = [period EXCEPT ![e] = 0]
      /\ callout_queue' = sq_rem(callout_queue, e)
      /\ UNCHANGED <<now, expiry, missed, twice, tpc, call, base, seen, wake>>
  BY Zenon DEF hrt_cancel, threadState
<1>2. /\ callout_queue' \in Seq(Entry) /\ Distinct(callout_queue')
      /\ Sorted(callout_queue', deadline)
      /\ Members(callout_queue') = Members(callout_queue) \ {e}
      /\ callout_queue' # <<>> =>
            /\ callout_queue # <<>> /\ Head(callout_queue) \in Entry
            /\ Head(callout_queue') \in Entry /\ Head(callout_queue') # e
            /\ deadline[Head(callout_queue)] <= deadline[Head(callout_queue')]
  BY <1>0, <1>1, RemSorted, Zenon
<1>3. /\ deadline' \in [Entry -> Nat] /\ deadline'[e] = 0 /\ period' \in [Entry -> Nat]
      /\ \A f \in Entry : f # e => deadline'[f] = deadline[f]
  BY <1>0, <1>1, Zenon
<1>4. Sorted(callout_queue', deadline')
  <2>1. \A k \in 1..Len(callout_queue') : callout_queue'[k] \in Members(callout_queue')
    BY Zenon DEF Members
  <2>2. \A k \in 1..Len(callout_queue') : callout_queue'[k] # e /\ callout_queue'[k] \in Entry
    BY <1>0, <1>2, <2>1, Zenon
  <2> QED BY <1>2, <1>3, <2>2, Zenon DEF Sorted
<1>5. ListInv'
  <2>1. Members(callout_queue') = {f \in Entry : deadline'[f] # 0}
    BY <1>0, <1>2, <1>3, Zenon
  <2> QED BY <1>2, <1>4, <2>1, Zenon DEF ListInv, Queued
<1>6. SleepInv'
  <2>1. IntervalMin \in Nat
    BY TimerConstants, Zenon
  <2>2. ASSUME tpc \in {"scan", "unlocked", "asleep"}, callout_queue' # <<>>
        PROVE  expiry # 0 /\ expiry <= Greater(now + IntervalMin, deadline'[Head(callout_queue')])
    <3>1. expiry # 0 /\ expiry <= Greater(now + IntervalMin, deadline[Head(callout_queue)])
      BY <1>2, <2>2, Zenon DEF SleepInv
    <3>2. /\ deadline[Head(callout_queue)] \in Nat /\ deadline'[Head(callout_queue')] \in Nat
          /\ deadline[Head(callout_queue)] <= deadline'[Head(callout_queue')]
      BY <1>0, <1>2, <1>3, <2>2, Zenon
    <3> QED BY <1>0, <2>1, <3>1, <3>2 DEF Greater
  <2> QED BY <1>1, <2>2, Zenon DEF SleepInv
<1>7. TimerTypeOK'
  BY <1>1, <1>2, <1>3, Zenon DEF TimerTypeOK
<1> QED BY <1>1, <1>5, <1>6, <1>7, Zenon

\* hrt_call_invoke enters a repeating call again when its callout is back.
LEMMA ReenterStep ==
  ASSUME TimerTypeOK, ListInv, CallInv, ~twice, Reenter, rearmed' = (rearmed /\ twice')
  PROVE  TimerTypeOK' /\ ListInv' /\ CallInv' /\ SleepInv'
<1>0. /\ now \in Nat \ {0} /\ deadline \in [Entry -> Nat] /\ period \in [Entry -> Nat]
      /\ callout_queue \in Seq(Entry) /\ expiry \in Nat /\ base \in Nat /\ seen \in Nat
      /\ Distinct(callout_queue) /\ Sorted(callout_queue, deadline)
      /\ Queued = {f \in Entry : deadline[f] # 0} /\ Members(callout_queue) = Queued
  BY Zenon DEF TimerTypeOK, ListInv, Queued
<1>1. call \in Entry /\ call # NoEntry
  BY NoEntryIsNone, Zenon DEF Reenter, CallInv, TimerTypeOK
<1>2. /\ tpc' = "invoke" /\ call' = NoEntry /\ base' = 0 /\ seen' = 0
      /\ now' = now /\ period' = period /\ missed' = missed /\ wake' = wake
  BY Zenon DEF Reenter
<1>3. SleepInv'
  BY <1>2, Zenon DEF SleepInv
<1>4. twice' => rearmed
  <2> SUFFICES ASSUME twice' PROVE rearmed
    BY Zenon
  <2>1. period[call] # 0 /\ call \in Queued
    BY Zenon DEF Reenter
  <2> QED BY <1>0, <1>1, <2>1, Zenon DEF CallInv
<1>5. CallInv'
  <2>1. 0 <= now
    BY <1>0
  <2> QED BY <1>2, <1>4, <2>1, NoEntryIsNone, Zenon DEF CallInv
<1>6. CASE period[call] = 0
  <2>1. UNCHANGED <<deadline, callout_queue, expiry, twice>>
    BY <1>6, Zenon DEF Reenter
  <2>2. TimerTypeOK'
    BY <1>2, <2>1, Zenon DEF TimerTypeOK
  <2>3. ListInv'
    BY <2>1, Zenon DEF ListInv, Queued
  <2> QED BY <1>3, <1>5, <2>2, <2>3, Zenon
<1>7. CASE period[call] # 0
  <2> DEFINE at == [deadline EXCEPT ![call] = IF @ <= seen THEN base + period[call] ELSE @]
  <2>1. /\ deadline' = at /\ callout_queue' = Enter(callout_queue, deadline', call)
        /\ twice' = (call \in Queued)
        /\ expiry' = IF Head(callout_queue') = call THEN Expiry(callout_queue', deadline') ELSE expiry
    <3>1. /\ deadline' = at /\ callout_queue' = Enter(callout_queue, at, call)
          /\ expiry' = IF Head(Enter(callout_queue, at, call)) = call
                       THEN Expiry(Enter(callout_queue, at, call), at) ELSE expiry
      BY <1>7, Zenon DEF Reenter
    <3>2. twice' = (call \in Queued)
      BY <1>7, Zenon DEF Reenter
    <3> QED BY <3>1, <3>2, Zenon
  <2>2. /\ deadline' \in [Entry -> Nat]
        /\ deadline'[call] = IF deadline[call] <= seen THEN base + period[call] ELSE deadline[call]
        /\ \A f \in Entry : f # call => deadline'[f] = deadline[f]
    BY <1>0, <1>1, <2>1
  <2> HIDE DEF at
  <2>3. /\ callout_queue' \in Seq(Entry) /\ callout_queue' # <<>>
        /\ Members(callout_queue') = Queued \cup {call}
        /\ call \notin Queued => Distinct(callout_queue')
        /\ Sorted(callout_queue, deadline') => Sorted(callout_queue', deadline')
    BY <1>0, <1>1, <2>1, <2>2, EnterSorted, Zenon
  <2>4. expiry' \in Nat
    BY <1>0, <2>1, <2>2, <2>3, ExpiryIsSoon, Zenon
  <2>5. TimerTypeOK'
    <3>1. twice' \in BOOLEAN
      <4>1. CASE call \in Queued
        <5>1. (call \in Queued) = TRUE
          BY <4>1, Zenon
        <5> QED BY <2>1, <5>1, Zenon
      <4>2. CASE call \notin Queued
        <5>1. (call \in Queued) = FALSE
          BY <4>2
        <5> QED BY <2>1, <5>1, Zenon
      <4> QED BY <4>1, <4>2, Zenon
    <3>2. base' \in Nat /\ seen' \in Nat
      BY <1>2, Zenon
    <3> QED BY <1>2, <2>2, <2>3, <2>4, <3>1, <3>2, Zenon DEF TimerTypeOK
  <2>6. ListInv'
    <3> SUFFICES ASSUME ~twice'
                 PROVE  /\ Distinct(callout_queue') /\ Sorted(callout_queue', deadline')
                        /\ Members(callout_queue') = {f \in Entry : deadline'[f] # 0}
      BY Zenon DEF ListInv, Queued
    <3>1. call \notin Queued /\ deadline[call] = 0
      BY <1>0, <1>1, <2>1, Zenon
    <3>2. deadline'[call] # 0
      BY <1>0, <1>1, <1>7, <2>2, <3>1
    <3>3. \A k \in 1..Len(callout_queue) : callout_queue[k] # call /\ callout_queue[k] \in Entry
      BY <1>0, <3>1, Zenon DEF Members
    <3>4. Sorted(callout_queue, deadline')
      BY <1>0, <2>2, <3>3, Zenon DEF Sorted
    <3>5. Members(callout_queue') = {f \in Entry : deadline'[f] # 0}
      BY <1>0, <1>1, <2>2, <2>3, <3>2, Zenon
    <3> QED BY <2>3, <3>1, <3>4, <3>5, Zenon
  <2> QED BY <1>3, <1>5, <2>5, <2>6, Zenon
<1> QED BY <1>6, <1>7, Zenon

\* The rest of a list that is not empty.
LEMMA TailOfList ==
  ASSUME NEW s \in Seq(Entry), s # <<>>, Distinct(s)
  PROVE  /\ Tail(s) \in Seq(Entry) /\ Distinct(Tail(s)) /\ Head(s) \in Entry
         /\ Members(Tail(s)) = Members(s) \ {Head(s)} /\ Head(s) \in Members(s)
         /\ \A k \in 1..Len(Tail(s)) : k + 1 \in 1..Len(s) /\ Tail(s)[k] = s[k + 1]
<1>1. /\ Len(s) \in Nat /\ 1 \in 1..Len(s) /\ Head(s) = s[1] /\ Head(s) \in Entry
      /\ Tail(s) \in Seq(Entry) /\ Len(Tail(s)) = Len(s) - 1
  OBVIOUS
<1>2. \A k \in 1..Len(Tail(s)) : k + 1 \in 1..Len(s) /\ Tail(s)[k] = s[k + 1] /\ k + 1 # 1
  BY <1>1
<1>3. \A k \in 1..Len(s) : k # 1 => k - 1 \in 1..Len(Tail(s)) /\ (k - 1) + 1 = k
  BY <1>1
<1>4. \A j, k \in 1..Len(Tail(s)) : j + 1 = k + 1 => j = k
  BY <1>1
<1>5. Distinct(Tail(s))
  BY <1>2, <1>4, Zenon DEF Distinct
<1>6. Head(s) \in Members(s)
  BY <1>1, Zenon DEF Members
<1>7. \A m \in Members(Tail(s)) : m \in Members(s) /\ m # Head(s)
  <2> SUFFICES ASSUME NEW k \in 1..Len(Tail(s))
               PROVE  Tail(s)[k] \in Members(s) /\ Tail(s)[k] # Head(s)
    BY Zenon DEF Members
  <2>1. k + 1 \in 1..Len(s) /\ Tail(s)[k] = s[k + 1] /\ k + 1 # 1
    BY <1>2, Zenon
  <2>2. Tail(s)[k] \in Members(s)
    BY <2>1, Zenon DEF Members
  <2> QED BY <1>1, <2>1, <2>2, Zenon DEF Distinct
<1>8. \A m \in Members(s) : m # Head(s) => m \in Members(Tail(s))
  <2> SUFFICES ASSUME NEW k \in 1..Len(s), s[k] # Head(s) PROVE s[k] \in Members(Tail(s))
    BY Zenon DEF Members
  <2>1. k - 1 \in 1..Len(Tail(s)) /\ Tail(s)[k - 1] = s[k]
    BY <1>1, <1>2, <1>3, Zenon
  <2> QED BY <2>1, Zenon DEF Members
<1> QED BY <1>1, <1>2, <1>5, <1>6, <1>7, <1>8, Zenon

\* hrt_call_invoke pops the first entry when it is due.
LEMMA InvokeStep ==
  ASSUME TimerTypeOK, ListInv, CallInv, ~twice, Invoke, rearmed' = rearmed
  PROVE  /\ TimerTypeOK' /\ ListInv' /\ CallInv' /\ SleepInv'
         /\ call' \in Entry /\ deadline[call'] # 0
         /\ \A f \in Entry : deadline[f] # 0 => deadline[call'] <= deadline[f]
<1>0. /\ now \in Nat \ {0} /\ deadline \in [Entry -> Nat] /\ callout_queue \in Seq(Entry)
      /\ Distinct(callout_queue) /\ Sorted(callout_queue, deadline)
      /\ Members(callout_queue) = {f \in Entry : deadline[f] # 0}
  BY Zenon DEF TimerTypeOK, ListInv, Queued
<1>1. /\ tpc' = "callout" /\ call' = Head(callout_queue) /\ base' = deadline[call']
      /\ seen' = now /\ deadline' = [deadline EXCEPT ![call'] = 0]
      /\ callout_queue' = Tail(callout_queue) /\ callout_queue # <<>>
      /\ UNCHANGED <<now, period, expiry, wake, missed, twice>>
  BY Zenon DEF Invoke, Due
<1>2. /\ callout_queue' \in Seq(Entry) /\ Distinct(callout_queue') /\ call' \in Entry
      /\ Members(callout_queue') = Members(callout_queue) \ {call'}
      /\ call' \in Members(callout_queue)
      /\ \A k \in 1..Len(callout_queue') :
            k + 1 \in 1..Len(callout_queue) /\ callout_queue'[k] = callout_queue[k + 1]
  BY <1>0, <1>1, TailOfList, Zenon
<1>3. /\ deadline' \in [Entry -> Nat] /\ deadline'[call'] = 0
      /\ \A f \in Entry : f # call' => deadline'[f] = deadline[f]
  BY <1>0, <1>1, <1>2, Zenon
<1>4. Sorted(callout_queue', deadline')
  <2>1. \A k \in 1..Len(callout_queue') : callout_queue'[k] \in Members(callout_queue')
    BY Zenon DEF Members
  <2>2. \A k \in 1..Len(callout_queue') :
           deadline'[callout_queue'[k]] = deadline[callout_queue[k + 1]]
    BY <1>0, <1>2, <1>3, <2>1, Zenon
  <2>3. \A j, k \in 1..Len(callout_queue') : j < k => j + 1 < k + 1
    OBVIOUS
  <2> QED BY <1>0, <1>2, <2>2, <2>3, Zenon DEF Sorted
<1>5. ListInv'
  <2>1. Members(callout_queue') = {f \in Entry : deadline'[f] # 0}
    BY <1>0, <1>2, <1>3, Zenon
  <2> QED BY <1>2, <1>4, <2>1, Zenon DEF ListInv, Queued
<1>6. TimerTypeOK'
  <2>1. base' \in Nat /\ seen' \in Nat
    BY <1>0, <1>1, <1>2, Zenon
  <2> QED BY <1>1, <1>2, <1>3, <2>1, Zenon DEF TimerTypeOK
<1>7. CallInv'
  <2>1. now <= now
    BY <1>0
  <2> QED BY <1>1, <1>2, <1>3, <2>1, NoEntryIsNone, Zenon DEF CallInv
<1>8. SleepInv'
  BY <1>1, Zenon DEF SleepInv
<1>9. deadline[call'] # 0
  BY <1>0, <1>2, Zenon
<1>10. ASSUME NEW f \in Entry, deadline[f] # 0 PROVE deadline[call'] <= deadline[f]
  <2>1. f \in Members(callout_queue)
    BY <1>0, <1>10, Zenon
  <2>2. PICK k \in 1..Len(callout_queue) : f = callout_queue[k]
    BY <2>1, Zenon DEF Members
  <2>3. call' = callout_queue[1] /\ 1 \in 1..Len(callout_queue) /\ (k = 1 \/ 1 < k)
    BY <1>0, <1>1, <2>2
  <2>4. CASE k = 1
    BY <1>0, <2>2, <2>3, <2>4
  <2>5. CASE 1 < k
    BY <1>0, <2>2, <2>3, <2>5, Zenon DEF Sorted
  <2> QED BY <2>3, <2>4, <2>5, Zenon
<1> QED BY <1>2, <1>5, <1>6, <1>7, <1>8, <1>9, <1>10, Zenon

\* The other steps of the thread, and time, leave the list and the calls alone.
LEMMA ThreadSteps ==
  ASSUME TimerTypeOK, ListInv, CallInv, SleepInv, ~twice, rearmed' = rearmed,
         Scan \/ Sleep \/ Wake \/ InvokeNone \/ Reschedule \/ Tick
  PROVE  /\ TimerTypeOK' /\ ListInv' /\ CallInv' /\ SleepInv'
         /\ UNCHANGED <<deadline, period, callout_queue, twice, call, base, seen>>
<1>0. /\ now \in Nat \ {0} /\ deadline \in [Entry -> Nat] /\ callout_queue \in Seq(Entry)
      /\ expiry \in Nat /\ wake \in Nat /\ missed \in BOOLEAN /\ seen \in Nat
  BY Zenon DEF TimerTypeOK
<1>1. UNCHANGED <<deadline, period, callout_queue, twice, call, base, seen>>
  BY Zenon DEF Scan, Sleep, Wake, InvokeNone, Reschedule, Tick, timerState, threadState
<1>2. ListInv'
  BY <1>1, Zenon DEF ListInv, Queued
<1>3. MaxSleep \in Nat /\ IntervalMin \in Nat
  BY TimerConstants, Zenon
<1>4. callout_queue # <<>> => deadline[Head(callout_queue)] \in Nat
  BY <1>0
<1>5. CASE Scan
  <2>1. /\ now' = now /\ tpc = "scan" /\ tpc' \in {"invoke", "unlocked"} /\ missed' = FALSE
        /\ expiry' \in Nat /\ wake' \in Nat
        /\ tpc' = "unlocked" =>
              expiry' = expiry /\ (expiry # 0 => now + wake' <= expiry)
    BY <1>0, <1>3, <1>5 DEF Scan, Lesser
  <2>2. TimerTypeOK'
    BY <1>1, <2>1, Zenon DEF TimerTypeOK
  <2>3. CallInv'
    BY <1>1, <2>1, Zenon DEF CallInv
  <2>4. SleepInv'
    BY <1>1, <2>1, Zenon DEF SleepInv
  <2> QED BY <1>1, <1>2, <2>2, <2>3, <2>4, Zenon
<1>6. CASE Sleep
  <2>1. /\ now' = now /\ tpc = "unlocked" /\ tpc' = "asleep" /\ wake' = now + wake
        /\ expiry' = expiry /\ missed' = missed /\ wake' \in Nat
    BY <1>0, <1>6 DEF Sleep, timerState
  <2>2. TimerTypeOK'
    BY <1>1, <2>1, Zenon DEF TimerTypeOK
  <2>3. CallInv'
    BY <1>1, <2>1, Zenon DEF CallInv
  <2>4. SleepInv'
    BY <1>1, <2>1, Zenon DEF SleepInv
  <2> QED BY <1>1, <1>2, <2>2, <2>3, <2>4, Zenon
<1>7. CASE Wake
  <2>1. /\ now' = now /\ tpc = "asleep" /\ tpc' = "scan" /\ wake' \in Nat
        /\ expiry' = expiry /\ missed' = missed
    BY <1>7, Zenon DEF Wake, timerState
  <2>2. TimerTypeOK'
    BY <1>1, <2>1, Zenon DEF TimerTypeOK
  <2>3. CallInv'
    BY <1>1, <2>1, Zenon DEF CallInv
  <2>4. SleepInv'
    BY <1>1, <2>1, Zenon DEF SleepInv
  <2> QED BY <1>1, <1>2, <2>2, <2>3, <2>4, Zenon
<1>8. CASE InvokeNone
  <2>1. /\ now' = now /\ tpc = "invoke" /\ tpc' = "reschedule" /\ wake' = wake
        /\ expiry' = expiry /\ missed' = missed
    BY <1>8, Zenon DEF InvokeNone, timerState
  <2>2. TimerTypeOK'
    BY <1>1, <2>1, Zenon DEF TimerTypeOK
  <2>3. CallInv'
    BY <1>1, <2>1, Zenon DEF CallInv
  <2>4. SleepInv'
    BY <1>1, <2>1, Zenon DEF SleepInv
  <2> QED BY <1>1, <1>2, <2>2, <2>3, <2>4, Zenon
<1>9. CASE Reschedule
  <2>1. /\ now' = now /\ tpc = "reschedule" /\ tpc' = "scan" /\ wake' = wake
        /\ expiry' = Expiry(callout_queue, deadline) /\ missed' = missed
    BY <1>9, Zenon DEF Reschedule
  <2>2. /\ expiry' \in Nat /\ expiry' # 0
        /\ callout_queue # <<>>
             => expiry' <= Greater(now + IntervalMin, deadline[Head(callout_queue)])
    BY <1>0, <2>1, ExpiryIsSoon, Zenon
  <2>3. TimerTypeOK'
    BY <1>1, <2>1, <2>2, Zenon DEF TimerTypeOK
  <2>4. CallInv'
    BY <1>1, <2>1, Zenon DEF CallInv
  <2>5. SleepInv'
    BY <1>1, <2>1, <2>2, Zenon DEF SleepInv
  <2> QED BY <1>1, <1>2, <2>3, <2>4, <2>5, Zenon
<1>10. CASE Tick
  <2>1. /\ now' = now + 1 /\ tpc' = tpc /\ wake' = wake /\ expiry' = expiry
        /\ missed' = (missed \/ tpc = "unlocked")
    BY <1>10, Zenon DEF Tick, threadState
  <2>2. TimerTypeOK'
    <3>1. now' \in Nat \ {0} /\ missed' \in BOOLEAN
      BY <1>0, <2>1
    <3> QED BY <1>1, <2>1, <3>1, Zenon DEF TimerTypeOK
  <2>3. CallInv'
    <3>1. seen <= now => seen <= now'
      BY <1>0, <2>1
    <3> QED BY <1>1, <2>1, <3>1, Zenon DEF CallInv
  <2>4. SleepInv'
    <3>1. callout_queue # <<>> /\ expiry <= Greater(now + IntervalMin, deadline[Head(callout_queue)])
            => expiry <= Greater(now' + IntervalMin, deadline[Head(callout_queue)])
      BY <1>0, <1>3, <1>4, <2>1 DEF Greater
    <3>2. tpc = "unlocked" => missed'
      BY <2>1, Zenon
    <3>3. missed => missed'
      BY <2>1, Zenon
    <3> QED BY <1>1, <2>1, <3>1, <3>2, <3>3, Zenon DEF SleepInv
  <2> QED BY <1>1, <1>2, <2>2, <2>3, <2>4, Zenon
<1> QED BY <1>5, <1>6, <1>7, <1>8, <1>9, <1>10, Zenon

\* An entry is an item, and no entry is no item.
LEMMA EntriesAreItems == Entry = Item /\ Item = Node /\ NoEntry = NULL /\ NULL \notin Item
BY ItemsHaveEntries, NullIsNoNode, Zenon DEF Item

\* The thread of the hrt is one of the callers.
LEMMA TimerIsThread == Timer \in Thread
BY TimerIsCaller, Zenon DEF Thread

\* The two parts of the invariant that a step of the other part keeps.
LEMMA SameQueue == IInv /\ UNCHANGED vars => IInv'
BY DEF vars, IInv, TypeOK, Positions, NoLostWakeup, StopIsHeard, Signalling,
   AttachedKeepsRunning, DetachBeforeDestroy

\* A step that leaves the hrt and the lives of the items alone keeps its invariants.
LEMMA SameTimer ==
  ASSUME TimerTypeOK, ListInv, CallInv, SleepInv, UNCHANGED <<hrtVars, rearmed>>
  PROVE  TimerTypeOK' /\ ListInv' /\ CallInv' /\ SleepInv'
<1>1. UNCHANGED <<now, deadline, period, callout_queue, expiry, missed, twice,
                  tpc, call, base, seen, wake, rearmed>>
  BY Zenon DEF hrtVars, timerState, threadState
<1>2. TimerTypeOK'
  BY <1>1, Zenon DEF TimerTypeOK
<1>3. ListInv' /\ CallInv'
  BY <1>1 DEF ListInv, Queued, CallInv
<1>4. SleepInv'
  BY <1>1, Zenon DEF SleepInv
<1> QED BY <1>2, <1>3, <1>4, Zenon

\* At first nothing is armed, queued or alive.
LEMMA SInitially == SInit => SInv
<1> SUFFICES ASSUME SInit PROVE SInv
  BY Zenon
<1>1. IInv
  BY Initially, Zenon DEF SInit
<1>2. TimerTypeOK
  <2>1. /\ now \in Nat \ {0} /\ deadline \in [Entry -> Nat] /\ period \in [Entry -> Nat]
        /\ callout_queue \in Seq(Entry) /\ {expiry, base, seen, wake} \subseteq Nat
    BY DEF SInit, TimerInit
  <2>2. /\ tpc = "scan" /\ call = NoEntry
        /\ missed \in BOOLEAN /\ twice \in BOOLEAN
    BY Zenon DEF SInit, TimerInit
  <2> QED BY <2>1, <2>2, Zenon DEF TimerTypeOK
<1>3. ListInv
  <2>1. callout_queue = <<>> /\ deadline = [e \in Entry |-> 0]
    BY Zenon DEF SInit, TimerInit
  <2>2. \A k \in 1..Len(callout_queue) : FALSE
    BY <2>1
  <2> QED BY <2>1, <2>2, Zenon DEF ListInv, Distinct, Sorted, Queued, Members
<1>4. CallInv
  BY DEF SInit, TimerInit, CallInv
<1>5. SleepInv
  BY Zenon DEF SInit, TimerInit, SleepInv
<1>6. LifeInv
  <2>1. q \in Queue /\ Closed(q, {}) /\ q.head = NULL
    BY Zenon DEF SInit, Init, EmptyQueue, Queue, Closed
  <2>2. Reached(q) = {}
    BY <2>1, ReachedIsLeast, Zenon
  <2>3. Chain(q)
    BY <2>2, Zenon DEF Chain
  <2>4. /\ \A t \in Thread : cpc[t] = "idle"
        /\ \A i \in Item : deadline[i] = 0 /\ period[i] = 0 /\ call # i
    BY EntriesAreItems, Zenon DEF SInit, Init, TimerInit
  <2>5. dying \subseteq Item
    BY Zenon DEF SInit
  <2> QED BY <2>2, <2>3, <2>4, <2>5, Zenon DEF LifeInv
<1> QED BY <1>1, <1>2, <1>3, <1>4, <1>5, <1>6, Zenon DEF SInv

\* ScheduleDelayed and ScheduleOnInterval.
LEMMA ScheduleSteps ==
  ASSUME SInv, ~twice, NEW i \in Item,
         \/ \E d \in Delays : ScheduleDelayed(i, d)
         \/ \E d \in Starts, p \in Periods : ScheduleOnInterval(i, p, d)
  PROVE  SInv'
<1>0. /\ IInv /\ TimerTypeOK /\ ListInv /\ CallInv /\ SleepInv /\ LifeInv
      /\ i \in Entry /\ now \in Nat \ {0} /\ seen \in Nat /\ deadline \in [Entry -> Nat]
      /\ call \in Entry \cup {NoEntry}
  BY EntriesAreItems, Zenon DEF SInv, TimerTypeOK
<1>1. PICK d \in Nat, p \in Nat :
         /\ hrt_call_internal(i, now + d, p)
         /\ p = 0 \/ (d \in Starts /\ rearmed' = (rearmed \/ call = i))
         /\ p = 0 => rearmed' = rearmed
  <2>1. CASE \E d \in Delays : ScheduleDelayed(i, d)
    <3>1. PICK d \in Delays : ScheduleDelayed(i, d)
      BY <2>1, Zenon
    <3>2. d \in Nat /\ 0 \in Nat
      BY TimerConstants, Zenon
    <3> QED BY <3>1, <3>2, Zenon DEF ScheduleDelayed, hrt_call_after, itemLife
  <2>2. CASE \E d \in Starts, p \in Periods : ScheduleOnInterval(i, p, d)
    <3>1. PICK d \in Starts, p \in Periods : ScheduleOnInterval(i, p, d)
      BY <2>2, Zenon
    <3>2. d \in Nat /\ p \in Nat /\ p # 0
      BY TimerConstants, StartsAreTimes, Zenon
    <3> QED BY <3>1, <3>2, Zenon DEF ScheduleOnInterval, hrt_call_every
  <2> QED BY <2>1, <2>2, Zenon
<1>2. Alive(i) /\ UNCHANGED <<vars, dying, overtaken>>
  BY Zenon DEF ScheduleDelayed, ScheduleOnInterval, itemLife
<1>3. TimerTypeOK' /\ ListInv' /\ SleepInv' /\ ~twice'
  BY <1>0, <1>1, ArmStep, Zenon
<1>4. /\ deadline'[i] = now + d /\ period'[i] = p
      /\ \A f \in Entry : f # i => deadline'[f] = deadline[f] /\ period'[f] = period[f]
      /\ now' = now /\ call' = call /\ base' = base /\ seen' = seen
      /\ tpc' = tpc \/ (tpc = "asleep" /\ tpc' = "scan")
  BY <1>0, <1>1, ArmEffect, Zenon
<1>5. IInv'
  BY <1>0, <1>2, SameQueue, Zenon
<1>6. CallInv'
  <2>1. call' = NoEntry <=> tpc' \notin {"callout", "called"}
    BY <1>0, <1>4, Zenon DEF CallInv
  <2>2. seen' <= now'
    BY <1>0, <1>4, Zenon DEF CallInv
  <2>3. ASSUME call' # NoEntry, deadline'[call'] # 0, period'[call'] # 0
        PROVE  rearmed' /\ (0 \notin Starts => seen' < deadline'[call'])
    <3>1. CASE call = i
      <4>1. p # 0 /\ d \in Starts /\ rearmed'
        BY <1>1, <1>4, <2>3, <3>1, Zenon
      <4>2. 0 \notin Starts => d # 0
        BY <4>1, Zenon
      <4>3. d # 0 => seen < now + d
        BY <1>0 DEF CallInv
      <4> QED BY <1>4, <3>1, <4>1, <4>2, <4>3, Zenon
    <3>2. CASE call # i
      <4>1. call \in Entry /\ deadline'[call] = deadline[call] /\ period'[call] = period[call]
        BY <1>0, <1>4, <2>3, <3>2, Zenon
      <4>2. rearmed => rearmed'
        BY <1>1, Zenon
      <4> QED BY <1>0, <1>4, <2>3, <4>1, <4>2, Zenon DEF CallInv
    <3> QED BY <3>1, <3>2, Zenon
  <2> QED BY <1>3, <2>1, <2>2, <2>3, Zenon DEF CallInv
<1>7. LifeInv'
  <2>1. q' = q /\ cpc' = cpc /\ citem' = citem /\ opc' = opc
    BY <1>2, Zenon DEF vars
  <2>2. \A t \in Thread : cpc[t] # "idle" => t = Timer /\ tpc' = "called" /\ citem[t] = call
    BY <1>0, <1>4, Zenon DEF LifeInv
  <2>3. \A j \in Item : ~Alive(j) => deadline'[j] = 0 /\ period'[j] = 0
    BY <1>0, <1>2, <1>4, EntriesAreItems, Zenon DEF LifeInv
  <2> QED BY <1>0, <1>2, <1>4, <2>1, <2>2, <2>3, Zenon DEF LifeInv, Alive
<1> QED BY <1>3, <1>5, <1>6, <1>7, Zenon DEF SInv

\* ScheduleClear and the destructor.
LEMMA ClearSteps ==
  ASSUME SInv, ~twice, NEW i \in Item, ScheduleClear(i) \/ Destruct(i)
  PROVE  SInv'
<1>0. /\ IInv /\ TimerTypeOK /\ ListInv /\ CallInv /\ SleepInv /\ LifeInv
      /\ i \in Entry /\ call \in Entry \cup {NoEntry}
  BY EntriesAreItems, Zenon DEF SInv, TimerTypeOK
<1>1. hrt_cancel(i) /\ Alive(i) /\ UNCHANGED <<vars, rearmed>>
  BY Zenon DEF ScheduleClear, Destruct, itemLife
<1>2. TimerTypeOK' /\ ListInv' /\ SleepInv' /\ ~twice'
  BY <1>0, <1>1, CancelStep, Zenon
<1>3. /\ deadline'[i] = 0 /\ period'[i] = 0
      /\ \A f \in Entry : f # i => deadline'[f] = deadline[f] /\ period'[f] = period[f]
      /\ now' = now /\ call' = call /\ base' = base /\ seen' = seen /\ tpc' = tpc
  BY <1>0, <1>1, CancelEffect, Zenon
<1>4. IInv'
  BY <1>0, <1>1, SameQueue, Zenon
<1>5. CallInv'
  BY <1>0, <1>1, <1>2, <1>3, Zenon DEF CallInv
<1>6. LifeInv'
  <2>1. q' = q /\ cpc' = cpc /\ citem' = citem /\ opc' = opc
    BY <1>1, Zenon DEF vars
  <2>2. \A j \in Item : j # i => deadline'[j] = deadline[j] /\ period'[j] = period[j]
    BY <1>3, EntriesAreItems, Zenon
  <2>3. CASE ScheduleClear(i)
    <3>1. dying' = dying /\ overtaken' = overtaken
      BY <2>3, Zenon DEF ScheduleClear, itemLife
    <3> QED BY <1>0, <1>3, <2>1, <2>2, <3>1, Zenon DEF LifeInv, Alive
  <2>4. CASE Destruct(i)
    <3>1. dying' = dying \cup {i} /\ overtaken' = overtaken \cup ({i} \cap {call})
      BY <2>4, Zenon DEF Destruct
    <3>2. \A j \in Item : ~(opc[j] = "in" /\ j \notin dying') => j = i \/ ~Alive(j)
      BY <3>1, Zenon DEF Alive
    <3>3. overtaken \subseteq overtaken' /\ (call = i => i \in overtaken')
      BY <3>1, Zenon
    <3>4. dying' \subseteq Item
      BY <1>0, <3>1, Zenon DEF LifeInv
    <3> QED BY <1>0, <1>3, <2>1, <2>2, <3>2, <3>3, <3>4, Zenon DEF LifeInv, Alive
  <2> QED BY <1>1, <2>3, <2>4, Zenon
<1> QED BY <1>2, <1>4, <1>5, <1>6, Zenon DEF SInv

\* An item is constructed, or leaves the queue.
LEMMA LifeSteps ==
  ASSUME SInv, ~twice, (\E i \in Item : Construct(i)) \/ Leave
  PROVE  SInv'
<1>0. /\ IInv /\ TypeOK /\ TimerTypeOK /\ ListInv /\ CallInv /\ SleepInv /\ LifeInv
      /\ opc \in [Item -> {"out", "in", "nulled", "removed", "signal", "post"}] /\ q \in Queue
      /\ Reached(q) \in SUBSET Node
  BY ReachedIsClosed, Zenon DEF SInv, IInv, TypeOK
<1>1. UNCHANGED <<hrtVars, rearmed>>
  BY Zenon DEF Construct, Leave, itemLife
<1>2. TimerTypeOK' /\ ListInv' /\ CallInv' /\ SleepInv'
  BY <1>0, <1>1, SameTimer, Zenon
<1>3. deadline' = deadline /\ period' = period /\ call' = call /\ tpc' = tpc
  BY <1>1, Zenon DEF hrtVars, timerState, threadState
<1>4. ASSUME NEW i \in Item, Construct(i) PROVE SInv'
  <2>1. Attach(i) /\ dying' = dying \ {i} /\ overtaken' = overtaken \ {i}
    BY <1>4, Zenon DEF Construct
  <2>2. IInv'
    BY <1>0, <2>1, OwnerSteps, Zenon
  <2>3. q' = q /\ cpc' = cpc /\ citem' = citem /\ opc' = [opc EXCEPT ![i] = "in"]
    BY <2>1, Zenon DEF Attach, callVars
  <2>4. opc'[i] = "in" /\ \A j \in Item : j # i => opc'[j] = opc[j]
    BY <1>0, <2>3, Zenon
  <2>5. \A j \in Item : ~(opc'[j] = "in" /\ j \notin dying') => j # i /\ ~Alive(j)
    BY <2>1, <2>4, Zenon DEF Alive
  <2>6. LifeInv'
    BY <1>0, <1>3, <2>1, <2>3, <2>4, <2>5, Zenon DEF LifeInv, Alive
  <2> QED BY <1>2, <2>2, <2>6, Zenon DEF SInv
<1>5. ASSUME NEW i \in Item, (i \in dying /\ Deinit(i)) \/ OwnerStep(i),
             UNCHANGED itemLife
      PROVE  SInv'
  <2>1. dying' = dying /\ overtaken' = overtaken
    BY <1>5, Zenon DEF itemLife
  <2>2. IInv'
    BY <1>0, <1>5, OwnerSteps, Zenon
  <2>3. cpc' = cpc /\ citem' = citem
    BY <1>5, Zenon DEF Deinit, OwnerStep, DeinitRemove, Detach, DetachSignal, DetachPost, callVars
  <2>4. /\ opc'[i] # "in" /\ \A j \in Item : j # i => opc'[j] = opc[j]
        /\ ~Alive(i)
        /\ opc'[i] = "nulled" \/ opc[i] \notin {"in", "nulled"} \/ (q' = Remove(q, i))
    BY <1>0, <1>5, Zenon DEF Alive, Deinit, OwnerStep, DeinitRemove, Detach, DetachSignal, DetachPost
  <2>5. q' = q \/ q' = Remove(q, i)
    BY <1>5, Zenon DEF Deinit, OwnerStep, DeinitRemove, Detach, DetachSignal, DetachPost
  <2>6. Chain(q') /\ Reached(q') \subseteq Reached(q)
    <3>1. CASE q' = q
      BY <1>0, <3>1, Zenon DEF LifeInv
    <3>2. CASE q' = Remove(q, i)
      BY <1>0, <3>2, ReachedRemove, EntriesAreItems, Zenon DEF LifeInv
    <3> QED BY <2>5, <3>1, <3>2, Zenon
  <2>7. q' = Remove(q, i) => i \notin Reached(q')
    BY <1>0, ReachedRemove, EntriesAreItems, Zenon DEF LifeInv
  <2>8. \A j \in Item : ~(opc'[j] = "in" /\ j \notin dying') => ~Alive(j)
    BY <2>1, <2>4, Zenon DEF Alive
  <2>9. \A j \in Item : opc'[j] \notin {"in", "nulled"} /\ j \in Reached(q') => j \in overtaken
    BY <1>0, <2>4, <2>6, <2>7, Zenon DEF LifeInv
  <2>10. LifeInv'
    BY <1>0, <1>3, <2>1, <2>3, <2>6, <2>8, <2>9, Zenon DEF LifeInv, Alive
  <2> QED BY <1>2, <2>2, <2>10, Zenon DEF SInv
<1>6. ASSUME Leave PROVE \E i \in Item : ((i \in dying /\ Deinit(i)) \/ OwnerStep(i)) /\ UNCHANGED itemLife
  <2>1. UNCHANGED itemLife
    BY <1>6, Zenon DEF Leave
  <2>2. CASE \E i \in Item : OwnerStep(i)
    BY <2>1, <2>2, Zenon
  <2>3. CASE \E i \in dying : Deinit(i)
    <3>1. dying \subseteq Item
      BY <1>0, Zenon DEF LifeInv
    <3> QED BY <2>1, <2>3, <3>1, Zenon
  <2> QED BY <1>6, <2>2, <2>3, Zenon DEF Leave
<1> QED BY <1>4, <1>5, <1>6, Zenon

\* The callout, and the ScheduleNow it makes.
LEMMA CalloutSteps ==
  ASSUME SInv, ~twice,
         schedule_trampoline \/ (CallerStep(Timer) /\ UNCHANGED <<hrtVars, itemLife>>)
  PROVE  SInv' /\ [Next]_vars
<1>0. /\ IInv /\ TypeOK /\ TimerTypeOK /\ ListInv /\ CallInv /\ SleepInv /\ LifeInv
      /\ cpc \in [Thread -> {"idle", "checked", "pushed", "post"}]
      /\ citem \in [Thread -> Item \cup {NULL}] /\ q \in Queue
      /\ call \in Item \cup {NULL}
  BY EntriesAreItems, Zenon DEF SInv, IInv, TypeOK, TimerTypeOK
<1>1. ASSUME schedule_trampoline PROVE SInv' /\ [Next]_vars
  <2>1. /\ tpc = "callout" /\ tpc' = "called"
        /\ UNCHANGED <<now, deadline, period, callout_queue, expiry, missed, twice,
                       call, base, seen, wake, dying, overtaken, rearmed>>
        /\ ScheduleNow(Timer, call) \/ UNCHANGED vars
    BY <1>1, Zenon DEF schedule_trampoline, timerState, itemLife
  <2>2. call \in Item /\ call # NoEntry
    BY <1>0, <2>1, EntriesAreItems, Zenon DEF CallInv
  <2>3. IInv' /\ [Next]_vars
    BY <1>0, <2>1, <2>2, ScheduleStep, SameQueue, TimerIsThread, Zenon DEF Next
  <2>4. TimerTypeOK'
    BY <1>0, <2>1, Zenon DEF TimerTypeOK
  <2>5. ListInv' /\ CallInv' /\ SleepInv'
    BY <1>0, <2>1, <2>2, Zenon DEF ListInv, Queued, CallInv, SleepInv
  <2>6. q' = q /\ opc' = opc
    BY <2>1, Zenon DEF ScheduleNow, itemVars, vars
  <2>7. \A t \in Thread : cpc[t] = "idle"
    BY <1>0, <2>1, Zenon DEF LifeInv
  <2>8. \A t \in Thread : cpc'[t] # "idle" => t = Timer /\ citem'[t] = call
    <3>1. CASE ScheduleNow(Timer, call)
      BY <1>0, <2>7, <3>1, TimerIsThread, Zenon DEF ScheduleNow
    <3>2. CASE UNCHANGED vars
      BY <2>7, <3>2, Zenon DEF vars
    <3> QED BY <2>1, <3>1, <3>2, Zenon
  <2>9. LifeInv'
    BY <1>0, <2>1, <2>6, <2>8, Zenon DEF LifeInv, Alive
  <2> QED BY <2>3, <2>4, <2>5, <2>9, Zenon DEF SInv
<1>2. ASSUME CallerStep(Timer), UNCHANGED <<hrtVars, itemLife>> PROVE SInv' /\ [Next]_vars
  <2>1. IInv' /\ [Next]_vars
    BY <1>0, <1>2, CallerSteps, TimerIsThread, Zenon DEF Next
  <2>2. TimerTypeOK' /\ ListInv' /\ CallInv' /\ SleepInv'
    BY <1>0, <1>2, SameTimer, Zenon DEF itemLife
  <2>3. /\ deadline' = deadline /\ period' = period /\ call' = call /\ tpc' = tpc
        /\ dying' = dying /\ overtaken' = overtaken
    BY <1>2, Zenon DEF hrtVars, timerState, threadState, itemLife
  <2>4. cpc[Timer] # "idle" /\ opc' = opc
    BY <1>2, Zenon DEF CallerStep, Add, AddSignal, AddPost, itemVars
  <2>5. \A t \in Thread : cpc'[t] # "idle" => t = Timer /\ tpc = "called" /\ citem'[t] = call
    <3>1. tpc = "called" /\ citem[Timer] = call /\ \A t \in Thread : t # Timer => cpc[t] = "idle"
      BY <1>0, <2>4, TimerIsThread, Zenon DEF LifeInv
    <3>2. \A t \in Thread : t # Timer => cpc'[t] = cpc[t]
      BY <1>0, <1>2, TimerIsThread, Zenon DEF CallerStep, Add, AddSignal, AddPost
    <3>3. cpc'[Timer] = "idle" \/ citem' = citem
      BY <1>0, <1>2, TimerIsThread, Zenon DEF CallerStep, Add, AddSignal, AddPost
    <3> QED BY <3>1, <3>2, <3>3, Zenon
  <2>6. q' = q \/ q' = Push(q, call)
    <3>1. citem[Timer] = call
      BY <1>0, <2>4, TimerIsThread, Zenon DEF LifeInv
    <3> QED BY <1>2, <3>1, Zenon DEF CallerStep, Add, AddSignal, AddPost
  <2>7. call \in Item
    BY <1>0, <2>4, TimerIsThread, EntriesAreItems, Zenon DEF LifeInv, CallInv
  <2>8. Chain(q') /\ Reached(q') \subseteq Reached(q) \cup {call}
    <3>1. CASE q' = q
      BY <1>0, <3>1, Zenon DEF LifeInv
    <3>2. CASE q' = Push(q, call)
      BY <1>0, <2>7, <3>2, ReachedPush, EntriesAreItems, Zenon DEF LifeInv
    <3> QED BY <2>6, <3>1, <3>2, Zenon
  <2>9. \A j \in Item : opc[j] \notin {"in", "nulled"} /\ j \in Reached(q') => j \in overtaken
    BY <1>0, <2>8, Zenon DEF LifeInv, Alive
  <2>10. LifeInv'
    BY <1>0, <2>3, <2>4, <2>5, <2>8, <2>9, Zenon DEF LifeInv, Alive
  <2> QED BY <2>1, <2>2, <2>10, Zenon DEF SInv
<1> QED BY <1>1, <1>2, Zenon

\* The thread of the hrt outside its callouts, and time.
LEMMA TimerSteps ==
  ASSUME SInv, ~twice,
         \/ Return
         \/ /\ Scan \/ Sleep \/ Wake \/ Invoke \/ InvokeNone \/ Reschedule \/ Tick
            /\ UNCHANGED <<vars, itemLife>>
  PROVE  SInv'
<1>0. /\ IInv /\ TimerTypeOK /\ ListInv /\ CallInv /\ SleepInv /\ LifeInv
      /\ deadline \in [Entry -> Nat] /\ period \in [Entry -> Nat]
      /\ call \in Entry \cup {NoEntry}
  BY Zenon DEF SInv, TimerTypeOK
<1>1. UNCHANGED <<vars, dying, overtaken>>
  BY Zenon DEF Return, itemLife
<1>2. IInv'
  BY <1>0, <1>1, SameQueue, Zenon
<1>3. q' = q /\ cpc' = cpc /\ citem' = citem /\ opc' = opc
  BY <1>1, Zenon DEF vars
<1>4. ASSUME Return PROVE SInv'
  <2>1. Reenter /\ cpc[Timer] = "idle" /\ rearmed' = (rearmed /\ twice')
    BY <1>4, Zenon DEF Return
  <2>2. TimerTypeOK' /\ ListInv' /\ CallInv' /\ SleepInv'
    BY <1>0, <2>1, ReenterStep, Zenon
  <2>3. call \in Item
    BY <1>0, <2>1, EntriesAreItems, Zenon DEF Reenter, CallInv
  <2>4. period' = period /\ call' = NoEntry
    BY <2>1, Zenon DEF Reenter
  <2>5. \A j \in Item : ~Alive(j) => deadline'[j] = deadline[j]
    <3>1. CASE period[call] = 0
      BY <2>1, <3>1, Zenon DEF Reenter
    <3>2. CASE period[call] # 0
      <4>1. Alive(call)
        BY <1>0, <2>3, <3>2, Zenon DEF LifeInv
      <4>2. \A j \in Item : j # call => deadline'[j] = deadline[j]
        BY <1>0, <2>1, <2>3, <3>2, EntriesAreItems, Zenon DEF Reenter
      <4> QED BY <4>1, <4>2, Zenon
    <3> QED BY <3>1, <3>2, Zenon
  <2>6. \A t \in Thread : cpc[t] = "idle"
    BY <1>0, <2>1, Zenon DEF LifeInv
  <2>7. LifeInv'
    BY <1>0, <1>1, <1>3, <2>4, <2>5, <2>6, EntriesAreItems, Zenon DEF LifeInv, Alive
  <2> QED BY <1>2, <2>2, <2>7, Zenon DEF SInv
<1>5. ASSUME Invoke, UNCHANGED itemLife PROVE SInv'
  <2>1. /\ TimerTypeOK' /\ ListInv' /\ CallInv' /\ SleepInv'
        /\ call' \in Entry /\ deadline[call'] # 0
    BY <1>0, <1>5, InvokeStep, Zenon DEF itemLife
  <2>2. /\ deadline'[call'] = 0 /\ period' = period
        /\ \A j \in Item : j # call' => deadline'[j] = deadline[j]
    BY <1>0, <1>5, <2>1, EntriesAreItems, Zenon DEF Invoke
  <2>3. \A t \in Thread : cpc[t] = "idle"
    BY <1>0, <1>5, Zenon DEF LifeInv, Invoke
  <2>4. Alive(call')
    BY <1>0, <2>1, EntriesAreItems, Zenon DEF LifeInv
  <2>5. LifeInv'
    BY <1>0, <1>1, <1>3, <2>2, <2>3, <2>4, Zenon DEF LifeInv, Alive
  <2> QED BY <1>2, <2>1, <2>5, Zenon DEF SInv
<1>6. ASSUME Scan \/ Sleep \/ Wake \/ InvokeNone \/ Reschedule \/ Tick, UNCHANGED itemLife
      PROVE  SInv'
  <2>1. /\ TimerTypeOK' /\ ListInv' /\ CallInv' /\ SleepInv'
        /\ UNCHANGED <<deadline, period, callout_queue, twice, call, base, seen>>
    BY <1>0, <1>6, ThreadSteps, Zenon DEF itemLife
  <2>2. tpc = "called" => tpc' = "called"
    BY <1>6, Zenon DEF Scan, Sleep, Wake, InvokeNone, Reschedule, Tick, threadState
  <2>3. LifeInv'
    BY <1>0, <1>1, <1>3, <2>1, <2>2, Zenon DEF LifeInv, Alive
  <2> QED BY <1>2, <2>1, <2>3, Zenon DEF SInv
<1> QED BY <1>4, <1>5, <1>6, Zenon

\* The worker of the queue.
LEMMA RunSteps ==
  ASSUME SInv, ~twice, WorkerThread
  PROVE  SInv'
<1>0. /\ IInv /\ TypeOK /\ TimerTypeOK /\ ListInv /\ CallInv /\ SleepInv /\ LifeInv /\ q \in Queue
  BY Zenon DEF SInv, IInv, TypeOK
<1>1. WorkerStep /\ UNCHANGED <<hrtVars, itemLife>>
  BY Zenon DEF WorkerThread
<1>2. IInv'
  BY <1>0, <1>1, WorkerSteps, Zenon
<1>3. TimerTypeOK' /\ ListInv' /\ CallInv' /\ SleepInv'
  BY <1>0, <1>1, SameTimer, Zenon DEF itemLife
<1>4. /\ deadline' = deadline /\ period' = period /\ call' = call /\ tpc' = tpc
      /\ dying' = dying /\ overtaken' = overtaken
  BY <1>1, Zenon DEF hrtVars, timerState, threadState, itemLife
<1>5. cpc' = cpc /\ citem' = citem /\ opc' = opc
  BY <1>1, Zenon DEF WorkerStep, Check, Wait, Take, RunDone, Destroy, itemVars, callVars
<1>6. q' = q \/ (~Empty(q) /\ q' = Pop(q))
  BY <1>1, Zenon DEF WorkerStep, Check, Wait, Take, RunDone, Destroy
<1>7. Chain(q') /\ Reached(q') \subseteq Reached(q)
  <2>1. CASE q' = q
    BY <1>0, <2>1, Zenon DEF LifeInv
  <2>2. CASE ~Empty(q) /\ q' = Pop(q)
    BY <1>0, <2>2, ReachedPop, Zenon DEF LifeInv
  <2> QED BY <1>6, <2>1, <2>2, Zenon
<1>8. LifeInv'
  BY <1>0, <1>4, <1>5, <1>7, Zenon DEF LifeInv, Alive
<1> QED BY <1>2, <1>3, <1>8, Zenon DEF SInv

(***************************************************************************)
(* The inductive invariant of the hrt and the work queue together.         *)
(***************************************************************************)
THEOREM SInvariance == SSpec => []SInv
<1>1. SInv /\ [SNext]_allVars => SInv'
  <2> SUFFICES ASSUME SInv, [SNext]_allVars PROVE SInv'
    BY Zenon
  <2>1. CASE UNCHANGED allVars
    <3>1. UNCHANGED vars /\ UNCHANGED <<hrtVars, rearmed>> /\ UNCHANGED <<dying, overtaken>>
      BY <2>1, Zenon DEF allVars, itemLife
    <3>2. IInv' /\ TimerTypeOK' /\ ListInv' /\ CallInv' /\ SleepInv'
      BY <3>1, SameQueue, SameTimer, Zenon DEF SInv
    <3>3. LifeInv
      BY Zenon DEF SInv
    <3>4. /\ q' = q /\ cpc' = cpc /\ citem' = citem /\ opc' = opc
          /\ deadline' = deadline /\ period' = period /\ call' = call /\ tpc' = tpc
          /\ dying' = dying /\ overtaken' = overtaken
      BY <3>1, Zenon DEF vars, hrtVars, timerState, threadState
    <3>5. LifeInv'
      BY <3>3, <3>4, Zenon DEF LifeInv, Alive
    <3> QED BY <3>2, <3>5, Zenon DEF SInv
  <2>2. CASE Use
    BY <2>2, ScheduleSteps, ClearSteps, LifeSteps, Zenon DEF Use
  <2>3. CASE TimerThread
    BY <2>3, CalloutSteps, TimerSteps, Zenon DEF TimerThread
  <2>4. CASE WorkerThread
    BY <2>4, RunSteps, Zenon DEF WorkerThread
  <2>5. CASE Time
    BY <2>5, TimerSteps, Zenon DEF Time
  <2> QED BY <2>1, <2>2, <2>3, <2>4, <2>5, Zenon DEF SNext, Over
<1> QED BY <1>1, SInitially, PTL DEF SSpec

(***************************************************************************)
(* The work queue behaves under ScheduledWorkItems as WorkQueue says: what *)
(* is shown of every use of it holds for this one.                         *)
(***************************************************************************)
THEOREM ScheduledUsesQueue == SSpec => Spec
<1>1. SInit => Init
  BY Zenon DEF SInit
<1>2. SInv /\ [SNext]_allVars => [Next]_vars
  <2> SUFFICES ASSUME SInv, [SNext]_allVars PROVE [Next]_vars
    BY Zenon
  <2>1. CASE UNCHANGED allVars
    BY <2>1, Zenon DEF allVars
  <2>2. CASE Use
    <3>1. CASE \/ \E i \in Item, d \in Delays : ScheduleDelayed(i, d)
               \/ \E i \in Item, d \in Starts, p \in Periods : ScheduleOnInterval(i, p, d)
               \/ \E i \in Item : ScheduleClear(i) \/ Destruct(i)
      BY <3>1, Zenon DEF ScheduleDelayed, ScheduleOnInterval, ScheduleClear, Destruct
    <3>2. CASE \E i \in Item : Construct(i)
      BY <3>2, Zenon DEF Construct, Next
    <3>3. CASE Leave
      <4>1. dying \subseteq Item
        BY Zenon DEF SInv, LifeInv
      <4> QED BY <3>3, <4>1, Zenon DEF Leave, Next
    <3> QED BY <2>2, <3>1, <3>2, <3>3, Zenon DEF Use
  <2>3. CASE TimerThread
    <3>1. CASE schedule_trampoline \/ (CallerStep(Timer) /\ UNCHANGED <<hrtVars, itemLife>>)
      BY <2>3, <3>1, CalloutSteps, Zenon DEF TimerThread
    <3>2. CASE ~(schedule_trampoline \/ (CallerStep(Timer) /\ UNCHANGED <<hrtVars, itemLife>>))
      BY <2>3, <3>2, Zenon DEF TimerThread, Return
    <3> QED BY <3>1, <3>2, Zenon
  <2>4. CASE WorkerThread
    BY <2>4, Zenon DEF WorkerThread, Next
  <2>5. CASE Time
    BY <2>5, Zenon DEF Time
  <2> QED BY <2>1, <2>2, <2>3, <2>4, <2>5, Zenon DEF SNext, Over
<1> QED BY <1>1, <1>2, SInvariance, PTL DEF SSpec, Spec

\* The thread of the hrt never sleeps past the first deadline, unless it missed a signal.
THEOREM SleepIsShort == SSpec => []SleepsUntilDue
<1>1. SInv => SleepsUntilDue
  <2> SUFFICES ASSUME SInv, tpc = "asleep", ~missed, callout_queue # <<>>
               PROVE  wake <= Greater(now + IntervalMin, deadline[Head(callout_queue)])
    BY Zenon DEF SleepsUntilDue
  <2>1. /\ wake \in Nat /\ expiry \in Nat /\ now \in Nat /\ IntervalMin \in Nat
        /\ deadline[Head(callout_queue)] \in Nat
    BY TimerConstants DEF SInv, TimerTypeOK
  <2>2. /\ wake <= expiry
        /\ expiry <= Greater(now + IntervalMin, deadline[Head(callout_queue)])
    BY Zenon DEF SInv, SleepInv
  <2> QED BY <2>1, <2>2 DEF Greater
<1> QED BY <1>1, SInvariance, PTL

\* The list of the hrt is ruined only by ScheduleOnInterval during the callout of the item.
THEOREM RuinIsRearm == SSpec => []TwiceIsRearmed
<1>1. SInv => TwiceIsRearmed
  BY Zenon DEF SInv, CallInv, TwiceIsRearmed
<1> QED BY <1>1, SInvariance, PTL

\* An item that has left is on the queue only if it was destroyed during its callout.
THEOREM DeinitIsClean == SSpec => []DeinitEmptiesQueue
<1>1. SInv => DeinitEmptiesQueue
  BY Zenon DEF SInv, LifeInv, DeinitEmptiesQueue
<1> QED BY <1>1, SInvariance, PTL

-----------------------------------------------------------------------------
(* The hrt implements Timer.                                               *)

\* What is pending, entry by entry, before and after a step.
LEMMA PendingIs ==
  /\ \A e \in Entry : Pending[e] = IF call = e /\ deadline[e] = 0 /\ period[e] # 0
                                   THEN base + period[e] ELSE deadline[e]
  /\ \A e \in Entry : Pending'[e] = IF call' = e /\ deadline'[e] = 0 /\ period'[e] # 0
                                    THEN base' + period'[e] ELSE deadline'[e]
BY Zenon DEF Pending

\* A step that leaves the calls alone leaves what is pending alone.
LEMMA PendingStays ==
  ASSUME UNCHANGED <<deadline, period, call, base>>
  PROVE  Pending' = Pending
BY Zenon DEF Pending

\* A step on the call of one entry changes what is pending for that entry only.
LEMMA PendingOne ==
  ASSUME NEW e \in Entry, \A f \in Entry : f # e => Pending'[f] = Pending[f]
  PROVE  Pending' = [Pending EXCEPT ![e] = Pending'[e]]
BY Zenon DEF Pending

\* hrt_call_internal is Arm.
LEMMA ArmIsArm ==
  ASSUME TimerTypeOK, NEW e \in Entry, NEW d \in Nat, NEW p \in Nat,
         hrt_call_internal(e, now + d, p)
  PROVE  Promise!Arm(e)
<1>1. /\ deadline'[e] = now + d /\ now + d # 0
      /\ \A f \in Entry : f # e => deadline'[f] = deadline[f] /\ period'[f] = period[f]
      /\ now' = now /\ call' = call /\ base' = base
  BY ArmEffect, Zenon
<1>2. Pending'[e] = now + d
  BY <1>1, PendingIs, Zenon
<1>3. \A f \in Entry : f # e => Pending'[f] = Pending[f]
  BY <1>1, PendingIs, Zenon
<1>4. Pending' = [Pending EXCEPT ![e] = Pending'[e]]
  BY <1>3, PendingOne, Zenon
<1>5. Pending'[e] >= now
  BY <1>2 DEF TimerTypeOK
<1>6. period' = [period EXCEPT ![e] = period'[e]]
  BY Zenon DEF hrt_call_internal, TimerTypeOK
<1> QED BY <1>1, <1>4, <1>5, <1>6, Zenon DEF Promise!Arm

\* hrt_cancel is Disarm.
LEMMA CancelIsDisarm ==
  ASSUME TimerTypeOK, NEW e \in Entry, hrt_cancel(e)
  PROVE  Promise!Disarm(e)
<1>1. /\ deadline'[e] = 0 /\ period'[e] = 0
      /\ \A f \in Entry : f # e => deadline'[f] = deadline[f] /\ period'[f] = period[f]
      /\ now' = now /\ call' = call /\ base' = base
  BY CancelEffect, Zenon
<1>2. Pending'[e] = 0
  BY <1>1, PendingIs, Zenon
<1>3. \A f \in Entry : f # e => Pending'[f] = Pending[f]
  BY <1>1, PendingIs, Zenon
<1>4. Pending' = [Pending EXCEPT ![e] = 0]
  BY <1>2, <1>3, PendingOne, Zenon
<1>5. period' = [period EXCEPT ![e] = 0]
  BY Zenon DEF hrt_cancel
<1> QED BY <1>1, <1>4, <1>5, Zenon DEF Promise!Disarm

\* hrt_call_invoke makes the first call that is due: Fire.
LEMMA InvokeIsFire ==
  ASSUME TimerTypeOK, ListInv, CallInv, ~twice, Invoke, rearmed' = rearmed
  PROVE  Promise!Fire(call')
<1>1. /\ call' \in Entry /\ deadline[call'] # 0
      /\ \A f \in Entry : deadline[f] # 0 => deadline[call'] <= deadline[f]
  BY InvokeStep, Zenon
<1>2. /\ call = NoEntry /\ deadline[call'] <= now /\ base' = deadline[call']
      /\ deadline' = [deadline EXCEPT ![call'] = 0] /\ now' = now /\ period' = period
  BY Zenon DEF Invoke, Due, CallInv
<1>3. \A f \in Entry : Pending[f] = deadline[f]
  BY <1>2, PendingIs, NoEntryIsNone, Zenon
<1>4. /\ deadline'[call'] = 0
      /\ \A f \in Entry : f # call' => deadline'[f] = deadline[f]
  BY <1>1, <1>2, Zenon DEF TimerTypeOK
<1>5. \A f \in Entry : f # call' => Pending'[f] = Pending[f]
  BY <1>3, <1>4, PendingIs, Zenon
<1>6. Pending'[call'] = IF period[call'] = 0 THEN 0 ELSE Pending[call'] + period[call']
  BY <1>1, <1>2, <1>3, <1>4, PendingIs, Zenon
<1>7. Pending' = [Pending EXCEPT ![call'] = Pending'[call']]
  BY <1>1, <1>5, PendingOne, Zenon
<1>8. Pending' = [Pending EXCEPT ![call'] = IF period[call'] = 0 THEN 0 ELSE @ + period[call']]
  BY <1>6, <1>7, Zenon
<1>9. /\ Pending[call'] # 0 /\ Pending[call'] <= now
      /\ \A f \in Entry : Pending[f] # 0 => Pending[call'] <= Pending[f]
  BY <1>1, <1>2, <1>3, Zenon
<1> QED BY <1>2, <1>8, <1>9, Zenon DEF Promise!Fire

(***************************************************************************)
(* hrt_call_invoke enters a repeating call with the deadline that was      *)
(* promised when its callout began: Finish.  If intervals may start at     *)
(* once, an entry that is in the list already may get another deadline;    *)
(* then the list is ruined.                                                *)
(***************************************************************************)
LEMMA ReenterIsFinish ==
  ASSUME TimerTypeOK, ListInv, CallInv, ~twice, Reenter, ~twice' \/ 0 \notin Starts
  PROVE  Promise!Finish
<1>0. /\ deadline \in [Entry -> Nat] /\ period \in [Entry -> Nat] /\ base \in Nat /\ seen \in Nat
      /\ Queued = {f \in Entry : deadline[f] # 0}
  BY Zenon DEF TimerTypeOK, ListInv
<1>1. call \in Entry /\ call # NoEntry
  BY NoEntryIsNone, Zenon DEF Reenter, CallInv, TimerTypeOK
<1>2. call' = NoEntry /\ now' = now /\ period' = period
  BY Zenon DEF Reenter
<1>3. \A f \in Entry : Pending'[f] = deadline'[f]
  BY <1>2, PendingIs, NoEntryIsNone, Zenon
<1>4. \A f \in Entry : f # call => Pending[f] = deadline[f]
  BY PendingIs, Zenon
<1>5. \A f \in Entry : deadline'[f] = Pending[f]
  <2>1. CASE period[call] = 0
    <3>1. deadline' = deadline
      BY <2>1, Zenon DEF Reenter
    <3> QED BY <1>4, <2>1, <3>1, PendingIs, Zenon
  <2>2. CASE period[call] # 0
    <3>1. /\ deadline' = [deadline EXCEPT ![call] = IF @ <= seen THEN base + period[call] ELSE @]
          /\ twice' = (call \in Queued)
      BY <2>2, Zenon DEF Reenter
    <3>2. /\ \A f \in Entry : f # call => deadline'[f] = deadline[f]
          /\ deadline'[call] = IF deadline[call] <= seen THEN base + period[call] ELSE deadline[call]
      BY <1>0, <1>1, <3>1, Zenon
    <3>3. CASE deadline[call] = 0
      <4>1. deadline[call] <= seen
        BY <1>0, <3>3
      <4> QED BY <1>1, <1>4, <2>2, <3>2, <3>3, <4>1, PendingIs, Zenon
    <3>4. CASE deadline[call] # 0
      <4>1. twice'
        BY <1>0, <1>1, <3>1, <3>4, Zenon
      <4>2. seen < deadline[call]
        BY <1>1, <2>2, <3>4, <4>1, Zenon DEF CallInv
      <4>3. ~(deadline[call] <= seen)
        <5>1. deadline[call] \in Nat
          BY <1>0, <1>1, Zenon
        <5> QED BY <1>0, <4>2, <5>1
      <4> QED BY <1>1, <1>4, <3>2, <3>4, <4>3, PendingIs, Zenon
    <3> QED BY <3>3, <3>4, Zenon
  <2> QED BY <2>1, <2>2, Zenon
<1>6. Pending' = Pending
  <2>1. \A f \in Entry : Pending'[f] = Pending[f]
    BY <1>3, <1>5, Zenon
  <2> QED BY <2>1, Zenon DEF Pending
<1> QED BY <1>1, <1>2, <1>6, Zenon DEF Promise!Finish

\* Every step of the hrt and of its users is a step of Timer, or none.
LEMMA TimerStep ==
  ASSUME SInv, [SNext]_allVars, ~twice' \/ 0 \notin Starts
  PROVE  [Promise!Next]_(Promise!vars)
<1>0. /\ TimerTypeOK /\ ListInv /\ CallInv /\ SleepInv /\ dying \subseteq Item
  BY Zenon DEF SInv, LifeInv
<1>1. ASSUME UNCHANGED <<now, deadline, period, call, base>>
      PROVE  UNCHANGED Promise!vars
  BY <1>1, PendingStays, Zenon DEF Promise!vars
<1>2. CASE UNCHANGED allVars
  BY <1>1, <1>2, Zenon DEF allVars, hrtVars, timerState, threadState
<1>3. CASE Use
  <2>1. ASSUME NEW i \in Item, NEW d \in Delays, ScheduleDelayed(i, d) PROVE Promise!Next
    <3>1. d \in Nat /\ 0 \in Nat
      BY TimerConstants, Zenon
    <3>2. Promise!Arm(i)
      BY <1>0, <2>1, <3>1, ArmIsArm, EntriesAreItems, Zenon DEF ScheduleDelayed, hrt_call_after
    <3> QED BY <3>2, EntriesAreItems, Zenon DEF Promise!Next
  <2>2. ASSUME NEW i \in Item, NEW d \in Starts, NEW p \in Periods, ScheduleOnInterval(i, p, d)
        PROVE  Promise!Next
    <3>1. d \in Nat /\ p \in Nat
      BY TimerConstants, StartsAreTimes, Zenon
    <3>2. Promise!Arm(i)
      BY <1>0, <2>2, <3>1, ArmIsArm, EntriesAreItems, Zenon DEF ScheduleOnInterval, hrt_call_every
    <3> QED BY <3>2, EntriesAreItems, Zenon DEF Promise!Next
  <2>3. ASSUME NEW i \in Item, ScheduleClear(i) \/ Destruct(i) PROVE Promise!Next
    <3>1. Promise!Disarm(i)
      BY <1>0, <2>3, CancelIsDisarm, EntriesAreItems, Zenon DEF ScheduleClear, Destruct
    <3> QED BY <3>1, EntriesAreItems, Zenon DEF Promise!Next
  <2>4. ASSUME (\E i \in Item : Construct(i)) \/ Leave PROVE UNCHANGED Promise!vars
    BY <1>1, <2>4, Zenon DEF Construct, Leave, hrtVars, timerState, threadState
  <2> QED BY <1>3, <2>1, <2>2, <2>3, <2>4, Zenon DEF Use
<1>4. CASE TimerThread
  <2>1. CASE schedule_trampoline \/ (CallerStep(Timer) /\ UNCHANGED <<hrtVars, itemLife>>)
    BY <1>1, <2>1, Zenon DEF schedule_trampoline, hrtVars, timerState, threadState
  <2>2. CASE Return
    <3>1. ~twice /\ Reenter
      BY <1>4, <2>2, Zenon DEF TimerThread, Return
    <3>2. Promise!Finish
      BY <1>0, <3>1, ReenterIsFinish, Zenon
    <3> QED BY <3>2, Zenon DEF Promise!Next
  <2>3. CASE Invoke /\ UNCHANGED <<vars, itemLife>>
    <3>1. ~twice /\ rearmed' = rearmed
      BY <1>4, <2>3, Zenon DEF TimerThread, itemLife
    <3>2. Promise!Fire(call') /\ call' \in Entry
      BY <1>0, <2>3, <3>1, InvokeIsFire, InvokeStep, Zenon
    <3> QED BY <3>2, Zenon DEF Promise!Next
  <2>4. CASE Scan \/ Sleep \/ Wake \/ InvokeNone \/ Reschedule
    BY <1>1, <2>4, Zenon DEF Scan, Sleep, Wake, InvokeNone, Reschedule, timerState
  <2> QED BY <1>4, <2>1, <2>2, <2>3, <2>4, Zenon DEF TimerThread
<1>5. CASE WorkerThread
  BY <1>1, <1>5, Zenon DEF WorkerThread, hrtVars, timerState, threadState
<1>6. CASE Time
  <2>1. Tick /\ UNCHANGED <<deadline, period, call, base>>
    BY <1>6, Zenon DEF Time, Tick, threadState
  <2>2. Promise!Pass
    BY <2>1, PendingStays, Zenon DEF Tick, Promise!Pass
  <2> QED BY <2>2, Zenon DEF Promise!Next
<1> QED BY <1>2, <1>3, <1>4, <1>5, <1>6, Zenon DEF SNext, Over

\* The hrt starts as Timer does, with nothing pending.
LEMMA TimerStart == SInit => Promise!Init
BY NoEntryIsNone, Zenon DEF SInit, TimerInit, Promise!Init, Pending

(***************************************************************************)
(* The hrt keeps what Timer promises as long as its list is not ruined: no *)
(* call is made early, out of order or after it was cancelled, and the     *)
(* deadlines of a repeating call do not drift.                             *)
(***************************************************************************)
THEOREM TimerIsKept == SSpec /\ []~twice => TimerSpec
<1>1. SInv /\ [SNext]_allVars /\ ~twice' => [Promise!Next]_(Promise!vars)
  BY TimerStep, Zenon
<1> QED BY <1>1, SInvariance, TimerStart, PTL DEF SSpec, TimerSpec, Promise!Spec

(***************************************************************************)
(* And if no interval starts at once, up to and including the step that    *)
(* ruins the list.                                                         *)
(***************************************************************************)
THEOREM TimerIsKeptThroughout == ASSUME 0 \notin Starts PROVE SSpec => TimerSpec
<1>1. SInv /\ [SNext]_allVars => [Promise!Next]_(Promise!vars)
  BY TimerStep, Zenon
<1> QED BY <1>1, SInvariance, TimerStart, PTL DEF SSpec, TimerSpec, Promise!Spec
=============================================================================
