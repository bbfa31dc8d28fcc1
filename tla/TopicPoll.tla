------------------------------ MODULE TopicPoll ------------------------------
(***************************************************************************)
(* Threads that wait for uORB topics with px4_poll: the loop of px4_poll   *)
(* over its descriptors (cdev_platform.cpp), the set of waiters of every   *)
(* topic (CDev.cpp), and the publishers, which store a message in one      *)
(* locked region and notify the waiters in another.                        *)
(*                                                                         *)
(* Every poll, poll_notify, write and read of a topic is one region under  *)
(* the lock of the topic.  The generations are modelled by what a thread   *)
(* has yet to read, and a semaphore, which px4_poll waits for at most once *)
(* and then destroys, by whether it was posted.  The semaphore is on the   *)
(* stack of px4_poll, and so are, usually, the descriptors: a waiter must  *)
(* not outlive the call.                                                   *)
(***************************************************************************)
EXTENDS Naturals, Sequences

CONSTANTS Topic, Publisher, Poller,
          NoPoller,     \* an empty slot
          NoTopic,      \* a publisher that has nothing to notify
          Fds,          \* Fds[p]: the topics p polls, in the order of its fds
          Slow,         \* pollers that set an interval with orb_set_interval
          Limit,        \* Limit[t]: the largest set of waiters (128 in the code)
          QueueSize     \* messages kept by a topic

ASSUME PollConstants ==
  /\ NoPoller \notin Poller /\ NoTopic \notin Topic
  /\ Fds \in [Poller -> Seq(Topic)]
  /\ \A p \in Poller : \A j, k \in DOMAIN Fds[p] : Fds[p][j] = Fds[p][k] => j = k
  /\ Slow \subseteq Poller
  /\ Limit \in [Topic -> Nat] /\ QueueSize \in Nat \ {0}

VARIABLES pollset,      \* _pollset of a topic, of length _max_pollwaiters
          notifying,    \* notifying[w]: the topic w wrote and has to notify
          unread,       \* unread[p][t]: how many messages p may still copy
          early,        \* early[p]: the topics whose interval is not over
          ppc,          \* where p is in px4_poll
          timeout,      \* the timeout of that call
          stored,       \* how many descriptors are set up
          i,            \* the descriptor that is torn down next
          revents,      \* the topics of p with POLLIN in revents
          sem,          \* the semaphore of the call was posted
          held          \* held[p]: messages came before the interval was over

topicVars == <<pollset, notifying>>
subVars == <<unread, early, held>>
callVars == <<ppc, timeout, stored, i>>
vars == <<topicVars, subVars, callVars, revents, sem>>

Polled(p) == {Fds[p][k] : k \in DOMAIN Fds[p]}
Waiters(t) == {pollset[t][k] : k \in DOMAIN pollset[t]} \ {NoPoller}
Failed(p) == ppc[p] \in {"wait", "teardown"} /\ stored[p] < Len(Fds[p])

TypeOK ==
  /\ pollset \in [Topic -> Seq(Poller \cup {NoPoller})]
  /\ notifying \in [Publisher -> Topic \cup {NoTopic}]
  /\ unread \in [Poller -> [Topic -> 0..QueueSize]]
  /\ early \in [Poller -> SUBSET Topic]
  /\ ppc \in [Poller -> {"out", "setup", "wait", "teardown", "returned"}]
  /\ timeout \in [Poller -> {"finite", "forever"}]
  /\ stored \in [Poller -> Nat]
  /\ i \in [Poller -> Nat]
  /\ revents \in [Poller -> SUBSET Topic]
  /\ sem \in [Poller -> BOOLEAN]
  /\ held \in [Poller -> SUBSET Topic]

Init ==
  /\ pollset = [t \in Topic |-> <<>>]
  /\ notifying = [w \in Publisher |-> NoTopic]
  /\ unread = [p \in Poller |-> [t \in Topic |-> 0]]
  /\ early = [p \in Poller |-> {}]
  /\ ppc = [p \in Poller |-> "out"]
  /\ timeout = [p \in Poller |-> "finite"]
  /\ stored = [p \in Poller |-> 0]
  /\ i = [p \in Poller |-> 1]
  /\ revents = [p \in Poller |-> {}]
  /\ sem = [p \in Poller |-> FALSE]
  /\ held = [p \in Poller |-> {}]

-----------------------------------------------------------------------------
\* The generation of the descriptor is not the one of the topic.
appears_updated(p, t) == t \notin early[p] /\ unread[p][t] > 0

Lesser(a, b) == IF a <= b THEN a ELSE b

(***************************************************************************)
(* A publisher stores a message; then, in a region of its own, it notifies *)
(* the waiters to whom the topic looks updated.                            *)
(***************************************************************************)
Write(w, t) ==
  /\ notifying[w] = NoTopic
  /\ unread' = [p \in Poller |-> [unread[p] EXCEPT ![t] = Lesser(@ + 1, QueueSize)]]
  /\ notifying' = [notifying EXCEPT ![w] = t]
  /\ UNCHANGED <<pollset, early, held, callVars, revents, sem>>

\* Mutant: every waiter is notified, as CDev does it for other devices.
Everyone(t) == Waiters(t)

\* Mutant: the loop over the set ends at the first waiter.
FirstWaiter(t) ==
  {p \in Waiters(t) : appears_updated(p, t) /\ pollset[t][1] \in {p, NoPoller}}

Notified(t) == {p \in Waiters(t) : appears_updated(p, t)}

poll_notify(w) ==
  LET t == notifying[w]
      notified == Notified(t)
  IN  /\ t # NoTopic
      /\ revents' = [p \in Poller |-> IF p \in notified THEN revents[p] \cup {t} ELSE revents[p]]
      /\ sem' = [p \in Poller |-> sem[p] \/ p \in notified]
      /\ held' = [p \in Poller |-> IF p \in Waiters(t) \ notified
                                     THEN held[p] \cup ({t} \cap early[p]) ELSE held[p] \ {t}]
      /\ notifying' = [notifying EXCEPT ![w] = NoTopic]
      /\ UNCHANGED <<pollset, unread, early, callVars>>

\* The interval of a throttled descriptor is over.
Elapse(p, t) ==
  /\ t \in early[p]
  /\ early' = [early EXCEPT ![p] = @ \ {t}]
  /\ UNCHANGED <<topicVars, unread, held, callVars, revents, sem>>

-----------------------------------------------------------------------------
px4_poll(p, how) ==
  /\ ppc[p] = "out"
  /\ ppc' = [ppc EXCEPT ![p] = "setup"]
  /\ timeout' = [timeout EXCEPT ![p] = how]
  /\ UNCHANGED <<topicVars, subVars, stored, i, revents, sem>>

Free(set) == {k \in DOMAIN set : set[k] = NoPoller}
First(S) == CHOOSE k \in S : \A j \in S : k <= j

\* The set after it was doubled, with p in the first new slot.
Doubled(set, p) ==
  [k \in 1..(IF set = <<>> THEN 1 ELSE 2 * Len(set)) |->
     IF k <= Len(set) THEN set[k] ELSE IF k = Len(set) + 1 THEN p ELSE NoPoller]

\* store_poll_waiter and, if need be, a larger set.
Stored(set, p) ==
  IF Free(set) = {} THEN Doubled(set, p) ELSE [set EXCEPT ![First(Free(set))] = p]

\* Mutant: the topic is not looked at again once the waiter is stored.
SetupOnly(p) ==
  LET t == Fds[p][stored[p] + 1]
      set == pollset[t]
  IN  /\ ppc[p] = "setup" /\ stored[p] < Len(Fds[p])
      /\ Free(set) # {} \/ Len(set) < Limit[t]
      /\ pollset' = [pollset EXCEPT ![t] = Stored(set, p)]
      /\ stored' = [stored EXCEPT ![p] = @ + 1]
      /\ UNCHANGED <<notifying, subVars, ppc, timeout, i, revents, sem>>

(***************************************************************************)
(* CDev::poll with setup: a free slot is taken, or the set is doubled      *)
(* unless it has reached its limit; then the event is reported at once if  *)
(* the topic is updated.                                                   *)
(***************************************************************************)
Setup(p) ==
  LET t == Fds[p][stored[p] + 1]
      set == pollset[t]
  IN  /\ ppc[p] = "setup" /\ stored[p] < Len(Fds[p])
      /\ Free(set) # {} \/ Len(set) < Limit[t]
      /\ pollset' = [pollset EXCEPT ![t] = Stored(set, p)]
      /\ stored' = [stored EXCEPT ![p] = @ + 1]
      /\ IF appears_updated(p, t)
         THEN /\ revents' = [revents EXCEPT ![p] = @ \cup {t}]
              /\ sem' = [sem EXCEPT ![p] = TRUE]
         ELSE UNCHANGED <<revents, sem>>
      /\ held' = [held EXCEPT ![p] = IF t \in early[p] /\ unread[p][t] > 0
                                    THEN @ \cup {t} ELSE @ \ {t}]
      /\ UNCHANGED <<notifying, unread, early, ppc, timeout, i>>

\* Mutant: an error returns at once.
SetupFailsAtOnce(p) ==
  LET t == Fds[p][stored[p] + 1]
  IN  /\ ppc[p] = "setup" /\ stored[p] < Len(Fds[p])
      /\ Free(pollset[t]) = {} /\ Len(pollset[t]) >= Limit[t]
      /\ ppc' = [ppc EXCEPT ![p] = "returned"]
      /\ UNCHANGED <<topicVars, subVars, timeout, stored, i, revents, sem>>

(***************************************************************************)
(* The set of waiters is full.  px4_poll does not go on to the next        *)
(* descriptor, but it waits for those it has set up, if there are any.     *)
(***************************************************************************)
SetupFails(p) ==
  LET t == Fds[p][stored[p] + 1]
  IN  /\ ppc[p] = "setup" /\ stored[p] < Len(Fds[p])
      /\ Free(pollset[t]) = {} /\ Len(pollset[t]) >= Limit[t]
      /\ ppc' = [ppc EXCEPT ![p] = IF stored[p] = 0 THEN "returned" ELSE "wait"]
      /\ UNCHANGED <<topicVars, subVars, timeout, stored, i, revents, sem>>

SetupDone(p) ==
  /\ ppc[p] = "setup" /\ stored[p] = Len(Fds[p])
  /\ ppc' = [ppc EXCEPT ![p] = "wait"]
  /\ UNCHANGED <<topicVars, subVars, timeout, stored, i, revents, sem>>

Wait(p) ==
  /\ ppc[p] = "wait" /\ sem[p]
  /\ ppc' = [ppc EXCEPT ![p] = "teardown"]
  /\ UNCHANGED <<topicVars, subVars, timeout, stored, i, revents, sem>>

\* The time is up.  A call with the timeout 0 does not look at the semaphore.
Timeout(p) ==
  /\ ppc[p] = "wait" /\ timeout[p] = "finite"
  /\ ppc' = [ppc EXCEPT ![p] = "teardown"]
  /\ UNCHANGED <<topicVars, subVars, timeout, stored, i, revents, sem>>

remove_poll_waiter(set, p) ==
  [k \in DOMAIN set |-> IF set[k] = p THEN NoPoller ELSE set[k]]

(***************************************************************************)
(* CDev::poll without setup.  The loop ends at a descriptor that is in no  *)
(* set, which is the one whose setup failed.                               *)
(***************************************************************************)
Teardown(p) ==
  LET t == Fds[p][i[p]]
      found == \E k \in DOMAIN pollset[t] : pollset[t][k] = p
  IN  /\ ppc[p] = "teardown"
      /\ pollset' = [pollset EXCEPT ![t] = remove_poll_waiter(@, p)]
      /\ IF found /\ i[p] < Len(Fds[p])
         THEN i' = [i EXCEPT ![p] = @ + 1] /\ UNCHANGED ppc
         ELSE ppc' = [ppc EXCEPT ![p] = "returned"] /\ UNCHANGED i
      /\ UNCHANGED <<notifying, subVars, timeout, stored, revents, sem>>

-----------------------------------------------------------------------------
(***************************************************************************)
(* After px4_poll the thread copies the topics that are reported, and may  *)
(* leave some of them for the next time.  One copy returns one message and *)
(* restarts the interval of the descriptor.                                *)
(***************************************************************************)
orb_copy(p, t) ==
  /\ ppc[p] = "returned" /\ t \in revents[p]
  /\ unread' = [unread EXCEPT ![p][t] = @ - 1]
  /\ early' = IF p \in Slow THEN [early EXCEPT ![p] = @ \cup {t}] ELSE early
  /\ revents' = [revents EXCEPT ![p] = @ \ {t}]
  /\ UNCHANGED <<topicVars, held, callVars, sem>>

\* What the next px4_poll starts from.
Leave(p) ==
  /\ ppc[p] = "returned"
  /\ ppc' = [ppc EXCEPT ![p] = "out"]
  /\ timeout' = [timeout EXCEPT ![p] = "finite"]
  /\ stored' = [stored EXCEPT ![p] = 0]
  /\ i' = [i EXCEPT ![p] = 1]
  /\ revents' = [revents EXCEPT ![p] = {}]
  /\ sem' = [sem EXCEPT ![p] = FALSE]
  /\ held' = [held EXCEPT ![p] = {}]
  /\ UNCHANGED <<topicVars, unread, early>>

InPoll(p) ==
  \/ Setup(p) \/ SetupFails(p) \/ SetupDone(p)
  \/ Wait(p) \/ Timeout(p) \/ Teardown(p)

Next ==
  \/ \E w \in Publisher : poll_notify(w) \/ \E t \in Topic : Write(w, t)
  \/ \E p \in Poller :
        \/ InPoll(p) \/ Leave(p)
        \/ \E how \in {"finite", "forever"} : px4_poll(p, how)
        \/ \E t \in Topic : orb_copy(p, t) \/ Elapse(p, t)

Spec == Init /\ [][Next]_vars

(***************************************************************************)
(* A publisher that has written goes on to notify, a thread inside         *)
(* px4_poll goes on (and a finite timeout ends).  Nobody is obliged to     *)
(* publish, to poll or to read.                                            *)
(***************************************************************************)
Fairness ==
  /\ \A w \in Publisher : WF_vars(poll_notify(w))
  /\ \A p \in Poller : WF_vars(InPoll(p))

FairSpec == Spec /\ Fairness

-----------------------------------------------------------------------------
(***************************************************************************)
(* A topic knows exactly the waiters that are inside px4_poll, each from   *)
(* its setup to its teardown: no semaphore or descriptor of a call that    *)
(* returned is left in a set, whatever the number of waiters, the timeout  *)
(* and the descriptor whose setup failed, and doubling loses none.         *)
(***************************************************************************)
WaitersAreExact ==
  \A p \in Poller, t \in Topic :
     p \in Waiters(t) <=>
        \E k \in 1..stored[p] :
           /\ Fds[p][k] = t
           /\ ppc[p] \in {"setup", "wait"} \/ (ppc[p] = "teardown" /\ i[p] <= k)

(***************************************************************************)
(* No thread sleeps in px4_poll on a topic that looks updated to it,       *)
(* unless the publisher has still to notify.  The exceptions: a message    *)
(* that came before the interval of the descriptor was over is not         *)
(* announced when it is, and a call that could not set up all descriptors  *)
(* waits for the others only.                                              *)
(***************************************************************************)
NoLostNotification ==
  \A p \in Poller : ppc[p] = "wait" /\ ~sem[p] /\ ~Failed(p) =>
     \A t \in Polled(p) : appears_updated(p, t) =>
        t \in held[p] \/ \E w \in Publisher : notifying[w] = t

(***************************************************************************)
(* What px4_poll reports is there: a topic with POLLIN has a message the   *)
(* thread has not read, although publishers notify late, when the message  *)
(* may have been read and px4_poll called again.                           *)
(***************************************************************************)
PollinIsNew ==
  \A p \in Poller : \A t \in revents[p] : unread[p][t] > 0

(***************************************************************************)
(* A thread that waits without a timeout for a topic without an interval   *)
(* returns when a message is published.                                    *)
(***************************************************************************)
MessageWakes ==
  \A p \in Poller \ Slow :
     (ppc[p] = "wait" /\ ~Failed(p) /\ \E t \in Polled(p) : unread[p][t] > 0)
       ~> ppc[p] # "wait"
=============================================================================
