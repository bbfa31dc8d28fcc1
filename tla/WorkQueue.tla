------------------------------ MODULE WorkQueue ------------------------------
(***************************************************************************)
(* One px4::WorkQueue: the worker thread in WorkQueue::Run, the WorkItems  *)
(* that attach to it and leave it again, and the threads (publishers, hrt  *)
(* callouts, interrupts, the items themselves) that call ScheduleNow.      *)
(*                                                                         *)
(* A region between work_lock and work_unlock is one step, except in       *)
(* Detach: it signals the worker while it holds the lock, and the          *)
(* semaphore _process_lock that it reads and posts is not protected by     *)
(* that lock.  signal_worker_thread reads the semaphore and posts it in    *)
(* two separate steps everywhere.                                          *)
(***************************************************************************)
EXTENDS IntrusiveQueue

CONSTANTS Caller,       \* threads that call ScheduleNow on an item
          Worker,       \* the thread of the queue, which may do so as well
          Leaving       \* the sets of items that may leave the queue

Item == Node
Thread == Caller \cup {Worker}

ASSUME WorkerIsNoCaller == Worker \notin Caller
ASSUME LeavingItems == Leaving \subseteq SUBSET Item

VARIABLES q,            \* _q
          sem,          \* value of _process_lock
          qlock,        \* the item whose Detach holds work_lock, or NULL
          workItems,    \* _work_items
          shouldExit,   \* _should_exit
          wq,           \* wq[i]: the item's _wq is not null
          wpc,          \* where WorkQueue::Run is
          running,      \* the item the worker popped, or NULL
          cpc,          \* where a thread's ScheduleNow is
          citem,        \* the item of that call
          opc,          \* where the owner of an item is in Init and Deinit
          leaving       \* the items whose owner ever calls Deinit

vars == <<q, sem, qlock, workItems, shouldExit, wq, wpc, running, cpc, citem, opc, leaving>>

itemVars == <<workItems, shouldExit, wq, opc, leaving>>
callVars == <<cpc, citem>>

TypeOK ==
  /\ q \in Queue
  /\ sem \in Nat
  /\ qlock \in Item \cup {NULL}
  /\ workItems \subseteq Item
  /\ shouldExit \in BOOLEAN
  /\ wq \in [Item -> BOOLEAN]
  /\ wpc \in {"check", "wait", "drain", "run", "exited", "destroyed"}
  /\ running \in Item \cup {NULL}
  /\ cpc \in [Thread -> {"idle", "checked", "pushed", "post"}]
  /\ citem \in [Thread -> Item \cup {NULL}]
  /\ opc \in [Item -> {"out", "in", "nulled", "removed", "signal", "post"}]

Init ==
  /\ q = EmptyQueue
  /\ sem = 0
  /\ qlock = NULL
  /\ workItems = {}
  /\ shouldExit = FALSE
  /\ wq = [i \in Item |-> FALSE]
  /\ wpc = "check"
  /\ running = NULL
  /\ cpc = [t \in Thread |-> "idle"]
  /\ citem = [t \in Thread |-> NULL]
  /\ opc = [i \in Item |-> "out"]
  /\ leaving \in Leaving

-----------------------------------------------------------------------------
(***************************************************************************)
(* ScheduleNow: the test of _wq, then WorkQueue::Add, then the signal.     *)
(* The worker calls it from the Run() of the item it is running.           *)
(***************************************************************************)
ScheduleNow(t, i) ==
  /\ cpc[t] = "idle"
  /\ wq[i]
  /\ t = Worker => wpc = "run"
  /\ cpc' = [cpc EXCEPT ![t] = "checked"]
  /\ citem' = [citem EXCEPT ![t] = i]
  /\ UNCHANGED <<q, sem, qlock, wpc, running, itemVars>>

Add(t) ==
  /\ cpc[t] = "checked"
  /\ qlock = NULL
  /\ q' = Push(q, citem[t])
  /\ cpc' = [cpc EXCEPT ![t] = "pushed"]
  /\ UNCHANGED <<sem, qlock, wpc, running, itemVars, citem>>

AddSignal(t) ==
  /\ cpc[t] = "pushed"
  /\ IF sem = 0
     THEN cpc' = [cpc EXCEPT ![t] = "post"] /\ UNCHANGED citem
     ELSE cpc' = [cpc EXCEPT ![t] = "idle"] /\ citem' = [citem EXCEPT ![t] = NULL]
  /\ UNCHANGED <<q, sem, qlock, wpc, running, itemVars>>

AddPost(t) ==
  /\ cpc[t] = "post"
  /\ sem' = sem + 1
  /\ cpc' = [cpc EXCEPT ![t] = "idle"]
  /\ citem' = [citem EXCEPT ![t] = NULL]
  /\ UNCHANGED <<q, qlock, wpc, running, itemVars>>

-----------------------------------------------------------------------------
(***************************************************************************)
(* WorkItem::Init on a queue that exists, and WorkItem::Deinit.            *)
(***************************************************************************)

\* Mutant: Attach does not look at _should_exit.
AttachAnyway(i) ==
  /\ opc[i] = "out" /\ qlock = NULL /\ wpc # "destroyed"
  /\ workItems' = workItems \cup {i}
  /\ wq' = [wq EXCEPT ![i] = TRUE]
  /\ opc' = [opc EXCEPT ![i] = "in"]
  /\ UNCHANGED <<q, sem, qlock, shouldExit, wpc, running, callVars, leaving>>

Attach(i) ==
  /\ opc[i] = "out" /\ qlock = NULL /\ wpc # "destroyed"
  /\ ~shouldExit
  /\ workItems' = workItems \cup {i}
  /\ wq' = [wq EXCEPT ![i] = TRUE]
  /\ opc' = [opc EXCEPT ![i] = "in"]
  /\ UNCHANGED <<q, sem, qlock, shouldExit, wpc, running, callVars, leaving>>

Deinit(i) ==
  /\ opc[i] = "in" /\ i \in leaving
  /\ wq' = [wq EXCEPT ![i] = FALSE]
  /\ opc' = [opc EXCEPT ![i] = "nulled"]
  /\ UNCHANGED <<q, sem, qlock, workItems, shouldExit, wpc, running, callVars, leaving>>

\* Mutant: an item that is queued stays so.
DeinitKeepsQueued(i) ==
  /\ opc[i] = "nulled" /\ qlock = NULL
  /\ opc' = [opc EXCEPT ![i] = "removed"]
  /\ UNCHANGED <<q, sem, qlock, workItems, shouldExit, wq, wpc, running, callVars, leaving>>

DeinitRemove(i) ==
  /\ opc[i] = "nulled" /\ qlock = NULL
  /\ q' = Remove(q, i)
  /\ opc' = [opc EXCEPT ![i] = "removed"]
  /\ UNCHANGED <<sem, qlock, workItems, shouldExit, wq, wpc, running, callVars, leaving>>

\* Mutant: the worker is asked to stop but not woken up.
DetachSilent(i) ==
  /\ opc[i] = "removed" /\ qlock = NULL
  /\ workItems' = workItems \ {i}
  /\ shouldExit' = (workItems' = {})
  /\ opc' = [opc EXCEPT ![i] = "out"]
  /\ UNCHANGED <<q, sem, qlock, wq, wpc, running, callVars, leaving>>

Detach(i) ==
  /\ opc[i] = "removed" /\ qlock = NULL
  /\ workItems' = workItems \ {i}
  /\ IF workItems' = {}
     THEN /\ shouldExit' = TRUE
          /\ qlock' = i
          /\ opc' = [opc EXCEPT ![i] = "signal"]
     ELSE /\ opc' = [opc EXCEPT ![i] = "out"]
          /\ UNCHANGED <<shouldExit, qlock>>
  /\ UNCHANGED <<q, sem, wq, wpc, running, callVars, leaving>>

DetachSignal(i) ==
  /\ opc[i] = "signal"
  /\ IF sem = 0
     THEN opc' = [opc EXCEPT ![i] = "post"] /\ UNCHANGED qlock
     ELSE opc' = [opc EXCEPT ![i] = "out"] /\ qlock' = NULL
  /\ UNCHANGED <<q, sem, workItems, shouldExit, wq, wpc, running, callVars, leaving>>

DetachPost(i) ==
  /\ opc[i] = "post"
  /\ sem' = sem + 1
  /\ opc' = [opc EXCEPT ![i] = "out"]
  /\ qlock' = NULL
  /\ UNCHANGED <<q, workItems, shouldExit, wq, wpc, running, callVars, leaving>>

-----------------------------------------------------------------------------
(***************************************************************************)
(* WorkQueue::Run.  Take is the test of the inner loop with the lock held: *)
(* pop an item and run it with the lock released, or leave the loop.       *)
(***************************************************************************)
Check ==
  /\ wpc = "check"
  /\ wpc' = IF shouldExit THEN "exited" ELSE "wait"
  /\ UNCHANGED <<q, sem, qlock, running, itemVars, callVars>>

Wait ==
  /\ wpc = "wait" /\ sem > 0
  /\ sem' = sem - 1
  /\ wpc' = "drain"
  /\ UNCHANGED <<q, qlock, running, itemVars, callVars>>

\* Mutant: one item is run per wake-up.
TakeOne ==
  /\ wpc = "drain" /\ qlock = NULL
  /\ IF Empty(q) \/ running # NULL
     THEN wpc' = "check" /\ running' = NULL /\ UNCHANGED q
     ELSE wpc' = "run" /\ running' = q.head /\ q' = Pop(q)
  /\ UNCHANGED <<sem, qlock, itemVars, callVars>>

Take ==
  /\ wpc = "drain" /\ qlock = NULL
  /\ IF Empty(q)
     THEN wpc' = "check" /\ running' = NULL /\ UNCHANGED q
     ELSE wpc' = "run" /\ running' = q.head /\ q' = Pop(q)
  /\ UNCHANGED <<sem, qlock, itemVars, callVars>>

RunDone ==
  /\ wpc = "run" /\ cpc[Worker] = "idle"
  /\ wpc' = "drain"
  /\ UNCHANGED <<q, sem, qlock, running, itemVars, callVars>>

\* Mutant: the destructor does not take the lock.
DestroyUnlocked ==
  /\ wpc = "exited"
  /\ wpc' = "destroyed"
  /\ UNCHANGED <<q, sem, qlock, running, itemVars, callVars>>

(***************************************************************************)
(* The queue lives on the stack of WorkQueueRunner: when Run returns it is *)
(* destroyed, _process_lock with the lock held.                            *)
(***************************************************************************)
Destroy ==
  /\ wpc = "exited" /\ qlock = NULL
  /\ wpc' = "destroyed"
  /\ UNCHANGED <<q, sem, qlock, running, itemVars, callVars>>

-----------------------------------------------------------------------------
CallerStep(t) == Add(t) \/ AddSignal(t) \/ AddPost(t)

OwnerStep(i) == DeinitRemove(i) \/ Detach(i) \/ DetachSignal(i) \/ DetachPost(i)

WorkerStep == Check \/ Wait \/ Take \/ RunDone \/ Destroy

\* The queue is gone: no work is left to do.
Stopped ==
  /\ wpc = "destroyed"
  /\ UNCHANGED vars

Next ==
  \/ \E t \in Thread, i \in Item : ScheduleNow(t, i)
  \/ \E t \in Thread : CallerStep(t)
  \/ \E i \in Item : Attach(i) \/ Deinit(i) \/ OwnerStep(i)
  \/ WorkerStep
  \/ Stopped

Spec == Init /\ [][Next]_vars

(***************************************************************************)
(* Every thread that is inside a call goes on.  Nothing obliges anyone to  *)
(* schedule an item, to attach it or to destroy it.  An adder may find     *)
(* the lock taken, but only Detach keeps it across steps, and only for the *)
(* last item.  SF of RunDone: every Run() of an item returns, however      *)
(* often it schedules items before it does.                                *)
(***************************************************************************)
Fairness ==
  /\ \A t \in Thread : WF_vars(CallerStep(t))
  /\ \A i \in Item : WF_vars(OwnerStep(i))
  /\ WF_vars(WorkerStep)
  /\ SF_vars(RunDone)

FairSpec == Spec /\ Fairness

-----------------------------------------------------------------------------
Signalling == \/ \E t \in Thread : cpc[t] \in {"pushed", "post"}
              \/ \E i \in Item : opc[i] \in {"signal", "post"}

(***************************************************************************)
(* No wake-up is lost: while there is queued work, the worker is in its    *)
(* inner loop, or the semaphore will let it in, or a thread that queued    *)
(* work has still to read the semaphore (Add signals without the lock,     *)
(* and posts only if it read zero).                                        *)
(***************************************************************************)
NoLostWakeup ==
  ~Empty(q) => \/ wpc \in {"drain", "run"}
               \/ sem > 0
               \/ \E t \in Thread : cpc[t] \in {"pushed", "post"}

(***************************************************************************)
(* A worker told to stop does not sleep through it: between its test of    *)
(* should_exit and its sem_wait the request of Detach may come in, and the *)
(* wait still ends.                                                        *)
(***************************************************************************)
StopIsHeard == shouldExit /\ wpc = "wait" => sem > 0 \/ Signalling

(***************************************************************************)
(* An item whose Attach succeeded is on a queue that keeps running until   *)
(* the item leaves: Attach and the last Detach exclude each other.         *)
(***************************************************************************)
AttachedKeepsRunning ==
  workItems # {} => ~shouldExit /\ wpc \notin {"exited", "destroyed"}

(***************************************************************************)
(* The last Detach is over before the queue it works on is destroyed: it   *)
(* holds the lock from request_stop to the post, and the destructor waits  *)
(* for the lock.                                                           *)
(***************************************************************************)
DetachBeforeDestroy ==
  wpc = "destroyed" => \A i \in Item : opc[i] = "out"

(***************************************************************************)
(* Every ScheduleNow that finds the item attached is followed by a run of  *)
(* the item (where no item ever leaves the queue).                         *)
(***************************************************************************)
ScheduledRuns ==
  \A t \in Thread, i \in Item :
     (leaving = {} /\ cpc[t] = "checked" /\ citem[t] = i) ~> (wpc = "run" /\ running = i)

(***************************************************************************)
(* When its last item has left, the worker thread returns from Run and the *)
(* queue is destroyed.                                                     *)
(***************************************************************************)
StopsWhenEmpty == shouldExit ~> wpc = "destroyed"
=============================================================================
