------------------------------- MODULE Lockstep -------------------------------
(***************************************************************************)
(* The LockstepScheduler of the simulation: the simulator sets the time,   *)
(* and threads sleep until a time is reached (px4_usleep) or a semaphore   *)
(* is posted (px4_sem_timedwait, px4_poll).                                *)
(*                                                                         *)
(* Every waiting thread brings a mutex and a condition variable of its own *)
(* (a local of usleep_until or the semaphore of px4_poll), which are gone  *)
(* when its wait returns, and registers its thread_local TimedWait in a    *)
(* list, which outlives the wait.  Steps are as fine as the accesses to    *)
(* the atomics done and _setting_time require; a region under a mutex is   *)
(* one step unless it takes another mutex inside.  The list is a set: its  *)
(* order decides only in which order expired waiters are woken.            *)
(***************************************************************************)
EXTENDS Naturals

CONSTANTS Thread, Setter, NULL, MaxTime

ASSUME LockstepConstants ==
  NULL \notin Thread /\ Setter \notin Thread /\ NULL # Setter /\ MaxTime \in Nat

VARIABLES time,      \* _time_us
          setting,   \* _setting_time
          mtx,       \* holder of _timed_waits_mutex
          waits,     \* the threads whose TimedWait is in _timed_waits
          spc,       \* where set_absolute_time is
          todo,      \* those it has still to look at
          cur,       \* the one whose passed_lock it is about to take, or NULL
          lck,       \* lck[t]: holder of passed_lock of t
          pc,        \* where a thread is in cond_timedwait
          wtime,     \* time_us of its TimedWait, and the flags of it
          timeout, done, removed

setterVars == <<time, setting, spc, todo, cur>>
flags == <<wtime, timeout, done, removed>>
vars == <<setterVars, mtx, waits, lck, pc, flags>>

\* Between the registration and the return of cond_timedwait.
InWait == {"armed", "waiting", "woken", "held", "check", "sync", "relock",
           "cancelled", "destruct", "unlocked"}

TypeOK ==
  /\ time \in 0..MaxTime /\ setting \in BOOLEAN
  /\ mtx \in {NULL, Setter}
  /\ waits \subseteq Thread /\ todo \subseteq Thread /\ cur \in Thread \cup {NULL}
  /\ spc \in {"idle", "lock", "scan", "expire"}
  /\ lck \in [Thread -> {NULL} \cup Thread]
  /\ pc \in [Thread -> InWait \cup {"out", "call", "return", "dying", "exited"}]
  /\ wtime \in [Thread -> 0..MaxTime + 1]
  /\ timeout \in [Thread -> BOOLEAN] /\ done \in [Thread -> BOOLEAN]
  /\ removed \in [Thread -> BOOLEAN]

Init ==
  /\ time = 0 /\ setting = FALSE /\ mtx = NULL
  /\ waits = {} /\ todo = {} /\ cur = NULL /\ spc = "idle"
  /\ lck = [t \in Thread |-> NULL]
  /\ pc = [t \in Thread |-> "out"]
  /\ wtime = [t \in Thread |-> 0]
  /\ timeout = [t \in Thread |-> FALSE]
  /\ done = [t \in Thread |-> FALSE]
  /\ removed = [t \in Thread |-> TRUE]

-----------------------------------------------------------------------------
(***************************************************************************)
(* set_absolute_time.                                                      *)
(***************************************************************************)
SetTime(x) ==
  /\ spc = "idle"
  /\ time' = x
  /\ spc' = "lock"
  /\ UNCHANGED <<setting, todo, cur, mtx, waits, lck, pc, flags>>

SetLock ==
  /\ spc = "lock" /\ mtx = NULL
  /\ mtx' = Setter /\ setting' = TRUE /\ todo' = waits
  /\ spc' = "scan"
  /\ UNCHANGED <<time, cur, waits, lck, pc, flags>>

\* One round of the loop: erase an entry that is done, or look at its time.
Scan(t) ==
  /\ spc = "scan" /\ t \in todo
  /\ todo' = todo \ {t}
  /\ IF done[t]
     THEN /\ removed' = [removed EXCEPT ![t] = TRUE]
          /\ waits' = waits \ {t}
          /\ UNCHANGED <<spc, cur>>
     ELSE /\ IF wtime[t] <= time /\ ~timeout[t]
             THEN spc' = "expire" /\ cur' = t
             ELSE UNCHANGED <<spc, cur>>
          /\ UNCHANGED <<removed, waits>>
  /\ UNCHANGED <<time, setting, mtx, lck, pc, wtime, timeout, done>>

\* Mutant: the waiter is not notified.
ExpireSilently ==
  /\ spc = "expire" /\ lck[cur] = NULL
  /\ timeout' = [timeout EXCEPT ![cur] = TRUE]
  /\ spc' = "scan" /\ cur' = NULL
  /\ UNCHANGED <<time, setting, todo, mtx, waits, lck, pc, wtime, done, removed>>

\* With passed_lock held: the flag is set and the condition broadcast.
Expire ==
  /\ spc = "expire" /\ lck[cur] = NULL
  /\ timeout' = [timeout EXCEPT ![cur] = TRUE]
  /\ pc' = [pc EXCEPT ![cur] = IF @ = "waiting" THEN "woken" ELSE @]
  /\ spc' = "scan" /\ cur' = NULL
  /\ UNCHANGED <<time, setting, todo, mtx, waits, lck, wtime, done, removed>>

SetDone ==
  /\ spc = "scan" /\ todo = {}
  /\ setting' = FALSE /\ mtx' = NULL
  /\ spc' = "idle"
  /\ UNCHANGED <<time, todo, cur, waits, lck, pc, flags>>

-----------------------------------------------------------------------------
(***************************************************************************)
(* cond_timedwait, called with the thread's own mutex held.                *)
(***************************************************************************)
Call(t) ==
  /\ pc[t] = "out" /\ lck[t] = NULL
  /\ lck' = [lck EXCEPT ![t] = t]
  /\ pc' = [pc EXCEPT ![t] = "call"]
  /\ UNCHANGED <<setterVars, mtx, waits, flags>>

Register(t, w) ==
  /\ pc[t] = "call" /\ mtx = NULL
  /\ IF w <= time
     THEN pc' = [pc EXCEPT ![t] = "return"] /\ UNCHANGED <<waits, flags>>
     ELSE /\ wtime' = [wtime EXCEPT ![t] = w]
          /\ timeout' = [timeout EXCEPT ![t] = FALSE]
          /\ done' = [done EXCEPT ![t] = FALSE]
          /\ removed' = [removed EXCEPT ![t] = FALSE]
          /\ waits' = IF removed[t] THEN waits \cup {t} ELSE waits
          /\ pc' = [pc EXCEPT ![t] = "armed"]
  /\ UNCHANGED <<setterVars, mtx, lck>>

\* pthread_cond_wait releases the mutex and sleeps in one step.
Sleep(t) ==
  /\ pc[t] = "armed"
  /\ lck' = [lck EXCEPT ![t] = NULL]
  /\ pc' = [pc EXCEPT ![t] = "waiting"]
  /\ UNCHANGED <<setterVars, mtx, waits, flags>>

\* Another thread posts the semaphore, or the wake-up is spurious.
Signal(t) ==
  /\ pc[t] = "waiting"
  /\ pc' = [pc EXCEPT ![t] = "woken"]
  /\ UNCHANGED <<setterVars, mtx, waits, lck, flags>>

Reacquire(t) ==
  /\ pc[t] = "woken" /\ lck[t] = NULL
  /\ lck' = [lck EXCEPT ![t] = t]
  /\ pc' = [pc EXCEPT ![t] = "held"]
  /\ UNCHANGED <<setterVars, mtx, waits, flags>>

MarkDone(t) ==
  /\ pc[t] = "held"
  /\ done' = [done EXCEPT ![t] = TRUE]
  /\ pc' = [pc EXCEPT ![t] = "check"]
  /\ UNCHANGED <<setterVars, mtx, waits, lck, wtime, timeout, removed>>

\* Mutant: set_absolute_time is not waited for.
CheckNothing(t) ==
  /\ pc[t] = "check"
  /\ pc' = [pc EXCEPT ![t] = "return"]
  /\ UNCHANGED <<setterVars, mtx, waits, lck, flags>>

\* Mutant: the thread waits for set_absolute_time with its mutex held.
CheckKeepsLock(t) ==
  /\ pc[t] = "check"
  /\ pc' = [pc EXCEPT ![t] = IF ~timeout[t] /\ setting THEN "sync" ELSE "return"]
  /\ UNCHANGED <<setterVars, mtx, waits, lck, flags>>

CheckSetting(t) ==
  /\ pc[t] = "check"
  /\ IF ~timeout[t] /\ setting
     THEN pc' = [pc EXCEPT ![t] = "sync"] /\ lck' = [lck EXCEPT ![t] = NULL]
     ELSE pc' = [pc EXCEPT ![t] = "return"] /\ UNCHANGED lck
  /\ UNCHANGED <<setterVars, mtx, waits, flags>>

Sync(t) ==
  /\ pc[t] = "sync" /\ mtx = NULL
  /\ pc' = [pc EXCEPT ![t] = "relock"]
  /\ UNCHANGED <<setterVars, mtx, waits, lck, flags>>

Relock(t) ==
  /\ pc[t] = "relock" /\ lck[t] = NULL
  /\ lck' = [lck EXCEPT ![t] = t]
  /\ pc' = [pc EXCEPT ![t] = "return"]
  /\ UNCHANGED <<setterVars, mtx, waits, flags>>

\* The caller unlocks its mutex; mutex and condition are destroyed.
Return(t) ==
  /\ pc[t] = "return"
  /\ lck' = [lck EXCEPT ![t] = NULL]
  /\ pc' = [pc EXCEPT ![t] = "out"]
  /\ UNCHANGED <<setterVars, mtx, waits, flags>>

-----------------------------------------------------------------------------
(***************************************************************************)
(* The end of a thread, normal or by pthread_cancel inside the wait (which *)
(* takes the mutex again): the destructor of the TimedWait.                *)
(***************************************************************************)
Cancel(t) ==
  /\ pc[t] = "waiting"
  /\ pc' = [pc EXCEPT ![t] = "cancelled"]
  /\ UNCHANGED <<setterVars, mtx, waits, lck, flags>>

CancelLocks(t) ==
  /\ pc[t] = "cancelled" /\ lck[t] = NULL
  /\ lck' = [lck EXCEPT ![t] = t]
  /\ pc' = [pc EXCEPT ![t] = "destruct"]
  /\ UNCHANGED <<setterVars, mtx, waits, flags>>

Unlock(t) ==
  /\ pc[t] = "destruct"
  /\ lck' = [lck EXCEPT ![t] = NULL]
  /\ pc' = [pc EXCEPT ![t] = "unlocked"]
  /\ UNCHANGED <<setterVars, mtx, waits, flags>>

MarkCancelled(t) ==
  /\ pc[t] = "unlocked"
  /\ done' = [done EXCEPT ![t] = TRUE]
  /\ pc' = [pc EXCEPT ![t] = "dying"]
  /\ UNCHANGED <<setterVars, mtx, waits, lck, wtime, timeout, removed>>

Finish(t) ==
  /\ pc[t] = "out"
  /\ pc' = [pc EXCEPT ![t] = "dying"]
  /\ UNCHANGED <<setterVars, mtx, waits, lck, flags>>

Exit(t) ==
  /\ pc[t] = "dying" /\ removed[t]
  /\ pc' = [pc EXCEPT ![t] = "exited"]
  /\ UNCHANGED <<setterVars, mtx, waits, lck, flags>>

-----------------------------------------------------------------------------
SetterStep == SetLock \/ SetDone \/ \E t \in Thread : Scan(t)

WaiterStep(t) ==
  \/ \E w \in 0..MaxTime + 1 : Register(t, w)
  \/ Sleep(t) \/ Reacquire(t) \/ MarkDone(t) \/ CheckSetting(t) \/ Sync(t)
  \/ Relock(t) \/ Return(t)
  \/ CancelLocks(t) \/ Unlock(t) \/ MarkCancelled(t) \/ Exit(t)

Next ==
  \/ \E x \in time..MaxTime : SetTime(x)
  \/ SetterStep \/ Expire
  \/ \E t \in Thread : \/ Call(t) \/ Signal(t) \/ Cancel(t) \/ Finish(t)
                       \/ WaiterStep(t)

Spec == Init /\ [][Next]_vars

(***************************************************************************)
(* A call of set_absolute_time and a call of cond_timedwait go on.  A      *)
(* mutex that is free again and again is eventually granted (SF).  Nobody  *)
(* is obliged to set the time, to wait, to post or to end a thread.        *)
(***************************************************************************)
Fairness ==
  /\ WF_vars(SetterStep) /\ SF_vars(SetLock) /\ SF_vars(Expire)
  /\ \A t \in Thread : SF_vars(WaiterStep(t))

FairSpec == Spec /\ Fairness

-----------------------------------------------------------------------------
(***************************************************************************)
(* set_absolute_time locks the mutex and broadcasts the condition of a     *)
(* waiter only while that wait lasts: a waiter woken in between does not   *)
(* return (and free them) until the pass is over, and a cancelled one does *)
(* not end before it has left the list.                                    *)
(***************************************************************************)
NoUseAfterReturn == spc = "expire" => pc[cur] \in InWait \cup {"dying"}

(***************************************************************************)
(* The list and the removed flags agree, so that no object is linked a     *)
(* second time and none is freed while it is linked: the TimedWait of a    *)
(* thread that has ended is not in the list.                               *)
(***************************************************************************)
ListIsSound ==
  /\ \A t \in Thread : removed[t] <=> t \notin waits
  /\ \A t \in waits : pc[t] # "exited"

(***************************************************************************)
(* No lock-order deadlock: whoever holds the mutex set_absolute_time wants *)
(* does not wait for the mutex set_absolute_time holds.                    *)
(***************************************************************************)
NoLockCycle ==
  spc = "expire" /\ lck[cur] # NULL => pc[lck[cur]] \notin {"call", "sync"}

(***************************************************************************)
(* Nobody sleeps past the deadline: when set_absolute_time has returned,   *)
(* every thread that still sleeps has a deadline in the future, also one   *)
(* that registered while the time was being set.                           *)
(***************************************************************************)
NoOversleep ==
  spc = "idle" => \A t \in Thread : pc[t] \in {"armed", "waiting"} => wtime[t] > time

(***************************************************************************)
(* A wait that reports ETIMEDOUT has reached its deadline; the flag is     *)
(* never one of an earlier wait of the same thread.                        *)
(***************************************************************************)
TimeoutIsDue ==
  \A t \in Thread : pc[t] \in InWait /\ timeout[t] => wtime[t] <= time

(***************************************************************************)
(* A thread whose deadline has come returns from its wait, or is           *)
(* cancelled.                                                              *)
(***************************************************************************)
SleepersWake ==
  \A t \in Thread :
    (pc[t] = "waiting" /\ wtime[t] <= time) ~> pc[t] \in {"return", "dying"}
=============================================================================
