---------------------------- MODULE LockstepProofs ----------------------------
(***************************************************************************)
(* Proofs about Lockstep for any number of threads and any times.          *)
(***************************************************************************)
EXTENDS Lockstep, TLAPS

\* Where a thread holds its own mutex.
Holding == {"call", "armed", "held", "check", "return", "destruct"}

\* Registered, and not yet marked as done.
Pending == {"armed", "waiting", "woken", "held", "cancelled", "destruct", "unlocked"}

\* The state of set_absolute_time.
SetterInv ==
  /\ mtx = (IF spc \in {"scan", "expire"} THEN Setter ELSE NULL)
  /\ setting <=> spc \in {"scan", "expire"}
  /\ cur # NULL <=> spc = "expire"
  /\ spc \in {"idle", "lock"} => todo = {}
  /\ todo \subseteq waits /\ cur \notin todo

(***************************************************************************)
(* The state of one thread.  The conjunct on cur is the heart of it: while *)
(* set_absolute_time is about to use a waiter's mutex, that waiter has not *)
(* returned and will first wait for the end of the pass.                   *)
(***************************************************************************)
ThreadInv(t) ==
  /\ lck[t] = (IF pc[t] \in Holding THEN t ELSE NULL)
  /\ removed[t] <=> t \notin waits
  /\ pc[t] \in Pending => ~done[t] /\ ~removed[t]
  /\ pc[t] \in {"check", "sync", "relock"} => done[t]
  /\ pc[t] \in {"out", "call", "return", "dying", "exited"} => done[t] \/ removed[t]
  /\ pc[t] = "exited" => removed[t]
  /\ cur = t => /\ pc[t] \in Pending \cup {"check", "sync", "dying"}
                /\ ~timeout[t] /\ ~removed[t] /\ wtime[t] <= time
  /\ pc[t] \in InWait /\ timeout[t] => wtime[t] <= time
  /\ pc[t] \in {"armed", "waiting"} => ~timeout[t]
  /\ pc[t] \in {"armed", "waiting"} /\ wtime[t] <= time =>
       spc = "lock" \/ t \in todo \/ cur = t

IInv == TypeOK /\ SetterInv /\ \A t \in Thread : ThreadInv(t)

-----------------------------------------------------------------------------
\* At the start nobody waits and the list is empty.
LEMMA Initially == Init => IInv
  <1> SUFFICES ASSUME Init PROVE IInv
    BY Zenon
  <1>1. TypeOK
    <2>1. 0 \in 0..MaxTime /\ 0 \in 0..MaxTime + 1
      BY LockstepConstants
    <2> QED BY <2>1, Zenon DEF Init, TypeOK
  <1>2. SetterInv
    BY Zenon DEF Init, SetterInv
  <1>3. ASSUME NEW t \in Thread PROVE ThreadInv(t)
    BY LockstepConstants, Zenon DEF Init, ThreadInv, Holding, Pending, InWait
  <1> QED BY <1>1, <1>2, <1>3, Zenon DEF IInv

\* The steps of set_absolute_time.
LEMMA SetterSteps ==
  ASSUME IInv, (\E x \in time..MaxTime : SetTime(x)) \/ SetterStep \/ Expire
  PROVE  IInv'
  <1> USE LockstepConstants
  <1>1. ASSUME NEW x \in time..MaxTime, SetTime(x) PROVE IInv'
    <2>1. TypeOK' BY <1>1 DEF IInv, TypeOK, SetTime, flags
    <2>2. SetterInv' BY <1>1, Zenon DEF IInv, SetterInv, SetTime, flags
    <2>3. ASSUME NEW t \in Thread PROVE ThreadInv(t)'
      <3>1. wtime[t] \in Nat /\ time \in Nat /\ x \in Nat /\ time <= x
        BY <1>1 DEF IInv, TypeOK
      <3>2. wtime[t] <= time => wtime[t] <= x
        BY <3>1
      <3> QED BY <1>1, <3>2, Zenon DEF IInv, ThreadInv, SetTime, flags, InWait, Pending
    <2> QED BY <2>1, <2>2, <2>3, Zenon DEF IInv
  <1>2. CASE SetLock
    <2>1. TypeOK' BY <1>2, Zenon DEF IInv, TypeOK, SetLock, flags
    <2>0. cur = NULL /\ cur' = NULL /\ waits \subseteq Thread /\ waits' = waits
      BY <1>2, Zenon DEF IInv, SetterInv, SetLock, TypeOK, flags
    <2>2. SetterInv' BY <1>2, <2>0, Zenon DEF SetterInv, SetLock
    <2>3. ASSUME NEW t \in Thread PROVE ThreadInv(t)'
      BY <1>2, Zenon DEF IInv, ThreadInv, SetterInv, SetLock, flags, InWait, Pending, TypeOK
    <2> QED BY <2>1, <2>2, <2>3, Zenon DEF IInv
  <1>3. CASE SetDone
    <2>1. TypeOK' BY <1>3, Zenon DEF IInv, TypeOK, SetDone, flags
    <2>2. SetterInv' BY <1>3, Zenon DEF IInv, SetterInv, SetDone, TypeOK
    <2>3. ASSUME NEW t \in Thread PROVE ThreadInv(t)'
      <3>1. spc = "scan" /\ todo = {} /\ cur = NULL /\ cur' = NULL /\ todo' = {}
        BY <1>3, Zenon DEF IInv, SetterInv, SetDone
      <3>2. UNCHANGED <<time, waits, lck, pc, wtime, timeout, done, removed>>
        BY <1>3, Zenon DEF SetDone, flags
      <3> QED BY <3>1, <3>2, Zenon DEF IInv, ThreadInv
    <2> QED BY <2>1, <2>2, <2>3, Zenon DEF IInv
  <1>4. ASSUME NEW s \in Thread, Scan(s) PROVE IInv'
    <2>1. TypeOK' BY <1>4, Zenon DEF IInv, TypeOK, Scan
    <2>2. SetterInv' BY <1>4, Zenon DEF IInv, SetterInv, Scan, TypeOK
    <2>3. ASSUME NEW t \in Thread PROVE ThreadInv(t)'
      <3>1. CASE t = s
        BY <1>4, <3>1 DEF IInv, ThreadInv, SetterInv, Scan, InWait, Pending, TypeOK
      <3>2. CASE t # s
        BY <1>4, <3>2 DEF IInv, ThreadInv, SetterInv, Scan, InWait, Pending, TypeOK
      <3> QED BY <3>1, <3>2, Zenon
    <2> QED BY <2>1, <2>2, <2>3, Zenon DEF IInv
  <1>5. CASE Expire
    <2>0. cur \in Thread
      BY <1>5, Zenon DEF IInv, SetterInv, TypeOK, Expire
    <2>1. TypeOK' BY <1>5, <2>0, Zenon DEF IInv, TypeOK, Expire, InWait
    <2>2. SetterInv' BY <1>5, Zenon DEF IInv, SetterInv, Expire, TypeOK
    <2>3. ASSUME NEW t \in Thread PROVE ThreadInv(t)'
      <3>1. CASE t = cur
        BY <1>5, <3>1 DEF IInv, ThreadInv, SetterInv, Expire, InWait, Pending, Holding, TypeOK
      <3>2. CASE t # cur
        BY <1>5, <3>2, <2>0 DEF IInv, ThreadInv, SetterInv, Expire, InWait, Pending, TypeOK
      <3> QED BY <3>1, <3>2, Zenon
    <2> QED BY <2>1, <2>2, <2>3, Zenon DEF IInv
  <1> QED BY <1>1, <1>2, <1>3, <1>4, <1>5, Zenon DEF SetterStep

\* The steps of a waiting thread other than the registration touch the mutex,
\* the position and the done flag of that thread alone.
LEMMA WaiterSteps ==
  ASSUME IInv, NEW s \in Thread,
         \/ Call(s) \/ Signal(s) \/ Cancel(s) \/ Finish(s)
         \/ Sleep(s) \/ Reacquire(s) \/ MarkDone(s) \/ CheckSetting(s) \/ Sync(s)
         \/ Relock(s) \/ Return(s) \/ CancelLocks(s) \/ Unlock(s) \/ MarkCancelled(s) \/ Exit(s)
  PROVE  IInv'
  <1> USE LockstepConstants
  <1>0. /\ UNCHANGED <<time, setting, spc, todo, cur, mtx, waits, wtime, timeout, removed>>
        /\ \E p \in InWait \cup {"out", "call", "return", "dying", "exited"} :
              pc' = [pc EXCEPT ![s] = p]
        /\ \E l \in {NULL, s} : lck' = [lck EXCEPT ![s] = l]
        /\ \E d \in BOOLEAN : done' = [done EXCEPT ![s] = d]
    <2>1. lck[s] \in {NULL, s} /\ lck = [lck EXCEPT ![s] = lck[s]]
      BY DEF IInv, TypeOK, ThreadInv
    <2>2. done[s] \in BOOLEAN /\ done = [done EXCEPT ![s] = done[s]]
      BY Zenon DEF IInv, TypeOK
    <2>3. CASE Call(s)
      BY <2>1, <2>2, <2>3, Zenon DEF Call, setterVars, flags, InWait
    <2>4. CASE Sleep(s)
      BY <2>1, <2>2, <2>4, Zenon DEF Sleep, setterVars, flags, InWait
    <2>5. CASE Signal(s)
      BY <2>1, <2>2, <2>5, Zenon DEF Signal, setterVars, flags, InWait
    <2>6. CASE Reacquire(s)
      BY <2>1, <2>2, <2>6, Zenon DEF Reacquire, setterVars, flags, InWait
    <2>7. CASE MarkDone(s)
      BY <2>1, <2>2, <2>7, Zenon DEF MarkDone, setterVars, flags, InWait
    <2>8. CASE CheckSetting(s)
      BY <2>1, <2>2, <2>8, Zenon DEF CheckSetting, setterVars, flags, InWait
    <2>9. CASE Sync(s)
      BY <2>1, <2>2, <2>9, Zenon DEF Sync, setterVars, flags, InWait
    <2>10. CASE Relock(s)
      BY <2>1, <2>2, <2>10, Zenon DEF Relock, setterVars, flags, InWait
    <2>11. CASE Return(s)
      BY <2>1, <2>2, <2>11, Zenon DEF Return, setterVars, flags, InWait
    <2>12. CASE Cancel(s)
      BY <2>1, <2>2, <2>12, Zenon DEF Cancel, setterVars, flags, InWait
    <2>13. CASE CancelLocks(s)
      BY <2>1, <2>2, <2>13, Zenon DEF CancelLocks, setterVars, flags, InWait
    <2>14. CASE Unlock(s)
      BY <2>1, <2>2, <2>14, Zenon DEF Unlock, setterVars, flags, InWait
    <2>15. CASE MarkCancelled(s)
      BY <2>1, <2>2, <2>15, Zenon DEF MarkCancelled, setterVars, flags, InWait
    <2>16. CASE Finish(s)
      BY <2>1, <2>2, <2>16, Zenon DEF Finish, setterVars, flags, InWait
    <2>17. CASE Exit(s)
      BY <2>1, <2>2, <2>17, Zenon DEF Exit, setterVars, flags, InWait
    <2> QED BY <2>3, <2>4, <2>5, <2>6, <2>7, <2>8, <2>9, <2>10, <2>11, <2>12, <2>13, <2>14, <2>15, <2>16, <2>17, Zenon
  <1>1. TypeOK'
    BY <1>0 DEF IInv, TypeOK
  <1>2. SetterInv'
    BY <1>0, Zenon DEF IInv, SetterInv
  <1>3. ASSUME NEW t \in Thread, t # s PROVE ThreadInv(t)'
    BY <1>0, <1>3 DEF IInv, ThreadInv, TypeOK
  <1>4. ThreadInv(s)'
    <2> USE DEF IInv, TypeOK, SetterInv, ThreadInv, Holding, Pending, InWait, setterVars, flags
    <2>1. CASE Call(s)
      BY <2>1, Zenon DEF Call
    <2>2. CASE Sleep(s)
      BY <2>2 DEF Sleep
    <2>3. CASE Signal(s)
      BY <2>3 DEF Signal
    <2>4. CASE Reacquire(s)
      BY <2>4, Zenon DEF Reacquire
    <2>5. CASE MarkDone(s)
      BY <2>5 DEF MarkDone
    <2>6. CASE CheckSetting(s)
      BY <2>6 DEF CheckSetting
    <2>7. CASE Sync(s)
      BY <2>7 DEF Sync
    <2>8. CASE Relock(s)
      BY <2>8, Zenon DEF Relock
    <2>9. CASE Return(s)
      BY <2>9 DEF Return
    <2>10. CASE Cancel(s)
      BY <2>10 DEF Cancel
    <2>11. CASE CancelLocks(s)
      BY <2>11, Zenon DEF CancelLocks
    <2>12. CASE Unlock(s)
      BY <2>12 DEF Unlock
    <2>13. CASE MarkCancelled(s)
      BY <2>13 DEF MarkCancelled
    <2>14. CASE Finish(s)
      BY <2>14 DEF Finish
    <2>15. CASE Exit(s)
      BY <2>15 DEF Exit
    <2> QED BY <2>1, <2>2, <2>3, <2>4, <2>5, <2>6, <2>7, <2>8, <2>9, <2>10, <2>11, <2>12, <2>13, <2>14, <2>15, Zenon
  <1> QED BY <1>1, <1>2, <1>3, <1>4, Zenon DEF IInv

\* The registration, which relies on the mutex: set_absolute_time is not in
\* the middle of a pass.
LEMMA RegisterStep ==
  ASSUME IInv, NEW s \in Thread, NEW w \in 0..MaxTime + 1, Register(s, w)
  PROVE  IInv'
  <1> USE LockstepConstants
  <1>0. spc \in {"idle", "lock"} /\ cur = NULL /\ todo = {} /\ ~setting
    BY Zenon DEF Register, IInv, SetterInv, TypeOK
  <1>1. w \in Nat /\ time \in Nat
    BY DEF IInv, TypeOK
  <1>2. TypeOK'
    <2>1. /\ pc' \in [Thread -> InWait \cup {"out", "call", "return", "dying", "exited"}]
          /\ waits' \subseteq Thread
      BY DEF Register, IInv, TypeOK, InWait
    <2>2. /\ wtime' \in [Thread -> 0..MaxTime + 1]
          /\ timeout' \in [Thread -> BOOLEAN] /\ done' \in [Thread -> BOOLEAN]
          /\ removed' \in [Thread -> BOOLEAN]
      <3>1. CASE w <= time
        BY <3>1, Zenon DEF Register, IInv, TypeOK, flags
      <3>2. CASE ~(w <= time)
        <4>1. /\ wtime' = [wtime EXCEPT ![s] = w] /\ timeout' = [timeout EXCEPT ![s] = FALSE]
              /\ done' = [done EXCEPT ![s] = FALSE] /\ removed' = [removed EXCEPT ![s] = FALSE]
          BY <3>2, Zenon DEF Register
        <4>2. wtime' \in [Thread -> 0..MaxTime + 1]
          BY <4>1, Zenon DEF IInv, TypeOK
        <4>3. timeout' \in [Thread -> BOOLEAN] /\ done' \in [Thread -> BOOLEAN]
              /\ removed' \in [Thread -> BOOLEAN]
          BY <4>1, Zenon DEF IInv, TypeOK
        <4> QED BY <4>2, <4>3, Zenon
      <3> QED BY <3>1, <3>2, Zenon
    <2> QED BY <2>1, <2>2, Zenon DEF Register, IInv, TypeOK, setterVars
  <1>3. SetterInv'
    BY <1>0, Zenon DEF Register, IInv, SetterInv, setterVars, flags
  <1>4. ASSUME NEW t \in Thread, t # s PROVE ThreadInv(t)'
    BY <1>4 DEF Register, IInv, ThreadInv, TypeOK, setterVars, flags
  <1>5. ThreadInv(s)'
    <2>1. CASE w <= time
      BY <2>1, <1>0 DEF Register, IInv, ThreadInv, TypeOK, Holding, Pending, InWait, setterVars, flags
    <2>2. CASE ~(w <= time)
      BY <2>2, <1>0 DEF Register, IInv, ThreadInv, TypeOK, Holding, Pending, InWait, setterVars, flags
    <2> QED BY <2>1, <2>2, Zenon
  <1> QED BY <1>2, <1>3, <1>4, <1>5, Zenon DEF IInv

(***************************************************************************)
(* The inductive invariant: what set_absolute_time and the waiters know of *)
(* each other while the list, the flags and the mutexes change hands.      *)
(***************************************************************************)
THEOREM Invariance == Spec => []IInv
  <1>1. IInv /\ UNCHANGED vars => IInv'
    BY DEF IInv, TypeOK, SetterInv, ThreadInv, vars, setterVars, flags
  <1>2. IInv /\ Next => IInv'
    BY SetterSteps, WaiterSteps, RegisterStep, Zenon DEF Next, WaiterStep
  <1> QED BY Initially, <1>1, <1>2, PTL DEF Spec

(***************************************************************************)
(* set_absolute_time never touches the mutex or the condition variable of  *)
(* a wait that has returned.                                               *)
(***************************************************************************)
THEOREM WaitersOutliveUse == Spec => []NoUseAfterReturn
  <1>1. IInv => NoUseAfterReturn
    BY Zenon DEF IInv, TypeOK, SetterInv, ThreadInv, NoUseAfterReturn, Pending, InWait
  <1> QED BY Invariance, <1>1, PTL

(***************************************************************************)
(* The intrusive list of TimedWait objects agrees with their removed       *)
(* flags and holds no object of a thread that has ended.                   *)
(***************************************************************************)
THEOREM WaitListIsSound == Spec => []ListIsSound
  <1>1. IInv => ListIsSound
    BY Zenon DEF IInv, TypeOK, ThreadInv, ListIsSound
  <1> QED BY Invariance, <1>1, PTL

(***************************************************************************)
(* The scheduler's mutex and a waiter's mutex are never awaited in a       *)
(* circle.                                                                 *)
(***************************************************************************)
THEOREM LocksAreOrdered == Spec => []NoLockCycle
  <1>1. IInv => NoLockCycle
    BY LockstepConstants, Zenon DEF IInv, TypeOK, SetterInv, ThreadInv, NoLockCycle, Holding, Pending
  <1> QED BY Invariance, <1>1, PTL

(***************************************************************************)
(* When set_absolute_time has returned, whoever still sleeps is not due.   *)
(***************************************************************************)
THEOREM NobodyOversleeps == Spec => []NoOversleep
  <1>1. IInv => NoOversleep
    <2> SUFFICES ASSUME IInv, spc = "idle", NEW t \in Thread, pc[t] \in {"armed", "waiting"}
                 PROVE  wtime[t] > time
      BY Zenon DEF NoOversleep
    <2>1. wtime[t] \in Nat /\ time \in Nat
      BY LockstepConstants DEF IInv, TypeOK
    <2>2. cur = NULL /\ todo = {}
      BY Zenon DEF IInv, SetterInv
    <2>3. ~(wtime[t] <= time)
      BY <2>2, LockstepConstants, Zenon DEF IInv, ThreadInv
    <2> QED BY <2>1, <2>3
  <1> QED BY Invariance, <1>1, PTL

(***************************************************************************)
(* A wait reports ETIMEDOUT only when its deadline has been reached.       *)
(***************************************************************************)
THEOREM TimeoutsAreDue == Spec => []TimeoutIsDue
  <1>1. IInv => TimeoutIsDue
    BY Zenon DEF IInv, ThreadInv, TimeoutIsDue
  <1> QED BY Invariance, <1>1, PTL
=============================================================================
