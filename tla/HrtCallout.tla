----------------------------- MODULE HrtCallout ------------------------------
(***************************************************************************)
(* The high resolution timer of the POSIX platform (drv_hrt.cpp) and the   *)
(* thread that stands in for its interrupt (hrt_thread.c).                 *)
(*                                                                         *)
(* Calls wait in a list that is ordered by deadline.  The thread sleeps in *)
(* px4_usleep until the work item _hrt_work is due, runs hrt_tim_isr,      *)
(* which makes the calls that are due with the lock released, and queues   *)
(* _hrt_work again.  Whoever puts a call at the head of the list queues    *)
(* _hrt_work anew and wakes the thread up with a signal.  A region between *)
(* hrt_lock and hrt_unlock is one step.                                    *)
(*                                                                         *)
(* sq_rem of an entry that is not in the list does nothing.  An entry that *)
(* is entered while it is in the list becomes its own successor, and the   *)
(* next walk along the list does not end, with the lock held: the model    *)
(* records that in `twice` and stops.                                      *)
(***************************************************************************)
EXTENDS Lists

CONSTANTS Entry,        \* the calls
          NoEntry,      \* no call
          Delays,       \* the delays that are asked for
          Periods,      \* the periods that are asked for
          MaxTime,      \* bound on the time
          MaxSleep,     \* the longest sleep of the thread (1 s)
          IntervalMin,  \* HRT_INTERVAL_MIN
          IntervalMax   \* HRT_INTERVAL_MAX

ASSUME NoEntryIsNone == NoEntry \notin Entry
ASSUME TimerConstants ==
  /\ Delays \subseteq Nat
  /\ Periods \subseteq Nat \ {0}
  /\ {MaxTime, MaxSleep, IntervalMin, IntervalMax} \subseteq Nat

VARIABLES now,          \* hrt_absolute_time, never 0
          deadline,     \* entry->deadline, 0 when the call is not to be made
          period,       \* entry->period
          callout_queue,
          expiry,       \* when _hrt_work is due, 0 when it is not queued
          tpc,          \* where the thread is
          call,         \* the entry it popped, or NoEntry
          base,         \* the deadline that entry had
          seen,         \* the time when it was popped
          wake,         \* the sleep it chose, then the time it ends
          missed,       \* a signal or time went by while the thread could not notice
          twice         \* an entry was entered while it was in the list

timerState == <<deadline, period, callout_queue, expiry, missed, twice>>
threadState == <<tpc, call, base, seen, wake>>
hrtVars == <<now, timerState, threadState>>

TimerTypeOK ==
  /\ now \in Nat \ {0}
  /\ deadline \in [Entry -> Nat]
  /\ period \in [Entry -> Nat]
  /\ callout_queue \in Seq(Entry)
  /\ expiry \in Nat
  /\ tpc \in {"scan", "unlocked", "asleep", "invoke", "callout", "called", "reschedule"}
  /\ call \in Entry \cup {NoEntry}
  /\ base \in Nat
  /\ seen \in Nat
  /\ wake \in Nat
  /\ missed \in BOOLEAN
  /\ twice \in BOOLEAN

TimerInit ==
  /\ now = 1
  /\ deadline = [e \in Entry |-> 0]
  /\ period = [e \in Entry |-> 0]
  /\ callout_queue = <<>>
  /\ expiry = 0
  /\ tpc = "scan"
  /\ call = NoEntry
  /\ base = 0
  /\ seen = 0
  /\ wake = 0
  /\ missed = FALSE
  /\ twice = FALSE

-----------------------------------------------------------------------------
Lesser(a, b) == IF a <= b THEN a ELSE b
Greater(a, b) == IF a <= b THEN b ELSE a

Queued == Members(callout_queue)

sq_rem(list, e) == Without(list, e)

\* hrt_call_enter: e goes before the first entry that is later.
Later(list, at, e) == {k \in 1..Len(list) : at[e] < at[list[k]]}
Place(list, at, e) ==
  LET later == Later(list, at, e)
  IN  IF later = {} THEN Len(list) + 1 ELSE CHOOSE k \in later : \A j \in later : k <= j
Enter(list, at, e) == With(list, Place(list, at, e), e)

\* hrt_call_reschedule: when _hrt_work is due.
Expiry(list, at) ==
  IF list = <<>> THEN now + IntervalMax
  ELSE Greater(now + IntervalMin, Lesser(at[Head(list)], now + IntervalMax))

(***************************************************************************)
(* hrt_work_queue signals the thread, unless the thread itself calls it.   *)
(* The signal ends a sleep, except under lockstep, where the sleep waits   *)
(* for a condition; a signal that comes before px4_usleep is lost.         *)
(***************************************************************************)
Signal ==
  \/ /\ tpc = "asleep"
     /\ tpc' = "scan" /\ wake' = 0
     /\ UNCHANGED missed
  \/ /\ missed' = (missed \/ tpc \in {"unlocked", "asleep"})
     /\ UNCHANGED <<tpc, wake>>

-----------------------------------------------------------------------------
\* Mutant: the thread is rescheduled only if the list was empty.
CallWhenEmpty(e, at, interval) ==
  LET rest == IF deadline[e] # 0 THEN sq_rem(callout_queue, e) ELSE callout_queue
  IN  /\ deadline' = [deadline EXCEPT ![e] = at]
      /\ period' = [period EXCEPT ![e] = interval]
      /\ callout_queue' = Enter(rest, deadline', e)
      /\ twice' = (e \in Members(rest))
      /\ IF rest = <<>>
         THEN expiry' = Expiry(callout_queue', deadline') /\ Signal
         ELSE UNCHANGED <<expiry, missed, tpc, wake>>
      /\ UNCHANGED <<now, call, base, seen>>

(***************************************************************************)
(* hrt_call_internal: the entry leaves the list if it has a deadline, is   *)
(* entered with the new one, and the thread is rescheduled if that made it *)
(* the first.                                                              *)
(***************************************************************************)
hrt_call_internal(e, at, interval) ==
  LET rest == IF deadline[e] # 0 THEN sq_rem(callout_queue, e) ELSE callout_queue
      first == rest = <<>> \/ at < deadline[Head(rest)]
  IN  /\ deadline' = [deadline EXCEPT ![e] = at]
      /\ period' = [period EXCEPT ![e] = interval]
      /\ callout_queue' = Enter(rest, deadline', e)
      /\ twice' = (e \in Members(rest))
      /\ IF first
         THEN expiry' = Expiry(callout_queue', deadline') /\ Signal
         ELSE UNCHANGED <<expiry, missed, tpc, wake>>
      /\ UNCHANGED <<now, call, base, seen>>

\* Mutant: the period of an earlier hrt_call_every stays.
AfterKeepsPeriod(e, delay) == hrt_call_internal(e, now + delay, period[e])

hrt_call_after(e, delay) == hrt_call_internal(e, now + delay, 0)

hrt_call_every(e, delay, interval) == hrt_call_internal(e, now + delay, interval)

hrt_cancel(e) ==
  /\ callout_queue' = sq_rem(callout_queue, e)
  /\ deadline' = [deadline EXCEPT ![e] = 0]
  /\ period' = [period EXCEPT ![e] = 0]
  /\ UNCHANGED <<now, expiry, missed, twice, threadState>>

-----------------------------------------------------------------------------
(***************************************************************************)
(* hrt_work_process: _hrt_work is taken from the work queue when it is     *)
(* due; otherwise the thread releases the lock and sleeps until it is, but *)
(* no longer than MaxSleep.                                                *)
(***************************************************************************)
Scan ==
  /\ tpc = "scan"
  /\ IF expiry # 0 /\ expiry <= now
     THEN tpc' = "invoke" /\ expiry' = 0 /\ wake' = 0
     ELSE /\ tpc' = "unlocked"
          /\ wake' = IF expiry = 0 THEN MaxSleep ELSE Lesser(MaxSleep, expiry - now)
          /\ UNCHANGED expiry
  /\ missed' = FALSE
  /\ UNCHANGED <<now, deadline, period, callout_queue, twice, call, base, seen>>

Sleep ==
  /\ tpc = "unlocked"
  /\ tpc' = "asleep"
  /\ wake' = now + wake
  /\ UNCHANGED <<now, timerState, call, base, seen>>

\* A sleep that would end after MaxTime ends then.
Wake ==
  /\ tpc = "asleep" /\ Lesser(wake, MaxTime) <= now
  /\ tpc' = "scan"
  /\ wake' = 0
  /\ UNCHANGED <<now, timerState, call, base, seen>>

Due == callout_queue # <<>> /\ deadline[Head(callout_queue)] <= now

\* hrt_call_invoke: the head of the list is due, or the loop ends.
Invoke ==
  /\ tpc = "invoke"
  /\ Due
  /\ call' = Head(callout_queue)
  /\ base' = deadline[call']
  /\ seen' = now
  /\ deadline' = [deadline EXCEPT ![call'] = 0]
  /\ callout_queue' = Tail(callout_queue)
  /\ tpc' = "callout"
  /\ UNCHANGED <<now, period, expiry, wake, missed, twice>>

InvokeNone ==
  /\ tpc = "invoke"
  /\ ~Due
  /\ tpc' = "reschedule"
  /\ UNCHANGED <<now, timerState, call, base, seen, wake>>

\* Mutant: the period counts from the time the callout returned.
ReenterFromNow ==
  /\ tpc = "called"
  /\ tpc' = "invoke"
  /\ call' = NoEntry
  /\ base' = 0
  /\ seen' = 0
  /\ IF period[call] = 0
     THEN UNCHANGED <<deadline, callout_queue, expiry, twice>>
     ELSE LET at == [deadline EXCEPT ![call] = IF @ <= seen THEN now + period[call] ELSE @]
              list == Enter(callout_queue, at, call)
          IN  /\ twice' = (call \in Queued)
              /\ deadline' = at
              /\ callout_queue' = list
              /\ expiry' = IF Head(list) = call THEN Expiry(list, at) ELSE expiry
  /\ UNCHANGED <<now, period, missed, wake>>

\* The callout returned: the lock is taken again and a repeating call entered.
Reenter ==
  /\ tpc = "called"
  /\ tpc' = "invoke"
  /\ call' = NoEntry
  /\ base' = 0
  /\ seen' = 0
  /\ IF period[call] = 0
     THEN UNCHANGED <<deadline, callout_queue, expiry, twice>>
     ELSE LET at == [deadline EXCEPT ![call] = IF @ <= seen THEN base + period[call] ELSE @]
              list == Enter(callout_queue, at, call)
          IN  /\ twice' = (call \in Queued)
              /\ deadline' = at
              /\ callout_queue' = list
              /\ expiry' = IF Head(list) = call THEN Expiry(list, at) ELSE expiry
  /\ UNCHANGED <<now, period, missed, wake>>

\* Mutant: the interrupt handler does not schedule the next interrupt.
RescheduleNot ==
  /\ tpc = "reschedule"
  /\ tpc' = "scan"
  /\ UNCHANGED <<now, timerState, call, base, seen, wake>>

Reschedule ==
  /\ tpc = "reschedule"
  /\ expiry' = Expiry(callout_queue, deadline)
  /\ tpc' = "scan"
  /\ UNCHANGED <<now, deadline, period, callout_queue, missed, twice, call, base, seen, wake>>

Tick ==
  /\ now < MaxTime
  /\ now' = now + 1
  /\ missed' = (missed \/ tpc = "unlocked")
  /\ UNCHANGED <<deadline, period, callout_queue, expiry, twice, threadState>>

-----------------------------------------------------------------------------
(***************************************************************************)
(* The thread never sleeps past the first deadline, although calls are     *)
(* entered while it decides how long to sleep: it sleeps until the first   *)
(* call is due, or a signal is on its way to it.  The exception is a       *)
(* signal that came between hrt_work_unlock and px4_usleep, or during a    *)
(* sleep under lockstep; and time that passed between those two, since the *)
(* length of the sleep is relative.                                        *)
(***************************************************************************)
SleepsUntilDue ==
  tpc = "asleep" /\ ~missed /\ callout_queue # <<>>
     => wake <= Greater(now + IntervalMin, deadline[Head(callout_queue)])

(***************************************************************************)
(* The hrt implements Timer.  While a repeating call is being made its     *)
(* next deadline is the one it will be entered with.                       *)
(***************************************************************************)
Pending ==
  [e \in Entry |-> IF call = e /\ deadline[e] = 0 /\ period[e] # 0
                   THEN base + period[e] ELSE deadline[e]]

Promise == INSTANCE Timer WITH time <- now, pending <- Pending, every <- period, calling <- call

(***************************************************************************)
(* The hrt keeps what Timer promises: no call early, none out of order,    *)
(* none after it was cancelled, and no drift: when a callout returns,      *)
(* however late, the next deadline is the one promised when it began.      *)
(***************************************************************************)
TimerSpec == Promise!Spec
=============================================================================
