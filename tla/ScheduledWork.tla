---------------------------- MODULE ScheduledWork ----------------------------
(***************************************************************************)
(* ScheduledWorkItems: the hrt and a work queue together.  Each item has   *)
(* an hrt entry whose callout is schedule_trampoline; the thread of the    *)
(* hrt is one of the callers of ScheduleNow.  The destructor of an item    *)
(* cancels its entry and then leaves the queue.                            *)
(***************************************************************************)
EXTENDS WorkQueue, HrtCallout

CONSTANTS Timer,        \* the thread of the hrt
          Starts        \* the delays before the first of repeating calls

ASSUME TimerIsCaller == Timer \in Caller
ASSUME StartsAreTimes == Starts \subseteq Nat
ASSUME ItemsHaveEntries == Entry = Item /\ NoEntry = NULL

VARIABLES dying,        \* items whose destructor has cancelled their entry
          overtaken,    \* of those, the ones cancelled during their callout
          rearmed       \* an item was put on an interval during this callout

itemLife == <<dying, overtaken, rearmed>>
allVars == <<vars, hrtVars, itemLife>>

SInit == /\ Init /\ TimerInit
         /\ dying = {} /\ overtaken = {} /\ rearmed = FALSE

\* The methods of an item are called while the item exists.
Alive(i) == opc[i] = "in" /\ i \notin dying

ScheduleDelayed(i, delay) ==
  /\ Alive(i)
  /\ hrt_call_after(i, delay)
  /\ UNCHANGED <<vars, itemLife>>

ScheduleOnInterval(i, interval, delay) ==
  /\ Alive(i)
  /\ hrt_call_every(i, delay, interval)
  /\ rearmed' = (rearmed \/ call = i)
  /\ UNCHANGED <<vars, dying, overtaken>>

ScheduleClear(i) ==
  /\ Alive(i)
  /\ hrt_cancel(i)
  /\ UNCHANGED <<vars, itemLife>>

\* ~ScheduledWorkItem; ~WorkItem goes on with Deinit.
Destruct(i) ==
  /\ Alive(i) /\ i \in leaving
  /\ hrt_cancel(i)
  /\ dying' = dying \cup {i}
  /\ overtaken' = overtaken \cup ({i} \cap {call})
  /\ UNCHANGED <<vars, rearmed>>

\* The callout: ScheduleNow on the item, which returns at once when _wq is null.
schedule_trampoline ==
  /\ tpc = "callout"
  /\ tpc' = "called"
  /\ IF wq[call] THEN ScheduleNow(Timer, call) ELSE UNCHANGED vars
  /\ UNCHANGED <<now, timerState, call, base, seen, wake, itemLife>>

\* The callout returns when its ScheduleNow is done.
Return ==
  /\ cpc[Timer] = "idle"
  /\ Reenter
  /\ rearmed' = (rearmed /\ twice')
  /\ UNCHANGED <<vars, dying, overtaken>>

TimerThread ==
  /\ ~twice
  /\ \/ schedule_trampoline
     \/ CallerStep(Timer) /\ UNCHANGED <<hrtVars, itemLife>>
     \/ Return
     \/ /\ Scan \/ Sleep \/ Wake \/ Invoke \/ InvokeNone \/ Reschedule
        /\ UNCHANGED <<vars, itemLife>>

WorkerThread == ~twice /\ WorkerStep /\ UNCHANGED <<hrtVars, itemLife>>

\* An item is constructed (again) and attached.
Construct(i) ==
  /\ Attach(i)
  /\ dying' = dying \ {i}
  /\ overtaken' = overtaken \ {i}
  /\ UNCHANGED <<hrtVars, rearmed>>

\* ~WorkItem.
Leave ==
  /\ (\E i \in dying : Deinit(i)) \/ (\E i \in Item : OwnerStep(i))
  /\ UNCHANGED <<hrtVars, itemLife>>

Time == ~twice /\ Tick /\ UNCHANGED <<vars, itemLife>>

\* The list of the hrt is no longer one, or the work queue is gone.
Over == (twice \/ wpc = "destroyed") /\ UNCHANGED allVars

Use ==
  /\ ~twice
  /\ \/ \E i \in Item, d \in Delays : ScheduleDelayed(i, d)
     \/ \E i \in Item, d \in Starts, p \in Periods : ScheduleOnInterval(i, p, d)
     \/ \E i \in Item : ScheduleClear(i) \/ Destruct(i) \/ Construct(i)
     \/ Leave

SNext == Use \/ TimerThread \/ WorkerThread \/ Time \/ Over

SSpec == SInit /\ [][SNext]_allVars

(***************************************************************************)
(* The thread of the hrt gets its lock and goes on, time passes, and the   *)
(* threads inside a call of the work queue go on.  Nobody is obliged to    *)
(* schedule, clear or destroy anything.                                    *)
(***************************************************************************)
SFairness ==
  /\ WF_allVars(TimerThread)
  /\ WF_allVars(WorkerThread)
  /\ WF_allVars(Time)

FairSSpec == SSpec /\ SFairness

-----------------------------------------------------------------------------
(***************************************************************************)
(* An entry gets into the list twice, and the list is ruined, only if some *)
(* thread called ScheduleOnInterval on an item whose periodic callout was  *)
(* being made: hrt_call_invoke enters it once more when the callout is     *)
(* back.  ScheduleDelayed, ScheduleClear and the destructor are safe then, *)
(* and ScheduleOnInterval is at any other time.                            *)
(***************************************************************************)
TwiceIsRearmed == twice => rearmed

(***************************************************************************)
(* Deinit clears _wq to "prevent additional insertions" and then removes   *)
(* any queued work.  An item that has left is on the queue again only if   *)
(* its callout had begun when the destructor cancelled it: a ScheduleNow   *)
(* that tested _wq before it was cleared inserts the item after Remove.    *)
(***************************************************************************)
DeinitEmptiesQueue ==
  \A i \in Item : opc[i] = "out" /\ i \in Reached(q) => i \in overtaken

InFlight(i) == call = i \/ citem[Timer] = i \/ i \in Reached(q)

DueInTime(i) == deadline[i] # 0 /\ deadline[i] <= MaxTime

(***************************************************************************)
(* An item that is scheduled runs: its deadline is met by the hrt, its     *)
(* callout puts it on the queue, and the worker runs it; unless it is      *)
(* cleared or scheduled for later before the callout.  Other items may     *)
(* leave the queue meanwhile.                                              *)
(***************************************************************************)
ScheduledItemRuns ==
  \A i \in Item \ UNION Leaving :
     DueInTime(i)
       ~> \/ wpc = "run" /\ running = i
          \/ ~InFlight(i) /\ ~DueInTime(i)
          \/ twice
=============================================================================
