--------------------------- MODULE CommanderProofs ---------------------------
(***************************************************************************)
(* Proofs about the two state machines of the commander.                   *)
(*                                                                         *)
(* Arming: three unlocked threads write the same two flags and one state   *)
(* in two steps; the inductive invariant says that as long as their        *)
(* transitions did not overlap at most one of them is changing anything,   *)
(* that the transition it is making is still a legal one, and what is      *)
(* written and not yet written of it.                                      *)
(*                                                                         *)
(* NavState, for every setup of the failsafe actions, every set of         *)
(* requested modes and every way the estimates degrade: each helper of     *)
(* set_nav_state gets a lemma that says what its result may be, in the     *)
(* three terms the properties need, whether a mode that needs a global     *)
(* position was chosen without one, whether a mode that needs a pilot was  *)
(* chosen without one, and who set the lockdown.                           *)
(***************************************************************************)
EXTENDS Arming, NavState, TLAPS


Goal == {"INIT", "STANDBY", "ARMED", "SHUTDOWN"}

Agree == (armed <=> arming = "ARMED") /\ (ready <=> arming \in {"ARMED", "STANDBY"})

Alone == \A t, u \in Thread : Busy(t) /\ Busy(u) => t = u

Pending(t) ==
  /\ stage[t] # "out" => goal[t] # arming /\ LegalStep(arming, goal[t])
  /\ stage[t] = "granted" => Agree \/ (arming = "IN_AIR_RESTORE" /\ goal[t] = "ARMED")
  /\ stage[t] = "written" => /\ (armed <=> goal[t] = "ARMED")
                              /\ (ready <=> goal[t] \in {"ARMED", "STANDBY"})

Serial ==
  /\ Alone
  /\ \A t \in Thread : Pending(t)
  /\ (\A t \in Thread : ~Busy(t)) => Agree /\ arming # "IN_AIR_RESTORE"
  /\ phase["main"] = "restore" => arming = "IN_AIR_RESTORE"

IInv ==
  /\ TypeOK
  /\ sensors
  /\ arming # "STANDBY_ERROR"
  /\ \A t \in Thread : goal[t] \in Goal
  /\ \A t \in Thread : phase[t] = "restore" => t = "main" /\ stage[t] = "out"
  /\ ~overlapped => Serial

-----------------------------------------------------------------------------
\* At the start the vehicle is disarmed, in INIT, and nobody changes it.
LEMMA Initially == Init => IInv
  <1> SUFFICES ASSUME Init PROVE IInv
    BY Zenon
  <1> USE ShellsAssumption
  <1>1. TypeOK
    BY Zenon DEF Init, TypeOK, ArmingState, Thread, Phase, MainPhase, LowPhase, Stage
  <1>2. \A t \in Thread : ~Busy(t) /\ Pending(t) /\ goal[t] = "INIT" /\ phase[t] # "restore"
    BY Zenon DEF Init, Busy, Pending, Thread
  <1>3. Serial
    BY <1>2, Zenon DEF Init, Serial, Alone, Agree, Thread
  <1> QED BY <1>1, <1>2, <1>3, Zenon DEF IInv, Init, Goal

(***************************************************************************)
(* The checks of a transition: a thread that is granted one is the only    *)
(* one changing anything, and what it was granted is legal.                *)
(***************************************************************************)
LEMMA CheckStep ==
  ASSUME IInv, NEW t \in Thread, NEW new \in Goal, NEW run \in BOOLEAN,
         NEW done \in Phase \ {"restore"}, NEW denied \in Phase \ {"restore"},
         stage[t] = "out", phase[t] = "restore" => new = "ARMED",
         Check(t, new, run, done, denied)
  PROVE  IInv'
  <1> DEFINE others == \E u \in Thread \ {t} : Busy(u)
  <1>0. /\ overlapped' = (overlapped \/ others)
        /\ UNCHANGED <<armed, ready, calibrating, hil>>
        /\ TypeOK /\ sensors
    BY Zenon DEF Check, IInv
  <1>1. CASE new = arming
    <2>1. /\ phase' = [phase EXCEPT ![t] = done]
          /\ UNCHANGED <<stage, arming, sensors, goal>>
      BY <1>1, Zenon DEF Check, Goto
    <2>2. phase[t] # "restore" \/ overlapped
      BY <1>1, Zenon DEF IInv, Serial, Thread
    <2>3. TypeOK'
      BY <1>0, <2>1, Zenon DEF TypeOK
    <2>4. ASSUME ~overlapped' PROVE Serial'
      <3>1. Serial BY <2>4, <1>0, Zenon DEF IInv
      <3>2. \A u \in Thread : Busy(u)' <=> Busy(u)
        BY <1>0, <2>1, <2>2, <2>4, Zenon DEF Busy, TypeOK
      <3>3. \A u \in Thread : Pending(u)'
        BY <1>0, <2>1, <3>1, Zenon DEF Serial, Pending, LegalStep, Agree
      <3> QED BY <1>0, <2>1, <3>1, <3>2, <3>3, Zenon DEF Serial, Alone, Agree, TypeOK, Thread
    <2> QED BY <1>0, <2>1, <2>3, <2>4, Zenon DEF IInv, TypeOK
  <1>2. CASE new # arming
    <2>1. PICK preflight, prearm, retry \in BOOLEAN :
            LET ok == SensorsAfter(new, run, preflight, retry) IN
            /\ sensors' = ok
            /\ arming' = IF hil /\ arming = "STANDBY_ERROR" THEN "STANDBY" ELSE arming
            /\ IF Granted(new, run, preflight, prearm, ok)
               THEN /\ phase' = [phase EXCEPT ![t] = done]
                    /\ stage' = [stage EXCEPT ![t] = "granted"]
                    /\ goal' = [goal EXCEPT ![t] = new]
               ELSE Goto(t, denied) /\ UNCHANGED goal
      BY <1>2, Zenon DEF Check
    <2> DEFINE granted == Granted(new, run, preflight, prearm, SensorsAfter(new, run, preflight, retry))
    <2>2. arming' = arming /\ arming \in ArmingState
      BY <2>1, Zenon DEF IInv, TypeOK
    <2>3. SensorsAfter(new, run, preflight, retry) <=> TRUE
      BY <1>0, Zenon DEF SensorsAfter
    <2>4. sensors' = TRUE
      BY <2>1, <2>3, <1>0, Zenon DEF SensorsAfter, TypeOK
    <2>5. granted /\ (arming # "IN_AIR_RESTORE" \/ new = "ARMED") => LegalStep(arming, new)
      BY <1>2, <2>2, Zenon DEF Granted, arming_transitions, LegalStep, Goal, IInv, ArmingState
    <2>6. phase[t] = "restore" /\ ~overlapped => granted
      BY <2>2, Zenon DEF Granted, arming_transitions, IInv, Serial, Thread
    <2>7. CASE granted
      <3>1. /\ phase' = [phase EXCEPT ![t] = done]
            /\ stage' = [stage EXCEPT ![t] = "granted"]
            /\ goal' = [goal EXCEPT ![t] = new]
        BY <2>1, <2>7, Zenon
      <3>2. TypeOK'
        BY <1>0, <2>2, <2>4, <3>1, Zenon DEF TypeOK, Stage, Goal, ArmingState
      <3>3. ASSUME ~overlapped' PROVE Serial'
        <4>1. Serial /\ ~others BY <3>3, <1>0, Zenon DEF IInv
        <4>2. \A u \in Thread : Busy(u)' <=> u = t
          BY <4>1, <3>1, <1>0, Zenon DEF Busy, TypeOK
        <4>3. \/ Agree /\ arming # "IN_AIR_RESTORE"
              \/ arming = "IN_AIR_RESTORE" /\ new = "ARMED"
          <5>1. CASE Busy(t)
            BY <5>1, <4>1, Zenon DEF Busy, Serial, IInv, Thread
          <5>2. CASE ~Busy(t)
            BY <5>2, <4>1, Zenon DEF Serial
          <5> QED BY <5>1, <5>2, Zenon
        <4>4. \A u \in Thread \ {t} : stage'[u] = "out"
          BY <4>1, <3>1, <1>0, Zenon DEF Busy, TypeOK
        <4>5. Agree => Agree'
          BY <1>0, <2>2, Zenon DEF Agree
        <4>6. Pending(t)'
          <5>1. LegalStep(arming, new) BY <2>5, <2>7, <4>3, Zenon
          <5>3. goal'[t] = new /\ stage'[t] = "granted" BY <1>0, <3>1, Zenon DEF TypeOK
          <5>2. LegalStep(arming, goal[t])' BY <5>1, <5>3, <2>2, <1>0, Zenon DEF LegalStep
          <5> QED BY <1>2, <2>2, <4>3, <4>5, <5>2, <5>3, Zenon DEF Pending
        <4>7. \A u \in Thread : Pending(u)'
          BY <4>4, <4>6, Zenon DEF Pending
        <4>8. phase'["main"] # "restore"
          BY <4>1, <3>1, <1>0, Zenon DEF Busy, TypeOK, Thread
        <4> QED BY <4>2, <4>7, <4>8, Zenon DEF Serial, Alone
      <3> QED BY <1>0, <2>2, <2>4, <3>1, <3>2, <3>3, Zenon DEF IInv, TypeOK
    <2>8. CASE ~granted
      <3>1. /\ phase' = [phase EXCEPT ![t] = denied]
            /\ UNCHANGED <<stage, goal>>
        BY <2>1, <2>8, Zenon DEF Goto
      <3>2. TypeOK'
        BY <1>0, <2>2, <2>4, <3>1, Zenon DEF TypeOK
      <3>3. ASSUME ~overlapped' PROVE Serial'
        <4>1. Serial BY <3>3, <1>0, Zenon DEF IInv
        <4>2. phase[t] # "restore" BY <2>6, <2>8, <3>3, <1>0, Zenon
        <4>3. \A u \in Thread : Busy(u)' <=> Busy(u)
          BY <1>0, <3>1, <4>2, Zenon DEF Busy, TypeOK
        <4>4. \A u \in Thread : Pending(u)'
          BY <1>0, <2>2, <3>1, <4>1, Zenon DEF Serial, Pending, LegalStep, Agree
        <4> QED BY <1>0, <2>2, <3>1, <4>1, <4>3, <4>4, Zenon DEF Serial, Alone, Agree, TypeOK, Thread
      <3> QED BY <1>0, <2>2, <2>4, <3>1, <3>2, <3>3, Zenon DEF IInv, TypeOK
    <2> QED BY <2>7, <2>8, Zenon
  <1> QED BY <1>1, <1>2, Zenon

\* The two writes of a granted transition.
LEMMA TransitStep ==
  ASSUME IInv, NEW t \in Thread, Transit(t)
  PROVE  IInv'
  <1>1. CASE WriteArmed(t)
    <2>1. /\ stage[t] = "granted" /\ stage' = [stage EXCEPT ![t] = "written"]
          /\ armed' = (goal[t] = "ARMED") /\ ready' = (goal[t] \in {"ARMED", "STANDBY"})
          /\ UNCHANGED <<arming, sensors, calibrating, hil, phase, goal, overlapped>>
          /\ TypeOK
      BY <1>1, Zenon DEF WriteArmed, IInv
    <2>2. TypeOK'
      BY <2>1 DEF TypeOK, Stage
    <2>3. ASSUME ~overlapped' PROVE Serial'
      <3>1. Serial BY <2>1, <2>3, Zenon DEF IInv
      <3>2. \A u \in Thread : Busy(u)' <=> Busy(u)
        BY <2>1, Zenon DEF Busy, TypeOK
      <3>3. Busy(t) BY <2>1, Zenon DEF Busy
      <3>4. \A u \in Thread \ {t} : stage'[u] = "out"
        BY <2>1, <3>1, <3>3, Zenon DEF Serial, Alone, Busy, TypeOK
      <3>5. Pending(t)'
        <4>1. stage'[t] = "written" /\ goal'[t] = goal[t] BY <2>1, Zenon DEF TypeOK
        <4>2. goal[t] # arming /\ LegalStep(arming, goal[t]) BY <2>1, <3>1, Zenon DEF Serial, Pending
        <4>3. LegalStep(arming, goal[t])' BY <2>1, <4>2, Zenon DEF LegalStep
        <4>4. (armed' <=> goal[t] = "ARMED") /\ (ready' <=> goal[t] \in {"ARMED", "STANDBY"})
          BY <2>1, Zenon
        <4>5. goal'[t] # arming' BY <2>1, <4>1, <4>2, Zenon
        <4>6. (armed' <=> goal'[t] = "ARMED") /\ (ready' <=> goal'[t] \in {"ARMED", "STANDBY"})
          BY <4>1, <4>4, Zenon
        <4>7. stage'[t] # "granted" BY <4>1, Zenon
        <4> QED BY <4>3, <4>5, <4>6, <4>7, Zenon DEF Pending
      <3>6. \A u \in Thread : Pending(u)'
        BY <3>4, <3>5, Zenon DEF Pending
      <3> QED BY <2>1, <3>1, <3>2, <3>3, <3>6, Zenon DEF Serial, Alone
    <2> QED BY <2>1, <2>2, <2>3, Zenon DEF IInv, TypeOK
  <1>2. CASE WriteState(t)
    <2>1. /\ stage[t] = "written" /\ stage' = [stage EXCEPT ![t] = "out"]
          /\ arming' = goal[t]
          /\ UNCHANGED <<armed, ready, sensors, calibrating, hil, phase, goal, overlapped>>
          /\ TypeOK
      BY <1>2, Zenon DEF WriteState, IInv
    <2>2. TypeOK'
      BY <2>1, Zenon DEF TypeOK, Stage
    <2>3. goal[t] \in Goal
      BY Zenon DEF IInv
    <2>4. ASSUME ~overlapped' PROVE Serial'
      <3>1. Serial BY <2>1, <2>4, Zenon DEF IInv
      <3>2. Busy(t) BY <2>1, Zenon DEF Busy
      <3>3. phase[t] # "restore" BY <2>1, Zenon DEF IInv
      <3>4. \A u \in Thread : ~Busy(u)' /\ stage'[u] = "out"
        BY <2>1, <3>1, <3>2, <3>3, Zenon DEF Serial, Alone, Busy, TypeOK
      <3>5. \A u \in Thread : Pending(u)'
        BY <3>4, Zenon DEF Pending
      <3>6. Agree'
        <4>1. (armed <=> goal[t] = "ARMED") /\ (ready <=> goal[t] \in {"ARMED", "STANDBY"})
          <5>1. Pending(t) BY <3>1, Zenon DEF Serial
          <5> QED BY <2>1, <5>1, Zenon DEF Pending
        <4>2. armed' = armed /\ ready' = ready /\ arming' = goal[t] BY <2>1, Zenon
        <4> QED BY <4>1, <4>2, Zenon DEF Agree
      <3> QED BY <2>1, <2>3, <3>4, <3>5, <3>6, Zenon DEF Serial, Alone, Goal, Busy, Thread
    <2> QED BY <2>1, <2>2, <2>3, <2>4, Zenon DEF IInv, TypeOK, Goal
  <1> QED BY <1>1, <1>2, Zenon DEF Transit

\* A step that only moves a thread on, out of any transition.
LEMMA MoveStep ==
  ASSUME IInv, NEW t \in Thread, NEW p \in Phase \ {"restore"},
         phase[t] # "restore", Goto(t, p), sensors' = TRUE, calibrating' \in BOOLEAN,
         UNCHANGED <<arming, armed, ready, hil, goal, overlapped>>
  PROVE  IInv'
  <1>1. phase' = [phase EXCEPT ![t] = p] /\ UNCHANGED stage
    BY Zenon DEF Goto
  <1>2. TypeOK'
    BY <1>1, Zenon DEF IInv, TypeOK
  <1>3. ASSUME ~overlapped' PROVE Serial'
    <2>1. Serial BY <1>3, Zenon DEF IInv
    <2>2. \A u \in Thread : Busy(u)' <=> Busy(u)
      BY <1>1, Zenon DEF Busy, IInv, TypeOK
    <2>3. \A u \in Thread : Pending(u)'
      BY <1>1, <2>1, Zenon DEF Serial, Pending, LegalStep, Agree
    <2> QED BY <1>1, <2>1, <2>2, <2>3, Zenon DEF Serial, Alone, Agree, IInv, TypeOK, Thread
  <1> QED BY <1>1, <1>2, <1>3, Zenon DEF IInv, TypeOK

\* The flick to IN_AIR_RESTORE.
LEMMA FlickStep ==
  ASSUME IInv, Flick
  PROVE  IInv'
  <1>1. /\ phase["main"] = "command" /\ stage["main"] = "out"
        /\ arming' = "IN_AIR_RESTORE"
        /\ phase' = [phase EXCEPT !["main"] = "restore"]
        /\ overlapped' = (overlapped \/ \E u \in Thread \ {"main"} : Busy(u))
        /\ UNCHANGED <<armed, ready, sensors, calibrating, hil, stage, goal>>
        /\ TypeOK /\ "main" \in Thread
    BY Zenon DEF Flick, Goto, At, IInv, Thread
  <1>2. TypeOK'
    BY <1>1, Zenon DEF TypeOK, Phase, MainPhase, ArmingState
  <1>3. ASSUME ~overlapped' PROVE Serial'
    <2>1. \A u \in Thread : stage'[u] = "out" /\ (Busy(u)' <=> u = "main")
      BY <1>1, <1>3, Zenon DEF Busy, TypeOK
    <2>2. \A u \in Thread : Pending(u)'
      BY <2>1, Zenon DEF Pending
    <2> QED BY <1>1, <2>1, <2>2 DEF Serial, Alone
  <1> QED BY <1>1, <1>2, <1>3, Zenon DEF IInv, TypeOK

\* Every step of every thread preserves the invariant.
LEMMA NextStep == IInv /\ [Next]_vars => IInv'
  <1> SUFFICES ASSUME IInv, [Next]_vars PROVE IInv'
    BY Zenon
  <1>0. "main" \in Thread /\ "low" \in Thread /\ Shells \subseteq Thread
    BY Zenon DEF Thread
  <1>1. ASSUME NEW p \in MainPhase PROVE NextPhase(p) \in Phase \ {"restore"}
    BY <1>1, Zenon DEF NextPhase, Phase, MainPhase
  <1>2. ASSUME NEW p \in MainPhase \ {"restore"}, Skip(p) PROVE IInv'
    BY <1>0, <1>1, <1>2, MoveStep, Zenon DEF Skip, At, IInv, TypeOK
  <1>3. ASSUME NEW p \in MainPhase, NEW new \in Goal, NEW run \in BOOLEAN,
               At("main", p), p = "restore" => new = "ARMED", MainCall(p, new, run)
        PROVE  IInv'
    BY <1>0, <1>1, <1>3, CheckStep, Zenon DEF MainCall, At
  <1>4. ASSUME NEW p \in {"usb", "battery"}, Shutdown(p) PROVE IInv'
    <2>1. p \in MainPhase /\ p # "restore" /\ "down" \in Phase \ {"restore"} /\ "SHUTDOWN" \in Goal
      BY Zenon DEF MainPhase, Phase, Goal
    <2>2. CASE Check("main", "SHUTDOWN", FALSE, "down", NextPhase(p))
      BY <1>0, <1>1, <1>4, <2>1, <2>2, CheckStep, Zenon DEF Shutdown, At
    <2>3. CASE MainCall(p, "SHUTDOWN", FALSE)
      BY <1>3, <1>4, <2>1, <2>3, Zenon DEF Shutdown
    <2> QED BY <1>4, <2>2, <2>3, Zenon DEF Shutdown
  <1>5. CASE Main
    <2> USE DEF MainPhase, Goal
    <2>1. CASE SafetyDisarm BY <1>3, <2>1, Zenon DEF SafetyDisarm
    <2>2. CASE AutoDisarm
      <3>1. CASE MainCall("auto", "STANDBY", TRUE) BY <1>3, <2>2, <3>1, Zenon DEF AutoDisarm
      <3>2. CASE Check("main", "STANDBY", TRUE, "kill", "kill")
        <4>1. "kill" \in Phase \ {"restore"} BY Zenon DEF Phase
        <4> QED BY <1>0, <2>2, <3>2, <4>1, CheckStep, Zenon DEF AutoDisarm, At
      <3> QED BY <2>2, <3>1, <3>2, Zenon DEF AutoDisarm
    <2>0. CASE KillDisarm BY <1>3, <2>0, Zenon DEF KillDisarm
    <2>3. CASE Promote BY <1>2, <1>3, <2>3, Zenon DEF Promote
    <2>4. CASE RcDisarm BY <1>3, <2>4, Zenon DEF RcDisarm
    <2>5. CASE RcArm
      <3>1. PICK grace \in BOOLEAN : MainCall("rc", "ARMED", ~grace) BY <2>5, Zenon DEF RcArm
      <3>2. (~grace) \in BOOLEAN BY <3>1, Zenon
      <3> QED BY <1>3, <2>5, <3>1, <3>2, Zenon DEF RcArm
    <2>6. CASE ArmCommand BY <1>3, <2>6, Zenon DEF ArmCommand
    <2>7. CASE Restore BY <1>3, <2>7, Zenon DEF Restore
    <2>8. CASE Transit("main") BY <1>0, <2>8, TransitStep, Zenon
    <2>9. CASE \E p \in {"usb", "safety", "auto", "battery", "rc", "command"} : Skip(p)
      BY <1>2, <2>9, Zenon
    <2> QED BY <1>4, <1>5, <2>0, <2>1, <2>2, <2>3, <2>4, <2>5, <2>6, <2>7, <2>8, <2>9, FlickStep, Zenon
            DEF Main
  <1>6. CASE Low
    <2> USE DEF LowPhase, Phase, Goal
    <2>1. CASE CalibrationCommand
      BY <1>0, <2>1, CheckStep, Zenon DEF CalibrationCommand, At
    <2>2. CASE EnableCalibration
      BY <1>0, <2>2, MoveStep, Zenon DEF EnableCalibration, At, IInv, TypeOK
    <2>3. CASE TemperatureCalibration
      BY <1>0, <2>3, MoveStep, Zenon DEF TemperatureCalibration, At, IInv, TypeOK
    <2>4. CASE Calibrate
      BY <1>0, <2>4, MoveStep, Zenon DEF Calibrate, At, IInv, TypeOK
    <2>5. CASE Verify
      <3>1. sensors' = TRUE BY <2>5, Zenon DEF Verify, IInv, TypeOK
      <3> QED BY <1>0, <2>5, <3>1, MoveStep, Zenon DEF Verify, At, IInv, TypeOK
    <2>6. CASE RequestStandby
      BY <1>0, <2>6, CheckStep, Zenon DEF RequestStandby, At
    <2>7. CASE Transit("low") BY <1>0, <2>7, TransitStep, Zenon
    <2> QED BY <1>6, <2>1, <2>2, <2>3, <2>4, <2>5, <2>6, <2>7, Zenon DEF Low
  <1>7. ASSUME NEW t \in Shells, ShellCommand(t) PROVE IInv'
    <2> USE DEF Phase, Goal
    <2>1. ASSUME NEW forced \in BOOLEAN, Check(t, "ARMED", ~forced, "prompt", "prompt") PROVE IInv'
      <3>1. (~forced) \in BOOLEAN BY <2>1, Zenon
      <3> QED BY <1>0, <1>7, <2>1, <3>1, CheckStep, Zenon DEF ShellCommand, At
    <2>2. CASE Check(t, "STANDBY", TRUE, "prompt", "prompt")
      BY <1>0, <1>7, <2>2, CheckStep, Zenon DEF ShellCommand, At
    <2> QED BY <1>7, <2>1, <2>2, Zenon DEF ShellCommand
  <1>8. ASSUME NEW t \in Shells, Transit(t) PROVE IInv'
    BY <1>0, <1>8, TransitStep, Zenon
  <1>9. CASE UNCHANGED vars
    BY <1>9, Zenon DEF vars, IInv, TypeOK, Serial, Alone, Pending, Agree, LegalStep, Busy
  <1> QED BY <1>5, <1>6, <1>7, <1>8, <1>9, Zenon DEF Next

\* The invariant holds for any number of shells.
THEOREM Invariance == Spec => []IInv
  BY Initially, NextStep, PTL DEF Spec

(***************************************************************************)
(* As long as no two transitions overlapped, armed.armed and ready_to_arm  *)
(* follow status.arming_state, with any number of shells.                  *)
(***************************************************************************)
THEOREM FlagsFollowState == Spec => []ArmedAgrees
  <1>1. IInv => ArmedAgrees
    BY Zenon DEF IInv, Serial, Agree, ArmedAgrees
  <1> QED BY <1>1, Invariance, PTL

\* No check may deny the disarming of an armed vehicle.
THEOREM ArmedCanDisarm == Spec => []DisarmIsGranted
  <1>1. IInv => DisarmIsGranted
    <2> SUFFICES ASSUME IInv, arming = "ARMED", NEW run \in BOOLEAN, NEW retry \in BOOLEAN
                 PROVE  Granted("STANDBY", run, TRUE, TRUE, SensorsAfter("STANDBY", run, TRUE, retry))
      BY Zenon DEF DisarmIsGranted
    <2>1. SensorsAfter("STANDBY", run, TRUE, retry)
      BY Zenon DEF IInv, SensorsAfter
    <2> QED BY <2>1, Zenon DEF Granted, arming_transitions
  <1> QED BY <1>1, Invariance, PTL

\* The checks of a transition leave the arming state alone.
LEMMA CheckKeepsState ==
  ASSUME IInv, NEW t, NEW new, NEW run, NEW done, NEW denied, Check(t, new, run, done, denied)
  PROVE  arming' = arming
  <1>1. arming # "STANDBY_ERROR" BY Zenon DEF IInv
  <1> QED BY <1>1, Zenon DEF Check

(***************************************************************************)
(* As long as no two transitions overlapped, a transition is legal in the  *)
(* state it is written in, not only in the one it was granted in.          *)
(***************************************************************************)
THEOREM StepsAreLegal == Spec => LegalSteps
  <1> DEFINE Step == ~overlapped' => LegalStep(arming, arming')
  <1>1. ASSUME IInv, [Next]_vars PROVE [Step]_arming
    <2> USE <1>1
    <2>1. ASSUME NEW t \in Thread, Transit(t) PROVE [Step]_arming
      <3>1. CASE WriteArmed(t) BY <3>1, Zenon DEF WriteArmed
      <3>2. CASE WriteState(t)
        <4>1. arming' = goal[t] /\ overlapped' = overlapped /\ stage[t] = "written"
          BY <3>2, Zenon DEF WriteState
        <4>2. ~overlapped => Pending(t) BY Zenon DEF IInv, Serial
        <4>3. ~overlapped => LegalStep(arming, goal[t]) BY <4>1, <4>2, Zenon DEF Pending
        <4> QED BY <4>1, <4>3, Zenon
      <3> QED BY <2>1, <3>1, <3>2, Zenon DEF Transit
    <2>2. CASE Flick BY <2>2, Zenon DEF Flick, LegalStep
    <2>3. CASE Main
      <3>1. CASE \E p \in {"usb", "safety", "auto", "battery", "rc", "command"} : Skip(p)
        BY <3>1, Zenon DEF Skip
      <3>2. CASE Shutdown("usb") \/ Shutdown("battery")
        BY <3>2, CheckKeepsState, Zenon DEF Shutdown, MainCall
      <3>3. CASE SafetyDisarm \/ AutoDisarm \/ KillDisarm \/ RcDisarm \/ RcArm \/ ArmCommand \/ Restore
        BY <3>3, CheckKeepsState, Zenon
           DEF SafetyDisarm, AutoDisarm, KillDisarm, RcDisarm, RcArm, ArmCommand, Restore, MainCall
      <3>4. CASE Promote
        BY <3>4, CheckKeepsState, Zenon DEF Promote, MainCall, Skip
      <3>5. CASE Transit("main") BY <3>5, <2>1, Zenon DEF Thread
      <3> QED BY <2>2, <2>3, <3>1, <3>2, <3>3, <3>4, <3>5, Zenon DEF Main
    <2>4. CASE Low
      <3>1. CASE CalibrationCommand \/ RequestStandby
        BY <3>1, CheckKeepsState, Zenon DEF CalibrationCommand, RequestStandby
      <3>2. CASE Transit("low") BY <3>2, <2>1, Zenon DEF Thread
      <3> QED BY <2>4, <3>1, <3>2, Zenon
              DEF Low, EnableCalibration, TemperatureCalibration, Calibrate, Verify
    <2>5. ASSUME NEW t \in Shells, ShellCommand(t) PROVE [Step]_arming
      BY <2>5, CheckKeepsState, Zenon DEF ShellCommand
    <2>6. ASSUME NEW t \in Shells, Transit(t) PROVE [Step]_arming
      BY <2>1, <2>6, Zenon DEF Thread
    <2>7. CASE UNCHANGED vars BY <2>7, Zenon DEF vars
    <2> QED BY <2>3, <2>4, <2>5, <2>6, <2>7, Zenon DEF Next
  <1> QED BY <1>1, Invariance, PTL DEF Spec, LegalSteps

-----------------------------------------------------------------------------
(* The navigation state. *)

Result == [nav : Nav, main : MainState, failsafe : BOOLEAN, force : BOOLEAN, lockdown : BOOLEAN]

Acts == {config.rcl, config.dll, config.obl, config.obl_rc}

\* The strengthening: a lockdown nobody ordered was set by a failsafe that will reset it.
LockdownHasCause == lockdown /\ "lockdown" \notin ordered => failsafe /\ "LOCKDOWN" \in Acts

NavInv == NavTypeOK /\ LockdownHasCause /\ NavHasPosition /\ SticksHavePilot /\ OrbitIsAbandoned

\* Mode n needs no pilot, and no global position that is missing.
ChoosesAuto(n) == (n \in GlobalNav => gpos) /\ n \notin StickNav

\* What a link-loss action that chooses a mode makes of r.
Chosen(r, s) ==
  /\ s \in Result
  /\ s.main \in {r.main, "AUTO_RTL"}
  /\ ChoosesAuto(s.nav)
  /\ s.lockdown = r.lockdown

-----------------------------------------------------------------------------
(* The setters of the record: what each changes and what it leaves alone. *)

\* Choosing a mode leaves the rest of the result alone.
LEMMA GoResult ==
  ASSUME NEW r \in Result, NEW n \in Nav
  PROVE  /\ Go(r, n) \in Result
         /\ Go(r, n).nav = n /\ Go(r, n).main = r.main
         /\ Go(r, n).lockdown = r.lockdown /\ Go(r, n).failsafe = r.failsafe
  BY Zenon DEF Go, Result

\* Entering the failsafe leaves the rest of the result alone.
LEMMA FailResult ==
  ASSUME NEW r \in Result
  PROVE  /\ Fail(r) \in Result
         /\ Fail(r).nav = r.nav /\ Fail(r).main = r.main
         /\ Fail(r).lockdown = r.lockdown /\ Fail(r).failsafe = TRUE
  BY Zenon DEF Fail, Result

\* Termination forces the failsafe and leaves the lockdown alone.
LEMMA TerminateResult ==
  ASSUME NEW r \in Result
  PROVE  /\ Terminate(r) \in Result
         /\ Terminate(r).nav = "TERMINATION" /\ Terminate(r).main = r.main
         /\ Terminate(r).lockdown = r.lockdown
  BY Zenon DEF Terminate, Result, Nav

\* Only this setter raises the lockdown.
LEMMA LockResult ==
  ASSUME NEW r \in Result
  PROVE  /\ Lock(r) \in Result
         /\ Lock(r).nav = r.nav /\ Lock(r).main = r.main
         /\ Lock(r).lockdown = TRUE
  BY Zenon DEF Lock, Result

-----------------------------------------------------------------------------
\* check_invalid_pos_nav_state: the fallback is a failsafe, to a mode that needs no global position.
LEMMA FallbackResult ==
  ASSUME NEW r \in Result, NEW use_rc \in BOOLEAN
  PROVE  /\ PosFallback(r, use_rc) \in Result
         /\ PosFallback(r, use_rc).failsafe = TRUE
         /\ PosFallback(r, use_rc).main = r.main
         /\ PosFallback(r, use_rc).lockdown = r.lockdown
         /\ PosFallback(r, use_rc).nav \notin GlobalNav
         /\ ~use_rc => PosFallback(r, use_rc).nav \notin StickNav
  <1>1. PICK n \in {"POSCTL", "ALTCTL", "STAB", "AUTO_LAND", "DESCEND", "AUTO_LANDGPSFAIL", "TERMINATION"} :
          /\ PosFallback(r, use_rc) = Fail(Go(r, n))
          /\ ~use_rc => n \notin {"POSCTL", "ALTCTL", "STAB"}
    BY Zenon DEF PosFallback, Descend
  <1>2. n \in Nav /\ n \notin GlobalNav /\ (~use_rc => n \notin StickNav)
    BY <1>1, Zenon DEF Nav, MainState, ManualMain, GlobalNav, StickNav
  <1>3. /\ Go(r, n) \in Result
        /\ Go(r, n).nav = n /\ Go(r, n).main = r.main /\ Go(r, n).lockdown = r.lockdown
    BY <1>2, GoResult, Zenon
  <1>4. /\ Fail(Go(r, n)) \in Result /\ Fail(Go(r, n)).failsafe = TRUE
        /\ Fail(Go(r, n)).nav = n /\ Fail(Go(r, n)).main = r.main
        /\ Fail(Go(r, n)).lockdown = r.lockdown
    BY <1>3, FailResult, Zenon
  <1> QED BY <1>1, <1>2, <1>4, Zenon

\* set_link_loss_nav_state: a mode is chosen unless the action is DISABLED or LOCKDOWN.
LEMMA LinkLossResult ==
  ASSUME NEW r \in Result, NEW act \in LinkLossAct, NEW recovery \in {"AUTO_RCRECOVER", "AUTO_RTGS"}
  PROVE  /\ LinkLoss(r, act, recovery) \in Result
         /\ LinkLoss(r, act, recovery).main \in {r.main, "AUTO_RTL"}
         /\ act \notin {"DISABLED", "LOCKDOWN"} =>
              ChoosesAuto(LinkLoss(r, act, recovery).nav)
         /\ act \in {"DISABLED", "LOCKDOWN"} => LinkLoss(r, act, recovery).nav = r.nav
         /\ (act = "LOCKDOWN" => LinkLoss(r, act, recovery).lockdown)
         /\ (act # "LOCKDOWN" => LinkLoss(r, act, recovery).lockdown = r.lockdown)
  <1> DEFINE s == LinkLoss(r, act, recovery)
             Rtl == [Go(r, "AUTO_RTL") EXCEPT !.main = "AUTO_RTL"]
             Flown == {"AUTO_LAND", "AUTO_LANDGPSFAIL", "DESCEND"}
  <1>1. CASE act = "DISABLED"
    BY <1>1, Zenon DEF LinkLoss
  <1>2. CASE act = "LOCKDOWN"
    BY <1>2, LockResult, Zenon DEF LinkLoss
  <1>3. CASE act \notin {"DISABLED", "LOCKDOWN"}
    <2>1. \/ homing /\ s = Go(r, recovery)
          \/ homing /\ s = Rtl
          \/ gpos /\ s = Go(r, "AUTO_LOITER")
          \/ \E n \in Flown : s = Go(r, n)
          \/ s = Terminate(r)
      BY <1>3, Zenon DEF LinkLoss, LinkLossAct
    <2>2. homing => gpos
      BY Zenon DEF homing, gpos
    <2>3. \A n \in Nav : ChoosesAuto(n) => Chosen(r, Go(r, n))
      BY GoResult, Zenon DEF Chosen
    <2>4. recovery \in Nav /\ Flown \subseteq Nav /\ "AUTO_LOITER" \in Nav /\ "AUTO_RTL" \in Nav
      BY Zenon DEF Nav, MainState
    <2>5. /\ \A n \in Flown \cup {"TERMINATION"} : ChoosesAuto(n)
          /\ gpos => ChoosesAuto(recovery) /\ ChoosesAuto("AUTO_LOITER") /\ ChoosesAuto("AUTO_RTL")
      BY Zenon DEF ChoosesAuto, GlobalNav, StickNav, ManualMain
    <2>6. gpos => Chosen(r, Rtl)
      <3>1. Rtl \in Result /\ Rtl.nav = "AUTO_RTL" /\ Rtl.main = "AUTO_RTL" /\ Rtl.lockdown = r.lockdown
        BY <2>4, GoResult, Zenon DEF Result, MainState
      <3> QED BY <3>1, <2>5, Zenon DEF Chosen
    <2>7. Chosen(r, Terminate(r))
      BY <2>5, TerminateResult, Zenon DEF Chosen
    <2>8. Chosen(r, s)
      BY <2>1, <2>2, <2>3, <2>4, <2>5, <2>6, <2>7, Zenon
    <2> QED BY <1>3, <2>8, Zenon DEF Chosen
  <1> QED BY <1>1, <1>2, <1>3, Zenon

(***************************************************************************)
(* The offboard-loss actions: stick modes are chosen only by the MANUAL    *)
(* actions, which need RC.                                                 *)
(***************************************************************************)
LEMMA OffboardLossResult ==
  ASSUME NEW r \in Result, NEW act \in OffbLossAct \cup OffbLossRcAct
  PROVE  /\ OffboardLoss(r, act) \in Result
         /\ OffboardLoss(r, act).main = r.main
         /\ act \notin {"DISABLED", "LOCKDOWN"} => (OffboardLoss(r, act).nav \in GlobalNav => gpos)
         /\ act \in OffbLossAct \ {"DISABLED", "LOCKDOWN"} => OffboardLoss(r, act).nav \notin StickNav
         /\ (act = "LOCKDOWN" => OffboardLoss(r, act).lockdown)
         /\ (act # "LOCKDOWN" => OffboardLoss(r, act).lockdown = r.lockdown)
  <1> DEFINE s == OffboardLoss(r, act)
             Manual == {"MANUAL_POSITION", "MANUAL_ALTITUDE", "MANUAL_ATTITUDE"}
             Sticks == {"POSCTL", "ALTCTL", "MANUAL"}
             Flown == {"AUTO_LAND", "AUTO_LANDGPSFAIL", "DESCEND", "TERMINATION"}
             Global == {"AUTO_RTL", "AUTO_LOITER"}
  <1>1. CASE act = "DISABLED"
    BY <1>1, Zenon DEF OffboardLoss
  <1>2. CASE act = "LOCKDOWN"
    BY <1>2, LockResult, Zenon DEF OffboardLoss
  <1>3. CASE act = "TERMINATE"
    BY <1>3, TerminateResult, Zenon DEF OffboardLoss, GlobalNav, StickNav, ManualMain
  <1>4. CASE act \notin {"DISABLED", "LOCKDOWN", "TERMINATE"}
    <2>0. \/ act \in Manual /\ \E n \in Sticks : s = Go(r, n)
          \/ gpos /\ \E n \in Global : s = Go(r, n)
          \/ \E n \in Flown : s = Go(r, n)
      <3>1. CASE act \in Manual
        BY <3>1, Zenon DEF OffboardLoss
      <3>2. CASE act \in {"AUTO_RTL", "AUTO_LOITER", "AUTO_LAND"}
        BY <3>2, Zenon DEF OffboardLoss, Descend, homing, gpos
      <3> QED BY <1>4, <3>1, <3>2, Zenon DEF OffbLossAct, OffbLossRcAct
    <2>1. PICK n \in Sticks \cup Flown \cup Global :
            /\ s = Go(r, n)
            /\ n \in Sticks => act \in Manual
            /\ n \in Global => gpos
      BY <2>0, Zenon
    <2>2. n \in Nav /\ (n \in GlobalNav => n \in Global) /\ (n \in StickNav => n \in Sticks)
      BY <2>1, Zenon DEF Nav, MainState, ManualMain, GlobalNav, StickNav
    <2>3. Manual \cap OffbLossAct = {}
      BY Zenon DEF OffbLossAct
    <2> QED BY <1>4, <2>1, <2>2, <2>3, GoResult
  <1> QED BY <1>1, <1>2, <1>3, <1>4, Zenon

-----------------------------------------------------------------------------
(***************************************************************************)
(* The cases of set_nav_state.  Sound(r, s): s is what the properties ask  *)
(* of an evaluation that starts from r.                                    *)
(***************************************************************************)
Sound(r, s) ==
  /\ s \in Result
  /\ is_armed /\ s.nav \in GlobalNav =>
       gpos \/ s.lockdown \/ (s.main = "OFFBOARD" /\ "DISABLED" \in {config.obl, config.obl_rc})
  /\ is_armed /\ rc_lost /\ s.nav \in StickNav =>
       s.lockdown \/ stay \/ (s.main = "OFFBOARD" /\ config.obl = "DISABLED")
  /\ s.lockdown => r.lockdown \/ (s.failsafe /\ "LOCKDOWN" \in Acts)

\* A lost link, where a disabled action leaves nothing to correct.
LEMMA LossSound ==
  ASSUME NavTypeOK, NEW r \in Result, NEW act \in LinkLossAct,
         NEW recovery \in {"AUTO_RCRECOVER", "AUTO_RTGS"},
         act \in Acts, act # "DISABLED" \/ (gpos /\ ~rc_lost)
  PROVE  /\ Sound(r, Fail(LinkLoss(r, act, recovery)))
         /\ Fail(LinkLoss(r, act, recovery)).main \in {r.main, "AUTO_RTL"}
         /\ Fail(LinkLoss(r, act, recovery)).failsafe = TRUE
  <1> DEFINE l == LinkLoss(r, act, recovery)
  <1>1. l \in Result /\ l.main \in {r.main, "AUTO_RTL"}
    BY LinkLossResult, Zenon
  <1>6. act # "LOCKDOWN" => l.lockdown = r.lockdown
    BY LinkLossResult
  <1>7. act \notin {"DISABLED", "LOCKDOWN"} => ChoosesAuto(l.nav)
    BY LinkLossResult, Zenon
  <1>2. /\ Fail(l) \in Result /\ Fail(l).failsafe = TRUE
        /\ Fail(l).main = l.main /\ Fail(l).nav = l.nav /\ Fail(l).lockdown = l.lockdown
    BY <1>1, FailResult, Zenon
  <1>3. CASE act = "DISABLED"
    <2>1. l.lockdown = r.lockdown
      BY <1>3, <1>6, Zenon
    <2> QED BY <1>1, <1>2, <1>3, <2>1, Zenon DEF Sound
  <1>4. CASE act = "LOCKDOWN"
    BY <1>1, <1>2, <1>4, LinkLossResult, Zenon DEF Sound
  <1>5. CASE act \notin {"DISABLED", "LOCKDOWN"}
    <2>1. l.lockdown = r.lockdown /\ ChoosesAuto(l.nav)
      BY <1>5, <1>6, <1>7, Zenon
    <2> QED BY <1>1, <1>2, <2>1, Zenon DEF Sound, ChoosesAuto
  <1> QED BY <1>3, <1>4, <1>5, Zenon

\* A mode that flies by itself is sound where its position is known.
LEMMA GoSound ==
  ASSUME NavTypeOK, NEW r \in Result, NEW n \in Nav,
         is_armed => ChoosesAuto(n) \/ (~rc_lost /\ n \notin GlobalNav)
  PROVE  Sound(r, Go(r, n)) /\ Go(r, n).main = r.main /\ Go(r, n).failsafe = r.failsafe
  BY GoResult DEF Sound, ChoosesAuto

\* The position checks of set_nav_state keep the promises.
LEMMA FallbackSound ==
  ASSUME NavTypeOK, NEW r \in Result, NEW use_rc \in BOOLEAN, use_rc => ~rc_lost
  PROVE  Sound(r, PosFallback(r, use_rc)) /\ PosFallback(r, use_rc).main = r.main
  BY FallbackResult, Zenon DEF Sound

\* The automatic modes that only need a position keep the promises.
LEMMA AutoModeSound ==
  ASSUME NavTypeOK, NEW r \in Result, NEW mode \in MainState \ StickNav, NEW using_global_pos \in BOOLEAN,
         mode \in GlobalNav => using_global_pos
  PROVE  Sound(r, AutoMode(r, mode, using_global_pos)) /\ AutoMode(r, mode, using_global_pos).main = r.main
  <1>1. CASE env.fault = "engine"
    <2>1. "AUTO_LANDENGFAIL" \in Nav /\ ChoosesAuto("AUTO_LANDENGFAIL")
      BY Zenon DEF Nav, ChoosesAuto, GlobalNav, StickNav, ManualMain
    <2>2. AutoMode(r, mode, using_global_pos) = Go(r, "AUTO_LANDENGFAIL")
      BY <1>1, Zenon DEF AutoMode
    <2> QED BY <2>1, <2>2, GoSound, Zenon
  <1>2. CASE env.fault # "engine" /\ is_armed /\ PosInvalid(using_global_pos)
    <2>1. AutoMode(r, mode, using_global_pos) = PosFallback(r, FALSE)
      BY <1>2, Zenon DEF AutoMode
    <2> QED BY <2>1, FallbackSound, Zenon
  <1>3. CASE env.fault # "engine" /\ ~(is_armed /\ PosInvalid(using_global_pos))
    <2>1. AutoMode(r, mode, using_global_pos) = Go(r, mode)
      BY <1>3, Zenon DEF AutoMode
    <2>2. mode \in Nav /\ (is_armed => ChoosesAuto(mode))
      BY <1>3, Zenon DEF Nav, PosInvalid, ChoosesAuto
    <2> QED BY <2>1, <2>2, GoSound, Zenon
  <1> QED BY <1>1, <1>2, <1>3, Zenon

\* The failsafe actions are of their types.
LEMMA ConfigType ==
  ASSUME NavTypeOK
  PROVE  /\ config.rcl \in LinkLossAct /\ config.dll \in LinkLossAct
         /\ config.obl \in OffbLossAct /\ config.obl_rc \in OffbLossRcAct
         /\ config.land_terminate \in BOOLEAN /\ config.rotary \in BOOLEAN
  BY NavConstants, Zenon DEF NavTypeOK, Config

\* RcLoss and DlLoss, the lost links as set_nav_state handles them.
LEMMA LinksSound ==
  ASSUME NavTypeOK, NEW r \in Result
  PROVE  /\ config.rcl # "DISABLED" \/ (gpos /\ ~rc_lost) =>
              Sound(r, RcLoss(r)) /\ RcLoss(r).main \in {r.main, "AUTO_RTL"}
         /\ config.dll # "DISABLED" =>
              Sound(r, DlLoss(r)) /\ DlLoss(r).main \in {r.main, "AUTO_RTL"}
  BY ConfigType, LossSound, Zenon DEF RcLoss, DlLoss, Acts

\* The cases AUTO_LOITER and ORBIT keep the promises.
LEMMA HoldModeSound ==
  ASSUME NavTypeOK, NEW r \in Result, NEW mode \in {"AUTO_LOITER", "ORBIT"}
  PROVE  Sound(r, HoldMode(r, mode)) /\ HoldMode(r, mode).main \in {r.main, "AUTO_RTL"}
  <1>1. CASE env.fault = "engine" \/ (is_armed /\ PosInvalid(TRUE))
    <2>1. mode \in MainState \ StickNav
      BY Zenon DEF MainState, StickNav, ManualMain
    <2> QED BY <1>1, <2>1, AutoModeSound, Zenon DEF HoldMode
  <1>2. CASE ~(env.fault = "engine" \/ (is_armed /\ PosInvalid(TRUE)))
    <2>1. CASE dl_lost /\ env.flight # "landed" /\ is_armed
      BY <1>2, <2>1, LinksSound, Zenon DEF HoldMode, dl_lost
    <2>2. CASE ~(dl_lost /\ env.flight # "landed" /\ is_armed)
               /\ rc_lost /\ config.dll = "DISABLED" /\ is_armed
      BY <1>2, <2>2, LinksSound, Zenon DEF HoldMode, rc_lost
    <2>3. CASE ~(dl_lost /\ env.flight # "landed" /\ is_armed)
               /\ ~(rc_lost /\ config.dll = "DISABLED" /\ is_armed)
      <3>1. mode \in Nav /\ (is_armed => ChoosesAuto(mode))
        BY <1>2, Zenon DEF Nav, MainState, PosInvalid, ChoosesAuto, StickNav, ManualMain
      <3>2. HoldMode(r, mode) = Go(r, mode)
        BY <1>2, <2>3, Zenon DEF HoldMode
      <3> QED BY <3>1, <3>2, GoSound, Zenon
    <2> QED BY <2>1, <2>2, <2>3, Zenon
  <1> QED BY <1>1, <1>2, Zenon

\* The orbit: the same, and whatever interrupts it changes the main state.
LEMMA OrbitModeSound ==
  ASSUME NavTypeOK, NEW r \in Result, r.main = "ORBIT"
  PROVE  Sound(r, OrbitMode(r)) /\ (OrbitMode(r).failsafe => OrbitMode(r).main # "ORBIT")
  <1> DEFINE s == HoldMode(r, "ORBIT")
             p == [s EXCEPT !.main = "POSCTL"]
  <1>1. Sound(r, s) /\ s.main # "OFFBOARD" /\ s \in Result
    BY HoldModeSound, Zenon DEF Sound
  <1>2. CASE s.nav = "ORBIT" /\ ~s.failsafe
    BY <1>1, <1>2, Zenon DEF OrbitMode
  <1>3. CASE ~(s.nav = "ORBIT" /\ ~s.failsafe)
    <2>1. OrbitMode(r) = p
      BY <1>3, Zenon DEF OrbitMode
    <2>2. /\ p \in Result /\ p.main = "POSCTL" /\ p.nav = s.nav
          /\ p.lockdown = s.lockdown /\ p.failsafe = s.failsafe
      BY <1>1, Zenon DEF Result, MainState
    <2>3. Sound(r, p)
      BY <1>1, <2>2, Zenon DEF Sound
    <2> QED BY <2>1, <2>2, <2>3, Zenon
  <1> QED BY <1>2, <1>3, Zenon

\* The manual cases keep the promises.
LEMMA ManualModeSound ==
  ASSUME NavTypeOK, NEW r \in Result, r.main = main, main \in StickNav
  PROVE  Sound(r, ManualMode(r)) /\ ManualMode(r).main # "ORBIT"
  <1>1. main # "ORBIT"
    BY Zenon DEF StickNav, ManualMain
  <1>2. CASE rc_lost /\ is_armed
    <2>1. ManualMode(r) = RcLoss(r)
      BY <1>2, Zenon DEF ManualMode
    <2>2. config.rcl # "DISABLED"
      BY <1>2, Zenon DEF rc_lost
    <2> QED BY <1>1, <2>1, <2>2, LinksSound, Zenon
  <1>3. CASE ~rc_lost /\ is_armed /\ main = "POSCTL" /\ PosInvalid(~config.rotary)
    <2>1. ManualMode(r) = PosFallback(r, ~config.land_terminate)
      BY <1>3, Zenon DEF ManualMode
    <2> QED BY <1>1, <1>3, <2>1, FallbackSound, Zenon
  <1>4. CASE ~(rc_lost /\ is_armed) /\ ~(~rc_lost /\ is_armed /\ main = "POSCTL" /\ PosInvalid(~config.rotary))
    <2>1. ManualMode(r) = Go(r, main)
      BY <1>4, Zenon DEF ManualMode
    <2>2. main \in Nav /\ main \notin GlobalNav
      BY Zenon DEF StickNav, ManualMain, Nav, MainState, GlobalNav
    <2> QED BY <1>1, <1>4, <2>1, <2>2, GoSound, Zenon
  <1> QED BY <1>2, <1>3, <1>4, Zenon

\* The case AUTO_MISSION keeps the promises.
LEMMA MissionModeSound ==
  ASSUME NavTypeOK, NEW r \in Result, r.main = "AUTO_MISSION"
  PROVE  Sound(r, MissionMode(r)) /\ MissionMode(r).main # "ORBIT"
  <1>1. CASE is_armed /\ PosInvalid(TRUE)
    BY <1>1, FallbackSound, Zenon DEF MissionMode
  <1>2. CASE ~(is_armed /\ PosInvalid(TRUE))
    <2>1. is_armed => gpos
      BY <1>2, Zenon DEF PosInvalid
    <2>2. /\ {"AUTO_LANDENGFAIL", "AUTO_RTL", "AUTO_MISSION"} \subseteq Nav
          /\ \A n \in {"AUTO_LANDENGFAIL", "AUTO_RTL", "AUTO_MISSION"} : is_armed => ChoosesAuto(n)
      BY <2>1, Zenon DEF Nav, MainState, ChoosesAuto, StickNav, ManualMain
    <2>3. \A n \in {"AUTO_LANDENGFAIL", "AUTO_RTL", "AUTO_MISSION"} :
            Sound(r, Go(r, n)) /\ Go(r, n).main = r.main
      BY <2>2, GoSound, Zenon
    <2>4. dl_lost => Sound(r, DlLoss(r)) /\ DlLoss(r).main # "ORBIT"
      BY LinksSound, Zenon DEF dl_lost
    <2>5. is_armed => Sound(r, RcLoss(r)) /\ RcLoss(r).main # "ORBIT"
      BY <2>1, LinksSound, Zenon DEF rc_lost
    <2>6. stay => Sound(r, r)
      BY <2>1, Zenon DEF Sound
    <2> QED BY <1>2, <2>3, <2>4, <2>5, <2>6, Zenon DEF MissionMode
  <1> QED BY <1>1, <1>2, Zenon

\* The case OFFBOARD keeps the promises.
LEMMA OffboardModeSound ==
  ASSUME NavTypeOK, NEW r \in Result, r.main = "OFFBOARD"
  PROVE  Sound(r, OffboardMode(r)) /\ OffboardMode(r).main # "ORBIT"
  <1>1. CASE env.offb # "timeout"
    <2>1. "OFFBOARD" \in Nav /\ ChoosesAuto("OFFBOARD")
      BY Zenon DEF Nav, MainState, ChoosesAuto, GlobalNav, StickNav, ManualMain
    <2> QED BY <1>1, <2>1, GoSound, Zenon DEF OffboardMode
  <1>2. CASE env.offb = "timeout"
    <2> DEFINE act == IF env.rc_lost THEN config.obl ELSE config.obl_rc
               l == OffboardLoss(r, act)
    <2>1. /\ act \in OffbLossAct \cup OffbLossRcAct /\ act \in Acts
          /\ act = "DISABLED" => "DISABLED" \in {config.obl, config.obl_rc}
          /\ rc_lost => act = config.obl /\ act \in OffbLossAct
      BY ConfigType, Zenon DEF Acts, rc_lost
    <2>2. OffboardMode(r) = Fail(l)
      BY <1>2, Zenon DEF OffboardMode
    <2> HIDE DEF act
    <2>3. /\ l \in Result /\ l.main = "OFFBOARD"
          /\ act \notin {"DISABLED", "LOCKDOWN"} => (l.nav \in GlobalNav => gpos)
          /\ act \in OffbLossAct \ {"DISABLED", "LOCKDOWN"} => l.nav \notin StickNav
          /\ (act = "LOCKDOWN" => l.lockdown)
          /\ (act # "LOCKDOWN" => l.lockdown = r.lockdown)
      BY <2>1, OffboardLossResult, Zenon
    <2> HIDE DEF l
    <2>4. /\ Fail(l) \in Result /\ Fail(l).failsafe = TRUE
          /\ Fail(l).main = l.main /\ Fail(l).nav = l.nav /\ Fail(l).lockdown = l.lockdown
      BY <2>3, FailResult, Zenon
    <2>5. Sound(r, Fail(l))
      <3>1. CASE act = "LOCKDOWN"
        BY <2>1, <2>3, <2>4, <3>1, Zenon DEF Sound
      <3>2. CASE act # "LOCKDOWN"
        BY <2>1, <2>3, <2>4, <3>2, Zenon DEF Sound
      <3> QED BY <3>1, <3>2, Zenon
    <2> QED BY <2>2, <2>3, <2>4, <2>5, Zenon
  <1> QED BY <1>1, <1>2, Zenon

\* set_nav_state as a whole.
LEMMA EvaluationSound ==
  ASSUME NavTypeOK, NEW r \in Result, r.main = main, r.failsafe = FALSE
  PROVE  /\ Sound(r, set_nav_state(r))
         /\ set_nav_state(r).failsafe => set_nav_state(r).main # "ORBIT"
  <1>1. CASE main \in StickNav
    <2>1. set_nav_state(r) = ManualMode(r)
      BY <1>1, Zenon DEF set_nav_state, StickNav, ManualMain
    <2> QED BY <1>1, <2>1, ManualModeSound, Zenon
  <1>2. CASE main = "AUTO_MISSION"
    <2>1. set_nav_state(r) = MissionMode(r)
      BY <1>2, Zenon DEF set_nav_state, ManualMain
    <2> QED BY <1>2, <2>1, MissionModeSound, Zenon
  <1>3. CASE main = "AUTO_LOITER"
    <2>1. set_nav_state(r) = HoldMode(r, "AUTO_LOITER")
      BY <1>3, Zenon DEF set_nav_state, ManualMain
    <2> QED BY <1>3, <2>1, HoldModeSound, Zenon
  <1>4. CASE main = "ORBIT"
    <2>1. set_nav_state(r) = OrbitMode(r)
      BY <1>4, Zenon DEF set_nav_state, ManualMain
    <2> QED BY <1>4, <2>1, OrbitModeSound, Zenon
  <1>5. CASE main \in {"AUTO_RTL", "AUTO_FOLLOW_TARGET"}
    <2>1. set_nav_state(r) = AutoMode(r, main, TRUE)
      BY <1>5, Zenon DEF set_nav_state, ManualMain
    <2>2. main \in MainState \ StickNav
      BY <1>5, Zenon DEF MainState, StickNav, ManualMain
    <2> QED BY <1>5, <2>1, <2>2, AutoModeSound, Zenon
  <1>6. CASE main \in {"AUTO_TAKEOFF", "AUTO_LAND", "AUTO_PRECLAND"}
    <2>1. set_nav_state(r) = AutoMode(r, main, FALSE)
      BY <1>6, Zenon DEF set_nav_state, ManualMain
    <2>2. main \in MainState \ StickNav /\ main \notin GlobalNav
      BY <1>6, Zenon DEF MainState, StickNav, ManualMain, GlobalNav
    <2> QED BY <1>6, <2>1, <2>2, AutoModeSound, Zenon
  <1>7. CASE main = "OFFBOARD"
    <2>1. set_nav_state(r) = OffboardMode(r)
      BY <1>7, Zenon DEF set_nav_state, ManualMain
    <2> QED BY <1>7, <2>1, OffboardModeSound, Zenon
  <1> QED BY <1>1, <1>2, <1>3, <1>4, <1>5, <1>6, <1>7, Zenon DEF NavTypeOK, MainState, StickNav

-----------------------------------------------------------------------------
\* The reset lifts every lockdown that nobody ordered, and only touches the flags.
LEMMA ResetStep ==
  ASSUME NavTypeOK, LockdownHasCause
  PROVE  LET r == Reset([nav |-> nav, main |-> main, failsafe |-> failsafe,
                         force |-> force, lockdown |-> lockdown])
         IN  /\ r \in Result /\ r.main = main /\ r.failsafe = FALSE
             /\ (r.lockdown => lockdown /\ "lockdown" \in ordered)
  BY Zenon DEF Reset, Result, NavTypeOK, LockdownHasCause, Acts

\* An evaluation of set_nav_state keeps the invariant.
LEMMA EvaluateStep ==
  ASSUME NavInv, Evaluate
  PROVE  NavInv'
  <1> DEFINE r == Reset([nav |-> nav, main |-> main, failsafe |-> failsafe,
                         force |-> force, lockdown |-> lockdown])
             s == set_nav_state(r)
  <1> USE DEF NavInv
  <1>1. r \in Result /\ r.main = main /\ r.failsafe = FALSE /\ (r.lockdown => "lockdown" \in ordered)
    BY ResetStep, Zenon
  <1>2. /\ nav' = s.nav /\ main' = s.main /\ failsafe' = s.failsafe
        /\ force' = s.force /\ lockdown' = s.lockdown
        /\ ordered' = ordered \cap ((IF s.force THEN {"force"} ELSE {})
                                     \cup (IF s.lockdown THEN {"lockdown"} ELSE {}))
        /\ at' = "done"
        /\ UNCHANGED <<config, is_armed, stay, env>>
    BY Zenon DEF Evaluate
  <1> HIDE DEF r
  <1>3. Sound(r, s) /\ (s.failsafe => s.main # "ORBIT") /\ s \in Result
    BY <1>1, EvaluationSound, Zenon DEF Sound
  <1> HIDE DEF s
  <1>4. NavTypeOK'
    BY <1>2, <1>3, Zenon DEF NavTypeOK, Result
  <1>5. LockdownHasCause'
    BY <1>1, <1>2, <1>3, Zenon DEF LockdownHasCause, Acts, Sound
  <1>6. NavHasPosition'
    BY <1>2, <1>3, Zenon DEF NavHasPosition, Sound, gpos
  <1>7. SticksHavePilot'
    BY <1>2, <1>3, Zenon DEF SticksHavePilot, Sound, rc_lost
  <1>8. OrbitIsAbandoned'
    BY <1>2, <1>3, Zenon DEF OrbitIsAbandoned
  <1> QED BY <1>4, <1>5, <1>6, <1>7, <1>8, Zenon

\* The other steps do not end an iteration.
LEMMA OtherStep ==
  ASSUME NavInv,
         \/ Sense \/ Rest \/ UNCHANGED navVars
         \/ \E new \in Requests : Request(new)
         \/ \E on \in BOOLEAN : Arm(on)
         \/ OrderTermination \/ OrderLockdown \/ OrderNormal
  PROVE  NavInv'
  <1> USE DEF NavInv
  <1>1. CASE UNCHANGED navVars
    BY <1>1, Zenon DEF navVars, NavTypeOK, LockdownHasCause, Acts, NavHasPosition, SticksHavePilot, OrbitIsAbandoned, gpos, rc_lost
  <1>2. CASE ~UNCHANGED navVars
    <2>1. at' # "done"
      BY <1>2, Zenon DEF Sense, Rest, Request, Arm, OrderTermination, OrderLockdown, OrderNormal
    <2>2. NavHasPosition' /\ SticksHavePilot' /\ OrbitIsAbandoned'
      BY <2>1, Zenon DEF NavHasPosition, SticksHavePilot, OrbitIsAbandoned
    <2>3. NavTypeOK'
      BY <1>2, NavConstants, Zenon DEF NavTypeOK, Sense, Rest, Request, Arm, OrderTermination, OrderLockdown, OrderNormal
    <2>4. LockdownHasCause'
      BY <1>2, Zenon DEF LockdownHasCause, Acts, NavTypeOK, Sense, Rest, Request, Arm, OrderTermination, OrderLockdown, OrderNormal
    <2> QED BY <2>2, <2>3, <2>4, Zenon
  <1> QED BY <1>1, <1>2, Zenon

(***************************************************************************)
(* The inductive invariant: types, a cause for every lockdown nobody       *)
(* ordered, and what an evaluation of set_nav_state establishes.           *)
(***************************************************************************)
THEOREM NavInvariance == NavSpec => []NavInv
  <1>1. NavInit => NavInv
    BY Zenon DEF NavInit, NavInv, NavTypeOK, LockdownHasCause, NavHasPosition, SticksHavePilot, OrbitIsAbandoned,
           MainState, ManualMain, Nav, GlobalNav
  <1>2. NavInv /\ [NavNext]_navVars => NavInv'
    BY EvaluateStep, OtherStep, Zenon DEF NavNext
  <1> QED BY <1>1, <1>2, PTL DEF NavSpec

\* An armed vehicle never navigates by a global position it does not have (NavHasPosition).
THEOREM PositionIsKnown == NavSpec => []NavHasPosition
  BY NavInvariance, PTL DEF NavInv

\* With an RC-loss action set up, nobody flies by stick without RC (SticksHavePilot).
THEOREM PilotIsThere == NavSpec => []SticksHavePilot
  BY NavInvariance, PTL DEF NavInv

\* A lockdown a lost link caused ends with the failsafe (LockdownIsLifted).
THEOREM LockdownEnds == NavSpec => []LockdownIsLifted
  <1>1. NavInv => LockdownIsLifted
    BY Zenon DEF NavInv, LockdownHasCause, LockdownIsLifted
  <1> QED BY <1>1, NavInvariance, PTL

\* No failsafe is left towards the orbit it interrupted (OrbitIsAbandoned).
THEOREM OrbitEnds == NavSpec => []OrbitIsAbandoned
  BY NavInvariance, PTL DEF NavInv
=============================================================================
