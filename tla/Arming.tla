------------------------------- MODULE Arming -------------------------------
(***************************************************************************)
(* The arming state machine of the commander and the threads that          *)
(* drive it: the main loop (Commander::run), the low-priority loop that    *)
(* calibrates (commander_low_prio_loop) and shells running `commander      *)
(* arm|disarm`.  They share the globals status, armed and status_flags     *)
(* without a lock, so arming_state_transition is three steps: the checks,  *)
(* the write of armed.armed and armed.ready_to_arm, and the write of       *)
(* status.arming_state.                                                    *)
(*                                                                         *)
(* The main loop visits its handlers in the order of the code; every       *)
(* handler may find nothing to do.  Inputs (switches, sticks, commands,    *)
(* the outcome of the preflight and prearm checks) are nondeterministic.   *)
(* armed.lockdown, which the transition also sets in HIL, is modelled in   *)
(* NavState.                                                               *)
(***************************************************************************)
CONSTANT Shells   \* the consoles on which `commander` can be run

ASSUME ShellsAssumption == "main" \notin Shells /\ "low" \notin Shells

VARIABLES
  arming,       \* status.arming_state
  armed,        \* armed.armed, what the output drivers obey
  ready,        \* armed.ready_to_arm
  sensors,      \* status_flags.condition_system_sensors_initialized
  calibrating,  \* status_flags.condition_calibration_enabled
  hil,          \* status.hil_state is HIL_STATE_ON (set at start, then fixed)
  phase,        \* where each thread is, or will return to from a transition
  stage,        \* how far its transition is: out of it, granted, armed written
  goal,         \* new_arming_state of each thread's current transition
  overlapped    \* history: a transition began inside another thread's

vars == <<arming, armed, ready, sensors, calibrating, hil, phase, stage, goal, overlapped>>

Thread == {"main", "low"} \cup Shells

ArmingState == {"INIT", "STANDBY", "ARMED", "STANDBY_ERROR", "SHUTDOWN", "IN_AIR_RESTORE"}

MainPhase == {"usb", "safety", "auto", "kill", "battery", "promote", "rc", "command", "restore", "down"}
LowPhase == {"wait", "enable", "calibrate", "verify", "request"}

Phase == MainPhase \cup LowPhase \cup {"prompt"}
Stage == {"out", "granted", "written"}

TypeOK ==
  /\ arming \in ArmingState
  /\ armed \in BOOLEAN /\ ready \in BOOLEAN
  /\ sensors \in BOOLEAN /\ calibrating \in BOOLEAN /\ hil \in BOOLEAN
  /\ phase \in [Thread -> Phase] /\ stage \in [Thread -> Stage]
  /\ goal \in [Thread -> ArmingState]
  /\ overlapped \in BOOLEAN

\* Changing the arming state: inside a transition, or after the flick of a restore.
Busy(t) == stage[t] # "out" \/ phase[t] = "restore"
At(t, p) == phase[t] = p /\ stage[t] = "out"
Goto(t, p) == phase' = [phase EXCEPT ![t] = p] /\ UNCHANGED stage

Init ==
  /\ arming = "INIT" /\ armed = FALSE /\ ready = FALSE
  /\ sensors = TRUE /\ calibrating = FALSE
  /\ hil \in BOOLEAN
  /\ phase = [t \in Thread |-> CASE t = "main" -> "usb" [] t = "low" -> "wait"
                                  [] OTHER -> "prompt"]
  /\ stage = [t \in Thread |-> "out"]
  /\ goal = [t \in Thread |-> "INIT"]
  /\ overlapped = FALSE

-----------------------------------------------------------------------------
\* Mutant of arming_transitions: SHUTDOWN may be left for INIT.
TransitionsReopened(new) ==
  CASE new = "INIT"          -> {"INIT", "STANDBY", "STANDBY_ERROR", "SHUTDOWN"}
    [] new = "STANDBY"       -> {"INIT", "STANDBY", "ARMED"}
    [] new = "ARMED"         -> {"STANDBY", "ARMED", "IN_AIR_RESTORE"}
    [] new = "STANDBY_ERROR" -> {"INIT", "STANDBY", "ARMED", "STANDBY_ERROR"}
    [] new = "SHUTDOWN"      -> {"INIT", "STANDBY", "STANDBY_ERROR", "SHUTDOWN", "IN_AIR_RESTORE"}
    [] OTHER                 -> {}

\* The states from which the table allows a transition to new.
arming_transitions(new) ==
  CASE new = "INIT"          -> {"INIT", "STANDBY", "STANDBY_ERROR"}
    [] new = "STANDBY"       -> {"INIT", "STANDBY", "ARMED"}
    [] new = "ARMED"         -> {"STANDBY", "ARMED", "IN_AIR_RESTORE"}
    [] new = "STANDBY_ERROR" -> {"INIT", "STANDBY", "ARMED", "STANDBY_ERROR"}
    [] new = "SHUTDOWN"      -> {"INIT", "STANDBY", "STANDBY_ERROR", "SHUTDOWN", "IN_AIR_RESTORE"}
    [] OTHER                 -> {}

\* Mutant of SensorsAfter: a failing check clears the flag.
SensorsCleared(new, run, preflight, retry) ==
  hil \/ (IF run /\ new = "ARMED" THEN preflight ELSE sensors)

(***************************************************************************)
(* condition_system_sensors_initialized once the checks have run: a        *)
(* preflight check before arming can set it, a failing one never clears    *)
(* it; while it is not set the check is repeated, at most once a second    *)
(* (retry is its outcome when it is).                                      *)
(***************************************************************************)
SensorsAfter(new, run, preflight, retry) ==
  \/ hil
  \/ sensors
  \/ run /\ new = "ARMED" /\ preflight
  \/ run /\ new \in {"ARMED", "STANDBY"} /\ retry

(***************************************************************************)
(* valid_transition.  Arming needs the preflight and prearm checks, unless *)
(* they are skipped, the vehicle restores itself in the air, or in HIL.    *)
(* STANDBY needs initialised sensors, except in HIL where it is always     *)
(* granted.                                                                *)
(***************************************************************************)
Granted(new, run, preflight, prearm, ready_sensors) ==
  \/ hil /\ new = "STANDBY"
  \/ /\ arming \in arming_transitions(new)
     /\ new = "ARMED" /\ arming # "IN_AIR_RESTORE" /\ ~hil /\ run => preflight /\ prearm
     /\ ~hil /\ new = "STANDBY" /\ arming # "STANDBY_ERROR" => ready_sensors

(***************************************************************************)
(* arming_state_transition, up to the decision.  done is where the caller  *)
(* continues if the transition is made or not needed, denied where it      *)
(* continues otherwise.                                                    *)
(***************************************************************************)
Check(t, new, run, done, denied) ==
  /\ overlapped' = (overlapped \/ \E u \in Thread \ {t} : Busy(u))
  /\ IF new = arming
     THEN Goto(t, done) /\ UNCHANGED <<arming, sensors, goal>>
     ELSE \E preflight, prearm, retry \in BOOLEAN :
            LET ok == SensorsAfter(new, run, preflight, retry) IN
            /\ sensors' = ok
            /\ arming' = IF hil /\ arming = "STANDBY_ERROR" THEN "STANDBY" ELSE arming
            /\ IF Granted(new, run, preflight, prearm, ok)
               THEN /\ phase' = [phase EXCEPT ![t] = done]
                    /\ stage' = [stage EXCEPT ![t] = "granted"]
                    /\ goal' = [goal EXCEPT ![t] = new]
               ELSE Goto(t, denied) /\ UNCHANGED goal
  /\ UNCHANGED <<armed, ready, calibrating, hil>>

\* Mutant of WriteArmed: a disarmed vehicle is not reported as ready.
WriteArmedOnly(t) ==
  /\ stage[t] = "granted"
  /\ armed' = (goal[t] = "ARMED")
  /\ ready' = (ready \/ goal[t] = "STANDBY")
  /\ stage' = [stage EXCEPT ![t] = "written"]
  /\ UNCHANGED <<arming, sensors, calibrating, hil, phase, goal, overlapped>>

\* The transition is made: first what the drivers see ...
WriteArmed(t) ==
  /\ stage[t] = "granted"
  /\ armed' = (goal[t] = "ARMED")
  /\ ready' = (goal[t] \in {"ARMED", "STANDBY"})
  /\ stage' = [stage EXCEPT ![t] = "written"]
  /\ UNCHANGED <<arming, sensors, calibrating, hil, phase, goal, overlapped>>

\* ... then the state the commander itself decides by.
WriteState(t) ==
  /\ stage[t] = "written"
  /\ arming' = goal[t]
  /\ stage' = [stage EXCEPT ![t] = "out"]
  /\ UNCHANGED <<armed, ready, sensors, calibrating, hil, phase, goal, overlapped>>

Transit(t) == WriteArmed(t) \/ WriteState(t)

-----------------------------------------------------------------------------
(* The main loop. *)

NextPhase(p) ==
  CASE p = "usb" -> "safety"
    [] p = "safety" -> "auto"
    [] p \in {"auto", "kill"} -> "battery"
    [] p = "battery" -> "promote"
    [] p = "promote" -> "rc"
    [] p = "rc" -> "command"
    [] OTHER -> "usb"

MainCall(p, new, run) == Check("main", new, run, NextPhase(p), NextPhase(p))

\* The handler of this phase finds nothing to do.
Skip(p) ==
  /\ At("main", p)
  /\ Goto("main", NextPhase(p))
  /\ UNCHANGED <<arming, armed, ready, sensors, calibrating, hil, goal, overlapped>>

(***************************************************************************)
(* shutdown_if_allowed when the USB cable goes away or the battery reaches *)
(* the emergency level.  If the board can be shut down the loop ends here, *)
(* else it goes on.                                                        *)
(***************************************************************************)
Shutdown(p) ==
  /\ At("main", p)
  /\ \/ Check("main", "SHUTDOWN", FALSE, "down", NextPhase(p))
     \/ MainCall(p, "SHUTDOWN", FALSE)

\* The safety switch is engaged while armed.
SafetyDisarm ==
  /\ At("main", "safety")
  /\ armed /\ ~hil
  /\ MainCall("safety", "STANDBY", TRUE)

(***************************************************************************)
(* Landed or not taken off in time, or killed for five seconds; both are   *)
(* tried, one after the other, on one test of armed.                       *)
(***************************************************************************)
AutoDisarm ==
  /\ At("main", "auto")
  /\ armed
  /\ \/ MainCall("auto", "STANDBY", TRUE)
     \/ Check("main", "STANDBY", TRUE, "kill", "kill")

KillDisarm ==
  /\ At("main", "kill")
  /\ MainCall("kill", "STANDBY", TRUE)

\* Mutant of Promote: INIT is left only when the sensors are not ready yet.
PromoteLate ==
  /\ At("main", "promote")
  /\ IF ~calibrating /\ arming = "INIT" /\ ~sensors
     THEN MainCall("promote", "STANDBY", TRUE)
     ELSE Skip("promote")

\* "If in INIT state, try to proceed to STANDBY state", in every iteration.
Promote ==
  /\ At("main", "promote")
  /\ IF ~calibrating /\ arming = "INIT"
     THEN MainCall("promote", "STANDBY", TRUE)
     ELSE Skip("promote")

(***************************************************************************)
(* Arming switch, button or sticks: they disarm in ARMED and arm in        *)
(* STANDBY; within five seconds of a disarming the checks are skipped.     *)
(***************************************************************************)
RcDisarm ==
  /\ At("main", "rc")
  /\ arming = "ARMED"
  /\ MainCall("rc", "STANDBY", TRUE)

RcArm ==
  /\ At("main", "rc")
  /\ arming = "STANDBY"
  /\ \E in_arming_grace_period \in BOOLEAN : MainCall("rc", "ARMED", ~in_arming_grace_period)

(***************************************************************************)
(* COMPONENT_ARM_DISARM from another system, and MISSION_START.  The       *)
(* refusal while the sensors flag is not set (:828) is never met: the flag *)
(* is set at start and nothing clears it (proved as part of IInv).         *)
(***************************************************************************)
ArmCommand ==
  /\ At("main", "command")
  /\ \E new \in {"ARMED", "STANDBY"} : MainCall("command", new, TRUE)

(***************************************************************************)
(* COMPONENT_ARM_DISARM from this system itself: px4io re-arms after a     *)
(* restart in the air (it only ever arms).  The state is flicked to        *)
(* IN_AIR_RESTORE first.                                                   *)
(***************************************************************************)
Flick ==
  /\ At("main", "command")
  /\ arming' = "IN_AIR_RESTORE"
  /\ Goto("main", "restore")
  /\ overlapped' = (overlapped \/ \E u \in Thread \ {"main"} : Busy(u))
  /\ UNCHANGED <<armed, ready, sensors, calibrating, hil, goal>>

Restore ==
  /\ At("main", "restore")
  /\ MainCall("restore", "ARMED", TRUE)

Main ==
  \/ \E p \in {"usb", "safety", "auto", "battery", "rc", "command"} : Skip(p)
  \/ Shutdown("usb") \/ Shutdown("battery")
  \/ SafetyDisarm \/ AutoDisarm \/ KillDisarm \/ Promote \/ RcDisarm \/ RcArm
  \/ ArmCommand \/ Flick \/ Restore
  \/ Transit("main")

-----------------------------------------------------------------------------
(* The low-priority loop: VEHICLE_CMD_PREFLIGHT_CALIBRATION. *)

CalibrationCommand ==
  /\ At("low", "wait")
  /\ Check("low", "INIT", FALSE, "enable", "wait")

EnableCalibration ==
  /\ At("low", "enable")
  /\ calibrating' = TRUE
  /\ Goto("low", "calibrate")
  /\ UNCHANGED <<arming, armed, ready, sensors, hil, goal, overlapped>>

\* A temperature calibration is left to another module, without resetting the flag.
TemperatureCalibration ==
  /\ At("low", "calibrate")
  /\ Goto("low", "wait")
  /\ UNCHANGED <<arming, armed, ready, sensors, calibrating, hil, goal, overlapped>>

\* Any other calibration; only after a successful one is STANDBY requested.
Calibrate ==
  /\ At("low", "calibrate")
  /\ calibrating' = FALSE
  /\ \E calib_ok \in BOOLEAN : Goto("low", IF calib_ok THEN "verify" ELSE "wait")
  /\ UNCHANGED <<arming, armed, ready, sensors, hil, goal, overlapped>>

\* Commander::preflight_check can set the sensors flag ...
Verify ==
  /\ At("low", "verify")
  /\ \E success \in BOOLEAN : sensors' = (sensors \/ success)
  /\ Goto("low", "request")
  /\ UNCHANGED <<arming, armed, ready, calibrating, hil, goal, overlapped>>

\* ... then STANDBY is requested without checks.
RequestStandby ==
  /\ At("low", "request")
  /\ Check("low", "STANDBY", FALSE, "wait", "wait")

Low == CalibrationCommand \/ EnableCalibration \/ TemperatureCalibration \/ Calibrate
       \/ Verify \/ RequestStandby \/ Transit("low")

-----------------------------------------------------------------------------
(* The shell: `commander arm [-f]`, `commander disarm`, `commander takeoff`. *)

ShellCommand(t) ==
  /\ At(t, "prompt")
  /\ \/ \E force \in BOOLEAN : Check(t, "ARMED", ~force, "prompt", "prompt")
     \/ Check(t, "STANDBY", TRUE, "prompt", "prompt")

Next == Main \/ Low \/ \E t \in Shells : ShellCommand(t) \/ Transit(t)

Spec == Init /\ [][Next]_vars

(***************************************************************************)
(* The main loop and a transition, once begun, are never blocked, and a    *)
(* calibration ends.  Nobody is obliged to send a command.                 *)
(***************************************************************************)
Fairness ==
  /\ WF_vars(Main)
  /\ WF_vars(~At("low", "wait") /\ Low)
  /\ \A t \in Shells : WF_vars(Transit(t))

FairSpec == Spec /\ Fairness

-----------------------------------------------------------------------------
(***************************************************************************)
(* What the drivers obey and what the commander decides by agree, whenever *)
(* nobody is changing either, as long as no transition ever began inside   *)
(* another thread's: armed.armed is status.arming_state = ARMED, and       *)
(* ready_to_arm is ARMED or STANDBY.                                       *)
(***************************************************************************)
ArmedAgrees ==
  ~overlapped /\ (\A t \in Thread : ~Busy(t)) =>
    /\ (armed <=> arming = "ARMED")
    /\ (ready <=> arming \in {"ARMED", "STANDBY"})

LegalStep(old, new) ==
  \/ new = "IN_AIR_RESTORE"
  \/ old \in (CASE new = "INIT" -> {"STANDBY"}
                [] new = "STANDBY" -> {"INIT", "ARMED"}
                [] new = "ARMED" -> {"STANDBY", "IN_AIR_RESTORE"}
                [] new = "SHUTDOWN" -> {"INIT", "STANDBY"}
                [] OTHER -> {})
  \/ hil /\ new = "STANDBY"

(***************************************************************************)
(* A transition the checks granted is still in the table when it is        *)
(* written, unless transitions overlapped: ARMED is entered from STANDBY   *)
(* or from a restore only, INIT never from ARMED, and SHUTDOWN is left     *)
(* only by a restore or, in HIL, for STANDBY.                              *)
(***************************************************************************)
LegalSteps == [][~overlapped' => LegalStep(arming, arming')]_arming

(***************************************************************************)
(* An armed vehicle can be disarmed: whatever failed since, no check may   *)
(* deny STANDBY in ARMED (the sensors flag, once set, is never reset).     *)
(***************************************************************************)
DisarmIsGranted ==
  arming = "ARMED" => \A run, retry \in BOOLEAN :
    Granted("STANDBY", run, TRUE, TRUE, SensorsAfter("STANDBY", run, TRUE, retry))

(***************************************************************************)
(* INIT is always left again, once calibration is off for good: no         *)
(* interleaving of the loops strands the vehicle in INIT.                  *)
(***************************************************************************)
InitIsLeft ==
  <>[](~calibrating) => []<>(arming # "INIT" \/ At("main", "down"))
=============================================================================
