------------------------------ MODULE NavState ------------------------------
(***************************************************************************)
(* How the commander chooses what the vehicle does: the main state (what   *)
(* was asked for), the navigation state (what is done), and the flags that *)
(* force the outputs to failsafe or disarmed values.  set_nav_state runs   *)
(* at the end of every iteration of the main loop, on the inputs gathered  *)
(* in that iteration.                                                      *)
(*                                                                         *)
(* An iteration is Sense (the loop reads its topics), any of the handlers, *)
(* Evaluate (set_nav_state) and Rest (publish and sleep).  Nothing in the  *)
(* commander bounds how inputs change between two iterations, so Sense     *)
(* chooses them anew and Rest forgets them.                                *)
(***************************************************************************)
CONSTANTS Configs,    \* the failsafe parameters a vehicle may be set up with
          Requests,   \* the main states that are asked for
          Estimates   \* what the estimators provide: sets of Quantity

VARIABLES
  config,    \* the parameters (set before flight)
  main,      \* internal_state.main_state
  nav,       \* status.nav_state
  failsafe,  \* status.failsafe
  force,     \* armed.force_failsafe
  lockdown,  \* armed.lockdown
  is_armed,  \* status.arming_state is ARMED
  stay,      \* mission_result.stay_in_failsafe
  env,       \* the other inputs of this iteration
  at,        \* where the iteration is
  ordered    \* history: the flags last set by something other than a lost link

navVars == <<config, main, nav, failsafe, force, lockdown, is_armed, stay, env, at, ordered>>

Quantity == {"gpos", "lpos", "lvel", "alt", "home"}

ManualMain == {"MANUAL", "STAB", "ACRO", "RATTITUDE", "ALTCTL"}

MainState == ManualMain \cup {"POSCTL", "AUTO_MISSION", "AUTO_LOITER", "AUTO_RTL", "AUTO_TAKEOFF",
                              "AUTO_LAND", "AUTO_PRECLAND", "AUTO_FOLLOW_TARGET", "ORBIT", "OFFBOARD"}

Nav == MainState \cup {"AUTO_RCRECOVER", "AUTO_RTGS", "AUTO_LANDENGFAIL", "AUTO_LANDGPSFAIL",
                       "DESCEND", "TERMINATION"}

LinkLossAct == {"DISABLED", "AUTO_LOITER", "AUTO_RTL", "AUTO_LAND", "AUTO_RECOVER",
                "TERMINATE", "LOCKDOWN"}
OffbLossAct == {"DISABLED", "AUTO_LAND", "AUTO_LOITER", "AUTO_RTL", "TERMINATE", "LOCKDOWN"}
OffbLossRcAct == {"DISABLED", "MANUAL_POSITION", "MANUAL_ALTITUDE", "MANUAL_ATTITUDE", "AUTO_RTL",
                  "AUTO_LAND", "AUTO_LOITER", "TERMINATE", "LOCKDOWN"}

Config == [rcl : LinkLossAct, dll : LinkLossAct, obl : OffbLossAct, obl_rc : OffbLossRcAct,
           land_terminate : BOOLEAN, rotary : BOOLEAN, hil : BOOLEAN]

ASSUME NavConstants ==
  Configs \subseteq Config /\ Requests \subseteq MainState /\ Estimates \subseteq SUBSET Quantity

(***************************************************************************)
(* The inputs set_nav_state depends on: which conditions are valid, which  *)
(* links are lost (offboard: lost, and lost for longer than its timeout),  *)
(* whether the vehicle is landed, in flight, or in flight with its mission *)
(* finished, and an engine failure or a failed mission or VTOL transition. *)
(***************************************************************************)
Env == [est : Estimates, rc_lost : BOOLEAN, dl_lost : BOOLEAN,
        offb : {"ok", "lost", "timeout"}, flight : {"landed", "flying", "finished"},
        fault : {"none", "engine", "mission"}]

NoEnv == [est |-> {}, rc_lost |-> TRUE, dl_lost |-> TRUE, offb |-> "lost",
          flight |-> "landed", fault |-> "none"]

NavTypeOK ==
  /\ config \in Configs
  /\ main \in MainState /\ nav \in Nav
  /\ failsafe \in BOOLEAN /\ force \in BOOLEAN /\ lockdown \in BOOLEAN
  /\ is_armed \in BOOLEAN /\ stay \in BOOLEAN
  /\ env \in Env \cup {NoEnv}
  /\ at \in {"sense", "act", "done"}
  /\ ordered \subseteq {"force", "lockdown"}

-----------------------------------------------------------------------------
(* What the estimators provide. *)

gpos == "gpos" \in env.est
lpos == "lpos" \in env.est
alt == "alt" \in env.est
homing == {"gpos", "home"} \subseteq env.est

\* Whether main_state_transition grants new (a valid mission is left to the caller).
MainGranted(new) ==
  CASE new = "ALTCTL" -> alt \/ gpos
    [] new = "POSCTL" -> lpos \/ gpos
    [] new \in {"AUTO_LOITER", "AUTO_MISSION"} -> gpos
    [] new = "AUTO_RTL" -> homing
    [] new \in {"AUTO_TAKEOFF", "AUTO_LAND"} -> lpos
    [] new = "AUTO_PRECLAND" -> lpos /\ gpos /\ config.rotary
    [] new \in {"AUTO_FOLLOW_TARGET", "ORBIT"} -> config.rotary
    [] new = "OFFBOARD" -> env.offb = "ok"
    [] OTHER -> TRUE

-----------------------------------------------------------------------------
(***************************************************************************)
(* set_nav_state and its helpers work on a record r of what they may       *)
(* change: nav, main, failsafe, force and lockdown.                        *)
(***************************************************************************)
Go(r, n) == [r EXCEPT !.nav = n]
Fail(r) == [r EXCEPT !.failsafe = TRUE]                    \* enable_failsafe
Terminate(r) == [r EXCEPT !.nav = "TERMINATION", !.force = TRUE]
Lock(r) == [r EXCEPT !.lockdown = TRUE]

\* A descent without stick control: what is left when no position is known.
Descend == IF config.rotary THEN "DESCEND" ELSE "AUTO_LANDGPSFAIL"

\* Whether check_invalid_pos_nav_state demands a fallback.
PosInvalid(using_global_pos) ==
  IF using_global_pos THEN ~gpos ELSE ~({"lpos", "lvel"} \subseteq env.est)

\* Mutant of PosFallback: a fallback that needs the position that is missing.
PosFallbackLoiter(r, use_rc) ==
  Fail(Go(r, IF use_rc THEN "ALTCTL" ELSE IF alt THEN "AUTO_LOITER" ELSE "TERMINATION"))

\* ... and what it then falls back to.
PosFallback(r, use_rc) ==
  Fail(Go(r, IF use_rc
             THEN CASE config.rotary /\ lpos -> "POSCTL"
                    [] ~(config.rotary /\ lpos) /\ alt -> "ALTCTL"
                    [] OTHER -> "STAB"
             ELSE CASE lpos -> "AUTO_LAND"
                    [] ~lpos /\ alt -> Descend
                    [] OTHER -> "TERMINATION"))

\* Mutant of LinkLoss: the action is not tried without a position.
LinkLossIdle(r, act, recovery) ==
  CASE act = "TERMINATE" -> Terminate(r)
    [] act = "LOCKDOWN" -> Lock(r)
    [] act = "AUTO_RECOVER" /\ homing -> Go(r, recovery)
    [] act \in {"AUTO_RECOVER", "AUTO_RTL"} /\ homing -> [Go(r, "AUTO_RTL") EXCEPT !.main = "AUTO_RTL"]
    [] act \in {"AUTO_RECOVER", "AUTO_RTL", "AUTO_LOITER", "AUTO_LAND"} /\ gpos -> Go(r, "AUTO_LAND")
    [] OTHER -> r

(***************************************************************************)
(* set_link_loss_nav_state: each action falls through to the next weaker   *)
(* one when the estimates do not allow it, down to TERMINATE.              *)
(***************************************************************************)
LinkLoss(r, act, recovery) ==
  LET Land == CASE gpos \/ (config.rotary /\ lpos) -> Go(r, "AUTO_LAND")
                [] ~gpos /\ ~config.rotary -> Go(r, "AUTO_LANDGPSFAIL")
                [] ~gpos /\ config.rotary /\ ~lpos /\ alt -> Go(r, "DESCEND")
                [] OTHER -> Terminate(r)
      Loiter == IF gpos THEN Go(r, "AUTO_LOITER") ELSE Land
      Rtl == IF homing THEN [Go(r, "AUTO_RTL") EXCEPT !.main = "AUTO_RTL"] ELSE Loiter
  IN  CASE act = "DISABLED" -> r
        [] act = "AUTO_RECOVER" -> IF homing THEN Go(r, recovery) ELSE Rtl
        [] act = "AUTO_RTL" -> Rtl
        [] act = "AUTO_LOITER" -> Loiter
        [] act = "AUTO_LAND" -> Land
        [] act = "TERMINATE" -> Terminate(r)
        [] act = "LOCKDOWN" -> Lock(r)

(***************************************************************************)
(* The common part of set_offboard_loss_nav_state (RC lost too) and        *)
(* set_offboard_loss_rc_nav_state.                                         *)
(***************************************************************************)
OffboardLoss(r, act) ==
  LET Land == CASE gpos -> "AUTO_LAND" [] ~gpos /\ alt -> Descend [] OTHER -> "TERMINATION"
      Loiter == IF gpos THEN "AUTO_LOITER" ELSE Land
      Altitude == IF alt THEN "ALTCTL" ELSE "MANUAL"
  IN  CASE act = "DISABLED" -> r
        [] act = "TERMINATE" -> Terminate(r)
        [] act = "LOCKDOWN" -> Lock(r)
        [] act = "MANUAL_POSITION" -> Go(r, IF gpos THEN "POSCTL" ELSE Altitude)
        [] act = "MANUAL_ALTITUDE" -> Go(r, Altitude)
        [] act = "MANUAL_ATTITUDE" -> Go(r, "MANUAL")
        [] act = "AUTO_RTL" -> Go(r, IF homing THEN "AUTO_RTL" ELSE Loiter)
        [] act = "AUTO_LOITER" -> Go(r, Loiter)
        [] act = "AUTO_LAND" -> Go(r, Land)

\* Mutant of Reset: the lockdown of a lost link is never lifted.
ResetForceOnly(r) ==
  [r EXCEPT !.failsafe = FALSE,
            !.force = r.force /\ ~(r.failsafe /\ "TERMINATE" \in {config.rcl, config.dll, config.obl, config.obl_rc})]

(***************************************************************************)
(* reset_link_loss_globals (for both links) and reset_offboard_loss_       *)
(* globals: after an iteration in failsafe the flag that a configured      *)
(* action can have set is reset, whoever set it.                           *)
(***************************************************************************)
Reset(r) ==
  LET acts == {config.rcl, config.dll, config.obl, config.obl_rc}
  IN  [r EXCEPT !.failsafe = FALSE,
                !.force = r.force /\ ~(r.failsafe /\ "TERMINATE" \in acts),
                !.lockdown = r.lockdown /\ ~(r.failsafe /\ "LOCKDOWN" \in acts)]

rc_lost == config.rcl # "DISABLED" /\ env.rc_lost
dl_lost == config.dll # "DISABLED" /\ env.dl_lost

RcLoss(r) == Fail(LinkLoss(r, config.rcl, "AUTO_RCRECOVER"))
DlLoss(r) == Fail(LinkLoss(r, config.dll, "AUTO_RTGS"))

\* The modes that only need a position: mode, unless the engine or the position fails.
AutoMode(r, mode, using_global_pos) ==
  CASE env.fault = "engine" -> Go(r, "AUTO_LANDENGFAIL")
    [] env.fault # "engine" /\ is_armed /\ PosInvalid(using_global_pos) -> PosFallback(r, FALSE)
    [] OTHER -> Go(r, mode)

\* The manual modes need RC; only the position mode needs a position.
ManualMode(r) ==
  CASE rc_lost /\ is_armed -> RcLoss(r)
    [] ~rc_lost /\ is_armed /\ main = "POSCTL" /\ PosInvalid(~config.rotary) ->
         PosFallback(r, ~config.land_terminate)
    [] OTHER -> Go(r, main)

MissionMode(r) ==
  IF is_armed /\ PosInvalid(TRUE) THEN PosFallback(r, FALSE)
  ELSE IF env.fault = "engine" THEN Go(r, "AUTO_LANDENGFAIL")
  ELSE IF env.fault = "mission" THEN Go(r, "AUTO_RTL")
  ELSE IF dl_lost /\ is_armed THEN DlLoss(r)
  ELSE IF config.dll = "DISABLED" /\ env.rc_lost /\ env.dl_lost /\ env.flight = "finished" /\ is_armed
          THEN RcLoss(r)
  ELSE IF stay THEN r
  ELSE Go(r, "AUTO_MISSION")

\* The modes that hold a place: loiter and orbit, which need a link in the air.
HoldMode(r, mode) ==
  IF env.fault = "engine" \/ (is_armed /\ PosInvalid(TRUE)) THEN AutoMode(r, mode, TRUE)
  ELSE IF dl_lost /\ env.flight # "landed" /\ is_armed THEN DlLoss(r)
  ELSE IF rc_lost /\ config.dll = "DISABLED" /\ is_armed THEN RcLoss(r)
  ELSE Go(r, mode)

\* "Recovery from failsafe into orbit is not possible": the main state is changed.
OrbitMode(r) ==
  LET s == HoldMode(r, "ORBIT")
  IN  IF s.nav = "ORBIT" /\ ~s.failsafe THEN s ELSE [s EXCEPT !.main = "POSCTL"]

OffboardMode(r) ==
  IF env.offb # "timeout" THEN Go(r, "OFFBOARD")
  ELSE Fail(OffboardLoss(r, IF env.rc_lost THEN config.obl ELSE config.obl_rc))

set_nav_state(r) ==
  CASE main \in ManualMain \cup {"POSCTL"} -> ManualMode(r)
    [] main = "AUTO_MISSION" -> MissionMode(r)
    [] main = "AUTO_LOITER" -> HoldMode(r, main)
    [] main = "ORBIT" -> OrbitMode(r)
    [] main \in {"AUTO_RTL", "AUTO_FOLLOW_TARGET"} -> AutoMode(r, main, TRUE)
    [] main \in {"AUTO_TAKEOFF", "AUTO_LAND", "AUTO_PRECLAND"} -> AutoMode(r, main, FALSE)
    [] main = "OFFBOARD" -> OffboardMode(r)

-----------------------------------------------------------------------------
NavInit ==
  /\ config \in Configs
  /\ main = "MANUAL" /\ nav = "MANUAL"
  /\ failsafe = FALSE /\ force = FALSE /\ lockdown = FALSE
  /\ is_armed = FALSE /\ stay = FALSE
  /\ env = NoEnv /\ at = "sense"
  /\ ordered = {}

(***************************************************************************)
(* The loop reads its topics.  The navigator asks to stay in failsafe only *)
(* in the two recovery modes, and withdraws it some time after a change.   *)
(* An engine failure is only detected on fixed wings.                      *)
(***************************************************************************)
Sense ==
  /\ at = "sense"
  /\ env' \in Env
  /\ config.rotary => env'.fault # "engine"
  /\ stay' \in {FALSE, stay \/ nav \in {"AUTO_RCRECOVER", "AUTO_RTGS"}}
  /\ at' = "act"
  /\ UNCHANGED <<config, main, nav, failsafe, force, lockdown, is_armed, ordered>>

(***************************************************************************)
(* A mode is asked for: by a command, a switch, the sticks, the geofence,  *)
(* the battery, the end of a takeoff.                                      *)
(***************************************************************************)
Request(new) ==
  /\ at = "act"
  /\ MainGranted(new)
  /\ main' = new
  /\ UNCHANGED <<config, nav, failsafe, force, lockdown, is_armed, stay, env, at, ordered>>

(***************************************************************************)
(* The vehicle is armed or disarmed (see Arming); in HIL the transition    *)
(* locks the outputs.                                                      *)
(***************************************************************************)
Arm(on) ==
  /\ at = "act"
  /\ is_armed # on
  /\ is_armed' = on
  /\ lockdown' = (lockdown \/ config.hil)
  /\ ordered' = IF config.hil THEN ordered \cup {"lockdown"} ELSE ordered
  /\ UNCHANGED <<config, main, nav, failsafe, force, stay, env, at>>

\* Termination: by command, or by the geofence, the mission or the failure detector.
OrderTermination ==
  /\ at = "act"
  /\ force' = TRUE
  /\ ordered' = ordered \cup {"force"}
  /\ UNCHANGED <<config, main, nav, failsafe, lockdown, is_armed, stay, env, at>>

OrderLockdown ==
  /\ at = "act"
  /\ lockdown' = TRUE
  /\ ordered' = ordered \cup {"lockdown"}
  /\ UNCHANGED <<config, main, nav, failsafe, force, is_armed, stay, env, at>>

\* The command that disables both.
OrderNormal ==
  /\ at = "act"
  /\ force' = FALSE /\ lockdown' = FALSE /\ ordered' = {}
  /\ UNCHANGED <<config, main, nav, failsafe, is_armed, stay, env, at>>

\* The end of the iteration: set_nav_state.
Evaluate ==
  /\ at = "act"
  /\ LET r == set_nav_state(Reset([nav |-> nav, main |-> main, failsafe |-> failsafe,
                                   force |-> force, lockdown |-> lockdown]))
     IN  /\ nav' = r.nav /\ main' = r.main /\ failsafe' = r.failsafe
         /\ force' = r.force /\ lockdown' = r.lockdown
         /\ ordered' = ordered \cap ((IF r.force THEN {"force"} ELSE {})
                                     \cup (IF r.lockdown THEN {"lockdown"} ELSE {}))
  /\ at' = "done"
  /\ UNCHANGED <<config, is_armed, stay, env>>

\* The topics are published and the loop sleeps.
Rest ==
  /\ at = "done"
  /\ at' = "sense" /\ env' = NoEnv
  /\ UNCHANGED <<config, main, nav, failsafe, force, lockdown, is_armed, stay, ordered>>

NavNext ==
  \/ Sense \/ Evaluate \/ Rest
  \/ \E new \in Requests : Request(new)
  \/ \E on \in BOOLEAN : Arm(on)
  \/ OrderTermination \/ OrderLockdown \/ OrderNormal

NavSpec == NavInit /\ [][NavNext]_navVars

-----------------------------------------------------------------------------
\* What needs a global position, and what needs a pilot at the sticks.
GlobalNav == {"AUTO_MISSION", "AUTO_LOITER", "AUTO_RTL", "AUTO_FOLLOW_TARGET", "ORBIT",
              "AUTO_RCRECOVER", "AUTO_RTGS"}
StickNav == ManualMain \cup {"POSCTL"}

(***************************************************************************)
(* An armed vehicle is never left in a mode that navigates by a global     *)
(* position it does not have, whichever fallback or link-loss action chose *)
(* the mode.  What can leave the navigation state as it was is a lockdown  *)
(* or an offboard-loss action that is disabled.                            *)
(***************************************************************************)
NavHasPosition ==
  at = "done" /\ is_armed /\ nav \in GlobalNav =>
    gpos \/ lockdown \/ (main = "OFFBOARD" /\ "DISABLED" \in {config.obl, config.obl_rc})

(***************************************************************************)
(* With an RC-loss action set up, an armed vehicle whose RC is lost is not *)
(* left in a mode flown by stick, through every chain of fallbacks between *)
(* offboard, mission and manual modes.  What keeps it there is a lockdown, *)
(* an offboard-loss action that is disabled, or a navigator that still     *)
(* asks to stay in failsafe.                                               *)
(***************************************************************************)
SticksHavePilot ==
  at = "done" /\ is_armed /\ rc_lost /\ nav \in StickNav =>
    lockdown \/ stay \/ (main = "OFFBOARD" /\ config.obl = "DISABLED")

(***************************************************************************)
(* A lockdown that a lost link caused is over with the failsafe: it never  *)
(* outlives the loss.                                                      *)
(***************************************************************************)
LockdownIsLifted ==
  at = "done" /\ lockdown /\ "lockdown" \notin ordered => failsafe

(***************************************************************************)
(* "Recovery from failsafe into orbit is not possible": a failsafe that    *)
(* interrupts an orbit changes the main state, so that the orbit does not  *)
(* resume by itself when the failsafe ends.                                *)
(***************************************************************************)
OrbitIsAbandoned ==
  at = "done" /\ failsafe => main # "ORBIT"

(***************************************************************************)
(* "Safe to do reset flags here, as if loss state persists flags will be   *)
(* restored in the code below": set_nav_state does not undo a termination  *)
(* or lockdown that something other than a lost link ordered.              *)
(***************************************************************************)
ResetsAreSafe ==
  [][at = "act" /\ at' = "done" =>
       /\ "force" \in ordered => force'
       /\ "lockdown" \in ordered => lockdown']_navVars
=============================================================================
