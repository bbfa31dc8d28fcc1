------------------------------- MODULE NavMC -------------------------------
(***************************************************************************)
(* NavState for TLC: a few ways to set up a vehicle that between them      *)
(* reach every outcome of every failsafe action, the main states with a    *)
(* case of their own, and estimators that degrade from a global position   *)
(* to nothing.                                                             *)
(***************************************************************************)
EXTENDS NavState

Setup(rcl, dll, obl, obl_rc, land_terminate, rotary, hil) ==
  [rcl |-> rcl, dll |-> dll, obl |-> obl, obl_rc |-> obl_rc,
   land_terminate |-> land_terminate, rotary |-> rotary, hil |-> hil]

MCConfigs ==
  {Setup("AUTO_RTL", "DISABLED", "AUTO_LAND", "MANUAL_POSITION", FALSE, TRUE, FALSE),
   Setup("AUTO_RECOVER", "AUTO_RECOVER", "AUTO_RTL", "DISABLED", TRUE, TRUE, FALSE),
   Setup("LOCKDOWN", "AUTO_LOITER", "LOCKDOWN", "AUTO_LOITER", FALSE, TRUE, TRUE),
   Setup("TERMINATE", "AUTO_LAND", "DISABLED", "MANUAL_ALTITUDE", TRUE, FALSE, FALSE),
   Setup("DISABLED", "LOCKDOWN", "TERMINATE", "AUTO_LAND", FALSE, FALSE, FALSE)}

MCRequests == {"MANUAL", "POSCTL", "AUTO_MISSION", "AUTO_LOITER", "ORBIT", "OFFBOARD"}

MCEstimates == {Quantity, Quantity \ {"home"}, {"lpos", "alt"}, {"alt"}, {}}
=============================================================================
