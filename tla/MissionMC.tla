------------------------------ MODULE MissionMC ------------------------------
(***************************************************************************)
(* MissionTransfer for TLC.                                                *)
(***************************************************************************)
EXTENDS MissionTransfer

\* Two ground stations that work on the mission; one that uploads the fence
\* while another one looks at it and clears it; a mission and a fence at once;
\* a mission while another one clears everything or announces odd counts.
MCPlans ==
  LET first == CHOOSE l \in Link : TRUE
      pair(A, B) == [l \in Link |-> IF l = first THEN A ELSE B]
      mission(roles) == {"mission"} \X roles
      fence(roles) == {"fence"} \X roles
  IN  {pair(mission({"upload", "download", "edit"}), mission({"upload"})),
       pair(mission({"upload", "download", "edit"}), mission({"edit"})),
       pair(fence({"upload"}), fence({"download", "edit"})),
       pair(mission({"upload"}), fence({"upload"})),
       pair(mission({"upload"}), {<<"all", "edit">>}),
       pair(mission({"upload"}), Types \X {"empty", "excess"})}

\* Behaviours are followed up to their first irregularity.
UpToSlip == slip = {}
=============================================================================
