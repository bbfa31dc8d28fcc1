----------------------------- MODULE TopicPollMC -----------------------------
(***************************************************************************)
(* Two threads that poll two topics in opposite orders; one of them has an *)
(* interval.  The set of t1 can be doubled once, the set of t2 has one     *)
(* slot, so that either thread may find it full, as its first descriptor   *)
(* or as its second.                                                       *)
(***************************************************************************)
EXTENDS TopicPoll, TLC

CONSTANTS t1, t2, p1, p2

MCFds == (p1 :> <<t1, t2>>) @@ (p2 :> <<t2, t1>>)
MCLimit == (t1 :> 2) @@ (t2 :> 1)
=============================================================================
