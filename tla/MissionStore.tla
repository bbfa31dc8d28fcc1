----------------------------- MODULE MissionStore -----------------------------
(***************************************************************************)
(* What a ground station and the navigator may expect of the mission       *)
(* store: the vehicle has one mission, it is replaced as a whole and only  *)
(* by a mission that a ground station is offering, it can be cleared, and  *)
(* a power loss does not touch it.                                         *)
(*                                                                         *)
(* The promise ends when the ground stations or the links leave the        *)
(* regular course of the protocol.                                         *)
(***************************************************************************)
CONSTANTS Mission, Empty

VARIABLES current,   \* the mission that a power-up would find
          offered,   \* the missions ground stations are uploading
          regular    \* the promise still holds

storeVars == <<current, offered, regular>>

Init == current \in Mission \cup {Empty} /\ offered = {} /\ regular = TRUE

\* A ground station begins, or ends, to offer a mission.
Offer ==
  /\ UNCHANGED <<current, regular>>
  /\ offered' \subseteq Mission

Replace ==
  /\ current' \in offered
  /\ UNCHANGED <<offered, regular>>

Clear ==
  /\ current' = Empty
  /\ UNCHANGED <<offered, regular>>

Leave ==
  /\ regular' = FALSE
  /\ UNCHANGED current

Irregular == ~regular /\ regular' = FALSE

Next == Offer \/ Replace \/ Clear \/ Leave \/ Irregular

Spec == Init /\ [][Next]_storeVars
=============================================================================
