------------------------------- MODULE Timer ---------------------------------
(***************************************************************************)
(* What the hrt promises its users: a call is made at its deadline or      *)
(* later, in the order of the deadlines; a repeating call has its next     *)
(* deadline one period after the last one, however late it was made; and a *)
(* call that was cancelled is not made.                                    *)
(***************************************************************************)
EXTENDS Naturals

CONSTANTS Entry,        \* the calls
          NoEntry       \* no call

VARIABLES time,         \* the current time, never 0
          pending,      \* pending[e]: when the call is to be made, 0 for never
          every,        \* every[e]: the period of a repeating call, or 0
          calling       \* the call that is being made, or NoEntry

vars == <<time, pending, every, calling>>

Init ==
  /\ time = 1
  /\ pending = [e \in Entry |-> 0]
  /\ every = [e \in Entry |-> 0]
  /\ calling = NoEntry

Pass ==
  /\ time' = time + 1
  /\ UNCHANGED <<pending, every, calling>>

\* The call is to be made at some time that is not in the past.
Arm(e) ==
  /\ pending'[e] >= time
  /\ pending' = [pending EXCEPT ![e] = pending'[e]]
  /\ every' = [every EXCEPT ![e] = every'[e]]
  /\ UNCHANGED <<time, calling>>

Disarm(e) ==
  /\ pending' = [pending EXCEPT ![e] = 0]
  /\ every' = [every EXCEPT ![e] = 0]
  /\ UNCHANGED <<time, calling>>

Fire(e) ==
  /\ calling = NoEntry
  /\ pending[e] # 0 /\ pending[e] <= time
  /\ \A f \in Entry : pending[f] # 0 => pending[e] <= pending[f]
  /\ calling' = e
  /\ pending' = [pending EXCEPT ![e] = IF every[e] = 0 THEN 0 ELSE @ + every[e]]
  /\ UNCHANGED <<time, every>>

Finish ==
  /\ calling # NoEntry
  /\ calling' = NoEntry
  /\ UNCHANGED <<time, pending, every>>

Next ==
  \/ Pass
  \/ \E e \in Entry : Arm(e) \/ Disarm(e) \/ Fire(e)
  \/ Finish

Spec == Init /\ [][Next]_vars
=============================================================================
