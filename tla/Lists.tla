-------------------------------- MODULE Lists --------------------------------
(***************************************************************************)
(* Sequences without duplicates, as the contents of linked lists.          *)
(***************************************************************************)
EXTENDS Naturals, Sequences

Members(s) == {s[k] : k \in 1..Len(s)}

Distinct(s) == \A j, k \in 1..Len(s) : s[j] = s[k] => j = k

\* The sequence s, which has no duplicates, without its element n.
Without(s, n) ==
  LET p == CHOOSE k \in 1..Len(s) : s[k] = n
  IN  IF \E k \in 1..Len(s) : s[k] = n
      THEN [k \in 1..(Len(s) - 1) |-> s[IF k < p THEN k ELSE k + 1]]
      ELSE s

\* The sequence s with n as its element number p.
With(s, p, n) ==
  [k \in 1..(Len(s) + 1) |-> IF k < p THEN s[k] ELSE IF k = p THEN n ELSE s[k - 1]]
=============================================================================
