----------------------------- MODULE RowProduct -----------------------------
(***************************************************************************)
(* What a distributed matrix product promises: the rows of the product are *)
(* filled in some order, each with its own value, and the result is        *)
(* declared right only when all of them are there.                         *)
(***************************************************************************)
EXTENDS Integers

CONSTANT N, Zero

VARIABLES C,        \* C[r]: the row whose product row r holds, or Zero
          verdict

vars == <<C, verdict>>
Rows == 0..(N - 1)

Init == C = [r \in Rows |-> Zero] /\ verdict = "none"

Fill == \E S \in SUBSET Rows :
  /\ verdict = "none"
  /\ C' = [r \in Rows |-> IF r \in S THEN r ELSE C[r]]
  /\ UNCHANGED verdict

Declare == /\ verdict = "none" /\ (\A r \in Rows : C[r] = r)
           /\ verdict' = "No errors." /\ UNCHANGED C

Next == Fill \/ Declare

Spec == Init /\ [][Next]_vars
=============================================================================
