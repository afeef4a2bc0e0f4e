------------------------------- MODULE Meter --------------------------------
(***************************************************************************)
(* What a cost ceiling promises, whatever keeps the books: a call is       *)
(* admitted only while the recorded total is below the limit, it is        *)
(* charged once, and the limit only rises.  budget.py implements one meter *)
(* per finding (Budget.tla).  Calls are charged after they are made, so    *)
(* the total may pass the limit, by what the callers of the moment can add.*)
(***************************************************************************)
EXTENDS Integers

CONSTANTS
  Callers,  \* how many calls can be under way at once
  Charge    \* the most one admitted call can cost

\* What the values of the constants must be for Bounded.
Sizes == Callers \in Nat \ {0} /\ Charge \in Nat

VARIABLES
  total,    \* what has been recorded
  admitted, \* calls admitted and not yet charged
  limit

meterVars == <<total, admitted, limit>>

Init == total = 0 /\ admitted = 0 /\ limit \in Nat \ {0}

\* A call is let through: the total is still below the limit.
Admit ==
  /\ total < limit
  /\ admitted < Callers
  /\ admitted' = admitted + 1
  /\ UNCHANGED <<total, limit>>

\* The call is over and its cost is on the books; a call whose caller died
\* in it costs nothing here.
Settle ==
  /\ admitted > 0
  /\ admitted' = admitted - 1
  /\ \E cost \in 0..Charge : total' = total + cost
  /\ UNCHANGED limit

\* Someone grants more.
Raise ==
  /\ limit' \in Nat
  /\ limit' >= limit
  /\ UNCHANGED <<total, admitted>>

\* The count starts again.
Reset ==
  /\ total' = 0
  /\ UNCHANGED <<admitted, limit>>

Next == Admit \/ Settle \/ Raise \/ Reset

Spec == Init /\ [][Next]_meterVars

TypeOK ==
  /\ total \in Nat
  /\ admitted \in 0..Callers
  /\ limit \in Nat \ {0}

\* What is on the books never passes the limit by more than one call of
\* every caller, and what is still to be booked is part of that allowance.
Bounded == total + admitted * Charge < limit + Callers * Charge
=============================================================================
