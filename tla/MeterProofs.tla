----------------------------- MODULE MeterProofs ------------------------------
(***************************************************************************)
(* Why checking before a call is enough: for any number of callers and any *)
(* price of a call, the total stays within one call of each of them.       *)
(***************************************************************************)
EXTENDS Meter, Amounts

\* The total, the calls under way and the limit stay what they are.
THEOREM MeterTyped ==
  ASSUME Sizes
  PROVE  Spec => []TypeOK
<1>1. Init => TypeOK
  BY DEF Sizes, Init, TypeOK
<1>2. ASSUME TypeOK, [Next]_meterVars PROVE TypeOK'
  <2>1. CASE Admit
    BY <1>2, <2>1 DEF Sizes, TypeOK, Admit
  <2>2. CASE Settle
    BY <1>2, <2>2 DEF Sizes, TypeOK, Settle
  <2>3. CASE Raise
    BY <1>2, <2>3 DEF TypeOK, Raise
  <2>4. CASE Reset
    BY <1>2, <2>4 DEF TypeOK, Reset
  <2>5. CASE UNCHANGED meterVars
    BY <1>2, <2>5 DEF TypeOK, meterVars
  <2>6. QED
    BY <1>2, <2>1, <2>2, <2>3, <2>4, <2>5 DEF Next
<1>3. QED
  BY <1>1, <1>2, PTL DEF Spec

\* A call is admitted below the limit, so that whatever the admitted calls
\* cost in the end, the total passes the limit by less than one call of each
\* caller (budget.py:24-27).  The invariant counts the calls under way at
\* their full price.
THEOREM MeterBounded ==
  ASSUME Sizes
  PROVE  Spec => []Bounded
<1>0. Callers \in Nat /\ Charge \in Nat
  BY DEF Sizes
<1>1. Init => Bounded
  BY <1>0, BelowLimit DEF Init, Bounded
<1>2. ASSUME TypeOK, TypeOK', Bounded, [Next]_meterVars PROVE Bounded'
  <2>0. /\ total \in Nat /\ admitted \in Nat /\ limit \in Nat
        /\ total' \in Nat /\ admitted' \in Nat /\ limit' \in Nat
        /\ admitted' <= Callers
    BY <1>0, <1>2 DEF TypeOK
  <2>1. CASE Admit
    BY <1>0, <2>0, <2>1, BelowLimit DEF Admit, Bounded
  <2>2. CASE Settle
    <3>1. PICK cost \in 0..Charge : total' = total + cost
      BY <2>2 DEF Settle
    <3>2. admitted = admitted' + 1 /\ limit' = limit
      BY <2>0, <2>2 DEF Settle
    <3>3. cost \in Nat /\ cost <= Charge
      BY <1>0, <3>1
    <3>4. total + admitted * Charge < limit + Callers * Charge
      BY <1>2 DEF Bounded
    <3>5. (total + cost) + admitted' * Charge < limit + Callers * Charge
      BY <1>0, <2>0, <3>2, <3>3, <3>4, CallEnds
    <3>6. QED
      BY <3>1, <3>2, <3>5 DEF Bounded
  <2>3. CASE Raise
    BY <1>0, <1>2, <2>0, <2>3, HigherLimit DEF Raise, Bounded
  <2>4. CASE Reset
    <3>1. total' < limit'
      BY <1>2, <2>4 DEF Reset, TypeOK
    <3>2. QED
      BY <1>0, <2>0, <3>1, BelowLimit DEF Bounded
  <2>5. CASE UNCHANGED meterVars
    BY <1>2, <2>5 DEF Bounded, meterVars
  <2>6. QED
    BY <1>2, <2>1, <2>2, <2>3, <2>4, <2>5 DEF Next
<1>3. QED
  BY <1>1, <1>2, MeterTyped, PTL DEF Spec
=============================================================================
