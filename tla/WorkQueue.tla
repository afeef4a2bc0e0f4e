------------------------------ MODULE WorkQueue -------------------------------
(***************************************************************************)
(* What the store and the runner promise together: a queue of jobs that a  *)
(* taker works on alone, and that comes back from every holding either     *)
(* finished with, set aside for a human, or queued again with strictly     *)
(* more progress than before.                                              *)
(***************************************************************************)
EXTENDS Naturals

CONSTANTS Job, Taker, Nobody

VARIABLES phase, holder, progress

vars == <<phase, holder, progress>>

TypeOK ==
    /\ phase \in [Job -> {"absent", "queued", "held", "parked", "closed"}]
    /\ holder \in [Job -> Taker \cup {Nobody}]
    /\ progress \in [Job -> Nat]

Init ==
    /\ phase = [j \in Job |-> "absent"]
    /\ holder = [j \in Job |-> Nobody]
    /\ progress \in [Job -> Nat]

Submit(j) ==
    /\ phase[j] = "absent"
    /\ phase' = [phase EXCEPT ![j] = "queued"]
    /\ UNCHANGED <<holder, progress>>

Take(t, j) ==
    /\ phase[j] = "queued"
    /\ \A k \in Job : holder[k] # t
    /\ phase' = [phase EXCEPT ![j] = "held"]
    /\ holder' = [holder EXCEPT ![j] = t]
    /\ UNCHANGED progress

LetGo(t, j, p) ==
    /\ holder[j] = t
    /\ phase' = [phase EXCEPT ![j] = p]
    /\ holder' = [holder EXCEPT ![j] = Nobody]
    /\ \A k \in Job \ {j} : progress'[k] = progress[k]

PutBack(t, j) == LetGo(t, j, "queued") /\ progress'[j] > progress[j]

Park(t, j) == LetGo(t, j, "parked") /\ progress'[j] = progress[j]

Finish(t, j) == LetGo(t, j, "closed") /\ progress'[j] >= progress[j]

Next ==
    \/ \E j \in Job : Submit(j)
    \/ \E t \in Taker, j \in Job :
          Take(t, j) \/ PutBack(t, j) \/ Park(t, j) \/ Finish(t, j)

Spec == Init /\ [][Next]_vars

=============================================================================
