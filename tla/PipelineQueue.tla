---------------------------- MODULE PipelineQueue -----------------------------
(***************************************************************************)
(* The pipeline seen as a work queue.  The mapping forgets stages, pods    *)
(* and operators: it keeps where a row is, who holds it, and how far its   *)
(* stage and its attempts have come.                                       *)
(***************************************************************************)
EXTENDS Pipeline

CONSTANT NoWorker

ASSUME QueueAssumption == NoWorker \notin Worker

QueuePhase(f) ==
    CASE row[f].state = "absent"  -> "absent"
      [] row[f].state = "pending" -> "queued"
      [] row[f].state = "running" -> "held"
      [] row[f].state \in {"blocked", "pending_signoff"} -> "parked"
      [] OTHER -> "closed"

HolderOf(f) ==
    IF \E w \in Worker : Holds(w) /\ job[w] = f
    THEN CHOOSE w \in Worker : Holds(w) /\ job[w] = f
    ELSE NoWorker

Progress(f) == Position[row[f].stage] * (MaxAttempts + 1) + row[f].attempts

Queue == INSTANCE WorkQueue WITH
    Job <- Finding, Taker <- Worker, Nobody <- NoWorker,
    phase <- [f \in Finding |-> QueuePhase(f)],
    holder <- [f \in Finding |-> HolderOf(f)],
    progress <- [f \in Finding |-> Progress(f)]

(* The store and the runner implement the queue: one holder per finding,   *)
(* every result lets go of it, and a finding is only queued again with     *)
(* more progress, so that no sequence of results can cycle.                *)
ImplementsQueue == Queue!Spec

=============================================================================
