------------------------------ MODULE MCPipeline ------------------------------
(* Pipeline on small instances. *)
EXTENDS PipelineQueue, TLC

CONSTANTS f1, f2, w1, w2, o1, p1, p2, sigA, sigB

(* Findings, workers, containers and signatures are interchangeable; used  *)
(* by the runs that check no liveness.                                     *)
Symmetry == Permutations(Finding) \cup Permutations(Worker)
            \cup Permutations(Pod) \cup Permutations(Signature)

=============================================================================
