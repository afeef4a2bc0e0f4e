------------------------------ MODULE MCBudget ------------------------------
(* Values of the constants of Budget for TLC. *)
EXTENDS Budget, TLC

CONSTANTS f1, c1, w1, w2

\* The file leaves the dollars at 0, and gets the default.
File == [tokens |-> 1, usd |-> 0]
Default == [tokens |-> 9, usd |-> 1]
Panel == {[tokens |-> 2, usd |-> 1]}
Grant == {[tokens |-> 1, usd |-> 1]}

\* More room, for the runs with one worker.
WideFile == [tokens |-> 2, usd |-> 0]
WideDefault == [tokens |-> 9, usd |-> 3]
LowPanel == {[tokens |-> 1, usd |-> 0]}

None == {}

Symmetry == Permutations({w1, w2})
=============================================================================
