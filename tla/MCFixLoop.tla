------------------------------ MODULE MCFixLoop ------------------------------
(* FixLoop on small instances. *)
EXTENDS FixLoop, TLC

CONSTANTS
    image, clean,       \* the original file, and after errors='replace'
    fix,                \* repairs it
    useless, deeper,    \* change nothing; uncover another crash
    bug, other

MCCrash == image :> bug @@ clean :> bug @@ useless :> bug
           @@ deeper :> other @@ fix :> NoCrash

MCDecode == [v \in Version |-> IF v = image THEN clean ELSE v]

(* Every kind of finding that can be investigated or patched. *)
AllTargets == [build : BOOLEAN, daemon : BOOLEAN, investigate : BOOLEAN]

(* A one-shot fix of a built program. *)
Plain == {[build |-> TRUE, daemon |-> FALSE, investigate |-> FALSE]}

(* A one-shot fix of a server. *)
Daemon == {[build |-> TRUE, daemon |-> TRUE, investigate |-> FALSE]}

=============================================================================
