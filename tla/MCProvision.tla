---------------------------- MODULE MCProvision ----------------------------
(* Values of the constants of Provision for TLC. *)
EXTENDS Provision

\* A bare image has no source tree and builds nothing, a warm one builds only
\* with the network.
MCSetups == {"bare", "warm", "built"}
MCTagSetups == {"bare", "built"}
MCWarm == {"warm", "built"}
MCFails ==
  [s \in MCSetups |-> CASE s = "bare" -> {"tree", "smoke"}
                        [] s = "warm" -> {"smoke"}
                        [] OTHER      -> {}]
=============================================================================
