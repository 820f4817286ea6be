------------------------ MODULE MCProposalExecution ------------------------
(* Proposals on small instances: the action of each proposal.              *)
EXTENDS ProposalExecution

CONSTANTS native, other

\* A native plan, which every policy allows, and a simulation.
NativeAndSimulation ==
    [p \in Proposals |-> IF p = native THEN "native_engineering" ELSE "simulation"]

\* A native plan and a debugging plan, which becomes a version on the desktop.
NativeAndDebug ==
    [p \in Proposals |-> IF p = native THEN "native_engineering" ELSE "debug"]

\* A native plan and a local candidate: both become versions.
NativeAndLocal ==
    [p \in Proposals |-> IF p = native THEN "native_engineering" ELSE "accept_local"]
=============================================================================
