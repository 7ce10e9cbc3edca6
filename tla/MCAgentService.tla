--------------------------- MODULE MCAgentService ---------------------------
(***************************************************************************)
(* A controller machine, where scripts outlive their connection, and a     *)
(* hosted machine with a unit, which is called 0 as well, for TLC.         *)
(***************************************************************************)
EXTENDS AgentService

MCMachineDoc ==
  [m \in {"server", "worker"} |->
     IF m = "server" THEN [model |-> "m0", id |-> "0", address |-> "10.0.0.1"]
                     ELSE [model |-> "m1", id |-> "0", address |-> "10.0.0.2"]]

MCAgentsOn == [server |-> <<"machine-0">>, worker |-> <<"machine-1", "unit-wp-0">>]
=============================================================================
