-------------------------- MODULE MCUpgradeProcess --------------------------
(***************************************************************************)
(* A controller and a hosted model, with a machine each, for TLC.          *)
(***************************************************************************)
EXTENDS UpgradeProcess

MCMachineDoc ==
  [m \in {"server", "worker"} |->
     IF m = "server" THEN [model |-> "m0", id |-> "0", address |-> "10.0.0.1"]
                     ELSE [model |-> "m1", id |-> "0", address |-> "10.0.0.2"]]

MCAgentsOn == [server |-> <<"machine-0">>, worker |-> <<"machine-1">>]

MCFoundConf ==
  [a \in {"machine-0", "machine-1"} |->
     [format |-> "1.18", upgradedTo |-> "2.0-beta7", build |-> <<>>, controller |-> <<>>]]

MCModelOrder == <<"m1", "m0">>

Anyone == [careful |-> FALSE, upgrades |-> 2, rollouts |-> 2, services |-> 0]

Careful == [careful |-> TRUE, upgrades |-> 2, rollouts |-> 2, services |-> 4]

MCOperators == {Anyone, Careful}
=============================================================================
