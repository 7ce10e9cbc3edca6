--------------------------- MODULE MCAgentRollout ---------------------------
(***************************************************************************)
(* A controller machine and a hosted one for TLC.                          *)
(***************************************************************************)
EXTENDS AgentRollout

MCMachineDoc ==
  [m \in {"server", "worker"} |->
     IF m = "server" THEN [model |-> "m0", id |-> "0", address |-> "10.0.0.1"]
                     ELSE [model |-> "m1", id |-> "0", address |-> "10.0.0.2"]]

Conf(format, version, build) ==
  [format |-> format, upgradedTo |-> version, build |-> build, controller |-> <<>>]

Beta7Conf == Conf("1.18", "2.0-beta7", <<>>)

\* One agent on each machine.
OneAgentEach == [server |-> <<"machine-0">>, worker |-> <<"machine-1">>]
OneConfEach == [a \in {"machine-0", "machine-1"} |-> Beta7Conf]

\* One machine with a unit, whose agent.conf has a format nobody expects.
MachineAndUnit == [server |-> <<"machine-0", "unit-wp-0">>]
ServerDoc == [m \in {"server"} |-> MCMachineDoc[m]]
MixedConfs == [a \in {"machine-0", "unit-wp-0"} |->
                 IF a = "machine-0" THEN Beta7Conf ELSE Conf("1.16", "2.0-beta7", <<>>)]

\* Agents that were built locally, and one that has not caught up.
BuiltConfs == [a \in {"machine-0", "unit-wp-0"} |->
                 IF a = "machine-0" THEN Conf("1.18", "2.0-beta7", <<".1">>)
                                    ELSE Conf("1.18", "2.0-beta6", <<>>)]

\* Upgraded, or not at all.
BothFound == {<<"uuid", "uuid">>, <<"", "">>}
=============================================================================
