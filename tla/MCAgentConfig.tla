---------------------------- MODULE MCAgentConfig ----------------------------
(* AgentConfig with a machine and a unit, one controller, two passwords.    *)
EXTENDS AgentConfig

mc_Tags == {"machine-0", "unit-db-0"}
mc_MachineTags == {"machine-0"}
mc_Versions == {"1.16.0", "2.0-beta7", "2.0-rc1"}

mc_Address(h, p) == [host |-> h, port |-> p]
mc_State == <<mc_Address("10.0.0.1", 37017)>>
mc_API == <<mc_Address("10.0.0.1", 17070)>>
mc_APIs == <<mc_Address("10.0.0.2", 17070), mc_Address("localhost", 17070)>>
mc_Addresses ==
    {mc_State[1], mc_API[1], mc_APIs[1], mc_APIs[2], mc_Address("10.0.0.3", None)}
mc_AddressLists == {mc_APIs}

mc_Info == [key |-> "p1", statePort |-> 37017, apiPort |-> 17070, identity |-> "p2"]
mc_Infos ==
    {mc_Info, [mc_Info EXCEPT !.statePort = 0],
     [mc_Info EXCEPT !.key = None, !.identity = None]}

(* The files of a beta 7: a controller's, with and without its state port,  *)
(* a plain machine's, and a unit's without a model.                         *)
mc_Beta ==
    [tag |-> "machine-0", paths |-> NewPathsWithDefaults([data |-> "/var"]),
     controller |-> None, model |-> "model", upgradedTo |-> "2.0-beta7",
     caCert |-> "p1", oldPassword |-> "p1", values |-> {"key"}, mongo |-> None,
     state |-> [addresses |-> mc_State, password |-> "p2"],
     api |-> [addresses |-> mc_API, password |-> "p2"], serving |-> mc_Info]
mc_BetaConfigs ==
    {mc_Beta, [mc_Beta EXCEPT !.serving.statePort = 0],
     [mc_Beta EXCEPT !.serving = None, !.state = None],
     [mc_Beta EXCEPT !.serving = None, !.tag = "unit-db-0", !.model = None]}

mc_Param ==
    [tag |-> "machine-0", paths |-> [data |-> "/var", conf |-> None],
     controller |-> "uuid", model |-> "model", upgradedTo |-> "2.0-rc1",
     caCert |-> "p1", password |-> "p1", values |-> {}, mongo |-> "3.2",
     stateAddresses |-> mc_State, apiAddresses |-> mc_API]
mc_Params ==
    {mc_Param, [mc_Param EXCEPT !.stateAddresses = << >>, !.paths.conf = "/var"],
     [mc_Param EXCEPT !.password = None],
     [mc_Param EXCEPT !.apiAddresses = <<mc_Address("10.0.0.3", None)>>],
     [mc_Param EXCEPT !.stateAddresses = << >>, !.apiAddresses = << >>]}
=============================================================================
