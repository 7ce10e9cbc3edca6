\* One machine with two agents, scripts that outlive their connection.
SPECIFICATION Spec
CONSTANTS
  Models = {"m0", "m1"}
  ControllerModel = "m0"
  Machines = {"server"}
  MachineDoc <- ServerDoc
  AgentsOn <- MachineAndUnit
  FoundConf <- MixedConfs
  FoundModels <- BothFound
  Detaching = {"server"}
  MaxRuns = 3
INVARIANTS
  ConfRewrittenOnce
