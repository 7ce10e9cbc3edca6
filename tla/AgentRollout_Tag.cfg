\* A rewritten agent.conf has the tag, agents of several builds.
SPECIFICATION Spec
CONSTANTS
  Models = {"m0", "m1"}
  ControllerModel = "m0"
  Machines = {"server"}
  MachineDoc <- ServerDoc
  AgentsOn <- MachineAndUnit
  FoundConf <- BuiltConfs
  FoundModels <- BothFound
  Detaching = {}
  MaxRuns = 1
INVARIANTS
  RewrittenConfHasTag
