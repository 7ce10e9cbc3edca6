\* Two machines, scripts that end with their connection.
SPECIFICATION FairSpec
CONSTANTS
  Models = {"m0", "m1"}
  ControllerModel = "m0"
  Machines = {"server", "worker"}
  MachineDoc <- MCMachineDoc
  AgentsOn <- OneAgentEach
  FoundConf <- OneConfEach
  FoundModels <- BothFound
  Detaching = {}
  MaxRuns = 2
INVARIANTS
  TypeOK
  EveryMachineAnswersOnce
  CleanMeansSwitched
  BackupKept
PROPERTIES
  EveryRunEnds
