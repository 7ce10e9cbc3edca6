\* Every sequence of three agents commands.
SPECIFICATION FairSpec
CONSTANTS
  Models = {"m0", "m1"}
  ControllerModel = "m0"
  Machines = {"server", "worker"}
  MachineDoc <- MCMachineDoc
  AgentsOn <- MCAgentsOn
  Detaching = {"server"}
  MaxCommands = 3
INVARIANTS
  TypeOK
  EveryMachineAnswersOnce
  CleanSpeaksOfLastAgent
PROPERTIES
  ControllerStartsAlone
  EveryAgentsCommandEnds
