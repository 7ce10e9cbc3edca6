\* An operator who gives upgrade-db and upgrade-agents in any order, and one who
\* keeps to README.md and reads the answers.
SPECIFICATION Spec
CONSTANTS
  Models = {"m0", "m1"}
  ControllerModel = "m0"
  Machines = {"server", "worker"}
  MachineDoc <- MCMachineDoc
  AgentsOn <- MCAgentsOn
  FoundConf <- MCFoundConf
  ModelOrder <- MCModelOrder
  Operators <- MCOperators
  MaxUpgrades = 2
  MaxRollouts = 2
  MaxServices = 4
INVARIANTS
  ConfsNameTheController
  QuietUpgrade
  CarefulUpgrade
