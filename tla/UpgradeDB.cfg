\* Every command, dry and live, over every kind of database found.
SPECIFICATION FairSpec
CONSTANTS
  B7States <- MCB7States
  MaxRuns = 3
INVARIANTS
  TypeOK
  ControllerUUIDAgrees
  OneRunMigrates
  OnlyRepeatedRunsAbort
  CredentialsKept
  EveryDocumentHasOneHome
  ReferencesResolve
  RefcountsMatch
  OkMeansUpgraded
  IdentityInv
  CredentialsInv
  StagesInv
  HomesInv
  ReferencesInv
  FirstRunInv
  CountsInv
PROPERTIES
  UUIDIsPermanent
  DryRunChangesNothing
  KeepsPromise
  EveryCommandEnds
