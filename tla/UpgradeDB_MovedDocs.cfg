\* README.md:55,61 against updateCollectionIDGlobalKey and upgradeCloudImageMetadata.
SPECIFICATION Spec
CONSTANTS
  B7States <- MCSmallStates
  MaxRuns = 1
INVARIANT MovedDocsLoseUUIDs
