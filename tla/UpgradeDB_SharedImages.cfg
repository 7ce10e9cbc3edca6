\* README.md:54 against upgradeCloudImageMetadata: two models know the same image.
SPECIFICATION Spec
CONSTANTS
  B7States <- MCSharedImages
  MaxRuns = 1
INVARIANT ImageMetadataBecomesGlobal
