SPECIFICATION FairSpec
CONSTANTS
  crdKRC = crdKRC
  crdOlm = crdOlm
  Units = {1, 2, 3, 4, 5, 6}
  Direct = {1, 2, 3, 5, 6}
  Wave <- MCWave
  DependsOn <- MCDependsOn
  SRCIntent = {1}
  SRCOnly = {3}
  Gated = {2, 5, 6}
  Olm = {5}
  Needs <- MCNeeds
  Brings <- MCBrings
  WaitCRDs = TRUE
  MaxRuns = 3
INVARIANTS WaveBarrier HandoffAfterDirectSet
PROPERTIES Terminates ImplementsOrderedApply
CHECK_DEADLOCK FALSE
