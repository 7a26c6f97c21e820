SPECIFICATION FullSpec
CONSTANTS
  N = 5
  NRefs = 3
  Names <- MCNames
  Entries <- MCEntries
  ByName <- MCByName
  extraDependsOn <- MCExtra
  DepLists <- MCDepLists
  RepoOf <- MCRepoOf
  Service = {4}
INVARIANTS WaveOrder WavesTight RefusedOnlyOnCycle DependenciesFirst SortRefusedOnlyOnCycle LateCycles FirstUnitServed
CHECK_DEADLOCK FALSE
