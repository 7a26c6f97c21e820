CONSTANTS
  s1 = s1
  s2 = s2
  Sessions <- MCTwoSessions
  Repos <- MCTwoRepos
  Sets <- MCSets
  Renders <- MCTwoRenders
  Packaged <- MCTwoPackaged
  RenderFlags <- MCTwoRenderFlags
  PushFlags <- MCTwoPushFlags
  MaxCmds = 3
SYMMETRY SessionSymmetry
SPECIFICATION Spec
INVARIANT PublishedSoFar
PROPERTIES RenderedIsOnDisk RemoteHistoryKept UpToDateIsTrue
