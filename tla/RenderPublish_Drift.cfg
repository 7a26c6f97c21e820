CONSTANTS
  s1 = s1
  s2 = s2
  Sessions <- MCSessions
  Repos <- MCRepos
  Sets <- MCSets
  Renders <- MCRenders
  Packaged <- MCPackaged
  RenderFlags <- MCRenderFlags
  PushFlags <- MCPushFlags
  MaxCmds = 4
SPECIFICATION Spec
PROPERTY
  DriftIsReal
