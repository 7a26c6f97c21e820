SPECIFICATION CatalogSpec
CONSTANTS
  Sessions = {1, 2}
  MaxCmds = 4
  MaxCommits = 3
  Kills = TRUE
  Names = {"metallb", "argocd"}
  Files = {"package.yaml", "install", "resources"}
  Digest <- MCDigest
  Declared <- MCSets
  Whole = FALSE
INVARIANT LastSourceComplete
PROPERTY PinnedWhenResolved
CHECK_DEADLOCK FALSE
