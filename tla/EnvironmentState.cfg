SPECIFICATION Spec
CONSTANTS
  Bases = {"isolated", "local", "both", "metal"}
  Edits = {"proxy http", "proxy bare", "proxy port", "proxy anonymous", "proxy none",
           "source allowed", "source foreign", "source release", "mirror moved", "mirror untrusted",
           "mirror kept", "no release", "no base domain", "no secret", "own source",
           "own source allowed", "own source foreign", "own trust", "override proxy", "override compute",
           "workers only", "node renamed", "node doubled", "infra shared", "no gateway",
           "second network", "second interface", "no address", "own mac", "profile",
           "endpoint named", "ingress apart", "unknown provider", "two suppliers", "apart",
           "elsewhere", "no machines", "kubevirt", "registry port", "no user"}
  Inputs <- MCInputs
  Users = {"op", ""}
  Hubs = {2}
  Scopes = {{}, {2}, {9}}
INVARIANT ValidRenders
INVARIANT NormalizeSettles
INVARIANT ScopedAsWhole
INVARIANT BackendsAreNodes
INVARIANT DisconnectedStaysLocal
INVARIANT ClusterProxied
CHECK_DEADLOCK FALSE
