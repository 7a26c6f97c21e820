---------------------------- MODULE RenderPublish_MC ----------------------------
(* Repository 1 is rendered by both sets with other contents, 2 by the first  *)
(* set only, and 3 is a service-resources repository no package goes to.      *)
EXTENDS RenderPublish, TLC

CONSTANTS s1, s2

MCSessions == {s1}
MCTwoSessions == {s1, s2}
MCRepos == 1..3
MCSets == {"v1", "v2"}
MCRenders == "v1" :> (1 :> "a" @@ 2 :> "b" @@ 3 :> "readme")
          @@ "v2" :> (1 :> "c" @@ 3 :> "readme")
MCPackaged == "v1" :> {1, 2} @@ "v2" :> {1}
\* With two terminals, two repositories: packages go to both under the first
\* set; the second has no packages, 1 is its service-resources repository
\* and 2 an orphan.
MCTwoRepos == 1..2
MCTwoRenders == "v1" :> (1 :> "a" @@ 2 :> "b") @@ "v2" :> (1 :> "readme")
MCTwoPackaged == "v1" :> {1, 2} @@ "v2" :> {}
\* ... and the combinations of flags that matter to what two terminals share.
MCTwoRenderFlags == {{}, {"prune", "skip"}}
MCTwoPushFlags == {{}, {"create"}, {"create", "dry"}, {"create", "force"}}
MCRenderFlags == SUBSET {"prune", "skip"}
MCPushFlags == SUBSET {"force", "dry", "create"}
SessionSymmetry == Permutations(MCTwoSessions)
===============================================================================
