------------------------------ MODULE RenderPublish ------------------------------
(***************************************************************************)
(* The rendered repositories on disk and at the git provider: `render      *)
(* gitops` (render.Render: swapEntries, pruneOrphanDirs, the determinism   *)
(* check), `push gitops` (push.Push) and `status gitops` (DiffWorkspace)   *)
(* run against one workspace, each a sequence of file, git and REST calls  *)
(* that may be killed between any two.  A repository's content is a value  *)
(* that tells renders apart; a git history is the number of the `git init` *)
(* it began with, its number of commits and what its head holds, which is  *)
(* all a fast-forward check depends on.                                    *)
(***************************************************************************)
EXTENDS Integers, FiniteSets

CONSTANTS Sessions, \* terminals running commands
          Repos,    \* repository names, numbered alphabetically
          Sets,     \* expanded package sets the workspace may hold
          Renders,  \* set -> (repository it renders -> content)
          Packaged, \* set -> repositories a resolved package is rendered to
          RenderFlags, \* the sets of flags a render may be given
          PushFlags,   \* and a push
          MaxCmds   \* bound: commands started

ASSUME ReposAssumption == Repos \subseteq Nat /\ IsFiniteSet(Repos)
ASSUME RendersAssumption ==
  \A v \in Sets : /\ DOMAIN Renders[v] \subseteq Repos
                  /\ Packaged[v] \subseteq DOMAIN Renders[v]
ASSUME BoundAssumption == MaxCmds \in Nat
ASSUME FlagsAssumption ==
  RenderFlags \subseteq SUBSET {"prune", "skip"} /\ PushFlags \subseteq SUBSET {"force", "dry", "create"}

VARIABLES
  want,     \* .bootwright/expanded/gitops-package-set.yaml
  tree,     \* render root: repository -> its rendered files, "partial" or "absent"
  authored, \* repositories whose directory holds files of the user
  local,    \* .git of the repository's directory, or NoGit
  remote,   \* repository at the provider: NoRepo, Empty or a history
  inits, cmds, \* `git init`s and commands so far
  pc, has, left, flags, last, \* per session: position, loaded set, repositories
                              \* to do, command line flags, last outcome
  drift     \* per session: whether a comparison found a difference so far

disk == <<tree, authored, local>>
session == <<pc, has, left, flags, last, drift>>
vars == <<want, disk, remote, inits, cmds, session>>

NoGit == [init |-> 0, commits |-> 0, head |-> <<"none">>]
NoRepo == [init |-> -1, commits |-> 0, head |-> <<"none">>]
Empty == [init |-> 0, commits |-> 0, head |-> <<"none">>]

Contents == UNION {{Renders[v][r] : r \in DOMAIN Renders[v]} : v \in Sets}

First(S) == CHOOSE r \in S : \A q \in S : r <= q
Cur(s) == First(left[s])
Exists(r) == tree[r] # "absent"

\* What `git add -A` of the directory stages.
Worktree(r) == <<tree[r], r \in authored>>

NothingRendered == [r \in Repos |-> "absent"]
JustRendered(v) ==
  [r \in Repos |-> IF r \in DOMAIN Renders[v] THEN Renders[v][r] ELSE "absent"]

\* A new workspace, or one that was rendered and never pushed.
Init ==
  /\ want \in Sets
  /\ tree \in {NothingRendered, JustRendered(want)}
  /\ authored = {}
  /\ local = [r \in Repos |-> NoGit]
  /\ remote = [r \in Repos |-> NoRepo]
  /\ inits = 0 /\ cmds = 0
  /\ pc = [s \in Sessions |-> "idle"]
  /\ has = [s \in Sessions |-> CHOOSE v \in Sets : TRUE]
  /\ left = [s \in Sessions |-> {}]
  /\ flags = [s \in Sessions |-> {}]
  /\ last = [s \in Sessions |-> "none"]
  /\ drift = [s \in Sessions |-> FALSE]

\* The command ends with an outcome; its first error is its end.
EndWith(s, outcome) ==
  /\ pc' = [pc EXCEPT ![s] = "idle"]
  /\ left' = [left EXCEPT ![s] = {}]
  /\ last' = [last EXCEPT ![s] = outcome]
  /\ has' = [has EXCEPT ![s] = CHOOSE v \in Sets : TRUE]
  /\ flags' = [flags EXCEPT ![s] = {}]
  /\ drift' = [drift EXCEPT ![s] = FALSE]

GoTo(s, p) == pc' = [pc EXCEPT ![s] = p] /\ UNCHANGED <<has, left, flags, last, drift>>

\* A command loads the expanded set once.
Begin(s, p, todo, fs) ==
  /\ pc[s] = "idle"
  /\ cmds < MaxCmds
  /\ cmds' = cmds + 1
  /\ pc' = [pc EXCEPT ![s] = p]
  /\ has' = [has EXCEPT ![s] = want]
  /\ left' = [left EXCEPT ![s] = todo]
  /\ flags' = [flags EXCEPT ![s] = fs]
  /\ UNCHANGED <<want, disk, remote, inits, last, drift>>

-------------------------------------------------------------------------------
(* The user.                                                                *)

\* expand, fill or an edit of the source leaves another set to render.
Reexpand(v) ==
  /\ v # want
  /\ want' = v
  /\ UNCHANGED <<disk, remote, inits, cmds, session>>

\* The README of a service-resources repository: its "contents are authored
\* directly by users".
Author(r) ==
  /\ r \in DOMAIN Renders[want] \ Packaged[want]
  /\ Exists(r)
  /\ authored' = authored \cup {r}
  /\ UNCHANGED <<want, tree, local, remote, inits, cmds, session>>

-------------------------------------------------------------------------------
(* render: the whole tree is in a temporary directory; failures before the  *)
(* swap change nothing.                                                     *)
Render(s, fs) ==
  Begin(s, "swap", DOMAIN Renders[want], fs)

Gone(r) ==
  /\ tree' = [tree EXCEPT ![r] = "absent"]
  /\ authored' = authored \ {r}
  /\ local' = [local EXCEPT ![r] = NoGit]

\* RemoveAll takes the directory's files one by one, its .git among them.
RemovePart(s) ==
  /\ pc[s] \in {"swap", "prune"} /\ left[s] # {}
  /\ tree[Cur(s)] \in Contents
  /\ tree' = [tree EXCEPT ![Cur(s)] = "partial"]
  /\ local' \in {local, [local EXCEPT ![Cur(s)] = NoGit]}
  /\ UNCHANGED <<want, authored, remote, inits, cmds, session>>

RemoveRest(s) ==
  /\ pc[s] = "swap" /\ left[s] # {}
  /\ tree[Cur(s)] = "partial"
  /\ Gone(Cur(s))
  /\ GoTo(s, "rename")
  /\ UNCHANGED <<want, remote, inits, cmds>>

\* Rename moves the new directory in, whole; onto one that is there it fails.
SwapRename(s) ==
  /\ \/ pc[s] = "rename"
     \/ pc[s] = "swap" /\ left[s] # {} /\ ~ Exists(Cur(s))
  /\ IF Exists(Cur(s))
       THEN EndWith(s, "failed") /\ UNCHANGED disk
       ELSE /\ tree' = [tree EXCEPT ![Cur(s)] = Renders[has[s]][Cur(s)]]
            /\ left' = [left EXCEPT ![s] = left[s] \ {Cur(s)}]
            /\ pc' = [pc EXCEPT ![s] = "swap"]
            /\ UNCHANGED <<authored, local, has, flags, last, drift>>
  /\ UNCHANGED <<want, remote, inits, cmds>>

\* What the check of the second pass goes through, if it is not skipped.
ToCheck(s) == IF "skip" \in flags[s] THEN {} ELSE DOMAIN Renders[has[s]]

\* Everything is in place; --prune lists the directories this set has not.
Swapped(s) ==
  /\ pc[s] = "swap" /\ left[s] = {}
  /\ LET orphans == {r \in Repos : Exists(r)} \ DOMAIN Renders[has[s]]
     IN  /\ left' = [left EXCEPT ![s] = IF "prune" \in flags[s] THEN orphans ELSE ToCheck(s)]
         /\ pc' = [pc EXCEPT ![s] = IF "prune" \in flags[s] THEN "prune" ELSE "check"]
  /\ UNCHANGED <<want, disk, remote, inits, cmds, has, flags, last, drift>>

\* Mutant of Prune: a listed directory is passed over.
PruneForgets(s) ==
  /\ pc[s] = "prune"
  /\ UNCHANGED disk
  /\ pc' = [pc EXCEPT ![s] = "check"]
  /\ left' = [left EXCEPT ![s] = ToCheck(s)]
  /\ UNCHANGED <<want, remote, inits, cmds, has, flags, last, drift>>

\* One orphan is removed, or there is none left.
Prune(s) ==
  /\ pc[s] = "prune"
  /\ IF left[s] = {}
       THEN /\ pc' = [pc EXCEPT ![s] = "check"]
            /\ left' = [left EXCEPT ![s] = ToCheck(s)]
            /\ UNCHANGED disk
       ELSE /\ tree[Cur(s)] \notin Contents
            /\ Gone(Cur(s))
            /\ left' = [left EXCEPT ![s] = left[s] \ {Cur(s)}]
            /\ UNCHANGED pc
  /\ UNCHANGED <<want, remote, inits, cmds, has, flags, last, drift>>

(* DiffWorkspace: the repositories of a set rendered aside, one after the    *)
(* other, first their rendered files, then what else their directory holds;  *)
(* the directories of the render root last.                                  *)

Differs(v, r) == tree[r] # Renders[v][r]

\* The walk takes the whole directory, what git keeps in it too.
HasExtras(r) == r \in authored \/ local[r] # NoGit

Orphans(v) == {r \in Repos \ DOMAIN Renders[v] : Exists(r)}

\* Mutant of CompareFiles: what the repositories before it showed is dropped.
CompareForgets(s) ==
  /\ pc[s] \in {"check", "diff"} /\ left[s] # {}
  /\ drift' = [drift EXCEPT ![s] = Differs(has[s], Cur(s))]
  /\ IF pc[s] = "check"
       THEN left' = [left EXCEPT ![s] = left[s] \ {Cur(s)}] /\ UNCHANGED pc
       ELSE pc' = [pc EXCEPT ![s] = "extra"] /\ UNCHANGED left
  /\ UNCHANGED <<want, disk, remote, inits, cmds, has, flags, last>>

\* compareRepoTree's first walk; the check passes over extra files.
CompareFiles(s) ==
  /\ pc[s] \in {"check", "diff"} /\ left[s] # {}
  /\ drift' = [drift EXCEPT ![s] = drift[s] \/ Differs(has[s], Cur(s))]
  /\ IF pc[s] = "check"
       THEN left' = [left EXCEPT ![s] = left[s] \ {Cur(s)}] /\ UNCHANGED pc
       ELSE pc' = [pc EXCEPT ![s] = "extra"] /\ UNCHANGED left
  /\ UNCHANGED <<want, disk, remote, inits, cmds, has, flags, last>>

\* Its second walk.
CompareExtras(s) ==
  /\ pc[s] = "extra"
  /\ drift' = [drift EXCEPT ![s] = drift[s] \/ HasExtras(Cur(s))]
  /\ left' = [left EXCEPT ![s] = left[s] \ {Cur(s)}]
  /\ pc' = [pc EXCEPT ![s] = "diff"]
  /\ UNCHANGED <<want, disk, remote, inits, cmds, has, flags, last>>

\* The check is over, or was skipped; orphan directories do not count.
RenderEnd(s) ==
  /\ pc[s] = "check" /\ left[s] = {}
  /\ EndWith(s, IF drift[s] THEN "failed" ELSE "rendered")
  /\ UNCHANGED <<want, disk, remote, inits, cmds>>

-------------------------------------------------------------------------------
(* status: renders the loaded set aside, then compares.                     *)
Status(s) == Begin(s, "diff", DOMAIN Renders[want], {})

StatusEnd(s) ==
  /\ pc[s] = "diff" /\ left[s] = {}
  /\ EndWith(s, IF drift[s] \/ Orphans(has[s]) # {} THEN "drift" ELSE "up to date")
  /\ UNCHANGED <<want, disk, remote, inits, cmds>>

-------------------------------------------------------------------------------
(* push: one repository after the other, in the order of their names.       *)
Push(s, fs) ==
  /\ Packaged[want] # {}
  /\ Begin(s, "ensure", Packaged[want], fs)

\* "no rendered repos referenced": the command fails before it does anything.
PushNothing(s) ==
  /\ pc[s] = "idle" /\ cmds < MaxCmds
  /\ Packaged[want] = {}
  /\ cmds' = cmds + 1
  /\ EndWith(s, "failed")
  /\ UNCHANGED <<want, disk, remote, inits>>

\* Provider.EnsureRepo creates the repository if it may.
PushEnsure(s) ==
  /\ pc[s] = "ensure" /\ left[s] # {}
  /\ LET create == "create" \in flags[s] /\ "dry" \notin flags[s]
     IN  IF ~ Exists(Cur(s)) \/ (remote[Cur(s)] = NoRepo /\ ~ create)
           THEN EndWith(s, "failed") /\ UNCHANGED remote
           ELSE /\ remote' = IF remote[Cur(s)] = NoRepo
                               THEN [remote EXCEPT ![Cur(s)] = Empty] ELSE remote
                /\ GoTo(s, "init")
  /\ UNCHANGED <<want, disk, inits, cmds>>

\* EnsureRepo: `git init` unless the directory has a .git already.
PushInit(s) ==
  /\ pc[s] = "init"
  /\ IF ~ Exists(Cur(s))
       THEN EndWith(s, "failed") /\ UNCHANGED <<local, inits>>
       ELSE /\ GoTo(s, "commit")
            /\ IF local[Cur(s)] # NoGit
                 THEN UNCHANGED <<local, inits>>
                 ELSE /\ inits' = inits + 1
                      /\ local' = [local EXCEPT ![Cur(s)] = [NoGit EXCEPT !.init = inits + 1]]
  /\ UNCHANGED <<want, tree, authored, remote, cmds>>

\* StageAndCommit: a commit if the worktree is not what the head holds.
PushCommit(s) ==
  /\ pc[s] = "commit"
  /\ LET g == local[Cur(s)] IN
       IF ~ Exists(Cur(s)) \/ g = NoGit
         THEN EndWith(s, "failed") /\ UNCHANGED local
         ELSE /\ GoTo(s, "push")
              /\ local' = IF g.head = Worktree(Cur(s)) THEN local
                          ELSE [local EXCEPT ![Cur(s)] =
                                  [init |-> g.init, commits |-> g.commits + 1, head |-> Worktree(Cur(s))]]
  /\ UNCHANGED <<want, tree, authored, remote, inits, cmds>>

FastForward(r) == remote[r] = Empty \/ remote[r].init = local[r].init

\* Mutant of GitPush: every push is forced.
GitPushForces(s) ==
  /\ pc[s] = "push"
  /\ remote' = IF "dry" \in flags[s] THEN remote
               ELSE [remote EXCEPT ![Cur(s)] = local[Cur(s)]]
  /\ left' = [left EXCEPT ![s] = left[s] \ {Cur(s)}]
  /\ pc' = [pc EXCEPT ![s] = "ensure"]
  /\ UNCHANGED <<want, disk, inits, cmds, has, flags, last, drift>>

\* Mutant of GitPush: its error is dropped and the next repository is begun.
GitPushUnchecked(s) ==
  /\ pc[s] = "push"
  /\ remote' = IF FastForward(Cur(s)) /\ "dry" \notin flags[s]
                 THEN [remote EXCEPT ![Cur(s)] = local[Cur(s)]] ELSE remote
  /\ left' = [left EXCEPT ![s] = left[s] \ {Cur(s)}]
  /\ pc' = [pc EXCEPT ![s] = "ensure"]
  /\ UNCHANGED <<want, disk, inits, cmds, has, flags, last, drift>>

\* `git push`: a history that does not extend the remote's is rejected, forced
\* or not there at all aside; --dry-run asks and changes nothing.
GitPush(s) ==
  /\ pc[s] = "push"
  /\ IF local[Cur(s)] = NoGit
       THEN EndWith(s, "failed") /\ UNCHANGED remote
     ELSE IF ~ FastForward(Cur(s)) /\ "force" \notin flags[s]
       THEN EndWith(s, "rejected") /\ UNCHANGED remote
     ELSE /\ remote' = IF "dry" \in flags[s] THEN remote
                       ELSE [remote EXCEPT ![Cur(s)] = local[Cur(s)]]
          /\ left' = [left EXCEPT ![s] = left[s] \ {Cur(s)}]
          /\ pc' = [pc EXCEPT ![s] = "ensure"]
          /\ UNCHANGED <<has, flags, last, drift>>
  /\ UNCHANGED <<want, disk, inits, cmds>>

\* "push complete".
PushEnd(s) ==
  /\ pc[s] = "ensure" /\ left[s] = {}
  /\ EndWith(s, "pushed")
  /\ UNCHANGED <<want, disk, remote, inits, cmds>>

\* The process is killed, or a file, git or REST call fails.
Stop(s) ==
  /\ pc[s] # "idle"
  /\ EndWith(s, "failed")
  /\ UNCHANGED <<want, disk, remote, inits, cmds>>

Next ==
  \/ \E v \in Sets : Reexpand(v)
  \/ \E r \in Repos : Author(r)
  \/ \E s \in Sessions :
       \/ \E fs \in RenderFlags : Render(s, fs)
       \/ \E fs \in PushFlags : Push(s, fs)
       \/ PushNothing(s)
       \/ Status(s) \/ CompareFiles(s) \/ CompareExtras(s) \/ StatusEnd(s)
       \/ RemovePart(s) \/ RemoveRest(s) \/ SwapRename(s) \/ Swapped(s) \/ Prune(s)
       \/ RenderEnd(s)
       \/ PushEnsure(s) \/ PushInit(s) \/ PushCommit(s) \/ GitPush(s) \/ PushEnd(s)
       \/ Stop(s)

Spec == Init /\ [][Next]_vars

-------------------------------------------------------------------------------
Heads == {<<"none">>} \cup ((Contents \cup {"partial"}) \X BOOLEAN)
Histories == [init : Nat \cup {-1}, commits : Nat, head : Heads]
Outcomes == {"none", "failed", "rendered", "drift", "up to date", "rejected", "pushed"}

TypeOK ==
  /\ want \in Sets
  /\ tree \in [Repos -> Contents \cup {"partial", "absent"}]
  /\ authored \subseteq {r \in Repos : Exists(r)}
  /\ local \in [Repos -> Histories]
  /\ remote \in [Repos -> Histories]
  /\ inits \in Nat /\ cmds \in 0..MaxCmds
  /\ pc \in [Sessions -> {"idle", "swap", "rename", "prune", "check", "diff", "extra",
                          "ensure", "init", "commit", "push"}]
  /\ has \in [Sessions -> Sets]
  /\ left \in [Sessions -> SUBSET Repos]
  /\ flags \in [Sessions -> SUBSET {"prune", "skip", "force", "dry", "create"}]
  /\ last \in [Sessions -> Outcomes]
  /\ drift \in [Sessions -> BOOLEAN]

\* No other terminal has run a command.
Alone(s) == \A t \in Sessions \ {s} : pc[t] = "idle" /\ last[t] = "none"

\* The command in session s ends in this step with the outcome.
Reports(s, outcome) == pc[s] # "idle" /\ pc'[s] = "idle" /\ last'[s] = outcome

(* A render that reports success leaves every repository of the set it      *)
(* loaded as rendered, and with --prune nothing else, even when the check   *)
(* of the second pass is skipped and earlier renders were killed, as long   *)
(* as no other terminal renders or pushes over it.                          *)
RenderedIsOnDisk ==
  [][\A s \in Sessions : Alone(s) /\ Reports(s, "rendered") =>
       /\ \A r \in DOMAIN Renders[has[s]] : ~ Differs(has[s], r)
       /\ "prune" \in flags[s] => Orphans(has[s]) = {}]_vars

(* Without --force no push takes a commit away from a remote repository,    *)
(* though a render throws the local history away.                           *)
RemoteHistoryKept ==
  [][\A r \in Repos : remote'[r] # remote[r] =>
       \/ remote[r] \in {NoRepo, Empty}
       \/ remote'[r].init = remote[r].init /\ remote'[r].commits >= remote[r].commits
       \/ \E s \in Sessions : pc[s] = "push" /\ "force" \in flags[s]]_vars

(* A push that got past a repository has published its local head, so a     *)
(* push that stopped half-way can be run again (two terminals can render    *)
(* and push over each other, so of a terminal that is the first to run).    *)
PublishedSoFar ==
  \A s \in Sessions :
    Alone(s) /\ pc[s] \in {"ensure", "init", "commit", "push"} /\ "dry" \notin flags[s] =>
      \A r \in Packaged[has[s]] \ left[s] : remote[r] = local[r] /\ remote[r] # Empty

(* "up to date" is said only of a render root that holds the set the command *)
(* loaded and nothing besides, whatever repository of it a cut render or     *)
(* push left how, as long as no other terminal works on it (files the user   *)
(* writes while the command looks aside).                                    *)
UpToDateIsTrue ==
  [][\A s \in Sessions : Alone(s) /\ Reports(s, "up to date") =>
       /\ \A r \in DOMAIN Renders[has[s]] : ~ Differs(has[s], r) /\ local[r] = NoGit
       /\ Orphans(has[s]) = {}]_vars

-------------------------------------------------------------------------------
(* "It renders into a temporary sibling directory first and swaps it into   *)
(* place atomically" (render.go:88-89): with no command running the render  *)
(* root holds one render of one set.                                        *)
SwapIsAtomic ==
  (\A s \in Sessions : pc[s] = "idle") =>
    \/ \A r \in Repos : ~ Exists(r)
    \/ \E v \in Sets : \A r \in DOMAIN Renders[v] : ~ Differs(v, r)

(* "Report drift between rendered repos and expanded GitOpsPackageSet":     *)
(* drift is reported only of a render root that is not the set's render.    *)
DriftIsReal ==
  [][\A s \in Sessions : Reports(s, "drift") =>
       \E r \in Repos : IF r \in DOMAIN Renders[has[s]]
                          THEN Worktree(r) # <<Renders[has[s]][r], FALSE>>
                          ELSE Exists(r)]_vars

(* "Contents are authored directly by users" (render.go:679): a render does *)
(* not take the files of a user away.                                       *)
AuthoredKept == [][authored \subseteq authored']_vars

(* "Push publishes each rendered repo dir to Config.Provider in stable      *)
(* alphabetical order so output diffs cleanly across runs" (push.go:28-29): *)
(* the only publisher of a repository is never rejected.                    *)
NeverRejected == \A s \in Sessions : last[s] # "rejected"

(* The same sentence: a push that completes has published each rendered     *)
(* repository.                                                              *)
PublishesEachRendered ==
  [][\A s \in Sessions : Reports(s, "pushed") /\ "dry" \notin flags[s] =>
       \A r \in DOMAIN Renders[has[s]] : Exists(r) => remote[r] \notin {NoRepo, Empty}]_vars
===============================================================================
