----------------------------- MODULE GitSource -----------------------------
(***************************************************************************)
(* The cache of git package sources (internal/gitops/catalog/git.go).      *)
(* Every command that builds a catalog stats one directory per (url, ref), *)
(* clones into it when there is no .git, verifies the ref and reads the    *)
(* packages of the worktree.  git itself runs outside the program: a clone *)
(* has a first step, which creates .git, and a last one, which has fetched *)
(* the refs and checked the worktree out.                                  *)
(***************************************************************************)
EXTENDS Integers, FiniteSets

CONSTANTS Sessions,   \* terminals that run commands on one state directory
          MaxCmds,    \* bound: commands started
          MaxCommits, \* bound: commits of the repository
          Kills       \* whether commands may be killed

ASSUME GitAssumption == MaxCmds \in Nat /\ MaxCommits \in Nat \ {0} /\ Kills \in BOOLEAN

VARIABLES ref,   \* [looks |-> how the ref is spelled, is |-> what it names upstream]
          at,    \* the commit it names, 0 if it names nothing
          tip,   \* the newest commit, where the default branch is
          dest,  \* the clone directory
          pc,    \* session -> where its command is
          got,   \* session -> commit of the worktree its catalog was read from
          cmds,
         calm   \* ghost: since the cache was last emptied commands ran one at
                \* a time, and no git that writes it was cut or failed half-way

vars == <<ref, at, tip, dest, pc, got, cmds, calm>>

Commits == 1..MaxCommits
Part == MaxCommits + 1   \* some of the files of a commit

Resting == {"idle", "refused", "failed", "loaded"}

(* commitSHARe, the reserved names, and the prefixes that pass for a tag.   *)
Looks == {"hex", "versioned", "reserved", "plain"}
Kinds == {"tag", "branch", "commit", "nothing"}

(* .git exists; the tags and branches fetched; the commit of the worktree   *)
(* (0 when it was not checked out to the end); the session that clones      *)
Absent == [git |-> FALSE, refs |-> {}, tree |-> 0, by |-> 0]

RejectBranchRef(r) == r.looks \notin {"hex", "versioned"}

VerifyImmutableRef(r, d) == r.looks = "hex" \/ "tag" \in d.refs

Init ==
  /\ ref \in {r \in [looks : Looks, is : Kinds] : r.is = "commit" => r.looks = "hex"}
  /\ tip = 1 /\ at = IF ref.is = "nothing" THEN 0 ELSE 1
  /\ dest = Absent
  /\ pc = [s \in Sessions |-> "idle"] /\ got = [s \in Sessions |-> 0]
  /\ cmds = 0 /\ calm = TRUE

\* No other session is running.
Alone(s) == \A t \in Sessions \ {s} : pc[t] \in Resting

Goto(s, l) == pc' = [pc EXCEPT ![s] = l]

(* The owner of the repository commits on the default branch; a branch of   *)
(* the source's name follows, a tag or commit stays.                        *)
UpstreamPush ==
  /\ tip < MaxCommits
  /\ tip' = tip + 1
  /\ at' = IF ref.is = "branch" THEN tip + 1 ELSE at
  /\ UNCHANGED <<ref, dest, pc, got, cmds, calm>>

(* A command begins; Resolve refuses what is spelled like a branch.         *)
Start(s) ==
  /\ pc[s] \in Resting /\ cmds < MaxCmds
  /\ cmds' = cmds + 1 /\ calm' = (calm /\ Alone(s))
  /\ Goto(s, IF RejectBranchRef(ref) THEN "refused" ELSE "stat")
  /\ got' = [got EXCEPT ![s] = 0]
  /\ UNCHANGED <<ref, at, tip, dest>>

Stat(s) ==
  /\ pc[s] = "stat"
  /\ Goto(s, IF dest.git THEN "verify" ELSE "clone")
  /\ UNCHANGED <<ref, at, tip, dest, got, cmds, calm>>

(* git clone --depth 1 --branch: it wants an absent directory and a branch  *)
(* or a tag; the network may fail it at either end.                         *)
CloneShallow(s) ==
  /\ pc[s] = "clone"
  /\ \/ /\ ~ dest.git /\ ref.is \in {"tag", "branch"}
        /\ dest' = [Absent EXCEPT !.git = TRUE, !.by = s]
        /\ Goto(s, "shallow")
     \/ UNCHANGED dest /\ Goto(s, "remove")
  /\ UNCHANGED <<ref, at, tip, got, cmds, calm>>

(* A failed git clone removes the directory it made.                        *)
CloneShallowEnd(s) ==
  /\ pc[s] = "shallow"
  /\ \/ /\ dest.by = s
        /\ dest' = [git |-> TRUE, refs |-> {ref.is}, tree |-> at, by |-> 0]
        /\ Goto(s, "verify")
     \/ /\ dest' = IF dest.by = s THEN Absent ELSE dest
        /\ Goto(s, "remove")
  /\ UNCHANGED <<ref, at, tip, got, cmds, calm>>

(* "--branch refuses raw SHAs; retry with full clone + checkout."           *)
RemoveAll(s) ==
  /\ pc[s] = "remove"
  /\ dest' = Absent /\ Goto(s, "full")
  /\ UNCHANGED <<ref, at, tip, got, cmds, calm>>

CloneFull(s) ==
  /\ pc[s] = "full"
  /\ \/ /\ ~ dest.git
        /\ dest' = [Absent EXCEPT !.git = TRUE, !.by = s]
        /\ Goto(s, "fullclone")
     \/ UNCHANGED dest /\ Goto(s, "failed")
  /\ UNCHANGED <<ref, at, tip, got, cmds, calm>>

(* A full clone stands on the default branch, with every tag and branch.    *)
CloneFullEnd(s) ==
  /\ pc[s] = "fullclone"
  /\ \/ /\ dest.by = s
        /\ dest' = [git |-> TRUE, tree |-> tip, by |-> 0,
                    refs |-> {ref.is} \cap {"tag", "branch"}]
        /\ Goto(s, "checkout")
     \/ /\ dest' = IF dest.by = s THEN Absent ELSE dest
        /\ Goto(s, "failed")
  /\ UNCHANGED <<ref, at, tip, got, cmds, calm>>

\* Mutant of Checkout: the clone is taken as it is.
CheckoutSkipped(s) ==
  /\ pc[s] = "checkout"
  /\ Goto(s, IF dest.git /\ at # 0 THEN "verify" ELSE "failed")
  /\ UNCHANGED <<ref, at, tip, dest, got, cmds, calm>>

(* git checkout of the ref.  It fails when the clone does not have it, and   *)
(* may fail of one that is there, with some files written or none: the .git  *)
(* stays, on the default branch.                                             *)
Checkout(s) ==
  /\ pc[s] = "checkout"
  /\ \/ /\ dest.git /\ at # 0
        /\ dest' = [dest EXCEPT !.tree = at] /\ Goto(s, "verify")
        /\ UNCHANGED calm
     \/ /\ \/ UNCHANGED dest
           \/ dest.git /\ at # 0 /\ dest' = [dest EXCEPT !.tree = 0]
        /\ Goto(s, "failed")
        /\ calm' = FALSE
  /\ UNCHANGED <<ref, at, tip, got, cmds>>

Verify(s) ==
  /\ pc[s] = "verify"
  /\ Goto(s, IF VerifyImmutableRef(ref, dest) THEN "root" ELSE "failed")
  /\ UNCHANGED <<ref, at, tip, dest, got, cmds, calm>>

(* The package path is looked up and the packages under it are loaded.  In  *)
(* a worktree that was not finished the path, and packages, may be there.   *)
Load(s) ==
  /\ pc[s] = "root"
  /\ \/ dest.tree # 0 /\ got' = [got EXCEPT ![s] = dest.tree] /\ Goto(s, "loaded")
     \/ dest.git /\ dest.tree = 0 /\ got' = [got EXCEPT ![s] = Part] /\ Goto(s, "loaded")
     \/ dest.tree = 0 /\ UNCHANGED got /\ Goto(s, "failed")
  /\ UNCHANGED <<ref, at, tip, dest, cmds, calm>>

(* The command and the git it runs are killed; the directory stays as it is *)
Kill(s) ==
  /\ Kills /\ pc[s] \notin Resting
  /\ Goto(s, "idle")
  /\ dest' = [dest EXCEPT !.by = IF @ = s THEN 0 ELSE @]
  /\ calm' = (calm /\ pc[s] \notin {"shallow", "fullclone", "checkout"})
  /\ UNCHANGED <<ref, at, tip, got, cmds>>

(* "Pure derivative; safe to delete": the user wipes the cache.             *)
Wipe ==
  /\ dest.git /\ \A s \in Sessions : pc[s] \in Resting
  /\ dest' = Absent /\ calm' = TRUE
  /\ UNCHANGED <<ref, at, tip, pc, got, cmds>>

Step(s) == \/ Start(s) \/ Stat(s) \/ CloneShallow(s) \/ CloneShallowEnd(s) \/ RemoveAll(s)
           \/ CloneFull(s) \/ CloneFullEnd(s) \/ Checkout(s) \/ Verify(s) \/ Load(s) \/ Kill(s)

Next == UpstreamPush \/ Wipe \/ \E s \in Sessions : Step(s)

Spec == Init /\ [][Next]_vars

Labels == {"idle", "stat", "clone", "shallow", "remove", "full", "fullclone", "checkout",
           "verify", "root"} \cup Resting

-----------------------------------------------------------------------------
(* A worktree appears only in a directory with a .git, and a session reads  *)
(* a worktree only once its command is past every refusal.                  *)
TypeOK ==
  /\ ref \in [looks : Looks, is : Kinds]
  /\ at \in 0..MaxCommits /\ tip \in Commits
  /\ dest \in [git : BOOLEAN, refs : SUBSET {"tag", "branch"}, tree : 0..MaxCommits,
               by : Sessions \cup {0}]
  /\ ~ dest.git => dest = Absent
  /\ pc \in [Sessions -> Labels] /\ cmds \in 0..MaxCmds /\ calm \in BOOLEAN
  /\ got \in [Sessions -> 0..Part]
  /\ \A s \in Sessions : pc[s] = "loaded" <=> got[s] # 0

(* A ref that exists is resolved to its own commit, through the shallow     *)
(* clone, the full clone and the cache alike, whatever is pushed meanwhile  *)
(* and wherever else commands were killed: the cache gives another commit   *)
(* only if, since it was last emptied, two commands overlapped, or a git    *)
(* that was writing it was cut or failed in the checkout.                   *)
PinnedWhenResolved ==
  [][\A s \in Sessions :
       calm /\ ref.is \in {"tag", "commit"} /\ pc[s] # "loaded" /\ pc'[s] = "loaded"
         => got'[s] = at]_vars

(* "Shallow clone at an immutable tag or commit SHA" (specs/gitops.md:110): *)
(* what is loaded is the commit the ref names, not another one.             *)
LoadsTheRef ==
  \A s \in Sessions : pc[s] = "loaded" /\ ref.is # "branch" => got[s] = at

(* "Branches and HEAD are rejected" (specs/gitops.md:110).                  *)
BranchesRejected == \A s \in Sessions : pc[s] = "loaded" => ref.is # "branch"

(* "only tags or commit SHAs are accepted"                                  *)
(* (specs/adr/0003-gitops-stage-merger.md:85): a tag is not refused.        *)
TagsAccepted == \A s \in Sessions : pc[s] = "refused" => ref.is # "tag"

(* "OCI/git source caches ... Pure derivative; safe to delete"              *)
(* (specs/gitops.md:120): what a command leaves of a pinned source in the   *)
(* cache is that source, so that the next command loads it.                 *)
CacheIsDerivative ==
  (\A s \in Sessions : pc[s] \in Resting) /\ ref.is \in {"tag", "commit"}
    => dest = Absent \/ dest.tree = at
=============================================================================
