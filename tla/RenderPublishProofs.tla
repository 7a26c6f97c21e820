--------------------------- MODULE RenderPublishProofs ---------------------------
(***************************************************************************)
(* Theorems about render, push and status in one workspace, for any number *)
(* of terminals, repositories and package sets: what a push has published, *)
(* what no push takes away, and what a render that succeeds leaves.        *)
(***************************************************************************)
EXTENDS RenderPublish, FiniteSetTheorems, TLAPS

Rendering == {"swap", "rename", "prune", "check"}
Pushing == {"ensure", "init", "commit", "push"}
Looking == {"diff", "extra"}

FilesOK ==
  /\ want \in Sets
  /\ tree \in [Repos -> Contents \cup {"partial", "absent"}]
  /\ authored \subseteq {r \in Repos : Exists(r)}
  /\ local \in [Repos -> Histories]
  /\ remote \in [Repos -> Histories]
  /\ inits \in Nat /\ cmds \in 0..MaxCmds

SessionsOK ==
  /\ pc \in [Sessions -> Rendering \cup Pushing \cup Looking \cup {"idle"}]
  /\ has \in [Sessions -> Sets]
  /\ left \in [Sessions -> SUBSET Repos]
  /\ flags \in [Sessions -> SUBSET {"prune", "skip", "force", "dry", "create"}]
  /\ last \in [Sessions -> Outcomes]
  /\ drift \in [Sessions -> BOOLEAN]

\* What a session still has to do is of the set it loaded.
TodoOf(s) ==
  /\ pc[s] \in {"swap", "rename", "check", "diff", "extra"} => left[s] \subseteq DOMAIN Renders[has[s]]
  /\ pc[s] = "prune" => left[s] \cap DOMAIN Renders[has[s]] = {}
  /\ pc[s] \in Pushing => left[s] \subseteq Packaged[has[s]]
  /\ pc[s] \in {"rename", "init", "commit", "push", "extra"} => left[s] # {}

\* What it is done with is in place, if nobody was at it since, and what it has
\* looked at is as it found it.
InPlaceOf(s) ==
  /\ pc[s] \in {"swap", "rename"} =>
       \A r \in DOMAIN Renders[has[s]] \ left[s] : ~ Differs(has[s], r)
  /\ pc[s] \in {"prune", "check"} => \A r \in DOMAIN Renders[has[s]] : ~ Differs(has[s], r)
  /\ pc[s] \in Looking /\ ~ drift[s] =>
       \A r \in DOMAIN Renders[has[s]] \ left[s] : ~ Differs(has[s], r) /\ local[r] = NoGit
  /\ pc[s] = "extra" /\ ~ drift[s] => ~ Differs(has[s], Cur(s))
  /\ pc[s] \in {"prune", "check"} /\ "prune" \in flags[s] =>
       \A r \in Repos \ DOMAIN Renders[has[s]] : Exists(r) => r \in left[s]

\* And published.
PublishedBy(s) ==
  pc[s] \in Pushing /\ "dry" \notin flags[s] =>
    \A r \in Packaged[has[s]] \ left[s] : remote[r] = local[r] /\ remote[r] # Empty

\* Each `git init` begins a history of its own, and a local history is never
\* behind the remote one it began with.
AgesOf(r) ==
  /\ local[r].init <= inits /\ remote[r].init <= inits
  /\ local[r].init >= 0
  /\ local[r].init = 0 => local[r] = NoGit
  /\ remote[r].init = 0 => remote[r] = Empty
  /\ remote[r].init < 0 => remote[r] = NoRepo
  /\ remote[r].init = local[r].init => remote[r].commits <= local[r].commits

Ages == \A r \in Repos : AgesOf(r)

IInv ==
  /\ FilesOK /\ SessionsOK /\ Ages
  /\ \A s \in Sessions : TodoOf(s)
  /\ \A s \in Sessions : Alone(s) => InPlaceOf(s) /\ PublishedBy(s)

-------------------------------------------------------------------------------

\* There is a first repository by name.
LEMMA FirstIsIn ==
  ASSUME NEW S \in SUBSET Repos, S # {}
  PROVE  First(S) \in S
<1> DEFINE Below(x) == {k \in Repos : k < x}
           Starts == {Below(x) : x \in S}
<1>1. Starts \subseteq SUBSET Repos /\ Starts # {}
  OBVIOUS
<1>2. PICK B \in Starts : \A C \in Starts : ~ (<<C, B>> \in StrictSubsetOrdering(Repos))
  <2>1. IsWellFoundedOn(StrictSubsetOrdering(Repos), SUBSET Repos)
    BY ReposAssumption, FS_StrictSubsetOrderingWellFounded, FS_FiniteSubsetsOfFinite
  <2> HIDE DEF Starts
  <2> QED
    BY <1>1, <2>1, WFMin
<1>3. PICK x \in S : B = Below(x)
  OBVIOUS
<1>4. ASSUME NEW y \in S, y < x PROVE FALSE
  <2>0. Repos \subseteq Nat /\ x \in Nat /\ y \in Nat /\ y \in Repos
    BY ReposAssumption
  <2>1. y \in Below(x) /\ y \notin Below(y) /\ Below(y) \subseteq Below(x)
    <3>1. y \in Below(x)
      BY <1>4, <2>0
    <3>2. ~ (y < y)
      BY <2>0
    <3>3. ASSUME NEW k \in Repos, k < y PROVE k < x
      <4>1. k \in Nat
        BY <2>0
      <4> QED
        BY <1>4, <2>0, <3>3, <4>1
    <3> QED
      BY <3>1, <3>2, <3>3
  <2>2. <<Below(y), B>> \in StrictSubsetOrdering(Repos)
    BY <1>3, <2>1 DEF StrictSubsetOrdering
  <2> QED
    BY <1>2, <2>2
<1>5. \A y \in S : x <= y
  BY <1>4, ReposAssumption
<1> QED
  BY <1>5 DEF First

\* The repository in hand is one the session still has to do.
LEMMA CurIsLeft ==
  ASSUME SessionsOK, NEW s \in Sessions, left[s] # {}
  PROVE  Cur(s) \in left[s] /\ Cur(s) \in Repos
BY FirstIsIn DEF SessionsOK, Cur

\* The two halves of the type invariant.
LEMMA TypeHalves == TypeOK <=> FilesOK /\ SessionsOK
<1>1. Rendering \cup Pushing \cup Looking \cup {"idle"} =
        {"idle", "swap", "rename", "prune", "check", "diff", "extra", "ensure", "init", "commit", "push"}
  BY DEF Rendering, Pushing, Looking
<1> QED
  BY <1>1 DEF TypeOK, FilesOK, SessionsOK

-------------------------------------------------------------------------------
(* What a step of a session is to the sessions.                              *)

\* The others stand still, and the one that steps has run.
Only(s) ==
  /\ \A t \in Sessions \ {s} : /\ pc'[t] = pc[t] /\ has'[t] = has[t] /\ left'[t] = left[t]
                               /\ flags'[t] = flags[t] /\ last'[t] = last[t]
  /\ pc'[s] # "idle" \/ last'[s] # "none"

\* A session is alone after a step of it only when it was before, and after a
\* step of another it is not.
LEMMA Stepping ==
  ASSUME IInv, NEW s \in Sessions, Only(s), SessionsOK', FilesOK', Ages', TodoOf(s)',
         Alone(s) => InPlaceOf(s)' /\ PublishedBy(s)'
  PROVE  IInv'
<1>1. ASSUME NEW t \in Sessions \ {s} PROVE TodoOf(t)' /\ ~ Alone(t)'
  BY <1>1 DEF IInv, Only, TodoOf, Alone
<1>2. Alone(s)' => Alone(s)
  BY DEF Only, Alone
<1> QED
  BY <1>1, <1>2 DEF IInv

\* A command ends.
LEMMA Ending ==
  ASSUME SessionsOK, FilesOK, NEW s \in Sessions, NEW o \in Outcomes \ {"none"}, EndWith(s, o)
  PROVE  SessionsOK' /\ Only(s) /\ TodoOf(s)' /\ InPlaceOf(s)' /\ PublishedBy(s)'
<1>1. (CHOOSE v \in Sets : TRUE) \in Sets
  BY DEF FilesOK
<1>2. SessionsOK'
  BY <1>1 DEF SessionsOK, EndWith
<1>3. pc'[s] = "idle" /\ last'[s] = o
  BY DEF SessionsOK, EndWith
<1>4. Only(s)
  BY <1>3 DEF SessionsOK, EndWith, Only
<1> QED
  BY <1>2, <1>3, <1>4 DEF TodoOf, InPlaceOf, PublishedBy, Rendering, Pushing, Looking

\* A command begins.
LEMMA Beginning ==
  ASSUME IInv, NEW s \in Sessions, NEW p, NEW todo, NEW fs, Begin(s, p, todo, fs),
         fs \in SUBSET {"prune", "skip", "force", "dry", "create"},
         \/ p = "swap" /\ todo = DOMAIN Renders[want]
         \/ p = "diff" /\ todo = DOMAIN Renders[want]
         \/ p = "ensure" /\ todo = Packaged[want]
  PROVE  IInv'
<1> USE DEF IInv
<1>1. todo \subseteq Repos
  BY RendersAssumption DEF FilesOK
<1>2. FilesOK' /\ Ages'
  BY BoundAssumption DEF FilesOK, Begin, disk, Ages, AgesOf, Exists
<1>3. SessionsOK'
  BY <1>1 DEF SessionsOK, FilesOK, Begin, Rendering, Pushing, Looking
<1>4. pc'[s] = p /\ has'[s] = want /\ left'[s] = todo
  BY DEF SessionsOK, Begin
<1>5. Only(s)
  BY <1>4 DEF SessionsOK, Begin, Only
<1>6. TodoOf(s)' /\ InPlaceOf(s)' /\ PublishedBy(s)'
  BY <1>4 DEF TodoOf, InPlaceOf, PublishedBy, Rendering, Pushing, Looking
<1> QED
  BY <1>2, <1>3, <1>5, <1>6, Stepping

-------------------------------------------------------------------------------
(* The steps that leave the files alone.                                     *)

\* A step of the sessions alone leaves the files as they should be.
LEMMA FilesSame ==
  ASSUME FilesOK, Ages, UNCHANGED <<want, disk, remote, inits, cmds>>
  PROVE  FilesOK' /\ Ages'
BY DEF FilesOK, Ages, AgesOf, disk, Exists

\* A command that ends, well or not, without another call.
LEMMA EndsKeep ==
  ASSUME IInv, NEW s \in Sessions, NEW o \in Outcomes \ {"none"}, EndWith(s, o),
         UNCHANGED <<want, disk, remote, inits, cmds>>
  PROVE  IInv'
BY FilesSame, Ending, Stepping DEF IInv

\* The check, the comparison, the last repository, a kill.
LEMMA EndingKeeps ==
  ASSUME IInv, NEW s \in Sessions, RenderEnd(s) \/ StatusEnd(s) \/ PushEnd(s) \/ Stop(s)
  PROVE  IInv'
<1>1. \E o \in Outcomes \ {"none"} : EndWith(s, o)
  BY DEF RenderEnd, StatusEnd, PushEnd, Stop, Outcomes
<1>2. UNCHANGED <<want, disk, remote, inits, cmds>>
  BY DEF RenderEnd, StatusEnd, PushEnd, Stop
<1> QED
  BY <1>1, <1>2, EndsKeep

\* The swap is over: what the set does not render is left to the pruning.
LEMMA SwappedKeeps ==
  ASSUME IInv, NEW s \in Sessions, Swapped(s)
  PROVE  IInv'
<1> DEFINE orphans == {r \in Repos : Exists(r)} \ DOMAIN Renders[has[s]]
           next == IF "prune" \in flags[s] THEN "prune" ELSE "check"
           todo == IF "prune" \in flags[s] THEN orphans ELSE ToCheck(s)
<1> USE DEF IInv
<1>1. /\ pc' = [pc EXCEPT ![s] = next] /\ left' = [left EXCEPT ![s] = todo]
      /\ pc[s] = "swap" /\ left[s] = {}
      /\ UNCHANGED <<want, disk, remote, inits, cmds, has, flags, last, drift>>
  BY DEF Swapped
<1>2. FilesOK' /\ Ages'
  BY <1>1, FilesSame
<1>3. next \in {"prune", "check"} /\ todo \subseteq Repos /\ ToCheck(s) \subseteq DOMAIN Renders[has[s]]
  BY RendersAssumption DEF ToCheck, SessionsOK
<1>4. pc'[s] = next /\ left'[s] = todo /\ has'[s] = has[s] /\ flags'[s] = flags[s] /\ tree' = tree
  BY <1>1 DEF SessionsOK, disk
<1>5. SessionsOK' /\ Only(s)
  BY <1>1, <1>3 DEF SessionsOK, Only, Rendering
<1>6. TodoOf(s)'
  BY <1>3, <1>4 DEF TodoOf, Pushing
<1>7. ASSUME Alone(s) PROVE InPlaceOf(s)'
  <2>1. \A r \in DOMAIN Renders[has[s]] : ~ Differs(has[s], r)
    BY <1>1, <1>7 DEF InPlaceOf
  <2>2. "prune" \in flags[s] => \A r \in Repos \ DOMAIN Renders[has[s]] : Exists(r) => r \in todo
    OBVIOUS
  <2> QED
    BY <1>4, <2>1, <2>2 DEF InPlaceOf, Exists, Differs, Looking
<1>8. PublishedBy(s)'
  BY <1>3, <1>4 DEF PublishedBy, Pushing
<1> QED
  BY <1>2, <1>5, <1>6, <1>7, <1>8, Stepping

\* The check passes a repository.
LEMMA CheckKeeps ==
  ASSUME IInv, NEW s \in Sessions, CompareFiles(s), pc[s] = "check"
  PROVE  IInv'
<1> USE DEF IInv
<1>1. /\ left' = [left EXCEPT ![s] = left[s] \ {Cur(s)}] /\ pc' = pc
      /\ drift' = [drift EXCEPT ![s] = drift[s] \/ Differs(has[s], Cur(s))]
      /\ UNCHANGED <<want, disk, remote, inits, cmds, has, flags, last>>
  BY DEF CompareFiles
<1>2. FilesOK' /\ Ages'
  BY <1>1, FilesSame
<1>3. (drift[s] \/ Differs(has[s], Cur(s))) \in BOOLEAN
  OBVIOUS
<1>4. SessionsOK' /\ Only(s) /\ left'[s] = left[s] \ {Cur(s)}
  BY <1>1, <1>3 DEF SessionsOK, Only
<1>5. TodoOf(s)' /\ PublishedBy(s)'
  BY <1>1, <1>4 DEF TodoOf, PublishedBy, Pushing
<1>6. ASSUME Alone(s) PROVE InPlaceOf(s)'
  <2>1. tree' = tree
    BY <1>1 DEF disk
  <2>2. has[s] \in Sets /\ Cur(s) \in left[s] /\ left[s] \subseteq DOMAIN Renders[has[s]]
    BY CurIsLeft DEF SessionsOK, TodoOf, CompareFiles
  <2> QED
    BY <1>1, <1>4, <1>6, <2>1, <2>2 DEF InPlaceOf, Exists, Differs, Looking
<1> QED
  BY <1>2, <1>4, <1>5, <1>6, Stepping

\* A status passes the rendered files of a repository, then the others.
LEMMA LookKeeps ==
  ASSUME IInv, NEW s \in Sessions, (CompareFiles(s) /\ pc[s] = "diff") \/ CompareExtras(s)
  PROVE  IInv'
<1> DEFINE found == IF pc[s] = "diff" THEN Differs(has[s], Cur(s)) ELSE HasExtras(Cur(s))
           next == IF pc[s] = "diff" THEN "extra" ELSE "diff"
           todo == IF pc[s] = "diff" THEN left[s] ELSE left[s] \ {Cur(s)}
<1> USE DEF IInv
<1>1. /\ pc[s] \in Looking /\ left[s] # {}
      /\ pc' = [pc EXCEPT ![s] = next] /\ left' = [left EXCEPT ![s] = todo]
      /\ drift' = [drift EXCEPT ![s] = drift[s] \/ found]
      /\ UNCHANGED <<want, disk, remote, inits, cmds, has, flags, last>>
  BY DEF CompareFiles, CompareExtras, Looking, TodoOf, SessionsOK
<1>2. FilesOK' /\ Ages'
  BY <1>1, FilesSame
<1>3. (drift[s] \/ found) \in BOOLEAN /\ next \in Looking /\ todo \subseteq left[s]
  BY DEF Looking
<1>4. /\ pc'[s] = next /\ left'[s] = todo /\ drift'[s] = (drift[s] \/ found)
      /\ has'[s] = has[s] /\ flags'[s] = flags[s] /\ tree' = tree /\ local' = local
  BY <1>1 DEF SessionsOK, disk
<1>5. SessionsOK' /\ Only(s)
  <2>1. left' \in [Sessions -> SUBSET Repos]
    BY <1>1, <1>3 DEF SessionsOK
  <2>2. drift' \in [Sessions -> BOOLEAN]
    BY <1>1, <1>3 DEF SessionsOK
  <2>3. pc' \in [Sessions -> Rendering \cup Pushing \cup Looking \cup {"idle"}]
    BY <1>1, <1>3 DEF SessionsOK
  <2>4. next # "idle"
    OBVIOUS
  <2> QED
    BY <1>1, <2>1, <2>2, <2>3, <2>4 DEF SessionsOK, Only
<1>6. TodoOf(s)'
  BY <1>1, <1>3, <1>4 DEF TodoOf, Looking, Pushing
<1>7. PublishedBy(s)'
  BY <1>1, <1>4 DEF PublishedBy, Looking, Pushing
<1>8. ASSUME Alone(s) PROVE InPlaceOf(s)'
  <2>1. ~ drift'[s] => ~ drift[s] /\ ~ found
    BY <1>4
  <2>2. InPlaceOf(s)
    BY <1>8
  <2>3. CASE pc[s] = "diff"
    <3>1. next = "extra" /\ todo = left[s] /\ found = Differs(has[s], Cur(s))
      BY <2>3
    <3>2. Cur(s)' = Cur(s)
      BY <1>4, <3>1 DEF Cur
    <3> HIDE DEF next, todo, found
    <3> QED
      BY <1>4, <2>1, <2>2, <2>3, <3>1, <3>2 DEF InPlaceOf, Looking, Differs
  <2>4. CASE pc[s] = "extra"
    <3>1. next = "diff" /\ todo = left[s] \ {Cur(s)} /\ found = HasExtras(Cur(s))
      BY <2>4
    <3>2. ~ drift'[s] => ~ Differs(has[s], Cur(s)) /\ local[Cur(s)] = NoGit
      BY <2>1, <2>2, <2>4, <3>1 DEF InPlaceOf, HasExtras
    <3> HIDE DEF next, todo, found
    <3> QED
      BY <1>4, <2>1, <2>2, <2>4, <3>1, <3>2 DEF InPlaceOf, Looking, Differs
  <2> QED
    BY <1>1, <2>3, <2>4 DEF Looking
<1> QED
  BY <1>2, <1>5, <1>6, <1>7, <1>8, Stepping

\* A push of a set without packages.
LEMMA NothingKeeps ==
  ASSUME IInv, NEW s \in Sessions, PushNothing(s)
  PROVE  IInv'
<1> USE DEF IInv
<1>1. EndWith(s, "failed") /\ UNCHANGED <<want, disk, remote, inits>> /\ cmds' = cmds + 1 /\ cmds < MaxCmds
  BY DEF PushNothing
<1>2. FilesOK' /\ Ages'
  BY <1>1, BoundAssumption DEF FilesOK, Ages, AgesOf, disk, Exists
<1>3. SessionsOK' /\ Only(s) /\ TodoOf(s)' /\ InPlaceOf(s)' /\ PublishedBy(s)'
  BY <1>1, Ending DEF Outcomes
<1> QED
  BY <1>2, <1>3, Stepping

\* The user edits, or expands again.
LEMMA UserKeeps ==
  ASSUME IInv, \/ \E v \in Sets : Reexpand(v)
               \/ \E r \in Repos : Author(r)
               \/ UNCHANGED vars
  PROVE  IInv'
<1> USE DEF IInv
<1>1. UNCHANGED <<tree, local, remote, inits, cmds, pc, has, left, flags, last, drift>>
  BY DEF Reexpand, Author, vars, disk, session
<1>2. FilesOK'
  BY <1>1 DEF FilesOK, Exists, Reexpand, Author, vars, disk
<1>3. SessionsOK' /\ Ages'
  BY <1>1 DEF SessionsOK, Ages, AgesOf
<1>4. ASSUME NEW s \in Sessions
      PROVE  TodoOf(s)' /\ (Alone(s)' => InPlaceOf(s)' /\ PublishedBy(s)')
  BY <1>1 DEF TodoOf, Alone, InPlaceOf, PublishedBy, Exists, Differs, Cur
<1> QED
  BY <1>2, <1>3, <1>4

-------------------------------------------------------------------------------
(* The steps of a render that touch the directories.                         *)

\* A directory loses its .git, or does not, and nothing else of the histories changes.
LEMMA LosesGit ==
  ASSUME Ages, FilesOK, NEW r \in Repos, UNCHANGED <<remote, inits>>,
         local' = local \/ local' = [local EXCEPT ![r] = NoGit]
  PROVE  Ages' /\ local' \in [Repos -> Histories]
<1>1. NoGit \in Histories
  BY DEF NoGit, Histories, Heads
<1>2. local' \in [Repos -> Histories]
  BY <1>1 DEF FilesOK
<1>3. ASSUME NEW q \in Repos, local'[q] # local[q] PROVE AgesOf(q)'
  <2>1. local'[q] = NoGit
    BY <1>3 DEF FilesOK
  <2>2. AgesOf(q) /\ remote[q] \in Histories /\ inits \in Nat
    BY DEF Ages, FilesOK
  <2> QED
    BY <2>1, <2>2 DEF AgesOf, NoGit, NoRepo, Empty, Histories
<1>4. ASSUME NEW q \in Repos, local'[q] = local[q] PROVE AgesOf(q)'
  BY <1>4 DEF AgesOf, Ages
<1> QED
  BY <1>2, <1>3, <1>4 DEF Ages

\* A part of the directory in hand is gone, maybe its .git.
LEMMA RemovePartKeeps ==
  ASSUME IInv, NEW s \in Sessions, RemovePart(s)
  PROVE  IInv'
<1> USE DEF IInv
<1>1. /\ pc[s] \in {"swap", "prune"} /\ left[s] # {} /\ tree' = [tree EXCEPT ![Cur(s)] = "partial"]
      /\ UNCHANGED <<want, authored, remote, inits, cmds, pc, has, left, flags, last, drift>>
      /\ local' = local \/ local' = [local EXCEPT ![Cur(s)] = NoGit]
  BY DEF RemovePart, session
<1>2. Cur(s) \in left[s] /\ Cur(s) \in Repos
  BY <1>1, CurIsLeft
<1>3. Ages' /\ local' \in [Repos -> Histories]
  BY <1>1, <1>2, LosesGit
<1>4. FilesOK'
  BY <1>1, <1>2, <1>3 DEF FilesOK, Exists
<1>5. SessionsOK' /\ Only(s)
  BY <1>1 DEF SessionsOK, Only
<1>6. TodoOf(s)' /\ PublishedBy(s)'
  BY <1>1 DEF TodoOf, PublishedBy, Pushing
<1>7. ASSUME Alone(s) PROVE InPlaceOf(s)'
  <2>1. \A r \in Repos \ left[s] : tree'[r] = tree[r]
    BY <1>1, <1>2 DEF FilesOK
  <2>2. has[s] \in Sets /\ DOMAIN Renders[has[s]] \subseteq Repos
    BY RendersAssumption DEF SessionsOK
  <2> QED
    BY <1>1, <1>7, <2>1, <2>2 DEF InPlaceOf, Exists, Differs, Looking, TodoOf
<1> QED
  BY <1>3, <1>4, <1>5, <1>6, <1>7, Stepping

\* The directory in hand is gone; the rename is next.
LEMMA RemoveRestKeeps ==
  ASSUME IInv, NEW s \in Sessions, RemoveRest(s)
  PROVE  IInv'
<1> USE DEF IInv
<1>1. /\ pc[s] = "swap" /\ left[s] # {} /\ tree' = [tree EXCEPT ![Cur(s)] = "absent"]
      /\ authored' = authored \ {Cur(s)} /\ local' = [local EXCEPT ![Cur(s)] = NoGit]
      /\ pc' = [pc EXCEPT ![s] = "rename"]
      /\ UNCHANGED <<want, remote, inits, cmds, has, left, flags, last, drift>>
  BY DEF RemoveRest, Gone, GoTo
<1>2. Cur(s) \in left[s] /\ Cur(s) \in Repos
  BY <1>1, CurIsLeft
<1>3. Ages' /\ local' \in [Repos -> Histories]
  BY <1>1, <1>2, LosesGit
<1>4. FilesOK'
  BY <1>1, <1>2, <1>3 DEF FilesOK, Exists
<1>5. SessionsOK' /\ Only(s) /\ pc'[s] = "rename"
  BY <1>1 DEF SessionsOK, Only, Rendering
<1>6. TodoOf(s)' /\ PublishedBy(s)'
  BY <1>1, <1>5 DEF TodoOf, PublishedBy, Pushing
<1>7. ASSUME Alone(s) PROVE InPlaceOf(s)'
  <2>1. \A r \in Repos \ left[s] : tree'[r] = tree[r]
    BY <1>1, <1>2 DEF FilesOK
  <2>2. has[s] \in Sets /\ DOMAIN Renders[has[s]] \subseteq Repos
    BY RendersAssumption DEF SessionsOK
  <2> QED
    BY <1>1, <1>5, <1>7, <2>1, <2>2 DEF InPlaceOf, Differs, Looking
<1> QED
  BY <1>3, <1>4, <1>5, <1>6, <1>7, Stepping

\* The new directory is in place, or the rename fails.
LEMMA SwapRenameKeeps ==
  ASSUME IInv, NEW s \in Sessions, SwapRename(s)
  PROVE  IInv'
<1> USE DEF IInv
<1>1. pc[s] \in {"rename", "swap"} /\ left[s] # {} /\ UNCHANGED <<want, remote, inits, cmds>>
  BY DEF SwapRename, TodoOf
<1>2. Cur(s) \in left[s] /\ Cur(s) \in Repos
  BY <1>1, CurIsLeft
<1>3. CASE Exists(Cur(s))
  <2>1. EndWith(s, "failed") /\ UNCHANGED disk
    BY <1>3 DEF SwapRename
  <2> QED
    BY <1>1, <2>1, EndsKeep DEF Outcomes
<1>4. CASE ~ Exists(Cur(s))
  <2> DEFINE new == Renders[has[s]][Cur(s)]
  <2>1. /\ tree' = [tree EXCEPT ![Cur(s)] = new]
        /\ left' = [left EXCEPT ![s] = left[s] \ {Cur(s)}]
        /\ pc' = [pc EXCEPT ![s] = "swap"]
        /\ UNCHANGED <<authored, local, has, flags, last, drift>>
    BY <1>4 DEF SwapRename
  <2>2. has[s] \in Sets /\ Cur(s) \in DOMAIN Renders[has[s]] /\ DOMAIN Renders[has[s]] \subseteq Repos
    BY <1>1, <1>2, RendersAssumption DEF SessionsOK, TodoOf
  <2>3. new \in Contents
    BY <2>2 DEF Contents
  <2>4. FilesOK' /\ Ages'
    BY <1>1, <1>2, <1>4, <2>1, <2>3 DEF FilesOK, Exists, Ages, AgesOf
  <2>5. pc'[s] = "swap" /\ left'[s] = left[s] \ {Cur(s)} /\ has'[s] = has[s] /\ flags'[s] = flags[s]
    BY <2>1 DEF SessionsOK
  <2>6. SessionsOK' /\ Only(s)
    BY <1>1, <2>1 DEF SessionsOK, Only, Rendering
  <2>7. TodoOf(s)' /\ PublishedBy(s)'
    BY <1>1, <2>5 DEF TodoOf, PublishedBy, Pushing
  <2>8. ASSUME Alone(s) PROVE InPlaceOf(s)'
    <3>1. tree'[Cur(s)] = new /\ \A r \in Repos \ left[s] : tree'[r] = tree[r]
      BY <1>2, <2>1 DEF FilesOK
    <3>2. \A r \in DOMAIN Renders[has[s]] \ left[s] : tree[r] = Renders[has[s]][r]
      BY <1>1, <2>8 DEF InPlaceOf, Differs
    <3> QED
      BY <2>2, <2>5, <3>1, <3>2 DEF InPlaceOf, Differs, Looking
  <2> QED
    BY <2>4, <2>6, <2>7, <2>8, Stepping
<1> QED
  BY <1>3, <1>4

\* An orphan is gone, or the last one was.
LEMMA PruneKeeps ==
  ASSUME IInv, NEW s \in Sessions, Prune(s)
  PROVE  IInv'
<1> USE DEF IInv
<1>1. pc[s] = "prune" /\ UNCHANGED <<want, remote, inits, cmds, has, flags, last, drift>>
  BY DEF Prune
<1>2. has[s] \in Sets /\ DOMAIN Renders[has[s]] \subseteq Repos
  BY RendersAssumption DEF SessionsOK
<1>3. CASE left[s] = {}
  <2>0. ToCheck(s) \subseteq DOMAIN Renders[has[s]]
    BY DEF ToCheck
  <2>1. /\ pc' = [pc EXCEPT ![s] = "check"] /\ left' = [left EXCEPT ![s] = ToCheck(s)]
        /\ UNCHANGED disk
    BY <1>3 DEF Prune
  <2>2. FilesOK' /\ Ages'
    BY <1>1, <2>1, FilesSame
  <2>3. pc'[s] = "check" /\ left'[s] = ToCheck(s) /\ tree' = tree
    BY <2>1 DEF SessionsOK, disk
  <2>4. SessionsOK' /\ Only(s)
    BY <1>1, <1>2, <2>0, <2>1 DEF SessionsOK, Only, Rendering
  <2>5. TodoOf(s)' /\ PublishedBy(s)'
    BY <1>1, <2>0, <2>3 DEF TodoOf, PublishedBy, Pushing
  <2>6. Alone(s) => InPlaceOf(s)'
    BY <1>1, <1>3, <2>3 DEF InPlaceOf, Exists, Differs, Looking
  <2> QED
    BY <2>2, <2>4, <2>5, <2>6, Stepping
<1>4. CASE left[s] # {}
  <2>1. /\ tree' = [tree EXCEPT ![Cur(s)] = "absent"] /\ authored' = authored \ {Cur(s)}
        /\ local' = [local EXCEPT ![Cur(s)] = NoGit]
        /\ left' = [left EXCEPT ![s] = left[s] \ {Cur(s)}] /\ pc' = pc
    BY <1>4 DEF Prune, Gone
  <2>2. Cur(s) \in left[s] /\ Cur(s) \in Repos
    BY <1>4, CurIsLeft
  <2>3. Ages' /\ local' \in [Repos -> Histories]
    BY <1>1, <2>1, <2>2, LosesGit
  <2>4. FilesOK'
    BY <1>1, <2>1, <2>2, <2>3 DEF FilesOK, Exists
  <2>5. SessionsOK' /\ Only(s) /\ left'[s] = left[s] \ {Cur(s)}
    BY <1>1, <2>1 DEF SessionsOK, Only
  <2>6. TodoOf(s)' /\ PublishedBy(s)'
    BY <1>1, <2>1, <2>5 DEF TodoOf, PublishedBy, Pushing
  <2>7. ASSUME Alone(s) PROVE InPlaceOf(s)'
    <3>1. tree'[Cur(s)] = "absent" /\ \A r \in Repos \ {Cur(s)} : tree'[r] = tree[r]
      BY <2>1, <2>2 DEF FilesOK
    <3>2. Cur(s) \notin DOMAIN Renders[has[s]]
      BY <1>1, <2>2 DEF TodoOf
    <3> QED
      BY <1>1, <1>2, <2>1, <2>5, <2>7, <3>1, <3>2 DEF InPlaceOf, Exists, TodoOf, Differs, Looking
  <2> QED
    BY <2>3, <2>4, <2>5, <2>6, <2>7, Stepping
<1> QED
  BY <1>3, <1>4

-------------------------------------------------------------------------------
(* The steps of a push.                                                      *)

\* What a push may do to the histories of the repository in hand: what it has
\* published of others stays as it is.
LEMMA Published ==
  ASSUME IInv, NEW s \in Sessions, pc[s] \in Pushing, left[s] # {}, PublishedBy(s),
         UNCHANGED <<has, left, flags>>,
         \A r \in Repos \ {Cur(s)} : remote'[r] = remote[r] /\ local'[r] = local[r]
  PROVE  PublishedBy(s)'
<1>1. Cur(s) \in left[s]
  BY CurIsLeft DEF IInv
<1>2. has[s] \in Sets /\ Packaged[has[s]] \subseteq Repos
  BY RendersAssumption DEF IInv, SessionsOK
<1> QED
  BY <1>1, <1>2 DEF PublishedBy

\* A push goes on to another call for the same repository.
LEMMA GoingOn ==
  ASSUME IInv, NEW s \in Sessions, NEW p \in {"init", "commit", "push"}, GoTo(s, p),
         pc[s] \in Pushing, left[s] # {}, FilesOK', Ages',
         \A r \in Repos \ {Cur(s)} : remote'[r] = remote[r] /\ local'[r] = local[r]
  PROVE  IInv'
<1> USE DEF IInv
<1>1. SessionsOK' /\ Only(s) /\ pc'[s] = p
  BY DEF SessionsOK, GoTo, Only, Pushing
<1>2. TodoOf(s)' /\ InPlaceOf(s)'
  BY <1>1 DEF TodoOf, InPlaceOf, GoTo, Pushing, Looking
<1>3. Alone(s) => PublishedBy(s)'
  BY Published DEF GoTo
<1> QED
  BY <1>1, <1>2, <1>3, Stepping

\* The repository exists at the provider, or the push ends.
LEMMA PushEnsureKeeps ==
  ASSUME IInv, NEW s \in Sessions, PushEnsure(s)
  PROVE  IInv'
<1> USE DEF IInv
<1>1. pc[s] = "ensure" /\ left[s] # {} /\ UNCHANGED <<want, disk, inits, cmds>>
  BY DEF PushEnsure
<1>2. Cur(s) \in Repos
  BY <1>1, CurIsLeft
<1>3. CASE EndWith(s, "failed") /\ UNCHANGED remote
  BY <1>1, <1>3, EndsKeep DEF Outcomes
<1>4. CASE /\ GoTo(s, "init")
           /\ remote' = IF remote[Cur(s)] = NoRepo THEN [remote EXCEPT ![Cur(s)] = Empty] ELSE remote
  <2>1. Empty \in Histories
    BY DEF Empty, Histories, Heads
  <2>2. FilesOK'
    BY <1>1, <1>2, <1>4, <2>1 DEF FilesOK, disk, Exists
  <2>3. \A r \in Repos \ {Cur(s)} : remote'[r] = remote[r] /\ local'[r] = local[r]
    BY <1>1, <1>2, <1>4 DEF FilesOK, disk
  <2>4. local' = local /\ inits' = inits
    BY <1>1 DEF disk
  <2>5. ASSUME NEW r \in Repos, remote'[r] = remote[r] PROVE AgesOf(r)'
    BY <2>4, <2>5 DEF Ages, AgesOf
  <2>6. ASSUME NEW r \in Repos, remote'[r] # remote[r] PROVE AgesOf(r)'
    <3>1. remote'[r] = Empty
      BY <1>2, <1>4, <2>6 DEF FilesOK
    <3>2. AgesOf(r) /\ local[r] \in Histories /\ inits \in Nat
      BY DEF Ages, FilesOK
    <3> QED
      BY <2>4, <3>1, <3>2 DEF AgesOf, Empty, NoGit, NoRepo, Histories
  <2>7. Ages'
    BY <2>5, <2>6 DEF Ages
  <2> QED
    BY <1>1, <1>4, <2>2, <2>3, <2>7, GoingOn DEF Pushing
<1> QED
  BY <1>3, <1>4 DEF PushEnsure

\* A `git init` is numbered above every history there is.
LEMMA PushInitKeeps ==
  ASSUME IInv, NEW s \in Sessions, PushInit(s)
  PROVE  IInv'
<1> USE DEF IInv
<1>1. pc[s] = "init" /\ left[s] # {} /\ UNCHANGED <<want, tree, authored, remote, cmds>>
  BY DEF PushInit, TodoOf
<1>2. Cur(s) \in Repos
  BY <1>1, CurIsLeft
<1>3. CASE EndWith(s, "failed") /\ UNCHANGED <<local, inits>>
  BY <1>1, <1>3, EndsKeep DEF Outcomes, disk
<1>4. CASE GoTo(s, "commit") /\ UNCHANGED <<local, inits>>
  <2>1. FilesOK' /\ Ages'
    BY <1>1, <1>4, FilesSame DEF disk
  <2> QED
    BY <1>1, <1>4, <2>1, GoingOn DEF Pushing
<1>5. CASE /\ GoTo(s, "commit") /\ inits' = inits + 1
           /\ local' = [local EXCEPT ![Cur(s)] = [NoGit EXCEPT !.init = inits + 1]]
  <2> DEFINE begun == [NoGit EXCEPT !.init = inits + 1]
  <2>1. inits \in Nat
    BY DEF FilesOK
  <2>2. begun \in Histories /\ begun.init = inits + 1
    BY <2>1 DEF NoGit, Histories, Heads
  <2>3. FilesOK'
    BY <1>1, <1>2, <1>5, <2>1, <2>2 DEF FilesOK, Exists
  <2>4. \A r \in Repos \ {Cur(s)} : remote'[r] = remote[r] /\ local'[r] = local[r]
    BY <1>1, <1>2, <1>5 DEF FilesOK
  <2>5. local'[Cur(s)] = begun
    BY <1>2, <1>5 DEF FilesOK
  <2>6. ASSUME NEW r \in Repos PROVE AgesOf(r)'
    <3>1. AgesOf(r) /\ local[r] \in Histories /\ remote[r] \in Histories
      BY DEF Ages, FilesOK
    <3>2. CASE r # Cur(s)
      BY <1>5, <2>1, <2>4, <3>1, <3>2 DEF AgesOf, Histories
    <3>3. CASE r = Cur(s)
      BY <1>1, <1>5, <2>1, <2>2, <2>5, <3>1, <3>3 DEF AgesOf, Histories
    <3> QED
      BY <3>2, <3>3
  <2> QED
    BY <1>1, <1>5, <2>3, <2>4, <2>6, GoingOn DEF Pushing, Ages
<1> QED
  BY <1>3, <1>4, <1>5 DEF PushInit

\* What is staged of a directory that is there can be a head.
LEMMA StagedIsHead ==
  ASSUME FilesOK, NEW r \in Repos, Exists(r)
  PROVE  Worktree(r) \in Heads
<1>1. tree[r] \in Contents \cup {"partial"}
  BY DEF FilesOK, Exists
<1>2. (r \in authored) \in BOOLEAN
  OBVIOUS
<1> QED
  BY <1>1, <1>2 DEF Worktree, Heads

\* A commit makes a local history longer.
LEMMA PushCommitKeeps ==
  ASSUME IInv, NEW s \in Sessions, PushCommit(s)
  PROVE  IInv'
<1> DEFINE g == local[Cur(s)]
           made == [init |-> g.init, commits |-> g.commits + 1, head |-> Worktree(Cur(s))]
<1> USE DEF IInv
<1>1. pc[s] = "commit" /\ left[s] # {} /\ UNCHANGED <<want, tree, authored, remote, inits, cmds>>
  BY DEF PushCommit, TodoOf
<1>2. Cur(s) \in Repos
  BY <1>1, CurIsLeft
<1>3. CASE EndWith(s, "failed") /\ UNCHANGED local
  BY <1>1, <1>3, EndsKeep DEF Outcomes, disk
<1>4. CASE GoTo(s, "push") /\ local' = local
  <2>1. FilesOK' /\ Ages'
    BY <1>1, <1>4, FilesSame DEF disk
  <2> QED
    BY <1>1, <1>4, <2>1, GoingOn DEF Pushing
<1>5. CASE /\ GoTo(s, "push") /\ Exists(Cur(s)) /\ g # NoGit
           /\ local' = [local EXCEPT ![Cur(s)] = made]
  <2>1. g \in Histories /\ g.init # 0
    BY <1>2, <1>5 DEF FilesOK, Ages, AgesOf
  <2>2. made \in Histories /\ made.init = g.init /\ made.commits = g.commits + 1
    <3>1. g.init \in Nat \cup {-1} /\ g.commits \in Nat
      BY <2>1 DEF Histories
    <3>2. Worktree(Cur(s)) \in Heads
      BY <1>2, <1>5, StagedIsHead
    <3> QED
      BY <3>1, <3>2 DEF Histories
  <2> HIDE DEF made
  <2>3. FilesOK'
    BY <1>1, <1>2, <1>5, <2>2 DEF FilesOK, Exists
  <2>4. local'[Cur(s)] = made /\ \A r \in Repos \ {Cur(s)} : remote'[r] = remote[r] /\ local'[r] = local[r]
    BY <1>1, <1>2, <1>5 DEF FilesOK
  <2>5. ASSUME NEW r \in Repos PROVE AgesOf(r)'
    <3>1. AgesOf(r) /\ local[r] \in Histories /\ remote[r] \in Histories
      BY DEF Ages, FilesOK
    <3>2. CASE r # Cur(s)
      BY <1>1, <2>4, <3>1, <3>2 DEF AgesOf
    <3>3. CASE r = Cur(s)
      BY <1>1, <2>1, <2>2, <2>4, <3>1, <3>3 DEF AgesOf, Histories
    <3> QED
      BY <3>2, <3>3
  <2> QED
    BY <1>1, <1>5, <2>3, <2>4, <2>5, GoingOn DEF Pushing, Ages
<1> QED
  BY <1>3, <1>4, <1>5 DEF PushCommit

\* The remote takes the local history over, or the push ends.
LEMMA GitPushKeeps ==
  ASSUME IInv, NEW s \in Sessions, GitPush(s)
  PROVE  IInv'
<1> USE DEF IInv
<1>1. pc[s] = "push" /\ left[s] # {} /\ UNCHANGED <<want, disk, inits, cmds>>
  BY DEF GitPush, TodoOf
<1>2. Cur(s) \in left[s] /\ Cur(s) \in Repos
  BY <1>1, CurIsLeft
<1>3. CASE (EndWith(s, "failed") \/ EndWith(s, "rejected")) /\ UNCHANGED remote
  BY <1>1, <1>3, EndsKeep DEF Outcomes
<1>4. CASE /\ local[Cur(s)] # NoGit
           /\ remote' = IF "dry" \in flags[s] THEN remote
                        ELSE [remote EXCEPT ![Cur(s)] = local[Cur(s)]]
           /\ left' = [left EXCEPT ![s] = left[s] \ {Cur(s)}]
           /\ pc' = [pc EXCEPT ![s] = "ensure"]
           /\ UNCHANGED <<has, flags, last, drift>>
  <2>1. FilesOK'
    BY <1>1, <1>2, <1>4 DEF FilesOK, disk, Exists
  <2>2. local' = local /\ inits' = inits
    BY <1>1 DEF disk
  <2>3. \A r \in Repos : remote'[r] = remote[r] \/ (r = Cur(s) /\ remote'[r] = local[r])
    BY <1>2, <1>4 DEF FilesOK
  <2>4. ASSUME NEW r \in Repos PROVE AgesOf(r)'
    <3>1. AgesOf(r) /\ local[r] \in Histories /\ remote[r] \in Histories /\ inits \in Nat
      BY DEF Ages, FilesOK
    <3>2. CASE remote'[r] = remote[r]
      BY <2>2, <3>1, <3>2 DEF AgesOf
    <3>3. CASE r = Cur(s) /\ remote'[r] = local[r]
      BY <1>4, <2>2, <3>1, <3>3 DEF AgesOf, Histories
    <3> QED
      BY <2>3, <3>2, <3>3
  <2>5. pc'[s] = "ensure" /\ left'[s] = left[s] \ {Cur(s)}
    BY <1>4 DEF SessionsOK
  <2>6. SessionsOK' /\ Only(s)
    BY <1>1, <1>4 DEF SessionsOK, Only, Pushing
  <2>7. TodoOf(s)' /\ InPlaceOf(s)'
    BY <1>1, <1>4, <2>5 DEF TodoOf, InPlaceOf, Pushing, Looking
  <2>8. ASSUME Alone(s) PROVE PublishedBy(s)'
    <3>1. has[s] \in Sets /\ Packaged[has[s]] \subseteq Repos
      BY RendersAssumption DEF SessionsOK
    <3>2. "dry" \notin flags[s] => remote'[Cur(s)] = local[Cur(s)] /\ local[Cur(s)] # Empty
      BY <1>2, <1>4 DEF FilesOK, NoGit, Empty
    <3>3. "dry" \notin flags[s] =>
             \A r \in Packaged[has[s]] \ left[s] : remote[r] = local[r] /\ remote[r] # Empty
      BY <1>1, <2>8 DEF PublishedBy, Pushing
    <3> QED
      BY <1>4, <2>2, <2>3, <2>5, <3>1, <3>2, <3>3 DEF PublishedBy
  <2> QED
    BY <2>1, <2>4, <2>6, <2>7, <2>8, Stepping DEF Ages
<1> QED
  BY <1>3, <1>4 DEF GitPush

-------------------------------------------------------------------------------
(* The whole, and what a step is to the remote and to the user.              *)

\* A step of a session.
StepOf(s) ==
  \/ \E fs \in RenderFlags : Render(s, fs)
  \/ \E fs \in PushFlags : Push(s, fs)
  \/ PushNothing(s)
  \/ Status(s) \/ CompareFiles(s) \/ CompareExtras(s) \/ StatusEnd(s)
  \/ RemovePart(s) \/ RemoveRest(s) \/ SwapRename(s) \/ Swapped(s) \/ Prune(s)
  \/ RenderEnd(s)
  \/ PushEnsure(s) \/ PushInit(s) \/ PushCommit(s) \/ GitPush(s) \/ PushEnd(s)
  \/ Stop(s)

\* The invariant holds in a new workspace and in one that was rendered.
LEMMA InitIInv == Init => IInv
<1> SUFFICES ASSUME Init PROVE IInv
  OBVIOUS
<1>1. NoGit \in Histories /\ NoRepo \in Histories
  BY DEF NoGit, NoRepo, Histories, Heads
<1>2. tree \in [Repos -> Contents \cup {"partial", "absent"}]
  BY RendersAssumption DEF Init, NothingRendered, JustRendered, Contents
<1>3. FilesOK
  BY <1>1, <1>2, BoundAssumption DEF Init, FilesOK
<1>4. SessionsOK
  BY DEF Init, SessionsOK, Outcomes
<1>5. Ages
  BY DEF Init, Ages, AgesOf, NoGit, NoRepo
<1>6. \A s \in Sessions : TodoOf(s) /\ InPlaceOf(s) /\ PublishedBy(s)
  BY DEF Init, TodoOf, InPlaceOf, PublishedBy, Looking, Pushing
<1> QED
  BY <1>3, <1>4, <1>5, <1>6 DEF IInv

\* Every step keeps it.
LEMMA NextKeeps == IInv /\ [Next]_vars => IInv'
<1> SUFFICES ASSUME IInv, [Next]_vars PROVE IInv'
  OBVIOUS
<1>1. ASSUME NEW s \in Sessions, NEW fs \in RenderFlags, Render(s, fs) PROVE IInv'
  BY <1>1, Beginning, FlagsAssumption DEF Render
<1>2. ASSUME NEW s \in Sessions, NEW fs \in PushFlags, Push(s, fs) PROVE IInv'
  BY <1>2, Beginning, FlagsAssumption DEF Push
<1>3. ASSUME NEW s \in Sessions, Status(s) PROVE IInv'
  BY <1>3, Beginning DEF Status
<1>4. ASSUME NEW s \in Sessions, StepOf(s) PROVE IInv'
  BY <1>1, <1>2, <1>3, <1>4, EndingKeeps, RemovePartKeeps, RemoveRestKeeps, SwapRenameKeeps,
     SwappedKeeps, PruneKeeps, CheckKeeps, LookKeeps, NothingKeeps, PushEnsureKeeps, PushInitKeeps, PushCommitKeeps, GitPushKeeps
     DEF StepOf, CompareFiles
<1> QED
  BY <1>4, UserKeeps DEF Next, StepOf

\* What RemoteHistoryKept says of a step.
HistoryKept ==
  \A r \in Repos : remote'[r] # remote[r] =>
    \/ remote[r] \in {NoRepo, Empty}
    \/ remote'[r].init = remote[r].init /\ remote'[r].commits >= remote[r].commits
    \/ \E s \in Sessions : pc[s] = "push" /\ "force" \in flags[s]

\* The remote is written by two calls: one makes a repository, the other pushes.
LEMMA RemoteKeeps ==
  ASSUME IInv, [Next]_vars
  PROVE  HistoryKept
<1>1. CASE remote' = remote
  BY <1>1 DEF HistoryKept
<1>2. ASSUME NEW s \in Sessions, PushEnsure(s) PROVE HistoryKept
  <2>1. remote' = remote \/ (remote[Cur(s)] = NoRepo /\ remote' = [remote EXCEPT ![Cur(s)] = Empty])
    BY <1>2 DEF PushEnsure
  <2> QED
    BY <2>1 DEF HistoryKept, IInv, FilesOK
<1>3. ASSUME NEW s \in Sessions, GitPush(s) PROVE HistoryKept
  <2> SUFFICES ASSUME NEW r \in Repos, remote'[r] # remote[r], "force" \notin flags[s]
               PROVE  \/ remote[r] \in {NoRepo, Empty}
                      \/ remote'[r].init = remote[r].init /\ remote'[r].commits >= remote[r].commits
    BY <1>3 DEF HistoryKept, GitPush
  <2>1. /\ FastForward(Cur(s))
        /\ remote' = [remote EXCEPT ![Cur(s)] = local[Cur(s)]]
    BY <1>3 DEF GitPush
  <2>2. r = Cur(s) /\ remote'[r] = local[r]
    BY <2>1 DEF IInv, FilesOK
  <2>3. remote[r] \in Histories /\ local[r] \in Histories /\ AgesOf(r)
    BY DEF IInv, FilesOK, Ages
  <2> QED
    BY <2>1, <2>2, <2>3 DEF FastForward, AgesOf, Histories
<1>4. CASE UNCHANGED vars \/ (\E v \in Sets : Reexpand(v)) \/ (\E r \in Repos : Author(r))
  BY <1>1, <1>4 DEF vars, Reexpand, Author
<1>5. ASSUME NEW s \in Sessions, StepOf(s), ~ PushEnsure(s), ~ GitPush(s) PROVE remote' = remote
  BY <1>5 DEF StepOf, Render, Push, Status, Begin, StatusEnd, RemovePart, RemoveRest, SwapRename,
              Swapped, Prune, RenderEnd, PushInit, PushCommit, PushEnd, Stop,
              PushNothing, CompareFiles, CompareExtras
<1> QED
  BY <1>1, <1>2, <1>3, <1>4, <1>5 DEF Next, StepOf

\* A command ends well, or finds nothing to say, in one place only.
LEMMA WhoReports ==
  ASSUME IInv, [Next]_vars, NEW s \in Sessions, NEW o \in {"rendered", "up to date"}, Reports(s, o)
  PROVE  IF o = "rendered" THEN RenderEnd(s) ELSE StatusEnd(s)
<1> USE DEF IInv
<1>1. pc[s] # "idle" /\ pc'[s] = "idle" /\ last'[s] = o
  BY DEF Reports
<1>2. ~ UNCHANGED vars /\ (\A v \in Sets : ~ Reexpand(v)) /\ (\A r \in Repos : ~ Author(r))
  BY <1>1 DEF vars, session, Reexpand, Author
<1>3. PICK t \in Sessions : StepOf(t)
  BY <1>2 DEF Next, StepOf
<1>4. ASSUME NEW p, NEW todo, NEW fs, Begin(t, p, todo, fs) PROVE FALSE
  BY <1>1, <1>4 DEF Begin, SessionsOK
<1>5. ~ \E p, todo, fs : Begin(t, p, todo, fs)
  BY <1>4
<1>6. ASSUME NEW p, p # "idle", pc' = pc \/ pc' = [pc EXCEPT ![t] = p] PROVE FALSE
  BY <1>1, <1>6 DEF SessionsOK
<1>7. ASSUME NEW q \in {"failed", "rejected", "pushed", "drift"}, EndWith(t, q) PROVE FALSE
  BY <1>1, <1>7 DEF SessionsOK, EndWith
<1>8. \/ (\E fs \in RenderFlags : Render(t, fs)) \/ (\E fs \in PushFlags : Push(t, fs)) \/ Status(t)
      \/ RenderEnd(t) \/ StatusEnd(t)
  <2>1. ~ PushEnd(t) /\ ~ Stop(t)
    BY <1>7 DEF PushEnd, Stop
  <2>2. ~ RemovePart(t) /\ ~ RemoveRest(t) /\ ~ SwapRename(t)
    BY <1>6, <1>7 DEF RemovePart, RemoveRest, SwapRename, GoTo, session
  <2>3. ~ Swapped(t) /\ ~ Prune(t)
    BY <1>6 DEF Swapped, Prune
  <2>5. ~ CompareFiles(t) /\ ~ CompareExtras(t)
    BY <1>6 DEF CompareFiles, CompareExtras
  <2>6. ~ PushNothing(t)
    BY <1>7 DEF PushNothing
  <2>4. ~ PushEnsure(t) /\ ~ PushInit(t) /\ ~ PushCommit(t) /\ ~ GitPush(t)
    BY <1>6, <1>7 DEF PushEnsure, PushInit, PushCommit, GitPush, GoTo
  <2> QED
    BY <1>3, <2>1, <2>2, <2>3, <2>4, <2>5, <2>6 DEF StepOf
<1>9. RenderEnd(t) \/ StatusEnd(t)
  BY <1>5, <1>8 DEF Render, Push, Status
<1>10. t = s
  BY <1>1, <1>9 DEF RenderEnd, StatusEnd, EndWith, SessionsOK
<1> QED
  BY <1>1, <1>7, <1>9, <1>10 DEF RenderEnd, StatusEnd, EndWith, SessionsOK

-------------------------------------------------------------------------------
(* The theorems.                                                             *)

\* So it always holds.
LEMMA Inductive == Spec => []IInv
BY InitIInv, NextKeeps, PTL DEF Spec

\* The files, the remote and the sessions, for any number of terminals,
\* repositories and package sets.
THEOREM TypeCorrect == Spec => []TypeOK
<1>1. IInv => TypeOK
  BY TypeHalves DEF IInv
<1> QED
  BY <1>1, Inductive, PTL

\* What a push got past is published, so a push that stopped can be run again
\* (push.go, Push).
THEOREM PublishedHolds == Spec => []PublishedSoFar
<1>1. IInv => PublishedSoFar
  BY DEF IInv, PublishedSoFar, PublishedBy, Pushing
<1> QED
  BY <1>1, Inductive, PTL

\* No push without --force takes a commit from a remote, though every render
\* throws the local history away (render.go, swapEntries; push.go, Push).
THEOREM HistoryHolds == Spec => RemoteHistoryKept
<1>1. IInv /\ [Next]_vars => HistoryKept
  BY RemoteKeeps
<1>2. IInv /\ [Next]_vars =>
        [\A r \in Repos : remote'[r] # remote[r] =>
           \/ remote[r] \in {NoRepo, Empty}
           \/ remote'[r].init = remote[r].init /\ remote'[r].commits >= remote[r].commits
           \/ \E s \in Sessions : pc[s] = "push" /\ "force" \in flags[s]]_vars
  BY <1>1 DEF HistoryKept
<1> QED
  BY <1>2, Inductive, PTL DEF Spec, RemoteHistoryKept

\* A render that says it succeeded has every repository of its set in place, and
\* with --prune no other, however many renders were killed before it
\* (render.go, swapEntries, pruneOrphanDirs).
THEOREM RenderedHolds == Spec => RenderedIsOnDisk
<1>1. ASSUME IInv, [Next]_vars, NEW s \in Sessions, Alone(s), Reports(s, "rendered")
      PROVE  /\ \A r \in DOMAIN Renders[has[s]] : ~ Differs(has[s], r)
             /\ "prune" \in flags[s] => Orphans(has[s]) = {}
  <2>1. RenderEnd(s)
    BY <1>1, WhoReports
  <2>2. pc[s] = "check" /\ left[s] = {} /\ InPlaceOf(s)
    BY <1>1, <2>1 DEF RenderEnd, IInv
  <2> QED
    BY <2>2 DEF InPlaceOf, Orphans
<1>2. IInv /\ [Next]_vars =>
        [\A s \in Sessions : Alone(s) /\ Reports(s, "rendered") =>
           /\ \A r \in DOMAIN Renders[has[s]] : ~ Differs(has[s], r)
           /\ "prune" \in flags[s] => Orphans(has[s]) = {}]_vars
  BY <1>1
<1> QED
  BY <1>2, Inductive, PTL DEF Spec, RenderedIsOnDisk

\* A status that found nothing in any step of its walk says so of a render root
\* that holds the set it loaded and nothing besides, in whatever state commands
\* that were cut left it (diff.go, DiffWorkspace).
THEOREM UpToDateHolds == Spec => UpToDateIsTrue
<1>1. ASSUME IInv, [Next]_vars, NEW s \in Sessions, Alone(s), Reports(s, "up to date")
      PROVE  /\ \A r \in DOMAIN Renders[has[s]] : ~ Differs(has[s], r) /\ local[r] = NoGit
             /\ Orphans(has[s]) = {}
  <2>1. StatusEnd(s) /\ last'[s] = "up to date"
    BY <1>1, WhoReports DEF Reports
  <2>2. \A o : EndWith(s, o) => last'[s] = o
    BY <1>1 DEF EndWith, IInv, SessionsOK
  <2>3. ASSUME drift[s] \/ Orphans(has[s]) # {} PROVE FALSE
    <3>1. EndWith(s, "drift")
      BY <2>1, <2>3, Zenon DEF StatusEnd
    <3> QED
      BY <2>1, <2>2, <3>1
  <2>4. pc[s] = "diff" /\ left[s] = {} /\ InPlaceOf(s)
    BY <1>1, <2>1 DEF StatusEnd, IInv
  <2> QED
    BY <2>3, <2>4 DEF InPlaceOf, Looking
<1>2. IInv /\ [Next]_vars =>
        [\A s \in Sessions : Alone(s) /\ Reports(s, "up to date") =>
           /\ \A r \in DOMAIN Renders[has[s]] : ~ Differs(has[s], r) /\ local[r] = NoGit
           /\ Orphans(has[s]) = {}]_vars
  BY <1>1
<1> QED
  BY <1>2, Inductive, PTL DEF Spec, UpToDateIsTrue
===============================================================================
