------------------------- MODULE GitopsPipelineProofs -------------------------
(***************************************************************************)
(* For every shape of package set, every number of sessions and every      *)
(* value of source and fills: the placeholder list is complete, expand is  *)
(* idempotent and keeps what was filled in, both sides of a secret are     *)
(* filled together, and no sentinel reaches the cluster behind render's    *)
(* back.                                                                   *)
(*                                                                         *)
(* The inductive invariant is about what a session carries between its     *)
(* read of the file and its write (JobKeeps, JobPairs, Complete) and   *)
(* about the file's relation to the last text written (KeptIsFile): while  *)
(* it is truncated an expand cannot read it, so it never takes an empty    *)
(* file for a prior without fills.                                         *)
(***************************************************************************)
EXTENDS GitopsPipeline, FiniteSetTheorems, TLAPS

\* Sessions past their read hold a text to write.
Holds(s) == pc[s] \in {"write", "writing"}

Complete(f) == {l \in Leaves : Scanned(f.vals[l])} \subseteq f.phs

Paired(vals) ==
  \A e \in Secret \cap Consumed :
    IsSentinelLeaf(vals[e]) <=> IsSentinelLeaf(vals[ConsumerLeaf[e]])

\* The file says what was written last, unless it is truncated.
KeptIsFile == file.state # "corrupt" => kept = file.vals

\* What an expand is about to write keeps what the last text had.
JobKeeps(s) ==
  Holds(s) /\ job[s].cmd = "expand" =>
    \A l \in Leaves :
      IsSentinelLeaf(job[s].seen[l]) \/ job[s].out.vals[l] = job[s].seen[l]

JobPairs(s) == Holds(s) /\ job[s].cmd \in {"expand", "force"} => Paired(job[s].out.vals)

\* A session out of "idle" runs a command, and past its read holds a text.
JobRuns(s) ==
  /\ pc[s] = "loaded" => job[s].cmd \in {"expand", "force"}
  /\ Holds(s) => job[s].out.state = "written"

JobOK(s) == JobRuns(s) /\ JobKeeps(s) /\ JobPairs(s)

IInv == TypeOK /\ KeptIsFile /\ \A s \in Sessions : JobOK(s)

-------------------------------------------------------------------------------
(* What expand computes, for any source and prior.                          *)

\* The export a consumer's leaf mirrors.
MirrorOf(l) == CHOOSE e \in Consumed : ConsumerLeaf[e] = l

(* A consumed export is the only one mirrored into its consumer's leaf.     *)
LEMMA MirroredOnce ==
  ASSUME NEW e \in Consumed
  PROVE  /\ e \in Exports
         /\ ConsumerLeaf[e] \in Leaves \ (Inputs \cup Exports)
         /\ MirrorOf(ConsumerLeaf[e]) = e
  BY ShapeAssumption DEF Leaves, ConsumerLeaves, MirrorOf

\* What an export reads of an expand: the provider's inputs after the overlay.
Overlaid(src, prior) == [l \in Inputs |-> OverlayUserEdits(src[l], prior[l])]

Offered(e, src, prior) == ExportValue(e, Overlaid(src, prior), prior)

(* The three kinds of leaves of an expand: an input, an export and what     *)
(* mirrors it.                                                              *)
LEMMA ResolvedLeaves ==
  ASSUME NEW src, NEW prior
  PROVE  /\ ResolvedValues(src, prior) = [l \in Leaves |-> ResolvedValues(src, prior)[l]]
         /\ \A l \in Inputs :
              ResolvedValues(src, prior)[l] = OverlayUserEdits(src[l], prior[l])
         /\ \A e \in Exports :
              ResolvedValues(src, prior)[e] =
                OverlayUserEdits(Offered(e, src, prior), prior[e])
         /\ \A e \in Consumed :
              ResolvedValues(src, prior)[ConsumerLeaf[e]] =
                OverlayUserEdits(Offered(e, src, prior), prior[ConsumerLeaf[e]])
<1> DEFINE inputs == Overlaid(src, prior)
           export == [e \in Exports |-> ExportValue(e, inputs, prior)]
           vals == ResolvedValues(src, prior)
<1>1. vals = [l \in Leaves |->
                IF l \in Inputs THEN inputs[l]
                ELSE IF l \in Exports THEN OverlayUserEdits(export[l], prior[l])
                ELSE OverlayUserEdits(export[MirrorOf(l)], prior[l])]
  BY Zenon DEF ResolvedValues, MirrorOf, Overlaid
<1> HIDE DEF vals
<1>2. vals = [l \in Leaves |-> vals[l]]
  BY <1>1
<1>3. \A l \in Inputs : vals[l] = OverlayUserEdits(src[l], prior[l])
  BY <1>1 DEF Leaves, Overlaid
<1>4. \A e \in Exports : vals[e] = OverlayUserEdits(ExportValue(e, inputs, prior), prior[e])
  BY <1>1, ShapeAssumption DEF Leaves
<1>5. ASSUME NEW e \in Consumed
      PROVE  vals[ConsumerLeaf[e]] =
               OverlayUserEdits(ExportValue(e, inputs, prior), prior[ConsumerLeaf[e]])
  <2>1. vals[ConsumerLeaf[e]] = OverlayUserEdits(export[e], prior[ConsumerLeaf[e]])
    BY <1>1, MirroredOnce
  <2>2. QED
    BY <2>1, MirroredOnce
<1>6. QED
  BY <1>2, <1>3, <1>4, <1>5 DEF vals, Offered

(* Every leaf is one of the three.                                          *)
LEMMA LeafKinds ==
  ASSUME NEW l \in Leaves
  PROVE  \/ l \in Inputs
         \/ l \in Exports
         \/ \E e \in Consumed : l = ConsumerLeaf[e]
  BY DEF Leaves, ConsumerLeaves

(* overlayUserEdits never gives up a prior that is not the sentinel.        *)
LEMMA OverlayKeeps ==
  ASSUME NEW src, NEW prior, NEW l \in Leaves, ~ IsSentinelLeaf(prior[l])
  PROVE  ResolvedValues(src, prior)[l] = prior[l]
  BY LeafKinds, ResolvedLeaves DEF OverlayUserEdits

(* The origin of an export: the provider's input it is declared from.       *)
Origin(e, inputs) == IF e \in DOMAIN FromInput THEN inputs[FromInput[e]] ELSE Sentinel

(* What a secret export offers: the provider's fill, else the consumer's,   *)
(* else its origin; any other export offers its origin.                     *)
LEMMA ExportCases ==
  ASSUME NEW e, NEW inputs, NEW prior
  PROVE  /\ e \notin Secret => ExportValue(e, inputs, prior) = Origin(e, inputs)
         /\ e \in Secret /\ prior[e] # Sentinel => ExportValue(e, inputs, prior) = prior[e]
         /\ e \in Secret /\ prior[e] = Sentinel
              /\ e \in Consumed /\ prior[ConsumerLeaf[e]] # Sentinel
            => ExportValue(e, inputs, prior) = prior[ConsumerLeaf[e]]
         /\ e \in Secret /\ prior[e] = Sentinel
              /\ (e \in Consumed => prior[ConsumerLeaf[e]] = Sentinel)
            => ExportValue(e, inputs, prior) = Origin(e, inputs)
<1> DEFINE c == IF e \in Consumed THEN prior[ConsumerLeaf[e]] ELSE Sentinel
<1>1. ExportValue(e, inputs, prior) =
        IF e \notin Secret THEN Origin(e, inputs)
        ELSE IF ~ (prior[e] = Sentinel) THEN prior[e]
        ELSE IF ~ (c = Sentinel) THEN c
        ELSE Origin(e, inputs)
  BY DEF ExportValue, IsSentinelLeaf, Origin
<1>2. /\ e \in Consumed => c = prior[ConsumerLeaf[e]]
      /\ e \notin Consumed => c = Sentinel
  OBVIOUS
<1> HIDE DEF c
<1>3. e \notin Secret => ExportValue(e, inputs, prior) = Origin(e, inputs)
  BY <1>1
<1>4. e \in Secret /\ prior[e] # Sentinel => ExportValue(e, inputs, prior) = prior[e]
  BY <1>1
<1>5. e \in Secret /\ prior[e] = Sentinel /\ c # Sentinel => ExportValue(e, inputs, prior) = c
  BY <1>1
<1>6. e \in Secret /\ prior[e] = Sentinel /\ c = Sentinel
        => ExportValue(e, inputs, prior) = Origin(e, inputs)
  BY <1>1
<1>7. QED
  BY <1>2, <1>3, <1>4, <1>5, <1>6

(* An export of an expand is the sentinel when nothing was there to offer:  *)
(* no origin and, of a secret, no fill on either side.                      *)
LEMMA NothingOffered ==
  ASSUME NEW src, NEW prior, NEW e \in Exports, Offered(e, src, prior) = Sentinel
  PROVE  /\ Origin(e, Overlaid(src, prior)) = Sentinel
         /\ e \in Secret => prior[e] = Sentinel
         /\ e \in Secret \cap Consumed => prior[ConsumerLeaf[e]] = Sentinel
  BY ExportCases DEF Offered

(* Both sides of a consumed secret come out of an expand filled, or neither *)
(* does.                                                                    *)
LEMMA ResolvedPairs ==
  ASSUME NEW src, NEW prior
  PROVE  Paired(ResolvedValues(src, prior))
<1> SUFFICES ASSUME NEW e \in Secret \cap Consumed
             PROVE  IsSentinelLeaf(ResolvedValues(src, prior)[e])
                      <=> IsSentinelLeaf(ResolvedValues(src, prior)[ConsumerLeaf[e]])
  BY DEF Paired
<1>1. /\ ResolvedValues(src, prior)[e] = OverlayUserEdits(Offered(e, src, prior), prior[e])
      /\ ResolvedValues(src, prior)[ConsumerLeaf[e]] =
           OverlayUserEdits(Offered(e, src, prior), prior[ConsumerLeaf[e]])
  BY ResolvedLeaves, MirroredOnce
<1>2. Offered(e, src, prior) = Sentinel =>
        prior[e] = Sentinel /\ prior[ConsumerLeaf[e]] = Sentinel
  BY NothingOffered, MirroredOnce
<1>3. QED
  BY <1>1, <1>2 DEF OverlayUserEdits, IsSentinelLeaf

(* An expand of its own result, from the same source, changes no leaf: one  *)
(* that has a value keeps it, and one that has none still has nothing to    *)
(* take it from.                                                            *)
LEMMA ResolvedTwice ==
  ASSUME NEW src, NEW prior
  PROVE  ResolvedValues(src, ResolvedValues(src, prior)) = ResolvedValues(src, prior)
<1> DEFINE once  == ResolvedValues(src, prior)
           twice == ResolvedValues(src, once)
<1>1. \A l \in Inputs : once[l] = OverlayUserEdits(src[l], prior[l])
  BY ResolvedLeaves
<1>2. \A e \in Exports : once[e] = OverlayUserEdits(Offered(e, src, prior), prior[e])
  BY ResolvedLeaves
<1>3. \A e \in Consumed :
        once[ConsumerLeaf[e]] =
          OverlayUserEdits(Offered(e, src, prior), prior[ConsumerLeaf[e]])
  BY ResolvedLeaves
<1>4. \A l \in Inputs : twice[l] = OverlayUserEdits(src[l], once[l])
  BY ResolvedLeaves
<1>5. \A e \in Exports : twice[e] = OverlayUserEdits(Offered(e, src, once), once[e])
  BY ResolvedLeaves
<1>6. \A e \in Consumed :
        twice[ConsumerLeaf[e]] =
          OverlayUserEdits(Offered(e, src, once), once[ConsumerLeaf[e]])
  BY ResolvedLeaves
<1>7. once = [l \in Leaves |-> once[l]] /\ twice = [l \in Leaves |-> twice[l]]
  BY ResolvedLeaves
<1> HIDE DEF once, twice
<1>8. \A l \in Inputs : twice[l] = once[l]
  BY <1>1, <1>4 DEF OverlayUserEdits, IsSentinelLeaf
<1>9. Overlaid(src, once) = Overlaid(src, prior)
  BY <1>1, <1>4, <1>8 DEF Overlaid
\* Where nothing was offered, nothing is offered again.
<1>10. ASSUME NEW e \in Exports, Offered(e, src, prior) = Sentinel
       PROVE  Offered(e, src, once) = Sentinel
  <2>1. Origin(e, Overlaid(src, once)) = Sentinel
    BY <1>9, <1>10, NothingOffered
  <2>2. CASE e \in Secret
    <3>1. once[e] = Sentinel
      BY <1>2, <1>10, <2>2, NothingOffered DEF OverlayUserEdits, IsSentinelLeaf
    <3>2. e \in Consumed => once[ConsumerLeaf[e]] = Sentinel
      BY <1>3, <1>10, <2>2, NothingOffered DEF OverlayUserEdits, IsSentinelLeaf
    <3>3. QED
      BY <2>1, <2>2, <3>1, <3>2, ExportCases DEF Offered
  <2>3. CASE e \notin Secret
    BY <2>1, <2>3, ExportCases DEF Offered
  <2>4. QED
    BY <2>2, <2>3
<1>11. \A e \in Exports : twice[e] = once[e]
  BY <1>2, <1>5, <1>10 DEF OverlayUserEdits, IsSentinelLeaf
<1>12. \A e \in Consumed : twice[ConsumerLeaf[e]] = once[ConsumerLeaf[e]]
  BY <1>3, <1>6, <1>10, MirroredOnce DEF OverlayUserEdits, IsSentinelLeaf
<1>13. \A l \in Leaves : twice[l] = once[l]
  BY <1>8, <1>11, <1>12, LeafKinds
<1>14. QED
  BY <1>7, <1>13 DEF once, twice

(* An expand lists every leaf that is the sentinel.                         *)
LEMMA ExpandedFacts ==
  ASSUME NEW src, NEW prior
  PROVE  /\ Expanded(src, prior).state = "written"
         /\ Expanded(src, prior).vals = ResolvedValues(src, prior)
         /\ Complete(Expanded(src, prior))
  BY DEF Expanded, Written, Complete

(* Values in, values out.                                                   *)
LEMMA ResolvedTyped ==
  ASSUME NEW src \in [Inputs -> Values], NEW prior \in [Leaves -> Values]
  PROVE  Expanded(src, prior) \in Contents
<1>1. Inputs \subseteq Leaves /\ Exports \subseteq Leaves /\ Sentinel \in Values
  BY DEF Leaves, Values
<1>2. \A l \in Inputs : Overlaid(src, prior)[l] \in Values
  BY <1>1 DEF Overlaid, OverlayUserEdits
<1>3. \A e \in Exports : Origin(e, Overlaid(src, prior)) \in Values
  BY <1>1, <1>2, ShapeAssumption DEF Origin
<1>4. \A e \in Exports : Offered(e, src, prior) \in Values
  <2> SUFFICES ASSUME NEW e \in Exports
               PROVE  Offered(e, src, prior) \in Values
    OBVIOUS
  <2>1. e \in Consumed => prior[ConsumerLeaf[e]] \in Values
    BY MirroredOnce
  <2>2. prior[e] \in Values
    BY <1>1
  <2>3. QED
    BY <1>3, <2>1, <2>2, ExportCases DEF Offered
<1>5. \A l \in Leaves : ResolvedValues(src, prior)[l] \in Values
  BY <1>1, <1>4, LeafKinds, ResolvedLeaves, MirroredOnce DEF OverlayUserEdits
<1>6. ResolvedValues(src, prior) \in [Leaves -> Values]
  BY <1>5, ResolvedLeaves
<1>7. QED
  BY <1>6 DEF Expanded, Written, Contents
-------------------------------------------------------------------------------
(* The absent file, the truncated one and the session that runs nothing.    *)
LEMMA Blanks ==
  /\ NoValues \in [Leaves -> Values]
  /\ Absent \in Contents /\ Corrupt \in Contents
  /\ NoJob.src \in [Inputs -> Values] /\ NoJob.cmd = "none"
  /\ NoJob.out \in Contents /\ NoJob.seen \in [Leaves -> Values]
  BY DEF NoValues, Values, Absent, Corrupt, Contents, NoJob

Jobs == [cmd : {"none", "expand", "force", "fill"}, src : [Inputs -> Values],
         out : Contents, seen : [Leaves -> Values]]

LEMMA NoJobTyped == NoJob \in Jobs
  BY Blanks DEF NoJob, Jobs

(* Init establishes the invariant.                                          *)
LEMMA InitIInv == Init => IInv
<1> SUFFICES ASSUME Init PROVE IInv
  OBVIOUS
<1>1. TypeOK
  BY Blanks, NoJobTyped DEF Init, TypeOK, Jobs
<1>2. \A s \in Sessions : pc[s] = "idle"
  BY DEF Init
<1>3. \A s \in Sessions : JobOK(s)
  BY <1>2 DEF JobOK, JobRuns, JobKeeps, JobPairs, Holds
<1>4. KeptIsFile
  BY DEF Init, KeptIsFile, Absent
<1>5. QED
  BY <1>1, <1>3, <1>4 DEF IInv

(* A step of one session keeps the invariant when it leaves that session,   *)
(* the source and the file in order.                                        *)
LEMMA SessionStep ==
  ASSUME IInv, NEW s \in Sessions, NEW l, NEW j \in Jobs,
         l \in {"idle", "loaded", "write", "writing"},
         pc' = [pc EXCEPT ![s] = l], job' = [job EXCEPT ![s] = j],
         source' \in [Inputs -> SourceValues], file' \in Contents,
         kept' \in [Leaves -> Values], KeptIsFile', JobOK(s)'
  PROVE  IInv'
<1>1. \A t \in Sessions \ {s} : pc'[t] = pc[t] /\ job'[t] = job[t]
  BY DEF IInv, TypeOK
<1>2. \A t \in Sessions : JobOK(t)'
  BY <1>1 DEF IInv, JobOK, JobRuns, JobKeeps, JobPairs, Holds
<1>3. TypeOK'
  BY DEF IInv, TypeOK, Jobs
<1>4. QED
  BY <1>2, <1>3 DEF IInv

(* A session that stops holds nothing.                                      *)
LEMMA Stopped ==
  ASSUME IInv, NEW s \in Sessions, pc' = [pc EXCEPT ![s] = "idle"]
  PROVE  JobOK(s)'
<1>1. pc'[s] = "idle"
  BY DEF IInv, TypeOK
<1>2. QED
  BY <1>1 DEF JobOK, JobRuns, JobKeeps, JobPairs, Holds

(* The values of a source are values.                                       *)
LEMMA SourcesAreValues == SourceValues \subseteq Values /\ FillValues \subseteq Values
  BY DEF Values

(* Every step keeps the invariant.                                          *)
LEMMA NextIInv == IInv /\ [Next]_vars => IInv'
<1> SUFFICES ASSUME IInv, [Next]_vars PROVE IInv'
  OBVIOUS
<1>1. /\ source \in [Inputs -> SourceValues] /\ file \in Contents
      /\ kept \in [Leaves -> Values] /\ KeptIsFile
      /\ \A s \in Sessions : JobOK(s)
      /\ pc \in [Sessions -> {"idle", "loaded", "write", "writing"}]
      /\ job \in [Sessions -> Jobs]
  BY DEF IInv, TypeOK, Jobs
<1>2. ASSUME NEW l \in Inputs, NEW v \in SourceValues, EditSource(l, v)
      PROVE  IInv'
  <2>1. source' \in [Inputs -> SourceValues]
    BY <1>1, <1>2 DEF EditSource
  <2>2. UNCHANGED <<file, pc, job, kept>>
    BY <1>2 DEF EditSource
  <2>3. QED
    BY <2>1, <2>2 DEF IInv, TypeOK, KeptIsFile, JobOK, JobRuns, JobKeeps, JobPairs, Holds
<1>3. CASE Remove
  <2>1. file' = Absent /\ kept' = NoValues /\ UNCHANGED <<source, pc, job>>
    BY <1>3 DEF Remove
  <2>2. KeptIsFile'
    BY <2>1 DEF KeptIsFile, Absent
  <2>3. QED
    BY <2>1, <2>2, Blanks DEF IInv, TypeOK, JobOK, JobRuns, JobKeeps, JobPairs, Holds
<1>4. ASSUME NEW s \in Sessions, NEW cmd \in {"expand", "force"}, LoadSource(s, cmd)
      PROVE  IInv'
  <2> DEFINE j == [NoJob EXCEPT !.cmd = cmd, !.src = source]
  <2>1. /\ pc' = [pc EXCEPT ![s] = "loaded"] /\ job' = [job EXCEPT ![s] = j]
        /\ UNCHANGED <<source, file, kept>>
    BY <1>4 DEF LoadSource
  <2>2. source \in [Inputs -> Values]
    BY <1>1, SourcesAreValues
  <2>3. j \in Jobs /\ j.cmd = cmd
    BY <2>2, NoJobTyped DEF Jobs, NoJob
  <2>4. pc'[s] = "loaded" /\ job'[s] = j
    BY <1>1, <2>1
  <2>5. JobOK(s)'
    BY <2>3, <2>4 DEF JobOK, JobRuns, JobKeeps, JobPairs, Holds
  <2>6. KeptIsFile'
    BY <1>1, <2>1 DEF KeptIsFile
  <2>7. QED
    BY <1>1, <2>1, <2>3, <2>5, <2>6, SessionStep
<1>5. ASSUME NEW s \in Sessions, Resolve(s)
      PROVE  IInv'
  <2> DEFINE prior == IF job[s].cmd = "force" THEN NoValues ELSE file.vals
             out == Expanded(job[s].src, prior)
             j == [job[s] EXCEPT !.out = out, !.seen = kept]
  <2>1. /\ pc[s] = "loaded" /\ pc' = [pc EXCEPT ![s] = "write"]
        /\ job' = [job EXCEPT ![s].out = out, ![s].seen = kept]
        /\ UNCHANGED <<source, file, kept>>
        /\ job[s].cmd = "force" \/ file.state # "corrupt"
    BY <1>5 DEF Resolve
  <2>2. job[s] \in Jobs /\ job[s].cmd \in {"expand", "force"}
    BY <1>1, <2>1 DEF JobOK, JobRuns
  <2>3. prior \in [Leaves -> Values] /\ job[s].src \in [Inputs -> Values]
    BY <1>1, <2>2, Blanks DEF Contents, Jobs
  <2>4. out \in Contents /\ out.state = "written"
        /\ out.vals = ResolvedValues(job[s].src, prior)
    BY <2>3, ResolvedTyped, ExpandedFacts
  <2> HIDE DEF out, prior
  <2>5. /\ j \in Jobs /\ j.cmd = job[s].cmd /\ j.out = out /\ j.seen = kept
    BY <1>1, <2>2, <2>4 DEF Jobs
  <2>6. job' = [job EXCEPT ![s] = j]
    BY <1>1, <2>1
  <2>7. pc'[s] = "write" /\ job'[s] = j
    BY <1>1, <2>1, <2>6
  <2>8. Paired(out.vals)
    BY <2>4, ResolvedPairs
  <2>9. ASSUME j.cmd = "expand", NEW l \in Leaves
        PROVE  IsSentinelLeaf(kept[l]) \/ out.vals[l] = kept[l]
    <3>1. prior = kept
      BY <1>1, <2>1, <2>5, <2>9 DEF prior, KeptIsFile
    <3>2. QED
      BY <2>4, <3>1, OverlayKeeps
  <2>10. JobOK(s)'
    BY <2>2, <2>4, <2>5, <2>7, <2>8, <2>9 DEF JobOK, JobRuns, JobKeeps, JobPairs, Holds
  <2>11. KeptIsFile'
    BY <1>1, <2>1 DEF KeptIsFile
  <2>12. QED
    BY <1>1, <2>1, <2>5, <2>6, <2>10, <2>11, SessionStep
<1>6. ASSUME NEW s \in Sessions, PriorUnreadable(s) \/ Crash(s)
      PROVE  IInv'
  <2>1. /\ pc' = [pc EXCEPT ![s] = "idle"] /\ job' = [job EXCEPT ![s] = NoJob]
        /\ UNCHANGED <<source, file, kept>>
    BY <1>6 DEF PriorUnreadable, Crash
  <2>2. KeptIsFile'
    BY <1>1, <2>1 DEF KeptIsFile
  <2>3. JobOK(s)'
    BY <2>1, Stopped
  <2>4. QED
    BY <1>1, <2>1, <2>2, <2>3, NoJobTyped, SessionStep
<1>7. ASSUME NEW s \in Sessions, NEW L \in FillSets, NEW v \in FillValues, LoadFill(s, L, v)
      PROVE  IInv'
  <2> DEFINE vals == [l \in Leaves |-> IF l \in L THEN v ELSE file.vals[l]]
             out == Written(vals, Remaining(vals, file.phs, L))
             j == [NoJob EXCEPT !.cmd = "fill", !.out = out]
  <2>1. /\ pc' = [pc EXCEPT ![s] = "write"] /\ job' = [job EXCEPT ![s] = j]
        /\ UNCHANGED <<source, file, kept>>
    BY <1>7 DEF LoadFill
  <2>2. vals \in [Leaves -> Values]
    BY <1>1, SourcesAreValues DEF Contents
  <2>3. out \in Contents /\ out.state = "written"
    BY <1>1, <2>2 DEF Written, Remaining, Contents
  <2> HIDE DEF out
  <2>4. j \in Jobs /\ j.cmd = "fill" /\ j.out = out
    BY <2>3, NoJobTyped DEF Jobs, NoJob
  <2>5. pc'[s] = "write" /\ job'[s] = j
    BY <1>1, <2>1
  <2>6. JobOK(s)'
    BY <2>3, <2>4, <2>5 DEF JobOK, JobRuns, JobKeeps, JobPairs, Holds
  <2>7. KeptIsFile'
    BY <1>1, <2>1 DEF KeptIsFile
  <2>8. QED
    BY <1>1, <2>1, <2>4, <2>6, <2>7, SessionStep
<1>8. ASSUME NEW s \in Sessions, Truncate(s)
      PROVE  IInv'
  <2>1. /\ pc[s] = "write" /\ pc' = [pc EXCEPT ![s] = "writing"]
        /\ file' = Corrupt /\ UNCHANGED <<source, job, kept>>
    BY <1>8 DEF Truncate
  <2>2. KeptIsFile'
    BY <2>1 DEF KeptIsFile, Corrupt
  <2>3. job' = [job EXCEPT ![s] = job[s]]
    BY <1>1, <2>1
  <2>4. pc'[s] = "writing" /\ job'[s] = job[s]
    BY <1>1, <2>1
  <2>5. JobOK(s)'
    BY <1>1, <2>1, <2>4 DEF JobOK, JobRuns, JobKeeps, JobPairs, Holds
  <2>6. QED
    BY <1>1, <2>1, <2>2, <2>3, <2>5, Blanks, SessionStep
<1>9. ASSUME NEW s \in Sessions, Write(s)
      PROVE  IInv'
  <2>1. /\ pc[s] = "writing"
        /\ file' = job[s].out \/ file' = Corrupt
        /\ kept' = IF file'.state = "written" THEN file'.vals ELSE kept
        /\ pc' = [pc EXCEPT ![s] = "idle"] /\ job' = [job EXCEPT ![s] = NoJob]
        /\ UNCHANGED source
    BY <1>9 DEF Write
  <2>2. job[s].out \in Contents /\ job[s].out.state = "written"
    BY <1>1, <2>1 DEF JobOK, JobRuns, JobKeeps, JobPairs, Holds, Jobs
  <2>3. file' \in Contents
    BY <2>1, <2>2, Blanks
  <2>4. file'.state = "written" \/ file'.state = "corrupt"
    BY <2>1, <2>2 DEF Corrupt
  <2>5. KeptIsFile'
    BY <2>1, <2>4 DEF KeptIsFile
  <2>6. kept' \in [Leaves -> Values]
    BY <1>1, <2>1, <2>3 DEF Contents
  <2>7. JobOK(s)'
    BY <2>1, Stopped
  <2>8. QED
    BY <1>1, <2>1, <2>3, <2>5, <2>6, <2>7, NoJobTyped, SessionStep
<1>10. CASE UNCHANGED vars
  BY <1>10 DEF vars, IInv, TypeOK, KeptIsFile, JobOK, JobRuns, JobKeeps, JobPairs, Holds
<1>11. QED
  BY <1>2, <1>3, <1>4, <1>5, <1>6, <1>7, <1>8, <1>9, <1>10 DEF Next

(* The type invariant of ExpandedSet, for any number of sessions.           *)
THEOREM TypeCorrect == Spec => []TypeOK
<1>1. IInv => TypeOK
  BY DEF IInv
<1>2. QED
  BY InitIInv, NextIInv, <1>1, PTL DEF Spec

(* The invariant holds in every reachable state.                            *)
LEMMA Invariance == Spec => []IInv
  BY InitIInv, NextIInv, PTL DEF Spec
(* Without --force an expand never discards what an earlier command wrote,  *)
(* however the sessions interleave and wherever they are killed: what its   *)
(* session kept in hand agrees with what was in the file when it resolved.  *)
THEOREM FillsSurvive == Spec => FillsSurviveExpand
<1>1. ASSUME IInv, NEW s \in Sessions, Commits(s, {"expand"}), NEW l \in Leaves
      PROVE  IsSentinelLeaf(job[s].seen[l]) \/ file'.vals[l] = job[s].seen[l]
  <2>1. Holds(s) /\ job[s].cmd = "expand" /\ file' = job[s].out
    BY <1>1 DEF Commits, Holds
  <2>2. JobKeeps(s)
    BY <1>1 DEF IInv, JobOK
  <2>3. QED
    BY <2>1, <2>2 DEF JobKeeps
<1>2. IInv /\ [Next]_vars =>
        [\A s \in Sessions : Commits(s, {"expand"}) =>
           \A l \in Leaves :
             IsSentinelLeaf(job[s].seen[l]) \/ file'.vals[l] = job[s].seen[l]]_vars
  BY <1>1
<1>3. QED
  BY Invariance, <1>2, PTL DEF Spec, FillsSurviveExpand

(* After an expand both sides of a consumed secret export are filled, or    *)
(* both are still to fill.                                                  *)
THEOREM SecretsTogether == Spec => SecretsFilledTogether
<1>1. ASSUME IInv, NEW s \in Sessions, Commits(s, {"expand", "force"}),
             NEW e \in Secret \cap Consumed
      PROVE  IsSentinelLeaf(file'.vals[e])
               <=> IsSentinelLeaf(file'.vals[ConsumerLeaf[e]])
  <2>1. Holds(s) /\ job[s].cmd \in {"expand", "force"} /\ file' = job[s].out
    BY <1>1 DEF Commits, Holds
  <2>2. JobPairs(s)
    BY <1>1 DEF IInv, JobOK
  <2>3. QED
    BY <2>1, <2>2 DEF JobPairs, Paired
<1>2. IInv /\ [Next]_vars =>
        [\A s \in Sessions : Commits(s, {"expand", "force"}) =>
           \A e \in Secret \cap Consumed :
             IsSentinelLeaf(file'.vals[e])
               <=> IsSentinelLeaf(file'.vals[ConsumerLeaf[e]])]_vars
  BY <1>1
<1>3. QED
  BY Invariance, <1>2, PTL DEF Spec, SecretsFilledTogether

(* expand is idempotent in every state, and of every source and prior at    *)
(* all: nothing about how the file came to be is needed.                    *)
THEOREM ExpandTwice == Spec => []ExpandIdempotent
<1>1. ExpandIdempotent
  <2> DEFINE once == Expanded(source, file.vals)
  <2>1. once.vals = ResolvedValues(source, file.vals)
    BY ExpandedFacts
  <2>2. ResolvedValues(source, once.vals) = ResolvedValues(source, file.vals)
    BY <2>1, ResolvedTwice
  <2>3. Expanded(source, once.vals) = once
    BY <2>2 DEF Expanded
  <2>4. QED
    BY <2>3 DEF ExpandIdempotent
<1>2. QED
  BY <1>1, PTL

-------------------------------------------------------------------------------
(* The list of placeholders is complete as long as no fill says the         *)
(* sentinel itself, which LoadFill would not list.                          *)
CompleteInv ==
  /\ file.state = "written" => Complete(file)
  /\ \A s \in Sessions : Holds(s) => Complete(job[s].out)

(* What a fill leaves unfilled stays listed: its unit holds a sentinel.     *)
LEMMA FillComplete ==
  ASSUME NEW f, Complete(f), NEW L, NEW v, ~ Scanned(v)
  PROVE  LET vals == [l \in Leaves |-> IF l \in L THEN v ELSE f.vals[l]]
         IN Complete(Written(vals, Remaining(vals, f.phs, L)))
<1> DEFINE vals == [l \in Leaves |-> IF l \in L THEN v ELSE f.vals[l]]
<1> SUFFICES ASSUME NEW l \in Leaves, Scanned(vals[l])
             PROVE  l \in Remaining(vals, f.phs, L)
  BY DEF Complete, Written
<1>1. Scanned(f.vals[l]) /\ Contains(vals[l])
  BY DEF Scanned, Contains
<1>2. l \in f.phs
  BY <1>1 DEF Complete
<1>3. QED
  BY <1>1, <1>2 DEF Remaining

LEMMA NextComplete ==
  ASSUME FillValues \cap {Sentinel, Nested} = {}, IInv, CompleteInv, [Next]_vars
  PROVE  CompleteInv'
<1>1. pc \in [Sessions -> {"idle", "loaded", "write", "writing"}]
      /\ job \in [Sessions -> Jobs]
  BY DEF IInv, TypeOK, Jobs
<1>2. ASSUME NEW s \in Sessions, Resolve(s)
      PROVE  CompleteInv'
  <2>1. /\ file' = file
        /\ pc' = [pc EXCEPT ![s] = "write"]
        /\ Complete(job'[s].out)
        /\ \A t \in Sessions \ {s} : job'[t] = job[t]
    <3> DEFINE prior == IF job[s].cmd = "force" THEN NoValues ELSE file.vals
               out == Expanded(job[s].src, prior)
    <3>1. job' = [job EXCEPT ![s].out = out, ![s].seen = kept]
      BY <1>2 DEF Resolve
    <3>2. Complete(out)
      BY ExpandedFacts
    <3> HIDE DEF out
    <3>3. job'[s].out = out
      BY <1>1, <3>1 DEF Jobs
    <3>4. QED
      BY <1>1, <1>2, <3>1, <3>2, <3>3 DEF Resolve
  <2>2. QED
    BY <1>1, <2>1 DEF CompleteInv, Holds
<1>3. ASSUME NEW s \in Sessions, NEW L \in FillSets, NEW v \in FillValues, LoadFill(s, L, v)
      PROVE  CompleteInv'
  <2> DEFINE vals == [l \in Leaves |-> IF l \in L THEN v ELSE file.vals[l]]
             out == Written(vals, Remaining(vals, file.phs, L))
  <2>1. /\ file.state = "written" /\ file' = file
        /\ pc' = [pc EXCEPT ![s] = "write"]
        /\ job' = [job EXCEPT ![s] = [NoJob EXCEPT !.cmd = "fill", !.out = out]]
    BY <1>3 DEF LoadFill
  <2>2. ~ Scanned(v)
    BY DEF Scanned
  <2>3. Complete(out)
    BY <2>1, <2>2, FillComplete DEF CompleteInv
  <2> HIDE DEF out
  <2>4. job'[s].out = out /\ \A t \in Sessions \ {s} : job'[t] = job[t]
    BY <1>1, <2>1, NoJobTyped DEF Jobs, NoJob
  <2>5. QED
    BY <1>1, <2>1, <2>3, <2>4 DEF CompleteInv, Holds
<1>4. ASSUME NEW s \in Sessions,
             (\E cmd \in {"expand", "force"} : LoadSource(s, cmd)) \/ PriorUnreadable(s) \/ Crash(s)
      PROVE  CompleteInv'
  <2>1. /\ file' = file
        /\ pc' = [pc EXCEPT ![s] = "loaded"] \/ pc' = [pc EXCEPT ![s] = "idle"]
        /\ \A t \in Sessions \ {s} : job'[t] = job[t]
    BY <1>1, <1>4 DEF LoadSource, PriorUnreadable, Crash
  <2>2. QED
    BY <1>1, <2>1 DEF CompleteInv, Holds
<1>5. ASSUME NEW s \in Sessions, Truncate(s)
      PROVE  CompleteInv'
  <2>1. file'.state = "corrupt"
    BY <1>5 DEF Truncate, Corrupt
  <2>2. pc[s] = "write" /\ pc' = [pc EXCEPT ![s] = "writing"] /\ job' = job
    BY <1>5 DEF Truncate
  <2>3. QED
    BY <1>1, <2>1, <2>2 DEF CompleteInv, Holds
<1>6. ASSUME NEW s \in Sessions, Write(s)
      PROVE  CompleteInv'
  <2>1. /\ pc[s] = "writing"
        /\ file' = job[s].out \/ file' = Corrupt
        /\ pc' = [pc EXCEPT ![s] = "idle"]
        /\ job' = [job EXCEPT ![s] = NoJob]
    BY <1>6 DEF Write
  <2>2. file'.state = "written" => Complete(file')
    BY <2>1 DEF CompleteInv, Holds, Corrupt
  <2>3. QED
    BY <1>1, <2>1, <2>2 DEF CompleteInv, Holds
<1>7. CASE Remove
  BY <1>7 DEF Remove, Absent, CompleteInv, Holds
<1>8. CASE (\E l \in Inputs, v \in SourceValues : EditSource(l, v)) \/ UNCHANGED vars
  BY <1>8 DEF EditSource, vars, CompleteInv, Holds
<1>9. QED
  BY <1>2, <1>3, <1>4, <1>5, <1>6, <1>7, <1>8 DEF Next

(* spec.resolved.placeholders is complete in every reachable state, when no *)
(* fill writes the sentinel itself.                                         *)
THEOREM ListIsComplete ==
  ASSUME FillValues \cap {Sentinel, Nested} = {}
  PROVE  Spec => []UnfilledListed
<1>1. Init => CompleteInv
  BY DEF Init, CompleteInv, Absent, Holds
<1>2. IInv /\ CompleteInv /\ [Next]_vars => CompleteInv'
  BY NextComplete
<1>3. CompleteInv => UnfilledListed
  BY DEF CompleteInv, UnfilledListed, Complete
<1>4. QED
  BY Invariance, <1>1, <1>2, <1>3, PTL DEF Spec

-------------------------------------------------------------------------------
(* A tree was rendered with --allow-placeholders or holds no sentinel.      *)
Clean(t) == t.allow \/ \A l \in Leaves : ~ Contains(t.set[l])

\* The render that runs has passed its gate, and every tree passed it.
PipelineInv ==
  /\ \A t \in rendered \cup cluster : Clean(t)
  /\ tool.cmd = "render" => Clean(tool)

(* The gate is before the render and the apply takes a whole rendered tree, *)
(* so no sentinel reaches the cluster, whatever else runs on the workspace. *)
THEOREM ClusterHasNoSentinel == PipelineSpec => []NoSentinelOnCluster
<1>1. PipelineInit => PipelineInv
  BY DEF PipelineInit, PipelineInv, Idle
<1>2. PipelineInv /\ [PipelineNext]_allVars => PipelineInv'
  <2> SUFFICES ASSUME PipelineInv, [PipelineNext]_allVars PROVE PipelineInv'
    OBVIOUS
  <2>1. CASE UNCHANGED tree
    BY <2>1 DEF PipelineInv, tree
  <2>2. ASSUME NEW allow \in BOOLEAN, RenderLoad(allow)
        PROVE  PipelineInv'
    BY <2>2 DEF RenderLoad, Renderable, PipelineInv, Clean
  <2>3. ASSUME NEW allow \in BOOLEAN, ApplyLoad(allow)
        PROVE  PipelineInv'
    BY <2>3 DEF ApplyLoad, PipelineInv
  <2>4. CASE RenderSwap
    BY <2>4 DEF RenderSwap, PipelineInv, Clean, Idle
  <2>5. CASE ApplyRun
    BY <2>5 DEF ApplyRun, PipelineInv, Idle
  <2>6. CASE ToolStops
    BY <2>6 DEF ToolStops, PipelineInv, Idle
  <2>7. QED
    BY <2>1, <2>2, <2>3, <2>4, <2>5, <2>6 DEF PipelineNext, allVars, tree
<1>3. PipelineInv => NoSentinelOnCluster
  BY DEF PipelineInv, NoSentinelOnCluster, Clean
<1>4. QED
  BY <1>1, <1>2, <1>3, PTL DEF PipelineSpec
-------------------------------------------------------------------------------
(* The commands that consume the file only read it: the pipeline implements *)
(* the life of the file, so what is proved of ExpandedSet holds in it.      *)
THEOREM PipelineImplementsExpandedSet == PipelineSpec => Spec
<1>1. PipelineInit => Init
  BY DEF PipelineInit
<1>2. [PipelineNext]_allVars => [Next]_vars
  BY DEF PipelineNext, allVars, vars, RenderLoad, ApplyLoad, RenderSwap, ApplyRun, ToolStops
<1>3. QED
  BY <1>1, <1>2, PTL DEF PipelineSpec, Spec

(* At most one tree is rendered and one applied.                            *)
LEMMA OneTree ==
  ASSUME NEW t \in Trees
  PROVE  {t} \subseteq Trees /\ Cardinality({t}) <= 1
  BY FS_Singleton

\* What may run, and that it may be nothing.
Tools == [cmd : {"none", "render", "apply"}, set : [Leaves -> Values], allow : BOOLEAN]

LEMMA IdleTyped == Idle \in Tools
  BY Blanks DEF Idle, Tools

(* The type invariant of the pipeline.                                      *)
THEOREM PipelineTypeCorrect == PipelineSpec => []PipelineTypeOK
<1>1. PipelineInit => PipelineTypeOK
  BY Blanks, FS_EmptySet DEF PipelineInit, PipelineTypeOK, Idle
<1>2. TypeOK /\ PipelineTypeOK /\ [PipelineNext]_allVars => PipelineTypeOK'
  <2> SUFFICES ASSUME TypeOK, PipelineTypeOK, [PipelineNext]_allVars
               PROVE  PipelineTypeOK'
    OBVIOUS
  <2>1. CASE UNCHANGED tree
    BY <2>1 DEF PipelineTypeOK, tree
  <2>2. ASSUME NEW allow \in BOOLEAN, RenderLoad(allow) \/ ApplyLoad(allow)
        PROVE  PipelineTypeOK'
    <3>1. file.vals \in [Leaves -> Values]
      BY DEF TypeOK, Contents
    <3>2. tool' \in Tools
      <4>1. CASE RenderLoad(allow)
        <5>1. tool' = [cmd |-> "render", set |-> file.vals, allow |-> allow]
          BY <4>1 DEF RenderLoad
        <5>2. QED
          BY <3>1, <5>1 DEF Tools
      <4>2. CASE ApplyLoad(allow)
        <5>1. tool' = [cmd |-> "apply", set |-> file.vals, allow |-> FALSE]
          BY <4>2 DEF ApplyLoad
        <5>2. QED
          BY <3>1, <5>1 DEF Tools
      <4>3. QED
        BY <2>2, <4>1, <4>2
    <3>3. rendered' = rendered /\ cluster' = cluster
      BY <2>2 DEF RenderLoad, ApplyLoad
    <3>4. QED
      BY <3>2, <3>3 DEF PipelineTypeOK, Tools
  <2>3. CASE RenderSwap
    <3>1. [set |-> tool.set, allow |-> tool.allow] \in Trees
      BY DEF PipelineTypeOK, Trees
    <3>2. rendered' \subseteq Trees /\ Cardinality(rendered') <= 1
      BY <2>3, <3>1, OneTree DEF RenderSwap
    <3>3. QED
      BY <2>3, <3>2, IdleTyped DEF RenderSwap, PipelineTypeOK, Tools
  <2>4. CASE ApplyRun \/ ToolStops
    <3>1. tool' = Idle
      BY <2>4 DEF ApplyRun, ToolStops
    <3>2. rendered' = rendered /\ (cluster' = cluster \/ cluster' = rendered)
      BY <2>4 DEF ApplyRun, ToolStops
    <3>3. QED
      BY <3>1, <3>2, IdleTyped DEF PipelineTypeOK, Tools
  <2>5. QED
    BY <2>1, <2>2, <2>3, <2>4 DEF PipelineNext, allVars, tree
<1>3. QED
  BY TypeCorrect, PipelineImplementsExpandedSet, <1>1, <1>2, PTL DEF PipelineSpec
===============================================================================
