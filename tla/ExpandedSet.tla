------------------------------ MODULE ExpandedSet ------------------------------
(***************************************************************************)
(* The life of .bootwright/expanded/gitops-package-set.yaml: `expand`      *)
(* computes it from the source package set and from its own prior content, *)
(* `fill` rewrites leaves of it, and nothing but the file itself remembers *)
(* what the user filled in.  Commands are processes that share the file    *)
(* without a lock and write it with os.WriteFile (truncate, then write).   *)
(*                                                                         *)
(* A leaf is one path of one unit's resolvedValues.  Inputs are the leaves *)
(* of install and resource units, taken from the source; the exports of a  *)
(* binding are provider-side leaves, mirrored into the consumer's leaf     *)
(* ConsumerLeaf[e] when the consumer's `requires` consumes them.           *)
(***************************************************************************)
EXTENDS Integers, FiniteSets

CONSTANTS Inputs,       \* leaves of install/resource units
          Exports,      \* provider-side leaves of a binding's exports
          Consumed,     \* the exports the consumer consumes
          ConsumerLeaf, \* export -> consumer-side leaf
          FromInput,    \* exports with from: "input:..." -> provider's input
          Secret,       \* the secret exports
          Unit,         \* leaf -> resolved unit
          SourceValues, \* what the source or a descriptor default may say
          FillValues,   \* what `fill --set` may say
          MaxSets,      \* --set flags per fill
          Sessions,     \* commands that may run at the same time
          Sentinel,     \* the placeholder sentinel, alone
          Embedded,     \* a string with the sentinel inside
          Nested        \* a list of maps with the sentinel inside

ConsumerLeaves == {ConsumerLeaf[e] : e \in Consumed}
Leaves == Inputs \cup Exports \cup ConsumerLeaves

ASSUME ShapeAssumption ==
  /\ Consumed \subseteq Exports /\ Secret \subseteq Exports
  /\ Inputs \cap Exports = {}
  /\ DOMAIN ConsumerLeaf = Consumed
  /\ DOMAIN FromInput \subseteq Exports
  /\ \A e \in DOMAIN FromInput : FromInput[e] \in Inputs
  /\ \A d, e \in Consumed : d # e => ConsumerLeaf[d] # ConsumerLeaf[e]
  /\ ConsumerLeaves \cap (Inputs \cup Exports) = {}
  /\ DOMAIN Unit = Leaves

Values == SourceValues \cup FillValues \cup {Sentinel, Embedded, Nested}

\* isSentinelLeaf: only an exact sentinel gives way to another value.
IsSentinelLeaf(v) == v = Sentinel
\* placeholders.Contains: the sentinel anywhere in the value.
Contains(v) == v \in {Sentinel, Embedded, Nested}
\* placeholders.Scan: an exact sentinel string anywhere in the value's tree.
Scanned(v) == v \in {Sentinel, Nested}

NoValues == [l \in Leaves |-> Sentinel]  \* a prior nobody wrote: all to fill
Absent   == [state |-> "absent",  vals |-> NoValues, phs |-> {}]
Corrupt  == [state |-> "corrupt", vals |-> NoValues, phs |-> {}]
Written(vals, phs) == [state |-> "written", vals |-> vals, phs |-> phs]

VARIABLES
  source,  \* input -> value in gitops-package-set.yaml
  file,    \* the expanded file
  pc,      \* session -> "idle", "loaded", "write", "writing"
  job,     \* session -> its command, the source it read, what it will write, and
           \*   a ghost: what was kept when an expand resolved
  kept     \* ghost: the last content written, until it is thrown away

vars == <<source, file, pc, job, kept>>

NoJob == [cmd |-> "none", src |-> [l \in Inputs |-> Sentinel], out |-> Absent,
          seen |-> NoValues]

-------------------------------------------------------------------------------
\* overlayUserEdits, on a leaf: whatever the prior says wins, unless it is
\* still the sentinel.
OverlayUserEdits(base, prior) == IF IsSentinelLeaf(prior) THEN base ELSE prior

\* computeExportValues for one export: its declared origin, or for a secret the
\* fill found on the provider's side, else on the consumer's.  An origin
\* binding:<key> reads the binding's own values, which are leaves of no unit: it
\* is an origin input:<key> whose input no command fills.
\* Mutant: the consumer's side is not looked at.
ExportProviderOnly(e, inputs, prior) ==
  IF e \in Secret /\ ~ IsSentinelLeaf(prior[e]) THEN prior[e]
  ELSE IF e \in DOMAIN FromInput THEN inputs[FromInput[e]] ELSE Sentinel

ExportValue(e, inputs, prior) ==
  LET origin == IF e \in DOMAIN FromInput THEN inputs[FromInput[e]] ELSE Sentinel
      fills  == [p |-> prior[e],
                 c |-> IF e \in Consumed THEN prior[ConsumerLeaf[e]] ELSE Sentinel]
  IN IF e \notin Secret THEN origin
     ELSE IF ~ IsSentinelLeaf(fills.p) THEN fills.p
     ELSE IF ~ IsSentinelLeaf(fills.c) THEN fills.c
     ELSE origin

\* Mutant of ResolvedValues: a prior value wins only over the sentinel, as in
\* overlayPlaceholderFills.
ResolvedFromSource(src, prior) ==
  LET keep(base, old) == IF IsSentinelLeaf(base) THEN old ELSE base
      inputs == [l \in Inputs |-> keep(src[l], prior[l])]
      export == [e \in Exports |-> ExportValue(e, inputs, prior)]
  IN [l \in Leaves |->
        IF l \in Inputs THEN inputs[l]
        ELSE IF l \in Exports THEN keep(export[l], prior[l])
        ELSE keep(export[CHOOSE e \in Consumed : ConsumerLeaf[e] = l], prior[l])]

\* Mutant of ResolvedValues: exports read the provider's values as they were
\* before this expand.
ResolvedFromStale(src, prior) ==
  LET inputs == [l \in Inputs |-> OverlayUserEdits(src[l], prior[l])]
      export == [e \in Exports |-> ExportValue(e, prior, prior)]
  IN [l \in Leaves |->
        IF l \in Inputs THEN inputs[l]
        ELSE IF l \in Exports THEN OverlayUserEdits(export[l], prior[l])
        ELSE OverlayUserEdits(
               export[CHOOSE e \in Consumed : ConsumerLeaf[e] = l], prior[l])]

\* Expand: the values of every leaf.  An export reads the provider's install
\* values after the overlay; both sides of a binding are overlaid again.
ResolvedValues(src, prior) ==
  LET inputs == [l \in Inputs |-> OverlayUserEdits(src[l], prior[l])]
      export == [e \in Exports |-> ExportValue(e, inputs, prior)]
  IN [l \in Leaves |->
        IF l \in Inputs THEN inputs[l]
        ELSE IF l \in Exports THEN OverlayUserEdits(export[l], prior[l])
        ELSE OverlayUserEdits(
               export[CHOOSE e \in Consumed : ConsumerLeaf[e] = l], prior[l])]

Expanded(src, prior) ==
  LET vals == ResolvedValues(src, prior)
  IN Written(vals, {l \in Leaves : Scanned(vals[l])})

\* Mutant of Remaining: an entry goes as soon as its leaf's unit was filled.
RemainingUntouched(vals, phs, filled) ==
  {l \in phs : \A m \in filled : Unit[m] # Unit[l]}

\* fill: the entries of every unit that holds the sentinel anywhere.
Remaining(vals, phs, filled) ==
  {l \in phs : \E m \in Leaves : Unit[m] = Unit[l] /\ Contains(vals[m])}

-------------------------------------------------------------------------------
Init ==
  /\ source \in [Inputs -> SourceValues]
  /\ file = Absent
  /\ pc = [s \in Sessions |-> "idle"]
  /\ job = [s \in Sessions |-> NoJob]
  /\ kept = NoValues

\* The user edits the source package set.
EditSource(l, v) ==
  /\ source' = [source EXCEPT ![l] = v]
  /\ UNCHANGED <<file, pc, job, kept>>

\* The user deletes the generated file between commands.
Remove ==
  /\ \A s \in Sessions : pc[s] = "idle"
  /\ file' = Absent
  /\ kept' = NoValues
  /\ UNCHANGED <<source, pc, job>>

\* expand [--force]: the source is loaded and the catalog built ...
LoadSource(s, cmd) ==
  /\ pc[s] = "idle"
  /\ cmd \in {"expand", "force"}
  /\ pc' = [pc EXCEPT ![s] = "loaded"]
  /\ job' = [job EXCEPT ![s] = [NoJob EXCEPT !.cmd = cmd, !.src = source]]
  /\ UNCHANGED <<source, file, kept>>

\* ... then the prior is loaded, unless forced, and the file resolved.
Resolve(s) ==
  /\ pc[s] = "loaded"
  /\ \/ job[s].cmd = "force"
     \/ file.state # "corrupt"
  /\ LET prior == IF job[s].cmd = "force" THEN NoValues ELSE file.vals
     IN job' = [job EXCEPT ![s].out = Expanded(job[s].src, prior), ![s].seen = kept]
  /\ pc' = [pc EXCEPT ![s] = "write"]
  /\ UNCHANGED <<source, file, kept>>

\* A prior that does not load fails the command.
PriorUnreadable(s) ==
  /\ pc[s] = "loaded"
  /\ job[s].cmd = "expand"
  /\ file.state = "corrupt"
  /\ pc' = [pc EXCEPT ![s] = "idle"]
  /\ job' = [job EXCEPT ![s] = NoJob]
  /\ UNCHANGED <<source, file, kept>>

\* fill --set ...: load the file, set leaves, refilter the placeholder list.
\* Without a readable file the command fails and changes nothing.
LoadFill(s, L, v) ==
  /\ pc[s] = "idle"
  /\ file.state = "written"
  /\ LET vals == [l \in Leaves |-> IF l \in L THEN v ELSE file.vals[l]]
         out  == Written(vals, Remaining(vals, file.phs, L))
     IN job' = [job EXCEPT ![s] = [NoJob EXCEPT !.cmd = "fill", !.out = out]]
  /\ pc' = [pc EXCEPT ![s] = "write"]
  /\ UNCHANGED <<source, file, kept>>

\* os.WriteFile opens the file with O_TRUNC ...
Truncate(s) ==
  /\ pc[s] = "write"
  /\ file' = Corrupt
  /\ pc' = [pc EXCEPT ![s] = "writing"]
  /\ UNCHANGED <<source, job, kept>>

\* ... and writes it.  When another session has written since, the two texts
\* may overlay each other into something that does not load.
Write(s) ==
  /\ pc[s] = "writing"
  /\ \/ file' = job[s].out
     \/ file.state = "written" /\ file' = Corrupt
  /\ kept' = IF file'.state = "written" THEN file'.vals ELSE kept
  /\ pc' = [pc EXCEPT ![s] = "idle"]
  /\ job' = [job EXCEPT ![s] = NoJob]
  /\ UNCHANGED source

\* The command is killed.
Crash(s) ==
  /\ pc[s] # "idle"
  /\ pc' = [pc EXCEPT ![s] = "idle"]
  /\ job' = [job EXCEPT ![s] = NoJob]
  /\ UNCHANGED <<source, file, kept>>

FillSets == {L \in SUBSET Leaves : Cardinality(L) \in 1..MaxSets}

Next ==
  \/ \E l \in Inputs, v \in SourceValues : EditSource(l, v)
  \/ Remove
  \/ \E s \in Sessions :
       \/ \E cmd \in {"expand", "force"} : LoadSource(s, cmd)
       \/ Resolve(s)
       \/ PriorUnreadable(s)
       \/ \E L \in FillSets, v \in FillValues : LoadFill(s, L, v)
       \/ Truncate(s)
       \/ Write(s)
       \/ Crash(s)

Spec == Init /\ [][Next]_vars

-------------------------------------------------------------------------------
Contents == [state : {"absent", "corrupt", "written"},
             vals : [Leaves -> Values], phs : SUBSET Leaves]

TypeOK ==
  /\ source \in [Inputs -> SourceValues]
  /\ file \in Contents
  /\ pc \in [Sessions -> {"idle", "loaded", "write", "writing"}]
  /\ job \in [Sessions -> [cmd : {"none", "expand", "force", "fill"},
                           src : [Inputs -> Values], out : Contents,
                           seen : [Leaves -> Values]]]
  /\ kept \in [Leaves -> Values]

\* Session s ends with its command's text in the file.
Commits(s, cmds) ==
  pc[s] = "writing" /\ job[s].cmd \in cmds /\ file' = job[s].out /\ kept' = file'.vals

(* `apply gitops` trusts spec.resolved.placeholders: it is complete.  Every *)
(* leaf that still is the sentinel is listed, after any interleaving of     *)
(* expands and fills, whatever was filled, emptied or edited in between.    *)
UnfilledListed ==
  file.state = "written" =>
    {l \in Leaves : Scanned(file.vals[l])} \subseteq file.phs

(* expand is idempotent: resolving once more, from the same source and its  *)
(* own result, gives the same values and the same placeholders, in every    *)
(* state the file can get into.                                             *)
ExpandIdempotent ==
  LET once == Expanded(source, file.vals)
  IN Expanded(source, once.vals) = once

(* Without --force an expand never discards what an earlier command wrote:  *)
(* every leaf that had a value when the expand resolved keeps it, also when *)
(* commands crashed between their truncation and their write.               *)
FillsSurviveExpand ==
  [][\A s \in Sessions : Commits(s, {"expand"}) =>
       \A l \in Leaves :
         IsSentinelLeaf(job[s].seen[l]) \/ file'.vals[l] = job[s].seen[l]]_vars

(* After an expand both sides of a consumed secret export are filled, or    *)
(* both still to fill: one fill serves the provider and the consumer.       *)
SecretsFilledTogether ==
  [][\A s \in Sessions : Commits(s, {"expand", "force"}) =>
       \A e \in Secret \cap Consumed :
         IsSentinelLeaf(file'.vals[e])
           <=> IsSentinelLeaf(file'.vals[ConsumerLeaf[e]])]_vars

-------------------------------------------------------------------------------
(* What the repository says and the code does not do.                       *)

(* "Secret exports sync across consumer/provider" (bindings.go:262): after  *)
(* an expand both sides of a consumed secret hold the same value.           *)
SecretsAgree ==
  [][\A s \in Sessions : Commits(s, {"expand", "force"}) =>
       \A e \in Secret \cap Consumed :
         file'.vals[e] = file'.vals[ConsumerLeaf[e]]]_vars

(* "users edit the source" (specs/gitops.md:32): with nothing filled into   *)
(* the generated file, an expand writes what the source it read says.       *)
SourceIsAuthoritative ==
  [][\A s \in Sessions : Commits(s, {"expand"}) =>
       \A l \in Inputs : file'.vals[l] = job[s].src[l]]_vars

(* "force expand should preserve user-authored fill"                        *)
(* (resolve_test.go:170): a leaf the source leaves to fill keeps its fill.  *)
ForceKeepsFills ==
  [][\A s \in Sessions : Commits(s, {"force"}) =>
       \A l \in Inputs : IsSentinelLeaf(job[s].src[l]) =>
         IsSentinelLeaf(kept[l]) \/ file'.vals[l] = kept[l]]_vars

(* "(%d placeholder(s) remaining)" (gitops_plan_fill.go:172): what a fill   *)
(* counts as remaining is what remains.                                     *)
RemainingIsExact ==
  file.state = "written" =>
    \A l \in file.phs : Contains(file.vals[l])
===============================================================================
