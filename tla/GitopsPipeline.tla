----------------------------- MODULE GitopsPipeline -----------------------------
(***************************************************************************)
(* expand, fill, render and apply on one workspace.  ExpandedSet is the    *)
(* expanded file; this module adds the two commands that consume it.       *)
(* `render` refuses values that hold the sentinel anywhere and replaces    *)
(* the rendered tree (RenderPublish details the replacement); `apply`      *)
(* looks at the placeholder list of the file and then applies whatever     *)
(* tree is rendered.                                                       *)
(***************************************************************************)
EXTENDS ExpandedSet

VARIABLES
  rendered, \* what the rendered tree was made from: a set of at most one
            \* [set |-> values, allow |-> --allow-placeholders]
  cluster,  \* the rendered tree last applied to the cluster, likewise
  tool      \* the render or apply command that runs, if any

allVars == <<source, file, pc, job, kept, rendered, cluster, tool>>
tree == <<rendered, cluster, tool>>

Idle == [cmd |-> "none", set |-> NoValues, allow |-> FALSE]

PipelineInit == Init /\ rendered = {} /\ cluster = {} /\ tool = Idle

\* Mutant of Renderable: the gate of apply, the list of placeholders.
RenderableByList(f) == f.phs = {}

\* failOnPlaceholders: no unit holds the sentinel anywhere.
Renderable(f) == \A l \in Leaves : ~ Contains(f.vals[l])

\* render: load the file and pass the gate, or fail ...
RenderLoad(allow) ==
  /\ tool = Idle
  /\ file.state = "written"
  /\ allow \/ Renderable(file)
  /\ tool' = [cmd |-> "render", set |-> file.vals, allow |-> allow]
  /\ UNCHANGED <<source, file, pc, job, kept, rendered, cluster>>

\* ... render into a temporary directory and put it in place.
RenderSwap ==
  /\ tool.cmd = "render"
  /\ rendered' = {[set |-> tool.set, allow |-> tool.allow]}
  /\ tool' = Idle
  /\ UNCHANGED <<source, file, pc, job, kept, cluster>>

\* apply: load the file, pass its gate, ask for confirmation ...
ApplyLoad(allow) ==
  /\ tool = Idle
  /\ file.state = "written"
  /\ allow \/ file.phs = {}
  /\ tool' = [cmd |-> "apply", set |-> file.vals, allow |-> FALSE]
  /\ UNCHANGED <<source, file, pc, job, kept, rendered, cluster>>

\* ... and apply the rendered tree, if there is one.
ApplyRun ==
  /\ tool.cmd = "apply"
  /\ rendered # {}
  /\ cluster' = rendered
  /\ tool' = Idle
  /\ UNCHANGED <<source, file, pc, job, kept, rendered>>

\* The command fails (nothing rendered, the user says no) or is killed.
ToolStops ==
  /\ tool # Idle
  /\ tool' = Idle
  /\ UNCHANGED <<source, file, pc, job, kept, rendered, cluster>>

\* The user runs one command after the other, or several at a time.
PipelineNext ==
  \/ Next /\ UNCHANGED tree
  \/ \E allow \in BOOLEAN : RenderLoad(allow) \/ ApplyLoad(allow)
  \/ RenderSwap
  \/ ApplyRun
  \/ ToolStops

PipelineSpec == PipelineInit /\ [][PipelineNext]_allVars

-------------------------------------------------------------------------------
Trees == [set : [Leaves -> Values], allow : BOOLEAN]

PipelineTypeOK ==
  /\ rendered \subseteq Trees /\ Cardinality(rendered) <= 1
  /\ cluster \subseteq Trees /\ Cardinality(cluster) <= 1
  /\ tool \in [cmd : {"none", "render", "apply"},
               set : [Leaves -> Values], allow : BOOLEAN]

(* Unless render was told to let placeholders through, no value that holds *)
(* the sentinel, in whatever form, reaches the cluster: not by a fill that *)
(* embeds it, not by a list the fill filtered, not by the file changing    *)
(* between the gates and the apply, and whatever apply itself was told.    *)
NoSentinelOnCluster ==
  \A t \in cluster : t.allow \/ \A l \in Leaves : ~ Contains(t.set[l])

-------------------------------------------------------------------------------
(* What the repository says and the code does not do.                       *)

(* "bootwright: no placeholders; ready to render." (gitops_lifecycle.go:168) *)
(* is what expand prints for a file without placeholder entries; render     *)
(* then passes its gate.                                                    *)
ReadyToRender ==
  [][\A s \in Sessions :
       Commits(s, {"expand", "force"}) /\ file'.phs = {} => Renderable(file')]_allVars

(* "bootwright apply gitops <name>  # render/push/bootstrap"                *)
(* (specs/gitops.md:133): what apply applies is what the file it loaded     *)
(* says.                                                                    *)
AppliesWhatItLoaded ==
  [][cluster' # cluster => \A t \in cluster' : t.set = tool.set]_allVars
===============================================================================
