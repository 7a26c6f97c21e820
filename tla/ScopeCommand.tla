----------------------------- MODULE ScopeCommand ----------------------------
(***************************************************************************)
(* A scope command (`check`, `apply`, `destroy` of infra, clusters or all) *)
(* on the bastion, up to and while its playbook runs. It loads the desired *)
(* state, checks the host, extracts the Ansible bundle of its own build    *)
(* over the one that is there, renders what the playbook reads, and runs   *)
(* it. The bundle and the rendered files have fixed places under the state *)
(* directory, there is no lock, and a command may be killed or fail at any *)
(* step, so another finds what it left, and may work beside it.            *)
(*                                                                         *)
(* The secrets directory, which the host check reads, is SecretFiles; a    *)
(* terminal runs one command, of either kind, at a time.                   *)
(***************************************************************************)
EXTENDS SecretFiles, Sequences, Functions

CONSTANTS
    ClusterList,    \* the OCPClusters, in the order they are rendered in
    PartsOf,        \* build -> the files of its bundle, in the order they are extracted in
    Kinds           \* the kinds of commands in use: see Scope

Clusters == Range(ClusterList)
Builds   == DOMAIN PartsOf
Parts    == UNION {Range(PartsOf[b]) : b \in Builds}

VARIABLES
    bundle,     \* part -> the build it is from
    rendered    \* file -> what it was rendered from

vars == <<secretVars, term, bundle, rendered>>

None == "none"

\* A bundle has files, in an order, and so have the clusters.
ASSUME ListsAssumption ==
    /\ ClusterList \in Seq(Clusters)
    /\ \A b \in Builds : PartsOf[b] \in Seq(Parts) /\ PartsOf[b] # <<>>

\* What a command runs from: the desired state it loaded, cut to names. A
\* "check" runs the preflight playbook, a "change" one that applies or
\* destroys.
Scope(step, kind, build, of, names) ==
    [step |-> step, kind |-> kind, build |-> build, of |-> of, names |-> names, at |-> 1, alone |-> FALSE]

ScopeSteps == {"host-check", "clear", "extract", "render", "run", "play"}
Scopes(t) == term[t].step \in ScopeSteps

\* What a playbook reads besides the bundle, and the order it is written in;
\* clusters that were not selected are passed over.
Reads(names) == {"inventory", "vars"} \cup names
Order == <<"inventory", "vars">> \o ClusterList
Later(r) == {i \in r.at + 1 .. Len(Order) : Order[i] \in Reads(r.names)}

\* The installer configs of a cluster are made from the desired state alone,
\* the inventory and the variables from what the selection left of it.
From(f, r) == IF f \in Clusters THEN <<r.of, {f}>> ELSE <<r.of, r.names>>

Extracted(build) == [p \in Parts |-> IF p \in Range(PartsOf[build]) THEN build ELSE None]

Init ==
    /\ SecretInit
    /\ bundle = [p \in Parts |-> None]
    /\ rendered = [f \in Clusters \cup {"inventory", "vars"} |-> None]

-----------------------------------------------------------------------------

\* The command goes on as r; who else is past its own clearing is no longer
\* alone with the files.
Writes(t, r) ==
    term' = [u \in Terminals |->
                IF u = t THEN r
                ELSE IF Scopes(u) THEN [term[u] EXCEPT !.alone = FALSE] ELSE term[u]]

\* A command of some build begins: it loads the desired state and cuts it to
\* what was selected.
Load(t, kind, step) ==
    /\ term[t] = Idle /\ begun < MaxCommands
    /\ begun' = begun + 1
    /\ \E build \in Builds, names \in SUBSET Clusters \ {{}} : Becomes(t, Scope(step, kind, build, want, names))
    /\ UNCHANGED <<want, cert, key, cred, bundle, rendered>>

\* A check, and an apply that is no dry run, look at the host first. A
\* destroy and a dry run do not.
LoadChecked(t) == \E kind \in Kinds : Load(t, kind, "host-check")
LoadUnchecked(t) == "change" \in Kinds /\ Load(t, "change", "clear")

\* The certificate is looked for when a cluster that is to be installed
\* trusts it. The key is not looked at.
Present(trusted) == trusted => There(cert)

\* What there is must say what is wanted.
NoDrift(of) == There(cert) => Says(of)

HostCheck(t) ==
    /\ term[t].step = "host-check"
    /\ \E trusted \in BOOLEAN :
           IF Present(trusted) /\ NoDrift(term[t].of) THEN To(t, "clear") ELSE Becomes(t, Idle)
    /\ UNCHANGED <<secretVars, bundle, rendered>>

Overlay(t) ==       \* mutant: the bundle is extracted over the one that is there
    /\ term[t].step = "clear"
    /\ Writes(t, [term[t] EXCEPT !.step = "extract", !.alone = TRUE])
    /\ UNCHANGED <<secretVars, bundle, rendered>>

\* RemoveAll, which may fail half way.
Clear(t) ==
    /\ term[t].step = "clear"
    /\ \/ /\ bundle' = [p \in Parts |-> None]
          /\ Writes(t, [term[t] EXCEPT !.step = "extract", !.alone = TRUE])
       \/ \E left \in SUBSET Parts :
              /\ bundle' = [p \in Parts |-> IF p \in left THEN bundle[p] ELSE None]
              /\ Writes(t, Idle)
    /\ UNCHANGED <<secretVars, rendered>>

Extract(t) ==
    LET r == term[t]
        parts == PartsOf[r.build]
    IN  /\ r.step = "extract"
        /\ bundle' = [bundle EXCEPT ![parts[r.at]] = r.build]
        /\ Writes(t, IF r.at = Len(parts) THEN [r EXCEPT !.step = "render", !.at = 1]
                     ELSE [r EXCEPT !.at = @ + 1])
        /\ UNCHANGED <<secretVars, rendered>>

\* Each file is replaced as a whole.
Render(t) ==
    LET r == term[t]
        f == Order[r.at]
    IN  /\ r.step = "render"
        /\ rendered' = [rendered EXCEPT ![f] = From(f, r)]
        /\ IF Later(r) = {} THEN Writes(t, [r EXCEPT !.step = "run"])
           ELSE \E i \in Later(r) :
                    (\A j \in Later(r) : i <= j) /\ Writes(t, [r EXCEPT !.at = i])
        /\ UNCHANGED <<secretVars, bundle>>

\* ansible-playbook starts; it reads roles, templates and installer configs
\* when it comes to them.
Run(t) ==
    /\ term[t].step = "run" /\ To(t, "play")
    /\ UNCHANGED <<secretVars, bundle, rendered>>

\* The playbook ends, or was to be printed only (--dry-run); or the command is
\* refused, declined at its prompt, killed, or fails to write the next file.
End(t) ==
    /\ Scopes(t) /\ Becomes(t, Idle)
    /\ UNCHANGED <<secretVars, bundle, rendered>>

Next ==
    \/ SecretNext /\ UNCHANGED <<bundle, rendered>>
    \/ \E t \in Terminals :
         \/ LoadChecked(t) \/ LoadUnchecked(t) \/ HostCheck(t)
         \/ Clear(t) \/ Extract(t) \/ Render(t) \/ Run(t) \/ End(t)

Spec == Init /\ [][Next]_vars

-----------------------------------------------------------------------------

\* The playbook of t reads what t made: the bundle of its build and nothing
\* else, and files that say what t loaded.
ReadsItsOwn(t) ==
    /\ bundle = Extracted(term[t].build)
    /\ \A f \in Reads(term[t].names) : rendered[f] = From(f, term[t])

\* For as long as no other command has written since it cleared the bundle, a
\* playbook reads only what its own command made, whatever commands that were
\* cut, of other builds and other selections, have left behind.
OwnInputs == \A t \in Terminals : Scopes(t) /\ term[t].step = "play" /\ term[t].alone => ReadsItsOwn(t)

(* What the documents say and the code does not keep.                       *)

\* state-model.md says `check` does not mutate: what a check writes leaves a
\* playbook that is changing machines with what it reads. A check extracts
\* its bundle and renders its files over those of the playbook.
CheckMutatesNothing ==
    [][\A t, u \in Terminals :
           /\ Scopes(t) /\ term[t].kind = "check" /\ term'[t] # term[t]
           /\ Scopes(u) /\ term[u].step = "play" /\ ReadsItsOwn(u)
           => <<bundle, rendered>>' = <<bundle, rendered>>]_vars

\* An apply whose host check passed, with no other command since, has the
\* pair it is to hand to the registry. The host check looks at the
\* certificate only.
CheckedPairIsWhole ==
    [][\A t \in Terminals : Scopes(t) /\ term[t].step = "host-check" /\ term'[t].step = "clear" /\ There(cert)
           => key.whole]_vars
=============================================================================
