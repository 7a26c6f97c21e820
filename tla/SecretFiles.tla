----------------------------- MODULE SecretFiles -----------------------------
(***************************************************************************)
(* The secrets directory of the bastion and the two commands that write    *)
(* it: `secret generate`, which makes a self-signed certificate with its   *)
(* key and a file of credentials, each only when it is not there, and      *)
(* `secret set`, which overwrites. They run in several terminals without a *)
(* lock and may be killed, or fail to write, between any two system calls. *)
(***************************************************************************)
EXTENDS Naturals

CONSTANTS
    Terminals,      \* of the bastion
    MaxCommands,    \* bound: commands begun
    MaxWant         \* bound: edits of the desired state

ASSUME SecretBounds == {MaxCommands, MaxWant} \subseteq Nat

VARIABLES
    want,       \* the desired state, by the number of its edits
    cert,       \* <name>: the certificate
    key,        \* <name>.key
    cred,       \* whether the credentials are there
    begun,      \* commands begun
    term        \* terminal -> the command that runs in it

secretVars == <<want, cert, key, cred, begun>>

\* A file: the command that made it (0: there is no file), the desired state
\* it was made for, and whether it was written to its end.
NoFile == [by |-> 0, for |-> 0, whole |-> FALSE]
There(file) == file # NoFile

Idle == [step |-> "idle"]

\* A generate: its number, the desired state it loaded, and whether it found
\* the certificate.
Generating(step, n, found) == [step |-> step, by |-> n, for |-> want, found |-> found]

GenerateSteps == {"stat cert", "stat key", "verify", "create cert", "fill cert", "create key",
                  "fill key", "drop cert", "credentials", "write credentials"}

Generates(t) == term[t].step \in GenerateSteps

Becomes(t, r) == term' = [term EXCEPT ![t] = r]
To(t, step) == Becomes(t, [term[t] EXCEPT !.step = step])

SecretInit ==
    /\ want = 0
    /\ cert = NoFile /\ key = NoFile /\ cred = FALSE
    /\ begun = 0
    /\ term = [t \in Terminals |-> Idle]

-----------------------------------------------------------------------------
(* secret generate: the certificate.                                        *)

Generate(t) ==
    /\ term[t] = Idle /\ begun < MaxCommands
    /\ begun' = begun + 1
    /\ Becomes(t, Generating("stat cert", begun + 1, FALSE))
    /\ UNCHANGED <<want, cert, key, cred>>

StatCert(t) ==
    /\ term[t].step = "stat cert"
    /\ Becomes(t, [term[t] EXCEPT !.step = "stat key", !.found = There(cert)])
    /\ UNCHANGED secretVars

StatKeyCompletes(t) ==  \* mutant: a key is made for a certificate that has none
    /\ term[t].step = "stat key"
    /\ \/ ~ term[t].found /\ There(key) /\ Becomes(t, Idle)
       \/ There(key) /\ term[t].found /\ To(t, "verify")
       \/ ~ There(key) /\ To(t, IF term[t].found THEN "create key" ELSE "create cert")
    /\ UNCHANGED secretVars

\* Half a pair is an error.
StatKey(t) ==
    /\ term[t].step = "stat key"
    /\ \/ term[t].found # There(key) /\ Becomes(t, Idle)
       \/ term[t].found /\ There(key) /\ To(t, "verify")
       \/ ~ term[t].found /\ ~ There(key) /\ To(t, "create cert")
    /\ UNCHANGED secretVars

\* The certificate of a pair that is there must parse and say what is wanted
\* (verifySelfSignedCertificateMatchesRequest).
Says(for) == cert.whole /\ cert.for = for

Verify(t) ==
    /\ term[t].step = "verify"
    /\ IF Says(term[t].for) THEN To(t, "credentials") ELSE Becomes(t, Idle)
    /\ UNCHANGED secretVars

NewFile(t) == [by |-> term[t].by, for |-> term[t].for, whole |-> FALSE]

TruncateCert(t) ==      \* mutant: the certificate is created without O_EXCL
    /\ term[t].step = "create cert"
    /\ cert' = NewFile(t) /\ To(t, "fill cert")
    /\ UNCHANGED <<want, key, cred, begun>>

\* writeNewFile creates the file exclusively, and leaves a file it could not
\* fill behind.
CreateCert(t) ==
    /\ term[t].step = "create cert"
    /\ IF There(cert) THEN Becomes(t, Idle) /\ UNCHANGED cert
       ELSE cert' = NewFile(t) /\ To(t, "fill cert")
    /\ UNCHANGED <<want, key, cred, begun>>

FillCert(t) ==
    /\ term[t].step = "fill cert"
    /\ \/ cert' = [cert EXCEPT !.whole = cert.by = term[t].by] /\ To(t, "create key")
       \/ UNCHANGED cert /\ Becomes(t, Idle)
    /\ UNCHANGED <<want, key, cred, begun>>

CreateKey(t) ==
    /\ term[t].step = "create key"
    /\ IF There(key) THEN To(t, "drop cert") /\ UNCHANGED key
       ELSE key' = NewFile(t) /\ To(t, "fill key")
    /\ UNCHANGED <<want, cert, cred, begun>>

FillKey(t) ==
    /\ term[t].step = "fill key"
    /\ \/ key' = [key EXCEPT !.whole = key.by = term[t].by] /\ To(t, "credentials")
       \/ UNCHANGED key /\ To(t, "drop cert")
    /\ UNCHANGED <<want, cert, cred, begun>>

\* A key that could not be written takes the certificate with it, whoever
\* made the one that is there now.
DropCert(t) ==
    /\ term[t].step = "drop cert"
    /\ cert' = NoFile /\ Becomes(t, Idle)
    /\ UNCHANGED <<want, key, cred, begun>>

-----------------------------------------------------------------------------
(* The credentials, and the operator.                                       *)

\* Credentials are looked for and then written over whatever is there by
\* then, at once: a temporary file is renamed.
StatCredentials(t) ==
    /\ term[t].step = "credentials"
    /\ IF cred THEN Becomes(t, Idle) ELSE To(t, "write credentials")
    /\ UNCHANGED secretVars

WriteCredentials(t) ==
    /\ term[t].step = "write credentials"
    /\ cred' = TRUE /\ Becomes(t, Idle)
    /\ UNCHANGED <<want, cert, key, begun>>

SetCredentials(t) ==
    /\ term[t] = Idle /\ begun < MaxCommands
    /\ begun' = begun + 1
    /\ cred' = TRUE
    /\ UNCHANGED <<want, cert, key, term>>

\* What the errors ask for: remove both files, while nothing generates.
RemovePair ==
    /\ There(cert) \/ There(key)
    /\ \A t \in Terminals : ~ Generates(t)
    /\ cert' = NoFile /\ key' = NoFile
    /\ UNCHANGED <<want, cred, begun, term>>

EditCertificate ==
    /\ want < MaxWant /\ want' = want + 1
    /\ UNCHANGED <<cert, key, cred, begun, term>>

Kill(t) == Generates(t) /\ Becomes(t, Idle) /\ UNCHANGED secretVars

SecretNext ==
    \/ \E t \in Terminals :
         \/ Generate(t) \/ StatCert(t) \/ StatKey(t) \/ Verify(t) \/ CreateCert(t) \/ FillCert(t)
         \/ CreateKey(t) \/ FillKey(t) \/ DropCert(t) \/ StatCredentials(t) \/ WriteCredentials(t)
         \/ SetCredentials(t) \/ Kill(t)
    \/ RemovePair \/ EditCertificate

-----------------------------------------------------------------------------

\* A certificate and a key that are both written to their end are one pair,
\* with any number of generates at work and each of them cut anywhere: the
\* registry is never given a certificate with another's key.
PairMatches == cert.whole /\ key.whole => cert.by = key.by

\* While another generate works, none replaces or removes a whole certificate
\* or key that is not its own.
PairKept ==
    [][\A t \in Terminals : term'[t] # term[t] /\ Generates(t) =>
           /\ cert.whole /\ cert' # cert => cert.by = term[t].by
           /\ key.whole /\ key' # key => key.by = term[t].by]_<<secretVars, term>>

(* What the documents say and the code does not keep.                       *)

\* state-model.md: what is generated is a certificate and key pair. A
\* generate killed before it filled the key leaves an empty one, which the
\* next generate reports as reused.
ReusedIsWhole ==
    [][\A t \in Terminals : term[t].step = "verify" /\ term'[t].step = "credentials" => key.whole]_<<secretVars, term>>
=============================================================================
