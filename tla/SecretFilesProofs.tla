--------------------------- MODULE SecretFilesProofs ---------------------------
(***************************************************************************)
(* Theorems about the secrets directory, for any number of terminals and   *)
(* commands, scope commands among them: a whole certificate and a whole    *)
(* key are one pair, and a generate that works leaves those of others      *)
(* alone, though nothing is locked and any command may be killed anywhere; *)
(* and about what the scope commands extract and render in the state       *)
(* directory: an undisturbed playbook reads only what its command made.    *)
(***************************************************************************)
EXTENDS ScopeCommand, TLAPS

\* The files, and what may run in a terminal.
FileRecords == [by : 0..begun, for : Nat, whole : BOOLEAN]

GenerateRecords == [step : GenerateSteps, by : 1..begun, for : Nat, found : BOOLEAN]

ScopeRecords ==
    [step : ScopeSteps, kind : Kinds \cup {"change"}, build : Builds, of : Nat,
     names : SUBSET Clusters, at : Nat, alone : BOOLEAN]

Records == GenerateRecords \cup ScopeRecords \cup {Idle}

SecretTypeOK ==
    /\ want \in Nat /\ begun \in Nat
    /\ cert \in FileRecords /\ key \in FileRecords
    /\ term = [t \in Terminals |-> term[t]]
    /\ \A t \in Terminals : term[t] \in Records

\* A generate that has made its certificate and has not let go of it.
Holding == {"fill cert", "create key", "fill key", "drop cert"}

\* A generate that has made no key yet.
Keyless == {"stat cert", "stat key", "create cert", "fill cert", "create key"}

\* No two generates have one number.
Apart ==
    \A t, u \in Terminals : Generates(t) /\ Generates(u) /\ term[t].by = term[u].by => t = u

\* The certificate is the holder's, so there is one holder at most, and nobody
\* else can make or drop a certificate.
Held ==
    \A t \in Terminals :
        /\ term[t].step \in Holding => cert.by = term[t].by
        /\ term[t].step \in Keyless => key.by # term[t].by
        /\ term[t].step = "fill key" => key.by = term[t].by
        /\ term[t].step \in {"fill key", "drop cert"} => ~ key.whole

\* A whole key is never without its certificate.
Paired == key.whole => There(cert) /\ cert.by = key.by

IInv == SecretTypeOK /\ Apart /\ Held /\ Paired

-----------------------------------------------------------------------------

\* The steps of what may run in a terminal.
LEMMA StepsOf ==
    /\ Idle.step = "idle"
    /\ \A r \in ScopeRecords : r.step \in ScopeSteps
    /\ \A r \in GenerateRecords : r.step \in GenerateSteps
BY DEF Idle, ScopeRecords, GenerateRecords

\* A generate is told from what else may run by its step.
LEMMA Running ==
    ASSUME NEW r \in Records
    PROVE  /\ r.step \in GenerateSteps \cup Holding \cup Keyless <=> r \in GenerateRecords
           /\ r.step \in ScopeSteps <=> r \in ScopeRecords
<1>1. Holding \cup Keyless \subseteq GenerateSteps
    BY DEF Holding, Keyless, GenerateSteps
<1>2. \A s \in ScopeSteps : s \notin GenerateSteps
    BY DEF ScopeSteps, GenerateSteps
<1>3. "idle" \notin ScopeSteps \cup GenerateSteps
    BY DEF ScopeSteps, GenerateSteps
<1>4. r \in GenerateRecords \/ r \in ScopeRecords \/ r = Idle
    BY DEF Records
<1> QED
    BY <1>1, <1>2, <1>3, <1>4, StepsOf

\* One holder of a certificate at most, and none when there is no certificate.
LEMMA OneHolder ==
    ASSUME IInv, NEW t \in Terminals, term[t].step \in Holding
    PROVE  /\ There(cert)
           /\ \A u \in Terminals \ {t} : term[u].step \notin Holding
<1>1. \A u \in Terminals : term[u].step \in Holding =>
          term[u] \in GenerateRecords /\ Generates(u) /\ cert.by = term[u].by
    BY Running DEF IInv, SecretTypeOK, Held, Generates, Holding, GenerateSteps
<1>2. There(cert)
    BY <1>1 DEF There, NoFile, GenerateRecords, IInv, SecretTypeOK
<1> QED
    BY <1>1, <1>2 DEF IInv, Apart

\* The terminal alone changes.
LEMMA Becoming ==
    ASSUME SecretTypeOK, NEW t \in Terminals, NEW r, Becomes(t, r)
    PROVE  /\ term' = [u \in Terminals |-> term'[u]]
           /\ term'[t] = r
           /\ \A u \in Terminals \ {t} : term'[u] = term[u]
BY DEF Becomes, SecretTypeOK

\* Steps after which the generates that work are as they were, and the pair too.
LEMMA Quiet ==
    ASSUME IInv, term' = [t \in Terminals |-> term'[t]],
           want' \in Nat, begun' \in Nat, begun <= begun', UNCHANGED <<cert, key>>,
           \A t \in Terminals : \/ term'[t] = term[t]
                                \/ term'[t] \in ScopeRecords \cup {Idle}
    PROVE  IInv'
<1> USE DEF IInv
<1>1. SecretTypeOK'
    <2>1. cert' \in FileRecords' /\ key' \in FileRecords'
        BY DEF SecretTypeOK, FileRecords
    <2>2. GenerateRecords \subseteq GenerateRecords' /\ ScopeRecords' = ScopeRecords
        BY DEF SecretTypeOK, GenerateRecords, ScopeRecords
    <2>3. \A t \in Terminals : term'[t] \in Records'
        BY <2>2 DEF SecretTypeOK, Records
    <2> QED
        BY <2>1, <2>3 DEF SecretTypeOK
<1>2. \A t \in Terminals : \/ term'[t] = term[t]
                           \/ term'[t].step \notin GenerateSteps \cup Holding \cup Keyless
    BY StepsOf DEF ScopeSteps, GenerateSteps, Holding, Keyless
<1>3. Apart'
    BY <1>2 DEF Apart, Generates
<1>4. Held'
    BY <1>2 DEF Held, Holding, Keyless
<1> QED
    BY <1>1, <1>3, <1>4 DEF Paired

\* A step of a generate, which stays what it is or ends: it touches the files
\* when no other holds the certificate, and makes no key but its own.
LEMMA Working ==
    ASSUME IInv, NEW t \in Terminals, Generates(t), NEW r, Becomes(t, r),
           UNCHANGED <<want, begun>>,
           r = Idle \/ (r \in GenerateRecords /\ r.by = term[t].by),
           cert' \in FileRecords, key' \in FileRecords,
           \/ UNCHANGED <<cert, key>>
           \/ /\ \A u \in Terminals \ {t} : term[u].step \notin Holding
              /\ key'.by \in {key.by, term[t].by},
           r.step \in Holding => cert'.by = term[t].by,
           r.step \in Keyless => key'.by # term[t].by,
           r.step = "fill key" => key'.by = term[t].by,
           r.step \in {"fill key", "drop cert"} => ~ key'.whole,
           Paired'
    PROVE  IInv'
<1>1. /\ term' = [u \in Terminals |-> term'[u]]
      /\ term'[t] = r
      /\ \A u \in Terminals \ {t} : term'[u] = term[u]
    BY Becoming DEF IInv
<1>2. FileRecords' = FileRecords /\ GenerateRecords' = GenerateRecords /\ ScopeRecords' = ScopeRecords
    BY DEF FileRecords, GenerateRecords, ScopeRecords
<1>3. SecretTypeOK'
    BY <1>1, <1>2 DEF IInv, SecretTypeOK, Records
<1>4. Apart'
    <2>1. r = Idle => r.step \notin GenerateSteps
        BY StepsOf DEF GenerateSteps
    <2>2. \A u \in Terminals : term'[u].step \in GenerateSteps =>
              Generates(u) /\ term'[u].by = term[u].by
        BY <1>1, <2>1 DEF Generates
    <2> QED
        BY <2>2 DEF IInv, Apart, Generates
<1>5. Held'
    <2> SUFFICES ASSUME NEW u \in Terminals
                 PROVE  /\ term'[u].step \in Holding => cert'.by = term'[u].by
                        /\ term'[u].step \in Keyless => key'.by # term'[u].by
                        /\ term'[u].step = "fill key" => key'.by = term'[u].by
                        /\ term'[u].step \in {"fill key", "drop cert"} => ~ key'.whole
        BY DEF Held
    <2>1. CASE u = t
        <3>1. CASE r = Idle
            BY <1>1, <2>1, <3>1, StepsOf DEF Holding, Keyless
        <3>2. CASE r # Idle
            BY <1>1, <2>1, <3>2
        <3> QED
            BY <3>1, <3>2
    <2>2. CASE u # t /\ UNCHANGED <<cert, key>>
        BY <1>1, <2>2 DEF IInv, Held
    <2>3. CASE u # t /\ ~ UNCHANGED <<cert, key>>
        <3>1. term'[u] = term[u] /\ term[u].step \notin Holding
            BY <1>1, <2>3
        <3>2. term[u].step \in Keyless => Generates(u) /\ term[t].by # term[u].by
            BY <2>3 DEF IInv, Apart, Generates, Keyless, GenerateSteps
        <3> QED
            BY <2>3, <3>1, <3>2 DEF IInv, Held, Holding
    <2> QED
        BY <2>1, <2>2, <2>3
<1> QED
    BY <1>3, <1>4, <1>5 DEF IInv

-----------------------------------------------------------------------------

\* The record of a generate that goes on to another step.
LEMMA GoesOn ==
    ASSUME IInv, NEW t \in Terminals, Generates(t), NEW step \in GenerateSteps
    PROVE  /\ term[t] \in GenerateRecords
           /\ [term[t] EXCEPT !.step = step] \in GenerateRecords
           /\ [term[t] EXCEPT !.step = step].by = term[t].by
           /\ [term[t] EXCEPT !.step = step].step = step
<1>1. term[t] \in GenerateRecords
    BY Running DEF Generates, IInv, SecretTypeOK
<1> QED
    BY <1>1 DEF GenerateRecords

\* The file it creates, and no file.
LEMMA FileMade ==
    ASSUME IInv, NEW t \in Terminals, Generates(t)
    PROVE  /\ NewFile(t) \in FileRecords /\ NoFile \in FileRecords
           /\ NewFile(t).by = term[t].by /\ ~ NewFile(t).whole
<1>1. begun \in Nat /\ term[t].by \in 0..begun /\ term[t].for \in Nat
    <2>1. "credentials" \in GenerateSteps
        BY DEF GenerateSteps
    <2>2. term[t] \in GenerateRecords
        BY <2>1, GoesOn
    <2> QED
        BY <2>2 DEF GenerateRecords, IInv, SecretTypeOK
<1> QED
    BY <1>1 DEF NewFile, NoFile, FileRecords

\* A generate that looks, and that ends, changes no file.
LEMMA LookingKeeps ==
    ASSUME IInv, NEW t \in Terminals, UNCHANGED secretVars,
           StatCert(t) \/ StatKey(t) \/ Verify(t) \/ StatCredentials(t)
    PROVE  IInv'
<1>1. Generates(t) /\ UNCHANGED <<want, begun, cert, key>>
    BY DEF StatCert, StatKey, Verify, StatCredentials, Generates, GenerateSteps, secretVars
<1>2. cert' \in FileRecords /\ key' \in FileRecords /\ Paired'
    BY <1>1 DEF IInv, SecretTypeOK, Paired
<1>3. CASE Becomes(t, Idle)
    BY <1>1, <1>2, <1>3, Working, StepsOf DEF Holding, Keyless
<1>4. ASSUME NEW r \in GenerateRecords, r.by = term[t].by, Becomes(t, r),
             \/ r.step \in {"verify", "credentials", "write credentials"}
             \/ r.step \in {"stat key", "create cert"} /\ term[t].step \in Keyless
      PROVE  IInv'
    <2>1. r.step \notin Holding \cup {"fill key", "drop cert"}
        BY <1>4 DEF Holding
    <2>2. r.step \in Keyless => key'.by # term[t].by
        BY <1>1, <1>4 DEF Keyless, IInv, Held
    <2> QED
        BY <1>1, <1>2, <1>4, <2>1, <2>2, Working
<1>5. ASSUME NEW step \in {"verify", "credentials", "write credentials"}, To(t, step)
      PROVE  IInv'
    <2> DEFINE r == [term[t] EXCEPT !.step = step]
    <2>1. step \in GenerateSteps
        BY DEF GenerateSteps
    <2>2. r \in GenerateRecords /\ r.by = term[t].by /\ r.step = step
        BY <1>1, <2>1, GoesOn
    <2>3. Becomes(t, r)
        BY <1>5 DEF To
    <2> HIDE DEF r
    <2> QED
        BY <1>4, <2>2, <2>3
<1>6. CASE StatCert(t)
    <2> DEFINE r == [term[t] EXCEPT !.step = "stat key", !.found = There(cert)]
    <2>1. term[t] \in GenerateRecords /\ There(cert) \in BOOLEAN
        BY <1>1, GoesOn DEF There, GenerateSteps
    <2>2. r \in GenerateRecords /\ r.by = term[t].by /\ r.step = "stat key"
        BY <2>1 DEF GenerateRecords, GenerateSteps
    <2> QED
        BY <1>4, <1>6, <2>2 DEF StatCert, Keyless
<1>7. CASE StatKey(t)
    <2>1. CASE To(t, "create cert")
        BY <1>1, <1>4, <1>7, <2>1, GoesOn DEF To, StatKey, Keyless, GenerateSteps
    <2> QED
        BY <1>3, <1>5, <1>7, <2>1 DEF StatKey
<1>8. CASE Verify(t)
    BY <1>3, <1>5, <1>8 DEF Verify
<1>9. CASE StatCredentials(t)
    BY <1>3, <1>5, <1>9 DEF StatCredentials
<1> QED
    BY <1>6, <1>7, <1>8, <1>9

\* What one generate may do to a whole file of another: nothing.
Spared(t) ==
    /\ cert.whole /\ cert' # cert => cert.by = term[t].by
    /\ key.whole /\ key' # key => key.by = term[t].by

\* The certificate is made where there is none, and so held by nobody.
LEMMA CreateCertKeeps ==
    ASSUME IInv, NEW t \in Terminals, CreateCert(t)
    PROVE  IInv' /\ Spared(t)
<1>1. Generates(t) /\ term[t].step = "create cert" /\ UNCHANGED <<want, begun, key>>
    BY DEF CreateCert, Generates, GenerateSteps
<1>2. CASE There(cert)
    <2>1. Becomes(t, Idle) /\ UNCHANGED cert
        BY <1>2 DEF CreateCert
    <2>2. cert' \in FileRecords /\ key' \in FileRecords /\ Paired'
        BY <1>1, <2>1 DEF IInv, SecretTypeOK, Paired
    <2> QED
        BY <1>1, <2>1, <2>2, Working, StepsOf DEF Holding, Keyless, Spared
<1>3. CASE ~ There(cert)
    <2>1. To(t, "fill cert") /\ cert' = NewFile(t)
        BY <1>3 DEF CreateCert
    <2>2. \A u \in Terminals : term[u].step \notin Holding
        BY <1>3, OneHolder
    <2>3. cert = NoFile /\ ~ key.whole /\ key.by # term[t].by
        <3>1. cert = NoFile /\ ~ key.whole
            BY <1>3 DEF There, IInv, Paired
        <3> QED
            BY <1>1, <3>1 DEF IInv, Held, Keyless
    <2>4. cert' \in FileRecords /\ key' \in FileRecords /\ cert'.by = term[t].by
        BY <1>1, <2>1, FileMade DEF IInv, SecretTypeOK
    <2> QED
        BY <1>1, <2>1, <2>2, <2>3, <2>4, GoesOn, Working
        DEF To, GenerateSteps, Holding, Keyless, Paired, Spared, NoFile
<1> QED
    BY <1>2, <1>3

\* The holder fills its certificate, or ends.
LEMMA FillCertKeeps ==
    ASSUME IInv, NEW t \in Terminals, FillCert(t)
    PROVE  IInv' /\ Spared(t)
<1>1. /\ Generates(t) /\ term[t].step = "fill cert" /\ term[t].step \in Holding
      /\ UNCHANGED <<want, begun, key>>
    BY DEF FillCert, Generates, GenerateSteps, Holding
<1>2. /\ cert.by = term[t].by /\ key.by # term[t].by /\ ~ key.whole
      /\ \A u \in Terminals \ {t} : term[u].step \notin Holding
    BY <1>1, OneHolder DEF IInv, Held, Paired, Holding, Keyless
<1>3. CASE UNCHANGED cert /\ Becomes(t, Idle)
    <2>1. cert' \in FileRecords /\ key' \in FileRecords /\ Paired'
        BY <1>1, <1>3 DEF IInv, SecretTypeOK, Paired
    <2> QED
        BY <1>1, <1>3, <2>1, Working, StepsOf DEF Holding, Keyless, Spared
<1>4. CASE cert' = [cert EXCEPT !.whole = cert.by = term[t].by] /\ To(t, "create key")
    <2>1. cert' \in FileRecords /\ key' \in FileRecords /\ cert'.by = term[t].by
        BY <1>1, <1>2, <1>4 DEF FileRecords, IInv, SecretTypeOK
    <2> QED
        BY <1>1, <1>2, <1>4, <2>1, GoesOn, Working
        DEF To, GenerateSteps, Holding, Keyless, Paired, Spared
<1> QED
    BY <1>3, <1>4 DEF FillCert

\* The holder makes its key where there is none; one that is there is not whole,
\* for a whole key has the certificate of its own generate beside it.
LEMMA CreateKeyKeeps ==
    ASSUME IInv, NEW t \in Terminals, CreateKey(t)
    PROVE  IInv' /\ Spared(t)
<1>1. /\ Generates(t) /\ term[t].step = "create key" /\ term[t].step \in Holding
      /\ UNCHANGED <<want, begun, cert>>
    BY DEF CreateKey, Generates, GenerateSteps, Holding
<1>2. /\ cert.by = term[t].by /\ key.by # term[t].by /\ ~ key.whole
      /\ \A u \in Terminals \ {t} : term[u].step \notin Holding
    BY <1>1, OneHolder DEF IInv, Held, Paired, Holding, Keyless
<1>3. CASE To(t, "drop cert") /\ UNCHANGED key
    <2>1. cert' \in FileRecords /\ key' \in FileRecords
        BY <1>1, <1>3 DEF IInv, SecretTypeOK
    <2> QED
        BY <1>1, <1>2, <1>3, <2>1, GoesOn, Working
        DEF To, GenerateSteps, Holding, Keyless, Paired, Spared
<1>4. CASE key' = NewFile(t) /\ To(t, "fill key")
    <2>1. /\ cert' \in FileRecords /\ key' \in FileRecords
          /\ key'.by = term[t].by /\ ~ key'.whole
        BY <1>1, <1>4, FileMade DEF IInv, SecretTypeOK
    <2> QED
        BY <1>1, <1>2, <1>4, <2>1, GoesOn, Working
        DEF To, GenerateSteps, Holding, Keyless, Paired, Spared
<1> QED
    BY <1>3, <1>4 DEF CreateKey

\* The holder fills its key, or goes on to drop its certificate.
LEMMA FillKeyKeeps ==
    ASSUME IInv, NEW t \in Terminals, FillKey(t)
    PROVE  IInv' /\ Spared(t)
<1>1. /\ Generates(t) /\ term[t].step = "fill key" /\ term[t].step \in Holding
      /\ UNCHANGED <<want, begun, cert>>
    BY DEF FillKey, Generates, GenerateSteps, Holding
<1>2. /\ cert.by = term[t].by /\ key.by = term[t].by /\ ~ key.whole /\ There(cert)
      /\ \A u \in Terminals \ {t} : term[u].step \notin Holding
    BY <1>1, OneHolder DEF IInv, Held
<1>3. CASE To(t, "drop cert") /\ UNCHANGED key
    <2>1. cert' \in FileRecords /\ key' \in FileRecords
        BY <1>1, <1>3 DEF IInv, SecretTypeOK
    <2> QED
        BY <1>1, <1>2, <1>3, <2>1, GoesOn, Working
        DEF To, GenerateSteps, Holding, Keyless, Paired, Spared
<1>4. CASE key' = [key EXCEPT !.whole = key.by = term[t].by] /\ To(t, "credentials")
    <2>1. cert' \in FileRecords /\ key' \in FileRecords /\ key'.by = term[t].by
        BY <1>1, <1>2, <1>4 DEF FileRecords, IInv, SecretTypeOK
    <2>2. Paired'
        BY <1>1, <1>2, <2>1 DEF Paired, There
    <2> QED
        BY <1>1, <1>2, <1>4, <2>1, <2>2, GoesOn, Working
        DEF To, GenerateSteps, Holding, Keyless, Spared
<1> QED
    BY <1>3, <1>4 DEF FillKey

\* The certificate that is dropped is the holder's own, and has no whole key.
LEMMA DropCertKeeps ==
    ASSUME IInv, NEW t \in Terminals, DropCert(t)
    PROVE  IInv' /\ Spared(t)
<1>1. /\ Generates(t) /\ term[t].step = "drop cert" /\ term[t].step \in Holding
      /\ UNCHANGED <<want, begun, key>> /\ cert' = NoFile /\ Becomes(t, Idle)
    BY DEF DropCert, Generates, GenerateSteps, Holding
<1>2. /\ cert.by = term[t].by /\ ~ key.whole
      /\ \A u \in Terminals \ {t} : term[u].step \notin Holding
    BY <1>1, OneHolder DEF IInv, Held
<1>3. cert' \in FileRecords /\ key' \in FileRecords /\ Paired'
    BY <1>1, <1>2, FileMade DEF IInv, SecretTypeOK, Paired
<1> QED
    BY <1>1, <1>2, <1>3, Working, StepsOf DEF Holding, Keyless, Spared

\* A new generate has a number nobody has, so it holds nothing.
LEMMA GenerateKeeps ==
    ASSUME IInv, NEW t \in Terminals, Generate(t)
    PROVE  IInv'
<1> DEFINE r == Generating("stat cert", begun + 1, FALSE)
<1>1. Becomes(t, r) /\ begun' = begun + 1 /\ UNCHANGED <<want, cert, key>> /\ begun \in Nat
    BY DEF Generate, IInv, SecretTypeOK
<1>2. r.step = "stat cert" /\ r.by = begun + 1 /\ r \in GenerateRecords'
    <2>1. GenerateRecords' = [step : GenerateSteps, by : 1..(begun + 1), for : Nat, found : BOOLEAN]
        BY <1>1 DEF GenerateRecords
    <2>2. begun + 1 \in 1..(begun + 1) /\ want \in Nat
        <3>1. begun \in Nat /\ want \in Nat
            BY DEF IInv, SecretTypeOK
        <3> QED
            BY <3>1
    <2>3. "stat cert" \in GenerateSteps
        BY DEF GenerateSteps
    <2> QED
        BY <2>1, <2>2, <2>3 DEF Generating
<1> HIDE DEF r
<1>3. /\ term' = [u \in Terminals |-> term'[u]] /\ term'[t] = r
      /\ \A u \in Terminals \ {t} : term'[u] = term[u]
    BY <1>1, Becoming DEF IInv
<1>4. \A u \in Terminals : Generates(u) => term[u].by \in 1..begun
    BY Running DEF Generates, IInv, SecretTypeOK, GenerateRecords
<1>5. key.by # begun + 1 /\ cert' \in FileRecords' /\ key' \in FileRecords'
    BY <1>1 DEF IInv, SecretTypeOK, FileRecords
<1>6. SecretTypeOK'
    <2>1. GenerateRecords \subseteq GenerateRecords' /\ ScopeRecords' = ScopeRecords
        BY <1>1 DEF GenerateRecords, ScopeRecords
    <2> QED
        <3>1. \A u \in Terminals : term[u] \in Records
            BY DEF IInv, SecretTypeOK
        <3>2. \A u \in Terminals : term'[u] \in Records'
            BY <1>2, <1>3, <2>1, <3>1 DEF Records
        <3>3. want' \in Nat /\ begun' \in Nat
            BY <1>1 DEF IInv, SecretTypeOK
        <3> QED
            BY <1>3, <1>5, <3>2, <3>3 DEF SecretTypeOK
<1>7. Apart'
    <2> SUFFICES ASSUME NEW u \in Terminals, NEW w \in Terminals, Generates(u)', Generates(w)',
                        term'[u].by = term'[w].by
                 PROVE  u = w
        BY DEF Apart
    <2>1. \A v \in Terminals \ {t} : Generates(v)' => term'[v].by \in 1..begun /\ Generates(v)
        BY <1>3, <1>4 DEF Generates
    <2>2. term'[t].by \notin 1..begun
        <3>1. begun \in Nat /\ term'[t].by = begun + 1
            BY <1>1, <1>2, <1>3
        <3> QED
            BY <3>1
    <2>3. CASE u = t \/ w = t
        BY <2>1, <2>2, <2>3
    <2>4. CASE u # t /\ w # t
        BY <1>3, <2>1, <2>4 DEF IInv, Apart
    <2> QED
        BY <2>3, <2>4
<1>8. Held'
    BY <1>1, <1>2, <1>3, <1>5 DEF IInv, Held, Holding, Keyless
<1> QED
    BY <1>1, <1>6, <1>7, <1>8 DEF IInv, Paired, There

\* The pair is removed while nothing generates.
LEMMA RemovePairKeeps ==
    ASSUME IInv, RemovePair
    PROVE  IInv' /\ term' = term
<1>1. /\ cert' = NoFile /\ key' = NoFile /\ UNCHANGED <<want, begun, term>>
      /\ \A t \in Terminals : ~ Generates(t)
    BY DEF RemovePair
<1>2. SecretTypeOK'
    <2>1. FileRecords' = FileRecords /\ Records' = Records /\ NoFile \in FileRecords
        BY <1>1 DEF FileRecords, Records, GenerateRecords, ScopeRecords, NoFile, IInv, SecretTypeOK
    <2> QED
        BY <1>1, <2>1 DEF IInv, SecretTypeOK
<1>3. Apart' /\ Held'
    BY <1>1 DEF Apart, Held, Generates, GenerateSteps, Holding, Keyless
<1>4. Paired'
    BY <1>1 DEF Paired, NoFile
<1> QED
    BY <1>1, <1>2, <1>3, <1>4 DEF IInv

\* What ends, and what is set or edited, changes neither file.
LEMMA AsideKeeps ==
    ASSUME IInv,
           \/ EditCertificate
           \/ \E t \in Terminals : WriteCredentials(t) \/ SetCredentials(t) \/ Kill(t)
    PROVE  IInv' /\ UNCHANGED <<cert, key>>
<1>1. want \in Nat /\ begun \in Nat /\ term = [t \in Terminals |-> term[t]]
    BY DEF IInv, SecretTypeOK
<1>2. CASE EditCertificate
    BY <1>1, <1>2, Quiet DEF EditCertificate
<1>3. ASSUME NEW t \in Terminals, SetCredentials(t) PROVE IInv' /\ UNCHANGED <<cert, key>>
    BY <1>1, <1>3, Quiet DEF SetCredentials
<1>4. ASSUME NEW t \in Terminals, WriteCredentials(t) \/ Kill(t) PROVE IInv' /\ UNCHANGED <<cert, key>>
    <2>1. Becomes(t, Idle) /\ UNCHANGED <<want, begun, cert, key>>
        BY <1>4 DEF WriteCredentials, Kill, secretVars
    <2>2. \A u \in Terminals : term'[u] = term[u] \/ term'[u] = Idle
        BY <2>1, Becoming DEF IInv
    <2> QED
        BY <1>1, <2>1, <2>2, Becoming, Quiet DEF IInv
<1> QED
    BY <1>2, <1>3, <1>4

\* Scope commands read the certificate, and change what else runs only where it
\* is another scope command.
LEMMA ScopesKeep ==
    ASSUME IInv, NEW t \in Terminals,
           \/ LoadChecked(t) \/ LoadUnchecked(t) \/ HostCheck(t)
           \/ Clear(t) \/ Extract(t) \/ Render(t) \/ Run(t) \/ End(t)
    PROVE  IInv' /\ UNCHANGED <<cert, key>>
<1>1. want \in Nat /\ begun \in Nat /\ SecretTypeOK
    BY DEF IInv, SecretTypeOK
<1>2. ASSUME NEW r \in ScopeRecords \cup {Idle}, UNCHANGED <<want, cert, key>>,
             begun' \in {begun, begun + 1}, Becomes(t, r)
      PROVE  IInv' /\ UNCHANGED <<cert, key>>
    <2>1. \A u \in Terminals : term'[u] = term[u] \/ term'[u] \in ScopeRecords \cup {Idle}
        BY <1>1, <1>2, Becoming
    <2> QED
        BY <1>1, <1>2, <2>1, Becoming, Quiet
<1>3. ASSUME NEW r \in ScopeRecords \cup {Idle}, UNCHANGED secretVars, Writes(t, r)
      PROVE  IInv' /\ UNCHANGED <<cert, key>>
    <2>1. \A u \in Terminals : Scopes(u) => [term[u] EXCEPT !.alone = FALSE] \in ScopeRecords
        <3>1. \A u \in Terminals : Scopes(u) => term[u] \in ScopeRecords
            BY <1>1, Running DEF Scopes, SecretTypeOK
        <3> QED
            BY <3>1 DEF ScopeRecords
    <2>2. \A u \in Terminals : term'[u] = term[u] \/ term'[u] \in ScopeRecords \cup {Idle}
        BY <1>3, <2>1 DEF Writes
    <2>3. term' = [u \in Terminals |-> term'[u]]
        BY <1>3 DEF Writes
    <2> QED
        BY <1>1, <1>3, <2>2, <2>3, Quiet DEF secretVars
<1>4. ASSUME NEW kind \in Kinds \cup {"change"}, NEW step \in {"host-check", "clear"}, Load(t, kind, step)
      PROVE  IInv' /\ UNCHANGED <<cert, key>>
    <2>1. PICK build \in Builds, names \in SUBSET Clusters \ {{}} :
              Becomes(t, Scope(step, kind, build, want, names))
        BY <1>4 DEF Load
    <2>2. Scope(step, kind, build, want, names) \in ScopeRecords
        BY <1>1 DEF Scope, ScopeRecords, ScopeSteps
    <2> QED
        BY <1>2, <1>4, <2>1, <2>2 DEF Load
<1>5. CASE LoadChecked(t) \/ LoadUnchecked(t)
    BY <1>4, <1>5 DEF LoadChecked, LoadUnchecked
<1>6. ASSUME Scopes(t)
      PROVE  /\ term[t] \in ScopeRecords
             /\ \A step \in ScopeSteps : [term[t] EXCEPT !.step = step] \in ScopeRecords
    BY <1>1, <1>6, Running DEF Scopes, SecretTypeOK, ScopeRecords
<1>7. CASE HostCheck(t) \/ Run(t) \/ End(t)
    <2>1. Scopes(t) /\ UNCHANGED secretVars
        BY <1>7 DEF HostCheck, Run, End, Scopes, ScopeSteps
    <2>2. PICK r \in ScopeRecords \cup {Idle} : Becomes(t, r)
        BY <1>6, <1>7, <2>1 DEF HostCheck, Run, End, To, ScopeSteps
    <2> QED
        BY <1>2, <2>1, <2>2 DEF secretVars
<1>8. CASE Clear(t)
    <2>1. Scopes(t) /\ UNCHANGED secretVars
        BY <1>8 DEF Clear, Scopes, ScopeSteps
    <2>2. [term[t] EXCEPT !.step = "extract", !.alone = TRUE] \in ScopeRecords
        <3>1. term[t] \in ScopeRecords
            BY <1>6, <2>1
        <3>2. "extract" \in ScopeSteps /\ TRUE \in BOOLEAN
            BY DEF ScopeSteps
        <3> QED
            BY <3>1, <3>2 DEF ScopeRecords
    <2> DEFINE r == [term[t] EXCEPT !.step = "extract", !.alone = TRUE]
    <2>3. Writes(t, r) \/ Writes(t, Idle)
        BY <1>8 DEF Clear
    <2>4. {r, Idle} \subseteq ScopeRecords \cup {Idle}
        BY <2>2
    <2> HIDE DEF r
    <2> QED
        BY <1>3, <2>1, <2>3, <2>4
<1>9. CASE Extract(t) \/ Render(t)
    <2>1. Scopes(t) /\ UNCHANGED secretVars
        BY <1>9 DEF Extract, Render, Scopes, ScopeSteps
    <2>2. /\ [term[t] EXCEPT !.step = "render", !.at = 1] \in ScopeRecords
          /\ [term[t] EXCEPT !.at = @ + 1] \in ScopeRecords
          /\ \A i \in Later(term[t]) : [term[t] EXCEPT !.at = i] \in ScopeRecords
          /\ [term[t] EXCEPT !.step = "run"] \in ScopeRecords
        <3>1. term[t] \in ScopeRecords /\ term[t].at + 1 \in Nat /\ {"render", "run"} \subseteq ScopeSteps
            <4>1. term[t] \in ScopeRecords /\ term[t].at \in Nat
                BY <1>6, <2>1 DEF ScopeRecords
            <4> QED
                BY <4>1 DEF ScopeSteps
        <3>2. [term[t] EXCEPT !.at = term[t].at + 1] \in ScopeRecords
            BY <3>1 DEF ScopeRecords
        <3>3. [term[t] EXCEPT !.step = "render", !.at = 1] \in ScopeRecords
            BY <3>1 DEF ScopeRecords
        <3>4. \A i \in Nat : [term[t] EXCEPT !.at = i] \in ScopeRecords
            BY <3>1 DEF ScopeRecords
        <3>5. Later(term[t]) \subseteq Nat
            BY <3>1 DEF Later, ScopeRecords
        <3> QED
            BY <1>6, <2>1, <3>1, <3>2, <3>3, <3>4, <3>5
    <2>3. PICK r \in ScopeRecords \cup {Idle} : Writes(t, r)
        <3>1. CASE Extract(t)
            BY <2>2, <3>1 DEF Extract
        <3>2. CASE Render(t)
            BY <2>2, <3>2 DEF Render
        <3> QED
            BY <1>9, <3>1, <3>2
    <2> QED
        BY <1>3, <2>1, <2>3
<1> QED
    BY <1>5, <1>7, <1>8, <1>9

-----------------------------------------------------------------------------

\* What PairKept says of a step.
StepKeeps ==
    \A t \in Terminals : term'[t] # term[t] /\ Generates(t) =>
        /\ cert.whole /\ cert' # cert => cert.by = term[t].by
        /\ key.whole /\ key' # key => key.by = term[t].by

\* Every step of every command keeps the invariant and the pairs of others.
LEMMA NextKeeps ==
    ASSUME IInv, [Next]_vars
    PROVE  IInv' /\ StepKeeps
<1>1. ASSUME IInv', UNCHANGED <<cert, key>> PROVE IInv' /\ StepKeeps
    BY <1>1 DEF StepKeeps
<1>2. ASSUME NEW t \in Terminals, Generate(t) PROVE IInv' /\ StepKeeps
    BY <1>1, <1>2, GenerateKeeps DEF Generate
<1>3. ASSUME NEW t \in Terminals, StatCert(t) \/ StatKey(t) \/ Verify(t) \/ StatCredentials(t)
      PROVE  IInv' /\ StepKeeps
    <2>1. UNCHANGED secretVars
        BY <1>3 DEF StatCert, StatKey, Verify, StatCredentials
    <2> QED
        BY <1>1, <1>3, <2>1, LookingKeeps DEF secretVars
<1>4. ASSUME NEW t \in Terminals,
             CreateCert(t) \/ FillCert(t) \/ CreateKey(t) \/ FillKey(t) \/ DropCert(t)
      PROVE  IInv' /\ StepKeeps
    <2>1. IInv' /\ Spared(t)
        BY <1>4, CreateCertKeeps, FillCertKeeps, CreateKeyKeeps, FillKeyKeeps, DropCertKeeps
    <2>2. PICK r : Becomes(t, r)
        BY <1>4 DEF CreateCert, FillCert, CreateKey, FillKey, DropCert, To
    <2>3. \A u \in Terminals \ {t} : term'[u] = term[u]
        BY <2>2, Becoming DEF IInv
    <2> QED
        BY <2>1, <2>3 DEF StepKeeps, Spared
<1>5. CASE EditCertificate \/ \E t \in Terminals : WriteCredentials(t) \/ SetCredentials(t) \/ Kill(t)
    BY <1>1, <1>5, AsideKeeps
<1>6. CASE RemovePair
    BY <1>6, RemovePairKeeps DEF StepKeeps
<1>7. CASE SecretNext
    BY <1>2, <1>3, <1>4, <1>5, <1>6, <1>7 DEF SecretNext
<1>8. ASSUME NEW t \in Terminals,
             \/ LoadChecked(t) \/ LoadUnchecked(t) \/ HostCheck(t)
             \/ Clear(t) \/ Extract(t) \/ Render(t) \/ Run(t) \/ End(t)
      PROVE  IInv' /\ StepKeeps
    BY <1>1, <1>8, ScopesKeep
<1>9. CASE UNCHANGED vars
    <2>1. UNCHANGED <<want, begun, cert, key, term>>
        BY <1>9 DEF vars, secretVars
    <2>2. want \in Nat /\ begun \in Nat /\ term = [t \in Terminals |-> term[t]]
        BY DEF IInv, SecretTypeOK
    <2> QED
        BY <1>1, <2>1, <2>2, Quiet
<1> QED
    BY <1>7, <1>8, <1>9 DEF Next

\* The invariant holds when nothing has been generated.
LEMMA InitIInv == Init => IInv
<1> SUFFICES ASSUME Init PROVE IInv
    OBVIOUS
<1>1. /\ want = 0 /\ cert = NoFile /\ key = NoFile /\ begun = 0
      /\ term = [t \in Terminals |-> Idle]
    BY DEF Init, SecretInit
<1>2. SecretTypeOK
    BY <1>1 DEF SecretTypeOK, FileRecords, NoFile, Records
<1>3. \A t \in Terminals : term[t].step = "idle"
    BY <1>1, StepsOf
<1>4. Apart /\ Held
    BY <1>3 DEF Apart, Held, Generates, GenerateSteps, Holding, Keyless
<1>5. Paired
    BY <1>1 DEF Paired, NoFile
<1> QED
    BY <1>2, <1>4, <1>5 DEF IInv

\* What is in the secrets directory and what runs in the terminals, for any
\* number of terminals, commands and edits.
THEOREM TypeCorrect == Spec => []SecretTypeOK
<1>1. IInv => SecretTypeOK
    BY DEF IInv
<1> QED
    BY <1>1, InitIInv, NextKeeps, PTL DEF Spec

\* A whole certificate and a whole key are one pair, however many generates race
\* and wherever each is cut (secrets_materialize.go, the self-signed pair).
THEOREM PairsMatch == Spec => []PairMatches
<1>1. IInv => PairMatches
    BY DEF IInv, Paired, PairMatches
<1> QED
    BY <1>1, InitIInv, NextKeeps, PTL DEF Spec

\* No generate replaces or removes a whole file of another, though the one whose
\* key fails removes the certificate by its name (secrets_materialize.go).
THEOREM PairsKept == Spec => PairKept
<1>1. IInv /\ [Next]_vars => IInv'
    BY NextKeeps
<1>2. IInv /\ [Next]_vars =>
          [\A t \in Terminals : term'[t] # term[t] /\ Generates(t) =>
               /\ cert.whole /\ cert' # cert => cert.by = term[t].by
               /\ key.whole /\ key' # key => key.by = term[t].by]_<<secretVars, term>>
    BY NextKeeps DEF StepKeeps
<1> QED
    BY <1>1, <1>2, InitIInv, PTL DEF Spec, PairKept

-----------------------------------------------------------------------------
(* The bundle and the rendered files.                                       *)

\* The first n files of the bundle of r are there, and no others.
Laid(r, n) ==
    \A p \in Parts :
        bundle[p] = IF \E i \in 1..n : PartsOf[r.build][i] = p THEN r.build ELSE None

\* Of the first n files to render, those r reads say what it loaded.
Written(r, n) ==
    \A i \in 1..n : Order[i] \in Reads(r.names) => rendered[Order[i]] = From(Order[i], r)

\* How far a command that nobody disturbed has come.
OwnOf(r) ==
    /\ r.step \in {"extract", "render", "run", "play"}
    /\ r.step = "extract" => r.at \in 1..Len(PartsOf[r.build]) /\ Laid(r, r.at - 1)
    /\ r.step # "extract" => Laid(r, Len(PartsOf[r.build]))
    /\ r.step = "render" => /\ r.at \in 1..Len(Order) /\ Order[r.at] \in Reads(r.names)
                            /\ Written(r, r.at - 1)
    /\ r.step \in {"run", "play"} => Written(r, Len(Order))

FilesOK ==
    /\ bundle = [p \in Parts |-> bundle[p]]
    /\ rendered = [f \in Clusters \cup {"inventory", "vars"} |-> rendered[f]]

\* A command that is not yet alone with the files, or is.
Progress(r) ==
    /\ r.step \in {"host-check", "clear"} => r.at = 1
    /\ r.step \in ScopeSteps /\ r.alone => OwnOf(r)

OwnInv == FilesOK /\ \A t \in Terminals : Progress(term[t])

\* The files are rendered in an order that has every file a command may read.
LEMMA OrderHas ==
    /\ Len(Order) \in Nat /\ 1 \in 1..Len(Order) /\ Order[1] = "inventory"
    /\ \A f \in Clusters \cup {"inventory", "vars"} : \E i \in 1..Len(Order) : Order[i] = f
    /\ \A i \in 1..Len(Order) : Order[i] \in Clusters \cup {"inventory", "vars"}
<1>1. ClusterList \in Seq(Clusters)
    BY ListsAssumption
<1>2. /\ Len(Order) = Len(ClusterList) + 2 /\ Len(ClusterList) \in Nat
      /\ Order[1] = "inventory" /\ Order[2] = "vars"
      /\ \A i \in 1..Len(ClusterList) : Order[i + 2] = ClusterList[i]
    BY <1>1 DEF Order
<1>3. ASSUME NEW f \in Clusters PROVE \E i \in 1..Len(Order) : Order[i] = f
    <2>1. PICK i \in 1..Len(ClusterList) : ClusterList[i] = f
        BY <1>1 DEF Clusters, Range
    <2> QED
        BY <1>2, <2>1
<1>4. ASSUME NEW i \in 1..Len(Order) PROVE Order[i] \in Clusters \cup {"inventory", "vars"}
    <2>1. CASE i \in {1, 2}
        BY <1>2, <2>1
    <2>2. CASE i \notin {1, 2}
        <3>1. i - 2 \in 1..Len(ClusterList) /\ i = (i - 2) + 2
            BY <1>2, <1>4, <2>2
        <3>2. Order[i] = ClusterList[i - 2]
            BY <1>2, <3>1
        <3> QED
            BY <1>1, <3>1, <3>2
    <2> QED
        BY <2>1, <2>2
<1> QED
    BY <1>2, <1>3, <1>4

\* A command that has come to its playbook, undisturbed, has what it reads.
LEMMA OwnIsRead ==
    ASSUME OwnInv, SecretTypeOK, NEW t \in Terminals,
           Scopes(t), term[t].alone, term[t].step = "play"
    PROVE  ReadsItsOwn(t)
<1>1. /\ Laid(term[t], Len(PartsOf[term[t].build])) /\ Written(term[t], Len(Order))
      /\ bundle = [p \in Parts |-> bundle[p]]
    BY DEF OwnInv, Progress, Scopes, OwnOf, FilesOK
<1>2. term[t].build \in Builds /\ term[t].names \subseteq Clusters
    <2>1. term[t] \in ScopeRecords
        BY Running DEF Scopes, SecretTypeOK
    <2> QED
        BY <2>1 DEF ScopeRecords
<1>3. bundle = Extracted(term[t].build)
    <2>1. DOMAIN PartsOf[term[t].build] = 1..Len(PartsOf[term[t].build])
        BY <1>2, ListsAssumption
    <2>2. \A p : p \in Range(PartsOf[term[t].build])
                 <=> \E i \in 1..Len(PartsOf[term[t].build]) : PartsOf[term[t].build][i] = p
        BY <2>1 DEF Range
    <2> QED
        BY <1>1, <2>2 DEF Laid, Extracted
<1>4. ASSUME NEW f \in Reads(term[t].names) PROVE rendered[f] = From(f, term[t])
    <2>1. PICK i \in 1..Len(Order) : Order[i] = f
        BY <1>2, <1>4, OrderHas DEF Reads
    <2> QED
        BY <1>1, <1>4, <2>1 DEF Written
<1> QED
    BY <1>3, <1>4 DEF ReadsItsOwn

\* Steps that write neither the bundle nor the rendered files.
LEMMA UnwrittenKeeps ==
    ASSUME OwnInv, UNCHANGED <<bundle, rendered>>,
           \A u \in Terminals : term'[u] = term[u] \/ Progress(term'[u])
    PROVE  OwnInv'
<1>1. \A r : Progress(r) => Progress(r)'
    BY DEF Progress, OwnOf, Laid, Written
<1>2. FilesOK'
    BY DEF OwnInv, FilesOK
<1>3. ASSUME NEW u \in Terminals PROVE Progress(term[u])'
    <2>1. PICK r : r = term'[u]
        OBVIOUS
    <2>2. Progress(r)
        BY <2>1 DEF OwnInv
    <2>3. Progress(r)'
        BY <1>1, <2>2
    <2> QED
        BY <2>1, <2>3 DEF Progress, OwnOf, Laid, Written
<1> QED
    BY <1>2, <1>3 DEF OwnInv

\* The secret commands write neither.
LEMMA SecretsAside ==
    ASSUME IInv, SecretNext
    PROVE  \A u \in Terminals : term'[u] = term[u] \/ term'[u].step \notin ScopeSteps
<1>1. "idle" \notin ScopeSteps /\ \A step \in GenerateSteps : step \notin ScopeSteps
    BY DEF ScopeSteps, GenerateSteps
<1>2. ASSUME NEW t \in Terminals, NEW r, Becomes(t, r), r.step \notin ScopeSteps
      PROVE  \A u \in Terminals : term'[u] = term[u] \/ term'[u].step \notin ScopeSteps
    BY <1>2, Becoming DEF IInv
<1>3. ASSUME NEW t \in Terminals, Becomes(t, Idle)
      PROVE  \A u \in Terminals : term'[u] = term[u] \/ term'[u].step \notin ScopeSteps
    BY <1>1, <1>2, <1>3, StepsOf
<1>4. ASSUME NEW t \in Terminals, Generates(t), NEW step \in GenerateSteps, To(t, step)
      PROVE  \A u \in Terminals : term'[u] = term[u] \/ term'[u].step \notin ScopeSteps
    BY <1>1, <1>2, <1>4, GoesOn DEF To
<1>5. ASSUME NEW t \in Terminals, Generate(t)
      PROVE  \A u \in Terminals : term'[u] = term[u] \/ term'[u].step \notin ScopeSteps
    <2>1. Generating("stat cert", begun + 1, FALSE).step \in GenerateSteps
        BY DEF Generating, GenerateSteps
    <2> QED
        BY <1>1, <1>2, <1>5, <2>1 DEF Generate
<1>6. ASSUME NEW t \in Terminals, StatCert(t)
      PROVE  \A u \in Terminals : term'[u] = term[u] \/ term'[u].step \notin ScopeSteps
    <2> DEFINE r == [term[t] EXCEPT !.step = "stat key", !.found = There(cert)]
    <2>1. Generates(t) /\ "stat key" \in GenerateSteps
        BY <1>6 DEF StatCert, Generates, GenerateSteps
    <2>2. term[t] \in GenerateRecords
        BY <2>1, GoesOn
    <2>3. r.step = "stat key"
        BY <2>2 DEF GenerateRecords
    <2> QED
        BY <1>1, <1>2, <1>6, <2>1, <2>3 DEF StatCert
<1>7. ASSUME NEW t \in Terminals, StatKey(t) \/ Verify(t) \/ StatCredentials(t)
      PROVE  \A u \in Terminals : term'[u] = term[u] \/ term'[u].step \notin ScopeSteps
    <2>1. Generates(t)
        BY <1>7 DEF StatKey, Verify, StatCredentials, Generates, GenerateSteps
    <2>2. {"verify", "create cert", "credentials", "write credentials"} \subseteq GenerateSteps
        BY DEF GenerateSteps
    <2> QED
        BY <1>3, <1>4, <1>7, <2>1, <2>2 DEF StatKey, Verify, StatCredentials
<1>8. ASSUME NEW t \in Terminals,
             CreateCert(t) \/ FillCert(t) \/ CreateKey(t) \/ FillKey(t) \/ DropCert(t)
      PROVE  \A u \in Terminals : term'[u] = term[u] \/ term'[u].step \notin ScopeSteps
    <2>1. Generates(t)
        BY <1>8 DEF CreateCert, FillCert, CreateKey, FillKey, DropCert, Generates, GenerateSteps
    <2>2. {"fill cert", "create key", "fill key", "drop cert", "credentials"} \subseteq GenerateSteps
        BY DEF GenerateSteps
    <2>3. Becomes(t, Idle)
          \/ \E step \in {"fill cert", "create key", "fill key", "drop cert", "credentials"} : To(t, step)
        BY <1>8 DEF CreateCert, FillCert, CreateKey, FillKey, DropCert
    <2> QED
        BY <1>3, <1>4, <2>1, <2>2, <2>3
<1>9. ASSUME NEW t \in Terminals, WriteCredentials(t) \/ Kill(t)
      PROVE  \A u \in Terminals : term'[u] = term[u] \/ term'[u].step \notin ScopeSteps
    BY <1>3, <1>9 DEF WriteCredentials, Kill
<1>10. CASE RemovePair \/ EditCertificate \/ \E t \in Terminals : SetCredentials(t)
    BY <1>10 DEF RemovePair, EditCertificate, SetCredentials
<1> QED
    BY <1>5, <1>6, <1>7, <1>8, <1>9, <1>10 DEF SecretNext

\* A command that begins is not alone yet; one that looks or that ends writes
\* nothing; a playbook starts with what was extracted and rendered.
LEMMA ReadingKeeps ==
    ASSUME IInv, OwnInv, NEW t \in Terminals,
           LoadChecked(t) \/ LoadUnchecked(t) \/ HostCheck(t) \/ Run(t) \/ End(t)
    PROVE  OwnInv'
<1>1. UNCHANGED <<bundle, rendered>>
    BY DEF LoadChecked, LoadUnchecked, Load, HostCheck, Run, End
<1>2. ASSUME NEW r, Becomes(t, r), Progress(r)
      PROVE  OwnInv'
    <2>1. \A u \in Terminals : term'[u] = term[u] \/ Progress(term'[u])
        BY <1>2, Becoming DEF IInv
    <2> QED
        BY <1>1, <2>1, UnwrittenKeeps
<1>3. CASE Becomes(t, Idle)
    <2>1. Progress(Idle)
        BY StepsOf DEF Progress, ScopeSteps
    <2> QED
        BY <1>2, <1>3, <2>1
<1>4. CASE LoadChecked(t) \/ LoadUnchecked(t)
    <2>1. PICK kind, step, build, names : Becomes(t, Scope(step, kind, build, want, names))
        BY <1>4 DEF LoadChecked, LoadUnchecked, Load
    <2>2. Progress(Scope(step, kind, build, want, names))
        BY DEF Scope, Progress
    <2> QED
        BY <1>2, <2>1, <2>2
<1>5. ASSUME NEW step \in {"clear", "play"}, To(t, step), Scopes(t),
             term[t].step = IF step = "clear" THEN "host-check" ELSE "run"
      PROVE  OwnInv'
    <2>1. term[t] \in ScopeRecords /\ Progress(term[t])
        BY <1>5, Running DEF Scopes, IInv, SecretTypeOK, OwnInv
    <2>2. PICK r : r = [term[t] EXCEPT !.step = step]
        OBVIOUS
    <2>3. /\ r.step = step /\ r.alone = term[t].alone /\ r.at = term[t].at
          /\ r.build = term[t].build /\ r.names = term[t].names /\ r.of = term[t].of
        BY <2>1, <2>2 DEF ScopeRecords
    <2>4. ASSUME r.alone PROVE OwnOf(r)
        <3>1. OwnOf(term[t])
            BY <1>5, <2>1, <2>3, <2>4 DEF Progress, Scopes
        <3>2. step = "play" /\ term[t].step = "run"
            BY <1>5, <3>1 DEF OwnOf
        <3>3. Laid(term[t], Len(PartsOf[term[t].build])) /\ Written(term[t], Len(Order))
            BY <3>1, <3>2 DEF OwnOf
        <3>4. Laid(r, Len(PartsOf[r.build])) /\ Written(r, Len(Order))
            BY <2>3, <3>3 DEF Laid, Written, From
        <3> QED
            BY <2>3, <3>2, <3>4 DEF OwnOf
    <2>5. Progress(r)
        BY <1>5, <2>1, <2>3, <2>4 DEF Progress
    <2> QED
        BY <1>2, <1>5, <2>2, <2>5 DEF To
<1>6. CASE HostCheck(t)
    BY <1>3, <1>5, <1>6 DEF HostCheck, Scopes, ScopeSteps
<1>7. CASE Run(t)
    BY <1>5, <1>7 DEF Run, Scopes, ScopeSteps
<1>8. CASE End(t)
    BY <1>3, <1>8 DEF End
<1> QED
    BY <1>4, <1>6, <1>7, <1>8

\* Who writes is the only one that can be alone afterwards.
LEMMA OneAlone ==
    ASSUME IInv, OwnInv, FilesOK', NEW t \in Terminals, NEW r, Writes(t, r), Progress(r)'
    PROVE  OwnInv'
<1>1. Progress(term[t])'
    BY DEF Writes, Progress, OwnOf, Laid, Written
<1>2. ASSUME NEW u \in Terminals \ {t} PROVE Progress(term[u])'
    <2>1. CASE Scopes(u)
        <3>1. term[u] \in ScopeRecords /\ Progress(term[u])
            BY <2>1, Running DEF Scopes, IInv, SecretTypeOK, OwnInv
        <3>2. term'[u] = [term[u] EXCEPT !.alone = FALSE]
            BY <2>1 DEF Writes
        <3>3. ~ term'[u].alone /\ term'[u].step = term[u].step /\ term'[u].at = term[u].at
            BY <3>1, <3>2 DEF ScopeRecords
        <3> QED
            BY <3>1, <3>3 DEF Progress
    <2>2. CASE ~ Scopes(u)
        <3>1. term'[u] = term[u]
            BY <2>2 DEF Writes
        <3> QED
            BY <2>2, <3>1 DEF Progress, Scopes, ScopeSteps
    <2> QED
        BY <2>1, <2>2
<1> QED
    BY <1>1, <1>2 DEF OwnInv

\* The record of a command that writes.
LEMMA Writer ==
    ASSUME IInv, OwnInv, NEW t \in Terminals, term[t].step \in {"clear", "extract", "render"}
    PROVE  /\ term[t] \in ScopeRecords /\ Progress(term[t])
           /\ Len(PartsOf[term[t].build]) \in Nat \ {0}
<1>1. term[t] \in ScopeRecords /\ Progress(term[t])
    BY Running DEF ScopeSteps, IInv, SecretTypeOK, OwnInv
<1>2. term[t].build \in Builds
    BY <1>1 DEF ScopeRecords
<1> QED
    BY <1>1, <1>2, ListsAssumption

\* The bundle is cleared, or half of it.
LEMMA ClearKeeps ==
    ASSUME IInv, OwnInv, NEW t \in Terminals, Clear(t)
    PROVE  OwnInv'
<1>1. FilesOK'
    BY DEF Clear, OwnInv, FilesOK
<1>2. CASE Writes(t, Idle)
    <2>1. Progress(Idle)'
        BY StepsOf DEF Progress, ScopeSteps
    <2> QED
        BY <1>1, <1>2, <2>1, OneAlone
<1>3. CASE /\ bundle' = [p \in Parts |-> None]
           /\ Writes(t, [term[t] EXCEPT !.step = "extract", !.alone = TRUE])
    <2>1. PICK r : r = [term[t] EXCEPT !.step = "extract", !.alone = TRUE]
        OBVIOUS
    <2>2. term[t].step = "clear"
        BY DEF Clear
    <2>3. /\ term[t] \in ScopeRecords /\ term[t].at = 1
          /\ Len(PartsOf[term[t].build]) \in Nat \ {0}
        BY <2>2, Writer DEF Progress
    <2>4. r.step = "extract" /\ r.build = term[t].build /\ r.at = 1
        BY <2>1, <2>3 DEF ScopeRecords
    <2>5. Laid(r, 0)'
        BY <1>3 DEF Laid
    <2>6. Progress(r)'
        BY <2>3, <2>4, <2>5 DEF Progress, OwnOf
    <2> QED
        BY <1>1, <1>3, <2>1, <2>6, OneAlone
<1> QED
    BY <1>2, <1>3 DEF Clear

\* One more file of the bundle is there.
LEMMA ExtractKeeps ==
    ASSUME IInv, OwnInv, NEW t \in Terminals, Extract(t)
    PROVE  OwnInv'
<1>1. PICK r : r = term[t]
    OBVIOUS
<1>2. PICK parts : parts = PartsOf[r.build]
    OBVIOUS
<1>3. PICK s : s = IF r.at = Len(parts) THEN [r EXCEPT !.step = "render", !.at = 1]
                   ELSE [r EXCEPT !.at = r.at + 1]
    OBVIOUS
<1>4. /\ r.step = "extract" /\ UNCHANGED rendered /\ Writes(t, s)
      /\ bundle' = [bundle EXCEPT ![parts[r.at]] = r.build]
    BY <1>1, <1>2, <1>3 DEF Extract
<1>5. r \in ScopeRecords /\ Progress(r) /\ Len(parts) \in Nat \ {0}
    BY <1>1, <1>2, <1>4, Writer
<1>6. FilesOK'
    BY <1>4 DEF OwnInv, FilesOK
<1>7. /\ s.alone = r.alone /\ s.build = r.build /\ s.names = r.names /\ s.of = r.of
      /\ r.at = Len(parts) => s.step = "render" /\ s.at = 1
      /\ r.at # Len(parts) => s.step = "extract" /\ s.at = r.at + 1
    BY <1>3, <1>4, <1>5 DEF ScopeRecords
<1>8. ASSUME r.alone PROVE OwnOf(s)'
    <2>1. r.at \in 1..Len(parts) /\ Laid(r, r.at - 1)
        BY <1>2, <1>4, <1>5, <1>8 DEF Progress, OwnOf, ScopeSteps
    <2>2. ASSUME NEW p \in Parts
          PROVE  bundle'[p] = IF \E i \in 1..r.at : parts[i] = p THEN r.build ELSE None
        <3>1. CASE p = parts[r.at]
            BY <1>4, <1>5, <2>1, <3>1 DEF OwnInv, FilesOK
        <3>2. CASE p # parts[r.at]
            <4>1. bundle'[p] = bundle[p]
                BY <1>4, <3>2 DEF OwnInv, FilesOK
            <4>2. (\E i \in 1..r.at : parts[i] = p) <=> \E i \in 1..r.at - 1 : parts[i] = p
                BY <1>5, <2>1, <3>2
            <4> QED
                BY <1>2, <2>1, <4>1, <4>2 DEF Laid
        <3> QED
            BY <3>1, <3>2
    <2>3. Laid(s, r.at)'
        BY <1>2, <1>7, <2>2 DEF Laid
    <2>4. CASE r.at = Len(parts)
        <3>1. Written(s, 0)'
            BY DEF Written
        <3>2. s.step = "render" /\ s.at = 1 /\ Len(PartsOf[s.build]) = r.at
            BY <1>2, <1>7, <2>4
        <3>3. Order[1] \in Reads(s.names) /\ 1 \in 1..Len(Order)
            BY OrderHas DEF Reads
        <3> QED
            BY <2>3, <3>1, <3>2, <3>3 DEF OwnOf
    <2>5. CASE r.at # Len(parts)
        <3>1. s.at \in 1..Len(PartsOf[s.build]) /\ s.at - 1 = r.at /\ s.step = "extract"
            BY <1>2, <1>5, <1>7, <2>1, <2>5
        <3> QED
            BY <2>3, <3>1 DEF OwnOf
    <2> QED
        BY <2>4, <2>5
<1>9. s.step \notin {"host-check", "clear"}
    BY <1>7
<1>10. Progress(s)'
    BY <1>7, <1>8, <1>9 DEF Progress
<1> QED
    BY <1>4, <1>6, <1>10, OneAlone

\* One more file is rendered, and those passed over are not read.
LEMMA RenderKeeps ==
    ASSUME IInv, OwnInv, NEW t \in Terminals, Render(t)
    PROVE  OwnInv'
<1>1. PICK r : r = term[t]
    OBVIOUS
<1>2. PICK f : f = Order[r.at]
    OBVIOUS
<1>3. /\ r.step = "render" /\ UNCHANGED bundle
      /\ rendered' = [rendered EXCEPT ![f] = From(f, r)]
    BY <1>1, <1>2 DEF Render
<1>4. r \in ScopeRecords /\ Progress(r) /\ r.at \in Nat
    <2>1. r \in ScopeRecords /\ Progress(r)
        BY <1>1, <1>3, Writer
    <2> QED
        BY <2>1 DEF ScopeRecords
<1>5. FilesOK'
    BY <1>3 DEF OwnInv, FilesOK
<1>6. ASSUME r.alone
      PROVE  /\ r.at \in 1..Len(Order) /\ Laid(r, Len(PartsOf[r.build]))'
             /\ Written(r, r.at)'
    <2>1. /\ r.at \in 1..Len(Order) /\ Laid(r, Len(PartsOf[r.build]))
          /\ f \in Reads(r.names) /\ Written(r, r.at - 1)
        BY <1>2, <1>3, <1>4, <1>6 DEF Progress, OwnOf, ScopeSteps
    <2>2. Laid(r, Len(PartsOf[r.build]))'
        BY <1>3, <2>1 DEF Laid
    <2>3. ASSUME NEW i \in 1..r.at, Order[i] \in Reads(r.names)
          PROVE  rendered'[Order[i]] = From(Order[i], r)
        <3>1. Order[i] \in Clusters \cup {"inventory", "vars"}
            BY <1>4, <2>1, OrderHas
        <3>2. CASE Order[i] = f
            BY <1>3, <3>1, <3>2 DEF OwnInv, FilesOK
        <3>3. CASE Order[i] # f
            <4>1. i \in 1..r.at - 1
                BY <1>2, <1>4, <3>3
            <4> QED
                BY <1>3, <2>1, <2>3, <3>1, <3>3, <4>1 DEF OwnInv, FilesOK, Written
        <3> QED
            BY <3>2, <3>3
    <2> QED
        BY <2>1, <2>2, <2>3 DEF Written
<1>7. CASE Later(r) = {} /\ Writes(t, [r EXCEPT !.step = "run"])
    <2>1. PICK s : s = [r EXCEPT !.step = "run"]
        OBVIOUS
    <2>2. /\ s.alone = r.alone /\ s.build = r.build /\ s.names = r.names /\ s.of = r.of
          /\ s.step = "run"
        BY <1>4, <2>1 DEF ScopeRecords
    <2>3. ASSUME s.alone PROVE OwnOf(s)'
        <3>1. Written(r, Len(Order))'
            <4>1. \A i \in 1..Len(Order) : i \in 1..r.at \/ i \in r.at + 1 .. Len(Order)
                BY <1>4
            <4>2. \A i \in r.at + 1 .. Len(Order) : Order[i] \notin Reads(r.names)
                BY <1>7 DEF Later
            <4> QED
                BY <1>6, <2>2, <2>3, <4>1, <4>2 DEF Written
        <3>2. Written(s, Len(Order))' /\ Laid(s, Len(PartsOf[s.build]))'
            BY <1>6, <2>2, <2>3, <3>1 DEF Written, Laid, From
        <3> QED
            BY <2>2, <3>2 DEF OwnOf
    <2>4. Progress(s)'
        BY <2>2, <2>3 DEF Progress
    <2> QED
        BY <1>5, <1>7, <2>1, <2>4, OneAlone
<1>8. ASSUME NEW k \in Later(r), \A j \in Later(r) : k <= j, Writes(t, [r EXCEPT !.at = k])
      PROVE  OwnInv'
    <2>1. PICK s : s = [r EXCEPT !.at = k]
        OBVIOUS
    <2>2. /\ s.alone = r.alone /\ s.build = r.build /\ s.names = r.names /\ s.of = r.of
          /\ s.step = "render" /\ s.at = k
        BY <1>3, <1>4, <2>1 DEF ScopeRecords
    <2>3. k \in r.at + 1 .. Len(Order) /\ Order[k] \in Reads(r.names) /\ k \in Nat
        BY <1>4, <1>8 DEF Later
    <2>4. ASSUME s.alone PROVE OwnOf(s)'
        <3>1. Written(r, k - 1)'
            <4>1. \A i \in 1..k - 1 : i \in 1..r.at \/ i \in r.at + 1 .. Len(Order)
                BY <1>4, <2>3, OrderHas
            <4>2. \A i \in 1..k - 1 : i \in r.at + 1 .. Len(Order) => Order[i] \notin Reads(r.names)
                BY <1>4, <1>8, <2>3 DEF Later
            <4> QED
                BY <1>6, <2>2, <2>4, <4>1, <4>2 DEF Written
        <3>2. Written(s, k - 1)' /\ Laid(s, Len(PartsOf[s.build]))'
            <4>1. Written(s, k - 1)'
                BY <2>2, <3>1 DEF Written, From
            <4>2. Laid(s, Len(PartsOf[s.build]))'
                BY <1>6, <2>2, <2>4 DEF Laid
            <4> QED
                BY <4>1, <4>2
        <3>3. k \in 1..Len(Order)
            BY <1>4, <2>3, OrderHas
        <3> QED
            BY <2>2, <2>3, <3>2, <3>3 DEF OwnOf
    <2>5. Progress(s)'
        BY <2>2, <2>4 DEF Progress
    <2> QED
        BY <1>5, <1>8, <2>1, <2>5, OneAlone
<1> QED
    BY <1>1, <1>7, <1>8 DEF Render

\* So every step of every command keeps it.
LEMMA NextKeepsOwn ==
    ASSUME IInv, OwnInv, [Next]_vars
    PROVE  OwnInv'
<1>1. CASE SecretNext /\ UNCHANGED <<bundle, rendered>>
    <2>1. \A u \in Terminals : term'[u] = term[u] \/ Progress(term'[u])
        BY <1>1, SecretsAside DEF Progress, ScopeSteps
    <2> QED
        BY <1>1, <2>1, UnwrittenKeeps
<1>2. ASSUME NEW t \in Terminals,
             \/ LoadChecked(t) \/ LoadUnchecked(t) \/ HostCheck(t)
             \/ Clear(t) \/ Extract(t) \/ Render(t) \/ Run(t) \/ End(t)
      PROVE  OwnInv'
    BY <1>2, ReadingKeeps, ClearKeeps, ExtractKeeps, RenderKeeps
<1>3. CASE UNCHANGED vars
    BY <1>3, UnwrittenKeeps DEF vars
<1> QED
    BY <1>1, <1>2, <1>3 DEF Next

\* Nothing is extracted or rendered in the beginning.
LEMMA InitOwn == Init => OwnInv
<1> SUFFICES ASSUME Init PROVE OwnInv
    OBVIOUS
<1>1. FilesOK
    BY DEF Init, FilesOK
<1>2. \A t \in Terminals : Progress(term[t])
    BY StepsOf DEF Init, SecretInit, Progress, ScopeSteps
<1> QED
    BY <1>1, <1>2 DEF OwnInv

\* A playbook whose command is alone with the files since it cleared the bundle
\* reads what that command extracted and rendered and nothing else, for any
\* builds, clusters and terminals, wherever the commands before it were cut
\* (ansible.go, ExtractAnsibleBundle; render.go, the inventory and the installer configs).
THEOREM OwnHolds == Spec => []OwnInputs
<1>1. IInv /\ OwnInv => OwnInputs
    BY OwnIsRead DEF OwnInputs, IInv
<1>2. IInv /\ OwnInv /\ [Next]_vars => IInv' /\ OwnInv'
    BY NextKeeps, NextKeepsOwn
<1>3. Init => IInv /\ OwnInv
    BY InitIInv, InitOwn
<1> QED
    BY <1>1, <1>2, <1>3, PTL DEF Spec
=============================================================================
