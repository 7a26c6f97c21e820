--------------------------- MODULE EnvironmentProofs ---------------------------
(***************************************************************************)
(* What EnvironmentState promises, for every set of inputs, users, hub     *)
(* names and scopes.  The inductive invariant says what the documents are, *)
(* that nothing is written before they are valid and scoped, and that each *)
(* file is what the documents and the scope make of it; what a file says   *)
(* then follows from what validation lets through.  That a second          *)
(* normalization changes nothing needs a predicate of its own: what the    *)
(* passes that are over have settled.  Its lemmas show of every default    *)
(* and derived value that it stands once it is made, of the image sources  *)
(* by the uniqueness of what a fold computes.                              *)
(***************************************************************************)
EXTENDS EnvironmentState, FiniteSetTheorems, FunctionTheorems, SequenceTheorems, TLAPS

(* The ranks of a total order: every number up to the size of a finite set  *)
(* is the rank of one element, and of one only.                             *)
LEMMA Ranks ==
  ASSUME NEW S, IsFiniteSet(S), NEW up \in [S -> SUBSET S],
         \A x \in S : x \in up[x],
         \A x, y \in S :
             x # y => \/ up[x] \subseteq up[y] /\ y \notin up[x]
                      \/ up[y] \subseteq up[x] /\ x \notin up[y]
  PROVE  /\ Cardinality(S) \in Nat
         /\ \A k \in 1..Cardinality(S) : \E x \in S : Cardinality(up[x]) = k
         /\ \A x \in S : Cardinality(up[x]) \in 1..Cardinality(S)
         /\ \A x, y \in S : Cardinality(up[x]) = Cardinality(up[y]) => x = y
<1> DEFINE rank == [x \in S |-> Cardinality(up[x])]
<1>1. Cardinality(S) \in Nat
  BY FS_CardinalityType
<1>2. \A x \in S : IsFiniteSet(up[x]) /\ Cardinality(up[x]) \in Nat /\ Cardinality(up[x]) <= Cardinality(S)
  BY FS_Subset, FS_CardinalityType
<1>3. \A x \in S : Cardinality(up[x]) # 0
  <2> TAKE x \in S
  <2>1. up[x] # {}
    OBVIOUS
  <2> QED
    BY <2>1, <1>2, FS_EmptySet
<1>4. \A x \in S : rank[x] \in 1..Cardinality(S)
  BY <1>1, <1>2, <1>3
<1>5. ASSUME NEW x \in S, NEW y \in S, up[x] \subseteq up[y], y \notin up[x]
      PROVE  Cardinality(up[x]) # Cardinality(up[y])
  <2>1. up[x] \in SUBSET up[y] /\ up[x] # up[y]
    BY <1>5
  <2> QED
    BY <2>1, <1>2, FS_Subset
<1>6. \A x, y \in S : rank[x] = rank[y] => x = y
  BY <1>5
<1>7. rank \in Injection(S, 1..Cardinality(S))
  BY <1>4, <1>6 DEF Injection, IsInjective
<1>8. IsFiniteSet(1..Cardinality(S)) /\ Cardinality(1..Cardinality(S)) = Cardinality(S)
  BY <1>1, FS_Interval
<1>9. rank \in Surjection(S, 1..Cardinality(S))
  <2> HIDE DEF rank
  <2> QED
    BY <1>7, <1>8, FS_Injection
<1>10. \A k \in 1..Cardinality(S) : \E x \in S : rank[x] = k
  <2> HIDE DEF rank
  <2> QED
    BY <1>9 DEF Surjection
<1> QED
  BY <1>1, <1>4, <1>6, <1>10

(* Of numbers, by their size.                                               *)
LEMMA NumberRanks ==
  ASSUME NEW S, IsFiniteSet(S), S \subseteq Nat
  PROVE  /\ Cardinality(S) \in Nat
         /\ \A k \in 1..Cardinality(S) : \E n \in S : Cardinality({m \in S : m <= n}) = k
         /\ \A n \in S : Cardinality({m \in S : m <= n}) \in 1..Cardinality(S)
         /\ \A m, n \in S : Cardinality({j \in S : j <= m}) = Cardinality({j \in S : j <= n}) => m = n
<1> DEFINE up == [n \in S |-> {m \in S : m <= n}]
<1>1. up \in [S -> SUBSET S]
  OBVIOUS
<1>2. \A n \in S : n \in up[n]
  OBVIOUS
<1>3. \A x, y \in S :
        x # y => \/ up[x] \subseteq up[y] /\ y \notin up[x]
                 \/ up[y] \subseteq up[x] /\ x \notin up[y]
  <2> TAKE x, y \in S
  <2>1. x \in Nat /\ y \in Nat /\ \A m \in S : m \in Nat
    OBVIOUS
  <2>2. up[x] = {m \in S : m <= x} /\ up[y] = {m \in S : m <= y}
    OBVIOUS
  <2> HIDE DEF up
  <2> HAVE x # y
  <2>3. CASE x < y
    <3>1. (\A m \in S : m <= x => m <= y) /\ ~ (y <= x)
      BY <2>1, <2>3
    <3> QED
      BY <2>2, <3>1
  <2>4. CASE y < x
    <3>1. (\A m \in S : m <= y => m <= x) /\ ~ (x <= y)
      BY <2>1, <2>4
    <3> QED
      BY <2>2, <3>1
  <2> QED
    BY <2>1, <2>3, <2>4
<1>4. /\ Cardinality(S) \in Nat
      /\ \A k \in 1..Cardinality(S) : \E x \in S : Cardinality(up[x]) = k
      /\ \A x \in S : Cardinality(up[x]) \in 1..Cardinality(S)
      /\ \A x, y \in S : Cardinality(up[x]) = Cardinality(up[y]) => x = y
  <2> HIDE DEF up
  <2> QED
    BY <1>1, <1>2, <1>3, Ranks
<1> QED
  BY <1>4

(* The least number of a finite set is one of them.                         *)
LEMMA LeastOf ==
  ASSUME NEW S, IsFiniteSet(S), S \subseteq Nat, S # {}
  PROVE  Min(S) \in S /\ \A n \in S : Min(S) <= n
<1>1. Cardinality(S) \in Nat /\ Cardinality(S) # 0
  BY FS_CardinalityType, FS_EmptySet
<1>2. PICK x \in S : Cardinality({m \in S : m <= x}) = 1
  <2>1. 1 \in 1..Cardinality(S)
    BY <1>1
  <2> QED
    BY <2>1, NumberRanks
<1>3. PICK y : {m \in S : m <= x} = {y}
  <2>1. IsFiniteSet({m \in S : m <= x})
    BY FS_Subset
  <2> QED
    BY <1>2, <2>1, FS_Singleton
<1>4. x \in {m \in S : m <= x}
  OBVIOUS
<1>5. ASSUME NEW n \in S PROVE x <= n
  <2>1. n \in Nat /\ x \in Nat
    OBVIOUS
  <2>2. n <= x => n = x
    BY <1>3, <1>4
  <2> QED
    BY <2>1, <2>2
<1>6. \E z \in S : \A n \in S : z <= n
  BY <1>5
<1> QED
  BY <1>6 DEF Min

(* The values of a map are in order: each entry is the value of a key, each *)
(* key has its place, and no key has two.                                   *)
LEMMA InOrderKeys ==
  ASSUME NEW f, IsFiniteSet(DOMAIN f), DOMAIN f \subseteq Nat
  PROVE  /\ Cardinality(DOMAIN f) \in Nat
         /\ \E key \in Bijection(1..Cardinality(DOMAIN f), DOMAIN f) :
               InOrder(f) = [k \in 1..Cardinality(DOMAIN f) |-> f[key[k]]]
<1> DEFINE S == DOMAIN f
           upto(n) == Cardinality({m \in S : m <= n})
           key == [k \in 1..Cardinality(S) |-> CHOOSE n \in S : upto(n) = k]
<1>1. /\ Cardinality(S) \in Nat
      /\ \A k \in 1..Cardinality(S) : \E n \in S : upto(n) = k
      /\ \A n \in S : upto(n) \in 1..Cardinality(S)
      /\ \A m, n \in S : upto(m) = upto(n) => m = n
  BY NumberRanks
<1>9. InOrder(f) = [k \in 1..Cardinality(S) |-> f[key[k]]]
  BY DEF InOrder
<1> HIDE DEF upto, S
<1>2. ASSUME NEW k \in 1..Cardinality(S)
      PROVE  key[k] \in S /\ upto(key[k]) = k
  BY <1>1
<1>3. key = [k \in 1..Cardinality(S) |-> key[k]]
  OBVIOUS
<1> HIDE DEF key
<1>4. key \in [1..Cardinality(S) -> S]
  BY <1>2, <1>3
<1>5. \A j, k \in 1..Cardinality(S) : key[j] = key[k] => j = k
  BY <1>2
<1>6. \A n \in S : \E k \in 1..Cardinality(S) : key[k] = n
  BY <1>1, <1>2
<1>7. key \in Bijection(1..Cardinality(S), S)
  BY <1>4, <1>5, <1>6 DEF Bijection, Injection, Surjection, IsInjective
<1> QED
  BY <1>1, <1>7, <1>9 DEF S

(* A list is a function over the numbers up to its length.                  *)
LEMMA ListEntries ==
  ASSUME NEW s, IsList(s)
  PROVE  /\ Len(s) \in Nat
         /\ DOMAIN s = 1..Len(s)
         /\ s = [i \in 1..Len(s) |-> s[i]]
         /\ IsFiniteSet(DOMAIN s)
         /\ DOMAIN s \subseteq Nat
<1>1. s \in Seq(ToSet(s))
  BY DEF IsList
<1>2. Len(s) \in Nat /\ DOMAIN s = 1..Len(s) /\ s = [i \in 1..Len(s) |-> s[i]]
  BY <1>1
<1>3. IsFiniteSet(1..Len(s))
  BY <1>2, FS_Interval
<1> QED
  BY <1>2, <1>3

(* And a function over the numbers up to a length is a list.                *)
LEMMA IsListOf ==
  ASSUME NEW s, NEW n \in Nat, s = [i \in 1..n |-> s[i]]
  PROVE  IsList(s)
<1>1. \A i \in 1..n : s[i] \in ToSet(s)
  BY DEF ToSet
<1> HIDE DEF ToSet
<1>2. [i \in 1..n |-> s[i]] \in Seq(ToSet(s))
  BY <1>1
<1> QED
  BY <1>2 DEF IsList

(* The entries at some positions are these and no others, each once.        *)
LEMMA EntriesAt ==
  ASSUME NEW docs, IsList(docs), NEW I \in SUBSET DOMAIN docs
  PROVE  /\ IsList(Entries(docs, I))
         /\ \E pos \in Bijection(DOMAIN Entries(docs, I), I) :
               \A k \in DOMAIN Entries(docs, I) : Entries(docs, I)[k] = docs[pos[k]]
<1> DEFINE f == Restrict(docs, I)
<1>1. IsFiniteSet(I) /\ I \subseteq Nat
  BY ListEntries, FS_Subset
<1>2. DOMAIN f = I /\ \A i \in I : f[i] = docs[i]
  BY DEF Restrict
<1>3. Entries(docs, I) = InOrder(f)
  BY DEF Entries
<1> HIDE DEF f
<1>4. Cardinality(I) \in Nat
  BY <1>1, FS_CardinalityType
<1>5. PICK pos \in Bijection(1..Cardinality(I), I) :
         InOrder(f) = [k \in 1..Cardinality(I) |-> f[pos[k]]]
  BY <1>1, <1>2, InOrderKeys
<1>6. DOMAIN Entries(docs, I) = 1..Cardinality(I)
  BY <1>3, <1>5
<1>7. \A k \in 1..Cardinality(I) : Entries(docs, I)[k] = docs[pos[k]]
  <2> TAKE k \in 1..Cardinality(I)
  <2>1. pos[k] \in I
    BY DEF Bijection, Injection
  <2> QED
    BY <2>1, <1>2, <1>3, <1>5
<1>8. Entries(docs, I) = [k \in 1..Cardinality(I) |-> Entries(docs, I)[k]]
  BY <1>3, <1>5
<1>9. IsList(Entries(docs, I))
  BY <1>4, <1>8, IsListOf
<1> QED
  BY <1>5, <1>6, <1>7, <1>9

(* The same, said of the values.                                            *)
LEMMA EntriesAre ==
  ASSUME NEW docs, IsList(docs), NEW I \in SUBSET DOMAIN docs
  PROVE  /\ IsList(Entries(docs, I))
         /\ \A k \in DOMAIN Entries(docs, I) : \E i \in I : Entries(docs, I)[k] = docs[i]
         /\ \A i \in I : \E k \in DOMAIN Entries(docs, I) : Entries(docs, I)[k] = docs[i]
         /\ Distinct(docs) => Distinct(Entries(docs, I))
<1> DEFINE e == Entries(docs, I)
<1>1. PICK pos \in Bijection(DOMAIN e, I) : \A k \in DOMAIN e : e[k] = docs[pos[k]]
  BY EntriesAt
<1>2. IsList(e)
  BY EntriesAt
<1> HIDE DEF e
<1>3. /\ \A k \in DOMAIN e : pos[k] \in I
      /\ \A j, k \in DOMAIN e : pos[j] = pos[k] => j = k
      /\ \A i \in I : \E k \in DOMAIN e : pos[k] = i
  BY DEF Bijection, Injection, Surjection, IsInjective
<1>4. ASSUME Distinct(docs) PROVE Distinct(e)
  <2>1. \A j, k \in DOMAIN e : j # k => pos[j] # pos[k] /\ pos[j] \in DOMAIN docs /\ pos[k] \in DOMAIN docs
    BY <1>3
  <2> QED
    BY <2>1, <1>1, <1>4 DEF Distinct
<1> QED
  BY <1>1, <1>2, <1>3, <1>4 DEF e

(* Of documents whose names differ, the index has each under its name.      *)
LEMMA IndexedByName ==
  ASSUME NEW docs, IsList(docs), Distinct(docs)
  PROVE  /\ \A n : n \in DOMAIN IndexOf(docs) <=> \E i \in DOMAIN docs : docs[i].name = n
         /\ \A i \in DOMAIN docs : IndexOf(docs)[docs[i].name] = docs[i]
<1>1. DOMAIN IndexOf(docs) = {docs[i].name : i \in DOMAIN docs}
  BY DEF IndexOf
<1>2. ASSUME NEW i \in DOMAIN docs PROVE IndexOf(docs)[docs[i].name] = docs[i]
  <2>1. {j \in DOMAIN docs : docs[j].name = docs[i].name} = {i}
    BY DEF Distinct
  <2>2. i \in Nat
    BY ListEntries
  <2>3. Max({i}) = i
    BY <2>2 DEF Max
  <2>4. docs[i].name \in {docs[j].name : j \in DOMAIN docs}
    OBVIOUS
  <2> QED
    BY <2>1, <2>3, <2>4 DEF IndexOf
<1> QED
  BY <1>1, <1>2

(* A closure depends on the providers its references resolve to and on no   *)
(* others.                                                                  *)
LEMMA SameClosure ==
  ASSUME NEW ci, IsList(ci.providerRefs), NEW index, NEW other, 
         \A i \in DOMAIN ci.providerRefs :
            /\ ci.providerRefs[i] \in DOMAIN index
            /\ ci.providerRefs[i] \in DOMAIN other
            /\ index[ci.providerRefs[i]] = other[ci.providerRefs[i]]
  PROVE  /\ ClosureBuilds(ci, index) <=> ClosureBuilds(ci, other)
         /\ \A cap : SupplierOf(ci, index, cap) = SupplierOf(ci, other, cap)
         /\ closureProvider(ci, index) = closureProvider(ci, other)
<1>1. Resolved(ci, index) = DOMAIN ci.providerRefs /\ Resolved(ci, other) = DOMAIN ci.providerRefs
  BY DEF Resolved
<1>2. \A cap : Supplying(ci, index, cap) = Supplying(ci, other, cap)
  BY <1>1 DEF Supplying
<1>3. \A i \in DOMAIN ci.providerRefs : HostNames(ci, index, i) = HostNames(ci, other, i)
  BY DEF HostNames
<1>4. ClosureBuilds(ci, index) <=> ClosureBuilds(ci, other)
  BY <1>1, <1>2, <1>3 DEF ClosureBuilds
<1>5. \A cap : SupplierOf(ci, index, cap) = SupplierOf(ci, other, cap)
  BY <1>2 DEF SupplierOf
<1>6. \A cap : UNION {index[r][cap] : r \in {SupplierOf(ci, index, cap)} \ {0}}
                  = UNION {other[r][cap] : r \in {SupplierOf(ci, other, cap)} \ {0}}
  <2> TAKE cap
  <2>1. CASE Supplying(ci, index, cap) = {}
    <3>1. SupplierOf(ci, index, cap) = 0
      BY <2>1 DEF SupplierOf
    <3> QED
      BY <3>1, <1>5
  <2>2. CASE Supplying(ci, index, cap) # {}
    <3>1. PICK i \in DOMAIN ci.providerRefs : SupplierOf(ci, index, cap) = ci.providerRefs[i]
      <4>1. Supplying(ci, index, cap) \in SUBSET DOMAIN ci.providerRefs
        BY <1>1 DEF Supplying
      <4>2. IsFiniteSet(Supplying(ci, index, cap)) /\ Supplying(ci, index, cap) \subseteq Nat
        BY <4>1, ListEntries, FS_Subset
      <4>3. Min(Supplying(ci, index, cap)) \in Supplying(ci, index, cap)
        BY <2>2, <4>2, LeastOf
      <4> QED
        BY <2>2, <4>1, <4>3 DEF SupplierOf
    <3>2. index[SupplierOf(ci, index, cap)] = other[SupplierOf(ci, other, cap)]
      BY <3>1, <1>5
    <3> QED
      BY <3>2, <1>5
  <2> QED
    BY <2>1, <2>2
<1>7. ClosureHosts(ci, index) = ClosureHosts(ci, other)
  <2> DEFINE refs == ci.providerRefs
             has(h) == {i \in DOMAIN refs : h \in HostNames(ci, index, i)}
             names == UNION {HostNames(ci, index, i) : i \in DOMAIN refs}
  <2>1. ASSUME NEW h \in names
        PROVE  index[refs[Min(has(h))]].hosts[h] = other[refs[Min(has(h))]].hosts[h]
    <3>1. has(h) \in SUBSET DOMAIN refs /\ has(h) # {}
      OBVIOUS
    <3>2. IsFiniteSet(has(h)) /\ has(h) \subseteq Nat
      BY <3>1, ListEntries, FS_Subset
    <3>3. Min(has(h)) \in has(h)
      <4> HIDE DEF has
      <4> QED
        BY <3>1, <3>2, LeastOf
    <3>4. Min(has(h)) \in DOMAIN refs
      BY <3>1, <3>3
    <3> QED
      BY <3>4
  <2>2. ClosureHosts(ci, index) = [h \in names |-> index[refs[Min(has(h))]].hosts[h]]
    BY <1>1 DEF ClosureHosts
  <2>3. ClosureHosts(ci, other) = [h \in names |-> other[refs[Min(has(h))]].hosts[h]]
    <3>1. names = UNION {HostNames(ci, other, i) : i \in DOMAIN refs}
      BY <1>3
    <3>2. \A h : has(h) = {i \in DOMAIN refs : h \in HostNames(ci, other, i)}
      BY <1>3
    <3> HIDE DEF has, names
    <3> QED
      BY <1>1, <3>1, <3>2 DEF ClosureHosts
  <2> HIDE DEF has, names
  <2> QED
    BY <2>1, <2>2, <2>3
<1>8. closureProvider(ci, index) = closureProvider(ci, other)
  BY ZenonT(60), <1>5, <1>6, <1>7 DEF closureProvider
<1> QED
  BY <1>4, <1>5, <1>8

--------------------------------------------------------------------------------
(* The scope: what filterStateToClusters keeps, and what is found in it.    *)

(* A state is four lists of documents.                                      *)
Documents(s) ==
  /\ s = [kind \in Kinds |-> s[kind]]
  /\ \A kind \in Kinds : IsList(s[kind]) /\ \A doc \in ToSet(s[kind]) : IsDocument(kind, doc)

(* The entries at some positions, as a set.                                 *)
LEMMA EntriesSet ==
  ASSUME NEW docs, IsList(docs), NEW I \in SUBSET DOMAIN docs
  PROVE  /\ IsList(Entries(docs, I))
         /\ ToSet(Entries(docs, I)) = {docs[i] : i \in I}
         /\ Distinct(docs) => Distinct(Entries(docs, I))
<1>1. PICK e : e = Entries(docs, I)
  OBVIOUS
<1>2. /\ \A k \in DOMAIN e : \E i \in I : e[k] = docs[i]
      /\ \A i \in I : \E k \in DOMAIN e : e[k] = docs[i]
  BY <1>1, EntriesAre
<1>3. ToSet(e) \subseteq {docs[i] : i \in I}
  BY <1>2 DEF ToSet
<1>4. {docs[i] : i \in I} \subseteq ToSet(e)
  BY <1>2 DEF ToSet
<1> QED
  BY <1>1, <1>3, <1>4, EntriesAre

(* What the scope keeps, kind by kind.                                      *)
LEMMA FilteredState ==
  ASSUME NEW s, Documents(s), NEW names, NEW f, f = filterStateToClusters(s, names)
  PROVE  /\ Documents(f)
         /\ f.environments = s.environments
         /\ \A kind \in Kinds : /\ ToSet(f[kind]) \subseteq ToSet(s[kind])
                                /\ Distinct(s[kind]) => Distinct(f[kind])
         /\ \A ocp : ocp \in ToSet(f.clusters) <=> ocp \in ToSet(s.clusters) /\ ocp.name \in names
         /\ \A ci : ci \in ToSet(f.infras) <=>
                       ci \in ToSet(s.infras) /\ \E ocp \in ToSet(f.clusters) : ocp.infra = ci.name
         /\ \A p : p \in ToSet(f.providers) <=>
                      p \in ToSet(s.providers) /\ \E ci \in ToSet(f.infras) : p.name \in ToSet(ci.providerRefs)
<1> DEFINE C == {i \in DOMAIN s.clusters : s.clusters[i].name \in names}
           I == {i \in DOMAIN s.infras : \E c \in C : s.clusters[c].infra = s.infras[i].name}
           P == {i \in DOMAIN s.providers :
                   \E c \in I : s.providers[i].name \in ToSet(s.infras[c].providerRefs)}
<1>1. f = [s EXCEPT !.clusters = Entries(@, C), !.infras = Entries(@, I), !.providers = Entries(@, P)]
  BY DEF filterStateToClusters
<1>c. C \in SUBSET DOMAIN s.clusters
  OBVIOUS
<1>i. I \in SUBSET DOMAIN s.infras
  OBVIOUS
<1>p. P \in SUBSET DOMAIN s.providers
  OBVIOUS
<1>2. IsList(s.clusters) /\ IsList(s.infras) /\ IsList(s.providers) /\ IsList(s.environments)
  BY DEF Documents, Kinds
<1>C. ToSet(Entries(s.clusters, C)) = {ocp \in ToSet(s.clusters) : ocp.name \in names}
  <2>1. ToSet(Entries(s.clusters, C)) = {s.clusters[i] : i \in C}
    <3> HIDE DEF C
    <3> QED
      BY <1>2, <1>c, EntriesSet
  <2> QED
    BY <2>1 DEF ToSet
<1>I. ToSet(Entries(s.infras, I)) = {s.infras[i] : i \in I}
  <2> HIDE DEF I
  <2> QED
    BY <1>2, <1>i, EntriesSet
<1>P. ToSet(Entries(s.providers, P)) = {s.providers[i] : i \in P}
  <2> HIDE DEF P
  <2> QED
    BY <1>2, <1>p, EntriesSet
<1>3. /\ f = [kind \in Kinds |-> f[kind]]
      /\ f.environments = s.environments
      /\ f.clusters = Entries(s.clusters, C)
      /\ f.infras = Entries(s.infras, I)
      /\ f.providers = Entries(s.providers, P)
  <2>1. DOMAIN s = Kinds
    BY DEF Documents
  <2> HIDE DEF C, I, P
  <2> QED
    BY <1>1, <2>1 DEF Kinds
<1>4. ToSet(f.infras) = {ci \in ToSet(s.infras) : \E ocp \in ToSet(f.clusters) : ocp.infra = ci.name}
  <2>1. PICK K : K = ToSet(f.clusters)
    OBVIOUS
  <2>2. K = {s.clusters[c] : c \in C}
    <3>1. ToSet(Entries(s.clusters, C)) = {s.clusters[c] : c \in C}
      <4> HIDE DEF C
      <4> QED
        BY <1>2, <1>c, EntriesSet
    <3> QED
      BY <2>1, <3>1, <1>3
  <2>3. I = {i \in DOMAIN s.infras : \E ocp \in K : ocp.infra = s.infras[i].name}
    <3> HIDE DEF C
    <3> QED
      BY <2>2
  <2>4. ToSet(s.infras) = {s.infras[i] : i \in DOMAIN s.infras}
    BY DEF ToSet
  <2> HIDE DEF C, I
  <2>5. {s.infras[i] : i \in I} = {ci \in ToSet(s.infras) : \E ocp \in K : ocp.infra = ci.name}
    BY <2>3, <2>4
  <2> QED
    BY <2>1, <2>5, <1>3, <1>I
<1>5. ToSet(f.providers) = {p \in ToSet(s.providers) : \E ci \in ToSet(f.infras) : p.name \in ToSet(ci.providerRefs)}
  <2>1. PICK K : K = ToSet(f.infras)
    OBVIOUS
  <2>2. K = {s.infras[i] : i \in I}
    BY <2>1, <1>3, <1>I
  <2>3. P = {i \in DOMAIN s.providers : \E ci \in K : s.providers[i].name \in ToSet(ci.providerRefs)}
    <3> HIDE DEF I
    <3> QED
      BY <2>2
  <2>4. ToSet(s.providers) = {s.providers[i] : i \in DOMAIN s.providers}
    BY DEF ToSet
  <2> HIDE DEF I, P
  <2>5. {s.providers[i] : i \in P} = {p \in ToSet(s.providers) : \E ci \in K : p.name \in ToSet(ci.providerRefs)}
    BY <2>3, <2>4
  <2> QED
    BY <2>1, <2>5, <1>3, <1>P
<1>6. ASSUME NEW kind \in Kinds
      PROVE  /\ IsList(f[kind])
             /\ ToSet(f[kind]) \subseteq ToSet(s[kind])
             /\ Distinct(s[kind]) => Distinct(f[kind])
  <2>1. CASE kind = "environments"
    BY <2>1, <1>2, <1>3
  <2>2. CASE kind = "clusters"
    <3> HIDE DEF C
    <3> QED
      BY <2>2, <1>2, <1>3, <1>c, <1>C, EntriesSet
  <2>3. CASE kind = "infras"
    <3> HIDE DEF I
    <3> QED
      BY <2>3, <1>2, <1>3, <1>i, <1>4, EntriesSet
  <2>4. CASE kind = "providers"
    <3> HIDE DEF P
    <3> QED
      BY <2>4, <1>2, <1>3, <1>p, <1>5, EntriesSet
  <2> QED
    BY <2>1, <2>2, <2>3, <2>4 DEF Kinds
<1>7. Documents(f)
  BY <1>3, <1>6 DEF Documents
<1>8. ToSet(f.clusters) = {ocp \in ToSet(s.clusters) : ocp.name \in names}
  <2> HIDE DEF C
  <2> QED
    BY <1>3, <1>C
<1>9. \A ocp : ocp \in ToSet(f.clusters) <=> ocp \in ToSet(s.clusters) /\ ocp.name \in names
  BY <1>8
<1>10. \A ci : ci \in ToSet(f.infras) <=>
                  ci \in ToSet(s.infras) /\ \E ocp \in ToSet(f.clusters) : ocp.infra = ci.name
  BY <1>4
<1>11. \A p : p \in ToSet(f.providers) <=>
                 p \in ToSet(s.providers) /\ \E ci \in ToSet(f.infras) : p.name \in ToSet(ci.providerRefs)
  BY <1>5
<1> HIDE DEF C, I, P
<1> QED
  BY <1>3, <1>6, <1>7, <1>9, <1>10, <1>11

(* The same of the scope, which may also be the whole state.                *)
LEMMA ScopedState ==
  ASSUME NEW s, Documents(s), NEW names, NEW f, f = scopeState(s, names)
  PROVE  /\ Documents(f)
         /\ f.environments = s.environments
         /\ \A kind \in Kinds : /\ ToSet(f[kind]) \subseteq ToSet(s[kind])
                                /\ Distinct(s[kind]) => Distinct(f[kind])
         /\ \A ci \in ToSet(s.infras) :
              (\E ocp \in ToSet(f.clusters) : ocp.infra = ci.name) => ci \in ToSet(f.infras)
         /\ \A p \in ToSet(s.providers) :
              (\E ci \in ToSet(f.infras) : p.name \in ToSet(ci.providerRefs)) => p \in ToSet(f.providers)
<1>1. CASE names = {}
  <2>1. f = s
    BY <1>1 DEF scopeState
  <2> QED
    BY <2>1 DEF Kinds
<1>2. CASE names # {}
  <2>1. f = filterStateToClusters(s, names)
    BY <1>2 DEF scopeState
  <2>2. /\ Documents(f)
        /\ f.environments = s.environments
        /\ \A kind \in Kinds : /\ ToSet(f[kind]) \subseteq ToSet(s[kind])
                               /\ Distinct(s[kind]) => Distinct(f[kind])
    BY <2>1, FilteredState
  <2>3. \A ci : ci \in ToSet(f.infras) <=>
                  ci \in ToSet(s.infras) /\ \E ocp \in ToSet(f.clusters) : ocp.infra = ci.name
    BY <2>1, FilteredState
  <2>4. \A p : p \in ToSet(f.providers) <=>
                 p \in ToSet(s.providers) /\ \E ci \in ToSet(f.infras) : p.name \in ToSet(ci.providerRefs)
    BY <2>1, FilteredState
  <2> QED
    BY <2>2, <2>3, <2>4
<1> QED
  BY <1>1, <1>2

(* Of documents whose names differ, each is found under its name.           *)
LEMMA FoundByName ==
  ASSUME NEW docs, IsList(docs), Distinct(docs), NEW doc \in ToSet(docs)
  PROVE  /\ doc.name \in DOMAIN IndexOf(docs)
         /\ IndexOf(docs)[doc.name] = doc
         /\ \E i \in DOMAIN docs : /\ docs[i] = doc /\ i # 0
                                   /\ \A j \in DOMAIN docs : docs[j].name = doc.name <=> j = i
                                   /\ Min({i}) = i /\ Max({i}) = i
<1>1. PICK i \in DOMAIN docs : docs[i] = doc
  BY DEF ToSet
<1>2. \A j \in DOMAIN docs : docs[j].name = doc.name <=> j = i
  BY <1>1 DEF Distinct
<1>3. i \in Nat /\ i # 0
  <2>1. Len(docs) \in Nat /\ i \in 1..Len(docs)
    BY ListEntries
  <2> QED
    BY <2>1
<1>4. Min({i}) = i /\ Max({i}) = i
  BY <1>3 DEF Min, Max
<1> QED
  BY <1>1, <1>2, <1>3, <1>4, IndexedByName

(* The infrastructure of a cluster.                                         *)
LEMMA InfraFound ==
  ASSUME NEW s, IsList(s.infras), Distinct(s.infras), NEW ci \in ToSet(s.infras)
  PROVE  \A ocp : ocp.infra = ci.name => infraOf(s, ocp) = {ci}
<1>1. PICK i \in DOMAIN s.infras :
         /\ s.infras[i] = ci /\ i # 0 /\ Min({i}) = i
         /\ \A j \in DOMAIN s.infras : s.infras[j].name = ci.name <=> j = i
  BY ZenonT(60), FoundByName
<1>2. clusterInfraByName(s, ci.name) = i
  <2>1. {j \in DOMAIN s.infras : s.infras[j].name = ci.name} = {i} /\ {i} # {}
    BY <1>1
  <2> QED
    BY <2>1, <1>1 DEF clusterInfraByName
<1>3. {s.infras[j] : j \in {clusterInfraByName(s, ci.name)} \ {0}} = {s.infras[i]}
  BY <1>1, <1>2
<1> QED
  BY <1>1, <1>3 DEF infraOf

(* A cluster by its name.                                                   *)
LEMMA ClusterFound ==
  ASSUME NEW s, IsList(s.clusters), Distinct(s.clusters), NEW ocp \in ToSet(s.clusters)
  PROVE  ClusterNamed(s, ocp.name) = ocp
<1>1. PICK i \in DOMAIN s.clusters :
         /\ s.clusters[i] = ocp /\ Min({i}) = i
         /\ \A j \in DOMAIN s.clusters : s.clusters[j].name = ocp.name <=> j = i
  BY ZenonT(60), FoundByName
<1>2. {j \in DOMAIN s.clusters : s.clusters[j].name = ocp.name} = {i}
  BY <1>1
<1> QED
  BY <1>1, <1>2 DEF ClusterNamed

(* The providers of an infrastructure that is kept are kept: it has the     *)
(* closure it has in the whole state.                                       *)
LEMMA ScopedInfra ==
  ASSUME NEW s, Documents(s), Validate(s), NEW names, NEW f, f = scopeState(s, names),
         NEW ci \in ToSet(f.infras)
  PROVE  /\ ci \in ToSet(s.infras)
         /\ ClosureBuilds(ci, IndexOf(s.providers)) /\ ClosureBuilds(ci, IndexOf(f.providers))
         /\ \A cap : SupplierOf(ci, IndexOf(f.providers), cap) = SupplierOf(ci, IndexOf(s.providers), cap)
         /\ closureProvider(ci, IndexOf(f.providers)) = closureProvider(ci, IndexOf(s.providers))
<1> DEFINE all == IndexOf(s.providers)
           kept == IndexOf(f.providers)
<1>1. /\ Documents(f)
      /\ ci \in ToSet(s.infras)
      /\ ToSet(f.providers) \subseteq ToSet(s.providers)
      /\ \A p \in ToSet(s.providers) :
           (\E c \in ToSet(f.infras) : p.name \in ToSet(c.providerRefs)) => p \in ToSet(f.providers)
      /\ Distinct(s.providers) => Distinct(f.providers)
  BY ScopedState DEF Kinds
<1>2. Distinct(s.providers)
  BY DEF Validate, validateProviders
<1>3. IsList(s.providers) /\ IsList(f.providers) /\ IsList(ci.providerRefs)
  BY <1>1 DEF Documents, Kinds, IsDocument
<1>4. ClosureBuilds(ci, all)
  BY <1>1 DEF Validate, validateClusterInfrastructures
<1>5. ASSUME NEW i \in DOMAIN ci.providerRefs
      PROVE  /\ ci.providerRefs[i] \in DOMAIN all
             /\ ci.providerRefs[i] \in DOMAIN kept
             /\ kept[ci.providerRefs[i]] = all[ci.providerRefs[i]]
  <2>1. ci.providerRefs[i] \in DOMAIN all
    BY <1>4 DEF ClosureBuilds, Resolved
  <2>2. PICK p \in ToSet(s.providers) : p.name = ci.providerRefs[i]
    BY <2>1, <1>2, <1>3, IndexedByName DEF ToSet
  <2>3. p \in ToSet(f.providers)
    BY <1>1, <2>2 DEF ToSet
  <2>4. all[p.name] = p /\ p.name \in DOMAIN kept /\ kept[p.name] = p
    BY <1>1, <1>2, <1>3, <2>3, FoundByName
  <2> QED
    BY <2>1, <2>2, <2>4
<1> HIDE DEF all, kept
<1>6. /\ ClosureBuilds(ci, kept) <=> ClosureBuilds(ci, all)
      /\ \A cap : SupplierOf(ci, kept, cap) = SupplierOf(ci, all, cap)
      /\ closureProvider(ci, kept) = closureProvider(ci, all)
  BY <1>3, <1>5, SameClosure
<1> QED
  BY <1>1, <1>4, <1>6 DEF all, kept

(* The infrastructure of a valid cluster has a supplier of machines.        *)
LEMMA MachinesSupplied ==
  ASSUME NEW s, Documents(s), Validate(s), NEW ocp \in ToSet(s.clusters)
  PROVE  \E ci \in ToSet(s.infras) : /\ ci.name = ocp.infra
                                     /\ SupplierOf(ci, IndexOf(s.providers), "machine") # 0
<1>1. /\ Distinct(s.infras) /\ IsList(s.infras)
      /\ ocp.infra \in DOMAIN IndexOf(s.infras)
      /\ validateNodes(ocp, IndexOf(s.infras)[ocp.infra])
  BY DEF Validate, validateClusterInfrastructures, validateOCPClusters, Documents, Kinds
<1>2. PICK i \in DOMAIN s.infras : s.infras[i].name = ocp.infra
  BY <1>1, IndexedByName
<1>3. PICK ci : ci = s.infras[i]
  OBVIOUS
<1>4. ci \in ToSet(s.infras) /\ ci.name = ocp.infra /\ IndexOf(s.infras)[ocp.infra] = ci
  BY <1>1, <1>2, <1>3, IndexedByName DEF ToSet
<1>5. PICK p : p = closureProvider(ci, IndexOf(s.providers))
  OBVIOUS
<1>6. validateMachines(ci, p)
  BY <1>4, <1>5 DEF Validate, validateClusterInfrastructures
<1>7. PICK m : m \in DOMAIN ci.machines
  BY <1>1, <1>4 DEF validateNodes
<1>8. PICK kinds : /\ kinds = {k \in {"libvirt", "baremetal", "vsphere"} : ci.machines[m][k] # {}}
                   /\ Cardinality(kinds) = 1
                   /\ kinds \subseteq {MachineFlavor(p)}
  BY <1>6, <1>7 DEF validateMachines
<1>9. kinds # {}
  BY <1>8, FS_EmptySet
<1>10. MachineFlavor(p) # ""
  BY <1>8, <1>9
<1>11. p.machine # {}
  BY <1>10 DEF MachineFlavor
<1>12. p.machine = UNION {IndexOf(s.providers)[r]["machine"] : r \in {SupplierOf(ci, IndexOf(s.providers), "machine")} \ {0}}
  BY <1>5 DEF closureProvider
<1>13. SupplierOf(ci, IndexOf(s.providers), "machine") # 0
  BY <1>11, <1>12
<1> QED
  BY <1>4, <1>13

(* What the scope and the whole state agree on, of one cluster.             *)
KeptWhole(s, f, ocp, ci, closure) ==
  /\ ocp \in ToSet(s.clusters)
  /\ ClusterNamed(f, ocp.name) = ocp /\ ClusterNamed(s, ocp.name) = ocp
  /\ ci \in ToSet(f.infras) /\ ci \in ToSet(s.infras) /\ ci.name = ocp.infra
  /\ infraOf(f, ocp) = {ci} /\ infraOf(s, ocp) = {ci}
  /\ ClosureOf(f, ci) = closure /\ ClosureOf(s, ci) = closure
  /\ providerForInfrastructure(f, ci) = {closure}
  /\ providerForInfrastructure(s, ci) = {closure}

(* A cluster of the scope is the one of its name, its infrastructure is the *)
(* one it has in the whole state, and it is rendered with the same closure. *)
LEMMA ScopedCluster ==
  ASSUME NEW s, Documents(s), Validate(s), NEW names, NEW f, f = scopeState(s, names),
         NEW ocp \in ToSet(f.clusters)
  PROVE  \E ci, closure : KeptWhole(s, f, ocp, ci, closure)
<1>1. /\ Documents(f)
      /\ ToSet(f.clusters) \subseteq ToSet(s.clusters)
      /\ Distinct(s.clusters) => Distinct(f.clusters)
      /\ Distinct(s.infras) => Distinct(f.infras)
  BY ScopedState DEF Kinds
<1>a. \A ci \in ToSet(s.infras) :
        (\E c \in ToSet(f.clusters) : c.infra = ci.name) => ci \in ToSet(f.infras)
  BY ScopedState
<1>2. Distinct(s.infras) /\ Distinct(s.clusters)
  BY DEF Validate, validateClusterInfrastructures, validateOCPClusters
<1>3. IsList(s.infras) /\ IsList(s.clusters) /\ IsList(f.infras) /\ IsList(f.clusters)
  BY <1>1 DEF Documents, Kinds
<1>4. ClusterNamed(f, ocp.name) = ocp /\ ClusterNamed(s, ocp.name) = ocp
  BY <1>1, <1>2, <1>3, ClusterFound
<1>5. PICK ci \in ToSet(s.infras) : /\ ci.name = ocp.infra
                                    /\ SupplierOf(ci, IndexOf(s.providers), "machine") # 0
  BY <1>1, MachinesSupplied
<1>6. ci \in ToSet(f.infras)
  BY <1>a, <1>5
<1>7. infraOf(f, ocp) = {ci} /\ infraOf(s, ocp) = {ci}
  BY <1>1, <1>2, <1>3, <1>5, <1>6, InfraFound
<1>8. PICK closure : closure = closureProvider(ci, IndexOf(s.providers))
  OBVIOUS
<1>9. /\ ClosureBuilds(ci, IndexOf(s.providers)) /\ ClosureBuilds(ci, IndexOf(f.providers))
      /\ SupplierOf(ci, IndexOf(f.providers), "machine") # 0
      /\ closureProvider(ci, IndexOf(f.providers)) = closure
  BY <1>5, <1>6, <1>8, ScopedInfra
<1>10. /\ ClosureOf(f, ci) = closure /\ ClosureOf(s, ci) = closure
       /\ providerForInfrastructure(f, ci) = {closure}
       /\ providerForInfrastructure(s, ci) = {closure}
  BY <1>5, <1>8, <1>9 DEF ClosureOf, providerForInfrastructure
<1>11. KeptWhole(s, f, ocp, ci, closure)
  BY <1>1, <1>4, <1>5, <1>6, <1>7, <1>10 DEF KeptWhole
<1> QED
  BY <1>11

--------------------------------------------------------------------------------
(* The inductive invariant.                                                 *)

ConfigFiles == {"install-config", "agent-config"}

(* The files not read yet are documents, or of no kind at all.              *)
Readable(list) ==
  IsList(list) /\ \A file \in ToSet(list) : file[1] \in Kinds => IsDocument(file[1], file[2])

(* A file that is written is what the documents and the scope make of it.   *)
FromDocuments(path, content) ==
  \/ path \in {<<"effective-state">>, <<"lock">>, <<"inventory">>}
  \/ path = <<"vars">> /\ content = Vars(Scoped)
  \/ \E name \in ClusterNames(Scoped), file \in ConfigFiles :
        \/ path = <<"bootstrap", name, file>> /\ content = RenderedContent(path)
        \/ path = <<"runtime", name, file>> /\ content = ResolvedContent(path)
        \/ path = <<"installer", name, file>>

(* Nothing is written before the documents are valid and the scope is       *)
(* chosen, and neither changes from then on.                                *)
Writing == phase \in {"render", "resolve", "role"} \/ DOMAIN files # {}

(* The variables are written before the configs of any cluster.             *)
VarsFirst ==
  /\ phase = "render" /\ at > 4 => <<"vars">> \in DOMAIN files
  /\ \A path \in DOMAIN files : path[1] = "bootstrap" => <<"vars">> \in DOMAIN files

IInv ==
  /\ Documents(state)
  /\ Readable(input)
  /\ at \in Nat \ {0}
  /\ phase \in {"load", "suppliers", "infras", "clusters", "scope"} => DOMAIN files = {}
  /\ phase = "scope" \/ Writing => Validate(state)
  /\ \A path \in DOMAIN files : FromDocuments(path, files[path])
  /\ VarsFirst
  /\ ValidRenders

--------------------------------------------------------------------------------
(* The paths a command writes.                                              *)

(* The two files of each cluster.                                           *)
LEMMA ClusterPaths ==
  ASSUME NEW s, IsList(s.clusters), NEW top
  PROVE  /\ IsList(ClusterFiles(top, s))
         /\ \A i \in DOMAIN ClusterFiles(top, s) :
               \E name \in ClusterNames(s), file \in ConfigFiles :
                  ClusterFiles(top, s)[i] = <<top, name, file>>
<1> DEFINE n == Len(s.clusters)
           path(i) == <<top, s.clusters[(i + 1) \div 2].name,
                        IF i % 2 = 1 THEN "install-config" ELSE "agent-config">>
<1>1. n \in Nat /\ DOMAIN s.clusters = 1..n
  BY ListEntries
<1>2. ClusterFiles(top, s) = [i \in 1..(2 * n) |-> path(i)]
  BY DEF ClusterFiles
<1>3. ASSUME NEW i \in 1..(2 * n)
      PROVE  \E name \in ClusterNames(s), file \in ConfigFiles : path(i) = <<top, name, file>>
  <2>1. (i + 1) \div 2 \in 1..n
    BY <1>1
  <2>2. s.clusters[(i + 1) \div 2].name \in ClusterNames(s)
    BY <1>1, <2>1 DEF ClusterNames, ToSet
  <2> QED
    BY <2>2 DEF ConfigFiles
<1>4. PICK paths : paths = ClusterFiles(top, s)
  OBVIOUS
<1> HIDE DEF path, n
<1>5. paths = [i \in 1..(2 * n) |-> paths[i]] /\ 2 * n \in Nat
  BY <1>1, <1>2, <1>4
<1>6. IsList(paths)
  BY <1>5, IsListOf
<1> QED
  BY <1>2, <1>3, <1>4, <1>6

(* A path written by render is one of the state's four, or one of the two   *)
(* of a cluster in the scope.                                               *)
LEMMA RenderedPaths ==
  ASSUME IsList(Scoped.clusters), at \in Nat \ {0}, at <= Len(Rendered)
  PROVE  \/ /\ at <= 4 /\ Rendered[at] \in {<<"effective-state">>, <<"lock">>, <<"inventory">>, <<"vars">>}
            /\ at = 4 => Rendered[at] = <<"vars">>
         \/ at > 4 /\ \E name \in ClusterNames(Scoped), file \in ConfigFiles : Rendered[at] = <<"bootstrap", name, file>>
<1>1. PICK own : own = <<<<"effective-state">>, <<"lock">>, <<"inventory">>, <<"vars">>>>
  OBVIOUS
<1>2. PICK paths : paths = ClusterFiles("bootstrap", Scoped)
  OBVIOUS
<1>3. /\ IsList(paths)
      /\ \A i \in DOMAIN paths : \E name \in ClusterNames(Scoped), file \in ConfigFiles :
                                    paths[i] = <<"bootstrap", name, file>>
  BY <1>2, ClusterPaths
<1>4. Rendered = own \o paths
  BY <1>1, <1>2 DEF Rendered
<1>5. /\ Len(own) = 4 /\ own[4] = <<"vars">>
      /\ \A i \in 1..4 : own[i] \in {<<"effective-state">>, <<"lock">>, <<"inventory">>, <<"vars">>}
  BY <1>1
<1>6. PICK All : own \in Seq(All) /\ paths \in Seq(All)
  <2> DEFINE All == {<<"effective-state">>, <<"lock">>, <<"inventory">>, <<"vars">>} \cup ToSet(paths)
  <2>1. /\ <<"effective-state">> \in All /\ <<"lock">> \in All /\ <<"inventory">> \in All /\ <<"vars">> \in All
        /\ ToSet(paths) \subseteq All
    OBVIOUS
  <2> HIDE DEF All
  <2>2. own \in Seq(All)
    BY <1>1, <2>1
  <2>3. paths = [i \in 1..Len(paths) |-> paths[i]] /\ Len(paths) \in Nat
    BY <1>3, ListEntries
  <2>4. \A i \in 1..Len(paths) : paths[i] \in All
    BY <2>1, <2>3 DEF ToSet
  <2>5. [i \in 1..Len(paths) |-> paths[i]] \in Seq(All)
    BY <2>3, <2>4
  <2> QED
    BY <2>2, <2>3, <2>5
<1>7. PICK both : /\ both = Rendered
                  /\ Len(both) = Len(own) + Len(paths)
                  /\ \A i \in 1..Len(own) + Len(paths) :
                        both[i] = IF i <= Len(own) THEN own[i] ELSE paths[i - Len(own)]
  <2>1. /\ Len(own \o paths) = Len(own) + Len(paths)
        /\ \A i \in 1..Len(own) + Len(paths) :
              (own \o paths)[i] = IF i <= Len(own) THEN own[i] ELSE paths[i - Len(own)]
    BY <1>6, ConcatProperties
  <2> QED
    BY <2>1, <1>4
<1>8. Len(paths) \in Nat /\ DOMAIN paths = 1..Len(paths)
  <2>1. IsList(paths)
    BY <1>3
  <2> QED
    BY <2>1, ListEntries
<1>9. CASE at <= 4
  <2>1. at \in 1..4 /\ at \in 1..Len(own) + Len(paths)
    BY <1>5, <1>8, <1>9
  <2>2. both[at] = own[at]
    BY <1>5, <1>7, <1>9, <2>1
  <2> QED
    BY <2>1, <2>2, <1>5, <1>7, <1>9
<1>10. CASE at > 4
  <2>1. at \in 1..Len(own) + Len(paths) /\ at - 4 \in DOMAIN paths
    BY <1>5, <1>7, <1>8, <1>10
  <2>2. both[at] = paths[at - 4]
    BY <1>5, <1>7, <1>10, <2>1
  <2> QED
    BY <2>1, <2>2, <1>3, <1>7, <1>10
<1> QED
  BY <1>9, <1>10

(* A path written by render installer is one of the two of a cluster.       *)
LEMMA ResolvedPaths ==
  ASSUME IsList(Scoped.clusters), at \in Nat \ {0}, at <= Len(Resolving)
  PROVE  \E name \in ClusterNames(Scoped), file \in ConfigFiles : Resolving[at] = <<"runtime", name, file>>
<1>1. PICK paths : paths = ClusterFiles("runtime", Scoped)
  OBVIOUS
<1>2. /\ IsList(paths)
      /\ \A i \in DOMAIN paths : \E name \in ClusterNames(Scoped), file \in ConfigFiles :
                                    paths[i] = <<"runtime", name, file>>
  BY <1>1, ClusterPaths
<1>3. at \in DOMAIN paths
  BY <1>1, <1>2, ListEntries DEF Resolving
<1> QED
  BY <1>1, <1>2, <1>3 DEF Resolving

--------------------------------------------------------------------------------
(* The documents stay documents.                                            *)

(* Sorting by name loses no document and adds none.                         *)
LEMMA SortedDocuments ==
  ASSUME NEW docs, IsList(docs), \A doc \in ToSet(docs) : doc.name \in Nat
  PROVE  IsList(sortByName(docs)) /\ ToSet(sortByName(docs)) \subseteq ToSet(docs)
<1> DEFINE S == DOMAIN docs
           upTo(i) == {j \in S : docs[j].name < docs[i].name \/ (docs[j].name = docs[i].name /\ j <= i)}
           up == [i \in S |-> upTo(i)]
           n == Len(docs)
<1>1. n \in Nat /\ S = 1..n /\ IsFiniteSet(S)
  BY ListEntries
<1>2. \A i \in S : docs[i].name \in Nat /\ i \in Nat
  BY <1>1 DEF ToSet
<1>3. up \in [S -> SUBSET S]
  OBVIOUS
<1>4. \A i \in S : i \in up[i]
  BY <1>2
<1>5. \A x, y \in S :
        x # y => \/ up[x] \subseteq up[y] /\ y \notin up[x]
                 \/ up[y] \subseteq up[x] /\ x \notin up[y]
  <2> TAKE x, y \in S
  <2> HAVE x # y
  <2>1. up[x] = upTo(x) /\ up[y] = upTo(y)
    OBVIOUS
  <2>2. CASE docs[x].name < docs[y].name \/ (docs[x].name = docs[y].name /\ x < y)
    <3>1. upTo(x) \subseteq upTo(y) /\ y \notin upTo(x)
      BY <1>2, <2>2
    <3> QED
      BY <2>1, <3>1
  <2>3. CASE docs[y].name < docs[x].name \/ (docs[x].name = docs[y].name /\ y < x)
    <3>1. upTo(y) \subseteq upTo(x) /\ x \notin upTo(y)
      BY <1>2, <2>3
    <3> QED
      BY <2>1, <3>1
  <2>4. \/ docs[x].name < docs[y].name \/ (docs[x].name = docs[y].name /\ x < y)
        \/ docs[y].name < docs[x].name \/ (docs[x].name = docs[y].name /\ y < x)
    BY <1>2
  <2> QED
    BY <2>2, <2>3, <2>4
<1>6. \A k \in 1..Cardinality(S) : \E i \in S : Cardinality(up[i]) = k
  <2> HIDE DEF up, S
  <2> QED
    BY <1>1, <1>3, <1>4, <1>5, Ranks
<1>7. Cardinality(S) = n
  <2>1. Cardinality(1..n) = n
    <3>1. \A k \in Nat : Cardinality(1..k) = k
      BY FS_Interval
    <3> QED
      BY <1>1, <3>1
  <2> HIDE DEF S
  <2> QED
    BY <1>1, <2>1
<1>8. \A k \in S : \E i \in S : Cardinality(upTo(i)) = k
  BY <1>1, <1>6, <1>7
<1>9. PICK sorted : sorted = sortByName(docs)
  OBVIOUS
<1>10. sorted = [k \in S |-> docs[CHOOSE i \in S : Cardinality(upTo(i)) = k]]
  BY <1>9 DEF sortByName
<1> HIDE DEF upTo, up
<1>11. ASSUME NEW k \in S PROVE sorted[k] \in ToSet(docs)
  <2>1. (CHOOSE i \in S : Cardinality(upTo(i)) = k) \in S
    BY <1>8
  <2> QED
    BY <1>10, <2>1 DEF ToSet
<1>12. sorted = [k \in 1..n |-> sorted[k]]
  BY <1>1, <1>10
<1>13. IsList(sorted)
  BY <1>1, <1>12, IsListOf
<1>14. ToSet(sorted) \subseteq ToSet(docs)
  <2>1. DOMAIN sorted = S
    BY <1>10
  <2> QED
    BY <2>1, <1>11 DEF ToSet
<1> QED
  BY <1>9, <1>13, <1>14

(* A list of documents, each replaced by one of its kind.                   *)
LEMMA ReplacedDocuments ==
  ASSUME NEW kind, NEW docs, IsList(docs), NEW new, new = [i \in DOMAIN docs |-> new[i]],
         \A i \in DOMAIN docs : IsDocument(kind, new[i])
  PROVE  IsList(new) /\ \A doc \in ToSet(new) : IsDocument(kind, doc)
<1>1. Len(docs) \in Nat /\ DOMAIN docs = 1..Len(docs)
  BY ListEntries
<1>2. new = [i \in 1..Len(docs) |-> new[i]]
  BY <1>1
<1>3. IsList(new)
  BY <1>1, <1>2, IsListOf
<1>4. DOMAIN new = DOMAIN docs
  OBVIOUS
<1> QED
  BY <1>3, <1>4 DEF ToSet

(* The states the loader fills are documents.                               *)
LEMMA LoadedDocuments ==
  ASSUME Documents(state), NEW kind \in Kinds, NEW doc, IsDocument(kind, doc),
         state' = [state EXCEPT ![kind] = Append(@, doc)]
  PROVE  Documents(state')
<1>1. PICK s : s = state
  OBVIOUS
<1>2. PICK t : t = state'
  OBVIOUS
<1>3. DOMAIN s = Kinds /\ \A k \in Kinds : IsList(s[k]) /\ \A d \in ToSet(s[k]) : IsDocument(k, d)
  BY <1>1 DEF Documents
<1>4. t = [k \in Kinds |-> t[k]] /\ t[kind] = Append(s[kind], doc) /\ \A k \in Kinds \ {kind} : t[k] = s[k]
  BY <1>1, <1>2, <1>3
<1>5. IsList(t[kind]) /\ \A d \in ToSet(t[kind]) : IsDocument(kind, d)
  <2>1. PICK old : old = s[kind]
    OBVIOUS
  <2>2. PICK n \in Nat : n = Len(old) /\ DOMAIN old = 1..n /\ old = [i \in 1..n |-> old[i]]
    BY <2>1, <1>3, ListEntries
  <2>3. old \in Seq(ToSet(old) \cup {doc})
    <3>1. \A i \in 1..n : old[i] \in ToSet(old) \cup {doc}
      BY <2>2 DEF ToSet
    <3>2. [i \in 1..n |-> old[i]] \in Seq(ToSet(old) \cup {doc})
      <4> HIDE DEF ToSet
      <4> QED
        BY <3>1
    <3> QED
      BY <3>2, <2>2
  <2>4. /\ DOMAIN Append(old, doc) = 1..(n + 1)
        /\ Append(old, doc) = [i \in 1..(n + 1) |-> Append(old, doc)[i]]
        /\ \A i \in 1..n : Append(old, doc)[i] = old[i]
        /\ Append(old, doc)[n + 1] = doc
    BY <2>2, <2>3
  <2>5. \A i \in 1..n : IsDocument(kind, old[i])
    BY <2>1, <2>2, <1>3 DEF ToSet
  <2>6. \A i \in 1..(n + 1) : IsDocument(kind, Append(old, doc)[i])
    <3> TAKE i \in 1..(n + 1)
    <3>1. i \in 1..n \/ i = n + 1
      OBVIOUS
    <3> QED
      BY <3>1, <2>4, <2>5
  <2>7. PICK new : new = Append(old, doc)
    OBVIOUS
  <2>8. IsList(new)
    <3>1. new = [i \in 1..(n + 1) |-> new[i]] /\ n + 1 \in Nat
      BY <2>4, <2>7
    <3> QED
      BY <3>1, IsListOf
  <2>9. \A d \in ToSet(new) : IsDocument(kind, d)
    BY <2>4, <2>6, <2>7 DEF ToSet
  <2> QED
    BY <2>1, <2>7, <2>8, <2>9, <1>4
<1>6. \A k \in Kinds : IsList(t[k]) /\ \A d \in ToSet(t[k]) : IsDocument(k, d)
  BY <1>3, <1>4, <1>5
<1> QED
  BY <1>2, <1>4, <1>6 DEF Documents

(* Sorting.                                                                 *)
LEMMA SortedState ==
  ASSUME NEW s, Documents(s)
  PROVE  Documents(sortState(s))
<1>1. PICK t : t = sortState(s)
  OBVIOUS
<1>2. t = [kind \in Kinds |-> sortByName(s[kind])]
  BY <1>1 DEF sortState
<1>3. ASSUME NEW kind \in Kinds
      PROVE  IsList(t[kind]) /\ \A doc \in ToSet(t[kind]) : IsDocument(kind, doc)
  <2>1. PICK docs : docs = s[kind]
    OBVIOUS
  <2>2. IsList(docs) /\ \A doc \in ToSet(docs) : IsDocument(kind, doc)
    BY <2>1 DEF Documents
  <2>3. \A doc \in ToSet(docs) : doc.name \in Nat
    BY <2>2 DEF IsDocument
  <2>4. IsList(sortByName(docs)) /\ ToSet(sortByName(docs)) \subseteq ToSet(docs)
    BY <2>2, <2>3, SortedDocuments
  <2> QED
    BY <1>2, <2>1, <2>2, <2>4
<1>4. t = [kind \in Kinds |-> t[kind]]
  BY <1>2
<1> QED
  BY <1>1, <1>3, <1>4 DEF Documents

--------------------------------------------------------------------------------
(* What is normalized is settled: normalizing it again changes nothing.     *)

IsMap(f) == f = [x \in DOMAIN f |-> f[x]]

(* A field that is given the value it has.                                  *)
LEMMA SameField ==
  ASSUME NEW f, IsMap(f), NEW x, NEW v, x \in DOMAIN f => f[x] = v
  PROVE  [f EXCEPT ![x] = v] = f
<1>1. \A y \in DOMAIN f : [f EXCEPT ![x] = v][y] = f[y]
  OBVIOUS
<1>2. [f EXCEPT ![x] = v] = [y \in DOMAIN f |-> [f EXCEPT ![x] = v][y]]
  OBVIOUS
<1> QED
  BY <1>1, <1>2 DEF IsMap

(* A default that is filled in is there the next time.                      *)
LEMMA DefaultSettles ==
  \A v, zero, d : Default(Default(v, zero, d), zero, d) = Default(v, zero, d)
  BY DEF Default

(* An environment.                                                          *)
LEMMA EnvironmentSettles ==
  ASSUME NEW env, DOMAIN env = DOMAIN EmptyEnvironment
  PROVE  defaultEnvironmentSecrets(defaultEnvironmentSecrets(env)) = defaultEnvironmentSecrets(env)
<1> DEFINE Day(v) == Default(v, 0, 3650)
           Days(S) == {Day(days) : days \in S}
           Name(v) == Default(v, "", "admin")
           Names(S) == {Name(u) : u \in S}
           One(g) == [cert |-> Days(g.cert), user |-> Names(g.user)]
           Filled(S) == {One(g) : g \in S}
           Secret(s) == [s EXCEPT !.generated = Filled(s.generated)]
           Map(m) == [n \in DOMAIN m |-> Secret(m[n])]
<1>1. \A e : defaultEnvironmentSecrets(e) = [e EXCEPT !.secrets = Map(e.secrets)]
  BY DEF defaultEnvironmentSecrets
<1>2. \A g : One(One(g)) = One(g)
  <2>1. \A v : Day(Day(v)) = Day(v)
    BY DefaultSettles
  <2>2. \A v : Name(Name(v)) = Name(v)
    BY DefaultSettles
  <2> HIDE DEF Day, Name
  <2>3. \A S : Days(Days(S)) = Days(S) /\ Names(Names(S)) = Names(S)
    BY <2>1, <2>2
  <2> HIDE DEF Days, Names
  <2> QED
    BY <2>3
<1> HIDE DEF One
<1>3. \A S : Filled(Filled(S)) = Filled(S)
  BY <1>2
<1> HIDE DEF Filled
<1>4. \A s : Secret(Secret(s)) = Secret(s)
  <2> TAKE s
  <2>1. PICK t : t = Secret(s)
    OBVIOUS
  <2>2. IsMap(t) /\ ("generated" \in DOMAIN t => t.generated = Filled(t.generated))
    BY <1>3, <2>1 DEF IsMap
  <2>3. Secret(t) = t
    BY <2>2, SameField
  <2> QED
    BY <2>1, <2>3
<1> HIDE DEF Secret
<1>5. \A m : Map(Map(m)) = Map(m)
  BY <1>4
<1> HIDE DEF Map
<1>6. PICK new : new = defaultEnvironmentSecrets(env)
  OBVIOUS
<1>7. IsMap(new) /\ new.secrets = Map(env.secrets)
  <2>1. "secrets" \in DOMAIN env
    BY DEF EmptyEnvironment
  <2> QED
    BY <1>1, <1>6, <2>1 DEF IsMap
<1>8. [new EXCEPT !.secrets = Map(new.secrets)] = new
  BY <1>5, <1>7, SameField
<1> QED
  BY <1>1, <1>6, <1>8

(* A provider.                                                              *)
LEMMA ProviderSettles ==
  ASSUME NEW p, DOMAIN p = DOMAIN EmptyProvider, NEW u
  PROVE  normalizeProvider(normalizeProvider(p, u), u) = normalizeProvider(p, u)
<1> DEFINE Access(a) == [a EXCEPT !.user = Default(a.user, "", u)]
           Ssh(S) == {Access(a) : a \in S}
           Host(h) == [h EXCEPT !.ssh = Ssh(h.ssh)]
           Hosts(m) == [h \in DOMAIN m |-> Host(m[h])]
           BMC(S) == {normalizeBMC(b) : b \in S}
           Libvirt(l) == [l EXCEPT !.bmc = BMC(l.bmc)]
           Libvirts(S) == {Libvirt(l) : l \in S}
           Machine(m) == [m EXCEPT !.libvirt = Libvirts(m.libvirt)]
           Machines(S) == {Machine(m) : m \in S}
           Number(n) == Default(n, 0, 3128)
           Port(q) == [q EXCEPT !.port = Number(q.port)]
           Squid(S) == {Port(q) : q \in S}
           Proxy(S) == {Squid(squid) : squid \in S}
<1>1. \A q : normalizeProvider(q, u) =
         [q EXCEPT !.hosts = Hosts(q.hosts), !.machine = Machines(q.machine), !.proxy = Proxy(q.proxy)]
  BY DEF normalizeProvider
<1>2. \A a : Access(Access(a)) = Access(a)
  <2> TAKE a
  <2>1. PICK b : b = Access(a)
    OBVIOUS
  <2>2. IsMap(b) /\ ("user" \in DOMAIN b => b.user = Default(a.user, "", u))
    BY <2>1 DEF IsMap
  <2>3. "user" \in DOMAIN b => b.user = Default(b.user, "", u)
    BY <2>2, DefaultSettles
  <2>4. Access(b) = b
    BY <2>2, <2>3, SameField
  <2> QED
    BY <2>1, <2>4
<1> HIDE DEF Access
<1>3. \A S : Ssh(Ssh(S)) = Ssh(S)
  BY <1>2
<1> HIDE DEF Ssh
<1>4. \A h : Host(Host(h)) = Host(h)
  <2> TAKE h
  <2>1. PICK g : g = Host(h)
    OBVIOUS
  <2>2. IsMap(g) /\ ("ssh" \in DOMAIN g => g.ssh = Ssh(g.ssh))
    BY <1>3, <2>1 DEF IsMap
  <2>3. Host(g) = g
    BY <2>2, SameField
  <2> QED
    BY <2>1, <2>3
<1> HIDE DEF Host
<1>5. \A m : Hosts(Hosts(m)) = Hosts(m)
  BY <1>4
<1> HIDE DEF Hosts
<1>6. \A b : normalizeBMC(normalizeBMC(b)) = normalizeBMC(b)
  <2> DEFINE On(v) == Default(v, {}, {TRUE})
             Emulator(v) == Default(v, "", "sushy-tools")
             Listens(v) == Default(v, 0, 8000)
  <2>1. \A b : normalizeBMC(b) =
           [enabled |-> On(b.enabled), emulator |-> Emulator(b.emulator), port |-> Listens(b.port), auth |-> b.auth]
    BY SMT DEF normalizeBMC
  <2>2. \A v : On(On(v)) = On(v)
    BY DefaultSettles
  <2>3. \A v : Emulator(Emulator(v)) = Emulator(v)
    BY DefaultSettles
  <2>4. \A v : Listens(Listens(v)) = Listens(v)
    BY DefaultSettles
  <2> HIDE DEF On, Emulator, Listens
  <2> QED
    BY <2>1, <2>2, <2>3, <2>4
<1>7. \A S : BMC(BMC(S)) = BMC(S)
  BY <1>6
<1> HIDE DEF BMC
<1>8. \A l : Libvirt(Libvirt(l)) = Libvirt(l)
  <2> TAKE l
  <2>1. PICK g : g = Libvirt(l)
    OBVIOUS
  <2>2. IsMap(g) /\ ("bmc" \in DOMAIN g => g.bmc = BMC(g.bmc))
    BY <1>7, <2>1 DEF IsMap
  <2>3. Libvirt(g) = g
    BY <2>2, SameField
  <2> QED
    BY <2>1, <2>3
<1> HIDE DEF Libvirt
<1>9. \A S : Libvirts(Libvirts(S)) = Libvirts(S)
  BY <1>8
<1> HIDE DEF Libvirts
<1>10. \A m : Machine(Machine(m)) = Machine(m)
  <2> TAKE m
  <2>1. PICK g : g = Machine(m)
    OBVIOUS
  <2>2. IsMap(g) /\ ("libvirt" \in DOMAIN g => g.libvirt = Libvirts(g.libvirt))
    BY <1>9, <2>1 DEF IsMap
  <2>3. Machine(g) = g
    BY <2>2, SameField
  <2> QED
    BY <2>1, <2>3
<1> HIDE DEF Machine
<1>11. \A S : Machines(Machines(S)) = Machines(S)
  BY <1>10
<1> HIDE DEF Machines
<1>12. \A q : Port(Port(q)) = Port(q)
  <2>1. \A n : Number(Number(n)) = Number(n)
    BY DefaultSettles
  <2> HIDE DEF Number
  <2> TAKE q
  <2>2. PICK g : g = Port(q)
    OBVIOUS
  <2>3. IsMap(g) /\ ("port" \in DOMAIN g => g.port = Number(g.port))
    BY <2>1, <2>2 DEF IsMap
  <2>4. Port(g) = g
    BY <2>3, SameField
  <2> QED
    BY <2>2, <2>4
<1> HIDE DEF Port
<1>13. \A S : Squid(Squid(S)) = Squid(S)
  BY <1>12
<1> HIDE DEF Squid
<1>14. \A S : Proxy(Proxy(S)) = Proxy(S)
  BY <1>13
<1> HIDE DEF Proxy
<1>15. PICK new : new = normalizeProvider(p, u)
  OBVIOUS
<1>16. /\ IsMap(new)
       /\ new.hosts = Hosts(p.hosts) /\ new.machine = Machines(p.machine) /\ new.proxy = Proxy(p.proxy)
  <2>1. {"hosts", "machine", "proxy"} \subseteq DOMAIN p
    BY DEF EmptyProvider
  <2> QED
    BY <1>1, <1>15, <2>1 DEF IsMap
<1>17. /\ [new EXCEPT !.hosts = Hosts(new.hosts)] = new
       /\ [new EXCEPT !.machine = Machines(new.machine)] = new
       /\ [new EXCEPT !.proxy = Proxy(new.proxy)] = new
  BY <1>5, <1>11, <1>14, <1>16, SameField
<1>18. normalizeProvider(new, u) = new
  BY <1>1, <1>17
<1> QED
  BY <1>15, <1>18

(* A closure is of an infrastructure's name and references.                 *)
LEMMA ClosureOfReferences ==
  ASSUME NEW c, NEW d, c.name = d.name, c.providerRefs = d.providerRefs, NEW index
  PROVE  closureProvider(c, index) = closureProvider(d, index)
<1>1. Resolved(c, index) = Resolved(d, index)
  BY DEF Resolved
<1>2. \A cap : Supplying(c, index, cap) = Supplying(d, index, cap)
  BY <1>1 DEF Supplying
<1>3. \A i : HostNames(c, index, i) = HostNames(d, index, i)
  BY DEF HostNames
<1>4. \A cap : SupplierOf(c, index, cap) = SupplierOf(d, index, cap)
  BY <1>2 DEF SupplierOf
<1>5. ClosureHosts(c, index) = ClosureHosts(d, index)
  <2> DEFINE has(ci, h) == {i \in Resolved(ci, index) : h \in HostNames(ci, index, i)}
             names(ci) == UNION {HostNames(ci, index, i) : i \in Resolved(ci, index)}
  <2>1. \A h : has(c, h) = has(d, h)
    BY <1>1, <1>3
  <2>2. names(c) = names(d)
    BY <1>1, <1>3
  <2>3. \A ci : ClosureHosts(ci, index) = [h \in names(ci) |-> index[ci.providerRefs[Min(has(ci, h))]].hosts[h]]
    BY DEF ClosureHosts
  <2> HIDE DEF has, names
  <2> QED
    BY ZenonT(60), <2>1, <2>2, <2>3
<1> QED
  BY <1>4, <1>5 DEF closureProvider

(* A machine's resources, once they are filled in.                          *)
LEMMA ResourcesSettle ==
  ASSUME NEW m, NEW n, NEW libvirt, n.profile = m.profile, n.libvirt = m.libvirt,
         n.resources = Resources(m, libvirt)
  PROVE  Resources(n, libvirt) = n.resources
<1> DEFINE Fill(S, d) == {Default(r, 0, d) : r \in Default(S, {}, {0})}
           profiled == {l \in libvirt : m.profile \in DOMAIN l.profiles}
           shape == The(profiled).profiles[m.profile]
           Shaped(S) == IF profiled = {} THEN S ELSE Fill(S, shape)
           Filled(S) == IF libvirt = {} \/ m.libvirt = {} THEN Shaped(S) ELSE Fill(Shaped(S), 8)
<1>1. Resources(m, libvirt) = Filled(m.resources) /\ Resources(n, libvirt) = Filled(n.resources)
  BY DEF Resources
<1>2. \A S, d : Fill(S, d) # {}
  BY DEF Default
<1>3. \A S, d : Fill(Fill(S, d), d) = Fill(S, d)
  BY DEF Default
<1>4. \A S, d : Fill(Fill(S, 8), d) = Fill(S, 8)
  <2>1. \A S : 0 \notin Fill(S, 8)
    BY DEF Default
  <2>2. \A T, d : T # {} /\ 0 \notin T => Fill(T, d) = T
    BY DEF Default
  <2> HIDE DEF Fill
  <2> QED
    BY <1>2, <2>1, <2>2
<1> HIDE DEF Fill, profiled, shape
<1>5. \A S : Filled(Filled(S)) = Filled(S)
  BY <1>3, <1>4
<1> HIDE DEF Filled
<1> QED
  BY <1>1, <1>5

(* The machines of an infrastructure, with what it is named.                *)
Machines(name, machines, p) ==
  [n \in DOMAIN machines |->
    [machines[n] EXCEPT
      !.resources  = Resources(machines[n], MachineLibvirt(p)),
      !.interfaces = [i \in DOMAIN machines[n].interfaces |->
        IF machines[n].libvirt = {} THEN machines[n].interfaces[i]
        ELSE [machines[n].interfaces[i] EXCEPT !.mac = Default(machines[n].interfaces[i].mac, <<>>, <<name, n, i>>)]]]]

(* What a machine has been filled in with is what it would be given.        *)
LEMMA MachinesSettle ==
  ASSUME NEW name, NEW machines, NEW p, \A n \in DOMAIN machines : DOMAIN machines[n] = DOMAIN EmptyMachine
  PROVE  /\ Machines(name, Machines(name, machines, p), p) = Machines(name, machines, p)
         /\ \A n \in DOMAIN machines :
               /\ DOMAIN Machines(name, machines, p)[n] = DOMAIN EmptyMachine
               /\ DOMAIN Machines(name, machines, p)[n].interfaces = DOMAIN machines[n].interfaces
               /\ IsMap(Machines(name, machines, p)[n].interfaces)
<1> DEFINE Address(iface, n, i) == [iface EXCEPT !.mac = Default(iface.mac, <<>>, <<name, n, i>>)]
           Addressed(m, n) == [i \in DOMAIN m.interfaces |->
             IF m.libvirt = {} THEN m.interfaces[i] ELSE Address(m.interfaces[i], n, i)]
           One(m, n) == [m EXCEPT !.resources = Resources(m, MachineLibvirt(p)), !.interfaces = Addressed(m, n)]
<1>1. \A ms : Machines(name, ms, p) = [n \in DOMAIN ms |-> One(ms[n], n)]
  BY DEF Machines
<1>2. \A iface, n, i : Address(Address(iface, n, i), n, i) = Address(iface, n, i)
  <2> TAKE iface, n, i
  <2>1. PICK new : new = Address(iface, n, i)
    OBVIOUS
  <2>2. IsMap(new) /\ ("mac" \in DOMAIN new => new.mac = Default(iface.mac, <<>>, <<name, n, i>>))
    BY <2>1 DEF IsMap
  <2>3. "mac" \in DOMAIN new => new.mac = Default(new.mac, <<>>, <<name, n, i>>)
    BY <2>2, DefaultSettles
  <2>4. Address(new, n, i) = new
    BY <2>2, <2>3, SameField
  <2> QED
    BY <2>1, <2>4
<1> HIDE DEF Address
<1>3. ASSUME NEW m, NEW n, DOMAIN m = DOMAIN EmptyMachine
      PROVE  /\ DOMAIN One(m, n) = DOMAIN EmptyMachine /\ One(One(m, n), n) = One(m, n)
             /\ DOMAIN One(m, n).interfaces = DOMAIN m.interfaces /\ IsMap(One(m, n).interfaces)
  <2>1. {"profile", "libvirt", "resources", "interfaces"} \subseteq DOMAIN m
    BY <1>3 DEF EmptyMachine
  <2>2. PICK new : new = One(m, n)
    OBVIOUS
  <2>3. /\ IsMap(new) /\ DOMAIN new = DOMAIN m
        /\ new.profile = m.profile /\ new.libvirt = m.libvirt
        /\ new.resources = Resources(m, MachineLibvirt(p))
        /\ new.interfaces = Addressed(m, n)
    <3> HIDE DEF Addressed
    <3> QED
      BY <2>1, <2>2 DEF IsMap
  <2>4. Addressed(new, n) = new.interfaces /\ DOMAIN new.interfaces = DOMAIN m.interfaces /\ IsMap(new.interfaces)
    <3>1. DOMAIN Addressed(m, n) = DOMAIN m.interfaces /\ IsMap(Addressed(m, n))
      BY DEF IsMap
    <3>2. Addressed(new, n) = new.interfaces
      BY <1>2, <2>3
    <3> HIDE DEF Addressed
    <3> QED
      BY <2>3, <3>1, <3>2
  <2>5. Resources(new, MachineLibvirt(p)) = new.resources
    BY <2>3, ResourcesSettle
  <2> HIDE DEF Addressed
  <2>6. /\ [new EXCEPT !.resources = Resources(new, MachineLibvirt(p))] = new
        /\ [new EXCEPT !.interfaces = Addressed(new, n)] = new
    BY <2>3, <2>4, <2>5, SameField
  <2> QED
    BY <1>3, <2>2, <2>3, <2>4, <2>6
<1> HIDE DEF One
<1> QED
  BY <1>1, <1>3

(* Two lists joined.                                                        *)
LEMMA Joined ==
  ASSUME NEW a, IsList(a), NEW b, IsList(b)
  PROVE  /\ IsList(a \o b)
         /\ ToSet(a \o b) = ToSet(a) \cup ToSet(b)
         /\ ToSet(b) = {} => a \o b = a
<1>1. PICK X : X = ToSet(a) \cup ToSet(b)
  OBVIOUS
<1>2. a \in Seq(X) /\ b \in Seq(X)
  <2>1. a \in Seq(ToSet(a)) /\ b \in Seq(ToSet(b))
    BY DEF IsList
  <2>2. ToSet(a) \subseteq X /\ ToSet(b) \subseteq X
    BY <1>1
  <2> HIDE DEF ToSet
  <2> QED
    BY <2>1, <2>2
<1>3. PICK m \in Nat, n \in Nat : m = Len(a) /\ n = Len(b) /\ DOMAIN a = 1..m /\ DOMAIN b = 1..n
  BY <1>2
<1>4. PICK c : c = a \o b
  OBVIOUS
<1>5. /\ c \in Seq(X) /\ Len(c) = m + n
      /\ \A i \in 1..(m + n) : c[i] = IF i <= m THEN a[i] ELSE b[i - m]
  BY <1>2, <1>3, <1>4, ConcatProperties
<1>6. DOMAIN c = 1..(m + n) /\ c = [i \in 1..(m + n) |-> c[i]]
  BY <1>5
<1>7. IsList(c)
  BY <1>6, IsListOf
<1>8. ToSet(c) = ToSet(a) \cup ToSet(b)
  <2>1. \A i \in 1..(m + n) : (i \in 1..m /\ c[i] = a[i]) \/ (i - m \in 1..n /\ c[i] = b[i - m])
    BY <1>5
  <2>2. \A i \in 1..m : i \in 1..(m + n) /\ c[i] = a[i]
    BY <1>5
  <2>3. \A i \in 1..n : m + i \in 1..(m + n) /\ c[m + i] = b[i]
    <3> TAKE i \in 1..n
    <3>1. m + i \in 1..(m + n) /\ ~(m + i <= m) /\ (m + i) - m = i
      OBVIOUS
    <3> QED
      BY <3>1, <1>5
  <2>4. ToSet(c) \subseteq ToSet(a) \cup ToSet(b)
    BY <1>3, <1>6, <2>1 DEF ToSet
  <2>5. ToSet(a) \subseteq ToSet(c) /\ ToSet(b) \subseteq ToSet(c)
    BY <1>3, <1>6, <2>2, <2>3 DEF ToSet
  <2> QED
    BY <2>4, <2>5
<1>9. ASSUME ToSet(b) = {} PROVE c = a
  <2>1. DOMAIN b = {}
    BY <1>9 DEF ToSet
  <2>2. n = 0
    BY <1>3, <2>1
  <2>3. b = <<>>
    BY <1>2, <1>3, <2>2, EmptySeq
  <2> QED
    BY <1>2, <1>4, <2>3, ConcatEmptySeq
<1> QED
  BY <1>4, <1>7, <1>8, <1>9

(* The sources of a list, as a set.                                         *)
LEMMA KnownSources ==
  \A sources : Known(sources) = {src.source : src \in ToSet(sources)}
  BY DEF Known, ToSet

(* Merging derived sources in: all of them are known afterwards.            *)
LEMMA Merged ==
  ASSUME NEW existing, IsSources(existing), NEW derived, IsSources(derived)
  PROVE  /\ IsSources(mergeImageDigestSources(existing, derived))
         /\ Known(derived) \subseteq Known(mergeImageDigestSources(existing, derived))
         /\ Known(derived) \subseteq Known(existing) => mergeImageDigestSources(existing, derived) = existing
<1> DEFINE new == {i \in DOMAIN derived :
                      derived[i].source \notin Known(existing) \cup {derived[j].source : j \in 1..(i - 1)}}
<1>1. PICK e : e = Entries(derived, new)
  OBVIOUS
<1>2. IsList(e) /\ ToSet(e) = {derived[i] : i \in new}
  <2>1. new \in SUBSET DOMAIN derived /\ IsList(derived)
    BY DEF IsSources
  <2> HIDE DEF new
  <2> QED
    BY <1>1, <2>1, EntriesSet
<1>3. PICK m : m = mergeImageDigestSources(existing, derived)
  OBVIOUS
<1>4. m = existing \o e
  BY <1>1, <1>3 DEF mergeImageDigestSources
<1>5. IsList(m) /\ ToSet(m) = ToSet(existing) \cup ToSet(e) /\ (ToSet(e) = {} => m = existing)
  BY <1>2, <1>4, Joined DEF IsSources
<1>6. IsSources(m)
  <2>1. ToSet(e) \subseteq ToSet(derived)
    BY <1>2 DEF ToSet
  <2> HIDE DEF ToSet
  <2> QED
    BY <1>5, <2>1 DEF IsSources
<1>7. ASSUME NEW i \in DOMAIN derived PROVE derived[i].source \in Known(m)
  <2>1. PICK x : x = derived[i].source
    OBVIOUS
  <2>2. CASE x \in Known(existing)
    BY <1>5, <2>1, <2>2, KnownSources
  <2>3. CASE x \notin Known(existing)
    <3> DEFINE same == {j \in DOMAIN derived : derived[j].source = x}
    <3>1. DOMAIN derived = 1..Len(derived) /\ Len(derived) \in Nat /\ IsFiniteSet(DOMAIN derived)
      BY ListEntries DEF IsSources
    <3>2. IsFiniteSet(same) /\ same \subseteq Nat /\ same # {}
      BY <2>1, <3>1, FS_Subset
    <3>3. Min(same) \in same /\ \A j \in same : Min(same) <= j
      <4> HIDE DEF same
      <4> QED
        BY <3>2, LeastOf
    <3>4. PICK k : k \in same /\ \A j \in same : k <= j
      BY <3>3
    <3>5. \A j \in 1..(k - 1) : derived[j].source # x
      <4> TAKE j \in 1..(k - 1)
      <4>1. k \in 1..Len(derived)
        BY <3>1, <3>4
      <4>2. j \in 1..Len(derived) /\ ~(k <= j)
        BY <3>1, <4>1
      <4> QED
        BY <3>1, <3>4, <4>2
    <3>6. k \in new
      BY <2>3, <3>4, <3>5
    <3>7. derived[k] \in ToSet(e) /\ derived[k].source = x
      BY <1>2, <3>4, <3>6
    <3> QED
      BY <1>5, <2>1, <3>7, KnownSources
  <2> QED
    BY <2>2, <2>3
<1>8. Known(derived) \subseteq Known(m)
  BY <1>7 DEF Known
<1>9. ASSUME Known(derived) \subseteq Known(existing) PROVE m = existing
  <2>1. \A i \in DOMAIN derived : derived[i].source \in Known(derived)
    BY DEF Known
  <2>2. new = {}
    BY <1>9, <2>1
  <2>3. ToSet(e) = {}
    BY <1>2, <2>2
  <2> QED
    BY <1>5, <2>3
<1> QED
  BY <1>3, <1>6, <1>8, <1>9

(* The sources derived of a mirror are sources.                             *)
LEMMA DerivedSources ==
  ASSUME NEW r, IsSources(r.sources)
  PROVE  IsSources(deriveDisconnectedReleaseSources(r))
<1> DEFINE mirrored(source, url) == [source |-> source, mirrors |-> <<<<url, "release-images">>>>, policy |-> Never]
           both(url) == <<mirrored("ocp-release", url), mirrored("art-dev", url)>>
           unknown(url) == {i \in {1, 2} : both(url)[i].source \notin Known(r.sources)}
           urls == {mirror.url : mirror \in r.mirror} \ {<<>>}
<1>1. deriveDisconnectedReleaseSources(r) =
        IF urls = {} THEN r.sources ELSE r.sources \o Entries(both(The(urls)), unknown(The(urls)))
  BY DEF deriveDisconnectedReleaseSources
<1>2. ASSUME NEW url PROVE IsSources(r.sources \o Entries(both(url), unknown(url)))
  <2>1. /\ \A s : DOMAIN mirrored(s, url) = {"source", "mirrors", "policy"}
        /\ \E a, b : a = mirrored("ocp-release", url) /\ b = mirrored("art-dev", url)
    OBVIOUS
  <2>2. PICK a, b : /\ a = mirrored("ocp-release", url) /\ b = mirrored("art-dev", url)
                    /\ DOMAIN a = {"source", "mirrors", "policy"} /\ DOMAIN b = {"source", "mirrors", "policy"}
    BY <2>1
  <2>3. PICK two : two = both(url) /\ two = <<a, b>>
    BY <2>2
  <2> HIDE DEF mirrored, both
  <2>4. DOMAIN two = 1..2 /\ two = [i \in 1..2 |-> two[i]] /\ two[1] = a /\ two[2] = b
    BY <2>3
  <2>5. IsList(two) /\ ToSet(two) = {a, b}
    <3>1. IsList(two)
      BY <2>4, IsListOf
    <3>2. 1..2 = {1, 2}
      OBVIOUS
    <3> QED
      BY <2>4, <3>1, <3>2 DEF ToSet
  <2>6. unknown(url) \in SUBSET DOMAIN two
    BY <2>4
  <2> HIDE DEF unknown
  <2>7. PICK e : e = Entries(two, unknown(url))
    OBVIOUS
  <2>8. IsList(e) /\ ToSet(e) \subseteq ToSet(two)
    <3>1. IsList(e) /\ ToSet(e) = {two[i] : i \in unknown(url)}
      BY <2>5, <2>6, <2>7, EntriesSet
    <3> QED
      BY <2>6, <3>1 DEF ToSet
  <2>9. IsList(r.sources \o e) /\ ToSet(r.sources \o e) = ToSet(r.sources) \cup ToSet(e)
    BY <2>8, Joined DEF IsSources
  <2> HIDE DEF ToSet
  <2>10. IsSources(r.sources \o e)
    BY <2>2, <2>5, <2>8, <2>9 DEF IsSources
  <2> QED
    BY <2>3, <2>7, <2>10
<1> HIDE DEF urls, both, unknown
<1> QED
  BY <1>1, <1>2

(* A cluster's sources, once those of its environment are merged in.        *)
LEMMA SourcesSettle ==
  ASSUME NEW own, IsSources(own), NEW env, \A r \in env.registries : IsSources(r.sources)
  PROVE  /\ IsSources(ImageSources(own, env))
         /\ ImageSources(ImageSources(own, env), env) = ImageSources(own, env)
<1>1. CASE env.registries = {}
  BY <1>1 DEF ImageSources
<1>2. CASE env.registries # {}
  <2>1. PICK r : r = The(env.registries) /\ IsSources(r.sources)
    BY <1>2 DEF The
  <2>2. PICK derived : derived = deriveDisconnectedReleaseSources(r) /\ IsSources(derived)
    BY <2>1, DerivedSources
  <2> DEFINE Local(v) == Default(v, "", Never)
             Closed(all) == [i \in DOMAIN all |-> [all[i] EXCEPT !.policy = Local(all[i].policy)]]
             Cut(s) == Closed(mergeImageDigestSources(s, derived))
  <2>3. \A s : ImageSources(s, env) = IF OCPInstallKind(env) = "disconnected" THEN Cut(s) ELSE Default(s, <<>>, r.sources)
    BY <1>2, <2>1, <2>2 DEF ImageSources
  <2>4. \A v : Local(Local(v)) = Local(v)
    BY DefaultSettles
  <2> HIDE DEF Local
  <2>5. ASSUME NEW all, IsSources(all)
        PROVE  /\ IsSources(Closed(all)) /\ Known(Closed(all)) = Known(all)
               /\ Closed(Closed(all)) = Closed(all)
    <3>1. PICK c : c = Closed(all)
      OBVIOUS
    <3>2. ASSUME NEW i \in DOMAIN all
          PROVE  /\ IsMap(c[i]) /\ DOMAIN c[i] = {"source", "mirrors", "policy"}
                 /\ c[i].source = all[i].source /\ c[i].policy = Local(c[i].policy)
      <4>1. PICK src : src = all[i] /\ DOMAIN src = {"source", "mirrors", "policy"}
        BY <2>5 DEF IsSources, ToSet
      <4>2. c[i] = [src EXCEPT !.policy = Local(src.policy)]
        BY <3>1, <4>1
      <4> QED
        BY <2>4, <4>1, <4>2 DEF IsMap
    <3>3. DOMAIN c = DOMAIN all /\ c = [i \in DOMAIN all |-> c[i]]
      BY <3>1
    <3>4. IsList(c)
      <4>1. PICK n \in Nat : DOMAIN all = 1..n
        BY <2>5, ListEntries DEF IsSources
      <4> QED
        BY <3>3, <4>1, IsListOf
    <3>5. IsSources(c)
      BY <3>2, <3>3, <3>4 DEF IsSources, ToSet
    <3>6. Known(c) = Known(all)
      BY <3>2, <3>3 DEF Known
    <3>7. \A i \in DOMAIN c : [c[i] EXCEPT !.policy = Local(c[i].policy)] = c[i]
      BY <3>2, <3>3, SameField
    <3>8. Closed(c) = c
      BY <3>3, <3>7
    <3> HIDE DEF Closed
    <3> QED
      BY <3>1, <3>5, <3>6, <3>8
  <2> HIDE DEF Closed
  <2>6. IsSources(Cut(own)) /\ Cut(Cut(own)) = Cut(own)
    <3>1. PICK all : all = mergeImageDigestSources(own, derived)
      OBVIOUS
    <3>2. IsSources(all) /\ Known(derived) \subseteq Known(all)
      BY <2>2, <3>1, Merged
    <3>3. PICK new : new = Closed(all)
      OBVIOUS
    <3>4. IsSources(new) /\ Known(new) = Known(all) /\ Closed(new) = new
      BY <2>5, <3>2, <3>3
    <3>5. mergeImageDigestSources(new, derived) = new
      BY <2>2, <3>2, <3>4, Merged
    <3> QED
      BY <3>1, <3>3, <3>4, <3>5
  <2> HIDE DEF Cut
  <2>7. LET d == Default(own, <<>>, r.sources) IN IsSources(d) /\ Default(d, <<>>, r.sources) = d
    BY <2>1 DEF Default
  <2> QED
    BY <2>3, <2>6, <2>7
<1> QED
  BY <1>1, <1>2

(* An infrastructure: only its machines are filled in.                      *)
LEMMA InfraMachines ==
  \A ci, p : normalizeClusterInfrastructure(ci, p) = [ci EXCEPT !.machines = Machines(ci.name, ci.machines, p)]
  BY DEF normalizeClusterInfrastructure, Machines

(* An infrastructure that is filled in names the same providers, and they   *)
(* supply it as they did.                                                   *)
LEMMA InfraSettles ==
  ASSUME NEW ci, IsDocument("infras", ci), NEW index, NEW new,
         new = normalizeClusterInfrastructure(ci, closureProvider(ci, index))
  PROVE  normalizeClusterInfrastructure(new, closureProvider(new, index)) = new
<1>1. {"name", "providerRefs", "machines"} \subseteq DOMAIN ci
  BY DEF IsDocument, Empty, EmptyInfrastructure
<1>2. PICK p : p = closureProvider(ci, index)
  OBVIOUS
<1>3. /\ IsMap(new) /\ new.name = ci.name /\ new.providerRefs = ci.providerRefs
      /\ new.machines = Machines(ci.name, ci.machines, p)
  BY <1>1, <1>2, InfraMachines DEF IsMap
<1>4. closureProvider(new, index) = p
  BY <1>2, <1>3, ClosureOfReferences
<1>5. Machines(new.name, new.machines, p) = new.machines
  <2>1. \A n \in DOMAIN ci.machines : DOMAIN ci.machines[n] = DOMAIN EmptyMachine
    BY DEF IsDocument
  <2>2. PICK name, machines : name = ci.name /\ machines = ci.machines
    OBVIOUS
  <2>3. Machines(name, Machines(name, machines, p), p) = Machines(name, machines, p)
    BY <2>1, <2>2, MachinesSettle
  <2> QED
    BY <1>3, <2>2, <2>3
<1>6. [new EXCEPT !.machines = Machines(new.name, new.machines, p)] = new
  BY <1>3, <1>5, SameField
<1> QED
  BY <1>4, <1>6, InfraMachines

(* The host names of an infrastructure's endpoints: whichever cluster gave  *)
(* them, another one changes nothing.                                       *)
LEMMA HostnamesSettle ==
  ASSUME NEW ci, DOMAIN ci = DOMAIN EmptyInfrastructure, NEW envs, NEW a, NEW b, NEW new,
         new = defaultEndpointHostnames(ci, envs, a)
  PROVE  defaultEndpointHostnames(new, envs, b) = new
<1> DEFINE Named(ep, e, name) == [ep EXCEPT !.hostname = Default(ep.hostname, <<>>, <<e, name>>)]
           Endpoints(eps, name) == [e \in DOMAIN eps |-> Named(eps[e], e, name)]
<1>1. \A c, name : defaultEndpointHostnames(c, envs, name) =
         IF \A env \in envs : env.baseDomain = "" THEN c ELSE [c EXCEPT !.endpoints = Endpoints(c.endpoints, name)]
  BY DEF defaultEndpointHostnames
<1>2. \A ep, e : Named(Named(ep, e, a), e, b) = Named(ep, e, a)
  <2> TAKE ep, e
  <2>1. PICK g : g = Named(ep, e, a)
    OBVIOUS
  <2>2. IsMap(g) /\ ("hostname" \in DOMAIN g => g.hostname = Default(ep.hostname, <<>>, <<e, a>>))
    BY <2>1 DEF IsMap
  <2>3. <<e, a>> # <<>>
    OBVIOUS
  <2>4. "hostname" \in DOMAIN g => g.hostname = Default(g.hostname, <<>>, <<e, b>>)
    BY <2>2, <2>3 DEF Default
  <2>5. Named(g, e, b) = g
    BY <2>2, <2>4, SameField
  <2> QED
    BY <2>1, <2>5
<1> HIDE DEF Named
<1>3. \A eps : Endpoints(Endpoints(eps, a), b) = Endpoints(eps, a)
  BY <1>2
<1> HIDE DEF Endpoints
<1>4. CASE \A env \in envs : env.baseDomain = ""
  BY <1>1, <1>4
<1>5. CASE ~ \A env \in envs : env.baseDomain = ""
  <2>1. new = [ci EXCEPT !.endpoints = Endpoints(ci.endpoints, a)] /\ "endpoints" \in DOMAIN ci
    BY <1>1, <1>5 DEF EmptyInfrastructure
  <2>2. IsMap(new) /\ new.endpoints = Endpoints(ci.endpoints, a)
    BY <2>1 DEF IsMap
  <2>3. [new EXCEPT !.endpoints = Endpoints(new.endpoints, b)] = new
    BY <1>3, <2>2, SameField
  <2> QED
    BY <1>1, <1>5, <2>3
<1> QED
  BY <1>4, <1>5

(* A cluster's own defaults.                                                *)
LEMMA OwnSettles ==
  ASSUME NEW ocp, DOMAIN ocp = DOMAIN EmptyCluster, NEW hub, NEW new, new = normalizeOCPCluster(ocp, {}, hub)
  PROVE  /\ IsMap(new) /\ DOMAIN new = DOMAIN EmptyCluster
         /\ \A c : /\ IsMap(c) /\ DOMAIN c = DOMAIN EmptyCluster
                   /\ c.role = new.role /\ c.topology = new.topology /\ c.method = new.method
                   /\ c.nodes = new.nodes /\ c.name = new.name
                   => normalizeOCPCluster(c, {}, hub) = c
         /\ \A x \in DOMAIN ocp \ {"role", "topology", "method", "nodes"} : new[x] = ocp[x]
         /\ IsMap(new.nodes) /\ DOMAIN new.nodes = DOMAIN ocp.nodes
<1> DEFINE Role(v, name) == Default(v, "", IF name \in hub THEN "hub" ELSE "managed")
           Topology(v, nodes) == Default(v, "", IF Cardinality(DOMAIN nodes) <= 1 THEN "single-node" ELSE "multi-node")
           Method(v) == Default(v, "", "agent")
           Node(node, n) == [node EXCEPT !.machine = Default(node.machine, 0, n)]
           Nodes(nodes) == [n \in DOMAIN nodes |-> Node(nodes[n], n)]
<1>1. \A c : normalizeOCPCluster(c, {}, hub) =
         [c EXCEPT !.role = Role(c.role, c.name), !.topology = Topology(c.topology, c.nodes),
                   !.method = Method(c.method), !.nodes = Nodes(c.nodes)]
  BY Zenon DEF normalizeOCPCluster
<1>2. \A v, name : Role(Role(v, name), name) = Role(v, name)
  BY DefaultSettles
<1>3. \A v, m, n : DOMAIN m = DOMAIN n => Topology(Topology(v, m), n) = Topology(v, m)
  BY DefaultSettles
<1>4. \A v : Method(Method(v)) = Method(v)
  BY DefaultSettles
<1>5. \A node, n : Node(Node(node, n), n) = Node(node, n)
  <2> TAKE node, n
  <2>1. PICK g : g = Node(node, n)
    OBVIOUS
  <2>2. IsMap(g) /\ ("machine" \in DOMAIN g => g.machine = Default(node.machine, 0, n))
    BY <2>1 DEF IsMap
  <2>3. "machine" \in DOMAIN g => g.machine = Default(g.machine, 0, n)
    BY <2>2, DefaultSettles
  <2>4. Node(g, n) = g
    BY <2>2, <2>3, SameField
  <2> QED
    BY <2>1, <2>4
<1> HIDE DEF Role, Topology, Method, Node
<1>6. \A nodes : /\ Nodes(Nodes(nodes)) = Nodes(nodes)
                /\ DOMAIN Nodes(nodes) = DOMAIN nodes /\ IsMap(Nodes(nodes))
  BY <1>5 DEF IsMap
<1> HIDE DEF Nodes
<1>7. {"role", "topology", "method", "nodes", "name"} \subseteq DOMAIN ocp
  BY DEF EmptyCluster
<1>8. /\ IsMap(new) /\ DOMAIN new = DOMAIN EmptyCluster
      /\ new.role = Role(ocp.role, ocp.name) /\ new.topology = Topology(ocp.topology, ocp.nodes)
      /\ new.method = Method(ocp.method) /\ new.nodes = Nodes(ocp.nodes)
      /\ \A x \in DOMAIN ocp \ {"role", "topology", "method", "nodes"} : new[x] = ocp[x]
  <2>1. PICK r, t, m, n : /\ r = Role(ocp.role, ocp.name) /\ t = Topology(ocp.topology, ocp.nodes)
                          /\ m = Method(ocp.method) /\ n = Nodes(ocp.nodes)
    OBVIOUS
  <2>2. new = [ocp EXCEPT !.role = r, !.topology = t, !.method = m, !.nodes = n]
    BY <1>1, <2>1
  <2>3. IsMap(new) /\ DOMAIN new = DOMAIN ocp
    BY <2>2 DEF IsMap
  <2>4. new.role = r /\ new.topology = t /\ new.method = m /\ new.nodes = n
    BY <1>7, <2>2
  <2>5. \A x \in DOMAIN ocp \ {"role", "topology", "method", "nodes"} : new[x] = ocp[x]
    BY <2>2
  <2> QED
    BY <2>1, <2>3, <2>4, <2>5
<1>9. new.name = ocp.name
  BY <1>7, <1>8
<1>10. ASSUME NEW c, IsMap(c), c.role = new.role, c.topology = new.topology, c.method = new.method,
              c.nodes = new.nodes, c.name = new.name
       PROVE  normalizeOCPCluster(c, {}, hub) = c
  <2>1. /\ Role(c.role, c.name) = c.role /\ Topology(c.topology, c.nodes) = c.topology
        /\ Method(c.method) = c.method /\ Nodes(c.nodes) = c.nodes
    BY <1>2, <1>3, <1>4, <1>6, <1>8, <1>9, <1>10
  <2>2. /\ [c EXCEPT !.role = Role(c.role, c.name)] = c
        /\ [c EXCEPT !.topology = Topology(c.topology, c.nodes)] = c
        /\ [c EXCEPT !.method = Method(c.method)] = c
        /\ [c EXCEPT !.nodes = Nodes(c.nodes)] = c
    BY <1>10, <2>1, SameField
  <2> QED
    BY <1>1, <2>2
<1>11. IsMap(new.nodes) /\ DOMAIN new.nodes = DOMAIN ocp.nodes
  BY <1>6, <1>8
<1> QED
  BY <1>8, <1>10, <1>11

(* And those it takes from the environment.                                 *)
LEMMA AppliedSettles ==
  ASSUME NEW own, DOMAIN own = DOMAIN EmptyCluster, IsSources(own.sources),
         NEW env, \A r \in env.registries : IsSources(r.sources),
         NEW new, new = applyEnvironment(own, env)
  PROVE  /\ IsMap(new) /\ DOMAIN new = DOMAIN EmptyCluster /\ IsSources(new.sources)
         /\ \A x \in {"name", "infra", "role", "topology", "method", "nodes"} : new[x] = own[x]
         /\ applyEnvironment(new, env) = new
<1> DEFINE trusts == {mirror.trust : mirror \in UNION {r.mirror : r \in env.registries}}
           Domain(v) == Default(v, "", env.baseDomain)
           Pull(v) == Default(v, "", "openshift-pull-secret")
           Key(v) == Default(v, "", "cluster-admin-key")
           Release(v) == Default(v, {}, env.release)
           Trust(v) == IF trusts = {} THEN v ELSE Default(v, "", The(trusts))
           Sources(v) == ImageSources(v, env)
<1>1. \A c : applyEnvironment(c, env) =
         [c EXCEPT !.baseDomain = Domain(c.baseDomain), !.pullSecret = Pull(c.pullSecret), !.sshKey = Key(c.sshKey),
                   !.release = Release(c.release), !.trust = Trust(c.trust), !.sources = Sources(c.sources)]
  BY Zenon DEF applyEnvironment
<1>2. /\ \A v : Domain(Domain(v)) = Domain(v)
      /\ \A v : Pull(Pull(v)) = Pull(v)
      /\ \A v : Key(Key(v)) = Key(v)
      /\ \A v : Release(Release(v)) = Release(v)
      /\ \A v : Trust(Trust(v)) = Trust(v)
  <2> HIDE DEF trusts
  <2> QED
    BY DefaultSettles
<1>3. IsSources(Sources(own.sources)) /\ Sources(Sources(own.sources)) = Sources(own.sources)
  BY SourcesSettle
<1> HIDE DEF Domain, Pull, Key, Release, Trust, Sources
<1>4. {"name", "infra", "role", "topology", "method", "nodes",
       "baseDomain", "pullSecret", "sshKey", "release", "trust", "sources"} \subseteq DOMAIN own
  BY DEF EmptyCluster
<1>5. /\ IsMap(new) /\ DOMAIN new = DOMAIN own
      /\ \A x \in {"name", "infra", "role", "topology", "method", "nodes"} : new[x] = own[x]
      /\ new.baseDomain = Domain(own.baseDomain) /\ new.pullSecret = Pull(own.pullSecret)
      /\ new.sshKey = Key(own.sshKey) /\ new.release = Release(own.release)
      /\ new.trust = Trust(own.trust) /\ new.sources = Sources(own.sources)
  <2>1. PICK d, p, k, r, t, s :
          /\ d = Domain(own.baseDomain) /\ p = Pull(own.pullSecret) /\ k = Key(own.sshKey)
          /\ r = Release(own.release) /\ t = Trust(own.trust) /\ s = Sources(own.sources)
    OBVIOUS
  <2>2. new = [own EXCEPT !.baseDomain = d, !.pullSecret = p, !.sshKey = k, !.release = r, !.trust = t, !.sources = s]
    BY <1>1, <2>1
  <2>3. IsMap(new) /\ DOMAIN new = DOMAIN own
    BY <2>2 DEF IsMap
  <2>4. /\ new.baseDomain = d /\ new.pullSecret = p /\ new.sshKey = k
        /\ new.release = r /\ new.trust = t /\ new.sources = s
    BY <1>4, <2>2
  <2>5. \A x \in {"name", "infra", "role", "topology", "method", "nodes"} : new[x] = own[x]
    BY <1>4, <2>2
  <2> QED
    BY <2>1, <2>3, <2>4, <2>5
<1>6. /\ [new EXCEPT !.baseDomain = Domain(new.baseDomain)] = new
      /\ [new EXCEPT !.pullSecret = Pull(new.pullSecret)] = new
      /\ [new EXCEPT !.sshKey = Key(new.sshKey)] = new
      /\ [new EXCEPT !.release = Release(new.release)] = new
      /\ [new EXCEPT !.trust = Trust(new.trust)] = new
      /\ [new EXCEPT !.sources = Sources(new.sources)] = new
  BY <1>2, <1>3, <1>5, SameField
<1>7. applyEnvironment(new, env) = new
  <2>1. PICK d, p, k, r, t, s :
          /\ d = Domain(new.baseDomain) /\ p = Pull(new.pullSecret) /\ k = Key(new.sshKey)
          /\ r = Release(new.release) /\ t = Trust(new.trust) /\ s = Sources(new.sources)
    OBVIOUS
  <2>2. applyEnvironment(new, env) =
          [new EXCEPT !.baseDomain = d, !.pullSecret = p, !.sshKey = k, !.release = r, !.trust = t, !.sources = s]
    BY <1>1, <2>1
  <2>3. /\ [new EXCEPT !.baseDomain = d] = new /\ [new EXCEPT !.pullSecret = p] = new
        /\ [new EXCEPT !.sshKey = k] = new /\ [new EXCEPT !.release = r] = new
        /\ [new EXCEPT !.trust = t] = new /\ [new EXCEPT !.sources = s] = new
    BY <1>6, <2>1
  <2> QED
    BY <2>2, <2>3
<1> QED
  BY <1>3, <1>5, <1>7

(* A cluster.                                                               *)
LEMMA ClusterSettles ==
  ASSUME NEW ocp, IsDocument("clusters", ocp), NEW envs, \A env \in envs : IsDocument("environments", env),
         NEW hub, NEW new, new = normalizeOCPCluster(ocp, envs, hub)
  PROVE  /\ normalizeOCPCluster(new, envs, hub) = new
         /\ new.name = ocp.name /\ new.infra = ocp.infra
         /\ IsSources(new.sources)
<1>1. /\ DOMAIN ocp = DOMAIN EmptyCluster /\ IsSources(ocp.sources)
      /\ {"name", "infra", "sources"} \subseteq DOMAIN ocp
  BY DEF IsDocument, Empty, EmptyCluster
<1>2. PICK own : own = normalizeOCPCluster(ocp, {}, hub)
  OBVIOUS
<1>3. \A c : normalizeOCPCluster(c, envs, hub) =
         IF envs = {} THEN normalizeOCPCluster(c, {}, hub)
         ELSE applyEnvironment(normalizeOCPCluster(c, {}, hub), The(envs))
  BY Zenon DEF normalizeOCPCluster
<1>4. /\ IsMap(own) /\ DOMAIN own = DOMAIN EmptyCluster
      /\ \A c : /\ IsMap(c) /\ DOMAIN c = DOMAIN EmptyCluster
                /\ c.role = own.role /\ c.topology = own.topology /\ c.method = own.method
                /\ c.nodes = own.nodes /\ c.name = own.name
                => normalizeOCPCluster(c, {}, hub) = c
      /\ own.name = ocp.name /\ own.infra = ocp.infra /\ own.sources = ocp.sources
  <2>1. \A x \in DOMAIN ocp \ {"role", "topology", "method", "nodes"} : own[x] = ocp[x]
    BY <1>1, <1>2, OwnSettles
  <2> QED
    BY <1>1, <1>2, <2>1, OwnSettles
<1>5. CASE envs = {}
  BY <1>1, <1>2, <1>3, <1>4, <1>5
<1>6. CASE envs # {}
  <2>1. PICK env : env = The(envs) /\ \A r \in env.registries : IsSources(r.sources)
    <3>1. The(envs) \in envs
      BY <1>6 DEF The
    <3> QED
      BY <3>1 DEF IsDocument
  <2>2. new = applyEnvironment(own, env)
    BY <1>2, <1>3, <1>6, <2>1
  <2>3. /\ IsMap(new) /\ DOMAIN new = DOMAIN EmptyCluster /\ IsSources(new.sources)
        /\ \A x \in {"name", "infra", "role", "topology", "method", "nodes"} : new[x] = own[x]
        /\ applyEnvironment(new, env) = new
    BY <1>1, <1>4, <2>1, <2>2, AppliedSettles
  <2>4. normalizeOCPCluster(new, {}, hub) = new
    BY <1>4, <2>3
  <2> QED
    BY <1>3, <1>4, <1>6, <2>1, <2>3, <2>4
<1> QED
  BY <1>5, <1>6

--------------------------------------------------------------------------------
(* Every round of Normalize leaves documents.                               *)

(* The environments and the providers.                                      *)
LEMMA NormalizedSuppliers ==
  ASSUME NEW s, Documents(s), NEW u
  PROVE  Documents(NormalizeSuppliers(s, u))
<1> DEFINE envs == [i \in DOMAIN s.environments |-> defaultEnvironmentSecrets(s.environments[i])]
           providers == [i \in DOMAIN s.providers |-> normalizeProvider(s.providers[i], u)]
<1>1. PICK t : t = NormalizeSuppliers(s, u)
  OBVIOUS
<1>2. DOMAIN s = Kinds /\ \A k \in Kinds : IsList(s[k]) /\ \A d \in ToSet(s[k]) : IsDocument(k, d)
  BY DEF Documents
<1>3. t = [s EXCEPT !.environments = envs, !.providers = providers]
  BY <1>1 DEF NormalizeSuppliers
<1>4. IsList(envs) /\ \A d \in ToSet(envs) : IsDocument("environments", d)
  <2>1. ASSUME NEW i \in DOMAIN s.environments PROVE IsDocument("environments", envs[i])
    <3>1. PICK env : env = s.environments[i]
      OBVIOUS
    <3>2. IsDocument("environments", env)
      BY <1>2, <3>1 DEF Kinds, ToSet
    <3>3. PICK new : new = envs[i] /\ DOMAIN new = DOMAIN env /\ \A x \in DOMAIN env \ {"secrets"} : new[x] = env[x]
      BY <3>1 DEF defaultEnvironmentSecrets
    <3>4. {"name", "proxy", "registries"} \subseteq DOMAIN env
      BY <3>2 DEF IsDocument, Empty, EmptyEnvironment
    <3> QED
      BY <3>2, <3>3, <3>4 DEF IsDocument
  <2>2. IsList(s.environments)
    BY <1>2 DEF Kinds
  <2>3. envs = [i \in DOMAIN s.environments |-> envs[i]]
    OBVIOUS
  <2> HIDE DEF envs
  <2> QED
    BY <2>1, <2>2, <2>3, ReplacedDocuments
<1>5. IsList(providers) /\ \A d \in ToSet(providers) : IsDocument("providers", d)
  <2>1. ASSUME NEW i \in DOMAIN s.providers PROVE IsDocument("providers", providers[i])
    <3>1. PICK p : p = s.providers[i]
      OBVIOUS
    <3>2. IsDocument("providers", p)
      BY <1>2, <3>1 DEF Kinds, ToSet
    <3>3. PICK new : new = providers[i] /\ DOMAIN new = DOMAIN p /\ \A x \in DOMAIN p \ {"hosts", "machine", "proxy"} : new[x] = p[x]
      BY <3>1 DEF normalizeProvider
    <3>4. "name" \in DOMAIN p
      BY <3>2 DEF IsDocument, Empty, EmptyProvider
    <3> QED
      BY <3>2, <3>3, <3>4 DEF IsDocument
  <2>2. IsList(s.providers)
    BY <1>2 DEF Kinds
  <2>3. providers = [i \in DOMAIN s.providers |-> providers[i]]
    OBVIOUS
  <2> HIDE DEF providers
  <2> QED
    BY <2>1, <2>2, <2>3, ReplacedDocuments
<1> HIDE DEF envs, providers
<1>6. /\ t = [k \in Kinds |-> t[k]]
      /\ t.environments = envs /\ t.providers = providers
      /\ t.infras = s.infras /\ t.clusters = s.clusters
  BY <1>2, <1>3 DEF Kinds
<1>7. \A k \in Kinds : IsList(t[k]) /\ \A d \in ToSet(t[k]) : IsDocument(k, d)
  BY <1>2, <1>4, <1>5, <1>6 DEF Kinds
<1> QED
  BY <1>1, <1>6, <1>7 DEF Documents

(* The infrastructures.                                                     *)
LEMMA NormalizedInfras ==
  ASSUME NEW s, Documents(s)
  PROVE  Documents(NormalizeInfras(s))
<1> DEFINE infras == [i \in DOMAIN s.infras |->
              normalizeClusterInfrastructure(s.infras[i], closureProvider(s.infras[i], IndexOf(s.providers)))]
<1>1. PICK t : t = NormalizeInfras(s)
  OBVIOUS
<1>2. DOMAIN s = Kinds /\ \A k \in Kinds : IsList(s[k]) /\ \A d \in ToSet(s[k]) : IsDocument(k, d)
  BY DEF Documents
<1>3. t = [s EXCEPT !.infras = infras]
  BY <1>1 DEF NormalizeInfras
<1>4. IsList(infras) /\ \A d \in ToSet(infras) : IsDocument("infras", d)
  <2>1. ASSUME NEW i \in DOMAIN s.infras PROVE IsDocument("infras", infras[i])
    <3>1. PICK ci : ci = s.infras[i]
      OBVIOUS
    <3>2. IsDocument("infras", ci)
      BY <1>2, <3>1 DEF Kinds, ToSet
    <3>3. PICK new : new = infras[i] /\ DOMAIN new = DOMAIN ci /\ \A x \in DOMAIN ci \ {"machines"} : new[x] = ci[x]
      BY <3>1 DEF normalizeClusterInfrastructure
    <3>4. {"name", "providerRefs", "networks", "machines", "endpoints"} \subseteq DOMAIN ci
      BY <3>2 DEF IsDocument, Empty, EmptyInfrastructure
    <3>5. PICK ms, c, p : ms = ci.machines /\ c = ci.name /\ p = closureProvider(ci, IndexOf(s.providers))
      OBVIOUS
    <3>6. new.machines = Machines(c, ms, p)
      BY <3>1, <3>3, <3>4, <3>5, InfraMachines
    <3>7. /\ IsNamed(ms)
          /\ \A n \in DOMAIN ms : DOMAIN ms[n] = DOMAIN EmptyMachine /\ IsNamed(ms[n].interfaces)
      BY <3>2, <3>5 DEF IsDocument
    <3>8. /\ IsNamed(new.machines)
          /\ \A n \in DOMAIN new.machines : /\ DOMAIN new.machines[n] = DOMAIN EmptyMachine
                                            /\ IsNamed(new.machines[n].interfaces)
      <4>1. PICK filled : filled = Machines(c, ms, p)
        OBVIOUS
      <4>2. DOMAIN filled = DOMAIN ms /\ IsMap(filled)
        BY <4>1 DEF Machines, IsMap
      <4>3. \A n \in DOMAIN ms : /\ DOMAIN filled[n] = DOMAIN EmptyMachine
                                 /\ DOMAIN filled[n].interfaces = DOMAIN ms[n].interfaces
                                 /\ IsMap(filled[n].interfaces)
        BY <3>7, <4>1, MachinesSettle
      <4> QED
        BY ZenonT(60), <3>6, <3>7, <4>1, <4>2, <4>3 DEF IsMap, IsNamed
    <3> HIDE DEF infras
    <3> QED
      BY <3>2, <3>3, <3>4, <3>5, <3>8 DEF IsDocument
  <2>2. IsList(s.infras)
    BY <1>2 DEF Kinds
  <2>3. infras = [i \in DOMAIN s.infras |-> infras[i]]
    OBVIOUS
  <2> HIDE DEF infras
  <2> QED
    BY <2>1, <2>2, <2>3, ReplacedDocuments
<1> HIDE DEF infras
<1>6. /\ t = [k \in Kinds |-> t[k]]
      /\ t.infras = infras
      /\ \A k \in Kinds \ {"infras"} : t[k] = s[k]
  BY <1>2, <1>3 DEF Kinds
<1>7. \A k \in Kinds : IsList(t[k]) /\ \A d \in ToSet(t[k]) : IsDocument(k, d)
  BY <1>2, <1>4, <1>6
<1> QED
  BY <1>1, <1>6, <1>7 DEF Documents

(* The position of an infrastructure.                                       *)
LEMMA InfraPosition ==
  ASSUME NEW s, Documents(s), NEW name, clusterInfraByName(s, name) # 0
  PROVE  clusterInfraByName(s, name) \in DOMAIN s.infras
<1> DEFINE found == {j \in DOMAIN s.infras : s.infras[j].name = name}
<1>1. IsFiniteSet(DOMAIN s.infras) /\ DOMAIN s.infras \subseteq Nat
  <2>1. IsList(s.infras)
    BY DEF Documents, Kinds
  <2> QED
    BY <2>1, ListEntries
<1>2. clusterInfraByName(s, name) = IF found = {} THEN 0 ELSE Min(found)
  BY DEF clusterInfraByName
<1>3. found \subseteq DOMAIN s.infras
  OBVIOUS
<1> HIDE DEF found
<1>4. IsFiniteSet(found) /\ found \subseteq Nat
  BY <1>1, <1>3, FS_Subset
<1>5. found # {} => Min(found) \in found
  BY <1>4, LeastOf
<1> QED
  BY <1>2, <1>3, <1>5

(* A cluster and its infrastructure.                                        *)
LEMMA NormalizedCluster ==
  ASSUME NEW s, Documents(s), NEW i \in DOMAIN s.clusters
  PROVE  Documents(NormalizeClusterAt(s, i, Hubs))
<1> DEFINE c == clusterInfraByName(s, s.clusters[i].infra)
           env == primaryEnvironment(s)
           ocp == normalizeOCPCluster(s.clusters[i], env, Hubs)
           ci == defaultEndpointHostnames(s.infras[c], env, s.clusters[i].name)
           clusters == [s.clusters EXCEPT ![i] = ocp]
           infras == [s.infras EXCEPT ![c] = ci]
<1>1. PICK t : t = NormalizeClusterAt(s, i, Hubs)
  OBVIOUS
<1>2. DOMAIN s = Kinds /\ \A k \in Kinds : IsList(s[k]) /\ \A d \in ToSet(s[k]) : IsDocument(k, d)
  BY DEF Documents
<1>3. IsDocument("clusters", ocp)
  <2>1. PICK old : old = s.clusters[i]
    OBVIOUS
  <2>2. IsDocument("clusters", old)
    BY <1>2, <2>1 DEF Kinds, ToSet
  <2>3. {"name", "installOverrides", "agentOverrides", "nodes"} \subseteq DOMAIN old
    BY <2>2 DEF IsDocument, Empty, EmptyCluster
  <2>4. PICK new : /\ new = ocp /\ DOMAIN new = DOMAIN old
                   /\ new.name = old.name /\ new.installOverrides = old.installOverrides
                   /\ new.agentOverrides = old.agentOverrides
                   /\ DOMAIN new.nodes = DOMAIN old.nodes /\ IsMap(new.nodes)
                   /\ IsSources(new.sources)
    <3>0. IsSources(ocp.sources)
      <4>1. \A e \in env : IsDocument("environments", e)
        BY <1>2 DEF Kinds, ToSet, primaryEnvironment
      <4> HIDE DEF env
      <4> QED
        BY <2>1, <2>2, <4>1, ClusterSettles
    <3>1. PICK envs : envs = env
      OBVIOUS
    <3>2. PICK own : /\ DOMAIN own = DOMAIN old
                     /\ own.name = old.name /\ own.installOverrides = old.installOverrides
                     /\ own.agentOverrides = old.agentOverrides
                     /\ DOMAIN own.nodes = DOMAIN old.nodes /\ IsMap(own.nodes)
                     /\ ocp = IF envs = {} THEN own ELSE applyEnvironment(own, The(envs))
      <4> HIDE DEF env
      <4>1. PICK own : own = normalizeOCPCluster(old, {}, Hubs)
        OBVIOUS
      <4>2. ocp = IF envs = {} THEN own ELSE applyEnvironment(own, The(envs))
        BY Zenon, <2>1, <3>1, <4>1 DEF normalizeOCPCluster
      <4>3. DOMAIN old = DOMAIN EmptyCluster
        BY <2>2 DEF IsDocument, Empty
      <4>4. /\ DOMAIN own = DOMAIN old /\ DOMAIN own.nodes = DOMAIN old.nodes /\ IsMap(own.nodes)
            /\ \A x \in DOMAIN old \ {"role", "topology", "method", "nodes"} : own[x] = old[x]
        BY <4>1, <4>3, OwnSettles
      <4> HIDE DEF ocp
      <4> QED
        BY <2>3, <4>2, <4>4
    <3>3. PICK new : new = applyEnvironment(own, The(envs))
      OBVIOUS
    <3>4. /\ DOMAIN new = DOMAIN old /\ new.name = old.name /\ new.installOverrides = old.installOverrides
          /\ new.agentOverrides = old.agentOverrides
          /\ DOMAIN new.nodes = DOMAIN old.nodes /\ IsMap(new.nodes)
      BY <2>3, <3>2, <3>3 DEF applyEnvironment
    <3> HIDE DEF ocp, env
    <3> QED
      BY <3>0, <3>2, <3>3, <3>4
  <2> HIDE DEF ocp
  <2>5. IsDocument("clusters", new)
    <3>1. IsNamed(new.nodes)
      BY <2>2, <2>4 DEF IsDocument, IsMap, IsNamed
    <3> QED
      BY <2>2, <2>4, <3>1 DEF IsDocument
  <2> QED
    BY <2>4, <2>5
<1>4. IsList(clusters) /\ \A d \in ToSet(clusters) : IsDocument("clusters", d)
  <2>1. \A j \in DOMAIN s.clusters : IsDocument("clusters", s.clusters[j])
    BY <1>2 DEF Kinds, ToSet
  <2> HIDE DEF ocp
  <2>2. clusters = [j \in DOMAIN s.clusters |-> clusters[j]] /\ \A j \in DOMAIN s.clusters : IsDocument("clusters", clusters[j])
    BY <1>3, <2>1
  <2>3. IsList(s.clusters)
    BY <1>2 DEF Kinds
  <2> HIDE DEF clusters
  <2> QED
    BY <2>2, <2>3, ReplacedDocuments
<1>5. c # 0 => c \in DOMAIN s.infras
  BY InfraPosition
<1>6. ASSUME c # 0
      PROVE  IsList(infras) /\ \A d \in ToSet(infras) : IsDocument("infras", d)
  <2>1. \A j \in DOMAIN s.infras : IsDocument("infras", s.infras[j])
    BY <1>2 DEF Kinds, ToSet
  <2>2. IsDocument("infras", ci)
    <3>1. PICK old : old = s.infras[c]
      OBVIOUS
    <3>2. IsDocument("infras", old)
      BY <1>5, <1>6, <2>1, <3>1
    <3>3. {"name", "providerRefs", "networks", "machines", "endpoints"} \subseteq DOMAIN old
      BY <3>2 DEF IsDocument, Empty, EmptyInfrastructure
    <3> HIDE DEF c, env
    <3>4. PICK new : /\ new = ci /\ DOMAIN new = DOMAIN old
                     /\ new.name = old.name /\ new.providerRefs = old.providerRefs /\ new.networks = old.networks
                     /\ new.machines = old.machines /\ DOMAIN new.endpoints = DOMAIN old.endpoints
      <4>1. PICK envs, n : envs = env /\ n = s.clusters[i].name
        OBVIOUS
      <4>2. PICK new : new = defaultEndpointHostnames(old, envs, n)
        OBVIOUS
      <4>3. /\ DOMAIN new = DOMAIN old /\ new.name = old.name /\ new.providerRefs = old.providerRefs
            /\ new.networks = old.networks /\ new.machines = old.machines
            /\ DOMAIN new.endpoints = DOMAIN old.endpoints
        BY <3>3, <4>2 DEF defaultEndpointHostnames
      <4> QED
        BY <3>1, <4>1, <4>2, <4>3
    <3> HIDE DEF ci
    <3>5. IsDocument("infras", new)
      BY <3>2, <3>4 DEF IsDocument
    <3> QED
      BY <3>4, <3>5
  <2> HIDE DEF ci, c
  <2>3. infras = [j \in DOMAIN s.infras |-> infras[j]] /\ \A j \in DOMAIN s.infras : IsDocument("infras", infras[j])
    BY <2>1, <2>2
  <2>4. IsList(s.infras)
    BY <1>2 DEF Kinds
  <2> HIDE DEF infras
  <2> QED
    BY <2>3, <2>4, ReplacedDocuments
<1>7. t = [[s EXCEPT !.clusters = clusters] EXCEPT !.infras = IF c = 0 THEN s.infras ELSE infras]
  <2>1. CASE c = 0
    <3>1. t = [s EXCEPT !.clusters[i] = ocp]
      BY <1>1, <2>1 DEF NormalizeClusterAt
    <3> HIDE DEF c, ocp
    <3> QED
      BY <1>2, <2>1, <3>1 DEF Kinds
  <2>2. CASE c # 0
    <3>1. t = [[s EXCEPT !.clusters[i] = ocp] EXCEPT !.infras[c] = ci]
      BY <1>1, <2>2 DEF NormalizeClusterAt
    <3> HIDE DEF c, ocp, ci
    <3> QED
      BY <1>2, <2>2, <3>1 DEF Kinds
  <2> QED
    BY <2>1, <2>2
<1> HIDE DEF clusters, infras, c
<1>8. /\ t = [k \in Kinds |-> t[k]]
      /\ t.clusters = clusters
      /\ t.infras = IF c = 0 THEN s.infras ELSE infras
      /\ \A k \in Kinds \ {"clusters", "infras"} : t[k] = s[k]
  BY <1>2, <1>7 DEF Kinds
<1>9. \A k \in Kinds : IsList(t[k]) /\ \A d \in ToSet(t[k]) : IsDocument(k, d)
  BY <1>2, <1>4, <1>6, <1>8 DEF Kinds
<1> QED
  BY <1>1, <1>8, <1>9 DEF Documents

--------------------------------------------------------------------------------
(* The invariant holds: nothing is loaded, and nothing written.             *)
LEMMA InitIInv == Init => IInv
<1> SUFFICES ASSUME Init PROVE IInv
  OBVIOUS
<1>1. Documents(state)
  <2>1. state = EmptyState
    BY DEF Init
  <2>2. IsList(<<>>) /\ ToSet(<<>>) = {}
    BY DEF IsList, ToSet
  <2>3. EmptyState = [kind \in Kinds |-> <<>>]
    BY DEF EmptyState, Kinds
  <2> QED
    BY <2>1, <2>2, <2>3 DEF Documents
<1>2. Readable(input)
  BY InputsAssumption DEF Init, Readable
<1>3. DOMAIN files = {}
  <2>1. files = <<>>
    BY DEF Init, NoMap
  <2> QED
    BY <2>1
<1>4. phase = "load" /\ at = 1
  BY DEF Init
<1>0. outcome = ""
  BY DEF Init
<1>5. \A path \in DOMAIN files : FromDocuments(path, files[path])
  BY <1>3
<1>6. ~(phase = "scope" \/ Writing)
  BY <1>3, <1>4 DEF Writing
<1>7. at \in Nat \ {0}
  BY <1>4
<1>8. ValidRenders
  BY <1>0 DEF ValidRenders
<1>9. VarsFirst
  BY <1>3, <1>4 DEF VarsFirst
<1> QED
  BY <1>1, <1>2, <1>3, <1>5, <1>6, <1>7, <1>8, <1>9 DEF IInv

(* While loading and normalizing nothing is written, and what is read are   *)
(* documents.                                                               *)
LEMMA LoadingIInv ==
  ASSUME IInv, LoadFile \/ Loaded \/ Suppliers \/ Infrastructures \/ Cluster
  PROVE  IInv'
<1>1. /\ DOMAIN files = {} /\ UNCHANGED files
      /\ phase' \notin {"scope", "render", "resolve", "role"}
      /\ outcome' # "unrenderable"
      /\ at' \in Nat \ {0}
  BY DEF IInv, ValidRenders, LoadFile, Loaded, Suppliers, Infrastructures, Cluster, Goto, End
<1>2. Documents(state') /\ Readable(input')
  <2>1. CASE LoadFile
    <3>1. IsList(input) /\ input # <<>> /\ Readable(input)
      BY <2>1 DEF LoadFile, IInv, Readable
    <3>2. PICK list, X : list = input /\ X = ToSet(list) /\ list \in Seq(X) /\ list # <<>>
      BY <3>1 DEF IsList
    <3>3. input' = Tail(list)
      BY <2>1, <3>2 DEF LoadFile
    <3>4. 1 \in DOMAIN input
      BY <3>2
    <3>5. Readable(input')
      <4>1. PICK n \in Nat : Len(list) = n + 1
        BY <3>2
      <4>3. PICK rest : rest = Tail(list)
        OBVIOUS
      <4>2. /\ rest = [i \in 1..n |-> rest[i]] /\ \A i \in 1..n : rest[i] = list[i + 1]
            /\ DOMAIN list = 1..(n + 1)
        <5>1. /\ rest \in Seq(X) /\ Len(rest) = Len(list) - 1
              /\ \A i \in 1..Len(rest) : rest[i] = list[i + 1]
          BY <3>2, <4>3, HeadTailProperties
        <5>2. Len(rest) = n
          BY <4>1, <5>1
        <5>3. rest = [i \in 1..n |-> rest[i]]
          BY <5>1, <5>2
        <5>4. DOMAIN list = 1..Len(list)
          BY <3>2
        <5> QED
          BY <5>1, <5>2, <5>3, <5>4, <4>1
      <4>4. rest = [i \in 1..n |-> rest[i]] /\ \A i \in 1..n : rest[i] \in ToSet(list)
        <5>1. \A i \in 1..n : i + 1 \in DOMAIN list
          BY <4>2
        <5> QED
          BY <4>2, <4>3, <5>1 DEF ToSet
      <4>5. IsList(rest)
        BY <4>4, IsListOf
      <4>6. ToSet(rest) \subseteq ToSet(list)
        <5>1. DOMAIN rest = 1..n
          BY <4>4
        <5> QED
          BY <5>1, <4>4 DEF ToSet
      <4> QED
        BY <3>1, <3>2, <3>3, <4>3, <4>5, <4>6 DEF Readable
    <3>6. CASE input[1][1] \in Kinds
      <4>1. state' = [state EXCEPT ![input[1][1]] = Append(@, input[1][2])]
        BY <2>1, <3>6 DEF LoadFile
      <4>2. PICK kind, doc : kind = input[1][1] /\ doc = input[1][2]
        OBVIOUS
      <4>3. kind \in Kinds /\ IsDocument(kind, doc)
        BY <3>1, <3>4, <3>6, <4>2 DEF Readable, ToSet
      <4>4. state' = [state EXCEPT ![kind] = Append(@, doc)]
        BY <4>1, <4>2
      <4>5. Documents(state)
        BY DEF IInv
      <4> QED
        BY <3>5, <4>3, <4>4, <4>5, LoadedDocuments
    <3>7. CASE input[1][1] \notin Kinds
      BY <2>1, <3>5, <3>7 DEF LoadFile, IInv
    <3> QED
      BY <3>6, <3>7
  <2>2. CASE Loaded
    BY <2>2, SortedState DEF Loaded, IInv
  <2>3. CASE Suppliers
    BY <2>3, NormalizedSuppliers DEF Suppliers, IInv
  <2>4. CASE Infrastructures
    BY <2>4, NormalizedInfras DEF Infrastructures, IInv
  <2>5. CASE Cluster
    <3>1. IsList(state.clusters) /\ Documents(state)
      BY DEF IInv, Documents, Kinds
    <3>2. at \in DOMAIN state.clusters
      BY <2>5, <3>1, ListEntries DEF Cluster, IInv
    <3> QED
      BY <2>5, <3>1, <3>2, NormalizedCluster DEF Cluster, IInv
  <2> QED
    BY <2>1, <2>2, <2>3, <2>4, <2>5
<1>3. DOMAIN files' = {}
  BY <1>1
<1>4. VarsFirst'
  BY <1>1, <1>3 DEF VarsFirst
<1> QED
  BY <1>1, <1>2, <1>3, <1>4 DEF IInv, Writing, ValidRenders

(* What a file is made of does not change while the documents and the scope *)
(* do not.                                                                  *)
LEMMA SameContent ==
  ASSUME UNCHANGED <<state, scope>>
  PROVE  \A path, content : FromDocuments(path, content)' <=> FromDocuments(path, content)
<1>1. Scoped' = Scoped
  BY DEF Scoped
<1>2. ASSUME NEW path
      PROVE  RenderedContent(path)' = RenderedContent(path) /\ ResolvedContent(path)' = ResolvedContent(path)
  BY <1>1 DEF RenderedContent, ResolvedContent
<1> QED
  BY <1>1, <1>2 DEF FromDocuments

(* A command that ends, or goes on to its next phase, writes nothing.       *)
LEMMA TurningIInv ==
  ASSUME IInv, UNCHANGED <<input, user, state, files>>, at' = 1,
         outcome' # "unrenderable",
         phase' \in {"scope", "render", "resolve", "role", "end"},
         phase' = "scope" => Validate(state) /\ DOMAIN files = {},
         phase' \in {"render", "resolve", "role"} => Validate(state),
         scope' = scope \/ DOMAIN files = {}
  PROVE  IInv'
<1>1. Documents(state') /\ Readable(input') /\ at' \in Nat \ {0}
  BY DEF IInv
<1>2. phase' = "scope" \/ Writing' => Validate(state')
  BY DEF IInv, Writing
<1>3. ASSUME NEW path \in DOMAIN files' PROVE FromDocuments(path, files[path])'
  <2>1. scope' = scope
    BY <1>3
  <2>2. FromDocuments(path, files[path])
    BY <1>3 DEF IInv
  <2>3. PICK content : content = files[path]
    OBVIOUS
  <2>4. FromDocuments(path, content)'
    BY <2>1, <2>2, <2>3, SameContent
  <2> QED
    BY <2>3, <2>4
<1>4. phase' \in {"load", "suppliers", "infras", "clusters", "scope"} => DOMAIN files' = {}
  OBVIOUS
<1>5. VarsFirst'
  BY DEF IInv, VarsFirst
<1> QED
  BY <1>1, <1>2, <1>3, <1>4, <1>5 DEF IInv, ValidRenders

(* And one that writes a file writes what the documents make of it.         *)
LEMMA WritingIInv ==
  ASSUME IInv, phase \in {"render", "resolve", "role"}, UNCHANGED <<input, user, state, scope>>,
         NEW path, NEW content, FromDocuments(path, content), Write(path, content),
         path[1] = "bootstrap" => <<"vars">> \in DOMAIN files,
         phase = "render" => at < 4 \/ <<"vars">> \in DOMAIN files \cup {path}
  PROVE  IInv'
<1>1. CASE End("unwritten") /\ UNCHANGED files
  <2>1. /\ phase' = "end" /\ at' = 1 /\ outcome' = "unwritten" /\ UNCHANGED <<input, user, state, files, scope>>
    BY <1>1 DEF End, Goto
  <2> QED
    BY <2>1, TurningIInv
<1>2. CASE files' = [p \in {path} |-> content] ++ files /\ at' = at + 1 /\ UNCHANGED <<phase, outcome>>
  <2>1. /\ DOMAIN files' = {path} \cup DOMAIN files
        /\ files'[path] = content
        /\ \A p \in DOMAIN files \ {path} : files'[p] = files[p]
    BY <1>2 DEF ++
  <2>2. ASSUME NEW p \in DOMAIN files' PROVE FromDocuments(p, files[p])'
    <3>1. FromDocuments(p, files'[p])
      BY <2>1 DEF IInv
    <3>2. PICK c : c = files'[p]
      OBVIOUS
    <3>3. FromDocuments(p, c)'
      BY <3>1, <3>2, SameContent
    <3> QED
      BY <3>2, <3>3
  <2>3. Documents(state') /\ Readable(input') /\ Validate(state')
    BY DEF IInv, Writing
  <2>4. at' \in Nat \ {0}
    BY <1>2 DEF IInv
  <2>5. ValidRenders' /\ phase' \notin {"load", "suppliers", "infras", "clusters", "scope"}
    BY <1>2 DEF IInv, ValidRenders
  <2>6. VarsFirst'
    <3>1. at \in Nat /\ at' = at + 1 /\ phase' = phase
      BY <1>2 DEF IInv
    <3>2. at < 4 => ~(at' > 4)
      BY <3>1
    <3> QED
      BY <2>1, <3>1, <3>2 DEF IInv, VarsFirst
  <2> QED
    BY <2>2, <2>3, <2>4, <2>5, <2>6 DEF IInv
<1> QED
  BY <1>1, <1>2 DEF Write

(* The configs of a cluster of the scope can be made.                       *)
LEMMA ScopeRenders ==
  ASSUME NEW s, Documents(s), Validate(s), NEW names, NEW f, f = scopeState(s, names),
         NEW ocp \in ToSet(f.clusters)
  PROVE  CanRender(f, ClusterNamed(f, ocp.name))
<1>1. PICK ci, closure : KeptWhole(s, f, ocp, ci, closure)
  BY ScopedCluster
<1>2. /\ infraOf(f, ocp) = {ci} /\ providerForInfrastructure(f, ci) = {closure}
      /\ ClusterNamed(f, ocp.name) = ocp
  BY <1>1 DEF KeptWhole
<1>3. {closure} # {}
  OBVIOUS
<1> QED
  BY <1>1, <1>2, <1>3 DEF CanRender

(* Every step preserves it.                                                 *)
LEMMA NextIInv == IInv /\ [Next]_vars => IInv'
<1> SUFFICES ASSUME IInv, [Next]_vars PROVE IInv'
  OBVIOUS
<1>0. Documents(state) /\ IsList(Scoped.clusters) /\ at \in Nat \ {0}
  <2>1. Documents(state) /\ at \in Nat \ {0}
    BY DEF IInv
  <2>2. PICK f : f = Scoped /\ f = scopeState(state, scope)
    BY DEF Scoped
  <2>3. Documents(f)
    BY <2>1, <2>2, ScopedState
  <2>4. IsList(f.clusters)
    BY <2>3 DEF Documents, Kinds
  <2> QED
    BY <2>1, <2>2, <2>4
<1>1. CASE LoadFile \/ Loaded \/ Suppliers \/ Infrastructures \/ Cluster
  BY <1>1, LoadingIInv
<1>2. CASE Check
  <2>1. DOMAIN files = {}
    BY <1>2 DEF Check, IInv
  <2>2. /\ UNCHANGED <<input, user, state, files, scope>> /\ at' = 1
        /\ \/ Validate(state) /\ phase' = "scope" /\ UNCHANGED outcome
           \/ phase' = "end" /\ outcome' = "refused"
    BY <1>2 DEF Check, Goto, End
  <2>3. outcome' # "unrenderable"
    BY <2>2 DEF IInv, ValidRenders
  <2> QED
    BY <2>1, <2>2, <2>3, TurningIInv
<1>3. CASE Scope
  <2>1. DOMAIN files = {} /\ Validate(state)
    BY <1>3 DEF Scope, IInv
  <2>2. /\ UNCHANGED <<input, user, state, files>> /\ at' = 1
        /\ \/ phase' = "render" /\ UNCHANGED outcome
           \/ phase' = "end" /\ outcome' = "refused"
    BY <1>3 DEF Scope, Goto, End
  <2>3. outcome' # "unrenderable"
    BY <2>2 DEF IInv, ValidRenders
  <2> QED
    BY <2>1, <2>2, <2>3, TurningIInv
<1>4. CASE Render
  <2>1. Validate(state) /\ at <= Len(Rendered) /\ phase = "render"
    BY <1>4 DEF Render, IInv, Writing
  <2>2. PICK path : path = Rendered[at]
    OBVIOUS
  <2>3. \/ /\ at <= 4 /\ path \in {<<"effective-state">>, <<"lock">>, <<"inventory">>, <<"vars">>}
           /\ at = 4 => path = <<"vars">>
        \/ at > 4 /\ \E name \in ClusterNames(Scoped), file \in ConfigFiles : path = <<"bootstrap", name, file>>
    BY <1>0, <2>1, <2>2, RenderedPaths
  <2>4. Renders(path)
    <3>1. CASE path \in {<<"effective-state">>, <<"lock">>, <<"inventory">>, <<"vars">>}
      BY <3>1 DEF Renders
    <3>2. CASE \E name \in ClusterNames(Scoped), file \in ConfigFiles : path = <<"bootstrap", name, file>>
      <4>1. PICK s, f : s = state /\ f = Scoped /\ f = scopeState(s, scope)
        BY DEF Scoped
      <4>2. PICK name \in ClusterNames(f), file \in ConfigFiles : path = <<"bootstrap", name, file>>
        BY <3>2, <4>1
      <4>3. PICK ocp \in ToSet(f.clusters) : ocp.name = name
        BY <4>2 DEF ClusterNames
      <4>4. Documents(s) /\ Validate(s)
        BY <1>0, <2>1, <4>1
      <4>5. CanRender(f, ClusterNamed(f, ocp.name))
        BY <4>1, <4>3, <4>4, ScopeRenders
      <4>6. path[2] = name
        BY <4>2
      <4> QED
        BY <4>1, <4>3, <4>5, <4>6 DEF Renders
    <3> QED
      BY <2>3, <3>1, <3>2
  <2>5. Write(path, RenderedContent(path)) /\ UNCHANGED <<input, user, state, scope>>
    BY <1>4, <2>2, <2>4 DEF Render
  <2>6. FromDocuments(path, RenderedContent(path))
    <3>1. path = <<"vars">> => RenderedContent(path) = Vars(Scoped)
      BY DEF RenderedContent
    <3> QED
      BY <2>3, <3>1 DEF FromDocuments
  <2>7. /\ path[1] = "bootstrap" => <<"vars">> \in DOMAIN files
        /\ at < 4 \/ <<"vars">> \in DOMAIN files \cup {path}
    <3>1. CASE at <= 4 /\ path \in {<<"effective-state">>, <<"lock">>, <<"inventory">>, <<"vars">>}
      <4>1. at < 4 \/ at = 4
        BY <1>0, <3>1
      <4>2. path[1] # "bootstrap"
        BY <3>1
      <4> QED
        BY <2>3, <3>1, <4>1, <4>2
    <3>2. CASE at > 4
      BY <2>1, <3>2 DEF IInv, VarsFirst
    <3> QED
      BY <2>3, <3>1, <3>2
  <2> QED
    BY <2>1, <2>5, <2>6, <2>7, WritingIInv
<1>5. CASE AfterRender
  <2>1. Validate(state)
    BY <1>5 DEF AfterRender, IInv, Writing
  <2>2. /\ UNCHANGED <<input, user, state, files, scope>> /\ at' = 1
        /\ \/ phase' \in {"resolve", "role"} /\ UNCHANGED outcome
           \/ phase' = "end" /\ outcome' = "done"
    BY <1>5 DEF AfterRender, Goto, End
  <2>3. outcome' # "unrenderable"
    BY <2>2 DEF IInv, ValidRenders
  <2> QED
    BY <2>1, <2>2, <2>3, TurningIInv
<1>6. CASE ResolveInstaller
  <2>0. UNCHANGED <<input, user, state, scope>> /\ phase = "resolve"
    BY <1>6 DEF ResolveInstaller
  <2>1. CASE UNCHANGED files /\ (End("done") \/ End("credentials"))
    <3>1. UNCHANGED <<input, user, state, files, scope>> /\ at' = 1 /\ phase' = "end" /\ outcome' \in {"done", "credentials"}
      BY <2>0, <2>1 DEF Goto, End
    <3> QED
      BY <3>1, TurningIInv
  <2>2. CASE at <= Len(Resolving) /\ Write(Resolving[at], ResolvedContent(Resolving[at]))
    <3>1. PICK path : path = Resolving[at]
      OBVIOUS
    <3>2. \E name \in ClusterNames(Scoped), file \in ConfigFiles : path = <<"runtime", name, file>>
      BY <1>0, <2>2, <3>1, ResolvedPaths
    <3>3. FromDocuments(path, ResolvedContent(path)) /\ path[1] # "bootstrap"
      BY <3>2 DEF FromDocuments
    <3> QED
      BY <2>0, <2>2, <3>1, <3>3, WritingIInv
  <2>3. ~(at > Len(Resolving)) => at <= Len(Resolving)
    <3>1. Len(Resolving) \in Nat
      BY <1>0, ClusterPaths, ListEntries DEF Resolving
    <3> QED
      BY <1>0, <3>1
  <2> QED
    BY <1>6, <2>1, <2>2, <2>3 DEF ResolveInstaller
<1>7. CASE InstallAgent
  <2>0. UNCHANGED <<input, user, state, scope>> /\ phase = "role"
    BY <1>7 DEF InstallAgent
  <2>1. CASE UNCHANGED files /\ (End("done") \/ End("unreleased"))
    <3>1. UNCHANGED <<input, user, state, files, scope>> /\ at' = 1 /\ phase' = "end" /\ outcome' \in {"done", "unreleased"}
      BY <2>0, <2>1 DEF Goto, End
    <3> QED
      BY <3>1, TurningIInv
  <2>2. CASE /\ ~(at > Len(Scoped.clusters))
             /\ \E content : Write(<<"installer", Scoped.clusters[at].name, "install-config">>, content)
    <3>1. at \in DOMAIN Scoped.clusters
      BY <1>0, <2>2, ListEntries
    <3>2. Scoped.clusters[at].name \in ClusterNames(Scoped)
      BY <3>1 DEF ClusterNames, ToSet
    <3>3. PICK path : path = <<"installer", Scoped.clusters[at].name, "install-config">>
      OBVIOUS
    <3>4. path[1] # "bootstrap" /\ \A content : FromDocuments(path, content)
      BY <3>2, <3>3 DEF FromDocuments, ConfigFiles
    <3> QED
      BY <2>0, <2>2, <3>3, <3>4, WritingIInv
  <2> QED
    BY <1>7, <2>1, <2>2 DEF InstallAgent
<1>8. CASE UNCHANGED vars
  <2>1. UNCHANGED <<input, user, state, scope, phase, at, files, outcome>>
    BY <1>8 DEF vars
  <2>2. ASSUME NEW path \in DOMAIN files' PROVE FromDocuments(path, files[path])'
    <3>1. FromDocuments(path, files[path])
      BY <2>1 DEF IInv
    <3>2. PICK c : c = files[path]
      OBVIOUS
    <3>3. FromDocuments(path, c)'
      BY <2>1, <3>1, <3>2, SameContent
    <3> QED
      BY <2>1, <3>2, <3>3
  <2>3. VarsFirst'
    BY <2>1 DEF IInv, VarsFirst
  <2> QED
    BY <2>1, <2>2, <2>3 DEF IInv, Writing, ValidRenders
<1> QED
  BY <1>1, <1>2, <1>3, <1>4, <1>5, <1>6, <1>7, <1>8 DEF Next

(* The invariant of every run of the command.                               *)
THEOREM DocumentsAreKept == Spec => []IInv
  BY InitIInv, NextIInv, PTL DEF Spec

(* Documents that are valid can be rendered (installer.go,                  *)
(* providerForInfrastructure): the closure that validation built for an     *)
(* infrastructure holds together in the scope, and supplies its machines.   *)
THEOREM ValidIsRendered == Spec => []ValidRenders
<1>1. IInv => ValidRenders
  BY DEF IInv
<1> QED
  BY <1>1, DocumentsAreKept, PTL

--------------------------------------------------------------------------------
(* Loading settles: what Normalize has been over, it leaves as it is.       *)

(* The greatest number of a set of numbers up to n is one of them.          *)
LEMMA GreatestOf ==
  ASSUME NEW n \in Nat, NEW S \in SUBSET (1..n), S # {}
  PROVE  Max(S) \in S
<1> DEFINE below == {k \in 0..n : n - k \in S}
<1>1. \A x \in S : n - x \in below
  <2> TAKE x \in S
  <2>1. x \in 1..n
    OBVIOUS
  <2>2. n - x \in 0..n /\ n - (n - x) = x
    BY <2>1
  <2> QED
    BY <2>2
<1>2. below \subseteq Nat /\ below # {}
  <2>1. PICK x : x \in S
    OBVIOUS
  <2>2. below \subseteq 0..n /\ n - x \in below
    BY <1>1, <2>1
  <2> HIDE DEF below
  <2> QED
    BY <2>2
<1>3. IsFiniteSet(below)
  <2>1. IsFiniteSet(0..n)
    BY FS_Interval
  <2> QED
    BY <2>1, FS_Subset
<1>4. Min(below) \in below /\ \A k \in below : Min(below) <= k
  <2> HIDE DEF below
  <2> QED
    BY <1>2, <1>3, LeastOf
<1>5. PICK k \in 0..n : n - k \in S /\ \A j \in below : k <= j
  <2>1. PICK k : k = Min(below)
    OBVIOUS
  <2> QED
    BY <1>4, <2>1
<1>6. \A x \in S : n - k >= x
  <2> TAKE x \in S
  <2>1. n - x \in below /\ x \in 1..n
    BY <1>1
  <2> HIDE DEF below
  <2>2. k <= n - x
    BY <1>5, <2>1
  <2> QED
    BY <2>1, <2>2
<1> QED
  BY <1>5, <1>6 DEF Max

(* Folding over the numbers up to n what leaves the start as it is.  The    *)
(* fold is a function over the sets of numbers left; a smallest set where   *)
(* it is not the start would have a smaller one.                            *)
LEMMA FoldSettles ==
  ASSUME NEW s, NEW n \in Nat, \A i \in 1..n : NormalizeClusterAt(s, i, Hubs) = s
  PROVE  FoldLeft(LAMBDA t, i : NormalizeClusterAt(t, i, Hubs), s, [i \in 1..n |-> i]) = s
<1> DEFINE all == [i \in 1..n |-> i]
           P == SUBSET (1..n)
           Step(it, S) == IF S = {} THEN s ELSE LET x == Max(S) IN NormalizeClusterAt(it[S \ {x}], all[x], Hubs)
           iter == CHOOSE it : it = [S \in P |-> Step(it, S)]
           const == [S \in P |-> s]
<1>1. FoldLeft(LAMBDA t, i : NormalizeClusterAt(t, i, Hubs), s, all) = iter[1..n]
  <2>1. DOMAIN all = 1..n
    OBVIOUS
  <2> QED
    BY <2>1 DEF FoldLeft, MapThenFoldSet
<1>2. \A S \in P : S # {} => Max(S) \in S
  BY GreatestOf
<1>3. const = [S \in P |-> Step(const, S)]
  <2>1. ASSUME NEW S \in P PROVE Step(const, S) = s
    <3>1. CASE S # {}
      <4>1. PICK x : x = Max(S) /\ x \in S
        BY <1>2, <3>1
      <4>2. const[S \ {x}] = s /\ all[x] = x /\ x \in 1..n
        BY <4>1
      <4> QED
        BY <3>1, <4>1, <4>2
    <3> QED
      BY <3>1
  <2> HIDE DEF Step
  <2> QED
    BY <2>1
<1>4. iter = [S \in P |-> Step(iter, S)]
  <2> HIDE DEF const, Step
  <2> QED
    BY <1>3
<1>5. PICK it : it = iter /\ it = [S \in P |-> Step(it, S)]
  <2> HIDE DEF Step
  <2> QED
    BY <1>4
<1> DEFINE Wrong == {k \in 0..n : \E S \in P : it[S] # s /\ Cardinality(S) = k}
<1>6. ASSUME NEW S \in P PROVE Cardinality(S) \in 0..n /\ IsFiniteSet(S)
  <2>1. IsFiniteSet(1..n) /\ Cardinality(1..n) = n
    BY FS_Interval
  <2>2. IsFiniteSet(S) /\ Cardinality(S) \in Nat /\ Cardinality(S) <= n
    BY <2>1, FS_Subset, FS_CardinalityType
  <2> QED
    BY <2>2
<1>7. ASSUME Wrong # {} PROVE FALSE
  <2>1. Wrong \subseteq Nat /\ IsFiniteSet(Wrong)
    <3>1. IsFiniteSet(0..n)
      BY FS_Interval
    <3> QED
      BY <3>1, FS_Subset
  <2>2. Min(Wrong) \in Wrong /\ \A k \in Wrong : Min(Wrong) <= k
    <3> HIDE DEF Wrong
    <3> QED
      BY <1>7, <2>1, LeastOf
  <2>3. PICK k : k \in Wrong /\ \A j \in Wrong : k <= j
    BY <2>2
  <2>4. PICK S \in P : it[S] # s /\ Cardinality(S) = k /\ k \in 0..n
    BY <2>3
  <2>5. S # {}
    BY <1>5, <2>4
  <2>6. PICK x : x = Max(S) /\ x \in S /\ x \in 1..n
    BY <1>2, <2>4, <2>5
  <2>7. it[S] = NormalizeClusterAt(it[S \ {x}], x, Hubs)
    <3>1. all[x] = x
      BY <2>6
    <3>2. it[S] = Step(it, S)
      BY <1>5
    <3> QED
      BY <2>5, <2>6, <3>1, <3>2
  <2>8. it[S \ {x}] # s
    BY <2>4, <2>6, <2>7
  <2>9. Cardinality(S \ {x}) = k - 1 /\ S \ {x} \in P
    BY <1>6, <2>4, <2>6, FS_RemoveElement
  <2>10. k - 1 \in Wrong
    BY <1>6, <2>8, <2>9
  <2> HIDE DEF Wrong
  <2> QED
    BY <2>3, <2>4, <2>10
<1>8. it[1..n] = s
  <2>1. 1..n \in P
    OBVIOUS
  <2>2. it[1..n] # s => Cardinality(1..n) \in Wrong
    BY <1>6, <2>1
  <2> HIDE DEF Wrong
  <2> QED
    BY <1>7, <2>2
<1> QED
  BY <1>1, <1>5, <1>8

(* Document by document, what that says of a state.                         *)
SuppliersAre(s, u) ==
  /\ \A i \in DOMAIN s.environments : defaultEnvironmentSecrets(s.environments[i]) = s.environments[i]
  /\ \A i \in DOMAIN s.providers : normalizeProvider(s.providers[i], u) = s.providers[i]

InfraIs(s, ci) == normalizeClusterInfrastructure(ci, closureProvider(ci, IndexOf(s.providers))) = ci

ClusterIs(s, i) ==
  LET c == clusterInfraByName(s, s.clusters[i].infra)
  IN  /\ normalizeOCPCluster(s.clusters[i], primaryEnvironment(s), Hubs) = s.clusters[i]
      /\ c # 0 => defaultEndpointHostnames(s.infras[c], primaryEnvironment(s), s.clusters[i].name) = s.infras[c]

(* How far a command has come with it.                                      *)
Settled ==
  /\ phase \in {"infras", "clusters", "scope"} => SuppliersAre(state, user)
  /\ phase \in {"clusters", "scope"} => \A ci \in ToSet(state.infras) : InfraIs(state, ci)
  /\ phase = "clusters" => \A i \in DOMAIN state.clusters : i < at => ClusterIs(state, i)
  /\ phase = "scope" => \A i \in DOMAIN state.clusters : ClusterIs(state, i)

(* The rounds, one by one: the environments and the providers.              *)
LEMMA SuppliersSettle ==
  ASSUME NEW s, Documents(s), NEW u
  PROVE  SuppliersAre(NormalizeSuppliers(s, u), u)
<1>1. PICK t : t = NormalizeSuppliers(s, u)
  OBVIOUS
<1>2. DOMAIN s = Kinds /\ \A k \in Kinds : \A i \in DOMAIN s[k] : IsDocument(k, s[k][i])
  BY DEF Documents, ToSet
<1>3. /\ t.environments = [i \in DOMAIN s.environments |-> defaultEnvironmentSecrets(s.environments[i])]
      /\ t.providers = [i \in DOMAIN s.providers |-> normalizeProvider(s.providers[i], u)]
  BY <1>1, <1>2 DEF NormalizeSuppliers, Kinds
<1>4. ASSUME NEW i \in DOMAIN s.environments
      PROVE  defaultEnvironmentSecrets(t.environments[i]) = t.environments[i]
  <2>1. PICK env : env = s.environments[i]
    OBVIOUS
  <2>2. DOMAIN env = DOMAIN EmptyEnvironment
    BY <1>2, <2>1 DEF IsDocument, Empty, Kinds
  <2> QED
    BY <1>3, <2>1, <2>2, EnvironmentSettles
<1>5. ASSUME NEW i \in DOMAIN s.providers
      PROVE  normalizeProvider(t.providers[i], u) = t.providers[i]
  <2>1. PICK p : p = s.providers[i]
    OBVIOUS
  <2>2. DOMAIN p = DOMAIN EmptyProvider
    BY <1>2, <2>1 DEF IsDocument, Empty, Kinds
  <2> QED
    BY <1>3, <2>1, <2>2, ProviderSettles
<1> QED
  BY <1>1, <1>3, <1>4, <1>5 DEF SuppliersAre

(* The infrastructures.                                                     *)
LEMMA InfrasSettle ==
  ASSUME NEW s, Documents(s), NEW u, SuppliersAre(s, u), NEW t, t = NormalizeInfras(s)
  PROVE  SuppliersAre(t, u) /\ \A ci \in ToSet(t.infras) : InfraIs(t, ci)
<1>1. DOMAIN s = Kinds /\ \A k \in Kinds : \A i \in DOMAIN s[k] : IsDocument(k, s[k][i])
  BY DEF Documents, ToSet
<1>2. /\ t.infras = [i \in DOMAIN s.infras |->
                        normalizeClusterInfrastructure(s.infras[i], closureProvider(s.infras[i], IndexOf(s.providers)))]
      /\ t.environments = s.environments /\ t.providers = s.providers
  BY <1>1 DEF NormalizeInfras, Kinds
<1>3. ASSUME NEW ci \in ToSet(t.infras) PROVE InfraIs(t, ci)
  <2>1. PICK i \in DOMAIN s.infras : ci = t.infras[i]
    BY <1>2 DEF ToSet
  <2>2. PICK old, index : old = s.infras[i] /\ index = IndexOf(s.providers)
    OBVIOUS
  <2>3. ci = normalizeClusterInfrastructure(old, closureProvider(old, index))
    BY <1>2, <2>1, <2>2
  <2>4. IsDocument("infras", old)
    BY <1>1, <2>2 DEF Kinds
  <2>5. normalizeClusterInfrastructure(ci, closureProvider(ci, index)) = ci
    BY <2>3, <2>4, InfraSettles
  <2> QED
    BY <1>2, <2>2, <2>5 DEF InfraIs
<1> QED
  BY <1>2, <1>3 DEF SuppliersAre

(* What one round of the loop over the clusters changes.                    *)
LEMMA Round ==
  ASSUME NEW s, Documents(s), NEW i \in DOMAIN s.clusters, NEW t, t = NormalizeClusterAt(s, i, Hubs),
         NEW c, c = clusterInfraByName(s, s.clusters[i].infra),
         NEW envs, envs = primaryEnvironment(s)
  PROVE  /\ t.environments = s.environments /\ t.providers = s.providers
         /\ DOMAIN t.clusters = DOMAIN s.clusters
         /\ t.clusters[i] = normalizeOCPCluster(s.clusters[i], envs, Hubs)
         /\ \A j \in DOMAIN s.clusters \ {i} : t.clusters[j] = s.clusters[j]
         /\ DOMAIN t.infras = DOMAIN s.infras
         /\ c # 0 => t.infras[c] = defaultEndpointHostnames(s.infras[c], envs, s.clusters[i].name)
         /\ \A j \in DOMAIN s.infras \ {c} : t.infras[j] = s.infras[j]
<1>1. DOMAIN s = Kinds
  BY DEF Documents
<1>2. PICK ocp, ci : /\ ocp = normalizeOCPCluster(s.clusters[i], envs, Hubs)
                     /\ ci = defaultEndpointHostnames(s.infras[c], envs, s.clusters[i].name)
  OBVIOUS
<1>3. t = IF c = 0 THEN [s EXCEPT !.clusters[i] = ocp] ELSE [[s EXCEPT !.clusters[i] = ocp] EXCEPT !.infras[c] = ci]
  BY <1>2 DEF NormalizeClusterAt
<1>4. c # 0 => c \in DOMAIN s.infras
  BY InfraPosition
<1>5. CASE c = 0
  <2>1. t = [s EXCEPT !.clusters[i] = ocp]
    BY <1>3, <1>5
  <2>2. 0 \notin DOMAIN s.infras \/ t.infras = s.infras
    BY <1>1, <2>1 DEF Kinds
  <2> QED
    BY <1>1, <1>2, <1>5, <2>1 DEF Kinds
<1>6. CASE c # 0
  <2>1. t = [[s EXCEPT !.clusters[i] = ocp] EXCEPT !.infras[c] = ci]
    BY <1>3, <1>6
  <2>2. t.clusters = [s.clusters EXCEPT ![i] = ocp] /\ t.infras = [s.infras EXCEPT ![c] = ci]
    BY <1>1, <2>1 DEF Kinds
  <2>3. t.environments = s.environments /\ t.providers = s.providers
    BY <1>1, <2>1 DEF Kinds
  <2> QED
    BY <1>2, <1>4, <1>6, <2>2, <2>3
<1> QED
  BY <1>5, <1>6

(* A round settles its cluster and unsettles nothing.                       *)
LEMMA RoundSettles ==
  ASSUME NEW s, Documents(s), NEW i \in DOMAIN s.clusters, NEW t, t = NormalizeClusterAt(s, i, Hubs), NEW u
  PROVE  /\ ClusterIs(t, i)
         /\ \A j \in DOMAIN s.clusters : ClusterIs(s, j) => ClusterIs(t, j)
         /\ SuppliersAre(s, u) => SuppliersAre(t, u)
         /\ (\A ci \in ToSet(s.infras) : InfraIs(s, ci)) => \A ci \in ToSet(t.infras) : InfraIs(t, ci)
<1>1. PICK c, envs, name, infra :
         /\ c = clusterInfraByName(s, s.clusters[i].infra) /\ envs = primaryEnvironment(s)
         /\ name = s.clusters[i].name /\ infra = s.clusters[i].infra
  OBVIOUS
<1>2. /\ t.environments = s.environments /\ t.providers = s.providers
      /\ DOMAIN t.clusters = DOMAIN s.clusters
      /\ t.clusters[i] = normalizeOCPCluster(s.clusters[i], envs, Hubs)
      /\ \A j \in DOMAIN s.clusters \ {i} : t.clusters[j] = s.clusters[j]
      /\ DOMAIN t.infras = DOMAIN s.infras
      /\ c # 0 => t.infras[c] = defaultEndpointHostnames(s.infras[c], envs, name)
      /\ \A j \in DOMAIN s.infras \ {c} : t.infras[j] = s.infras[j]
  BY <1>1, Round
<1>3. /\ IsDocument("clusters", s.clusters[i])
      /\ \A j \in DOMAIN s.infras : IsDocument("infras", s.infras[j])
      /\ \A env \in envs : IsDocument("environments", env)
  <2>1. \A k \in Kinds : \A j \in DOMAIN s[k] : IsDocument(k, s[k][j])
    BY DEF Documents, ToSet
  <2> QED
    BY <1>1, <2>1 DEF Kinds, primaryEnvironment
<1>4. primaryEnvironment(t) = envs
  BY <1>1, <1>2 DEF primaryEnvironment
<1>5. /\ normalizeOCPCluster(t.clusters[i], envs, Hubs) = t.clusters[i]
      /\ t.clusters[i].name = name /\ t.clusters[i].infra = infra
  <2>1. PICK old, new : old = s.clusters[i] /\ new = t.clusters[i]
    OBVIOUS
  <2>2. normalizeOCPCluster(new, envs, Hubs) = new /\ new.name = old.name /\ new.infra = old.infra
    BY <1>2, <1>3, <2>1, ClusterSettles
  <2> QED
    BY <1>1, <2>1, <2>2
<1>6. c # 0 => c \in DOMAIN s.infras
  BY <1>1, InfraPosition
<1>7. ASSUME NEW j \in DOMAIN s.infras
      PROVE  /\ t.infras[j].name = s.infras[j].name
             /\ t.infras[j].providerRefs = s.infras[j].providerRefs
             /\ t.infras[j].machines = s.infras[j].machines
             /\ IsMap(s.infras[j]) => IsMap(t.infras[j])
             /\ DOMAIN t.infras[j] = DOMAIN s.infras[j]
  <2>1. CASE j # c
    BY <1>2, <2>1
  <2>2. CASE j = c /\ c # 0
    <3>1. PICK old, new : old = s.infras[c] /\ new = t.infras[c] /\ new = defaultEndpointHostnames(old, envs, name)
      BY <1>2, <2>2
    <3>2. {"name", "providerRefs", "machines"} \subseteq DOMAIN old
      BY <1>3, <2>2, <3>1 DEF IsDocument, Empty, EmptyInfrastructure
    <3>3. /\ new.name = old.name /\ new.providerRefs = old.providerRefs /\ new.machines = old.machines
          /\ DOMAIN new = DOMAIN old
      BY <3>1, <3>2 DEF defaultEndpointHostnames
    <3>4. IsMap(old) => IsMap(new)
      BY <3>1 DEF defaultEndpointHostnames, IsMap
    <3> QED
      BY <2>2, <3>1, <3>3, <3>4
  <2>3. CASE j = 0 /\ c = 0
    <3>1. 0 \notin DOMAIN s.infras
      <4>1. IsList(s.infras)
        BY DEF Documents, Kinds
      <4>2. DOMAIN s.infras = 1..Len(s.infras) /\ Len(s.infras) \in Nat
        BY <4>1, ListEntries
      <4> QED
        BY <4>2
    <3> QED
      BY <2>3, <3>1
  <2> QED
    BY <2>1, <2>2, <2>3
<1>8. \A x : clusterInfraByName(t, x) = clusterInfraByName(s, x)
  <2> TAKE x
  <2>1. {j \in DOMAIN t.infras : t.infras[j].name = x} = {j \in DOMAIN s.infras : s.infras[j].name = x}
    BY <1>2, <1>7
  <2> QED
    BY <2>1 DEF clusterInfraByName
<1>9. ClusterIs(t, i)
  <2>1. ASSUME c # 0 PROVE defaultEndpointHostnames(t.infras[c], envs, name) = t.infras[c]
    <3>1. PICK old, new : old = s.infras[c] /\ new = t.infras[c] /\ new = defaultEndpointHostnames(old, envs, name)
      BY <1>2, <2>1
    <3>2. DOMAIN old = DOMAIN EmptyInfrastructure
      BY <1>3, <1>6, <2>1, <3>1 DEF IsDocument, Empty
    <3> QED
      BY <3>1, <3>2, HostnamesSettle
  <2>2. clusterInfraByName(t, t.clusters[i].infra) = c
    BY <1>1, <1>5, <1>8
  <2> QED
    BY <1>4, <1>5, <2>1, <2>2 DEF ClusterIs
<1>10. ASSUME NEW j \in DOMAIN s.clusters, ClusterIs(s, j), j # i PROVE ClusterIs(t, j)
  <2>1. PICK d, other : d = clusterInfraByName(s, s.clusters[j].infra) /\ other = s.clusters[j].name
    OBVIOUS
  <2>2. /\ normalizeOCPCluster(s.clusters[j], envs, Hubs) = s.clusters[j]
        /\ d # 0 => defaultEndpointHostnames(s.infras[d], envs, other) = s.infras[d]
    BY <1>1, <1>10, <2>1 DEF ClusterIs
  <2>3. t.clusters[j] = s.clusters[j]
    BY <1>2, <1>10
  <2>4. clusterInfraByName(t, t.clusters[j].infra) = d
    BY <1>8, <2>1, <2>3
  <2>5. ASSUME d # 0 PROVE defaultEndpointHostnames(t.infras[d], envs, other) = t.infras[d]
    <3>1. d \in DOMAIN s.infras
      BY <2>1, <2>5, InfraPosition
    <3>2. CASE d # c
      BY <1>2, <2>2, <2>5, <3>1, <3>2
    <3>3. CASE d = c
      <4>1. PICK old, new : old = s.infras[c] /\ new = t.infras[c] /\ new = defaultEndpointHostnames(old, envs, name)
        BY <1>2, <2>5, <3>3
      <4>2. DOMAIN old = DOMAIN EmptyInfrastructure
        BY <1>3, <3>1, <3>3, <4>1 DEF IsDocument, Empty
      <4> QED
        BY <3>3, <4>1, <4>2, HostnamesSettle
    <3> QED
      BY <3>2, <3>3
  <2> QED
    BY <1>4, <2>1, <2>2, <2>3, <2>4, <2>5 DEF ClusterIs
<1>11. SuppliersAre(s, u) => SuppliersAre(t, u)
  BY <1>2 DEF SuppliersAre
<1>12. ASSUME \A ci \in ToSet(s.infras) : InfraIs(s, ci), NEW new \in ToSet(t.infras)
       PROVE  InfraIs(t, new)
  <2>1. PICK j \in DOMAIN s.infras : new = t.infras[j]
    BY <1>2 DEF ToSet
  <2>2. PICK old, index : old = s.infras[j] /\ index = IndexOf(s.providers)
    OBVIOUS
  <2>3. PICK p : p = closureProvider(old, index)
    OBVIOUS
  <2>4. normalizeClusterInfrastructure(old, p) = old
    <3>1. old \in ToSet(s.infras)
      BY <2>2 DEF ToSet
    <3> QED
      BY <1>12, <2>2, <2>3, <3>1 DEF InfraIs
  <2>5. DOMAIN old = DOMAIN EmptyInfrastructure /\ "machines" \in DOMAIN old
    BY <1>3, <2>2 DEF IsDocument, Empty, EmptyInfrastructure
  <2>6. IsMap(old) /\ old.machines = Machines(old.name, old.machines, p)
    BY <2>4, <2>5, InfraMachines DEF IsMap
  <2>7. /\ IsMap(new) /\ new.name = old.name /\ new.providerRefs = old.providerRefs
        /\ new.machines = old.machines
    BY <1>7, <2>1, <2>2, <2>6
  <2>8. closureProvider(new, index) = p
    BY <2>3, <2>7, ClosureOfReferences
  <2>9. [new EXCEPT !.machines = Machines(new.name, new.machines, p)] = new
    BY <2>6, <2>7, SameField
  <2> QED
    BY <1>2, <2>2, <2>8, <2>9, InfraMachines DEF InfraIs
<1> QED
  BY <1>9, <1>10, <1>11, <1>12

(* A state that is settled, document by document, is one Normalize leaves   *)
(* as it is.                                                                *)
LEMMA SettledState ==
  ASSUME NEW s, Documents(s), NEW u, SuppliersAre(s, u), \A ci \in ToSet(s.infras) : InfraIs(s, ci),
         \A i \in DOMAIN s.clusters : ClusterIs(s, i)
  PROVE  Normalize(s, u, Hubs) = s
<1>1. IsMap(s) /\ DOMAIN s = Kinds /\ \A k \in Kinds : IsList(s[k])
  BY DEF Documents, IsMap
<1>2. ASSUME NEW docs, IsList(docs) PROVE IsMap(docs) /\ \E n \in Nat : DOMAIN docs = 1..n
  BY <1>2, ListEntries DEF IsMap
<1>3. IsMap(s.environments) /\ IsMap(s.providers) /\ IsMap(s.infras) /\ IsMap(s.clusters)
  BY <1>1, <1>2 DEF Kinds
<1>4. NormalizeSuppliers(s, u) = s
  <2>1. PICK envs, providers :
          /\ envs = [i \in DOMAIN s.environments |-> defaultEnvironmentSecrets(s.environments[i])]
          /\ providers = [i \in DOMAIN s.providers |-> normalizeProvider(s.providers[i], u)]
    OBVIOUS
  <2>2. envs = s.environments /\ providers = s.providers
    BY <1>3, <2>1 DEF SuppliersAre, IsMap
  <2>3. [s EXCEPT !.environments = envs] = s /\ [s EXCEPT !.providers = providers] = s
    BY <1>1, <2>2, SameField
  <2> QED
    BY <2>1, <2>3 DEF NormalizeSuppliers
<1>5. NormalizeInfras(s) = s
  <2>1. PICK infras : infras =
          [i \in DOMAIN s.infras |->
             normalizeClusterInfrastructure(s.infras[i], closureProvider(s.infras[i], IndexOf(s.providers)))]
    OBVIOUS
  <2>2. infras = s.infras
    BY <1>3, <2>1 DEF InfraIs, IsMap, ToSet
  <2>3. [s EXCEPT !.infras = infras] = s
    BY <1>1, <2>2, SameField
  <2> QED
    BY <2>1, <2>3 DEF NormalizeInfras
<1>6. ASSUME NEW i \in DOMAIN s.clusters PROVE NormalizeClusterAt(s, i, Hubs) = s
  <2>1. PICK c, envs, ocp, ci :
          /\ c = clusterInfraByName(s, s.clusters[i].infra) /\ envs = primaryEnvironment(s)
          /\ ocp = normalizeOCPCluster(s.clusters[i], envs, Hubs)
          /\ ci = defaultEndpointHostnames(s.infras[c], envs, s.clusters[i].name)
    OBVIOUS
  <2>2. ocp = s.clusters[i] /\ (c # 0 => ci = s.infras[c])
    BY <2>1 DEF ClusterIs
  <2>3. NormalizeClusterAt(s, i, Hubs) =
          IF c = 0 THEN [s EXCEPT !.clusters[i] = ocp] ELSE [[s EXCEPT !.clusters[i] = ocp] EXCEPT !.infras[c] = ci]
    BY <2>1 DEF NormalizeClusterAt
  <2>4. [s.clusters EXCEPT ![i] = ocp] = s.clusters /\ (c # 0 => [s.infras EXCEPT ![c] = ci] = s.infras)
    BY <1>3, <2>2, SameField
  <2>5. [s EXCEPT !.clusters[i] = ocp] = s
    BY <1>1, <2>4, SameField
  <2>6. c # 0 => [s EXCEPT !.infras[c] = ci] = s
    BY <1>1, <2>4, SameField
  <2> QED
    BY <2>3, <2>5, <2>6
<1>7. PICK n \in Nat : DOMAIN s.clusters = 1..n
  BY <1>1, <1>2 DEF Kinds
<1>8. FoldLeft(LAMBDA t, i : NormalizeClusterAt(t, i, Hubs), s, [i \in 1..n |-> i]) = s
  BY <1>6, <1>7, FoldSettles
<1> QED
  BY <1>4, <1>5, <1>7, <1>8 DEF Normalize

(* Every step keeps what is settled.                                        *)
LEMMA NextSettled == IInv /\ Settled /\ [Next]_vars => Settled'
<1> SUFFICES ASSUME IInv, Settled, [Next]_vars PROVE Settled'
  OBVIOUS
<1>1. Documents(state)
  BY DEF IInv
<1>2. CASE Suppliers
  <2>1. state' = NormalizeSuppliers(state, user) /\ user' = user /\ phase' = "infras"
    BY <1>2 DEF Suppliers, Goto
  <2>2. SuppliersAre(state', user')
    BY <1>1, <2>1, SuppliersSettle
  <2> QED
    BY <2>1, <2>2 DEF Settled
<1>3. CASE Infrastructures
  <2>1. state' = NormalizeInfras(state) /\ user' = user /\ phase = "infras" /\ phase' = "clusters" /\ at' = 1
    BY <1>3 DEF Infrastructures, Goto
  <2>2. SuppliersAre(state, user)
    BY <2>1 DEF Settled
  <2>3. SuppliersAre(state', user') /\ \A ci \in ToSet(state'.infras) : InfraIs(state', ci)
    BY <1>1, <2>1, <2>2, InfrasSettle
  <2>4. \A i \in DOMAIN state'.clusters : ~(i < 1)
    <3>1. Documents(state')
      BY <1>1, <2>1, NormalizedInfras
    <3>2. IsList(state'.clusters)
      BY <3>1 DEF Documents, Kinds
    <3>3. DOMAIN state'.clusters = 1..Len(state'.clusters) /\ Len(state'.clusters) \in Nat
      BY <3>2, ListEntries
    <3> QED
      BY <3>3
  <2> QED
    BY <2>1, <2>3, <2>4 DEF Settled
<1>4. CASE Cluster
  <2>1. /\ state' = NormalizeClusterAt(state, at, Hubs) /\ UNCHANGED <<user, phase>>
        /\ phase = "clusters" /\ at' = at + 1 /\ at <= Len(state.clusters)
    BY <1>4 DEF Cluster
  <2>2. PICK s, t, n : s = state /\ t = state' /\ n = at
    OBVIOUS
  <2>3. DOMAIN s.clusters = 1..Len(s.clusters) /\ Len(s.clusters) \in Nat /\ n \in 1..Len(s.clusters)
    <3>1. IsList(s.clusters)
      BY <1>1, <2>2 DEF Documents, Kinds
    <3>2. n \in Nat \ {0}
      BY <2>2 DEF IInv
    <3> QED
      BY <2>1, <2>2, <3>1, <3>2, ListEntries
  <2>4. t = NormalizeClusterAt(s, n, Hubs) /\ Documents(s) /\ n \in DOMAIN s.clusters
    BY <1>1, <2>1, <2>2, <2>3
  <2>5. /\ SuppliersAre(s, user)
        /\ \A ci \in ToSet(s.infras) : InfraIs(s, ci)
        /\ \A i \in DOMAIN s.clusters : i < n => ClusterIs(s, i)
    BY <2>1, <2>2 DEF Settled
  <2>6. /\ SuppliersAre(t, user) /\ \A ci \in ToSet(t.infras) : InfraIs(t, ci)
        /\ ClusterIs(t, n) /\ \A i \in DOMAIN s.clusters : ClusterIs(s, i) => ClusterIs(t, i)
    BY <2>4, <2>5, RoundSettles
  <2>7. DOMAIN t.clusters = DOMAIN s.clusters
    BY <2>4, Round
  <2>8. \A i \in DOMAIN t.clusters : i < n + 1 => ClusterIs(t, i)
    <3> TAKE i \in DOMAIN t.clusters
    <3>1. i < n + 1 => i < n \/ i = n
      BY <2>3, <2>7
    <3> QED
      BY <2>5, <2>6, <2>7, <3>1
  <2> QED
    BY <2>1, <2>2, <2>6, <2>8 DEF Settled
<1>5. CASE Check
  <2>1. UNCHANGED <<state, user>> /\ phase = "clusters" /\ at > Len(state.clusters) /\ phase' \in {"scope", "end"}
    BY <1>5 DEF Check, Goto, End
  <2>2. \A i \in DOMAIN state.clusters : i < at
    <3>1. IsList(state.clusters) /\ at \in Nat
      BY <1>1 DEF Documents, Kinds, IInv
    <3>2. DOMAIN state.clusters = 1..Len(state.clusters) /\ Len(state.clusters) \in Nat
      BY <3>1, ListEntries
    <3> QED
      BY <2>1, <3>1, <3>2
  <2> QED
    BY <2>1, <2>2 DEF Settled
<1>6. CASE LoadFile \/ Loaded \/ Scope \/ Render \/ AfterRender \/ ResolveInstaller \/ InstallAgent
  <2>1. phase' \notin {"infras", "clusters", "scope"}
    BY <1>6 DEF LoadFile, Loaded, Scope, Render, AfterRender, ResolveInstaller, InstallAgent, Write, Goto, End
  <2> QED
    BY <2>1 DEF Settled
<1>7. CASE UNCHANGED vars
  BY <1>7 DEF vars, Settled
<1> QED
  BY <1>2, <1>3, <1>4, <1>5, <1>6, <1>7 DEF Next

(* Normalizing a state that is loaded changes nothing (normalize.go,        *)
(* Normalize): each round settles its documents for good, so that the       *)
(* effective state a command writes is the one the next command loads.      *)
THEOREM NormalizationSettles == Spec => []NormalizeSettles
<1>1. Init => Settled
  BY DEF Init, Settled
<1>2. IInv /\ Settled => NormalizeSettles
  BY SettledState DEF IInv, Settled, NormalizeSettles
<1>3. IInv /\ Settled /\ [Next]_vars => Settled'
  BY NextSettled
<1> QED
  BY <1>1, <1>2, <1>3, DocumentsAreKept, PTL DEF Spec

--------------------------------------------------------------------------------
(* What is in an install config.                                            *)

(* The option of one is that one.                                           *)
LEMMA TheOne == \A x : The({x}) = x
  BY DEF The

(* A map over another.                                                      *)
LEMMA Over ==
  ASSUME NEW f, NEW g
  PROVE  /\ \A x : x \in DOMAIN (f ++ g) <=> x \in DOMAIN f \/ x \in DOMAIN g
         /\ \A x \in DOMAIN f : (f ++ g)[x] = f[x]
         /\ \A x \in DOMAIN g \ DOMAIN f : (f ++ g)[x] = g[x]
  BY DEF ++

(* A path that is a prefix of another begins as it does.                    *)
LEMMA PrefixBegins ==
  ASSUME NEW s, NEW t, IsList(s), IsList(t), s # <<>>, t # <<>>, IsPrefix(s, t)
  PROVE  s[1] = t[1]
<1>1. s \in Seq(ToSet(s)) /\ t \in Seq(ToSet(t))
  BY DEF IsList
<1>2. Len(s) \in Nat /\ Len(s) >= 1 /\ Len(t) \in Nat /\ Len(t) >= 1
  BY <1>1
<1>3. SubSeq(s, 1, Len(s)) = SubSeq(t, 1, Len(s)) /\ Len(s) <= Len(t)
  BY DEF IsPrefix
<1>4. SubSeq(s, 1, Len(s))[1] = s[1] /\ SubSeq(t, 1, Len(s))[1] = t[1]
  BY <1>1, <1>2, <1>3
<1> QED
  BY <1>3, <1>4

(* What no override is about stays as it is.                                *)
LEMMA NotOverridden ==
  ASSUME NEW base, NEW over, \A o \in DOMAIN over : IsList(o) /\ o # <<>>,
         NEW path \in DOMAIN base, IsList(path), path # <<>>, path[1] \notin TopKeys(over)
  PROVE  path \in DOMAIN mergeYAMLMaps(base, over) /\ mergeYAMLMaps(base, over)[path] = base[path]
<1>1. \A o \in DOMAIN over : o[1] # path[1]
  BY DEF TopKeys
<1>2. \A o \in DOMAIN over : ~IsPrefix(o, path) /\ ~IsPrefix(path, o)
  BY <1>1, PrefixBegins
<1>3. path \notin DOMAIN over
  BY <1>1
<1>4. PICK rest : rest = [q \in {p \in DOMAIN base : \A o \in DOMAIN over : ~IsPrefix(o, p) /\ ~IsPrefix(p, o)} |-> base[q]]
  OBVIOUS
<1>5. path \in DOMAIN rest /\ rest[path] = base[path]
  BY <1>2, <1>4
<1>6. mergeYAMLMaps(base, over) = over ++ rest
  BY <1>4 DEF mergeYAMLMaps
<1>7. path \in DOMAIN (over ++ rest) /\ (over ++ rest)[path] = rest[path]
  BY <1>3, <1>5, Over
<1> QED
  BY <1>5, <1>6, <1>7

(* A path of two keys is a list.                                            *)
LEMMA PathLists ==
  ASSUME NEW a, NEW b
  PROVE  /\ IsList(<<a>>) /\ <<a>> # <<>> /\ <<a>>[1] = a
         /\ IsList(<<a, b>>) /\ <<a, b>> # <<>> /\ <<a, b>>[1] = a
<1>1. IsList(<<a>>)
  <2>1. <<a>> = [i \in 1..1 |-> <<a>>[i]]
    OBVIOUS
  <2> QED
    BY <2>1, IsListOf
<1>2. IsList(<<a, b>>)
  <2>1. <<a, b>> = [i \in 1..2 |-> <<a, b>>[i]]
    OBVIOUS
  <2> QED
    BY <2>1, IsListOf
<1> QED
  BY <1>1, <1>2

(* Of five maps, one over another.                                          *)
LEMMA OverFive ==
  ASSUME NEW a, NEW b, NEW c, NEW d, NEW e
  PROVE  /\ \A x : x \in DOMAIN (a ++ b ++ c ++ d ++ e) <=>
                     \/ x \in DOMAIN a \/ x \in DOMAIN b \/ x \in DOMAIN c
                     \/ x \in DOMAIN d \/ x \in DOMAIN e
         /\ \A x \in DOMAIN c : x \notin DOMAIN a /\ x \notin DOMAIN b => (a ++ b ++ c ++ d ++ e)[x] = c[x]
<1>1. PICK ab : ab = a ++ b
  OBVIOUS
<1>2. PICK abc : abc = ab ++ c
  OBVIOUS
<1>3. PICK abcd : abcd = abc ++ d
  OBVIOUS
<1>4. PICK all : all = abcd ++ e
  OBVIOUS
<1>5. \A x : x \in DOMAIN ab <=> x \in DOMAIN a \/ x \in DOMAIN b
  BY <1>1, Over
<1>6. /\ \A x : x \in DOMAIN abc <=> x \in DOMAIN ab \/ x \in DOMAIN c
      /\ \A x \in DOMAIN c : x \notin DOMAIN ab => abc[x] = c[x]
  BY <1>2, Over
<1>7. /\ \A x : x \in DOMAIN abcd <=> x \in DOMAIN abc \/ x \in DOMAIN d
      /\ \A x \in DOMAIN abc : abcd[x] = abc[x]
  BY <1>3, Over
<1>8. /\ \A x : x \in DOMAIN all <=> x \in DOMAIN abcd \/ x \in DOMAIN e
      /\ \A x \in DOMAIN abcd : all[x] = abcd[x]
  BY <1>4, Over
<1>9. /\ \A x : x \in DOMAIN all <=> x \in DOMAIN a \/ x \in DOMAIN b \/ x \in DOMAIN c
                                        \/ x \in DOMAIN d \/ x \in DOMAIN e
      /\ \A x \in DOMAIN c : x \notin DOMAIN a /\ x \notin DOMAIN b => all[x] = c[x]
  BY <1>5, <1>6, <1>7, <1>8
<1> QED
  BY <1>1, <1>2, <1>3, <1>4, <1>9

(* The keys of what is not the proxy's, and the image sources in it.        *)
LEMMA BaseKeys ==
  ASSUME NEW ocp, NEW ci, NEW p, NEW secrets
  PROVE  /\ \A path \in DOMAIN InstallConfigBase(ocp, ci, p, secrets) : path[1] # "proxy"
         /\ ocp.sources # <<>> =>
              /\ <<"imageDigestSources">> \in DOMAIN InstallConfigBase(ocp, ci, p, secrets)
              /\ InstallConfigBase(ocp, ci, p, secrets)[<<"imageDigestSources">>] = <<ocp.sources>>
<1> DEFINE keys == {<<"baseDomain">>, <<"metadata">>, <<"compute">>, <<"controlPlane">>, <<"pullSecret">>, <<"sshKey">>}
           top == [path \in keys |->
                    CASE path[1] = "baseDomain"   -> <<ocp.baseDomain>>
                      [] path[1] = "metadata"     -> <<ocp.name>>
                      [] path[1] = "compute"      -> <<nodeRoleCount(ocp, "worker")>>
                      [] path[1] = "controlPlane" -> <<nodeRoleCount(ocp, "control-plane")>>
                      [] path[1] = "pullSecret"   -> <<secrets.pull>>
                      [] path[1] = "sshKey"       -> <<secrets.ssh>>]
           trust == [path \in {<<"additionalTrustBundle">> : t \in {secrets.trust} \ {<<>>}} |-> <<secrets.trust>>]
           mirrors == [path \in {<<"imageDigestSources">> : x \in {ocp.sources} \ {<<>>}} |-> <<ocp.sources>>]
           net == networkingConfig(ci, ocp)
           platform == platformConfig(p, ci, ocp)
<1>1. InstallConfigBase(ocp, ci, p, secrets) = top ++ trust ++ mirrors ++ net ++ platform
  BY DEF InstallConfigBase
<1>2. \A path \in DOMAIN top : path[1] \notin {"proxy", "imageDigestSources"}
  OBVIOUS
<1>3. \A path \in DOMAIN trust : path[1] \notin {"proxy", "imageDigestSources"}
  OBVIOUS
<1>4. /\ \A path \in DOMAIN mirrors : path[1] # "proxy"
      /\ ocp.sources # <<>> =>
           <<"imageDigestSources">> \in DOMAIN mirrors /\ mirrors[<<"imageDigestSources">>] = <<ocp.sources>>
  OBVIOUS
<1>5. \A path \in DOMAIN net : path[1] # "proxy"
  <2> DEFINE cidrs == [i \in DOMAIN machineNetworksList(ci) |-> machineNetworksList(ci)[i].cidr]
             machine == [path \in {<<"networking", "machineNetwork">>} |-> <<cidrs>>]
             type == [path \in {<<"networking", "networkType">> : n \in {m \in ocp.networking : m.type # ""}} |->
                        <<The(ocp.networking).type>>]
             cluster == [path \in {<<"networking", "clusterNetwork">> : n \in {m \in ocp.networking : m.cluster # <<>>}} |->
                           <<The(ocp.networking).cluster>>]
             service == [path \in {<<"networking", "serviceNetwork">> : n \in {m \in ocp.networking : m.service # <<>>}} |->
                           <<The(ocp.networking).service>>]
  <2>1. net = machine ++ type ++ cluster ++ service
    BY DEF networkingConfig
  <2>2. /\ \A path \in DOMAIN machine : path[1] = "networking"
        /\ \A path \in DOMAIN type : path[1] = "networking"
        /\ \A path \in DOMAIN cluster : path[1] = "networking"
        /\ \A path \in DOMAIN service : path[1] = "networking"
    <3>1. \A path : path \in DOMAIN machine => path = <<"networking", "machineNetwork">>
      OBVIOUS
    <3>2. \A path : path \in DOMAIN type => path = <<"networking", "networkType">>
      OBVIOUS
    <3>3. \A path : path \in DOMAIN cluster => path = <<"networking", "clusterNetwork">>
      OBVIOUS
    <3>4. \A path : path \in DOMAIN service => path = <<"networking", "serviceNetwork">>
      OBVIOUS
    <3> HIDE DEF machine, type, cluster, service
    <3> QED
      BY <3>1, <3>2, <3>3, <3>4
  <2> HIDE DEF net, machine, type, cluster, service
  <2>3. PICK mt : mt = machine ++ type
    OBVIOUS
  <2>4. PICK mtc : mtc = mt ++ cluster
    OBVIOUS
  <2>5. net = mtc ++ service
    BY <2>1, <2>3, <2>4
  <2>6. \A path \in DOMAIN mt : path[1] = "networking"
    BY <2>2, <2>3, Over
  <2>7. \A path \in DOMAIN mtc : path[1] = "networking"
    BY <2>2, <2>4, <2>6, Over
  <2>8. \A path \in DOMAIN net : path[1] = "networking"
    BY <2>2, <2>5, <2>7, Over
  <2> QED
    BY <2>8
<1>6. \A path \in DOMAIN platform : path[1] # "proxy"
  <2>1. \A q \in {<<"platform", "none">>} : q[1] = "platform"
    OBVIOUS
  <2>2. \A key : \A q \in {<<"platform", key, "apiVIPs">>, <<"platform", key, "ingressVIPs">>} : q[1] = "platform"
    OBVIOUS
  <2>3. \/ DOMAIN platform = {<<"platform", "none">>}
        \/ \E key : DOMAIN platform = {<<"platform", key, "apiVIPs">>, <<"platform", key, "ingressVIPs">>}
    BY DEF platformConfig
  <2> HIDE DEF platform
  <2> QED
    BY <2>1, <2>2, <2>3
<1> HIDE DEF top, trust, mirrors, net, platform
<1>7. PICK base : base = top ++ trust ++ mirrors ++ net ++ platform
  OBVIOUS
<1>8. /\ \A x : x \in DOMAIN base <=>
                  \/ x \in DOMAIN top \/ x \in DOMAIN trust \/ x \in DOMAIN mirrors
                  \/ x \in DOMAIN net \/ x \in DOMAIN platform
      /\ \A x \in DOMAIN mirrors : x \notin DOMAIN top /\ x \notin DOMAIN trust => base[x] = mirrors[x]
  BY <1>7, OverFive
<1>9. <<"imageDigestSources">>[1] = "imageDigestSources"
  OBVIOUS
<1>10. <<"imageDigestSources">> \notin DOMAIN top /\ <<"imageDigestSources">> \notin DOMAIN trust
  BY <1>2, <1>3, <1>9
<1> QED
  BY <1>1, <1>2, <1>3, <1>4, <1>5, <1>6, <1>7, <1>8, <1>10

--------------------------------------------------------------------------------
(* What is in the scope is in the documents.                                *)

(* The cluster of an infrastructure is the same in the scope.               *)
LEMMA OwnCluster ==
  ASSUME NEW s, Documents(s), Validate(s), NEW names, NEW f, f = scopeState(s, names),
         NEW ci \in ToSet(f.infras)
  PROVE  /\ ocpByInfrastructure(f, ci) \in ToSet(f.clusters)
         /\ ocpByInfrastructure(f, ci) \in ToSet(s.clusters)
         /\ ocpByInfrastructure(s, ci) = ocpByInfrastructure(f, ci)
         /\ \A ocp \in ToSet(f.clusters) : ocp.infra = ci.name => ocpByInfrastructure(f, ci) = ocp
<1>1. /\ Documents(f)
      /\ ToSet(f.clusters) \subseteq ToSet(s.clusters)
      /\ Distinct(s.clusters) => Distinct(f.clusters)
  BY ScopedState DEF Kinds
<1>2. ci \in ToSet(s.infras) /\ \E ocp \in ToSet(f.clusters) : ocp.infra = ci.name
  <2>1. CASE names = {}
    <3>1. f = s
      BY <2>1 DEF scopeState
    <3>2. PICK of : of = {j \in DOMAIN s.clusters : s.clusters[j].infra = ci.name}
      OBVIOUS
    <3>3. Cardinality(of) = 1
      BY <3>1, <3>2 DEF Validate, validateCrossLayer, Bound
    <3>4. of # {}
      BY <3>3, FS_EmptySet
    <3>5. PICK j \in DOMAIN s.clusters : s.clusters[j].infra = ci.name
      BY <3>2, <3>4
    <3> QED
      BY <3>1, <3>5 DEF ToSet
  <2>2. CASE names # {}
    <3>1. f = filterStateToClusters(s, names)
      BY <2>2 DEF scopeState
    <3>2. ci \in ToSet(f.infras) <=>
             ci \in ToSet(s.infras) /\ \E ocp \in ToSet(f.clusters) : ocp.infra = ci.name
      BY <3>1, FilteredState
    <3> QED
      BY <3>2
  <2> QED
    BY <2>1, <2>2
<1>3. PICK ocp \in ToSet(f.clusters) : ocp.infra = ci.name
  BY <1>2
<1>4. IsList(s.clusters) /\ IsList(f.clusters)
  BY <1>1 DEF Documents, Kinds
<1>5. Distinct(s.clusters) /\ Distinct(f.clusters)
  BY <1>1 DEF Validate, validateOCPClusters
<1>6. ocp \in ToSet(s.clusters)
  BY <1>1
<1>7. PICK i \in DOMAIN s.clusters :
         /\ s.clusters[i] = ocp /\ Max({i}) = i
         /\ \A j \in DOMAIN s.clusters : s.clusters[j].name = ocp.name <=> j = i
  BY ZenonT(60), <1>4, <1>5, <1>6, FoundByName
<1>8. PICK k \in DOMAIN f.clusters :
         /\ f.clusters[k] = ocp /\ Max({k}) = k
         /\ \A j \in DOMAIN f.clusters : f.clusters[j].name = ocp.name <=> j = k
  <2>1. ocp \in ToSet(f.clusters)
    BY <1>3
  <2>2. PICK docs : docs = f.clusters
    OBVIOUS
  <2>3. ocp \in ToSet(docs) /\ IsList(docs) /\ Distinct(docs)
    BY <1>4, <1>5, <2>1, <2>2
  <2>4. PICK k \in DOMAIN docs :
           /\ docs[k] = ocp /\ Max({k}) = k
           /\ \A j \in DOMAIN docs : docs[j].name = ocp.name <=> j = k
    BY ZenonT(60), <2>3, FoundByName
  <2> QED
    BY <2>2, <2>4
<1>9. \A j \in DOMAIN s.clusters : s.clusters[j].infra = ci.name <=> j = i
  <2>1. PICK of : of = {j \in DOMAIN s.clusters : s.clusters[j].infra = ci.name}
    OBVIOUS
  <2>2. Cardinality(of) = 1
    BY <1>2, <2>1 DEF Validate, validateCrossLayer, Bound
  <2>3. IsFiniteSet(of)
    BY <1>4, <2>1, ListEntries, FS_Subset
  <2>4. PICK only : of = {only}
    BY <2>2, <2>3, FS_Singleton
  <2>5. i \in of
    BY <1>3, <1>7, <2>1
  <2>6. only = i
    BY <2>4, <2>5
  <2> QED
    BY <2>1, <2>4, <2>6
<1>10. \A j \in DOMAIN f.clusters : f.clusters[j].infra = ci.name <=> j = k
  <2> TAKE j \in DOMAIN f.clusters
  <2>1. PICK c : c = f.clusters[j]
    OBVIOUS
  <2>2. c \in ToSet(s.clusters)
    BY <1>1, <2>1 DEF ToSet
  <2>3. c.infra = ci.name => c = ocp
    BY <1>7, <1>9, <2>2 DEF ToSet
  <2> QED
    BY <1>3, <1>8, <2>1, <2>3
<1>11. ocpByInfrastructure(s, ci) = ocp
  <2>1. {j \in DOMAIN s.clusters : s.clusters[j].infra = ci.name} = {i} /\ {i} # {}
    BY <1>9
  <2> QED
    BY <1>7, <2>1 DEF ocpByInfrastructure
<1>12. ocpByInfrastructure(f, ci) = ocp
  <2>1. {j \in DOMAIN f.clusters : f.clusters[j].infra = ci.name} = {k} /\ {k} # {}
    BY <1>10
  <2> QED
    BY <1>8, <2>1 DEF ocpByInfrastructure
<1>13. ASSUME NEW c \in ToSet(f.clusters), c.infra = ci.name PROVE c = ocp
  <2>1. PICK j \in DOMAIN f.clusters : c = f.clusters[j]
    BY DEF ToSet
  <2> QED
    BY <1>8, <1>10, <1>13, <2>1
<1> QED
  BY <1>6, <1>11, <1>12, <1>13

(* What is rendered for the scope.                                          *)
LEMMA InScope ==
  ASSUME IInv, DOMAIN files # {}
  PROVE  \E s, f : /\ s = state /\ f = Scoped /\ f = scopeState(s, scope)
                   /\ Documents(s) /\ Validate(s)
                   /\ Documents(f) /\ f.environments = s.environments
                   /\ ToSet(f.clusters) \subseteq ToSet(s.clusters)
<1>1. PICK s, f : s = state /\ f = Scoped /\ f = scopeState(s, scope)
  BY DEF Scoped
<1>2. Documents(s) /\ Validate(s)
  BY <1>1 DEF IInv, Writing
<1>3. Documents(f) /\ f.environments = s.environments /\ ToSet(f.clusters) \subseteq ToSet(s.clusters)
  BY <1>1, <1>2, ScopedState DEF Kinds
<1> QED
  BY <1>1, <1>2, <1>3

(* The configs that are written.                                            *)
LEMMA WrittenConfigs ==
  ASSUME IInv, NEW top \in {"bootstrap", "runtime"}, NEW file \in ConfigFiles, NEW path \in Written(top, file)
  PROVE  \E ocp \in ToSet(Scoped.clusters) :
           /\ path = <<top, ocp.name, file>> /\ path[2] = ocp.name
           /\ top = "bootstrap" => files[path] = RenderedContent(path)
           /\ top = "runtime" => files[path] = ResolvedContent(path)
<1>1. path \in DOMAIN files /\ path[1] = top /\ path[3] = file
  BY DEF Written
<1>2. FromDocuments(path, files[path])
  BY <1>1 DEF IInv
<1>3. path \notin {<<"effective-state">>, <<"lock">>, <<"inventory">>, <<"vars">>}
  BY <1>1
<1>4. PICK name \in ClusterNames(Scoped), any \in ConfigFiles :
         \/ path = <<"bootstrap", name, any>> /\ files[path] = RenderedContent(path)
         \/ path = <<"runtime", name, any>> /\ files[path] = ResolvedContent(path)
         \/ path = <<"installer", name, any>>
  BY <1>2, <1>3 DEF FromDocuments
<1>5. /\ path = <<top, name, file>> /\ path[2] = name
      /\ top = "bootstrap" => files[path] = RenderedContent(path)
      /\ top = "runtime" => files[path] = ResolvedContent(path)
  <2>1. CASE path = <<"bootstrap", name, any>> /\ files[path] = RenderedContent(path)
    <3>1. top = "bootstrap" /\ any = file
      BY <1>1, <2>1
    <3> QED
      BY <2>1, <3>1
  <2>2. CASE path = <<"runtime", name, any>> /\ files[path] = ResolvedContent(path)
    <3>1. top = "runtime" /\ any = file
      BY <1>1, <2>2
    <3> QED
      BY <2>2, <3>1
  <2>3. CASE path = <<"installer", name, any>>
    BY <1>1, <2>3
  <2> QED
    BY <1>4, <2>1, <2>2, <2>3
<1>6. PICK ocp \in ToSet(Scoped.clusters) : ocp.name = name
  BY DEF ClusterNames
<1> QED
  BY <1>5, <1>6

(* The variables that are written.                                          *)
LEMMA VarsWritten ==
  ASSUME IInv, <<"vars">> \in DOMAIN files
  PROVE  files[<<"vars">>] = Vars(Scoped)
<1>1. FromDocuments(<<"vars">>, files[<<"vars">>])
  BY DEF IInv
<1>2. <<"vars">> \notin {<<"effective-state">>, <<"lock">>, <<"inventory">>}
  OBVIOUS
<1>3. \A name, file : <<"vars">> \notin {<<"bootstrap", name, file>>, <<"runtime", name, file>>, <<"installer", name, file>>}
  OBVIOUS
<1> QED
  BY <1>1, <1>2, <1>3 DEF FromDocuments

--------------------------------------------------------------------------------
(* Disconnected.                                                            *)

(* What validation says of the sources of a disconnected cluster.           *)
LEMMA LocalSources ==
  ASSUME NEW s, Documents(s), Validate(s), Disconnected(s), NEW ocp \in ToSet(s.clusters),
         NEW url, url = The({mirror.url : mirror \in Mirrors(s)})
  PROVE  /\ \A src \in ToSet(ocp.sources) : src.policy = Never /\ validateMirrorRefs(src, url)
         /\ {"ocp-release", "art-dev"} \subseteq Known(ocp.sources)
<1>1. PICK env \in primaryEnvironment(s) : OCPInstallKind(env) = "disconnected"
  BY DEF Disconnected
<1>2. validateOCPInstall(env)
  BY <1>1 DEF Validate, validateEnvironments
<1>3. PICK r \in env.registries : validateRegistriesBlock(r, TRUE)
  BY <1>1, <1>2 DEF validateOCPInstall
<1>4. PICK mirror : mirror \in r.mirror
  BY <1>3 DEF validateRegistriesBlock
<1>5. mirror \in Mirrors(s)
  BY <1>1, <1>3, <1>4 DEF Mirrors
<1>6. url \in {m.url : m \in Mirrors(s)}
  BY <1>5 DEF The
<1>7. PICK m \in Mirrors(s) : url = m.url
  BY <1>6
<1>8. validateDisconnectedOCPImageSources(ocp, m.url)
  BY DEF Validate, validateCrossLayer, validateDisconnectedOpenShiftSources
<1> QED
  BY <1>7, <1>8 DEF validateDisconnectedOCPImageSources

(* The sources a cluster has are those its config has.                      *)
LEMMA SourcesWritten ==
  ASSUME NEW f, NEW ocp, NEW secrets, IsDocument("clusters", ocp), validateInstallOverrides(ocp), ocp.sources # <<>>
  PROVE  InstallerConfigWithSecrets(f, ocp, secrets)[<<"imageDigestSources">>][1] = ocp.sources
<1> DEFINE path == <<"imageDigestSources">>
<1>1. PICK ci, p, base, over :
        /\ ci = The(infraOf(f, ocp))
        /\ p = The(providerForInfrastructure(f, ci))
        /\ base = InstallConfigBase(ocp, ci, p, secrets) ++ ProxyOfCluster(f, ocp, ci, p, secrets)
        /\ over = ocp.installOverrides
  OBVIOUS
<1>2. InstallerConfigWithSecrets(f, ocp, secrets) = mergeYAMLMaps(base, over)
  BY <1>1 DEF InstallerConfigWithSecrets
<1>3. path \in DOMAIN base /\ base[path] = <<ocp.sources>>
  <2>1. /\ path \in DOMAIN InstallConfigBase(ocp, ci, p, secrets)
        /\ InstallConfigBase(ocp, ci, p, secrets)[path] = <<ocp.sources>>
    BY BaseKeys
  <2> HIDE DEF path
  <2> QED
    BY <1>1, <2>1, Over
<1>4. \A o \in DOMAIN over : IsList(o) /\ o # <<>>
  BY <1>1 DEF IsDocument, IsOverride
<1>5. IsList(path) /\ path # <<>> /\ path[1] = "imageDigestSources"
  BY PathLists
<1>6. "imageDigestSources" \notin TopKeys(over)
  BY <1>1 DEF validateInstallOverrides, installOverrideForbiddenKeys
<1> HIDE DEF path
<1>7. mergeYAMLMaps(base, over)[path] = base[path]
  BY <1>3, <1>4, <1>5, <1>6, NotOverridden
<1>8. <<ocp.sources>>[1] = ocp.sources
  OBVIOUS
<1> QED
  BY <1>2, <1>3, <1>7, <1>8 DEF path

(* The release a cluster is overridden with is from a mirror of its sources.*)
LEMMA OverrideIsMirrored ==
  ASSUME NEW ocp, releaseImageOverride(ocp) # <<>>
  PROVE  \E src \in ToSet(ocp.sources) : \E m \in ToSet(src.mirrors) : releaseImageOverride(ocp)[1] = m
<1> DEFINE mirrored == {i \in DOMAIN ocp.sources :
                          ocp.sources[i].source = "ocp-release" /\ 1 \in DOMAIN ocp.sources[i].mirrors}
           first == {i \in mirrored : \A j \in mirrored : i <= j}
<1>1. first # {} /\ releaseImageOverride(ocp) = <<ocp.sources[The(first)].mirrors[1], The(ocp.release)>>
  BY DEF releaseImageOverride
<1>2. The(first) \in mirrored
  BY <1>1 DEF The
<1>3. PICK i : i = The(first)
  OBVIOUS
<1>4. i \in DOMAIN ocp.sources /\ 1 \in DOMAIN ocp.sources[i].mirrors
  BY <1>2, <1>3
<1> HIDE DEF first, mirrored
<1>5. releaseImageOverride(ocp)[1] = ocp.sources[i].mirrors[1]
  BY <1>1, <1>3
<1> QED
  BY <1>4, <1>5 DEF ToSet

(* A disconnected cluster installs from its mirror alone                    *)
(* (validate_cluster_infra.go, validateDisconnectedOpenShiftSources): what  *)
(* validation found of its sources is what its config and its variables say.*)
THEOREM MirrorsAreLocal == Spec => []DisconnectedStaysLocal
<1> DEFINE url == The({mirror.url : mirror \in Mirrors(state)})
<1>1. ASSUME IInv, Disconnected(state), NEW path \in Written("bootstrap", "install-config")
      PROVE  LET sources == files[path][<<"imageDigestSources">>][1]
             IN  /\ {"ocp-release", "art-dev"} \subseteq Known(sources)
                 /\ \A src \in ToSet(sources) :
                        src.policy = Never /\ \A m \in ToSet(src.mirrors) : m[1] = url
  <2>1. DOMAIN files # {}
    BY <1>1 DEF Written
  <2>2. PICK s, f : /\ s = state /\ f = Scoped /\ f = scopeState(s, scope)
                    /\ Documents(s) /\ Validate(s)
                    /\ Documents(f) /\ f.environments = s.environments
                    /\ ToSet(f.clusters) \subseteq ToSet(s.clusters)
    BY <1>1, <2>1, InScope
  <2>3. PICK ocp \in ToSet(f.clusters) :
           /\ path = <<"bootstrap", ocp.name, "install-config">> /\ path[2] = ocp.name
           /\ files[path] = RenderedContent(path)
    BY <1>1, <2>2, WrittenConfigs DEF ConfigFiles
  <2>4. PICK ci, closure : KeptWhole(s, f, ocp, ci, closure)
    BY <2>2, ScopedCluster
  <2>5. ocp \in ToSet(s.clusters) /\ ClusterNamed(f, ocp.name) = ocp
    BY <2>4 DEF KeptWhole
  <2>6. path[1] = "bootstrap" /\ path[3] = "install-config"
    BY <2>3
  <2>7. files[path] = InstallerConfig(f, ocp)
    BY <2>2, <2>3, <2>5, <2>6 DEF RenderedContent
  <2>8. PICK u : u = url /\ u = The({mirror.url : mirror \in Mirrors(s)})
    BY <2>2
  <2>9. /\ \A src \in ToSet(ocp.sources) : src.policy = Never /\ validateMirrorRefs(src, u)
        /\ {"ocp-release", "art-dev"} \subseteq Known(ocp.sources)
    BY <1>1, <2>2, <2>5, <2>8, LocalSources
  <2>10. ocp.sources # <<>>
    BY <2>9 DEF Known
  <2>11. IsDocument("clusters", ocp) /\ validateInstallOverrides(ocp)
    BY <2>2, <2>5 DEF Documents, Kinds, Validate, validateOCPClusters
  <2>12. InstallerConfig(f, ocp)[<<"imageDigestSources">>][1] = ocp.sources
    BY <2>10, <2>11, SourcesWritten DEF InstallerConfig
  <2> HIDE DEF url
  <2> QED
    BY <2>7, <2>8, <2>9, <2>12 DEF validateMirrorRefs, isLocalMirrorRef
<1>2. ASSUME IInv, Disconnected(state), <<"vars">> \in DOMAIN files,
             NEW cluster \in ToSet(files[<<"vars">>].clusters)
      PROVE  LET override == cluster.ocp.install.override
             IN  override # <<>> => override[1][1] = url
  <2>1. DOMAIN files # {}
    BY <1>2
  <2>2. PICK s, f : /\ s = state /\ f = Scoped /\ f = scopeState(s, scope)
                    /\ Documents(s) /\ Validate(s)
                    /\ Documents(f) /\ f.environments = s.environments
                    /\ ToSet(f.clusters) \subseteq ToSet(s.clusters)
    BY <1>2, <2>1, InScope
  <2>3. files[<<"vars">>] = Vars(f)
    BY <1>2, <2>2, VarsWritten
  <2>4. Vars(f).clusters = [i \in DOMAIN f.infras |-> clusterVars(f, f.infras[i])]
    BY DEF Vars
  <2>5. PICK i \in DOMAIN f.infras : cluster = clusterVars(f, f.infras[i])
    BY <1>2, <2>3, <2>4 DEF ToSet
  <2>6. PICK ci : ci = f.infras[i] /\ ci \in ToSet(f.infras)
    BY <2>5 DEF ToSet
  <2>7. PICK ocp : ocp = ocpByInfrastructure(f, ci)
    OBVIOUS
  <2>8. ocp \in ToSet(s.clusters)
    BY <2>2, <2>6, <2>7, OwnCluster
  <2>9. cluster.ocp.install.override = releaseImageOverride(ocp)
    BY <2>5, <2>6, <2>7 DEF clusterVars, ocpInstallVars
  <2>10. PICK u : u = url /\ u = The({mirror.url : mirror \in Mirrors(s)})
    BY <2>2
  <2>11. \A src \in ToSet(ocp.sources) : src.policy = Never /\ validateMirrorRefs(src, u)
    BY <1>2, <2>2, <2>8, <2>10, LocalSources
  <2>12. releaseImageOverride(ocp) # <<>> => releaseImageOverride(ocp)[1][1] = u
    BY <2>11, OverrideIsMirrored DEF validateMirrorRefs, isLocalMirrorRef
  <2> HIDE DEF url
  <2> QED
    BY <2>9, <2>10, <2>12
<1>3. IInv => DisconnectedStaysLocal
  BY <1>1, <1>2 DEF DisconnectedStaysLocal
<1> QED
  BY <1>3, DocumentsAreKept, PTL


--------------------------------------------------------------------------------
(* The scope and the whole.                                                 *)

(* Nothing is its own except one of nothing.                                *)
EffectiveProxy(effs) == IF effs = {} THEN EmptyProxy ELSE The(effs)

(* The environment is one, and its proxy is one or none; p is the proxy as  *)
(* it is declared.                                                          *)
ResolvesTo(s, env, p) ==
  /\ primaryEnvironment(s) = {env} /\ env.proxy = {p}
  /\ DOMAIN p = DOMAIN EmptyProxy
  /\ EffectiveProxy(proxyResolve(s)) = [p EXCEPT !.noProxy = @ \cup noProxyAuto(s, env)]
  /\ The(proxyResolve(s)) = [p EXCEPT !.noProxy = @ \cup noProxyAuto(s, env)]

(* Of a valid state the environment is the first and only one.              *)
LEMMA OneEnvironment ==
  ASSUME NEW s, Documents(s), Validate(s)
  PROVE  \E env \in ToSet(s.environments) : primaryEnvironment(s) = {env} /\ IsDocument("environments", env)
<1>1. IsList(s.environments) /\ \A env \in ToSet(s.environments) : IsDocument("environments", env)
  BY DEF Documents, Kinds
<1>2. Len(s.environments) = 1
  BY DEF Validate, validateEnvironments
<1>3. DOMAIN s.environments = {1}
  BY <1>1, <1>2, ListEntries
<1>4. PICK env : env = s.environments[1]
  OBVIOUS
<1>5. env \in ToSet(s.environments)
  BY <1>3, <1>4 DEF ToSet
<1>6. primaryEnvironment(s) = {env}
  BY <1>3, <1>4 DEF primaryEnvironment
<1> QED
  BY <1>1, <1>5, <1>6

(* The proxy of a valid state: none, or what the environment declares with  *)
(* the state's own addresses in noProxy.                                    *)
LEMMA ProxyResolved ==
  ASSUME NEW s, Documents(s), Validate(s)
  PROVE  \/ proxyResolve(s) = {} /\ \A env \in primaryEnvironment(s) : env.proxy = {}
         \/ \E env, p : ResolvesTo(s, env, p)
<1>1. PICK env \in ToSet(s.environments) : primaryEnvironment(s) = {env} /\ IsDocument("environments", env)
  BY OneEnvironment
<1>2. proxyResolve(s) = {[p EXCEPT !.noProxy = @ \cup noProxyAuto(s, env)] : p \in env.proxy}
  BY <1>1 DEF proxyResolve
<1>3. CASE env.proxy = {}
  BY <1>1, <1>2, <1>3
<1>4. CASE env.proxy # {}
  <2>1. PICK p : p \in env.proxy
    BY <1>4
  <2>2. env.proxy = {p} /\ DOMAIN p = DOMAIN EmptyProxy
    BY <1>1, <2>1 DEF IsDocument, IsOption
  <2>3. PICK eff : eff = [p EXCEPT !.noProxy = @ \cup noProxyAuto(s, env)]
    OBVIOUS
  <2>4. proxyResolve(s) = {eff}
    BY <1>2, <2>2, <2>3
  <2>5. The(proxyResolve(s)) = eff /\ proxyResolve(s) # {}
    BY <2>4, TheOne
  <2>6. EffectiveProxy(proxyResolve(s)) = eff
    BY <2>5 DEF EffectiveProxy
  <2>7. ResolvesTo(s, env, p)
    BY <1>1, <2>2, <2>3, <2>5, <2>6 DEF ResolvesTo
  <2> QED
    BY <2>7
<1> QED
  BY <1>3, <1>4

(* Only noProxy tells the addresses of a state.                             *)
LEMMA SameURLs ==
  ASSUME NEW s, Documents(s), Validate(s), NEW f, Documents(f), f.environments = s.environments
  PROVE  /\ primaryEnvironment(f) = primaryEnvironment(s)
         /\ proxyResolve(f) = {} <=> proxyResolve(s) = {}
         /\ EffectiveProxy(proxyResolve(f)).http = EffectiveProxy(proxyResolve(s)).http
         /\ EffectiveProxy(proxyResolve(f)).https = EffectiveProxy(proxyResolve(s)).https
<1>1. primaryEnvironment(f) = primaryEnvironment(s)
  BY DEF primaryEnvironment
<1>2. CASE proxyResolve(s) = {} /\ \A env \in primaryEnvironment(s) : env.proxy = {}
  <2>1. proxyResolve(f) = {}
    BY <1>1, <1>2 DEF proxyResolve
  <2> QED
    BY <1>1, <1>2, <2>1
<1>3. CASE \E env, p : ResolvesTo(s, env, p)
  <2>1. PICK env, p : ResolvesTo(s, env, p)
    BY <1>3
  <2>2. /\ primaryEnvironment(s) = {env} /\ env.proxy = {p}
        /\ "http" \in DOMAIN p /\ "https" \in DOMAIN p
        /\ EffectiveProxy(proxyResolve(s)) = [p EXCEPT !.noProxy = @ \cup noProxyAuto(s, env)]
    BY <2>1 DEF ResolvesTo, EmptyProxy
  <2>3. /\ EffectiveProxy(proxyResolve(s)).http = p.http
        /\ EffectiveProxy(proxyResolve(s)).https = p.https
    BY <2>2
  <2>4. PICK eff : eff = [p EXCEPT !.noProxy = @ \cup noProxyAuto(f, env)]
    OBVIOUS
  <2>5. proxyResolve(f) = {eff}
    BY <1>1, <2>2, <2>4 DEF proxyResolve
  <2>6. EffectiveProxy(proxyResolve(f)) = eff
    BY <2>5, TheOne DEF EffectiveProxy
  <2>7. eff.http = p.http /\ eff.https = p.https
    BY <2>2, <2>4
  <2>8. proxyResolve(s) # {}
    <3>1. {[q EXCEPT !.noProxy = @ \cup noProxyAuto(s, env)] : q \in env.proxy} # {}
      BY <2>2
    <3> QED
      BY <2>2, <3>1 DEF proxyResolve
  <2> QED
    BY <1>1, <2>3, <2>5, <2>6, <2>7, <2>8
<1> QED
  BY <1>2, <1>3, ProxyResolved

(* What is the same of two proxies is the same in the config.               *)
LEMMA ProxyConfigs ==
  ASSUME NEW effs, NEW others, NEW secrets, NEW fallback,
         EffectiveProxy(effs).http = EffectiveProxy(others).http,
         EffectiveProxy(effs).https = EffectiveProxy(others).https
  PROVE  \A path : path # <<"proxy", "noProxy">> =>
            LET one == installerProxyConfig(effs, secrets, fallback)
                two == installerProxyConfig(others, secrets, fallback)
            IN  /\ path \in DOMAIN one <=> path \in DOMAIN two
                /\ path \in DOMAIN one => one[path] = two[path]
<1>1. PICK http : /\ http = Default(secrets.http, NoURL, Default(EffectiveProxy(effs).http, NoURL, fallback))
                  /\ http = Default(secrets.http, NoURL, Default(EffectiveProxy(others).http, NoURL, fallback))
  OBVIOUS
<1>2. PICK https : /\ https = Default(secrets.https, NoURL, Default(EffectiveProxy(effs).https, NoURL, fallback))
                   /\ https = Default(secrets.https, NoURL, Default(EffectiveProxy(others).https, NoURL, fallback))
  OBVIOUS
<1>3. PICK a : a = [path \in {<<"proxy", "httpProxy">> : u \in {http} \ {NoURL}} |-> <<http>>]
  OBVIOUS
<1>4. PICK b : b = [path \in {<<"proxy", "httpsProxy">> : u \in {https} \ {NoURL}} |-> <<https>>]
  OBVIOUS
<1>5. PICK c : c = [path \in {<<"proxy", "noProxy">> : n \in {EffectiveProxy(effs).noProxy} \ {{}}} |->
                      <<EffectiveProxy(effs).noProxy>>]
  OBVIOUS
<1>6. PICK d : d = [path \in {<<"proxy", "noProxy">> : n \in {EffectiveProxy(others).noProxy} \ {{}}} |->
                      <<EffectiveProxy(others).noProxy>>]
  OBVIOUS
<1>7. installerProxyConfig(effs, secrets, fallback) = a ++ b ++ c
  BY <1>1, <1>2, <1>3, <1>4, <1>5 DEF installerProxyConfig, EffectiveProxy
<1>8. installerProxyConfig(others, secrets, fallback) = a ++ b ++ d
  BY <1>1, <1>2, <1>3, <1>4, <1>6 DEF installerProxyConfig, EffectiveProxy
<1>9. PICK ab : ab = a ++ b
  OBVIOUS
<1>10. \A path : path # <<"proxy", "noProxy">> => path \notin DOMAIN c /\ path \notin DOMAIN d
  BY <1>5, <1>6
<1>11. \A path : path # <<"proxy", "noProxy">> =>
          /\ path \in DOMAIN (ab ++ c) <=> path \in DOMAIN ab
          /\ path \in DOMAIN (ab ++ d) <=> path \in DOMAIN ab
          /\ path \in DOMAIN ab => (ab ++ c)[path] = ab[path] /\ (ab ++ d)[path] = ab[path]
  BY <1>10, Over
<1> QED
  BY <1>7, <1>8, <1>9, <1>11

(* Two configs that differ at one path only are one without it.             *)
LEMMA MergedWithout ==
  ASSUME NEW b, NEW c, NEW over, NEW apart, IsPrefix(apart, apart),
         \A path : path # apart => /\ path \in DOMAIN b <=> path \in DOMAIN c
                                   /\ path \in DOMAIN b => b[path] = c[path]
  PROVE  Without(mergeYAMLMaps(b, over), {apart}) = Without(mergeYAMLMaps(c, over), {apart})
<1> DEFINE free(q) == \A o \in DOMAIN over : ~IsPrefix(o, q) /\ ~IsPrefix(q, o)
<1>1. PICK rb : rb = [q \in {p \in DOMAIN b : free(p)} |-> b[q]]
  OBVIOUS
<1>2. PICK rc : rc = [q \in {p \in DOMAIN c : free(p)} |-> c[q]]
  OBVIOUS
<1>3. PICK mb : mb = over ++ rb
  OBVIOUS
<1>4. PICK mc : mc = over ++ rc
  OBVIOUS
<1>5. mergeYAMLMaps(b, over) = mb /\ mergeYAMLMaps(c, over) = mc
  BY <1>1, <1>2, <1>3, <1>4 DEF mergeYAMLMaps
<1>6. \A path : path # apart => /\ path \in DOMAIN rb <=> path \in DOMAIN rc
                                /\ path \in DOMAIN rb => rb[path] = rc[path]
  <2> HIDE DEF free
  <2> QED
    BY <1>1, <1>2
<1>7. \A path : path # apart => /\ path \in DOMAIN mb <=> path \in DOMAIN mc
                                /\ path \in DOMAIN mb => mb[path] = mc[path]
  BY <1>3, <1>4, <1>6, Over
<1>8. {p \in DOMAIN mb : ~\E k \in {apart} : IsPrefix(k, p)} = {p \in DOMAIN mc : ~\E k \in {apart} : IsPrefix(k, p)}
  BY <1>7
<1>9. \A p \in {q \in DOMAIN mb : ~\E k \in {apart} : IsPrefix(k, q)} : mb[p] = mc[p]
  BY <1>7
<1>10. Without(mb, {apart}) = Without(mc, {apart})
  BY <1>8, <1>9 DEF Without
<1> QED
  BY <1>5, <1>10


(* A cluster's install config is what it is in the whole state, but for     *)
(* noProxy.                                                                 *)
LEMMA SameInstallConfig ==
  ASSUME NEW s, Documents(s), Validate(s), NEW f, Documents(f), f.environments = s.environments,
         NEW ocp, NEW ci, NEW closure, KeptWhole(s, f, ocp, ci, closure)
  PROVE  Without(InstallerConfig(f, ocp), {<<"proxy", "noProxy">>})
            = Without(InstallerConfig(s, ocp), {<<"proxy", "noProxy">>})
<1> DEFINE apart == <<"proxy", "noProxy">>
<1>1. PICK secrets : secrets = PlaceholderInstallerSecrets(ocp)
  OBVIOUS
<1>2. The(infraOf(f, ocp)) = ci /\ The(infraOf(s, ocp)) = ci
  BY TheOne DEF KeptWhole
<1>3. The(providerForInfrastructure(f, ci)) = closure /\ The(providerForInfrastructure(s, ci)) = closure
  BY TheOne DEF KeptWhole
<1>4. PICK base : base = InstallConfigBase(ocp, ci, closure, secrets)
  OBVIOUS
<1>5. PICK one : one = ProxyOfCluster(f, ocp, ci, closure, secrets)
  OBVIOUS
<1>6. PICK two : two = ProxyOfCluster(s, ocp, ci, closure, secrets)
  OBVIOUS
<1>7. PICK b : b = base ++ one
  OBVIOUS
<1>8. PICK c : c = base ++ two
  OBVIOUS
<1>9. InstallerConfig(f, ocp) = mergeYAMLMaps(b, ocp.installOverrides)
  BY <1>1, <1>2, <1>3, <1>4, <1>5, <1>7 DEF InstallerConfig, InstallerConfigWithSecrets
<1>10. InstallerConfig(s, ocp) = mergeYAMLMaps(c, ocp.installOverrides)
  BY <1>1, <1>2, <1>3, <1>4, <1>6, <1>8 DEF InstallerConfig, InstallerConfigWithSecrets
<1>11. PICK effs, others, fallback :
          /\ effs = proxyResolve(f) /\ others = proxyResolve(s)
          /\ fallback = managedProxyClientURL(ci, closure, primaryEnvironment(s))
  OBVIOUS
<1>12. /\ one = installerProxyConfig(effs, secrets, fallback)
       /\ two = installerProxyConfig(others, secrets, fallback)
  BY <1>5, <1>6, <1>11, SameURLs DEF ProxyOfCluster
<1>13. /\ EffectiveProxy(effs).http = EffectiveProxy(others).http
       /\ EffectiveProxy(effs).https = EffectiveProxy(others).https
  BY <1>11, SameURLs
<1>14. \A path : path # apart => /\ path \in DOMAIN one <=> path \in DOMAIN two
                                 /\ path \in DOMAIN one => one[path] = two[path]
  BY <1>12, <1>13, ProxyConfigs
<1>15. IsPrefix(apart, apart)
  BY DEF IsPrefix
<1> HIDE DEF apart
<1>16. \A path : path # apart => /\ path \in DOMAIN b <=> path \in DOMAIN c
                                 /\ path \in DOMAIN b => b[path] = c[path]
  BY <1>7, <1>8, <1>14, Over
<1>17. Without(mergeYAMLMaps(b, ocp.installOverrides), {apart})
          = Without(mergeYAMLMaps(c, ocp.installOverrides), {apart})
  BY <1>15, <1>16, MergedWithout
<1> QED
  BY <1>9, <1>10, <1>17 DEF apart

(* Its agent config is the same altogether.                                 *)
LEMMA SameAgentConfig ==
  ASSUME NEW s, NEW f, f.environments = s.environments,
         NEW ocp, NEW ci, NEW closure, KeptWhole(s, f, ocp, ci, closure)
  PROVE  AgentConfig(f, ocp) = AgentConfig(s, ocp)
<1>1. The(infraOf(f, ocp)) = ci /\ The(infraOf(s, ocp)) = ci
  BY TheOne DEF KeptWhole
<1>2. The(providerForInfrastructure(f, ci)) = closure /\ The(providerForInfrastructure(s, ci)) = closure
  BY TheOne DEF KeptWhole
<1>3. Disconnected(f) <=> Disconnected(s)
  BY DEF Disconnected, primaryEnvironment
<1>4. disconnectedBootArtifactsConfig(f, ci, closure) = disconnectedBootArtifactsConfig(s, ci, closure)
  BY <1>3 DEF disconnectedBootArtifactsConfig
<1>5. PICK base : base = [path \in {<<"metadata">>, <<"rendezvousIP">>, <<"hosts">>} |->
                            CASE path[1] = "metadata"     -> <<ocp.name>>
                              [] path[1] = "rendezvousIP" -> <<rendezvousIP(ci, ocp)>>
                              [] path[1] = "hosts"        -> <<agentHosts(ci, ocp)>>]
  OBVIOUS
<1>6. AgentConfig(f, ocp) = mergeYAMLMaps(base ++ disconnectedBootArtifactsConfig(f, ci, closure), ocp.agentOverrides)
  BY <1>1, <1>2, <1>5 DEF AgentConfig
<1>7. AgentConfig(s, ocp) = mergeYAMLMaps(base ++ disconnectedBootArtifactsConfig(s, ci, closure), ocp.agentOverrides)
  BY <1>1, <1>2, <1>5 DEF AgentConfig
<1> QED
  BY <1>4, <1>6, <1>7

(* The load balancers of the scope are load balancers of the state.         *)
LEMMA SameLoadBalancers ==
  ASSUME NEW s, Documents(s), Validate(s), NEW names, NEW f, f = scopeState(s, names)
  PROVE  sharedLoadBalancerVars(f) \subseteq sharedLoadBalancerVars(s)
<1> DEFINE balancer(t, ci, lb) ==
             [name     |-> lb, cluster |-> ci.name, provider |-> ClosureOf(t, ci).name,
              image    |-> componentImageURLs(primaryEnvironment(t), "haproxy"),
              host     |-> The(HAProxy(ClosureOf(t, ci))).host,
              frontends |-> [i \in DOMAIN ci.loadBalancers[lb] |->
                                frontendForEndpoint(ci, ocpByInfrastructure(t, ci), ci.loadBalancers[lb][i])]]
           served(t) == {c \in ToSet(t.infras) : HAProxy(ClosureOf(t, c)) # {}}
<1>1. /\ sharedLoadBalancerVars(f) = UNION {{balancer(f, ci, lb) : lb \in DOMAIN ci.loadBalancers} : ci \in served(f)}
      /\ sharedLoadBalancerVars(s) = UNION {{balancer(s, ci, lb) : lb \in DOMAIN ci.loadBalancers} : ci \in served(s)}
  BY DEF sharedLoadBalancerVars
<1>2. primaryEnvironment(f) = primaryEnvironment(s)
  BY ScopedState DEF primaryEnvironment
<1>3. ASSUME NEW ci \in served(f)
      PROVE  ci \in served(s) /\ \A lb : balancer(f, ci, lb) = balancer(s, ci, lb)
  <2>1. ci \in ToSet(f.infras)
    OBVIOUS
  <2>2. ci \in ToSet(s.infras) /\ ClosureOf(f, ci) = ClosureOf(s, ci)
    BY <2>1, ScopedInfra DEF ClosureOf
  <2>3. ocpByInfrastructure(f, ci) = ocpByInfrastructure(s, ci)
    BY <2>1, OwnCluster
  <2> QED
    BY <1>2, <2>2, <2>3
<1> HIDE DEF balancer, served
<1> QED
  BY <1>1, <1>3

(* A cluster is rendered the same for it alone and for all                  *)
(* (cluster_select.go, filterStateToClusters): the providers of its         *)
(* infrastructure are kept, none other can stand in for them, and no other  *)
(* cluster is bound to it.                                                  *)
THEOREM ScopeIsRenderedAsWhole == Spec => []ScopedAsWhole
<1>1. ASSUME IInv, NEW file \in ConfigFiles, NEW path \in Written("bootstrap", file)
      PROVE  /\ file = "install-config" =>
                   Without(files[path], {<<"proxy", "noProxy">>})
                      = Without(InstallerConfig(state, ClusterNamed(state, path[2])), {<<"proxy", "noProxy">>})
             /\ file = "agent-config" => files[path] = AgentConfig(state, ClusterNamed(state, path[2]))
  <2>1. DOMAIN files # {}
    BY <1>1 DEF Written
  <2>2. PICK s, f : /\ s = state /\ f = Scoped /\ f = scopeState(s, scope)
                    /\ Documents(s) /\ Validate(s)
                    /\ Documents(f) /\ f.environments = s.environments
                    /\ ToSet(f.clusters) \subseteq ToSet(s.clusters)
    BY <1>1, <2>1, InScope
  <2>3. PICK ocp \in ToSet(f.clusters) :
           /\ path = <<"bootstrap", ocp.name, file>> /\ path[2] = ocp.name
           /\ files[path] = RenderedContent(path)
    BY <1>1, <2>2, WrittenConfigs
  <2>4. PICK ci, closure : KeptWhole(s, f, ocp, ci, closure)
    BY <2>2, ScopedCluster
  <2>5. ClusterNamed(s, ocp.name) = ocp /\ ClusterNamed(f, ocp.name) = ocp
    BY <2>4 DEF KeptWhole
  <2>6. path[1] = "bootstrap" /\ path[3] = file
    BY <2>3
  <2>7. /\ file = "install-config" => files[path] = InstallerConfig(f, ocp)
        /\ file = "agent-config" => files[path] = AgentConfig(f, ocp)
    BY <2>2, <2>3, <2>5, <2>6 DEF RenderedContent
  <2>8. Without(InstallerConfig(f, ocp), {<<"proxy", "noProxy">>})
           = Without(InstallerConfig(s, ocp), {<<"proxy", "noProxy">>})
    BY <2>2, <2>4, SameInstallConfig
  <2>9. AgentConfig(f, ocp) = AgentConfig(s, ocp)
    BY <2>2, <2>4, SameAgentConfig
  <2> QED
    BY <2>2, <2>3, <2>5, <2>7, <2>8, <2>9
<1>2. ASSUME IInv, <<"vars">> \in DOMAIN files
      PROVE  files[<<"vars">>].loadBalancers \subseteq sharedLoadBalancerVars(state)
  <2>1. DOMAIN files # {}
    BY <1>2
  <2>2. PICK s, f : /\ s = state /\ f = Scoped /\ f = scopeState(s, scope)
                    /\ Documents(s) /\ Validate(s)
                    /\ Documents(f) /\ f.environments = s.environments
                    /\ ToSet(f.clusters) \subseteq ToSet(s.clusters)
    BY <1>2, <2>1, InScope
  <2>3. files[<<"vars">>] = Vars(f)
    BY <1>2, <2>2, VarsWritten
  <2>4. Vars(f).loadBalancers = sharedLoadBalancerVars(f)
    BY DEF Vars
  <2>5. sharedLoadBalancerVars(f) \subseteq sharedLoadBalancerVars(s)
    BY <2>2, SameLoadBalancers
  <2> QED
    BY <2>2, <2>3, <2>4, <2>5
<1>3. IInv => ScopedAsWhole
  BY <1>1, <1>2 DEF ScopedAsWhole, ConfigFiles
<1> QED
  BY <1>3, DocumentsAreKept, PTL


--------------------------------------------------------------------------------
(* The proxy of a cluster's machines.                                       *)

(* The closure of an infrastructure has the proxy of one provider.          *)
LEMMA ProxySupplied ==
  ASSUME NEW s, Documents(s), Validate(s), NEW ci \in ToSet(s.infras), ProxySquid(ClosureOf(s, ci)) # {}
  PROVE  \E p \in ToSet(s.providers) :
            ProxySquid(p) # {} /\ SupplierOf(ci, IndexOf(s.providers), "proxy") = p.name
<1> DEFINE index == IndexOf(s.providers)
           by == Supplying(ci, index, "proxy")
           refs == {SupplierOf(ci, index, "proxy")} \ {0}
<1>1. IsList(s.providers) /\ Distinct(s.providers) /\ IsList(ci.providerRefs)
  BY DEF Documents, Kinds, IsDocument, Validate, validateProviders
<1>2. ClosureOf(s, ci).proxy = UNION {index[r]["proxy"] : r \in refs}
  BY DEF ClosureOf, closureProvider
<1>3. PICK squids \in ClosureOf(s, ci).proxy : squids # {}
  BY DEF ProxySquid
<1>4. PICK r \in refs : squids \in index[r]["proxy"]
  <2> HIDE DEF refs, index
  <2> QED
    BY <1>2, <1>3
<1>5. r = SupplierOf(ci, index, "proxy") /\ by # {} /\ r = ci.providerRefs[Min(by)]
  BY <1>4 DEF SupplierOf
<1>6. Min(by) \in Resolved(ci, index)
  <2>1. by \subseteq Resolved(ci, index) /\ Resolved(ci, index) \subseteq DOMAIN ci.providerRefs
    BY DEF Supplying, Resolved
  <2>2. IsFiniteSet(DOMAIN ci.providerRefs) /\ DOMAIN ci.providerRefs \subseteq Nat
    BY <1>1, ListEntries
  <2> HIDE DEF by
  <2>3. IsFiniteSet(by) /\ by \subseteq Nat
    BY <2>1, <2>2, FS_Subset
  <2>4. Min(by) \in by
    BY <1>5, <2>3, LeastOf
  <2> QED
    BY <2>1, <2>4
<1>7. r \in DOMAIN index
  BY <1>5, <1>6 DEF Resolved
<1> HIDE DEF refs, by
<1>8. PICK i \in DOMAIN s.providers : s.providers[i].name = r
  BY <1>1, <1>7, IndexedByName
<1>9. PICK p : p = s.providers[i]
  OBVIOUS
<1>10. index[r] = p
  BY <1>1, <1>8, <1>9, IndexedByName
<1>11. p \in ToSet(s.providers) /\ p.name = r
  BY <1>8, <1>9 DEF ToSet
<1>12. squids \in p.proxy
  BY <1>4, <1>10
<1>13. ProxySquid(p) # {}
  BY <1>3, <1>12 DEF ProxySquid
<1> QED
  BY <1>5, <1>11, <1>13

(* The environment's proxy where a cluster is behind the managed one.       *)
Managed(p, gateway) ==
  /\ p.auth # ""
  /\ \A u \in {p.http, p.https} : u # NoURL => u.scheme = "http" /\ u.auth = ""
  /\ NoURL \in {p.http, p.https} => gateway # <<>>

(* Validation lets no other through.                                        *)
LEMMA ManagedURLs ==
  ASSUME NEW s, Documents(s), Validate(s), NEW ci \in ToSet(s.infras),
         ProxySquid(ClosureOf(s, ci)) # {}, MachineLibvirt(ClosureOf(s, ci)) # {}, LibvirtNetworks(ci) # {},
         NEW env \in primaryEnvironment(s), NEW proxy \in env.proxy
  PROVE  Managed(proxy, primaryMachineNetworkGateway(ci))
<1>1. PICK p \in ToSet(s.providers) :
         ProxySquid(p) # {} /\ SupplierOf(ci, IndexOf(s.providers), "proxy") = p.name
  BY ProxySupplied
<1>2. PICK squid : squid \in ProxySquid(p)
  BY <1>1
<1>3. p \in {q \in ToSet(s.providers) : ProxySquid(q) # {}} /\ proxy \in UNION {e.proxy : e \in primaryEnvironment(s)}
  BY <1>1
<1>4. ClosureBuilds(ci, IndexOf(s.providers))
  BY DEF Validate, validateClusterInfrastructures
<1>5. validateManagedProxyPlacement(s)
  BY DEF Validate, validateCrossLayer
<1>6. /\ proxy.auth # ""
      /\ \A u \in {proxy.http, proxy.https} : validateManagedProxyURLPort(u, squid.port)
      /\ ManagedProxyReachable(ci, ClosureOf(s, ci), proxy, squid)
  BY <1>1, <1>2, <1>3, <1>4, <1>5 DEF validateManagedProxyPlacement, ClosureOf
<1>7. NoURL \in {proxy.http, proxy.https} => primaryMachineNetworkGateway(ci) # <<>>
  BY <1>6 DEF ManagedProxyReachable
<1>a. \A u \in {proxy.http, proxy.https} : validateManagedProxyURLPort(u, squid.port)
  BY <1>6
<1>8. \A u \in {proxy.http, proxy.https} : ~proxyURLHasInlineCredentials(u)
  BY DEF Validate, validateEnvironments, validateOCPInstall, validateEnvironmentProxy
<1>9. ASSUME NEW u \in {proxy.http, proxy.https}, u # NoURL PROVE u.scheme = "http" /\ u.auth = ""
  <2>1. u.scheme = "http"
    BY <1>a, <1>9 DEF validateManagedProxyURLPort
  <2>2. "http" # ""
    OBVIOUS
  <2> QED
    BY <1>8, <2>1, <2>2 DEF proxyURLHasInlineCredentials
<1>10. proxy.auth # ""
  BY <1>6
<1> QED
  BY <1>7, <1>9, <1>10 DEF Managed

(* A cluster whose machines may only get out through the proxy.             *)
Restricted(ci, closure, envs) == \E l \in libvirtVars(ci, closure, envs) : l.restricted

(* The gateway of a cluster, and the proxy there.                           *)
Gateway(ci) == ci.networks[Min(DOMAIN ci.networks)].gateway

GateOf(ci, closure) == URL(Gateway(ci), ProxyPort(The(ProxySquid(closure))))

(* Its first network is one the provider bridges, so it is the first of     *)
(* those: the gateway the variables tell is the one validation asked for,   *)
(* and the URL of the proxy is there.                                       *)
LEMMA RestrictedGate ==
  ASSUME NEW ci, IsDocument("infras", ci), NEW closure, NEW envs, Restricted(ci, closure, envs)
  PROVE  /\ managedProxyIsolationEnabled(ci, closure, envs)
         /\ ProxySquid(closure) # {} /\ MachineLibvirt(closure) # {} /\ LibvirtNetworks(ci) # {}
         /\ \E env \in envs : env.proxy # {}
         /\ primaryMachineNetworkGateway(ci) = Gateway(ci)
         /\ Gateway(ci) # <<>> => managedProxyClientURL(ci, closure, envs) = GateOf(ci, closure)
<1>1. managedProxyIsolationEnabled(ci, closure, envs)
  BY DEF Restricted, libvirtVars
<1>2. ci.networks # NoMap /\ ci.networks[Min(DOMAIN ci.networks)].libvirt # {}
  BY DEF Restricted, libvirtVars
<1>3. /\ ProxySquid(closure) # {} /\ MachineLibvirt(closure) # {}
      /\ \E env \in envs : env.proxy # {}
      /\ primaryLibvirtMachineNetwork(ci) # {}
  BY <1>1 DEF managedProxyIsolationEnabled
<1>4. LibvirtNetworks(ci) # {}
  BY <1>3 DEF primaryLibvirtMachineNetwork
<1>5. PICK all, bridged : all = DOMAIN ci.networks /\ bridged = LibvirtNetworks(ci)
  OBVIOUS
<1>6. IsFiniteSet(all) /\ all \subseteq Nat /\ bridged \subseteq all /\ all # {} /\ bridged # {}
  BY <1>4, <1>5 DEF IsDocument, IsNamed, LibvirtNetworks
<1>7. IsFiniteSet(bridged) /\ bridged \subseteq Nat
  BY <1>6, FS_Subset
<1>8. /\ Min(all) \in all /\ \A n \in all : Min(all) <= n
      /\ Min(bridged) \in bridged /\ \A n \in bridged : Min(bridged) <= n
  BY <1>6, <1>7, LeastOf
<1>9. Min(all) \in bridged
  BY <1>2, <1>5, <1>8 DEF LibvirtNetworks
<1>10. Min(all) = Min(bridged)
  <2>1. PICK a, b : a = Min(all) /\ b = Min(bridged)
    OBVIOUS
  <2>2. a \in Nat /\ b \in Nat /\ a <= b /\ b <= a
    BY <1>6, <1>8, <1>9, <2>1
  <2>3. a = b
    BY <2>2
  <2> QED
    BY <2>1, <2>3
<1>11. primaryMachineNetworkGateway(ci) = Gateway(ci)
  BY <1>4, <1>5, <1>10 DEF primaryMachineNetworkGateway, Gateway
<1>12. primaryLibvirtMachineNetwork(ci) = {ci.networks[Min(all)]}
  BY <1>4, <1>5, <1>10 DEF primaryLibvirtMachineNetwork
<1>13. The(primaryLibvirtMachineNetwork(ci)).gateway = Gateway(ci)
  BY <1>5, <1>12, TheOne DEF Gateway
<1>14. Gateway(ci) # <<>> => managedProxyClientURL(ci, closure, envs) = GateOf(ci, closure)
  BY <1>1, <1>13 DEF managedProxyClientURL, GateOf
<1> QED
  BY <1>1, <1>3, <1>4, <1>11, <1>14


(* A URL that is to be told, and the one a secret may hold instead of it:   *)
(* the same with credentials.                                               *)
Plain(u) == IsURL(u) /\ u.scheme = "http" /\ u.auth = ""

Tells(given, u) == given # NoURL /\ [given EXCEPT !.auth = ""] = u

(* It tells itself, and so does it once credentials are put in.             *)
LEMMA PlainURL ==
  ASSUME NEW u, Plain(u)
  PROVE  Tells(u, u) /\ \A creds : Tells(bakeProxyCredentials(u, creds), u)
<1>1. u = [part \in DOMAIN NoURL |-> u[part]] /\ u.scheme = "http" /\ u.auth = ""
  BY DEF Plain, IsURL
<1>2. {"scheme", "auth"} \subseteq DOMAIN NoURL
  BY DEF NoURL
<1>3. DOMAIN u = DOMAIN NoURL
  BY <1>1
<1>4. NoURL.scheme # "http"
  <2>1. NoURL.scheme = ""
    BY DEF NoURL
  <2>2. "http" # ""
    OBVIOUS
  <2> QED
    BY <2>1, <2>2
<1>5. u # NoURL
  BY <1>1, <1>4
<1>6. [u EXCEPT !.auth = ""] = u
  BY <1>1, <1>2, <1>3
<1>7. ASSUME NEW creds PROVE Tells(bakeProxyCredentials(u, creds), u)
  <2>1. PICK w : w = [u EXCEPT !.auth = creds]
    OBVIOUS
  <2>2. DOMAIN w = DOMAIN u /\ w.auth = creds /\ \A part \in DOMAIN u \ {"auth"} : w[part] = u[part]
    BY <1>2, <1>3, <2>1
  <2>3. w.scheme = "http"
    <3>1. "scheme" \in DOMAIN u \ {"auth"}
      BY <1>2, <1>3
    <3> QED
      BY <1>1, <2>2, <3>1
  <2>4. w # NoURL
    BY <1>4, <2>3
  <2>5. PICK x : x = [w EXCEPT !.auth = ""]
    OBVIOUS
  <2>6. x = u
    <3>1. x = [part \in DOMAIN u |-> IF part = "auth" THEN "" ELSE w[part]]
      BY <2>2, <2>5
    <3>2. \A part \in DOMAIN u : x[part] = u[part]
      BY <1>1, <2>2, <3>1
    <3> QED
      BY <1>1, <1>3, <3>1, <3>2
  <2> QED
    BY <2>1, <2>4, <2>5, <2>6 DEF Tells, bakeProxyCredentials
<1> QED
  BY <1>5, <1>6, <1>7 DEF Tells

(* The URL of a gateway is one to be told.                                  *)
LEMMA GateIsPlain ==
  ASSUME NEW host, NEW port
  PROVE  Plain(URL(host, port))
<1>1. PICK u : u = URL(host, port)
  OBVIOUS
<1>2. DOMAIN NoURL = {"scheme", "host", "port", "auth"}
  BY DEF NoURL
<1>3. u = [scheme |-> "http", host |-> host, port |-> port, auth |-> ""]
  BY <1>1 DEF URL
<1>4. u.scheme = "http" /\ u.auth = ""
  BY <1>3
<1>5. u = [part \in {"scheme", "host", "port", "auth"} |-> u[part]]
  BY <1>3
<1> QED
  BY <1>1, <1>2, <1>4, <1>5 DEF Plain, IsURL

(* What the proxy's part of a config tells is what the whole of it tells,   *)
(* when the documents override nothing there.                               *)
LEMMA ProxyKept ==
  ASSUME NEW f, NEW ocp, IsDocument("clusters", ocp), "proxy" \notin TopKeys(ocp.installOverrides),
         NEW ci, The(infraOf(f, ocp)) = ci, NEW closure, The(providerForInfrastructure(f, ci)) = closure,
         NEW secrets, NEW key, <<"proxy", key>> \in DOMAIN ProxyOfCluster(f, ocp, ci, closure, secrets)
  PROVE  /\ <<"proxy", key>> \in DOMAIN InstallerConfigWithSecrets(f, ocp, secrets)
         /\ InstallerConfigWithSecrets(f, ocp, secrets)[<<"proxy", key>>]
               = ProxyOfCluster(f, ocp, ci, closure, secrets)[<<"proxy", key>>]
<1> DEFINE path == <<"proxy", key>>
<1>1. PICK rest : rest = InstallConfigBase(ocp, ci, closure, secrets)
  OBVIOUS
<1>2. PICK proxy : proxy = ProxyOfCluster(f, ocp, ci, closure, secrets)
  OBVIOUS
<1>3. PICK base, over : base = rest ++ proxy /\ over = ocp.installOverrides
  OBVIOUS
<1>4. InstallerConfigWithSecrets(f, ocp, secrets) = mergeYAMLMaps(base, over)
  BY <1>1, <1>2, <1>3 DEF InstallerConfigWithSecrets
<1>5. IsList(path) /\ path # <<>> /\ path[1] = "proxy"
  BY PathLists
<1>6. path \notin DOMAIN rest
  BY <1>1, <1>5, BaseKeys
<1>7. \A o \in DOMAIN over : IsList(o) /\ o # <<>>
  BY <1>3 DEF IsDocument, IsOverride
<1>8. path \in DOMAIN proxy /\ "proxy" \notin TopKeys(over)
  BY <1>2, <1>3
<1> HIDE DEF path
<1>9. path \in DOMAIN base /\ base[path] = proxy[path]
  BY <1>3, <1>6, <1>8, Over
<1>10. path \in DOMAIN mergeYAMLMaps(base, over) /\ mergeYAMLMaps(base, over)[path] = base[path]
  BY <1>5, <1>7, <1>8, <1>9, NotOverridden
<1> QED
  BY <1>2, <1>4, <1>9, <1>10 DEF path

(* The two URLs of the proxy's part of a config.                            *)
LEMMA ProxyURLs ==
  ASSUME NEW effs, NEW secrets, NEW fallback,
         NEW http, http = Default(secrets.http, NoURL, Default(EffectiveProxy(effs).http, NoURL, fallback)),
         NEW https, https = Default(secrets.https, NoURL, Default(EffectiveProxy(effs).https, NoURL, fallback)),
         http # NoURL, https # NoURL
  PROVE  LET config == installerProxyConfig(effs, secrets, fallback)
         IN  /\ <<"proxy", "httpProxy">> \in DOMAIN config /\ config[<<"proxy", "httpProxy">>] = <<http>>
             /\ <<"proxy", "httpsProxy">> \in DOMAIN config /\ config[<<"proxy", "httpsProxy">>] = <<https>>
<1>1. PICK a : a = [path \in {<<"proxy", "httpProxy">> : u \in {http} \ {NoURL}} |-> <<http>>]
  OBVIOUS
<1>2. PICK b : b = [path \in {<<"proxy", "httpsProxy">> : u \in {https} \ {NoURL}} |-> <<https>>]
  OBVIOUS
<1>3. PICK c : c = [path \in {<<"proxy", "noProxy">> : n \in {EffectiveProxy(effs).noProxy} \ {{}}} |->
                      <<EffectiveProxy(effs).noProxy>>]
  OBVIOUS
<1>4. PICK ab : ab = a ++ b
  OBVIOUS
<1>5. installerProxyConfig(effs, secrets, fallback) = ab ++ c
  BY <1>1, <1>2, <1>3, <1>4 DEF installerProxyConfig, EffectiveProxy
<1>6. PICK p, q : p = <<"proxy", "httpProxy">> /\ q = <<"proxy", "httpsProxy">>
  OBVIOUS
<1>7. p # q
  BY <1>6
<1>8. DOMAIN a = {p} /\ a[p] = <<http>> /\ DOMAIN b = {q} /\ b[q] = <<https>>
  BY <1>1, <1>2, <1>6
<1>9. p \in DOMAIN ab /\ ab[p] = <<http>> /\ q \in DOMAIN ab /\ ab[q] = <<https>>
  BY <1>4, <1>7, <1>8, Over
<1>10. \A x \in DOMAIN ab : x \in DOMAIN (ab ++ c) /\ (ab ++ c)[x] = ab[x]
  BY Over
<1> QED
  BY <1>5, <1>6, <1>9, <1>10


(* What is behind one of the proxy's URLs, in the config of a cluster that  *)
(* has no other way out.                                                    *)
Told(config, key, u) ==
  /\ <<"proxy", key>> \in DOMAIN config
  /\ [config[<<"proxy", key>>][1] EXCEPT !.auth = ""] = u

(* A URL of such a cluster: what the environment declares, else the gateway.*)
LEMMA ManagedURL ==
  ASSUME NEW p, NEW ci, NEW closure, NEW own, Managed(p, Gateway(ci)),
         Gateway(ci) # <<>> => own = GateOf(ci, closure),
         NEW u \in {p.http, p.https}, IsURL(u)
  PROVE  /\ Default(u, NoURL, own) = Default(u, NoURL, GateOf(ci, closure))
         /\ Plain(Default(u, NoURL, own))
<1>1. CASE u = NoURL
  <2>1. NoURL \in {p.http, p.https}
    BY <1>1
  <2>2. own = GateOf(ci, closure)
    BY <2>1 DEF Managed
  <2>3. Plain(GateOf(ci, closure))
    BY GateIsPlain DEF GateOf
  <2>4. Default(u, NoURL, own) = own /\ Default(u, NoURL, GateOf(ci, closure)) = GateOf(ci, closure)
    BY <1>1 DEF Default
  <2> QED
    BY <2>2, <2>3, <2>4
<1>2. CASE u # NoURL
  <2>1. u.scheme = "http" /\ u.auth = ""
    BY <1>2 DEF Managed
  <2>2. Plain(u)
    BY <2>1 DEF Plain
  <2>3. \A d : Default(u, NoURL, d) = u
    BY <1>2 DEF Default
  <2> QED
    BY <2>2, <2>3
<1> QED
  BY <1>1, <1>2

(* The secrets hold the URLs with the credentials, the placeholders none.   *)
SecretURLs(secrets, http, https) ==
  \/ secrets.http = NoURL /\ secrets.https = NoURL
  \/ \E creds : /\ secrets.http = bakeProxyCredentials(http, creds)
                /\ secrets.https = bakeProxyCredentials(https, creds)

(* Whichever of the two a config is made with, it tells both URLs.          *)
LEMMA ProxyTold ==
  ASSUME NEW effs, NEW secrets, NEW own, NEW http, NEW https, Plain(http), Plain(https),
         http = Default(EffectiveProxy(effs).http, NoURL, own),
         https = Default(EffectiveProxy(effs).https, NoURL, own),
         SecretURLs(secrets, http, https)
  PROVE  /\ Told(installerProxyConfig(effs, secrets, own), "httpProxy", http)
         /\ Told(installerProxyConfig(effs, secrets, own), "httpsProxy", https)
<1>1. PICK a : a = Default(secrets.http, NoURL, http)
  OBVIOUS
<1>2. PICK b : b = Default(secrets.https, NoURL, https)
  OBVIOUS
<1>3. Tells(a, http) /\ Tells(b, https)
  <2>1. CASE secrets.http = NoURL /\ secrets.https = NoURL
    <3>1. a = http /\ b = https
      BY <1>1, <1>2, <2>1 DEF Default
    <3> QED
      BY <3>1, PlainURL
  <2>2. CASE \E creds : /\ secrets.http = bakeProxyCredentials(http, creds)
                        /\ secrets.https = bakeProxyCredentials(https, creds)
    <3>1. PICK creds : /\ secrets.http = bakeProxyCredentials(http, creds)
                       /\ secrets.https = bakeProxyCredentials(https, creds)
      BY <2>2
    <3>2. Tells(secrets.http, http) /\ Tells(secrets.https, https)
      BY <3>1, PlainURL
    <3>3. a = secrets.http /\ b = secrets.https
      BY <1>1, <1>2, <3>2 DEF Default, Tells
    <3> QED
      BY <3>2, <3>3
  <2> QED
    BY <2>1, <2>2 DEF SecretURLs
<1>4. a # NoURL /\ b # NoURL /\ [a EXCEPT !.auth = ""] = http /\ [b EXCEPT !.auth = ""] = https
  BY <1>3 DEF Tells
<1>5. PICK config : config = installerProxyConfig(effs, secrets, own)
  OBVIOUS
<1>6. /\ <<"proxy", "httpProxy">> \in DOMAIN config /\ config[<<"proxy", "httpProxy">>] = <<a>>
      /\ <<"proxy", "httpsProxy">> \in DOMAIN config /\ config[<<"proxy", "httpsProxy">>] = <<b>>
  <2>1. a # NoURL /\ b # NoURL
    BY <1>4
  <2>2. a = Default(secrets.http, NoURL, Default(EffectiveProxy(effs).http, NoURL, own))
    BY <1>1
  <2>3. b = Default(secrets.https, NoURL, Default(EffectiveProxy(effs).https, NoURL, own))
    BY <1>2
  <2> QED
    BY <1>5, <2>1, <2>2, <2>3, ProxyURLs
<1>7. <<a>>[1] = a /\ <<b>>[1] = b
  OBVIOUS
<1> QED
  BY <1>4, <1>5, <1>6, <1>7 DEF Told

(* The secrets that are read from their files are of the second kind.       *)
LEMMA LoadedURLs ==
  ASSUME NEW f, NEW ocp, NEW ci, The(infraOf(f, ocp)) = ci,
         NEW closure, The(providerForInfrastructure(f, ci)) = closure,
         NEW eff, proxyResolve(f) = {eff}, eff.auth # "",
         NEW own, own = managedProxyClientURL(ci, closure, primaryEnvironment(f)),
         NEW http, http = Default(eff.http, NoURL, own), Plain(http),
         NEW https, https = Default(eff.https, NoURL, own), Plain(https)
  PROVE  SecretURLs(LoadInstallerSecrets(f, ocp), http, https)
<1>1. PICK c : c = ClientURLs(f, ocp)
  OBVIOUS
<1>2. proxyResolve(f) # {} /\ The(proxyResolve(f)) = eff
  BY TheOne
<1>3. c = [http |-> http, https |-> https, auth |-> eff.auth]
  BY <1>1, <1>2 DEF ClientURLs
<1>4. c.http = http /\ c.https = https /\ c.auth = eff.auth
  BY <1>3
<1>5. http # NoURL /\ https # NoURL
  BY PlainURL DEF Tells
<1>6. PICK secrets : secrets = LoadInstallerSecrets(f, ocp)
  OBVIOUS
<1>7. /\ secrets.http = IF c.auth = "" \/ c.http = NoURL THEN c.http ELSE bakeProxyCredentials(c.http, c.auth)
      /\ secrets.https = IF c.auth = "" \/ c.https = NoURL THEN c.https ELSE bakeProxyCredentials(c.https, c.auth)
  BY <1>1, <1>6 DEF LoadInstallerSecrets
<1>8. /\ secrets.http = bakeProxyCredentials(http, eff.auth)
      /\ secrets.https = bakeProxyCredentials(https, eff.auth)
  BY <1>4, <1>5, <1>7
<1> QED
  BY <1>6, <1>8 DEF SecretURLs

(* A config of a cluster that has no other way out, with either secrets.    *)
LEMMA RestrictedIsTold ==
  ASSUME NEW s, Documents(s), Validate(s), NEW f, Documents(f), f.environments = s.environments,
         NEW ocp \in ToSet(s.clusters), NEW ci, NEW closure, KeptWhole(s, f, ocp, ci, closure),
         Restricted(ci, closure, primaryEnvironment(f)), "proxy" \notin TopKeys(ocp.installOverrides),
         NEW secrets \in {PlaceholderInstallerSecrets(ocp), LoadInstallerSecrets(f, ocp)},
         NEW eff, eff = The(proxyResolve(f))
  PROVE  /\ Told(InstallerConfigWithSecrets(f, ocp, secrets), "httpProxy",
                 Default(eff.http, NoURL, GateOf(ci, closure)))
         /\ Told(InstallerConfigWithSecrets(f, ocp, secrets), "httpsProxy",
                 Default(eff.https, NoURL, GateOf(ci, closure)))
<1>1. /\ The(infraOf(f, ocp)) = ci /\ The(providerForInfrastructure(f, ci)) = closure
      /\ ci \in ToSet(s.infras) /\ ClosureOf(s, ci) = closure
  BY TheOne DEF KeptWhole
<1>2. IsDocument("infras", ci) /\ IsDocument("clusters", ocp)
  BY <1>1 DEF Documents, Kinds
<1>3. PICK envs : envs = primaryEnvironment(s) /\ envs = primaryEnvironment(f)
  BY DEF primaryEnvironment
<1>4. PICK own : own = managedProxyClientURL(ci, closure, envs)
  OBVIOUS
<1>5. /\ ProxySquid(closure) # {} /\ MachineLibvirt(closure) # {} /\ LibvirtNetworks(ci) # {}
      /\ \E env \in envs : env.proxy # {}
      /\ primaryMachineNetworkGateway(ci) = Gateway(ci)
      /\ Gateway(ci) # <<>> => own = GateOf(ci, closure)
  BY <1>2, <1>3, <1>4, RestrictedGate
<1>6. PICK env \in ToSet(s.environments) : envs = {env} /\ IsDocument("environments", env)
  BY <1>3, OneEnvironment
<1>7. PICK p : p \in env.proxy
  BY <1>5, <1>6
<1>8. env.proxy = {p} /\ DOMAIN p = DOMAIN EmptyProxy /\ IsURL(p.http) /\ IsURL(p.https)
  BY <1>6, <1>7 DEF IsDocument, IsOption
<1>9. {"http", "https", "auth"} \subseteq DOMAIN p
  BY <1>8 DEF EmptyProxy
<1>10. proxyResolve(f) = {[q EXCEPT !.noProxy = @ \cup noProxyAuto(f, env)] : q \in env.proxy}
  BY <1>3, <1>6 DEF proxyResolve
<1>11. PICK e : e = [p EXCEPT !.noProxy = @ \cup noProxyAuto(f, env)]
  OBVIOUS
<1>12. proxyResolve(f) = {e}
  BY <1>8, <1>10, <1>11
<1>13. eff = e /\ EffectiveProxy(proxyResolve(f)) = e
  BY <1>12, TheOne DEF EffectiveProxy
<1>14. eff.http = p.http /\ eff.https = p.https /\ eff.auth = p.auth
  BY <1>9, <1>11, <1>13
<1>15. Managed(p, Gateway(ci))
  BY <1>1, <1>3, <1>5, <1>6, <1>7, ManagedURLs
<1>16. PICK http : http = Default(eff.http, NoURL, own)
  OBVIOUS
<1>17. PICK https : https = Default(eff.https, NoURL, own)
  OBVIOUS
<1>18. Plain(http) /\ http = Default(eff.http, NoURL, GateOf(ci, closure))
  BY SMTT(30), <1>5, <1>8, <1>14, <1>15, <1>16, ManagedURL
<1>19. Plain(https) /\ https = Default(eff.https, NoURL, GateOf(ci, closure))
  BY <1>5, <1>8, <1>14, <1>15, <1>17, ManagedURL
<1>20. SecretURLs(secrets, http, https)
  <2>1. CASE secrets = PlaceholderInstallerSecrets(ocp)
    <3>1. secrets.http = NoURL /\ secrets.https = NoURL
      BY <2>1 DEF PlaceholderInstallerSecrets
    <3> QED
      BY <3>1 DEF SecretURLs
  <2>2. CASE secrets = LoadInstallerSecrets(f, ocp)
    <3>1. eff.auth # ""
      BY <1>14, <1>15 DEF Managed
    <3>2. proxyResolve(f) = {eff}
      BY <1>12, <1>13
    <3>3. own = managedProxyClientURL(ci, closure, primaryEnvironment(f))
      BY <1>3, <1>4
    <3>4. SecretURLs(LoadInstallerSecrets(f, ocp), http, https)
      BY <1>1, <1>16, <1>17, <1>18, <1>19, <3>1, <3>2, <3>3, LoadedURLs
    <3> QED
      BY <2>2, <3>4
  <2> QED
    BY <2>1, <2>2
<1>21. PICK effs : effs = proxyResolve(f)
  OBVIOUS
<1>22. EffectiveProxy(effs) = eff
  BY <1>13, <1>21
<1>23. PICK proxy : proxy = ProxyOfCluster(f, ocp, ci, closure, secrets)
  OBVIOUS
<1>24. proxy = installerProxyConfig(effs, secrets, own)
  BY <1>3, <1>4, <1>21, <1>23 DEF ProxyOfCluster
<1>25. Told(proxy, "httpProxy", http) /\ Told(proxy, "httpsProxy", https)
  BY <1>16, <1>17, <1>18, <1>19, <1>20, <1>22, <1>24, ProxyTold
<1>26. PICK config : config = InstallerConfigWithSecrets(f, ocp, secrets)
  OBVIOUS
<1>27. \A key : <<"proxy", key>> \in DOMAIN proxy =>
          <<"proxy", key>> \in DOMAIN config /\ config[<<"proxy", key>>] = proxy[<<"proxy", key>>]
  BY <1>1, <1>2, <1>23, <1>26, ProxyKept
<1>28. Told(config, "httpProxy", http) /\ Told(config, "httpsProxy", https)
  BY <1>25, <1>27 DEF Told
<1> QED
  BY <1>18, <1>19, <1>26, <1>28

(* A cluster whose machines may only get out through the proxy is told of   *)
(* it (validate_environment.go, managed proxy; render/proxy.go): its first  *)
(* network is the one validation asked the gateway of, and no override, no  *)
(* credentials and no other cluster's gateway gets in between.              *)
THEOREM RestrictedIsProxied == Spec => []ClusterProxied
<1>1. ASSUME IInv, NEW top \in {"bootstrap", "runtime"}, NEW path \in Written(top, "install-config")
      PROVE  LET ocp  == ClusterNamed(Scoped, path[2])
                 ci   == The(infraOf(Scoped, ocp))
                 eff  == The(proxyResolve(Scoped))
                 closure == ClosureOf(Scoped, ci)
             IN  (Restricted(ci, closure, primaryEnvironment(Scoped)) /\ "proxy" \notin TopKeys(ocp.installOverrides)) =>
                    /\ Told(files[path], "httpProxy", Default(eff.http, NoURL, GateOf(ci, closure)))
                    /\ Told(files[path], "httpsProxy", Default(eff.https, NoURL, GateOf(ci, closure)))
  <2>1. DOMAIN files # {}
    BY <1>1 DEF Written
  <2>2. PICK s, f : /\ s = state /\ f = Scoped /\ f = scopeState(s, scope)
                    /\ Documents(s) /\ Validate(s)
                    /\ Documents(f) /\ f.environments = s.environments
                    /\ ToSet(f.clusters) \subseteq ToSet(s.clusters)
    BY <1>1, <2>1, InScope
  <2>3. PICK ocp \in ToSet(f.clusters) :
           /\ path = <<top, ocp.name, "install-config">> /\ path[2] = ocp.name
           /\ top = "bootstrap" => files[path] = RenderedContent(path)
           /\ top = "runtime" => files[path] = ResolvedContent(path)
    BY <1>1, <2>2, WrittenConfigs DEF ConfigFiles
  <2>4. PICK ci, closure : KeptWhole(s, f, ocp, ci, closure)
    BY <2>2, ScopedCluster
  <2>5. /\ ClusterNamed(f, ocp.name) = ocp /\ ocp \in ToSet(s.clusters)
        /\ The(infraOf(f, ocp)) = ci /\ ClosureOf(f, ci) = closure
    BY <2>4, TheOne DEF KeptWhole
  <2>6. path[1] = top /\ path[3] = "install-config"
    BY <2>3
  <2>7. PICK secrets \in {PlaceholderInstallerSecrets(ocp), LoadInstallerSecrets(f, ocp)} :
           files[path] = InstallerConfigWithSecrets(f, ocp, secrets)
    <3>1. CASE top = "bootstrap"
      BY <2>2, <2>3, <2>5, <2>6, <3>1 DEF RenderedContent, InstallerConfig
    <3>2. CASE top = "runtime"
      BY <2>2, <2>3, <2>5, <2>6, <3>2 DEF ResolvedContent
    <3> QED
      BY <3>1, <3>2
  <2>8. PICK eff : eff = The(proxyResolve(f))
    OBVIOUS
  <2>9. (Restricted(ci, closure, primaryEnvironment(f)) /\ "proxy" \notin TopKeys(ocp.installOverrides)) =>
           /\ Told(files[path], "httpProxy", Default(eff.http, NoURL, GateOf(ci, closure)))
           /\ Told(files[path], "httpsProxy", Default(eff.https, NoURL, GateOf(ci, closure)))
    BY <2>2, <2>4, <2>5, <2>7, <2>8, RestrictedIsTold
  <2> QED
    BY <2>2, <2>3, <2>5, <2>8, <2>9
<1>2. IInv => ClusterProxied
  BY <1>1 DEF ClusterProxied, Restricted, Told, GateOf, Gateway
<1> QED
  BY <1>2, DocumentsAreKept, PTL

--------------------------------------------------------------------------------
(* What is behind a frontend.                                               *)

(* A function that reaches every element of T from one element of S only.   *)
LEMMA SameSize ==
  ASSUME NEW S, IsFiniteSet(S), NEW T, NEW f \in [S -> T],
         \A x, y \in S : f[x] = f[y] => x = y,
         \A z \in T : \E x \in S : f[x] = z
  PROVE  IsFiniteSet(T) /\ Cardinality(T) = Cardinality(S) /\ Cardinality(T) \in Nat
<1>1. f \in Injection(S, T) /\ f \in Surjection(S, T)
  BY DEF Injection, Surjection, IsInjective
<1>2. IsFiniteSet(T) /\ Cardinality(T) = Cardinality(S)
  BY <1>1, FS_Surjection
<1> QED
  BY <1>2, FS_CardinalityType

(* The values of a map in order are its values, as many as it has keys.     *)
LEMMA InOrderValues ==
  ASSUME NEW f, IsFiniteSet(DOMAIN f), DOMAIN f \subseteq Nat
  PROVE  /\ Len(InOrder(f)) = Cardinality(DOMAIN f)
         /\ \A v : v \in ToSet(InOrder(f)) <=> \E n \in DOMAIN f : v = f[n]
<1>1. PICK size : size = Cardinality(DOMAIN f) /\ size \in Nat
  BY InOrderKeys
<1>2. PICK key \in Bijection(1..size, DOMAIN f) : InOrder(f) = [k \in 1..size |-> f[key[k]]]
  BY <1>1, InOrderKeys
<1>3. /\ \A k \in 1..size : key[k] \in DOMAIN f
      /\ \A n \in DOMAIN f : \E k \in 1..size : key[k] = n
  BY DEF Bijection, Injection, Surjection
<1>4. PICK list : list = InOrder(f) /\ list = [k \in 1..size |-> f[key[k]]]
  BY <1>2
<1>5. IsList(list) /\ DOMAIN list = 1..size
  <2>1. list = [k \in 1..size |-> list[k]]
    BY <1>4
  <2> QED
    BY <2>1, <1>1, IsListOf
<1>6. Len(list) = size
  <2>1. Len(list) \in Nat /\ DOMAIN list = 1..Len(list)
    BY <1>5, ListEntries
  <2> QED
    BY <1>1, <1>5, <2>1
<1>7. \A v : v \in ToSet(list) <=> \E n \in DOMAIN f : v = f[n]
  <2>1. \A k \in 1..size : list[k] = f[key[k]]
    BY <1>4
  <2>2. \A v : v \in ToSet(list) <=> \E k \in 1..size : v = list[k]
    BY <1>5 DEF ToSet
  <2>3. ASSUME NEW n \in DOMAIN f PROVE \E k \in 1..size : list[k] = f[n]
    <3>1. PICK k \in 1..size : key[k] = n
      BY <1>3
    <3>2. list[k] = f[key[k]]
      BY <2>1
    <3> HIDE DEF ToSet
    <3>3. list[k] = f[n]
      BY <3>1, <3>2
    <3> QED
      BY <3>3
  <2>4. ASSUME NEW k \in 1..size PROVE \E n \in DOMAIN f : list[k] = f[n]
    BY <1>3, <2>1
  <2> HIDE DEF ToSet
  <2> QED
    BY <2>2, <2>3, <2>4
<1> QED
  BY <1>1, <1>4, <1>6, <1>7

(* The hosts agent-config lists are those of the cluster's nodes: no        *)
(* override is about them.                                                  *)
LEMMA HostsWritten ==
  ASSUME NEW f, NEW ocp, IsDocument("clusters", ocp), validateInstallOverrides(ocp),
         NEW ci, infraOf(f, ocp) = {ci}
  PROVE  AgentConfig(f, ocp)[<<"hosts">>][1] = agentHosts(ci, ocp)
<1> DEFINE own == [path \in {<<"metadata">>, <<"rendezvousIP">>, <<"hosts">>} |->
                    CASE path[1] = "metadata"     -> <<ocp.name>>
                      [] path[1] = "rendezvousIP" -> <<rendezvousIP(ci, ocp)>>
                      [] path[1] = "hosts"        -> <<agentHosts(ci, ocp)>>]
<1>0. The(infraOf(f, ocp)) = ci
  BY TheOne
<1>1. PICK boot, over, p : /\ over = ocp.agentOverrides
                           /\ p = The(providerForInfrastructure(f, ci))
                           /\ boot = disconnectedBootArtifactsConfig(f, ci, p)
  OBVIOUS
<1>2. AgentConfig(f, ocp) = mergeYAMLMaps(own ++ boot, over)
  BY SMTT(30), <1>0, <1>1 DEF AgentConfig
<1>3. <<"hosts">> \in DOMAIN own /\ own[<<"hosts">>] = <<agentHosts(ci, ocp)>>
  OBVIOUS
<1> HIDE DEF own
<1>4. PICK base : base = own ++ boot
  OBVIOUS
<1>5. PICK path : path = <<"hosts">>
  OBVIOUS
<1>6. path \in DOMAIN base /\ base[path] = <<agentHosts(ci, ocp)>>
  BY <1>3, <1>4, <1>5, Over
<1>7. \A o \in DOMAIN over : IsList(o) /\ o # <<>>
  BY <1>1 DEF IsDocument, IsOverride
<1>8. IsList(path) /\ path # <<>> /\ path[1] = "hosts"
  BY <1>5, PathLists
<1>9. "hosts" \notin TopKeys(over)
  BY <1>1 DEF validateInstallOverrides, agentConfigForbiddenKeys
<1>10. mergeYAMLMaps(base, over)[path] = base[path]
  BY <1>6, <1>7, <1>8, <1>9, NotOverridden
<1> QED
  BY <1>2, <1>4, <1>5, <1>6, <1>10


(* No two nodes of the cluster on one machine.                              *)
Apart(ocp) == \A m, n \in DOMAIN ocp.nodes : m # n => ocp.nodes[m].machine # ocp.nodes[n].machine

MachinesOf(ocp, role) == {ocp.nodes[n].machine : n \in NodesOf(ocp, role)}

(* The role of a frontend's backends.                                       *)
WantedRole(ocp, ep) == IF ep = "ingress" /\ NodesOf(ocp, "worker") # {} THEN "worker" ELSE "control-plane"

(* And what agent-config calls it.                                          *)
HostRole(role) == IF role = "worker" THEN "worker" ELSE "master"

(* The machines of a role are those of its nodes.                           *)
LEMMA RolesOfMachines ==
  ASSUME NEW ocp, Apart(ocp), NEW roles \in nodeRolesByMachineRef(ocp), NEW role
  PROVE  {m \in DOMAIN roles : roles[m] = role} = MachinesOf(ocp, role)
<1>1. /\ DOMAIN roles = {ocp.nodes[n].machine : n \in DOMAIN ocp.nodes}
      /\ \A m \in DOMAIN roles : \E n \in DOMAIN ocp.nodes : ocp.nodes[n].machine = m /\ ocp.nodes[n].role = roles[m]
  BY DEF nodeRolesByMachineRef
<1>2. ASSUME NEW m \in DOMAIN roles, roles[m] = role PROVE m \in MachinesOf(ocp, role)
  BY <1>1, <1>2 DEF MachinesOf, NodesOf
<1>3. ASSUME NEW n \in NodesOf(ocp, role)
      PROVE  ocp.nodes[n].machine \in DOMAIN roles /\ roles[ocp.nodes[n].machine] = role
  <2>1. n \in DOMAIN ocp.nodes /\ ocp.nodes[n].role = role
    BY DEF NodesOf
  <2>2. ocp.nodes[n].machine \in DOMAIN roles
    BY <1>1, <2>1
  <2>3. PICK k \in DOMAIN ocp.nodes :
           ocp.nodes[k].machine = ocp.nodes[n].machine /\ ocp.nodes[k].role = roles[ocp.nodes[n].machine]
    BY <1>1, <2>2
  <2>4. k = n
    BY <2>1, <2>3 DEF Apart
  <2> QED
    BY <2>1, <2>2, <2>3, <2>4
<1> QED
  BY <1>2, <1>3 DEF MachinesOf

(* As many as it has nodes.                                                 *)
LEMMA MachinesCounted ==
  ASSUME NEW ocp, IsNamed(ocp.nodes), Apart(ocp), NEW role
  PROVE  /\ IsFiniteSet(MachinesOf(ocp, role))
         /\ Cardinality(MachinesOf(ocp, role)) = Cardinality(NodesOf(ocp, role))
         /\ MachinesOf(ocp, role) = {} <=> NodesOf(ocp, role) = {}
<1>1. PICK S : S = NodesOf(ocp, role)
  OBVIOUS
<1>2. PICK T : T = MachinesOf(ocp, role)
  OBVIOUS
<1>3. PICK f : f = [n \in S |-> ocp.nodes[n].machine]
  OBVIOUS
<1>4. S \subseteq DOMAIN ocp.nodes /\ IsFiniteSet(S)
  BY <1>1, FS_Subset DEF NodesOf, IsNamed
<1>5. T = {ocp.nodes[n].machine : n \in S}
  BY <1>1, <1>2 DEF MachinesOf
<1>6. f \in [S -> T] /\ \A z \in T : \E x \in S : f[x] = z
  BY <1>3, <1>5
<1>7. \A x, y \in S : f[x] = f[y] => x = y
  BY <1>3, <1>4 DEF Apart
<1>8. IsFiniteSet(T) /\ Cardinality(T) = Cardinality(S)
  BY <1>4, <1>6, <1>7, SameSize
<1>9. T = {} <=> S = {}
  BY <1>5
<1> QED
  BY <1>1, <1>2, <1>8, <1>9

(* The hosts of a role are those of its nodes, as many as there are: no two *)
(* have one name.                                                           *)
LEMMA HostsOfRole ==
  ASSUME NEW ci, NEW ocp, IsNamed(ocp.nodes), validateNodes(ocp, ci), NEW role \in {"control-plane", "worker"},
         NEW hosts, hosts = ToSet(agentHosts(ci, ocp))
  PROVE  /\ {h \in hosts : h.role = HostRole(role)} = {AgentHost(ci, ocp, n) : n \in NodesOf(ocp, role)}
         /\ Cardinality({h \in hosts : h.role = HostRole(role)}) = Cardinality(NodesOf(ocp, role))
<1>1. PICK f : f = [n \in DOMAIN ocp.nodes |-> AgentHost(ci, ocp, n)]
  OBVIOUS
<1>2. DOMAIN f = DOMAIN ocp.nodes /\ IsFiniteSet(DOMAIN f) /\ DOMAIN f \subseteq Nat
  BY <1>1 DEF IsNamed
<1>3. agentHosts(ci, ocp) = InOrder(f)
  BY <1>1 DEF agentHosts
<1>4. \A v : v \in hosts <=> \E n \in DOMAIN f : v = f[n]
  BY <1>2, <1>3, InOrderValues
<1>5. \A n \in DOMAIN f : f[n].hostname = n /\ f[n].role = HostRole(ocp.nodes[n].role)
  <2> TAKE n \in DOMAIN f
  <2>1. f[n] = AgentHost(ci, ocp, n)
    BY <1>1, <1>2
  <2>2. AgentHost(ci, ocp, n).hostname = n /\ AgentHost(ci, ocp, n).role = HostRole(ocp.nodes[n].role)
    BY DEF AgentHost, HostRole
  <2> QED
    BY <2>1, <2>2
<1>6. \A n \in DOMAIN f : HostRole(ocp.nodes[n].role) = HostRole(role) <=> ocp.nodes[n].role = role
  BY <1>2 DEF validateNodes, HostRole
<1>7. PICK S : S = NodesOf(ocp, role) /\ S \subseteq DOMAIN f /\ \A n \in DOMAIN f : n \in S <=> ocp.nodes[n].role = role
  <2>1. /\ NodesOf(ocp, role) \subseteq DOMAIN f
        /\ \A n \in DOMAIN f : n \in NodesOf(ocp, role) <=> ocp.nodes[n].role = role
    BY <1>2 DEF NodesOf
  <2> QED
    BY <2>1
<1>8. PICK T : T = {h \in hosts : h.role = HostRole(role)}
  OBVIOUS
<1>9. T = {f[n] : n \in S}
  <2>1. ASSUME NEW h \in T PROVE h \in {f[n] : n \in S}
    <3>1. PICK n \in DOMAIN f : h = f[n]
      BY <1>4, <1>8
    <3>2. h.role = HostRole(role)
      BY <1>8
    <3>3. n \in S
      BY <1>5, <1>6, <1>7, <3>1, <3>2
    <3> QED
      BY <3>1, <3>3
  <2>2. ASSUME NEW n \in S PROVE f[n] \in T
    <3>1. n \in DOMAIN f /\ ocp.nodes[n].role = role
      BY <1>7
    <3>2. f[n].role = HostRole(role)
      BY <1>5, <3>1
    <3>3. f[n] \in hosts
      BY <1>4, <3>1
    <3> QED
      BY <1>8, <3>2, <3>3
  <2> QED
    BY <2>1, <2>2
<1>10. {f[n] : n \in S} = {AgentHost(ci, ocp, n) : n \in S}
  BY <1>1, <1>2, <1>7
<1>11. PICK g : g = [n \in S |-> f[n]]
  OBVIOUS
<1>12. g \in [S -> T] /\ \A z \in T : \E x \in S : g[x] = z
  BY <1>9, <1>11
<1>13. \A x, y \in S : g[x] = g[y] => x = y
  BY <1>5, <1>7, <1>11
<1>14. IsFiniteSet(S)
  BY <1>2, <1>7, FS_Subset
<1>15. Cardinality(T) = Cardinality(S)
  BY <1>12, <1>13, <1>14, SameSize
<1> QED
  BY <1>7, <1>8, <1>9, <1>10, <1>15

(* Behind a frontend are the machines of its role's nodes, each at the      *)
(* address of its primary interface.                                        *)
LEMMA BackendsOfRole ==
  ASSUME NEW ci, IsNamed(ci.machines), NEW ocp, IsNamed(ocp.nodes), validateNodes(ocp, ci), Apart(ocp),
         NEW roles \in nodeRolesByMachineRef(ocp), NEW ep \in {"api", "apiInt", "ingress"},
         NEW list, list = BackendsGiven(ci, roles, StandardEndpointBackendRole(ep)),
         NEW role, role = WantedRole(ocp, ep)
  PROVE  /\ Len(list) = Cardinality(NodesOf(ocp, role))
         /\ \A b \in ToSet(list) : \E n \in NodesOf(ocp, role) :
               b.address = primaryInterface(ci.machines[ocp.nodes[n].machine]).ip
<1> DEFINE of(r) == {m \in DOMAIN roles : roles[m] = r}
           backend(m) == [name |-> m, address |-> primaryInterface(ci.machines[m]).ip, role |-> roles[m]]
<1>1. PICK wanted : wanted = Default(StandardEndpointBackendRole(ep), "",
                                   IF of("worker") # {} THEN "worker" ELSE "control-plane")
  OBVIOUS
<1>2. list = InOrder([m \in of(wanted) \cap DOMAIN ci.machines |-> backend(m)])
  BY <1>1 DEF BackendsGiven
<1>3. \A r : of(r) = MachinesOf(ocp, r)
  BY RolesOfMachines
<1> HIDE DEF of, backend
<1>4. of("worker") # {} <=> NodesOf(ocp, "worker") # {}
  BY <1>3, MachinesCounted
<1>5. wanted = role
  BY <1>1, <1>4 DEF Default, StandardEndpointBackendRole, WantedRole
<1>6. PICK M : M = MachinesOf(ocp, role)
  OBVIOUS
<1>7. IsFiniteSet(M) /\ Cardinality(M) = Cardinality(NodesOf(ocp, role))
  BY <1>6, MachinesCounted
<1>8. M \subseteq DOMAIN ci.machines
  BY <1>6 DEF MachinesOf, NodesOf, validateNodes
<1>9. of(wanted) \cap DOMAIN ci.machines = M
  BY <1>3, <1>5, <1>6, <1>8
<1>10. PICK f : f = [m \in M |-> backend(m)]
  OBVIOUS
<1>11. list = InOrder(f)
  BY <1>2, <1>9, <1>10
<1>12. DOMAIN f = M /\ IsFiniteSet(DOMAIN f) /\ DOMAIN f \subseteq Nat
  BY <1>7, <1>8, <1>10 DEF IsNamed
<1>13. Len(list) = Cardinality(M) /\ \A v : v \in ToSet(list) <=> \E m \in DOMAIN f : v = f[m]
  BY <1>11, <1>12, InOrderValues
<1>14. ASSUME NEW b \in ToSet(list)
       PROVE  \E n \in NodesOf(ocp, role) : b.address = primaryInterface(ci.machines[ocp.nodes[n].machine]).ip
  <2>1. PICK m \in M : b = backend(m)
    BY <1>10, <1>12, <1>13
  <2>2. b.address = primaryInterface(ci.machines[m]).ip
    BY <2>1 DEF backend
  <2>3. PICK n \in NodesOf(ocp, role) : m = ocp.nodes[n].machine
    BY <1>6 DEF MachinesOf
  <2> QED
    BY <2>2, <2>3
<1> QED
  BY <1>7, <1>13, <1>14

(* The address of a machine's primary interface is in its network config.   *)
LEMMA PrimaryAddress ==
  ASSUME NEW ci, NEW m, IsNamed(m.interfaces), validateMachineInterfaces(ci, m),
         NEW address, address = primaryInterface(m).ip
  PROVE  address = <<>> \/ \E net \in agentNetworkConfig(m, ci.networks) : \E i \in net.interfaces : i.ip = address
<1>1. m.interfaces # NoMap /\ \A i \in DOMAIN m.interfaces : m.interfaces[i].network \in DOMAIN ci.networks
  BY DEF validateMachineInterfaces
<1>2. DOMAIN m.interfaces # {}
  <2>1. PICK map : map = m.interfaces
    OBVIOUS
  <2>2. map = [n \in DOMAIN map |-> map[n]] /\ map # <<>>
    BY <1>1, <2>1 DEF IsNamed, NoMap
  <2>3. ASSUME DOMAIN map = {} PROVE map = <<>>
    <3>1. DOMAIN <<>> = {} /\ <<>> = [n \in DOMAIN <<>> |-> <<>>[n]]
      OBVIOUS
    <3> QED
      BY <2>2, <2>3, <3>1
  <2> QED
    BY <2>1, <2>2, <2>3
<1>3. PICK marked : marked = {i \in DOMAIN m.interfaces : m.interfaces[i].primary = {TRUE}}
  OBVIOUS
<1>4. PICK S : S = IF marked = {} THEN DOMAIN m.interfaces ELSE marked
  OBVIOUS
<1>5. S # {} /\ S \subseteq DOMAIN m.interfaces
  BY <1>2, <1>3, <1>4
<1>6. IsFiniteSet(S) /\ S \subseteq Nat
  BY <1>5, FS_Subset DEF IsNamed
<1>7. PICK i : i = Min(S) /\ i \in DOMAIN m.interfaces
  BY <1>5, <1>6, LeastOf
<1>8. address = m.interfaces[i].ip
  BY <1>1, <1>3, <1>4, <1>7 DEF primaryInterface
<1>9. ASSUME address # <<>>
      PROVE  \E net \in agentNetworkConfig(m, ci.networks) : \E j \in net.interfaces : j.ip = address
  <2> DEFINE static == {j \in DOMAIN m.interfaces : m.interfaces[j].network \in DOMAIN ci.networks
                                                    /\ m.interfaces[j].ip # <<>>}
             own(j) == ci.networks[m.interfaces[j].network]
             entry(j) == [name |-> j, ip |-> m.interfaces[j].ip, mac |-> m.interfaces[j].mac, prefix |-> own(j).cidr]
             net == [interfaces |-> {entry(j) : j \in static},
                     dns        |-> UNION {own(j).dns : j \in static},
                     routes     |-> {[hop |-> own(j).gateway, interface |-> j] :
                                        j \in {k \in static : own(k).gateway # <<>>}}]
  <2>1. i \in static
    BY <1>1, <1>7, <1>8, <1>9
  <2>2. agentNetworkConfig(m, ci.networks) = {net}
    BY <2>1 DEF agentNetworkConfig
  <2>3. net.interfaces = {entry(j) : j \in static}
    OBVIOUS
  <2>4. entry(i).ip = address
    BY <1>8
  <2> HIDE DEF static, entry, net
  <2>5. entry(i) \in net.interfaces
    BY <2>1, <2>3
  <2> QED
    BY <2>2, <2>4, <2>5
<1> QED
  BY <1>9


(* Of the infrastructures of the scope one has a name.                      *)
LEMMA OneInfra ==
  ASSUME NEW s, Documents(s), Validate(s), NEW names, NEW f, f = scopeState(s, names),
         NEW c \in ToSet(f.infras), NEW d \in ToSet(f.infras), c.name = d.name
  PROVE  c = d
<1>1. ToSet(f.infras) \subseteq ToSet(s.infras) /\ IsList(s.infras) /\ Distinct(s.infras)
  BY ScopedState DEF Kinds, Documents, Validate, validateClusterInfrastructures
<1>2. PICK x, y : x = c /\ y = d /\ x \in ToSet(s.infras) /\ y \in ToSet(s.infras)
  BY <1>1
<1>3. IndexOf(s.infras)[x.name] = x /\ IndexOf(s.infras)[y.name] = y
  BY <1>1, <1>2, FoundByName
<1> QED
  BY <1>2, <1>3

(* The nodes of a valid cluster are those of its infrastructure.            *)
LEMMA OwnNodes ==
  ASSUME NEW s, Documents(s), Validate(s), NEW ocp \in ToSet(s.clusters),
         NEW ci \in ToSet(s.infras), ci.name = ocp.infra
  PROVE  validateNodes(ocp, ci)
<1>1. /\ Distinct(s.infras) /\ IsList(s.infras)
      /\ validateNodes(ocp, IndexOf(s.infras)[ocp.infra])
  BY DEF Validate, validateClusterInfrastructures, validateOCPClusters, Documents, Kinds
<1>2. IndexOf(s.infras)[ci.name] = ci
  BY <1>1, FoundByName
<1> QED
  BY <1>1, <1>2


(* As many backends as hosts, each at the address of one of them.           *)
BehindAre(backends, of) ==
  /\ Len(backends) = Cardinality(of)
  /\ \A b \in ToSet(backends) :
        b.address = <<>> \/ \E h \in of : \E net \in h.network : \E i \in net.interfaces : i.ip = b.address

(* A cluster each of whose nodes has a machine of its infrastructure to     *)
(* itself.                                                                  *)
OnItsMachines(ocp, ci) ==
  /\ IsDocument("clusters", ocp) /\ IsDocument("infras", ci)
  /\ \A n \in DOMAIN ci.machines : validateMachineInterfaces(ci, ci.machines[n])
  /\ validateNodes(ocp, ci)
  /\ Apart(ocp)

(* A backend of a frontend is at an address of a host of its role, and      *)
(* there are as many as there are hosts of it.                              *)
LEMMA BackendsAreHosts ==
  ASSUME NEW ocp, NEW ci, OnItsMachines(ocp, ci), NEW ep \in {"api", "apiInt", "ingress"},
         NEW backends \in backendNodes(ci, ocp, StandardEndpointBackendRole(ep)),
         NEW hosts, hosts = ToSet(agentHosts(ci, ocp)),
         NEW of, of = {h \in hosts : h.role = HostRole(WantedRole(ocp, ep))}
  PROVE  BehindAre(backends, of)
<1>1. /\ IsNamed(ci.machines) /\ IsNamed(ocp.nodes) /\ validateNodes(ocp, ci) /\ Apart(ocp)
      /\ \A n \in DOMAIN ci.machines : /\ IsNamed(ci.machines[n].interfaces)
                                       /\ validateMachineInterfaces(ci, ci.machines[n])
  BY DEF OnItsMachines, IsDocument
<1>2. PICK roles \in nodeRolesByMachineRef(ocp) : backends = BackendsGiven(ci, roles, StandardEndpointBackendRole(ep))
  BY DEF backendNodes
<1>3. PICK role : role = WantedRole(ocp, ep)
  OBVIOUS
<1>4. role \in {"control-plane", "worker"}
  BY <1>3 DEF WantedRole
<1>5. /\ Len(backends) = Cardinality(NodesOf(ocp, role))
      /\ \A b \in ToSet(backends) : \E n \in NodesOf(ocp, role) :
            b.address = primaryInterface(ci.machines[ocp.nodes[n].machine]).ip
  BY <1>1, <1>2, <1>3, BackendsOfRole
<1>6. of = {AgentHost(ci, ocp, n) : n \in NodesOf(ocp, role)} /\ Cardinality(of) = Cardinality(NodesOf(ocp, role))
  BY <1>1, <1>3, <1>4, HostsOfRole
<1>7. ASSUME NEW b \in ToSet(backends), b.address # <<>>
      PROVE  \E h \in of : \E net \in h.network : \E i \in net.interfaces : i.ip = b.address
  <2>1. PICK n \in NodesOf(ocp, role) : b.address = primaryInterface(ci.machines[ocp.nodes[n].machine]).ip
    BY <1>5
  <2>2. PICK m : m = ci.machines[ocp.nodes[n].machine]
    OBVIOUS
  <2>3. ocp.nodes[n].machine \in DOMAIN ci.machines
    BY <1>1 DEF NodesOf, validateNodes
  <2>4. IsNamed(m.interfaces) /\ validateMachineInterfaces(ci, m)
    BY <1>1, <2>2, <2>3
  <2>5. PICK address : address = b.address /\ address = primaryInterface(m).ip
    BY <2>1, <2>2
  <2>6. \E net \in agentNetworkConfig(m, ci.networks) : \E i \in net.interfaces : i.ip = address
    BY <1>7, <2>4, <2>5, PrimaryAddress
  <2>7. AgentHost(ci, ocp, n).network = agentNetworkConfig(m, ci.networks)
    BY <2>2 DEF AgentHost
  <2>8. AgentHost(ci, ocp, n) \in of
    BY <1>6
  <2> QED
    BY <2>5, <2>6, <2>7, <2>8
<1> QED
  BY <1>5, <1>6, <1>7 DEF BehindAre

(* Where the role of a frontend is read off the hosts, it is the one the    *)
(* backends are chosen by.                                                  *)
LEMMA RoleOfHosts ==
  ASSUME NEW ci, NEW ocp, IsNamed(ocp.nodes), validateNodes(ocp, ci), NEW ep,
         NEW hosts, hosts = ToSet(agentHosts(ci, ocp))
  PROVE  (IF ep = "ingress" /\ \E h \in hosts : h.role = "worker" THEN "worker" ELSE "master")
            = HostRole(WantedRole(ocp, ep))
<1>1. PICK S : S = NodesOf(ocp, "worker")
  OBVIOUS
<1>2. PICK W : W = {h \in hosts : h.role = "worker"}
  OBVIOUS
<1>3. HostRole("worker") = "worker" /\ HostRole("control-plane") = "master"
  BY DEF HostRole
<1>4. W = {AgentHost(ci, ocp, n) : n \in S}
  <2>1. PICK role : role = "worker"
    OBVIOUS
  <2>2. role \in {"control-plane", "worker"}
    BY <2>1
  <2>3. PICK of : of = {h \in hosts : h.role = HostRole(role)}
    OBVIOUS
  <2>4. of = {AgentHost(ci, ocp, n) : n \in NodesOf(ocp, role)}
    BY SMTT(30), <2>2, <2>3, HostsOfRole
  <2> QED
    BY <1>1, <1>2, <1>3, <2>1, <2>3, <2>4
<1>5. (\E h \in hosts : h.role = "worker") <=> S # {}
  BY <1>2, <1>4
<1> QED
  BY <1>1, <1>3, <1>5 DEF WantedRole

(* A load balancer of the variables is one of an infrastructure, and its    *)
(* frontends are of the cluster that is bound to it.                        *)
LEMMA FrontendsOf ==
  ASSUME NEW f, NEW lb \in sharedLoadBalancerVars(f)
  PROVE  \E ci \in ToSet(f.infras) : \E name \in DOMAIN ci.loadBalancers :
            /\ lb.cluster = ci.name
            /\ \A front \in ToSet(lb.frontends) : \E ep \in ToSet(ci.loadBalancers[name]) :
                  front = frontendForEndpoint(ci, ocpByInfrastructure(f, ci), ep)
<1> DEFINE balancer(ci, n) ==
             [name     |-> n, cluster |-> ci.name, provider |-> ClosureOf(f, ci).name,
              image    |-> componentImageURLs(primaryEnvironment(f), "haproxy"),
              host     |-> The(HAProxy(ClosureOf(f, ci))).host,
              frontends |-> [i \in DOMAIN ci.loadBalancers[n] |->
                                frontendForEndpoint(ci, ocpByInfrastructure(f, ci), ci.loadBalancers[n][i])]]
           served == {c \in ToSet(f.infras) : HAProxy(ClosureOf(f, c)) # {}}
<1>1. sharedLoadBalancerVars(f) = UNION {{balancer(ci, n) : n \in DOMAIN ci.loadBalancers} : ci \in served}
  BY DEF sharedLoadBalancerVars
<1>2. \A ci, n : /\ balancer(ci, n).cluster = ci.name
                 /\ balancer(ci, n).frontends = [i \in DOMAIN ci.loadBalancers[n] |->
                       frontendForEndpoint(ci, ocpByInfrastructure(f, ci), ci.loadBalancers[n][i])]
  OBVIOUS
<1>3. served \subseteq ToSet(f.infras)
  OBVIOUS
<1> HIDE DEF balancer, served
<1>4. PICK ci \in served : \E n \in DOMAIN ci.loadBalancers : lb = balancer(ci, n)
  BY <1>1
<1>5. PICK n \in DOMAIN ci.loadBalancers : lb = balancer(ci, n)
  BY <1>4
<1>6. PICK eps : eps = ci.loadBalancers[n]
  OBVIOUS
<1>7. lb.cluster = ci.name /\ lb.frontends = [i \in DOMAIN eps |-> frontendForEndpoint(ci, ocpByInfrastructure(f, ci), eps[i])]
  BY <1>2, <1>5, <1>6
<1>8. ASSUME NEW front \in ToSet(lb.frontends)
      PROVE  \E ep \in ToSet(eps) : front = frontendForEndpoint(ci, ocpByInfrastructure(f, ci), ep)
  <2>1. PICK i \in DOMAIN eps : front = frontendForEndpoint(ci, ocpByInfrastructure(f, ci), eps[i])
    BY <1>7, <1>8 DEF ToSet
  <2>2. eps[i] \in ToSet(eps)
    BY DEF ToSet
  <2> QED
    BY <2>1, <2>2
<1> QED
  BY <1>3, <1>6, <1>7, <1>8

(* What is behind a frontend is what the installer makes nodes of           *)
(* (vars_components.go, backendNodes): the balancer goes by the machines    *)
(* and agent-config by the nodes, and where every node has a machine of its *)
(* own both are as many of each role, at the same addresses.                *)
THEOREM BackendsAreTheNodes == Spec => []BackendsAreNodes
<1>1. ASSUME IInv, NEW path \in Written("bootstrap", "agent-config"),
             NEW named, named = ClusterNamed(Scoped, path[2]), Apart(named),
             NEW hosts, hosts = ToSet(files[path][<<"hosts">>][1]),
             NEW lb \in files[<<"vars">>].loadBalancers, lb.cluster = named.infra,
             NEW front \in ToSet(lb.frontends), NEW backends \in front.backends,
             NEW of, of = {h \in hosts : h.role =
                             IF front.endpoint = "ingress" /\ \E g \in hosts : g.role = "worker"
                             THEN "worker" ELSE "master"}
      PROVE  BehindAre(backends, of)
  <2>1. DOMAIN files # {}
    BY <1>1 DEF Written
  <2>2. PICK s, f : /\ s = state /\ f = Scoped /\ f = scopeState(s, scope)
                    /\ Documents(s) /\ Validate(s)
                    /\ Documents(f) /\ f.environments = s.environments
                    /\ ToSet(f.clusters) \subseteq ToSet(s.clusters)
    BY <1>1, <2>1, InScope
  <2>3. "agent-config" \in ConfigFiles /\ "bootstrap" \in {"bootstrap", "runtime"}
    BY DEF ConfigFiles
  <2>4. PICK ocp \in ToSet(f.clusters) :
           /\ path = <<"bootstrap", ocp.name, "agent-config">> /\ path[2] = ocp.name
           /\ files[path] = RenderedContent(path)
    BY <1>1, <2>2, <2>3, WrittenConfigs
  <2>5. PICK ci, closure : KeptWhole(s, f, ocp, ci, closure)
    BY <2>2, ScopedCluster
  <2>6. named = ocp /\ ClusterNamed(f, ocp.name) = ocp
    BY <1>1, <2>2, <2>4, <2>5 DEF KeptWhole
  <2>7. path[1] = "bootstrap" /\ path[3] = "agent-config" /\ path \in DOMAIN files
    BY <1>1 DEF Written
  <2>8. files[path] = AgentConfig(f, ocp)
    BY <2>2, <2>4, <2>6, <2>7 DEF RenderedContent
  <2>9. ocp \in ToSet(s.clusters) /\ ci \in ToSet(s.infras) /\ ci \in ToSet(f.infras) /\ ci.name = ocp.infra
    BY <2>5 DEF KeptWhole
  <2>10. IsDocument("clusters", ocp) /\ IsDocument("infras", ci)
    BY <2>2, <2>9 DEF Documents, Kinds
  <2>11. validateInstallOverrides(ocp)
    BY <2>2, <2>9 DEF Validate, validateOCPClusters
  <2>12. infraOf(f, ocp) = {ci}
    BY <2>5 DEF KeptWhole
  <2>13. AgentConfig(f, ocp)[<<"hosts">>][1] = agentHosts(ci, ocp)
    BY <2>10, <2>11, <2>12, HostsWritten
  <2>14. hosts = ToSet(agentHosts(ci, ocp))
    BY <1>1, <2>8, <2>13
  <2>15. <<"vars">> \in DOMAIN files /\ files[<<"vars">>] = Vars(f)
    BY <1>1, <2>2, <2>7, VarsWritten DEF IInv, VarsFirst
  <2>16. lb \in sharedLoadBalancerVars(f)
    BY <1>1, <2>15 DEF Vars
  <2>17. PICK c, name : /\ c \in ToSet(f.infras) /\ name \in DOMAIN c.loadBalancers
                     /\ lb.cluster = c.name
                     /\ \A fr \in ToSet(lb.frontends) : \E ep \in ToSet(c.loadBalancers[name]) :
                           fr = frontendForEndpoint(c, ocpByInfrastructure(f, c), ep)
    BY <2>16, FrontendsOf
  <2>18. c = ci
    BY <1>1, <2>2, <2>6, <2>9, <2>17, OneInfra
  <2>19. ocpByInfrastructure(f, ci) = ocp
    BY <2>2, <2>9, OwnCluster
  <2>20. PICK ep \in ToSet(ci.loadBalancers[name]) : front = frontendForEndpoint(ci, ocp, ep)
    BY <1>1, <2>17, <2>18, <2>19
  <2>21. PICK p : validateMachines(ci, p) /\ validateLoadBalancers(ci, p)
    BY <2>2, <2>9 DEF Validate, validateClusterInfrastructures
  <2>22. \A n \in DOMAIN ci.machines : validateMachineInterfaces(ci, ci.machines[n])
    BY <2>21 DEF validateMachines
  <2>23. ep \in {"api", "apiInt", "ingress"}
    BY <2>10, <2>17, <2>18, <2>20, <2>21 DEF validateLoadBalancers, IsDocument
  <2>24. front.endpoint = ep /\ backends \in backendNodes(ci, ocp, StandardEndpointBackendRole(ep))
    BY <1>1, <2>20 DEF frontendForEndpoint
  <2>25. validateNodes(ocp, ci)
    BY <2>2, <2>9, OwnNodes
  <2>26. IsNamed(ocp.nodes)
    BY <2>10 DEF IsDocument
  <2>27. (IF ep = "ingress" /\ \E g \in hosts : g.role = "worker" THEN "worker" ELSE "master")
            = HostRole(WantedRole(ocp, ep))
    BY <2>14, <2>25, <2>26, RoleOfHosts
  <2>28. of = {h \in hosts : h.role = HostRole(WantedRole(ocp, ep))}
    BY <1>1, <2>24, <2>27
  <2>29. OnItsMachines(ocp, ci)
    BY <1>1, <2>6, <2>10, <2>22, <2>25 DEF OnItsMachines
  <2> QED
    BY <2>14, <2>23, <2>24, <2>28, <2>29, BackendsAreHosts
<1>2. ASSUME IInv PROVE BackendsAreNodes
  <2> SUFFICES ASSUME NEW path \in Written("bootstrap", "agent-config"),
                      NEW named, named = ClusterNamed(Scoped, path[2]), Apart(named),
                      NEW hosts, hosts = ToSet(files[path][<<"hosts">>][1]),
                      NEW lb \in files[<<"vars">>].loadBalancers, lb.cluster = named.infra,
                      NEW front \in ToSet(lb.frontends), NEW backends \in front.backends,
                      NEW of, of = {h \in hosts : h.role =
                                      IF front.endpoint = "ingress" /\ \E g \in hosts : g.role = "worker"
                                      THEN "worker" ELSE "master"}
               PROVE  /\ Len(backends) = Cardinality(of)
                      /\ \A b \in ToSet(backends) :
                            \/ b.address = <<>>
                            \/ \E h \in of : b.address \in UNION {{i.ip : i \in net.interfaces} : net \in h.network}
    BY DEF BackendsAreNodes, Apart
  <2>1. BehindAre(backends, of)
    BY <1>1, <1>2
  <2>2. \A h, a : (\E net \in h.network : \E i \in net.interfaces : i.ip = a)
                     => a \in UNION {{i.ip : i \in net.interfaces} : net \in h.network}
    OBVIOUS
  <2> QED
    BY <2>1, <2>2 DEF BehindAre
<1> QED
  BY <1>2, DocumentsAreKept, PTL
================================================================================
