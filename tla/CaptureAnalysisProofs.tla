------------------------- MODULE CaptureAnalysisProofs -------------------------
(***************************************************************************)
(* Proofs for CaptureAnalysis, for any finite set of requests and any      *)
(* tables of shapes and of singular forms.                                 *)
(***************************************************************************)
EXTENDS CaptureAnalysis, FiniteSetTheorems, FunctionTheorems, TLAPS

--------------------------------------------------------------------------------
(* Counting *)

\* A non-empty set of natural numbers has a least element.
LEMMA LeastExists ==
    ASSUME NEW S, S \subseteq Nat, S # {}
    PROVE  \E x \in S : \A y \in S : x <= y
<1>1. PICK x \in S : \A y \in S : ~(<<y, x>> \in OpToRel(<, Nat))
  BY NatLessThanWellFounded, WFMin
<1>2. \A y \in S : ~(y < x)
  BY <1>1 DEF OpToRel
<1> QED
  BY <1>2

\* Min is that element.
LEMMA MinIsLeast ==
    ASSUME NEW S, S \subseteq Nat, S # {}
    PROVE  Min(S) \in S /\ \A y \in S : Min(S) <= y
BY LeastExists DEF Min

\* A function on a finite set takes one of its values most often.
LEMMA LeaderExists ==
    ASSUME NEW f, IsFiniteSet(DOMAIN f), DOMAIN f # {}
    PROVE  \E x \in Range(f) : Leads(f, x)
<1> DEFINE N == Cardinality(DOMAIN f)
           S == {N - Count(f, x) : x \in Range(f)}
<1>1. N \in Nat /\ \A x : Count(f, x) \in Nat /\ Count(f, x) <= N
  BY FS_CardinalityType, FS_Subset DEF Count
<1>2. S \subseteq Nat /\ S # {}
  BY <1>1 DEF Range
<1>3. PICK n \in S : \A y \in S : n <= y
  BY <1>2, LeastExists
<1>4. PICK x \in Range(f) : n = N - Count(f, x)
  BY <1>3
<1>5. \A y \in Range(f) : N - Count(f, x) <= N - Count(f, y)
  BY <1>3, <1>4
<1> QED
  BY <1>1, <1>4, <1>5 DEF Leads

\* A non-empty set of numbers below a bound has a greatest element: Max.
LEMMA MaxIsGreatest ==
    ASSUME NEW n \in Nat, NEW S, S \subseteq 1..n, S # {}
    PROVE  Max(S) \in S
<1> DEFINE D == {n - x : x \in S}
<1>1. D \subseteq Nat /\ D # {}
  <2>1. \A x \in S : n - x \in Nat
    OBVIOUS
  <2> QED
    BY <2>1
<1>2. PICK d \in D : \A y \in D : d <= y
  BY <1>1, LeastExists
<1>3. PICK x \in S : d = n - x
  BY <1>2
<1>4. \A y \in S : n - x <= n - y
  BY <1>2, <1>3
<1>5. \A y \in S : x >= y
  BY <1>3, <1>4
<1> QED
  BY <1>3, <1>5 DEF Max

\* A bijection pairs the elements of corresponding subsets.
LEMMA SubBijection ==
    ASSUME NEW D, NEW E, NEW q \in Bijection(D, E), NEW A, NEW B,
           A \subseteq D, B \subseteq E, \A i \in D : i \in A <=> q[i] \in B
    PROVE  \E g \in Bijection(A, B) : \A i \in A : g[i] = q[i]
<1> DEFINE g == [i \in A |-> q[i]]
<1>1. /\ q \in [D -> E]
      /\ \A i, j \in D : q[i] = q[j] => i = j
      /\ \A b \in E : \E i \in D : q[i] = b
  BY Fun_BijectionProperties
<1>2. g \in [A -> B] /\ \A i, j \in A : g[i] = g[j] => i = j
  BY <1>1
<1>3. \A b \in B : \E i \in A : g[i] = b
  BY <1>1
<1>4. \A i \in A : g[i] = q[i]
  OBVIOUS
<1> HIDE DEF g
<1>5. g \in Bijection(A, B)
  BY <1>2, <1>3, Fun_IsBij
<1> QED
  BY <1>4, <1>5

\* They are equally many.
LEMMA SameCount ==
    ASSUME NEW D, NEW E, NEW q \in Bijection(D, E), NEW A, NEW B, IsFiniteSet(D),
           A \subseteq D, B \subseteq E, \A i \in D : i \in A <=> q[i] \in B
    PROVE  Cardinality(A) = Cardinality(B)
<1>1. ExistsBijection(A, B)
  BY SubBijection DEF ExistsBijection
<1>2. IsFiniteSet(A)
  BY FS_Subset
<1> QED
  BY <1>1, <1>2, FS_Bijection

\* Where no two values lead, MostCommon is the one that does.
LEMMA MajorityLeads ==
    ASSUME NEW f, DOMAIN f \subseteq Nat, IsFiniteSet(DOMAIN f), ~Tied(f),
           NEW x \in Range(f), Leads(f, x)
    PROVE  MostCommon(f) = x
<1> DEFINE P(z) == \A y \in Range(f) :
                       \/ Count(f, z) > Count(f, y)
                       \/ Count(f, z) = Count(f, y) /\ First(f, z) <= First(f, y)
<1>1. \A y : Count(f, y) \in Nat
  BY FS_CardinalityType, FS_Subset DEF Count
<1>2. ASSUME NEW y \in Range(f), y # x
      PROVE  Count(f, y) < Count(f, x)
  <2>1. PICK w \in Range(f) : ~(Count(f, y) >= Count(f, w))
    BY <1>2 DEF Tied, Leads
  <2>2. Count(f, x) >= Count(f, w)
    BY DEF Leads
  <2> QED
    BY <1>1, <2>1, <2>2
<1>3. First(f, x) \in Nat
  <2> DEFINE S == {i \in DOMAIN f : f[i] = x}
  <2>1. S # {} /\ S \subseteq Nat
    BY DEF Range
  <2> QED
    BY <2>1, MinIsLeast DEF First
<1>4. P(x)
  BY <1>1, <1>2, <1>3
<1>5. \A z \in Range(f) : P(z) => z = x
  BY <1>1, <1>2
<1>6. MostCommon(f) = CHOOSE z \in Range(f) : P(z)
  BY DEF MostCommon
<1> HIDE DEF P
<1> QED
  BY <1>4, <1>5, <1>6

\* The values are the same in any order.
LEMMA RangeKept ==
    ASSUME NEW f, NEW g, NEW q \in Bijection(DOMAIN g, DOMAIN f),
           \A n \in DOMAIN g : g[n] = f[q[n]]
    PROVE  Range(g) = Range(f)
<1>1. /\ q \in [DOMAIN g -> DOMAIN f]
      /\ \A i \in DOMAIN f : \E n \in DOMAIN g : q[n] = i
  BY Fun_BijectionProperties
<1> QED
  BY <1>1 DEF Range

\* Where no two values lead, MostCommon does not see the order.
LEMMA MajorityKept ==
    ASSUME NEW f, NEW g, DOMAIN f \subseteq Nat, DOMAIN g \subseteq Nat,
           IsFiniteSet(DOMAIN f), DOMAIN f # {}, ~Tied(f),
           NEW q \in Bijection(DOMAIN g, DOMAIN f),
           IsFiniteSet(DOMAIN g), \A n \in DOMAIN g : g[n] = f[q[n]]
    PROVE  MostCommon(g) = MostCommon(f)
<1>1. /\ q \in [DOMAIN g -> DOMAIN f]
      /\ \A i \in DOMAIN f : \E n \in DOMAIN g : q[n] = i
  BY Fun_BijectionProperties
<1>2. Range(g) = Range(f)
  BY RangeKept
<1>3. ASSUME NEW x
      PROVE  Count(g, x) = Count(f, x)
  <2> DEFINE A == {n \in DOMAIN g : g[n] = x}
             B == {i \in DOMAIN f : f[i] = x}
  <2>1. A \subseteq DOMAIN g /\ B \subseteq DOMAIN f /\ \A n \in DOMAIN g : n \in A <=> q[n] \in B
    BY <1>1
  <2> HIDE DEF A, B
  <2>2. Cardinality(A) = Cardinality(B)
    BY <2>1, SameCount
  <2> QED
    BY <2>2 DEF Count, A, B
<1>4. PICK x \in Range(f) : Leads(f, x)
  BY LeaderExists
<1>5. Leads(g, x) /\ ~Tied(g)
  BY <1>2, <1>3, <1>4 DEF Leads, Tied
<1>6. MostCommon(f) = x
  BY <1>4, MajorityLeads
<1>7. MostCommon(g) = x
  BY <1>2, <1>4, <1>5, MajorityLeads
<1> QED
  BY <1>6, <1>7

--------------------------------------------------------------------------------
(* Clusters *)

\* The signature of a path position by position.
LEMMA SignatureOf ==
    ASSUME NEW e \in Entry
    PROVE  /\ Key(e) = <<e.method, PathSignature(e.path)>>
           /\ DOMAIN PathSignature(e.path) = DOMAIN e.path
           /\ \A i \in DOMAIN e.path :
                  PathSignature(e.path)[i] = IF Variable(e.path[i]) THEN ":var" ELSE e.path[i]
BY DEF Key, PathSignature

\* A cluster is not empty, and its paths agree wherever no id is.
LEMMA ClusterPaths ==
    ASSUME NEW es \in Seq(Entry), NEW key \in Keys(es)
    PROVE  LET P == Paths(es, key)
           IN  /\ DOMAIN P = Invocations(es, key)
               /\ DOMAIN P \subseteq 1..Len(es) /\ DOMAIN P # {}
               /\ Min(DOMAIN P) \in DOMAIN P
               /\ \A n \in DOMAIN P :
                      /\ Key(es[n]) = key
                      /\ DOMAIN P[n] = DOMAIN key[2]
                      /\ \A i \in DOMAIN key[2] :
                             key[2][i] = IF Variable(P[n][i]) THEN ":var" ELSE P[n][i]
<1> DEFINE P == Paths(es, key)
<1>1. DOMAIN P = Invocations(es, key)
  BY DEF Paths
<1>2. DOMAIN P \subseteq 1..Len(es) /\ DOMAIN P # {}
  BY <1>1 DEF Invocations, Keys, Analysed
<1>3. Min(DOMAIN P) \in DOMAIN P
  BY <1>2, MinIsLeast
<1>4. ASSUME NEW n \in DOMAIN P
      PROVE  /\ Key(es[n]) = key
             /\ DOMAIN P[n] = DOMAIN key[2]
             /\ \A i \in DOMAIN key[2] :
                    key[2][i] = IF Variable(P[n][i]) THEN ":var" ELSE P[n][i]
  <2>1. n \in 1..Len(es) /\ es[n] \in Entry /\ P[n] = es[n].path
    BY <1>1, <1>2 DEF Paths
  <2>2. Key(es[n]) = key
    BY <1>1 DEF Invocations
  <2> QED
    BY <2>1, <2>2, SignatureOf
<1> QED
  BY <1>1, <1>2, <1>3, <1>4

\* What the template of a cluster says of its signature, and of its paths.
LEMMA TemplateOfCluster ==
    ASSUME NEW es \in Seq(Entry), NEW key \in Keys(es)
    PROVE  LET P == Paths(es, key)
               T == PathTemplate(P)
           IN  /\ DOMAIN T = DOMAIN key[2]
               /\ \A i \in DOMAIN key[2] :
                      IF VariableColumn(P, i)
                      THEN T[i].base # {} /\ key[2][i] = ":var"
                      ELSE T[i].base = {} /\ key[2][i] = T[i].literal
<1> DEFINE P == Paths(es, key)
           T == PathTemplate(P)
           m == Min(DOMAIN P)
<1>1. /\ m \in DOMAIN P
      /\ \A n \in DOMAIN P :
             /\ DOMAIN P[n] = DOMAIN key[2]
             /\ \A i \in DOMAIN key[2] :
                    key[2][i] = IF Variable(P[n][i]) THEN ":var" ELSE P[n][i]
  BY ClusterPaths
<1>2. DOMAIN T = DOMAIN key[2]
  BY <1>1 DEF PathTemplate
<1>3. ASSUME NEW i \in DOMAIN key[2], VariableColumn(P, i)
      PROVE  T[i].base # {} /\ key[2][i] = ":var"
  <2>1. T[i].base = {BaseName(P, i)}
    BY <1>1, <1>3 DEF PathTemplate
  <2>2. key[2][i] = ":var"
    BY <1>1, <1>3 DEF VariableColumn
  <2> QED
    BY <2>1, <2>2
<1>4. ASSUME NEW i \in DOMAIN key[2], ~VariableColumn(P, i)
      PROVE  T[i].base = {} /\ key[2][i] = T[i].literal
  <2>1. T[i].base = {} /\ T[i].literal = P[m][i]
    BY <1>1, <1>4 DEF PathTemplate, Literal, Column
  <2>2. key[2][i] = P[m][i]
    BY <1>1, <1>4 DEF VariableColumn
  <2> QED
    BY <2>1, <2>2
<1> QED
  BY <1>2, <1>3, <1>4

\* An analysed entry matches a candidate exactly when it is in its cluster.
LEMMA MatchIsMembership ==
    ASSUME NEW es \in Seq(Entry), NEW key \in Keys(es), NEW j \in Analysed(es)
    PROVE  Matches(es[j], Candidate(es, key)) <=> Key(es[j]) = key
<1> DEFINE P == Paths(es, key)
           T == PathTemplate(P)
           e == es[j]
<1>1. e \in Entry
  BY DEF Analysed
<1>2. PICK k \in DOMAIN es : es[k] \in Entry /\ key = Key(es[k])
  BY DEF Keys, Analysed
<1>3. /\ key = <<key[1], key[2]>>
      /\ key[2] = [i \in DOMAIN key[2] |-> key[2][i]]
      /\ \A i \in DOMAIN key[2] : key[2][i] = ":var" \/ ~Variable(key[2][i])
  BY <1>2, SignatureOf DEF Key, PathSignature
<1>4. Key(e) = <<e.method, PathSignature(e.path)>>
  BY <1>1, SignatureOf
<1>5. Candidate(es, key).method = key[1] /\ Candidate(es, key).template = T
  BY DEF Candidate
<1>6. ASSUME Key(e) = key
      PROVE  Matches(e, Candidate(es, key))
  <2>1. j \in DOMAIN P
    BY <1>6 DEF Paths, Invocations
  <2>2. P[j] = e.path
    BY <2>1 DEF Paths
  <2>3. DOMAIN e.path = DOMAIN T /\ e.method = key[1]
    BY <1>1, <1>4, <1>6, SignatureOf, TemplateOfCluster
  <2>4. ASSUME NEW i \in DOMAIN e.path
        PROVE  IF T[i].base = {} THEN e.path[i] = T[i].literal
               ELSE Variable(e.path[i]) \/ e.path[i] = ":var"
    <3>1. i \in DOMAIN key[2]
      BY <2>3, TemplateOfCluster
    <3>2. key[2][i] = IF Variable(e.path[i]) THEN ":var" ELSE e.path[i]
      BY <2>1, <2>2, <3>1, ClusterPaths
    <3>3. CASE VariableColumn(P, i)
      BY <3>1, <3>2, <3>3, TemplateOfCluster
    <3>4. CASE ~VariableColumn(P, i)
      <4>1. ~Variable(e.path[i])
        BY <2>1, <2>2, <3>4 DEF VariableColumn
      <4> QED
        BY <3>1, <3>2, <3>4, <4>1, TemplateOfCluster
    <3> QED
      BY <3>3, <3>4
  <2> QED
    BY <1>5, <2>3, <2>4 DEF Matches
<1>7. ASSUME Matches(e, Candidate(es, key))
      PROVE  Key(e) = key
  <2>1. e.method = key[1] /\ DOMAIN e.path = DOMAIN key[2]
    BY <1>5, <1>7, TemplateOfCluster DEF Matches
  <2>2. ASSUME NEW i \in DOMAIN key[2]
        PROVE  PathSignature(e.path)[i] = key[2][i]
    <3>1. IF T[i].base = {} THEN e.path[i] = T[i].literal
          ELSE Variable(e.path[i]) \/ e.path[i] = ":var"
      BY <1>5, <1>7, <2>1 DEF Matches
    <3>2. PathSignature(e.path)[i] = IF Variable(e.path[i]) THEN ":var" ELSE e.path[i]
      BY <1>1, <2>1, SignatureOf
    <3>3. CASE VariableColumn(P, i)
      BY <3>1, <3>2, <3>3, TemplateOfCluster
    <3>4. CASE ~VariableColumn(P, i)
      <4>1. key[2][i] = T[i].literal /\ e.path[i] = key[2][i]
        BY <3>1, <3>4, TemplateOfCluster
      <4>2. key[2][i] = ":var" \/ ~Variable(key[2][i])
        BY <1>3
      <4> QED
        BY <3>2, <4>1, <4>2
    <3> QED
      BY <3>3, <3>4
  <2>3. PathSignature(e.path) = key[2]
    BY <1>3, <2>1, <2>2 DEF PathSignature
  <2> QED
    BY <1>3, <1>4, <2>1, <2>3
<1> QED
  BY <1>6, <1>7

\* Method and template determine the cluster.
LEMMA IdentityOfCluster ==
    ASSUME NEW es \in Seq(Entry), NEW k \in Keys(es), NEW l \in Keys(es),
           Candidate(es, k).method = Candidate(es, l).method,
           Candidate(es, k).template = Candidate(es, l).template
    PROVE  k = l
<1> DEFINE T == PathTemplate(Paths(es, k))
<1>1. T = PathTemplate(Paths(es, l)) /\ k[1] = l[1]
  BY DEF Candidate
<1>2. \A key \in Keys(es) : /\ key = <<key[1], key[2]>>
                            /\ key[2] = [i \in DOMAIN key[2] |-> key[2][i]]
  BY DEF Keys, Key, PathSignature
<1>3. DOMAIN k[2] = DOMAIN l[2]
  BY <1>1, TemplateOfCluster
<1>4. ASSUME NEW i \in DOMAIN k[2]
      PROVE  k[2][i] = l[2][i]
  <2>1. k[2][i] = IF T[i].base = {} THEN T[i].literal ELSE ":var"
    BY TemplateOfCluster
  <2>2. l[2][i] = IF T[i].base = {} THEN T[i].literal ELSE ":var"
    BY <1>1, <1>3, TemplateOfCluster
  <2> QED
    BY <2>1, <2>2
<1>5. k[2] = l[2]
  <2>1. [i \in DOMAIN k[2] |-> k[2][i]] = [i \in DOMAIN l[2] |-> l[2][i]]
    BY <1>3, <1>4
  <2>2. k[2] = [i \in DOMAIN k[2] |-> k[2][i]]
    BY <1>2
  <2>3. l[2] = [i \in DOMAIN l[2] |-> l[2][i]]
    BY <1>2
  <2> QED
    BY <2>1, <2>2, <2>3, Zenon
<1> QED
  BY <1>1, <1>2, <1>5

--------------------------------------------------------------------------------
(* Frequencies *)

\* A name is marked exactly when it is in every invocation.
LEMMA RequiredIsInAll ==
    ASSUME NEW names, IsFiniteSet(DOMAIN names), DOMAIN names # {}
    PROVE  RequiredIn(Frequencies(names))
             = {k \in UNION {Range(names[n]) : n \in DOMAIN names} :
                   \A n \in DOMAIN names : k \in Range(names[n])}
<1> DEFINE D == DOMAIN names
           U == UNION {Range(names[n]) : n \in D}
           With(k) == {n \in D : k \in Range(names[n])}
           F(k) == [name |-> k, seen |-> Cardinality(With(k)), total |-> Cardinality(D)]
<1>1. Frequencies(names) = {F(k) : k \in U}
  BY DEF Frequencies
<1>2. Cardinality(D) \in Nat /\ Cardinality(D) # 0
  BY FS_CardinalityType, FS_EmptySet
<1>3. ASSUME NEW k \in U
      PROVE  IsRequired(F(k)) <=> \A n \in D : k \in Range(names[n])
  <2>1. IsRequired(F(k)) <=> Cardinality(D) = Cardinality(With(k))
    BY <1>2 DEF IsRequired
  <2>2. Cardinality(D) = Cardinality(With(k)) <=> With(k) = D
    <3> HIDE DEF D
    <3> QED
      BY FS_Subset DEF D
  <2> QED
    BY <2>1, <2>2
<1>4. \A k : F(k).name = k
  OBVIOUS
<1> HIDE DEF F, U, D
<1>5. RequiredIn({F(k) : k \in U}) = {k \in U : IsRequired(F(k))}
  BY <1>4 DEF RequiredIn
<1>6. RequiredIn({F(k) : k \in U}) = {k \in U : \A n \in D : k \in Range(names[n])}
  BY <1>3, <1>5
<1> QED
  BY <1>1, <1>6 DEF U, D

--------------------------------------------------------------------------------
(* The inductive invariant *)

TypeInv ==
    /\ browser \in [Requests -> States]
    /\ bare \subseteq Requests
    /\ entries \in Seq(Entry)
    /\ result.done \in BOOLEAN

\* Every entry belongs to a recorded request of its own, and shows what the
\* recorder knows of it.
Paired ==
    \E at \in Bijection(DOMAIN entries, Recorded) :
        \A i \in DOMAIN entries : entries[i] = Known(at[i])

\* Nothing is recorded after the analysis.
ResultInv ==
    result = IF result.done
             THEN [done |-> TRUE, candidates |-> AnalyzeCapture(entries)]
             ELSE NoResult

IInv == TypeInv /\ Paired /\ ResultInv

\* A step that records nothing keeps the pairing.
LEMMA PairingKept ==
    ASSUME Paired, UNCHANGED entries, Recorded' = Recorded,
           \A r \in Recorded : Known(r)' = Known(r)
    PROVE  Paired'
<1>1. PICK at \in Bijection(DOMAIN entries, Recorded) :
          \A i \in DOMAIN entries : entries[i] = Known(at[i])
  BY DEF Paired
<1>2. \A i \in DOMAIN entries : at[i] \in Recorded
  BY <1>1, Fun_BijectionProperties
<1>3. /\ at \in Bijection(DOMAIN entries', Recorded')
      /\ \A i \in DOMAIN entries' : entries'[i] = Known(at[i])'
  BY <1>1, <1>2
<1> QED
  BY <1>3 DEF Paired

\* What is known of a request is an entry.
LEMMA KnownIsEntry ==
    ASSUME NEW r \in Requests
    PROVE  Known(r) \in Entry
<1>1. r \in Entry
  BY RequestsAssumption
<1>2. <<>> \in Seq(STRING)
  OBVIOUS
<1> QED
  BY <1>1, <1>2 DEF Known, Entry

\* A body that arrives adds one entry and one recorded request.
LEMMA PairingGrows ==
    ASSUME TypeInv, Paired, NEW r \in Requests, BodyArrives(r)
    PROVE  Paired'
<1> DEFINE n == Len(entries) + 1
<1>1. PICK at \in Bijection(DOMAIN entries, Recorded) :
          \A i \in DOMAIN entries : entries[i] = Known(at[i])
  BY DEF Paired
<1>2. /\ at \in [DOMAIN entries -> Recorded]
      /\ \A i, j \in DOMAIN entries : at[i] = at[j] => i = j
      /\ \A q \in Recorded : \E i \in DOMAIN entries : at[i] = q
  BY <1>1, Fun_BijectionProperties
<1>3. Recorded' = Recorded \cup {r} /\ r \notin Recorded
  BY DEF BodyArrives, Moves, Recorded, TypeInv, States
<1>4. /\ Len(entries) \in Nat
      /\ DOMAIN entries = 1..Len(entries) /\ DOMAIN entries' = 1..n
      /\ \A i \in 1..Len(entries) : entries'[i] = entries[i]
      /\ entries'[n] = Known(r)
  <2>1. Known(r) \in Entry
    BY KnownIsEntry
  <2> QED
    BY <2>1 DEF BodyArrives, TypeInv
<1>5. \A q : Known(q)' = Known(q)
  BY DEF BodyArrives, Known
<1>6. PICK new : new = [i \in DOMAIN entries' |-> IF i = n THEN r ELSE at[i]]
  OBVIOUS
<1>7. new \in [DOMAIN entries' -> Recorded']
  BY <1>2, <1>3, <1>4, <1>6
<1>8. ASSUME NEW i \in DOMAIN entries', NEW j \in DOMAIN entries', new[i] = new[j]
      PROVE  i = j
  <2>1. CASE i = n
    BY <1>2, <1>3, <1>4, <1>6, <1>8, <2>1
  <2>2. CASE i # n
    BY <1>2, <1>3, <1>4, <1>6, <1>8, <2>2
  <2> QED
    BY <2>1, <2>2
<1>9. ASSUME NEW q \in Recorded'
      PROVE  \E i \in DOMAIN entries' : new[i] = q
  <2>1. CASE q = r
    BY <1>4, <1>6, <2>1
  <2>2. CASE q # r
    <3>1. PICK i \in DOMAIN entries : at[i] = q
      BY <1>2, <1>3, <2>2
    <3> QED
      BY <1>4, <1>6, <3>1
  <2> QED
    BY <2>1, <2>2
<1>10. new \in Bijection(DOMAIN entries', Recorded')
  BY <1>7, <1>8, <1>9, Fun_IsBij
<1>11. \A i \in DOMAIN entries' : entries'[i] = Known(new[i])'
  BY <1>1, <1>4, <1>5, <1>6
<1> QED
  BY <1>10, <1>11 DEF Paired

\* The invariant holds at first.
LEMMA InitInv == Init => IInv
<1> SUFFICES ASSUME Init PROVE IInv
  OBVIOUS
<1>1. TypeInv
  BY DEF Init, TypeInv, States, NoResult
<1>2. Paired
  <2>1. DOMAIN entries = {} /\ Recorded = {}
    BY DEF Init, Recorded
  <2>2. [i \in {} |-> i] \in Bijection({}, {})
    BY Fun_IsBij
  <2> QED
    BY <2>1, <2>2 DEF Paired
<1>3. ResultInv
  BY DEF Init, ResultInv, NoResult
<1> QED
  BY <1>1, <1>2, <1>3 DEF IInv

\* Every step keeps it.
LEMMA StepKeepsInv ==
    ASSUME IInv, [Next]_vars
    PROVE  IInv'
<1> USE DEF IInv
<1>1. ASSUME NEW r \in Requests, HandleRequest(r)
      PROVE  IInv'
  <2>1. TypeInv' /\ ResultInv'
    BY <1>1 DEF HandleRequest, Moves, Recording, TypeInv, ResultInv, States
  <2>2. Recorded' = Recorded /\ UNCHANGED <<bare, entries>>
    BY <1>1 DEF HandleRequest, Moves, Recorded, TypeInv
  <2>3. Paired'
    BY <2>2, PairingKept DEF Known
  <2> QED
    BY <2>1, <2>3
<1>2. ASSUME NEW r \in Requests, HandleResponse(r)
      PROVE  IInv'
  <2>1. TypeInv' /\ ResultInv'
    BY <1>2 DEF HandleResponse, Moves, Recording, TypeInv, ResultInv, States
  <2>2. Recorded' = Recorded /\ UNCHANGED <<bare, entries>>
    BY <1>2 DEF HandleResponse, Moves, Recorded, TypeInv
  <2>3. Paired'
    BY <2>2, PairingKept DEF Known
  <2> QED
    BY <2>1, <2>3
<1>3. ASSUME NEW r \in Requests, HandleUnpaired(r)
      PROVE  IInv'
  <2>1. TypeInv' /\ ResultInv'
    BY <1>3 DEF HandleUnpaired, Moves, Recording, TypeInv, ResultInv, States
  <2>2. Recorded' = Recorded /\ r \notin Recorded /\ UNCHANGED entries
    BY <1>3 DEF HandleUnpaired, Moves, Recorded, TypeInv
  <2>3. \A q \in Recorded : Known(q)' = Known(q)
    BY <1>3, <2>2 DEF HandleUnpaired, Known
  <2>4. Paired'
    BY <2>2, <2>3, PairingKept
  <2> QED
    BY <2>1, <2>4
<1>4. ASSUME NEW r \in Requests, BodyArrives(r)
      PROVE  IInv'
  <2>1. Known(r) \in Entry
    BY KnownIsEntry
  <2>2. TypeInv' /\ ResultInv'
    BY <1>4, <2>1 DEF BodyArrives, Moves, Recording, TypeInv, ResultInv, States
  <2>3. Paired'
    BY <1>4, PairingGrows
  <2> QED
    BY <2>2, <2>3
<1>5. CASE StopAndAnalyze
  <2>1. TypeInv' /\ ResultInv'
    BY <1>5 DEF StopAndAnalyze, TypeInv, ResultInv
  <2>2. Recorded' = Recorded /\ UNCHANGED <<bare, entries>>
    BY <1>5 DEF StopAndAnalyze, Recorded
  <2>3. Paired'
    BY <2>2, PairingKept DEF Known
  <2> QED
    BY <2>1, <2>3
<1>6. CASE UNCHANGED vars
  <2>1. UNCHANGED <<browser, bare, entries, result>>
    BY <1>6 DEF vars
  <2>2. Recorded' = Recorded /\ \A q : Known(q)' = Known(q)
    BY <2>1 DEF Recorded, Known
  <2>3. Paired'
    BY <2>1, <2>2, PairingKept
  <2> QED
    BY <2>1, <2>3 DEF TypeInv, ResultInv
<1> QED
  BY <1>1, <1>2, <1>3, <1>4, <1>5, <1>6 DEF Next

\* The recorder's list and the page's answered requests stay paired, and the
\* result is the analysis of that list (recorder.py, _handle_response, stop).
THEOREM Inductive == Spec => []IInv
BY InitInv, StepKeepsInv, PTL DEF Spec

--------------------------------------------------------------------------------
(* What is counted *)

\* The types are kept, and each answered request is recorded once.
THEOREM TypeCorrect == Spec => []TypeOK
<1>1. ASSUME IInv PROVE TypeOK
  <2> USE <1>1 DEF IInv, TypeInv
  <2>1. PICK at \in Bijection(DOMAIN entries, Recorded) : TRUE
    BY DEF Paired
  <2>2. Len(entries) \in Nat /\ DOMAIN entries = 1..Len(entries)
    OBVIOUS
  <2>3. IsFiniteSet(1..Len(entries)) /\ Cardinality(1..Len(entries)) = Len(entries)
    BY <2>2, FS_Interval
  <2>4. Len(entries) = Cardinality(Recorded)
    BY <2>1, <2>2, <2>3, FS_Bijection DEF ExistsBijection
  <2> QED
    BY <2>4 DEF TypeOK
<1> QED
  BY <1>1, Inductive, PTL

\* The candidates are those of the clusters.
LEMMA CandidatesOfClusters ==
    ASSUME IInv
    PROVE  /\ ~result.done => result.candidates = {}
           /\ result.done => result.candidates = {Candidate(entries, key) : key \in Keys(entries)}
BY DEF IInv, ResultInv, NoResult, AnalyzeCapture

\* The answered requests of the primary host are the analysed entries.
LEMMA AnsweredAreEntries ==
    ASSUME IInv
    PROVE  {e \in Answered : OnPrimary(e)} = {entries[i] : i \in Analysed(entries)}
<1>1. PICK at \in Bijection(DOMAIN entries, Recorded) :
          \A i \in DOMAIN entries : entries[i] = Known(at[i])
  BY DEF IInv, Paired
<1>2. /\ \A i \in DOMAIN entries : at[i] \in Recorded
      /\ \A q \in Recorded : \E i \in DOMAIN entries : at[i] = q
  BY <1>1, Fun_BijectionProperties
<1>3. Answered = {entries[i] : i \in DOMAIN entries}
  BY <1>1, <1>2 DEF Answered
<1> QED
  BY <1>3 DEF Analysed, OnPrimary

\* The requests that a candidate stands for are those of its cluster.
LEMMA CallsOfCluster ==
    ASSUME IInv, NEW key \in Keys(entries)
    PROVE  CallsOf(Candidate(entries, key)) = {entries[i] : i \in Invocations(entries, key)}
<1>1. entries \in Seq(Entry)
  BY DEF IInv, TypeInv
<1>2. \A i \in Analysed(entries) :
          Matches(entries[i], Candidate(entries, key)) <=> Key(entries[i]) = key
  BY <1>1, MatchIsMembership
<1>3. CallsOf(Candidate(entries, key))
        = {e \in {entries[i] : i \in Analysed(entries)} : Matches(e, Candidate(entries, key))}
  BY AnsweredAreEntries DEF CallsOf
<1> QED
  BY <1>2, <1>3 DEF Invocations

\* The invocations of a cluster are as many as the requests that match it.
LEMMA CountOfCluster ==
    ASSUME IInv, NEW key \in Keys(entries)
    PROVE  Cardinality(Invocations(entries, key))
             = Cardinality({r \in Recorded :
                   OnPrimary(Known(r)) /\ Matches(Known(r), Candidate(entries, key))})
<1> DEFINE c == Candidate(entries, key)
           I == Invocations(entries, key)
           R == {r \in Recorded : OnPrimary(Known(r)) /\ Matches(Known(r), c)}
<1>1. entries \in Seq(Entry)
  BY DEF IInv, TypeInv
<1>2. PICK at \in Bijection(DOMAIN entries, Recorded) :
          \A i \in DOMAIN entries : entries[i] = Known(at[i])
  BY DEF IInv, Paired
<1>3. /\ at \in [DOMAIN entries -> Recorded]
      /\ \A i, j \in DOMAIN entries : at[i] = at[j] => i = j
      /\ \A q \in Recorded : \E i \in DOMAIN entries : at[i] = q
  BY <1>2, Fun_BijectionProperties
<1>4. I \subseteq 1..Len(entries) /\ IsFiniteSet(I)
  <2>1. I \subseteq 1..Len(entries) /\ Len(entries) \in Nat
    BY <1>1 DEF Invocations, Analysed
  <2>2. IsFiniteSet(1..Len(entries))
    BY <2>1, FS_Interval
  <2> HIDE DEF I
  <2> QED
    BY <2>1, <2>2, FS_Subset
<1>5. \A i \in DOMAIN entries : i \in I <=> at[i] \in R
  <2>1. \A i \in DOMAIN entries : at[i] \in R <=> i \in Analysed(entries) /\ Matches(entries[i], c)
    BY <1>2, <1>3 DEF Analysed, OnPrimary
  <2>2. \A i \in Analysed(entries) : Matches(entries[i], c) <=> Key(entries[i]) = key
    BY <1>1, MatchIsMembership
  <2> QED
    BY <2>1, <2>2 DEF Invocations
<1>6. Cardinality(I) = Cardinality(R)
  <2>1. IsFiniteSet(DOMAIN entries) /\ I \subseteq DOMAIN entries /\ R \subseteq Recorded
    BY <1>1, <1>4, FS_Interval
  <2> HIDE DEF I, R
  <2> QED
    BY <1>5, <2>1, SameCount
<1> QED
  BY <1>6

\* Every answered request of the primary host is in exactly one candidate, and
\* a candidate counts the requests that match it (analyzer.py, analyze_capture).
THEOREM EveryAnswerIsCovered == Spec => []AnswersAreCovered
<1>1. ASSUME IInv PROVE AnswersAreCovered
  <2> SUFFICES ASSUME result.done PROVE AnswersAreCovered
    BY DEF AnswersAreCovered
  <2> USE <1>1
  <2>1. entries \in Seq(Entry)
    BY DEF IInv, TypeInv
  <2>2. result.candidates = {Candidate(entries, key) : key \in Keys(entries)}
    BY CandidatesOfClusters
  <2>3. ASSUME NEW e \in {a \in Answered : OnPrimary(a)}
        PROVE  Cardinality({c \in result.candidates : Matches(e, c)}) = 1
    <3>1. PICK j \in Analysed(entries) : e = entries[j]
      BY AnsweredAreEntries
    <3>2. Key(e) \in Keys(entries)
      BY <3>1 DEF Keys
    <3>3. \A key \in Keys(entries) : Matches(e, Candidate(entries, key)) <=> Key(e) = key
      BY <2>1, <3>1, MatchIsMembership
    <3>4. {c \in result.candidates : Matches(e, c)} = {Candidate(entries, Key(e))}
      BY <2>2, <3>2, <3>3
    <3> QED
      BY <3>4, FS_Singleton
  <2>4. ASSUME NEW c \in result.candidates
        PROVE  c.count = Cardinality({r \in Recorded :
                   OnPrimary(Known(r)) /\ Matches(Known(r), c)})
    <3>1. PICK key \in Keys(entries) : c = Candidate(entries, key)
      BY <2>2
    <3>2. c.count = Cardinality(Invocations(entries, key))
      BY <3>1 DEF Candidate
    <3> QED
      BY <3>1, <3>2, CountOfCluster
  <2> QED
    BY <2>3, <2>4 DEF AnswersAreCovered
<1> QED
  BY <1>1, Inductive, PTL

\* There are as many identities as clusters (analyzer.py, path_template).
THEOREM IdentitiesAreDistinct == Spec => []CandidatesAreDistinct
<1>1. ASSUME IInv PROVE CandidatesAreDistinct
  <2> SUFFICES ASSUME result.done PROVE CandidatesAreDistinct
    BY DEF CandidatesAreDistinct
  <2> USE <1>1
  <2> DEFINE K == Keys(entries)
             Name(key) == <<Candidate(entries, key).method, Candidate(entries, key).template>>
             N == {Name(key) : key \in K}
             f == [key \in K |-> Name(key)]
  <2>1. entries \in Seq(Entry)
    BY DEF IInv, TypeInv
  <2>2. {<<c.method, c.template>> : c \in result.candidates} = N
    BY CandidatesOfClusters
  <2>3. \A k, l \in K : Name(k) = Name(l) => k = l
    BY <2>1, IdentityOfCluster
  <2>4. IsFiniteSet(K)
    <3> DEFINE h == [i \in Analysed(entries) |-> Key(entries[i])]
    <3>1. h \in Surjection(Analysed(entries), K)
      BY Fun_IsSurj DEF Keys
    <3>2. Analysed(entries) \subseteq 1..Len(entries) /\ Len(entries) \in Nat
      BY <2>1 DEF Analysed
    <3>3. IsFiniteSet(1..Len(entries))
      BY <3>2, FS_Interval
    <3>4. IsFiniteSet(Analysed(entries))
      BY <3>2, <3>3, FS_Subset
    <3> HIDE DEF h, K
    <3> QED
      BY <3>1, <3>4, FS_Surjection
  <2> HIDE DEF Name, K
  <2>5. f \in Bijection(K, N)
    BY <2>3, Fun_IsBij
  <2> HIDE DEF f, N
  <2>6. Cardinality(N) = Cardinality(K)
    BY <2>4, <2>5, FS_Bijection DEF ExistsBijection
  <2> QED
    BY <2>2, <2>6 DEF CandidatesAreDistinct, K
<1> QED
  BY <1>1, Inductive, PTL

\* A parameter is required exactly when every answered request of its operation
\* carries it (analyzer.py, ParameterFrequency.is_required).
THEOREM RequiredParametersAreSent == Spec => []RequiredIffAlwaysSent
<1>1. ASSUME IInv PROVE RequiredIffAlwaysSent
  <2> SUFFICES ASSUME NEW c \in result.candidates
               PROVE  /\ RequiredIn(c.query) = {k \in UNION {Range(e.query) : e \in CallsOf(c)} :
                             \A e \in CallsOf(c) : k \in Range(e.query)}
                      /\ RequiredIn(c.body) = {k \in UNION {Range(e.body) : e \in CallsOf(c)} :
                             \A e \in CallsOf(c) : k \in Range(e.body)}
    BY DEF RequiredIffAlwaysSent
  <2> USE <1>1
  <2>1. entries \in Seq(Entry) /\ Len(entries) \in Nat
    BY DEF IInv, TypeInv
  <2>2. PICK key \in Keys(entries) : c = Candidate(entries, key)
    BY CandidatesOfClusters DEF IInv, TypeInv
  <2> DEFINE I == Invocations(entries, key)
             Q == Queries(entries, key)
             B == Bodies(entries, key)
  <2>3. CallsOf(c) = {entries[i] : i \in I}
    BY <2>2, CallsOfCluster
  <2>4. IsFiniteSet(I) /\ I # {}
    <3>1. I # {} /\ I \subseteq 1..Len(entries)
      BY <2>1, ClusterPaths
    <3>2. IsFiniteSet(1..Len(entries))
      BY <2>1, FS_Interval
    <3> HIDE DEF I
    <3> QED
      BY <3>1, <3>2, FS_Subset
  <2>5. /\ DOMAIN Q = I /\ \A n \in I : Q[n] = entries[n].query
        /\ DOMAIN B = I /\ \A n \in I : B[n] = entries[n].body
    BY DEF Queries, Bodies
  <2>6. c.query = Frequencies(Q) /\ c.body = Frequencies(B)
    BY <2>2 DEF Candidate
  <2> HIDE DEF I, Q, B
  <2>7. RequiredIn(c.query) = {k \in UNION {Range(e.query) : e \in CallsOf(c)} :
                                  \A e \in CallsOf(c) : k \in Range(e.query)}
    <3>1. RequiredIn(c.query) = {k \in UNION {Range(Q[n]) : n \in I} :
                                    \A n \in I : k \in Range(Q[n])}
      BY <2>4, <2>5, <2>6, RequiredIsInAll
    <3> QED
      BY <2>3, <2>5, <3>1
  <2>8. RequiredIn(c.body) = {k \in UNION {Range(e.body) : e \in CallsOf(c)} :
                                 \A e \in CallsOf(c) : k \in Range(e.body)}
    <3>1. RequiredIn(c.body) = {k \in UNION {Range(B[n]) : n \in I} :
                                   \A n \in I : k \in Range(B[n])}
      BY <2>4, <2>5, <2>6, RequiredIsInAll
    <3> QED
      BY <2>3, <2>5, <3>1
  <2> QED
    BY <2>7, <2>8
<1> QED
  BY <1>1, Inductive, PTL

--------------------------------------------------------------------------------
(* The order of arrival *)

\* Reordering keeps the primary host, so that the same entries are analysed.
LEMMA AnalysedReordered ==
    ASSUME NEW es \in Seq(Entry), ~HasTies(es),
           NEW p \in Bijection(DOMAIN es, DOMAIN es)
    PROVE  LET ft == Reordered(es, p)
           IN  /\ DOMAIN ft = DOMAIN es
               /\ \A i \in DOMAIN es : ft[i] = es[p[i]]
               /\ \A i \in DOMAIN es : i \in Analysed(ft) <=> p[i] \in Analysed(es)
<1> DEFINE ft == Reordered(es, p)
           f == Hosts(es)
           g == Hosts(ft)
<1>1. /\ p \in [DOMAIN es -> DOMAIN es]
      /\ \A j \in DOMAIN es : \E i \in DOMAIN es : p[i] = j
  BY Fun_BijectionProperties
<1>2. DOMAIN ft = DOMAIN es /\ \A i \in DOMAIN es : ft[i] = es[p[i]]
  BY DEF Reordered
<1>3. DOMAIN es = 1..Len(es) /\ Len(es) \in Nat /\ IsFiniteSet(DOMAIN es)
  BY FS_Interval
<1>4. /\ DOMAIN f = {j \in DOMAIN es : es[j].host # ""}
      /\ DOMAIN g = {j \in DOMAIN es : ft[j].host # ""}
      /\ \A j \in DOMAIN f : f[j] = es[j].host
      /\ \A j \in DOMAIN g : g[j] = ft[j].host
  BY <1>2 DEF Hosts
<1> HIDE DEF f, g
<1>5. /\ DOMAIN f \subseteq DOMAIN es /\ DOMAIN g \subseteq DOMAIN es
      /\ \A i \in DOMAIN es : i \in DOMAIN g <=> p[i] \in DOMAIN f
  BY <1>1, <1>2, <1>4
<1>6. PICK q \in Bijection(DOMAIN g, DOMAIN f) : \A n \in DOMAIN g : q[n] = p[n]
  BY <1>5, SubBijection
<1>7. ASSUME NEW n \in DOMAIN g
      PROVE  g[n] = f[q[n]]
  <2>1. n \in DOMAIN es /\ p[n] \in DOMAIN f /\ q[n] = p[n]
    BY <1>5, <1>6
  <2>2. g[n] = ft[n].host /\ f[p[n]] = es[p[n]].host
    BY <1>4, <2>1
  <2>3. ft[n] = es[p[n]]
    BY <1>2, <2>1
  <2> HIDE DEF ft
  <2> QED
    BY <2>1, <2>2, <2>3
<1>8. /\ IsFiniteSet(DOMAIN f) /\ IsFiniteSet(DOMAIN g)
      /\ DOMAIN f \subseteq Nat /\ DOMAIN g \subseteq Nat
  BY <1>3, <1>5, FS_Subset
<1>9. Range(g) = Range(f)
  BY <1>6, <1>7, RangeKept
<1>10. PrimaryHost(ft) = PrimaryHost(es)
  <2>1. CASE Range(f) = {}
    BY <1>9, <2>1 DEF PrimaryHost, f, g
  <2>2. CASE Range(f) # {}
    <3>1. DOMAIN f # {}
      BY <2>2 DEF Range
    <3>2. ~Tied(f)
      BY DEF HasTies, f
    <3>3. MostCommon(g) = MostCommon(f)
      BY <1>6, <1>7, <1>8, <3>1, <3>2, MajorityKept
    <3> QED
      BY <1>9, <3>3 DEF PrimaryHost, f, g
  <2> QED
    BY <2>1, <2>2
<1>11. \A i \in DOMAIN es : i \in Analysed(ft) <=> p[i] \in Analysed(es)
  BY <1>1, <1>2, <1>10 DEF Analysed
<1> QED
  BY <1>2, <1>11

\* What one cluster becomes: the same invocations in another order.
LEMMA ClusterReordered ==
    ASSUME NEW es \in Seq(Entry), ~HasTies(es), NEW key,
           NEW p \in Bijection(DOMAIN es, DOMAIN es)
    PROVE  LET ft == Reordered(es, p)
           IN  /\ ft \in Seq(Entry)
               /\ Keys(ft) = Keys(es)
               /\ IsFiniteSet(Invocations(ft, key)) /\ IsFiniteSet(Invocations(es, key))
               /\ Invocations(ft, key) \subseteq Nat /\ Invocations(es, key) \subseteq Nat
               /\ \E q \in Bijection(Invocations(ft, key), Invocations(es, key)) :
                      \A i \in Invocations(ft, key) : ft[i] = es[q[i]]
<1> DEFINE ft == Reordered(es, p)
           I == Invocations(es, key)
           J == Invocations(ft, key)
<1>1. /\ p \in [DOMAIN es -> DOMAIN es]
      /\ \A j \in DOMAIN es : \E i \in DOMAIN es : p[i] = j
  BY Fun_BijectionProperties
<1>2. /\ DOMAIN ft = DOMAIN es
      /\ \A i \in DOMAIN es : ft[i] = es[p[i]]
      /\ \A i \in DOMAIN es : i \in Analysed(ft) <=> p[i] \in Analysed(es)
  BY AnalysedReordered
<1>3. DOMAIN es = 1..Len(es) /\ Len(es) \in Nat /\ IsFiniteSet(DOMAIN es)
  BY FS_Interval
<1>4. ft \in Seq(Entry)
  BY <1>1, <1>3 DEF Reordered
<1>5. Analysed(ft) \subseteq DOMAIN es /\ Analysed(es) \subseteq DOMAIN es
  BY <1>2 DEF Analysed
<1>6. Keys(ft) = Keys(es)
  BY <1>1, <1>2, <1>5 DEF Keys
<1>7. /\ I \subseteq DOMAIN es /\ J \subseteq DOMAIN es
      /\ \A i \in DOMAIN es : i \in J <=> p[i] \in I
  BY <1>1, <1>2, <1>5 DEF Invocations
<1>8. PICK q \in Bijection(J, I) : \A i \in J : q[i] = p[i]
  <2> HIDE DEF I, J
  <2> QED
    BY <1>7, SubBijection
<1>9. IsFiniteSet(I) /\ IsFiniteSet(J) /\ I \subseteq Nat /\ J \subseteq Nat
  <2> HIDE DEF I, J
  <2> QED
    BY <1>3, <1>7, FS_Subset
<1>10. \A i \in J : ft[i] = es[q[i]]
  BY <1>2, <1>7, <1>8
<1> QED
  BY <1>4, <1>6, <1>8, <1>9, <1>10

\* Tables of parameters count invocations in any order.
LEMMA FrequenciesKept ==
    ASSUME NEW f, NEW g, NEW q \in Bijection(DOMAIN g, DOMAIN f),
           IsFiniteSet(DOMAIN g), \A n \in DOMAIN g : g[n] = f[q[n]]
    PROVE  Frequencies(g) = Frequencies(f)
<1> DEFINE U(h) == UNION {Range(h[n]) : n \in DOMAIN h}
           With(h, k) == {n \in DOMAIN h : k \in Range(h[n])}
           All(h, k) == [name |-> k, seen |-> Cardinality(With(h, k)),
                         total |-> Cardinality(DOMAIN h)]
<1>1. /\ q \in [DOMAIN g -> DOMAIN f]
      /\ \A i \in DOMAIN f : \E n \in DOMAIN g : q[n] = i
  BY Fun_BijectionProperties
<1>2. U(g) = U(f)
  BY <1>1
<1>3. Cardinality(DOMAIN g) = Cardinality(DOMAIN f)
  BY <1>1, SameCount
<1>4. ASSUME NEW k
      PROVE  Cardinality(With(g, k)) = Cardinality(With(f, k))
  <2>1. /\ With(g, k) \subseteq DOMAIN g /\ With(f, k) \subseteq DOMAIN f
        /\ \A n \in DOMAIN g : n \in With(g, k) <=> q[n] \in With(f, k)
    BY <1>1
  <2> HIDE DEF With
  <2> QED
    BY <2>1, SameCount
<1> HIDE DEF U, With
<1>5. {All(g, k) : k \in U(g)} = {All(f, k) : k \in U(f)}
  BY <1>2, <1>3, <1>4
<1> QED
  BY <1>5 DEF Frequencies, U, With

\* The literal of a column without ids is that of the signature.
LEMMA LiteralOfCluster ==
    ASSUME NEW es \in Seq(Entry), NEW key \in Keys(es), NEW i \in DOMAIN key[2],
           ~VariableColumn(Paths(es, key), i)
    PROVE  Literal(Paths(es, key), i) = key[2][i]
<1> DEFINE P == Paths(es, key)
<1>1. /\ Min(DOMAIN P) \in DOMAIN P
      /\ \A n \in DOMAIN P : \A j \in DOMAIN key[2] :
             key[2][j] = IF Variable(P[n][j]) THEN ":var" ELSE P[n][j]
  BY ClusterPaths
<1> HIDE DEF P
<1>2. Literal(P, i) = P[Min(DOMAIN P)][i] /\ ~Variable(P[Min(DOMAIN P)][i])
  BY <1>1 DEF Literal, Column, VariableColumn, P
<1> QED
  BY <1>1, <1>2 DEF P

\* Where no two shapes lead, a cluster's template does not see the order.
LEMMA TemplateReordered ==
    ASSUME NEW es \in Seq(Entry), ~HasTies(es), NEW key \in Keys(es),
           NEW p \in Bijection(DOMAIN es, DOMAIN es)
    PROVE  PathTemplate(Paths(Reordered(es, p), key)) = PathTemplate(Paths(es, key))
<1> DEFINE ft == Reordered(es, p)
           P == Paths(es, key)
           G == Paths(ft, key)
<1>1. ft \in Seq(Entry) /\ key \in Keys(ft)
  BY ClusterReordered
<1>2. PICK q \in Bijection(Invocations(ft, key), Invocations(es, key)) :
          \A i \in Invocations(ft, key) : ft[i] = es[q[i]]
  BY ClusterReordered
<1>3. DOMAIN P = Invocations(es, key) /\ DOMAIN G = Invocations(ft, key)
  BY DEF Paths
<1>4. /\ q \in [DOMAIN G -> DOMAIN P]
      /\ \A n \in DOMAIN P : \E m \in DOMAIN G : q[m] = n
  BY <1>2, <1>3, Fun_BijectionProperties
<1>5. \A n \in DOMAIN G : G[n] = P[q[n]]
  BY <1>2, <1>3, <1>4 DEF Paths
<1>6. /\ DOMAIN P \subseteq Nat /\ DOMAIN G \subseteq Nat
      /\ IsFiniteSet(DOMAIN P) /\ IsFiniteSet(DOMAIN G)
  BY <1>3, ClusterReordered
<1>7. PICK n \in Nat : DOMAIN key[2] = 1..n
  <2>1. PICK e \in Entry : key = Key(e)
    BY DEF Keys, Analysed
  <2> QED
    BY <2>1 DEF Key, PathSignature, Entry
<1>8. /\ \A i \in 1..n : ~VariableColumn(P, i) => Literal(P, i) = key[2][i]
      /\ \A i \in 1..n : ~VariableColumn(G, i) => Literal(G, i) = key[2][i]
      /\ DOMAIN P[Min(DOMAIN P)] = 1..n
      /\ DOMAIN G[Min(DOMAIN G)] = 1..n
  BY <1>1, <1>7, LiteralOfCluster, ClusterPaths
<1> HIDE DEF ft, P, G
<1>9. \A i : VariableColumn(G, i) <=> VariableColumn(P, i)
  BY <1>4, <1>5 DEF VariableColumn
<1>10. ASSUME NEW i \in 1..n, VariableColumn(P, i)
       PROVE  MostCommon(Shapes(G, i)) = MostCommon(Shapes(P, i))
  <2> DEFINE f == Shapes(P, i)
             g == Shapes(G, i)
  <2>1. /\ DOMAIN f = {m \in DOMAIN P : Variable(P[m][i])}
        /\ DOMAIN g = {m \in DOMAIN G : Variable(G[m][i])}
        /\ \A m \in DOMAIN f : f[m] = Shape[P[m][i]]
        /\ \A m \in DOMAIN g : g[m] = Shape[G[m][i]]
    BY DEF Shapes
  <2>2. ~Tied(f)
    BY <1>7 DEF HasTies, P
  <2> HIDE DEF f, g
  <2>3. /\ DOMAIN f \subseteq DOMAIN P /\ DOMAIN g \subseteq DOMAIN G
        /\ DOMAIN f # {}
        /\ \A m \in DOMAIN G : m \in DOMAIN g <=> q[m] \in DOMAIN f
    BY <1>4, <1>5, <1>10, <2>1 DEF VariableColumn
  <2>4. PICK r \in Bijection(DOMAIN g, DOMAIN f) : \A m \in DOMAIN g : r[m] = q[m]
    BY <1>2, <1>3, <2>3, SubBijection
  <2>5. \A m \in DOMAIN g : g[m] = f[r[m]]
    BY <1>5, <2>1, <2>3, <2>4
  <2>6. /\ IsFiniteSet(DOMAIN f) /\ IsFiniteSet(DOMAIN g)
        /\ DOMAIN f \subseteq Nat /\ DOMAIN g \subseteq Nat
    BY <1>6, <2>3, FS_Subset
  <2>7. MostCommon(g) = MostCommon(f)
    BY <2>2, <2>3, <2>4, <2>5, <2>6, MajorityKept
  <2> QED
    BY <2>7 DEF f, g
<1>11. ASSUME NEW i \in 1..n, VariableColumn(P, i)
       PROVE  BaseName(G, i) = BaseName(P, i)
  <2> DEFINE before == {j \in 1..(i - 1) : ~VariableColumn(P, j)}
  <2>1. {j \in 1..(i - 1) : ~VariableColumn(G, j)} = before
    BY <1>9
  <2>2. ASSUME before # {}
        PROVE  Literal(G, Max(before)) = Literal(P, Max(before))
    <3>1. before \subseteq 1..n
      OBVIOUS
    <3> HIDE DEF before
    <3>2. Max(before) \in before
      BY <2>2, <3>1, MaxIsGreatest
    <3>3. Max(before) \in 1..n /\ ~VariableColumn(P, Max(before))
      BY <3>1, <3>2 DEF before
    <3> QED
      BY <1>8, <1>9, <3>3
  <2> HIDE DEF before
  <2>3. MostCommon(Shapes(G, i)) = MostCommon(Shapes(P, i))
    BY <1>10, <1>11
  <2> QED
    BY <2>1, <2>2, <2>3 DEF BaseName, before
<1>12. ASSUME NEW i \in 1..n, VariableColumn(P, i)
       PROVE  {j \in 1..(i - 1) : VariableColumn(G, j) /\ BaseName(G, j) = BaseName(G, i)}
                = {j \in 1..(i - 1) : VariableColumn(P, j) /\ BaseName(P, j) = BaseName(P, i)}
  <2>1. BaseName(G, i) = BaseName(P, i)
    BY <1>11, <1>12
  <2>2. \A j \in 1..(i - 1) : j \in 1..n
    OBVIOUS
  <2>3. \A j \in 1..(i - 1) : VariableColumn(P, j) => BaseName(G, j) = BaseName(P, j)
    BY <1>11, <2>2
  <2> QED
    BY <1>9, <2>1, <2>3
<1> DEFINE Segment(H, i) ==
        IF ~VariableColumn(H, i)
        THEN [literal |-> Literal(H, i), base |-> {}, suffix |-> 0]
        ELSE [literal |-> "", base |-> {BaseName(H, i)},
              suffix |-> Cardinality({j \in 1..(i - 1) :
                  VariableColumn(H, j) /\ BaseName(H, j) = BaseName(H, i)})]
<1>13. ASSUME NEW i \in 1..n
       PROVE  Segment(G, i) = Segment(P, i)
  <2>1. CASE VariableColumn(P, i)
    BY <1>9, <1>11, <1>12, <2>1
  <2>2. CASE ~VariableColumn(P, i)
    BY <1>8, <1>9, <2>2
  <2> QED
    BY <2>1, <2>2
<1>14. /\ PathTemplate(G) = [i \in 1..n |-> Segment(G, i)]
       /\ PathTemplate(P) = [i \in 1..n |-> Segment(P, i)]
  BY <1>8 DEF PathTemplate
<1> HIDE DEF Segment
<1>15. PathTemplate(G) = PathTemplate(P)
  BY <1>13, <1>14
<1> QED
  BY <1>15 DEF ft, G, P

\* A candidate, and so the analysis, does not see the order.
LEMMA AnalysisReordered ==
    ASSUME NEW es \in Seq(Entry), ~HasTies(es),
           NEW p \in Bijection(DOMAIN es, DOMAIN es)
    PROVE  AnalyzeCapture(Reordered(es, p)) = AnalyzeCapture(es)
<1> DEFINE ft == Reordered(es, p)
<1>1. ASSUME NEW key \in Keys(es)
      PROVE  Candidate(ft, key) = Candidate(es, key)
  <2> DEFINE I == Invocations(es, key)
             J == Invocations(ft, key)
  <2>1. IsFiniteSet(I) /\ IsFiniteSet(J)
    BY ClusterReordered
  <2>2. PICK q \in Bijection(J, I) : \A i \in J : ft[i] = es[q[i]]
    BY ClusterReordered
  <2>3. q \in [J -> I] /\ \A i \in I : \E j \in J : q[j] = i
    BY <2>2, Fun_BijectionProperties
  <2>4. PathTemplate(Paths(ft, key)) = PathTemplate(Paths(es, key))
    BY TemplateReordered
  <2>5. /\ DOMAIN Queries(es, key) = I /\ DOMAIN Queries(ft, key) = J
        /\ DOMAIN Bodies(es, key) = I /\ DOMAIN Bodies(ft, key) = J
        /\ \A j \in J : Queries(ft, key)[j] = Queries(es, key)[q[j]]
        /\ \A j \in J : Bodies(ft, key)[j] = Bodies(es, key)[q[j]]
    BY <2>2, <2>3 DEF Queries, Bodies
  <2> HIDE DEF ft, I, J
  <2>6. Cardinality(J) = Cardinality(I)
    BY <2>1, <2>2, <2>3, SameCount
  <2>7. /\ Frequencies(Queries(ft, key)) = Frequencies(Queries(es, key))
        /\ Frequencies(Bodies(ft, key)) = Frequencies(Bodies(es, key))
    BY <2>1, <2>2, <2>5, FrequenciesKept
  <2>8. BodyShapeAmbiguous(Bodies(ft, key)) = BodyShapeAmbiguous(Bodies(es, key))
    <3>1. {Range(Bodies(ft, key)[n]) : n \in J} = {Range(Bodies(es, key)[n]) : n \in I}
      BY <2>3, <2>5
    <3> QED
      BY <2>5, <3>1 DEF BodyShapeAmbiguous
  <2> QED
    BY <2>4, <2>6, <2>7, <2>8 DEF Candidate, ft, I, J
<1>2. Keys(ft) = Keys(es)
  BY ClusterReordered
<1> HIDE DEF ft
<1>3. AnalyzeCapture(ft) = AnalyzeCapture(es)
  BY <1>1, <1>2 DEF AnalyzeCapture
<1> QED
  BY <1>3 DEF ft

\* Whatever order the bodies arrived in, the analysis is the same unless the
\* majority it decides by is a tie (analyzer.py, Counter.most_common).
THEOREM AnyOrderWillDo ==
    Spec => [](result.done /\ ~HasTies(entries) =>
                  \A p \in Bijection(DOMAIN entries, DOMAIN entries) :
                      result.candidates = AnalyzeCapture(Reordered(entries, p)))
<1>1. ASSUME IInv, result.done, ~HasTies(entries),
             NEW p \in Bijection(DOMAIN entries, DOMAIN entries)
      PROVE  result.candidates = AnalyzeCapture(Reordered(entries, p))
  <2>1. entries \in Seq(Entry) /\ result.candidates = AnalyzeCapture(entries)
    BY <1>1 DEF IInv, TypeInv, ResultInv
  <2> QED
    BY <1>1, <2>1, AnalysisReordered
<1> DEFINE Same == result.done /\ ~HasTies(entries) =>
                       \A p \in Bijection(DOMAIN entries, DOMAIN entries) :
                           result.candidates = AnalyzeCapture(Reordered(entries, p))
<1>2. IInv => Same
  BY <1>1
<1> QED
  BY <1>2, Inductive, PTL

\* In particular backwards, and with two neighbours exchanged.
THEOREM OrderIsIrrelevant == Spec => []OrderDoesNotMatter
<1> DEFINE Same == result.done /\ ~HasTies(entries) =>
                       \A p \in Bijection(DOMAIN entries, DOMAIN entries) :
                           result.candidates = AnalyzeCapture(Reordered(entries, p))
<1>1. ASSUME NEW n \in Nat, NEW p \in Orders(n)
      PROVE  p \in Bijection(1..n, 1..n)
  <2>1. CASE p = [i \in 1..n |-> (n - i) + 1]
    <3>1. p \in [1..n -> 1..n] /\ \A a, b \in 1..n : p[a] = p[b] => a = b
      BY <2>1
    <3>2. \A t \in 1..n : (n - t) + 1 \in 1..n /\ p[(n - t) + 1] = t
      BY <2>1
    <3> QED
      BY <3>1, <3>2, Fun_IsBij
  <2>2. ASSUME NEW j \in 1..(n - 1),
               p = [i \in 1..n |-> IF i = j THEN j + 1 ELSE IF i = j + 1 THEN j ELSE i]
        PROVE  p \in Bijection(1..n, 1..n)
    <3>1. p \in [1..n -> 1..n] /\ \A a, b \in 1..n : p[a] = p[b] => a = b
      BY <2>2
    <3>2. \A t \in 1..n : p[t] \in 1..n /\ p[p[t]] = t
      BY <2>2
    <3> QED
      BY <3>1, <3>2, Fun_IsBij
  <2> QED
    BY <1>1, <2>1, <2>2 DEF Orders
<1>2. IInv /\ Same => OrderDoesNotMatter
  <2> SUFFICES ASSUME IInv, Same, result.done, ~HasTies(entries),
                      NEW p \in Orders(Len(entries))
               PROVE  result.candidates = AnalyzeCapture(Reordered(entries, p))
    BY DEF OrderDoesNotMatter
  <2>1. Len(entries) \in Nat /\ DOMAIN entries = 1..Len(entries)
    BY DEF IInv, TypeInv
  <2> QED
    BY <1>1, <2>1
<1> HIDE DEF Same
<1> QED
  BY <1>2, Inductive, AnyOrderWillDo, PTL DEF Same
================================================================================
