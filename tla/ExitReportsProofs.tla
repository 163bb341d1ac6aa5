------------------------- MODULE ExitReportsProofs -------------------------
(***************************************************************************)
(* What holds of the reports on any seller, whatever it and the wallets    *)
(* around it do, in lists of any length and any order within a second.     *)
(***************************************************************************)
EXTENDS ExitReports, DataFacts

\* A family of finite sets that has the empty one and keeps growing has them all.
LEMMA GrowFinite ==
    ASSUME NEW S, IsFiniteSet(S), NEW T \in SUBSET SUBSET S, {} \in T,
           \A A \in T : \A x \in S \ A : A \cup {x} \in T
    PROVE  S \in T
<1> DEFINE N == {n \in Nat : \A A \in SUBSET S : Cardinality(A) = n => A \in T}
<1>1. \A A \in SUBSET S : IsFiniteSet(A)
    BY FS_Subset
<1>2. 0 \in N
    BY <1>1, FS_EmptySet
<1>3. ASSUME NEW n \in N
      PROVE  n + 1 \in N
    <2> SUFFICES ASSUME NEW A \in SUBSET S, Cardinality(A) = n + 1
                 PROVE  A \in T
        OBVIOUS
    <2>1. n \in Nat /\ IsFiniteSet(A) /\ \A B \in SUBSET S : Cardinality(B) = n => B \in T
        BY <1>1
    <2> HIDE DEF N
    <2>2. A # {}
        BY <2>1, FS_EmptySet
    <2>3. PICK x \in A : TRUE
        BY <2>2
    <2>4. Cardinality(A \ {x}) = Cardinality(A) - 1
        BY <2>1, FS_RemoveElement
    <2>5. A \ {x} \in T /\ A = (A \ {x}) \cup {x} /\ x \in S \ (A \ {x})
        BY <2>1, <2>4
    <2> QED
        BY <2>5
<1>4. N = Nat
    BY <1>2, <1>3, Induct
<1> QED
    BY <1>4, FS_CardinalityType

\* s is the sum of f over each of the sets of A.
Sums(s, f, A) ==
    /\ s \in [SUBSET A -> Int] /\ s[{}] = 0
    /\ \A B \in SUBSET A : \A x \in B : s[B] = f[x] + s[B \ {x}]

\* Adding one after another as the library does, in whatever order.
Adds(s, f, A) ==
    s = [B \in SUBSET A |-> IF B = {} THEN 0
                            ELSE f[CHOOSE x \in B : TRUE] + s[B \ {CHOOSE x \in B : TRUE}]]

LEMMA AddsSums ==
    ASSUME NEW A, IsFiniteSet(A), NEW f, \A x \in A : f[x] \in Int, NEW s, Adds(s, f, A)
    PROVE  Sums(s, f, A)
<1> DEFINE c(B) == CHOOSE x \in B : TRUE
           Good(B) == s[B] \in Int /\ \A x \in B : s[B] = f[x] + s[B \ {x}]
           N == {n \in Nat : \A B \in SUBSET A : Cardinality(B) <= n => Good(B)}
<1>1. \A B \in SUBSET A : IsFiniteSet(B) /\ Cardinality(B) \in Nat
    BY FS_Subset, FS_CardinalityType
<1>2. \A B \in SUBSET A : s[B] = IF B = {} THEN 0 ELSE f[c(B)] + s[B \ {c(B)}]
    BY DEF Adds
<1>3. s[{}] = 0 /\ Good({})
    <2>1. s[{}] = 0
        BY <1>2
    <2> QED
        BY <2>1
<1>4. \A B \in SUBSET A : B # {} => c(B) \in B
    OBVIOUS
<1> HIDE DEF c
<1>5. 0 \in N
    BY <1>1, <1>3, FS_EmptySet
<1>6. ASSUME NEW n \in N
      PROVE  n + 1 \in N
    <2>0. n \in Nat /\ n + 1 \in Nat /\ \A C \in SUBSET A : Cardinality(C) <= n => Good(C)
        OBVIOUS
    <2> SUFFICES ASSUME NEW B \in SUBSET A, Cardinality(B) <= n + 1, B # {}
                 PROVE  Good(B)
        <3> HIDE DEF Good
        <3> QED
            BY <1>3, <2>0
    <2> HIDE DEF N
    <2>1. PICK y \in B : s[B] = f[y] + s[B \ {y}] /\ f[y] \in Int
        BY <1>2, <1>4
    <2>2. \A x \in B : Cardinality(B \ {x}) = Cardinality(B) - 1 /\ Cardinality(B) \in Nat
        BY <1>1, FS_RemoveElement
    <2>3. \A x \in B : Cardinality(B \ {x}) <= n /\ s[B \ {x}] \in Int
        BY <2>0, <2>2
    <2>4. ASSUME NEW x \in B, x # y
          PROVE  s[B] = f[x] + s[B \ {x}]
        <3>1. s[B \ {y}] = f[x] + s[(B \ {y}) \ {x}]
            BY <2>0, <2>1, <2>3, <2>4
        <3>2. s[B \ {x}] = f[y] + s[(B \ {x}) \ {y}]
            BY <2>0, <2>1, <2>3, <2>4
        <3>3. (B \ {y}) \ {x} = (B \ {x}) \ {y}
            OBVIOUS
        <3>4. /\ Cardinality((B \ {y}) \ {x}) = Cardinality(B \ {y}) - 1
              /\ Cardinality(B \ {y}) \in Nat
            BY <1>1, <2>1, <2>4, FS_RemoveElement
        <3>5. s[(B \ {y}) \ {x}] \in Int /\ f[x] \in Int
            BY <2>0, <2>1, <2>3, <3>4
        <3>6. PICK r \in Int : r = s[(B \ {y}) \ {x}]
            BY <3>5
        <3>7. s[B \ {y}] = f[x] + r /\ s[B \ {x}] = f[y] + r
            BY <3>1, <3>2, <3>3, <3>6
        <3> QED
            BY <2>1, <3>5, <3>7
    <2>5. \A x \in B : s[B] = f[x] + s[B \ {x}]
        <3> TAKE x \in B
        <3>1. CASE x = y
            BY <2>1, <3>1
        <3> QED
            BY <2>4, <3>1
    <2>6. s[B] \in Int
        BY <2>1, <2>3
    <2> QED
        BY <2>5, <2>6
<1>7. N = Nat
    BY <1>5, <1>6, Induct
<1>8. \A B \in SUBSET A : s[B] \in Int /\ \A x \in B : s[B] = f[x] + s[B \ {x}]
    BY <1>1, <1>7
<1>9. s \in [SUBSET A -> Int]
    <2>1. s = [B \in SUBSET A |-> s[B]]
        BY DEF Adds
    <2> QED
        BY <1>8, <2>1
<1> QED
    BY <1>3, <1>8, <1>9 DEF Sums

LEMMA AddsExist ==
    ASSUME NEW A, IsFiniteSet(A), NEW f, \A x \in A : f[x] \in Int
    PROVE  \E s : Adds(s, f, A)
<1> DEFINE N == Cardinality(A)
           c(B) == CHOOSE x \in B : TRUE
           S == [SUBSET A -> Int]
           Step(h) == [B \in SUBSET A |-> IF B = {} THEN 0 ELSE f[c(B)] + h[B \ {c(B)}]]
           step == [p \in Nat \X S |-> Step(p[2])]
           zero == [B \in SUBSET A |-> 0]
<1>1. N \in Nat /\ \A B \in SUBSET A : IsFiniteSet(B) /\ Cardinality(B) \in 0..N
    BY FS_Subset, FS_CardinalityType
<1>2. \A B \in SUBSET A : B # {} => c(B) \in B /\ Cardinality(B \ {c(B)}) = Cardinality(B) - 1
    BY <1>1, FS_RemoveElement
<1>3. \A B \in SUBSET A : Cardinality(B) = 0 <=> B = {}
    BY <1>1, FS_EmptySet
<1> HIDE DEF c, N
<1>4. \A h \in S : Step(h) \in S
    BY <1>2
<1>5. step \in [Nat \X S -> S] /\ zero \in S
    <2> HIDE DEF Step, S
    <2>1. zero \in S
        BY DEF S
    <2> QED
        BY <1>4, <2>1
<1>6. PICK g : Solves(g, N, S, zero, step)
    <2> HIDE DEF step, S, zero
    <2> QED
        BY <1>1, <1>5, Recursion
<1>7. \A k \in 1..N : g[k] = Step(g[k - 1])
    <2> SUFFICES ASSUME NEW k \in 1..N
                 PROVE  g[k] = Step(g[k - 1])
        OBVIOUS
    <2> HIDE DEF Step, S
    <2>1. <<k, g[k - 1]>> \in Nat \X S
        BY <1>1, <1>6 DEF Solves
    <2> QED
        BY <1>6, <2>1 DEF Solves
<1> DEFINE s == [B \in SUBSET A |-> g[Cardinality(B)][B]]
<1>8. ASSUME NEW B \in SUBSET A
      PROVE  s[B] = IF B = {} THEN 0 ELSE f[c(B)] + s[B \ {c(B)}]
    <2>1. CASE B = {}
        <3>1. g[0] = zero /\ Cardinality({}) = 0
            BY <1>3, <1>6 DEF Solves
        <3> QED
            BY <2>1, <3>1
    <2>2. CASE B # {}
        <3> DEFINE D == B \ {c(B)}
        <3>1. Cardinality(B) \in 1..N /\ Cardinality(D) = Cardinality(B) - 1 /\ D \in SUBSET A
            BY <1>1, <1>2, <1>3, <2>2
        <3>2. g[Cardinality(B)] = Step(g[Cardinality(D)])
            BY <1>7, <3>1
        <3>3. Step(g[Cardinality(D)])[B] = f[c(B)] + g[Cardinality(D)][D]
            BY <2>2
        <3> HIDE DEF Step, D
        <3>4. s[B] = f[c(B)] + s[D]
            BY <3>1, <3>2, <3>3
        <3> QED
            BY <2>2, <3>4 DEF D
    <2> QED
        BY <2>1, <2>2
<1>9. Adds(s, f, A)
    <2>1. s = [B \in SUBSET A |-> IF B = {} THEN 0 ELSE f[c(B)] + s[B \ {c(B)}]]
        <3>1. s = [B \in SUBSET A |-> s[B]]
            OBVIOUS
        <3> HIDE DEF s
        <3> QED
            BY <1>8, <3>1
    <2> HIDE DEF s
    <2> QED
        BY <2>1 DEF Adds, c
<1> QED
    BY <1>9

\* What the library's sum is.
LEMMA SumIs ==
    ASSUME NEW A, IsFiniteSet(A), NEW f, \A x \in A : f[x] \in Int
    PROVE  \E s : Sums(s, f, A) /\ SumFunctionOnSet(f, A) = s[A]
<1> DEFINE s == CHOOSE h : Adds(h, f, A)
<1>1. Adds(s, f, A)
    BY AddsExist
<1>2. SumFunctionOnSet(f, A) = s[A]
    BY DEF SumFunctionOnSet, FoldFunctionOnSet, MapThenFoldSet, Adds
<1> HIDE DEF s
<1> QED
    BY <1>1, <1>2, AddsSums

\* Two sums agree on what they both are sums of.
LEMMA SumsAgree ==
    ASSUME NEW A, NEW B, NEW C, IsFiniteSet(C), C \subseteq A, C \subseteq B,
           NEW f, NEW g, \A x \in C : f[x] = g[x],
           NEW s, Sums(s, f, A), NEW t, Sums(t, g, B)
    PROVE  s[C] = t[C]
<1> DEFINE T == {D \in SUBSET C : s[D] = t[D]}
<1>1. {} \in T
    BY DEF Sums
<1>2. ASSUME NEW D \in T, NEW x \in C \ D
      PROVE  D \cup {x} \in T
    <2>1. (D \cup {x}) \ {x} = D /\ D \cup {x} \in SUBSET C
        OBVIOUS
    <2>2. s[D \cup {x}] = f[x] + s[D] /\ t[D \cup {x}] = g[x] + t[D]
        BY <2>1 DEF Sums
    <2> QED
        BY <2>1, <2>2
<1> HIDE DEF T
<1>3. C \in T
    BY <1>1, <1>2, GrowFinite DEF T
<1> QED
    BY <1>3 DEF T

LEMMA SumSame ==
    ASSUME NEW A, IsFiniteSet(A), NEW f, NEW g, \A x \in A : f[x] \in Int /\ g[x] = f[x]
    PROVE  SumFunctionOnSet(f, A) = SumFunctionOnSet(g, A)
<1>1. \A x \in A : g[x] \in Int /\ f[x] \in Int
    OBVIOUS
<1>2. PICK s : Sums(s, f, A) /\ SumFunctionOnSet(f, A) = s[A]
    BY <1>1, SumIs
<1>3. PICK t : Sums(t, g, A) /\ SumFunctionOnSet(g, A) = t[A]
    BY <1>1, SumIs
<1> QED
    BY <1>2, <1>3, SumsAgree

LEMMA SumInt ==
    ASSUME NEW A, IsFiniteSet(A), NEW f, \A x \in A : f[x] \in Int
    PROVE  SumFunctionOnSet(f, A) \in Int /\ SumFunctionOnSet(f, {}) = 0
<1>1. PICK s : Sums(s, f, A) /\ SumFunctionOnSet(f, A) = s[A]
    BY SumIs
<1>2. IsFiniteSet({})
    BY FS_EmptySet
<1>3. PICK t : Sums(t, f, {}) /\ SumFunctionOnSet(f, {}) = t[{}]
    BY <1>2, SumIs
<1> QED
    BY <1>1, <1>3 DEF Sums

LEMMA SumAdd ==
    ASSUME NEW A, IsFiniteSet(A), NEW x, x \notin A, NEW f, \A y \in A \cup {x} : f[y] \in Int
    PROVE  SumFunctionOnSet(f, A \cup {x}) = f[x] + SumFunctionOnSet(f, A)
<1>1. IsFiniteSet(A \cup {x})
    BY FS_AddElement
<1>2. PICK s : Sums(s, f, A \cup {x}) /\ SumFunctionOnSet(f, A \cup {x}) = s[A \cup {x}]
    BY <1>1, SumIs
<1>3. PICK t : Sums(t, f, A) /\ SumFunctionOnSet(f, A) = t[A]
    BY SumIs
<1>4. s[A] = t[A]
    BY <1>2, <1>3, SumsAgree
<1>5. (A \cup {x}) \ {x} = A
    OBVIOUS
<1>6. s[A \cup {x}] = f[x] + s[A]
    BY <1>2, <1>5 DEF Sums
<1> QED
    BY <1>2, <1>3, <1>4, <1>6

LEMMA SumOne ==
    ASSUME NEW x, NEW f, f[x] \in Int
    PROVE  SumFunctionOnSet(f, {x}) = f[x]
<1>1. IsFiniteSet({}) /\ {} \cup {x} = {x}
    BY FS_EmptySet
<1>2. SumFunctionOnSet(f, {} \cup {x}) = f[x] + SumFunctionOnSet(f, {})
    BY <1>1, SumAdd
<1>3. SumFunctionOnSet(f, {}) = 0
    BY <1>1, SumInt
<1> QED
    BY <1>1, <1>2, <1>3

LEMMA SumUnion ==
    ASSUME NEW A, NEW B, IsFiniteSet(A), IsFiniteSet(B), A \cap B = {},
           NEW f, \A x \in A \cup B : f[x] \in Int
    PROVE  SumFunctionOnSet(f, A \cup B) = SumFunctionOnSet(f, A) + SumFunctionOnSet(f, B)
<1> DEFINE Sum(D) == SumFunctionOnSet(f, D)
           T == {D \in SUBSET B : Sum(A \cup D) = Sum(A) + Sum(D)}
<1>1. {} \in T
    <2>1. A \cup {} = A /\ Sum({}) = 0 /\ Sum(A) \in Int
        BY SumInt
    <2> QED
        BY <2>1
<1>2. ASSUME NEW D \in T, NEW x \in B \ D
      PROVE  D \cup {x} \in T
    <2>1. IsFiniteSet(D) /\ IsFiniteSet(A \cup D) /\ x \notin A \cup D
        BY FS_Subset, FS_Union
    <2>2. A \cup (D \cup {x}) = (A \cup D) \cup {x} /\ f[x] \in Int
        OBVIOUS
    <2>3. Sum((A \cup D) \cup {x}) = f[x] + Sum(A \cup D)
        BY <2>1, SumAdd
    <2>4. Sum(D \cup {x}) = f[x] + Sum(D)
        BY <2>1, SumAdd
    <2>5. Sum(A) \in Int /\ Sum(D) \in Int
        BY <2>1, SumInt
    <2>6. Sum(A \cup D) = Sum(A) + Sum(D)
        OBVIOUS
    <2> HIDE DEF Sum
    <2>7. Sum((A \cup D) \cup {x}) = Sum(A) + Sum(D \cup {x})
        <3>1. PICK a \in Int, d \in Int, n \in Int : a = Sum(A) /\ d = Sum(D) /\ n = f[x]
            BY <2>2, <2>5
        <3> QED
            BY <2>3, <2>4, <2>6, <3>1
    <2> QED
        BY <2>2, <2>7
<1> HIDE DEF T
<1>3. B \in T
    BY <1>1, <1>2, GrowFinite DEF T
<1> QED
    BY <1>3 DEF T

LEMMA SumPlus ==
    ASSUME NEW A, IsFiniteSet(A), NEW f, NEW g, NEW h,
           \A x \in A : f[x] \in Int /\ g[x] \in Int /\ h[x] = f[x] + g[x]
    PROVE  SumFunctionOnSet(h, A) = SumFunctionOnSet(f, A) + SumFunctionOnSet(g, A)
<1> DEFINE Sum(k, D) == SumFunctionOnSet(k, D)
           T == {D \in SUBSET A : Sum(h, D) = Sum(f, D) + Sum(g, D)}
<1>1. {} \in T
    <2>1. Sum(f, {}) = 0 /\ Sum(g, {}) = 0 /\ Sum(h, {}) = 0
        BY SumInt, FS_EmptySet
    <2> QED
        BY <2>1
<1>2. ASSUME NEW D \in T, NEW x \in A \ D
      PROVE  D \cup {x} \in T
    <2>1. /\ IsFiniteSet(D) /\ x \notin D /\ D \cup {x} \in SUBSET A
          /\ \A y \in D \cup {x} : f[y] \in Int /\ g[y] \in Int /\ h[y] \in Int
        BY FS_Subset
    <2>2. /\ Sum(f, D \cup {x}) = f[x] + Sum(f, D)
          /\ Sum(g, D \cup {x}) = g[x] + Sum(g, D)
          /\ Sum(h, D \cup {x}) = h[x] + Sum(h, D)
        BY <2>1, SumAdd
    <2>3. Sum(f, D) \in Int /\ Sum(g, D) \in Int
        BY <2>1, SumInt
    <2>4. Sum(h, D) = Sum(f, D) + Sum(g, D) /\ h[x] = f[x] + g[x] /\ f[x] \in Int /\ g[x] \in Int
        OBVIOUS
    <2> HIDE DEF Sum
    <2> QED
        BY <2>1, <2>2, <2>3, <2>4
<1> HIDE DEF T
<1>3. A \in T
    BY <1>1, <1>2, GrowFinite DEF T
<1> QED
    BY <1>3 DEF T

LEMMA SumZero ==
    ASSUME NEW A, IsFiniteSet(A), NEW f, \A x \in A : f[x] = 0
    PROVE  SumFunctionOnSet(f, A) = 0
<1>1. \A x \in A : f[x] \in Int /\ f[x] = f[x] + f[x]
    OBVIOUS
<1>2. SumFunctionOnSet(f, A) = SumFunctionOnSet(f, A) + SumFunctionOnSet(f, A)
    BY <1>1, SumPlus
<1>3. PICK n \in Int : n = SumFunctionOnSet(f, A)
    BY <1>1, SumInt
<1>4. n = n + n
    BY <1>2, <1>3
<1>5. n = 0
    BY <1>4
<1> QED
    BY <1>3, <1>5

\* p cuts A into parts, and g is the sum of f over each.
Cuts(A, f, P, p, g) ==
    /\ IsFiniteSet(A) /\ IsFiniteSet(P) /\ \A x \in A : f[x] \in Int /\ p[x] \in P
    /\ \A i \in P : g[i] = SumFunctionOnSet(f, {x \in A : p[x] = i})

\* The sum over A is the sum of the sums over its parts.
LEMMA SumParts ==
    ASSUME NEW A, NEW f, NEW P, NEW p, NEW g, Cuts(A, f, P, p, g)
    PROVE  SumFunctionOnSet(f, A) = SumFunctionOnSet(g, P)
<1> SUFFICES ASSUME IsFiniteSet(A), \A x \in A : f[x] \in Int,
                    IsFiniteSet(P), \A x \in A : p[x] \in P,
                    \A i \in P : g[i] = SumFunctionOnSet(f, {x \in A : p[x] = i})
             PROVE  SumFunctionOnSet(f, A) = SumFunctionOnSet(g, P)
    BY DEF Cuts
<1> DEFINE Sum(k, D) == SumFunctionOnSet(k, D)
           Over(U) == {x \in A : p[x] \in U}
           Part(i) == {x \in A : p[x] = i}
           T == {U \in SUBSET P : Sum(f, Over(U)) = Sum(g, U)}
<1>1. \A U : IsFiniteSet(Over(U))
    BY FS_Subset
<1>2. \A i \in P : IsFiniteSet(Part(i)) /\ g[i] \in Int /\ g[i] = Sum(f, Part(i))
    <2>1. \A i \in P : IsFiniteSet(Part(i))
        BY FS_Subset
    <2> TAKE i \in P
    <2>2. Sum(f, Part(i)) \in Int
        BY <2>1, SumInt
    <2> QED
        BY <2>1, <2>2
<1>3. {} \in T
    <2>1. Over({}) = {} /\ Sum(f, {}) = 0 /\ Sum(g, {}) = 0
        BY SumInt, FS_EmptySet
    <2> QED
        BY <2>1
<1>4. ASSUME NEW U \in T, NEW i \in P \ U
      PROVE  U \cup {i} \in T
    <2>1. IsFiniteSet(U) /\ i \notin U /\ U \subseteq P
        BY FS_Subset
    <2>2. Over(U \cup {i}) = Over(U) \cup Part(i) /\ Over(U) \cap Part(i) = {}
        BY <2>1
    <2>3. Sum(f, Over(U) \cup Part(i)) = Sum(f, Over(U)) + Sum(f, Part(i))
        <3>1. \A x \in Over(U) \cup Part(i) : f[x] \in Int
            OBVIOUS
        <3>2. IsFiniteSet(Over(U)) /\ IsFiniteSet(Part(i))
            BY <1>1, <1>2
        <3> HIDE DEF Over, Part
        <3> QED
            BY <2>2, <3>1, <3>2, SumUnion
    <2>4. Sum(g, U \cup {i}) = g[i] + Sum(g, U)
        BY <1>2, <2>1, SumAdd
    <2>5. Sum(g, U) \in Int
        BY <1>2, <2>1, SumInt
    <2>6. Sum(f, Over(U)) = Sum(g, U) /\ g[i] = Sum(f, Part(i)) /\ g[i] \in Int
        BY <1>2
    <2> HIDE DEF Sum, Over, Part
    <2>7. Sum(f, Over(U \cup {i})) = Sum(g, U \cup {i})
        <3>1. PICK a \in Int, n \in Int : a = Sum(g, U) /\ n = g[i]
            BY <2>5, <2>6
        <3>2. Sum(f, Over(U \cup {i})) = a + n
            BY <2>2, <2>3, <2>6, <3>1
        <3> QED
            BY <2>4, <3>1, <3>2
    <2> QED
        BY <2>1, <2>7
<1>5. P \in T
    <2> HIDE DEF T
    <2> QED
        BY <1>3, <1>4, GrowFinite DEF T
<1>6. Over(P) = A
    OBVIOUS
<1> HIDE DEF Over, Sum
<1>7. Sum(f, Over(P)) = Sum(g, P)
    BY <1>5
<1> QED
    BY <1>6, <1>7 DEF Sum

\* A sum does not depend on how its terms are named.
LEMMA SumRenamed ==
    ASSUME NEW A, IsFiniteSet(A), NEW B, NEW f, \A x \in A : f[x] \in Int,
           NEW b, \A x \in A : b[x] \in B, \A y \in B : \E x \in A : b[x] = y,
           \A x, y \in A : b[x] = b[y] => x = y,
           NEW g, \A x \in A : g[b[x]] = f[x]
    PROVE  SumFunctionOnSet(f, A) = SumFunctionOnSet(g, B)
<1> DEFINE Sum(k, D) == SumFunctionOnSet(k, D)
           Image(D) == {b[x] : x \in D}
           T == {D \in SUBSET A : IsFiniteSet(Image(D)) /\ Sum(f, D) = Sum(g, Image(D))}
<1>1. {} \in T
    <2>1. Image({}) = {} /\ Sum(f, {}) = 0 /\ Sum(g, {}) = 0 /\ IsFiniteSet({})
        BY SumInt, FS_EmptySet
    <2> QED
        BY <2>1
<1>2. ASSUME NEW D \in T, NEW x \in A \ D
      PROVE  D \cup {x} \in T
    <2>1. IsFiniteSet(D) /\ x \notin D /\ D \subseteq A
        BY FS_Subset
    <2>2. Image(D \cup {x}) = Image(D) \cup {b[x]} /\ b[x] \notin Image(D)
        BY <2>1
    <2>3. IsFiniteSet(Image(D)) /\ IsFiniteSet(Image(D) \cup {b[x]})
        BY FS_AddElement
    <2>4. \A y \in Image(D) \cup {b[x]} : g[y] \in Int
        OBVIOUS
    <2>5. Sum(f, D \cup {x}) = f[x] + Sum(f, D)
        BY <2>1, SumAdd
    <2>6. Sum(g, Image(D) \cup {b[x]}) = g[b[x]] + Sum(g, Image(D))
        <3> HIDE DEF Image
        <3> QED
            BY <2>2, <2>3, <2>4, SumAdd
    <2>7. g[b[x]] = f[x] /\ Sum(f, D) = Sum(g, Image(D))
        OBVIOUS
    <2> HIDE DEF Sum, Image
    <2> QED
        BY <2>1, <2>2, <2>3, <2>5, <2>6, <2>7
<1>3. A \in T
    <2> HIDE DEF T
    <2> QED
        BY <1>1, <1>2, GrowFinite DEF T
<1>4. Image(A) = B
    OBVIOUS
<1> HIDE DEF Image, Sum
<1>5. Sum(f, A) = Sum(g, Image(A))
    BY <1>3
<1> QED
    BY <1>4, <1>5 DEF Sum
-----------------------------------------------------------------------------

\* flat has the parts of q one after the other, part i behind place off[i].
Flattens(flat, off, q) ==
    /\ off \in [DOMAIN q -> Nat]
    /\ \A i \in DOMAIN q : \A k \in DOMAIN q[i] :
          off[i] + k \in DOMAIN flat /\ flat[off[i] + k] = q[i][k]
    /\ \A j \in DOMAIN flat : \E i \in DOMAIN q : \E k \in DOMAIN q[i] : j = off[i] + k
    /\ \A i \in DOMAIN q : off[i] + Len(q[i]) <= Len(flat)
    /\ \A i, k \in DOMAIN q : i < k => off[i] + Len(q[i]) <= off[k]

\* Appending a part.
LEMMA FlattensMore ==
    ASSUME NEW T, NEW q \in Seq(Seq(T)), NEW m \in Nat, m + 1 <= Len(q), NEW flat \in Seq(T),
           NEW off, Flattens(flat, off, SubSeq(q, 1, m))
    PROVE  Flattens(flat \o q[m + 1], [i \in 1..m + 1 |-> IF i = m + 1 THEN Len(flat) ELSE off[i]],
                    SubSeq(q, 1, m + 1))
<1> DEFINE more == [i \in 1..m + 1 |-> IF i = m + 1 THEN Len(flat) ELSE off[i]]
           part == q[m + 1]
           all == flat \o part
<1>1. /\ DOMAIN SubSeq(q, 1, m) = 1..m /\ DOMAIN SubSeq(q, 1, m + 1) = 1..m + 1
      /\ \A i \in 1..m : SubSeq(q, 1, m)[i] = q[i]
      /\ \A i \in 1..m + 1 : SubSeq(q, 1, m + 1)[i] = q[i]
    OBVIOUS
<1>2. part \in Seq(T) /\ DOMAIN part = 1..Len(part) /\ Len(part) \in Nat /\ Len(flat) \in Nat
    OBVIOUS
<1>3. /\ DOMAIN all = 1..Len(flat) + Len(part)
      /\ \A j \in 1..Len(flat) : all[j] = flat[j]
      /\ \A k \in 1..Len(part) : all[Len(flat) + k] = part[k]
      /\ DOMAIN flat = 1..Len(flat)
    BY <1>2
<1>4. \A i \in 1..m : more[i] = off[i] /\ off[i] \in Nat
    BY <1>1 DEF Flattens
<1>5. more[m + 1] = Len(flat) /\ more \in [1..m + 1 -> Nat]
    <2>1. more = [i \in 1..m + 1 |-> more[i]] /\ m + 1 \in 1..m + 1
        OBVIOUS
    <2>2. more[m + 1] = Len(flat)
        BY <2>1
    <2>3. \A i \in 1..m + 1 : i = m + 1 \/ i \in 1..m
        OBVIOUS
    <2> HIDE DEF more
    <2>4. \A i \in 1..m + 1 : more[i] \in Nat
        BY <1>2, <1>4, <2>2, <2>3
    <2> QED
        BY <2>1, <2>2, <2>4
<1> HIDE DEF all, more, part
<1>6. ASSUME NEW i \in 1..m + 1, NEW k \in DOMAIN q[i]
      PROVE  more[i] + k \in DOMAIN all /\ all[more[i] + k] = q[i][k]
    <2>1. CASE i = m + 1
        <3>1. k \in 1..Len(part) /\ q[i] = part /\ more[i] = Len(flat)
            BY <1>2, <1>5, <2>1 DEF part
        <3>2. Len(flat) + k \in DOMAIN all
            BY <1>2, <1>3, <3>1
        <3>3. all[Len(flat) + k] = part[k]
            BY <1>3, <3>1
        <3> QED
            BY <3>1, <3>2, <3>3
    <2>2. CASE i # m + 1
        <3>1. i \in 1..m
            BY <2>2
        <3>2. off[i] + k \in DOMAIN flat /\ flat[off[i] + k] = q[i][k]
            <4>1. i \in DOMAIN SubSeq(q, 1, m) /\ SubSeq(q, 1, m)[i] = q[i]
                BY <1>1, <3>1
            <4> QED
                BY <4>1 DEF Flattens
        <3> QED
            BY <1>2, <1>3, <1>4, <3>1, <3>2
    <2> QED
        BY <2>1, <2>2
<1>7. ASSUME NEW j \in DOMAIN all
      PROVE  \E i \in 1..m + 1 : \E k \in DOMAIN q[i] : j = more[i] + k
    <2>1. CASE j \in 1..Len(flat)
        <3>1. PICK i \in DOMAIN SubSeq(q, 1, m) : \E k \in DOMAIN SubSeq(q, 1, m)[i] : j = off[i] + k
            BY <1>3, <2>1 DEF Flattens
        <3>2. i \in 1..m + 1 /\ more[i] = off[i] /\ SubSeq(q, 1, m)[i] = q[i]
            BY <1>1, <1>4
        <3> QED
            BY <3>1, <3>2
    <2>2. CASE j \notin 1..Len(flat)
        <3>1. j - Len(flat) \in 1..Len(part) /\ j = Len(flat) + (j - Len(flat))
            BY <1>2, <1>3, <2>2
        <3>2. m + 1 \in 1..m + 1 /\ DOMAIN q[m + 1] = 1..Len(part)
            BY <1>2 DEF part
        <3> QED
            BY <1>5, <3>1, <3>2
    <2> QED
        BY <2>1, <2>2
<1>8. \A i \in 1..m : off[i] + Len(q[i]) <= Len(flat) /\ Len(q[i]) \in Nat
    <2> TAKE i \in 1..m
    <2>1. i \in DOMAIN SubSeq(q, 1, m) /\ SubSeq(q, 1, m)[i] = q[i]
        BY <1>1
    <2>2. q[i] \in Seq(T)
        OBVIOUS
    <2>3. Len(q[i]) \in Nat
        BY <2>2
    <2>4. off[i] + Len(SubSeq(q, 1, m)[i]) <= Len(flat)
        BY <2>1 DEF Flattens
    <2> QED
        BY <2>1, <2>3, <2>4
<1>9. \A i, k \in 1..m : i < k => off[i] + Len(q[i]) <= off[k]
    <2> TAKE i, k \in 1..m
    <2>1. /\ i \in DOMAIN SubSeq(q, 1, m) /\ SubSeq(q, 1, m)[i] = q[i]
          /\ k \in DOMAIN SubSeq(q, 1, m)
        BY <1>1
    <2> QED
        BY <2>1 DEF Flattens
<1>10. Len(all) = Len(flat) + Len(part)
    BY <1>2 DEF all
<1>11. ASSUME NEW i \in 1..m + 1
       PROVE  more[i] + Len(q[i]) <= Len(all)
    <2>1. CASE i = m + 1
        BY <1>2, <1>5, <1>10, <2>1 DEF part
    <2>2. CASE i # m + 1
        <3>1. i \in 1..m
            BY <2>2
        <3> QED
            BY <1>2, <1>4, <1>8, <1>10, <3>1
    <2> QED
        BY <2>1, <2>2
<1>12. ASSUME NEW i \in 1..m + 1, NEW k \in 1..m + 1, i < k
       PROVE  more[i] + Len(q[i]) <= more[k]
    <2>1. i \in 1..m
        BY <1>12
    <2>2. CASE k = m + 1
        BY <1>4, <1>5, <1>8, <2>1, <2>2
    <2>3. CASE k # m + 1
        <3>1. k \in 1..m
            BY <2>3
        <3> QED
            BY <1>4, <1>9, <1>12, <2>1, <3>1
    <2> QED
        BY <2>2, <2>3
<1>13. Flattens(all, more, SubSeq(q, 1, m + 1))
    <2> DEFINE parts == SubSeq(q, 1, m + 1)
    <2>1. DOMAIN parts = 1..m + 1 /\ \A i \in 1..m + 1 : parts[i] = q[i]
        BY <1>1
    <2> HIDE DEF parts
    <2>2. \A i \in DOMAIN parts : \A k \in DOMAIN parts[i] :
              more[i] + k \in DOMAIN all /\ all[more[i] + k] = parts[i][k]
        BY <1>6, <2>1
    <2>3. \A j \in DOMAIN all : \E i \in DOMAIN parts : \E k \in DOMAIN parts[i] : j = more[i] + k
        BY <1>7, <2>1
    <2>4. more \in [DOMAIN parts -> Nat]
        BY <1>5, <2>1
    <2>5. \A i \in DOMAIN parts : more[i] + Len(parts[i]) <= Len(all)
        BY <1>11, <2>1
    <2>6. \A i, k \in DOMAIN parts : i < k => more[i] + Len(parts[i]) <= more[k]
        BY <1>12, <2>1
    <2>7. Flattens(all, more, parts)
        BY <2>2, <2>3, <2>4, <2>5, <2>6 DEF Flattens
    <2> QED
        BY <2>7 DEF parts
<1> QED
    BY <1>13 DEF all, more, part

LEMMA Flattened ==
    ASSUME NEW T, NEW q \in Seq(Seq(T))
    PROVE  FlattenSeq(q) \in Seq(T) /\ \E off : Flattens(FlattenSeq(q), off, q)
<1> DEFINE n == Len(q)
           S == Seq(T)
           Recurs(f) == f = [i \in 1..n |-> IF i = 1 THEN q[i] ELSE f[i - 1] \o q[i]]
           step == [p \in Nat \X S |-> IF p[1] \in 1..n THEN p[2] \o q[p[1]] ELSE p[2]]
           flatten[i \in 1..n] == IF i = 1 THEN q[i] ELSE flatten[i - 1] \o q[i]
<1>1. n \in Nat /\ DOMAIN q = 1..n /\ \A i \in 1..n : q[i] \in Seq(T)
    OBVIOUS
<1>2. CASE n = 0
    <2>1. FlattenSeq(q) = q /\ DOMAIN q = {} /\ q = <<>>
        BY <1>2 DEF FlattenSeq
    <2>2. Flattens(q, [i \in {} |-> 0], q)
        BY <2>1 DEF Flattens
    <2> QED
        BY <2>1, <2>2
<1>3. CASE n # 0
    <2>1. step \in [Nat \X S -> S] /\ <<>> \in S
        OBVIOUS
    <2>2. PICK g : Solves(g, n, S, <<>>, step)
        <3> HIDE DEF step, S, n
        <3> QED
            BY <1>1, <2>1, Recursion
    <2>3. \A i \in 1..n : g[i] = g[i - 1] \o q[i] /\ g[i - 1] \in S /\ g[i] \in S
        <3> TAKE i \in 1..n
        <3>1. i - 1 \in 0..n /\ i \in 0..n
            BY <1>1
        <3>2. g[i - 1] \in S /\ g[i] \in S /\ <<i, g[i - 1]>> \in Nat \X S
            <4> HIDE DEF step, S, n, flatten
            <4>1. g \in [0..n -> S]
                BY <2>2 DEF Solves
            <4> QED
                BY <1>1, <3>1, <4>1
        <3>3. g[i] = step[<<i, g[i - 1]>>]
            BY <2>2 DEF Solves
        <3> QED
            BY <3>2, <3>3
    <2>4. g[0] = <<>>
        BY <2>2 DEF Solves
    <2> HIDE DEF step, n
    <2> DEFINE f0 == [i \in 1..n |-> g[i]]
    <2>5. Recurs(f0)
        <3>1. \A i \in 1..n : f0[i] = g[i]
            OBVIOUS
        <3>2. f0 = [i \in 1..n |-> f0[i]]
            OBVIOUS
        <3> HIDE DEF f0, flatten
        <3>3. \A i \in 1..n : f0[i] = IF i = 1 THEN q[i] ELSE f0[i - 1] \o q[i]
            <4> TAKE i \in 1..n
            <4>1. CASE i = 1
                <5>1. q[i] \in Seq(T) /\ g[i - 1] = <<>>
                    BY <1>1, <2>4, <4>1
                <5>2. g[i - 1] \o q[i] = q[i]
                    BY <5>1
                <5> QED
                    BY <2>3, <3>1, <4>1, <5>2
            <4>2. CASE i # 1
                <5>1. i - 1 \in 1..n
                    BY <1>1, <4>2
                <5> QED
                    BY <2>3, <3>1, <4>2, <5>1
            <4> QED
                BY <4>1, <4>2
        <3> QED
            BY <3>2, <3>3
    <2>6. Recurs(flatten)
        <3>1. flatten = CHOOSE f : Recurs(f)
            OBVIOUS
        <3> HIDE DEF Recurs, flatten
        <3> QED
            BY <2>5, <3>1
    <2>7. \A i \in 1..n : flatten[i] = IF i = 1 THEN q[i] ELSE flatten[i - 1] \o q[i]
        <3>1. flatten = [i \in 1..n |-> IF i = 1 THEN q[i] ELSE flatten[i - 1] \o q[i]]
            BY <2>6
        <3> HIDE DEF flatten
        <3> QED
            BY <3>1
    <2>8. FlattenSeq(q) = flatten[n]
        BY <1>3 DEF FlattenSeq, n
    <2> HIDE DEF flatten
    <2> DEFINE Good(m) == /\ g[m] \in S
                          /\ m # 0 => flatten[m] = g[m]
                          /\ \E off : Flattens(g[m], off, SubSeq(q, 1, m))
               N == {m \in Nat : m <= n => Good(m)}
    <2>9. 0 \in N
        <3>1. DOMAIN SubSeq(q, 1, 0) = {} /\ DOMAIN <<>> = {} /\ <<>> \in S
            OBVIOUS
        <3>2. Flattens(<<>>, [i \in {} |-> 0], SubSeq(q, 1, 0))
            BY <3>1 DEF Flattens
        <3> QED
            BY <2>4, <3>1, <3>2
    <2>10. ASSUME NEW m \in N
           PROVE  m + 1 \in N
        <3>0. m \in Nat /\ m + 1 \in Nat /\ (m <= n => Good(m))
            OBVIOUS
        <3> SUFFICES ASSUME m + 1 <= n
                     PROVE  Good(m + 1)
            <4> HIDE DEF Good
            <4> QED
                BY <3>0
        <3> HIDE DEF N
        <3>1. m + 1 \in 1..n /\ (m + 1) - 1 = m /\ Good(m)
            <4> HIDE DEF Good
            <4> QED
                BY <1>1, <3>0
        <3>2. g[m] \in S /\ (m # 0 => flatten[m] = g[m])
            BY <3>1
        <3>3. PICK off : Flattens(g[m], off, SubSeq(q, 1, m))
            BY <3>1
        <3>4. g[m + 1] = g[m] \o q[m + 1] /\ g[m + 1] \in S
            BY <2>3, <3>1
        <3>5. flatten[m + 1] = g[m + 1]
            <4>0. flatten[m + 1] = IF m = 0 THEN q[m + 1] ELSE flatten[m] \o q[m + 1]
                BY <2>7, <3>0, <3>1
            <4>1. CASE m = 0
                <5>1. q[m + 1] \in Seq(T) /\ g[m] = <<>>
                    BY <1>1, <2>4, <3>1, <4>1
                <5>2. g[m] \o q[m + 1] = q[m + 1]
                    BY <5>1
                <5> QED
                    BY <3>4, <4>0, <4>1, <5>2
            <4>2. CASE m # 0
                BY <3>2, <3>4, <4>0, <4>2
            <4> QED
                BY <4>1, <4>2
        <3>6. \E o : Flattens(g[m] \o q[m + 1], o, SubSeq(q, 1, m + 1))
            BY <3>0, <3>1, <3>2, <3>3, FlattensMore DEF n
        <3> QED
            BY <3>0, <3>4, <3>5, <3>6
    <2>11. N = Nat
        <3> HIDE DEF N
        <3> QED
            BY <2>9, <2>10, Induct DEF N
    <2>12. /\ g[n] \in S /\ flatten[n] = g[n]
           /\ \E off : Flattens(g[n], off, SubSeq(q, 1, n))
        <3>1. Good(n)
            <4> HIDE DEF Good
            <4> QED
                BY <1>1, <2>11
        <3> QED
            BY <1>3, <3>1
    <2>13. SubSeq(q, 1, n) = q
        BY <1>1 DEF n
    <2> QED
        BY <2>8, <2>12, <2>13
<1> QED
    BY <1>2, <1>3
-----------------------------------------------------------------------------
\* What the transactions of the list can be.
Proper(m) ==
    \/ m.kind \in {"sell", "burn", "liquidity"} /\ m.from \in Wallets /\ m.to = Market
    \/ m.kind \in {"buy", "gift"} /\ m.from = Market /\ m.to \in Wallets
    \/ m.kind \in {"transfer", "unclear"} /\ m.from \in Wallets /\ m.to \in Wallets /\ m.from # m.to

Moves ==
    {m \in [at : Nat, kind : Kinds, from : Holders, to : Holders, amount : Nat \ {0}] : Proper(m)}

TypeOK ==
    /\ moves \in Seq(Moves) /\ traceDepth \in 0..3
    /\ opening \in [Wallets -> Nat] /\ balance \in [Wallets -> Nat]

\* The decrease a transaction shows, and the increase if it shows one.
Lost(i) ==
    LET m == moves[i] IN
    Event(i, CASE m.kind = "sell" -> "SELL" [] m.kind = "liquidity" -> "LIQUIDITY_EVENT"
               [] m.kind = "burn" -> "BURN" [] m.kind = "unclear" -> "UNKNOWN"
               [] m.kind \in {"buy", "gift", "transfer"} -> "TRANSFER",
          m.from, -m.amount, m.to)

Won(i) ==
    LET m == moves[i] IN
    Event(i, IF m.kind = "buy" THEN "BUY" ELSE "UNKNOWN", m.to, m.amount,
          IF m.kind = "buy" THEN Market ELSE m.to)

Shows(i, strict) ==
    moves[i].kind = "buy" \/ (strict /\ moves[i].kind \in {"sell", "liquidity", "unclear"})

LEMMA NormalForm ==
    ASSUME TypeOK, NEW i \in DOMAIN moves, NEW strict \in BOOLEAN
    PROVE  Normalize(i, strict) = IF Shows(i, strict) THEN <<Lost(i), Won(i)>> ELSE <<Lost(i)>>
<1> DEFINE m == moves[i]
           e == Event(i, "UNKNOWN", m.to, m.amount, m.to)
<1>1. m \in Moves /\ m.kind \in Kinds
    BY DEF TypeOK, Moves
<1>2. ASSUME NEW a, NEW b
      PROVE  <<a>> \o <<b>> = <<a, b>> /\ <<a>> \o <<>> = <<a>>
    <2> DEFINE T == {a, b}
    <2>1. <<a>> \in Seq(T) /\ <<b>> \in Seq(T) /\ <<>> \in Seq(T) /\ <<a, b>> \in Seq(T)
        OBVIOUS
    <2>2. /\ Len(<<a>>) = 1 /\ Len(<<b>>) = 1 /\ Len(<<>>) = 0 /\ Len(<<a, b>>) = 2
          /\ <<a>>[1] = a /\ <<b>>[1] = b /\ <<a, b>>[1] = a /\ <<a, b>>[2] = b
        OBVIOUS
    <2> DEFINE p == <<a>> \o <<b>>
               q == <<a>> \o <<>>
    <2>3. p \in Seq(T) /\ Len(p) = 2 /\ p[1] = a /\ p[2] = b
        BY <2>1, <2>2
    <2>4. q \in Seq(T) /\ Len(q) = 1 /\ q[1] = a
        BY <2>1, <2>2
    <2> HIDE DEF p, q, T
    <2>5. p = <<a, b>>
        BY <2>1, <2>2, <2>3
    <2>6. q = <<a>>
        BY <2>1, <2>2, <2>4
    <2> QED
        BY <2>5, <2>6 DEF p, q
<1>3. m.kind \in {"sell", "liquidity"} => m.to = Market
    BY <1>1 DEF Moves, Proper
<1>4. CASE m.kind = "sell"
    BY <1>2, <1>3, <1>4 DEF Normalize, Shows, Lost, Won
<1>5. CASE m.kind = "liquidity"
    BY <1>2, <1>3, <1>5 DEF Normalize, Shows, Lost, Won
<1>6. CASE m.kind = "unclear"
    BY <1>2, <1>6 DEF Normalize, Shows, Lost, Won
<1>7. CASE m.kind = "burn"
    <2>1. m.to = Market
        BY <1>1, <1>7 DEF Moves, Proper
    <2> QED
        BY <1>7, <2>1 DEF Normalize, Shows, Lost, Won
<1>8. CASE m.kind = "buy"
    <2>1. m.from = Market
        BY <1>1, <1>8 DEF Moves, Proper
    <2> QED
        BY <1>8, <2>1 DEF Normalize, Shows, Lost, Won
<1>9. CASE m.kind \in {"gift", "transfer"}
    BY <1>9 DEF Normalize, Shows, Lost, Won
<1> QED
    BY <1>1, <1>4, <1>5, <1>6, <1>7, <1>8, <1>9 DEF Kinds

\* The events ev are those of the transactions: each has its decrease at lost[i] and the
\* increase it shows, if any, at won[i].
Tells(ev, strict, lost, won) ==
    /\ IsFiniteSet(DOMAIN ev)
    /\ \A i \in DOMAIN moves : lost[i] \in DOMAIN ev /\ ev[lost[i]] = Lost(i)
    /\ \A i \in DOMAIN moves : Shows(i, strict) => won[i] \in DOMAIN ev /\ ev[won[i]] = Won(i)
    /\ \A j \in DOMAIN ev : \E i \in DOMAIN moves : j = lost[i] \/ (Shows(i, strict) /\ j = won[i])

\* Events are listed by signature, those of a signature with the decrease first.
Listed(ev) ==
    /\ Len(ev) \in Nat /\ DOMAIN ev = 1..Len(ev)
    /\ \A j, k \in DOMAIN ev : j <= k => ev[j].signature <= ev[k].signature
    /\ \A j, k \in DOMAIN ev : j < k /\ ev[j].signature = ev[k].signature => ev[k].delta > 0

\* Where the events of a list of typed moves are, and what they tell.
LEMMA EventsListed ==
    ASSUME TypeOK, NEW strict \in BOOLEAN
    PROVE  Listed(Normalized(strict)) /\ \E lost, won : Tells(Normalized(strict), strict, lost, won)
<1> DEFINE q == [i \in DOMAIN moves |-> Normalize(i, strict)]
           T == {Lost(i) : i \in DOMAIN moves} \cup {Won(i) : i \in DOMAIN moves}
           ev == FlattenSeq(q)
<1>1. \A i \in DOMAIN moves : q[i] = IF Shows(i, strict) THEN <<Lost(i), Won(i)>> ELSE <<Lost(i)>>
    BY NormalForm
<1>2. \A i \in DOMAIN moves : q[i] \in Seq(T)
    <2> TAKE i \in DOMAIN moves
    <2>1. Lost(i) \in T /\ Won(i) \in T
        OBVIOUS
    <2> HIDE DEF T, q
    <2>2. <<Lost(i), Won(i)>> \in Seq(T) /\ <<Lost(i)>> \in Seq(T)
        BY <2>1
    <2> QED
        BY <1>1, <2>2
<1>3. DOMAIN moves = 1..Len(moves) /\ Len(moves) \in Nat
    BY DEF TypeOK
<1>4. q \in Seq(Seq(T)) /\ DOMAIN q = DOMAIN moves
    <2>1. q \in [1..Len(moves) -> Seq(T)]
        <3>1. q = [i \in DOMAIN moves |-> q[i]]
            OBVIOUS
        <3> HIDE DEF q, T
        <3> QED
            BY <1>2, <1>3, <3>1
    <2> HIDE DEF q, T
    <2> QED
        BY <1>3, <2>1
<1> HIDE DEF q, T
<1>5. ev \in Seq(T) /\ \E off : Flattens(ev, off, q)
    BY <1>4, Flattened
<1>6. PICK off : Flattens(ev, off, q)
    BY <1>5
<1> DEFINE lost == [i \in DOMAIN moves |-> off[i] + 1]
           won == [i \in DOMAIN moves |-> off[i] + 2]
<1>7. \A i \in DOMAIN moves : DOMAIN q[i] = IF Shows(i, strict) THEN {1, 2} ELSE {1}
    <2> TAKE i \in DOMAIN moves
    <2>1. DOMAIN <<Lost(i), Won(i)>> = {1, 2} /\ DOMAIN <<Lost(i)>> = {1}
        OBVIOUS
    <2> QED
        BY <1>1, <2>1
<1>8. \A i \in DOMAIN moves : q[i][1] = Lost(i) /\ (Shows(i, strict) => q[i][2] = Won(i))
    <2> TAKE i \in DOMAIN moves
    <2>1. PICK a, b, p : a = Lost(i) /\ b = Won(i) /\ p = q[i]
        OBVIOUS
    <2>2. p = <<a, b>> \/ (p = <<a>> /\ ~Shows(i, strict))
        BY <1>1, <2>1
    <2>3. <<a, b>>[1] = a /\ <<a, b>>[2] = b /\ <<a>>[1] = a
        OBVIOUS
    <2>4. p[1] = a /\ (Shows(i, strict) => p[2] = b)
        BY <2>2, <2>3
    <2> QED
        BY <2>1, <2>4
<1> HIDE DEF ev
<1>9. \A i \in DOMAIN moves : \A k \in DOMAIN q[i] : off[i] + k \in DOMAIN ev /\ ev[off[i] + k] = q[i][k]
    BY <1>4, <1>6 DEF Flattens
<1>10. \A j \in DOMAIN ev : \E i \in DOMAIN moves : \E k \in DOMAIN q[i] : j = off[i] + k
    BY <1>4, <1>6 DEF Flattens
<1>11. IsFiniteSet(DOMAIN ev)
    <2>1. DOMAIN ev = 1..Len(ev) /\ Len(ev) \in Nat
        BY <1>5
    <2> QED
        BY <2>1, FS_Interval
<1>12. \A i \in DOMAIN moves : lost[i] = off[i] + 1 /\ won[i] = off[i] + 2
    OBVIOUS
<1> HIDE DEF lost, won
<1>13. Tells(ev, strict, lost, won)
    <2>1. \A i \in DOMAIN moves : lost[i] \in DOMAIN ev /\ ev[lost[i]] = Lost(i)
        <3> TAKE i \in DOMAIN moves
        <3>1. 1 \in DOMAIN q[i]
            BY <1>7
        <3> QED
            BY <1>8, <1>9, <1>12, <3>1
    <2>2. \A i \in DOMAIN moves : Shows(i, strict) => won[i] \in DOMAIN ev /\ ev[won[i]] = Won(i)
        <3> TAKE i \in DOMAIN moves
        <3>1. Shows(i, strict) => 2 \in DOMAIN q[i]
            BY <1>7
        <3> QED
            BY <1>8, <1>9, <1>12, <3>1
    <2>3. \A j \in DOMAIN ev : \E i \in DOMAIN moves : j = lost[i] \/ (Shows(i, strict) /\ j = won[i])
        <3> TAKE j \in DOMAIN ev
        <3>1. PICK i \in DOMAIN moves : \E k \in DOMAIN q[i] : j = off[i] + k
            BY <1>10
        <3>2. (Shows(i, strict) /\ j = won[i]) \/ j = lost[i]
            BY <1>7, <1>12, <3>1
        <3> QED
            BY <3>2
    <2> QED
        BY <1>11, <2>1, <2>2, <2>3 DEF Tells
<1>14. Listed(ev)
    <2>1. \A i \in DOMAIN q : \A k \in DOMAIN q[i] : k \in 1..Len(q[i])
        <3> TAKE i \in DOMAIN q
        <3>1. q[i] \in Seq(T)
            BY <1>2, <1>4
        <3> QED
            BY <3>1
    <2>2. \A i \in DOMAIN q : q[i] \in Seq(T) /\ Len(q[i]) \in Nat
        <3> TAKE i \in DOMAIN q
        <3>1. q[i] \in Seq(T)
            BY <1>2, <1>4
        <3> QED
            BY <3>1
    <2>3. \A i \in DOMAIN moves : Lost(i).signature = i /\ Won(i).signature = i
        BY DEF Lost, Won, Event
    <2>4. \A i \in DOMAIN q : \A k \in DOMAIN q[i] : ev[off[i] + k].signature = i
        <3> TAKE i \in DOMAIN q
        <3> TAKE k \in DOMAIN q[i]
        <3>1. ev[off[i] + k] = q[i][k] /\ i \in DOMAIN moves
            BY <1>4, <1>9
        <3>2. q[i][k] = Lost(i) \/ q[i][k] = Won(i)
            BY <1>7, <1>8, <3>1
        <3> QED
            BY <2>3, <3>1, <3>2
    <2>5. ASSUME NEW j \in DOMAIN ev, NEW l \in DOMAIN ev, j <= l
          PROVE  ev[j].signature <= ev[l].signature
        <3>1. PICK a \in DOMAIN q : \E k \in DOMAIN q[a] : j = off[a] + k
            BY <1>4, <1>10
        <3>2. PICK k \in DOMAIN q[a] : j = off[a] + k
            BY <3>1
        <3>3. PICK b \in DOMAIN q : \E h \in DOMAIN q[b] : l = off[b] + h
            BY <1>4, <1>10
        <3>4. PICK h \in DOMAIN q[b] : l = off[b] + h
            BY <3>3
        <3>5. ev[j].signature = a /\ ev[l].signature = b /\ a \in Nat /\ b \in Nat
            BY <1>3, <1>4, <2>4, <3>2, <3>4
        <3>6. off[a] \in Nat /\ off[b] \in Nat /\ k \in Nat \ {0} /\ h \in 1..Len(q[b]) /\ Len(q[b]) \in Nat
            <4>1. off[a] \in Nat /\ off[b] \in Nat
                BY <1>6 DEF Flattens
            <4> QED
                BY <2>1, <2>2, <4>1
        <3>7. b < a => off[b] + Len(q[b]) <= off[a]
            BY <1>6 DEF Flattens
        <3>8. ~(b < a)
            <4> SUFFICES ASSUME b < a PROVE FALSE
                OBVIOUS
            <4>1. PICK x \in Nat, y \in Nat, z \in Nat : x = off[a] /\ y = off[b] /\ z = Len(q[b])
                BY <3>6
            <4>2. x + k <= y + h /\ y + z <= x /\ h <= z /\ k >= 1
                BY <2>5, <3>2, <3>4, <3>6, <3>7, <4>1
            <4> QED
                BY <3>6, <4>1, <4>2
        <3> QED
            BY <3>5, <3>8
    <2>6. Len(ev) \in Nat /\ DOMAIN ev = 1..Len(ev)
        BY <1>5
    <2>7. ASSUME NEW j \in DOMAIN ev, NEW l \in DOMAIN ev, j < l, ev[j].signature = ev[l].signature
          PROVE  ev[l].delta > 0
        <3>1. PICK a \in DOMAIN q : \E k \in DOMAIN q[a] : j = off[a] + k
            BY <1>4, <1>10
        <3>2. PICK k \in DOMAIN q[a] : j = off[a] + k
            BY <3>1
        <3>3. PICK b \in DOMAIN q : \E h \in DOMAIN q[b] : l = off[b] + h
            BY <1>4, <1>10
        <3>4. PICK h \in DOMAIN q[b] : l = off[b] + h
            BY <3>3
        <3>5. b = a
            BY <2>4, <2>7, <3>2, <3>4
        <3>6. off[a] \in Nat /\ a \in DOMAIN moves
            BY <1>4, <1>6 DEF Flattens
        <3>7. k \in {1, 2} /\ h \in {1, 2}
            BY <1>7, <3>5, <3>6
        <3>8. h = 2
            BY <2>7, <3>2, <3>4, <3>5, <3>6, <3>7
        <3>9. Shows(a, strict)
            BY <1>7, <3>5, <3>6, <3>8
        <3>10. ev[l] = Won(a)
            BY <1>8, <1>9, <1>4, <3>4, <3>5, <3>6, <3>8, <3>9
        <3>11. Won(a).delta = moves[a].amount
            BY DEF Won, Event
        <3>12. moves[a].amount \in Nat \ {0}
            <4>1. moves[a] \in Moves
                BY <3>6 DEF TypeOK
            <4> QED
                BY <4>1 DEF Moves
        <3> QED
            BY <3>10, <3>11, <3>12
    <2> QED
        BY <2>5, <2>6, <2>7 DEF Listed
<1> QED
    BY <1>13, <1>14 DEF ev, q, Normalized

LEMMA EventsTell ==
    ASSUME TypeOK, NEW strict \in BOOLEAN
    PROVE  \E lost, won : Tells(Normalized(strict), strict, lost, won)
BY EventsListed

\* What the events of one transaction add to a sum.
Share(A, f, i, strict, lost, won) ==
    (IF lost[i] \in A THEN f[lost[i]] ELSE 0)
        + (IF Shows(i, strict) /\ won[i] \in A THEN f[won[i]] ELSE 0)

LEMMA ShareSums ==
    ASSUME TypeOK, NEW strict, NEW ev, NEW lost, NEW won, Tells(ev, strict, lost, won),
           NEW i \in DOMAIN moves, NEW A \in SUBSET DOMAIN ev, \A j \in A : ev[j].signature = i,
           NEW f, \A j \in A : f[j] \in Int
    PROVE  SumOver(A, f) = Share(A, f, i, strict, lost, won)
<1>1. \A k \in DOMAIN moves : Lost(k).signature = k /\ Won(k).signature = k
    BY DEF Lost, Won, Event
<1>2. \A j \in A : j = lost[i] \/ (Shows(i, strict) /\ j = won[i])
    <2> TAKE j \in A
    <2>1. PICK k \in DOMAIN moves : j = lost[k] \/ (Shows(k, strict) /\ j = won[k])
        BY DEF Tells
    <2>2. ev[j].signature = k
        BY <1>1, <2>1 DEF Tells
    <2> QED
        BY <2>1, <2>2
<1>3. Shows(i, strict) => lost[i] # won[i]
    <2>1. moves[i] \in Moves
        BY DEF TypeOK
    <2>2. moves[i].amount \in Nat \ {0}
        BY <2>1 DEF Moves
    <2>3. Lost(i).delta = -moves[i].amount /\ Won(i).delta = moves[i].amount
        BY DEF Lost, Won, Event
    <2> QED
        BY <2>2, <2>3 DEF Tells
<1>4. CASE lost[i] \in A /\ Shows(i, strict) /\ won[i] \in A
    <2>1. A = {lost[i]} \cup {won[i]} /\ won[i] \notin {lost[i]}
        BY <1>2, <1>3, <1>4
    <2>2. IsFiniteSet({lost[i]})
        BY FS_Singleton
    <2>3. SumFunctionOnSet(f, {lost[i]} \cup {won[i]}) = f[won[i]] + SumFunctionOnSet(f, {lost[i]})
        BY <2>1, <2>2, SumAdd
    <2>4. SumFunctionOnSet(f, {lost[i]}) = f[lost[i]]
        BY <1>4, SumOne
    <2>5. f[lost[i]] \in Int /\ f[won[i]] \in Int
        BY <1>4
    <2>6. Share(A, f, i, strict, lost, won) = f[lost[i]] + f[won[i]]
        BY <1>4 DEF Share
    <2>7. SumFunctionOnSet(f, A) = f[won[i]] + f[lost[i]]
        BY <2>1, <2>3, <2>4
    <2> QED
        BY <2>5, <2>6, <2>7 DEF SumOver
<1>5. CASE lost[i] \in A /\ ~(Shows(i, strict) /\ won[i] \in A)
    <2>1. A = {lost[i]} /\ f[lost[i]] \in Int
        BY <1>2, <1>5
    <2>2. SumOver(A, f) = f[lost[i]]
        BY <2>1, SumOne DEF SumOver
    <2> QED
        BY <1>5, <2>1, <2>2 DEF Share
<1>6. CASE lost[i] \notin A /\ Shows(i, strict) /\ won[i] \in A
    <2>1. A = {won[i]} /\ f[won[i]] \in Int
        BY <1>2, <1>6
    <2>2. SumOver(A, f) = f[won[i]]
        BY <2>1, SumOne DEF SumOver
    <2> QED
        BY <1>6, <2>1, <2>2 DEF Share
<1>7. CASE lost[i] \notin A /\ ~(Shows(i, strict) /\ won[i] \in A)
    <2>1. A = {}
        BY <1>2, <1>7
    <2>2. SumOver(A, f) = 0
        BY <2>1, SumInt, FS_EmptySet DEF SumOver
    <2> QED
        BY <1>7, <2>2 DEF Share
<1> QED
    BY <1>4, <1>5, <1>6, <1>7

\* A sum over events is one over the transactions.
LEMMA SumByMoves ==
    ASSUME TypeOK, NEW strict, NEW ev, NEW lost, NEW won, Tells(ev, strict, lost, won),
           NEW A \in SUBSET DOMAIN ev, NEW f, \A j \in A : f[j] \in Int,
           NEW g, \A i \in DOMAIN moves : g[i] = Share(A, f, i, strict, lost, won)
    PROVE  SumOver(A, f) = SumOver(DOMAIN moves, g)
<1> DEFINE p == [j \in DOMAIN ev |-> ev[j].signature]
           Part(i) == {j \in A : p[j] = i}
<1>1. IsFiniteSet(A) /\ IsFiniteSet(DOMAIN moves)
    <2>1. DOMAIN moves = 1..Len(moves) /\ Len(moves) \in Nat
        BY DEF TypeOK
    <2> QED
        BY <2>1, FS_Subset, FS_Interval DEF Tells
<1>2. \A k \in DOMAIN moves : Lost(k).signature = k /\ Won(k).signature = k
    BY DEF Lost, Won, Event
<1>3. \A j \in A : p[j] \in DOMAIN moves
    BY <1>2 DEF Tells
<1>4. \A i \in DOMAIN moves : g[i] = SumOver(Part(i), f)
    <2> TAKE i \in DOMAIN moves
    <2>1. Part(i) \in SUBSET DOMAIN ev /\ \A j \in Part(i) : ev[j].signature = i /\ f[j] \in Int
        OBVIOUS
    <2>2. SumOver(Part(i), f) = Share(Part(i), f, i, strict, lost, won)
        <3> HIDE DEF Part
        <3> QED
            BY <2>1, ShareSums
    <2>3. /\ lost[i] \in Part(i) <=> lost[i] \in A
          /\ Shows(i, strict) => (won[i] \in Part(i) <=> won[i] \in A)
        BY <1>2 DEF Tells
    <2> QED
        BY <2>2, <2>3 DEF Share
<1> HIDE DEF p
<1>5. SumFunctionOnSet(f, A) = SumFunctionOnSet(g, DOMAIN moves)
    <2>1. Cuts(A, f, DOMAIN moves, p, g)
        BY <1>1, <1>3, <1>4 DEF Cuts, SumOver
    <2> QED
        BY <2>1, SumParts
<1> QED
    BY <1>5 DEF SumOver
-----------------------------------------------------------------------------
\* What each transaction of the list brought a wallet, one after the other.
Brought(w) == [i \in DOMAIN moves |-> Gain(moves[i], w)]

\* The kinds of transactions, with what is known of each.
LEMMA KindsOfMoves ==
    ASSUME TypeOK, NEW i \in DOMAIN moves
    PROVE  /\ moves[i].amount \in Nat \ {0}
           /\ \/ moves[i].kind \in {"sell", "burn", "liquidity"} /\ moves[i].from \in Wallets /\ moves[i].to = Market
              \/ moves[i].kind \in {"buy", "gift"} /\ moves[i].from = Market /\ moves[i].to \in Wallets
              \/ /\ moves[i].kind \in {"transfer", "unclear"} /\ moves[i].from # moves[i].to
                 /\ moves[i].from \in Wallets /\ moves[i].to \in Wallets
           /\ Root # Market /\ Root \in Wallets /\ Market \notin Wallets
           /\ \A w : Gain(moves[i], w) \in Int
<1>1. moves[i] \in Moves
    BY DEF TypeOK
<1>2. moves[i].amount \in Nat \ {0}
    BY <1>1 DEF Moves
<1>3. \A w : Gain(moves[i], w) \in Int
    BY <1>2 DEF Gain
<1> QED
    BY <1>1, <1>2, <1>3, ExitVerdictAssumption DEF Moves, Proper

\* The events of a transaction, field by field.
LEMMA FieldsOfEvents ==
    ASSUME NEW i
    PROVE  /\ Lost(i).signature = i /\ Won(i).signature = i
           /\ Lost(i).at = moves[i].at /\ Won(i).at = moves[i].at
           /\ Lost(i).wallet = moves[i].from /\ Won(i).wallet = moves[i].to
           /\ Lost(i).delta = -moves[i].amount /\ Won(i).delta = moves[i].amount
           /\ Lost(i).destination = moves[i].to
           /\ moves[i].kind \in {"buy", "gift", "transfer"} => Lost(i).type = "TRANSFER"
           /\ moves[i].kind = "sell" => Lost(i).type = "SELL"
           /\ moves[i].kind = "burn" => Lost(i).type = "BURN"
           /\ moves[i].kind = "liquidity" => Lost(i).type = "LIQUIDITY_EVENT"
           /\ moves[i].kind = "unclear" => Lost(i).type = "UNKNOWN"
           /\ moves[i].kind = "buy" => Won(i).type = "BUY"
           /\ moves[i].kind # "buy" => Won(i).type = "UNKNOWN" /\ Won(i).destination = moves[i].to
BY DEF Lost, Won, Event

\* Only a transfer and a delivery can be concrete.
LEMMA ConcreteMoves ==
    ASSUME TypeOK, NEW i \in DOMAIN moves
    PROVE  /\ Concrete(Lost(i)) <=> moves[i].kind \in {"buy", "gift", "transfer"}
           /\ ~Concrete(Won(i))
           /\ Won(i).type = "BUY" <=> moves[i].kind = "buy"
           /\ Lost(i).type # "BUY"
BY KindsOfMoves, FieldsOfEvents DEF Concrete

\* A delivery of the market is the settlement of a purchase, and no other event is.
LEMMA SettlesPurchases ==
    ASSUME TypeOK, NEW strict, NEW ev, NEW lost, NEW won, Tells(ev, strict, lost, won),
           NEW i \in DOMAIN moves
    PROVE  Settlement(ev, ev[lost[i]]) <=> moves[i].kind = "buy"
<1> DEFINE e == ev[lost[i]]
           bought == {j \in DOMAIN ev : /\ ev[j].signature = e.signature /\ ev[j].type = "BUY"
                                        /\ ev[j].wallet = e.destination}
           brought == {j \in DOMAIN ev : /\ ev[j].signature = e.signature /\ Concrete(ev[j])
                                         /\ ev[j].destination = e.destination}
           size == [j \in DOMAIN ev |-> IF ev[j].delta < 0 THEN -ev[j].delta ELSE ev[j].delta]
<1>1. e = Lost(i) /\ lost[i] \in DOMAIN ev
    BY DEF Tells
<1>2. \A j \in DOMAIN ev : ev[j].signature = i =>
          j = lost[i] \/ (Shows(i, strict) /\ j = won[i] /\ ev[j] = Won(i))
    <2> TAKE j \in DOMAIN ev
    <2>1. PICK k \in DOMAIN moves : j = lost[k] \/ (Shows(k, strict) /\ j = won[k])
        BY DEF Tells
    <2>2. ev[j].signature = k
        BY <2>1, FieldsOfEvents DEF Tells
    <2> QED
        BY <2>1, <2>2 DEF Tells
<1>3. ASSUME moves[i].kind # "buy"
      PROVE  bought = {}
    BY <1>1, <1>2, <1>3, ConcreteMoves, FieldsOfEvents
<1>4. ASSUME moves[i].kind = "buy"
      PROVE  Settlement(ev, e)
    <2>1. Shows(i, strict) /\ won[i] \in DOMAIN ev /\ ev[won[i]] = Won(i)
        BY <1>4 DEF Shows, Tells
    <2>2. bought = {won[i]}
        BY <1>1, <1>2, <1>4, <2>1, ConcreteMoves, FieldsOfEvents
    <2>3. brought = {lost[i]}
        BY <1>1, <1>2, <1>4, <2>1, ConcreteMoves, FieldsOfEvents
    <2>4. size[lost[i]] = moves[i].amount /\ size[won[i]] = moves[i].amount /\ moves[i].amount \in Int
        BY <1>1, <2>1, FieldsOfEvents, KindsOfMoves
    <2>5. Concrete(e)
        BY <1>1, <1>4, ConcreteMoves
    <2>6. SumOver({lost[i]}, size) = moves[i].amount /\ SumOver({won[i]}, size) = moves[i].amount
        <3> HIDE DEF size
        <3> QED
            BY <2>4, SumOne DEF SumOver
    <2>7. SumOver(brought, size) = SumOver(bought, size)
        BY <2>2, <2>3, <2>6
    <2> QED
        BY <2>2, <2>5, <2>7 DEF Settlement
<1> QED
    BY <1>3, <1>4 DEF Settlement

\* What verify-exit sees of a transaction is what it brought the seller.
LEMMA NetShare ==
    ASSUME TypeOK, NEW ev, NEW lost, NEW won, Tells(ev, TRUE, lost, won), NEW i \in DOMAIN moves,
           NEW delta, \A j \in DOMAIN ev : delta[j] = ev[j].delta,
           NEW amount, \A j \in DOMAIN ev : amount[j] = -ev[j].delta
    PROVE  Share(RootEvents(ev), delta, i, TRUE, lost, won) + Share(Incoming(ev), amount, i, TRUE, lost, won)
               = Gain(moves[i], Root)
<1> DEFINE m == moves[i]
<1>1. lost[i] \in DOMAIN ev /\ ev[lost[i]] = Lost(i)
    BY DEF Tells
<1>2. Shows(i, TRUE) => won[i] \in DOMAIN ev /\ ev[won[i]] = Won(i)
    BY DEF Tells
<1>3. lost[i] \in RootEvents(ev) <=> m.from = Root
    BY <1>1, FieldsOfEvents DEF RootEvents
<1>4. Shows(i, TRUE) => (won[i] \in RootEvents(ev) <=> m.to = Root)
    BY <1>2, FieldsOfEvents DEF RootEvents
<1>5. lost[i] \in Incoming(ev) <=> m.kind \in {"gift", "transfer"} /\ m.to = Root /\ m.from # Root
    <2>1. Settlement(ev, ev[lost[i]]) <=> m.kind = "buy"
        BY SettlesPurchases
    <2>2. Concrete(Lost(i)) <=> m.kind \in {"buy", "gift", "transfer"}
        BY ConcreteMoves
    <2>3. Lost(i).wallet = m.from /\ Lost(i).destination = m.to
        BY FieldsOfEvents
    <2> QED
        BY <1>1, <2>1, <2>2, <2>3 DEF Incoming
<1>6. Shows(i, TRUE) => won[i] \notin Incoming(ev)
    BY <1>2, ConcreteMoves DEF Incoming
<1>7. Shows(i, TRUE) <=> m.kind \in {"buy", "sell", "liquidity", "unclear"}
    BY DEF Shows
<1>8. /\ delta[lost[i]] = -m.amount /\ amount[lost[i]] = m.amount
      /\ Shows(i, TRUE) => delta[won[i]] = m.amount
    <2>1. PICK a \in Nat : a = m.amount
        BY KindsOfMoves
    <2>2. Lost(i).delta = -a /\ Won(i).delta = a
        BY <2>1, FieldsOfEvents
    <2>3. delta[lost[i]] = -a /\ amount[lost[i]] = -(-a)
        BY <1>1, <2>2
    <2>4. Shows(i, TRUE) => delta[won[i]] = a
        BY <1>2, <2>2
    <2>5. -(-a) = a
        BY <2>1
    <2> QED
        BY <2>1, <2>3, <2>4, <2>5
<1>9. Share(RootEvents(ev), delta, i, TRUE, lost, won) =
          (IF m.from = Root THEN -m.amount ELSE 0)
              + (IF Shows(i, TRUE) /\ m.to = Root THEN m.amount ELSE 0)
    BY <1>3, <1>4, <1>8 DEF Share
<1>10. Share(Incoming(ev), amount, i, TRUE, lost, won) =
          (IF m.kind \in {"gift", "transfer"} /\ m.to = Root /\ m.from # Root THEN m.amount ELSE 0) + 0
    BY <1>5, <1>6, <1>8 DEF Share
<1>11. m.amount \in Nat
    BY KindsOfMoves
<1>12. m.kind \in {"gift", "transfer"} \/ Shows(i, TRUE) \/ (m.kind = "burn" /\ m.to # Root)
    BY <1>7, KindsOfMoves
<1>13. m.to = Root => m.from # Root
    BY KindsOfMoves
<1>14. m.kind \in {"gift", "transfer"} => ~Shows(i, TRUE)
    BY <1>7
<1>15. Gain(moves[i], Root) = (IF m.to = Root THEN m.amount ELSE 0) - (IF m.from = Root THEN m.amount ELSE 0)
    BY DEF Gain
<1> DEFINE own == Share(RootEvents(ev), delta, i, TRUE, lost, won)
           sent == Share(Incoming(ev), amount, i, TRUE, lost, won)
<1>16. PICK a \in Nat : a = m.amount
    BY <1>11
<1> HIDE DEF m
<1>17. own = (IF m.from = Root THEN -a ELSE 0) + (IF Shows(i, TRUE) /\ m.to = Root THEN a ELSE 0)
    BY <1>9, <1>16
<1>18. sent = (IF m.kind \in {"gift", "transfer"} /\ m.to = Root /\ m.from # Root THEN a ELSE 0) + 0
    BY <1>10, <1>16
<1>19. Gain(moves[i], Root) = (IF m.to = Root THEN a ELSE 0) - (IF m.from = Root THEN a ELSE 0)
    BY <1>15, <1>16
<1> HIDE DEF own, sent
<1>20. own + sent = Gain(moves[i], Root)
    <2>1. CASE m.from = Root
        <3>1. own = -a + 0 /\ sent = 0 + 0 /\ Gain(moves[i], Root) = 0 - a
            BY <1>13, <1>17, <1>18, <1>19, <2>1
        <3> QED
            BY <3>1
    <2>2. CASE m.from # Root /\ m.to = Root /\ Shows(i, TRUE)
        <3>1. own = 0 + a /\ sent = 0 + 0 /\ Gain(moves[i], Root) = a - 0
            BY <1>14, <1>17, <1>18, <1>19, <2>2
        <3> QED
            BY <3>1
    <2>3. CASE m.from # Root /\ m.to = Root /\ ~Shows(i, TRUE)
        <3>1. own = 0 + 0 /\ sent = a + 0 /\ Gain(moves[i], Root) = a - 0
            BY <1>12, <1>17, <1>18, <1>19, <2>3
        <3> QED
            BY <3>1
    <2>4. CASE m.from # Root /\ m.to # Root
        <3>1. own = 0 + 0 /\ sent = 0 + 0 /\ Gain(moves[i], Root) = 0 - 0
            BY <1>17, <1>18, <1>19, <2>4
        <3> QED
            BY <3>1
    <2> QED
        BY <2>1, <2>2, <2>3, <2>4
<1> QED
    BY <1>20 DEF own, sent
-----------------------------------------------------------------------------
\* A list with x put at place p, and where its other members are then.
Put(s, p, x) ==
    LET new == InsertAt(s, p, x) IN
    /\ new \in Seq(Moves) /\ Len(new) = Len(s) + 1 /\ DOMAIN new = 1..Len(s) + 1 /\ new[p] = x
    /\ \A i \in 1..Len(s) : new[[j \in 1..Len(s) |-> IF j < p THEN j ELSE j + 1][i]] = s[i]

LEMMA Inserted ==
    ASSUME NEW s \in Seq(Moves), NEW p \in 1..Len(s) + 1, NEW x \in Moves
    PROVE  Put(s, p, x)
<1> DEFINE n == Len(s)
           a == SubSeq(s, 1, p - 1)
           c == SubSeq(s, p, n)
           head == a \o <<x>>
           new == head \o c
           b == [j \in 1..n |-> IF j < p THEN j ELSE j + 1]
<1>1. n \in Nat /\ p \in Nat /\ 1 <= p /\ p <= n + 1
    OBVIOUS
<1>2. a \in Seq(Moves) /\ Len(a) = p - 1 /\ \A i \in 1..p - 1 : a[i] = s[i]
    BY <1>1
<1>3. c \in Seq(Moves) /\ Len(c) = n - p + 1 /\ \A i \in 1..n - p + 1 : c[i] = s[p + i - 1]
    BY <1>1
<1>4. <<x>> \in Seq(Moves) /\ Len(<<x>>) = 1 /\ <<x>>[1] = x
    OBVIOUS
<1> HIDE DEF a, c
<1>5. /\ head \in Seq(Moves) /\ Len(head) = p /\ head[p] = x
      /\ \A i \in 1..p - 1 : head[i] = s[i]
    BY <1>1, <1>2, <1>4
<1> HIDE DEF head
<1>6. new \in Seq(Moves) /\ Len(new) = n + 1
    <2>1. \A u, v \in Seq(Moves) : u \o v \in Seq(Moves) /\ Len(u \o v) = Len(u) + Len(v)
        OBVIOUS
    <2>2. head \in Seq(Moves) /\ c \in Seq(Moves)
        BY <1>3, <1>5
    <2>3. new \in Seq(Moves) /\ Len(new) = Len(head) + Len(c)
        BY <2>1, <2>2
    <2>4. p + (n - p + 1) = n + 1
        BY <1>1
    <2> QED
        BY <1>3, <1>5, <2>3, <2>4
<1>7. \A i \in 1..p : new[i] = head[i]
    BY <1>1, <1>3, <1>5
<1>8. \A i \in 1..n - p + 1 : new[p + i] = s[p + i - 1]
    <2> TAKE i \in 1..n - p + 1
    <2>1. i \in 1..Len(c) /\ c[i] = s[p + i - 1]
        BY <1>3
    <2>2. new[Len(head) + i] = c[i]
        BY <1>3, <1>5, <2>1
    <2> QED
        BY <1>5, <2>1, <2>2
<1>9. \A i \in 1..n : new[b[i]] = s[i]
    <2> TAKE i \in 1..n
    <2>1. CASE i < p
        <3>1. b[i] = i /\ i \in 1..p - 1 /\ i \in 1..p
            BY <1>1, <2>1
        <3> QED
            BY <1>5, <1>7, <3>1
    <2>2. CASE ~(i < p)
        <3>1. b[i] = i + 1 /\ i - p + 1 \in 1..n - p + 1
            BY <1>1, <2>2
        <3>2. p + (i - p + 1) = i + 1 /\ p + (i - p + 1) - 1 = i
            BY <1>1
        <3>3. new[p + (i - p + 1)] = s[p + (i - p + 1) - 1]
            BY <1>8, <3>1
        <3> QED
            BY <3>1, <3>2, <3>3
    <2> QED
        BY <2>1, <2>2
<1>10. new[p] = x
    BY <1>1, <1>5, <1>7
<1>11. InsertAt(s, p, x) = new
    BY DEF InsertAt, head, a, c
<1>12. DOMAIN new = 1..n + 1
    BY <1>6
<1> HIDE DEF new, b
<1> QED
    BY <1>6, <1>9, <1>10, <1>11, <1>12 DEF Put, b

\* A transaction put anywhere into a list adds what it brings.
LEMMA InsertedSums ==
    ASSUME NEW s \in Seq(Moves), NEW p \in 1..Len(s) + 1, NEW x \in Moves, NEW w
    PROVE  /\ InsertAt(s, p, x) \in Seq(Moves)
           /\ SumOver(DOMAIN InsertAt(s, p, x), [i \in DOMAIN InsertAt(s, p, x) |-> Gain(InsertAt(s, p, x)[i], w)])
                = Gain(x, w) + SumOver(DOMAIN s, [i \in DOMAIN s |-> Gain(s[i], w)])
<1> DEFINE n == Len(s)
           new == InsertAt(s, p, x)
           f == [i \in DOMAIN s |-> Gain(s[i], w)]
           g == [i \in DOMAIN new |-> Gain(new[i], w)]
           b == [i \in 1..n |-> IF i < p THEN i ELSE i + 1]
           others == (1..n + 1) \ {p}
<1>1. n \in Nat /\ DOMAIN s = 1..n /\ \A i \in 1..n : s[i] \in Moves
    OBVIOUS
<1>2. /\ new \in Seq(Moves) /\ Len(new) = n + 1 /\ DOMAIN new = 1..n + 1 /\ new[p] = x
      /\ \A i \in 1..n : new[b[i]] = s[i]
    BY Inserted DEF Put
<1> HIDE DEF new
<1>3. \A m \in Moves : Gain(m, w) \in Int
    BY DEF Gain, Moves
<1>4. /\ IsFiniteSet(1..n) /\ IsFiniteSet(others) /\ 1..n + 1 = others \cup {p} /\ p \notin others
    <2>1. IsFiniteSet(1..n) /\ IsFiniteSet(1..n + 1)
        BY <1>1, FS_Interval
    <2>2. others \subseteq 1..n + 1 /\ p \notin others /\ p \in 1..n + 1
        BY <1>1
    <2>3. IsFiniteSet(others)
        <3> HIDE DEF others
        <3> QED
            BY <2>1, <2>2, FS_Subset
    <2> QED
        BY <2>1, <2>2, <2>3
<1>5. \A i \in 1..n : f[i] \in Int
    BY <1>1, <1>3
<1>6. \A i \in 1..n + 1 : g[i] \in Int
    <2>1. \A i \in 1..n + 1 : new[i] \in Moves
        BY <1>1, <1>2
    <2> QED
        BY <1>2, <1>3, <2>1
<1>7. \A i \in 1..n : b[i] \in others /\ g[b[i]] = f[i]
    <2>1. \A i \in 1..n : b[i] \in others
        BY <1>1
    <2> QED
        BY <1>1, <1>2, <2>1
<1>8. \A y \in others : \E i \in 1..n : b[i] = y
    <2> TAKE y \in others
    <2>1. CASE y < p
        BY <1>1, <2>1
    <2>2. CASE y > p
        <3>1. y - 1 \in 1..n /\ ~(y - 1 < p) /\ (y - 1) + 1 = y
            BY <1>1, <2>2
        <3>2. b[y - 1] = y
            BY <3>1
        <3> QED
            BY <3>1, <3>2
    <2> QED
        BY <1>1, <2>1, <2>2
<1>9. \A i, j \in 1..n : b[i] = b[j] => i = j
    BY <1>1
<1> HIDE DEF b, f, g, others
<1>10. SumFunctionOnSet(f, 1..n) = SumFunctionOnSet(g, others)
    <2> DEFINE D == 1..n
    <2>1. /\ IsFiniteSet(D) /\ \A i \in D : f[i] \in Int
          /\ \A i \in D : b[i] \in others /\ g[b[i]] = f[i]
          /\ \A y \in others : \E i \in D : b[i] = y
          /\ \A i, j \in D : b[i] = b[j] => i = j
        BY <1>4, <1>5, <1>7, <1>8, <1>9
    <2> HIDE DEF D
    <2>2. SumFunctionOnSet(f, D) = SumFunctionOnSet(g, others)
        BY <2>1, SumRenamed
    <2> QED
        BY <2>2 DEF D
<1>11. SumFunctionOnSet(g, others \cup {p}) = g[p] + SumFunctionOnSet(g, others)
    BY <1>4, <1>6, SumAdd
<1>12. g[p] = Gain(x, w)
    BY <1>2 DEF g
<1>13. SumOver(DOMAIN new, g) = Gain(x, w) + SumOver(DOMAIN s, f)
    BY <1>1, <1>2, <1>4, <1>10, <1>11, <1>12 DEF SumOver
<1> QED
    BY <1>2, <1>13 DEF new, f, g

\* What the wallets hold is what they opened with and what the list brought them.
Balanced == \A w \in Wallets : balance[w] = opening[w] + SumOver(DOMAIN moves, Brought(w))

LEMMA StartsBalanced ==
    Init => TypeOK /\ Balanced
<1> SUFFICES ASSUME Init PROVE TypeOK /\ Balanced
    OBVIOUS
<1>1. moves \in Seq(Moves) /\ DOMAIN moves = {}
    BY DEF Init
<1>2. opening \in [Wallets -> Nat] /\ balance = opening /\ traceDepth \in 0..3
    BY ExitVerdictAssumption DEF Init
<1>3. \A w \in Wallets : SumOver(DOMAIN moves, Brought(w)) = 0
    <2> TAKE w \in Wallets
    <2> QED
        BY <1>1, SumInt, FS_EmptySet DEF SumOver
<1>4. \A w \in Wallets : balance[w] = opening[w] + 0
    BY <1>2
<1> QED
    BY <1>1, <1>2, <1>3, <1>4 DEF TypeOK, Balanced

\* Seconds are counted from zero.
LEMMA NowNat ==
    ASSUME TypeOK
    PROVE  Now \in Nat
<1>1. CASE moves = <<>>
    BY <1>1 DEF Now
<1>2. CASE moves # <<>>
    <2>1. moves \in Seq(Moves)
        BY DEF TypeOK
    <2>2. Len(moves) \in 1..Len(moves)
        BY <1>2, <2>1
    <2>3. moves[Len(moves)] \in Moves
        BY <2>1, <2>2
    <2> QED
        BY <1>2, <2>3 DEF Now, Moves
<1> QED
    BY <1>1, <1>2

\* One transaction that the chain lets happen.
LEMMA HappenBalances ==
    ASSUME TypeOK, Balanced, NEW kind, NEW from, NEW to, NEW amount \in Nat \ {0},
           \A t \in Nat : [at |-> t, kind |-> kind, from |-> from, to |-> to, amount |-> amount] \in Moves,
           from \in Wallets => balance[from] >= amount,
           from # to, Happen(kind, from, to, amount), Give(from, to, amount)
    PROVE  TypeOK' /\ Balanced'
<1> DEFINE X(t) == [at |-> t, kind |-> kind, from |-> from, to |-> to, amount |-> amount]
<1>1. Now \in Nat
    BY NowNat
<1>2. PICK t \in {Now, Now + 1} \ {0} : \E p \in Places(t) : moves' = InsertAt(moves, p, X(t))
    BY DEF Happen
<1>3. PICK p \in 1..Len(moves) + 1 : moves' = InsertAt(moves, p, X(t))
    BY <1>2 DEF Places
<1> DEFINE x == X(t)
<1>4. t \in Nat /\ x \in Moves /\ x.from = from /\ x.to = to /\ x.amount = amount
    BY <1>1, <1>2
<1>5. moves' = InsertAt(moves, p, x)
    BY <1>3
<1> HIDE DEF x
<1>6. UNCHANGED <<traceDepth, opening>>
    BY DEF Happen
<1>7. /\ moves' \in Seq(Moves)
      /\ \A w : SumOver(DOMAIN moves', Brought(w)') = Gain(x, w) + SumOver(DOMAIN moves, Brought(w))
    <2>1. moves \in Seq(Moves)
        BY DEF TypeOK
    <2>2. InsertAt(moves, p, x) \in Seq(Moves)
        BY <1>4, <2>1, InsertedSums
    <2>3. ASSUME NEW w
          PROVE  SumOver(DOMAIN moves', Brought(w)') = Gain(x, w) + SumOver(DOMAIN moves, Brought(w))
        <3> DEFINE new == InsertAt(moves, p, x)
        <3>1. SumOver(DOMAIN new, [i \in DOMAIN new |-> Gain(new[i], w)])
                  = Gain(x, w) + SumOver(DOMAIN moves, [i \in DOMAIN moves |-> Gain(moves[i], w)])
            BY <1>4, <2>1, InsertedSums
        <3>2. moves' = new
            BY <1>5
        <3> HIDE DEF new
        <3>3. Brought(w)' = [i \in DOMAIN new |-> Gain(new[i], w)]
            BY <3>2 DEF Brought
        <3> QED
            BY <3>1, <3>2, <3>3 DEF Brought
    <2> QED
        BY <1>5, <2>2, <2>3
<1>8. \A w : SumOver(DOMAIN moves, Brought(w)) \in Int
    <2> TAKE w
    <2>1. IsFiniteSet(DOMAIN moves)
        BY FS_Interval DEF TypeOK
    <2>2. \A i \in DOMAIN moves : Brought(w)[i] \in Int
        BY KindsOfMoves DEF Brought
    <2> QED
        BY <2>1, <2>2, SumInt DEF SumOver
<1>9. \A w \in Wallets : balance'[w] = balance[w] + Gain(x, w) /\ balance'[w] \in Nat
    <2> TAKE w \in Wallets
    <2>1. balance'[w] = balance[w] - (IF w = from THEN amount ELSE 0) + (IF w = to THEN amount ELSE 0)
        BY DEF Give
    <2>2. Gain(x, w) = (IF to = w THEN amount ELSE 0) - (IF from = w THEN amount ELSE 0)
        BY <1>4 DEF Gain
    <2>3. PICK c \in Nat : c = balance[w]
        BY DEF TypeOK
    <2>4. w = from => c >= amount
        BY <2>3
    <2> QED
        BY <2>1, <2>2, <2>3, <2>4
<1>10. balance' \in [Wallets -> Nat]
    <2>1. balance' = [w \in Wallets |-> balance'[w]]
        BY DEF Give
    <2> QED
        BY <1>9, <2>1
<1>11. \A w \in Wallets : balance'[w] = opening'[w] + SumOver(DOMAIN moves', Brought(w)')
    <2> TAKE w \in Wallets
    <2>1. PICK a \in Int : a = SumOver(DOMAIN moves, Brought(w))
        BY <1>8
    <2>2. PICK g \in Int : g = Gain(x, w)
        BY <1>4 DEF Gain
    <2>3. PICK o \in Nat : o = opening[w]
        BY DEF TypeOK
    <2>4. balance[w] = o + a
        BY <2>1, <2>3 DEF Balanced
    <2>5. balance'[w] = o + a + g
        BY <1>9, <2>2, <2>4
    <2>6. SumOver(DOMAIN moves', Brought(w)') = g + a
        BY <1>7, <2>1, <2>2
    <2>7. opening'[w] = o
        BY <1>6, <2>3
    <2>8. o + a + g = o + (g + a)
        OBVIOUS
    <2> QED
        BY <2>5, <2>6, <2>7, <2>8
<1> QED
    BY <1>6, <1>7, <1>10, <1>11 DEF TypeOK, Balanced

LEMMA StaysBalanced ==
    TypeOK /\ Balanced /\ [Next]_vars => TypeOK' /\ Balanced'
<1> SUFFICES ASSUME TypeOK, Balanced, [Next]_vars
             PROVE  TypeOK' /\ Balanced'
    OBVIOUS
<1>1. CASE UNCHANGED vars
    BY <1>1 DEF vars, TypeOK, Balanced, Brought
<1>2. CASE Next
    <2>1. PICK w \in Wallets, amount \in Amounts :
              \/ \E kind \in {"sell", "burn", "liquidity"} : Dispose(kind, w, amount)
              \/ \E kind \in {"buy", "gift"} : Acquire(kind, w, amount)
              \/ \E kind \in {"transfer", "unclear"}, v \in Wallets : Pass(kind, w, v, amount)
        BY <1>2 DEF Next
    <2>2. amount \in Nat \ {0} /\ w # Market /\ w \in Holders /\ Market \in Holders
        BY ExitVerdictAssumption DEF Holders
    <2>3. ASSUME NEW kind \in {"sell", "burn", "liquidity"}, Dispose(kind, w, amount)
          PROVE  TypeOK' /\ Balanced'
        <3>1. \A t \in Nat : [at |-> t, kind |-> kind, from |-> w, to |-> Market, amount |-> amount] \in Moves
            BY <2>2 DEF Moves, Proper, Kinds
        <3>2. balance[w] >= amount /\ Happen(kind, w, Market, amount) /\ Give(w, Market, amount)
            BY <2>3 DEF Dispose
        <3> QED
            BY <2>2, <3>1, <3>2, HappenBalances
    <2>4. ASSUME NEW kind \in {"buy", "gift"}, Acquire(kind, w, amount)
          PROVE  TypeOK' /\ Balanced'
        <3>1. \A t \in Nat : [at |-> t, kind |-> kind, from |-> Market, to |-> w, amount |-> amount] \in Moves
            BY <2>2 DEF Moves, Proper, Kinds
        <3>2. Happen(kind, Market, w, amount) /\ Give(Market, w, amount) /\ Market \notin Wallets
            BY <2>4, ExitVerdictAssumption DEF Acquire
        <3> QED
            BY <2>2, <3>1, <3>2, HappenBalances
    <2>5. ASSUME NEW kind \in {"transfer", "unclear"}, NEW v \in Wallets, Pass(kind, w, v, amount)
          PROVE  TypeOK' /\ Balanced'
        <3>1. w # v /\ balance[w] >= amount /\ Happen(kind, w, v, amount) /\ Give(w, v, amount)
            BY <2>5 DEF Pass
        <3>2. \A t \in Nat : [at |-> t, kind |-> kind, from |-> w, to |-> v, amount |-> amount] \in Moves
            BY <2>2, <3>1 DEF Moves, Proper, Kinds, Holders
        <3> QED
            BY <2>2, <3>1, <3>2, HappenBalances
    <2> QED
        BY <2>1, <2>3, <2>4, <2>5
<1> QED
    BY <1>1, <1>2
-----------------------------------------------------------------------------
LEMMA DeltasOfEvents ==
    ASSUME TypeOK, NEW strict, NEW ev, NEW lost, NEW won, Tells(ev, strict, lost, won), NEW j \in DOMAIN ev
    PROVE  ev[j].delta \in Int /\ -ev[j].delta \in Int
<1>1. PICK i \in DOMAIN moves : j = lost[i] \/ (Shows(i, strict) /\ j = won[i])
    BY DEF Tells
<1>2. ev[j] = Lost(i) \/ ev[j] = Won(i)
    BY <1>1 DEF Tells
<1>3. PICK a \in Nat : a = moves[i].amount
    BY <1>1, KindsOfMoves
<1>4. ev[j].delta = -a \/ ev[j].delta = a
    BY <1>2, <1>3, FieldsOfEvents
<1>5. -a \in Int /\ a \in Int /\ -(-a) \in Int
    BY <1>3
<1> QED
    BY <1>4, <1>5

\* Two sums over events that between them have, of each transaction, what it brings w.
LEMMA TwoSums ==
    ASSUME TypeOK, NEW strict, NEW ev, NEW lost, NEW won, Tells(ev, strict, lost, won), NEW w,
           NEW A \in SUBSET DOMAIN ev, NEW f, \A j \in A : f[j] \in Int,
           NEW B \in SUBSET DOMAIN ev, NEW g, \A j \in B : g[j] \in Int,
           \A i \in DOMAIN moves :
               Share(A, f, i, strict, lost, won) + Share(B, g, i, strict, lost, won) = Gain(moves[i], w)
    PROVE  SumOver(A, f) + SumOver(B, g) = SumOver(DOMAIN moves, Brought(w))
<1> DEFINE p == [i \in DOMAIN moves |-> Share(A, f, i, strict, lost, won)]
           q == [i \in DOMAIN moves |-> Share(B, g, i, strict, lost, won)]
           h == Brought(w)
<1>1. IsFiniteSet(DOMAIN moves)
    BY FS_Interval DEF TypeOK
<1>2. \A i \in DOMAIN moves : p[i] \in Int /\ q[i] \in Int
    <2> TAKE i \in DOMAIN moves
    <2>1. Share(A, f, i, strict, lost, won) \in Int
        BY DEF Share
    <2>2. Share(B, g, i, strict, lost, won) \in Int
        BY DEF Share
    <2> QED
        BY <2>1, <2>2
<1>3. \A i \in DOMAIN moves : h[i] = p[i] + q[i]
    BY DEF Brought
<1>4. \A i \in DOMAIN moves : /\ p[i] = Share(A, f, i, strict, lost, won)
                              /\ q[i] = Share(B, g, i, strict, lost, won)
    OBVIOUS
<1> HIDE DEF p, q, h
<1>5. SumOver(A, f) = SumOver(DOMAIN moves, p)
    BY <1>4, SumByMoves
<1>6. SumOver(B, g) = SumOver(DOMAIN moves, q)
    BY <1>4, SumByMoves
<1>7. SumFunctionOnSet(h, DOMAIN moves) = SumFunctionOnSet(p, DOMAIN moves) + SumFunctionOnSet(q, DOMAIN moves)
    BY <1>1, <1>2, <1>3, SumPlus
<1> QED
    BY <1>5, <1>6, <1>7 DEF SumOver, h

LEMMA NetIsBrought ==
    ASSUME TypeOK
    PROVE  NetDelta(Events) = SumOver(DOMAIN moves, Brought(Root))
<1>1. PICK lost, won : Tells(Normalized(TRUE), TRUE, lost, won)
    BY EventsTell
<1>2. PICK ev : ev = Normalized(TRUE)
    OBVIOUS
<1> DEFINE delta == [i \in DOMAIN ev |-> ev[i].delta]
           amount == [i \in DOMAIN ev |-> -ev[i].delta]
<1>3. Tells(ev, TRUE, lost, won) /\ Events = ev
    BY <1>1, <1>2 DEF Events
<1>4. \A j \in DOMAIN ev : delta[j] = ev[j].delta /\ amount[j] = -ev[j].delta
    OBVIOUS
<1>5. \A j \in DOMAIN ev : delta[j] \in Int /\ amount[j] \in Int
    BY <1>3, <1>4, DeltasOfEvents
<1>6. RootEvents(ev) \in SUBSET DOMAIN ev /\ Incoming(ev) \in SUBSET DOMAIN ev
    BY DEF RootEvents, Incoming
<1>7. NetDelta(ev) = SumOver(RootEvents(ev), delta) + SumOver(Incoming(ev), amount)
    BY DEF NetDelta
<1> HIDE DEF delta, amount
<1>8. \A i \in DOMAIN moves : Share(RootEvents(ev), delta, i, TRUE, lost, won)
          + Share(Incoming(ev), amount, i, TRUE, lost, won) = Gain(moves[i], Root)
    BY <1>3, <1>4, NetShare
<1>9. SumOver(RootEvents(ev), delta) + SumOver(Incoming(ev), amount) = SumOver(DOMAIN moves, Brought(Root))
    <2> DEFINE A == RootEvents(ev)
               B == Incoming(ev)
    <2>1. PICK strict : strict = TRUE
        OBVIOUS
    <2>2. Tells(ev, strict, lost, won) /\ A \in SUBSET DOMAIN ev /\ B \in SUBSET DOMAIN ev
        BY <1>3, <1>6, <2>1
    <2>3. \A i \in DOMAIN moves : Share(A, delta, i, strict, lost, won)
              + Share(B, amount, i, strict, lost, won) = Gain(moves[i], Root)
        BY <1>8, <2>1
    <2>4. \A j \in A : delta[j] \in Int
        BY <1>5, <1>6
    <2>5. \A j \in B : amount[j] \in Int
        BY <1>5, <1>6
    <2> HIDE DEF A, B
    <2>6. SumOver(A, delta) + SumOver(B, amount) = SumOver(DOMAIN moves, Brought(Root))
        BY <2>2, <2>3, <2>4, <2>5, TwoSums
    <2> QED
        BY <2>6 DEF A, B
<1> QED
    BY <1>3, <1>7, <1>9

\* The row of a transaction is what it brought the seller, once.
LEMMA RowIsBrought ==
    ASSUME TypeOK, NEW i \in DOMAIN moves
    PROVE  RowDelta(Events, i) = Gain(moves[i], Root)
<1>1. PICK lost, won : Tells(Normalized(TRUE), TRUE, lost, won)
    BY EventsTell
<1>2. PICK ev : ev = Normalized(TRUE)
    OBVIOUS
<1> DEFINE delta == [j \in DOMAIN ev |-> IF ev[j].wallet = Root THEN ev[j].delta ELSE -ev[j].delta]
           A == Evidence(ev, i)
           m == moves[i]
<1>3. Tells(ev, TRUE, lost, won) /\ Events = ev
    BY <1>1, <1>2 DEF Events
<1>4. A \in SUBSET DOMAIN ev /\ \A j \in A : ev[j].signature = i
    BY DEF Evidence, RootEvents
<1>5. \A j \in DOMAIN ev : delta[j] \in Int
    BY <1>3, DeltasOfEvents
<1>6. RowDelta(ev, i) = SumOver(A, delta)
    BY DEF RowDelta
<1>7. lost[i] \in DOMAIN ev /\ ev[lost[i]] = Lost(i)
    BY <1>3 DEF Tells
<1>8. Shows(i, TRUE) => won[i] \in DOMAIN ev /\ ev[won[i]] = Won(i)
    BY <1>3 DEF Tells
<1>9. \A j \in DOMAIN ev : ev[j].signature = i => j = lost[i] \/ (Shows(i, TRUE) /\ j = won[i])
    <2> TAKE j \in DOMAIN ev
    <2>1. PICK k \in DOMAIN moves : j = lost[k] \/ (Shows(k, TRUE) /\ j = won[k])
        BY <1>3 DEF Tells
    <2>2. ev[j] = Lost(k) \/ ev[j] = Won(k)
        BY <1>3, <2>1 DEF Tells
    <2>3. ev[j].signature = k
        BY <2>2, FieldsOfEvents
    <2> QED
        BY <2>1, <2>3
<1>10. Shows(i, TRUE) <=> m.kind \in {"buy", "sell", "liquidity", "unclear"}
    BY DEF Shows
<1>11. SumOver(A, delta) = Share(A, delta, i, TRUE, lost, won)
    <2>1. \A j \in A : delta[j] \in Int
        BY <1>4, <1>5
    <2>2. PICK strict : strict = TRUE
        OBVIOUS
    <2>3. Tells(ev, strict, lost, won)
        BY <1>3, <2>2
    <2> HIDE DEF A, delta
    <2>4. SumOver(A, delta) = Share(A, delta, i, strict, lost, won)
        BY <1>4, <2>1, <2>3, ShareSums
    <2> QED
        BY <2>2, <2>4
<1> DEFINE own == {j \in RootEvents(ev) : ev[j].signature = i}
           inbound == {j \in DOMAIN ev : /\ ev[j].signature = i /\ Concrete(ev[j])
                                         /\ ev[j].destination = Root}
<1>12. A = IF own # {} THEN own ELSE inbound
    BY DEF Evidence
<1>13. lost[i] \in own <=> m.from = Root
    BY <1>7, FieldsOfEvents DEF RootEvents
<1>14. Shows(i, TRUE) => (won[i] \in own <=> m.to = Root)
    BY <1>8, FieldsOfEvents DEF RootEvents
<1>15. \A j \in own : j = lost[i] \/ (Shows(i, TRUE) /\ j = won[i])
    BY <1>9 DEF RootEvents
<1>16. lost[i] \in inbound <=> m.kind \in {"buy", "gift", "transfer"} /\ m.to = Root
    <2>1. Concrete(Lost(i)) <=> m.kind \in {"buy", "gift", "transfer"}
        BY ConcreteMoves
    <2> QED
        BY <1>7, <2>1, FieldsOfEvents
<1>17. Shows(i, TRUE) => won[i] \notin inbound
    BY <1>8, ConcreteMoves
<1>18. PICK a \in Nat \ {0} : a = m.amount
    BY KindsOfMoves
<1>19. /\ m.to = Root => m.from # Root
       /\ m.kind \in {"buy", "gift", "transfer", "unclear"} \/ m.to # Root
       /\ m.kind \in {"gift", "transfer"} => ~Shows(i, TRUE)
       /\ m.kind \in {"buy", "unclear"} => Shows(i, TRUE)
    BY <1>10, KindsOfMoves
<1>20. /\ m.from = Root => delta[lost[i]] = -a
       /\ m.from # Root => delta[lost[i]] = a
       /\ Shows(i, TRUE) /\ m.to = Root => delta[won[i]] = a
    <2>1. Lost(i).delta = -a /\ Lost(i).wallet = m.from /\ Won(i).delta = a /\ Won(i).wallet = m.to
        BY <1>18, FieldsOfEvents
    <2>2. delta[lost[i]] = IF m.from = Root THEN -a ELSE -(-a)
        BY <1>7, <2>1
    <2>3. Shows(i, TRUE) /\ m.to = Root => delta[won[i]] = a
        BY <1>8, <2>1
    <2>4. -(-a) = a
        BY <1>18
    <2> QED
        BY <2>2, <2>3, <2>4
<1>21. Gain(m, Root) = (IF m.to = Root THEN a ELSE 0) - (IF m.from = Root THEN a ELSE 0)
    BY <1>18 DEF Gain
<1> DEFINE total == Share(A, delta, i, TRUE, lost, won)
<1> HIDE DEF A, delta, own, inbound, m, total
<1>22. total = Gain(m, Root)
    <2>1. CASE m.from = Root
        <3>1. lost[i] \in A /\ ~(Shows(i, TRUE) /\ won[i] \in A)
            BY <1>12, <1>13, <1>14, <1>19, <2>1
        <3>2. total = -a + 0 /\ Gain(m, Root) = 0 - a
            BY <1>19, <1>20, <1>21, <2>1, <3>1 DEF Share, total
        <3> QED
            BY <3>2
    <2>2. CASE m.to = Root /\ Shows(i, TRUE)
        <3>1. won[i] \in A /\ lost[i] \notin A
            BY <1>12, <1>13, <1>14, <1>19, <2>2
        <3>2. total = 0 + a /\ Gain(m, Root) = a - 0
            BY <1>19, <1>20, <1>21, <2>2, <3>1 DEF Share, total
        <3> QED
            BY <3>2
    <2>3. CASE m.to = Root /\ ~Shows(i, TRUE)
        <3>1. own = {} /\ A = inbound /\ lost[i] \in A
            BY <1>12, <1>13, <1>15, <1>16, <1>19, <2>3
        <3>2. total = a + 0 /\ Gain(m, Root) = a - 0
            BY <1>19, <1>20, <1>21, <2>3, <3>1 DEF Share, total
        <3> QED
            BY <3>2
    <2>4. CASE m.to # Root /\ m.from # Root
        <3>1. lost[i] \notin A /\ ~(Shows(i, TRUE) /\ won[i] \in A)
            BY <1>12, <1>13, <1>14, <1>16, <1>17, <2>4
        <3>2. total = 0 + 0 /\ Gain(m, Root) = 0 - 0
            BY <1>21, <2>4, <3>1 DEF Share, total
        <3> QED
            BY <3>2
    <2> QED
        BY <2>1, <2>2, <2>3, <2>4
<1> QED
    BY <1>3, <1>6, <1>11, <1>22 DEF m, total

\* The rows, run back from the balance, end at what the seller opened with.
LEMMA StartingIsOpening ==
    ASSUME TypeOK, Balanced
    PROVE  Starting(Events) = opening[Root]
<1>1. PICK ev : ev = Events
    OBVIOUS
<1> DEFINE delta == [s \in DOMAIN moves |-> RowDelta(ev, s)]
           silent == (DOMAIN moves) \ Timeline(ev)
           brought == Brought(Root)
<1>2. IsFiniteSet(DOMAIN moves)
    BY FS_Interval DEF TypeOK
<1>3. /\ Timeline(ev) \subseteq DOMAIN moves /\ DOMAIN moves = Timeline(ev) \cup silent
      /\ Timeline(ev) \cap silent = {} /\ silent \subseteq DOMAIN moves
    BY DEF Timeline
<1>4. IsFiniteSet(Timeline(ev)) /\ IsFiniteSet(silent)
    BY <1>2, <1>3, FS_Subset
<1>5. \A s \in DOMAIN moves : delta[s] = Gain(moves[s], Root) /\ brought[s] = delta[s] /\ delta[s] \in Int
    BY <1>1, RowIsBrought, KindsOfMoves DEF Brought
<1>6. \A s \in silent : delta[s] = 0
    <2> TAKE s \in silent
    <2>1. s \in DOMAIN moves /\ Evidence(ev, s) = {}
        BY <1>3 DEF Timeline
    <2>2. RowDelta(ev, s) = 0
        BY <2>1, FS_EmptySet, SumInt DEF RowDelta, SumOver
    <2> QED
        BY <2>1, <2>2
<1>7. Starting(ev) = balance[Root] - SumOver(Timeline(ev), delta)
    BY DEF Starting
<1> HIDE DEF delta, silent, brought
<1>8. SumFunctionOnSet(delta, Timeline(ev)) \in Int
    BY <1>3, <1>4, <1>5, SumInt
<1>9. SumFunctionOnSet(delta, silent) = 0
    BY <1>4, <1>6, SumZero
<1>10. SumFunctionOnSet(delta, DOMAIN moves)
           = SumFunctionOnSet(delta, Timeline(ev)) + SumFunctionOnSet(delta, silent)
    <2> DEFINE A == Timeline(ev)
    <2>1. /\ IsFiniteSet(A) /\ IsFiniteSet(silent) /\ A \cap silent = {} /\ DOMAIN moves = A \cup silent
          /\ \A s \in A \cup silent : delta[s] \in Int
        BY <1>3, <1>4, <1>5
    <2> HIDE DEF A
    <2>2. SumFunctionOnSet(delta, A \cup silent) = SumFunctionOnSet(delta, A) + SumFunctionOnSet(delta, silent)
        BY <2>1, SumUnion
    <2> QED
        BY <2>1, <2>2 DEF A
<1>11. SumFunctionOnSet(delta, DOMAIN moves) = SumFunctionOnSet(brought, DOMAIN moves)
    BY <1>2, <1>5, SumSame
<1>12. balance[Root] = opening[Root] + SumFunctionOnSet(brought, DOMAIN moves)
    BY ExitVerdictAssumption DEF Balanced, SumOver, brought
<1>13. PICK t \in Int : t = SumFunctionOnSet(delta, Timeline(ev))
    BY <1>8
<1>14. PICK o \in Nat : o = opening[Root]
    BY ExitVerdictAssumption DEF TypeOK
<1>15. SumFunctionOnSet(brought, DOMAIN moves) = t + 0
    BY <1>9, <1>10, <1>11, <1>13
<1>16. Starting(ev) = (o + (t + 0)) - t
    BY <1>7, <1>12, <1>13, <1>14, <1>15 DEF SumOver
<1>17. Starting(ev) = o
    BY <1>16
<1> QED
    BY <1>1, <1>14, <1>17

LEMMA ReconstructedIsOpening ==
    ASSUME TypeOK, Balanced
    PROVE  Reconstructed(Events) = opening[Root]
<1> DEFINE brought == SumOver(DOMAIN moves, Brought(Root))
<1>1. PICK t \in Int : t = brought
    <2>1. IsFiniteSet(DOMAIN moves)
        BY FS_Interval DEF TypeOK
    <2>2. \A i \in DOMAIN moves : Brought(Root)[i] \in Int
        BY KindsOfMoves DEF Brought
    <2> QED
        BY <2>1, <2>2, SumInt DEF SumOver
<1>2. PICK o \in Nat : o = opening[Root]
    BY ExitVerdictAssumption DEF TypeOK
<1>3. balance[Root] = o + t
    BY <1>1, <1>2, ExitVerdictAssumption DEF Balanced
<1>4. NetDelta(Events) = t
    BY <1>1, NetIsBrought
<1>5. Reconstructed(Events) = (o + t) - t
    BY <1>3, <1>4 DEF Reconstructed
<1> QED
    BY <1>2, <1>5

\* The scan sees what a wallet had that bought nothing and whose increases are proved.
LEMMA RankedIsOpening ==
    ASSUME TypeOK, Balanced, NEW w \in Wallets,
           ~\E i \in DOMAIN moves : moves[i].to = w /\ moves[i].kind \in {"buy", "unclear"}
    PROVE  RankedStart(Ranked, w) = opening[w]
<1>1. PICK lost, won : Tells(Normalized(FALSE), FALSE, lost, won)
    BY EventsTell
<1>2. PICK ev, strict : ev = Normalized(FALSE) /\ strict = FALSE
    OBVIOUS
<1> DEFINE delta == [i \in DOMAIN ev |-> ev[i].delta]
           amount == [i \in DOMAIN ev |-> -ev[i].delta]
           A == {j \in DOMAIN ev : ev[j].wallet = w}
           B == {j \in DOMAIN ev : Concrete(ev[j]) /\ ev[j].destination = w}
<1>3. Tells(ev, strict, lost, won) /\ Ranked = ev
    BY <1>1, <1>2 DEF Ranked
<1>4. \A j \in DOMAIN ev : delta[j] = ev[j].delta /\ amount[j] = -ev[j].delta
    OBVIOUS
<1>5. \A j \in DOMAIN ev : delta[j] \in Int /\ amount[j] \in Int
    BY <1>3, <1>4, DeltasOfEvents
<1>6. A \in SUBSET DOMAIN ev /\ B \in SUBSET DOMAIN ev
    OBVIOUS
<1>7. RankedNetDelta(ev, w) = SumOver(A, delta) + SumOver(B, amount)
    BY DEF RankedNetDelta
<1>8. ASSUME NEW i \in DOMAIN moves
      PROVE  Share(A, delta, i, strict, lost, won) + Share(B, amount, i, strict, lost, won) = Gain(moves[i], w)
    <2> DEFINE m == moves[i]
               own == Share(A, delta, i, strict, lost, won)
               sent == Share(B, amount, i, strict, lost, won)
    <2>1. lost[i] \in DOMAIN ev /\ ev[lost[i]] = Lost(i)
        BY <1>3 DEF Tells
    <2>2. Shows(i, strict) => won[i] \in DOMAIN ev /\ ev[won[i]] = Won(i)
        BY <1>3 DEF Tells
    <2>3. Shows(i, strict) <=> m.kind = "buy"
        BY <1>2 DEF Shows
    <2>4. m.to = w => ~Shows(i, strict) /\ m.kind \in {"gift", "transfer"} /\ m.from # w
        BY <2>3, KindsOfMoves
    <2>5. lost[i] \in A <=> m.from = w
        BY <2>1, FieldsOfEvents
    <2>6. ~(Shows(i, strict) /\ won[i] \in A)
        BY <2>2, <2>4, FieldsOfEvents
    <2>7. lost[i] \in B <=> m.to = w
        <3>1. Concrete(Lost(i)) <=> m.kind \in {"buy", "gift", "transfer"}
            BY ConcreteMoves
        <3>2. Lost(i).destination = m.to
            BY FieldsOfEvents
        <3> QED
            BY <2>1, <2>4, <3>1, <3>2
    <2>8. ~(Shows(i, strict) /\ won[i] \in B)
        BY <2>2, ConcreteMoves
    <2>9. PICK a \in Nat : a = m.amount
        BY KindsOfMoves
    <2>10. delta[lost[i]] = -a /\ amount[lost[i]] = a
        <3>1. Lost(i).delta = -a
            BY <2>9, FieldsOfEvents
        <3>2. delta[lost[i]] = -a /\ amount[lost[i]] = -(-a) /\ -(-a) = a
            BY <2>1, <2>9, <3>1
        <3> QED
            BY <3>2
    <2>11. Gain(moves[i], w) = (IF m.to = w THEN a ELSE 0) - (IF m.from = w THEN a ELSE 0)
        BY <2>9 DEF Gain
    <2> HIDE DEF A, B, delta, amount, m
    <2>12. own = (IF m.from = w THEN -a ELSE 0) + 0
        BY <2>5, <2>6, <2>10 DEF Share
    <2>13. sent = (IF m.to = w THEN a ELSE 0) + 0
        BY <2>7, <2>8, <2>10 DEF Share
    <2> HIDE DEF own, sent
    <2>14. own + sent = Gain(moves[i], w)
        <3>1. CASE m.from = w
            <4>1. own = -a + 0 /\ sent = 0 + 0 /\ Gain(moves[i], w) = 0 - a
                BY <2>4, <2>11, <2>12, <2>13, <3>1
            <4> QED
                BY <4>1
        <3>2. CASE m.to = w /\ m.from # w
            <4>1. own = 0 + 0 /\ sent = a + 0 /\ Gain(moves[i], w) = a - 0
                BY <2>11, <2>12, <2>13, <3>2
            <4> QED
                BY <4>1
        <3>3. CASE m.to # w /\ m.from # w
            <4>1. own = 0 + 0 /\ sent = 0 + 0 /\ Gain(moves[i], w) = 0 - 0
                BY <2>11, <2>12, <2>13, <3>3
            <4> QED
                BY <4>1
        <3> QED
            BY <3>1, <3>2, <3>3
    <2> QED
        BY <2>14 DEF own, sent
<1>9. \A j \in A : delta[j] \in Int
    BY <1>5, <1>6
<1>10. \A j \in B : amount[j] \in Int
    BY <1>5, <1>6
<1>11. \A i \in DOMAIN moves : Share(A, delta, i, strict, lost, won)
                                   + Share(B, amount, i, strict, lost, won) = Gain(moves[i], w)
    BY <1>8
<1> HIDE DEF A, B, delta, amount
<1>12. SumOver(A, delta) + SumOver(B, amount) = SumOver(DOMAIN moves, Brought(w))
    BY <1>3, <1>6, <1>9, <1>10, <1>11, TwoSums
<1>13. PICK t \in Int : t = SumOver(DOMAIN moves, Brought(w))
    <2>1. IsFiniteSet(DOMAIN moves)
        BY FS_Interval DEF TypeOK
    <2>2. \A i \in DOMAIN moves : Brought(w)[i] \in Int
        BY KindsOfMoves DEF Brought
    <2> QED
        BY <2>1, <2>2, SumInt DEF SumOver
<1>14. PICK o \in Nat : o = opening[w]
    BY DEF TypeOK
<1>15. balance[w] = o + t
    BY <1>13, <1>14 DEF Balanced
<1>16. RankedStart(Ranked, w) = (o + t) - t
    BY <1>3, <1>7, <1>12, <1>13, <1>15 DEF RankedStart
<1> QED
    BY <1>14, <1>16

\* The inventory verify-exit, the wallet report and the scan compute for the opening
\* of the window is the one the chain had then.
THEOREM StartExactHolds == Spec => []StartExact
<1>1. ASSUME TypeOK, Balanced
      PROVE  StartExact
    <2>1. Reconstructed(Events) = opening[Root] /\ Starting(Events) = opening[Root]
        BY <1>1, ReconstructedIsOpening, StartingIsOpening
    <2>2. \A w \in Sellers(Ranked) :
              (~\E i \in DOMAIN moves : moves[i].to = w /\ moves[i].kind \in {"buy", "unclear"})
                  => RankedStart(Ranked, w) = opening[w]
        BY <1>1, RankedIsOpening DEF Sellers
    <2> QED
        BY <2>1, <2>2 DEF StartExact
<1> QED
    BY <1>1, StartsBalanced, StaysBalanced, PTL DEF Spec
-----------------------------------------------------------------------------
\* Failed reads and a history that is not complete only weaken the verdicts of
\* verify-exit and of the wallet report.
THEOREM FailuresWeakenHolds == Spec => []FailuresWeaken
<1>1. FailuresWeaken
    <2> DEFINE ev == Events
               found == Discovered(ev)
               t == Trace(ev)
               Holding(read) == \E w \in (Traced(t) \cup {Root}) \cap read : balance[w] > 0
    <2>1. ASSUME NEW read, NEW complete \in BOOLEAN
          PROVE  /\ Status(ev, t, read, complete) = "NOT_OUT" => Holding(read)
                 /\ Holding(read) => Status(ev, t, read, complete) = "NOT_OUT"
                 /\ Status(ev, t, read, complete) = "VERIFIED_OUT" =>
                        complete /\ Traced(t) \cup {Root} \subseteq read
        <3> HIDE DEF ev, t
        <3>1. CASE Holding(read)
            BY <3>1 DEF Status
        <3>2. CASE ~Holding(read) /\ ~(complete /\ Traced(t) \cup {Root} \subseteq read)
            <4>1. Status(ev, t, read, complete) = "INSUFFICIENT_DATA"
                BY <3>2 DEF Status
            <4> QED
                BY <3>2, <4>1
        <3>3. CASE ~Holding(read) /\ complete /\ Traced(t) \cup {Root} \subseteq read
            <4>1. Status(ev, t, read, complete) \in {"INSUFFICIENT_DATA", "UNRESOLVED", "VERIFIED_OUT"}
                BY <3>3 DEF Status
            <4> QED
                BY <3>3, <4>1
        <3> QED
            BY <3>1, <3>2, <3>3
    <2>2. ASSUME NEW failed \in SUBSET found, NEW complete \in BOOLEAN
          PROVE  /\ Status(ev, t, found \ failed, complete) = "VERIFIED_OUT" =>
                        complete /\ failed \cap (Traced(t) \cup {Root}) = {}
                 /\ Status(ev, t, found \ failed, complete) = "NOT_OUT" =>
                        Status(ev, t, found, TRUE) = "NOT_OUT"
        <3> HIDE DEF ev, t, found
        <3>1. Status(ev, t, found \ failed, complete) = "VERIFIED_OUT" =>
                  complete /\ Traced(t) \cup {Root} \subseteq found \ failed
            BY <2>1
        <3>2. Holding(found \ failed) => Holding(found)
            OBVIOUS
        <3> QED
            BY <2>1, <3>1, <3>2
    <2>3. ASSUME NEW read, NEW complete \in BOOLEAN, Lifecycle(ev, read, 0, complete).current = "VERIFIED_OUT"
          PROVE  complete /\ Root \in read
        <3> HIDE DEF ev
        <3>1. Root \in read /\ Current(ev, 0, complete) = "VERIFIED_OUT"
            BY <2>3 DEF Lifecycle
        <3>2. Historical(ev, 0, complete) = "VERIFIED_OUT"
            BY <3>1 DEF Current
        <3>3. complete
            BY <3>2 DEF Historical
        <3> QED
            BY <3>1, <3>3
    <2> HIDE DEF ev, t, found
    <2> QED
        BY <2>2, <2>3 DEF FailuresWeaken, ev, t, found
<1> QED
    BY <1>1, PTL
-----------------------------------------------------------------------------
\* A sum of counts is a count, and none of its terms exceeds it.
LEMMA SumNat ==
    ASSUME NEW A, IsFiniteSet(A), NEW f, \A x \in A : f[x] \in Nat
    PROVE  SumFunctionOnSet(f, A) \in Nat /\ \A x \in A : f[x] <= SumFunctionOnSet(f, A)
<1> DEFINE Sum(D) == SumFunctionOnSet(f, D)
           T == {D \in SUBSET A : Sum(D) \in Nat}
<1>1. {} \in T
    BY SumInt, FS_EmptySet
<1>2. ASSUME NEW D \in T, NEW x \in A \ D
      PROVE  D \cup {x} \in T
    <2>1. D \in SUBSET A /\ Sum(D) \in Nat /\ D \cup {x} \in SUBSET A /\ IsFiniteSet(D)
        BY FS_Subset
    <2>2. Sum(D \cup {x}) = f[x] + Sum(D)
        <3>1. x \notin D /\ \A y \in D \cup {x} : f[y] \in Int
            BY <2>1
        <3> QED
            BY <2>1, <3>1, SumAdd
    <2>3. f[x] + Sum(D) \in Nat
        BY <2>1
    <2> QED
        BY <2>1, <2>2, <2>3
<1>3. A \in T
    <2> HIDE DEF T
    <2>1. T \in SUBSET SUBSET A
        BY DEF T
    <2> QED
        BY <1>1, <1>2, <2>1, GrowFinite
<1>4. ASSUME NEW x \in A
      PROVE  f[x] <= Sum(A)
    <2> DEFINE D == A \ {x}
    <2>1. A = D \cup {x} /\ x \notin D /\ IsFiniteSet(D) /\ \A y \in D : f[y] \in Nat
        BY FS_Subset
    <2> HIDE DEF D
    <2>2. Sum(D \cup {x}) = f[x] + Sum(D)
        BY <2>1, SumAdd
    <2>3. Sum(D) \in Nat
        <3> DEFINE R == {E \in SUBSET D : Sum(E) \in Nat}
        <3>1. {} \in R
            BY SumInt, FS_EmptySet
        <3>2. ASSUME NEW E \in R, NEW y \in D \ E
              PROVE  E \cup {y} \in R
            <4>1. E \in SUBSET D /\ Sum(E) \in Nat /\ E \cup {y} \in SUBSET D /\ IsFiniteSet(E)
                BY <2>1, FS_Subset
            <4>2. Sum(E \cup {y}) = f[y] + Sum(E)
                <5>1. y \notin E /\ \A z \in E \cup {y} : f[z] \in Int
                    BY <2>1, <4>1
                <5> QED
                    BY <4>1, <5>1, SumAdd
            <4>3. f[y] + Sum(E) \in Nat
                BY <2>1, <4>1
            <4> QED
                BY <4>1, <4>2, <4>3
        <3>3. D \in R
            <4> HIDE DEF R
            <4>1. R \in SUBSET SUBSET D
                BY DEF R
            <4> QED
                BY <2>1, <3>1, <3>2, <4>1, GrowFinite
        <3> QED
            BY <3>3
    <2>4. PICK a \in Nat, b \in Nat : a = f[x] /\ b = Sum(D)
        BY <2>3
    <2>5. Sum(A) = a + b
        BY <2>1, <2>2, <2>4
    <2> QED
        BY <2>4, <2>5
<1> QED
    BY <1>3, <1>4

\* A sum in which one term changes.
LEMMA SumChanged ==
    ASSUME NEW A, IsFiniteSet(A), NEW x \in A, NEW d \in Int,
           NEW f, \A y \in A : f[y] \in Int,
           NEW g, \A y \in A \ {x} : g[y] = f[y], g[x] = f[x] + d
    PROVE  SumFunctionOnSet(g, A) = SumFunctionOnSet(f, A) + d
<1> DEFINE D == A \ {x}
<1>1. A = D \cup {x} /\ x \notin D /\ IsFiniteSet(D) /\ \A y \in D : f[y] \in Int /\ g[y] = f[y]
    BY FS_Subset
<1>2. \A y \in D \cup {x} : f[y] \in Int /\ g[y] \in Int
    BY <1>1
<1> HIDE DEF D
<1>3. SumFunctionOnSet(f, D \cup {x}) = f[x] + SumFunctionOnSet(f, D)
    BY <1>1, <1>2, SumAdd
<1>4. SumFunctionOnSet(g, D \cup {x}) = g[x] + SumFunctionOnSet(g, D)
    BY <1>1, <1>2, SumAdd
<1>5. SumFunctionOnSet(f, D) = SumFunctionOnSet(g, D)
    BY <1>1, SumSame
<1>6. SumFunctionOnSet(f, D) \in Int
    BY <1>1, SumInt
<1>7. PICK a \in Int, b \in Int : a = f[x] /\ b = SumFunctionOnSet(f, D)
    BY <1>6
<1>8. SumFunctionOnSet(f, A) = a + b /\ SumFunctionOnSet(g, A) = (a + d) + b
    BY <1>1, <1>3, <1>4, <1>5, <1>7
<1> QED
    BY <1>7, <1>8
-----------------------------------------------------------------------------
(***************************************************************************)
(* The lots of the seller                                                  *)
(***************************************************************************)
Lot == [left : Nat, depth : Nat]

Traces == [lots : [Wallets -> Seq(Lot)], depth : [Wallets -> Nat], since : [Wallets -> Nat],
           sold : Nat, burned : Nat,
           spread : SUBSET [signature : Nat, to : Wallets, amount : Nat, lot : Wallets \X Nat],
           unresolved : BOOLEAN]

\* Inventory of the seller in the lots of all wallets, and with what became of the rest.
LeftInLots(t) == SumOver(Wallets, [w \in Wallets |-> Remaining(t, w)])

Weight(t) == LeftInLots(t) + t.sold + t.burned

\* Only a wallet that was traced has lots.
Rooted(t) == \A w \in Wallets : t.depth[w] = 0 => t.lots[w] = <<>>

\* What was traced or left open stays so.
Follows(t, u) ==
    /\ t.unresolved => u.unresolved
    /\ \A w \in Wallets : t.depth[w] > 0 => u.depth[w] > 0

\* The lots of one wallet have k more left.
Grew(t, u, w, k) ==
    \A v \in Wallets : Remaining(u, v) = Remaining(t, v) + (IF v = w THEN k ELSE 0)

\* What a list of lots is made of.
LEMMA LotsAre ==
    ASSUME NEW lots \in Seq(Lot)
    PROVE  /\ Len(lots) \in Nat /\ DOMAIN lots = 1..Len(lots) /\ IsFiniteSet(DOMAIN lots)
           /\ \A j \in DOMAIN lots : /\ lots[j] = [left |-> lots[j].left, depth |-> lots[j].depth]
                                    /\ lots[j] \in Lot
                                    /\ lots[j].left \in Nat /\ lots[j].depth \in Nat
<1>1. Len(lots) \in Nat /\ DOMAIN lots = 1..Len(lots)
    OBVIOUS
<1>2. \A j \in DOMAIN lots : lots[j] \in Lot
    OBVIOUS
<1>3. IsFiniteSet(1..Len(lots))
    BY <1>1, FS_Interval
<1>4. \A x \in Lot : x = [left |-> x.left, depth |-> x.depth] /\ x.left \in Nat /\ x.depth \in Nat
    BY DEF Lot
<1> QED
    BY <1>1, <1>2, <1>3, <1>4

\* What a wallet has left of its lots is a count, no lot has more, and no lots have none.
LEMMA RemainingNat ==
    ASSUME NEW t \in Traces, NEW w \in Wallets
    PROVE  /\ Remaining(t, w) \in Nat
           /\ \A j \in DOMAIN t.lots[w] : t.lots[w][j].left <= Remaining(t, w)
           /\ t.lots[w] = <<>> => Remaining(t, w) = 0
<1> DEFINE lots == t.lots[w]
           left == [j \in DOMAIN lots |-> lots[j].left]
<1>1. lots \in Seq(Lot)
    BY DEF Traces
<1>2. IsFiniteSet(DOMAIN lots)
    BY <1>1, LotsAre
<1>3. \A j \in DOMAIN lots : left[j] = lots[j].left /\ left[j] \in Nat
    BY <1>1, LotsAre
<1>4. Remaining(t, w) = SumFunctionOnSet(left, DOMAIN lots)
    BY DEF Remaining, SumOver
<1> HIDE DEF lots, left
<1>5. /\ SumFunctionOnSet(left, DOMAIN lots) \in Nat
      /\ \A j \in DOMAIN lots : left[j] <= SumFunctionOnSet(left, DOMAIN lots)
    BY <1>2, <1>3, SumNat
<1>6. lots = <<>> => SumFunctionOnSet(left, DOMAIN lots) = 0
    <2> SUFFICES ASSUME lots = <<>> PROVE SumFunctionOnSet(left, DOMAIN lots) = 0
        OBVIOUS
    <2>1. DOMAIN lots = {}
        OBVIOUS
    <2> QED
        BY <2>1, SumInt, FS_EmptySet
<1>7. \A j \in DOMAIN lots : lots[j].left <= Remaining(t, w)
    BY <1>3, <1>4, <1>5
<1> QED
    BY <1>4, <1>5, <1>6, <1>7 DEF lots

\* The lots of one wallet change.
LEMMA LeftChanges ==
    ASSUME NEW t \in Traces, NEW u \in Traces, NEW w \in Wallets, NEW d \in Int,
           \A v \in Wallets \ {w} : u.lots[v] = t.lots[v],
           Remaining(u, w) = Remaining(t, w) + d
    PROVE  LeftInLots(u) = LeftInLots(t) + d /\ LeftInLots(t) \in Nat
<1> DEFINE f == [v \in Wallets |-> Remaining(t, v)]
           g == [v \in Wallets |-> Remaining(u, v)]
<1>1. \A v \in Wallets : f[v] \in Nat
    BY RemainingNat
<1>2. \A v \in Wallets \ {w} : g[v] = f[v]
    BY DEF Remaining
<1>3. g[w] = f[w] + d
    OBVIOUS
<1>4. IsFiniteSet(Wallets)
    BY ExitVerdictAssumption
<1> HIDE DEF f, g
<1>5. SumFunctionOnSet(g, Wallets) = SumFunctionOnSet(f, Wallets) + d
    <2>1. \A v \in Wallets : f[v] \in Int
        BY <1>1
    <2> QED
        BY <1>2, <1>3, <1>4, <2>1, SumChanged
<1>6. SumFunctionOnSet(f, Wallets) \in Nat
    BY <1>1, <1>4, SumNat
<1> QED
    BY <1>5, <1>6 DEF LeftInLots, SumOver, f, g

\* A lot is added.
LEMMA AddLotFacts ==
    ASSUME NEW t \in Traces, NEW w \in Wallets, NEW a \in Nat, NEW d \in Nat \ {0},
           NEW e, e.signature \in Nat, e.at \in Nat
    PROVE  /\ AddLot(t, w, a, d, e) \in Traces
           /\ Weight(AddLot(t, w, a, d, e)) = Weight(t) + a
           /\ Follows(t, AddLot(t, w, a, d, e))
           /\ AddLot(t, w, a, d, e).depth[w] > 0
           /\ AddLot(t, w, a, d, e).unresolved = t.unresolved
           /\ Rooted(t) => Rooted(AddLot(t, w, a, d, e))
           /\ Grew(t, AddLot(t, w, a, d, e), w, a)
<1> DEFINE u == AddLot(t, w, a, d, e)
           x == [left |-> a, depth |-> d]
           s == t.lots[w]
<1>1. /\ u.lots = [t.lots EXCEPT ![w] = Append(@, x)]
      /\ u.depth = [t.depth EXCEPT ![w] = IF @ = 0 \/ d < @ THEN d ELSE @]
      /\ u.since = [t.since EXCEPT ![w] = IF t.depth[w] = 0 \/ d < t.depth[w] THEN e.at ELSE @]
      /\ u.sold = t.sold /\ u.burned = t.burned /\ u.unresolved = t.unresolved
      /\ u.spread = t.spread \cup {[signature |-> e.signature, to |-> w, amount |-> a,
                                    lot |-> <<w, Len(t.lots[w]) + 1>>]}
      /\ u = [lots |-> u.lots, depth |-> u.depth, since |-> u.since, sold |-> u.sold,
              burned |-> u.burned, spread |-> u.spread, unresolved |-> u.unresolved]
    <2>1. t = [lots |-> t.lots, depth |-> t.depth, since |-> t.since, sold |-> t.sold,
               burned |-> t.burned, spread |-> t.spread, unresolved |-> t.unresolved]
        BY DEF Traces
    <2> DEFINE L == [t.lots EXCEPT ![w] = Append(@, x)]
               D == [t.depth EXCEPT ![w] = IF @ = 0 \/ d < @ THEN d ELSE @]
               S == [t.since EXCEPT ![w] = IF t.depth[w] = 0 \/ d < t.depth[w] THEN e.at ELSE @]
               P == t.spread \cup {[signature |-> e.signature, to |-> w, amount |-> a,
                                    lot |-> <<w, Len(t.lots[w]) + 1>>]}
    <2>2. u = [t EXCEPT !.lots = L, !.spread = P, !.depth = D, !.since = S]
        BY DEF AddLot
    <2>3. /\ u.lots = L /\ u.depth = D /\ u.since = S /\ u.sold = t.sold
          /\ u.burned = t.burned /\ u.unresolved = t.unresolved /\ u.spread = P
          /\ u = [lots |-> u.lots, depth |-> u.depth, since |-> u.since, sold |-> u.sold,
                  burned |-> u.burned, spread |-> u.spread, unresolved |-> u.unresolved]
        <3> HIDE DEF u, L, D, S, P
        <3> QED
            BY <2>1, <2>2
    <2> QED
        BY <2>3
<1>2. /\ t.lots \in [Wallets -> Seq(Lot)] /\ t.depth \in [Wallets -> Nat]
      /\ t.since \in [Wallets -> Nat] /\ t.sold \in Nat /\ t.burned \in Nat /\ t.unresolved \in BOOLEAN
      /\ t.spread \in SUBSET [signature : Nat, to : Wallets, amount : Nat, lot : Wallets \X Nat]
    BY DEF Traces
<1>3. x \in Lot /\ s \in Seq(Lot)
    BY <1>2 DEF Lot
<1> HIDE DEF u, x
<1>4. u \in Traces
    <2>1. u.lots \in [Wallets -> Seq(Lot)]
        BY <1>1, <1>2, <1>3
    <2>2. u.depth \in [Wallets -> Nat] /\ u.since \in [Wallets -> Nat]
        BY <1>1, <1>2
    <2>3. u.spread \in SUBSET [signature : Nat, to : Wallets, amount : Nat, lot : Wallets \X Nat]
        BY <1>1, <1>2, <1>3
    <2> QED
        BY <1>1, <1>2, <2>1, <2>2, <2>3 DEF Traces
<1>5. u.lots[w] = Append(s, x) /\ \A v \in Wallets \ {w} : u.lots[v] = t.lots[v]
    BY <1>1, <1>2
<1>6. Remaining(u, w) = Remaining(t, w) + a
    <2> DEFINE f == [j \in DOMAIN s |-> s[j].left]
               q == Append(s, x)
               g == [j \in DOMAIN q |-> q[j].left]
               n == Len(s) + 1
    <2>1. /\ DOMAIN s = 1..Len(s) /\ Len(s) \in Nat /\ DOMAIN q = 1..Len(s) + 1 /\ q[n] = x
          /\ \A j \in 1..Len(s) : q[j] = s[j]
        BY <1>3
    <2>2. DOMAIN q = (DOMAIN s) \cup {n} /\ n \notin DOMAIN s /\ IsFiniteSet(DOMAIN s)
        <3>1. IsFiniteSet(DOMAIN s)
            BY <1>3, LotsAre
        <3> HIDE DEF s, q
        <3> QED
            BY <2>1, <3>1
    <2>3. \A j \in DOMAIN s : f[j] \in Int /\ g[j] = f[j]
        <3>1. \A j \in DOMAIN s : s[j].left \in Nat
            BY <1>3, LotsAre
        <3> QED
            BY <2>1, <2>2, <3>1
    <2>4. g[n] = a
        BY <2>1, <2>2 DEF x
    <2>5. Remaining(t, w) = SumFunctionOnSet(f, DOMAIN s)
        BY DEF Remaining, SumOver
    <2>6. Remaining(u, w) = SumFunctionOnSet(g, DOMAIN q)
        BY <1>5 DEF Remaining, SumOver
    <2> HIDE DEF f, g, q, n
    <2>7. SumFunctionOnSet(g, (DOMAIN s) \cup {n}) = g[n] + SumFunctionOnSet(g, DOMAIN s)
        <3>1. \A j \in (DOMAIN s) \cup {n} : g[j] \in Int
            BY <2>3, <2>4
        <3> QED
            BY <2>2, <3>1, SumAdd
    <2>8. SumFunctionOnSet(f, DOMAIN s) = SumFunctionOnSet(g, DOMAIN s)
        BY <2>2, <2>3, SumSame
    <2>9. PICK r \in Nat : r = Remaining(t, w)
        BY RemainingNat
    <2>10. Remaining(u, w) = a + r
        BY <2>2, <2>4, <2>5, <2>6, <2>7, <2>8, <2>9
    <2> QED
        BY <2>9, <2>10
<1>7. LeftInLots(u) = LeftInLots(t) + a /\ LeftInLots(t) \in Nat
    BY <1>4, <1>5, <1>6, LeftChanges
<1>8. Weight(u) = Weight(t) + a
    <2>1. PICK l \in Nat, p \in Nat, b \in Nat : l = LeftInLots(t) /\ p = t.sold /\ b = t.burned
        BY <1>2, <1>7
    <2>2. Weight(u) = (l + a) + p + b /\ Weight(t) = l + p + b
        BY <1>1, <1>7, <2>1 DEF Weight
    <2> QED
        BY <2>1, <2>2
<1>9. /\ u.depth[w] > 0
      /\ \A v \in Wallets \ {w} : u.depth[v] = t.depth[v]
    <2>1. u.depth[w] = IF t.depth[w] = 0 \/ d < t.depth[w] THEN d ELSE t.depth[w]
        BY <1>1, <1>2
    <2>2. PICK k \in Nat : k = t.depth[w]
        BY <1>2
    <2>3. u.depth[w] > 0
        BY <2>1, <2>2
    <2> QED
        BY <1>1, <1>2, <2>3
<1>10. Follows(t, u)
    BY <1>1, <1>9 DEF Follows
<1>11. Rooted(t) => Rooted(u)
    <2> SUFFICES ASSUME Rooted(t), NEW v \in Wallets, u.depth[v] = 0
                 PROVE  u.lots[v] = <<>>
        BY DEF Rooted
    <2>1. v # w
        BY <1>9
    <2> QED
        BY <1>5, <1>9, <2>1 DEF Rooted
<1>12. Grew(t, u, w, a)
    <2>1. ASSUME NEW v \in Wallets, v # w
          PROVE  Remaining(u, v) = Remaining(t, v) + 0
        <3>1. u.lots[v] = t.lots[v]
            BY <1>5, <2>1
        <3> HIDE DEF u, s
        <3>2. Remaining(u, v) = Remaining(t, v)
            BY <3>1 DEF Remaining
        <3>3. PICK r \in Nat : r = Remaining(t, v)
            BY RemainingNat
        <3> QED
            BY <3>2, <3>3
    <2> QED
        BY <1>6, <2>1 DEF Grew
<1> QED
    BY <1>1, <1>4, <1>8, <1>9, <1>10, <1>11, <1>12 DEF u

\* So is what all wallets have left, and no wallet has more.
LEMMA LeftNat ==
    ASSUME NEW t \in Traces
    PROVE  /\ LeftInLots(t) \in Nat
           /\ \A w \in Wallets : Remaining(t, w) <= LeftInLots(t)
<1> DEFINE f == [v \in Wallets |-> Remaining(t, v)]
<1>1. \A v \in Wallets : f[v] \in Nat /\ f[v] = Remaining(t, v)
    BY RemainingNat
<1>2. IsFiniteSet(Wallets)
    BY ExitVerdictAssumption
<1>3. LeftInLots(t) = SumFunctionOnSet(f, Wallets)
    BY DEF LeftInLots, SumOver
<1> HIDE DEF f
<1> QED
    BY <1>1, <1>2, <1>3, SumNat

\* So are what a trace accounts for and its parts.
LEMMA WeightNat ==
    ASSUME NEW t \in Traces
    PROVE  LeftInLots(t) \in Nat /\ t.sold \in Nat /\ t.burned \in Nat /\ Weight(t) \in Nat
<1>1. LeftInLots(t) \in Nat
    BY LeftNat
<1>2. t.sold \in Nat /\ t.burned \in Nat
    BY DEF Traces
<1> QED
    BY <1>1, <1>2 DEF Weight

\* What the lots of a wallet give.
Gives(lots, uses) ==
    uses \in [DOMAIN lots -> Nat] /\ \A j \in DOMAIN lots : uses[j] <= lots[j].left

\* Oldest first, no lot gives more than it has left.
LEMMA UsesFacts ==
    ASSUME NEW lots \in Seq(Lot), NEW amount \in Nat
    PROVE  Gives(lots, Uses(lots, amount))
<1> DEFINE left == [k \in DOMAIN lots |-> lots[k].left]
           uses == Uses(lots, amount)
           rest(j) == amount - SumOver(1..j - 1, left)
<1>1. \A j \in DOMAIN lots : left[j] = lots[j].left /\ left[j] \in Nat
    BY LotsAre
<1>2. DOMAIN lots = 1..Len(lots) /\ Len(lots) \in Nat
    OBVIOUS
<1>3. /\ uses = [j \in DOMAIN lots |-> Lesser(lots[j].left, IF rest(j) > 0 THEN rest(j) ELSE 0)]
      /\ \A j \in DOMAIN lots : uses[j] = Lesser(lots[j].left, IF rest(j) > 0 THEN rest(j) ELSE 0)
    BY DEF Uses
<1> HIDE DEF left, uses
<1>4. ASSUME NEW j \in DOMAIN lots
      PROVE  uses[j] \in Nat /\ uses[j] <= lots[j].left
    <2>1. IsFiniteSet(1..j - 1) /\ \A k \in 1..j - 1 : left[k] \in Int
        <3>1. j \in Nat /\ j - 1 \in Int /\ \A k \in 1..j - 1 : k \in DOMAIN lots
            BY <1>2
        <3>2. IsFiniteSet(1..j - 1)
            BY <3>1, FS_Interval
        <3> QED
            BY <1>1, <3>1, <3>2
    <2>2. PICK s \in Int : s = SumOver(1..j - 1, left)
        <3> DEFINE D == 1..j - 1
        <3> HIDE DEF D
        <3>1. SumFunctionOnSet(left, D) \in Int
            BY <2>1, SumInt DEF D
        <3> QED
            BY <3>1 DEF D, SumOver
    <2>3. PICK l \in Nat, a \in Nat : l = lots[j].left /\ a = amount
        BY <1>1
    <2>4. uses[j] = Lesser(l, IF a - s > 0 THEN a - s ELSE 0)
        BY <1>3, <2>2, <2>3
    <2>5. (IF a - s > 0 THEN a - s ELSE 0) \in Nat
        BY <2>2, <2>3
    <2>6. uses[j] \in Nat /\ uses[j] <= l
        BY <2>4, <2>5 DEF Lesser
    <2> QED
        BY <2>3, <2>6
<1>5. uses \in [DOMAIN lots -> Nat]
    BY <1>3, <1>4
<1> QED
    BY <1>4, <1>5 DEF Gives, uses

\* What is left of the lots when they have given it.
Kept(t, w, uses) ==
    [t EXCEPT !.lots[w] = [j \in DOMAIN t.lots[w] |-> [t.lots[w][j] EXCEPT !.left = @ - uses[j]]]]

\* A wallet whose lots give loses what they give and nothing else changes.
LEMMA KeptFacts ==
    ASSUME NEW t \in Traces, NEW w \in Wallets, NEW uses, Gives(t.lots[w], uses)
    PROVE  /\ Kept(t, w, uses) \in Traces
           /\ SumOver(DOMAIN t.lots[w], uses) \in Nat
           /\ SumOver(DOMAIN t.lots[w], uses) <= Remaining(t, w)
           /\ LeftInLots(Kept(t, w, uses)) = LeftInLots(t) - SumOver(DOMAIN t.lots[w], uses)
           /\ LeftInLots(t) \in Nat
           /\ Kept(t, w, uses).sold = t.sold /\ Kept(t, w, uses).burned = t.burned
           /\ Follows(t, Kept(t, w, uses)) /\ Kept(t, w, uses).unresolved = t.unresolved
           /\ Kept(t, w, uses).depth = t.depth
           /\ Rooted(t) => Rooted(Kept(t, w, uses))
           /\ Grew(t, Kept(t, w, uses), w, -SumOver(DOMAIN t.lots[w], uses))
<1> DEFINE s == t.lots[w]
           q == [j \in DOMAIN s |-> [s[j] EXCEPT !.left = @ - uses[j]]]
           u == Kept(t, w, uses)
           total == SumOver(DOMAIN s, uses)
<1>1. /\ u.lots = [t.lots EXCEPT ![w] = q]
      /\ u.depth = t.depth /\ u.since = t.since /\ u.sold = t.sold /\ u.burned = t.burned
      /\ u.spread = t.spread /\ u.unresolved = t.unresolved
      /\ u = [lots |-> u.lots, depth |-> u.depth, since |-> u.since, sold |-> u.sold,
              burned |-> u.burned, spread |-> u.spread, unresolved |-> u.unresolved]
    <2>1. t = [lots |-> t.lots, depth |-> t.depth, since |-> t.since, sold |-> t.sold,
               burned |-> t.burned, spread |-> t.spread, unresolved |-> t.unresolved]
        BY DEF Traces
    <2> QED
        BY <2>1 DEF Kept
<1>2. /\ t.lots \in [Wallets -> Seq(Lot)] /\ t.depth \in [Wallets -> Nat]
      /\ t.since \in [Wallets -> Nat] /\ t.sold \in Nat /\ t.burned \in Nat /\ t.unresolved \in BOOLEAN
      /\ t.spread \in SUBSET [signature : Nat, to : Wallets, amount : Nat, lot : Wallets \X Nat]
    BY DEF Traces
<1>3. s \in Seq(Lot) /\ DOMAIN s = 1..Len(s) /\ Len(s) \in Nat
    BY <1>2
<1>4. \A j \in DOMAIN s : s[j].left \in Nat /\ s[j].depth \in Nat /\ uses[j] \in Nat /\ uses[j] <= s[j].left
    BY <1>3, LotsAre DEF Gives
<1>5. \A j \in DOMAIN s : q[j].left = s[j].left - uses[j] /\ q[j] \in Lot
    <2> TAKE j \in DOMAIN s
    <2>1. s[j] = [left |-> s[j].left, depth |-> s[j].depth]
        BY <1>3, LotsAre
    <2>2. q[j] = [s[j] EXCEPT !.left = s[j].left - uses[j]]
        OBVIOUS
    <2>3. q[j].left = s[j].left - uses[j] /\ q[j] = [left |-> s[j].left - uses[j], depth |-> s[j].depth]
        BY <2>1, <2>2
    <2>4. s[j].left - uses[j] \in Nat
        BY <1>4
    <2> QED
        BY <1>4, <2>3, <2>4 DEF Lot
<1>6. q \in Seq(Lot) /\ DOMAIN q = DOMAIN s
    <2>1. q \in [1..Len(s) -> Lot]
        BY <1>3, <1>5
    <2> QED
        BY <1>3, <2>1
<1> HIDE DEF u, q
<1>7. u \in Traces
    <2>1. u.lots \in [Wallets -> Seq(Lot)]
        BY <1>1, <1>2, <1>6
    <2> QED
        BY <1>1, <1>2, <2>1 DEF Traces
<1>8. u.lots[w] = q /\ \A v \in Wallets \ {w} : u.lots[v] = t.lots[v]
    BY <1>1, <1>2
<1>9. total \in Nat /\ Remaining(u, w) = Remaining(t, w) + (-total) /\ total <= Remaining(t, w)
    <2> DEFINE f == [j \in DOMAIN s |-> s[j].left]
               g == [j \in DOMAIN q |-> q[j].left]
               D == DOMAIN s
    <2>1. IsFiniteSet(D)
        BY <1>3, FS_Interval
    <2>2. \A j \in D : f[j] \in Int /\ g[j] \in Nat /\ uses[j] \in Nat /\ f[j] = g[j] + uses[j]
        <3> TAKE j \in D
        <3>1. f[j] = s[j].left /\ g[j] = q[j].left /\ g[j] = s[j].left - uses[j]
            BY <1>5, <1>6
        <3>2. PICK a \in Nat, b \in Nat : a = s[j].left /\ b = uses[j] /\ b <= a
            BY <1>4
        <3>3. f[j] = a /\ g[j] = a - b /\ uses[j] = b
            BY <3>1, <3>2
        <3> QED
            BY <3>2, <3>3
    <2>3. Remaining(t, w) = SumFunctionOnSet(f, D)
        BY DEF Remaining, SumOver
    <2>4. Remaining(u, w) = SumFunctionOnSet(g, D)
        BY <1>6, <1>8 DEF Remaining, SumOver
    <2> HIDE DEF f, g, D
    <2>5. SumFunctionOnSet(f, D) = SumFunctionOnSet(g, D) + SumFunctionOnSet(uses, D)
        <3>1. \A j \in D : g[j] \in Int /\ uses[j] \in Int /\ f[j] = g[j] + uses[j]
            BY <2>2
        <3> QED
            BY <2>1, <3>1, SumPlus
    <2>6. SumFunctionOnSet(g, D) \in Nat /\ SumFunctionOnSet(uses, D) \in Nat
        <3>1. \A j \in D : g[j] \in Nat
            BY <2>2
        <3>2. \A j \in D : uses[j] \in Nat
            BY <2>2
        <3>3. SumFunctionOnSet(g, D) \in Nat
            BY <2>1, <3>1, SumNat
        <3>4. SumFunctionOnSet(uses, D) \in Nat
            BY <2>1, <3>2, SumNat
        <3> QED
            BY <3>3, <3>4
    <2>7. PICK a \in Nat, b \in Nat : a = SumFunctionOnSet(g, D) /\ b = SumFunctionOnSet(uses, D)
        BY <2>6
    <2>8. total = b /\ Remaining(u, w) = a /\ Remaining(t, w) = a + b
        BY <2>3, <2>4, <2>5, <2>7 DEF SumOver, D
    <2> HIDE DEF total
    <2>9. Remaining(t, w) + (-total) = (a + b) + (-b) /\ (a + b) + (-b) = a /\ b <= a + b
        BY <2>8
    <2> QED
        BY <2>8, <2>9
<1> HIDE DEF total
<1>10. LeftInLots(u) = LeftInLots(t) + (-total) /\ LeftInLots(t) \in Nat
    <2>1. -total \in Int
        BY <1>9
    <2> QED
        BY <1>7, <1>8, <1>9, <2>1, LeftChanges
<1>11. LeftInLots(u) = LeftInLots(t) - total
    <2>1. PICK a \in Nat, b \in Nat : a = LeftInLots(t) /\ b = total
        BY <1>9, <1>10
    <2>2. LeftInLots(u) = a + (-b)
        BY <1>10, <2>1
    <2> QED
        BY <2>1, <2>2
<1>12. Follows(t, u)
    BY <1>1 DEF Follows
<1>13. Rooted(t) => Rooted(u)
    <2> SUFFICES ASSUME Rooted(t), NEW v \in Wallets, u.depth[v] = 0
                 PROVE  u.lots[v] = <<>>
        BY DEF Rooted
    <2>1. t.lots[v] = <<>>
        BY <1>1 DEF Rooted
    <2>2. CASE v = w
        <3>1. DOMAIN s = {}
            BY <2>1, <2>2
        <3>2. Len(q) = 0
            BY <1>6, <3>1
        <3> QED
            BY <1>6, <1>8, <2>2, <3>2
    <2>3. CASE v # w
        BY <1>8, <2>1, <2>3
    <2> QED
        BY <2>2, <2>3
<1>14. Grew(t, u, w, -total)
    <2>1. ASSUME NEW v \in Wallets, v # w
          PROVE  Remaining(u, v) = Remaining(t, v) + 0
        BY <1>8, <2>1, RemainingNat DEF Remaining
    <2> QED
        BY <1>9, <2>1 DEF Grew
<1> QED
    BY <1>1, <1>7, <1>9, <1>10, <1>11, <1>12, <1>13, <1>14 DEF u, total

\* What the lots gain adds up.
LEMMA SameLeft ==
    ASSUME NEW t \in Traces, NEW w
    PROVE  Grew(t, t, w, 0)
<1>1. \A v \in Wallets : Remaining(t, v) = Remaining(t, v) + 0
    BY RemainingNat
<1> QED
    BY <1>1 DEF Grew

\* What two steps add is what both add.
LEMMA MoreLeft ==
    ASSUME NEW t \in Traces, NEW u, NEW v, NEW w, NEW k \in Int, NEW l \in Int,
           Grew(t, u, w, k), Grew(u, v, w, l)
    PROVE  Grew(t, v, w, k + l)
<1> SUFFICES ASSUME NEW x \in Wallets
             PROVE  Remaining(v, x) = Remaining(t, x) + (IF x = w THEN k + l ELSE 0)
    BY DEF Grew
<1>1. PICK r \in Nat : r = Remaining(t, x)
    BY RemainingNat
<1>2. Remaining(u, x) = r + (IF x = w THEN k ELSE 0)
    BY <1>1 DEF Grew
<1>3. Remaining(v, x) = (r + (IF x = w THEN k ELSE 0)) + (IF x = w THEN l ELSE 0)
    BY <1>2 DEF Grew
<1> QED
    BY <1>1, <1>3

\* Opening a branch changes nothing else.
LEMMA OpenFacts ==
    ASSUME NEW t \in Traces
    PROVE  LET u == [t EXCEPT !.unresolved = TRUE] IN
           u \in Traces /\ u.unresolved /\ Follows(t, u) /\ (Rooted(t) => Rooted(u))
BY DEF Traces, Follows, Rooted

\* A lot is carried one step further.
Carry(u, uses, lots, e, j) ==
    IF uses[j] = 0 THEN u
    ELSE IF lots[j].depth + 1 > traceDepth THEN [u EXCEPT !.unresolved = TRUE]
    ELSE AddLot(u, e.destination, uses[j], lots[j].depth + 1, e)

\* A lot carried onward adds what it gave, unless a branch is left open.
LEMMA CarryFacts ==
    ASSUME NEW u \in Traces, NEW lots \in Seq(Lot), NEW uses, Gives(lots, uses), NEW j \in DOMAIN lots,
           NEW e, e.signature \in Nat, e.at \in Nat, e.destination \in Wallets
    PROVE  /\ Carry(u, uses, lots, e, j) \in Traces
           /\ Follows(u, Carry(u, uses, lots, e, j))
           /\ \/ Carry(u, uses, lots, e, j).unresolved
              \/ /\ Weight(Carry(u, uses, lots, e, j)) = Weight(u) + uses[j]
                 /\ Grew(u, Carry(u, uses, lots, e, j), e.destination, uses[j])
           /\ Rooted(u) => Rooted(Carry(u, uses, lots, e, j))
<1>1. uses[j] \in Nat /\ lots[j].depth + 1 \in Nat \ {0}
    <2>1. lots[j].depth \in Nat /\ uses[j] \in Nat
        BY LotsAre DEF Gives
    <2> QED
        BY <2>1
<1>2. CASE uses[j] = 0
    <2>1. Carry(u, uses, lots, e, j) = u
        BY <1>2 DEF Carry
    <2>2. Weight(u) = Weight(u) + 0
        BY WeightNat
    <2>3. Follows(u, u)
        BY DEF Follows
    <2>4. Grew(u, u, e.destination, 0)
        BY SameLeft
    <2> QED
        BY <1>2, <2>1, <2>2, <2>3, <2>4
<1>3. CASE uses[j] # 0 /\ lots[j].depth + 1 > traceDepth
    BY <1>3, OpenFacts DEF Carry
<1>4. CASE uses[j] # 0 /\ ~(lots[j].depth + 1 > traceDepth)
    <2>1. Carry(u, uses, lots, e, j) = AddLot(u, e.destination, uses[j], lots[j].depth + 1, e)
        BY <1>4 DEF Carry
    <2>2. PICK a \in Nat, d \in Nat \ {0} : a = uses[j] /\ d = lots[j].depth + 1
        BY <1>1
    <2>3. Carry(u, uses, lots, e, j) = AddLot(u, e.destination, a, d, e)
        BY <2>1, <2>2
    <2>4. /\ AddLot(u, e.destination, a, d, e) \in Traces
          /\ Weight(AddLot(u, e.destination, a, d, e)) = Weight(u) + a
          /\ Follows(u, AddLot(u, e.destination, a, d, e))
          /\ Rooted(u) => Rooted(AddLot(u, e.destination, a, d, e))
          /\ Grew(u, AddLot(u, e.destination, a, d, e), e.destination, a)
        BY AddLotFacts
    <2> QED
        BY <2>2, <2>3, <2>4
<1> QED
    BY <1>2, <1>3, <1>4

\* The only member of a set of one.
LEMMA TheOnly ==
    ASSUME NEW x
    PROVE  The({x}) = x
BY DEF The

\* So do all the lots of a transfer together.
LEMMA SpreadFacts ==
    ASSUME NEW t \in Traces, NEW lots \in Seq(Lot), NEW uses, Gives(lots, uses),
           NEW e, e.signature \in Nat, e.at \in Nat, e.destination \in Wallets
    PROVE  /\ Spread(t, uses, lots, e) \in Traces
           /\ Follows(t, Spread(t, uses, lots, e))
           /\ \/ Spread(t, uses, lots, e).unresolved
              \/ /\ Weight(Spread(t, uses, lots, e)) = Weight(t) + SumOver(DOMAIN lots, uses)
                 /\ Grew(t, Spread(t, uses, lots, e), e.destination, SumOver(DOMAIN lots, uses))
           /\ Rooted(t) => Rooted(Spread(t, uses, lots, e))
<1> DEFINE n == Len(lots)
           Step(u, j) == IF uses[j] = 0 THEN u
                         ELSE IF lots[j].depth + 1 > traceDepth THEN [u EXCEPT !.unresolved = TRUE]
                         ELSE AddLot(u, e.destination, uses[j], lots[j].depth + 1, e)
           After[j \in 0..n] == IF j = 0 THEN t ELSE The({Step(u, j) : u \in {After[j - 1]}})
           Recurs(f) == f = [j \in 0..n |-> IF j = 0 THEN t ELSE The({Step(u, j) : u \in {f[j - 1]}})]
           step == [p \in Nat \X Traces |-> IF p[1] \in 1..n THEN Carry(p[2], uses, lots, e, p[1]) ELSE p[2]]
<1>1. n \in Nat /\ DOMAIN lots = 1..n
    OBVIOUS
<1>2. \A u, j : Step(u, j) = Carry(u, uses, lots, e, j)
    BY DEF Carry
<1>3. Spread(t, uses, lots, e) = After[n]
    BY DEF Spread
<1>4. After = CHOOSE f : Recurs(f)
    OBVIOUS
<1> HIDE DEF n, Step, After
<1>5. \A f, j : The({Step(u, j) : u \in {f[j - 1]}}) = Carry(f[j - 1], uses, lots, e, j)
    <2> TAKE f, j
    <2>1. PICK y : y = f[j - 1]
        OBVIOUS
    <2>2. {Step(u, j) : u \in {y}} = {Carry(y, uses, lots, e, j)}
        BY <1>2
    <2> QED
        BY <2>1, <2>2, TheOnly
<1>6. step \in [Nat \X Traces -> Traces]
    <2>1. \A p \in Nat \X Traces : (IF p[1] \in 1..n THEN Carry(p[2], uses, lots, e, p[1]) ELSE p[2]) \in Traces
        <3> TAKE p \in Nat \X Traces
        <3>1. PICK j \in Nat, u \in Traces : p[1] = j /\ p[2] = u
            OBVIOUS
        <3>2. j \in 1..n => Carry(u, uses, lots, e, j) \in Traces
            BY <1>1, CarryFacts
        <3> QED
            BY <3>1, <3>2
    <2> QED
        BY <2>1
<1>7. PICK g : Solves(g, n, Traces, t, step)
    <2> HIDE DEF step
    <2> QED
        BY <1>1, <1>6, Recursion
<1>8. /\ g \in [0..n -> Traces] /\ g[0] = t
      /\ \A j \in 1..n : g[j] = Carry(g[j - 1], uses, lots, e, j) /\ g[j - 1] \in Traces
    <2>1. g \in [0..n -> Traces] /\ g[0] = t /\ \A j \in 1..n : g[j] = step[<<j, g[j - 1]>>]
        BY <1>7 DEF Solves
    <2>2. \A j \in 1..n : j - 1 \in 0..n /\ g[j - 1] \in Traces
        <3>1. \A j \in 1..n : j - 1 \in 0..n
            BY <1>1
        <3> HIDE DEF step
        <3> QED
            BY <2>1, <3>1
    <2>3. ASSUME NEW j \in 1..n
          PROVE  g[j] = Carry(g[j - 1], uses, lots, e, j)
        <3>1. <<j, g[j - 1]>> \in Nat \X Traces
            BY <1>1, <2>2
        <3>2. step[<<j, g[j - 1]>>] = Carry(g[j - 1], uses, lots, e, j)
            BY <3>1
        <3> QED
            BY <2>1, <3>2
    <2> QED
        BY <2>1, <2>2, <2>3
<1> HIDE DEF step
<1>9. Recurs(g)
    <2>1. g = [j \in 0..n |-> g[j]]
        BY <1>8
    <2>2. \A j \in 0..n : g[j] = IF j = 0 THEN t ELSE The({Step(u, j) : u \in {g[j - 1]}})
        <3> TAKE j \in 0..n
        <3>1. j = 0 \/ j \in 1..n
            BY <1>1
        <3> QED
            BY <1>5, <1>8, <3>1
    <2> QED
        BY <2>1, <2>2
<1>10. Recurs(After)
    <2> HIDE DEF Recurs
    <2> QED
        BY <1>4, <1>9
<1>11. \A j \in 0..n : After[j] = IF j = 0 THEN t ELSE Carry(After[j - 1], uses, lots, e, j)
    BY <1>5, <1>10
<1> HIDE DEF Recurs
<1>12. IsFiniteSet(1..n) /\ \A j \in 1..n : uses[j] \in Nat
    <2>1. IsFiniteSet(1..n)
        BY <1>1, FS_Interval
    <2>2. uses \in [1..n -> Nat]
        BY <1>1 DEF Gives
    <2> QED
        BY <2>1, <2>2
<1> DEFINE Good(m) == /\ After[m] = g[m] /\ g[m] \in Traces /\ Follows(t, g[m])
                      /\ \/ g[m].unresolved
                         \/ /\ Weight(g[m]) = Weight(t) + SumFunctionOnSet(uses, 1..m)
                            /\ Grew(t, g[m], e.destination, SumFunctionOnSet(uses, 1..m))
                      /\ Rooted(t) => Rooted(g[m])
           N == {m \in Nat : m <= n => Good(m)}
<1>13. LeftInLots(t) \in Nat /\ Weight(t) \in Nat
    BY WeightNat
<1>14. 0 \in N
    <2>1. After[0] = t /\ g[0] = t
        BY <1>1, <1>8, <1>11
    <2>2. SumFunctionOnSet(uses, 1..0) = 0
        <3>1. 1..0 = {}
            OBVIOUS
        <3> QED
            BY <3>1, SumInt, FS_EmptySet
    <2>3. Follows(t, t)
        BY DEF Follows
    <2>4. Weight(t) = Weight(t) + 0
        BY <1>13
    <2>6. Grew(t, t, e.destination, 0)
        BY SameLeft
    <2>5. Good(0)
        BY <2>1, <2>2, <2>3, <2>4, <2>6
    <2> QED
        BY <2>5
<1>15. ASSUME NEW m \in N
       PROVE  m + 1 \in N
    <2>1. m \in Nat /\ m + 1 \in Nat /\ (m <= n => Good(m))
        OBVIOUS
    <2> SUFFICES ASSUME m + 1 <= n
                 PROVE  Good(m + 1)
        <3> HIDE DEF Good
        <3> QED
            BY <2>1
    <2> HIDE DEF N
    <2>2. m + 1 \in 1..n /\ m + 1 \in 0..n /\ (m + 1) - 1 = m /\ m + 1 # 0 /\ Good(m)
        <3> HIDE DEF Good
        <3> QED
            BY <1>1, <2>1
    <2> DEFINE u == g[m]
               v == g[m + 1]
    <2>3. After[m] = u /\ u \in Traces /\ Follows(t, u) /\ (Rooted(t) => Rooted(u))
        BY <2>2
    <2>4. v = Carry(u, uses, lots, e, m + 1)
        BY <1>8, <2>2
    <2>5. After[m + 1] = v
        BY <1>11, <2>2, <2>3, <2>4
    <2>6. /\ v \in Traces /\ Follows(u, v) /\ (Rooted(u) => Rooted(v))
          /\ \/ v.unresolved
             \/ Weight(v) = Weight(u) + uses[m + 1] /\ Grew(u, v, e.destination, uses[m + 1])
        <3>1. m + 1 \in DOMAIN lots
            BY <1>1, <2>2
        <3> HIDE DEF u, v
        <3>2. u \in Traces
            BY <2>3
        <3> QED
            BY <2>4, <3>1, <3>2, CarryFacts
    <2>7. Follows(t, v)
        BY <2>3, <2>6 DEF Follows
    <2>8. \/ v.unresolved
          \/ /\ Weight(v) = Weight(t) + SumFunctionOnSet(uses, 1..m + 1)
             /\ Grew(t, v, e.destination, SumFunctionOnSet(uses, 1..m + 1))
        <3>1. SUFFICES ASSUME ~v.unresolved
                       PROVE  /\ Weight(v) = Weight(t) + SumFunctionOnSet(uses, 1..m + 1)
                              /\ Grew(t, v, e.destination, SumFunctionOnSet(uses, 1..m + 1))
            OBVIOUS
        <3>2. ~u.unresolved
            BY <2>6, <3>1 DEF Follows
        <3>3. /\ Weight(u) = Weight(t) + SumFunctionOnSet(uses, 1..m)
              /\ Grew(t, u, e.destination, SumFunctionOnSet(uses, 1..m))
            BY <2>2, <3>2
        <3>4. IsFiniteSet(1..m) /\ 1..m + 1 = (1..m) \cup {m + 1} /\ m + 1 \notin 1..m
              /\ \A j \in (1..m) \cup {m + 1} : uses[j] \in Int
            <4>1. IsFiniteSet(1..m)
                BY <2>1, FS_Interval
            <4>2. 1..m + 1 = (1..m) \cup {m + 1} /\ m + 1 \notin 1..m /\ \A j \in 1..m + 1 : j \in 1..n
                BY <1>1, <2>1, <2>2
            <4> QED
                BY <1>12, <4>1, <4>2
        <3>5. SumFunctionOnSet(uses, 1..m + 1) = uses[m + 1] + SumFunctionOnSet(uses, 1..m)
            <4> DEFINE D == 1..m
            <4>1. IsFiniteSet(D) /\ m + 1 \notin D /\ \A j \in D \cup {m + 1} : uses[j] \in Int
                BY <3>4
            <4> HIDE DEF D
            <4>2. SumFunctionOnSet(uses, D \cup {m + 1}) = uses[m + 1] + SumFunctionOnSet(uses, D)
                BY <4>1, SumAdd
            <4> QED
                BY <3>4, <4>2 DEF D
        <3>6. PICK a \in Int : a = SumFunctionOnSet(uses, 1..m)
            <4> DEFINE D == 1..m
            <4>1. IsFiniteSet(D) /\ \A j \in D : uses[j] \in Int
                BY <3>4
            <4> HIDE DEF D
            <4>2. SumFunctionOnSet(uses, D) \in Int
                BY <4>1, SumInt
            <4> QED
                BY <4>2 DEF D
        <3>7. PICK b \in Nat, c \in Nat : b = uses[m + 1] /\ c = Weight(t)
            BY <1>12, <1>13, <2>2
        <3>8. Weight(v) = (c + a) + b
            BY <2>6, <3>1, <3>3, <3>6, <3>7
        <3>9. SumFunctionOnSet(uses, 1..m + 1) = b + a /\ b + a = a + b
            BY <3>5, <3>6, <3>7
        <3>10. Grew(t, v, e.destination, a + b)
            <4>1. Grew(t, u, e.destination, a) /\ Grew(u, v, e.destination, b)
                BY <2>6, <3>1, <3>3, <3>6, <3>7
            <4> QED
                BY <4>1, MoreLeft
        <3> QED
            BY <3>7, <3>8, <3>9, <3>10
    <2> QED
        BY <2>3, <2>5, <2>6, <2>7, <2>8
<1>16. N = Nat
    <2> HIDE DEF N
    <2> QED
        BY <1>14, <1>15, Induct DEF N
<1>17. Good(n)
    <2> HIDE DEF Good
    <2> QED
        BY <1>1, <1>16
<1>18. SumOver(DOMAIN lots, uses) = SumFunctionOnSet(uses, 1..n)
    BY <1>1 DEF SumOver
<1> QED
    BY <1>3, <1>17, <1>18

-----------------------------------------------------------------------------
(***************************************************************************)
(* The order of the list                                                   *)
(***************************************************************************)
Sorted == \A i, k \in DOMAIN moves : i <= k => moves[i].at <= moves[k].at

\* A transaction is put behind those of earlier seconds, and none is of a later one.
LEMMA NextInserts ==
    ASSUME TypeOK, Next
    PROVE  \E x \in Moves : \E p \in Places(x.at) :
              moves' = InsertAt(moves, p, x) /\ x.at \in {Now, Now + 1} \ {0} /\ x.at \in Nat
<1>1. PICK w \in Wallets, amount \in Amounts :
          \/ \E kind \in {"sell", "burn", "liquidity"} : Dispose(kind, w, amount)
          \/ \E kind \in {"buy", "gift"} : Acquire(kind, w, amount)
          \/ \E kind \in {"transfer", "unclear"}, v \in Wallets : Pass(kind, w, v, amount)
    BY DEF Next
<1>2. amount \in Nat \ {0} /\ w # Market /\ w \in Holders /\ Market \in Holders
    BY ExitVerdictAssumption DEF Holders
<1>3. ASSUME NEW kind, NEW from, NEW to, Happen(kind, from, to, amount),
             \A t \in Nat : [at |-> t, kind |-> kind, from |-> from, to |-> to, amount |-> amount] \in Moves
      PROVE  \E x \in Moves : \E p \in Places(x.at) :
                 moves' = InsertAt(moves, p, x) /\ x.at \in {Now, Now + 1} \ {0} /\ x.at \in Nat
    <2> DEFINE X(t) == [at |-> t, kind |-> kind, from |-> from, to |-> to, amount |-> amount]
    <2>1. PICK t \in {Now, Now + 1} \ {0} : \E p \in Places(t) : moves' = InsertAt(moves, p, X(t))
        BY <1>3 DEF Happen
    <2>2. t \in Nat
        BY NowNat
    <2>3. X(t) \in Moves /\ X(t).at = t
        BY <1>3, <2>2
    <2> QED
        BY <2>1, <2>2, <2>3
<1>4. ASSUME NEW kind \in {"sell", "burn", "liquidity"}, Dispose(kind, w, amount)
      PROVE  /\ Happen(kind, w, Market, amount)
             /\ \A t \in Nat : [at |-> t, kind |-> kind, from |-> w, to |-> Market, amount |-> amount] \in Moves
    BY <1>2, <1>4 DEF Dispose, Moves, Proper, Kinds
<1>5. ASSUME NEW kind \in {"buy", "gift"}, Acquire(kind, w, amount)
      PROVE  /\ Happen(kind, Market, w, amount)
             /\ \A t \in Nat : [at |-> t, kind |-> kind, from |-> Market, to |-> w, amount |-> amount] \in Moves
    BY <1>2, <1>5 DEF Acquire, Moves, Proper, Kinds
<1>6. ASSUME NEW kind \in {"transfer", "unclear"}, NEW v \in Wallets, Pass(kind, w, v, amount)
      PROVE  /\ Happen(kind, w, v, amount)
             /\ \A t \in Nat : [at |-> t, kind |-> kind, from |-> w, to |-> v, amount |-> amount] \in Moves
    BY <1>2, <1>6 DEF Pass, Moves, Proper, Kinds, Holders
<1> QED
    BY <1>1, <1>3, <1>4, <1>5, <1>6

\* Where the members of a list stand once x is put at place p.
LEMMA PlacesAfter ==
    ASSUME NEW s \in Seq(Moves), NEW p \in 1..Len(s) + 1, NEW x \in Moves
    PROVE  LET new == InsertAt(s, p, x) IN
           /\ DOMAIN new = 1..Len(s) + 1 /\ new[p] = x
           /\ \A i \in 1..Len(s) + 1 : i < p => i \in 1..Len(s) /\ new[i] = s[i]
           /\ \A i \in 1..Len(s) + 1 : i > p => i - 1 \in 1..Len(s) /\ new[i] = s[i - 1]
<1> DEFINE new == InsertAt(s, p, x)
           b == [j \in 1..Len(s) |-> IF j < p THEN j ELSE j + 1]
<1>1. /\ DOMAIN new = 1..Len(s) + 1 /\ new[p] = x
      /\ \A i \in 1..Len(s) : new[b[i]] = s[i]
    <2>1. Put(s, p, x)
        BY Inserted
    <2> QED
        BY <2>1 DEF Put
<1> HIDE DEF new
<1>2. Len(s) \in Nat /\ p \in Nat /\ 1 <= p /\ p <= Len(s) + 1
    OBVIOUS
<1>3. ASSUME NEW i \in 1..Len(s) + 1, i < p
      PROVE  i \in 1..Len(s) /\ new[i] = s[i]
    <2>1. i \in 1..Len(s)
        BY <1>2, <1>3
    <2>2. b[i] = i
        BY <1>3, <2>1
    <2> QED
        BY <1>1, <2>1, <2>2
<1>4. ASSUME NEW i \in 1..Len(s) + 1, i > p
      PROVE  i - 1 \in 1..Len(s) /\ new[i] = s[i - 1]
    <2>1. i - 1 \in 1..Len(s) /\ ~(i - 1 < p) /\ (i - 1) + 1 = i
        BY <1>2, <1>4
    <2>2. b[i - 1] = i
        BY <2>1
    <2> QED
        BY <1>1, <2>1, <2>2
<1> QED
    BY <1>1, <1>3, <1>4 DEF new

\* The list begins and stays sorted by second.
LEMMA StaysSorted ==
    (Init => Sorted) /\ (TypeOK /\ Sorted /\ [Next]_vars => Sorted')
<1>1. Init => Sorted
    BY DEF Init, Sorted
<1>2. ASSUME TypeOK, Sorted, UNCHANGED vars
      PROVE  Sorted'
    BY <1>2 DEF vars, Sorted
<1>3. ASSUME TypeOK, Sorted, Next
      PROVE  Sorted'
    <2>1. PICK x \in Moves : \E p \in Places(x.at) :
              moves' = InsertAt(moves, p, x) /\ x.at \in {Now, Now + 1} \ {0} /\ x.at \in Nat
        BY <1>3, NextInserts
    <2>2. PICK p \in Places(x.at) :
              moves' = InsertAt(moves, p, x) /\ x.at \in {Now, Now + 1} \ {0} /\ x.at \in Nat
        BY <2>1
    <2>3. p \in 1..Len(moves) + 1 /\ \A i \in DOMAIN moves : moves[i].at < x.at => i < p
        BY <2>2 DEF Places
    <2>4. moves \in Seq(Moves) /\ DOMAIN moves = 1..Len(moves) /\ Len(moves) \in Nat
        BY <1>3 DEF TypeOK
    <2>5. \A i \in DOMAIN moves : moves[i].at \in Nat /\ moves[i].at <= x.at
        <3> TAKE i \in DOMAIN moves
        <3>1. Len(moves) \in DOMAIN moves /\ i <= Len(moves) /\ moves # <<>>
            BY <2>4
        <3>2. moves[i] \in Moves /\ moves[Len(moves)] \in Moves
            BY <2>4, <3>1
        <3>3. moves[i].at \in Nat /\ moves[Len(moves)].at \in Nat
            BY <3>2 DEF Moves
        <3>4. moves[i].at <= moves[Len(moves)].at
            BY <1>3, <3>1 DEF Sorted
        <3>5. Now = moves[Len(moves)].at
            BY <3>1 DEF Now
        <3> QED
            BY <2>2, <3>3, <3>4, <3>5
    <2> DEFINE new == InsertAt(moves, p, x)
               n == Len(moves)
    <2>6. /\ DOMAIN new = 1..n + 1 /\ new[p] = x
          /\ \A i \in 1..n + 1 : i < p => i \in 1..n /\ new[i] = moves[i]
          /\ \A i \in 1..n + 1 : i > p => i - 1 \in 1..n /\ new[i] = moves[i - 1]
        BY <2>3, <2>4, PlacesAfter
    <2>7. moves' = new
        BY <2>2
    <2> HIDE DEF new, n
    <2>8. p \in Nat /\ n \in Nat /\ DOMAIN moves = 1..n
        BY <2>3, <2>4 DEF n
    <2>9. ASSUME NEW i \in 1..n + 1, NEW k \in 1..n + 1, i <= k
          PROVE  new[i].at <= new[k].at
        <3>1. CASE k < p
            <4>1. i < p /\ new[i] = moves[i] /\ new[k] = moves[k] /\ i \in 1..n /\ k \in 1..n
                BY <2>6, <2>8, <2>9, <3>1
            <4> QED
                BY <1>3, <2>8, <2>9, <4>1 DEF Sorted
        <3>2. CASE k = p /\ i < p
            BY <2>5, <2>6, <2>8, <3>2
        <3>3. CASE k = p /\ i = p
            BY <2>2, <2>6, <3>3
        <3>4. CASE k > p /\ i > p
            <4>1. new[i] = moves[i - 1] /\ new[k] = moves[k - 1] /\ i - 1 \in 1..n /\ k - 1 \in 1..n /\ i - 1 <= k - 1
                BY <2>6, <2>8, <2>9, <3>4
            <4> QED
                BY <1>3, <2>8, <4>1 DEF Sorted
        <3>5. CASE k > p /\ i = p
            <4>1. new[k] = moves[k - 1] /\ k - 1 \in 1..n /\ ~(k - 1 < p)
                BY <2>6, <2>8, <3>5
            <4>2. ~(moves[k - 1].at < x.at) /\ moves[k - 1].at \in Nat
                BY <2>3, <2>5, <2>8, <4>1
            <4> QED
                BY <2>2, <2>6, <3>5, <4>1, <4>2
        <3>6. CASE k > p /\ i < p
            <4>1. /\ new[k] = moves[k - 1] /\ k - 1 \in 1..n /\ i <= k - 1
                  /\ new[i] = moves[i] /\ i \in 1..n
                BY <2>6, <2>8, <3>6
            <4> QED
                BY <1>3, <2>8, <4>1 DEF Sorted
        <3> QED
            BY <2>8, <2>9, <3>1, <3>2, <3>3, <3>4, <3>5, <3>6
    <2> QED
        BY <2>6, <2>7, <2>9 DEF Sorted
<1> QED
    BY <1>1, <1>2, <1>3
-----------------------------------------------------------------------------
(***************************************************************************)
(* One event after the other                                               *)
(***************************************************************************)

\* What becomes of the lots when only the totals change.
Counts(t, s, b, o) ==
    [lots |-> t.lots, depth |-> t.depth, since |-> t.since, sold |-> s, burned |-> b,
     spread |-> t.spread, unresolved |-> o]

CountsTo(u, t, s, b, o) ==
    /\ u \in Traces /\ Weight(u) = LeftInLots(t) + s + b /\ u.unresolved = o
    /\ u.depth = t.depth /\ u.lots = t.lots

\* A trace with other totals is a trace with the same lots.
LEMMA Counted ==
    ASSUME NEW t \in Traces, NEW s \in Nat, NEW b \in Nat, NEW o \in BOOLEAN,
           NEW u, u = Counts(t, s, b, o)
    PROVE  CountsTo(u, t, s, b, o)
<1>1. /\ u.lots = t.lots /\ u.depth = t.depth /\ u.sold = s /\ u.burned = b /\ u.unresolved = o
      /\ u.since = t.since /\ u.spread = t.spread
    BY DEF Counts
<1>2. u \in Traces
    BY DEF Traces, Counts
<1>3. LeftInLots(u) = LeftInLots(t)
    BY <1>1 DEF LeftInLots, Remaining
<1> QED
    BY <1>1, <1>2, <1>3 DEF Weight, CountsTo

SoldMore(t, k) == [t EXCEPT !.sold = @ + k]
BurnedMore(t, k) == [t EXCEPT !.burned = @ + k]
LeftOpen(t) == [t EXCEPT !.unresolved = TRUE]

\* The totals of the three outcomes of a use.
LEMMA Counting ==
    ASSUME NEW t \in Traces, NEW k
    PROVE  /\ t = Counts(t, t.sold, t.burned, t.unresolved)
           /\ SoldMore(t, k) = Counts(t, t.sold + k, t.burned, t.unresolved)
           /\ BurnedMore(t, k) = Counts(t, t.sold, t.burned + k, t.unresolved)
           /\ LeftOpen(t) = Counts(t, t.sold, t.burned, TRUE)
           /\ t.sold \in Nat /\ t.burned \in Nat /\ t.unresolved \in BOOLEAN
<1>1. t = [lots |-> t.lots, depth |-> t.depth, since |-> t.since, sold |-> t.sold,
           burned |-> t.burned, spread |-> t.spread, unresolved |-> t.unresolved]
    BY DEF Traces
<1>2. t.sold \in Nat /\ t.burned \in Nat /\ t.unresolved \in BOOLEAN
    BY DEF Traces
<1>3. PICK s, b : s = t.sold + k /\ b = t.burned + k
    OBVIOUS
<1>4. SoldMore(t, k) = Counts(t, s, t.burned, t.unresolved)
    BY <1>1, <1>3 DEF Counts, SoldMore
<1>5. BurnedMore(t, k) = Counts(t, t.sold, b, t.unresolved)
    BY <1>1, <1>3 DEF Counts, BurnedMore
<1>6. LeftOpen(t) = Counts(t, t.sold, t.burned, TRUE)
    <2>1. \A o : [t EXCEPT !.unresolved = o] = Counts(t, t.sold, t.burned, o)
        BY <1>1 DEF Counts
    <2> QED
        BY <2>1, Zenon DEF LeftOpen
<1>7. t = Counts(t, t.sold, t.burned, t.unresolved)
    BY <1>1 DEF Counts
<1> QED
    <2>1. SoldMore(t, k) = Counts(t, t.sold + k, t.burned, t.unresolved)
        BY <1>3, <1>4
    <2>2. BurnedMore(t, k) = Counts(t, t.sold, t.burned + k, t.unresolved)
        BY <1>3, <1>5
    <2> QED
        BY <1>2, <1>6, <1>7, <2>1, <2>2

\* A reduction of another wallet.
Consumed(t, u, e) ==
    /\ u \in Traces /\ Follows(t, u) /\ (Rooted(t) => Rooted(u))
    /\ \/ u.unresolved
       \/ Weight(u) = Weight(t)
       \/ Concrete(e) /\ e.destination = Root /\ LeftInLots(t) > 0

\* A use of lots keeps what the trace accounts for, unless it returns to the seller or a branch is left open.
LEMMA UseFacts ==
    ASSUME NEW t \in Traces, NEW e, e.signature \in Nat, e.at \in Nat, e.delta \in Int, e.delta < 0,
           e.wallet \in Wallets, Concrete(e) => e.destination \in Wallets
    PROVE  Consumed(t, UseLots(t, e), e)
<1> DEFINE w == e.wallet
           lots == t.lots[w]
           uses == Uses(lots, -e.delta)
           total == SumOver(DOMAIN lots, uses)
           kept == Kept(t, w, uses)
           u == UseLots(t, e)
<1>1. lots \in Seq(Lot) /\ -e.delta \in Nat
    BY DEF Traces
<1>2. Gives(lots, uses)
    BY <1>1, UsesFacts
<1>3. u = CASE total = 0 -> t
            [] total > 0 /\ e.type = "SELL" -> SoldMore(kept, total)
            [] total > 0 /\ e.type = "BURN" -> BurnedMore(kept, total)
            [] total > 0 /\ Concrete(e) -> IF e.destination = Root THEN kept
                                           ELSE Spread(kept, uses, lots, e)
            [] OTHER -> LeftOpen(kept)
    BY DEF UseLots, Kept, SoldMore, BurnedMore, LeftOpen
<1> SUFFICES Consumed(t, u, e)
    OBVIOUS
<1> HIDE DEF uses, u
<1>4. /\ kept \in Traces /\ total \in Nat /\ total <= Remaining(t, w)
      /\ LeftInLots(kept) = LeftInLots(t) - total /\ LeftInLots(t) \in Nat
      /\ kept.sold = t.sold /\ kept.burned = t.burned
      /\ Follows(t, kept) /\ kept.unresolved = t.unresolved /\ kept.depth = t.depth
      /\ Rooted(t) => Rooted(kept)
    BY <1>2, KeptFacts
<1>5. t.sold \in Nat /\ t.burned \in Nat /\ t.unresolved \in BOOLEAN
    BY DEF Traces
<1>6. PICK l \in Nat, k \in Nat, s \in Nat, b \in Nat :
          l = LeftInLots(t) /\ k = total /\ s = t.sold /\ b = t.burned
    BY <1>4, <1>5
<1>7. PICK c \in Traces : c = kept
    BY <1>4
<1> HIDE DEF kept, total, lots
<1>8. /\ LeftInLots(c) = l - k /\ c.sold = s /\ c.burned = b /\ Follows(t, c)
      /\ c.unresolved = t.unresolved /\ c.depth = t.depth /\ (Rooted(t) => Rooted(c))
    BY <1>4, <1>6, <1>7
<1>9. k <= l
    <2>1. Remaining(t, w) <= LeftInLots(t) /\ Remaining(t, w) \in Nat
        BY LeftNat, RemainingNat
    <2> QED
        BY <1>4, <1>6, <2>1
<1>10. Weight(t) = l + s + b
    BY <1>6 DEF Weight
<1>11. ASSUME NEW x \in Nat, NEW y \in Nat, NEW o \in BOOLEAN, c.unresolved => o,
              u = Counts(c, x, y, o),
              o \/ x + y = s + b + k
       PROVE  Consumed(t, u, e)
    <2>1. /\ u \in Traces /\ Weight(u) = LeftInLots(c) + x + y /\ u.unresolved = o
          /\ u.depth = c.depth /\ u.lots = c.lots
        <3>1. u = Counts(c, x, y, o)
            BY <1>11
        <3>2. CountsTo(u, c, x, y, o)
            BY <3>1, Counted
        <3> QED
            BY <3>2 DEF CountsTo
    <2>2. Follows(t, u)
        BY <1>8, <1>11, <2>1 DEF Follows
    <2>3. Rooted(t) => Rooted(u)
        BY <1>8, <2>1 DEF Rooted
    <2>4. u.unresolved \/ Weight(u) = Weight(t)
        <3>1. (l - k) + (x + y) = (l - k) + x + y /\ (l - k) + (s + b + k) = l + s + b
            OBVIOUS
        <3>2. Weight(u) = (l - k) + x + y
            BY <1>8, <2>1
        <3> QED
            BY <1>10, <1>11, <2>1, <3>1, <3>2
    <2> QED
        BY <2>1, <2>2, <2>3, <2>4 DEF Consumed
<1>12. c.unresolved \in BOOLEAN
    BY DEF Traces
<1>13. CASE k = 0
    <2>1. u = t
        BY <1>3, <1>6, <1>13
    <2>2. Follows(t, t)
        BY DEF Follows
    <2> QED
        BY <2>1, <2>2 DEF Consumed
<1>14. CASE k > 0 /\ e.type = "SELL"
    <2>1. u = SoldMore(kept, total)
        BY <1>3, <1>6, <1>14 DEF Concrete
    <2>2. u = Counts(c, s + k, b, c.unresolved)
        <3>1. u = SoldMore(c, k)
            BY <1>6, <1>7, <2>1
        <3> QED
            BY <1>8, <3>1, Counting
    <2>3. s + k \in Nat /\ (s + k) + b = s + b + k
        OBVIOUS
    <2> QED
        BY <1>11, <1>12, <2>2, <2>3
<1>15. CASE k > 0 /\ e.type = "BURN"
    <2>1. u = BurnedMore(kept, total)
        BY <1>3, <1>6, <1>15 DEF Concrete
    <2>2. u = Counts(c, s, b + k, c.unresolved)
        <3>1. u = BurnedMore(c, k)
            BY <1>6, <1>7, <2>1
        <3> QED
            BY <1>8, <3>1, Counting
    <2>3. b + k \in Nat /\ s + (b + k) = s + b + k
        OBVIOUS
    <2> QED
        BY <1>11, <1>12, <2>2, <2>3
<1>16. CASE k > 0 /\ Concrete(e) /\ e.destination = Root
    <2>1. u = c
        BY <1>3, <1>6, <1>7, <1>16 DEF Concrete
    <2>2. LeftInLots(t) > 0
        BY <1>6, <1>9, <1>16
    <2> QED
        BY <1>7, <1>8, <1>16, <2>1, <2>2 DEF Consumed
<1>17. CASE k > 0 /\ Concrete(e) /\ e.destination # Root
    <2>1. u = Spread(c, uses, lots, e)
        BY <1>3, <1>6, <1>7, <1>17 DEF Concrete
    <2>2. lots \in Seq(Lot)
        BY <1>1 DEF lots
    <2>3. PICK v : v = Spread(c, uses, lots, e)
        OBVIOUS
    <2>4. /\ v \in Traces /\ Follows(c, v) /\ (Rooted(c) => Rooted(v))
          /\ v.unresolved \/ Weight(v) = Weight(c) + total
        BY <1>2, <1>17, <2>2, <2>3, SpreadFacts DEF total, lots
    <2>5. Weight(c) = (l - k) + s + b
        BY <1>8 DEF Weight
    <2>6. v.unresolved \/ Weight(v) = Weight(t)
        BY <1>6, <1>10, <2>4, <2>5
    <2>7. Follows(t, v)
        BY <1>8, <2>4 DEF Follows
    <2> QED
        BY <1>8, <2>1, <2>3, <2>4, <2>6, <2>7 DEF Consumed
<1>18. CASE k > 0 /\ e.type # "SELL" /\ e.type # "BURN" /\ ~Concrete(e)
    <2>1. u = LeftOpen(kept)
        BY <1>3, <1>6, <1>18
    <2>2. u = Counts(c, s, b, TRUE)
        BY <1>7, <1>8, <2>1, Counting
    <2> QED
        BY <1>11, <2>2
<1> QED
    BY <1>13, <1>14, <1>15, <1>16, <1>17, <1>18

\* A reduction of the seller.
Parts(t, u, e) ==
    /\ u \in Traces /\ Follows(t, u) /\ (Rooted(t) => Rooted(u))
    /\ \/ u.unresolved
       \/ /\ Weight(u) = Weight(t) + (IF Concrete(e) THEN -e.delta ELSE 0)
          /\ Concrete(e) => u.depth[e.destination] > 0

\* A transfer of the seller adds its amount, unless a branch is left open.
LEMMA LeaveFacts ==
    ASSUME NEW t \in Traces, NEW e, e.signature \in Nat, e.at \in Nat, e.delta \in Int, e.delta < 0,
           Concrete(e) => e.destination \in Wallets
    PROVE  Parts(t, LeaveRoot(t, e), e)
<1>1. CASE ~Concrete(e)
    <2>1. LeaveRoot(t, e) = t
        BY <1>1 DEF LeaveRoot
    <2>2. Weight(t) = Weight(t) + 0 /\ Follows(t, t)
        BY WeightNat DEF Follows
    <2> QED
        BY <1>1, <2>1, <2>2 DEF Parts
<1>2. CASE Concrete(e) /\ traceDepth = 0
    <2>1. LeaveRoot(t, e) = [t EXCEPT !.unresolved = TRUE]
        BY <1>2 DEF LeaveRoot
    <2>2. PICK u : u = [t EXCEPT !.unresolved = TRUE]
        OBVIOUS
    <2>3. u \in Traces /\ u.unresolved /\ Follows(t, u) /\ (Rooted(t) => Rooted(u))
        BY <2>2, OpenFacts
    <2> QED
        BY <2>1, <2>2, <2>3 DEF Parts
<1>3. CASE Concrete(e) /\ traceDepth # 0
    <2>1. PICK w \in Wallets, a \in Nat, d \in Nat \ {0} : w = e.destination /\ a = -e.delta /\ d = 1
        BY <1>3
    <2>2. PICK u : u = AddLot(t, w, a, d, e)
        OBVIOUS
    <2>3. LeaveRoot(t, e) = u
        BY <1>3, <2>1, <2>2 DEF LeaveRoot
    <2>4. u \in Traces /\ Weight(u) = Weight(t) + a /\ Follows(t, u) /\ u.depth[w] > 0
          /\ (Rooted(t) => Rooted(u))
        BY <2>2, AddLotFacts
    <2> QED
        BY <1>3, <2>1, <2>3, <2>4 DEF Parts
<1> QED
    BY <1>1, <1>2, <1>3

\* What the events of the window can be.
Sane(ev) ==
    \A j \in DOMAIN ev :
        LET e == ev[j] IN
        /\ e.signature \in Nat /\ e.at \in Nat /\ e.delta \in Int /\ e.delta # 0 /\ e.wallet \in Holders
        /\ Concrete(e) => e.delta < 0 /\ e.destination \in Wallets /\ e.destination # e.wallet
        /\ Settlement(ev, e) => Concrete(e) /\ e.wallet = Market

\* An event is one of the events of the transaction of its signature.
LEMMA EventIs ==
    ASSUME TypeOK, NEW strict, NEW ev, NEW lost, NEW won, Tells(ev, strict, lost, won), NEW j \in DOMAIN ev
    PROVE  LET i == ev[j].signature IN
           /\ i \in DOMAIN moves
           /\ (j = lost[i] /\ ev[j] = Lost(i)) \/ (j = won[i] /\ ev[j] = Won(i) /\ Shows(i, strict))
<1>1. PICK i \in DOMAIN moves : j = lost[i] \/ (Shows(i, strict) /\ j = won[i])
    BY DEF Tells
<1>2. \/ j = lost[i] /\ ev[j] = Lost(i)
      \/ Shows(i, strict) /\ j = won[i] /\ ev[j] = Won(i)
    BY <1>1 DEF Tells
<1>3. ev[j].signature = i
    BY <1>2, FieldsOfEvents
<1> QED
    BY <1>2, <1>3

\* The events of a list of typed moves are sane.
LEMMA EventsSane ==
    ASSUME TypeOK, NEW strict, NEW ev, NEW lost, NEW won, Tells(ev, strict, lost, won)
    PROVE  Sane(ev)
<1> SUFFICES ASSUME NEW j \in DOMAIN ev
             PROVE  LET e == ev[j] IN
                    /\ e.signature \in Nat /\ e.at \in Nat /\ e.delta \in Int /\ e.delta # 0 /\ e.wallet \in Holders
                    /\ Concrete(e) => e.delta < 0 /\ e.destination \in Wallets /\ e.destination # e.wallet
                    /\ Settlement(ev, e) => Concrete(e) /\ e.wallet = Market
    BY DEF Sane
<1>1. PICK i, e : i = ev[j].signature /\ e = ev[j]
    OBVIOUS
<1>2. /\ i \in DOMAIN moves
      /\ (j = lost[i] /\ e = Lost(i)) \/ (j = won[i] /\ e = Won(i) /\ Shows(i, strict))
    BY <1>1, EventIs
<1>3. moves[i] \in Moves /\ i \in Nat
    BY <1>2 DEF TypeOK
<1>4. moves[i].at \in Nat /\ moves[i].from \in Holders /\ moves[i].to \in Holders /\ moves[i].amount \in Nat \ {0}
    BY <1>3 DEF Moves
<1>5. PICK a \in Nat \ {0} : a = moves[i].amount
    BY <1>4
<1>6. -a \in Int /\ -a # 0 /\ -a < 0 /\ a # 0 /\ a \in Int
    OBVIOUS
<1>7. e.signature \in Nat /\ e.at \in Nat /\ e.delta \in Int /\ e.delta # 0 /\ e.wallet \in Holders
    BY <1>2, <1>3, <1>4, <1>5, <1>6, FieldsOfEvents
<1>8. Concrete(e) => e = Lost(i) /\ j = lost[i] /\ moves[i].kind \in {"buy", "gift", "transfer"}
    BY <1>2, ConcreteMoves
<1>9. ASSUME Concrete(e)
      PROVE  e.delta < 0 /\ e.destination \in Wallets /\ e.destination # e.wallet
    BY <1>2, <1>5, <1>6, <1>8, <1>9, KindsOfMoves, FieldsOfEvents
<1>10. ASSUME Settlement(ev, e)
       PROVE  Concrete(e) /\ e.wallet = Market
    <2>1. Concrete(e)
        BY <1>10 DEF Settlement
    <2>2. Settlement(ev, ev[lost[i]])
        BY <1>1, <1>8, <1>10, <2>1
    <2>3. moves[i].kind = "buy"
        BY <1>2, <2>2, SettlesPurchases
    <2> QED
        BY <1>2, <1>8, <2>1, <2>3, KindsOfMoves, FieldsOfEvents
<1> QED
    BY <1>1, <1>7, <1>9, <1>10
-----------------------------------------------------------------------------
(***************************************************************************)
(* The whole trace                                                         *)
(***************************************************************************)
TraceStep(ev, t, e) ==
    IF Settlement(ev, e) \/ e.delta >= 0 \/ e.wallet = Market THEN t
    ELSE IF e.wallet = Root THEN LeaveRoot(t, e) ELSE UseLots(t, e)

\* What the seller itself passes on by an event.
Given(e) == IF e.wallet = Root /\ Concrete(e) THEN -e.delta ELSE 0

\* One event: the lots grow by what the seller passes on, or a branch stays open, or
\* inventory comes back to the seller.
Stepped(ev, t, u, e) ==
    /\ u \in Traces /\ Follows(t, u) /\ (Rooted(t) => Rooted(u))
    /\ \/ u.unresolved
       \/ /\ Weight(u) = Weight(t) + Given(e)
          /\ e.wallet = Root /\ Concrete(e) => u.depth[e.destination] > 0
       \/ /\ Concrete(e) /\ ~Settlement(ev, e) /\ e.destination = Root /\ e.wallet # Root
          /\ LeftInLots(t) > 0

\* Each event adds to the trace what the seller gave by it.
LEMMA StepFacts ==
    ASSUME NEW ev, Sane(ev), NEW j \in DOMAIN ev, NEW t \in Traces
    PROVE  Stepped(ev, t, TraceStep(ev, t, ev[j]), ev[j])
<1>1. PICK e : e = ev[j]
    OBVIOUS
<1>2. /\ e.signature \in Nat /\ e.at \in Nat /\ e.delta \in Int /\ e.delta # 0 /\ e.wallet \in Holders
      /\ Concrete(e) => e.delta < 0 /\ e.destination \in Wallets /\ e.destination # e.wallet
      /\ Settlement(ev, e) => Concrete(e) /\ e.wallet = Market
    BY <1>1 DEF Sane
<1>3. Root # Market /\ Follows(t, t) /\ Weight(t) = Weight(t) + 0
    BY WeightNat, ExitVerdictAssumption DEF Follows
<1>4. CASE Settlement(ev, e) \/ e.delta >= 0 \/ e.wallet = Market
    <2>1. TraceStep(ev, t, e) = t
        BY <1>4 DEF TraceStep
    <2>2. ~(e.wallet = Root /\ Concrete(e))
        BY <1>2, <1>3, <1>4
    <2>3. Given(e) = 0
        BY <2>2 DEF Given
    <2> QED
        BY <1>1, <1>3, <2>1, <2>2, <2>3 DEF Stepped
<1>5. CASE ~(Settlement(ev, e) \/ e.delta >= 0 \/ e.wallet = Market) /\ e.wallet = Root
    <2>1. PICK u : u = LeaveRoot(t, e)
        OBVIOUS
    <2>2. TraceStep(ev, t, e) = u
        BY <1>5, <2>1 DEF TraceStep
    <2>3. e.delta < 0
        BY <1>2, <1>5
    <2>4. Parts(t, u, e)
        BY <1>2, <2>1, <2>3, LeaveFacts
    <2> QED
        BY <1>1, <1>5, <2>2, <2>4 DEF Stepped, Parts, Given
<1>6. CASE ~(Settlement(ev, e) \/ e.delta >= 0 \/ e.wallet = Market) /\ e.wallet # Root
    <2>1. PICK u : u = UseLots(t, e)
        OBVIOUS
    <2>2. TraceStep(ev, t, e) = u
        BY <1>6, <2>1 DEF TraceStep
    <2>3. e.delta < 0 /\ e.wallet \in Wallets
        BY <1>2, <1>6 DEF Holders
    <2>4. Consumed(t, u, e)
        BY <1>2, <2>1, <2>3, UseFacts
    <2>5. Given(e) = 0 /\ Weight(t) + 0 = Weight(t)
        BY <1>3, <1>6 DEF Given
    <2> QED
        BY <1>1, <1>6, <2>2, <2>4, <2>5 DEF Stepped, Consumed
<1> QED
    BY <1>4, <1>5, <1>6

\* g[i] is the trace of the first i events.
Records(g, ev) ==
    /\ g \in [0..Len(ev) -> Traces] /\ g[0] = NoTrace
    /\ \A i \in 1..Len(ev) : g[i] = TraceStep(ev, g[i - 1], ev[i])

\* The trace before the first event.
LEMMA NoTraceFacts ==
    NoTrace \in Traces /\ Rooted(NoTrace) /\ LeftInLots(NoTrace) = 0 /\ Weight(NoTrace) = 0
<1>1. NoTrace \in Traces
    <2>1. <<>> \in Seq(Lot) /\ {} \in SUBSET [signature : Nat, to : Wallets, amount : Nat, lot : Wallets \X Nat]
        OBVIOUS
    <2> QED
        BY <2>1 DEF NoTrace, Traces
<1>2. Rooted(NoTrace)
    BY DEF NoTrace, Rooted
<1>3. \A w \in Wallets : Remaining(NoTrace, w) = 0
    <2> TAKE w \in Wallets
    <2>1. NoTrace.lots[w] = <<>>
        BY DEF NoTrace
    <2> QED
        BY <1>1, <2>1, RemainingNat
<1>4. LeftInLots(NoTrace) = 0
    <2> DEFINE f == [w \in Wallets |-> Remaining(NoTrace, w)]
    <2>1. \A w \in Wallets : f[w] = 0
        BY <1>3
    <2>2. IsFiniteSet(Wallets)
        BY ExitVerdictAssumption
    <2> HIDE DEF f
    <2>3. SumFunctionOnSet(f, Wallets) = 0
        BY <2>1, <2>2, SumZero
    <2> QED
        BY <2>3 DEF LeftInLots, SumOver, f
<1>5. NoTrace.sold = 0 /\ NoTrace.burned = 0
    BY DEF NoTrace
<1> QED
    BY <1>1, <1>2, <1>4, <1>5 DEF Weight

\* The trace is what its steps make of the one before the first event.
LEMMA TraceFolds ==
    ASSUME NEW ev, Len(ev) \in Nat, DOMAIN ev = 1..Len(ev), Sane(ev)
    PROVE  \E g : Records(g, ev) /\ Trace(ev) = g[Len(ev)]
<1> DEFINE n == Len(ev)
           Step(t, e) == IF Settlement(ev, e) \/ e.delta >= 0 \/ e.wallet = Market THEN t
                         ELSE IF e.wallet = Root THEN LeaveRoot(t, e) ELSE UseLots(t, e)
           After[i \in 0..n] == IF i = 0 THEN NoTrace ELSE The({Step(t, ev[i]) : t \in {After[i - 1]}})
           Recurs(f) == f = [i \in 0..n |-> IF i = 0 THEN NoTrace ELSE The({Step(t, ev[i]) : t \in {f[i - 1]}})]
           step == [p \in Nat \X Traces |-> IF p[1] \in 1..n THEN TraceStep(ev, p[2], ev[p[1]]) ELSE p[2]]
<1>1. n \in Nat /\ DOMAIN ev = 1..n /\ NoTrace \in Traces
    BY NoTraceFacts
<1>2. \A t, e : Step(t, e) = TraceStep(ev, t, e)
    BY DEF TraceStep
<1>3. Trace(ev) = After[n]
    BY DEF Trace
<1>4. After = CHOOSE f : Recurs(f)
    OBVIOUS
<1> HIDE DEF n, Step, After
<1>5. \A f, i : The({Step(t, ev[i]) : t \in {f[i - 1]}}) = TraceStep(ev, f[i - 1], ev[i])
    <2> TAKE f, i
    <2>1. PICK y : y = f[i - 1]
        OBVIOUS
    <2>2. {Step(t, ev[i]) : t \in {y}} = {TraceStep(ev, y, ev[i])}
        BY <1>2
    <2> QED
        BY <2>1, <2>2, TheOnly
<1>6. step \in [Nat \X Traces -> Traces]
    <2>1. \A p \in Nat \X Traces : (IF p[1] \in 1..n THEN TraceStep(ev, p[2], ev[p[1]]) ELSE p[2]) \in Traces
        <3> TAKE p \in Nat \X Traces
        <3>1. PICK i \in Nat, t \in Traces : p[1] = i /\ p[2] = t
            OBVIOUS
        <3>2. i \in 1..n => TraceStep(ev, t, ev[i]) \in Traces
            BY <1>1, StepFacts DEF Stepped
        <3> QED
            BY <3>1, <3>2
    <2> QED
        BY <2>1
<1>7. PICK g : Solves(g, n, Traces, NoTrace, step)
    <2> HIDE DEF step
    <2> QED
        BY <1>1, <1>6, Recursion
<1>8. /\ g \in [0..n -> Traces] /\ g[0] = NoTrace
      /\ \A i \in 1..n : g[i] = TraceStep(ev, g[i - 1], ev[i]) /\ g[i - 1] \in Traces
    <2>1. g \in [0..n -> Traces] /\ g[0] = NoTrace /\ \A i \in 1..n : g[i] = step[<<i, g[i - 1]>>]
        BY <1>7 DEF Solves
    <2>2. \A i \in 1..n : i - 1 \in 0..n /\ g[i - 1] \in Traces
        <3>1. \A i \in 1..n : i - 1 \in 0..n
            BY <1>1
        <3> HIDE DEF step
        <3> QED
            BY <2>1, <3>1
    <2>3. ASSUME NEW i \in 1..n
          PROVE  g[i] = TraceStep(ev, g[i - 1], ev[i])
        <3>1. <<i, g[i - 1]>> \in Nat \X Traces
            BY <1>1, <2>2
        <3>2. step[<<i, g[i - 1]>>] = TraceStep(ev, g[i - 1], ev[i])
            BY <3>1
        <3> QED
            BY <2>1, <3>2
    <2> QED
        BY <2>1, <2>2, <2>3
<1> HIDE DEF step
<1>9. Recurs(g)
    <2>1. g = [i \in 0..n |-> g[i]]
        BY <1>8
    <2>2. \A i \in 0..n : g[i] = IF i = 0 THEN NoTrace ELSE The({Step(t, ev[i]) : t \in {g[i - 1]}})
        <3> TAKE i \in 0..n
        <3>1. i = 0 \/ i \in 1..n
            BY <1>1
        <3> QED
            BY <1>5, <1>8, <3>1
    <2> QED
        BY <2>1, <2>2
<1>10. Recurs(After)
    <2> HIDE DEF Recurs
    <2> QED
        BY <1>4, <1>9
<1>11. \A i \in 0..n : After[i] = IF i = 0 THEN NoTrace ELSE TraceStep(ev, After[i - 1], ev[i])
    BY <1>5, <1>10
<1> HIDE DEF Recurs
<1> DEFINE N == {m \in Nat : m <= n => After[m] = g[m]}
<1>12. 0 \in N
    BY <1>1, <1>8, <1>11
<1>13. ASSUME NEW m \in N
       PROVE  m + 1 \in N
    <2>1. m \in Nat /\ m + 1 \in Nat /\ (m <= n => After[m] = g[m])
        OBVIOUS
    <2>2. ASSUME m + 1 <= n
          PROVE  After[m + 1] = g[m + 1]
        <3>1. m + 1 \in 1..n /\ m + 1 \in 0..n /\ (m + 1) - 1 = m /\ m + 1 # 0 /\ m <= n
            BY <1>1, <2>1, <2>2
        <3>2. After[m + 1] = TraceStep(ev, After[m], ev[m + 1])
            BY <1>11, <3>1
        <3>3. g[m + 1] = TraceStep(ev, g[m], ev[m + 1])
            BY <1>8, <3>1
        <3> QED
            BY <2>1, <3>1, <3>2, <3>3
    <2> QED
        BY <2>1, <2>2
<1>14. N = Nat
    <2> HIDE DEF N
    <2> QED
        BY <1>12, <1>13, Induct DEF N
<1>15. After[n] = g[n]
    BY <1>1, <1>14
<1>16. Records(g, ev)
    BY <1>8 DEF Records, n
<1> QED
    BY <1>3, <1>15, <1>16 DEF n
-----------------------------------------------------------------------------
\* What the seller passes on by the events up to one of them.
GivenTo(ev, m) == SumOver(1..m, [i \in DOMAIN ev |-> Given(ev[i])])

\* Inventory that comes back does so before anything is reduced.
LEMMA FoldFacts ==
    ASSUME NEW ev, Len(ev) \in Nat, DOMAIN ev = 1..Len(ev), Sane(ev), NEW g, Records(g, ev),
           \A i, r \in DOMAIN ev : i \in Incoming(ev) /\ r \in Reductions(ev) => ~(r <= i),
           NEW m \in 0..Len(ev)
    PROVE  /\ Rooted(g[m]) /\ g[m] \in Traces
           /\ g[m].unresolved \/ Weight(g[m]) = GivenTo(ev, m)
           /\ GivenTo(ev, m) \in Nat
           /\ GivenTo(ev, m) = 0 \/ \E r \in Reductions(ev) : r <= m
           /\ \A i \in 1..m : ev[i].wallet = Root /\ Concrete(ev[i]) =>
                  g[m].unresolved \/ g[m].depth[ev[i].destination] > 0
<1> DEFINE n == Len(ev)
           f == [i \in DOMAIN ev |-> Given(ev[i])]
           Good(k) == /\ Rooted(g[k]) /\ g[k] \in Traces
                      /\ g[k].unresolved \/ Weight(g[k]) = GivenTo(ev, k)
                      /\ GivenTo(ev, k) \in Nat
                      /\ GivenTo(ev, k) = 0 \/ \E r \in Reductions(ev) : r <= k
                      /\ \A i \in 1..k : ev[i].wallet = Root /\ Concrete(ev[i]) =>
                             g[k].unresolved \/ g[k].depth[ev[i].destination] > 0
           N == {k \in Nat : k <= n => Good(k)}
<1>1. /\ n \in Nat /\ DOMAIN ev = 1..n /\ g \in [0..n -> Traces] /\ g[0] = NoTrace
      /\ \A i \in 1..n : g[i] = TraceStep(ev, g[i - 1], ev[i])
    BY DEF Records
<1>2. \A i \in 1..n : f[i] = Given(ev[i]) /\ f[i] \in Nat
    <2> TAKE i \in 1..n
    <2>1. ev[i].delta \in Int /\ (Concrete(ev[i]) => ev[i].delta < 0)
        BY DEF Sane
    <2>2. Given(ev[i]) \in Nat
        BY <2>1 DEF Given
    <2> QED
        BY <1>1, <2>2
<1>3. \A k : GivenTo(ev, k) = SumFunctionOnSet(f, 1..k)
    BY DEF GivenTo, SumOver
<1> HIDE DEF f
<1>4. 0 \in N
    <2>1. GivenTo(ev, 0) = 0
        <3>1. 1..0 = {}
            OBVIOUS
        <3> QED
            BY <1>3, <3>1, SumInt, FS_EmptySet
    <2>2. \A i \in 1..0 : FALSE
        OBVIOUS
    <2> QED
        BY <1>1, <2>1, <2>2, NoTraceFacts
<1>5. ASSUME NEW k \in N
      PROVE  k + 1 \in N
    <2>1. k \in Nat /\ k + 1 \in Nat /\ (k <= n => Good(k))
        OBVIOUS
    <2> SUFFICES ASSUME k + 1 <= n
                 PROVE  Good(k + 1)
        <3> HIDE DEF Good
        <3> QED
            BY <2>1
    <2> HIDE DEF N
    <2>2. k + 1 \in 1..n /\ k + 1 \in 0..n /\ (k + 1) - 1 = k /\ Good(k)
        <3> HIDE DEF Good
        <3> QED
            BY <1>1, <2>1
    <2> DEFINE t == g[k]
               u == g[k + 1]
               e == ev[k + 1]
    <2>3. /\ Rooted(t) /\ t \in Traces /\ (t.unresolved \/ Weight(t) = GivenTo(ev, k))
          /\ GivenTo(ev, k) \in Nat
          /\ GivenTo(ev, k) = 0 \/ \E r \in Reductions(ev) : r <= k
          /\ \A i \in 1..k : ev[i].wallet = Root /\ Concrete(ev[i]) =>
                 t.unresolved \/ t.depth[ev[i].destination] > 0
        BY <2>2
    <2> HIDE DEF Good
    <2>4. u = TraceStep(ev, t, e)
        BY <1>1, <2>2
    <2> HIDE DEF t, u
    <2>5. Stepped(ev, t, u, e)
        BY <1>1, <2>2, <2>3, <2>4, StepFacts
    <2>6. GivenTo(ev, k + 1) = Given(e) + GivenTo(ev, k) /\ Given(e) \in Nat
        <3>1. /\ IsFiniteSet(1..k) /\ 1..k + 1 = (1..k) \cup {k + 1} /\ k + 1 \notin 1..k
              /\ \A i \in (1..k) \cup {k + 1} : f[i] \in Int
            <4>1. IsFiniteSet(1..k)
                BY <2>1, FS_Interval
            <4>2. 1..k + 1 = (1..k) \cup {k + 1} /\ k + 1 \notin 1..k /\ \A i \in 1..k + 1 : i \in 1..n
                BY <1>1, <2>1, <2>2
            <4> QED
                BY <1>2, <4>1, <4>2
        <3> DEFINE D == 1..k
        <3>2. IsFiniteSet(D) /\ k + 1 \notin D /\ \A i \in D \cup {k + 1} : f[i] \in Int
            BY <3>1
        <3>3. GivenTo(ev, k) = SumFunctionOnSet(f, D) /\ GivenTo(ev, k + 1) = SumFunctionOnSet(f, D \cup {k + 1})
            BY <1>3, <3>1
        <3> HIDE DEF D
        <3>4. SumFunctionOnSet(f, D \cup {k + 1}) = f[k + 1] + SumFunctionOnSet(f, D)
            BY <3>2, SumAdd
        <3> QED
            BY <1>2, <2>2, <3>3, <3>4
    <2>7. PICK a \in Nat, b \in Nat : a = GivenTo(ev, k) /\ b = Given(e)
        BY <2>3, <2>6
    <2>8. GivenTo(ev, k + 1) = b + a
        BY <2>6, <2>7
    <2>9. GivenTo(ev, k + 1) = 0 \/ \E r \in Reductions(ev) : r <= k + 1
        <3>1. CASE b # 0
            <4>1. e.wallet = Root /\ Concrete(e)
                BY <2>7, <3>1 DEF Given
            <4>2. e.delta < 0
                BY <1>1, <2>2, <4>1 DEF Sane
            <4>3. k + 1 \in Reductions(ev)
                BY <1>1, <2>2, <4>1, <4>2 DEF Reductions, RootEvents
            <4> QED
                BY <2>1, <4>3
        <3>2. CASE b = 0 /\ a = 0
            BY <2>8, <3>2
        <3>3. CASE b = 0 /\ a # 0
            <4>1. PICK r \in Reductions(ev) : r <= k
                BY <2>3, <2>7, <3>3
            <4>2. r \in Nat
                BY <1>1 DEF Reductions, RootEvents
            <4> QED
                BY <2>1, <4>1, <4>2
        <3> QED
            BY <3>1, <3>2, <3>3
    <2>10. t.unresolved => u.unresolved
        BY <2>5 DEF Stepped, Follows
    <2>11. ASSUME ~u.unresolved
           PROVE  /\ Weight(u) = Weight(t) + Given(e)
                  /\ e.wallet = Root /\ Concrete(e) => u.depth[e.destination] > 0
        <3>1. Weight(t) = a
            BY <2>3, <2>7, <2>10, <2>11
        <3>2. ~(/\ Concrete(e) /\ ~Settlement(ev, e) /\ e.destination = Root /\ e.wallet # Root
                /\ LeftInLots(t) > 0)
            <4> SUFFICES ASSUME Concrete(e), ~Settlement(ev, e), e.destination = Root, e.wallet # Root,
                                LeftInLots(t) > 0
                         PROVE  FALSE
                OBVIOUS
            <4>1. k + 1 \in Incoming(ev)
                BY <1>1, <2>2 DEF Incoming
            <4>2. a # 0
                <5>1. LeftInLots(t) \in Nat /\ t.sold \in Nat /\ t.burned \in Nat
                    BY <2>3, WeightNat
                <5>2. Weight(t) = LeftInLots(t) + t.sold + t.burned
                    BY DEF Weight
                <5> QED
                    BY <3>1, <5>1, <5>2
            <4>3. PICK r \in Reductions(ev) : r <= k
                BY <2>3, <2>7, <4>2
            <4>4. r \in DOMAIN ev /\ r \in Nat /\ k + 1 \in DOMAIN ev
                BY <1>1, <2>2 DEF Reductions, RootEvents
            <4>5. r <= k + 1
                BY <2>1, <4>3, <4>4
            <4> QED
                BY <4>1, <4>4, <4>5
        <3> QED
            BY <2>5, <2>11, <3>2 DEF Stepped
    <2>12. u.unresolved \/ Weight(u) = GivenTo(ev, k + 1)
        <3> SUFFICES ASSUME ~u.unresolved
                     PROVE  Weight(u) = GivenTo(ev, k + 1)
            OBVIOUS
        <3>1. Weight(u) = a + b
            BY <2>3, <2>7, <2>10, <2>11
        <3>2. a + b = b + a
            OBVIOUS
        <3> QED
            BY <2>8, <3>1, <3>2
    <2>13. ASSUME NEW i \in 1..k + 1, ev[i].wallet = Root, Concrete(ev[i])
           PROVE  u.unresolved \/ u.depth[ev[i].destination] > 0
        <3> SUFFICES ASSUME ~u.unresolved
                     PROVE  u.depth[ev[i].destination] > 0
            OBVIOUS
        <3>1. CASE i = k + 1
            BY <2>11, <2>13, <3>1
        <3>2. CASE i # k + 1
            <4>1. i \in 1..k /\ i \in DOMAIN ev
                BY <1>1, <2>1, <2>2, <3>2
            <4>2. t.depth[ev[i].destination] > 0
                BY <2>3, <2>10, <2>13, <4>1
            <4>3. ev[i].destination \in Wallets
                BY <2>13, <4>1 DEF Sane
            <4> QED
                BY <2>5, <4>2, <4>3 DEF Stepped, Follows
        <3> QED
            BY <3>1, <3>2
    <2>14. GivenTo(ev, k + 1) \in Nat
        BY <2>8
    <2>15. Rooted(u) /\ u \in Traces
        BY <2>3, <2>5 DEF Stepped
    <2> QED
        BY <2>9, <2>12, <2>13, <2>14, <2>15 DEF Good, u
<1>6. N = Nat
    <2> HIDE DEF N
    <2> QED
        BY <1>4, <1>5, Induct DEF N
<1>7. Good(m)
    <2> HIDE DEF Good
    <2> QED
        BY <1>1, <1>6
<1> QED
    BY <1>7
-----------------------------------------------------------------------------
(***************************************************************************)
(* VERIFIED_OUT                                                            *)
(***************************************************************************)

\* What the verdict says of the events and the balances.
Verdict(ev, t) ==
    /\ \A w \in Traced(t) \cup {Root} : ~(balance[w] > 0)
    /\ Reductions(ev) # {} /\ ~Reacquired(ev) /\ ~(Reconstructed(ev) < 0)
    /\ \A i \in Reductions(ev) : ev[i].type \notin {"UNKNOWN", "LIQUIDITY_EVENT"}
    /\ ~t.unresolved
    /\ \A w \in Traced(t) : ~(Remaining(t, w) > balance[w])

\* What VERIFIED_OUT says of the events, the trace and the balances.
LEMMA VerdictSays ==
    ASSUME Report({}, TRUE) = "VERIFIED_OUT"
    PROVE  Verdict(Events, Trace(Events))
<1>1. PICK ev, t, found : ev = Events /\ t = Trace(ev) /\ found = Discovered(ev)
    OBVIOUS
<1>2. found \ {} = found
    OBVIOUS
<1>3. Status(ev, t, found, TRUE) = "VERIFIED_OUT"
    BY <1>1, <1>2 DEF Report
<1>4. /\ ~\E w \in (Traced(t) \cup {Root}) \cap found : balance[w] > 0
      /\ Traced(t) \cup {Root} \subseteq found
      /\ Reductions(ev) # {}
      /\ ~Reacquired(ev) /\ ~Unresolved(ev, t, found)
    BY <1>3 DEF Status
<1>5. Verdict(ev, t)
    BY <1>4 DEF Verdict, Unresolved
<1> QED
    BY <1>1, <1>5

\* Events of a sorted list are in the order of their seconds.
LEMMA EventsInTime ==
    ASSUME TypeOK, Sorted, NEW strict, NEW ev, NEW lost, NEW won, Tells(ev, strict, lost, won), Listed(ev),
           NEW j \in DOMAIN ev, NEW k \in DOMAIN ev, j <= k
    PROVE  ev[j].at <= ev[k].at
<1>1. ev[j].signature \in DOMAIN moves /\ ev[j].at = moves[ev[j].signature].at
    BY EventIs, FieldsOfEvents
<1>2. ev[k].signature \in DOMAIN moves /\ ev[k].at = moves[ev[k].signature].at
    BY EventIs, FieldsOfEvents
<1>3. ev[j].signature <= ev[k].signature
    BY DEF Listed
<1> QED
    BY <1>1, <1>2, <1>3 DEF Sorted

\* All of the lots of the seller are gone, and what it passed on was sold or burned.
LEMMA AllSpent ==
    ASSUME TypeOK, Sorted, NEW ev, NEW lost, NEW won, Tells(ev, TRUE, lost, won), Listed(ev),
           Verdict(ev, Trace(ev))
    PROVE  /\ Trace(ev) \in Traces /\ Rooted(Trace(ev))
           /\ Trace(ev).sold + Trace(ev).burned = GivenTo(ev, Len(ev))
           /\ \A w \in Wallets : Remaining(Trace(ev), w) = 0
           /\ \A i \in DOMAIN ev : ev[i].wallet = Root /\ Concrete(ev[i]) =>
                  Trace(ev).depth[ev[i].destination] > 0
<1>1. Sane(ev) /\ Len(ev) \in Nat /\ DOMAIN ev = 1..Len(ev)
    <2>1. PICK strict : strict = TRUE
        OBVIOUS
    <2>2. Sane(ev)
        BY <2>1, EventsSane
    <2> QED
        BY <2>2 DEF Listed
<1>2. PICK g : Records(g, ev) /\ Trace(ev) = g[Len(ev)]
    BY <1>1, TraceFolds
<1>3. ASSUME NEW i \in DOMAIN ev, NEW r \in DOMAIN ev, i \in Incoming(ev), r \in Reductions(ev), r <= i
      PROVE  FALSE
    <2>1. ev[r].at <= ev[i].at
        <3>1. PICK strict : strict = TRUE
            OBVIOUS
        <3>2. Tells(ev, strict, lost, won)
            BY <3>1
        <3> QED
            BY <1>3, <3>2, EventsInTime
    <2>2. ev[r].at \in Nat /\ ev[i].at \in Nat
        BY <1>1 DEF Sane
    <2>3. Reacquired(ev)
        BY <1>3, <2>1, <2>2 DEF Reacquired
    <2> QED
        BY <2>3 DEF Verdict
<1>4. PICK n, t : n = Len(ev) /\ t = Trace(ev)
    OBVIOUS
<1>5. n \in 0..Len(ev) /\ g[n] = t /\ ~t.unresolved
    BY <1>1, <1>2, <1>4 DEF Verdict
<1>6. /\ Rooted(g[n]) /\ g[n] \in Traces
      /\ g[n].unresolved \/ Weight(g[n]) = GivenTo(ev, n)
      /\ \A i \in 1..n : ev[i].wallet = Root /\ Concrete(ev[i]) =>
             g[n].unresolved \/ g[n].depth[ev[i].destination] > 0
    <2>1. \A i, r \in DOMAIN ev : i \in Incoming(ev) /\ r \in Reductions(ev) => ~(r <= i)
        BY <1>3
    <2> QED
        BY <1>1, <1>2, <1>5, <2>1, FoldFacts
<1>7. ASSUME NEW w \in Wallets
      PROVE  Remaining(t, w) = 0
    <2>1. Remaining(t, w) \in Nat /\ (t.lots[w] = <<>> => Remaining(t, w) = 0) /\ t.depth[w] \in Nat
        BY <1>5, <1>6, RemainingNat DEF Traces
    <2>2. CASE t.depth[w] > 0
        <3>1. w \in Traced(t)
            BY <2>2 DEF Traced
        <3>2. ~(balance[w] > 0) /\ ~(Remaining(t, w) > balance[w]) /\ balance[w] \in Nat
            BY <1>4, <3>1 DEF Verdict, TypeOK
        <3> QED
            BY <2>1, <3>2
    <2>3. CASE t.depth[w] = 0
        BY <1>5, <1>6, <2>1, <2>3 DEF Rooted
    <2> QED
        BY <2>1, <2>2, <2>3
<1>8. LeftInLots(t) = 0
    <2> DEFINE f == [w \in Wallets |-> Remaining(t, w)]
    <2>1. \A w \in Wallets : f[w] = 0
        BY <1>7
    <2>2. IsFiniteSet(Wallets)
        BY ExitVerdictAssumption
    <2> HIDE DEF f
    <2>3. SumFunctionOnSet(f, Wallets) = 0
        BY <2>1, <2>2, SumZero
    <2> QED
        BY <2>3 DEF LeftInLots, SumOver, f
<1>9. t.sold \in Nat /\ t.burned \in Nat
    BY <1>5, <1>6 DEF Traces
<1>10. Weight(t) = t.sold + t.burned
    BY <1>8, <1>9 DEF Weight
<1>11. t.sold + t.burned = GivenTo(ev, n)
    BY <1>5, <1>6, <1>10
<1>12. \A i \in DOMAIN ev : ev[i].wallet = Root /\ Concrete(ev[i]) => t.depth[ev[i].destination] > 0
    BY <1>1, <1>4, <1>5, <1>6
<1> QED
    BY <1>4, <1>5, <1>6, <1>7, <1>11, <1>12

\* What the seller parted with by proven reductions is the inventory the report saw.
LEMMA ReductionsAre ==
    ASSUME TypeOK, NEW strict, NEW ev, NEW lost, NEW won, Tells(ev, strict, lost, won),
           NEW r \in Reductions(ev)
    PROVE  /\ r \in DOMAIN ev /\ ev[r].wallet = Root /\ ev[r].delta \in Int /\ ev[r].delta < 0
           /\ ev[r] = Lost(ev[r].signature) /\ r = lost[ev[r].signature]
           /\ ev[r].type \in {"SELL", "BURN", "LIQUIDITY_EVENT", "UNKNOWN", "TRANSFER"}
<1>1. r \in DOMAIN ev /\ ev[r].wallet = Root /\ ev[r].delta < 0
    BY DEF Reductions, RootEvents
<1>2. PICK i : i = ev[r].signature
    OBVIOUS
<1>3. /\ i \in DOMAIN moves
      /\ (r = lost[i] /\ ev[r] = Lost(i)) \/ (r = won[i] /\ ev[r] = Won(i) /\ Shows(i, strict))
    BY <1>1, <1>2, EventIs
<1>4. PICK a \in Nat : a = moves[i].amount
    BY <1>3, KindsOfMoves
<1>5. Won(i).delta = a
    BY <1>4, FieldsOfEvents
<1>6. r = lost[i] /\ ev[r] = Lost(i)
    BY <1>1, <1>3, <1>4, <1>5
<1>7. Lost(i).type \in {"SELL", "BURN", "LIQUIDITY_EVENT", "UNKNOWN", "TRANSFER"}
    BY <1>3, KindsOfMoves, FieldsOfEvents
<1>8. ev[r].delta \in Int
    BY <1>1, DeltasOfEvents
<1> QED
    BY <1>1, <1>2, <1>6, <1>7, <1>8

\* What the seller gave is the sum of its transfers.
LEMMA GivenAre ==
    ASSUME NEW ev, Len(ev) \in Nat, DOMAIN ev = 1..Len(ev), Sane(ev),
           NEW f, \A i \in DOMAIN ev : f[i] = -ev[i].delta,
           NEW G, G = {i \in Reductions(ev) : Concrete(ev[i])}
    PROVE  GivenTo(ev, Len(ev)) = SumOver(G, f)
<1> DEFINE n == Len(ev)
           h == [i \in DOMAIN ev |-> Given(ev[i])]
           Z == (DOMAIN ev) \ G
<1>1. G \in SUBSET DOMAIN ev /\ DOMAIN ev = G \cup Z /\ G \cap Z = {}
    BY DEF Reductions, RootEvents
<1>2. IsFiniteSet(DOMAIN ev) /\ IsFiniteSet(G) /\ IsFiniteSet(Z)
    <2>1. IsFiniteSet(DOMAIN ev)
        BY FS_Interval
    <2> QED
        BY <1>1, <2>1, FS_Subset
<1>3. \A i \in G : h[i] = f[i] /\ f[i] \in Int
    <2> TAKE i \in G
    <2>1. i \in DOMAIN ev /\ ev[i].wallet = Root /\ Concrete(ev[i]) /\ ev[i].delta \in Int
        BY <1>1 DEF Reductions, RootEvents, Sane
    <2>2. h[i] = -ev[i].delta
        BY <2>1 DEF Given
    <2> QED
        BY <2>1, <2>2
<1>4. \A i \in Z : h[i] = 0
    <2> TAKE i \in Z
    <2>1. i \in DOMAIN ev /\ (Concrete(ev[i]) => ev[i].delta < 0)
        BY DEF Sane
    <2>2. ~(ev[i].wallet = Root /\ Concrete(ev[i]))
        BY <2>1 DEF Reductions, RootEvents
    <2> QED
        BY <2>1, <2>2 DEF Given
<1>5. GivenTo(ev, n) = SumFunctionOnSet(h, G \cup Z)
    BY <1>1 DEF GivenTo, SumOver
<1> HIDE DEF h, Z, n
<1>6. \A i \in G \cup Z : h[i] \in Int
    BY <1>3, <1>4
<1>7. SumFunctionOnSet(h, G \cup Z) = SumFunctionOnSet(h, G) + SumFunctionOnSet(h, Z)
    BY <1>1, <1>2, <1>6, SumUnion
<1>8. SumFunctionOnSet(h, Z) = 0
    BY <1>2, <1>4, SumZero
<1>9. SumFunctionOnSet(f, G) = SumFunctionOnSet(h, G)
    BY <1>2, <1>3, SumSame
<1>10. SumFunctionOnSet(h, G) \in Int
    BY <1>2, <1>6, SumInt
<1> QED
    BY <1>5, <1>7, <1>8, <1>9, <1>10 DEF SumOver, n

\* The inventory the report saw is what is left with the seller and what it parted with.
LEMMA ObservedIs ==
    ASSUME TypeOK, NEW strict, NEW ev, NEW lost, NEW won, Tells(ev, strict, lost, won), Sane(ev),
           ~(Reconstructed(ev) < 0),
           NEW f, \A i \in DOMAIN ev : f[i] = -ev[i].delta
    PROVE  ObservedInventory(ev) = balance[Root] + SumOver(Reductions(ev), f)
<1> DEFINE gain == [i \in DOMAIN ev |-> IF ev[i].delta < 0 THEN -ev[i].delta ELSE ev[i].delta]
           delta == [i \in DOMAIN ev |-> ev[i].delta]
           amount == [i \in DOMAIN ev |-> -ev[i].delta]
           A == Acquisitions(ev)
           R == Reductions(ev)
           E == RootEvents(ev)
           I == Incoming(ev)
<1>1. \A i \in DOMAIN ev : ev[i].delta \in Int /\ ev[i].delta # 0 /\ (Concrete(ev[i]) => ev[i].delta < 0)
    BY DEF Sane
<1>2. /\ E \in SUBSET DOMAIN ev /\ I \in SUBSET DOMAIN ev /\ E = A \cup R /\ A \cap R = {}
      /\ \A i \in A : ev[i].delta > 0 /\ i \in DOMAIN ev
      /\ \A i \in R : ev[i].delta < 0 /\ i \in DOMAIN ev
      /\ \A i \in I : ev[i].delta < 0 /\ i \in DOMAIN ev
    BY <1>1 DEF RootEvents, Incoming, Acquisitions, Reductions
<1>3. \A i \in DOMAIN ev : /\ gain[i] = IF ev[i].delta < 0 THEN -ev[i].delta ELSE ev[i].delta
                           /\ delta[i] = ev[i].delta /\ amount[i] = -ev[i].delta
                           /\ gain[i] \in Int /\ delta[i] \in Int /\ amount[i] \in Int /\ f[i] \in Int
    BY <1>1
<1>4. /\ Reconstructed(ev) = balance[Root] - (SumOver(E, delta) + SumOver(I, amount))
      /\ ObservedInventory(ev) = (IF Reconstructed(ev) > 0 THEN Reconstructed(ev) ELSE 0)
                                     + SumOver(A, gain) + SumOver(I, gain)
    BY DEF Reconstructed, NetDelta, ObservedInventory
<1>5. IsFiniteSet(DOMAIN ev) /\ IsFiniteSet(A) /\ IsFiniteSet(R) /\ IsFiniteSet(I) /\ IsFiniteSet(E)
    <2>1. IsFiniteSet(DOMAIN ev)
        BY DEF Tells
    <2>2. A \in SUBSET DOMAIN ev /\ R \in SUBSET DOMAIN ev
        BY <1>2
    <2> HIDE DEF A, R, I, E
    <2> QED
        BY <1>2, <2>1, <2>2, FS_Subset
<1> HIDE DEF gain, delta, amount, A, R, E, I
<1>6. SumFunctionOnSet(delta, A \cup R) = SumFunctionOnSet(delta, A) + SumFunctionOnSet(delta, R)
    <2>1. \A i \in A \cup R : delta[i] \in Int
        BY <1>2, <1>3
    <2> QED
        BY <1>2, <1>5, <2>1, SumUnion
<1>7. SumFunctionOnSet(delta, A) = SumFunctionOnSet(gain, A) /\ SumFunctionOnSet(delta, A) \in Int
    <2>1. \A i \in A : delta[i] \in Int /\ gain[i] = delta[i]
        BY <1>2, <1>3
    <2>2. SumFunctionOnSet(delta, A) = SumFunctionOnSet(gain, A)
        BY <1>5, <2>1, SumSame
    <2>3. SumFunctionOnSet(delta, A) \in Int
        BY <1>5, <2>1, SumInt
    <2> QED
        BY <2>2, <2>3
<1>8. SumFunctionOnSet(amount, I) = SumFunctionOnSet(gain, I) /\ SumFunctionOnSet(amount, I) \in Int
    <2>1. \A i \in I : amount[i] \in Int /\ gain[i] = amount[i]
        BY <1>2, <1>3
    <2>2. SumFunctionOnSet(amount, I) = SumFunctionOnSet(gain, I)
        BY <1>5, <2>1, SumSame
    <2>3. SumFunctionOnSet(amount, I) \in Int
        BY <1>5, <2>1, SumInt
    <2> QED
        BY <2>2, <2>3
<1>9. /\ SumFunctionOnSet(delta, R) + SumFunctionOnSet(f, R) = 0
      /\ SumFunctionOnSet(delta, R) \in Int /\ SumFunctionOnSet(f, R) \in Int
    <2> DEFINE z == [i \in R |-> 0]
    <2>1. \A i \in R : delta[i] \in Int /\ f[i] \in Int /\ z[i] = delta[i] + f[i]
        <3> TAKE i \in R
        <3>1. PICK d \in Int : d = ev[i].delta
            BY <1>1, <1>2
        <3>2. delta[i] = d /\ f[i] = -d /\ z[i] = 0
            BY <1>2, <1>3, <3>1
        <3> QED
            BY <3>2
    <2>2. \A i \in R : z[i] = 0
        OBVIOUS
    <2> HIDE DEF z
    <2>3. SumFunctionOnSet(z, R) = SumFunctionOnSet(delta, R) + SumFunctionOnSet(f, R)
        BY <1>5, <2>1, SumPlus
    <2>4. SumFunctionOnSet(z, R) = 0
        BY <1>5, <2>2, SumZero
    <2>5. SumFunctionOnSet(delta, R) \in Int
        <3>1. \A i \in R : delta[i] \in Int
            BY <2>1
        <3> QED
            BY <1>5, <3>1, SumInt
    <2>6. SumFunctionOnSet(f, R) \in Int
        <3>1. \A i \in R : f[i] \in Int
            BY <2>1
        <3> QED
            BY <1>5, <3>1, SumInt
    <2> QED
        BY <2>3, <2>4, <2>5, <2>6
<1>10. PICK a \in Int, c \in Int, d \in Int, x \in Int :
           a = SumFunctionOnSet(delta, A) /\ c = SumFunctionOnSet(amount, I)
           /\ d = SumFunctionOnSet(delta, R) /\ x = SumFunctionOnSet(f, R)
    BY <1>7, <1>8, <1>9
<1>11. PICK b \in Nat : b = balance[Root]
    BY ExitVerdictAssumption DEF TypeOK
<1>12. SumOver(E, delta) = a + d /\ SumOver(I, amount) = c /\ SumOver(A, gain) = a /\ SumOver(I, gain) = c
       /\ SumOver(R, f) = x /\ d + x = 0
    BY <1>2, <1>6, <1>7, <1>8, <1>9, <1>10 DEF SumOver
<1>13. PICK s \in Int : s = Reconstructed(ev)
    BY <1>4, <1>11, <1>12
<1>14. s = b - ((a + d) + c) /\ ~(s < 0)
    BY <1>4, <1>11, <1>12, <1>13
<1>15. ObservedInventory(ev) = s + a + c
    <2>1. (IF s > 0 THEN s ELSE 0) = s
        BY <1>14
    <2> QED
        BY <1>4, <1>12, <1>13, <2>1
<1>16. s + a + c = b + x
    BY <1>12, <1>14
<1> QED
    BY <1>11, <1>12, <1>15, <1>16 DEF R

\* VERIFIED_OUT accounts for every unit the seller had and received.
THEOREM ConservationHolds == Spec => []Conservation
<1>1. ASSUME TypeOK, Sorted
      PROVE  Conservation
    <2> DEFINE ev == Events
               t == Trace(ev)
               amount == [i \in DOMAIN ev |-> -ev[i].delta]
               disposed == {i \in Reductions(ev) : ev[i].type \in {"SELL", "BURN"}}
    <2> SUFFICES ASSUME Report({}, TRUE) = "VERIFIED_OUT"
                 PROVE  SumOver(disposed, amount) + t.sold + t.burned = ObservedInventory(ev)
        BY DEF Conservation
    <2>1. Verdict(ev, t)
        BY VerdictSays
    <2>2. PICK strict : strict = TRUE
        OBVIOUS
    <2>3. Listed(ev) /\ \E lost, won : Tells(ev, strict, lost, won)
        BY <1>1, <2>2, EventsListed DEF Events
    <2>4. PICK lost, won : Tells(ev, strict, lost, won)
        BY <2>3
    <2> HIDE DEF ev
    <2>5. Sane(ev) /\ Len(ev) \in Nat /\ DOMAIN ev = 1..Len(ev)
        BY <1>1, <2>3, <2>4, EventsSane DEF Listed
    <2>6. t \in Traces /\ t.sold + t.burned = GivenTo(ev, Len(ev))
        <3>1. Tells(ev, TRUE, lost, won)
            BY <2>2, <2>4
        <3> QED
            BY <1>1, <2>1, <2>3, <3>1, AllSpent
    <2>7. \A i \in DOMAIN ev : amount[i] = -ev[i].delta
        OBVIOUS
    <2> DEFINE G == {i \in Reductions(ev) : Concrete(ev[i])}
    <2>8. \A r \in Reductions(ev) : r \in disposed \/ r \in G
        <3> TAKE r \in Reductions(ev)
        <3>1. ev[r].type \in {"SELL", "BURN", "LIQUIDITY_EVENT", "UNKNOWN", "TRANSFER"}
            BY <1>1, <2>4, ReductionsAre
        <3>2. ev[r].type \notin {"UNKNOWN", "LIQUIDITY_EVENT"}
            BY <2>1 DEF Verdict
        <3> QED
            BY <3>1, <3>2 DEF Concrete
    <2>9. Reductions(ev) = disposed \cup G /\ disposed \cap G = {}
        BY <2>8 DEF Concrete
    <2>10. IsFiniteSet(disposed) /\ IsFiniteSet(G) /\ \A i \in disposed \cup G : amount[i] \in Int
        <3>1. IsFiniteSet(DOMAIN ev)
            BY <2>4 DEF Tells
        <3>2. disposed \in SUBSET DOMAIN ev /\ G \in SUBSET DOMAIN ev
            BY DEF Reductions, RootEvents
        <3>3. \A i \in DOMAIN ev : amount[i] \in Int
            <4> TAKE i \in DOMAIN ev
            <4>1. ev[i].delta \in Int
                BY <2>5 DEF Sane
            <4> QED
                BY <4>1
        <3> HIDE DEF disposed, G, amount
        <3> QED
            BY <3>1, <3>2, <3>3, FS_Subset
    <2>11. GivenTo(ev, Len(ev)) = SumOver(G, amount)
        <3> HIDE DEF amount
        <3>1. PICK H : H = G
            OBVIOUS
        <3> QED
            BY <2>5, <2>7, <3>1, GivenAre
    <2>12. ObservedInventory(ev) = balance[Root] + SumOver(Reductions(ev), amount)
        <3>1. ~(Reconstructed(ev) < 0)
            BY <2>1 DEF Verdict
        <3> HIDE DEF amount, t, disposed, G
        <3> QED
            BY <1>1, <2>4, <2>5, <2>7, <3>1, ObservedIs
    <2>13. balance[Root] = 0
        <3>1. balance[Root] \in Nat
            BY <1>1, ExitVerdictAssumption DEF TypeOK
        <3>2. ~(balance[Root] > 0)
            BY <2>1 DEF Verdict
        <3> QED
            BY <3>1, <3>2
    <2> HIDE DEF amount, disposed, G, t
    <2>14. /\ SumFunctionOnSet(amount, disposed \cup G)
                 = SumFunctionOnSet(amount, disposed) + SumFunctionOnSet(amount, G)
           /\ SumFunctionOnSet(amount, disposed) \in Int /\ SumFunctionOnSet(amount, G) \in Int
        <3>1. SumFunctionOnSet(amount, disposed \cup G)
                  = SumFunctionOnSet(amount, disposed) + SumFunctionOnSet(amount, G)
            BY <2>9, <2>10, SumUnion
        <3>2. \A i \in disposed : amount[i] \in Int
            BY <2>10
        <3>3. \A i \in G : amount[i] \in Int
            BY <2>10
        <3>4. SumFunctionOnSet(amount, disposed) \in Int
            BY <2>10, <3>2, SumInt
        <3>5. SumFunctionOnSet(amount, G) \in Int
            BY <2>10, <3>3, SumInt
        <3> QED
            BY <3>1, <3>4, <3>5
    <2>15. PICK x \in Int, y \in Int, s \in Nat, b \in Nat :
               x = SumOver(disposed, amount) /\ y = SumOver(G, amount) /\ s = t.sold /\ b = t.burned
        BY <2>6, <2>14 DEF SumOver, Traces
    <2>16. s + b = y
        BY <2>6, <2>11, <2>15
    <2>17. ObservedInventory(ev) = 0 + (x + y)
        BY <2>9, <2>12, <2>13, <2>14, <2>15 DEF SumOver
    <2>18. x + s + b = 0 + (x + y)
        BY <2>16
    <2> QED
        BY <2>15, <2>17, <2>18
<1>2. TypeOK /\ Balanced /\ Sorted /\ [Next]_vars => (TypeOK /\ Balanced /\ Sorted)'
    BY StaysBalanced, StaysSorted
<1>3. Init => TypeOK /\ Balanced /\ Sorted
    BY StartsBalanced, StaysSorted
<1> QED
    BY <1>1, <1>2, <1>3, PTL DEF Spec
-----------------------------------------------------------------------------
(***************************************************************************)
(* The rows of the wallet report                                           *)
(***************************************************************************)

\* What a row of the wallet report shows: without the increases that nothing
\* explains, an unclear one is not seen.
RowGain(i, strict) ==
    IF moves[i].to = Root /\ moves[i].kind = "unclear" /\ ~strict THEN 0 ELSE Gain(moves[i], Root)

\* A row of the wallet report is what its transaction brought the seller, as far as the
\* report sees it.
LEMMA RowIs ==
    ASSUME TypeOK, NEW strict \in BOOLEAN, NEW i \in DOMAIN moves
    PROVE  RowDelta(Normalized(strict), i) = RowGain(i, strict)
<1>1. PICK lost, won : Tells(Normalized(strict), strict, lost, won)
    BY EventsTell
<1>2. PICK ev : ev = Normalized(strict)
    OBVIOUS
<1> DEFINE delta == [j \in DOMAIN ev |-> IF ev[j].wallet = Root THEN ev[j].delta ELSE -ev[j].delta]
           A == Evidence(ev, i)
           m == moves[i]
<1>3. Tells(ev, strict, lost, won) /\ Normalized(strict) = ev
    BY <1>1, <1>2
<1>4. A \in SUBSET DOMAIN ev /\ \A j \in A : ev[j].signature = i
    BY DEF Evidence, RootEvents
<1>5. \A j \in DOMAIN ev : delta[j] \in Int
    BY <1>3, DeltasOfEvents
<1>6. RowDelta(ev, i) = SumOver(A, delta)
    BY DEF RowDelta
<1>7. lost[i] \in DOMAIN ev /\ ev[lost[i]] = Lost(i)
    BY <1>3 DEF Tells
<1>8. Shows(i, strict) => won[i] \in DOMAIN ev /\ ev[won[i]] = Won(i)
    BY <1>3 DEF Tells
<1>9. \A j \in DOMAIN ev : ev[j].signature = i => j = lost[i] \/ (Shows(i, strict) /\ j = won[i])
    <2> TAKE j \in DOMAIN ev
    <2>1. PICK k \in DOMAIN moves : j = lost[k] \/ (Shows(k, strict) /\ j = won[k])
        BY <1>3 DEF Tells
    <2>2. ev[j] = Lost(k) \/ ev[j] = Won(k)
        BY <1>3, <2>1 DEF Tells
    <2>3. ev[j].signature = k
        BY <2>2, FieldsOfEvents
    <2> QED
        BY <2>1, <2>3
<1>10. Shows(i, strict) <=> m.kind = "buy" \/ (strict /\ m.kind \in {"sell", "liquidity", "unclear"})
    BY DEF Shows
<1>11. SumOver(A, delta) = Share(A, delta, i, strict, lost, won)
    <2>1. \A j \in A : delta[j] \in Int
        BY <1>4, <1>5
    <2> HIDE DEF A, delta
    <2> QED
        BY <1>3, <1>4, <2>1, ShareSums
<1> DEFINE own == {j \in RootEvents(ev) : ev[j].signature = i}
           inbound == {j \in DOMAIN ev : /\ ev[j].signature = i /\ Concrete(ev[j])
                                         /\ ev[j].destination = Root}
<1>12. A = IF own # {} THEN own ELSE inbound
    BY DEF Evidence
<1>13. lost[i] \in own <=> m.from = Root
    BY <1>7, FieldsOfEvents DEF RootEvents
<1>14. Shows(i, strict) => (won[i] \in own <=> m.to = Root)
    BY <1>8, FieldsOfEvents DEF RootEvents
<1>15. \A j \in own : j = lost[i] \/ (Shows(i, strict) /\ j = won[i])
    BY <1>9 DEF RootEvents
<1>16. lost[i] \in inbound <=> m.kind \in {"buy", "gift", "transfer"} /\ m.to = Root
    <2>1. Concrete(Lost(i)) <=> m.kind \in {"buy", "gift", "transfer"}
        BY ConcreteMoves
    <2> QED
        BY <1>7, <2>1, FieldsOfEvents
<1>17. Shows(i, strict) => won[i] \notin inbound
    BY <1>8, ConcreteMoves
<1>18. PICK a \in Nat \ {0} : a = m.amount
    BY KindsOfMoves
<1>19. /\ m.to = Root => m.from # Root
       /\ m.kind \in {"buy", "gift", "transfer", "unclear"} \/ m.to # Root
       /\ m.kind \in {"gift", "transfer"} => ~Shows(i, strict)
       /\ m.kind = "buy" => Shows(i, strict)
       /\ m.kind = "unclear" => (Shows(i, strict) <=> strict)
    BY <1>10, KindsOfMoves
<1>20. /\ m.from = Root => delta[lost[i]] = -a
       /\ m.from # Root => delta[lost[i]] = a
       /\ Shows(i, strict) /\ m.to = Root => delta[won[i]] = a
    <2>1. Lost(i).delta = -a /\ Lost(i).wallet = m.from /\ Won(i).delta = a /\ Won(i).wallet = m.to
        BY <1>18, FieldsOfEvents
    <2>2. delta[lost[i]] = IF m.from = Root THEN -a ELSE -(-a)
        BY <1>7, <2>1
    <2>3. Shows(i, strict) /\ m.to = Root => delta[won[i]] = a
        BY <1>8, <2>1
    <2>4. -(-a) = a
        BY <1>18
    <2> QED
        BY <2>2, <2>3, <2>4
<1>21. Gain(m, Root) = (IF m.to = Root THEN a ELSE 0) - (IF m.from = Root THEN a ELSE 0)
    BY <1>18 DEF Gain
<1> DEFINE total == Share(A, delta, i, strict, lost, won)
<1> HIDE DEF A, delta, own, inbound, m, total
<1>22. RowGain(i, strict) = IF m.to = Root /\ m.kind = "unclear" /\ ~strict THEN 0 ELSE Gain(m, Root)
    BY DEF RowGain, m
<1>23. total = RowGain(i, strict)
    <2>1. CASE m.from = Root
        <3>1. lost[i] \in A /\ ~(Shows(i, strict) /\ won[i] \in A)
            BY <1>12, <1>13, <1>14, <1>19, <2>1
        <3>2. total = -a + 0 /\ RowGain(i, strict) = 0 - a
            BY <1>22, <1>19, <1>20, <1>21, <2>1, <3>1 DEF Share, total
        <3> QED
            BY <3>2
    <2>2. CASE m.to = Root /\ Shows(i, strict)
        <3>1. won[i] \in A /\ lost[i] \notin A
            BY <1>12, <1>13, <1>14, <1>19, <2>2
        <3>2. total = 0 + a /\ RowGain(i, strict) = a - 0
            BY <1>22, <1>19, <1>20, <1>21, <2>2, <3>1 DEF Share, total
        <3> QED
            BY <3>2
    <2>3. CASE m.to = Root /\ ~Shows(i, strict) /\ m.kind # "unclear"
        <3>1. own = {} /\ A = inbound /\ lost[i] \in A
            BY <1>12, <1>13, <1>15, <1>16, <1>19, <2>3
        <3>2. total = a + 0 /\ RowGain(i, strict) = a - 0
            BY <1>22, <1>19, <1>20, <1>21, <2>3, <3>1 DEF Share, total
        <3> QED
            BY <3>2
    <2>4. CASE m.to # Root /\ m.from # Root
        <3>1. lost[i] \notin A /\ ~(Shows(i, strict) /\ won[i] \in A)
            BY <1>12, <1>13, <1>14, <1>16, <1>17, <2>4
        <3>2. total = 0 + 0 /\ RowGain(i, strict) = 0 - 0
            BY <1>22, <1>21, <2>4, <3>1 DEF Share, total
        <3> QED
            BY <3>2
    <2>5. CASE m.to = Root /\ ~Shows(i, strict) /\ m.kind = "unclear"
        <3>1. lost[i] \notin A /\ ~strict
            BY <1>12, <1>13, <1>15, <1>16, <1>19, <2>5
        <3>2. total = 0 + 0
            BY <2>5, <3>1 DEF Share, total
        <3> QED
            BY <1>22, <2>5, <3>1, <3>2
    <2> QED
        BY <2>1, <2>2, <2>3, <2>4, <2>5
<1> QED
    BY <1>3, <1>6, <1>11, <1>23 DEF m, total
\* Only what the seller parts with reduces it in a row.
LEMMA RowReduces ==
    ASSUME TypeOK, NEW strict \in BOOLEAN, NEW i \in DOMAIN moves
    PROVE  /\ moves[i].from = Root =>
                  /\ Evidence(Normalized(strict), i) # {}
                  /\ Reductive(Normalized(strict), i) = {Lost(i).type}
           /\ moves[i].from # Root => Reductive(Normalized(strict), i) = {}
<1>1. PICK lost, won : Tells(Normalized(strict), strict, lost, won)
    BY EventsTell
<1>2. PICK ev : ev = Normalized(strict)
    OBVIOUS
<1>3. Tells(ev, strict, lost, won)
    BY <1>1, <1>2
<1>4. lost[i] \in DOMAIN ev /\ ev[lost[i]] = Lost(i)
    BY <1>3 DEF Tells
<1>5. \A j \in DOMAIN ev : ev[j].signature = i =>
          j = lost[i] \/ (j \in DOMAIN ev /\ ev[j] = Won(i) /\ Shows(i, strict) /\ j = won[i])
    <2> TAKE j \in DOMAIN ev
    <2>1. PICK k \in DOMAIN moves : j = lost[k] \/ (Shows(k, strict) /\ j = won[k])
        BY <1>3 DEF Tells
    <2>2. ev[j] = Lost(k) \/ ev[j] = Won(k)
        BY <1>3, <2>1 DEF Tells
    <2>3. ev[j].signature = k
        BY <2>2, FieldsOfEvents
    <2>4. j = won[k] /\ Shows(k, strict) => ev[j] = Won(k)
        BY <1>3 DEF Tells
    <2> QED
        BY <2>1, <2>3, <2>4
<1>6. PICK a \in Nat \ {0} : a = moves[i].amount
    BY KindsOfMoves
<1>7. /\ Lost(i).signature = i /\ Lost(i).wallet = moves[i].from /\ Won(i).wallet = moves[i].to
      /\ Lost(i).delta = -a /\ Won(i).delta = a
    BY <1>6, FieldsOfEvents
<1>8. moves[i].from = Root => moves[i].to # Root
    BY KindsOfMoves
<1> DEFINE own == {j \in RootEvents(ev) : ev[j].signature = i}
           inbound == {j \in DOMAIN ev : /\ ev[j].signature = i /\ Concrete(ev[j])
                                         /\ ev[j].destination = Root}
<1>9. Evidence(ev, i) = IF own # {} THEN own ELSE inbound
    BY DEF Evidence
<1>10. /\ own \subseteq {j \in DOMAIN ev : ev[j].signature = i /\ ev[j].wallet = Root}
       /\ inbound \subseteq {j \in DOMAIN ev : ev[j].signature = i}
       /\ lost[i] \in own <=> moves[i].from = Root
    BY <1>4, <1>7 DEF RootEvents
<1> DEFINE E == Evidence(ev, i)
<1>11. \A j \in E : j \in DOMAIN ev /\ ev[j].signature = i
    BY <1>9, <1>10
<1>12. Reductive(ev, i) = {ev[j].type : j \in {k \in E : ev[k].wallet = Root /\ ev[k].delta < 0}}
    BY DEF Reductive
<1>13. \A j \in E : ev[j].wallet = Root /\ ev[j].delta < 0 => j = lost[i] /\ moves[i].from = Root
    <2> SUFFICES ASSUME NEW j \in E, ev[j].wallet = Root, ev[j].delta < 0
                 PROVE  j = lost[i] /\ moves[i].from = Root
        OBVIOUS
    <2>1. j = lost[i] \/ ev[j] = Won(i)
        BY <1>5, <1>11
    <2>2. ev[j] # Won(i)
        BY <1>6, <1>7
    <2> QED
        BY <1>4, <1>7, <2>1, <2>2
<1>14. moves[i].from = Root => lost[i] \in E /\ ev[lost[i]].wallet = Root /\ ev[lost[i]].delta < 0
    BY <1>4, <1>6, <1>7, <1>9, <1>10
<1> HIDE DEF E
<1>15. moves[i].from = Root => Reductive(ev, i) = {Lost(i).type} /\ E # {}
    BY <1>4, <1>12, <1>13, <1>14
<1>16. moves[i].from # Root => Reductive(ev, i) = {}
    BY <1>12, <1>13
<1> QED
    BY <1>2, <1>15, <1>16 DEF E

\* The inventory after a row, run up from the start, is the balance less what the
\* later rows brought.
LEMMA RunningBack ==
    ASSUME TypeOK, NEW strict \in BOOLEAN, NEW ev, ev = Normalized(strict), NEW s \in Int,
           NEW row, \A r \in DOMAIN moves : row[r] = RowGain(r, strict)
    PROVE  /\ Running(ev, s) = balance[Root] - SumOver({r \in DOMAIN moves : ~(r <= s)}, row)
           /\ SumOver({r \in DOMAIN moves : ~(r <= s)}, row) \in Int
           /\ Starting(ev) = balance[Root] - SumOver(DOMAIN moves, row)
           /\ SumOver(DOMAIN moves, row) \in Int
<1> DEFINE delta == [r \in DOMAIN moves |-> RowDelta(ev, r)]
           T == Timeline(ev)
           silent == (DOMAIN moves) \ T
           early == {r \in T : r <= s}
           late == {r \in T : ~(r <= s)}
           quiet == {r \in silent : ~(r <= s)}
           all == {r \in DOMAIN moves : ~(r <= s)}
<1>1. IsFiniteSet(DOMAIN moves)
    BY FS_Interval DEF TypeOK
<1>2. \A r \in DOMAIN moves : delta[r] = row[r] /\ row[r] \in Int
    <2> TAKE r \in DOMAIN moves
    <2>1. RowDelta(ev, r) = RowGain(r, strict)
        BY RowIs
    <2>2. RowGain(r, strict) \in Int
        BY KindsOfMoves DEF RowGain
    <2> QED
        BY <2>1, <2>2
<1>3. \A r \in silent : row[r] = 0
    <2> TAKE r \in silent
    <2>1. r \in DOMAIN moves /\ Evidence(ev, r) = {}
        BY DEF Timeline
    <2>2. RowDelta(ev, r) = 0
        BY <2>1, FS_EmptySet, SumInt DEF RowDelta, SumOver
    <2> QED
        BY <1>2, <2>1, <2>2
<1>4. T \in SUBSET DOMAIN moves
    BY DEF Timeline
<1>5. /\ IsFiniteSet(T) /\ IsFiniteSet(silent) /\ IsFiniteSet(early) /\ IsFiniteSet(late)
      /\ IsFiniteSet(quiet)
    BY <1>1, <1>4, FS_Subset
<1>6. /\ T = early \cup late /\ early \cap late = {}
      /\ all = late \cup quiet /\ late \cap quiet = {}
      /\ DOMAIN moves = T \cup silent /\ T \cap silent = {}
    BY <1>4
<1>7. /\ Starting(ev) = balance[Root] - SumOver(T, delta)
      /\ Running(ev, s) = Starting(ev) + SumOver(early, delta)
    BY DEF Starting, Running
<1>8. /\ \A r \in T : delta[r] = row[r] /\ row[r] \in Int /\ delta[r] \in Int
      /\ \A r \in early : delta[r] = row[r] /\ row[r] \in Int /\ delta[r] \in Int
      /\ \A r \in late : row[r] \in Int
      /\ \A r \in quiet : row[r] = 0 /\ row[r] \in Int
      /\ \A r \in silent : row[r] = 0 /\ row[r] \in Int
    BY <1>2, <1>3, <1>4
<1> HIDE DEF delta, T, silent, early, late, quiet, all
<1>9. SumFunctionOnSet(delta, T) = SumFunctionOnSet(row, T) /\ SumFunctionOnSet(row, T) \in Int
    BY <1>5, <1>8, SumSame, SumInt
<1>10. /\ SumFunctionOnSet(delta, early) = SumFunctionOnSet(row, early)
       /\ SumFunctionOnSet(row, early) \in Int
    BY <1>5, <1>8, SumSame, SumInt
<1>11. SumFunctionOnSet(row, late) \in Int
    BY <1>5, <1>8, SumInt
<1>12. SumFunctionOnSet(row, quiet) = 0 /\ SumFunctionOnSet(row, silent) = 0
    BY <1>5, <1>8, SumZero
<1>13. SumFunctionOnSet(row, early \cup late) = SumFunctionOnSet(row, early) + SumFunctionOnSet(row, late)
    <2>1. \A r \in early \cup late : row[r] \in Int
        BY <1>8
    <2> QED
        BY <1>5, <1>6, <2>1, SumUnion
<1>14. SumFunctionOnSet(row, late \cup quiet) = SumFunctionOnSet(row, late) + SumFunctionOnSet(row, quiet)
    <2>1. \A r \in late \cup quiet : row[r] \in Int
        BY <1>8
    <2> QED
        BY <1>5, <1>6, <2>1, SumUnion
<1>15. SumFunctionOnSet(row, T \cup silent) = SumFunctionOnSet(row, T) + SumFunctionOnSet(row, silent)
    <2>1. \A r \in T \cup silent : row[r] \in Int
        BY <1>8
    <2> QED
        BY <1>5, <1>6, <2>1, SumUnion
<1>16. PICK x \in Int, y \in Int : x = SumFunctionOnSet(row, early) /\ y = SumFunctionOnSet(row, late)
    BY <1>10, <1>11
<1>17. PICK b \in Int : b = balance[Root]
    BY ExitVerdictAssumption DEF TypeOK
<1>18. SumFunctionOnSet(row, T) = x + y
    BY <1>6, <1>13, <1>16
<1>19. SumFunctionOnSet(row, all) = y + 0
    BY <1>6, <1>12, <1>14, <1>16
<1>20. SumFunctionOnSet(row, DOMAIN moves) = (x + y) + 0
    BY <1>6, <1>12, <1>15, <1>18
<1>21. Starting(ev) = b - (x + y)
    BY <1>7, <1>9, <1>17, <1>18 DEF SumOver
<1>22. Running(ev, s) = (b - (x + y)) + x
    BY <1>7, <1>10, <1>16, <1>21 DEF SumOver
<1>23. Running(ev, s) = b - SumFunctionOnSet(row, all) /\ SumFunctionOnSet(row, all) \in Int
    BY <1>19, <1>22
<1>24. Starting(ev) = b - SumFunctionOnSet(row, DOMAIN moves) /\ SumFunctionOnSet(row, DOMAIN moves) \in Int
    BY <1>20, <1>21
<1> QED
    BY <1>17, <1>23, <1>24 DEF SumOver, all
\* A row never shows more than the transaction brought.
LEMMA RunningAtLeast ==
    ASSUME TypeOK, Balanced, NEW strict \in BOOLEAN, NEW ev, ev = Normalized(strict), NEW s \in 0..Len(moves)
    PROVE  /\ Running(ev, s) \in Int /\ opening[Root] + SumOver(1..s, Brought(Root)) \in Int
           /\ Running(ev, s) >= opening[Root] + SumOver(1..s, Brought(Root))
           /\ Starting(ev) \in Int /\ Starting(ev) >= opening[Root]
<1> DEFINE row == [r \in DOMAIN moves |-> RowGain(r, strict)]
           brought == Brought(Root)
           extra == [r \in DOMAIN moves |-> brought[r] - row[r]]
           late == {r \in DOMAIN moves : ~(r <= s)}
           early == 1..s
           all == DOMAIN moves
<1>1. all = 1..Len(moves) /\ Len(moves) \in Nat
    BY DEF TypeOK
<1>2. /\ IsFiniteSet(all) /\ IsFiniteSet(late) /\ IsFiniteSet(early)
      /\ early \cup late = all /\ early \cap late = {}
    <2>1. IsFiniteSet(all)
        BY <1>1, FS_Interval
    <2>2. early \in SUBSET all /\ late \in SUBSET all /\ early \cup late = all /\ early \cap late = {}
        BY <1>1
    <2> HIDE DEF all, late, early
    <2> QED
        BY <2>1, <2>2, FS_Subset
<1>3. \A r \in all : /\ row[r] \in Int /\ brought[r] \in Int /\ extra[r] \in Nat /\ extra[r] \in Int
                     /\ brought[r] = row[r] + extra[r]
    <2> TAKE r \in all
    <2>1. PICK a \in Nat \ {0} : a = moves[r].amount
        BY KindsOfMoves
    <2>2. moves[r].to = Root => moves[r].from # Root
        BY KindsOfMoves
    <2>3. Gain(moves[r], Root) = (IF moves[r].to = Root THEN a ELSE 0) - (IF moves[r].from = Root THEN a ELSE 0)
        BY <2>1 DEF Gain
    <2>4. brought[r] = Gain(moves[r], Root) /\ row[r] = RowGain(r, strict)
        BY DEF Brought
    <2>5. extra[r] = Gain(moves[r], Root) - RowGain(r, strict)
        BY <2>4
    <2>6. CASE moves[r].to = Root /\ moves[r].kind = "unclear" /\ ~strict
        <3>1. RowGain(r, strict) = 0 /\ Gain(moves[r], Root) = a - 0
            BY <2>2, <2>3, <2>6 DEF RowGain
        <3> QED
            BY <2>4, <2>5, <3>1
    <2>7. CASE ~(moves[r].to = Root /\ moves[r].kind = "unclear" /\ ~strict)
        <3>1. PICK g \in Int : g = Gain(moves[r], Root)
            BY KindsOfMoves
        <3>2. RowGain(r, strict) = g
            BY <2>7, <3>1 DEF RowGain
        <3> QED
            BY <2>4, <2>5, <3>1, <3>2
    <2> QED
        BY <2>6, <2>7
<1>4. \A r \in DOMAIN moves : row[r] = RowGain(r, strict)
    OBVIOUS
<1> HIDE DEF row, extra, brought
<1>5. /\ Running(ev, s) = balance[Root] - SumFunctionOnSet(row, late)
      /\ SumFunctionOnSet(row, late) \in Int
      /\ Starting(ev) = balance[Root] - SumFunctionOnSet(row, all)
      /\ SumFunctionOnSet(row, all) \in Int
    <2>1. s \in Int
        OBVIOUS
    <2> QED
        BY <1>4, <2>1, RunningBack DEF SumOver
<1>6. balance[Root] = opening[Root] + SumFunctionOnSet(brought, all)
    BY ExitVerdictAssumption DEF Balanced, SumOver, brought
<1>7. /\ \A r \in late : /\ row[r] \in Int /\ brought[r] \in Int /\ extra[r] \in Nat /\ extra[r] \in Int
                         /\ brought[r] = row[r] + extra[r]
      /\ \A r \in early : brought[r] \in Int
      /\ \A r \in early \cup late : brought[r] \in Int
    BY <1>2, <1>3
<1> HIDE DEF late, early, all
<1>8. /\ SumFunctionOnSet(brought, all) = SumFunctionOnSet(row, all) + SumFunctionOnSet(extra, all)
      /\ SumFunctionOnSet(extra, all) \in Nat
    BY <1>2, <1>3, SumPlus, SumNat
<1>9. /\ SumFunctionOnSet(brought, late) = SumFunctionOnSet(row, late) + SumFunctionOnSet(extra, late)
      /\ SumFunctionOnSet(extra, late) \in Nat
    BY <1>2, <1>7, SumPlus, SumNat
<1>10. /\ SumFunctionOnSet(brought, early \cup late)
              = SumFunctionOnSet(brought, early) + SumFunctionOnSet(brought, late)
       /\ SumFunctionOnSet(brought, early) \in Int
    BY <1>2, <1>7, SumUnion, SumInt
<1>11. PICK ra \in Int, rl \in Int, xa \in Nat, xl \in Nat, e \in Int, o \in Nat :
           /\ ra = SumFunctionOnSet(row, all) /\ rl = SumFunctionOnSet(row, late)
           /\ xa = SumFunctionOnSet(extra, all) /\ xl = SumFunctionOnSet(extra, late)
           /\ e = SumFunctionOnSet(brought, early) /\ o = opening[Root]
    <2>1. opening[Root] \in Nat
        BY ExitVerdictAssumption DEF TypeOK
    <2> QED
        BY <1>5, <1>8, <1>9, <1>10, <2>1
<1>12. SumFunctionOnSet(brought, all) = ra + xa /\ SumFunctionOnSet(brought, all) = e + (rl + xl)
    BY <1>2, <1>8, <1>9, <1>10, <1>11
<1>13. Running(ev, s) = (o + (e + (rl + xl))) - rl /\ Starting(ev) = (o + (ra + xa)) - ra
    BY <1>5, <1>6, <1>11, <1>12
<1>14. Running(ev, s) \in Int /\ Running(ev, s) >= o + e /\ Starting(ev) \in Int /\ Starting(ev) >= o
    BY <1>13
<1> QED
    BY <1>11, <1>14 DEF SumOver, early, brought

\* What the verdict says of the transactions: the seller parted with inventory, each
\* time by what is proven to be an exit or followed, and nothing came in since.
Closed ==
    /\ balance[Root] = 0
    /\ \E i \in DOMAIN moves : moves[i].from = Root
    /\ \A i \in DOMAIN moves : moves[i].from = Root => moves[i].kind \in {"sell", "burn", "transfer"}
    /\ \A i, r \in DOMAIN moves : moves[i].to = Root /\ moves[r].from = Root => i < r

\* VERIFIED_OUT says this of the transactions.
LEMMA VerdictCloses ==
    ASSUME TypeOK, Sorted, NEW ev, NEW lost, NEW won, Tells(ev, TRUE, lost, won), NEW t, Verdict(ev, t)
    PROVE  Closed
<1>1. balance[Root] = 0
    <2>1. balance[Root] \in Nat /\ ~(balance[Root] > 0)
        BY ExitVerdictAssumption DEF TypeOK, Verdict
    <2> QED
        BY <2>1
<1>2. ASSUME NEW i \in DOMAIN moves, moves[i].from = Root
      PROVE  lost[i] \in Reductions(ev) /\ ev[lost[i]] = Lost(i)
    <2>1. PICK a \in Nat \ {0} : a = moves[i].amount
        BY KindsOfMoves
    <2>2. lost[i] \in DOMAIN ev /\ ev[lost[i]] = Lost(i)
        BY DEF Tells
    <2>3. Lost(i).wallet = Root /\ Lost(i).delta = -a /\ -a < 0
        BY <1>2, <2>1, FieldsOfEvents
    <2> QED
        BY <2>2, <2>3 DEF Reductions, RootEvents
<1>3. ASSUME NEW i \in DOMAIN moves, moves[i].from = Root
      PROVE  moves[i].kind \in {"sell", "burn", "transfer"}
    <2>1. Lost(i).type \notin {"UNKNOWN", "LIQUIDITY_EVENT"}
        BY <1>2, <1>3 DEF Verdict
    <2>2. moves[i].kind \in {"sell", "burn", "liquidity", "transfer", "unclear"}
        BY <1>3, KindsOfMoves
    <2> QED
        BY <2>1, <2>2, FieldsOfEvents
<1>4. \E i \in DOMAIN moves : moves[i].from = Root
    <2>1. PICK r \in Reductions(ev) : TRUE
        BY DEF Verdict
    <2>2. r \in DOMAIN ev /\ ev[r].wallet = Root /\ ev[r].delta < 0
        BY <2>1 DEF Reductions, RootEvents
    <2>3. PICK i \in DOMAIN moves : ev[r] = Lost(i) \/ ev[r] = Won(i)
        BY <2>2 DEF Tells
    <2>4. PICK a \in Nat \ {0} : a = moves[i].amount
        BY KindsOfMoves
    <2>5. Won(i).delta = a /\ Lost(i).wallet = moves[i].from
        BY <2>4, FieldsOfEvents
    <2>6. ~(Won(i).delta < 0)
        BY <2>4, <2>5
    <2> QED
        BY <2>2, <2>3, <2>5, <2>6
<1>5. ASSUME NEW i \in DOMAIN moves, moves[i].to = Root
      PROVE  \E j \in Acquisitions(ev) \cup Incoming(ev) : ev[j].at = moves[i].at
    <2>1. PICK a \in Nat \ {0} : a = moves[i].amount
        BY KindsOfMoves
    <2>2. moves[i].kind \in {"buy", "gift", "transfer", "unclear"} /\ moves[i].from # Root
        BY <1>5, KindsOfMoves
    <2>3. CASE moves[i].kind \in {"buy", "unclear"}
        <3>1. won[i] \in DOMAIN ev /\ ev[won[i]] = Won(i)
            BY <2>3 DEF Tells, Shows
        <3>2. Won(i).wallet = Root /\ Won(i).delta = a /\ a > 0 /\ Won(i).at = moves[i].at
            BY <1>5, <2>1, FieldsOfEvents
        <3>3. won[i] \in Acquisitions(ev)
            BY <3>1, <3>2 DEF Acquisitions, RootEvents
        <3> QED
            BY <3>1, <3>2, <3>3
    <2>4. CASE moves[i].kind \in {"gift", "transfer"}
        <3>1. lost[i] \in DOMAIN ev /\ ev[lost[i]] = Lost(i)
            BY DEF Tells
        <3>2. Concrete(Lost(i)) /\ Lost(i).destination = Root /\ Lost(i).wallet # Root /\ Lost(i).at = moves[i].at
            BY <1>5, <2>2, <2>4, FieldsOfEvents, ConcreteMoves
        <3>3. ~Settlement(ev, ev[lost[i]])
            <4>1. PICK strict : strict = TRUE
                OBVIOUS
            <4>2. Tells(ev, strict, lost, won)
                BY <4>1
            <4> QED
                BY <2>4, <4>2, SettlesPurchases
        <3>4. lost[i] \in Incoming(ev)
            BY <3>1, <3>2, <3>3 DEF Incoming
        <3> QED
            BY <3>1, <3>2, <3>4
    <2> QED
        BY <2>2, <2>3, <2>4
<1>6. ASSUME NEW i \in DOMAIN moves, NEW r \in DOMAIN moves, moves[i].to = Root, moves[r].from = Root
      PROVE  i < r
    <2>1. PICK j \in Acquisitions(ev) \cup Incoming(ev) : ev[j].at = moves[i].at
        BY <1>5, <1>6
    <2>2. lost[r] \in Reductions(ev) /\ ev[lost[r]].at = moves[r].at
        BY <1>2, <1>6, FieldsOfEvents
    <2>3. ~(moves[i].at >= moves[r].at)
        BY <2>1, <2>2 DEF Verdict, Reacquired
    <2>4. moves[i].at \in Nat /\ moves[r].at \in Nat /\ i \in Nat /\ r \in Nat
        BY DEF TypeOK, Moves
    <2>5. ~(r <= i)
        BY <2>3, <2>4 DEF Sorted
    <2> QED
        BY <2>4, <2>5
<1> QED
    BY <1>1, <1>3, <1>4, <1>6 DEF Closed

\* The row of the last reduction is the exit, in either reading of the events.
LEMMA ExitsOut ==
    ASSUME TypeOK, Balanced, Closed, NEW strict \in BOOLEAN, NEW ev, ev = Normalized(strict)
    PROVE  Lifecycle(ev, Wallets, 0, TRUE) = [historical |-> "VERIFIED_OUT", current |-> "VERIFIED_OUT"]
<1> DEFINE n == Len(moves)
           Out == {i \in DOMAIN moves : moves[i].from = Root}
           row == [r \in DOMAIN moves |-> RowGain(r, strict)]
<1>1. n \in Nat /\ DOMAIN moves = 1..n
    BY DEF TypeOK
<1>2. PICK m \in Out : \A i \in Out : i <= m
    <2>1. Out \in SUBSET (0..n) /\ Out # {}
        BY <1>1 DEF Closed
    <2> HIDE DEF Out, n
    <2> QED
        BY <1>1, <2>1, HasGreatest
<1>3. m \in DOMAIN moves /\ moves[m].from = Root /\ m \in Nat
    BY <1>1
<1>4. PICK a \in Nat \ {0} : a = moves[m].amount
    BY <1>3, KindsOfMoves
<1> DEFINE late == {r \in DOMAIN moves : ~(r <= m)}
<1>5. \A r \in late : row[r] = 0
    <2> TAKE r \in late
    <2>1. r \in DOMAIN moves /\ r \in Nat /\ ~(r <= m)
        BY <1>1
    <2>2. moves[r].from # Root
        BY <1>2, <2>1
    <2>3. moves[r].to # Root
        <3> SUFFICES ASSUME moves[r].to = Root
                     PROVE  FALSE
            OBVIOUS
        <3>1. r < m
            BY <1>3, <2>1 DEF Closed
        <3> QED
            BY <1>3, <2>1, <3>1
    <2>4. RowGain(r, strict) = 0
        BY <2>2, <2>3 DEF RowGain, Gain
    <2> QED
        BY <2>1, <2>4
<1>6. SumOver(late, row) = 0
    <2>1. IsFiniteSet(late)
        <3>1. IsFiniteSet(1..n) /\ late \in SUBSET (1..n)
            BY <1>1, FS_Interval
        <3> HIDE DEF late, n
        <3> QED
            BY <3>1, FS_Subset
    <2> HIDE DEF late, row
    <2> QED
        BY <1>5, <2>1, SumZero DEF SumOver
<1>7. Running(ev, m) = 0
    <2>1. \A r \in DOMAIN moves : row[r] = RowGain(r, strict)
        OBVIOUS
    <2>2. m \in Int
        BY <1>3
    <2> HIDE DEF row
    <2>3. Running(ev, m) = balance[Root] - SumOver(late, row)
        BY <2>1, <2>2, RunningBack
    <2> QED
        BY <1>6, <2>3 DEF Closed
<1>8. RowDelta(ev, m) = -a
    <2>1. moves[m].to # Root
        BY <1>3, KindsOfMoves
    <2>2. RowGain(m, strict) = 0 - a
        BY <1>3, <1>4, <2>1 DEF RowGain, Gain
    <2> QED
        BY <1>3, <1>4, <2>2, RowIs
<1>9. \A r \in DOMAIN moves :
          /\ moves[r].from = Root => Reductive(ev, r) = {Lost(r).type} /\ Lost(r).type \in {"SELL", "BURN", "TRANSFER"}
          /\ moves[r].from # Root => Reductive(ev, r) = {}
    <2> TAKE r \in DOMAIN moves
    <2>1. moves[r].from = Root => moves[r].kind \in {"sell", "burn", "transfer"}
        BY DEF Closed
    <2>2. moves[r].from = Root => Lost(r).type \in {"SELL", "BURN", "TRANSFER"}
        BY <2>1, FieldsOfEvents
    <2> QED
        BY <2>2, RowReduces
<1>10. \A r \in DOMAIN moves : ~Doubtful(ev, r)
    BY <1>9 DEF Doubtful
<1>11. m \in Timeline(ev)
    BY <1>3, RowReduces DEF Timeline
<1>12. m \in ExitRows(ev, 0)
    <2>1. Running(ev, m) - RowDelta(ev, m) > 0
        <3>1. 0 - (-a) > 0
            BY <1>4
        <3> QED
            BY <1>7, <1>8, <3>1
    <2>2. Reductive(ev, m) \cap {"SELL", "TRANSFER", "BURN"} # {}
        BY <1>3, <1>9
    <2>3. \A r \in Timeline(ev) : r <= m => ~Doubtful(ev, r)
        BY <1>10 DEF Timeline
    <2>4. Running(ev, m) <= 0
        BY <1>7
    <2> QED
        BY <1>11, <2>1, <2>2, <2>3, <2>4 DEF ExitRows
<1>13. ~(Starting(ev) < 0)
    <2>1. 0 \in 0..Len(moves)
        BY <1>1
    <2>2. Starting(ev) \in Int /\ Starting(ev) >= opening[Root]
        BY <2>1, RunningAtLeast
    <2>3. opening[Root] \in Nat
        BY ExitVerdictAssumption DEF TypeOK
    <2> QED
        BY <2>2, <2>3
<1>14. Historical(ev, 0, TRUE) = "VERIFIED_OUT"
    <2>1. ~(\E s \in Timeline(ev) : Doubtful(ev, s))
        BY <1>10 DEF Timeline
    <2> QED
        BY <1>12, <1>13, <2>1 DEF Historical
<1>15. Current(ev, 0, TRUE) = "VERIFIED_OUT"
    <2>1. ~(balance[Root] > 0)
        BY DEF Closed
    <2> QED
        BY <1>14, <2>1 DEF Current
<1> QED
    BY <1>14, <1>15, ExitVerdictAssumption DEF Lifecycle
-----------------------------------------------------------------------------
(***************************************************************************)
(* What lists of lots have left                                            *)
(***************************************************************************)
LeftOf(q) == SumOver(DOMAIN q, [j \in DOMAIN q |-> q[j].left])

\* A list of n lots, of whatever kind.
Lots(q, n) == n \in Nat /\ DOMAIN q = 1..n /\ \A j \in 1..n : q[j].left \in Nat

\* Sums over a beginning of the numbers grow by one term.
LEMMA SumNext ==
    ASSUME NEW k \in Nat, NEW f, \A i \in 1..k + 1 : f[i] \in Int
    PROVE  /\ SumOver(1..k + 1, f) = f[k + 1] + SumOver(1..k, f)
           /\ SumOver(1..k, f) \in Int
<1> DEFINE D == 1..k
<1>1. 1..k + 1 = D \cup {k + 1} /\ k + 1 \notin D /\ \A i \in D \cup {k + 1} : f[i] \in Int
    OBVIOUS
<1>2. IsFiniteSet(D)
    BY FS_Interval
<1> HIDE DEF D
<1>3. SumFunctionOnSet(f, D \cup {k + 1}) = f[k + 1] + SumFunctionOnSet(f, D)
    BY <1>1, <1>2, SumAdd
<1>4. SumFunctionOnSet(f, D) \in Int
    <2>1. \A i \in D : f[i] \in Int
        BY <1>1
    <2> QED
        BY <1>2, <2>1, SumInt
<1> QED
    BY <1>1, <1>3, <1>4 DEF SumOver, D

\* A sum over nothing.
LEMMA SumNone ==
    ASSUME NEW f
    PROVE  SumOver(1..0, f) = 0
<1>1. 1..0 = {} /\ IsFiniteSet({}) /\ \A x \in {} : f[x] \in Int
    BY FS_EmptySet
<1> QED
    BY <1>1, SumInt DEF SumOver

\* What is left is a count.
LEMMA LeftOfNat ==
    ASSUME NEW q, NEW n, Lots(q, n)
    PROVE  LeftOf(q) \in Nat /\ \A j \in 1..n : q[j].left <= LeftOf(q)
<1> DEFINE f == [j \in DOMAIN q |-> q[j].left]
<1>1. DOMAIN q = 1..n /\ n \in Nat /\ \A j \in DOMAIN q : f[j] = q[j].left /\ f[j] \in Nat
    BY DEF Lots
<1>2. IsFiniteSet(DOMAIN q)
    BY <1>1, FS_Interval
<1>3. LeftOf(q) = SumFunctionOnSet(f, DOMAIN q)
    BY DEF LeftOf, SumOver
<1> HIDE DEF f
<1> QED
    BY <1>1, <1>2, <1>3, SumNat

\* Oldest first, the lots give all that is asked, or all they have.
LEMMA UsesExact ==
    ASSUME NEW q, NEW n, Lots(q, n), NEW amount \in Nat, NEW uses, uses = Uses(q, amount)
    PROVE  /\ uses \in [1..n -> Nat] /\ \A j \in 1..n : uses[j] <= q[j].left
           /\ SumOver(1..n, uses) = Lesser(LeftOf(q), amount)
<1> DEFINE left == [k \in DOMAIN q |-> q[k].left]
           rest(j) == amount - SumOver(1..j - 1, left)
           Good(k) == /\ SumOver(1..k, left) \in Nat
                      /\ SumOver(1..k, uses) = Lesser(SumOver(1..k, left), amount)
                      /\ \A j \in 1..k : uses[j] \in Nat /\ uses[j] <= q[j].left
           N == {k \in Nat : k <= n => Good(k)}
<1>1. n \in Nat /\ DOMAIN q = 1..n /\ \A j \in 1..n : left[j] = q[j].left /\ left[j] \in Nat
    BY DEF Lots
<1>2. /\ uses = [j \in DOMAIN q |-> Lesser(q[j].left, IF rest(j) > 0 THEN rest(j) ELSE 0)]
      /\ \A j \in 1..n : uses[j] = Lesser(q[j].left, IF rest(j) > 0 THEN rest(j) ELSE 0)
    BY <1>1 DEF Uses
<1>3. LeftOf(q) = SumOver(1..n, left)
    BY <1>1 DEF LeftOf
<1> HIDE DEF left
<1>4. PICK a \in Nat : a = amount
    OBVIOUS
<1>5. 0 \in N
    <2>1. SumOver(1..0, left) = 0 /\ SumOver(1..0, uses) = 0
        BY SumNone
    <2>2. Lesser(0, a) = 0
        BY DEF Lesser
    <2>3. \A j \in 1..0 : FALSE
        OBVIOUS
    <2> QED
        BY <1>4, <2>1, <2>2, <2>3
<1>6. ASSUME NEW k \in N
      PROVE  k + 1 \in N
    <2>1. k \in Nat /\ k + 1 \in Nat /\ (k <= n => Good(k))
        OBVIOUS
    <2> SUFFICES ASSUME k + 1 <= n
                 PROVE  Good(k + 1)
        <3> HIDE DEF Good
        <3> QED
            BY <2>1
    <2>2. Good(k) /\ k + 1 \in 1..n /\ (k + 1) - 1 = k /\ \A j \in 1..k + 1 : j \in 1..n /\ (j \in 1..k \/ j = k + 1)
        <3>1. k <= n /\ k + 1 \in 1..n /\ (k + 1) - 1 = k
              /\ \A j \in 1..k + 1 : j \in 1..n /\ (j \in 1..k \/ j = k + 1)
            BY <1>1, <2>1
        <3> HIDE DEF Good
        <3> QED
            BY <2>1, <3>1
    <2>3. PICK L \in Nat, l \in Nat : L = SumOver(1..k, left) /\ l = left[k + 1] /\ l = q[k + 1].left
        BY <1>1, <2>2
    <2>4. uses[k + 1] = Lesser(l, IF a - L > 0 THEN a - L ELSE 0)
        BY <1>2, <1>4, <2>2, <2>3
    <2>5. SumOver(1..k, uses) = Lesser(L, a) /\ \A j \in 1..k : uses[j] \in Nat /\ uses[j] <= q[j].left
        BY <1>4, <2>2, <2>3
    <2> HIDE DEF Good, N
    <2>6. uses[k + 1] \in Nat /\ uses[k + 1] <= l
        BY <1>4, <2>3, <2>4 DEF Lesser
    <2>7. \A j \in 1..k + 1 : uses[j] \in Nat /\ uses[j] <= q[j].left
        BY <2>2, <2>3, <2>5, <2>6
    <2>8. SumOver(1..k + 1, uses) = uses[k + 1] + SumOver(1..k, uses)
        <3>1. \A j \in 1..k + 1 : uses[j] \in Int
            BY <2>7
        <3> QED
            BY <2>1, <3>1, SumNext
    <2>9. SumOver(1..k + 1, left) = l + L
        <3>1. \A j \in 1..k + 1 : left[j] \in Int
            BY <1>1, <2>2
        <3> QED
            BY <2>1, <2>3, <3>1, SumNext
    <2>10. PICK u \in Nat : u = uses[k + 1]
        BY <2>6
    <2>11. u + Lesser(L, a) = Lesser(l + L, a)
        BY <1>4, <2>3, <2>4, <2>10 DEF Lesser
    <2>12. SumOver(1..k + 1, uses) = Lesser(SumOver(1..k + 1, left), a)
        BY <2>5, <2>8, <2>9, <2>10, <2>11
    <2> QED
        BY <1>4, <2>3, <2>7, <2>9, <2>12 DEF Good
<1>7. N = Nat
    <2> HIDE DEF N
    <2> QED
        BY <1>5, <1>6, Induct DEF N
<1>8. Good(n)
    <2> HIDE DEF Good
    <2> QED
        BY <1>1, <1>7
<1>9. uses \in [1..n -> Nat]
    BY <1>1, <1>2, <1>8
<1> QED
    BY <1>3, <1>8, <1>9

\* One more lot adds what it holds.
LEMMA LotAdds ==
    ASSUME NEW q, NEW n, Lots(q, n), NEW r, Lots(r, n + 1), \A j \in 1..n : r[j].left = q[j].left
    PROVE  LeftOf(r) = LeftOf(q) + r[n + 1].left
<1> DEFINE f == [j \in DOMAIN q |-> q[j].left]
           g == [j \in DOMAIN r |-> r[j].left]
           A == 1..n
<1>1. n \in Nat /\ DOMAIN q = 1..n /\ DOMAIN r = 1..n + 1
    BY DEF Lots
<1>2. \A j \in 1..n + 1 : g[j] = r[j].left /\ g[j] \in Int
    BY <1>1 DEF Lots
<1>3. \A j \in 1..n : f[j] \in Int /\ g[j] = f[j]
    <2> TAKE j \in 1..n
    <2>1. j \in 1..n + 1
        BY <1>1
    <2> QED
        BY <1>1, <1>2, <2>1 DEF Lots
<1>4. LeftOf(q) = SumOver(1..n, f) /\ LeftOf(r) = SumOver(1..n + 1, g)
    BY <1>1 DEF LeftOf
<1> HIDE DEF f, g
<1>5. SumOver(1..n + 1, g) = g[n + 1] + SumOver(1..n, g) /\ SumOver(1..n, g) \in Int
    BY <1>1, <1>2, SumNext
<1>6. SumFunctionOnSet(f, A) = SumFunctionOnSet(g, A)
    <2>1. IsFiniteSet(A)
        BY <1>1, FS_Interval
    <2>2. \A j \in A : f[j] \in Int /\ g[j] = f[j]
        BY <1>3
    <2> HIDE DEF A
    <2> QED
        BY <2>1, <2>2, SumSame
<1>7. PICK x \in Int, y \in Int : x = g[n + 1] /\ y = SumOver(1..n, g) /\ x = r[n + 1].left
    <2>1. n + 1 \in 1..n + 1
        BY <1>1
    <2> QED
        BY <1>2, <1>5, <2>1
<1>8. x + y = y + x
    OBVIOUS
<1> QED
    BY <1>4, <1>5, <1>6, <1>7, <1>8 DEF SumOver

\* Lots that gave have less by what they gave.
LEMMA LotsGive ==
    ASSUME NEW q, NEW n, Lots(q, n), NEW uses, uses \in [1..n -> Nat],
           \A j \in 1..n : uses[j] <= q[j].left,
           NEW r, DOMAIN r = 1..n, \A j \in 1..n : r[j].left = q[j].left - uses[j]
    PROVE  Lots(r, n) /\ LeftOf(r) = LeftOf(q) - SumOver(1..n, uses) /\ SumOver(1..n, uses) \in Nat
<1> DEFINE f == [j \in DOMAIN q |-> q[j].left]
           g == [j \in DOMAIN r |-> r[j].left]
           A == 1..n
<1>1. n \in Nat /\ DOMAIN q = A /\ DOMAIN r = A /\ \A j \in A : q[j].left \in Nat
    BY DEF Lots
<1>2. \A j \in A : uses[j] \in Nat /\ uses[j] \in Int
    OBVIOUS
<1>3. \A j \in A : r[j].left \in Nat /\ q[j].left = r[j].left + uses[j]
    <2> TAKE j \in A
    <2>1. PICK x \in Nat, y \in Nat : x = q[j].left /\ y = uses[j]
        BY <1>1, <1>2
    <2>2. r[j].left = x - y /\ y <= x
        BY <2>1
    <2> QED
        BY <2>1, <2>2
<1>4. \A j \in A : f[j] \in Int /\ g[j] \in Int /\ f[j] = g[j] + uses[j]
    BY <1>1, <1>3
<1>5. LeftOf(q) = SumFunctionOnSet(f, A) /\ LeftOf(r) = SumFunctionOnSet(g, A)
    BY <1>1 DEF LeftOf, SumOver
<1>6. IsFiniteSet(A)
    BY <1>1, FS_Interval
<1>7. Lots(r, n)
    BY <1>1, <1>3 DEF Lots
<1> HIDE DEF f, g, A
<1>8. SumFunctionOnSet(f, A) = SumFunctionOnSet(g, A) + SumFunctionOnSet(uses, A)
    BY <1>2, <1>4, <1>6, SumPlus
<1>9. SumFunctionOnSet(g, A) \in Int /\ SumFunctionOnSet(uses, A) \in Nat
    BY <1>2, <1>4, <1>6, SumInt, SumNat
<1>10. SumFunctionOnSet(g, A) = SumFunctionOnSet(f, A) - SumFunctionOnSet(uses, A)
    BY <1>8, <1>9
<1> QED
    BY <1>5, <1>7, <1>9, <1>10 DEF SumOver, A
-----------------------------------------------------------------------------
(***************************************************************************)
(* The links of the scan                                                   *)
(***************************************************************************)
LinkLot == [source : Holders, left : Nat]
Links == [Holders -> Seq(LinkLot)]

\* What the scan does with one event.
LinkStep(lots, e) ==
    LET own == lots[e.wallet]
        uses == Uses(own, IF e.delta < 0 THEN -e.delta ELSE 0)
        kept == [lots EXCEPT ![e.wallet] = [j \in DOMAIN own |-> [own[j] EXCEPT !.left = @ - uses[j]]]]
    IN  IF Concrete(e)
        THEN [kept EXCEPT ![e.destination] = Append(@, [source |-> e.wallet, left |-> -e.delta])]
        ELSE kept

\* What an event takes from its wallet.
Drawn(e) == IF e.delta < 0 THEN -e.delta ELSE 0

\* An event draws on the lots of its wallet and opens a lot where it delivers to.
LinksTo(lots, new, e) ==
    /\ new \in Links
    /\ \A w \in Holders : \A j \in DOMAIN new[w] :
          \/ \E k \in DOMAIN lots[w] : new[w][j].source = lots[w][k].source
          \/ Concrete(e) /\ w = e.destination /\ new[w][j].source = e.wallet
    /\ \A w \in Holders :
          LeftOf(new[w]) = LeftOf(lots[w])
                               - (IF w = e.wallet THEN Lesser(LeftOf(lots[w]), Drawn(e)) ELSE 0)
                               + (IF Concrete(e) /\ w = e.destination THEN -e.delta ELSE 0)

\* The lots in a list of links.
LEMMA LinkLotsAre ==
    ASSUME NEW q \in Seq(LinkLot)
    PROVE  /\ Lots(q, Len(q))
           /\ \A j \in DOMAIN q : q[j] = [source |-> q[j].source, left |-> q[j].left] /\ q[j].source \in Holders
<1>1. Len(q) \in Nat /\ DOMAIN q = 1..Len(q)
    OBVIOUS
<1>2. \A j \in DOMAIN q : q[j] \in LinkLot
    OBVIOUS
<1> QED
    BY <1>1, <1>2 DEF Lots, LinkLot

\* What one event does to the links.
LEMMA LinkStepFacts ==
    ASSUME NEW lots \in Links, NEW e, e.wallet \in Holders, e.delta \in Int,
           Concrete(e) => e.delta < 0 /\ e.destination \in Holders /\ e.destination # e.wallet
    PROVE  LinksTo(lots, LinkStep(lots, e), e)
<1> DEFINE w0 == e.wallet
           q == lots[w0]
           n == Len(q)
           uses == Uses(q, Drawn(e))
           r == [j \in DOMAIN q |-> [q[j] EXCEPT !.left = @ - uses[j]]]
           kept == [lots EXCEPT ![w0] = r]
<1>1. LinkStep(lots, e) = IF Concrete(e)
                          THEN [kept EXCEPT ![e.destination] = Append(@, [source |-> w0, left |-> -e.delta])]
                          ELSE kept
    BY DEF LinkStep, Drawn
<1>2. q \in Seq(LinkLot) /\ \A w \in Holders : lots[w] \in Seq(LinkLot)
    BY DEF Links
<1>3. Lots(q, n) /\ DOMAIN q = 1..n
      /\ \A j \in 1..n : q[j] = [source |-> q[j].source, left |-> q[j].left] /\ q[j].source \in Holders
    BY <1>2, LinkLotsAre DEF Lots
<1>4. Drawn(e) \in Nat
    BY DEF Drawn
<1>5. /\ uses \in [1..n -> Nat] /\ \A j \in 1..n : uses[j] <= q[j].left
      /\ SumOver(1..n, uses) = Lesser(LeftOf(q), Drawn(e))
    BY <1>3, <1>4, UsesExact
<1> HIDE DEF uses
<1>6. /\ DOMAIN r = 1..n
      /\ \A j \in 1..n : r[j] = [source |-> q[j].source, left |-> q[j].left - uses[j]]
    <2>1. DOMAIN r = 1..n
        BY <1>3
    <2>2. ASSUME NEW j \in 1..n
          PROVE  r[j] = [source |-> q[j].source, left |-> q[j].left - uses[j]]
        <3>1. r[j] = [q[j] EXCEPT !.left = @ - uses[j]]
            BY <1>3
        <3>2. PICK x, a, l : x = q[j] /\ a = q[j].source /\ l = q[j].left
            OBVIOUS
        <3>3. x = [source |-> a, left |-> l]
            BY <1>3, <3>2
        <3>4. [x EXCEPT !.left = @ - uses[j]] = [source |-> a, left |-> l - uses[j]]
            BY <3>3
        <3> QED
            BY <3>1, <3>2, <3>4
    <2> QED
        BY <2>1, <2>2
<1>7. \A j \in 1..n : r[j].left = q[j].left - uses[j] /\ r[j].source = q[j].source
    BY <1>6
<1> HIDE DEF r
<1>8. Lots(r, n) /\ LeftOf(r) = LeftOf(q) - Lesser(LeftOf(q), Drawn(e))
    BY <1>3, <1>5, <1>6, <1>7, LotsGive
<1>9. r \in Seq(LinkLot)
    <2>1. \A j \in 1..n : r[j] \in LinkLot
        <3> TAKE j \in 1..n
        <3>1. q[j].source \in Holders /\ r[j].left \in Nat
            BY <1>3, <1>8 DEF Lots
        <3>2. r[j] = [source |-> q[j].source, left |-> r[j].left]
            <4>1. PICK a, l : a = q[j].source /\ l = q[j].left - uses[j]
                OBVIOUS
            <4>2. r[j] = [source |-> a, left |-> l]
                BY <1>6, <4>1
            <4> QED
                BY <4>1, <4>2
        <3> QED
            BY <3>1, <3>2 DEF LinkLot
    <2>2. r = [j \in 1..n |-> r[j]] /\ n \in Nat
        <3>1. r = [j \in DOMAIN q |-> r[j]]
            BY DEF r
        <3> QED
            BY <1>3, <3>1 DEF Lots
    <2> QED
        BY <2>1, <2>2
<1>10. /\ kept \in Links /\ kept[w0] = r
       /\ \A w \in Holders : w # w0 => kept[w] = lots[w]
    BY <1>9 DEF Links
<1> HIDE DEF kept, q, n
<1>11. \A w \in Holders : LeftOf(lots[w]) \in Nat /\ (Concrete(e) => -e.delta \in Nat)
    <2> TAKE w \in Holders
    <2>1. Lots(lots[w], Len(lots[w]))
        BY <1>2, LinkLotsAre
    <2>2. Concrete(e) => -e.delta \in Nat
        OBVIOUS
    <2> QED
        BY <2>1, <2>2, LeftOfNat
<1>12. \A w \in Holders :
           LeftOf(kept[w]) = LeftOf(lots[w]) - (IF w = w0 THEN Lesser(LeftOf(lots[w]), Drawn(e)) ELSE 0)
    <2> TAKE w \in Holders
    <2>1. CASE w = w0
        BY <1>8, <1>10, <2>1 DEF q
    <2>2. CASE w # w0
        BY <1>10, <1>11, <2>2
    <2> QED
        BY <2>1, <2>2
<1>13. \A w \in Holders : \A j \in DOMAIN kept[w] :
           \E k \in DOMAIN lots[w] : kept[w][j].source = lots[w][k].source
    <2> TAKE w \in Holders
    <2> TAKE j \in DOMAIN kept[w]
    <2>1. CASE w = w0
        <3>1. kept[w] = r /\ j \in 1..n /\ r[j].source = q[j].source /\ j \in DOMAIN q
            BY <1>3, <1>6, <1>7, <1>10, <2>1
        <3> QED
            BY <2>1, <3>1 DEF q
    <2>2. CASE w # w0
        BY <1>10, <2>2
    <2> QED
        BY <2>1, <2>2
<1>14. CASE ~Concrete(e)
    <2>1. LinkStep(lots, e) = kept
        BY <1>1, <1>14
    <2>2. \A w \in Holders :
              LeftOf(kept[w]) = LeftOf(lots[w])
                                    - (IF w = w0 THEN Lesser(LeftOf(lots[w]), Drawn(e)) ELSE 0) + 0
        <3> TAKE w \in Holders
        <3>1. PICK x \in Nat, y \in Nat : x = LeftOf(lots[w]) /\ y = Drawn(e)
            BY <1>4, <1>11
        <3>2. x - (IF w = w0 THEN Lesser(x, y) ELSE 0) = x - (IF w = w0 THEN Lesser(x, y) ELSE 0) + 0
            BY <3>1 DEF Lesser
        <3> QED
            BY <1>12, <3>1, <3>2
    <2> QED
        BY <1>10, <1>13, <1>14, <2>1, <2>2 DEF LinksTo
<1>15. CASE Concrete(e)
    <2> DEFINE d == e.destination
               x == [source |-> w0, left |-> -e.delta]
               s == Append(kept[d], x)
               new == [kept EXCEPT ![d] = s]
               m == Len(kept[d])
    <2>1. LinkStep(lots, e) = new
        BY <1>1, <1>15
    <2>2. kept[d] \in Seq(LinkLot) /\ d \in Holders /\ d # w0
        BY <1>10, <1>15 DEF Links
    <2>3. x \in LinkLot /\ x.left = -e.delta /\ x.left \in Nat /\ x.source = w0
        BY <1>11, <1>15 DEF LinkLot
    <2>4. m \in Nat /\ s \in Seq(LinkLot) /\ Len(s) = m + 1 /\ DOMAIN s = 1..m + 1 /\ s[m + 1] = x
          /\ \A j \in 1..m : s[j] = kept[d][j]
        BY <2>2, <2>3
    <2>5. Lots(kept[d], m) /\ Lots(s, m + 1)
        <3> HIDE DEF s, x
        <3>1. Lots(s, Len(s)) /\ Lots(kept[d], Len(kept[d]))
            BY <2>2, <2>4, LinkLotsAre
        <3> QED
            BY <2>4, <3>1
    <2> HIDE DEF s, x, m
    <2>6. LeftOf(s) = LeftOf(kept[d]) + -e.delta
        <3>1. \A j \in 1..m : s[j].left = kept[d][j].left
            BY <2>4
        <3>2. LeftOf(s) = LeftOf(kept[d]) + s[m + 1].left
            BY <2>5, <3>1, LotAdds
        <3> QED
            BY <2>3, <2>4, <3>2
    <2>7. new \in Links /\ new[d] = s /\ \A w \in Holders : w # d => new[w] = kept[w]
        BY <1>10, <2>2, <2>4 DEF Links
    <2> HIDE DEF new
    <2>8. \A w \in Holders :
              LeftOf(new[w]) = LeftOf(lots[w])
                                   - (IF w = w0 THEN Lesser(LeftOf(lots[w]), Drawn(e)) ELSE 0)
                                   + (IF w = d THEN -e.delta ELSE 0)
        <3> TAKE w \in Holders
        <3>1. PICK a \in Nat, y \in Nat, z \in Nat : a = LeftOf(lots[w]) /\ y = Drawn(e) /\ z = -e.delta
            BY <1>4, <1>11, <1>15
        <3>2. LeftOf(kept[w]) = a - (IF w = w0 THEN Lesser(a, y) ELSE 0)
            BY <1>12, <3>1
        <3>3. CASE w = d
            <4>1. LeftOf(new[w]) = (a - 0) + z
                BY <2>2, <2>6, <2>7, <3>1, <3>2, <3>3
            <4> QED
                BY <2>2, <3>1, <3>3, <4>1
        <3>4. CASE w # d
            <4>1. LeftOf(new[w]) = a - (IF w = w0 THEN Lesser(a, y) ELSE 0)
                BY <2>7, <3>2, <3>4
            <4>2. a - (IF w = w0 THEN Lesser(a, y) ELSE 0) = a - (IF w = w0 THEN Lesser(a, y) ELSE 0) + 0
                BY <3>1 DEF Lesser
            <4> QED
                BY <3>1, <3>4, <4>1, <4>2
        <3> QED
            BY <3>3, <3>4
    <2>9. \A w \in Holders : \A j \in DOMAIN new[w] :
              \/ \E k \in DOMAIN lots[w] : new[w][j].source = lots[w][k].source
              \/ w = d /\ new[w][j].source = w0
        <3> TAKE w \in Holders
        <3> TAKE j \in DOMAIN new[w]
        <3>1. CASE w = d
            <4>1. j \in 1..m + 1 /\ new[w] = s
                BY <2>4, <2>7, <3>1
            <4>2. CASE j = m + 1
                BY <2>3, <2>4, <3>1, <4>1, <4>2
            <4>3. CASE j # m + 1
                <5>1. j \in 1..m /\ DOMAIN kept[d] = 1..m
                    BY <2>4, <2>5, <4>1, <4>3 DEF Lots
                <5>2. new[w][j] = kept[w][j] /\ j \in DOMAIN kept[w]
                    BY <2>4, <3>1, <4>1, <5>1
                <5> QED
                    BY <1>13, <5>2
            <4> QED
                BY <4>2, <4>3
        <3>2. CASE w # d
            <4>1. new[w] = kept[w]
                BY <2>7, <3>2
            <4> QED
                BY <1>13, <4>1
        <3> QED
            BY <3>1, <3>2
    <2> QED
        BY <1>15, <2>1, <2>7, <2>8, <2>9 DEF LinksTo
<1> QED
    BY <1>14, <1>15

\* Before the first event.
NoLinks == [w \in Holders |-> <<>>]

\* The links event by event.
LinkRecords(g, ev) ==
    /\ g \in [0..Len(ev) -> Links] /\ g[0] = NoLinks
    /\ \A i \in 1..Len(ev) : g[i] = LinkStep(g[i - 1], ev[i])

\* Before the first event there is no link.
LEMMA NoLinksFacts ==
    NoLinks \in Links /\ \A w \in Holders : DOMAIN NoLinks[w] = {} /\ LeftOf(NoLinks[w]) = 0
<1>1. NoLinks \in Links /\ \A w \in Holders : NoLinks[w] = <<>>
    BY DEF NoLinks, Links
<1>2. Lots(<<>>, 0) /\ DOMAIN <<>> = {}
    BY DEF Lots
<1>3. LeftOf(<<>>) = 0
    <2>1. DOMAIN <<>> = 1..0
        OBVIOUS
    <2> QED
        BY <2>1, SumNone DEF LeftOf
<1> QED
    BY <1>1, <1>2, <1>3

\* The links are what the steps make of none.
LEMMA LinkFolds ==
    ASSUME NEW ev, Len(ev) \in Nat, DOMAIN ev = 1..Len(ev), Sane(ev)
    PROVE  \E g : LinkRecords(g, ev) /\ LinkLots(ev) = g[Len(ev)]
<1> DEFINE n == Len(ev)
           After[i \in 0..n] == IF i = 0 THEN NoLinks ELSE LinkStep(After[i - 1], ev[i])
           Recurs(f) == f = [i \in 0..n |-> IF i = 0 THEN NoLinks ELSE LinkStep(f[i - 1], ev[i])]
           step == [p \in Nat \X Links |-> IF p[1] \in 1..n THEN LinkStep(p[2], ev[p[1]]) ELSE p[2]]
<1>1. n \in Nat /\ DOMAIN ev = 1..n /\ NoLinks \in Links
    BY NoLinksFacts
<1>2. LinkLots(ev) = After[n]
    BY DEF LinkLots, LinkStep, NoLinks
<1>3. After = CHOOSE f : Recurs(f)
    OBVIOUS
<1> HIDE DEF n, After
<1>4. \A t \in Links, i \in 1..n : LinkStep(t, ev[i]) \in Links
    <2> TAKE t \in Links, i \in 1..n
    <2>1. PICK e : e = ev[i]
        OBVIOUS
    <2>2. /\ e.wallet \in Holders /\ e.delta \in Int
          /\ Concrete(e) => e.delta < 0 /\ e.destination \in Holders /\ e.destination # e.wallet
        BY <1>1, <2>1 DEF Sane, Holders
    <2>3. LinksTo(t, LinkStep(t, e), e)
        BY <2>2, LinkStepFacts
    <2> QED
        BY <2>1, <2>3 DEF LinksTo
<1>5. step \in [Nat \X Links -> Links]
    <2>1. \A p \in Nat \X Links : (IF p[1] \in 1..n THEN LinkStep(p[2], ev[p[1]]) ELSE p[2]) \in Links
        BY <1>4
    <2> QED
        BY <2>1
<1>6. PICK g : Solves(g, n, Links, NoLinks, step)
    <2> HIDE DEF step
    <2> QED
        BY <1>1, <1>5, Recursion
<1>7. /\ g \in [0..n -> Links] /\ g[0] = NoLinks
      /\ \A i \in 1..n : g[i] = LinkStep(g[i - 1], ev[i])
    <2>1. g \in [0..n -> Links] /\ g[0] = NoLinks /\ \A i \in 1..n : g[i] = step[<<i, g[i - 1]>>]
        BY <1>6 DEF Solves
    <2>2. \A i \in 1..n : i \in Nat /\ g[i - 1] \in Links
        <3>1. \A i \in 1..n : i - 1 \in 0..n
            BY <1>1
        <3> HIDE DEF step
        <3> QED
            BY <2>1, <3>1
    <2>3. ASSUME NEW i \in 1..n
          PROVE  g[i] = LinkStep(g[i - 1], ev[i])
        <3>1. <<i, g[i - 1]>> \in Nat \X Links
            BY <2>2
        <3>2. step[<<i, g[i - 1]>>] = LinkStep(g[i - 1], ev[i])
            BY <3>1
        <3> QED
            BY <2>1, <3>2
    <2> QED
        BY <2>1, <2>3
<1> HIDE DEF step
<1>8. Recurs(g)
    <2>1. g = [i \in 0..n |-> g[i]]
        BY <1>7
    <2>2. \A i \in 0..n : g[i] = IF i = 0 THEN NoLinks ELSE LinkStep(g[i - 1], ev[i])
        <3> TAKE i \in 0..n
        <3>1. i = 0 \/ i \in 1..n
            BY <1>1
        <3>2. i \in 1..n => i # 0
            BY <1>1
        <3> QED
            BY <1>7, <3>1, <3>2
    <2> QED
        BY <2>1, <2>2
<1>9. Recurs(After)
    <2> HIDE DEF Recurs
    <2> QED
        BY <1>3, <1>8
<1>10. \A i \in 0..n : After[i] = IF i = 0 THEN NoLinks ELSE LinkStep(After[i - 1], ev[i])
    BY <1>9
<1> HIDE DEF Recurs
<1> DEFINE N == {m \in Nat : m <= n => After[m] = g[m]}
<1>11. 0 \in N
    BY <1>1, <1>7, <1>10
<1>12. ASSUME NEW m \in N
       PROVE  m + 1 \in N
    <2>1. m \in Nat /\ m + 1 \in Nat /\ (m <= n => After[m] = g[m])
        OBVIOUS
    <2>2. ASSUME m + 1 <= n
          PROVE  After[m + 1] = g[m + 1]
        <3>1. m + 1 \in 1..n /\ m + 1 \in 0..n /\ (m + 1) - 1 = m /\ m + 1 # 0 /\ m <= n
            BY <1>1, <2>1, <2>2
        <3>2. After[m + 1] = LinkStep(After[m], ev[m + 1])
            BY <1>10, <3>1
        <3>3. g[m + 1] = LinkStep(g[m], ev[m + 1])
            BY <1>7, <3>1
        <3> QED
            BY <2>1, <3>1, <3>2, <3>3
    <2> QED
        BY <2>1, <2>2
<1>13. N = Nat
    <2> HIDE DEF N
    <2> QED
        BY <1>11, <1>12, Induct DEF N
<1>14. After[n] = g[n]
    BY <1>1, <1>13
<1>15. LinkRecords(g, ev)
    BY <1>7 DEF LinkRecords, n
<1> QED
    BY <1>2, <1>14, <1>15 DEF n

\* Every link comes from a transfer.
LEMMA LinksComeFrom ==
    ASSUME NEW ev, Len(ev) \in Nat, DOMAIN ev = 1..Len(ev), Sane(ev)
    PROVE  /\ LinkLots(ev) \in Links
           /\ \A w \in Holders : \A j \in DOMAIN LinkLots(ev)[w] :
                 \E i \in DOMAIN ev : /\ Concrete(ev[i]) /\ ev[i].destination = w
                                      /\ ev[i].wallet = LinkLots(ev)[w][j].source
<1> DEFINE n == Len(ev)
<1>1. PICK g : LinkRecords(g, ev) /\ LinkLots(ev) = g[n]
    BY LinkFolds
<1>2. /\ g \in [0..n -> Links] /\ g[0] = NoLinks /\ n \in Nat /\ DOMAIN ev = 1..n
      /\ \A i \in 1..n : g[i] = LinkStep(g[i - 1], ev[i])
    BY <1>1 DEF LinkRecords
<1> DEFINE From(w, s) == \E i \in DOMAIN ev : /\ Concrete(ev[i]) /\ ev[i].destination = w
                                              /\ ev[i].wallet = s
           Good(t) == \A w \in Holders : \A j \in DOMAIN t[w] : From(w, t[w][j].source)
           N == {m \in Nat : m <= n => Good(g[m])}
<1> HIDE DEF n
<1>3. 0 \in N
    BY <1>2, NoLinksFacts
<1>4. ASSUME NEW m \in N
      PROVE  m + 1 \in N
    <2>1. m \in Nat /\ m + 1 \in Nat /\ (m <= n => Good(g[m]))
        OBVIOUS
    <2> SUFFICES ASSUME m + 1 <= n
                 PROVE  Good(g[m + 1])
        <3> HIDE DEF Good
        <3> QED
            BY <2>1
    <2> HIDE DEF Good, N
    <2>2. m + 1 \in 1..n /\ (m + 1) - 1 = m /\ m \in 0..n /\ Good(g[m])
        BY <1>2, <2>1
    <2>3. PICK e : e = ev[m + 1]
        OBVIOUS
    <2>4. /\ e.wallet \in Holders /\ e.delta \in Int
          /\ Concrete(e) => e.delta < 0 /\ e.destination \in Holders /\ e.destination # e.wallet
        BY <1>2, <2>2, <2>3 DEF Sane, Holders
    <2>5. g[m] \in Links /\ g[m + 1] = LinkStep(g[m], e)
        BY <1>2, <2>2, <2>3
    <2>6. LinksTo(g[m], g[m + 1], e)
        BY <2>4, <2>5, LinkStepFacts
    <2>7. \A w \in Holders : \A j \in DOMAIN g[m + 1][w] : From(w, g[m + 1][w][j].source)
        <3> TAKE w \in Holders
        <3> TAKE j \in DOMAIN g[m + 1][w]
        <3>1. CASE \E k \in DOMAIN g[m][w] : g[m + 1][w][j].source = g[m][w][k].source
            <4> HIDE DEF From
            <4> QED
                BY <2>2, <3>1 DEF Good
        <3>2. CASE Concrete(e) /\ w = e.destination /\ g[m + 1][w][j].source = e.wallet
            BY <1>2, <2>2, <2>3, <3>2
        <3> QED
            BY <2>6, <3>1, <3>2 DEF LinksTo
    <2> QED
        BY <2>7 DEF Good
<1>5. N = Nat
    <2> HIDE DEF N
    <2> QED
        BY <1>3, <1>4, Induct DEF N
<1>6. Good(g[n]) /\ g[n] \in Links
    <2> HIDE DEF Good
    <2> QED
        BY <1>2, <1>5
<1> QED
    BY <1>1, <1>6
-----------------------------------------------------------------------------
(***************************************************************************)
(* The reports agree                                                       *)
(***************************************************************************)

\* What the scan adds to the seller is nothing when those it paid hold nothing.
LEMMA NothingLinked ==
    ASSUME TypeOK, NEW ev, NEW lost, NEW won, Tells(ev, FALSE, lost, won), Listed(ev),
           \A i \in DOMAIN ev : Concrete(ev[i]) /\ ev[i].wallet = Root => balance[ev[i].destination] = 0
    PROVE  LinkedRemaining(ev, Root, Wallets) = 0
<1> DEFINE counted == [v \in Wallets |-> Lesser(LinkedAmount(ev, Root, v), balance[v])]
           A == Wallets \cap Wallets
<1>1. Sane(ev) /\ Len(ev) \in Nat /\ DOMAIN ev = 1..Len(ev)
    <2>1. PICK strict : strict = FALSE
        OBVIOUS
    <2>2. Tells(ev, strict, lost, won)
        BY <2>1
    <2> QED
        BY <2>2, EventsSane DEF Listed
<1>2. \A v \in Wallets : counted[v] = 0
    <2> TAKE v \in Wallets
    <2> DEFINE q == LinkLots(ev)[v]
               left == [j \in DOMAIN q |-> q[j].left]
               mine == {j \in DOMAIN q : q[j].source = Root}
    <2>1. v \in Holders /\ balance[v] \in Nat
        BY DEF Holders, TypeOK
    <2>2. q \in Seq(LinkLot)
        BY <1>1, <2>1, LinksComeFrom DEF Links
    <2>3. Lots(q, Len(q)) /\ DOMAIN q = 1..Len(q) /\ Len(q) \in Nat
        <3> HIDE DEF q
        <3> QED
            BY <2>2, LinkLotsAre DEF Lots
    <2>4. \A j \in DOMAIN q : q[j].source = Root => balance[v] = 0
        <3> TAKE j \in DOMAIN q
        <3> SUFFICES ASSUME q[j].source = Root
                     PROVE  balance[v] = 0
            OBVIOUS
        <3>1. \A k \in DOMAIN LinkLots(ev)[v] :
                  \E i \in DOMAIN ev : /\ Concrete(ev[i]) /\ ev[i].destination = v
                                       /\ ev[i].wallet = LinkLots(ev)[v][k].source
            BY <1>1, <2>1, LinksComeFrom
        <3>2. PICK i \in DOMAIN ev : Concrete(ev[i]) /\ ev[i].destination = v /\ ev[i].wallet = q[j].source
            BY <3>1
        <3> QED
            BY <3>2
    <2>5. LinkedAmount(ev, Root, v) = IF traceDepth = 0 THEN 0 ELSE SumOver(mine, left)
        BY DEF LinkedAmount
    <2>6. /\ mine \in SUBSET DOMAIN q /\ \A j \in DOMAIN q : left[j] = q[j].left
          /\ mine # {} => balance[v] = 0
        BY <2>4
    <2> HIDE DEF q, left, mine
    <2>7. IsFiniteSet(mine) /\ \A j \in mine : left[j] \in Nat
        <3>1. IsFiniteSet(DOMAIN q)
            BY <2>3, FS_Interval
        <3> QED
            BY <2>3, <2>6, <3>1, FS_Subset DEF Lots
    <2>8. SumFunctionOnSet(left, mine) \in Nat /\ (mine = {} => SumFunctionOnSet(left, mine) = 0)
        <3>1. \A j \in mine : left[j] \in Int
            BY <2>7
        <3> QED
            BY <2>7, <3>1, SumNat, SumInt
    <2>9. LinkedAmount(ev, Root, v) \in Nat /\ (LinkedAmount(ev, Root, v) = 0 \/ balance[v] = 0)
        BY <2>5, <2>6, <2>8 DEF SumOver
    <2>10. Lesser(LinkedAmount(ev, Root, v), balance[v]) = 0
        BY <2>1, <2>9 DEF Lesser
    <2> QED
        BY <2>10
<1>3. LinkedRemaining(ev, Root, Wallets) = SumFunctionOnSet(counted, A)
    BY DEF LinkedRemaining, SumOver
<1>4. IsFiniteSet(A) /\ \A v \in A : v \in Wallets
    <2>1. A = Wallets
        OBVIOUS
    <2> QED
        BY <2>1, ExitVerdictAssumption
<1> HIDE DEF counted, A
<1> QED
    BY <1>2, <1>3, <1>4, SumZero

\* The inventory the scan takes a wallet to have had is a number.
LEMMA RankedStartInt ==
    ASSUME TypeOK, NEW strict, NEW ev, NEW lost, NEW won, Tells(ev, strict, lost, won), NEW w \in Wallets
    PROVE  RankedStart(ev, w) \in Int
<1> DEFINE delta == [i \in DOMAIN ev |-> ev[i].delta]
           amount == [i \in DOMAIN ev |-> -ev[i].delta]
           A == {i \in DOMAIN ev : ev[i].wallet = w}
           B == {i \in DOMAIN ev : Concrete(ev[i]) /\ ev[i].destination = w}
<1>1. RankedNetDelta(ev, w) = SumFunctionOnSet(delta, A) + SumFunctionOnSet(amount, B)
    BY DEF RankedNetDelta, SumOver
<1>2. \A i \in DOMAIN ev : delta[i] \in Int /\ amount[i] \in Int
    BY DeltasOfEvents
<1>3. IsFiniteSet(A) /\ IsFiniteSet(B)
    <2>1. IsFiniteSet(DOMAIN ev) /\ A \in SUBSET DOMAIN ev /\ B \in SUBSET DOMAIN ev
        BY DEF Tells
    <2> HIDE DEF A, B
    <2> QED
        BY <2>1, FS_Subset
<1>4. (\A i \in A : delta[i] \in Int) /\ (\A i \in B : amount[i] \in Int)
    BY <1>2
<1> HIDE DEF delta, amount, A, B
<1>5. SumFunctionOnSet(delta, A) \in Int /\ SumFunctionOnSet(amount, B) \in Int
    BY <1>3, <1>4, SumInt
<1>6. balance[w] \in Int
    BY DEF TypeOK
<1> QED
    BY <1>1, <1>5, <1>6 DEF RankedStart

\* When verify-exit says VERIFIED_OUT, the wallet report dates the exit in the window
\* and says the seller is still out, whichever events it reads, and the scan does not
\* rank the seller as holding: whatever the list and its order within a second.
THEOREM ReportsAgreeHolds == Spec => []ReportsAgree
<1>1. ASSUME TypeOK, Balanced, Sorted
      PROVE  ReportsAgree
    <2> SUFFICES ASSUME Report({}, TRUE) = "VERIFIED_OUT"
                 PROVE  /\ Lifecycle(Events, Wallets, 0, TRUE)
                               = [historical |-> "VERIFIED_OUT", current |-> "VERIFIED_OUT"]
                        /\ WalletReport(Wallets, TRUE)
                               = [historical |-> "VERIFIED_OUT", current |-> "VERIFIED_OUT"]
                        /\ \A row \in Scan(Wallets, TRUE, FALSE).sellers :
                              row.wallet = Root => row.status \in {"JEET_OUT", "UNKNOWN"}
        BY DEF ReportsAgree
    <2>1. Verdict(Events, Trace(Events))
        BY VerdictSays
    <2>2. PICK yes, no : yes = TRUE /\ no = FALSE /\ yes \in BOOLEAN /\ no \in BOOLEAN
        OBVIOUS
    <2>3. PICK ev : ev = Events
        OBVIOUS
    <2>4. Listed(ev) /\ \E lost, won : Tells(ev, TRUE, lost, won)
        BY <1>1, <2>2, <2>3, EventsListed DEF Events
    <2>5. PICK lost, won : Tells(ev, TRUE, lost, won)
        BY <2>4
    <2>6. Closed
        BY <1>1, <2>1, <2>3, <2>5, VerdictCloses
    <2>7. Lifecycle(Events, Wallets, 0, TRUE) = [historical |-> "VERIFIED_OUT", current |-> "VERIFIED_OUT"]
        BY <1>1, <2>2, <2>3, <2>6, ExitsOut DEF Events
    <2>8. WalletReport(Wallets, TRUE) = [historical |-> "VERIFIED_OUT", current |-> "VERIFIED_OUT"]
        BY <1>1, <2>2, <2>6, ExitsOut DEF WalletReport, Ranked
    <2>9. PICK rv : rv = Ranked
        OBVIOUS
    <2>10. Listed(rv) /\ \E l, w : Tells(rv, FALSE, l, w)
        BY <1>1, <2>2, <2>9, EventsListed DEF Ranked
    <2>11. PICK l, w : Tells(rv, FALSE, l, w)
        BY <2>10
    <2>12. \A i \in DOMAIN rv : Concrete(rv[i]) /\ rv[i].wallet = Root => balance[rv[i].destination] = 0
        <3> SUFFICES ASSUME NEW i \in DOMAIN rv, Concrete(rv[i]), rv[i].wallet = Root
                     PROVE  balance[rv[i].destination] = 0
            OBVIOUS
        <3>1. PICK k \in DOMAIN moves : rv[i] = Lost(k) \/ rv[i] = Won(k)
            BY <2>11 DEF Tells
        <3>2. rv[i] = Lost(k)
            BY <1>1, <3>1, ConcreteMoves
        <3>3. lost[k] \in DOMAIN ev /\ ev[lost[k]] = rv[i]
            BY <2>5, <3>2 DEF Tells
        <3>4. Trace(ev).depth[rv[i].destination] > 0
            BY <1>1, <2>1, <2>3, <2>4, <2>5, <3>3, AllSpent
        <3>5. rv[i].destination \in Wallets
            <4>1. Sane(ev)
                BY <1>1, <2>2, <2>5, EventsSane
            <4> QED
                BY <3>3, <4>1 DEF Sane
        <3>6. ~(balance[rv[i].destination] > 0) /\ balance[rv[i].destination] \in Nat
            BY <1>1, <2>1, <2>3, <3>4, <3>5 DEF Verdict, Traced, TypeOK
        <3> QED
            BY <3>6
    <2>13. LinkedRemaining(rv, Root, Wallets) = 0
        BY <1>1, <2>10, <2>11, <2>12, NothingLinked
    <2>14. RankedStart(rv, Root) \in Int
        BY <1>1, <2>2, <2>11, RankedStartInt, ExitVerdictAssumption
    <2>15. Standing(rv, Root, Wallets) \in {"JEET_OUT", "UNKNOWN"}
        <3>1. PICK start \in Int : start = RankedStart(rv, Root)
            BY <2>14
        <3>2. 100 * (balance[Root] + LinkedRemaining(rv, Root, Wallets)) = 0
            BY <2>6, <2>13 DEF Closed
        <3>3. CASE start <= 0
            BY <3>1, <3>3 DEF Standing
        <3>4. CASE ~(start <= 0)
            <4>1. 0 <= start
                BY <3>4
            <4> QED
                BY <3>1, <3>2, <3>4, <4>1 DEF Standing
        <3> QED
            BY <3>3, <3>4
    <2>16. \A row \in Scan(Wallets, TRUE, FALSE).sellers :
               row.wallet = Root => row.status \in {"JEET_OUT", "UNKNOWN"}
        <3> SUFFICES ASSUME NEW row \in Scan(Wallets, TRUE, FALSE).sellers, row.wallet = Root
                     PROVE  row.status \in {"JEET_OUT", "UNKNOWN"}
            OBVIOUS
        <3>1. Scan(Wallets, TRUE, FALSE).sellers = {SellerRow(rv, x, Wallets) : x \in Sellers(rv)}
            BY <2>9 DEF Scan
        <3>2. PICK x \in Sellers(rv) : row = SellerRow(rv, x, Wallets)
            BY <3>1
        <3>3. x = Root
            BY <3>2 DEF SellerRow
        <3>4. row.status = Standing(rv, Root, Wallets)
            BY <3>2, <3>3, ExitVerdictAssumption DEF SellerRow
        <3> QED
            BY <2>15, <3>4
    <2> QED
        BY <2>7, <2>8, <2>16
<1>2. TypeOK /\ Balanced /\ Sorted /\ [Next]_vars => (TypeOK /\ Balanced /\ Sorted)'
    BY StaysBalanced, StaysSorted
<1>3. Init => TypeOK /\ Balanced /\ Sorted
    BY StartsBalanced, StaysSorted
<1> QED
    BY <1>1, <1>2, <1>3, PTL DEF Spec
-----------------------------------------------------------------------------
(***************************************************************************)
(* Events one transaction after the other                                  *)
(***************************************************************************)
\* The transactions told by the first i events.
Turn(ev, i) == IF i = 0 THEN 0 ELSE ev[i].signature

\* The next event is the decrease of the next transaction or the increase of this one.
LEMMA EventWalk ==
    ASSUME TypeOK, NEW strict, NEW ev, NEW lost, NEW won, Tells(ev, strict, lost, won), Listed(ev),
           NEW i \in Nat, i + 1 \in DOMAIN ev
    PROVE  /\ Turn(ev, i + 1) \in DOMAIN moves
           /\ \/ ev[i + 1] = Lost(Turn(ev, i + 1)) /\ Turn(ev, i) = Turn(ev, i + 1) - 1
              \/ ev[i + 1] = Won(Turn(ev, i + 1)) /\ Turn(ev, i) = Turn(ev, i + 1) /\ ev[i + 1].delta > 0
<1>1. PICK j : j = i + 1 /\ j \in DOMAIN ev /\ j \in Nat /\ j # 0 /\ i < j
    OBVIOUS
<1>2. PICK k : k = ev[j].signature
    OBVIOUS
<1>3. Turn(ev, i + 1) = k
    BY <1>1, <1>2 DEF Turn
<1>4. k \in DOMAIN moves /\ ((j = lost[k] /\ ev[j] = Lost(k)) \/ (j = won[k] /\ ev[j] = Won(k)))
    BY <1>1, <1>2, EventIs
<1>5. PICK n : n = Len(moves) /\ n \in Nat /\ DOMAIN moves = 1..n
    BY DEF TypeOK
<1>6. \A x \in DOMAIN moves : lost[x] \in DOMAIN ev /\ ev[lost[x]].signature = x
    BY FieldsOfEvents DEF Tells
<1>7. PICK l : l = Len(ev) /\ l \in Nat /\ DOMAIN ev = 1..l
    BY DEF Listed
<1>8. \A x, y \in DOMAIN ev : x <= y => ev[x].signature <= ev[y].signature
    BY DEF Listed
<1>9. \A x, y \in DOMAIN ev : x < y /\ ev[x].signature = ev[y].signature => ev[y].delta > 0
    BY DEF Listed
<1>10. Lost(k).delta = -moves[k].amount /\ Won(k).delta = moves[k].amount
    BY FieldsOfEvents
<1>11. PICK a : a = moves[k].amount /\ a \in Nat \ {0}
    BY <1>4, KindsOfMoves
<1>12. i # 0 => i \in DOMAIN ev /\ Turn(ev, i) = ev[i].signature /\ ev[i].signature \in DOMAIN moves
    <2> SUFFICES ASSUME i # 0
                 PROVE  i \in DOMAIN ev /\ Turn(ev, i) = ev[i].signature /\ ev[i].signature \in DOMAIN moves
        OBVIOUS
    <2>1. i \in DOMAIN ev
        BY <1>1, <1>7
    <2>2. ev[i].signature \in DOMAIN moves
        BY <2>1, EventIs
    <2> QED
        BY <2>1, <2>2 DEF Turn
<1>13. i = 0 => Turn(ev, i) = 0
    BY DEF Turn
<1>14. ev[lost[k]] = Lost(k) /\ lost[k] \in DOMAIN ev
    BY <1>4 DEF Tells
<1>15. CASE ev[j] = Lost(k)
    <2>1. ~(ev[j].delta > 0)
        BY <1>10, <1>11, <1>15
    <2>2. i # 0 => ev[i].signature < k
        <3>1. i # 0 => ev[i].signature <= k /\ ev[i].signature # k
            BY <1>1, <1>2, <1>8, <1>9, <1>12, <2>1
        <3> QED
            BY <1>4, <1>5, <1>12, <3>1
    <2>3. PICK h : h = Turn(ev, i)
        OBVIOUS
    <2>4. h \in 0..n /\ h < k /\ k \in 1..n
        BY <1>4, <1>5, <1>12, <1>13, <2>2, <2>3
    <2>5. h = k - 1
        <3> SUFFICES ASSUME h + 1 < k
                     PROVE  FALSE
            BY <2>4
        <3>1. h + 1 \in DOMAIN moves
            BY <1>5, <2>4
        <3>2. PICK p \in DOMAIN ev : ev[p].signature = h + 1
            BY <1>6, <3>1
        <3>3. ~(j <= p)
            <4>1. j <= p => k <= h + 1
                BY <1>1, <1>2, <1>8, <3>2
            <4> QED
                BY <2>4, <4>1
        <3>4. i # 0 /\ p <= i
            BY <1>1, <1>7, <3>2, <3>3
        <3>5. h + 1 <= h
            BY <1>8, <1>12, <2>3, <3>2, <3>4
        <3> QED
            BY <2>4, <3>5
    <2> QED
        BY <1>1, <1>3, <1>4, <1>15, <2>3, <2>5
<1>16. CASE ev[j] = Won(k)
    <2>1. ev[j].delta > 0 /\ ~(ev[lost[k]].delta > 0)
        BY <1>10, <1>11, <1>14, <1>16
    <2>2. ev[lost[k]].signature = k
        BY <1>4, <1>6
    <2>3. ~(j < lost[k]) /\ lost[k] # j
        BY <1>1, <1>2, <1>9, <1>14, <2>1, <2>2
    <2>4. i # 0 /\ lost[k] <= i
        BY <1>1, <1>7, <1>14, <2>3
    <2>5. k <= ev[i].signature /\ ev[i].signature <= k
        BY <1>1, <1>2, <1>8, <1>12, <1>14, <2>2, <2>4
    <2>6. Turn(ev, i) = k
        BY <1>4, <1>5, <1>12, <2>4, <2>5
    <2> QED
        BY <1>1, <1>3, <1>4, <1>16, <2>1, <2>6
<1> QED
    BY <1>4, <1>15, <1>16

\* All events tell all transactions.
LEMMA EventsEnd ==
    ASSUME TypeOK, NEW strict, NEW ev, NEW lost, NEW won, Tells(ev, strict, lost, won), Listed(ev)
    PROVE  Turn(ev, Len(ev)) = Len(moves)
<1>1. PICK n : n = Len(moves) /\ n \in Nat /\ DOMAIN moves = 1..n
    BY DEF TypeOK
<1>2. PICK l : l = Len(ev) /\ l \in Nat /\ DOMAIN ev = 1..l
    BY DEF Listed
<1>3. \A x \in DOMAIN moves : lost[x] \in DOMAIN ev /\ ev[lost[x]].signature = x
    BY FieldsOfEvents DEF Tells
<1>4. \A x, y \in DOMAIN ev : x <= y => ev[x].signature <= ev[y].signature
    BY DEF Listed
<1>5. CASE l = 0
    <2>1. DOMAIN ev = {}
        BY <1>2, <1>5
    <2>2. n = 0
        BY <1>1, <1>3, <2>1
    <2> QED
        BY <1>1, <1>2, <1>5, <2>2 DEF Turn
<1>6. CASE l # 0
    <2>1. l \in DOMAIN ev
        BY <1>2, <1>6
    <2>2. ev[l].signature \in 1..n
        BY <1>1, <2>1, EventIs
    <2>3. n \in DOMAIN moves
        BY <1>1, <2>2
    <2>4. n <= ev[l].signature
        BY <1>2, <1>3, <1>4, <2>1, <2>3
    <2> QED
        BY <1>1, <1>2, <1>6, <2>2, <2>4 DEF Turn
<1> QED
    BY <1>5, <1>6
-----------------------------------------------------------------------------
(***************************************************************************)
(* The chain in order: the list grows at its end                           *)
(***************************************************************************)
\* What the wallets hold of the seller's inventory.
Held == [Holders -> Nat]

\* The seller's inventory among what a transaction moves, and where it goes.
Own(a, m) == IF m.from = Market THEN 0 ELSE Lesser(a[m.from], m.amount)

\* Where the inventory is after a transaction.
MovedBy(a, m) ==
    [w \in Holders |->
        a[w] - (IF w = m.from THEN Own(a, m) ELSE 0)
             + (IF w # m.to \/ m.kind \in {"sell", "burn"} THEN 0
                ELSE IF w = Root THEN m.amount ELSE Own(a, m))]

\* A transaction leaves no wallet with less than nothing of the inventory.
LEMMA MovedByHeld ==
    ASSUME NEW a \in Held, NEW m \in Moves
    PROVE  MovedBy(a, m) \in Held /\ Own(a, m) \in Nat
<1>1. /\ m.amount \in Nat \ {0} /\ m.from \in Holders /\ m.to \in Holders /\ m.from # m.to
    BY ExitVerdictAssumption DEF Moves, Proper, Holders
<1>2. \A w \in Holders : a[w] \in Nat
    BY DEF Held
<1>3. Own(a, m) \in Nat
    BY <1>1, <1>2 DEF Own, Lesser
<1>4. m.from # Market => Own(a, m) <= a[m.from]
    BY <1>1, <1>2 DEF Own, Lesser
<1>5. m.from = Market => Own(a, m) = 0
    BY DEF Own
<1>6. ASSUME NEW w \in Holders
      PROVE  a[w] - (IF w = m.from THEN Own(a, m) ELSE 0)
             + (IF w # m.to \/ m.kind \in {"sell", "burn"} THEN 0
                ELSE IF w = Root THEN m.amount ELSE Own(a, m)) \in Nat
    <2>1. PICK o \in Nat, b \in Nat, n \in Nat : o = Own(a, m) /\ b = a[w] /\ n = m.amount
        BY <1>1, <1>2, <1>3
    <2>2. w = m.from => o <= b
        BY <1>4, <1>5, <2>1
    <2> QED
        BY <2>1, <2>2
<1> QED
    BY <1>3, <1>6 DEF MovedBy, Held

\* Each action moves what the transaction it appends says.
LEMMA DisposeMoves ==
    ASSUME held \in Held, NEW kind \in {"sell", "burn", "liquidity"}, NEW w \in Wallets,
           NEW amount \in Nat \ {0}, Dispose(kind, w, amount), NEW m,
           m.kind = kind, m.from = w, m.to = Market, m.amount = amount
    PROVE  held' = MovedBy(held, m)
<1>1. w # Market /\ Market # Root /\ w \in Holders /\ Market \in Holders
    BY ExitVerdictAssumption DEF Holders
<1>2. PICK o : o = Lesser(held[w], amount)
    OBVIOUS
<1>3. Own(held, m) = o
    BY <1>1, <1>2 DEF Own
<1>4. \A v \in Holders : held[v] \in Nat
    BY DEF Held
<1>5. o \in Nat
    BY <1>1, <1>2, <1>4 DEF Lesser
<1>6. held' = [held EXCEPT ![w] = @ - Lesser(@, amount),
                           ![Market] = IF kind = "liquidity" THEN @ + Lesser(held[w], amount) ELSE @]
    BY DEF Dispose
<1>7. held' = [v \in Holders |-> IF v = Market
                                 THEN IF kind = "liquidity" THEN held[Market] + o ELSE held[Market]
                                 ELSE IF v = w THEN held[w] - o ELSE held[v]]
    <2>1. held = [v \in Holders |-> held[v]]
        BY DEF Held
    <2> QED
        BY <1>1, <1>2, <1>6, <2>1
<1>8. ASSUME NEW v \in Holders
      PROVE  held'[v] = held[v] - (IF v = m.from THEN Own(held, m) ELSE 0)
                         + (IF v # m.to \/ m.kind \in {"sell", "burn"} THEN 0
                            ELSE IF v = Root THEN m.amount ELSE Own(held, m))
    <2>1. CASE v = Market
        <3>1. held'[v] = IF kind = "liquidity" THEN held[v] + o ELSE held[v]
            BY <1>7, <2>1
        <3> QED
            BY <1>1, <1>3, <1>4, <1>5, <2>1, <3>1
    <2>2. CASE v = w
        <3>1. held'[v] = held[v] - o
            BY <1>1, <1>7, <2>2
        <3> QED
            BY <1>1, <1>3, <1>4, <1>5, <2>2, <3>1
    <2>3. CASE v # w /\ v # Market
        <3>1. held'[v] = held[v]
            BY <1>7, <2>3
        <3> QED
            BY <1>4, <2>3, <3>1
    <2> QED
        BY <2>1, <2>2, <2>3
<1>9. held' = [v \in Holders |-> held'[v]]
    BY <1>7
<1> QED
    BY <1>8, <1>9 DEF MovedBy

\* So does a transfer, wherever it is called from.
LEMMA FollowMoves ==
    ASSUME NEW m, m.kind \notin {"sell", "burn"}, Follow(m.from, m.to, m.amount)
    PROVE  held' = MovedBy(held, m)
<1>1. held' = [w \in Holders |->
                  held[w] - (IF w = m.from THEN Own(held, m) ELSE 0)
                          + (IF w # m.to THEN 0 ELSE IF m.to = Root THEN m.amount ELSE Own(held, m))]
    BY DEF Follow, Own, Holders
<1>2. \A w \in Holders :
         (IF w # m.to THEN 0 ELSE IF m.to = Root THEN m.amount ELSE Own(held, m))
           = (IF w # m.to \/ m.kind \in {"sell", "burn"} THEN 0
              ELSE IF w = Root THEN m.amount ELSE Own(held, m))
    OBVIOUS
<1> QED
    BY <1>1, <1>2 DEF MovedBy

\* A list that is in order after a step was in order before it, and the step put its
\* transaction at the end.
Grown(x) ==
    /\ DOMAIN moves' = 1..Len(moves) + 1 /\ Len(moves') = Len(moves) + 1 /\ moves'[Len(moves) + 1] = x
    /\ \A i \in 1..Len(moves) : moves'[i] = moves[i]

\* A list in order after Happen has the new transaction at its end.
LEMMA HappenAppends ==
    ASSUME TypeOK, InOrder', NEW kind, NEW from, NEW to, NEW amount,
           Happen(kind, from, to, amount),
           \A t \in Nat : [at |-> t, kind |-> kind, from |-> from, to |-> to, amount |-> amount] \in Moves
    PROVE  /\ InOrder
           /\ \E x \in Moves : /\ Grown(x)
                               /\ x.kind = kind /\ x.from = from /\ x.to = to /\ x.amount = amount
<1> DEFINE X(t) == [at |-> t, kind |-> kind, from |-> from, to |-> to, amount |-> amount]
           n == Len(moves)
<1>1. PICK t \in {Now, Now + 1} \ {0} : \E p \in Places(t) : moves' = InsertAt(moves, p, X(t))
    BY DEF Happen
<1>2. Now \in Nat /\ t \in Nat
    BY NowNat
<1>3. PICK p \in Places(t) : moves' = InsertAt(moves, p, X(t))
    BY <1>1
<1>4. p \in 1..n + 1 /\ \A i \in DOMAIN moves : moves[i].at < t => i < p
    BY DEF Places
<1>5. moves \in Seq(Moves) /\ DOMAIN moves = 1..n /\ n \in Nat
    BY DEF TypeOK
<1>6. X(t) \in Moves /\ X(t).at = t
    BY <1>2
<1>7. PICK x \in Moves : x = X(t)
    BY <1>6
<1>8. x.at = t /\ x.kind = kind /\ x.from = from /\ x.to = to /\ x.amount = amount
    BY <1>7
<1> HIDE DEF X, n
<1>9. /\ DOMAIN moves' = 1..n + 1 /\ moves'[p] = x
      /\ \A i \in 1..n + 1 : i < p => i \in 1..n /\ moves'[i] = moves[i]
      /\ \A i \in 1..n + 1 : i > p => i - 1 \in 1..n /\ moves'[i] = moves[i - 1]
    <2> DEFINE new == InsertAt(moves, p, x)
    <2>1. /\ DOMAIN new = 1..n + 1 /\ new[p] = x
          /\ \A i \in 1..n + 1 : i < p => i \in 1..n /\ new[i] = moves[i]
          /\ \A i \in 1..n + 1 : i > p => i - 1 \in 1..n /\ new[i] = moves[i - 1]
        BY <1>4, <1>5, PlacesAfter DEF n
    <2>2. moves' = new
        BY <1>3, <1>7
    <2> HIDE DEF new
    <2> QED
        BY <2>1, <2>2
<1>10. p = n + 1
    <2> SUFFICES ASSUME p # n + 1
                 PROVE  FALSE
        OBVIOUS
    <2>1. p \in 1..n /\ n \in 1..n /\ n + 1 \in 1..n + 1 /\ n + 1 > p /\ (n + 1) - 1 = n
        BY <1>4, <1>5
    <2>2. moves'[n + 1] = moves[n] /\ moves # <<>>
        BY <1>5, <1>9, <2>1
    <2>3. Now = moves[n].at
        BY <2>2 DEF Now, n
    <2>4. ~(moves[n].at < t)
        BY <1>4, <1>5, <2>1
    <2>5. moves[n].at = t
        BY <1>1, <1>2, <2>3, <2>4
    <2>6. moves'[n + 1].at = moves'[p].at /\ n + 1 \in DOMAIN moves' /\ p \in DOMAIN moves'
        BY <1>8, <1>9, <1>4, <2>1, <2>2, <2>5
    <2> QED
        BY <2>1, <2>6 DEF InOrder
<1>11. \A i \in 1..n : moves'[i] = moves[i]
    BY <1>5, <1>9, <1>10
<1>12. InOrder
    <2> SUFFICES ASSUME NEW i \in DOMAIN moves, NEW j \in DOMAIN moves, moves[i].at = moves[j].at
                 PROVE  i = j
        BY DEF InOrder
    <2>1. i \in DOMAIN moves' /\ j \in DOMAIN moves' /\ moves'[i].at = moves'[j].at
        BY <1>5, <1>9, <1>11
    <2> QED
        BY <2>1 DEF InOrder
<1>13. Len(moves') = n + 1
    <2>1. moves' \in Seq(Moves)
        BY <1>3, <1>4, <1>5, <1>7, InsertedSums DEF n
    <2> QED
        BY <1>5, <1>9, <2>1
<1> QED
    BY <1>8, <1>9, <1>10, <1>11, <1>12, <1>13 DEF Grown, n

\* Each step of the chain appends a transaction and moves what it says.
LEMMA NextAppends ==
    ASSUME TypeOK, InOrder', Next
    PROVE  /\ InOrder /\ opening' = opening
           /\ \E x \in Moves : Grown(x) /\ (held \in Held => held' = MovedBy(held, x))
<1>1. PICK w \in Wallets, amount \in Amounts :
          \/ \E kind \in {"sell", "burn", "liquidity"} : Dispose(kind, w, amount)
          \/ \E kind \in {"buy", "gift"} : Acquire(kind, w, amount)
          \/ \E kind \in {"transfer", "unclear"}, v \in Wallets : Pass(kind, w, v, amount)
    BY DEF Next
<1>2. amount \in Nat \ {0} /\ w # Market /\ w \in Holders /\ Market \in Holders
    BY ExitVerdictAssumption DEF Holders
<1>3. ASSUME NEW kind \in {"sell", "burn", "liquidity"}, Dispose(kind, w, amount)
      PROVE  /\ InOrder /\ opening' = opening
             /\ \E x \in Moves : Grown(x) /\ (held \in Held => held' = MovedBy(held, x))
    <2>1. \A t \in Nat : [at |-> t, kind |-> kind, from |-> w, to |-> Market, amount |-> amount] \in Moves
        BY <1>2 DEF Moves, Proper, Kinds
    <2>2. Happen(kind, w, Market, amount) /\ opening' = opening
        BY <1>3 DEF Dispose, Happen
    <2>3. InOrder
        BY <2>1, <2>2, HappenAppends
    <2>4. PICK x \in Moves : Grown(x) /\ x.kind = kind /\ x.from = w /\ x.to = Market /\ x.amount = amount
        BY <2>1, <2>2, HappenAppends
    <2>5. held \in Held => held' = MovedBy(held, x)
        BY <1>2, <1>3, <2>4, DisposeMoves
    <2> QED
        BY <2>2, <2>3, <2>4, <2>5
<1>4. ASSUME NEW kind, NEW from, NEW to, Happen(kind, from, to, amount), Follow(from, to, amount),
             kind \notin {"sell", "burn"},
             \A t \in Nat : [at |-> t, kind |-> kind, from |-> from, to |-> to, amount |-> amount] \in Moves
      PROVE  /\ InOrder /\ opening' = opening
             /\ \E x \in Moves : Grown(x) /\ (held \in Held => held' = MovedBy(held, x))
    <2>1. opening' = opening
        BY <1>4 DEF Happen
    <2>2. InOrder
        BY <1>4, HappenAppends
    <2>3. PICK x \in Moves : Grown(x) /\ x.kind = kind /\ x.from = from /\ x.to = to /\ x.amount = amount
        BY <1>4, HappenAppends
    <2>4. held' = MovedBy(held, x)
        BY <1>4, <2>3, FollowMoves
    <2> QED
        BY <2>1, <2>2, <2>3, <2>4
<1>5. ASSUME NEW kind \in {"buy", "gift"}, Acquire(kind, w, amount)
      PROVE  /\ Happen(kind, Market, w, amount) /\ Follow(Market, w, amount)
             /\ \A t \in Nat : [at |-> t, kind |-> kind, from |-> Market, to |-> w, amount |-> amount] \in Moves
    BY <1>2, <1>5 DEF Acquire, Moves, Proper, Kinds
<1>6. ASSUME NEW kind \in {"transfer", "unclear"}, NEW v \in Wallets, Pass(kind, w, v, amount)
      PROVE  /\ Happen(kind, w, v, amount) /\ Follow(w, v, amount)
             /\ \A t \in Nat : [at |-> t, kind |-> kind, from |-> w, to |-> v, amount |-> amount] \in Moves
    BY <1>2, <1>6 DEF Pass, Moves, Proper, Kinds, Holders
<1>7. CASE \E kind \in {"sell", "burn", "liquidity"} : Dispose(kind, w, amount)
    BY <1>3, <1>7
<1>8. CASE \E kind \in {"buy", "gift"} : Acquire(kind, w, amount)
    <2>1. PICK kind \in {"buy", "gift"} : Acquire(kind, w, amount)
        BY <1>8
    <2>2. kind \notin {"sell", "burn"}
        OBVIOUS
    <2> QED
        BY <1>4, <1>5, <2>1, <2>2
<1>9. CASE \E kind \in {"transfer", "unclear"}, v \in Wallets : Pass(kind, w, v, amount)
    <2>1. PICK kind \in {"transfer", "unclear"}, v \in Wallets : Pass(kind, w, v, amount)
        BY <1>9
    <2>2. kind \notin {"sell", "burn"}
        OBVIOUS
    <2> QED
        BY <1>4, <1>6, <2>1, <2>2
<1> QED
    BY <1>1, <1>7, <1>8, <1>9

\* Where the order of the list is that of the chain, every wallet could pay for what it
\* gave when it gave it.
Solvent ==
    InOrder => \A w \in Wallets : \A k \in 0..Len(moves) : opening[w] + SumOver(1..k, Brought(w)) >= 0

\* Solvent is inductive.
LEMMA StaysSolvent ==
    /\ Init => Solvent
    /\ TypeOK /\ Balanced /\ Solvent /\ [Next]_vars => Solvent'
<1>1. ASSUME Init
      PROVE  Solvent
    <2>1. TypeOK /\ moves = <<>>
        BY <1>1, StartsBalanced DEF Init
    <2>2. ASSUME NEW w \in Wallets, NEW k \in 0..Len(moves)
          PROVE  opening[w] + SumOver(1..k, Brought(w)) >= 0
        <3>1. k = 0 /\ opening[w] \in Nat
            BY <2>1 DEF TypeOK
        <3>2. SumOver(1..0, Brought(w)) = 0
            BY SumNone
        <3> QED
            BY <3>1, <3>2
    <2> QED
        BY <2>2 DEF Solvent
<1>2. ASSUME TypeOK, Balanced, Solvent, UNCHANGED vars
      PROVE  Solvent'
    BY <1>2 DEF vars, Solvent, InOrder, Brought
<1>3. ASSUME TypeOK, Balanced, Solvent, Next
      PROVE  Solvent'
    <2> SUFFICES ASSUME InOrder', NEW w \in Wallets, NEW k \in 0..Len(moves')
                 PROVE  opening'[w] + SumOver(1..k, Brought(w)') >= 0
        BY DEF Solvent
    <2>1. InOrder /\ opening' = opening
        BY <1>3, NextAppends
    <2>2. PICK x \in Moves : Grown(x)
        BY <1>3, NextAppends
    <2>3. TypeOK' /\ Balanced'
        BY <1>3, StaysBalanced
    <2>4. PICK n \in Nat : n = Len(moves) /\ DOMAIN moves = 1..n
        BY <1>3 DEF TypeOK
    <2>5. DOMAIN moves' = 1..n + 1 /\ Len(moves') = n + 1 /\ \A i \in 1..n : moves'[i] = moves[i]
        BY <2>2, <2>4 DEF Grown
    <2>6. CASE k = n + 1
        <3>1. (balance'[w] = opening'[w] + SumOver(DOMAIN moves', Brought(w)')) /\ balance'[w] \in Nat
            BY <2>3 DEF Balanced, TypeOK
        <3>2. DOMAIN moves' = 1..k
            BY <2>5, <2>6
        <3> QED
            BY <3>1, <3>2
    <2>7. CASE k # n + 1
        <3>1. k \in 0..n /\ k \in Nat
            BY <2>4, <2>5, <2>7
        <3>2. \A i \in 1..k : Brought(w)[i] \in Int /\ Brought(w)'[i] = Brought(w)[i]
            <4> TAKE i \in 1..k
            <4>1. i \in DOMAIN moves /\ i \in DOMAIN moves' /\ moves'[i] = moves[i]
                BY <2>4, <2>5, <3>1
            <4>2. Gain(moves[i], w) \in Int
                BY <1>3, <4>1, KindsOfMoves
            <4> QED
                BY <4>1, <4>2 DEF Brought
        <3>3. IsFiniteSet(1..k)
            BY <3>1, FS_Interval
        <3>4. PICK f, g, A : f = Brought(w) /\ g = Brought(w)' /\ A = 1..k
            OBVIOUS
        <3>5. SumFunctionOnSet(f, A) = SumFunctionOnSet(g, A)
            BY <3>2, <3>3, <3>4, SumSame
        <3>6. opening[w] + SumOver(1..k, Brought(w)) >= 0
            BY <1>3, <2>1, <2>4, <3>1 DEF Solvent
        <3> QED
            BY <2>1, <3>4, <3>5, <3>6 DEF SumOver
    <2> QED
        BY <2>6, <2>7
<1> QED
    BY <1>1, <1>2, <1>3

\* Where the seller's inventory was after each transaction.
Story(h) ==
    /\ h \in [0..Len(moves) -> Held]
    /\ h[0] = [w \in Holders |-> IF w = Root THEN opening[Root] ELSE 0]
    /\ \A i \in 1..Len(moves) : h[i] = MovedBy(h[i - 1], moves[i])
    /\ h[Len(moves)] = held

\* Where the list is in order, there is such a story.
Recorded == InOrder => \E h : Story(h)

\* Recorded is inductive.
LEMMA StaysRecorded ==
    /\ Init => Recorded
    /\ TypeOK /\ Recorded /\ [Next]_vars => Recorded'
<1>1. ASSUME Init
      PROVE  Recorded
    <2> DEFINE a == [w \in Holders |-> IF w = Root THEN opening[Root] ELSE 0]
               h == [i \in 0..0 |-> a]
    <2>1. opening[Root] \in Nat
        BY <1>1, StartsBalanced, ExitVerdictAssumption DEF TypeOK
    <2>2. moves = <<>> /\ held = a
        BY <1>1 DEF Init, Holders
    <2>3. a \in Held
        BY <2>1 DEF Held
    <2> HIDE DEF a
    <2>4. h \in [0..0 -> Held] /\ h[0] = a
        BY <2>3
    <2>5. Len(moves) = 0 /\ 1..0 = {}
        BY <2>2
    <2> HIDE DEF h
    <2>6. Story(h)
        BY <2>2, <2>4, <2>5 DEF Story, a
    <2> QED
        BY <2>6 DEF Recorded
<1>2. ASSUME TypeOK, Recorded, UNCHANGED vars
      PROVE  Recorded'
    BY <1>2 DEF vars, Recorded, InOrder, Story
<1>3. ASSUME TypeOK, Recorded, Next
      PROVE  Recorded'
    <2> SUFFICES ASSUME InOrder'
                 PROVE  \E h : Story(h)'
        BY DEF Recorded
    <2>1. InOrder /\ opening' = opening
        BY <1>3, NextAppends
    <2>2. PICK x \in Moves : Grown(x) /\ (held \in Held => held' = MovedBy(held, x))
        BY <1>3, NextAppends
    <2>3. PICK h : Story(h)
        BY <1>3, <2>1 DEF Recorded
    <2>4. PICK n \in Nat : n = Len(moves)
        BY <1>3 DEF TypeOK
    <2>5. /\ h \in [0..n -> Held] /\ h[n] = held
          /\ h[0] = [w \in Holders |-> IF w = Root THEN opening[Root] ELSE 0]
          /\ \A i \in 1..n : h[i] = MovedBy(h[i - 1], moves[i])
        BY <2>3, <2>4 DEF Story
    <2>6. held \in Held /\ held' = MovedBy(held, x) /\ held' \in Held
        BY <2>2, <2>4, <2>5, MovedByHeld
    <2> DEFINE next == [i \in 0..n + 1 |-> IF i = n + 1 THEN held' ELSE h[i]]
    <2>13. PICK u : u = next
        OBVIOUS
    <2>7. /\ u \in [0..n + 1 -> Held] /\ u[n + 1] = held' /\ \A i \in 0..n : u[i] = h[i]
        <3>1. \A i \in 0..n + 1 : i # n + 1 => i \in 0..n
            BY <2>4
        <3>2. \A i \in 0..n : i # n + 1 /\ i \in 0..n + 1
            BY <2>4
        <3> QED
            BY <2>5, <2>6, <2>13, <3>1, <3>2
    <2> HIDE DEF next
    <2>8. Len(moves') = n + 1 /\ moves'[n + 1] = x /\ \A i \in 1..n : moves'[i] = moves[i]
        BY <2>2, <2>4 DEF Grown
    <2>9. ASSUME NEW i \in 1..n + 1
          PROVE  u[i] = MovedBy(u[i - 1], moves'[i])
        <3>1. CASE i = n + 1
            <4>1. i - 1 = n /\ n \in 0..n
                BY <2>4, <3>1
            <4> QED
                BY <2>5, <2>6, <2>7, <2>8, <3>1, <4>1
        <3>2. CASE i # n + 1
            <4>1. i \in 1..n /\ i \in 0..n /\ i - 1 \in 0..n
                BY <2>4, <3>2
            <4> QED
                BY <2>5, <2>7, <2>8, <4>1
        <3> QED
            BY <3>1, <3>2
    <2>10. u[0] = [w \in Holders |-> IF w = Root THEN opening[Root] ELSE 0]
        BY <2>4, <2>5, <2>7
    <2>11. /\ u \in [0..Len(moves') -> Held] /\ u[Len(moves')] = held'
           /\ u[0] = [w \in Holders |-> IF w = Root THEN opening'[Root] ELSE 0]
           /\ \A i \in 1..Len(moves') : u[i] = MovedBy(u[i - 1], moves'[i])
        BY <2>1, <2>7, <2>8, <2>9, <2>10
    <2>12. Story(u)'
        BY <2>11 DEF Story, MovedBy, Own
    <2> QED
        BY <2>12
<1> QED
    BY <1>1, <1>2, <1>3

\* The seller's part of a story is what it held.
LEMMA RootHolds ==
    ASSUME TypeOK, InOrder, Solvent, NEW h, Story(h), NEW k \in 0..Len(moves)
    PROVE  /\ h[k][Root] = opening[Root] + SumOver(1..k, Brought(Root))
           /\ \A i \in DOMAIN moves : i = k + 1 /\ moves[i].from = Root => moves[i].amount <= h[k][Root]
<1> DEFINE f == Brought(Root)
<1>1. PICK n \in Nat : n = Len(moves) /\ DOMAIN moves = 1..n
    BY DEF TypeOK
<1>2. /\ h \in [0..n -> Held]
      /\ h[0] = [w \in Holders |-> IF w = Root THEN opening[Root] ELSE 0]
      /\ \A i \in 1..n : h[i] = MovedBy(h[i - 1], moves[i])
    BY <1>1 DEF Story
<1>3. Root \in Wallets /\ Root \in Holders /\ Root # Market
    BY ExitVerdictAssumption DEF Holders
<1>4. PICK o \in Nat : o = opening[Root]
    BY <1>3 DEF TypeOK
<1>5. \A i \in 1..n : f[i] = Gain(moves[i], Root) /\ f[i] \in Int
    BY <1>1, KindsOfMoves DEF Brought
<1>6. \A i \in 0..n : o + SumOver(1..i, f) >= 0
    BY <1>1, <1>3, <1>4 DEF Solvent
<1> HIDE DEF f
<1> DEFINE P(m) == m <= n => h[m][Root] = o + SumOver(1..m, f)
           N == {m \in Nat : P(m)}
<1>7. ASSUME NEW m \in Nat, m + 1 <= n, h[m][Root] = o + SumOver(1..m, f)
      PROVE  /\ h[m + 1][Root] = o + SumOver(1..m + 1, f)
             /\ moves[m + 1].from = Root => moves[m + 1].amount <= h[m][Root]
    <2>1. m + 1 \in 1..n /\ m \in 0..n /\ m + 1 \in 0..n /\ (m + 1) - 1 = m
        BY <1>7
    <2>2. \A i \in 1..m + 1 : f[i] \in Int
        BY <1>5, <1>7
    <2>3. SumOver(1..m + 1, f) = f[m + 1] + SumOver(1..m, f) /\ SumOver(1..m, f) \in Int
        BY <2>2, SumNext
    <2>4. PICK x : x = moves[m + 1]
        OBVIOUS
    <2>5. PICK a : a = h[m]
        OBVIOUS
    <2>6. h[m + 1] = MovedBy(a, x) /\ a \in Held
        BY <1>2, <2>1, <2>4, <2>5
    <2>7. /\ x.amount \in Nat \ {0} /\ x.from # x.to /\ x.from \in Holders
          /\ x.to = Root => x.kind \notin {"sell", "burn"}
        <3>1. m + 1 \in DOMAIN moves
            BY <1>1, <2>1
        <3> QED
            BY <2>4, <3>1, KindsOfMoves DEF Holders
    <2>8. PICK s \in Int, amount \in Nat \ {0}, b \in Nat :
              s = SumOver(1..m, f) /\ amount = x.amount /\ b = a[Root]
        BY <1>3, <2>3, <2>6, <2>7 DEF Held
    <2>9. b = o + s
        BY <1>7, <2>5, <2>8
    <2>10. f[m + 1] = (IF x.to = Root THEN amount ELSE 0) - (IF x.from = Root THEN amount ELSE 0)
        BY <1>5, <2>1, <2>4, <2>8 DEF Gain
    <2>11. o + (f[m + 1] + s) >= 0
        <3>1. o + SumOver(1..m + 1, f) >= 0
            BY <1>6, <2>1
        <3> QED
            BY <2>3, <2>8, <3>1
    <2>12. MovedBy(a, x)[Root] = b - (IF x.from = Root THEN Own(a, x) ELSE 0)
                                  + (IF x.to = Root THEN amount ELSE 0)
        BY <1>3, <2>7, <2>8 DEF MovedBy
    <2>13. CASE x.from = Root
        <3>1. x.to # Root /\ f[m + 1] = -amount
            BY <2>7, <2>10, <2>13
        <3>2. amount <= b
            BY <2>9, <2>11, <3>1
        <3>3. Own(a, x) = amount
            BY <1>3, <2>8, <2>13, <3>2 DEF Own, Lesser
        <3>4. MovedBy(a, x)[Root] = b - amount
            BY <2>12, <2>13, <3>1, <3>3
        <3> QED
            BY <2>3, <2>4, <2>5, <2>6, <2>8, <2>9, <3>1, <3>2, <3>4
    <2>14. CASE x.from # Root
        <3>1. MovedBy(a, x)[Root] = b + f[m + 1]
            BY <2>10, <2>12, <2>14
        <3>2. f[m + 1] \in Int
            BY <1>5, <2>1
        <3>3. h[m + 1][Root] = o + SumOver(1..m + 1, f)
            BY <2>3, <2>6, <2>8, <2>9, <3>1, <3>2
        <3> QED
            BY <2>4, <2>14, <3>3
    <2> QED
        BY <2>13, <2>14
<1>8. 0 \in N
    <2>1. SumOver(1..0, f) = 0
        BY SumNone
    <2>2. h[0][Root] = o
        BY <1>2, <1>3, <1>4
    <2> QED
        BY <2>1, <2>2
<1>9. ASSUME NEW m \in N
      PROVE  m + 1 \in N
    <2>1. m \in Nat /\ m + 1 \in Nat /\ (m <= n => h[m][Root] = o + SumOver(1..m, f))
        BY <1>9
    <2>2. m + 1 <= n => h[m + 1][Root] = o + SumOver(1..m + 1, f)
        BY <1>7, <2>1
    <2> QED
        BY <2>1, <2>2
<1>10. N = Nat
    <2> HIDE DEF N, P
    <2>1. N \in SUBSET Nat
        BY DEF N
    <2> QED
        BY <1>8, <1>9, <2>1, Induct
<1>11. k \in Nat /\ k <= n
    BY <1>1
<1>12. h[k][Root] = o + SumOver(1..k, f)
    BY <1>10, <1>11
<1>13. \A i \in DOMAIN moves : i = k + 1 /\ moves[i].from = Root => moves[i].amount <= h[k][Root]
    <2> TAKE i \in DOMAIN moves
    <2>1. i = k + 1 => k + 1 <= n
        BY <1>1, <1>11
    <2> QED
        BY <1>7, <1>11, <1>12, <2>1
<1> QED
    BY <1>4, <1>12, <1>13 DEF f
-----------------------------------------------------------------------------
(***************************************************************************)
(* The lots are where the inventory is                                     *)
(***************************************************************************)
\* The lots of v lose k and those of w, which may be none, gain it.
Flows(t, u, v, w, k) ==
    \A x \in Wallets :
        Remaining(u, x) = Remaining(t, x) - (IF x = v THEN k ELSE 0) + (IF x = w THEN k ELSE 0)

\* Where the lots a reduction uses go: to the wallet a transfer pays, or out.
Reaches(e) == IF Concrete(e) /\ e.destination # Root THEN e.destination ELSE Market

\* A reduction takes from the lots of its wallet what they have, up to its amount.
LEMMA UseFlows ==
    ASSUME NEW t \in Traces, NEW e, e.signature \in Nat, e.at \in Nat, e.delta \in Int, e.delta < 0,
           e.wallet \in Wallets, Concrete(e) => e.destination \in Wallets,
           NEW own, own = Lesser(Remaining(t, e.wallet), -e.delta)
    PROVE  \/ UseLots(t, e).unresolved
           \/ /\ Flows(t, UseLots(t, e), e.wallet, Reaches(e), own)
              /\ own = 0 \/ e.type \in {"SELL", "BURN", "TRANSFER"}
<1> DEFINE w == e.wallet
           lots == t.lots[w]
           uses == Uses(lots, -e.delta)
           total == SumOver(DOMAIN lots, uses)
           kept == Kept(t, w, uses)
           u == UseLots(t, e)
<1>1. lots \in Seq(Lot) /\ -e.delta \in Nat
    BY DEF Traces
<1>2. Gives(lots, uses)
    BY <1>1, UsesFacts
<1>3. u = CASE total = 0 -> t
            [] total > 0 /\ e.type = "SELL" -> SoldMore(kept, total)
            [] total > 0 /\ e.type = "BURN" -> BurnedMore(kept, total)
            [] total > 0 /\ Concrete(e) -> IF e.destination = Root THEN kept
                                           ELSE Spread(kept, uses, lots, e)
            [] OTHER -> LeftOpen(kept)
    BY DEF UseLots, Kept, SoldMore, BurnedMore, LeftOpen
<1>4. total = own
    <2>1. PICK q : q = lots
        OBVIOUS
    <2>2. q \in Seq(Lot) /\ Lots(q, Len(q)) /\ DOMAIN q = 1..Len(q)
        BY <1>1, <2>1, LotsAre DEF Lots
    <2>3. PICK g : g = uses
        OBVIOUS
    <2>4. PICK a \in Nat : a = -e.delta
        BY <1>1
    <2>5. g = Uses(q, a)
        BY <2>1, <2>3, <2>4
    <2>6. SumOver(1..Len(q), g) = Lesser(LeftOf(q), a)
        BY <2>2, <2>5, UsesExact
    <2>7. LeftOf(q) = Remaining(t, w)
        BY <2>1 DEF LeftOf, Remaining
    <2> QED
        BY <2>1, <2>2, <2>3, <2>4, <2>6, <2>7
<1> HIDE DEF uses, u
<1>5. /\ kept \in Traces /\ total \in Nat /\ Grew(t, kept, w, -total)
      /\ kept.unresolved = t.unresolved
    BY <1>2, KeptFacts
<1>6. PICK c \in Traces, k \in Nat : c = kept /\ k = total
    BY <1>5
<1> HIDE DEF kept, total, lots
<1>7. Grew(t, c, w, -k) /\ k = own
    BY <1>4, <1>5, <1>6
<1>8. Market \notin Wallets /\ Market # Root
    BY ExitVerdictAssumption
<1>9. ASSUME NEW v, v.lots = c.lots, Reaches(e) = Market
      PROVE  Flows(t, v, w, Reaches(e), k)
    <2> SUFFICES ASSUME NEW x \in Wallets
                 PROVE  Remaining(v, x) = Remaining(t, x) - (IF x = w THEN k ELSE 0)
                                             + (IF x = Reaches(e) THEN k ELSE 0)
        BY DEF Flows
    <2>1. Remaining(v, x) = Remaining(c, x)
        BY <1>9 DEF Remaining
    <2>2. PICK r \in Nat : r = Remaining(t, x)
        BY RemainingNat
    <2>3. Remaining(c, x) = r + (IF x = w THEN -k ELSE 0)
        BY <1>7, <2>2 DEF Grew
    <2> QED
        BY <1>8, <1>9, <2>1, <2>2, <2>3
<1>10. e.type \in {"SELL", "BURN"} => Reaches(e) = Market
    BY DEF Reaches, Concrete
<1>11. CASE k = 0
    <2>1. u = t
        BY <1>3, <1>6, <1>11
    <2>2. Flows(t, t, w, Reaches(e), k)
        <3>1. \A x \in Wallets : Remaining(t, x) = Remaining(t, x) - 0 + 0
            BY RemainingNat
        <3> QED
            BY <1>11, <3>1 DEF Flows
    <2> QED
        BY <1>7, <1>11, <2>1, <2>2 DEF u
<1>12. CASE k > 0 /\ e.type = "SELL"
    <2>1. u = SoldMore(c, k)
        BY <1>3, <1>6, <1>12 DEF Concrete
    <2>2. u.lots = c.lots
        BY <2>1, Counting DEF Counts
    <2> QED
        BY <1>7, <1>9, <1>10, <1>12, <2>2 DEF u
<1>13. CASE k > 0 /\ e.type = "BURN"
    <2>1. u = BurnedMore(c, k)
        BY <1>3, <1>6, <1>13 DEF Concrete
    <2>2. u.lots = c.lots
        BY <2>1, Counting DEF Counts
    <2> QED
        BY <1>7, <1>9, <1>10, <1>13, <2>2 DEF u
<1>14. CASE k > 0 /\ Concrete(e) /\ e.destination = Root
    <2>1. u = c
        BY <1>3, <1>6, <1>14 DEF Concrete
    <2>2. Reaches(e) = Market /\ e.type = "TRANSFER"
        BY <1>14 DEF Reaches, Concrete
    <2> QED
        BY <1>7, <1>9, <2>1, <2>2 DEF u
<1>15. CASE k > 0 /\ Concrete(e) /\ e.destination # Root
    <2>1. u = Spread(c, uses, lots, e)
        BY <1>3, <1>6, <1>15 DEF Concrete
    <2>2. lots \in Seq(Lot) /\ SumOver(DOMAIN lots, uses) = k
        BY <1>1, <1>6 DEF lots, total
    <2>3. u.unresolved \/ Grew(c, u, e.destination, k)
        BY <1>2, <1>15, <2>1, <2>2, SpreadFacts DEF lots
    <2>4. Reaches(e) = e.destination /\ e.type = "TRANSFER"
        BY <1>15 DEF Reaches, Concrete
    <2>5. ASSUME Grew(c, u, e.destination, k)
          PROVE  Flows(t, u, w, Reaches(e), k)
        <3> SUFFICES ASSUME NEW x \in Wallets
                     PROVE  Remaining(u, x) = Remaining(t, x) - (IF x = w THEN k ELSE 0)
                                                 + (IF x = Reaches(e) THEN k ELSE 0)
            BY DEF Flows
        <3>1. PICK r \in Nat : r = Remaining(t, x)
            BY RemainingNat
        <3>2. Remaining(c, x) = r + (IF x = w THEN -k ELSE 0)
            BY <1>7, <3>1 DEF Grew
        <3>3. Remaining(u, x) = Remaining(c, x) + (IF x = Reaches(e) THEN k ELSE 0)
            BY <2>4, <2>5 DEF Grew
        <3> QED
            BY <3>1, <3>2, <3>3
    <2> QED
        BY <1>7, <2>3, <2>4, <2>5 DEF u
<1>16. CASE k > 0 /\ e.type \notin {"SELL", "BURN"} /\ ~Concrete(e)
    <2>1. u = LeftOpen(c)
        BY <1>3, <1>6, <1>16
    <2>2. u.unresolved
        BY <2>1, Counting DEF Counts
    <2> QED
        BY <2>2 DEF u
<1> QED
    BY <1>11, <1>12, <1>13, <1>14, <1>15, <1>16

\* A transfer of the seller opens a lot, nothing else it does changes the lots.
LEMMA LeaveFlows ==
    ASSUME NEW t \in Traces, NEW e, e.signature \in Nat, e.at \in Nat, e.delta \in Int, e.delta < 0,
           Concrete(e) => e.destination \in Wallets
    PROVE  \/ LeaveRoot(t, e).unresolved
           \/ Grew(t, LeaveRoot(t, e), e.destination, IF Concrete(e) THEN -e.delta ELSE 0)
<1>1. CASE ~Concrete(e)
    <2>1. LeaveRoot(t, e) = t
        BY <1>1 DEF LeaveRoot
    <2> QED
        BY <1>1, <2>1, SameLeft
<1>2. CASE Concrete(e) /\ traceDepth = 0
    <2>1. LeaveRoot(t, e) = LeftOpen(t)
        BY <1>2 DEF LeaveRoot, LeftOpen
    <2> QED
        BY <2>1, Counting DEF Counts
<1>3. CASE Concrete(e) /\ traceDepth # 0
    <2>1. PICK w \in Wallets, a \in Nat, d \in Nat \ {0} : w = e.destination /\ a = -e.delta /\ d = 1
        BY <1>3
    <2>2. LeaveRoot(t, e) = AddLot(t, w, a, d, e)
        BY <1>3, <2>1 DEF LeaveRoot
    <2>3. Grew(t, AddLot(t, w, a, d, e), w, a)
        BY AddLotFacts
    <2> QED
        BY <1>3, <2>1, <2>2, <2>3
<1> QED
    BY <1>1, <1>2, <1>3

\* No pool has any of the seller's inventory, and what each other wallet has is what its
\* lots have left.
Accords(t, a) ==
    t.unresolved \/ (a[Market] = 0 /\ \A w \in Wallets \ {Root} : a[w] = Remaining(t, w))

\* A transaction moves the inventory as its event moves the lots.
LEMMA MoveAccords ==
    ASSUME TypeOK, Closed, NEW ev, NEW lost, NEW won, Tells(ev, TRUE, lost, won), Sane(ev),
           NEW k \in DOMAIN moves, NEW j \in DOMAIN ev, ev[j] = Lost(k),
           NEW t \in Traces, NEW a \in Held, moves[k].from = Root => moves[k].amount <= a[Root],
           Accords(t, a)
    PROVE  Accords(TraceStep(ev, t, ev[j]), MovedBy(a, moves[k]))
<1>1. PICK m, e, u : m = moves[k] /\ e = ev[j] /\ u = TraceStep(ev, t, e)
    OBVIOUS
<1>2. /\ e.signature = k /\ e.wallet = m.from /\ e.delta = -m.amount /\ e.destination = m.to
      /\ m.kind = "liquidity" => e.type = "LIQUIDITY_EVENT"
      /\ m.kind = "unclear" => e.type = "UNKNOWN"
    BY <1>1, FieldsOfEvents
<1>3. /\ m.amount \in Nat \ {0}
      /\ \/ m.kind \in {"sell", "burn", "liquidity"} /\ m.from \in Wallets /\ m.to = Market
         \/ m.kind \in {"buy", "gift"} /\ m.from = Market /\ m.to \in Wallets
         \/ /\ m.kind \in {"transfer", "unclear"} /\ m.from # m.to
            /\ m.from \in Wallets /\ m.to \in Wallets
      /\ Root # Market /\ Root \in Wallets /\ Market \notin Wallets
    BY <1>1, KindsOfMoves
<1>4. Concrete(e) <=> m.kind \in {"buy", "gift", "transfer"}
    BY <1>1, ConcreteMoves
<1>5. /\ e.signature \in Nat /\ e.at \in Nat /\ e.delta \in Int /\ e.wallet \in Holders
      /\ Settlement(ev, e) => e.wallet = Market
      /\ Concrete(e) => e.destination \in Wallets
    BY <1>1 DEF Sane
<1>6. e.delta < 0 /\ ~(e.delta >= 0)
    BY <1>2, <1>3
<1>7. Follows(t, u)
    <2>1. Stepped(ev, t, TraceStep(ev, t, ev[j]), ev[j])
        BY StepFacts
    <2> QED
        BY <1>1, <2>1 DEF Stepped
<1> SUFFICES ASSUME ~u.unresolved
             PROVE  /\ MovedBy(a, m)[Market] = 0
                    /\ \A w \in Wallets \ {Root} : MovedBy(a, m)[w] = Remaining(u, w)
    BY <1>1 DEF Accords
<1>8. a[Market] = 0 /\ \A w \in Wallets \ {Root} : a[w] = Remaining(t, w)
    BY <1>7 DEF Follows, Accords
<1>9. \A w \in Holders : a[w] \in Nat
    BY DEF Held
<1>10. Holders = Wallets \cup {Market}
    BY DEF Holders
<1>11. PICK o : o = Own(a, m)
    OBVIOUS
<1>12. \A w \in Holders : MovedBy(a, m)[w] =
           a[w] - (IF w = m.from THEN o ELSE 0)
                + (IF w # m.to \/ m.kind \in {"sell", "burn"} THEN 0
                   ELSE IF w = Root THEN m.amount ELSE o)
    BY <1>11 DEF MovedBy
<1>13. o = IF m.from = Market THEN 0 ELSE Lesser(a[m.from], m.amount)
    BY <1>11 DEF Own
<1>14. PICK n \in Nat \ {0} : n = m.amount
    BY <1>3
<1>15. CASE m.from = Market
    <2>1. u = t
        BY <1>1, <1>2, <1>15 DEF TraceStep
    <2>2. o = 0
        BY <1>13, <1>15
    <2>3. \A w \in Holders \ {Root} : MovedBy(a, m)[w] = a[w]
        BY <1>9, <1>12, <2>2
    <2> QED
        BY <1>3, <1>8, <1>10, <2>1, <2>3
<1>16. CASE m.from = Root
    <2>1. u = LeaveRoot(t, e)
        BY <1>1, <1>2, <1>3, <1>5, <1>6, <1>16 DEF TraceStep
    <2>2. Grew(t, u, m.to, IF Concrete(e) THEN n ELSE 0)
        <3>1. -e.delta = n
            BY <1>2, <1>14
        <3>2. Grew(t, u, e.destination, IF Concrete(e) THEN -e.delta ELSE 0)
            BY <1>5, <1>6, <2>1, LeaveFlows
        <3> QED
            BY <1>2, <3>1, <3>2
    <2>3. m.kind \in {"sell", "burn", "transfer"}
        BY <1>1, <1>16 DEF Closed
    <2>4. o = n
        <3>1. a[Root] \in Nat /\ n <= a[Root]
            BY <1>1, <1>3, <1>9, <1>10, <1>14, <1>16
        <3> QED
            BY <1>3, <1>13, <1>14, <1>16, <3>1 DEF Lesser
    <2>5. CASE m.kind = "transfer"
        <3>1. Concrete(e) /\ m.to \in Wallets /\ m.to # Root
            BY <1>3, <1>4, <1>16, <2>5
        <3>2. MovedBy(a, m)[Market] = 0
            BY <1>3, <1>8, <1>10, <1>12, <1>16, <2>5
        <3>3. ASSUME NEW w \in Wallets \ {Root}
              PROVE  MovedBy(a, m)[w] = Remaining(u, w)
            <4>1. Remaining(u, w) = Remaining(t, w) + (IF w = m.to THEN n ELSE 0)
                BY <2>2, <3>1 DEF Grew
            <4>2. PICK r \in Nat : r = a[w] /\ r = Remaining(t, w)
                BY <1>8, <1>9, <1>10
            <4>3. MovedBy(a, m)[w] = r + (IF w = m.to THEN n ELSE 0)
                <5>1. w \in Holders /\ w # m.from /\ w # Root
                    BY <1>10, <1>16
                <5>2. MovedBy(a, m)[w] = r - 0 + (IF w = m.to THEN n ELSE 0)
                    BY <1>12, <2>4, <2>5, <4>2, <5>1
                <5> QED
                    BY <1>14, <4>2, <5>2
            <4> QED
                BY <4>1, <4>2, <4>3
        <3> QED
            BY <3>2, <3>3
    <2>6. CASE m.kind # "transfer"
        <3>1. ~Concrete(e) /\ m.kind \in {"sell", "burn"}
            BY <1>4, <2>3, <2>6
        <3>2. \A w \in Holders \ {Root} : MovedBy(a, m)[w] = a[w]
            BY <1>9, <1>12, <1>16, <3>1
        <3>3. ASSUME NEW w \in Wallets \ {Root}
              PROVE  Remaining(u, w) = a[w]
            <4>1. Remaining(u, w) = Remaining(t, w) + (IF w = m.to THEN 0 ELSE 0)
                BY <2>2, <3>1 DEF Grew
            <4>2. PICK r \in Nat : r = a[w] /\ r = Remaining(t, w)
                BY <1>8, <1>9, <1>10
            <4> QED
                BY <4>1, <4>2
        <3> QED
            BY <1>3, <1>8, <1>10, <3>2, <3>3
    <2> QED
        BY <2>5, <2>6
<1>17. CASE m.from # Market /\ m.from # Root
    <2>1. m.from \in Wallets \ {Root}
        BY <1>3, <1>17
    <2>2. u = UseLots(t, e)
        BY <1>1, <1>2, <1>5, <1>6, <1>17 DEF TraceStep
    <2>3. o = Lesser(Remaining(t, e.wallet), -e.delta)
        <3>1. -e.delta = n
            BY <1>2, <1>14
        <3>2. a[m.from] = Remaining(t, e.wallet)
            BY <1>2, <1>8, <2>1
        <3> QED
            BY <1>13, <1>14, <1>17, <3>1, <3>2
    <2>4. Flows(t, u, e.wallet, Reaches(e), o) /\ (o = 0 \/ e.type \in {"SELL", "BURN", "TRANSFER"})
        <3>1. e.wallet \in Wallets
            BY <1>2, <2>1
        <3> QED
            BY <1>5, <1>6, <2>2, <2>3, <3>1, UseFlows
    <2>5. o \in Nat
        <3>1. a[m.from] \in Nat
            BY <1>9, <1>10, <2>1
        <3> QED
            BY <1>13, <1>14, <1>17, <3>1 DEF Lesser
    <2>6. \A w \in Wallets \ {Root} :
              Remaining(u, w) = a[w] - (IF w = m.from THEN o ELSE 0) + (IF w = Reaches(e) THEN o ELSE 0)
        BY <1>2, <1>8, <2>4 DEF Flows
    <2>7. CASE o = 0
        <3>1. \A w \in Holders \ {Root} : MovedBy(a, m)[w] = a[w]
            BY <1>9, <1>12, <2>7
        <3>2. \A w \in Wallets \ {Root} : Remaining(u, w) = a[w]
            BY <1>9, <1>10, <2>6, <2>7
        <3> QED
            BY <1>3, <1>8, <1>10, <3>1, <3>2
    <2>8. CASE o # 0
        <3>1. m.kind \in {"sell", "burn", "transfer"}
            BY <1>2, <1>3, <1>17, <2>4, <2>8
        <3>2. CASE m.kind \in {"sell", "burn"}
            <4>1. Reaches(e) = Market
                BY <1>4, <3>2 DEF Reaches
            <4>2. \A w \in Holders \ {Root} : MovedBy(a, m)[w] = a[w] - (IF w = m.from THEN o ELSE 0)
                BY <1>9, <1>12, <2>5, <3>2
            <4>3. \A w \in Wallets \ {Root} : Remaining(u, w) = a[w] - (IF w = m.from THEN o ELSE 0)
                BY <1>3, <1>9, <1>10, <2>5, <2>6, <4>1
            <4> QED
                BY <1>3, <1>8, <1>10, <1>17, <4>2, <4>3
        <3>3. CASE m.kind = "transfer"
            <4>1. Reaches(e) = IF m.to = Root THEN Market ELSE m.to
                BY <1>2, <1>4, <3>3 DEF Reaches
            <4>2. m.to \in Wallets /\ m.to # Market
                BY <1>3, <3>3
            <4>3. \A w \in Holders \ {Root} :
                     MovedBy(a, m)[w] = a[w] - (IF w = m.from THEN o ELSE 0) + (IF w = m.to THEN o ELSE 0)
                BY <1>9, <1>12, <2>5, <3>3
            <4>4. \A w \in Wallets \ {Root} :
                     Remaining(u, w) = a[w] - (IF w = m.from THEN o ELSE 0) + (IF w = m.to THEN o ELSE 0)
                BY <1>3, <2>6, <4>1
            <4>5. MovedBy(a, m)[Market] = 0
                BY <1>3, <1>8, <1>10, <1>17, <4>2, <4>3
            <4> QED
                BY <1>10, <4>3, <4>4, <4>5
        <3> QED
            BY <3>1, <3>2, <3>3
    <2> QED
        BY <2>7, <2>8
<1> QED
    BY <1>15, <1>16, <1>17

\* After every event the inventory is where the lots are.
LEMMA StoryAccords ==
    ASSUME TypeOK, InOrder, Solvent, Closed, NEW h, Story(h),
           NEW ev, NEW lost, NEW won, Tells(ev, TRUE, lost, won), Listed(ev), Sane(ev),
           NEW g, Records(g, ev)
    PROVE  Accords(g[Len(ev)], h[Len(moves)])
<1>1. PICK l \in Nat : l = Len(ev) /\ DOMAIN ev = 1..l
    BY DEF Listed
<1>2. PICK n \in Nat : n = Len(moves) /\ DOMAIN moves = 1..n
    BY DEF TypeOK
<1>3. /\ g \in [0..l -> Traces] /\ g[0] = NoTrace
      /\ \A i \in 1..l : g[i] = TraceStep(ev, g[i - 1], ev[i])
    BY <1>1 DEF Records
<1>4. /\ h \in [0..n -> Held]
      /\ h[0] = [w \in Holders |-> IF w = Root THEN opening[Root] ELSE 0]
      /\ \A i \in 1..n : h[i] = MovedBy(h[i - 1], moves[i])
    BY <1>2 DEF Story
<1> DEFINE Good(m) == Turn(ev, m) \in 0..n /\ Accords(g[m], h[Turn(ev, m)])
           N == {m \in Nat : m <= l => Good(m)}
<1>5. 0 \in N
    <2>1. Turn(ev, 0) = 0
        BY DEF Turn
    <2>2. Root # Market /\ Market \in Holders /\ \A w \in Wallets : w \in Holders
        BY ExitVerdictAssumption DEF Holders
    <2>3. h[0][Market] = 0 /\ \A w \in Wallets \ {Root} : h[0][w] = 0
        BY <1>4, <2>2
    <2>4. \A w \in Wallets : Remaining(NoTrace, w) = 0
        <3> TAKE w \in Wallets
        <3>1. Remaining(NoTrace, w) <= 0 /\ Remaining(NoTrace, w) \in Nat
            BY NoTraceFacts, LeftNat, RemainingNat
        <3> QED
            BY <3>1
    <2>5. Accords(g[0], h[0])
        BY <1>3, <2>3, <2>4 DEF Accords
    <2> QED
        BY <1>2, <2>1, <2>5
<1>6. ASSUME NEW m \in N
      PROVE  m + 1 \in N
    <2>1. m \in Nat /\ m + 1 \in Nat /\ (m <= l => Good(m))
        OBVIOUS
    <2> SUFFICES ASSUME m + 1 <= l
                 PROVE  Good(m + 1)
        <3> HIDE DEF Good
        <3> QED
            BY <2>1
    <2> HIDE DEF N
    <2>2. m + 1 \in 1..l /\ (m + 1) - 1 = m /\ m \in 0..l /\ m + 1 \in DOMAIN ev /\ Good(m)
        <3> HIDE DEF Good
        <3> QED
            BY <1>1, <2>1
    <2>3. PICK k : k = Turn(ev, m + 1)
        OBVIOUS
    <2>4. /\ k \in DOMAIN moves
          /\ \/ ev[m + 1] = Lost(k) /\ Turn(ev, m) = k - 1
             \/ ev[m + 1] = Won(k) /\ Turn(ev, m) = k /\ ev[m + 1].delta > 0
        BY <2>1, <2>2, <2>3, EventWalk
    <2>5. g[m + 1] = TraceStep(ev, g[m], ev[m + 1]) /\ g[m] \in Traces
        BY <1>3, <2>2
    <2>6. k \in 0..n /\ k \in 1..n /\ k - 1 \in 0..n
        BY <1>2, <2>4
    <2>7. CASE ev[m + 1] = Lost(k) /\ Turn(ev, m) = k - 1
        <3>1. Accords(g[m], h[k - 1])
            BY <2>2, <2>7
        <3>2. h[k] = MovedBy(h[k - 1], moves[k]) /\ h[k - 1] \in Held
            BY <1>4, <2>6
        <3>3. moves[k].from = Root => moves[k].amount <= h[k - 1][Root]
            <4>1. k = (k - 1) + 1
                BY <2>6
            <4> QED
                BY <1>2, <2>4, <2>6, <4>1, RootHolds
        <3>4. Accords(TraceStep(ev, g[m], ev[m + 1]), MovedBy(h[k - 1], moves[k]))
            BY <2>2, <2>4, <2>5, <2>7, <3>1, <3>2, <3>3, MoveAccords
        <3>5. Accords(g[m + 1], h[k])
            BY <2>5, <3>2, <3>4
        <3> QED
            BY <2>3, <2>6, <3>5
    <2>8. CASE ev[m + 1] = Won(k) /\ Turn(ev, m) = k /\ ev[m + 1].delta > 0
        <3>1. TraceStep(ev, g[m], ev[m + 1]) = g[m]
            <4>1. ev[m + 1].delta \in Int
                BY <2>2 DEF Sane
            <4>2. ev[m + 1].delta >= 0
                BY <2>8, <4>1
            <4> QED
                BY <4>2 DEF TraceStep
        <3> QED
            BY <2>2, <2>3, <2>5, <2>6, <2>8, <3>1
    <2> QED
        BY <2>4, <2>7, <2>8
<1>7. N = Nat
    <2> HIDE DEF N
    <2>1. N \in SUBSET Nat
        BY DEF N
    <2> QED
        BY <1>5, <1>6, <2>1, Induct
<1>8. Accords(g[l], h[Turn(ev, l)])
    BY <1>7
<1> QED
    BY <1>1, <1>8, EventsEnd

\* VERIFIED_OUT leaves none of the seller's inventory anywhere.
LEMMA OutHoldsNone ==
    ASSUME TypeOK, Balanced, Sorted, InOrder, Solvent, Recorded,
           NEW ev, NEW lost, NEW won, Tells(ev, TRUE, lost, won), Listed(ev), Verdict(ev, Trace(ev))
    PROVE  \A w \in DOMAIN held : held[w] = 0
<1>1. PICK strict : strict = TRUE
    OBVIOUS
<1>2. Sane(ev) /\ Len(ev) \in Nat /\ DOMAIN ev = 1..Len(ev)
    BY <1>1, EventsSane DEF Listed
<1>3. Closed
    BY VerdictCloses
<1>4. PICK h : Story(h)
    BY DEF Recorded
<1>5. PICK g : Records(g, ev) /\ Trace(ev) = g[Len(ev)]
    BY <1>2, TraceFolds
<1>6. Accords(Trace(ev), held)
    <2>1. Accords(g[Len(ev)], h[Len(moves)])
        BY <1>2, <1>3, <1>4, <1>5, StoryAccords
    <2> QED
        BY <1>4, <1>5, <2>1 DEF Story
<1>7. ~Trace(ev).unresolved /\ \A w \in Wallets : Remaining(Trace(ev), w) = 0
    BY AllSpent DEF Verdict
<1>8. held[Market] = 0 /\ \A w \in Wallets \ {Root} : held[w] = 0
    BY <1>6, <1>7 DEF Accords
<1>9. held[Root] = 0
    <2>1. PICK n \in Nat : n = Len(moves) /\ DOMAIN moves = 1..n
        BY DEF TypeOK
    <2>2. h[n][Root] = opening[Root] + SumOver(1..n, Brought(Root))
        BY <1>4, <2>1, RootHolds
    <2>3. balance[Root] = opening[Root] + SumOver(1..n, Brought(Root))
        BY <2>1, ExitVerdictAssumption DEF Balanced
    <2>4. balance[Root] = 0
        BY <1>3 DEF Closed
    <2> QED
        BY <1>4, <2>1, <2>2, <2>3, <2>4 DEF Story
<1>10. DOMAIN held = Wallets \cup {Market}
    <2>1. held \in Held
        <3>1. Len(moves) \in 0..Len(moves)
            BY DEF TypeOK
        <3> QED
            BY <1>4, <3>1 DEF Story
    <2> QED
        BY <2>1 DEF Held, Holders
<1> QED
    BY <1>8, <1>9, <1>10

\* The wallet report dates an exit only where the seller's inventory was zero.
LEMMA ExitWasReal ==
    ASSUME TypeOK, Balanced, InOrder, Solvent, NEW strict \in BOOLEAN, NEW ev, ev = Normalized(strict),
           Lifecycle(ev, Wallets, 0, TRUE).historical = "VERIFIED_OUT"
    PROVE  \E s \in DOMAIN moves : opening[Root] + SumOver(1..s, Brought(Root)) = 0
<1>1. Root \in Wallets
    BY ExitVerdictAssumption
<1>2. Historical(ev, 0, TRUE) = "VERIFIED_OUT"
    BY <1>1 DEF Lifecycle
<1>3. ExitRows(ev, 0) # {}
    BY <1>2 DEF Historical
<1>4. PICK s \in ExitRows(ev, 0) : TRUE
    BY <1>3
<1>5. s \in DOMAIN moves /\ Running(ev, s) <= 0
    BY DEF ExitRows, Timeline
<1>6. s \in 0..Len(moves)
    BY <1>5 DEF TypeOK
<1>7. PICK a, r : a = opening[Root] + SumOver(1..s, Brought(Root)) /\ r = Running(ev, s)
    OBVIOUS
<1>8. a \in Int /\ r \in Int /\ r >= a
    BY <1>6, <1>7, RunningAtLeast
<1>9. a >= 0
    BY <1>1, <1>6, <1>7 DEF Solvent
<1>10. a = 0
    BY <1>5, <1>7, <1>8, <1>9
<1> QED
    BY <1>5, <1>7, <1>10

\* When the seconds of the transactions differ, VERIFIED_OUT is the truth: verify-exit
\* says it only when no wallet holds any of the seller's inventory and no pool owes it
\* any, the wallet report only when the inventory of the seller was once zero.
THEOREM OutIsTrueHolds == Spec => []OutIsTrue
<1>1. ASSUME TypeOK, Balanced, Sorted, Solvent, Recorded
      PROVE  OutIsTrue
    <2> SUFFICES ASSUME InOrder
                 PROVE  /\ Report({}, TRUE) = "VERIFIED_OUT" => \A w \in DOMAIN held : held[w] = 0
                        /\ "VERIFIED_OUT" \in {Lifecycle(Events, Wallets, 0, TRUE).historical,
                                              WalletReport(Wallets, TRUE).historical} =>
                              \E s \in DOMAIN moves : opening[Root] + SumOver(1..s, Brought(Root)) = 0
        BY DEF OutIsTrue, Brought
    <2>1. PICK yes, no : yes = TRUE /\ no = FALSE /\ yes \in BOOLEAN /\ no \in BOOLEAN
        OBVIOUS
    <2>2. ASSUME Report({}, TRUE) = "VERIFIED_OUT"
          PROVE  \A w \in DOMAIN held : held[w] = 0
        <3>1. Verdict(Events, Trace(Events))
            BY <2>2, VerdictSays
        <3>2. PICK ev : ev = Events
            OBVIOUS
        <3>3. Listed(ev) /\ \E lost, won : Tells(ev, TRUE, lost, won)
            BY <1>1, <2>1, <3>2, EventsListed DEF Events
        <3>4. PICK lost, won : Tells(ev, TRUE, lost, won)
            BY <3>3
        <3> QED
            BY <1>1, <3>1, <3>2, <3>3, <3>4, OutHoldsNone
    <2>3. ASSUME Lifecycle(Events, Wallets, 0, TRUE).historical = "VERIFIED_OUT"
          PROVE  \E s \in DOMAIN moves : opening[Root] + SumOver(1..s, Brought(Root)) = 0
        BY <1>1, <2>1, <2>3, ExitWasReal DEF Events
    <2>4. ASSUME WalletReport(Wallets, TRUE).historical = "VERIFIED_OUT"
          PROVE  \E s \in DOMAIN moves : opening[Root] + SumOver(1..s, Brought(Root)) = 0
        BY <1>1, <2>1, <2>4, ExitWasReal DEF WalletReport, Ranked
    <2> QED
        BY <2>2, <2>3, <2>4
<1>2. TypeOK /\ Balanced /\ Sorted /\ Solvent /\ Recorded /\ [Next]_vars
          => (TypeOK /\ Balanced /\ Sorted /\ Solvent /\ Recorded)'
    BY StaysBalanced, StaysSorted, StaysSolvent, StaysRecorded
<1>3. Init => TypeOK /\ Balanced /\ Sorted /\ Solvent /\ Recorded
    BY StartsBalanced, StaysSorted, StaysSolvent, StaysRecorded
<1> QED
    BY <1>1, <1>2, <1>3, PTL DEF Spec
-----------------------------------------------------------------------------
(***************************************************************************)
(* What is linked to a wallet                                              *)
(***************************************************************************)
\* What a transaction delivers to a wallet by a proven transfer, and what it takes.
Sent(v) ==
    [i \in DOMAIN moves |-> IF moves[i].to = v /\ moves[i].kind \in {"buy", "gift", "transfer"}
                            THEN moves[i].amount ELSE 0]
Taken(v) == [i \in DOMAIN moves |-> IF moves[i].from = v THEN moves[i].amount ELSE 0]

\* A sum over some members is one over all to which the others add nothing.
LEMMA SumWhere ==
    ASSUME NEW A, IsFiniteSet(A), NEW B \in SUBSET A, NEW f, \A x \in B : f[x] \in Int,
           NEW g, \A x \in A : g[x] = IF x \in B THEN f[x] ELSE 0
    PROVE  SumFunctionOnSet(f, B) = SumFunctionOnSet(g, A)
<1> DEFINE C == A \ B
<1>1. IsFiniteSet(B) /\ IsFiniteSet(C) /\ B \cap C = {} /\ A = B \cup C
    BY FS_Subset
<1>2. (\A x \in B : g[x] = f[x]) /\ (\A x \in C : g[x] = 0) /\ \A x \in B \cup C : g[x] \in Int
    OBVIOUS
<1> HIDE DEF C
<1>3. SumFunctionOnSet(g, B \cup C) = SumFunctionOnSet(g, B) + SumFunctionOnSet(g, C)
    BY <1>1, <1>2, SumUnion
<1>4. SumFunctionOnSet(f, B) = SumFunctionOnSet(g, B)
    <2>1. \A x \in B : f[x] \in Int /\ g[x] = f[x]
        BY <1>2
    <2> QED
        BY <1>1, <2>1, SumSame
<1>5. SumFunctionOnSet(g, C) = 0
    BY <1>1, <1>2, SumZero
<1>6. SumFunctionOnSet(g, B) \in Int
    <2>1. \A x \in B : g[x] \in Int
        BY <1>2
    <2> QED
        BY <1>1, <2>1, SumInt
<1>7. PICK a \in Int : a = SumFunctionOnSet(g, B)
    BY <1>6
<1>8. SumFunctionOnSet(g, A) = a + 0
    BY <1>1, <1>3, <1>5, <1>7
<1> QED
    BY <1>4, <1>7, <1>8

\* What the wallets are linked to v for is all that is left of its lots.
LEMMA LinkedIsLeft ==
    ASSUME TypeOK, NEW ev, LinkLots(ev) \in Links, NEW v \in Wallets
    PROVE  SumOver(Holders, [w \in Holders |-> LinkedAmount(ev, w, v)])
               = IF traceDepth = 0 THEN 0 ELSE LeftOf(LinkLots(ev)[v])
<1> DEFINE f == [w \in Holders |-> LinkedAmount(ev, w, v)]
<1>1. IsFiniteSet(Holders)
    BY ExitVerdictAssumption, FS_AddElement DEF Holders
<1>2. CASE traceDepth = 0
    <2>1. \A w \in Holders : f[w] = 0
        BY <1>2 DEF LinkedAmount
    <2> HIDE DEF f
    <2>2. SumFunctionOnSet(f, Holders) = 0
        BY <1>1, <2>1, SumZero
    <2> QED
        BY <1>2, <2>2 DEF SumOver, f
<1>3. CASE traceDepth # 0
    <2>1. PICK lots : lots = LinkLots(ev)[v]
        OBVIOUS
    <2>2. lots \in Seq(LinkLot)
        <3>1. v \in Holders
            BY DEF Holders
        <3> QED
            BY <2>1, <3>1 DEF Links
    <2>3. Lots(lots, Len(lots)) /\ \A j \in DOMAIN lots : lots[j].source \in Holders
        BY <2>2, LinkLotsAre
    <2> DEFINE D == DOMAIN lots
               left == [j \in D |-> lots[j].left]
               source == [j \in D |-> lots[j].source]
    <2>4. IsFiniteSet(D) /\ \A j \in D : left[j] \in Int
        <3>1. D = 1..Len(lots) /\ Len(lots) \in Nat /\ \A j \in D : lots[j].left \in Nat
            BY <2>3 DEF Lots
        <3>2. IsFiniteSet(1..Len(lots))
            BY <3>1, FS_Interval
        <3>3. \A j \in D : left[j] = lots[j].left
            OBVIOUS
        <3> HIDE DEF D, left
        <3> QED
            BY <3>1, <3>2, <3>3
    <2>5. \A j \in D : source[j] \in Holders
        BY <2>3
    <2>6. \A w \in Holders : f[w] = SumFunctionOnSet(left, {j \in D : source[j] = w})
        <3> TAKE w \in Holders
        <3>1. {j \in D : source[j] = w} = {j \in DOMAIN lots : lots[j].source = w}
            OBVIOUS
        <3>2. LinkedAmount(ev, w, v) = SumFunctionOnSet(left, {j \in DOMAIN lots : lots[j].source = w})
            BY <1>3, <2>1 DEF LinkedAmount, SumOver
        <3> QED
            BY <3>1, <3>2
    <2>7. LeftOf(lots) = SumFunctionOnSet(left, D)
        BY DEF LeftOf, SumOver
    <2> HIDE DEF f, D, left, source
    <2>8. SumFunctionOnSet(left, D) = SumFunctionOnSet(f, Holders)
        <3>1. PICK H, a, p, g : H = Holders /\ a = left /\ p = source /\ g = f
            OBVIOUS
        <3>2. IsFiniteSet(H) /\ IsFiniteSet(D) /\ (\A j \in D : a[j] \in Int)
            BY <1>1, <2>4, <3>1
        <3>3. \A j \in D : p[j] \in H
            BY <2>5, <3>1
        <3>4. \A w \in H : g[w] = SumFunctionOnSet(a, {j \in D : p[j] = w})
            BY <2>6, <3>1
        <3>5. SumFunctionOnSet(a, D) = SumFunctionOnSet(g, H)
            <4>1. Cuts(D, a, H, p, g)
                BY <3>2, <3>3, <3>4 DEF Cuts
            <4> QED
                BY <4>1, SumParts
        <3> QED
            BY <3>1, <3>5
    <2> QED
        BY <1>3, <2>1, <2>7, <2>8 DEF SumOver, f
<1> QED
    BY <1>2, <1>3

\* What is left of the lots of v after k transactions: no more than it was sent, no less
\* but for what it gave, and no more than it holds where the list is in order.
Tallies(lots, v, k) ==
    /\ LeftOf(lots[v]) <= SumOver(1..k, Sent(v))
    /\ LeftOf(lots[v]) + SumOver(1..k, Taken(v)) >= SumOver(1..k, Sent(v))
    /\ InOrder => LeftOf(lots[v]) <= opening[v] + SumOver(1..k, Brought(v))

\* The event of a decrease keeps the tallies of every wallet.
LEMMA MoveTallies ==
    ASSUME TypeOK, Solvent, NEW ev, Sane(ev), NEW k \in DOMAIN moves, NEW j \in DOMAIN ev, ev[j] = Lost(k),
           NEW lots \in Links, NEW v \in Wallets, Tallies(lots, v, k - 1)
    PROVE  Tallies(LinkStep(lots, ev[j]), v, k)
<1>1. PICK m, e, new : m = moves[k] /\ e = ev[j] /\ new = LinkStep(lots, e)
    OBVIOUS
<1>2. e.wallet = m.from /\ e.delta = -m.amount /\ e.destination = m.to
    BY <1>1, FieldsOfEvents
<1>3. /\ m.amount \in Nat \ {0} /\ m.from # m.to
      /\ Concrete(e) <=> m.kind \in {"buy", "gift", "transfer"}
    BY <1>1, KindsOfMoves, ConcreteMoves
<1>4. PICK n \in Nat : n = Len(moves) /\ DOMAIN moves = 1..n
    BY DEF TypeOK
<1>5. PICK p \in Nat : p = k - 1 /\ p + 1 = k /\ k \in 0..n
    BY <1>4
<1>6. LinksTo(lots, new, e)
    <2>1. /\ e.wallet \in Holders /\ e.delta \in Int
          /\ Concrete(e) => e.delta < 0 /\ e.destination \in Holders /\ e.destination # e.wallet
        BY <1>1 DEF Sane, Holders
    <2> QED
        BY <1>1, <2>1, LinkStepFacts
<1>7. PICK a \in Nat \ {0} : a = m.amount
    BY <1>3
<1>8. Drawn(e) = a /\ -e.delta = a
    BY <1>2, <1>7 DEF Drawn
<1>9. v \in Holders
    BY DEF Holders
<1>10. PICK l \in Nat : l = LeftOf(lots[v])
    <2>1. PICK q \in Seq(LinkLot) : q = lots[v]
        BY <1>9 DEF Links
    <2>2. Lots(q, Len(q))
        BY LinkLotsAre
    <2> QED
        BY <2>1, <2>2, LeftOfNat
<1>11. LeftOf(new[v]) = l - (IF v = m.from THEN Lesser(l, a) ELSE 0)
                          + (IF Concrete(e) /\ v = m.to THEN a ELSE 0)
    BY <1>2, <1>6, <1>8, <1>9, <1>10 DEF LinksTo
<1>12. /\ Sent(v)[k] = IF Concrete(e) /\ v = m.to THEN a ELSE 0
       /\ Taken(v)[k] = IF v = m.from THEN a ELSE 0
       /\ Brought(v)[k] = (IF v = m.to THEN a ELSE 0) - (IF v = m.from THEN a ELSE 0)
    BY <1>1, <1>3, <1>7 DEF Sent, Taken, Brought, Gain
<1>13. \A i \in 1..k : Sent(v)[i] \in Int /\ Taken(v)[i] \in Int /\ Brought(v)[i] \in Int
    <2> TAKE i \in 1..k
    <2>1. i \in DOMAIN moves
        BY <1>4, <1>5
    <2>2. moves[i].amount \in Nat \ {0} /\ Gain(moves[i], v) \in Int
        BY <2>1, KindsOfMoves
    <2> QED
        BY <2>1, <2>2 DEF Sent, Taken, Brought
<1>14. PICK S, T, B : S = Sent(v) /\ T = Taken(v) /\ B = Brought(v)
    OBVIOUS
<1>15. /\ SumOver(1..k, S) = S[k] + SumOver(1..p, S) /\ SumOver(1..p, S) \in Int
       /\ SumOver(1..k, T) = T[k] + SumOver(1..p, T) /\ SumOver(1..p, T) \in Int
       /\ SumOver(1..k, B) = B[k] + SumOver(1..p, B) /\ SumOver(1..p, B) \in Int
    <2>1. \A i \in 1..p + 1 : S[i] \in Int
        BY <1>5, <1>13, <1>14
    <2>2. \A i \in 1..p + 1 : T[i] \in Int
        BY <1>5, <1>13, <1>14
    <2>3. \A i \in 1..p + 1 : B[i] \in Int
        BY <1>5, <1>13, <1>14
    <2>4. SumOver(1..p + 1, S) = S[p + 1] + SumOver(1..p, S) /\ SumOver(1..p, S) \in Int
        BY <2>1, SumNext
    <2>5. SumOver(1..p + 1, T) = T[p + 1] + SumOver(1..p, T) /\ SumOver(1..p, T) \in Int
        BY <2>2, SumNext
    <2>6. SumOver(1..p + 1, B) = B[p + 1] + SumOver(1..p, B) /\ SumOver(1..p, B) \in Int
        BY <2>3, SumNext
    <2> QED
        BY <1>5, <2>4, <2>5, <2>6
<1>16. PICK s \in Int, t \in Int, b \in Int, o \in Nat :
           s = SumOver(1..p, S) /\ t = SumOver(1..p, T) /\ b = SumOver(1..p, B) /\ o = opening[v]
    BY <1>15 DEF TypeOK
<1>17. l <= s /\ l + t >= s /\ (InOrder => l <= o + b)
    BY <1>5, <1>10, <1>14, <1>16 DEF Tallies
<1>18. InOrder => o + (B[k] + b) >= 0
    BY <1>4, <1>5, <1>14, <1>15, <1>16 DEF Solvent
<1>19. PICK x \in Int, y \in Int, z \in Int : x = S[k] /\ y = T[k] /\ z = B[k]
    <2>1. k \in 1..k
        BY <1>4
    <2> QED
        BY <1>13, <1>14, <2>1
<1> SUFFICES /\ LeftOf(new[v]) <= x + s
             /\ LeftOf(new[v]) + (y + t) >= x + s
             /\ InOrder => LeftOf(new[v]) <= o + (z + b)
    BY <1>1, <1>14, <1>15, <1>16, <1>19 DEF Tallies
<1>20. CASE v = m.from
    <2>1. x = 0 /\ y = a /\ z = -a
        BY <1>3, <1>12, <1>14, <1>19, <1>20
    <2>2. LeftOf(new[v]) = l - Lesser(l, a)
        <3>1. Lesser(l, a) \in Nat
            BY DEF Lesser
        <3>2. LeftOf(new[v]) = l - Lesser(l, a) + 0
            BY <1>3, <1>11, <1>20
        <3> QED
            BY <3>1, <3>2
    <2>3. LeftOf(new[v]) = IF l <= a THEN 0 ELSE l - a
        BY <2>2 DEF Lesser
    <2>4. InOrder => 0 <= o + (-a + b)
        BY <1>18, <1>19, <2>1
    <2> QED
        BY <1>17, <2>1, <2>3, <2>4
<1>21. CASE v = m.to
    <2>1. y = 0 /\ z = a /\ x = IF Concrete(e) THEN a ELSE 0
        BY <1>3, <1>12, <1>14, <1>19, <1>21
    <2>2. LeftOf(new[v]) = l - 0 + (IF Concrete(e) THEN a ELSE 0)
        BY <1>3, <1>11, <1>21
    <2>3. x \in {0, a} /\ LeftOf(new[v]) = l + x
        BY <2>1, <2>2
    <2> QED
        BY <1>17, <2>1, <2>3
<1>22. CASE v # m.from /\ v # m.to
    <2>1. x = 0 /\ y = 0 /\ z = 0
        BY <1>12, <1>14, <1>19, <1>22
    <2>2. LeftOf(new[v]) = l
        BY <1>11, <1>22
    <2> QED
        BY <1>17, <2>1, <2>2
<1> QED
    BY <1>20, <1>21, <1>22

\* The links of the scan are so after every event.
LEMMA LinksTally ==
    ASSUME TypeOK, Solvent, NEW strict, NEW ev, NEW lost, NEW won, Tells(ev, strict, lost, won),
           Listed(ev), Sane(ev), NEW v \in Wallets
    PROVE  LinkLots(ev) \in Links /\ Tallies(LinkLots(ev), v, Len(moves))
<1>1. PICK l \in Nat : l = Len(ev) /\ DOMAIN ev = 1..l
    BY DEF Listed
<1>2. PICK n \in Nat : n = Len(moves) /\ DOMAIN moves = 1..n
    BY DEF TypeOK
<1>3. PICK g : LinkRecords(g, ev) /\ LinkLots(ev) = g[Len(ev)]
    BY <1>1, LinkFolds
<1>4. /\ g \in [0..l -> Links] /\ g[0] = NoLinks
      /\ \A i \in 1..l : g[i] = LinkStep(g[i - 1], ev[i])
    BY <1>1, <1>3 DEF LinkRecords
<1>5. v \in Holders
    BY DEF Holders
<1> DEFINE Good(m) == Tallies(g[m], v, Turn(ev, m))
           N == {m \in Nat : m <= l => Good(m)}
<1>6. 0 \in N
    <2>1. Turn(ev, 0) = 0
        BY DEF Turn
    <2>2. LeftOf(g[0][v]) = 0
        BY <1>4, <1>5, NoLinksFacts
    <2>3. SumOver(1..0, Sent(v)) = 0 /\ SumOver(1..0, Taken(v)) = 0 /\ SumOver(1..0, Brought(v)) = 0
        BY SumNone
    <2>4. opening[v] \in Nat
        BY DEF TypeOK
    <2>5. Tallies(g[0], v, 0)
        BY <2>2, <2>3, <2>4 DEF Tallies
    <2> QED
        BY <2>1, <2>5
<1>7. ASSUME NEW m \in N
      PROVE  m + 1 \in N
    <2>1. m \in Nat /\ m + 1 \in Nat /\ (m <= l => Good(m))
        OBVIOUS
    <2> SUFFICES ASSUME m + 1 <= l
                 PROVE  Good(m + 1)
        <3> HIDE DEF Good
        <3> QED
            BY <2>1
    <2> HIDE DEF N
    <2>2. m + 1 \in 1..l /\ (m + 1) - 1 = m /\ m \in 0..l /\ m + 1 \in DOMAIN ev /\ Good(m)
        <3> HIDE DEF Good
        <3> QED
            BY <1>1, <2>1
    <2>3. PICK k : k = Turn(ev, m + 1)
        OBVIOUS
    <2>4. /\ k \in DOMAIN moves
          /\ \/ ev[m + 1] = Lost(k) /\ Turn(ev, m) = k - 1
             \/ ev[m + 1] = Won(k) /\ Turn(ev, m) = k /\ ev[m + 1].delta > 0
        BY <2>1, <2>2, <2>3, EventWalk
    <2>5. g[m + 1] = LinkStep(g[m], ev[m + 1]) /\ g[m] \in Links
        BY <1>4, <2>2
    <2>6. CASE ev[m + 1] = Lost(k) /\ Turn(ev, m) = k - 1
        <3>1. Tallies(g[m], v, k - 1)
            BY <2>2, <2>6
        <3>2. Tallies(LinkStep(g[m], ev[m + 1]), v, k)
            BY <2>2, <2>4, <2>5, <2>6, <3>1, MoveTallies
        <3> QED
            BY <2>3, <2>5, <3>2
    <2>7. CASE ev[m + 1] = Won(k) /\ Turn(ev, m) = k /\ ev[m + 1].delta > 0
        <3>1. PICK e : e = ev[m + 1]
            OBVIOUS
        <3>2. ~Concrete(e)
            BY <2>4, <2>7, <3>1, ConcreteMoves
        <3>3. e.wallet \in Holders /\ e.delta \in Int /\ Drawn(e) = 0
            <4>1. e.wallet \in Holders /\ e.delta \in Int
                BY <2>2, <3>1 DEF Sane
            <4> QED
                BY <2>7, <3>1, <4>1 DEF Drawn
        <3>4. LinksTo(g[m], g[m + 1], e)
            BY <2>5, <3>1, <3>2, <3>3, LinkStepFacts
        <3>5. PICK x \in Nat : x = LeftOf(g[m][v])
            <4>1. PICK q \in Seq(LinkLot) : q = g[m][v]
                BY <1>5, <2>5 DEF Links
            <4>2. Lots(q, Len(q))
                BY LinkLotsAre
            <4> QED
                BY <4>1, <4>2, LeftOfNat
        <3>6. LeftOf(g[m + 1][v]) = x - (IF v = e.wallet THEN Lesser(x, 0) ELSE 0) + 0
            BY <1>5, <3>2, <3>3, <3>4, <3>5 DEF LinksTo
        <3>7. LeftOf(g[m + 1][v]) = LeftOf(g[m][v])
            <4>1. Lesser(x, 0) = 0
                BY DEF Lesser
            <4> QED
                BY <3>5, <3>6, <4>1
        <3> QED
            BY <2>2, <2>3, <2>7, <3>7 DEF Tallies
    <2> QED
        BY <2>4, <2>6, <2>7
<1>8. N = Nat
    <2> HIDE DEF N
    <2>1. N \in SUBSET Nat
        BY DEF N
    <2> QED
        BY <1>6, <1>7, <2>1, Induct
<1>9. Tallies(g[l], v, Turn(ev, l))
    BY <1>8
<1>10. g[l] \in Links
    BY <1>4
<1> QED
    BY <1>1, <1>3, <1>9, <1>10, EventsEnd

\* The scan links to the sellers no more of a wallet than it was sent and, in order, than it
\* holds, and no less than it was sent but for what it gave.
THEOREM LinkedOnceHolds == Spec => []LinkedOnce
<1>1. ASSUME TypeOK, Balanced, Solvent
      PROVE  LinkedOnce
    <2> DEFINE Sum(v) == SumOver(Holders, [w \in Holders |-> LinkedAmount(Ranked, w, v)])
               Amount == [i \in DOMAIN moves |-> moves[i].amount]
               In(v) == {i \in DOMAIN moves :
                            moves[i].to = v /\ moves[i].kind \in {"buy", "gift", "transfer"}}
               Out(v) == {i \in DOMAIN moves : moves[i].from = v}
    <2> SUFFICES ASSUME NEW v \in Wallets
                 PROVE  /\ Sum(v) <= SumOver(In(v), Amount)
                        /\ traceDepth > 0 => Sum(v) + SumOver(Out(v), Amount) >= SumOver(In(v), Amount)
                        /\ InOrder => Sum(v) <= balance[v]
        BY DEF LinkedOnce
    <2>1. PICK n \in Nat : n = Len(moves) /\ DOMAIN moves = 1..n
        BY <1>1 DEF TypeOK
    <2>2. IsFiniteSet(DOMAIN moves)
        BY <2>1, FS_Interval
    <2>3. \A i \in DOMAIN moves : Amount[i] = moves[i].amount /\ Amount[i] \in Nat
        BY <1>1, KindsOfMoves
    <2>4. SumOver(In(v), Amount) = SumOver(1..n, Sent(v)) /\ SumOver(1..n, Sent(v)) \in Nat
        <3>1. PICK f, A, B, g : f = Amount /\ A = DOMAIN moves /\ B = In(v) /\ g = Sent(v)
            OBVIOUS
        <3>2. B \in SUBSET A /\ (\A x \in B : f[x] \in Int) /\ IsFiniteSet(A)
            BY <2>2, <2>3, <3>1
        <3>3. \A x \in A : g[x] = IF x \in B THEN f[x] ELSE 0
            BY <2>3, <3>1 DEF Sent
        <3>4. SumFunctionOnSet(f, B) = SumFunctionOnSet(g, A)
            BY <3>2, <3>3, SumWhere
        <3>5. \A x \in A : g[x] \in Nat
            BY <2>3, <3>1, <3>3
        <3>6. SumFunctionOnSet(g, A) \in Nat
            BY <3>2, <3>5, SumNat
        <3> QED
            BY <2>1, <3>1, <3>4, <3>6 DEF SumOver
    <2>5. SumOver(Out(v), Amount) = SumOver(1..n, Taken(v))
        <3>1. PICK f, A, B, g : f = Amount /\ A = DOMAIN moves /\ B = Out(v) /\ g = Taken(v)
            OBVIOUS
        <3>2. B \in SUBSET A /\ (\A x \in B : f[x] \in Int) /\ IsFiniteSet(A)
            BY <2>2, <2>3, <3>1
        <3>3. \A x \in A : g[x] = IF x \in B THEN f[x] ELSE 0
            BY <2>3, <3>1 DEF Taken
        <3>4. SumFunctionOnSet(f, B) = SumFunctionOnSet(g, A)
            BY <3>2, <3>3, SumWhere
        <3> QED
            BY <2>1, <3>1, <3>4 DEF SumOver
    <2>6. PICK strict, ev : strict = FALSE /\ strict \in BOOLEAN /\ ev = Ranked
        OBVIOUS
    <2>7. Listed(ev) /\ \E lost, won : Tells(ev, strict, lost, won)
        BY <1>1, <2>6, EventsListed DEF Ranked
    <2>8. PICK lost, won : Tells(ev, strict, lost, won)
        BY <2>7
    <2>9. Sane(ev)
        BY <1>1, <2>8, EventsSane
    <2>10. LinkLots(ev) \in Links /\ Tallies(LinkLots(ev), v, n)
        BY <1>1, <2>1, <2>7, <2>8, <2>9, LinksTally
    <2>11. Sum(v) = IF traceDepth = 0 THEN 0 ELSE LeftOf(LinkLots(ev)[v])
        BY <1>1, <2>6, <2>10, LinkedIsLeft
    <2>12. balance[v] = opening[v] + SumOver(1..n, Brought(v)) /\ balance[v] \in Nat
        BY <1>1, <2>1 DEF Balanced, TypeOK
    <2>13. traceDepth \in 0..3
        BY <1>1 DEF TypeOK
    <2> HIDE DEF Sum, Amount, In, Out
    <2>14. CASE traceDepth = 0
        BY <2>4, <2>11, <2>12, <2>14
    <2>15. CASE traceDepth # 0
        BY <2>4, <2>5, <2>10, <2>11, <2>12, <2>15 DEF Tallies
    <2> QED
        BY <2>14, <2>15
<1>2. TypeOK /\ Balanced /\ Solvent /\ [Next]_vars => (TypeOK /\ Balanced /\ Solvent)'
    BY StaysBalanced, StaysSolvent
<1>3. Init => TypeOK /\ Balanced /\ Solvent
    BY StartsBalanced, StaysSolvent
<1> QED
    BY <1>1, <1>2, <1>3, PTL DEF Spec
=============================================================================
