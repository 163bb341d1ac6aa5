----------------------------- MODULE DataFacts -----------------------------
(***************************************************************************)
(* Facts about data that the proofs share.  How a total of credits reacts  *)
(* to what a transaction does to the rows: it stays within bounds, never   *)
(* grows when charges shrink, and grows by exactly the amount of an added  *)
(* row.  And that numbers can be counted: a set of them has a least, an    *)
(* inductive one has them all, a recursion over them has a solution, and   *)
(* with these what a pass over a list keeps.                               *)
(***************************************************************************)
EXTENDS CreditUnits, Queues, FiniteSetTheorems, WellFoundedInduction, TLAPS

\* Finitely many owners with bounded amounts hold finitely many units.
LEMMA UnitsFinite ==
    ASSUME NEW S, IsFiniteSet(S), NEW M \in Nat, NEW a,
           \A o \in S : a[o] \in 0..M
    PROVE  IsFiniteSet(Units(S, a))
<1>1. IsFiniteSet(1..M)
    BY FS_Interval
<1>2. IsFiniteSet(S \X (1..M))
    BY <1>1, FS_Product
<1>3. Units(S, a) \subseteq S \X (1..M)
    BY DEF Units, UnitsOf
<1> QED
    BY <1>2, <1>3, FS_Subset

\* A total of bounded amounts is a natural number.
LEMMA TotalNat ==
    ASSUME NEW S, IsFiniteSet(S), NEW M \in Nat, NEW a,
           \A o \in S : a[o] \in 0..M
    PROVE  Total(S, a) \in Nat
BY UnitsFinite, FS_CardinalityType DEF Total

\* Fewer owners holding no more each have no larger total.
LEMMA TotalMonotone ==
    ASSUME NEW T, IsFiniteSet(T), NEW S \in SUBSET T, NEW M \in Nat, NEW a, NEW b,
           \A o \in T : b[o] \in 0..M,
           \A o \in S : a[o] \in 0..b[o]
    PROVE  Total(S, a) <= Total(T, b)
<1>1. IsFiniteSet(Units(T, b))
    BY UnitsFinite
<1>2. Units(S, a) \subseteq Units(T, b)
    <2> SUFFICES ASSUME NEW o \in S, NEW u \in UnitsOf(o, a[o])
                 PROVE  u \in UnitsOf(o, b[o]) /\ o \in T
        BY DEF Units
    <2>1. o \in T /\ a[o] \in 0..b[o] /\ b[o] \in 0..M
        OBVIOUS
    <2>2. 1..a[o] \subseteq 1..b[o]
        BY <2>1
    <2> QED
        BY <2>1, <2>2 DEF UnitsOf
<1> QED
    BY <1>1, <1>2, FS_Subset DEF Total

\* One owner of n credits holds n units.
LEMMA CountUnits ==
    ASSUME NEW x, NEW n \in Nat
    PROVE  IsFiniteSet(UnitsOf(x, n)) /\ Cardinality(UnitsOf(x, n)) = n
<1>1. IsFiniteSet({x}) /\ Cardinality({x}) = 1
    BY FS_Singleton
<1>2. IsFiniteSet(1..n) /\ Cardinality(1..n) = n
    BY FS_Interval
<1>3. /\ IsFiniteSet({x} \X (1..n))
      /\ Cardinality({x} \X (1..n)) = Cardinality({x}) * Cardinality(1..n)
    BY <1>1, <1>2, FS_Product, Zenon
<1>4. Cardinality({x}) * Cardinality(1..n) = n
    BY <1>1, <1>2
<1> QED
    BY <1>3, <1>4 DEF UnitsOf

\* A new owner adds exactly what it holds.
LEMMA TotalExtend ==
    ASSUME NEW S, NEW a, NEW b, NEW x, x \notin S, IsFiniteSet(Units(S, a)),
           \A o \in S : b[o] = a[o],
           b[x] \in Nat
    PROVE  Total(S \cup {x}, b) = Total(S, a) + b[x]
<1>1. IsFiniteSet(Units(S, a))
    OBVIOUS
<1>2. IsFiniteSet(UnitsOf(x, b[x])) /\ Cardinality(UnitsOf(x, b[x])) = b[x]
    BY CountUnits
<1>3. Units(S \cup {x}, b) = Units(S, a) \cup UnitsOf(x, b[x])
    <2>1. \A o \in S : UnitsOf(o, b[o]) = UnitsOf(o, a[o])
        BY DEF UnitsOf
    <2> QED
        BY <2>1 DEF Units
<1>4. Units(S, a) \cap UnitsOf(x, b[x]) = {}
    BY DEF Units, UnitsOf
<1>5. Cardinality(Units(S, a) \cap UnitsOf(x, b[x])) = 0
    BY <1>4, FS_EmptySet
<1>6. Cardinality(Units(S, a)) \in Nat
    BY <1>1, FS_CardinalityType
<1>7. Cardinality(Units(S, a) \cup UnitsOf(x, b[x])) =
        Cardinality(Units(S, a)) + Cardinality(UnitsOf(x, b[x])) - 0
    BY <1>1, <1>2, <1>5, FS_Union
<1>8. Cardinality(Units(S, a) \cup UnitsOf(x, b[x])) = Cardinality(Units(S, a)) + b[x]
    BY <1>2, <1>6, <1>7
<1> QED
    BY <1>3, <1>8, Zenon DEF Total

\* The same for amounts known to be bounded.
LEMMA TotalAdd ==
    ASSUME NEW S, IsFiniteSet(S), NEW M \in Nat, NEW a, NEW b, NEW x, x \notin S,
           \A o \in S : a[o] \in 0..M /\ b[o] = a[o],
           b[x] \in 0..M
    PROVE  Total(S \cup {x}, b) = Total(S, a) + b[x]
<1>1. \A o \in S : a[o] \in 0..M
    OBVIOUS
<1>2. IsFiniteSet(Units(S, a))
    BY <1>1, UnitsFinite
<1>3. \A o \in S : b[o] = a[o]
    OBVIOUS
<1>4. b[x] \in Nat
    OBVIOUS
<1>5. x \notin S
    OBVIOUS
<1> QED
    BY <1>2, <1>3, <1>4, <1>5, TotalExtend

-----------------------------------------------------------------------------
(***************************************************************************)
(* Induction                                                               *)
(***************************************************************************)
Smaller == {p \in Nat \X Nat : p[1] < p[2]}

\* A set of numbers has a least element.
LEMMA HasLeast ==
    ASSUME NEW T \in SUBSET Nat, T # {}
    PROVE  \E n \in T : \A m \in T : n <= m
<1>1. IsWellFoundedOn(Smaller, Nat)
    BY NatLessThanWellFounded DEF OpToRel, Smaller
<1>2. PICK x \in T : \A y \in T : ~ (<<y, x>> \in Smaller)
    BY <1>1, WFMin
<1>3. ASSUME NEW m \in T
      PROVE  x <= m
    <2>1. <<m, x>> \notin Smaller /\ m \in Nat /\ x \in Nat
        BY <1>2
    <2>2. <<m, x>> \in Nat \X Nat
        BY <2>1
    <2>3. ~(m < x)
        BY <2>1, <2>2 DEF Smaller
    <2> QED
        BY <2>1, <2>3
<1> QED
    BY <1>3

\* A set of numbers below a bound has a greatest element.
LEMMA HasGreatest ==
    ASSUME NEW N \in Nat, NEW T \in SUBSET (0..N), T # {}
    PROVE  \E n \in T : \A m \in T : m <= n
<1> DEFINE Up == {i \in Nat : \A m \in T : m <= i}
<1>1. N \in Up /\ Up \in SUBSET Nat
    OBVIOUS
<1>2. PICK n \in Up : \A i \in Up : n <= i
    <2> HIDE DEF Up
    <2> QED
        BY <1>1, HasLeast
<1>3. n \in Nat /\ \A m \in T : m <= n
    BY <1>2
<1>4. ASSUME n \notin T
      PROVE  FALSE
    <2>1. \A m \in T : m \in Nat /\ m # n /\ m <= n
        BY <1>3, <1>4
    <2>2. n # 0 /\ \A m \in T : m <= n - 1
        <3> PICK m \in T : TRUE
            OBVIOUS
        <3> QED
            BY <2>1, <1>3
    <2>3. n - 1 \in Up
        BY <2>2, <1>3
    <2> QED
        BY <2>3, <1>2, <1>3
<1> QED
    BY <1>3, <1>4

\* A set of numbers that has zero and the successor of each has them all.
LEMMA Induct ==
    ASSUME NEW T \in SUBSET Nat, 0 \in T, \A n \in T : n + 1 \in T
    PROVE  T = Nat
<1> SUFFICES ASSUME Nat \ T # {}
             PROVE  FALSE
    OBVIOUS
<1>1. PICK n \in Nat \ T : \A m \in Nat \ T : n <= m
    BY HasLeast
<1>2. n # 0 /\ n - 1 \in Nat /\ n - 1 \notin Nat \ T
    BY <1>1
<1> QED
    BY <1>2

\* f begins with a and takes the step, of the number and of the value before it, at
\* each number up to n.
Solves(f, n, S, a, step) ==
    f \in [0..n -> S] /\ f[0] = a /\ \A i \in 1..n : f[i] = step[<<i, f[i - 1]>>]

\* Whatever the step, there is such a function.
LEMMA Recursion ==
    ASSUME NEW n \in Nat, NEW S, NEW a \in S, NEW step \in [Nat \X S -> S]
    PROVE  \E f : Solves(f, n, S, a, step)
<1> DEFINE Good(k) == \E f \in [0..k -> S] : f[0] = a /\ \A i \in 1..k : f[i] = step[<<i, f[i-1]>>]
           T == {k \in Nat : Good(k)}
<1>1. 0 \in T
    <2>1. [i \in 0..0 |-> a] \in [0..0 -> S]
        OBVIOUS
    <2>2. Good(0)
        <3> DEFINE g == [i \in 0..0 |-> a]
        <3>1. g[0] = a /\ \A i \in 1..0 : g[i] = step[<<i, g[i-1]>>]
            OBVIOUS
        <3> HIDE DEF g
        <3> QED
            BY <2>1, <3>1 DEF g
    <2> QED
        BY <2>2
<1>2. ASSUME NEW k \in T PROVE k + 1 \in T
    <2>1. PICK f \in [0..k -> S] : f[0] = a /\ \A i \in 1..k : f[i] = step[<<i, f[i-1]>>]
        BY <1>2
    <2>2. k \in Nat
        BY <1>2
    <2> DEFINE g == [i \in 0..k+1 |-> IF i <= k THEN f[i] ELSE step[<<k+1, f[k]>>]]
    <2>3. step[<<k+1, f[k]>>] \in S
        BY <2>1, <2>2
    <2>4. g \in [0..k+1 -> S]
        BY <2>1, <2>2, <2>3
    <2>5. g[0] = a
        BY <2>1, <2>2
    <2>6. ASSUME NEW i \in 1..k+1 PROVE g[i] = step[<<i, g[i-1]>>]
        <3>1. CASE i = k + 1
            <4>1. g[i] = step[<<k+1, f[k]>>]
                BY <3>1, <2>2
            <4>2. g[i-1] = f[k]
                BY <3>1, <2>2
            <4> HIDE DEF g
            <4> QED
                BY <4>1, <4>2, <3>1
        <3>2. CASE i # k + 1
            <4>1. i \in 1..k
                BY <3>2, <2>2
            <4>2. g[i] = f[i] /\ g[i-1] = f[i-1]
                    BY <4>1, <2>2
            <4> HIDE DEF g
            <4> QED
                BY <4>1, <4>2, <2>1
        <3> QED
            BY <3>1, <3>2
    <2>7. Good(k+1)
        <3> HIDE DEF g
        <3> QED
            BY <2>4, <2>5, <2>6
    <2> QED
        BY <2>2, <2>7
<1>3. T = Nat
    <2> HIDE DEF T
    <2>1. T \in SUBSET Nat
        BY DEF T
    <2> QED
        BY <1>1, <1>2, <2>1, Induct
<1> QED
    BY <1>3 DEF Solves
-----------------------------------------------------------------------------
(***************************************************************************)
(* Lists                                                                   *)
(***************************************************************************)
Has(q, x) == \E i \in DOMAIN q : q[i] = x

\* A pass keeps the elements it should and no others, one at most for each it sees.
LEMMA SieveFacts ==
    ASSUME NEW S, NEW q \in Seq(S), NEW K
    PROVE  /\ Sieve(q, K) \in Seq(S)
           /\ \A x : Has(Sieve(q, K), x) <=> (x \in K /\ Has(q, x))
           /\ Len(Sieve(q, K)) <= Len(q)
<1> DEFINE n == Len(q)
           sieved[i \in 0..n] ==
               IF i = 0 THEN <<>>
               ELSE IF q[i] \in K THEN Append(sieved[i - 1], q[i])
               ELSE sieved[i - 1]
           step == [p \in Nat \X Seq(S) |->
                       IF p[1] \in DOMAIN q /\ q[p[1]] \in K THEN Append(p[2], q[p[1]]) ELSE p[2]]
           Recurs(g) == g = [i \in 0..n |-> IF i = 0 THEN <<>>
                                            ELSE IF q[i] \in K THEN Append(g[i - 1], q[i])
                                            ELSE g[i - 1]]
<1>1. n \in Nat /\ DOMAIN q = 1..n
    OBVIOUS
<1>2. step \in [Nat \X Seq(S) -> Seq(S)]
    OBVIOUS
<1>3. PICK g : Solves(g, n, Seq(S), <<>>, step)
    <2> DEFINE T == Seq(S)
               none == <<>>
    <2>1. n \in Nat /\ none \in T /\ step \in [Nat \X T -> T]
        BY <1>1, <1>2
    <2>2. \E g : Solves(g, n, T, none, step)
        <3> HIDE DEF n, T, none, step
        <3> QED
            BY <2>1, Recursion
    <2> QED
        BY <2>2
<1>4. Recurs(g)
    <2>1. ASSUME NEW i \in 1..n
          PROVE  g[i] = IF q[i] \in K THEN Append(g[i - 1], q[i]) ELSE g[i - 1]
        <3>1. <<i, g[i - 1]>> \in Nat \X Seq(S)
            BY <1>3 DEF Solves
        <3>2. i \in DOMAIN q
            BY <1>1
        <3> QED
            BY <1>3, <3>1, <3>2 DEF Solves
    <2>2. \A i \in 0..n : i # 0 => i \in 1..n
        BY <1>1
    <2>3. g = [i \in 0..n |-> g[i]]
        BY <1>3 DEF Solves
    <2> HIDE DEF n, step
    <2> QED
        BY <1>3, <2>1, <2>2, <2>3 DEF Solves
<1>5. sieved = CHOOSE h : Recurs(h)
    OBVIOUS
<1>6. Recurs(sieved)
    <2> HIDE DEF Recurs
    <2> QED
        BY <1>4, <1>5
<1> USE DEF Has
<1> DEFINE Good(i) == /\ sieved[i] \in Seq(S) /\ Len(sieved[i]) <= i
                      /\ \A x : Has(sieved[i], x) <=> (x \in K /\ \E j \in 1..i : q[j] = x)
           T == {i \in Nat : i <= n => Good(i)}
<1>7. \A i \in 0..n : sieved[i] = IF i = 0 THEN <<>>
                                   ELSE IF q[i] \in K THEN Append(sieved[i - 1], q[i])
                                   ELSE sieved[i - 1]
    <2>1. sieved = [i \in 0..n |-> IF i = 0 THEN <<>>
                                   ELSE IF q[i] \in K THEN Append(sieved[i - 1], q[i])
                                   ELSE sieved[i - 1]]
        BY <1>6
    <2> HIDE DEF sieved, n
    <2> QED
        BY <2>1
<1> HIDE DEF sieved
<1>8. 0 \in T
    <2>1. sieved[0] = <<>>
        BY <1>1, <1>7
    <2>2. Good(0)
        BY <2>1
    <2> HIDE DEF Good
    <2> QED
        BY <2>2
<1>9. ASSUME NEW i \in T
      PROVE  i + 1 \in T
    <2> SUFFICES ASSUME i + 1 <= n
                 PROVE  Good(i + 1)
        <3> HIDE DEF Good
        <3> QED
            OBVIOUS
    <2> DEFINE s == sieved[i]
    <2>1. i \in Nat /\ i + 1 \in DOMAIN q /\ q[i + 1] \in S
        BY <1>1
    <2>2. s \in Seq(S) /\ Len(s) <= i /\ \A x : Has(s, x) <=> (x \in K /\ \E j \in 1..i : q[j] = x)
        BY <1>1, <2>1
    <2>3. sieved[i + 1] = IF q[i + 1] \in K THEN Append(s, q[i + 1]) ELSE s
        <3> HIDE DEF sieved, n
        <3> QED
            BY <1>1, <1>7, <2>1
    <2>4. \A x : (\E j \in 1..i + 1 : q[j] = x) <=> (q[i + 1] = x \/ \E j \in 1..i : q[j] = x)
        BY <2>1
    <2> HIDE DEF s
    <2>5. CASE q[i + 1] \in K
        <3> DEFINE y == q[i + 1]
                   t == Append(s, y)
        <3>1. sieved[i + 1] = t
            BY <2>3, <2>5
        <3>2. t \in Seq(S) /\ Len(t) = Len(s) + 1 /\ Len(t) <= i + 1
            BY <2>1, <2>2
        <3>3. \A x : Has(t, x) <=> (x = y \/ Has(s, x))
            <4>1. /\ DOMAIN t = DOMAIN s \cup {Len(s) + 1} /\ t[Len(s) + 1] = y
                  /\ \A j \in DOMAIN s : t[j] = s[j]
                BY <2>1, <2>2
            <4> HIDE DEF t, y
            <4> QED
                BY <4>1
        <3> HIDE DEF t
        <3> QED
            BY <2>1, <2>2, <2>4, <2>5, <3>1, <3>2, <3>3
    <2>6. CASE q[i + 1] \notin K
        BY <2>1, <2>2, <2>3, <2>4, <2>6
    <2> QED
        BY <2>5, <2>6
<1>10. T = Nat
    <2>1. T \in SUBSET Nat
        OBVIOUS
    <2> HIDE DEF T
    <2> QED
        BY <1>8, <1>9, <2>1, Induct
<1>11. Good(n)
    <2>1. n \in T
        BY <1>1, <1>10
    <2> HIDE DEF Good
    <2> QED
        BY <1>1, <2>1
<1>12. Sieve(q, K) = sieved[n]
    BY DEF Sieve, sieved
<1> QED
    BY <1>1, <1>11, <1>12
=============================================================================
