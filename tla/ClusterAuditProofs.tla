------------------------- MODULE ClusterAuditProofs -------------------------
(***************************************************************************)
(* What holds in audits of any chain, whatever its transactions and its    *)
(* accounts: the two indexes of the accumulator say what the spool says;   *)
(* nothing of a report comes from having read only a part of the chain;    *)
(* and a report that closes the matter rests on the whole history of every *)
(* wallet the seed leads to.                                               *)
(***************************************************************************)
EXTENDS ClusterReports, DataFacts

\* The states of the accumulator while it reads a history, transaction by transaction.
Passes(after, g, sigs, S) ==
    /\ \A n \in 0..Len(Templates) : after[n] \in S
    /\ after[0] = g
    /\ \A n \in 1..Len(Templates) :
          after[n] = IF n \in sigs THEN Ingest(after[n - 1], Autopsies[n]) ELSE after[n - 1]
    /\ IngestAll(g, sigs) = after[Len(Templates)]

\* Whatever each transaction of a history keeps is kept all along.
LEMMA IngestAllPasses ==
    ASSUME Len(Templates) \in Nat, NEW S, NEW g \in S, NEW sigs,
           \A h \in S : \A n \in sigs \cap (1..Len(Templates)) : Ingest(h, Autopsies[n]) \in S
    PROVE  \E after : Passes(after, g, sigs, S)
<1> DEFINE N == Len(Templates)
           next(n, h) == IF n \in sigs THEN Ingest(h, Autopsies[n]) ELSE h
           after[n \in 0..N] ==
               IF n = 0 THEN g
               ELSE IF n \in sigs THEN Ingest(after[n - 1], Autopsies[n])
               ELSE after[n - 1]
           step == [p \in Nat \X S |-> IF p[1] \in 1..N THEN next(p[1], p[2]) ELSE p[2]]
           Recurs(f) == f = [n \in 0..N |-> IF n = 0 THEN g
                                            ELSE IF n \in sigs THEN Ingest(f[n - 1], Autopsies[n])
                                            ELSE f[n - 1]]
<1>1. N \in Nat
    OBVIOUS
<1>2. \A n \in 1..N : \A h \in S : next(n, h) \in S
    OBVIOUS
<1>3. step \in [Nat \X S -> S]
    <2> HIDE DEF next, N
    <2> QED
        BY <1>2
<1>4. PICK f : Solves(f, N, S, g, step)
    <2> HIDE DEF step, N
    <2> QED
        BY <1>1, <1>3, Recursion
<1>5. Recurs(f)
    <2>1. ASSUME NEW n \in 1..N
          PROVE  f[n] = next(n, f[n - 1])
        <3>1. <<n, f[n - 1]>> \in Nat \X S
            BY <1>1, <1>4 DEF Solves
        <3> HIDE DEF next, N
        <3> QED
            BY <1>4, <3>1 DEF Solves
    <2>2. \A n \in 0..N : n # 0 => n \in 1..N
        BY <1>1
    <2>3. f = [n \in 0..N |-> f[n]]
        BY <1>4 DEF Solves
    <2>4. \A n \in 1..N : f[n] = IF n \in sigs THEN Ingest(f[n - 1], Autopsies[n]) ELSE f[n - 1]
        BY <2>1
    <2> HIDE DEF N, step, next
    <2> QED
        BY <1>4, <2>2, <2>3, <2>4 DEF Solves
<1>6. after = CHOOSE h : Recurs(h)
    OBVIOUS
<1>7. Recurs(after)
    <2> HIDE DEF Recurs
    <2> QED
        BY <1>5, <1>6
<1>8. \A n \in 0..N : after[n] = IF n = 0 THEN g ELSE next(n, after[n - 1])
    <2>1. after = [n \in 0..N |-> IF n = 0 THEN g
                                  ELSE IF n \in sigs THEN Ingest(after[n - 1], Autopsies[n])
                                  ELSE after[n - 1]]
        BY <1>7
    <2> HIDE DEF after, N
    <2> QED
        BY <2>1
<1> HIDE DEF next
<1> DEFINE T == {n \in Nat : n <= N => after[n] \in S}
<1>9. 0 \in T /\ \A n \in T : n + 1 \in T
    <2> HIDE DEF after
    <2>1. 0 \in T
        BY <1>1, <1>8
    <2>2. ASSUME NEW n \in T, n + 1 <= N
          PROVE  after[n + 1] \in S
        <3>1. n \in Nat /\ n + 1 \in 1..N /\ n + 1 \in 0..N /\ n + 1 # 0 /\ (n + 1) - 1 = n /\ after[n] \in S
            BY <1>1, <2>2
        <3>2. after[n + 1] = next(n + 1, after[n])
            BY <1>8, <3>1
        <3> HIDE DEF N
        <3> QED
            BY <1>2, <3>1, <3>2
    <2> QED
        BY <2>1, <2>2
<1>10. T = Nat
    <2>1. T \in SUBSET Nat
        OBVIOUS
    <2> HIDE DEF T
    <2> QED
        BY <1>9, <2>1, Induct
<1>11. \A n \in 0..N : after[n] \in S
    <2>1. \A n \in 0..N : n \in Nat /\ n <= N
        BY <1>1
    <2> HIDE DEF after, N
    <2> QED
        BY <1>10, <2>1
<1>12. IngestAll(g, sigs) = after[N]
    BY DEF IngestAll
<1>13. 0 \in 0..N /\ \A n \in 1..N : n \in 0..N /\ n # 0
    BY <1>1
<1>14. /\ after[0] = g
       /\ \A n \in 1..N :
             after[n] = IF n \in sigs THEN Ingest(after[n - 1], Autopsies[n]) ELSE after[n - 1]
    <2> HIDE DEF after, N
    <2> QED
        BY <1>8, <1>13 DEF next
<1>15. Passes(after, g, sigs, S)
    <2> HIDE DEF after
    <2> QED
        BY <1>11, <1>12, <1>14 DEF Passes
<1> QED
    BY <1>15

\* Whatever each transaction of a history keeps, reading the history keeps.
LEMMA IngestAllKeeps ==
    ASSUME Len(Templates) \in Nat, NEW S, NEW g \in S, NEW sigs,
           \A h \in S : \A n \in sigs \cap (1..Len(Templates)) : Ingest(h, Autopsies[n]) \in S
    PROVE  IngestAll(g, sigs) \in S
<1>1. PICK after : Passes(after, g, sigs, S)
    BY IngestAllPasses
<1> QED
    BY <1>1 DEF Passes
-----------------------------------------------------------------------------
(***************************************************************************)
(* Facts and the addresses in them                                         *)
(***************************************************************************)
Sigs == DOMAIN Templates

\* What transactions say, and the signatures of the facts of a spool.
FactsOf(sigs) == {Autopsies[i] : i \in sigs}

\* All addresses of a fact.
Within(f, A) ==
    /\ f.signers \subseteq A
    /\ \A t \in f.tokens \cup f.natives \cup f.atas : t.from \in A /\ t.to \in A /\ t.by \in A

LEMMA TemplatesFinite ==
    /\ Len(Templates) \in Nat /\ Sigs = 1..Len(Templates)
    /\ IsFiniteSet(Sigs)
<1>1. Templates \in Seq(Range(Templates))
    BY ClusterAuditAssumption
<1>2. Len(Templates) \in Nat /\ Sigs = 1..Len(Templates)
    BY <1>1 DEF Sigs
<1> QED
    BY <1>2, FS_Interval

\* A fact has the signature of its transaction, and no address the chain has not.
LEMMA FactOf ==
    ASSUME NEW i \in Sigs
    PROVE  /\ Autopsies[i] = Autopsy(Templates[i]) /\ Autopsies[i].sig = i
           /\ Within(Autopsies[i], Addresses)
<1> DEFINE tx == Templates[i]
<1>1. Autopsies[i] = Autopsy(tx)
    BY DEF Autopsies, Sigs
<1>2. tx.id = i /\ Parties(tx) \subseteq Addresses
    BY ClusterAuditAssumption DEF Sigs
<1> HIDE DEF tx
<1>3. Range(tx.signers) \subseteq Addresses
    BY <1>2 DEF Parties, Named
<1>4. ASSUME NEW j \in DOMAIN tx.steps
      PROVE  tx.steps[j].from \in Addresses /\ tx.steps[j].to \in Addresses /\ tx.steps[j].by \in Addresses
    <2>1. tx.steps[j].by \in Named(tx)
        BY DEF Named
    <2>2. tx.steps[j].from \in Owners(tx) /\ tx.steps[j].to \in Owners(tx)
        BY DEF Owners
    <2> QED
        BY <1>2, <2>1, <2>2 DEF Parties
<1>5. ASSUME NEW t \in Autopsy(tx).tokens \cup Autopsy(tx).natives \cup Autopsy(tx).atas
      PROVE  t.from \in Addresses /\ t.to \in Addresses /\ t.by \in Addresses
    <2>1. PICK j \in DOMAIN tx.steps : t = tx.steps[j]
        BY DEF Autopsy, Steps
    <2> QED
        BY <1>4, <2>1
<1>6. Autopsy(tx).sig = i /\ Autopsy(tx).signers = Range(tx.signers)
    BY <1>2 DEF Autopsy
<1> QED
    BY <1>1, <1>3, <1>5, <1>6 DEF Within, tx

\* The pairs a fact is indexed under are those the reference finds in it.
LEMMA CandidatesExact ==
    ASSUME NEW fact, NEW w
    PROVE  {p[2] : p \in {q \in Candidates(fact) : q[1] = w}} = CandidateAddresses(fact, w)
<1> DEFINE Linked == {p[2] : p \in {q \in Candidates(fact) : q[1] = w}}
<1>1. ASSUME NEW v, NEW ts, v # w
      PROVE  <<w, v>> \in UNION {Pairs(t.from, t.to) : t \in ts} <=>
                 v \in {IF t.from = w THEN t.to ELSE t.from : t \in {s \in ts : w \in {s.from, s.to}}}
    <2>1. <<w, v>> \in UNION {Pairs(t.from, t.to) : t \in ts} <=>
              \E t \in ts : (t.from = w /\ t.to = v) \/ (t.from = v /\ t.to = w)
        BY DEF Pairs
    <2>2. ASSUME NEW t
          PROVE  (w \in {t.from, t.to} /\ v = IF t.from = w THEN t.to ELSE t.from)
                     <=> ((t.from = w /\ t.to = v) \/ (t.from = v /\ t.to = w))
        BY <1>1
    <2> QED
        BY <2>1, <2>2
<1>2. ASSUME NEW v, v # w
      PROVE  <<w, v>> \in Candidates(fact) <=> v \in CandidateAddresses(fact, w)
    <2>1. <<w, v>> \in UNION {Pairs(t.from, t.to) : t \in fact.tokens} <=>
              v \in {IF t.from = w THEN t.to ELSE t.from : t \in {s \in fact.tokens : w \in {s.from, s.to}}}
        BY <1>1, <1>2
    <2>2. <<w, v>> \in UNION {Pairs(t.from, t.to) : t \in fact.natives} <=>
              v \in {IF t.from = w THEN t.to ELSE t.from : t \in {s \in fact.natives : w \in {s.from, s.to}}}
        BY <1>1, <1>2
    <2>3. <<w, v>> \in UNION {Pairs(t.from, t.to) : t \in fact.atas} <=>
              v \in {IF t.from = w THEN t.to ELSE t.from : t \in {s \in fact.atas : w \in {s.from, s.to}}}
        BY <1>1, <1>2
    <2>4. <<w, v>> \in UNION {{<<t.from, t.by>>, <<t.to, t.by>>} : t \in {s \in fact.tokens : s.by # s.from}} <=>
              v \in {t.by : t \in {s \in {t \in fact.tokens : w \in {t.from, t.to}} : s.by # s.from}}
        OBVIOUS
    <2>5. <<w, v>> \in fact.signers \X fact.signers <=>
              v \in (IF w \in fact.signers THEN fact.signers ELSE {})
        OBVIOUS
    <2>6. <<w, v>>[1] # <<w, v>>[2]
        BY <1>2
    <2> QED
        BY <1>2, <2>1, <2>2, <2>3, <2>4, <2>5, <2>6 DEF Candidates, CandidateAddresses
<1>3. ASSUME NEW p \in Candidates(fact)
      PROVE  p = <<p[1], p[2]>> /\ p[1] # p[2]
    <2>1. p[1] # p[2]
        BY DEF Candidates
    <2>2. \/ \E a, b : p = <<a, b>>
          \/ p \in fact.signers \X fact.signers
        BY DEF Candidates, Pairs
    <2> QED
        BY <2>1, <2>2
<1>4. w \notin CandidateAddresses(fact, w)
    BY DEF CandidateAddresses
<1>5. ASSUME NEW v
      PROVE  v \in Linked <=> v \in CandidateAddresses(fact, w)
    <2>1. CASE v = w
        BY <1>3, <1>4, <2>1
    <2>2. CASE v # w
        <3>1. v \in Linked <=> <<w, v>> \in Candidates(fact)
            BY <1>3
        <3> QED
            BY <1>2, <2>2, <3>1
    <2> QED
        BY <2>1, <2>2
<1> QED
    BY <1>5
-----------------------------------------------------------------------------
(***************************************************************************)
(* The indexes of the accumulator                                          *)
(***************************************************************************)
Signers(facts) == UNION {f.signers : f \in facts}
SignaturesOf(w, facts) == {f.sig : f \in {h \in facts : w \in h.signers}}

\* q has one or two of the elements of S, and all of them if it has one.
FirstTwo(q, S) ==
    /\ q \in Seq(Sigs) /\ Len(q) \in {1, 2} /\ \A i \in DOMAIN q : q[i] \in S
    /\ Len(q) = 1 => S \subseteq {q[1]}
    /\ Len(q) = 2 => q[1] # q[2]

Marked(signed, facts) ==
    /\ signed = [w \in DOMAIN signed |-> signed[w]]
    /\ DOMAIN signed = Signers(facts)
    /\ \A w \in DOMAIN signed : FirstTwo(signed[w], SignaturesOf(w, facts))

\* Spools of what the transactions may say, whose indexes agree with their facts.
Spools ==
    [facts : Seq(FactsOf(Sigs)),
     candidates : SUBSET UNION {Candidates(f) : f \in FactsOf(Sigs)},
     signed : UNION {[D -> Seq(Sigs)] : D \in SUBSET Signers(FactsOf(Sigs))}]

Mirrors(g) ==
    /\ g.candidates = UNION {Candidates(f) : f \in Range(g.facts)}
    /\ Marked(g.signed, Range(g.facts))

Sound(sigs) == {g \in Spools : Mirrors(g) /\ Range(g.facts) \subseteq FactsOf(sigs)}

\* A second element.
LEMMA AppendToOne ==
    ASSUME NEW T, NEW q \in Seq(T), Len(q) = 1, NEW x \in T
    PROVE  /\ Append(q, x) \in Seq(T) /\ Len(Append(q, x)) = 2
           /\ DOMAIN Append(q, x) = {1, 2}
           /\ Append(q, x)[1] = q[1] /\ Append(q, x)[2] = x
<1>1. Append(q, x) \in Seq(T) /\ Len(Append(q, x)) = 2
    <2>1. Append(q, x) \in Seq(T)
        OBVIOUS
    <2>2. Len(Append(q, x)) = Len(q) + 1
        OBVIOUS
    <2> QED
        BY <2>1, <2>2
<1>2. DOMAIN Append(q, x) = 1..2
    BY <1>1
<1>3. 1..2 = {1, 2}
    OBVIOUS
<1> QED
    BY <1>1, <1>2, <1>3

\* A signature nobody has signed yet leaves the index of signers exact.
LEMMA ObserveKeeps ==
    ASSUME NEW signed, NEW facts, NEW fact, Marked(signed, facts),
           fact.sig \in Sigs, \A f \in facts : f.sig # fact.sig
    PROVE  Marked(Observe(signed, fact), facts \cup {fact})
<1> DEFINE new == Observe(signed, fact)
           known(w) == SignedBy(signed, w)
           Lacks(w) == /\ w \in fact.signers /\ Len(known(w)) < 2
                       /\ fact.sig \notin Range(known(w))
           all == facts \cup {fact}
<1>1. new = [w \in DOMAIN signed \cup fact.signers |->
                IF Lacks(w) THEN Append(known(w), fact.sig) ELSE signed[w]]
    BY DEF Observe
<1>2. DOMAIN new = Signers(all)
    BY <1>1 DEF Marked, Signers
<1>3. ASSUME NEW w
      PROVE  SignaturesOf(w, all) = SignaturesOf(w, facts)
                                       \cup (IF w \in fact.signers THEN {fact.sig} ELSE {})
    BY DEF SignaturesOf
<1>4. ASSUME NEW w
      PROVE  fact.sig \notin SignaturesOf(w, facts)
    BY DEF SignaturesOf
<1>5. ASSUME NEW w \in DOMAIN signed
      PROVE  /\ known(w) = signed[w] /\ FirstTwo(signed[w], SignaturesOf(w, facts))
             /\ fact.sig \notin Range(known(w))
    <2>1. known(w) = signed[w] /\ FirstTwo(signed[w], SignaturesOf(w, facts))
        BY DEF SignedBy, Marked
    <2> QED
        BY <1>4, <2>1 DEF FirstTwo, Range
<1>6. ASSUME NEW w, w \notin DOMAIN signed
      PROVE  known(w) = <<>> /\ fact.sig \notin Range(known(w)) /\ SignaturesOf(w, facts) = {}
    <2>1. known(w) = <<>>
        BY <1>6 DEF SignedBy
    <2>2. Range(<<>>) = {}
        BY DEF Range
    <2>3. SignaturesOf(w, facts) = {}
        BY <1>6 DEF Marked, Signers, SignaturesOf
    <2> QED
        BY <2>1, <2>2, <2>3
<1>7. ASSUME NEW w \in DOMAIN new
      PROVE  FirstTwo(new[w], SignaturesOf(w, all))
    <2>1. new[w] = IF Lacks(w) THEN Append(known(w), fact.sig) ELSE signed[w]
        BY <1>1
    <2>2. CASE w \notin DOMAIN signed
        <3>1. w \in fact.signers
            BY <1>1, <2>2
        <3>2. new[w] = <<fact.sig>>
            <4>1. known(w) = <<>> /\ fact.sig \notin Range(known(w))
                BY <1>6, <2>2
            <4>2. Lacks(w) /\ Append(<<>>, fact.sig) = <<fact.sig>>
                BY <3>1, <4>1
            <4> HIDE DEF new, known, Lacks
            <4> QED
                BY <2>1, <4>1, <4>2
        <3>3. SignaturesOf(w, all) = {fact.sig}
            BY <1>3, <1>6, <2>2, <3>1
        <3> HIDE DEF new, all
        <3> QED
            BY <3>2, <3>3 DEF FirstTwo
    <2>3. CASE w \in DOMAIN signed
        <3> DEFINE q == signed[w]
                   S == SignaturesOf(w, facts)
        <3>1. known(w) = q /\ FirstTwo(q, S) /\ fact.sig \notin Range(q)
            BY <1>5, <2>3
        <3>2. CASE w \in fact.signers /\ Len(q) = 1
            <4>1. new[w] = Append(q, fact.sig)
                BY <2>1, <3>1, <3>2
            <4>2. SignaturesOf(w, all) = S \cup {fact.sig}
                BY <1>3, <3>2
            <4>3. q[1] # fact.sig /\ q[1] \in S /\ q \in Seq(Sigs)
                BY <3>1, <3>2 DEF FirstTwo, Range
            <4> HIDE DEF new, all, q, S
            <4>4. /\ new[w] \in Seq(Sigs) /\ Len(new[w]) = 2 /\ DOMAIN new[w] = {1, 2}
                  /\ new[w][1] = q[1] /\ new[w][2] = fact.sig
                BY <3>2, <4>1, <4>3, AppendToOne
            <4> QED
                BY <4>2, <4>3, <4>4 DEF FirstTwo
        <3>3. CASE w \in fact.signers /\ Len(q) # 1
            <4>1. Len(q) = 2
                BY <3>1, <3>3 DEF FirstTwo
            <4>2. new[w] = q
                BY <2>1, <3>1, <4>1
            <4>3. SignaturesOf(w, all) = S \cup {fact.sig}
                BY <1>3, <3>3
            <4> HIDE DEF new, all, q, S
            <4> QED
                BY <3>1, <4>1, <4>2, <4>3 DEF FirstTwo
        <3>4. CASE w \notin fact.signers
            <4>1. new[w] = q /\ SignaturesOf(w, all) = S
                BY <1>3, <2>1, <3>4
            <4> QED
                BY <3>1, <4>1
        <3> QED
            BY <3>2, <3>3, <3>4
    <2> QED
        BY <2>2, <2>3
<1>8. new = [w \in DOMAIN new |-> new[w]]
    BY <1>1
<1> HIDE DEF new, all
<1> QED
    BY <1>2, <1>7, <1>8 DEF Marked, new, all

\* The indexes stay exact when a transaction is taken.
LEMMA IngestKeeps ==
    ASSUME NEW sigs \in SUBSET Sigs, NEW g \in Sound(sigs), NEW n \in sigs
    PROVE  Ingest(g, Autopsies[n]) \in Sound(sigs)
<1> DEFINE fact == Autopsies[n]
           new == [facts |-> Append(g.facts, fact),
                   candidates |-> g.candidates \cup Candidates(fact),
                   signed |-> Observe(g.signed, fact)]
<1>1. CASE \E i \in DOMAIN g.facts : g.facts[i].sig = fact.sig
    BY <1>1 DEF Ingest
<1>2. CASE ~ \E i \in DOMAIN g.facts : g.facts[i].sig = fact.sig
    <2>1. Ingest(g, fact) = new
        BY <1>2 DEF Ingest
    <2>2. g \in Spools /\ Mirrors(g) /\ Range(g.facts) \subseteq FactsOf(sigs)
        BY DEF Sound
    <2>3. n \in Sigs /\ fact.sig = n /\ fact \in FactsOf(Sigs) /\ fact \in FactsOf(sigs)
        BY FactOf DEF FactsOf
    <2>4. \A f \in Range(g.facts) : f.sig # fact.sig
        BY <1>2 DEF Range
    <2> HIDE DEF fact
    <2>5. g.facts \in Seq(FactsOf(Sigs))
        BY <2>2 DEF Spools
    <2>6. /\ new.facts \in Seq(FactsOf(Sigs))
          /\ Range(new.facts) = Range(g.facts) \cup {fact}
        <3>1. /\ Append(g.facts, fact) \in Seq(FactsOf(Sigs))
              /\ DOMAIN Append(g.facts, fact) = DOMAIN g.facts \cup {Len(g.facts) + 1}
              /\ Append(g.facts, fact)[Len(g.facts) + 1] = fact
              /\ \A i \in DOMAIN g.facts : Append(g.facts, fact)[i] = g.facts[i]
            BY <2>3, <2>5
        <3>2. new.facts = Append(g.facts, fact)
            OBVIOUS
        <3> HIDE DEF new
        <3> QED
            BY <3>1, <3>2 DEF Range
    <2>7. /\ new.candidates = UNION {Candidates(f) : f \in Range(new.facts)}
          /\ new.candidates \subseteq UNION {Candidates(f) : f \in FactsOf(Sigs)}
        <3>1. g.candidates = UNION {Candidates(f) : f \in Range(g.facts)}
            BY <2>2 DEF Mirrors
        <3>2. new.candidates = g.candidates \cup Candidates(fact)
            OBVIOUS
        <3>3. Range(g.facts) \subseteq FactsOf(Sigs)
            BY <2>2 DEF FactsOf
        <3> HIDE DEF new
        <3> QED
            BY <2>3, <2>6, <3>1, <3>2, <3>3
    <2>8. Marked(new.signed, Range(new.facts))
        <3>1. Marked(g.signed, Range(g.facts))
            BY <2>2 DEF Mirrors
        <3>2. Marked(Observe(g.signed, fact), Range(g.facts) \cup {fact})
            BY <2>3, <2>4, <3>1, ObserveKeeps
        <3> QED
            BY <2>6, <3>2
    <2>9. Range(new.facts) \subseteq FactsOf(sigs)
        BY <2>2, <2>3, <2>6
    <2>10. new.signed \in UNION {[D -> Seq(Sigs)] : D \in SUBSET Signers(FactsOf(Sigs))}
        <3> DEFINE s == new.signed
                   D == DOMAIN s
        <3>1. s = [w \in D |-> s[w]] /\ D = Signers(Range(new.facts)) /\ \A w \in D : s[w] \in Seq(Sigs)
            BY <2>8 DEF Marked, FirstTwo
        <3>2. Range(new.facts) \subseteq FactsOf(Sigs)
            BY <2>9 DEF FactsOf
        <3>3. D \in SUBSET Signers(FactsOf(Sigs))
            BY <3>1, <3>2 DEF Signers
        <3> HIDE DEF new, s, D
        <3>4. s \in [D -> Seq(Sigs)]
            BY <3>1
        <3> QED
            BY <3>3, <3>4 DEF s
    <2>11. new = [facts |-> new.facts, candidates |-> new.candidates, signed |-> new.signed]
        OBVIOUS
    <2> HIDE DEF new
    <2>12. new \in Spools
        BY <2>6, <2>7, <2>10, <2>11 DEF Spools
    <2> QED
        BY <2>1, <2>7, <2>8, <2>9, <2>12 DEF Sound, Mirrors, fact
<1> QED
    BY <1>1, <1>2

\* Reading a history keeps the indexes exact.
LEMMA ReadingKeeps ==
    ASSUME NEW sigs \in SUBSET Sigs, NEW g \in Sound(sigs), NEW rows \in SUBSET sigs
    PROVE  IngestAll(g, rows) \in Sound(sigs)
<1> DEFINE S == Sound(sigs)
<1>1. ASSUME NEW h \in S, NEW n \in rows \cap (1..Len(Templates))
      PROVE  Ingest(h, Autopsies[n]) \in S
    BY IngestKeeps
<1>2. Len(Templates) \in Nat /\ g \in S
    BY TemplatesFinite
<1> HIDE DEF S
<1>3. IngestAll(g, rows) \in S
    BY <1>1, <1>2, IngestAllKeeps
<1> QED
    BY <1>3 DEF S

\* A fact taken is in the spool, and what was there stays.
LEMMA IngestStores ==
    ASSUME NEW sigs \in SUBSET Sigs, NEW g \in Sound(sigs), NEW n \in sigs
    PROVE  Range(g.facts) \cup {Autopsies[n]} \subseteq Range(Ingest(g, Autopsies[n]).facts)
<1> DEFINE fact == Autopsies[n]
<1>1. g.facts \in Seq(FactsOf(Sigs)) /\ Range(g.facts) \subseteq FactsOf(sigs)
    BY DEF Sound, Spools
<1>2. n \in Sigs /\ fact.sig = n
    BY FactOf
<1>3. CASE \E i \in DOMAIN g.facts : g.facts[i].sig = fact.sig
    <2>1. PICK i \in DOMAIN g.facts : g.facts[i].sig = fact.sig
        BY <1>3
    <2>2. g.facts[i] \in Range(g.facts)
        BY <2>1 DEF Range
    <2>3. PICK m \in sigs : g.facts[i] = Autopsies[m]
        BY <1>1, <2>2 DEF FactsOf
    <2>4. m = n
        BY <1>2, <2>1, <2>3, FactOf
    <2>5. Ingest(g, fact) = g
        BY <1>3 DEF Ingest
    <2> QED
        BY <2>2, <2>3, <2>4, <2>5
<1>4. CASE ~ \E i \in DOMAIN g.facts : g.facts[i].sig = fact.sig
    <2>1. Ingest(g, fact).facts = Append(g.facts, fact)
        BY <1>4 DEF Ingest
    <2>2. fact \in FactsOf(Sigs)
        BY <1>2 DEF FactsOf
    <2> HIDE DEF fact
    <2>3. /\ Len(g.facts) \in Nat
          /\ DOMAIN Append(g.facts, fact) = DOMAIN g.facts \cup {Len(g.facts) + 1}
          /\ Append(g.facts, fact)[Len(g.facts) + 1] = fact
          /\ \A i \in DOMAIN g.facts : Append(g.facts, fact)[i] = g.facts[i]
        BY <1>1, <2>2
    <2>4. Range(g.facts) \cup {fact} \subseteq Range(Append(g.facts, fact))
        BY <2>3 DEF Range
    <2> QED
        BY <2>1, <2>4 DEF fact
<1> QED
    BY <1>3, <1>4

\* A spool has at least these facts.
Spooled(g, facts) == facts \subseteq Range(g.facts)

\* A history read is in the spool, and what was there stays.
LEMMA ReadingStores ==
    ASSUME NEW sigs \in SUBSET Sigs, NEW g \in Sound(sigs), NEW rows \in SUBSET sigs
    PROVE  Spooled(IngestAll(g, rows), Range(g.facts) \cup FactsOf(rows))
<1> DEFINE S == Sound(sigs)
           N == Len(Templates)
<1>1. ASSUME NEW h \in S, NEW n \in rows \cap (1..N)
      PROVE  Ingest(h, Autopsies[n]) \in S
    BY IngestKeeps
<1>2. N \in Nat /\ g \in S /\ Sigs = 1..N
    BY TemplatesFinite
<1>3. PICK after : Passes(after, g, rows, S)
    <2> HIDE DEF S
    <2> QED
        BY <1>1, <1>2, IngestAllPasses
<1> DEFINE Good(n) == Spooled(after[n], Range(g.facts) \cup FactsOf(rows \cap (1..n)))
           T == {n \in Nat : n <= N => Good(n)}
<1>4. 0 \in T
    <2>1. after[0] = g /\ rows \cap (1..0) = {}
        BY <1>3 DEF Passes
    <2> QED
        BY <2>1 DEF Spooled, FactsOf
<1>5. ASSUME NEW n \in T
      PROVE  n + 1 \in T
    <2> SUFFICES ASSUME n + 1 <= N
                 PROVE  Good(n + 1)
        OBVIOUS
    <2>1. n \in Nat /\ n + 1 \in 1..N /\ (n + 1) - 1 = n /\ n \in 0..N /\ Good(n)
        BY <1>2
    <2>2. after[n] \in Sound(sigs)
        BY <1>3, <2>1 DEF Passes
    <2>3. after[n + 1] = IF n + 1 \in rows THEN Ingest(after[n], Autopsies[n + 1]) ELSE after[n]
        BY <1>3, <2>1 DEF Passes
    <2> HIDE DEF N
    <2>4. CASE n + 1 \in rows
        <3>1. Range(after[n].facts) \cup {Autopsies[n + 1]} \subseteq Range(after[n + 1].facts)
            BY <2>2, <2>3, <2>4, IngestStores
        <3>2. FactsOf(rows \cap (1..(n + 1))) \subseteq FactsOf(rows \cap (1..n)) \cup {Autopsies[n + 1]}
            <4>1. 1..(n + 1) = (1..n) \cup {n + 1}
                BY <2>1
            <4> QED
                BY <4>1 DEF FactsOf
        <3> QED
            BY <2>1, <3>1, <3>2 DEF Spooled
    <2>5. CASE n + 1 \notin rows
        <3>1. rows \cap (1..(n + 1)) = rows \cap (1..n)
            BY <2>1, <2>5
        <3> QED
            BY <2>1, <2>3, <2>5, <3>1
    <2> QED
        BY <2>4, <2>5
<1>6. T = Nat
    <2>1. T \in SUBSET Nat
        OBVIOUS
    <2> HIDE DEF T
    <2> QED
        BY <1>4, <1>5, <2>1, Induct
<1>7. Good(N)
    <2>1. N \in T /\ N <= N
        <3> HIDE DEF T, N
        <3> QED
            BY <1>2, <1>6
    <2> HIDE DEF Good
    <2> QED
        BY <2>1
<1>8. rows \cap (1..N) = rows
    BY <1>2
<1> QED
    BY <1>3, <1>7, <1>8 DEF Passes

\* The accumulator begins with exact indexes.
LEMMA NewGraphSound ==
    ASSUME NEW sigs \in SUBSET Sigs
    PROVE  NewGraph \in Sound(sigs)
<1>1. Range(<<>>) = {} /\ <<>> \in Seq(FactsOf(Sigs))
    BY DEF Range
<1>2. <<>> \in [{} -> Seq(Sigs)] /\ DOMAIN <<>> = {}
    OBVIOUS
<1>3. Marked(<<>>, {})
    BY <1>2 DEF Marked, Signers
<1>4. NewGraph \in Spools
    BY <1>1, <1>2 DEF NewGraph, Spools
<1> QED
    BY <1>1, <1>3, <1>4 DEF Sound, Mirrors, NewGraph

\* What has_other_signature answers from two signatures is right for all of them.
LEMMA TwoAreEnough ==
    ASSUME NEW signed, NEW facts, Marked(signed, facts), NEW w, NEW sig
    PROVE  HasOtherSignature(signed, w, sig) <=> \E f \in facts : f.sig # sig /\ w \in f.signers
<1> DEFINE S == SignaturesOf(w, facts)
<1>1. (\E f \in facts : f.sig # sig /\ w \in f.signers) <=> \E s \in S : s # sig
    BY DEF SignaturesOf
<1>2. CASE w \in DOMAIN signed
    <2>1. SignedBy(signed, w) = signed[w] /\ FirstTwo(signed[w], S)
        BY <1>2 DEF SignedBy, Marked
    <2> DEFINE q == signed[w]
    <2> HIDE DEF q, S
    <2>2. q \in Seq(Sigs) /\ q # <<>> /\ q[1] \in S
        BY <2>1 DEF FirstTwo, q
    <2>3. CASE Len(q) = 1
        <3>1. S = {q[1]}
            BY <2>1, <2>2, <2>3 DEF FirstTwo, q
        <3> QED
            BY <1>1, <2>1, <2>2, <2>3, <3>1 DEF HasOtherSignature, q
    <2>4. CASE Len(q) = 2
        <3>1. q[1] # q[2] /\ q[2] \in S
            BY <2>1, <2>4 DEF FirstTwo, q
        <3>2. HasOtherSignature(signed, w, sig)
            BY <2>1, <2>2, <2>4, <3>1 DEF HasOtherSignature, q
        <3> QED
            BY <1>1, <2>2, <3>1, <3>2
    <2> QED
        BY <2>1, <2>3, <2>4 DEF FirstTwo, q
<1>3. CASE w \notin DOMAIN signed
    <2>1. SignedBy(signed, w) = <<>>
        BY <1>3 DEF SignedBy
    <2>2. S = {}
        BY <1>3 DEF Marked, Signers, SignaturesOf
    <2> QED
        BY <1>1, <2>1, <2>2 DEF HasOtherSignature
<1> QED
    BY <1>2, <1>3
-----------------------------------------------------------------------------
(***************************************************************************)
(* Edges and the classes they rest on                                      *)
(***************************************************************************)
\* Classes c call no address of A a wallet that d does not.
Weaker(c, d, A) == \A w \in A : WalletLike(c, w) => WalletLike(d, w)

\* No transfer is an edge by some of the classes that is none by all of them.
LEMMA TokenEdgesGrow ==
    ASSUME NEW fact, NEW A, Within(fact, A), NEW c, NEW d, Weaker(c, d, A)
    PROVE  TokenEdges(fact, c) \subseteq TokenEdges(fact, d)
<1>1. ASSUME NEW t, t.from \in A, t.to \in A, BothWallets(c, t)
      PROVE  BothWallets(d, t)
    BY <1>1 DEF Weaker, BothWallets
<1>2. Transfers(fact) \subseteq fact.tokens /\ \A t \in Transfers(fact) : t.from \in A /\ t.to \in A /\ t.by \in A
    BY DEF Transfers, Within
<1>3. Proven(fact, c) \subseteq Proven(fact, d)
    BY <1>1, <1>2 DEF Proven
<1>4. Delegates(fact, c) \subseteq Delegates(fact, d)
    BY <1>2 DEF Delegates, Weaker
<1> QED
    <2> DEFINE Shown(t) == Edge(fact, IF Prepared(fact, t) THEN "CONFIRMED_DIRECT_LINK" ELSE "DIRECT_TOKEN_TRANSFER",
                               t.from, t.to, t.asset, t.amount)
               Lent(t) == Edge(fact, "DELEGATED_TOKEN_AUTHORITY", t.from, t.by, t.asset, t.amount)
    <2>1. \A k : TokenEdges(fact, k) = {Shown(t) : t \in Proven(fact, k)} \cup {Lent(t) : t \in Delegates(fact, k)}
        BY DEF TokenEdges
    <2> HIDE DEF Shown, Lent
    <2> QED
        BY <1>3, <1>4, <2>1

\* A fact proves no edge from some of the classes that it does not prove from all
\* of them: a preparation is dropped for a transfer between the same two wallets,
\* and what lets the one be seen lets the other.
LEMMA EdgesGrow ==
    ASSUME NEW fact, NEW A, Within(fact, A), NEW c, NEW d, Weaker(c, d, A)
    PROVE  EdgesOf(fact, c) \subseteq EdgesOf(fact, d)
<1>1. ASSUME NEW t, t.from \in A, t.to \in A, BothWallets(c, t)
      PROVE  BothWallets(d, t)
    BY <1>1 DEF Weaker, BothWallets
<1>2. TokenEdges(fact, c) \subseteq TokenEdges(fact, d)
    BY TokenEdgesGrow
<1>3. NativeEdges(fact, c) \subseteq NativeEdges(fact, d)
    <2>1. \A t \in fact.natives : t.from \in A /\ t.to \in A
        BY DEF Within
    <2>2. Fundings(fact, c) \subseteq Fundings(fact, d)
        BY <1>1, <2>1 DEF Fundings
    <2> DEFINE Shown(t) == Edge(fact, "PLAIN_DIRECT_SOL_TRANSFER", t.from, t.to, Sol, t.amount)
    <2>3. \A k : NativeEdges(fact, k) =
                     {Shown(t) : t \in {s \in Fundings(fact, k) : s.from \in fact.signers /\ s.from = fact.payer}}
        BY DEF NativeEdges
    <2> HIDE DEF Shown
    <2> QED
        BY <2>2, <2>3
<1>4. PreparationEdges(fact, c) \subseteq PreparationEdges(fact, d)
    <2> DEFINE Shown(a) == Edge(fact, "ATA_PREPARATION", a.from, a.to, a.asset, 0)
               Link(k, b) == \E e \in TokenEdges(fact, k) :
                                 e.type = "CONFIRMED_DIRECT_LINK" /\ e.from = b.from /\ e.to = b.to
               Seen(k) == {b \in Preparations(fact, k) : b.from \in fact.signers /\ ~Link(k, b)}
    <2>1. \A k : PreparationEdges(fact, k) = {Shown(a) : a \in Seen(k)}
        BY DEF PreparationEdges
    <2>2. \A a \in fact.atas : a.from \in A /\ a.to \in A
        BY DEF Within
    <2>3. Preparations(fact, c) \subseteq Preparations(fact, d)
        BY <1>1, <2>2 DEF Preparations
    <2>4. ASSUME NEW b \in Preparations(fact, c), Link(d, b)
          PROVE  Link(c, b)
        <3>1. PICK e \in TokenEdges(fact, d) :
                  e.type = "CONFIRMED_DIRECT_LINK" /\ e.from = b.from /\ e.to = b.to
            BY <2>4
        <3>2. PICK t \in Proven(fact, d) :
                  e = Edge(fact, IF Prepared(fact, t) THEN "CONFIRMED_DIRECT_LINK" ELSE "DIRECT_TOKEN_TRANSFER",
                           t.from, t.to, t.asset, t.amount)
            <4>1. \A t \in Delegates(fact, d) :
                      Edge(fact, "DELEGATED_TOKEN_AUTHORITY", t.from, t.by, t.asset, t.amount).type
                          # "CONFIRMED_DIRECT_LINK"
                BY DEF Edge
            <4> QED
                BY <3>1, <4>1 DEF TokenEdges
        <3>3. e.from = t.from /\ e.to = t.to
            BY <3>2 DEF Edge
        <3>4. BothWallets(c, b)
            BY DEF Preparations
        <3>5. t \in Proven(fact, c)
            BY <3>1, <3>2, <3>3, <3>4 DEF Proven, BothWallets
        <3>6. e \in TokenEdges(fact, c)
            BY <3>2, <3>5 DEF TokenEdges
        <3> QED
            BY <3>1, <3>6
    <2> HIDE DEF Shown, Link
    <2> QED
        BY <2>1, <2>3, <2>4
<1>5. SignerEdges(fact, c) \subseteq SignerEdges(fact, d)
    <2> DEFINE Known(k) == {w \in fact.signers : WalletLike(k, w)}
               Shown(p) == Edge(fact, "NON_MARKET_CO_SIGNER", p[1], p[2], "SIGNATURE", 0)
    <2>1. Known(c) \subseteq Known(d)
        BY DEF Within, Weaker
    <2>2. \A k : SignerEdges(fact, k) =
                     IF fact.market THEN {} ELSE {Shown(p) : p \in {q \in Known(k) \X Known(k) : q[1] < q[2]}}
        BY DEF SignerEdges
    <2> HIDE DEF Known, Shown
    <2> QED
        BY <2>1, <2>2
<1> QED
    BY <1>2, <1>3, <1>4, <1>5 DEF EdgesOf

\* An edge has the signature of the fact it was found in.
LEMMA EdgeSigned ==
    ASSUME NEW fact, NEW c, NEW e \in EdgesOf(fact, c)
    PROVE  e.sig = fact.sig
<1>1. \A type, from, to, asset, amount : Edge(fact, type, from, to, asset, amount).sig = fact.sig
    BY DEF Edge
<1>2. \E type, from, to, asset, amount : e = Edge(fact, type, from, to, asset, amount)
    BY DEF EdgesOf, TokenEdges, NativeEdges, PreparationEdges, SignerEdges
<1> QED
    BY <1>1, <1>2

\* An edge is between wallets of its fact.
LEMMA EdgeEnds ==
    ASSUME NEW fact, NEW A, Within(fact, A), NEW c, NEW e \in EdgesOf(fact, c)
    PROVE  e.from \in A /\ e.to \in A /\ WalletLike(c, e.from) /\ WalletLike(c, e.to)
<1> USE DEF Edge, Within
<1>1. CASE e \in TokenEdges(fact, c)
    <2>1. CASE \E t \in Proven(fact, c) :
                  e = Edge(fact, IF Prepared(fact, t) THEN "CONFIRMED_DIRECT_LINK" ELSE "DIRECT_TOKEN_TRANSFER",
                           t.from, t.to, t.asset, t.amount)
        BY <2>1 DEF Proven, Transfers, BothWallets
    <2>2. CASE \E t \in Delegates(fact, c) :
                  e = Edge(fact, "DELEGATED_TOKEN_AUTHORITY", t.from, t.by, t.asset, t.amount)
        BY <2>2 DEF Delegates, Transfers
    <2> QED
        BY <1>1, <2>1, <2>2 DEF TokenEdges
<1>2. CASE e \in NativeEdges(fact, c)
    BY <1>2 DEF NativeEdges, Fundings, BothWallets
<1>3. CASE e \in PreparationEdges(fact, c)
    BY <1>3 DEF PreparationEdges, Preparations, BothWallets
<1>4. CASE e \in SignerEdges(fact, c)
    <2>1. PICK v, w \in {u \in fact.signers : WalletLike(c, u)} :
              e = Edge(fact, "NON_MARKET_CO_SIGNER", v, w, "SIGNATURE", 0)
        BY <1>4 DEF SignerEdges
    <2> QED
        BY <2>1
<1> QED
    BY <1>1, <1>2, <1>3, <1>4 DEF EdgesOf

\* Whether a fact proves an edge is settled once both ends are known as wallets.
LEMMA EdgeOfPair ==
    ASSUME NEW fact, NEW A, Within(fact, A), NEW c, NEW d, Weaker(c, d, A),
           NEW e \in EdgesOf(fact, d), WalletLike(c, e.from), WalletLike(c, e.to)
    PROVE  e \in EdgesOf(fact, c)
<1> USE DEF Edge
<1>1. CASE e \in TokenEdges(fact, d)
    <2>1. CASE \E t \in Proven(fact, d) :
                  e = Edge(fact, IF Prepared(fact, t) THEN "CONFIRMED_DIRECT_LINK" ELSE "DIRECT_TOKEN_TRANSFER",
                           t.from, t.to, t.asset, t.amount)
        <3>1. PICK t \in Proven(fact, d) :
                  e = Edge(fact, IF Prepared(fact, t) THEN "CONFIRMED_DIRECT_LINK" ELSE "DIRECT_TOKEN_TRANSFER",
                           t.from, t.to, t.asset, t.amount)
            BY <2>1
        <3>2. e.from = t.from /\ e.to = t.to
            BY <3>1
        <3>3. t \in Proven(fact, c)
            BY <3>2 DEF Proven, BothWallets
        <3> QED
            BY <3>1, <3>3 DEF TokenEdges, EdgesOf
    <2>2. CASE \E t \in Delegates(fact, d) :
                  e = Edge(fact, "DELEGATED_TOKEN_AUTHORITY", t.from, t.by, t.asset, t.amount)
        <3>1. PICK t \in Delegates(fact, d) :
                  e = Edge(fact, "DELEGATED_TOKEN_AUTHORITY", t.from, t.by, t.asset, t.amount)
            BY <2>2
        <3>2. e.from = t.from /\ e.to = t.by
            BY <3>1
        <3>3. t \in Delegates(fact, c)
            BY <3>2 DEF Delegates
        <3> QED
            BY <3>1, <3>3 DEF TokenEdges, EdgesOf
    <2> QED
        BY <1>1, <2>1, <2>2 DEF TokenEdges
<1>2. CASE e \in NativeEdges(fact, d)
    <2>1. PICK t \in Fundings(fact, d) :
              /\ t.from \in fact.signers /\ t.from = fact.payer
              /\ e = Edge(fact, "PLAIN_DIRECT_SOL_TRANSFER", t.from, t.to, Sol, t.amount)
        BY <1>2 DEF NativeEdges
    <2>2. e.from = t.from /\ e.to = t.to
        BY <2>1
    <2>3. t \in Fundings(fact, c)
        BY <2>2 DEF Fundings, BothWallets
    <2> QED
        BY <2>1, <2>3 DEF NativeEdges, EdgesOf
<1>3. CASE e \in PreparationEdges(fact, d)
    <2>1. PICK a \in Preparations(fact, d) :
              /\ a.from \in fact.signers
              /\ ~\E l \in TokenEdges(fact, d) :
                     l.type = "CONFIRMED_DIRECT_LINK" /\ l.from = a.from /\ l.to = a.to
              /\ e = Edge(fact, "ATA_PREPARATION", a.from, a.to, a.asset, 0)
        BY <1>3 DEF PreparationEdges
    <2>2. e.from = a.from /\ e.to = a.to
        BY <2>1
    <2>3. a \in Preparations(fact, c)
        BY <2>2 DEF Preparations, BothWallets
    <2>4. TokenEdges(fact, c) \subseteq TokenEdges(fact, d)
        BY TokenEdgesGrow
    <2>5. ~\E l \in TokenEdges(fact, c) :
              l.type = "CONFIRMED_DIRECT_LINK" /\ l.from = a.from /\ l.to = a.to
        BY <2>1, <2>4
    <2> QED
        BY <2>1, <2>3, <2>5 DEF PreparationEdges, EdgesOf
<1>4. CASE e \in SignerEdges(fact, d)
    <2>1. PICK p \in fact.signers \X fact.signers :
              /\ p[1] < p[2] /\ ~fact.market
              /\ e = Edge(fact, "NON_MARKET_CO_SIGNER", p[1], p[2], "SIGNATURE", 0)
        BY <1>4 DEF SignerEdges
    <2>2. WalletLike(c, p[1]) /\ WalletLike(c, p[2])
        BY <2>1
    <2>3. p \in {w \in fact.signers : WalletLike(c, w)} \X {w \in fact.signers : WalletLike(c, w)}
        BY <2>2
    <2>4. e \in SignerEdges(fact, c)
        BY <2>1, <2>3 DEF SignerEdges
    <2> QED
        BY <2>4 DEF EdgesOf
<1> QED
    BY <1>1, <1>2, <1>3, <1>4 DEF EdgesOf

\* Control is never assessed more likely for knowing less.
LEMMA ControlGrows ==
    ASSUME NEW D, NEW E \in SUBSET D, \A e \in D : e.sig \in Sigs, NEW v, NEW w,
           LikelyControlled(E, v, w)
    PROVE  LikelyControlled(D, v, w)
<1> DEFINE Classes(F) == UNION {EvidenceClass(e.type) : e \in PairEdges(F, v, w)}
           Signed(F) == {e.sig : e \in PairEdges(F, v, w)}
           Kinds == {"CO_SIGN", "ATA_PREPARATION", "ATA_TOKEN_COMPOSITE", "TOKEN_FLOW", "SOL_FUNDING"}
<1>1. PairEdges(E, v, w) \subseteq PairEdges(D, v, w) /\ PairEdges(D, v, w) \subseteq D
    BY DEF PairEdges
<1>2. Classes(E) \subseteq Classes(D) /\ Signed(E) \subseteq Signed(D) /\ Signed(D) \subseteq Sigs
    BY <1>1
<1>3. \A type : EvidenceClass(type) \subseteq Kinds
    BY DEF EvidenceClass
<1>4. Classes(D) \subseteq Kinds
    BY <1>3
<1>5. IsFiniteSet(Kinds)
    <2>1. IsFiniteSet({"CO_SIGN"}) /\ IsFiniteSet({"ATA_PREPARATION"}) /\ IsFiniteSet({"ATA_TOKEN_COMPOSITE"})
          /\ IsFiniteSet({"TOKEN_FLOW"}) /\ IsFiniteSet({"SOL_FUNDING"})
        BY FS_Singleton
    <2>2. IsFiniteSet({"CO_SIGN"} \cup {"ATA_PREPARATION"})
        BY <2>1, FS_Union
    <2>3. IsFiniteSet(({"CO_SIGN"} \cup {"ATA_PREPARATION"}) \cup {"ATA_TOKEN_COMPOSITE"})
        BY <2>1, <2>2, FS_Union
    <2>4. IsFiniteSet({"TOKEN_FLOW"} \cup {"SOL_FUNDING"})
        BY <2>1, FS_Union
    <2>5. IsFiniteSet((({"CO_SIGN"} \cup {"ATA_PREPARATION"}) \cup {"ATA_TOKEN_COMPOSITE"})
                          \cup ({"TOKEN_FLOW"} \cup {"SOL_FUNDING"}))
        BY <2>3, <2>4, FS_Union
    <2>6. Kinds = (({"CO_SIGN"} \cup {"ATA_PREPARATION"}) \cup {"ATA_TOKEN_COMPOSITE"})
                      \cup ({"TOKEN_FLOW"} \cup {"SOL_FUNDING"})
        OBVIOUS
    <2> QED
        BY <2>5, <2>6
<1> HIDE DEF Classes, Signed, Kinds
<1>6. IsFiniteSet(Classes(D)) /\ IsFiniteSet(Signed(D))
    BY <1>2, <1>4, <1>5, TemplatesFinite, FS_Subset
<1>7. /\ Cardinality(Classes(E)) \in Nat /\ Cardinality(Classes(D)) \in Nat
      /\ Cardinality(Classes(E)) <= Cardinality(Classes(D))
    BY <1>2, <1>6, FS_Subset, FS_CardinalityType
<1>8. /\ Cardinality(Signed(E)) \in Nat /\ Cardinality(Signed(D)) \in Nat
      /\ Cardinality(Signed(E)) <= Cardinality(Signed(D))
    BY <1>2, <1>6, FS_Subset, FS_CardinalityType
<1>9. ASSUME NEW F
      PROVE  LikelyControlled(F, v, w) <=>
                 /\ Cardinality(Classes(F)) >= 2 /\ Cardinality(Signed(F)) >= 2
                 /\ Classes(F) \cap {"CO_SIGN", "ATA_PREPARATION", "ATA_TOKEN_COMPOSITE"} # {}
                 /\ Classes(F) \cap {"TOKEN_FLOW", "SOL_FUNDING", "ATA_TOKEN_COMPOSITE"} # {}
    BY DEF LikelyControlled, Classes, Signed
<1> QED
    BY <1>2, <1>7, <1>8, <1>9
-----------------------------------------------------------------------------
(***************************************************************************)
(* The invariant                                                           *)
(***************************************************************************)
\* All transfers of the target, and all edges, of the chain.
AllTransfers == TransfersOf(chain, Seed) \cup UNION {TransfersOf(chain, w) : w \in Addresses}
AllEdges == Edges(AllFacts, AllClasses) \cup LineageEdges(AllTransfers, AllClasses)

World == chain \subseteq Sigs /\ DOMAIN record = Addresses
Indexed == graph \in Sound(chain)
Streamed == lineage \subseteq AllTransfers
Truthful == Weaker(classes, AllClasses, Addresses)
Founded == evidence.edges \subseteq AllEdges

Inv == World /\ Indexed /\ Streamed /\ Truthful /\ Founded

\* The edges an audit has found when it ends its traversal.
FoundEdges ==
    Edges(Range(graph.facts), classes)
        \cup (IF config.deep THEN {} ELSE LineageEdges(lineage, classes))

\* What a step does to the parts of the state the invariant is about.
Reading == graph' = graph \/ \E rows \in SUBSET chain : graph' = IngestAll(graph, rows)
Streaming ==
    \/ lineage' = lineage
    \/ \E rows \in SUBSET chain : \E w : lineage' = lineage \cup TransfersOf(rows, w)
Classifying ==
    \/ classes' = classes
    \/ \E addresses, outcome : classes' \in Classified(addresses, outcome)
Gathering == evidence' = evidence \/ evidence'.edges = FoundEdges

\* What a history is read of is a part of it.
LEMMA ReadsSubset ==
    ASSUME NEW listed, NEW outcome, NEW rows \in Reads(listed, outcome)
    PROVE  rows \subseteq listed
BY DEF Reads

\* Every step reads, streams, classifies or gathers, and leaves the chain alone.
LEMMA StepsDo ==
    ASSUME Next
    PROVE  UNCHANGED world /\ Reading /\ Streaming /\ Classifying /\ Gathering
<1> USE DEF world, Reading, Streaming, Classifying, Gathering
<1>1. CASE ReadSeedBalance
    BY <1>1 DEF ReadSeedBalance
<1>2. CASE ReadSeedHistory
    <2>1. PICK outcome, rows :
              rows \in Reads(ListedWithTokens(Seed), outcome) /\ graph' = IngestAll(graph, rows)
        BY <1>2 DEF ReadSeedHistory
    <2>2. rows \in SUBSET chain
        BY <2>1, ReadsSubset DEF ListedWithTokens
    <2>3. UNCHANGED <<world, lineage, classes, evidence>>
        BY <1>2 DEF ReadSeedHistory
    <2> QED
        BY <2>1, <2>2, <2>3
<1>3. CASE LoseSeedHistory
    BY <1>3 DEF LoseSeedHistory
<1>4. CASE ClassifySeed
    <2>1. \E outcome : classes' \in Classified({Seed}, outcome)
        BY <1>4 DEF ClassifySeed
    <2>2. UNCHANGED <<world, lineage, graph, evidence>>
        BY <1>4 DEF ClassifySeed
    <2> QED
        BY <2>1, <2>2
<1>5. CASE SeedGraph
    <2>1. \E linked, outcome : classes' \in Classified(linked, outcome)
        BY <1>5 DEF SeedGraph
    <2>2. UNCHANGED <<world, lineage, graph, evidence>>
        BY <1>5 DEF SeedGraph
    <2> QED
        BY <2>1, <2>2
<1>6. CASE VisitActivity
    <2>1. PICK w, outcome, rows :
              rows \in Reads(ListedByName(w), outcome) /\ graph' = IngestAll(graph, rows \ seen)
        <3>1. PICK w \in {v \in Chosen : config.deep \/ v = Seed}, outcome \in Outcomes :
                  \E rows \in Reads(ListedByName(w), outcome) :
                     \E spool \in {IngestAll(graph, rows \ seen)} : graph' = spool
            BY <1>6 DEF VisitActivity
        <3>2. PICK rows \in Reads(ListedByName(w), outcome) :
                  \E spool \in {IngestAll(graph, rows \ seen)} : graph' = spool
            BY <3>1
        <3> QED
            BY <3>2
    <2>2. rows \ seen \in SUBSET chain
        BY <2>1, ReadsSubset DEF ListedByName
    <2>3. \E linked, outcome1 : classes' \in Classified(linked, outcome1)
        BY <1>6 DEF VisitActivity
    <2>4. UNCHANGED <<world, lineage, evidence>>
        BY <1>6 DEF VisitActivity, Visit
    <2> QED
        BY <2>1, <2>2, <2>3, <2>4
<1>7. CASE VisitTransfers
    <2>1. PICK w, outcome, rows :
              rows \in Reads(ListedTransfers(w), outcome) /\ lineage' = lineage \cup TransfersOf(rows, w)
        BY <1>7 DEF VisitTransfers
    <2>2. rows \in SUBSET chain
        BY <2>1, ReadsSubset DEF ListedTransfers
    <2>3. \E linked, outcome1 : classes' \in Classified(linked, outcome1)
        BY <1>7 DEF VisitTransfers
    <2>4. UNCHANGED <<world, graph, evidence>>
        BY <1>7 DEF VisitTransfers, Visit
    <2> QED
        BY <2>1, <2>2, <2>3, <2>4
<1>8. CASE StopVisiting
    BY <1>8 DEF StopVisiting
<1>9. CASE EndCrawl
    <2>1. evidence'.edges = FoundEdges
        BY <1>9 DEF EndCrawl, FoundEdges
    <2>2. \E reached, outcome : classes' \in Classified(reached, outcome)
        BY <1>9 DEF EndCrawl
    <2>3. UNCHANGED <<world, lineage, graph>>
        BY <1>9 DEF EndCrawl
    <2> QED
        BY <2>1, <2>2, <2>3
<1>10. CASE ReadBalance
    BY <1>10 DEF ReadBalance
<1>11. CASE ReadMint
    <2>1. PICK outcome, rows :
              rows \in Reads(ListedOfMint, outcome) /\ graph' = IngestAll(graph, rows \ seen)
        BY <1>11 DEF ReadMint
    <2>2. rows \ seen \in SUBSET chain
        BY <2>1, ReadsSubset DEF ListedOfMint
    <2>3. UNCHANGED <<world, lineage, classes, evidence>>
        BY <1>11 DEF ReadMint
    <2> QED
        BY <2>1, <2>2, <2>3
<1>12. CASE SkipMint
    BY <1>12 DEF SkipMint
<1>13. CASE Conclude
    BY <1>13 DEF Conclude
<1> QED
    BY <1>1, <1>2, <1>3, <1>4, <1>5, <1>6, <1>7, <1>8, <1>9, <1>10, <1>11, <1>12, <1>13 DEF Next

\* Transfers are between addresses of the chain and belong to their senders.
LEMMA TransferOfSender ==
    ASSUME World, NEW rows \in SUBSET chain, NEW w, NEW t \in TransfersOf(rows, w)
    PROVE  t.from \in Addresses /\ t.to \in Addresses /\ t.sig \in chain /\ t \in TransfersOf(chain, t.from)
<1>1. PICK i, s :
          /\ i \in rows /\ s \in TargetSteps(i)
          /\ s.from # s.to
          /\ t = [sig |-> i, from |-> s.from, to |-> s.to, amount |-> s.amount]
    BY DEF TransfersOf
<1>2. i \in chain /\ i \in Sigs
    BY <1>1 DEF World
<1>3. s \in Autopsies[i].tokens
    <2>1. Autopsies[i] = Autopsy(Templates[i])
        BY <1>2, FactOf
    <2>2. \E j \in Steps(Templates[i], "token") : s = Templates[i].steps[j]
        BY <1>1 DEF TargetSteps
    <2>3. s \in Autopsy(Templates[i]).tokens
        BY <2>2 DEF Autopsy
    <2> QED
        BY <2>1, <2>3
<1>4. s.from \in Addresses /\ s.to \in Addresses
    BY <1>2, <1>3, FactOf DEF Within
<1>5. t.from = s.from /\ t.to = s.to /\ t.sig = i
    BY <1>1
<1>6. t \in TransfersOf(chain, t.from)
    BY <1>1, <1>2, <1>5 DEF TransfersOf
<1> QED
    BY <1>2, <1>4, <1>5, <1>6

\* Edges from some of the facts, transfers and classes are edges of the chain.
LEMMA FoundIsReal ==
    ASSUME Inv
    PROVE  FoundEdges \subseteq AllEdges
<1> USE DEF Inv
<1>1. ASSUME NEW f \in Range(graph.facts), NEW e \in EdgesOf(f, classes)
      PROVE  e \in AllEdges
    <2>1. PICK i \in chain : f = Autopsies[i]
        BY DEF Indexed, Sound, FactsOf
    <2>2. i \in Sigs /\ f \in AllFacts
        BY <2>1 DEF World, AllFacts
    <2>3. Within(f, Addresses) /\ Weaker(classes, AllClasses, Addresses)
        BY <2>1, <2>2, FactOf DEF Truthful
    <2>4. e \in EdgesOf(f, AllClasses)
        BY <2>3, EdgesGrow
    <2> QED
        BY <2>2, <2>4 DEF AllEdges, Edges
<1>2. ASSUME NEW e \in LineageEdges(lineage, classes)
      PROVE  e \in AllEdges
    <2>1. PICK r \in lineage :
              /\ WalletLike(classes, r.from) /\ WalletLike(classes, r.to)
              /\ e = [sig |-> r.sig, type |-> "TARGET_TOKEN_TRANSFER", from |-> r.from, to |-> r.to,
                      asset |-> Target, amount |-> r.amount, high |-> TRUE]
        BY DEF LineageEdges
    <2>2. r \in AllTransfers
        BY DEF Streamed
    <2>3. r.from \in Addresses /\ r.to \in Addresses
        BY <2>2, TransferOfSender DEF AllTransfers
    <2>4. WalletLike(AllClasses, r.from) /\ WalletLike(AllClasses, r.to)
        BY <2>1, <2>3 DEF Truthful, Weaker
    <2>5. e \in LineageEdges(AllTransfers, AllClasses)
        BY <2>1, <2>2, <2>4 DEF LineageEdges
    <2> QED
        BY <2>5 DEF AllEdges
<1> QED
    BY <1>1, <1>2 DEF FoundEdges, Edges

\* A class is kept once it is known, and what a failed request leaves is no wallet.
LEMMA ClassifiedTruly ==
    ASSUME Truthful, NEW addresses, NEW outcome, NEW known \in Classified(addresses, outcome)
    PROVE  Weaker(known, AllClasses, Addresses)
<1>1. ASSUME NEW w \in Addresses, WalletLike(known, w)
      PROVE  WalletLike(AllClasses, w)
    <2>1. DOMAIN known = addresses \cup DOMAIN classes
        BY DEF Classified
    <2>2. known[w] = "WALLET_LIKE" /\ w \in addresses \cup DOMAIN classes
        BY <1>1, <2>1 DEF WalletLike
    <2>3. CASE w \in DOMAIN classes
        BY <2>2, <2>3 DEF Classified, Truthful, Weaker, WalletLike
    <2>4. CASE w \notin DOMAIN classes
        <3>1. known[w] = Classify(record[w])
            BY <2>2, <2>4 DEF Classified
        <3> QED
            BY <2>2, <3>1 DEF WalletLike, AllClasses
    <2> QED
        BY <2>3, <2>4
<1> QED
    BY <1>1 DEF Weaker

\* The invariant holds of every state.
THEOREM Invariance == Spec => []Inv
<1>1. Init => Inv
    <2> SUFFICES ASSUME Init
                 PROVE  Inv
        OBVIOUS
    <2>1. World
        BY ClusterAuditAssumption DEF Init, World, Sigs
    <2>2. Indexed
        BY <2>1, NewGraphSound DEF Init, Indexed, World
    <2>3. Streamed /\ Founded
        BY DEF Init, Streamed, Founded
    <2>4. Truthful
        <3>1. DOMAIN <<>> = {}
            OBVIOUS
        <3> QED
            BY <3>1 DEF Init, Truthful, Weaker, WalletLike
    <2> QED
        BY <2>1, <2>2, <2>3, <2>4 DEF Inv
<1>2. Inv /\ [Next]_vars => Inv'
    <2>1. CASE UNCHANGED vars
        BY <2>1 DEF vars, Inv, World, Indexed, Streamed, Truthful, Founded, AllTransfers,
                    AllEdges, AllFacts, AllClasses
    <2> SUFFICES ASSUME Inv, Next
                 PROVE  Inv'
        BY <2>1
    <2>2. UNCHANGED world /\ Reading /\ Streaming /\ Classifying /\ Gathering
        BY StepsDo
    <2>3. /\ chain' = chain /\ record' = record
          /\ AllTransfers' = AllTransfers /\ AllEdges' = AllEdges /\ AllClasses' = AllClasses
        BY <2>2 DEF world, AllTransfers, AllEdges, AllFacts, AllClasses
    <2>4. World'
        BY <2>3 DEF Inv, World
    <2>5. Indexed'
        <3>1. chain \in SUBSET Sigs /\ graph \in Sound(chain)
            BY DEF Inv, World, Indexed
        <3>2. \A rows \in SUBSET chain : IngestAll(graph, rows) \in Sound(chain)
            BY <3>1, ReadingKeeps
        <3> QED
            BY <2>2, <2>3, <3>1, <3>2 DEF Reading, Indexed
    <2>6. Streamed'
        <3>1. \A rows \in SUBSET chain : \A w : TransfersOf(rows, w) \subseteq AllTransfers
            BY TransferOfSender DEF Inv, AllTransfers
        <3> QED
            BY <2>2, <2>3, <3>1 DEF Streaming, Streamed, Inv
    <2>7. Truthful'
        <3>1. \A addresses, outcome : \A known \in Classified(addresses, outcome) :
                  Weaker(known, AllClasses, Addresses)
            BY ClassifiedTruly DEF Inv
        <3> QED
            BY <2>2, <2>3, <3>1 DEF Classifying, Truthful, Inv
    <2>8. Founded'
        BY <2>2, <2>3, FoundIsReal DEF Gathering, Founded, Inv
    <2> QED
        BY <2>4, <2>5, <2>6, <2>7, <2>8 DEF Inv
<1> QED
    BY <1>1, <1>2, PTL DEF Spec

\* What the accumulator answers from its indexes, of the counterparties of a wallet
\* and of whether it signed anything else, is what the spooled facts say.
THEOREM IndexesExactHolds == Spec => []IndexesExact
<1>1. Inv => IndexesExact
    <2> SUFFICES ASSUME Inv, NEW w \in Addresses
                 PROVE  /\ CandidatesFor(graph, w) =
                               UNION {CandidateAddresses(f, w) : f \in Range(graph.facts)}
                        /\ \A f \in Range(graph.facts) :
                               HasOtherSignature(graph.signed, w, f.sig) <=>
                                   \E g \in Range(graph.facts) : g.sig # f.sig /\ w \in g.signers
        BY DEF IndexesExact
    <2>1. /\ graph.candidates = UNION {Candidates(f) : f \in Range(graph.facts)}
          /\ Marked(graph.signed, Range(graph.facts))
        BY DEF Inv, Indexed, Sound, Mirrors
    <2>2. CandidatesFor(graph, w) =
              UNION {{p[2] : p \in {q \in Candidates(f) : q[1] = w}} : f \in Range(graph.facts)}
        BY <2>1 DEF CandidatesFor
    <2>3. \A f \in Range(graph.facts) :
              {p[2] : p \in {q \in Candidates(f) : q[1] = w}} = CandidateAddresses(f, w)
        BY CandidatesExact
    <2> QED
        BY <2>1, <2>2, <2>3, TwoAreEnough
<1> QED
    BY <1>1, Invariance, PTL

\* A finished audit reports no edge the whole chain does not have, and assesses no
\* common control the whole chain does not support, whatever failed on the way.
THEOREM NothingInventedHolds == Spec => []NothingInvented
<1>1. Inv => NothingInvented
    <2> SUFFICES ASSUME Inv
                 PROVE  /\ evidence.edges \subseteq AllEdges
                        /\ \A v, w \in evidence.nodes :
                               v # w /\ LikelyControlled(evidence.edges, v, w)
                                   => LikelyControlled(AllEdges, v, w)
        BY DEF NothingInvented, AllEdges, AllTransfers
    <2>1. evidence.edges \subseteq AllEdges
        BY DEF Inv, Founded
    <2>2. \A e \in AllEdges : e.sig \in Sigs
        <3>1. ASSUME NEW e \in Edges(AllFacts, AllClasses)
              PROVE  e.sig \in Sigs
            <4>1. PICK i \in chain : e \in EdgesOf(Autopsies[i], AllClasses)
                BY DEF Edges, AllFacts
            <4> QED
                BY <4>1, FactOf, EdgeSigned DEF Inv, World
        <3>2. ASSUME NEW e \in LineageEdges(AllTransfers, AllClasses)
              PROVE  e.sig \in Sigs
            <4>1. PICK r \in AllTransfers : e.sig = r.sig
                BY DEF LineageEdges
            <4> QED
                BY <4>1, TransferOfSender DEF AllTransfers, Inv, World
        <3> QED
            BY <3>1, <3>2 DEF AllEdges
    <2>3. ASSUME NEW v, NEW w, LikelyControlled(evidence.edges, v, w)
          PROVE  LikelyControlled(AllEdges, v, w)
        BY <2>1, <2>2, <2>3, ControlGrows
    <2> QED
        BY <2>1, <2>3
<1> QED
    BY <1>1, Invariance, PTL
-----------------------------------------------------------------------------
(***************************************************************************)
(* What the traversal remembers                                            *)
(***************************************************************************)
Remembered(c) == c.fetched \cup c.queue \cup c.skipped

IsCrawl(c) ==
    c = [depth |-> c.depth, queue |-> c.queue, priority |-> c.priority,
         skipped |-> c.skipped, fetched |-> c.fetched, warned |-> c.warned]

\* The wallets at the other ends of the edges of w.
Related(edges, w) == {Other(e, w) : e \in {d \in edges : w \in {d.from, d.to}}} \ {w}

\* The traversal c1 has all that c has and what the edges of w lead to, as far as
\* no limit is reported.
Remembers(c, c1, edges, w) ==
    /\ IsCrawl(c1)
    /\ DOMAIN c.depth \subseteq DOMAIN c1.depth
    /\ DOMAIN c1.depth \subseteq DOMAIN c.depth \cup Related(edges, w)
    /\ c1.fetched = c.fetched /\ c.queue \subseteq c1.queue /\ c.warned \subseteq c1.warned
    /\ Remembered(c) \subseteq Remembered(c1)
    /\ Remembered(c1) \subseteq Remembered(c) \cup DOMAIN c1.depth
    /\ c1.warned = {} => Related(edges, w) \subseteq Remembered(c1)

\* remember_neighbor, of all the edges of w.
LEMMA RememberAllDoes ==
    ASSUME NEW c, IsCrawl(c), NEW edges, NEW w, NEW forced, RememberAll(c, edges, w, forced)
    PROVE  Remembers(c, crawl', edges, w)
<1>1. PICK best \in {BestEdges(edges, w)} :
      \E admitted \in {IF c.depth[w] + 1 > config.graphDepth THEN {} ELSE Admitted(c, edges, best)} :
      \E deep \in {{v \in admitted : forced \/ \E e \in Between(edges, v, w) : Deepens(edges, e)}} :
          crawl' = Joined(c, edges, w, best, admitted, deep)
    BY DEF RememberAll
<1>2. PICK admitted \in {IF c.depth[w] + 1 > config.graphDepth THEN {} ELSE Admitted(c, edges, best)} :
      \E deep \in {{v \in admitted : forced \/ \E e \in Between(edges, v, w) : Deepens(edges, e)}} :
          crawl' = Joined(c, edges, w, best, admitted, deep)
    BY <1>1
<1>3. PICK deep \in SUBSET admitted : crawl' = Joined(c, edges, w, best, admitted, deep)
    BY <1>2
<1>4. DOMAIN best = Related(edges, w) /\ admitted \subseteq DOMAIN best
    BY <1>1, <1>2 DEF BestEdges, Related, Admitted
<1> DEFINE next == c.depth[w] + 1
           beyond == next > config.graphDepth
           depth == [v \in DOMAIN c.depth \cup admitted |->
                        IF v \in DOMAIN c.depth /\ (v \notin admitted \/ c.depth[v] <= next)
                        THEN c.depth[v] ELSE next]
           order == [v \in DOMAIN c.priority \cup admitted |->
                        IF v \in DOMAIN c.priority
                           /\ (v \notin admitted \/ ~Above(Priority(edges, best[v]), c.priority[v]))
                        THEN c.priority[v] ELSE Priority(edges, best[v])]
           limits == IF DOMAIN best \subseteq admitted THEN {}
                     ELSE IF beyond THEN {"depth"} ELSE {"wallets"}
<1>5. crawl' = [c EXCEPT !.depth = depth, !.priority = order,
                         !.queue = c.queue \cup (deep \ c.fetched),
                         !.skipped = (c.skipped \cup (admitted \ (c.fetched \cup c.queue))) \ deep,
                         !.warned = c.warned \cup limits]
    BY <1>3 DEF Joined
<1>6. DOMAIN depth = DOMAIN c.depth \cup admitted
    OBVIOUS
<1>7. limits = {} => DOMAIN best \subseteq admitted
    OBVIOUS
<1> HIDE DEF depth, order, limits
<1>8. /\ IsCrawl(crawl')
      /\ crawl'.depth = depth /\ crawl'.fetched = c.fetched
      /\ crawl'.queue = c.queue \cup (deep \ c.fetched)
      /\ crawl'.skipped = (c.skipped \cup (admitted \ (c.fetched \cup c.queue))) \ deep
      /\ crawl'.warned = c.warned \cup limits
    BY <1>5 DEF IsCrawl
<1>9. Remembered(c) \subseteq Remembered(crawl')
    BY <1>8 DEF Remembered
<1>10. Remembered(crawl') \subseteq Remembered(c) \cup admitted /\ admitted \subseteq Remembered(crawl')
    BY <1>3, <1>8 DEF Remembered
<1> QED
    BY <1>4, <1>6, <1>7, <1>8, <1>9, <1>10 DEF Remembers
-----------------------------------------------------------------------------
(***************************************************************************)
(* The graph of the report                                                 *)
(***************************************************************************)
\* States of assign_graph_depths, over the addresses A.
Maps(A) == UNION {[D -> Nat] : D \in SUBSET A}
Drafts(A) ==
    {g \in [depth : Maps(A), place : Maps(A), warned : SUBSET {"depth", "wallets"}] :
        DOMAIN g.place = DOMAIN g.depth}

\* Every wallet of the draft has a place of its own, and the neighbours of those with
\* the first n places are in it, as far as no limit was met.
Ordered(g, n, edges, seed, m) ==
    /\ seed \in DOMAIN g.depth
    /\ \A v \in DOMAIN g.depth : g.place[v] \in 1..m /\ g.place[v] <= Cardinality(DOMAIN g.depth)
    /\ \A u, v \in DOMAIN g.depth : g.place[u] = g.place[v] => u = v
    /\ g.warned = {} =>
           \A v \in DOMAIN g.depth : g.place[v] <= n => Neighbours(edges, v) \subseteq DOMAIN g.depth

\* The addresses of a set up to v.
Upto(new, v) == {u \in new : u <= v}

\* As many places as addresses up to one's own: everyone has a place of its own.
Lined(new) ==
    /\ \A v : IsFiniteSet(Upto(new, v)) /\ Cardinality(Upto(new, v)) \in Nat
    /\ \A v \in new : Cardinality(Upto(new, v)) >= 1
    /\ \A v, w \in new : v <= w => Upto(new, v) \subseteq Upto(new, w)
    /\ \A v, w \in new : Cardinality(Upto(new, v)) = Cardinality(Upto(new, w)) => v = w

LEMMA PlacesLined ==
    ASSUME NEW new, IsFiniteSet(new), new \subseteq Nat
    PROVE  Lined(new)
<1>1. ASSUME NEW v
      PROVE  IsFiniteSet(Upto(new, v)) /\ Cardinality(Upto(new, v)) \in Nat
    <2>1. Upto(new, v) \in SUBSET new
        BY DEF Upto
    <2> QED
        BY <2>1, FS_Subset, FS_CardinalityType
<1>2. ASSUME NEW v \in new
      PROVE  Cardinality(Upto(new, v)) >= 1
    <2>1. v \in Upto(new, v)
        <3>1. v \in Nat
            OBVIOUS
        <3> QED
            BY <3>1 DEF Upto
    <2> QED
        BY <1>1, <2>1, FS_EmptySet
<1>3. ASSUME NEW v \in new, NEW w \in new, v <= w
      PROVE  Upto(new, v) \subseteq Upto(new, w)
    <2> SUFFICES ASSUME NEW u \in new, u <= v
                 PROVE  u <= w
        BY DEF Upto
    <2>1. u \in Nat /\ v \in Nat /\ w \in Nat
        OBVIOUS
    <2> QED
        BY <1>3, <2>1
<1>4. ASSUME NEW v \in new, NEW w \in new, v < w
      PROVE  Cardinality(Upto(new, v)) # Cardinality(Upto(new, w))
    <2>1. v \in Nat /\ w \in Nat
        OBVIOUS
    <2>2. v <= w /\ w \in Upto(new, w) /\ w \notin Upto(new, v)
        BY <1>4, <2>1 DEF Upto
    <2>3. Upto(new, v) \in SUBSET Upto(new, w)
        BY <1>3, <2>2
    <2> QED
        BY <1>1, <2>2, <2>3, FS_Subset
<1>5. ASSUME NEW v \in new, NEW w \in new, Cardinality(Upto(new, v)) = Cardinality(Upto(new, w))
      PROVE  v = w
    <2>1. v \in Nat /\ w \in Nat
        OBVIOUS
    <2> QED
        BY <1>4, <1>5, <2>1
<1> QED
    BY <1>1, <1>2, <1>3, <1>5 DEF Lined

\* The parts of a draft.
LEMMA DraftHas ==
    ASSUME NEW A, NEW g \in Drafts(A)
    PROVE  /\ DOMAIN g.depth \in SUBSET A /\ DOMAIN g.place = DOMAIN g.depth
           /\ g.depth \in [DOMAIN g.depth -> Nat] /\ g.place \in [DOMAIN g.depth -> Nat]
           /\ g.warned \subseteq {"depth", "wallets"}
<1>1. /\ g.depth \in Maps(A) /\ g.place \in Maps(A) /\ g.warned \in SUBSET {"depth", "wallets"}
      /\ DOMAIN g.place = DOMAIN g.depth
    BY DEF Drafts
<1>2. PICK D \in SUBSET A : g.depth \in [D -> Nat]
    BY <1>1 DEF Maps
<1>3. PICK P \in SUBSET A : g.place \in [P -> Nat]
    BY <1>1 DEF Maps
<1>4. DOMAIN g.depth = D /\ DOMAIN g.place = P
    BY <1>2, <1>3
<1> QED
    BY <1>1, <1>2, <1>3, <1>4

LEMMA DraftOf ==
    ASSUME NEW A, NEW D \in SUBSET A, NEW depth \in [D -> Nat], NEW place \in [D -> Nat],
           NEW warned \in SUBSET {"depth", "wallets"}
    PROVE  [depth |-> depth, place |-> place, warned |-> warned] \in Drafts(A)
<1>1. depth \in Maps(A) /\ place \in Maps(A)
    BY DEF Maps
<1>2. DOMAIN depth = D /\ DOMAIN place = D
    OBVIOUS
<1> QED
    BY <1>1, <1>2 DEF Drafts

\* The draft after has of the new wallets as many as have a place up to m.
Expands(g, after, new, m) ==
    /\ DOMAIN g.depth \subseteq DOMAIN after.depth
    /\ DOMAIN after.depth \subseteq DOMAIN g.depth \cup new
    /\ \A v \in DOMAIN g.depth : after.place[v] = g.place[v]
    /\ \A v \in DOMAIN after.depth \ DOMAIN g.depth :
          /\ after.place[v] = Cardinality(DOMAIN g.depth) + Cardinality(Upto(new, v))
          /\ after.place[v] <= m
          /\ Upto(new, v) \subseteq DOMAIN after.depth
    /\ g.warned \subseteq after.warned
    /\ after.warned = {} => new \subseteq DOMAIN after.depth

\* Expanding a wallet of a draft.
LEMMA ExpandDoes ==
    ASSUME NEW A, IsFiniteSet(A), A \subseteq Nat, NEW g \in Drafts(A), NEW w \in DOMAIN g.depth,
           NEW edges, Neighbours(edges, w) \subseteq A, NEW d, NEW m \in Nat
    PROVE  /\ Expand(g, w, edges, d, m) \in Drafts(A)
           /\ Expands(g, Expand(g, w, edges, d, m), Neighbours(edges, w) \ DOMAIN g.depth, m)
<1> DEFINE D == DOMAIN g.depth
           new == Neighbours(edges, w) \ DOMAIN g.depth
           Place(v) == Cardinality(D) + Cardinality(Upto(new, v))
           beyond == g.depth[w] + 1 > d
           admitted == IF beyond THEN {} ELSE {v \in new : Place(v) <= m}
           all == D \cup admitted
           depth == [v \in all |-> IF v \in D THEN g.depth[v] ELSE g.depth[w] + 1]
           place == [v \in all |-> IF v \in D THEN g.place[v] ELSE Place(v)]
           limits == IF admitted = new THEN {} ELSE IF beyond THEN {"depth"} ELSE {"wallets"}
           warned == g.warned \cup limits
<1>1. Expand(g, w, edges, d, m) = [depth |-> depth, place |-> place, warned |-> warned]
    BY DEF Expand, Upto
<1>2. /\ D \in SUBSET A /\ new \in SUBSET A /\ D \cap new = {} /\ w \in D
      /\ g.warned \subseteq {"depth", "wallets"}
      /\ \A v \in D : g.depth[v] \in Nat /\ g.place[v] \in Nat
    BY DraftHas
<1> HIDE DEF D, new
<1>3. Lined(new) /\ Cardinality(D) \in Nat
    <2>1. IsFiniteSet(new) /\ IsFiniteSet(D) /\ new \subseteq Nat
        BY <1>2, FS_Subset
    <2> QED
        BY <2>1, FS_CardinalityType, PlacesLined
<1>4. \A v : Place(v) \in Nat
    BY <1>3 DEF Lined
<1>5. admitted \subseteq new
    OBVIOUS
<1>6. ASSUME NEW v \in admitted
      PROVE  Place(v) <= m /\ Upto(new, v) \subseteq admitted
    <2>1. v \in new /\ Place(v) <= m /\ admitted = {u \in new : Place(u) <= m}
        OBVIOUS
    <2>2. ASSUME NEW u \in Upto(new, v)
          PROVE  u \in new /\ Place(u) <= m
        <3>1. u \in new /\ u <= v
            BY DEF Upto
        <3>2. Upto(new, u) \in SUBSET Upto(new, v)
            BY <1>3, <2>1, <3>1 DEF Lined
        <3>3. Cardinality(Upto(new, u)) <= Cardinality(Upto(new, v))
            BY <1>3, <3>2, FS_Subset DEF Lined
        <3>4. Place(u) <= Place(v)
            BY <1>3, <3>3 DEF Lined
        <3> HIDE DEF Place
        <3> QED
            BY <1>4, <2>1, <3>1, <3>4
    <2> HIDE DEF admitted
    <2> QED
        BY <2>1, <2>2
<1>7. limits \subseteq {"depth", "wallets"} /\ (limits = {} => admitted = new)
    OBVIOUS
<1> HIDE DEF Place, limits, admitted
<1>8. g.depth[w] + 1 \in Nat
    BY <1>2
<1>9. depth \in [all -> Nat]
    BY <1>2, <1>8
<1>10. place \in [all -> Nat]
    BY <1>2, <1>4
<1>11. all \in SUBSET A /\ warned \in SUBSET {"depth", "wallets"}
    BY <1>2, <1>5, <1>7
<1>12. /\ DOMAIN depth = all
       /\ \A v \in D : place[v] = g.place[v]
       /\ \A v \in all \ D : place[v] = Place(v) /\ v \in admitted
    OBVIOUS
<1> HIDE DEF depth, place
<1>13. [depth |-> depth, place |-> place, warned |-> warned] \in Drafts(A)
    <2> HIDE DEF all, warned
    <2> QED
        BY <1>9, <1>10, <1>11, DraftOf
<1>14. Expands(g, [depth |-> depth, place |-> place, warned |-> warned], new, m)
    BY <1>5, <1>6, <1>7, <1>12 DEF Expands, D, Place
<1> QED
    BY <1>1, <1>13, <1>14 DEF new

\* Once the wallet in place n is expanded the first n have been.
LEMMA ExpansionOrdered ==
    ASSUME NEW A, IsFiniteSet(A), A \subseteq Nat, NEW g \in Drafts(A), NEW after \in Drafts(A),
           NEW edges, NEW seed, NEW m \in Nat, NEW n \in Nat, n # 0, Ordered(g, n - 1, edges, seed, m),
           NEW w \in DOMAIN g.depth, g.place[w] = n, Neighbours(edges, w) \subseteq A,
           Expands(g, after, Neighbours(edges, w) \ DOMAIN g.depth, m)
    PROVE  Ordered(after, n, edges, seed, m)
<1> DEFINE D == DOMAIN g.depth
           E == DOMAIN after.depth
           new == Neighbours(edges, w) \ D
           C == Cardinality(D)
           Up(v) == Cardinality(Upto(new, v))
<1>1. /\ D \in SUBSET A /\ E \in SUBSET A
      /\ \A v \in D : g.place[v] \in Nat
      /\ \A v \in E : after.place[v] \in Nat
    BY DraftHas
<1>2. /\ D \subseteq E /\ E \subseteq D \cup new
      /\ \A v \in D : after.place[v] = g.place[v]
      /\ \A v \in E \ D : after.place[v] = C + Up(v) /\ after.place[v] <= m /\ Upto(new, v) \subseteq E
      /\ g.warned \subseteq after.warned /\ (after.warned = {} => new \subseteq E)
    BY DEF Expands
<1>3. /\ seed \in D
      /\ \A v \in D : g.place[v] \in 1..m /\ g.place[v] <= C
      /\ \A u, v \in D : g.place[u] = g.place[v] => u = v
      /\ g.warned = {} => \A v \in D : g.place[v] <= n - 1 => Neighbours(edges, v) \subseteq D
    BY DEF Ordered
<1>4. w \in D /\ g.place[w] = n /\ D \cap new = {} /\ new \in SUBSET A
    OBVIOUS
<1>5. IsFiniteSet(D) /\ IsFiniteSet(E) /\ IsFiniteSet(new) /\ new \subseteq Nat
    <2> HIDE DEF D, E, new
    <2> QED
        BY <1>1, <1>4, FS_Subset
<1>6. Lined(new) /\ C \in Nat /\ Cardinality(E) \in Nat /\ C <= Cardinality(E)
    <2> HIDE DEF D, E, new
    <2>1. D \in SUBSET E
        BY <1>2
    <2> QED
        BY <1>5, <2>1, FS_Subset, FS_CardinalityType, PlacesLined
<1>7. \A v : Up(v) \in Nat
    BY <1>6 DEF Lined
<1>8. \A v \in new : Up(v) >= 1
    BY <1>6 DEF Lined
<1>9. \A u, v \in new : Up(u) = Up(v) => u = v
    BY <1>6 DEF Lined
<1>10. ASSUME NEW v \in E \ D
       PROVE  C + Up(v) <= Cardinality(E)
    <2> DEFINE U == Upto(new, v)
    <2>1. U \subseteq new /\ U \subseteq E
        BY <1>2 DEF Upto
    <2>2. IsFiniteSet(U)
        BY <1>6 DEF Lined
    <2> HIDE DEF D, E, new, U
    <2>3. D \cap U = {} /\ D \cup U \in SUBSET E
        BY <1>2, <1>4, <2>1
    <2>4. Cardinality(D \cup U) = Cardinality(D) + Cardinality(U) - 0
        BY <1>5, <2>2, <2>3, FS_Union, FS_EmptySet
    <2>5. Cardinality(D \cup U) <= Cardinality(E)
        BY <1>5, <2>3, FS_Subset
    <2>6. Cardinality(U) \in Nat /\ C = Cardinality(D)
        BY <2>2, FS_CardinalityType
    <2>7. Up(v) = Cardinality(U)
        BY DEF U
    <2> HIDE DEF C, Up
    <2> QED
        BY <1>6, <2>4, <2>5, <2>6, <2>7
<1> HIDE DEF D, E, C, Up, new
<1>11. seed \in E
    BY <1>2, <1>3
<1>12. ASSUME NEW v \in E
       PROVE  after.place[v] \in 1..m /\ after.place[v] <= Cardinality(E)
    <2>1. CASE v \in D
        <3>1. after.place[v] = g.place[v] /\ g.place[v] \in 1..m /\ g.place[v] <= C /\ g.place[v] \in Nat
            BY <1>1, <1>2, <1>3, <2>1
        <3> QED
            BY <1>6, <3>1
    <2>2. CASE v \notin D
        <3>1. v \in new /\ v \in E \ D
            BY <1>2, <2>2
        <3>2. /\ after.place[v] = C + Up(v) /\ after.place[v] <= m /\ C + Up(v) <= Cardinality(E)
              /\ Up(v) >= 1 /\ Up(v) \in Nat
            BY <1>2, <1>7, <1>8, <1>10, <3>1
        <3> QED
            BY <1>6, <3>2
    <2> QED
        BY <2>1, <2>2
<1>13. ASSUME NEW u \in E, NEW v \in E, after.place[u] = after.place[v]
       PROVE  u = v
    <2>1. \A c, x, y \in Nat : c + x = c + y => x = y
        OBVIOUS
    <2>2. \A c, x, y \in Nat : x <= c /\ y >= 1 => x # c + y
        OBVIOUS
    <2>3. \A x \in E : \/ x \in D /\ after.place[x] = g.place[x] /\ g.place[x] \in Nat /\ g.place[x] <= C
                       \/ x \in new /\ after.place[x] = C + Up(x) /\ Up(x) \in Nat /\ Up(x) >= 1
        BY <1>1, <1>2, <1>3, <1>7, <1>8
    <2>4. C \in Nat /\ after.place[u] = after.place[v]
        BY <1>6, <1>13
    <2>5. CASE u \in D /\ v \in D
        BY <1>2, <1>3, <2>4, <2>5
    <2>6. CASE u \in new /\ v \in new /\ after.place[u] = C + Up(u) /\ after.place[v] = C + Up(v)
        <3>1. C + Up(u) = C + Up(v)
            BY <2>4, <2>6
        <3>2. Up(u) = Up(v)
            BY <1>7, <2>1, <2>4, <3>1
        <3> QED
            BY <1>9, <2>6, <3>2
    <2>7. ASSUME NEW x \in E, NEW y \in E, after.place[x] = after.place[y],
                 x \in D /\ after.place[x] = g.place[x] /\ g.place[x] \in Nat /\ g.place[x] <= C,
                 y \in new /\ after.place[y] = C + Up(y) /\ Up(y) \in Nat /\ Up(y) >= 1
          PROVE  FALSE
        <3>1. g.place[x] = C + Up(y)
            BY <2>7
        <3> QED
            BY <2>2, <2>4, <2>7, <3>1
    <2> QED
        BY <2>3, <2>4, <2>5, <2>6, <2>7
<1>14. ASSUME after.warned = {}, NEW v \in E, after.place[v] <= n
       PROVE  Neighbours(edges, v) \subseteq E
    <2>1. g.warned = {} /\ new \subseteq E
        BY <1>2, <1>14
    <2>2. Neighbours(edges, w) \subseteq E
        BY <1>2, <2>1 DEF new
    <2>3. CASE v \in D
        <3>1. after.place[v] = g.place[v] /\ g.place[v] \in Nat
            BY <1>1, <1>2, <2>3
        <3>2. CASE g.place[v] = n
            BY <1>3, <1>4, <2>2, <2>3, <3>2
        <3>3. CASE g.place[v] <= n - 1
            BY <1>2, <1>3, <2>1, <2>3, <3>3
        <3> QED
            BY <1>14, <3>1, <3>2, <3>3
    <2>4. CASE v \notin D
        <3>1. after.place[v] = C + Up(v) /\ Up(v) >= 1 /\ Up(v) \in Nat /\ n <= C /\ v \in E
            BY <1>2, <1>3, <1>4, <1>7, <1>8, <2>4
        <3> QED
            BY <1>6, <1>14, <3>1
    <2> QED
        BY <2>3, <2>4
<1> QED
    BY <1>11, <1>12, <1>13, <1>14 DEF Ordered, E

\* A graph of addresses, closed under the edges unless a limit was met.
Closes(g, edges, seed, A) ==
    /\ seed \in DOMAIN g.depth /\ DOMAIN g.depth \subseteq A
    /\ g.warned = {} => \A v \in DOMAIN g.depth : Neighbours(edges, v) \subseteq DOMAIN g.depth

\* assign_graph_depths leaves no neighbour out without saying so.
LEMMA DepthsClosed ==
    ASSUME NEW A, IsFiniteSet(A), A \subseteq Nat, NEW seed \in A,
           NEW edges, \A e \in edges : e.from \in A /\ e.to \in A, NEW d, NEW m \in Nat, m # 0
    PROVE  Closes(Depths(seed, edges, d, m), edges, seed, A)
<1> DEFINE S == Drafts(A)
           first == [depth |-> [v \in {seed} |-> 0], place |-> [v \in {seed} |-> 1], warned |-> {}]
           Nth(g, n) == {v \in DOMAIN g.place : g.place[v] = n}
           Step(g, n) == IF Nth(g, n) = {} THEN g ELSE Expand(g, The(Nth(g, n)), edges, d, m)
           After[n \in 0..m] == IF n = 0 THEN first ELSE The({Step(g, n) : g \in {After[n - 1]}})
           step == [p \in Nat \X S |-> Step(p[2], p[1])]
           Recurs(f) == f = [n \in 0..m |-> IF n = 0 THEN first ELSE The({Step(g, n) : g \in {f[n - 1]}})]
<1>1. first \in S
    <2>1. [v \in {seed} |-> 0] \in [{seed} -> Nat] /\ [v \in {seed} |-> 1] \in [{seed} -> Nat]
        OBVIOUS
    <2> QED
        BY <2>1, DraftOf
<1>2. \A v : Neighbours(edges, v) \subseteq A
    BY DEF Neighbours
<1>3. ASSUME NEW g \in S, NEW n
      PROVE  /\ Step(g, n) \in S
             /\ Nth(g, n) # {} => \E w \in DOMAIN g.depth :
                    /\ g.place[w] = n
                    /\ Expands(g, Step(g, n), Neighbours(edges, w) \ DOMAIN g.depth, m)
    <2>1. CASE Nth(g, n) = {}
        BY <2>1
    <2>2. CASE Nth(g, n) # {}
        <3> DEFINE w == The(Nth(g, n))
        <3>1. w \in Nth(g, n)
            BY <2>2 DEF The
        <3>2. w \in DOMAIN g.depth /\ g.place[w] = n
            BY <3>1, DraftHas
        <3>3. Step(g, n) = Expand(g, w, edges, d, m)
            BY <2>2
        <3> HIDE DEF w, Step
        <3>4. /\ Expand(g, w, edges, d, m) \in S
              /\ Expands(g, Expand(g, w, edges, d, m), Neighbours(edges, w) \ DOMAIN g.depth, m)
            BY <1>2, <3>2, ExpandDoes
        <3> QED
            BY <3>2, <3>3, <3>4
    <2> QED
        BY <2>1, <2>2
<1>4. \A g, n : The({Step(h, n) : h \in {g}}) = Step(g, n)
    BY DEF The
<1>5. step \in [Nat \X S -> S]
    <2> HIDE DEF Step, S
    <2> QED
        BY <1>3
<1>6. PICK f : Solves(f, m, S, first, step)
    <2> HIDE DEF S, first, step
    <2> QED
        BY <1>1, <1>5, Recursion
<1>7. Recurs(f)
    <2>1. ASSUME NEW n \in 1..m
          PROVE  f[n] = Step(f[n - 1], n)
        <3>1. <<n, f[n - 1]>> \in Nat \X S
            BY <1>6 DEF Solves
        <3> HIDE DEF S, Step, first
        <3>2. f[n] = step[<<n, f[n - 1]>>]
            BY <1>6 DEF Solves
        <3> QED
            BY <3>1, <3>2
    <2>2. \A n \in 0..m : n # 0 => n \in 1..m
        OBVIOUS
    <2>3. f = [n \in 0..m |-> f[n]] /\ f[0] = first
        BY <1>6 DEF Solves
    <2>4. \A n \in 1..m : f[n] = The({Step(g, n) : g \in {f[n - 1]}})
        <3> HIDE DEF Step
        <3> QED
            BY <1>4, <2>1
    <2> HIDE DEF S, Step, first, step
    <2> QED
        BY <2>2, <2>3, <2>4
<1>8. After = CHOOSE h : Recurs(h)
    OBVIOUS
<1>9. Recurs(After)
    <2> HIDE DEF Recurs
    <2> QED
        BY <1>7, <1>8
<1>10. \A n \in 0..m : After[n] = IF n = 0 THEN first ELSE Step(After[n - 1], n)
    <2>1. After = [n \in 0..m |-> IF n = 0 THEN first ELSE The({Step(g, n) : g \in {After[n - 1]}})]
        BY <1>9
    <2>2. \A n \in 0..m : After[n] = IF n = 0 THEN first ELSE The({Step(g, n) : g \in {After[n - 1]}})
        <3> HIDE DEF After, Step, first
        <3> QED
            BY <2>1
    <2> HIDE DEF After, Step, first
    <2> QED
        BY <1>4, <2>2
<1> HIDE DEF After
<1> DEFINE Good(n) == After[n] \in S /\ Ordered(After[n], n, edges, seed, m)
           T == {n \in Nat : n <= m => Good(n)}
<1>11. 0 \in T
    <2>1. After[0] = first
        <3>1. 0 \in 0..m
            OBVIOUS
        <3> HIDE DEF first, Step
        <3> QED
            BY <1>10, <3>1
    <2>2. DOMAIN first.depth = {seed} /\ DOMAIN first.place = {seed} /\ first.place[seed] = 1
        OBVIOUS
    <2>3. Cardinality(DOMAIN first.depth) = 1
        BY <2>2, FS_Singleton
    <2> HIDE DEF first
    <2>4. Ordered(first, 0, edges, seed, m)
        BY <2>2, <2>3 DEF Ordered
    <2> QED
        BY <1>1, <2>1, <2>4
<1>12. ASSUME NEW n \in T
       PROVE  n + 1 \in T
    <2> SUFFICES ASSUME n + 1 <= m
                 PROVE  Good(n + 1)
        OBVIOUS
    <2>1. n \in Nat /\ n + 1 \in 0..m /\ n + 1 # 0 /\ (n + 1) - 1 = n /\ n + 1 \in Nat /\ Good(n)
        OBVIOUS
    <2> DEFINE g == After[n]
               next == Step(g, n + 1)
    <2>2. After[n + 1] = next
        <3> HIDE DEF Step
        <3> QED
            BY <1>10, <2>1
    <2>3. g \in S /\ Ordered(g, n, edges, seed, m)
        BY <2>1
    <2>4. next \in S
        BY <1>3, <2>3
    <2>5. CASE Nth(g, n + 1) = {}
        <3>1. next = g
            BY <2>5
        <3>2. DOMAIN g.place = DOMAIN g.depth /\ \A v \in DOMAIN g.depth : g.place[v] \in Nat
            BY <2>3, DraftHas
        <3>3. \A v \in DOMAIN g.depth : g.place[v] <= n + 1 => g.place[v] <= n
            BY <2>1, <2>5, <3>2
        <3>4. Ordered(g, n + 1, edges, seed, m)
            BY <2>3, <3>3 DEF Ordered
        <3> QED
            BY <2>2, <2>3, <3>1, <3>4
    <2>6. CASE Nth(g, n + 1) # {}
        <3> HIDE DEF next, g, Nth
        <3>1. PICK w \in DOMAIN g.depth :
                  /\ g.place[w] = n + 1
                  /\ Expands(g, next, Neighbours(edges, w) \ DOMAIN g.depth, m)
            BY <1>3, <2>3, <2>6 DEF next
        <3>2. Ordered(g, (n + 1) - 1, edges, seed, m)
            BY <2>1, <2>3
        <3>3. Ordered(next, n + 1, edges, seed, m)
            BY <1>2, <2>1, <2>3, <2>4, <3>1, <3>2, ExpansionOrdered
        <3> QED
            BY <2>2, <2>4, <3>3
    <2> QED
        BY <2>5, <2>6
<1>13. T = Nat
    <2>1. T \in SUBSET Nat
        OBVIOUS
    <2> HIDE DEF T
    <2> QED
        BY <1>11, <1>12, <2>1, Induct
<1>14. Good(m)
    <2>1. m \in T /\ m <= m
        <3> HIDE DEF T
        <3> QED
            BY <1>13
    <2> HIDE DEF Good
    <2> QED
        BY <2>1
<1>15. Depths(seed, edges, d, m) = After[m]
    BY DEF Depths, After
<1>16. Closes(After[m], edges, seed, A)
    <2> DEFINE g == After[m]
    <2> HIDE DEF g
    <2>1. g \in S /\ Ordered(g, m, edges, seed, m)
        BY <1>14 DEF g
    <2>2. DOMAIN g.depth \in SUBSET A
        BY <2>1, DraftHas
    <2>3. \A v \in DOMAIN g.depth : g.place[v] <= m
        BY <2>1 DEF Ordered
    <2>4. Closes(g, edges, seed, A)
        BY <2>1, <2>2, <2>3 DEF Closes, Ordered
    <2> QED
        BY <2>4 DEF g
<1> QED
    BY <1>15, <1>16
-----------------------------------------------------------------------------
(***************************************************************************)
(* What an audit that met no limit has covered                             *)
(***************************************************************************)
\* Nothing failed that a conclusion rests on, and no limit was met.
Clear ==
    complete.seed /\ complete.graph /\ ~rpcFailed /\ ~exhausted /\ crawl.warned = {}

\* The traversal knows the seed, and only wallets it remembered.
Shaped ==
    /\ IsCrawl(crawl)
    /\ Seed \in DOMAIN crawl.depth /\ DOMAIN crawl.depth \subseteq Addresses
    /\ Remembered(crawl) \subseteq DOMAIN crawl.depth
    /\ complete \in [seed : BOOLEAN, graph : BOOLEAN, mint : BOOLEAN]
    /\ DOMAIN report = {"target", "relationship", "combined"}
    /\ seen \subseteq chain /\ config \in Configs /\ voids \in Nat

\* A request that is known to have failed is kept in one of the flags.
Counted ==
    /\ phase \in {"balance", "history"} => complete.seed
    /\ phase \notin {"conclusion", "done"} => complete.mint
    /\ phase # "done" /\ complete.seed /\ complete.graph /\ complete.mint /\ ~rpcFailed /\ ~exhausted
           => failures = 0

\* What was read is in the spool, all that touches the seed if its history was read.
Stored ==
    /\ \A i \in seen : Autopsies[i] \in Range(graph.facts)
    /\ phase \notin {"balance", "history", "done"} /\ complete.seed => ListedWithTokens(Seed) \subseteq seen

\* When every request was answered the classes are those of the chain.
Honest ==
    ~rpcFailed /\ ~exhausted /\ voids = 0 => \A v \in DOMAIN classes : classes[v] = Classify(record[v])

\* A wallet in the traversal has been classified.
Classed ==
    /\ phase \in {"balance", "history", "seed", "linked"} => DOMAIN crawl.depth = {Seed}
    /\ phase \in {"linked", "crawl", "end"} => DOMAIN crawl.depth \subseteq DOMAIN classes

\* The wallets the history of w may tell of.
Contacts(w) ==
    IF config.deep \/ w = Seed THEN UNION {CandidateAddresses(Autopsies[i], w) : i \in Listed(w)}
    ELSE UNION {{t.from, t.to} : t \in TransfersOf(ListedTransfers(w), w)}

\* They have been classified, and a class is kept once it is known.
Settled(w) == {w} \cup Contacts(w) \subseteq DOMAIN classes

\* All that the history of a visited wallet tells is remembered.
Learned ==
    Clear => \A w \in crawl.fetched : Settled(w) /\ Told(classes, w) \subseteq Remembered(crawl)

\* Sets of wallets that no edge leads out of.
Closed(edges, Y) == Seed \in Y /\ \A w \in Y : Neighbours(edges, w) \subseteq Y

\* The traversal follows the edges the report will have.
Rooted == \A Y \in SUBSET Addresses : Closed(FoundEdges, Y) => DOMAIN crawl.depth \subseteq Y

\* The seed is visited, unless the traversal ends early, which is reported.
Queued ==
    /\ crawl.warned = {} => Seed \in crawl.fetched \cup crawl.queue
    /\ phase = "end" => crawl.warned # {}

\* The seed was visited and with every wallet all its history tells of, and all of
\* these are in the report.
Scoped ==
    /\ Seed \in crawl.fetched /\ crawl.fetched \subseteq evidence.nodes
    /\ \A w \in crawl.fetched : Settled(w) /\ Told(classes, w) \subseteq crawl.fetched

\* No request is known to have failed.
Sure == failures = 0 /\ ~rpcFailed /\ ~exhausted

Explored == phase \in {"inventory", "conclusion"} /\ Clear => Scoped

\* A balance is unknown or what the chain says.
Weighed ==
    /\ \A w \in DOMAIN holds : holds[w] \in {Unread, Holding(w)}
    /\ phase = "conclusion" => evidence.nodes \subseteq DOMAIN holds

\* What the two conclusions were drawn from.
Concluded ==
    phase = "done" =>
        /\ report.relationship = "RESOLVED_WITHIN_SCOPE" => Scoped /\ Sure
        /\ report.target = "VERIFIED_OUT" =>
              /\ Scoped /\ Sure
              /\ \A w \in evidence.nodes : holds[w] = Holding(w)
              /\ ~(Visible > Threshold)
              /\ \A i \in DOMAIN evidence.rows : i <= SampleLimit => ~Blocks(evidence.rows[i])

Covering ==
    /\ Shaped /\ Counted /\ Stored /\ Honest /\ Classed /\ Learned /\ Rooted /\ Queued
    /\ Explored /\ Weighed /\ Concluded

\* What the chain says does not change.
Static ==
    /\ config' = config /\ chain' = chain /\ record' = record
    /\ \A w : Told(classes, w)' = Told(classes', w)
    /\ \A w : Contacts(w)' = Contacts(w)
    /\ \A w : Holding(w)' = Holding(w)
    /\ ListedWithTokens(Seed)' = ListedWithTokens(Seed)

LEMMA WorldStatic ==
    ASSUME UNCHANGED world
    PROVE  Static
<1>1. config' = config /\ chain' = chain /\ record' = record
    BY DEF world
<1>2. \A w : Listed(w)' = Listed(w) /\ ListedTransfers(w)' = ListedTransfers(w)
    BY <1>1 DEF Listed, ListedWithTokens, ListedByName, ListedTransfers
<1>3. ASSUME NEW w
      PROVE  Told(classes, w)' = Told(classes', w)
    <2> DEFINE Tell(deep, listed, transfers, known) ==
                   IF deep \/ w = Seed
                   THEN UNION {{v \in CandidateAddresses(Autopsies[i], w) :
                                   Between(EdgesOf(Autopsies[i], known), v, w) # {}} : i \in listed}
                   ELSE {Other(e, w) : e \in LineageEdges(TransfersOf(transfers, w), known)}
    <2>1. Told(classes', w) = Tell(config.deep, Listed(w), ListedTransfers(w), classes')
        BY DEF Told
    <2>2. Told(classes, w)' = Tell(config'.deep, Listed(w)', ListedTransfers(w)', classes')
        BY DEF Told
    <2> HIDE DEF Tell
    <2> QED
        BY <1>1, <1>2, <2>1, <2>2
<1>4. ASSUME NEW w
      PROVE  Contacts(w)' = Contacts(w)
    <2> DEFINE Meet(deep, listed, transfers) ==
                   IF deep \/ w = Seed
                   THEN UNION {CandidateAddresses(Autopsies[i], w) : i \in listed}
                   ELSE UNION {{t.from, t.to} : t \in TransfersOf(transfers, w)}
    <2>1. Contacts(w) = Meet(config.deep, Listed(w), ListedTransfers(w))
        BY DEF Contacts
    <2>2. Contacts(w)' = Meet(config'.deep, Listed(w)', ListedTransfers(w)')
        BY DEF Contacts
    <2> HIDE DEF Meet
    <2> QED
        BY <1>1, <1>2, <2>1, <2>2
<1>5. \A w : Holding(w)' = Holding(w)
    BY <1>1 DEF Holding
<1> QED
    BY <1>1, <1>3, <1>4, <1>5 DEF Static, ListedWithTokens

\* No failure is flagged only if none was before and none is among the answers a; none
\* is counted when all of them are complete or of no use, and of the latter none is
\* counted only if there was none and is none.
Fails(a) ==
    /\ ~rpcFailed' /\ ~exhausted' =>
          ~rpcFailed /\ ~exhausted /\ "rpc" \notin a /\ "none" \notin a /\ "budget" \notin a
    /\ failures = 0 /\ a \subseteq {"complete"} \cup Void => failures' = 0
    /\ voids' \in Nat
    /\ voids' = 0 => voids = 0 /\ a \cap Void = {}

LEMMA FewFinite == IsFiniteSet(1..1) /\ IsFiniteSet(1..2)
<1>1. ASSUME NEW n \in Int
      PROVE  IsFiniteSet(1..n)
    BY FS_Interval
<1>2. 1 \in Int /\ 2 \in Int
    OBVIOUS
<1> QED
    BY <1>1, <1>2

LEMMA OneFails ==
    ASSUME voids \in Nat, NEW a, Fail(<<a>>)
    PROVE  Fails({a})
<1> DEFINE failed == {i \in DOMAIN <<a>> : <<a>>[i] # "complete"}
           void == {i \in failed : <<a>>[i] \in Void}
           noted == failed \ void
<1>1. /\ failures' = failures + Cardinality(noted) /\ voids' = voids + Cardinality(void)
      /\ rpcFailed' = (rpcFailed \/ \E i \in failed : <<a>>[i] \in {"rpc", "none"})
      /\ exhausted' = (exhausted \/ \E i \in failed : <<a>>[i] = "budget")
    BY DEF Fail
<1>2. void \subseteq 1..1
    OBVIOUS
<1>3. /\ a # "complete" => 1 \in failed /\ <<a>>[1] = a
      /\ a \in Void => 1 \in void
      /\ {a} \subseteq {"complete"} \cup Void => noted = {}
    BY DEF Void
<1>4. Cardinality({}) = 0 /\ Cardinality(void) \in Nat /\ (Cardinality(void) = 0 => void = {})
    <2>1. IsFiniteSet(1..1)
        BY FewFinite
    <2> HIDE DEF void
    <2>2. IsFiniteSet(void)
        BY <1>2, <2>1, FS_Subset
    <2> QED
        BY <2>2, FS_EmptySet, FS_CardinalityType
<1> HIDE DEF failed, void, noted
<1>5. ~rpcFailed' => ~rpcFailed /\ a \notin {"rpc", "none"}
    BY <1>1, <1>3
<1>6. ~exhausted' => ~exhausted /\ a # "budget"
    BY <1>1, <1>3
<1>7. ASSUME failures = 0, {a} \subseteq {"complete"} \cup Void
      PROVE  failures' = 0
    <2>1. noted = {}
        BY <1>3, <1>7
    <2> QED
        BY <1>1, <1>4, <1>7, <2>1
<1>8. voids' \in Nat
    BY <1>1, <1>4
<1>9. ASSUME voids' = 0
      PROVE  voids = 0 /\ a \notin Void
    <2>1. voids = 0 /\ Cardinality(void) = 0
        BY <1>1, <1>4, <1>9
    <2> QED
        BY <1>3, <1>4, <2>1
<1> QED
    BY <1>5, <1>6, <1>7, <1>8, <1>9 DEF Fails

LEMMA TwoFail ==
    ASSUME voids \in Nat, NEW a, NEW b, Fail(<<a, b>>)
    PROVE  Fails({a, b})
<1> DEFINE failed == {i \in DOMAIN <<a, b>> : <<a, b>>[i] # "complete"}
           void == {i \in failed : <<a, b>>[i] \in Void}
           noted == failed \ void
<1>1. /\ failures' = failures + Cardinality(noted) /\ voids' = voids + Cardinality(void)
      /\ rpcFailed' = (rpcFailed \/ \E i \in failed : <<a, b>>[i] \in {"rpc", "none"})
      /\ exhausted' = (exhausted \/ \E i \in failed : <<a, b>>[i] = "budget")
    BY DEF Fail
<1>2. void \subseteq 1..2
    OBVIOUS
<1>3. /\ a # "complete" => 1 \in failed /\ <<a, b>>[1] = a
      /\ a \in Void => 1 \in void
      /\ b # "complete" => 2 \in failed /\ <<a, b>>[2] = b
      /\ b \in Void => 2 \in void
      /\ {a, b} \subseteq {"complete"} \cup Void => noted = {}
    BY DEF Void
<1>4. Cardinality({}) = 0 /\ Cardinality(void) \in Nat /\ (Cardinality(void) = 0 => void = {})
    <2>1. IsFiniteSet(1..2)
        BY FewFinite
    <2> HIDE DEF void
    <2>2. IsFiniteSet(void)
        BY <1>2, <2>1, FS_Subset
    <2> QED
        BY <2>2, FS_EmptySet, FS_CardinalityType
<1> HIDE DEF failed, void, noted
<1>5. ~rpcFailed' => ~rpcFailed /\ a \notin {"rpc", "none"} /\ b \notin {"rpc", "none"}
    BY <1>1, <1>3
<1>6. ~exhausted' => ~exhausted /\ a # "budget" /\ b # "budget"
    BY <1>1, <1>3
<1>7. ASSUME failures = 0, {a, b} \subseteq {"complete"} \cup Void
      PROVE  failures' = 0
    <2>1. noted = {}
        BY <1>3, <1>7
    <2> QED
        BY <1>1, <1>4, <1>7, <2>1
<1>8. voids' \in Nat
    BY <1>1, <1>4
<1>9. ASSUME voids' = 0
      PROVE  voids = 0 /\ a \notin Void /\ b \notin Void
    <2>1. voids = 0 /\ Cardinality(void) = 0
        BY <1>1, <1>4, <1>9
    <2> QED
        BY <1>3, <1>4, <2>1
<1> QED
    BY <1>5, <1>6, <1>7, <1>8, <1>9 DEF Fails

\* The history of a wallet tells no more when more is known of others.
Steady == \A w : Settled(w) => Settled(w)' /\ Told(classes, w)' \subseteq Told(classes, w)

\* What was found is kept.
Kept ==
    /\ Range(graph.facts) \subseteq Range(graph'.facts)
    /\ lineage \subseteq lineage'
    /\ DOMAIN classes \subseteq DOMAIN classes' /\ \A w \in DOMAIN classes : classes'[w] = classes[w]
    /\ FoundEdges \subseteq FoundEdges'
    /\ Steady

\* The classes with those of more addresses.
Classifies(known, addresses, outcome) ==
    /\ DOMAIN known = addresses \cup DOMAIN classes
    /\ \A w \in DOMAIN classes : known[w] = classes[w]
    /\ outcome = "complete" => \A w \in addresses \ DOMAIN classes : known[w] = Classify(record[w])

LEMMA ClassifiedMore ==
    ASSUME NEW addresses, NEW outcome, NEW known \in Classified(addresses, outcome)
    PROVE  Classifies(known, addresses, outcome)
BY DEF Classified, Answered, Classifies

\* The history of w tells no less by the classes k than by others, all, that say more,
\* when k knows of every wallet in it what all knows.
LEMMA ToldLess ==
    ASSUME World, NEW all, NEW k, Weaker(k, all, Addresses), NEW w,
           \A v \in {w} \cup Contacts(w) : WalletLike(all, v) => WalletLike(k, v)
    PROVE  Told(all, w) \subseteq Told(k, w)
<1> SUFFICES ASSUME NEW v \in Told(all, w)
             PROVE  v \in Told(k, w)
    OBVIOUS
<1>1. CASE config.deep \/ w = Seed
    <2>1. PICK i \in Listed(w) :
              v \in CandidateAddresses(Autopsies[i], w) /\ Between(EdgesOf(Autopsies[i], all), v, w) # {}
        BY <1>1 DEF Told
    <2> DEFINE f == Autopsies[i]
    <2>2. v \in Contacts(w)
        BY <1>1, <2>1 DEF Contacts
    <2>3. i \in Sigs
        BY DEF World, Listed, ListedWithTokens, ListedByName
    <2>4. Within(f, Addresses)
        BY <2>3, FactOf
    <2> HIDE DEF f
    <2>5. PICK e \in EdgesOf(f, all) : {e.from, e.to} = {v, w}
        BY <2>1 DEF Between, f
    <2>6. WalletLike(all, e.from) /\ WalletLike(all, e.to)
        BY <2>4, EdgeEnds
    <2>7. WalletLike(k, e.from) /\ WalletLike(k, e.to)
        <3>1. e.from \in {w} \cup Contacts(w) /\ e.to \in {w} \cup Contacts(w)
            BY <2>2, <2>5
        <3> QED
            BY <2>6, <3>1
    <2>8. e \in EdgesOf(f, k)
        BY <2>4, <2>7, EdgeOfPair
    <2>9. Between(EdgesOf(f, k), v, w) # {}
        BY <2>5, <2>8 DEF Between
    <2> QED
        BY <1>1, <2>1, <2>9 DEF Told, f
<1>2. CASE ~(config.deep \/ w = Seed)
    <2> DEFINE rows == TransfersOf(ListedTransfers(w), w)
               Shown(r) == [sig |-> r.sig, type |-> "TARGET_TOKEN_TRANSFER", from |-> r.from,
                            to |-> r.to, asset |-> Target, amount |-> r.amount, high |-> TRUE]
    <2>1. PICK e \in LineageEdges(rows, all) : v = Other(e, w)
        BY <1>2 DEF Told
    <2>2. PICK r \in rows : WalletLike(all, r.from) /\ WalletLike(all, r.to) /\ e = Shown(r)
        BY <2>1 DEF LineageEdges
    <2>3. r.from \in Contacts(w) /\ r.to \in Contacts(w)
        BY <1>2 DEF Contacts
    <2>4. WalletLike(k, r.from) /\ WalletLike(k, r.to)
        BY <2>2, <2>3
    <2>5. e \in LineageEdges(rows, k)
        BY <2>2, <2>4 DEF LineageEdges
    <2> QED
        BY <1>2, <2>1, <2>5 DEF Told
<1> QED
    BY <1>1, <1>2

LEMMA NextKeeps ==
    ASSUME Inv, Inv', Next
    PROVE  Kept
<1>1. UNCHANGED world /\ Reading /\ Streaming /\ Classifying
    BY StepsDo
<1>2. config' = config /\ chain' = chain
    BY <1>1 DEF world
<1>3. Range(graph.facts) \subseteq Range(graph'.facts)
    <2>1. chain \in SUBSET Sigs /\ graph \in Sound(chain)
        BY DEF Inv, World, Indexed
    <2>2. \A rows \in SUBSET chain : Spooled(IngestAll(graph, rows), Range(graph.facts) \cup FactsOf(rows))
        BY <2>1, ReadingStores
    <2> QED
        BY <1>1, <2>2 DEF Reading, Spooled
<1>4. lineage \subseteq lineage'
    BY <1>1 DEF Streaming
<1>5. DOMAIN classes \subseteq DOMAIN classes' /\ \A w \in DOMAIN classes : classes'[w] = classes[w]
    <2>1. CASE classes' = classes
        BY <2>1
    <2>2. ASSUME NEW addresses, NEW outcome, classes' \in Classified(addresses, outcome)
          PROVE  DOMAIN classes \subseteq DOMAIN classes' /\ \A w \in DOMAIN classes : classes'[w] = classes[w]
        BY <2>2, ClassifiedMore DEF Classifies
    <2> QED
        BY <1>1, <2>1, <2>2 DEF Classifying
<1>6. Weaker(classes, classes', Addresses) /\ \A w : WalletLike(classes, w) => WalletLike(classes', w)
    BY <1>5 DEF Weaker, WalletLike
<1>7. ASSUME NEW f \in Range(graph.facts), NEW e \in EdgesOf(f, classes)
      PROVE  e \in FoundEdges'
    <2>1. PICK i \in chain : f = Autopsies[i]
        BY DEF Inv, Indexed, Sound, FactsOf
    <2>2. i \in Sigs
        BY DEF Inv, World
    <2>3. Within(f, Addresses)
        BY <2>1, <2>2, FactOf
    <2>4. e \in EdgesOf(f, classes')
        BY <1>6, <2>3, EdgesGrow
    <2>5. f \in Range(graph'.facts)
        BY <1>3
    <2>6. e \in Edges(Range(graph'.facts), classes')
        BY <2>4, <2>5 DEF Edges
    <2> QED
        BY <2>6 DEF FoundEdges
<1>8. LineageEdges(lineage, classes) \subseteq LineageEdges(lineage', classes')
    <2> DEFINE Shown(r) == [sig |-> r.sig, type |-> "TARGET_TOKEN_TRANSFER", from |-> r.from, to |-> r.to,
                            asset |-> Target, amount |-> r.amount, high |-> TRUE]
               Seen(rows, k) == {l \in rows : WalletLike(k, l.from) /\ WalletLike(k, l.to)}
    <2>1. \A rows, k : LineageEdges(rows, k) = {Shown(r) : r \in Seen(rows, k)}
        BY DEF LineageEdges
    <2>2. Seen(lineage, classes) \subseteq Seen(lineage', classes')
        BY <1>4, <1>6
    <2> HIDE DEF Shown, Seen
    <2> QED
        BY <2>1, <2>2
<1>9. FoundEdges \subseteq FoundEdges'
    BY <1>2, <1>7, <1>8 DEF FoundEdges, Edges
<1>10. Steady
    <2> SUFFICES ASSUME NEW w, Settled(w)
                 PROVE  Settled(w)' /\ Told(classes, w)' \subseteq Told(classes, w)
        BY DEF Steady
    <2>1. Static
        BY <1>1, WorldStatic
    <2>2. Settled(w)'
        BY <1>5, <2>1 DEF Settled, Static
    <2>3. \A v \in {w} \cup Contacts(w) : WalletLike(classes', v) => WalletLike(classes, v)
        BY <1>5 DEF Settled, WalletLike
    <2>4. Told(classes', w) \subseteq Told(classes, w)
        BY <1>6, <2>3, ToldLess DEF Inv
    <2> QED
        BY <2>1, <2>2, <2>4 DEF Static
<1> QED
    BY <1>3, <1>4, <1>5, <1>9, <1>10 DEF Kept
-----------------------------------------------------------------------------
(***************************************************************************)
(* What a visit learns                                                     *)
(***************************************************************************)
\* The spooled history of a wallet shows edges to every wallet it tells of.
LEMMA ActivityTells ==
    ASSUME NEW w, config.deep \/ w = Seed, NEW spool, FactsOf(Listed(w)) \subseteq Range(spool.facts),
           NEW known
    PROVE  Told(known, w) \subseteq Related(Edges(Range(spool.facts), known), w)
<1> SUFFICES ASSUME NEW v \in Told(known, w)
             PROVE  v \in Related(Edges(Range(spool.facts), known), w)
    OBVIOUS
<1>1. PICK i \in Listed(w) :
          v \in CandidateAddresses(Autopsies[i], w) /\ Between(EdgesOf(Autopsies[i], known), v, w) # {}
    BY DEF Told
<1>2. PICK e \in EdgesOf(Autopsies[i], known) : {e.from, e.to} = {v, w}
    BY <1>1 DEF Between
<1>3. v # w
    BY <1>1 DEF CandidateAddresses
<1>4. e \in Edges(Range(spool.facts), known)
    BY <1>2 DEF Edges, FactsOf
<1>5. Other(e, w) = v /\ w \in {e.from, e.to}
    BY <1>2, <1>3 DEF Other
<1> QED
    BY <1>3, <1>4, <1>5 DEF Related

\* So do the target transfers of a wallet.
LEMMA TransfersTell ==
    ASSUME NEW w, ~config.deep, w # Seed, NEW known
    PROVE  Told(known, w) \subseteq Related(LineageEdges(TransfersOf(ListedTransfers(w), w), known), w)
<1> SUFFICES ASSUME NEW v \in Told(known, w)
             PROVE  v \in Related(LineageEdges(TransfersOf(ListedTransfers(w), w), known), w)
    OBVIOUS
<1> DEFINE rows == TransfersOf(ListedTransfers(w), w)
<1>1. PICK e \in LineageEdges(rows, known) : v = Other(e, w)
    BY DEF Told
<1>2. PICK r \in rows : e.from = r.from /\ e.to = r.to
    BY <1>1 DEF LineageEdges
<1>3. r.from # r.to /\ w \in {r.from, r.to}
    BY DEF TransfersOf
<1> HIDE DEF rows
<1>4. w \in {e.from, e.to} /\ Other(e, w) # w
    BY <1>2, <1>3 DEF Other
<1> QED
    BY <1>1, <1>4 DEF Related, rows
-----------------------------------------------------------------------------
(***************************************************************************)
(* The steps before the traversal                                          *)
(***************************************************************************)
LEMMA ClosedLess ==
    ASSUME NEW D, NEW E \in SUBSET D, NEW Y, Closed(D, Y)
    PROVE  Closed(E, Y)
BY DEF Closed, Neighbours

\* A step that leaves the traversal alone keeps what is said of it alone.
LEMMA TraversalKept ==
    ASSUME Covering, Static, Kept, UNCHANGED crawl, Clear' => Clear
    PROVE  Learned' /\ Rooted'
<1>1. Learned'
    BY DEF Covering, Learned, Kept, Steady
<1>2. Rooted'
    <2>1. \A Y : Closed(FoundEdges', Y) => Closed(FoundEdges, Y)
        BY ClosedLess DEF Kept
    <2> QED
        BY <2>1 DEF Covering, Rooted
<1> QED
    BY <1>1, <1>2

LEMMA ScopedKept ==
    ASSUME Scoped, Steady, UNCHANGED <<crawl, evidence>>
    PROVE  Scoped'
BY DEF Scoped, Steady

LEMMA SeedBalanceCovers ==
    ASSUME Covering, Static, Kept, ReadSeedBalance
    PROVE  Covering'
<1>1. PICK outcome \in Answers :
          Fail(<<outcome>>) /\ holds' = [w \in {Seed} |-> Balance(w, outcome)]
    BY DEF ReadSeedBalance
<1>2. /\ phase = "balance" /\ phase' = "history"
      /\ UNCHANGED <<world, seen, seedRows, lineage, graph, classes, crawl, evidence, complete, report>>
    BY DEF ReadSeedBalance
<1>3. Fails({outcome})
    BY <1>1, OneFails DEF Covering, Shaped
<1>4. Clear' => Clear
    BY <1>2, <1>3 DEF Clear, Fails
<1> USE DEF Covering
<1>5. Shaped'
    BY <1>2, <1>3 DEF Shaped, Fails, world
<1>6. Counted'
    BY <1>1, <1>2, <1>3 DEF Counted, Fails, Answers, Void
<1>7. Stored'
    BY <1>2 DEF Stored
<1>8. Honest'
    BY <1>2, <1>3 DEF Honest, Fails, world
<1>9. Classed' /\ Queued'
    BY <1>2 DEF Classed, Queued
<1>10. Learned' /\ Rooted'
    BY <1>2, <1>4, TraversalKept
<1>11. Explored' /\ Concluded'
    BY <1>2 DEF Explored, Concluded
<1>12. Weighed'
    BY <1>1, <1>2 DEF Weighed, Balance, Static
<1> QED
    BY <1>5, <1>6, <1>7, <1>8, <1>9, <1>10, <1>11, <1>12

LEMMA SeedHistoryCovers ==
    ASSUME Inv, Covering, Static, Kept, ReadSeedHistory
    PROVE  Covering'
<1>1. PICK outcome \in {"complete", "capped", "budget"} :
          /\ Fail(<<outcome>>)
          /\ complete' = [complete EXCEPT !.seed = outcome = "complete"]
          /\ \E rows \in Reads(ListedWithTokens(Seed), outcome) :
                seen' = rows /\ graph' = IngestAll(graph, rows)
    BY DEF ReadSeedHistory
<1>2. PICK rows \in Reads(ListedWithTokens(Seed), outcome) :
          seen' = rows /\ graph' = IngestAll(graph, rows)
    BY <1>1
<1>3. /\ phase = "history" /\ phase' = "seed"
      /\ UNCHANGED <<world, lineage, classes, crawl, evidence, holds, report>>
    BY DEF ReadSeedHistory
<1>4. Fails({outcome})
    BY <1>1, OneFails DEF Covering, Shaped
<1> USE DEF Covering
<1>5. /\ complete \in [seed : BOOLEAN, graph : BOOLEAN, mint : BOOLEAN]
      /\ complete' \in [seed : BOOLEAN, graph : BOOLEAN, mint : BOOLEAN]
      /\ complete'.seed <=> outcome = "complete"
      /\ complete'.graph = complete.graph /\ complete'.mint = complete.mint
    <2>1. complete \in [seed : BOOLEAN, graph : BOOLEAN, mint : BOOLEAN]
        BY DEF Shaped
    <2> DEFINE b == outcome = "complete"
    <2>2. b \in BOOLEAN /\ complete' = [complete EXCEPT !.seed = b]
        BY <1>1
    <2>3. b <=> outcome = "complete"
        OBVIOUS
    <2> HIDE DEF b
    <2>4. complete' \in [seed : BOOLEAN, graph : BOOLEAN, mint : BOOLEAN] /\ complete'.seed = b
          /\ complete'.graph = complete.graph /\ complete'.mint = complete.mint
        BY <2>1, <2>2
    <2> QED
        BY <2>1, <2>3, <2>4
<1>6. complete.seed /\ (Clear' => Clear)
    BY <1>3, <1>4, <1>5 DEF Clear, Fails, Counted
<1>7. rows \subseteq ListedWithTokens(Seed) /\ (outcome = "complete" => rows = ListedWithTokens(Seed))
    BY ReadsSubset DEF Reads
<1>8. rows \in SUBSET chain
    BY <1>7 DEF ListedWithTokens
<1>9. Shaped'
    BY <1>2, <1>3, <1>4, <1>5, <1>8 DEF Shaped, Fails, world
<1>10. Counted'
    BY <1>3, <1>4, <1>5, <1>6 DEF Counted, Fails
<1>11. Stored'
    <2>1. chain \in SUBSET Sigs /\ graph \in Sound(chain)
        BY DEF Inv, World, Indexed
    <2>2. Spooled(IngestAll(graph, rows), Range(graph.facts) \cup FactsOf(rows))
        BY <1>8, <2>1, ReadingStores
    <2>3. \A i \in rows : Autopsies[i] \in Range(graph'.facts)
        BY <1>2, <2>2 DEF Spooled, FactsOf
    <2> QED
        BY <1>2, <1>5, <1>7, <2>3 DEF Stored, Static
<1>12. Honest'
    BY <1>3, <1>4 DEF Honest, Fails, world
<1>13. Classed' /\ Queued'
    BY <1>3 DEF Classed, Queued
<1>14. Learned' /\ Rooted'
    BY <1>3, <1>6, TraversalKept
<1>15. Explored' /\ Concluded'
    BY <1>3 DEF Explored, Concluded
<1>16. Weighed'
    BY <1>3 DEF Weighed, Static
<1> QED
    BY <1>9, <1>10, <1>11, <1>12, <1>13, <1>14, <1>15, <1>16

LEMMA LostHistoryCovers ==
    ASSUME Covering, Static, Kept, LoseSeedHistory
    PROVE  Covering'
<1>1. /\ phase = "history" /\ phase' = "done" /\ Fail(<<"error">>)
      /\ report' = [s \in DOMAIN report |-> "INSUFFICIENT_DATA"]
      /\ UNCHANGED <<world, seen, seedRows, lineage, graph, classes, crawl, evidence, holds, complete>>
    BY DEF LoseSeedHistory
<1>2. Fails({"error"})
    BY <1>1, OneFails DEF Covering, Shaped
<1>3. Clear' => Clear
    BY <1>1, <1>2 DEF Clear, Fails
<1> USE DEF Covering
<1>4. Shaped'
    BY <1>1, <1>2 DEF Shaped, Fails, world
<1>5. Counted' /\ Stored'
    BY <1>1 DEF Counted, Stored
<1>6. Honest'
    BY <1>1, <1>2 DEF Honest, Fails, world
<1>7. Classed' /\ Queued' /\ Explored'
    BY <1>1 DEF Classed, Queued, Explored
<1>8. Learned' /\ Rooted'
    BY <1>1, <1>3, TraversalKept
<1>9. Weighed'
    BY <1>1 DEF Weighed, Static
<1>10. Concluded'
    <2>1. report'.relationship = "INSUFFICIENT_DATA" /\ report'.target = "INSUFFICIENT_DATA"
        BY <1>1 DEF Shaped
    <2> QED
        BY <2>1 DEF Concluded
<1> QED
    BY <1>4, <1>5, <1>6, <1>7, <1>8, <1>9, <1>10

\* Classes of the chain stay so when a request fails that is flagged.
LEMMA HonestStays ==
    ASSUME Honest, UNCHANGED world, NEW addresses, NEW outcome \in Classifications(addresses),
           classes' \in Classified(addresses, outcome),
           ~rpcFailed' /\ ~exhausted' =>
               ~rpcFailed /\ ~exhausted /\ outcome # "rpc" /\ outcome # "budget",
           voids' = 0 => voids = 0 /\ outcome # "void"
    PROVE  Honest'
<1> SUFFICES ASSUME ~rpcFailed', ~exhausted', voids' = 0
             PROVE  \A v \in DOMAIN classes' : classes'[v] = Classify(record'[v])
    BY DEF Honest
<1>1. ~rpcFailed /\ ~exhausted /\ voids = 0 /\ outcome = "complete"
    BY DEF Classifications
<1>2. \A v \in DOMAIN classes : classes[v] = Classify(record[v])
    BY <1>1 DEF Honest
<1>3. Classifies(classes', addresses, outcome)
    BY ClassifiedMore
<1> QED
    BY <1>1, <1>2, <1>3 DEF Classifies, world

LEMMA ClassifySeedCovers ==
    ASSUME Covering, Static, Kept, ClassifySeed
    PROVE  Covering'
<1>1. PICK outcome \in Classifications({Seed}) :
          Fail(<<outcome>>) /\ classes' \in Classified({Seed}, outcome)
    BY DEF ClassifySeed
<1>2. /\ phase = "seed" /\ phase' = "linked"
      /\ UNCHANGED <<world, seen, seedRows, lineage, graph, crawl, evidence, holds, complete, report>>
    BY DEF ClassifySeed
<1>3. Fails({outcome})
    BY <1>1, OneFails DEF Covering, Shaped
<1>4. Clear' => Clear
    BY <1>2, <1>3 DEF Clear, Fails
<1> USE DEF Covering
<1>5. Shaped'
    BY <1>2, <1>3 DEF Shaped, Fails, world
<1>6. Counted'
    BY <1>1, <1>2, <1>3 DEF Counted, Fails, Classifications, Void
<1>7. Stored' /\ Queued' /\ Explored' /\ Concluded'
    BY <1>2 DEF Stored, Queued, Explored, Concluded, Static
<1>8. Honest'
    BY <1>1, <1>2, <1>3, HonestStays DEF Fails, Void
<1>9. Classed'
    <2>1. Classifies(classes', {Seed}, outcome)
        BY <1>1, ClassifiedMore
    <2> QED
        BY <1>2, <2>1 DEF Classed, Classifies
<1>10. Learned' /\ Rooted'
    BY <1>2, <1>4, TraversalKept
<1>11. Weighed'
    BY <1>2 DEF Weighed, Static
<1> QED
    BY <1>5, <1>6, <1>7, <1>8, <1>9, <1>10, <1>11
-----------------------------------------------------------------------------
(***************************************************************************)
(* The steps of the traversal                                              *)
(***************************************************************************)
\* Both ends of the edges.
EndsWithin(edges, A) == \A e \in edges : e.from \in A /\ e.to \in A

LEMMA EdgesEnd ==
    ASSUME NEW facts \in SUBSET FactsOf(Sigs), NEW known
    PROVE  EndsWithin(Edges(facts, known), Addresses \cap DOMAIN known)
<1> SUFFICES ASSUME NEW f \in facts, NEW e \in EdgesOf(f, known)
             PROVE  e.from \in Addresses \cap DOMAIN known /\ e.to \in Addresses \cap DOMAIN known
    BY DEF EndsWithin, Edges
<1>1. Within(f, Addresses)
    BY FactOf DEF FactsOf
<1> QED
    BY <1>1, EdgeEnds DEF WalletLike

LEMMA LineageEnds ==
    ASSUME NEW rows, NEW known, \A r \in rows : r.from \in Addresses /\ r.to \in Addresses
    PROVE  EndsWithin(LineageEdges(rows, known), Addresses \cap DOMAIN known)
<1> SUFFICES ASSUME NEW r \in rows, WalletLike(known, r.from), WalletLike(known, r.to)
             PROVE  r.from \in Addresses \cap DOMAIN known /\ r.to \in Addresses \cap DOMAIN known
    BY DEF EndsWithin, LineageEdges
<1> QED
    BY DEF WalletLike

\* The traversal c in which the visit of w begins has the wallets of the last one.
Resumes(c, w) ==
    IsCrawl(c) /\ w \in DOMAIN c.depth
    /\ DOMAIN c.depth = DOMAIN crawl.depth /\ Remembered(c) = Remembered(crawl)

\* After the edges of a wallet are remembered the traversal is still well formed, its
\* wallets are classified, and it follows the edges found.
LEMMA StepFollows ==
    ASSUME Covering, Kept, NEW c, NEW w, Resumes(c, w), NEW edges,
           edges \subseteq FoundEdges', EndsWithin(edges, Addresses \cap DOMAIN classes'),
           Remembers(c, crawl', edges, w), DOMAIN crawl.depth \subseteq DOMAIN classes'
    PROVE  /\ IsCrawl(crawl')
           /\ Seed \in DOMAIN crawl'.depth /\ DOMAIN crawl'.depth \subseteq Addresses
           /\ Remembered(crawl') \subseteq DOMAIN crawl'.depth
           /\ DOMAIN crawl'.depth \subseteq DOMAIN classes'
           /\ Rooted'
<1>1. /\ Seed \in DOMAIN crawl.depth /\ DOMAIN crawl.depth \subseteq Addresses
      /\ Remembered(crawl) \subseteq DOMAIN crawl.depth
    BY DEF Covering, Shaped
<1>2. Related(edges, w) \subseteq Addresses \cap DOMAIN classes' /\ Related(edges, w) \subseteq Neighbours(edges, w)
    BY DEF Related, Other, EndsWithin, Neighbours
<1>3. /\ IsCrawl(crawl')
      /\ DOMAIN crawl.depth \subseteq DOMAIN crawl'.depth
      /\ DOMAIN crawl'.depth \subseteq DOMAIN crawl.depth \cup Related(edges, w)
      /\ Remembered(crawl') \subseteq Remembered(crawl) \cup DOMAIN crawl'.depth
    BY DEF Remembers, Resumes
<1>4. Rooted'
    <2> SUFFICES ASSUME NEW Y \in SUBSET Addresses, Closed(FoundEdges', Y)
                 PROVE  DOMAIN crawl'.depth \subseteq Y
        BY DEF Rooted
    <2>1. Closed(FoundEdges, Y)
        BY ClosedLess DEF Kept
    <2>2. DOMAIN crawl.depth \subseteq Y
        BY <2>1 DEF Covering, Rooted
    <2>3. w \in Y
        BY <2>2 DEF Resumes
    <2>4. Neighbours(edges, w) \subseteq Y
        BY <2>3 DEF Closed, Neighbours
    <2> QED
        BY <1>2, <1>3, <2>2, <2>4
<1> QED
    BY <1>1, <1>2, <1>3, <1>4

\* What a visit to the end of a history tells is remembered.
LEMMA StepLearns ==
    ASSUME Covering, Static, Kept, NEW c, NEW w, Resumes(c, w), c.fetched \subseteq crawl.fetched \cup {w},
           NEW edges, Remembers(c, crawl', edges, w),
           Clear' => Clear /\ (w \in c.fetched => Settled(w)' /\ Told(classes', w) \subseteq Related(edges, w))
    PROVE  Learned'
<1> SUFFICES ASSUME Clear', NEW v \in crawl'.fetched
             PROVE  Settled(v)' /\ Told(classes, v)' \subseteq Remembered(crawl')
    BY DEF Learned
<1>1. Clear /\ crawl'.warned = {} /\ v \in c.fetched
    BY DEF Clear, Remembers
<1>2. Remembered(crawl) \subseteq Remembered(crawl') /\ Related(edges, w) \subseteq Remembered(crawl')
    BY <1>1 DEF Remembers, Resumes
<1>3. CASE v \in crawl.fetched
    <2>1. Settled(v) /\ Told(classes, v) \subseteq Remembered(crawl)
        BY <1>1, <1>3 DEF Covering, Learned
    <2> QED
        BY <1>2, <2>1 DEF Kept, Steady
<1>4. CASE v = w
    BY <1>1, <1>2, <1>4 DEF Static
<1> QED
    BY <1>1, <1>3, <1>4

LEMMA SeedGraphCovers ==
    ASSUME Inv, Inv', Covering, Static, Kept, SeedGraph
    PROVE  Covering'
<1>1. PICK linked \in {CandidatesFor(graph, Seed)} : \E outcome \in Classifications(linked) :
      \E known \in Classified(linked, outcome) :
          /\ Fail(<<outcome>>) /\ classes' = known
          /\ \E edges \in {Edges(Range(graph.facts), known)} : RememberAll(crawl, edges, Seed, TRUE)
    BY DEF SeedGraph
<1>2. PICK outcome \in Classifications(linked) :
      \E known \in Classified(linked, outcome) :
          /\ Fail(<<outcome>>) /\ classes' = known
          /\ \E edges \in {Edges(Range(graph.facts), known)} : RememberAll(crawl, edges, Seed, TRUE)
    BY <1>1
<1>3. /\ Fail(<<outcome>>) /\ classes' \in Classified(linked, outcome)
      /\ \E edges \in {Edges(Range(graph.facts), classes')} : RememberAll(crawl, edges, Seed, TRUE)
    BY <1>2
<1>4. PICK edges : edges = Edges(Range(graph.facts), classes') /\ RememberAll(crawl, edges, Seed, TRUE)
    BY <1>3
<1>5. PICK c : c = crawl
    OBVIOUS
<1>6. /\ phase = "linked" /\ phase' = "crawl"
      /\ UNCHANGED <<world, seen, seedRows, lineage, graph, evidence, holds, complete, report>>
    BY DEF SeedGraph
<1>7. Fails({outcome})
    BY <1>3, OneFails DEF Covering, Shaped
<1> USE DEF Covering
<1>8. Remembers(c, crawl', edges, Seed) /\ Resumes(c, Seed)
    <2>1. IsCrawl(c) /\ Seed \in DOMAIN c.depth
        BY <1>5 DEF Shaped
    <2>2. RememberAll(c, edges, Seed, TRUE)
        BY <1>4, <1>5
    <2> QED
        BY <1>5, <2>1, <2>2, RememberAllDoes DEF Resumes
<1>9. edges \subseteq FoundEdges' /\ EndsWithin(edges, Addresses \cap DOMAIN classes')
    <2>1. Range(graph.facts) \in SUBSET FactsOf(Sigs)
        BY DEF Inv, World, Indexed, Sound, FactsOf
    <2> QED
        BY <1>4, <1>6, <2>1, EdgesEnd DEF FoundEdges
<1>10. DOMAIN crawl.depth \subseteq DOMAIN classes'
    BY <1>6 DEF Classed, Kept
<1>11. /\ IsCrawl(crawl')
       /\ Seed \in DOMAIN crawl'.depth /\ DOMAIN crawl'.depth \subseteq Addresses
       /\ Remembered(crawl') \subseteq DOMAIN crawl'.depth
       /\ DOMAIN crawl'.depth \subseteq DOMAIN classes'
       /\ Rooted'
    BY <1>8, <1>9, <1>10, StepFollows
<1>12. Clear' => Clear
    BY <1>5, <1>6, <1>7, <1>8 DEF Clear, Fails, Remembers
<1>13. Shaped'
    BY <1>6, <1>7, <1>11 DEF Shaped, Fails, world
<1>14. Counted'
    BY <1>2, <1>6, <1>7 DEF Counted, Fails, Classifications, Void
<1>15. Stored' /\ Explored' /\ Concluded'
    BY <1>6 DEF Stored, Explored, Concluded, Static
<1>16. Honest'
    BY <1>2, <1>3, <1>6, <1>7, HonestStays DEF Fails, Void
<1>17. Classed'
    BY <1>6, <1>11 DEF Classed
<1>18. Learned'
    <2> SUFFICES ASSUME Clear', NEW v \in crawl'.fetched
                 PROVE  Settled(v)' /\ Told(classes, v)' \subseteq Remembered(crawl')
        BY DEF Learned
    <2>1. v \in crawl.fetched /\ Clear
        BY <1>5, <1>8, <1>12 DEF Remembers
    <2> QED
        BY <1>5, <1>8, <2>1 DEF Learned, Remembers, Kept, Steady
<1>19. Queued'
    BY <1>5, <1>6, <1>8 DEF Queued, Remembers
<1>20. Weighed'
    BY <1>6 DEF Weighed, Static
<1> QED
    BY <1>11, <1>13, <1>14, <1>15, <1>16, <1>17, <1>18, <1>19, <1>20

\* The traversal in which the visit of w begins.
Begins(c, w, outcome) ==
    /\ Resumes(c, w)
    /\ c.fetched = crawl.fetched \cup {w} /\ c.queue = crawl.queue \ {w}
    /\ c.warned = IF outcome \in {"capped", "budget"} THEN crawl.warned \cup {outcome} ELSE crawl.warned

LEMMA VisitedBegins ==
    ASSUME Covering, NEW w \in crawl.queue, NEW outcome
    PROVE  Begins(Visited(w, outcome), w, outcome)
<1> DEFINE c == Visited(w, outcome)
           warned == IF outcome \in {"capped", "budget"} THEN crawl.warned \cup {outcome} ELSE crawl.warned
<1>1. /\ IsCrawl(crawl) /\ Remembered(crawl) \subseteq DOMAIN crawl.depth
    BY DEF Covering, Shaped
<1>2. c = [crawl EXCEPT !.queue = crawl.queue \ {w}, !.fetched = crawl.fetched \cup {w},
                        !.skipped = crawl.skipped \ {w}, !.warned = warned]
    BY DEF Visited
<1> HIDE DEF c, warned
<1>3. /\ IsCrawl(c) /\ c.depth = crawl.depth /\ c.queue = crawl.queue \ {w}
      /\ c.fetched = crawl.fetched \cup {w} /\ c.skipped = crawl.skipped \ {w} /\ c.warned = warned
    BY <1>1, <1>2 DEF IsCrawl
<1>4. Remembered(c) = Remembered(crawl) /\ w \in DOMAIN c.depth
    BY <1>1, <1>3 DEF Remembered
<1>5. Begins(c, w, outcome)
    BY <1>3, <1>4 DEF Begins, Resumes, warned
<1> QED
    BY <1>5 DEF c

\* What the requests of a visit leave behind.
Requested(outcome, classified) ==
    /\ Fails({outcome, classified})
    /\ phase' = IF outcome = "budget" THEN "end" ELSE "crawl"
    /\ complete' \in [seed : BOOLEAN, graph : BOOLEAN, mint : BOOLEAN]
    /\ complete'.seed = complete.seed /\ complete'.mint = complete.mint
    /\ complete'.graph <=> complete.graph /\ outcome = "complete"
    /\ UNCHANGED <<world, seedRows, evidence, holds, report>>

LEMMA VisitRequests ==
    ASSUME Covering, NEW outcome, NEW classified, Visit(outcome, classified)
    PROVE  Requested(outcome, classified)
<1>1. /\ Fail(<<outcome, classified>>)
      /\ phase' = IF outcome = "budget" THEN "end" ELSE "crawl"
      /\ complete' = [complete EXCEPT !.graph = complete.graph /\ outcome = "complete"]
      /\ UNCHANGED <<world, seedRows, evidence, holds, report>>
    BY DEF Visit
<1>2. complete \in [seed : BOOLEAN, graph : BOOLEAN, mint : BOOLEAN]
    BY DEF Covering, Shaped
<1> DEFINE b == complete.graph /\ outcome = "complete"
<1>3. b \in BOOLEAN /\ complete' = [complete EXCEPT !.graph = b] /\ (b <=> complete.graph /\ outcome = "complete")
    BY <1>1
<1> HIDE DEF b
<1>4. /\ complete' \in [seed : BOOLEAN, graph : BOOLEAN, mint : BOOLEAN]
      /\ complete'.seed = complete.seed /\ complete'.mint = complete.mint /\ complete'.graph = b
    BY <1>2, <1>3
<1> QED
    BY <1>1, <1>3, <1>4, TwoFail DEF Requested, Covering, Shaped

\* A visit that remembers the edges it found, and all its history tells unless it is
\* flagged.
LEMMA VisitCovers ==
    ASSUME Covering, Static, Kept, phase = "crawl",
           NEW w \in crawl.queue, NEW outcome \in Outcomes, NEW linked,
           NEW classified \in Classifications(linked), classes' \in Classified(linked, classified),
           Requested(outcome, classified),
           NEW c, Begins(c, w, outcome), NEW edges, Remembers(c, crawl', edges, w),
           edges \subseteq FoundEdges', EndsWithin(edges, Addresses \cap DOMAIN classes'),
           seen \subseteq seen', seen' \subseteq chain, \A i \in seen' : Autopsies[i] \in Range(graph'.facts),
           outcome = "complete" /\ complete.seed =>
               Settled(w)' /\ Told(classes', w) \subseteq Related(edges, w)
    PROVE  Covering'
<1> USE DEF Covering
<1>1. Resumes(c, w)
    BY DEF Begins
<1>2. DOMAIN crawl.depth \subseteq DOMAIN classes'
    BY DEF Classed, Kept
<1>3. /\ IsCrawl(crawl')
      /\ Seed \in DOMAIN crawl'.depth /\ DOMAIN crawl'.depth \subseteq Addresses
      /\ Remembered(crawl') \subseteq DOMAIN crawl'.depth
      /\ DOMAIN crawl'.depth \subseteq DOMAIN classes'
      /\ Rooted'
    BY <1>1, <1>2, StepFollows
<1>4. /\ phase' \in {"crawl", "end"} /\ (phase' = "end" <=> outcome = "budget")
      /\ complete' \in [seed : BOOLEAN, graph : BOOLEAN, mint : BOOLEAN]
      /\ complete'.seed = complete.seed /\ complete'.mint = complete.mint
      /\ complete'.graph <=> complete.graph /\ outcome = "complete"
      /\ UNCHANGED <<world, seedRows, evidence, holds, report>>
      /\ Fails({outcome, classified})
    BY DEF Requested
<1>5. /\ crawl.warned \subseteq crawl'.warned /\ (outcome = "budget" => crawl'.warned # {})
      /\ c.fetched = crawl'.fetched /\ c.queue \subseteq crawl'.queue
    BY DEF Begins, Remembers
<1>6. Clear' => Clear /\ outcome = "complete"
    BY <1>4, <1>5 DEF Clear, Fails
<1>7. Shaped'
    BY <1>3, <1>4 DEF Shaped, Fails, world
<1>8. Counted'
    BY <1>4 DEF Counted, Fails, Classifications, Void
<1>9. Stored'
    BY <1>4 DEF Stored, Static
<1>10. Honest'
    BY <1>4, HonestStays DEF Fails, Void
<1>11. Classed'
    BY <1>3, <1>4 DEF Classed
<1>12. Learned'
    <2>1. Clear' => Clear /\ (w \in c.fetched => Settled(w)' /\ Told(classes', w) \subseteq Related(edges, w))
        BY <1>6 DEF Clear
    <2>2. c.fetched \subseteq crawl.fetched \cup {w}
        BY DEF Begins
    <2> QED
        BY <1>1, <2>1, <2>2, StepLearns
<1>13. Queued'
    BY <1>4, <1>5 DEF Queued, Begins
<1>14. Explored' /\ Concluded'
    BY <1>4 DEF Explored, Concluded
<1>15. Weighed'
    BY <1>4 DEF Weighed, Static
<1> QED
    BY <1>3, <1>7, <1>8, <1>9, <1>10, <1>11, <1>12, <1>13, <1>14, <1>15

LEMMA VisitActivityCovers ==
    ASSUME Inv, Inv', Covering, Static, Kept, VisitActivity
    PROVE  Covering'
<1> DEFINE Learns(w, outcome, rows, spool, classified, known) ==
               /\ Visit(outcome, classified)
               /\ seen' = seen \cup rows
               /\ graph' = spool
               /\ classes' = known
               /\ \E edges \in {Edges(Range(spool.facts), known)} :
                     RememberAll(Visited(w, outcome), edges, w, w = Seed)
<1>1. PICK w \in {v \in Chosen : config.deep \/ v = Seed}, outcome \in Outcomes :
      \E rows \in Reads(ListedByName(w), outcome) :
      \E spool \in {IngestAll(graph, rows \ seen)} : \E linked \in {CandidatesFor(spool, w)} :
      \E classified \in Classifications(linked) : \E known \in Classified(linked, classified) :
          Learns(w, outcome, rows, spool, classified, known)
    BY DEF VisitActivity
<1>2. PICK rows \in Reads(ListedByName(w), outcome) :
      \E spool \in {IngestAll(graph, rows \ seen)} : \E linked \in {CandidatesFor(spool, w)} :
      \E classified \in Classifications(linked) : \E known \in Classified(linked, classified) :
          Learns(w, outcome, rows, spool, classified, known)
    BY <1>1
<1>3. PICK spool \in {IngestAll(graph, rows \ seen)} :
      \E linked \in {CandidatesFor(spool, w)} :
      \E classified \in Classifications(linked) : \E known \in Classified(linked, classified) :
          Learns(w, outcome, rows, spool, classified, known)
    BY <1>2
<1>4. PICK linked \in {CandidatesFor(spool, w)} :
      \E classified \in Classifications(linked) : \E known \in Classified(linked, classified) :
          Learns(w, outcome, rows, spool, classified, known)
    BY <1>3
<1>5. PICK classified \in Classifications(linked) :
      \E known \in Classified(linked, classified) :
          Learns(w, outcome, rows, spool, classified, known)
    BY <1>4
<1>6. PICK known : known \in Classified(linked, classified) /\ classes' = known /\ Learns(w, outcome, rows, spool, classified, known)
    BY <1>5
<1>7. /\ Visit(outcome, classified)
      /\ seen' = seen \cup rows /\ graph' = spool
      /\ RememberAll(Visited(w, outcome), Edges(Range(spool.facts), known), w, w = Seed)
    BY <1>5, <1>6
<1>8. PICK c : c = Visited(w, outcome)
    OBVIOUS
<1>9. PICK edges : edges = Edges(Range(spool.facts), known)
    OBVIOUS
<1>10. PICK forced : RememberAll(c, edges, w, forced)
    BY <1>7, <1>8, <1>9
<1>11. phase = "crawl" /\ UNCHANGED lineage /\ w \in crawl.queue /\ (config.deep \/ w = Seed)
    BY <1>1 DEF VisitActivity, Chosen
<1>12. Requested(outcome, classified)
    BY <1>7, VisitRequests
<1>13. Begins(c, w, outcome)
    BY <1>8, <1>11, VisitedBegins
<1>14. Remembers(c, crawl', edges, w)
    BY <1>10, <1>13, RememberAllDoes DEF Begins, Resumes
<1>15. rows \subseteq ListedByName(w) /\ (outcome = "complete" => rows = ListedByName(w)) /\ rows \subseteq chain
    BY ReadsSubset DEF Reads, ListedByName
<1>16. seen' \subseteq chain /\ spool \in Sound(chain) /\ chain \in SUBSET Sigs
    BY <1>7, <1>12, <1>15 DEF Covering, Shaped, Inv, World, Indexed, Static
<1>17. \A i \in seen' : Autopsies[i] \in Range(spool.facts)
    <2>1. graph \in Sound(chain) /\ rows \ seen \in SUBSET chain
        BY <1>15 DEF Inv, Indexed
    <2>2. Spooled(spool, Range(graph.facts) \cup FactsOf(rows \ seen))
        BY <1>3, <1>16, <2>1, ReadingStores
    <2> QED
        BY <1>7, <2>2 DEF Spooled, FactsOf, Covering, Stored
<1>18. edges \subseteq FoundEdges' /\ EndsWithin(edges, Addresses \cap DOMAIN classes')
    <2>1. Range(spool.facts) \in SUBSET FactsOf(Sigs)
        BY <1>16 DEF Sound, FactsOf
    <2> QED
        BY <1>6, <1>7, <1>9, <2>1, EdgesEnd DEF FoundEdges
<1>19. ASSUME outcome = "complete", complete.seed
       PROVE  Settled(w)' /\ Told(classes', w) \subseteq Related(edges, w)
    <2>1. FactsOf(Listed(w)) \subseteq Range(spool.facts)
        <3>1. Listed(w) \subseteq seen'
            BY <1>7, <1>11, <1>15, <1>19 DEF Listed, Covering, Stored
        <3> QED
            BY <1>17, <3>1 DEF FactsOf
    <2>2. CandidatesFor(spool, w) \subseteq DOMAIN known /\ w \in DOMAIN known
        <3>1. Classifies(known, linked, classified)
            BY <1>6, ClassifiedMore
        <3>2. w \in DOMAIN classes
            BY <1>11 DEF Covering, Shaped, Classed, Remembered
        <3> QED
            BY <1>4, <3>1, <3>2 DEF Classifies
    <2>3. Contacts(w) \subseteq CandidatesFor(spool, w)
        <3> SUFFICES ASSUME NEW i \in Listed(w), NEW v \in CandidateAddresses(Autopsies[i], w)
                     PROVE  v \in CandidatesFor(spool, w)
            BY <1>11 DEF Contacts
        <3>1. Candidates(Autopsies[i]) \subseteq spool.candidates
            BY <1>16, <2>1 DEF Sound, Mirrors, FactsOf
        <3>2. v \in {p[2] : p \in {q \in Candidates(Autopsies[i]) : q[1] = w}}
            BY CandidatesExact
        <3> QED
            BY <3>1, <3>2 DEF CandidatesFor
    <2>4. Settled(w)'
        BY <1>6, <2>2, <2>3 DEF Settled, Static
    <2> QED
        BY <1>6, <1>9, <1>11, <2>1, <2>4, ActivityTells
<1>20. seen \subseteq seen' /\ \A i \in seen' : Autopsies[i] \in Range(graph'.facts)
    BY <1>7, <1>17
<1> QED
    BY <1>6, <1>11, <1>12, <1>13, <1>14, <1>16, <1>18, <1>19, <1>20, VisitCovers

LEMMA LineageGrows ==
    ASSUME NEW more, NEW rows \in SUBSET more, NEW known
    PROVE  LineageEdges(rows, known) \subseteq LineageEdges(more, known)
BY DEF LineageEdges

LEMMA VisitTransfersCovers ==
    ASSUME Inv, Inv', Covering, Static, Kept, VisitTransfers
    PROVE  Covering'
<1> DEFINE Learns(w, outcome, transfers, classified, known) ==
               /\ Visit(outcome, classified)
               /\ lineage' = lineage \cup transfers
               /\ classes' = known
               /\ \E edges \in {LineageEdges(transfers, known)} :
                     RememberAll(Visited(w, outcome), edges, w, FALSE)
           Linked(transfers) == UNION {{t.from, t.to} : t \in transfers}
<1>1. PICK w \in {v \in Chosen : ~config.deep /\ v # Seed}, outcome \in Outcomes :
      \E rows \in Reads(ListedTransfers(w), outcome) :
      \E transfers \in {TransfersOf(rows, w)} :
      \E linked \in {Linked(transfers)} :
      \E classified \in Classifications(linked) : \E known \in Classified(linked, classified) :
          Learns(w, outcome, transfers, classified, known)
    BY DEF VisitTransfers
<1>2. PICK rows \in Reads(ListedTransfers(w), outcome) :
      \E transfers \in {TransfersOf(rows, w)} :
      \E linked \in {Linked(transfers)} :
      \E classified \in Classifications(linked) : \E known \in Classified(linked, classified) :
          Learns(w, outcome, transfers, classified, known)
    BY <1>1
<1>3. PICK transfers \in {TransfersOf(rows, w)} :
      \E linked \in {Linked(transfers)} :
      \E classified \in Classifications(linked) : \E known \in Classified(linked, classified) :
          Learns(w, outcome, transfers, classified, known)
    BY <1>2
<1>4. PICK linked \in {Linked(transfers)} :
      \E classified \in Classifications(linked) : \E known \in Classified(linked, classified) :
          Learns(w, outcome, transfers, classified, known)
    BY <1>3
<1>5. PICK classified \in Classifications(linked) :
      \E known \in Classified(linked, classified) :
          Learns(w, outcome, transfers, classified, known)
    BY <1>4
<1>6. PICK known : known \in Classified(linked, classified) /\ classes' = known /\ Learns(w, outcome, transfers, classified, known)
    BY <1>5
<1>7. /\ Visit(outcome, classified)
      /\ lineage' = lineage \cup transfers
      /\ RememberAll(Visited(w, outcome), LineageEdges(transfers, known), w, FALSE)
    BY <1>5, <1>6
<1>8. PICK c : c = Visited(w, outcome)
    OBVIOUS
<1>9. PICK edges : edges = LineageEdges(transfers, known)
    OBVIOUS
<1>10. RememberAll(c, edges, w, FALSE)
    BY <1>7, <1>8, <1>9
<1>11. phase = "crawl" /\ UNCHANGED <<seen, graph>> /\ w \in crawl.queue /\ ~config.deep /\ w # Seed
    BY <1>1 DEF VisitTransfers, Chosen
<1>12. Requested(outcome, classified)
    BY <1>7, VisitRequests
<1>13. Begins(c, w, outcome)
    BY <1>8, <1>11, VisitedBegins
<1>14. Remembers(c, crawl', edges, w)
    BY <1>10, <1>13, RememberAllDoes DEF Begins, Resumes
<1>15. rows \subseteq ListedTransfers(w) /\ (outcome = "complete" => rows = ListedTransfers(w)) /\ rows \in SUBSET chain
    BY ReadsSubset DEF Reads, ListedTransfers
<1>16. edges \subseteq FoundEdges' /\ EndsWithin(edges, Addresses \cap DOMAIN classes')
    <2>1. LineageEdges(transfers, known) \subseteq LineageEdges(lineage', known)
        BY <1>7, LineageGrows
    <2>2. \A t \in transfers : t.from \in Addresses /\ t.to \in Addresses
        BY <1>3, <1>15, TransferOfSender DEF Inv
    <2>3. ~config'.deep
        BY <1>11 DEF Static
    <2> QED
        BY <1>6, <1>9, <2>1, <2>2, <2>3, LineageEnds DEF FoundEdges
<1>17. ASSUME outcome = "complete", complete.seed
       PROVE  Settled(w)' /\ Told(classes', w) \subseteq Related(edges, w)
    <2>1. transfers = TransfersOf(ListedTransfers(w), w)
        BY <1>3, <1>15, <1>17
    <2>2. Contacts(w) \subseteq DOMAIN known /\ w \in DOMAIN known
        <3>1. Classifies(known, linked, classified)
            BY <1>6, ClassifiedMore
        <3>2. w \in DOMAIN classes
            BY <1>11 DEF Covering, Shaped, Classed, Remembered
        <3>3. Contacts(w) = Linked(transfers)
            BY <1>11, <2>1 DEF Contacts
        <3> QED
            BY <1>4, <3>1, <3>2, <3>3 DEF Classifies
    <2>3. Settled(w)'
        BY <1>6, <2>2 DEF Settled, Static
    <2> QED
        BY <1>6, <1>9, <1>11, <2>1, <2>3, TransfersTell
<1>18. seen \subseteq seen' /\ seen' \subseteq chain /\ \A i \in seen' : Autopsies[i] \in Range(graph'.facts)
    BY <1>11 DEF Covering, Shaped, Stored
<1> QED
    BY <1>6, <1>11, <1>12, <1>13, <1>14, <1>16, <1>17, <1>18, VisitCovers

LEMMA StopCovers ==
    ASSUME Covering, Static, Kept, StopVisiting
    PROVE  Covering'
<1>1. /\ phase = "crawl" /\ phase' = "end" /\ exhausted
      /\ crawl' = [crawl EXCEPT !.queue = crawl.queue \ Chosen, !.warned = crawl.warned \cup {"budget"}]
      /\ UNCHANGED <<world, seen, seedRows, lineage, graph, classes, evidence, holds, complete,
                     rpcFailed, exhausted, failures, voids, report>>
    BY DEF StopVisiting
<1> USE DEF Covering
<1>2. /\ IsCrawl(crawl') /\ crawl'.depth = crawl.depth
      /\ crawl'.queue \subseteq crawl.queue /\ crawl'.fetched = crawl.fetched
      /\ crawl'.skipped = crawl.skipped /\ crawl'.warned = crawl.warned \cup {"budget"}
    BY <1>1 DEF Shaped, IsCrawl
<1>3. Shaped'
    BY <1>1, <1>2 DEF Shaped, Remembered, world
<1>4. Counted' /\ Stored' /\ Honest'
    BY <1>1 DEF Counted, Stored, Honest, Static
<1>5. Classed'
    BY <1>1, <1>2 DEF Classed
<1>6. Learned' /\ Queued'
    BY <1>1, <1>2 DEF Learned, Queued, Clear
<1>7. Rooted'
    <2>1. \A Y : Closed(FoundEdges', Y) => Closed(FoundEdges, Y)
        BY ClosedLess DEF Kept
    <2> QED
        BY <1>2, <2>1 DEF Rooted
<1>8. Explored' /\ Concluded' /\ Weighed'
    BY <1>1 DEF Explored, Concluded, Weighed, Static
<1> QED
    BY <1>3, <1>4, <1>5, <1>6, <1>7, <1>8
-----------------------------------------------------------------------------
(***************************************************************************)
(* The steps after the traversal                                           *)
(***************************************************************************)
\* The graph the report has, of the edges found.
LEMMA GraphCloses ==
    ASSUME Inv, Covering, NEW edges, edges = FoundEdges
    PROVE  Closes(Depths(Seed, edges, config.graphDepth, config.maxWallets), edges, Seed, Addresses)
<1>1. config.maxWallets \in Nat /\ config.maxWallets # 0
    BY ClusterAuditAssumption DEF Covering, Shaped
<1>2. Seed \in Addresses /\ Addresses \subseteq Nat /\ IsFiniteSet(Addresses)
    BY ClusterAuditAssumption
<1>3. Range(graph.facts) \in SUBSET FactsOf(Sigs)
    BY DEF Inv, World, Indexed, Sound, FactsOf
<1>4. \A r \in lineage : r.from \in Addresses /\ r.to \in Addresses
    BY TransferOfSender DEF Inv, Streamed, AllTransfers
<1>5. \A e \in edges : e.from \in Addresses /\ e.to \in Addresses
    BY <1>3, <1>4, EdgesEnd, LineageEnds DEF FoundEdges, EndsWithin
<1>6. PICK d, m : d = config.graphDepth /\ m = config.maxWallets
    OBVIOUS
<1> QED
    BY <1>1, <1>2, <1>5, <1>6, DepthsClosed

LEMMA EndCovers ==
    ASSUME Inv, Inv', Covering, Static, Kept, EndCrawl
    PROVE  Covering'
<1> DEFINE Ends(edges, g, ev, reached, outcome) ==
               /\ evidence' = [edges |-> edges, rows |-> UnresolvedRows(graph.facts, classes),
                               nodes |-> DOMAIN g.depth, read |-> reached,
                               traced |-> Exit!Traced(Exit!Trace(ev))]
               /\ crawl' = [crawl EXCEPT !.warned = @ \cup g.warned \cup
                               (IF crawl.skipped \cap DOMAIN g.depth \subseteq crawl.fetched
                                THEN {} ELSE {"skipped"})]
               /\ Fail(<<outcome>>)
               /\ classes' \in Classified(reached, outcome)
<1>1. PICK edges \in {FoundEdges} :
      \E g \in {Depths(Seed, edges, config.graphDepth, config.maxWallets)} :
      \E ev \in {TargetEvents} : \E reached \in {Exit!Discovered(ev)} : \E outcome \in Classifications(reached) :
          Ends(edges, g, ev, reached, outcome)
    BY DEF EndCrawl, FoundEdges
<1>2. PICK g \in {Depths(Seed, edges, config.graphDepth, config.maxWallets)} :
      \E ev \in {TargetEvents} : \E reached \in {Exit!Discovered(ev)} : \E outcome \in Classifications(reached) :
          Ends(edges, g, ev, reached, outcome)
    BY <1>1
<1>3. PICK reached, outcome :
          /\ outcome \in Classifications(reached)
          /\ evidence'.nodes = DOMAIN g.depth
          /\ crawl' = [crawl EXCEPT !.warned = crawl.warned \cup g.warned \cup
                          (IF crawl.skipped \cap DOMAIN g.depth \subseteq crawl.fetched
                           THEN {} ELSE {"skipped"})]
          /\ Fail(<<outcome>>)
          /\ classes' \in Classified(reached, outcome)
    <2>1. PICK ev \in {TargetEvents} :
          \E reached \in {Exit!Discovered(ev)} : \E outcome \in Classifications(reached) :
              Ends(edges, g, ev, reached, outcome)
        BY <1>2
    <2>2. PICK reached \in {Exit!Discovered(ev)} :
          \E outcome \in Classifications(reached) : Ends(edges, g, ev, reached, outcome)
        BY <2>1
    <2>3. PICK outcome \in Classifications(reached) : Ends(edges, g, ev, reached, outcome)
        BY <2>2
    <2>4. evidence'.nodes = DOMAIN g.depth
        BY <2>3
    <2> QED
        BY <2>3, <2>4
<1>4. /\ phase = "end" \/ (phase = "crawl" /\ crawl.queue = {})
      /\ phase' = "inventory"
      /\ UNCHANGED <<world, seen, seedRows, lineage, graph, holds, complete, report>>
    BY DEF EndCrawl
<1>5. Fails({outcome})
    BY <1>3, OneFails DEF Covering, Shaped
<1> USE DEF Covering
<1>6. /\ IsCrawl(crawl') /\ crawl'.depth = crawl.depth /\ crawl'.queue = crawl.queue
      /\ crawl'.fetched = crawl.fetched /\ crawl'.skipped = crawl.skipped
      /\ crawl.warned \subseteq crawl'.warned /\ g.warned \subseteq crawl'.warned
      /\ crawl'.warned = {} => crawl.skipped \cap DOMAIN g.depth \subseteq crawl.fetched
    <2> DEFINE limits == crawl.warned \cup g.warned \cup
                             (IF crawl.skipped \cap DOMAIN g.depth \subseteq crawl.fetched
                              THEN {} ELSE {"skipped"})
    <2>1. crawl' = [crawl EXCEPT !.warned = limits]
        BY <1>3
    <2>2. /\ crawl.warned \subseteq limits /\ g.warned \subseteq limits
          /\ limits = {} => crawl.skipped \cap DOMAIN g.depth \subseteq crawl.fetched
        OBVIOUS
    <2> HIDE DEF limits
    <2>3. /\ IsCrawl(crawl') /\ crawl'.depth = crawl.depth /\ crawl'.queue = crawl.queue
          /\ crawl'.fetched = crawl.fetched /\ crawl'.skipped = crawl.skipped /\ crawl'.warned = limits
        BY <2>1 DEF Shaped, IsCrawl
    <2> QED
        BY <2>2, <2>3
<1>7. Clear' => Clear
    BY <1>4, <1>5, <1>6 DEF Clear, Fails
<1>8. Shaped'
    BY <1>4, <1>5, <1>6 DEF Shaped, Remembered, Fails, world
<1>9. Counted'
    BY <1>3, <1>4, <1>5 DEF Counted, Fails, Classifications, Void
<1>10. Stored'
    BY <1>4 DEF Stored, Static
<1>11. Honest'
    BY <1>3, <1>4, <1>5, HonestStays DEF Fails, Void
<1>12. Classed'
    BY <1>4 DEF Classed
<1>13. Learned'
    BY <1>6, <1>7 DEF Learned, Remembered, Kept, Steady
<1>14. Rooted'
    <2>1. \A Y : Closed(FoundEdges', Y) => Closed(FoundEdges, Y)
        BY ClosedLess DEF Kept
    <2> QED
        BY <1>6, <2>1 DEF Rooted
<1>15. Queued'
    BY <1>4, <1>6 DEF Queued
<1>16. Explored'
    <2> SUFFICES ASSUME Clear'
                 PROVE  Scoped'
        BY DEF Explored
    <2>1. Clear /\ crawl'.warned = {}
        BY <1>7 DEF Clear
    <2>2. crawl.queue = {}
        BY <1>4, <2>1 DEF Queued, Clear
    <2> DEFINE nodes == DOMAIN g.depth
    <2>3. Closes(g, edges, Seed, Addresses)
        BY <1>1, <1>2, GraphCloses
    <2>4. Closed(FoundEdges, nodes) /\ nodes \in SUBSET Addresses
        BY <1>1, <1>6, <2>1, <2>3 DEF Closes, Closed
    <2>5. DOMAIN crawl.depth \subseteq nodes
        BY <2>4 DEF Rooted
    <2>6. crawl.skipped \subseteq crawl.fetched
        BY <1>6, <2>1, <2>5 DEF Shaped, Remembered
    <2>7. Remembered(crawl) = crawl.fetched
        BY <2>2, <2>6 DEF Remembered
    <2>8. Seed \in crawl.fetched
        BY <2>1, <2>2 DEF Queued, Clear
    <2>9. crawl.fetched \subseteq nodes
        BY <2>5, <2>7 DEF Shaped
    <2>10. \A w \in crawl.fetched : Settled(w) /\ Told(classes, w) \subseteq crawl.fetched
        BY <2>1, <2>7 DEF Learned
    <2> QED
        BY <1>3, <1>6, <2>8, <2>9, <2>10 DEF Scoped, Kept, Steady
<1>17. Concluded'
    BY <1>4 DEF Concluded
<1>18. Weighed'
    BY <1>4 DEF Weighed, Static
<1> QED
    BY <1>8, <1>9, <1>10, <1>11, <1>12, <1>13, <1>14, <1>15, <1>16, <1>17, <1>18

LEMMA BalanceCovers ==
    ASSUME Covering, Static, Kept, ReadBalance
    PROVE  Covering'
<1> DEFINE wanted == (evidence.read \cup evidence.nodes) \ DOMAIN holds
           first == IF evidence.read \subseteq DOMAIN holds THEN wanted ELSE wanted \cap evidence.read
           Holds(outcome, next) == [w \in DOMAIN holds \cup {next} |->
                                       IF w = next THEN Balance(w, outcome) ELSE holds[w]]
<1>1. PICK outcome \in Answers, next \in {Min(first)} : Fail(<<outcome>>) /\ holds' = Holds(outcome, next)
    BY DEF ReadBalance
<1> HIDE DEF first
<1>2. /\ phase = "inventory" /\ phase' = "inventory"
      /\ UNCHANGED <<world, seen, seedRows, lineage, graph, classes, crawl, evidence, complete, report>>
    BY DEF ReadBalance
<1>3. Fails({outcome})
    BY <1>1, OneFails DEF Covering, Shaped
<1>4. Clear' => Clear
    BY <1>2, <1>3 DEF Clear, Fails
<1> USE DEF Covering
<1>5. Shaped'
    BY <1>2, <1>3 DEF Shaped, Fails, world
<1>6. Counted'
    BY <1>1, <1>2, <1>3 DEF Counted, Fails, Answers, Void
<1>7. Stored' /\ Classed' /\ Queued' /\ Concluded'
    BY <1>2 DEF Stored, Classed, Queued, Concluded, Static
<1>8. Honest'
    BY <1>2, <1>3 DEF Honest, Fails, world
<1>9. Learned' /\ Rooted'
    BY <1>2, <1>4, TraversalKept
<1>10. Explored'
    BY <1>2, <1>4, ScopedKept DEF Explored, Kept
<1>11. Weighed'
    <2> SUFFICES ASSUME NEW w \in DOMAIN holds'
                 PROVE  holds'[w] \in {Unread, Holding(w)}
        BY <1>2 DEF Weighed, Static
    <2>1. w \in DOMAIN holds \cup {next} /\ holds'[w] = IF w = next THEN Balance(w, outcome) ELSE holds[w]
        BY <1>1
    <2>2. Balance(w, outcome) \in {Unread, Holding(w)}
        BY DEF Balance
    <2> QED
        BY <2>1, <2>2 DEF Weighed
<1> QED
    BY <1>5, <1>6, <1>7, <1>8, <1>9, <1>10, <1>11

LEMMA MintCovers ==
    ASSUME Inv, Inv', Covering, Static, Kept, ReadMint
    PROVE  Covering'
<1>1. PICK outcome \in {"complete", "error", "budget"} :
      \E rows \in Reads(ListedOfMint, outcome) :
          /\ Fail(<<outcome>>)
          /\ seen' = seen \cup rows
          /\ graph' = IngestAll(graph, rows \ seen)
          /\ complete' = [complete EXCEPT !.mint = outcome = "complete"]
    BY DEF ReadMint
<1>2. PICK rows \in Reads(ListedOfMint, outcome) :
          /\ Fail(<<outcome>>)
          /\ seen' = seen \cup rows
          /\ graph' = IngestAll(graph, rows \ seen)
          /\ complete' = [complete EXCEPT !.mint = outcome = "complete"]
    BY <1>1
<1>3. /\ phase = "inventory" /\ phase' = "conclusion"
      /\ evidence.read \cup evidence.nodes \subseteq DOMAIN holds
      /\ UNCHANGED <<world, seedRows, lineage, classes, crawl, evidence, holds, report>>
    BY DEF ReadMint
<1>4. Fails({outcome})
    BY <1>2, OneFails DEF Covering, Shaped
<1> USE DEF Covering
<1>5. /\ complete' \in [seed : BOOLEAN, graph : BOOLEAN, mint : BOOLEAN]
      /\ complete'.mint <=> outcome = "complete"
      /\ complete'.seed = complete.seed /\ complete'.graph = complete.graph
    <2>1. complete \in [seed : BOOLEAN, graph : BOOLEAN, mint : BOOLEAN]
        BY DEF Shaped
    <2> DEFINE b == outcome = "complete"
    <2>2. b \in BOOLEAN /\ complete' = [complete EXCEPT !.mint = b] /\ (b <=> outcome = "complete")
        BY <1>2
    <2> HIDE DEF b
    <2>3. complete' \in [seed : BOOLEAN, graph : BOOLEAN, mint : BOOLEAN] /\ complete'.mint = b
          /\ complete'.seed = complete.seed /\ complete'.graph = complete.graph
        BY <2>1, <2>2
    <2> QED
        BY <2>2, <2>3
<1>6. Clear' => Clear
    BY <1>3, <1>4, <1>5 DEF Clear, Fails
<1>7. rows \in SUBSET chain
    BY ReadsSubset DEF ListedOfMint
<1>8. Shaped'
    BY <1>2, <1>3, <1>4, <1>5, <1>7 DEF Shaped, Fails, world
<1>9. Counted'
    BY <1>3, <1>4, <1>5 DEF Counted, Fails
<1>10. Stored'
    <2>1. chain \in SUBSET Sigs /\ graph \in Sound(chain) /\ rows \ seen \in SUBSET chain
        BY <1>7 DEF Inv, World, Indexed
    <2>2. Spooled(IngestAll(graph, rows \ seen), Range(graph.facts) \cup FactsOf(rows \ seen))
        BY <2>1, ReadingStores
    <2>3. \A i \in seen' : Autopsies[i] \in Range(graph'.facts)
        BY <1>2, <2>2 DEF Spooled, FactsOf, Stored
    <2> QED
        BY <1>2, <1>3, <1>5, <2>3 DEF Stored, Static
<1>11. Honest'
    BY <1>3, <1>4 DEF Honest, Fails, world
<1>12. Classed' /\ Queued' /\ Concluded'
    BY <1>3 DEF Classed, Queued, Concluded
<1>13. Learned' /\ Rooted'
    BY <1>3, <1>6, TraversalKept
<1>14. Explored'
    BY <1>3, <1>6, ScopedKept DEF Explored, Kept
<1>15. Weighed'
    BY <1>3 DEF Weighed, Static
<1> QED
    BY <1>8, <1>9, <1>10, <1>11, <1>12, <1>13, <1>14, <1>15

LEMMA SkipCovers ==
    ASSUME Covering, Static, Kept, SkipMint
    PROVE  Covering'
<1>1. /\ phase = "inventory" /\ phase' = "conclusion"
      /\ evidence.read \cup evidence.nodes \subseteq DOMAIN holds
      /\ UNCHANGED <<world, seen, seedRows, lineage, graph, classes, crawl, evidence, holds, complete,
                     rpcFailed, exhausted, failures, voids, report>>
    BY DEF SkipMint
<1> USE DEF Covering
<1>2. Clear' => Clear
    BY <1>1 DEF Clear
<1>3. Shaped' /\ Counted' /\ Honest'
    BY <1>1 DEF Shaped, Counted, Honest, world
<1>4. Stored' /\ Classed' /\ Queued' /\ Concluded'
    BY <1>1 DEF Stored, Classed, Queued, Concluded, Static
<1>5. Learned' /\ Rooted'
    BY <1>1, <1>2, TraversalKept
<1>6. Explored'
    BY <1>1, <1>2, ScopedKept DEF Explored, Kept
<1>7. Weighed'
    BY <1>1 DEF Weighed, Static
<1> QED
    BY <1>3, <1>4, <1>5, <1>6, <1>7

LEMMA ConcludeCovers ==
    ASSUME Covering, Static, Kept, Conclude
    PROVE  Covering'
<1> DEFINE limited == crawl.warned # {}
           open == limited \/ evidence.rows # <<>> \/ exhausted \/ Unresolved > Threshold
<1>1. /\ phase = "conclusion" /\ phase' = "done"
      /\ report' = [target |-> Status(limited \/ Blocking # {}),
                    relationship |-> IF ~Covered THEN "INSUFFICIENT_DATA"
                                     ELSE IF open THEN "UNRESOLVED" ELSE "RESOLVED_WITHIN_SCOPE",
                    combined |-> Status(open)]
      /\ UNCHANGED <<world, seen, seedRows, lineage, graph, classes, crawl, evidence, holds, complete,
                     rpcFailed, exhausted, failures, voids>>
    BY DEF Conclude
<1> HIDE DEF open
<1> USE DEF Covering
<1>2. Clear' => Clear
    BY <1>1 DEF Clear
<1>3. Shaped' /\ Counted' /\ Honest'
    BY <1>1 DEF Shaped, Counted, Honest, world
<1>4. Stored' /\ Classed' /\ Queued' /\ Explored'
    BY <1>1 DEF Stored, Classed, Queued, Explored, Static
<1>5. Learned' /\ Rooted'
    BY <1>1, <1>2, TraversalKept
<1>6. Weighed'
    BY <1>1 DEF Weighed, Static
<1>7. Concluded'
    <2>1. Covered /\ ~limited => Scoped /\ Sure
        BY <1>1 DEF Covered, Explored, Clear, Counted, Sure
    <2>2. (Scoped => Scoped') /\ (Sure => Sure')
        BY <1>1, ScopedKept DEF Kept, Sure
    <2>3. ASSUME report'.relationship = "RESOLVED_WITHIN_SCOPE"
          PROVE  Scoped' /\ Sure'
        <3>1. Covered /\ ~open
            BY <1>1, <2>3
        <3> QED
            BY <2>1, <2>2, <3>1 DEF open
    <2>4. ASSUME report'.target = "VERIFIED_OUT"
          PROVE  /\ Scoped' /\ Sure'
                 /\ \A w \in evidence'.nodes : holds'[w] = Holding(w)'
                 /\ ~(Visible > Threshold)'
                 /\ \A i \in DOMAIN evidence'.rows : i <= SampleLimit => ~Blocks(evidence'.rows[i])
        <3>1. Status(limited \/ Blocking # {}) = "VERIFIED_OUT"
            BY <1>1, <2>4
        <3>2. Covered /\ ~limited /\ Blocking = {} /\ ~(Visible > Threshold)
            BY <3>1 DEF Status
        <3>3. Scoped /\ Sure
            BY <2>1, <3>2
        <3>4. \A w \in evidence.nodes : holds[w] = Holding(w)
            BY <1>1, <3>2 DEF Covered, Missing, Weighed
        <3>5. \A i \in DOMAIN evidence.rows : i <= SampleLimit => ~Blocks(evidence.rows[i])
            BY <3>2 DEF Blocking
        <3>6. Visible' = Visible /\ Threshold' = Threshold
            BY <1>1 DEF Visible, Threshold, Basis
        <3> QED
            BY <1>1, <2>2, <3>2, <3>3, <3>4, <3>5, <3>6 DEF Static
    <2> QED
        BY <2>3, <2>4 DEF Concluded
<1> QED
    BY <1>3, <1>4, <1>5, <1>6, <1>7
-----------------------------------------------------------------------------
(***************************************************************************)
(* The wallets the target was handed to                                    *)
(***************************************************************************)
\* No set with the seed that hand-overs do not leave is left by them in any number.
LEMMA ReachedStays ==
    ASSUME NEW known, NEW Y, Seed \in Y, \A t \in Handed(known) : t.from \in Y => t.to \in Y
    PROVE  Reached(known) \subseteq Y
<1> DEFINE N == Cardinality(Addresses)
           Onward(Z) == Z \cup {t.to : t \in {s \in Handed(known) : s.from \in Z}}
           After[n \in 0..N] ==
               IF n = 0 THEN {Seed}
               ELSE LET near == After[n - 1] IN near \cup {t.to : t \in {s \in Handed(known) : s.from \in near}}
           S == SUBSET Y
           step == [p \in Nat \X S |-> Onward(p[2])]
           Recurs(f) == f = [n \in 0..N |-> IF n = 0 THEN {Seed} ELSE Onward(f[n - 1])]
<1>1. N \in Nat
    BY ClusterAuditAssumption, FS_CardinalityType
<1>2. \A Z \in S : Onward(Z) \in S
    OBVIOUS
<1>3. step \in [Nat \X S -> S] /\ {Seed} \in S
    <2> HIDE DEF Onward
    <2> QED
        BY <1>2
<1>4. PICK f : Solves(f, N, S, {Seed}, step)
    <2> HIDE DEF step, N, S
    <2> QED
        BY <1>1, <1>3, Recursion
<1>5. Recurs(f)
    <2>1. ASSUME NEW n \in 1..N
          PROVE  f[n] = Onward(f[n - 1])
        <3>1. <<n, f[n - 1]>> \in Nat \X S
            BY <1>1, <1>4 DEF Solves
        <3> HIDE DEF Onward, N, S
        <3> QED
            BY <1>4, <3>1 DEF Solves
    <2>2. \A n \in 0..N : n # 0 => n \in 1..N
        BY <1>1
    <2>3. f = [n \in 0..N |-> f[n]] /\ f[0] = {Seed}
        BY <1>4 DEF Solves
    <2> HIDE DEF Onward, N, S
    <2> QED
        BY <2>1, <2>2, <2>3
<1>6. After = CHOOSE h : Recurs(h)
    OBVIOUS
<1>7. Recurs(After)
    <2> HIDE DEF Recurs
    <2> QED
        BY <1>5, <1>6
<1>8. \A n \in 0..N : After[n] = IF n = 0 THEN {Seed} ELSE Onward(After[n - 1])
    <2>1. After = [n \in 0..N |-> IF n = 0 THEN {Seed} ELSE Onward(After[n - 1])]
        BY <1>7
    <2> HIDE DEF After, N, Onward
    <2> QED
        BY <2>1
<1> DEFINE T == {n \in Nat : n <= N => After[n] \in S}
<1>9. 0 \in T
    <2>1. 0 \in 0..N
        BY <1>1
    <2>2. After[0] = {Seed}
        <3> HIDE DEF After, N, Onward
        <3> QED
            BY <1>8, <2>1
    <2> HIDE DEF After
    <2> QED
        BY <1>3, <2>2
<1>10. ASSUME NEW n \in T
       PROVE  n + 1 \in T
    <2> SUFFICES ASSUME n + 1 <= N
                 PROVE  After[n + 1] \in S
        OBVIOUS
    <2>1. n \in Nat /\ n + 1 \in 0..N /\ n + 1 # 0 /\ (n + 1) - 1 = n /\ After[n] \in S
        BY <1>1
    <2>2. After[n + 1] = Onward(After[n])
        <3> HIDE DEF After, N, Onward
        <3> QED
            BY <1>8, <2>1
    <2> HIDE DEF After, Onward, S
    <2> QED
        BY <1>2, <2>1, <2>2
<1>11. T = Nat
    <2>1. T \in SUBSET Nat
        OBVIOUS
    <2> HIDE DEF T
    <2> QED
        BY <1>9, <1>10, <2>1, Induct
<1>12. After[N] \in S
    <2>1. N \in T /\ N <= N
        <3> HIDE DEF T, N
        <3> QED
            BY <1>1, <1>11
    <2> HIDE DEF After, S
    <2> QED
        BY <2>1
<1>13. Reached(known) = After[N]
    BY DEF Reached
<1> QED
    BY <1>12, <1>13

\* The history of a wallet tells of whom it handed the target to.
LEMMA HandedIsTold ==
    ASSUME World, NEW known, NEW t \in Handed(known), t.from # t.to
    PROVE  t.to \in Told(known, t.from)
<1>1. PICK i \in chain :
          /\ t \in Autopsies[i].tokens /\ t.asset = Target /\ ~Autopsies[i].market
          /\ WalletLike(known, t.from) /\ WalletLike(known, t.to)
          /\ t.by = t.from /\ t.from \in Autopsies[i].signers
    BY DEF Handed, AllFacts
<1> DEFINE f == Autopsies[i]
           tx == Templates[i]
           w == t.from
<1>2. i \in Sigs
    BY DEF World
<1>3. f = Autopsy(tx) /\ f.sig = i /\ Within(f, Addresses)
    BY <1>2, FactOf
<1>4. PICK j \in Steps(tx, "token") : t = tx.steps[j]
    BY <1>1, <1>3 DEF Autopsy
<1>5. j \in DOMAIN tx.steps /\ w \in Named(tx) /\ w \in Parties(tx)
    BY <1>1, <1>4 DEF Steps, Named, Parties
<1>6. CASE config.deep \/ w = Seed
    <2>1. i \in Listed(w)
        BY <1>1, <1>5 DEF Listed, ListedWithTokens, ListedByName
    <2>2. t.to \in CandidateAddresses(f, w)
        BY <1>1 DEF CandidateAddresses
    <2>3. Between(EdgesOf(f, known), t.to, w) # {}
        <3> DEFINE e == Edge(f, IF Prepared(f, t) THEN "CONFIRMED_DIRECT_LINK" ELSE "DIRECT_TOKEN_TRANSFER",
                             t.from, t.to, t.asset, t.amount)
        <3>1. t \in Proven(f, known)
            BY <1>1 DEF Proven, Transfers, BothWallets
        <3>2. e \in EdgesOf(f, known)
            BY <3>1 DEF EdgesOf, TokenEdges
        <3>3. e.from = t.from /\ e.to = t.to
            BY DEF Edge
        <3> HIDE DEF e
        <3> QED
            BY <3>2, <3>3 DEF Between
    <2> QED
        BY <1>6, <2>1, <2>2, <2>3 DEF Told
<1>7. CASE ~(config.deep \/ w = Seed)
    <2> DEFINE r == [sig |-> i, from |-> t.from, to |-> t.to, amount |-> t.amount]
               e == [sig |-> r.sig, type |-> "TARGET_TOKEN_TRANSFER", from |-> r.from, to |-> r.to,
                     asset |-> Target, amount |-> r.amount, high |-> TRUE]
    <2>1. t \in TargetSteps(i)
        BY <1>1, <1>4 DEF TargetSteps
    <2>2. i \in ListedTransfers(w)
        BY <1>1, <2>1 DEF ListedTransfers
    <2>3. r \in TransfersOf(ListedTransfers(w), w)
        BY <2>1, <2>2 DEF TransfersOf
    <2>4. e \in LineageEdges(TransfersOf(ListedTransfers(w), w), known)
        BY <1>1, <2>3 DEF LineageEdges
    <2>5. Other(e, w) = t.to
        BY DEF Other
    <2> QED
        BY <1>7, <2>4, <2>5 DEF Told
<1> QED
    BY <1>6, <1>7
-----------------------------------------------------------------------------
\* What an audit that is not flagged has covered, in every state.
THEOREM Coverage == Spec => []Covering
<1>1. Init => Covering
    <2> SUFFICES ASSUME Init
                 PROVE  Covering
        OBVIOUS
    <2> DEFINE d == [w \in {Seed} |-> 0]
               p == [w \in {Seed} |-> [rank |-> 20000, sig |-> 0]]
    <2>1. /\ crawl = [depth |-> d, queue |-> {Seed}, priority |-> p,
                      skipped |-> {}, fetched |-> {}, warned |-> {}]
          /\ DOMAIN d = {Seed}
        BY DEF Init
    <2> HIDE DEF d, p
    <2>2. /\ IsCrawl(crawl) /\ DOMAIN crawl.depth = {Seed} /\ Remembered(crawl) = {Seed}
          /\ crawl.fetched = {} /\ Seed \in crawl.queue /\ crawl.warned = {}
        BY <2>1 DEF IsCrawl, Remembered
    <2>3. Shaped
        <3>1. /\ complete = [seed |-> TRUE, graph |-> TRUE, mint |-> TRUE]
              /\ report = [target |-> "none", relationship |-> "none", combined |-> "none"]
              /\ config \in Configs /\ seen = {} /\ voids = 0
            BY DEF Init, NoReport
        <3>2. DOMAIN report = {"target", "relationship", "combined"}
            BY <3>1
        <3>3. complete \in [seed : BOOLEAN, graph : BOOLEAN, mint : BOOLEAN]
            BY <3>1
        <3> QED
            BY <2>2, <3>1, <3>2, <3>3, ClusterAuditAssumption DEF Shaped
    <2>4. Counted /\ Stored /\ Explored /\ Concluded
        BY DEF Init, Counted, Stored, Explored, Concluded
    <2>5. Classed /\ Queued /\ Learned /\ Rooted
        BY <2>2 DEF Init, Classed, Queued, Learned, Rooted, Closed
    <2>6. Honest /\ Weighed
        <3>1. DOMAIN <<>> = {}
            OBVIOUS
        <3> QED
            BY <3>1 DEF Init, Honest, Weighed
    <2> QED
        BY <2>3, <2>4, <2>5, <2>6 DEF Covering
<1>2. Inv /\ Inv' /\ Covering /\ [Next]_vars => Covering'
    <2> SUFFICES ASSUME Inv, Inv', Covering, [Next]_vars
                 PROVE  Covering'
        OBVIOUS
    <2>1. CASE UNCHANGED vars
        <3>1. Static
            BY <2>1, WorldStatic DEF vars, world
        <3>2. Steady
            BY <2>1, <3>1 DEF vars, Static, Steady, Settled
        <3>3. /\ Shaped' /\ Counted' /\ Stored' /\ Honest' /\ Classed' /\ Queued' /\ Weighed'
              /\ Explored'
            BY <2>1, <3>1, <3>2, ScopedKept DEF vars, Covering, Shaped, Counted, Stored, Honest,
               Classed, Queued, Weighed, Explored, Clear, Static
        <3>4. Learned'
            BY <2>1, <3>2 DEF vars, Covering, Learned, Clear, Steady
        <3>5. FoundEdges' = FoundEdges
            BY <2>1 DEF vars, FoundEdges
        <3>6. Rooted'
            BY <2>1, <3>5 DEF vars, Covering, Rooted
        <3>7. Concluded'
            <4>1. Visible' = Visible /\ Threshold' = Threshold
                BY <2>1 DEF vars, Visible, Threshold, Basis
            <4> QED
                BY <2>1, <3>1, <3>2, <4>1, ScopedKept DEF vars, Covering, Concluded, Static, Sure
        <3> QED
            BY <3>3, <3>4, <3>6, <3>7 DEF Covering
    <2>2. CASE Next
        <3>1. UNCHANGED world
            BY <2>2, StepsDo
        <3>2. Static
            BY <3>1, WorldStatic
        <3>3. Kept
            BY <2>2, NextKeeps
        <3> QED
            BY <2>2, <3>2, <3>3, SeedBalanceCovers, SeedHistoryCovers, LostHistoryCovers,
               ClassifySeedCovers, SeedGraphCovers, VisitActivityCovers, VisitTransfersCovers,
               StopCovers, EndCovers, BalanceCovers, MintCovers, SkipCovers, ConcludeCovers DEF Next
    <2> QED
        BY <2>1, <2>2
<1> QED
    BY <1>1, <1>2, Invariance, PTL DEF Spec

\* What is told of a visited wallet by the classes as the audit was told them is told by
\* the classes it has; and they are those of the chain if every request was answered.
LEMMA ToldAsTold ==
    ASSUME Inv, Covering
    PROVE  /\ \A w : Settled(w) => Told(AsTold, w) \subseteq Told(classes, w)
           /\ Sure => Candid
<1>1. ASSUME NEW w, Settled(w)
      PROVE  Told(AsTold, w) \subseteq Told(classes, w)
    <2>1. Weaker(classes, AsTold, Addresses)
        BY DEF Weaker, WalletLike, AsTold
    <2>2. \A v \in {w} \cup Contacts(w) : WalletLike(AsTold, v) => WalletLike(classes, v)
        BY <1>1 DEF Settled, WalletLike, AsTold
    <2> QED
        BY <2>1, <2>2, ToldLess DEF Inv
<1>2. ASSUME Sure
      PROVE  Candid
    <2>1. ASSUME voids = 0
          PROVE  AsTold = AllClasses
        <3>1. \A v \in DOMAIN classes : classes[v] = Classify(record[v])
            BY <1>2, <2>1 DEF Covering, Honest, Sure
        <3> QED
            BY <3>1 DEF AsTold, AllClasses
    <2> QED
        BY <1>2, <2>1 DEF Candid, Sure
<1> QED
    BY <1>1, <1>2

\* A target that is reported out was looked for at every wallet it was handed to as far
\* as wallets were recognised, however far, no request is known to have failed, and what
\* these wallets hold was read as it is.
THEOREM OutIsCoveredHolds == Spec => []OutIsCovered
<1>1. Inv /\ Covering => OutIsCovered
    <2> SUFFICES ASSUME Inv, Covering, Done, report.target = "VERIFIED_OUT"
                 PROVE  /\ Candid
                        /\ Reached(AsTold) \subseteq evidence.nodes
                        /\ \A w \in evidence.nodes : holds[w] = Holding(w)
                        /\ ~(Visible > Threshold)
                        /\ \A i \in DOMAIN evidence.rows : i <= SampleLimit => ~Blocks(evidence.rows[i])
        BY DEF OutIsCovered
    <2>1. /\ Scoped /\ Sure
          /\ \A w \in evidence.nodes : holds[w] = Holding(w)
          /\ ~(Visible > Threshold)
          /\ \A i \in DOMAIN evidence.rows : i <= SampleLimit => ~Blocks(evidence.rows[i])
        BY DEF Covering, Concluded, Done
    <2>2. Candid /\ \A w \in crawl.fetched : Told(AsTold, w) \subseteq crawl.fetched
        BY <2>1, ToldAsTold DEF Scoped
    <2>3. \A t \in Handed(AsTold) : t.from \in crawl.fetched => t.to \in crawl.fetched
        BY <2>2, HandedIsTold DEF Inv
    <2>4. Reached(AsTold) \subseteq crawl.fetched
        BY <2>1, <2>3, ReachedStays DEF Scoped
    <2> QED
        BY <2>1, <2>2, <2>4 DEF Scoped
<1> QED
    BY <1>1, Invariance, Coverage, PTL

\* Relationships are resolved within scope only when the seed was visited, and with
\* every wallet all that its whole history tells of as far as wallets were recognised.
THEOREM ResolvedIsClosedHolds == Spec => []ResolvedIsClosed
<1>1. Inv /\ Covering => ResolvedIsClosed
    <2> SUFFICES ASSUME Inv, Covering, Done, report.relationship = "RESOLVED_WITHIN_SCOPE"
                 PROVE  /\ Candid /\ Seed \in crawl.fetched /\ crawl.fetched \subseteq evidence.nodes
                        /\ \A w \in crawl.fetched : Told(AsTold, w) \subseteq crawl.fetched
        BY DEF ResolvedIsClosed
    <2>1. Scoped /\ Sure
        BY DEF Covering, Concluded, Done
    <2> QED
        BY <2>1, ToldAsTold DEF Scoped
<1> QED
    BY <1>1, Invariance, Coverage, PTL
=============================================================================
