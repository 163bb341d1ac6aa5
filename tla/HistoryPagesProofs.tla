------------------------- MODULE HistoryPagesProofs -------------------------
(***************************************************************************)
(* Theorems about HistoryPages, for every chain, budget and page limit: a  *)
(* history that is called complete is complete, no row is given twice, no  *)
(* budget is passed, and a replayed page never loses a payload.            *)
(***************************************************************************)
EXTENDS HistoryPages, DataFacts

PageManifest == [key : Addresses \X Nat, rows : Seq(Signatures), token : Nat \cup {None}]

Ledgers == [requests : Nat, credits : Nat,
            signatures : SUBSET Signatures, transactions : SUBSET Signatures,
            payloads : Seq(Payload), manifests : SUBSET PageManifest,
            accounts : SUBSET [id : Accounts, value : Nat],
            answers : SUBSET Payload, terminatedBy : Budgets \cup {None}]

Spends(l) ==
    /\ l.requests <= MaxRequests /\ l.credits <= MaxCredits
    /\ Cardinality(l.signatures) <= MaxSignatures
    /\ Cardinality(l.transactions) <= MaxTransactions

\* What is in the window was charged.
Counts(l) == Kept(l) \subseteq l.signatures \cap l.transactions

Follows(token, p, n) == token \in 2..p \cup {IF p < n THEN p + 1 ELSE None}

\* A manifest lists the rows of its page, and its token leads to the next page or
\* to one read before.
Copies(l) ==
    \A m \in l.manifests :
        LET pages == History[m.key[1]] IN
        /\ m.key[2] \in DOMAIN pages
        /\ m.rows = Sieve(pages[m.key[2]], Signatures)
        /\ Follows(m.token, m.key[2], Len(pages))

\* An account has one record.
Agrees(l) == \A r1, r2 \in l.accounts : r1.id = r2.id => r1 = r2

Sound(l) == l \in Ledgers /\ Spends(l) /\ Counts(l) /\ Copies(l) /\ Agrees(l)

\* What every operation but the one that stores accounts does to a ledger.
Grows(l, m) == Sound(m) /\ l.signatures \subseteq m.signatures /\ m.accounts = l.accounts
-----------------------------------------------------------------------------
(***************************************************************************)
(* The inductive invariant                                                 *)
(***************************************************************************)
Row == Signatures \cup (Signatures \X Nat)
Paged == {"history", "transfers"}

CallType == [stage : {"idle", "page", "ask", "sent", "rows", "replay"},
             kind : {"none", "history", "transfers", "transaction", "accounts"},
             address : Addresses \cup {None}, limit : Nat, pages : Nat, page : Nat,
             tokens : SUBSET Nat, attempt : Nat, row : Nat,
             wanted : SUBSET (Signatures \cup Accounts)]

TypeOK ==
    /\ call \in CallType /\ delivered \in Seq(Row)
    /\ chain \in [Accounts -> Nat] /\ read \in [Accounts -> SUBSET Nat]

\* The tokens seen are those of the pages read, and an account that is asked for
\* has no record.
Calling ==
    /\ call.stage = "idle" <=> call.kind = "none"
    /\ call.stage \in {"page", "rows"} => call.kind \in Paged
    /\ call.stage = "replay" => call.kind = "history"
    /\ IF call.kind \in Paged
       THEN /\ call.address \in Addresses /\ call.page \in DOMAIN Pages(call)
            /\ call.tokens = 2..call.page
       ELSE call.address = None
    /\ call.kind = "accounts" =>
           call.wanted \subseteq Accounts /\ \A x \in call.wanted : Record(ledger, x) = {}
    /\ call.stage # "idle" => result.kind = call.kind /\ result.status = "none"

\* The rows that the manifest of the page lists.
Copy == Sieve(Rows(call), Signatures)

Replays ==
    call.stage = "replay" =>
        /\ \E m \in ledger.manifests : m.key = Key(call)
        /\ \A i \in DOMAIN Copy : Usable(ledger, Copy[i])

GivenUpTo(n, rows) == n <= Len(rows) /\ \A i \in 1..n : rows[i] \in ToSet(delivered) \cup {None}

\* The pages turned, and the rows passed of the page at hand, were given.
Progress ==
    /\ call.kind \in Paged =>
           \A p \in 1..call.page - 1 : ToSet(Pages(call)[p]) \ {None} \subseteq ToSet(delivered)
    /\ call.stage = "rows" => GivenUpTo(call.row, Rows(call))
    /\ call.stage = "replay" => GivenUpTo(call.row, Copy)

\* What was given was charged.
Charged ==
    \A row \in ToSet(delivered) :
        /\ result.kind \in Paged
        /\ IF result.kind = "history" THEN row \in ledger.signatures
           ELSE row \in ledger.signatures \X Nat

\* What the investigation was told of an account is its record.
Told == \A x \in Accounts : \A v \in read[x] : \E r \in Record(ledger, x) : r.value = v

Inv ==
    /\ TypeOK /\ Sound(ledger) /\ Calling /\ Replays /\ Progress /\ Charged /\ Told
    /\ DeliveredOnce /\ CompleteHistory
-----------------------------------------------------------------------------
(***************************************************************************)
(* The window of payloads                                                  *)
(***************************************************************************)
LEMMA ToSetHas == \A q, x : x \in ToSet(q) <=> Has(q, x)
BY DEF ToSet, Has

\* The elements of two lists one after the other.
LEMMA Joined ==
    ASSUME NEW S, NEW a \in Seq(S), NEW b \in Seq(S)
    PROVE  a \o b \in Seq(S) /\ ToSet(a \o b) = ToSet(a) \cup ToSet(b)
<1>1. a \o b \in Seq(S) /\ Len(a \o b) = Len(a) + Len(b) /\ Len(a) \in Nat /\ Len(b) \in Nat
    OBVIOUS
<1>2. /\ DOMAIN a = 1..Len(a) /\ DOMAIN b = 1..Len(b)
      /\ DOMAIN (a \o b) = 1..Len(a) + Len(b)
    BY <1>1
<1>3. \A i \in 1..Len(a) + Len(b) : (a \o b)[i] = IF i <= Len(a) THEN a[i] ELSE b[i - Len(a)]
    OBVIOUS
<1>4. ASSUME NEW x \in ToSet(a)
      PROVE  x \in ToSet(a \o b)
    <2> PICK i \in 1..Len(a) : x = a[i]
        BY <1>2 DEF ToSet
    <2>1. i \in 1..Len(a) + Len(b) /\ (a \o b)[i] = x
        BY <1>1, <1>3
    <2> QED
        BY <1>2, <2>1 DEF ToSet
<1>5. ASSUME NEW x \in ToSet(b)
      PROVE  x \in ToSet(a \o b)
    <2> PICK i \in 1..Len(b) : x = b[i]
        BY <1>2 DEF ToSet
    <2>1. i + Len(a) \in 1..Len(a) + Len(b) /\ (a \o b)[i + Len(a)] = x
        BY <1>1, <1>3
    <2> QED
        BY <1>2, <2>1 DEF ToSet
<1>6. ASSUME NEW x \in ToSet(a \o b)
      PROVE  x \in ToSet(a) \cup ToSet(b)
    <2> PICK i \in 1..Len(a) + Len(b) : x = (a \o b)[i]
        BY <1>2 DEF ToSet
    <2>1. CASE i <= Len(a)
        <3>1. i \in 1..Len(a) /\ x = a[i]
            BY <1>1, <1>3, <2>1
        <3> QED
            BY <1>2, <3>1 DEF ToSet
    <2>2. CASE ~(i <= Len(a))
        <3>1. i - Len(a) \in 1..Len(b) /\ x = b[i - Len(a)]
            BY <1>1, <1>3, <2>2
        <3> QED
            BY <1>2, <3>1 DEF ToSet
    <2> QED
        BY <2>1, <2>2
<1> QED
    BY <1>1, <1>4, <1>5, <1>6

LEMMA Sieved ==
    ASSUME NEW S, NEW q \in Seq(S), NEW K
    PROVE  Sieve(q, K) \in Seq(S) /\ ToSet(Sieve(q, K)) = ToSet(q) \cap K
BY SieveFacts, ToSetHas

LEMMA Listed ==
    ASSUME NEW S, NEW q \in Seq(S)
    PROVE  ToSet(q) \subseteq S
BY DEF ToSet

\* Using an entry changes its place and nothing else.
LEMMA MovedKeeps ==
    ASSUME NEW window \in Seq(Payload), NEW s
    PROVE  Moved(window, s) \in Seq(Payload) /\ ToSet(Moved(window, s)) = ToSet(window)
<1> DEFINE a == Sieve(window, Payload \ Of(s))
           b == Sieve(window, Of(s))
<1>1. a \in Seq(Payload) /\ ToSet(a) = ToSet(window) \cap (Payload \ Of(s))
    BY Sieved
<1>2. b \in Seq(Payload) /\ ToSet(b) = ToSet(window) \cap Of(s)
    BY Sieved
<1>3. ToSet(window) \subseteq Payload /\ Of(s) \subseteq Payload
    BY Listed DEF Of
<1>4. a \o b \in Seq(Payload) /\ ToSet(a \o b) = ToSet(a) \cup ToSet(b)
    <2> HIDE DEF a, b
    <2> QED
        BY <1>1, <1>2, Joined
<1>5. ToSet(a \o b) = ToSet(window)
    <2> HIDE DEF a, b
    <2> QED
        BY <1>1, <1>2, <1>3, <1>4
<1> QED
    BY <1>4, <1>5 DEF Moved

\* Whether a transaction is kept, and usable, depends on the entries alone.
LEMMA WindowEntries ==
    ASSUME NEW l, NEW s
    PROVE  /\ s \in Kept(l) <=> \E x \in ToSet(l.payloads) : x.id = s
           /\ Usable(l, s) <=> \E x \in ToSet(l.payloads) : x.id = s /\ x.found
BY DEF Kept, Usable, ToSet

\* Replaying a page uses each of its payloads.
LEMMA ReplayedWindow ==
    ASSUME NEW l \in Ledgers, NEW key, Manifest(l, key).rows \in Seq(Signatures)
    PROVE  \E window \in Seq(Payload) :
              /\ ToSet(window) = ToSet(l.payloads)
              /\ ManifestGet(l, key) = [l EXCEPT !.payloads = window]
<1> DEFINE rows == Manifest(l, key).rows
           n == Len(rows)
           moved[i \in 0..n] == IF i = 0 THEN l.payloads ELSE Moved(moved[i - 1], rows[i])
           start == l.payloads
           S == Seq(Payload)
           step == [p \in Nat \X S |-> Moved(p[2], rows[p[1]])]
           Recurs(g) == g = [i \in 0..n |-> IF i = 0 THEN start ELSE Moved(g[i - 1], rows[i])]
<1>1. n \in Nat /\ DOMAIN rows = 1..n
    OBVIOUS
<1>2. start \in S
    BY DEF Ledgers
<1>3. step \in [Nat \X S -> S]
    BY MovedKeeps
<1>4. PICK g : Solves(g, n, S, start, step)
    <2> HIDE DEF n, S, start, step
    <2> QED
        BY <1>1, <1>2, <1>3, Recursion
<1>5. Recurs(g)
    <2>1. ASSUME NEW i \in 1..n
          PROVE  g[i] = Moved(g[i - 1], rows[i])
        <3>1. g \in [0..n -> S] /\ i \in Nat /\ i - 1 \in 0..n
            <4> HIDE DEF n, S, start, step
            <4> QED
                BY <1>1, <1>4 DEF Solves
        <3>2. g[i - 1] \in S
            <4> HIDE DEF n, S
            <4> QED
                BY <3>1
        <3>3. <<i, g[i - 1]>> \in Nat \X S
            <4> HIDE DEF n, S
            <4> QED
                BY <3>1, <3>2
        <3>4. g[i] = step[<<i, g[i - 1]>>]
            <4> HIDE DEF n, S, start, step
            <4> QED
                BY <1>4 DEF Solves
        <3> HIDE DEF n, S
        <3> QED
            BY <3>3, <3>4
    <2>2. \A i \in 0..n : i # 0 => i \in 1..n
        BY <1>1
    <2>3. g = [i \in 0..n |-> g[i]]
        BY <1>4 DEF Solves
    <2> HIDE DEF n, step, start, rows
    <2> QED
        BY <1>4, <2>1, <2>2, <2>3 DEF Solves
<1>6. moved = CHOOSE h : Recurs(h)
    OBVIOUS
<1>7. Recurs(moved)
    <2> HIDE DEF Recurs
    <2> QED
        BY <1>5, <1>6
<1>8. \A i \in 0..n : moved[i] = IF i = 0 THEN start ELSE Moved(moved[i - 1], rows[i])
    <2>1. moved = [i \in 0..n |-> IF i = 0 THEN start ELSE Moved(moved[i - 1], rows[i])]
        BY <1>7
    <2> HIDE DEF moved, n, start, rows
    <2> QED
        BY <2>1
<1> DEFINE Good(i) == moved[i] \in Seq(Payload) /\ ToSet(moved[i]) = ToSet(start)
           T == {i \in Nat : i <= n => Good(i)}
<1>9. 0 \in T
    <2>1. moved[0] = start
        <3> HIDE DEF moved, n, start
        <3> QED
            BY <1>1, <1>8
    <2> HIDE DEF moved
    <2> QED
        BY <1>2, <2>1
<1>10. ASSUME NEW i \in T
       PROVE  i + 1 \in T
    <2> HIDE DEF moved, n, start, rows
    <2> SUFFICES ASSUME i + 1 <= n
                 PROVE  Good(i + 1)
        OBVIOUS
    <2>1. i \in Nat /\ i + 1 \in 0..n /\ i + 1 # 0 /\ (i + 1) - 1 = i /\ i <= n
        BY <1>1
    <2>2. moved[i] \in Seq(Payload) /\ ToSet(moved[i]) = ToSet(start)
        BY <2>1
    <2>3. moved[i + 1] = Moved(moved[i], rows[i + 1])
        BY <1>8, <2>1
    <2> QED
        BY <2>2, <2>3, MovedKeeps
<1>11. T = Nat
    <2>1. T \in SUBSET Nat
        OBVIOUS
    <2> HIDE DEF T
    <2> QED
        BY <1>9, <1>10, <2>1, Induct
<1>12. Good(n)
    <2>1. n \in T
        BY <1>1, <1>11
    <2> HIDE DEF Good
    <2> QED
        BY <1>1, <2>1
<1>13. ManifestGet(l, key) = [l EXCEPT !.payloads = moved[n]]
    BY DEF ManifestGet, moved
<1> HIDE DEF moved, n
<1> QED
    BY <1>12, <1>13

\* A transaction that is remembered is one entry more; others may leave.
LEMMA RememberedWindow ==
    ASSUME NEW l \in Ledgers, NEW s \in Signatures, NEW found \in BOOLEAN
    PROVE  \E window \in Seq(Payload) :
              /\ ToSet(window) \subseteq ToSet(l.payloads) \cup {[id |-> s, found |-> found]}
              /\ Remember(l, s, found) = [l EXCEPT !.payloads = window]
<1> DEFINE new == [id |-> s, found |-> found]
           old == Sieve(l.payloads, Payload \ Of(s))
           window == Append(old, new)
           excess == IF Len(window) > PayloadWindow THEN Len(window) - PayloadWindow ELSE 0
           kept == SubSeq(window, excess + 1, Len(window))
<1>1. new \in Payload
    BY DEF Payload
<1>2. old \in Seq(Payload) /\ ToSet(old) \subseteq ToSet(l.payloads)
    BY Sieved DEF Ledgers
<1>3. window \in Seq(Payload) /\ ToSet(window) \subseteq ToSet(l.payloads) \cup {new}
    <2> HIDE DEF old, new
    <2>1. window \in Seq(Payload) /\ Len(window) = Len(old) + 1 /\ Len(old) \in Nat
        BY <1>1, <1>2
    <2>2. \A i \in 1..Len(window) : window[i] = new \/ (i \in 1..Len(old) /\ window[i] = old[i])
        BY <1>1, <1>2
    <2>3. \A i \in 1..Len(old) : old[i] \in ToSet(l.payloads)
        BY <1>2 DEF ToSet
    <2>4. DOMAIN window = 1..Len(window)
        BY <2>1
    <2> QED
        BY <2>1, <2>2, <2>3, <2>4 DEF ToSet
<1>4. excess \in Nat /\ Len(window) \in Nat
    BY <1>3, InvestigationAssumption
<1>5. kept \in Seq(Payload) /\ ToSet(kept) \subseteq ToSet(window)
    <2> HIDE DEF window, excess
    <2>1. kept \in Seq(Payload)
        BY <1>3, <1>4
    <2>2. \A i \in 1..Len(kept) : kept[i] = window[excess + i] /\ excess + i \in 1..Len(window)
        BY <1>3, <1>4
    <2>3. DOMAIN kept = 1..Len(kept) /\ DOMAIN window = 1..Len(window)
        BY <2>1, <1>3
    <2> QED
        BY <2>1, <2>2, <2>3 DEF ToSet
<1>6. Remember(l, s, found) = [l EXCEPT !.payloads = kept]
    BY DEF Remember
<1> HIDE DEF kept, window
<1> QED
    BY <1>3, <1>5, <1>6
-----------------------------------------------------------------------------
(***************************************************************************)
(* What each operation does to a ledger                                    *)
(***************************************************************************)

\* The budgets are no token, no address and no absence.
LEMMA Named == None \notin Budgets /\ None \notin Nat /\ None \notin Signatures
BY InvestigationAssumption

\* A budget that allows one more is not passed by it.
LEMMA OneMore ==
    ASSUME NEW S \in SUBSET Signatures, NEW s \in Signatures, NEW max \in Nat,
           Cardinality(S) <= max, s \in S \/ ~(Cardinality(S) >= max)
    PROVE  Cardinality(S \cup {s}) <= max
<1>1. IsFiniteSet(S)
    BY FS_Subset, InvestigationAssumption
<1>2. Cardinality(S) \in Nat
    BY <1>1, FS_CardinalityType
<1>3. Cardinality(S \cup {s}) = IF s \in S THEN Cardinality(S) ELSE Cardinality(S) + 1
    BY <1>1, FS_AddElement
<1> QED
    BY <1>2, <1>3

LEMMA FreshSound == Sound(NewLedger)
<1>1. NewLedger \in Ledgers
    BY DEF NewLedger, Ledgers
<1>2. Kept(NewLedger) = {}
    BY DEF NewLedger, Kept
<1>3. Cardinality({}) = 0
    BY FS_EmptySet
<1>4. /\ NewLedger.requests = 0 /\ NewLedger.credits = 0
      /\ NewLedger.signatures = {} /\ NewLedger.transactions = {}
      /\ NewLedger.manifests = {} /\ NewLedger.accounts = {}
    BY DEF NewLedger
<1>5. Spends(NewLedger)
    BY <1>3, <1>4, InvestigationAssumption DEF Spends
<1> QED
    BY <1>1, <1>2, <1>4, <1>5 DEF Sound, Counts, Copies, Agrees

\* The window may hold any transactions that were charged.
LEMMA WindowSound ==
    ASSUME NEW l, Sound(l), NEW window \in Seq(Payload),
           \A x \in ToSet(window) : x.id \in l.signatures \cap l.transactions
    PROVE  LET m == [l EXCEPT !.payloads = window] IN
           /\ Grows(l, m) /\ m.payloads = window /\ m.manifests = l.manifests
           /\ m.signatures = l.signatures
<1> DEFINE m == [l EXCEPT !.payloads = window]
<1>1. m \in Ledgers
    BY DEF Sound, Ledgers
<1>2. /\ m.requests = l.requests /\ m.credits = l.credits
      /\ m.signatures = l.signatures /\ m.transactions = l.transactions
      /\ m.manifests = l.manifests /\ m.accounts = l.accounts /\ m.payloads = window
    BY DEF Sound, Ledgers
<1> HIDE DEF m
<1>3. Counts(m)
    BY <1>2, WindowEntries DEF Counts
<1>4. Spends(m) /\ Copies(m) /\ Agrees(m)
    BY <1>2 DEF Sound, Spends, Copies, Agrees
<1>5. Grows(l, m) /\ m.payloads = window /\ m.manifests = l.manifests /\ m.signatures = l.signatures
    BY <1>1, <1>2, <1>3, <1>4 DEF Grows, Sound
<1> QED
    BY <1>5 DEF m

\* A refusal is noted and changes nothing else.
LEMMA TerminateGrows ==
    ASSUME NEW l, Sound(l), NEW budget \in Budgets
    PROVE  Grows(l, Terminate(l, budget)) /\ Terminate(l, budget).payloads = l.payloads
           /\ Terminate(l, budget).manifests = l.manifests
<1> DEFINE m == Terminate(l, budget)
<1>1. m \in Ledgers
    BY DEF Sound, Ledgers, Terminate
<1>2. /\ m.requests = l.requests /\ m.credits = l.credits
      /\ m.signatures = l.signatures /\ m.transactions = l.transactions
      /\ m.manifests = l.manifests /\ m.accounts = l.accounts /\ m.payloads = l.payloads
    BY DEF Sound, Ledgers, Terminate
<1> HIDE DEF m
<1>3. Kept(m) = Kept(l)
    BY <1>2 DEF Kept
<1>4. Spends(m) /\ Counts(m) /\ Copies(m) /\ Agrees(m)
    BY <1>2, <1>3 DEF Sound, Spends, Counts, Copies, Agrees
<1>5. Grows(l, m) /\ m.payloads = l.payloads /\ m.manifests = l.manifests
    BY <1>1, <1>2, <1>4 DEF Grows, Sound
<1> QED
    BY <1>5 DEF m

LEMMA Refusals ==
    ASSUME NEW l, NEW s, NEW method
    PROVE  /\ Refusal(l, method) \in Budgets \cup {None}
           /\ SignatureRefusal(l, s) \in Budgets \cup {None}
           /\ TransactionRefusal(l, s) \in Budgets \cup {None}
BY DEF Refusal, SignatureRefusal, TransactionRefusal, Budgets

LEMMA WeightNat == \A method : Weight(method) \in Nat
BY DEF Weight

\* A request that is not refused is paid for.
LEMMA ChargeGrows ==
    ASSUME NEW l, Sound(l), NEW method, Refusal(l, method) = None
    PROVE  Grows(l, Charge(l, method))
<1> DEFINE m == Charge(l, method)
<1>1. l.requests \in Nat /\ l.credits \in Nat /\ Weight(method) \in Nat
    BY WeightNat DEF Sound, Ledgers
<1>2. m \in Ledgers
    <2> DEFINE requests == IF method \in DasMethods THEN l.requests ELSE l.requests + 1
               credits == l.credits + Weight(method)
    <2>1. requests \in Nat /\ credits \in Nat
        BY <1>1
    <2>2. m = [l EXCEPT !.requests = requests, !.credits = credits]
        BY DEF Charge
    <2> HIDE DEF requests, credits, m
    <2> QED
        BY <2>1, <2>2 DEF Sound, Ledgers
<1>3. /\ m.requests = IF method \in DasMethods THEN l.requests ELSE l.requests + 1
      /\ m.credits = l.credits + Weight(method)
      /\ m.signatures = l.signatures /\ m.transactions = l.transactions
      /\ m.manifests = l.manifests /\ m.accounts = l.accounts /\ m.payloads = l.payloads
    BY DEF Sound, Ledgers, Charge
<1>4. /\ method \notin DasMethods => ~(l.requests >= MaxRequests)
      /\ ~(l.credits + Weight(method) > MaxCredits)
    BY Named DEF Refusal, Budgets
<1> HIDE DEF m
<1>5. Kept(m) = Kept(l)
    BY <1>3 DEF Kept
<1>6. m.requests <= MaxRequests /\ m.credits <= MaxCredits
    BY <1>1, <1>3, <1>4, InvestigationAssumption DEF Sound, Spends
<1>7. Spends(m)
    BY <1>3, <1>6 DEF Sound, Spends
<1>8. Counts(m) /\ Copies(m) /\ Agrees(m)
    BY <1>3, <1>5 DEF Sound, Counts, Copies, Agrees
<1>9. Grows(l, m)
    BY <1>2, <1>3, <1>7, <1>8 DEF Grows, Sound
<1> QED
    BY <1>9 DEF m

\* A signature that is not refused is counted.
LEMMA SignatureGrows ==
    ASSUME NEW l, Sound(l), NEW s \in Signatures, SignatureRefusal(l, s) = None
    PROVE  Grows(l, ObserveSignature(l, s)) /\ s \in ObserveSignature(l, s).signatures
           /\ ObserveSignature(l, s).payloads = l.payloads
           /\ ObserveSignature(l, s).manifests = l.manifests
<1> DEFINE m == ObserveSignature(l, s)
<1>1. m \in Ledgers
    BY DEF Sound, Ledgers, ObserveSignature
<1>2. /\ m.requests = l.requests /\ m.credits = l.credits
      /\ m.signatures = l.signatures \cup {s} /\ m.transactions = l.transactions
      /\ m.manifests = l.manifests /\ m.accounts = l.accounts /\ m.payloads = l.payloads
    BY DEF Sound, Ledgers, ObserveSignature
<1>3. s \in l.signatures \/ ~(Cardinality(l.signatures) >= MaxSignatures)
    BY Named DEF SignatureRefusal, Budgets
<1>4. l.signatures \in SUBSET Signatures /\ Cardinality(l.signatures) <= MaxSignatures
    BY DEF Sound, Ledgers, Spends
<1>5. Cardinality(m.signatures) <= MaxSignatures
    BY <1>2, <1>3, <1>4, OneMore, InvestigationAssumption
<1> HIDE DEF m
<1>6. Kept(m) = Kept(l)
    BY <1>2 DEF Kept
<1>7. Spends(m) /\ Counts(m) /\ Copies(m) /\ Agrees(m)
    BY <1>2, <1>5, <1>6 DEF Sound, Spends, Counts, Copies, Agrees
<1>8. Grows(l, m) /\ s \in m.signatures /\ m.payloads = l.payloads /\ m.manifests = l.manifests
    BY <1>1, <1>2, <1>7 DEF Grows, Sound
<1> QED
    BY <1>8 DEF m

\* A transaction that is not refused is counted, and kept; one that is kept and
\* counted already disturbs nothing.
LEMMA TransactionGrows ==
    ASSUME NEW l, Sound(l), NEW s \in Signatures, NEW found \in BOOLEAN,
           TransactionRefusal(l, s) = None
    PROVE  /\ Grows(l, ObserveTransaction(l, s, found))
           /\ s \in ObserveTransaction(l, s, found).signatures
           /\ ObserveTransaction(l, s, found).manifests = l.manifests
           /\ s \in Kept(l) => ObserveTransaction(l, s, found).payloads = l.payloads
<1> DEFINE m == [l EXCEPT !.signatures = @ \cup {s}, !.transactions = @ \cup {s}]
<1>1. m \in Ledgers
    BY DEF Sound, Ledgers
<1>2. /\ m.requests = l.requests /\ m.credits = l.credits
      /\ m.signatures = l.signatures \cup {s} /\ m.transactions = l.transactions \cup {s}
      /\ m.manifests = l.manifests /\ m.accounts = l.accounts /\ m.payloads = l.payloads
    BY DEF Sound, Ledgers
<1>3. /\ s \in l.signatures \/ ~(Cardinality(l.signatures) >= MaxSignatures)
      /\ s \in l.transactions \/ ~(Cardinality(l.transactions) >= MaxTransactions)
    BY Named DEF SignatureRefusal, TransactionRefusal, Budgets
<1>4. /\ l.signatures \in SUBSET Signatures /\ Cardinality(l.signatures) <= MaxSignatures
      /\ l.transactions \in SUBSET Signatures /\ Cardinality(l.transactions) <= MaxTransactions
    BY DEF Sound, Ledgers, Spends
<1>5. Cardinality(l.signatures \cup {s}) <= MaxSignatures
    BY <1>3, <1>4, OneMore, InvestigationAssumption
<1>6. Cardinality(l.transactions \cup {s}) <= MaxTransactions
    BY <1>3, <1>4, OneMore, InvestigationAssumption
<1> HIDE DEF m
<1>7. Kept(m) = Kept(l)
    BY <1>2 DEF Kept
<1>8. Spends(m) /\ Counts(m) /\ Copies(m) /\ Agrees(m)
    BY <1>2, <1>5, <1>6, <1>7 DEF Sound, Spends, Counts, Copies, Agrees
<1>9. Sound(m)
    BY <1>1, <1>8 DEF Sound
<1>10. CASE s \in l.signatures \cap l.transactions \cap Kept(l)
    <2>1. ObserveTransaction(l, s, found) = m
        BY <1>10 DEF ObserveTransaction, m
    <2> QED
        BY <1>2, <1>9, <2>1 DEF Grows
<1>11. CASE s \notin l.signatures \cap l.transactions \cap Kept(l)
    <2>1. ObserveTransaction(l, s, found) = Remember(m, s, found)
        BY <1>11 DEF ObserveTransaction, m
    <2>2. PICK window \in Seq(Payload) :
             /\ ToSet(window) \subseteq ToSet(m.payloads) \cup {[id |-> s, found |-> found]}
             /\ Remember(m, s, found) = [m EXCEPT !.payloads = window]
        BY <1>1, RememberedWindow
    <2>3. \A x \in ToSet(m.payloads) : x.id \in m.signatures \cap m.transactions
        BY <1>8, WindowEntries DEF Counts
    <2>4. \A x \in ToSet(window) : x.id \in m.signatures \cap m.transactions
        BY <1>2, <2>2, <2>3
    <2>5. LET n == [m EXCEPT !.payloads = window] IN
          /\ Grows(m, n) /\ n.payloads = window /\ n.manifests = m.manifests
          /\ n.signatures = m.signatures
        BY <1>9, <2>4, WindowSound
    <2>6. s \notin Kept(l)
        BY <1>11 DEF Sound, Counts
    <2> QED
        BY <1>2, <2>1, <2>2, <2>5, <2>6 DEF Grows
<1> QED
    BY <1>10, <1>11

LEMMA Narrowed ==
    ASSUME NEW S, NEW K, NEW q \in Seq(S), ToSet(q) \subseteq K
    PROVE  q \in Seq(K)
<1>1. \A i \in 1..Len(q) : q[i] \in K
    BY DEF ToSet
<1>2. q \in [1..Len(q) -> K] /\ Len(q) \in Nat
    BY <1>1
<1> QED
    BY <1>2

\* The rows of a page of history, and those of them that have a signature.
LEMMA PageRows ==
    ASSUME NEW a \in Addresses, NEW p \in DOMAIN History[a]
    PROVE  /\ p \in 1..Len(History[a]) /\ Len(History[a]) \in Nat \ {0}
           /\ History[a][p] \in Seq(Signatures \cup {None})
           /\ Sieve(History[a][p], Signatures) \in Seq(Signatures)
           /\ ToSet(Sieve(History[a][p], Signatures)) = ToSet(History[a][p]) \ {None}
<1>1. History[a] \in Seq(Seq(Signatures \cup {None})) /\ History[a] # <<>>
    BY HistoryPagesAssumption
<1>2. DOMAIN History[a] = 1..Len(History[a]) /\ Len(History[a]) \in Nat \ {0}
    BY <1>1
<1>3. History[a][p] \in Seq(Signatures \cup {None})
    BY <1>1, <1>2
<1> DEFINE rows == History[a][p]
           signed == Sieve(rows, Signatures)
<1>4. signed \in Seq(Signatures \cup {None}) /\ ToSet(signed) = ToSet(rows) \cap Signatures
    BY <1>3, Sieved
<1>5. signed \in Seq(Signatures)
    <2> HIDE DEF signed
    <2> QED
        BY <1>4, Narrowed
<1>6. ToSet(rows) \subseteq Signatures \cup {None}
    BY <1>3, Listed
<1>7. ToSet(rows) \cap Signatures = ToSet(rows) \ {None}
    BY <1>6, Named
<1> QED
    BY <1>2, <1>3, <1>4, <1>5, <1>7

LEMMA PageFound ==
    ASSUME NEW l, Sound(l), NEW a \in Addresses, NEW p,
           \E m \in l.manifests : m.key = <<a, p>>
    PROVE  LET m == Manifest(l, <<a, p>>) IN
           /\ p \in DOMAIN History[a] /\ m.rows = Sieve(History[a][p], Signatures)
           /\ m.rows \in Seq(Signatures) /\ Follows(m.token, p, Len(History[a]))
<1> DEFINE m == Manifest(l, <<a, p>>)
<1>1. m \in l.manifests /\ m.key = <<a, p>>
    BY DEF Manifest
<1> HIDE DEF m
<1>2. /\ p \in DOMAIN History[a] /\ m.rows = Sieve(History[a][p], Signatures)
      /\ Follows(m.token, p, Len(History[a]))
    BY <1>1 DEF Sound, Copies
<1>3. m.rows \in Seq(Signatures)
    BY <1>2, PageRows
<1> QED
    BY <1>2, <1>3 DEF m

\* A replay changes the order of the window and nothing else.
LEMMA ReplayGrows ==
    ASSUME NEW l, Sound(l), NEW a \in Addresses, NEW p,
           \E m \in l.manifests : m.key = <<a, p>>
    PROVE  LET m == ManifestGet(l, <<a, p>>) IN
           /\ Grows(l, m) /\ m.manifests = l.manifests
           /\ \A s : Usable(m, s) <=> Usable(l, s)
<1> DEFINE key == <<a, p>>
<1>1. Manifest(l, key).rows \in Seq(Signatures) /\ l \in Ledgers
    BY PageFound DEF Sound
<1>2. PICK window \in Seq(Payload) :
         ToSet(window) = ToSet(l.payloads) /\ ManifestGet(l, key) = [l EXCEPT !.payloads = window]
    <2> HIDE DEF key
    <2> QED
        BY <1>1, ReplayedWindow
<1>3. \A x \in ToSet(l.payloads) : x.id \in l.signatures \cap l.transactions
    BY WindowEntries DEF Counts, Sound
<1>4. LET m == [l EXCEPT !.payloads = window] IN
      /\ Grows(l, m) /\ m.payloads = window /\ m.manifests = l.manifests
      /\ m.signatures = l.signatures
    BY <1>2, <1>3, WindowSound
<1> DEFINE m == ManifestGet(l, key)
<1>5. Grows(l, m) /\ m.payloads = window /\ m.manifests = l.manifests
    BY <1>2, <1>4
<1> HIDE DEF m
<1>6. \A s : Usable(m, s) <=> Usable(l, s)
    BY <1>2, <1>5, WindowEntries
<1> QED
    BY <1>5, <1>6 DEF m

LEMMA UseGrows ==
    ASSUME NEW l, Sound(l), NEW s
    PROVE  Grows(l, TransactionGet(l, s))
<1>1. CASE s \in Kept(l)
    <2> DEFINE window == Moved(l.payloads, s)
    <2>1. l.payloads \in Seq(Payload)
        BY DEF Sound, Ledgers
    <2>2. window \in Seq(Payload) /\ ToSet(window) = ToSet(l.payloads)
        BY <2>1, MovedKeeps
    <2>3. \A x \in ToSet(l.payloads) : x.id \in l.signatures \cap l.transactions
        BY WindowEntries DEF Counts, Sound
    <2>4. TransactionGet(l, s) = [l EXCEPT !.payloads = window]
        BY <1>1 DEF TransactionGet
    <2> HIDE DEF window
    <2>5. LET m == [l EXCEPT !.payloads = window] IN
          /\ Grows(l, m) /\ m.payloads = window /\ m.manifests = l.manifests
          /\ m.signatures = l.signatures
        BY <2>2, <2>3, WindowSound
    <2> QED
        BY <2>4, <2>5
<1>2. CASE s \notin Kept(l)
    BY <1>2 DEF TransactionGet, Grows
<1> QED
    BY <1>1, <1>2

\* The manifest of a page read to its end.
LEMMA ManifestGrows ==
    ASSUME NEW l, Sound(l), NEW a \in Addresses, NEW p \in DOMAIN History[a],
           NEW token \in Nat \cup {None}, Follows(token, p, Len(History[a]))
    PROVE  Grows(l, ManifestSet(l, <<a, p>>, Sieve(History[a][p], Signatures), token))
<1> DEFINE key == <<a, p>>
           rows == Sieve(History[a][p], Signatures)
           new == [key |-> key, rows |-> rows, token |-> token]
           manifests == {m \in l.manifests : m.key # key} \cup {new}
           k == [l EXCEPT !.manifests = manifests]
<1>1. rows \in Seq(Signatures) /\ p \in Nat
    BY PageRows
<1>2. new \in PageManifest
    BY <1>1 DEF PageManifest
<1>3. /\ new.key[1] = a /\ new.key[2] = p /\ new.rows = Sieve(History[a][p], Signatures)
      /\ new.token = token
    OBVIOUS
<1> HIDE DEF new
<1>4. k \in Ledgers
    BY <1>2 DEF Sound, Ledgers
<1>5. /\ k.requests = l.requests /\ k.credits = l.credits
      /\ k.signatures = l.signatures /\ k.transactions = l.transactions
      /\ k.manifests = manifests /\ k.accounts = l.accounts /\ k.payloads = l.payloads
    BY DEF Sound, Ledgers
<1>6. \A m \in manifests : m = new \/ m \in l.manifests
    OBVIOUS
<1> HIDE DEF k, manifests
<1>7. Copies(k)
    BY <1>3, <1>5, <1>6 DEF Sound, Copies
<1>8. Kept(k) = Kept(l)
    BY <1>5 DEF Kept
<1>9. Spends(k) /\ Counts(k) /\ Agrees(k)
    BY <1>5, <1>8 DEF Sound, Spends, Counts, Agrees
<1>10. Grows(l, k) /\ Grows(l, l)
    BY <1>4, <1>5, <1>7, <1>9 DEF Grows, Sound
<1>11. ManifestSet(l, key, rows, token) \in {l, k}
    BY DEF ManifestSet, k, manifests, new
<1> QED
    BY <1>10, <1>11

LEMMA AnswerGrows ==
    ASSUME NEW l, Sound(l), NEW s \in Signatures, NEW found \in BOOLEAN
    PROVE  Grows(l, [l EXCEPT !.answers = @ \cup {[id |-> s, found |-> found]}])
<1> DEFINE m == [l EXCEPT !.answers = @ \cup {[id |-> s, found |-> found]}]
<1>1. m \in Ledgers
    BY DEF Sound, Ledgers, Payload
<1>2. /\ m.requests = l.requests /\ m.credits = l.credits
      /\ m.signatures = l.signatures /\ m.transactions = l.transactions
      /\ m.manifests = l.manifests /\ m.accounts = l.accounts /\ m.payloads = l.payloads
    BY DEF Sound, Ledgers
<1> HIDE DEF m
<1>3. Kept(m) = Kept(l)
    BY <1>2 DEF Kept
<1>4. Spends(m) /\ Counts(m) /\ Copies(m) /\ Agrees(m)
    BY <1>2, <1>3 DEF Sound, Spends, Counts, Copies, Agrees
<1>5. Grows(l, m)
    BY <1>1, <1>2, <1>4 DEF Grows, Sound
<1> QED
    BY <1>5 DEF m

\* Records are stored of accounts that have none.
LEMMA AccountsSound ==
    ASSUME NEW l, Sound(l), NEW chunk \in SUBSET Accounts, NEW state \in [Accounts -> Nat],
           \A x \in chunk : Record(l, x) = {}
    PROVE  LET m == [l EXCEPT !.accounts = @ \cup {[id |-> x, value |-> state[x]] : x \in chunk}] IN
           /\ Sound(m) /\ m.signatures = l.signatures
           /\ m.accounts = l.accounts \cup {[id |-> x, value |-> state[x]] : x \in chunk}
<1> DEFINE new == {[id |-> x, value |-> state[x]] : x \in chunk}
           m == [l EXCEPT !.accounts = @ \cup new]
<1>1. new \in SUBSET [id : Accounts, value : Nat]
    OBVIOUS
<1>2. \A r \in new : r.id \in chunk /\ r.value = state[r.id]
    OBVIOUS
<1>3. \A r1, r2 \in new : r1.id = r2.id => r1 = r2
    BY <1>1, <1>2
<1>4. \A r1 \in l.accounts, r2 \in new : r1.id # r2.id
    BY <1>2 DEF Record
<1> HIDE DEF new
<1>5. m \in Ledgers
    BY <1>1 DEF Sound, Ledgers
<1>6. /\ m.requests = l.requests /\ m.credits = l.credits
      /\ m.signatures = l.signatures /\ m.transactions = l.transactions
      /\ m.manifests = l.manifests /\ m.accounts = l.accounts \cup new /\ m.payloads = l.payloads
    BY DEF Sound, Ledgers
<1> HIDE DEF m
<1>7. Kept(m) = Kept(l)
    BY <1>6 DEF Kept
<1>8. Agrees(m)
    BY <1>3, <1>4, <1>6 DEF Agrees, Sound
<1>9. Spends(m) /\ Counts(m) /\ Copies(m)
    BY <1>6, <1>7 DEF Sound, Spends, Counts, Copies
<1>10. Sound(m) /\ m.signatures = l.signatures /\ m.accounts = l.accounts \cup new
    BY <1>5, <1>6, <1>8, <1>9 DEF Sound
<1> QED
    BY <1>10 DEF m, new
-----------------------------------------------------------------------------
(***************************************************************************)
(* What the steps have in common                                           *)
(***************************************************************************)

\* The rows of the page a call reads.
LEMMA CallRows ==
    ASSUME Inv, call.kind \in Paged
    PROVE  /\ Len(Pages(call)) \in Nat /\ call.page \in 1..Len(Pages(call))
           /\ DOMAIN Pages(call) = 1..Len(Pages(call))
           /\ Rows(call) \in Seq(Row \cup {None})
           /\ call.kind = "history" => Rows(call) \in Seq(Signatures \cup {None})
           /\ call.kind = "transfers" => Rows(call) \in Seq(Signatures \X Nat)
<1>1. call.address \in Addresses /\ call.page \in DOMAIN Pages(call)
    BY DEF Inv, Calling
<1> DEFINE a == call.address
<1>2. CASE call.kind = "history"
    <2>1. Pages(call) = History[a] /\ History[a] \in Seq(Seq(Signatures \cup {None}))
        BY <1>1, <1>2, HistoryPagesAssumption DEF Pages
    <2>2. Rows(call) \in Seq(Signatures \cup {None})
        BY <1>1, <2>1 DEF Rows
    <2>3. \A i \in DOMAIN Rows(call) : Rows(call)[i] \in Row \cup {None}
        BY <2>2 DEF Row
    <2>4. ToSet(Rows(call)) \subseteq Row \cup {None}
        BY <2>3 DEF ToSet
    <2>5. Rows(call) \in Seq(Row \cup {None})
        BY <2>2, <2>4, Narrowed
    <2> QED
        BY <1>1, <1>2, <2>1, <2>2, <2>5
<1>3. CASE call.kind = "transfers"
    <2>1. Pages(call) = Transfers[a] /\ Transfers[a] \in Seq(Seq(Signatures \X Nat))
        BY <1>1, <1>3, HistoryPagesAssumption DEF Pages
    <2>2. Rows(call) \in Seq(Signatures \X Nat)
        BY <1>1, <2>1 DEF Rows
    <2>3. \A i \in DOMAIN Rows(call) : Rows(call)[i] \in Row \cup {None}
        BY <2>2 DEF Row
    <2>4. ToSet(Rows(call)) \subseteq Row \cup {None}
        BY <2>3 DEF ToSet
    <2>5. Rows(call) \in Seq(Row \cup {None})
        BY <2>2, <2>4, Narrowed
    <2> QED
        BY <1>1, <1>3, <2>1, <2>2, <2>5
<1> QED
    BY <1>2, <1>3 DEF Paged

\* In a replay the manifest of the page lists the rows that have a signature.
LEMMA ReplayRows ==
    ASSUME Inv, call.stage = "replay"
    PROVE  /\ Manifest(ledger, Key(call)).rows = Copy
           /\ Copy \in Seq(Signatures) /\ ToSet(Copy) = ToSet(Rows(call)) \ {None}
           /\ Follows(Manifest(ledger, Key(call)).token, call.page, Len(Pages(call)))
<1>1. /\ call.kind = "history" /\ call.address \in Addresses /\ Pages(call) = History[call.address]
      /\ call.page \in DOMAIN History[call.address]
    BY DEF Inv, Calling, Pages, Paged
<1>2. Copy = Sieve(History[call.address][call.page], Signatures)
    BY <1>1 DEF Copy, Rows
<1>3. \E m \in ledger.manifests : m.key = <<call.address, call.page>>
    BY DEF Inv, Replays, Key
<1>4. LET m == Manifest(ledger, <<call.address, call.page>>) IN
      /\ m.rows = Sieve(History[call.address][call.page], Signatures)
      /\ m.rows \in Seq(Signatures) /\ Follows(m.token, call.page, Len(History[call.address]))
    BY <1>1, <1>3, PageFound DEF Inv
<1> QED
    BY <1>1, <1>2, <1>4, PageRows DEF Key, Rows

\* A ledger that grows forgets no charge and no record.
LEMMA GrowsKeeps ==
    ASSUME Inv, Grows(ledger, ledger'), delivered' = delivered, read' = read
    PROVE  /\ Told' /\ Sound(ledger') /\ \A x : Record(ledger', x) = Record(ledger, x)
           /\ result'.kind = result.kind \/ delivered = <<>> => Charged'
<1>1. \A x : Record(ledger', x) = Record(ledger, x)
    BY DEF Grows, Record
<1>2. Told'
    BY <1>1 DEF Inv, Told
<1>3. delivered = <<>> => ToSet(delivered) = {}
    BY DEF ToSet
<1>4. ASSUME result'.kind = result.kind
      PROVE  Charged'
    BY <1>4 DEF Inv, Charged, Grows
<1>5. ASSUME delivered = <<>>
      PROVE  Charged'
    BY <1>3, <1>5 DEF Charged
<1> QED
    BY <1>1, <1>2, <1>4, <1>5 DEF Grows

\* A call begins, or ends at once.
LEMMA Started ==
    ASSUME Inv, Sound(ledger'), Calling', Told', delivered' = <<>>,
           call' \in CallType, call'.stage \in {"idle", "page", "ask"},
           call'.kind \in Paged => call'.page = 1,
           result'.status = "complete" => result'.address = None,
           chain' = chain, read' \in [Accounts -> SUBSET Nat]
    PROVE  Inv'
<1>1. TypeOK'
    BY DEF Inv, TypeOK
<1>2. ToSet(delivered') = {}
    BY DEF ToSet
<1>3. Charged'
    BY <1>2 DEF Charged
<1>4. Progress' /\ Replays'
    BY DEF Progress, Replays
<1>5. DeliveredOnce'
    BY DEF DeliveredOnce, IsInjective
<1>6. CompleteHistory'
    BY DEF CompleteHistory
<1> QED
    BY <1>1, <1>3, <1>4, <1>5, <1>6 DEF Inv

\* A call ends.  One that claims a whole history has turned its last page.
LEMMA Ended ==
    ASSUME Inv, Grows(ledger, ledger'), NEW status, Finish(status),
           call.stage # "idle",
           status = "complete" /\ call.kind \in Paged =>
               \A p \in DOMAIN Pages(call) :
                   ToSet(Pages(call)[p]) \ {None} \subseteq ToSet(delivered),
           UNCHANGED <<delivered, chain, read>>
    PROVE  Inv'
<1>1. /\ call' = Idle /\ result'.status = status
      /\ result'.kind = call.kind /\ result'.address = call.address
    BY DEF Finish
<1>2. /\ Idle.stage = "idle" /\ Idle.kind = "none" /\ Idle.address = None
      /\ Idle \in CallType
    BY DEF Idle, CallType
<1>3. result'.kind = result.kind
    BY <1>1 DEF Inv, Calling
<1>4. TypeOK'
    BY <1>1, <1>2 DEF Inv, TypeOK
<1>5. Sound(ledger') /\ Told' /\ Charged'
    BY <1>3, GrowsKeeps
<1>6. Calling' /\ Replays' /\ Progress'
    BY <1>1, <1>2 DEF Calling, Replays, Progress, Paged
<1>7. DeliveredOnce'
    BY DEF Inv, DeliveredOnce
<1>8. CompleteHistory'
    <2> SUFFICES ASSUME status = "complete", call.address # None
                 PROVE  LET pages == Pages([kind |-> call.kind, address |-> call.address]) IN
                        \A i \in DOMAIN pages : ToSet(pages[i]) \ {None} \subseteq ToSet(delivered)
        BY <1>1 DEF CompleteHistory
    <2>1. call.kind \in Paged
        BY DEF Inv, Calling
    <2>2. Pages([kind |-> call.kind, address |-> call.address]) = Pages(call)
        BY DEF Pages
    <2> QED
        BY <2>1, <2>2
<1> QED
    BY <1>4, <1>5, <1>6, <1>7, <1>8 DEF Inv

\* A call moves on without giving anything: to the request, to its answer, or to
\* the first row of the page.
LEMMA Restaged ==
    ASSUME Inv, Grows(ledger, ledger'), call.stage # "idle", call' \in CallType,
           call'.kind = call.kind, call'.address = call.address,
           call'.page = call.page, call'.tokens = call.tokens, call'.wanted = call.wanted,
           \/ call'.stage \in {"ask", "sent"}
           \/ call'.stage = "rows" /\ call'.row = 0 /\ call.kind \in Paged
           \/ call'.stage = "replay" /\ call'.row = 0 /\ call.kind = "history" /\ Replays',
           UNCHANGED <<delivered, result, chain, read>>
    PROVE  Inv'
<1>1. TypeOK'
    BY DEF Inv, TypeOK
<1>2. /\ Sound(ledger') /\ Told' /\ Charged'
      /\ \A x : Record(ledger', x) = Record(ledger, x)
    BY GrowsKeeps
<1>3. Pages(call') = Pages(call) /\ Rows(call') = Rows(call)
    BY DEF Pages, Rows
<1>4. Calling'
    <2>1. call'.stage # "idle" /\ call'.stage # "page" /\ call.kind # "none"
        BY DEF Inv, Calling
    <2> QED
        BY <1>2, <1>3, <2>1 DEF Inv, Calling, Paged
<1>5. Replays'
    BY DEF Replays
<1>6. Progress'
    <2>2. ASSUME call'.stage = "rows"
          PROVE  GivenUpTo(call.row, Rows(call))'
        <3>1. call'.row = 0 /\ Rows(call') \in Seq(Row \cup {None})
            BY <1>3, <2>2, CallRows
        <3> QED
            BY <3>1 DEF GivenUpTo
    <2>3. ASSUME call'.stage = "replay"
          PROVE  GivenUpTo(call.row, Copy)'
        <3>1. call'.row = 0 /\ Rows(call') \in Seq(Row \cup {None})
            BY <1>3, <2>3, CallRows DEF Paged
        <3>2. Copy' \in Seq(Row \cup {None})
            BY <3>1, Sieved DEF Copy
        <3> QED
            BY <3>1, <3>2 DEF GivenUpTo
    <2> QED
        BY <1>3, <2>2, <2>3 DEF Inv, Progress
<1>7. DeliveredOnce' /\ CompleteHistory'
    BY DEF Inv, DeliveredOnce, CompleteHistory
<1> QED
    BY <1>1, <1>2, <1>4, <1>5, <1>6, <1>7 DEF Inv

\* A page read to its end is turned: the token leads to the next one, to one that
\* was read before, or there is none.
LEMMA Turned ==
    ASSUME Inv, Grows(ledger, ledger'), call.kind \in Paged,
           NEW token, Follows(token, call.page, Len(Pages(call))), TurnPage(token),
           ToSet(Rows(call)) \ {None} \subseteq ToSet(delivered),
           UNCHANGED <<delivered, chain, read>>
    PROVE  Inv'
<1> DEFINE n == Len(Pages(call))
<1>1. /\ n \in Nat /\ call.page \in 1..n /\ DOMAIN Pages(call) = 1..n
      /\ call.stage # "idle" /\ call.tokens = 2..call.page
    BY CallRows DEF Inv, Calling, Paged
<1>2. \A p \in 1..call.page : ToSet(Pages(call)[p]) \ {None} \subseteq ToSet(delivered)
    <2>1. \A p \in 1..call.page : p = call.page \/ p \in 1..call.page - 1
        BY <1>1
    <2> QED
        BY <2>1 DEF Inv, Progress, Rows
<1>3. CASE token = None
    <2>1. call.page = n
        BY <1>1, <1>3, Named DEF Follows
    <2> QED
        BY <1>1, <1>2, <1>3, <2>1, Ended DEF TurnPage
<1>4. CASE token # None /\ token \in call.tokens
    <2>1. Finish("repeated")
        BY <1>4 DEF TurnPage
    <2> QED
        BY <1>1, <2>1, Ended
<1>5. CASE token # None /\ token \notin call.tokens
    <2>1. token = call.page + 1 /\ token \in 2..n
        BY <1>1, <1>5 DEF Follows
    <2>2. /\ call' = [call EXCEPT !.stage = "page", !.pages = @ + 1, !.page = token,
                                  !.row = 0, !.tokens = @ \cup {token}]
          /\ result' = result
        BY <1>5 DEF TurnPage
    <2>3. call \in CallType
        BY DEF Inv, TypeOK
    <2>4. call' \in CallType
        <3>1. call.pages + 1 \in Nat /\ token \in Nat /\ call.tokens \cup {token} \in SUBSET Nat
            BY <2>1, <2>3 DEF CallType
        <3> QED
            BY <2>2, <2>3, <3>1 DEF CallType
    <2>5. /\ call'.stage = "page" /\ call'.kind = call.kind /\ call'.address = call.address
          /\ call'.page = token /\ call'.tokens = call.tokens \cup {token}
        BY <2>2, <2>3 DEF CallType
    <2>6. Pages(call') = Pages(call)
        BY <2>5 DEF Pages
    <2>7. call'.tokens = 2..call'.page
        BY <1>1, <2>1, <2>5
    <2>8. Calling'
        BY <1>1, <2>1, <2>2, <2>5, <2>6, <2>7 DEF Inv, Calling, Paged
    <2>9. TypeOK' /\ Replays'
        BY <2>4, <2>5 DEF Inv, TypeOK, Replays
    <2>10. Sound(ledger') /\ Told' /\ Charged'
        BY <2>2, GrowsKeeps
    <2>11. Progress'
        <3>1. call'.page - 1 = call.page
            BY <1>1, <2>1, <2>5
        <3> QED
            BY <1>2, <2>5, <2>6, <3>1 DEF Progress
    <2>12. DeliveredOnce' /\ CompleteHistory'
        BY <2>2 DEF Inv, DeliveredOnce, CompleteHistory
    <2> QED
        BY <2>8, <2>9, <2>10, <2>11, <2>12 DEF Inv
<1> QED
    BY <1>3, <1>4, <1>5

\* What was given stays, and the row is given unless it was before.
LEMMA Delivering ==
    ASSUME Inv, NEW row \in Row, Deliver(row)
    PROVE  /\ delivered' \in Seq(Row) /\ ToSet(delivered') = ToSet(delivered) \cup {row}
           /\ DeliveredOnce'
<1>1. delivered \in Seq(Row) /\ IsInjective(delivered)
    BY DEF Inv, TypeOK, DeliveredOnce
<1>2. CASE row \in ToSet(delivered)
    BY <1>1, <1>2 DEF Deliver, DeliveredOnce
<1>3. CASE row \notin ToSet(delivered)
    <2>1. delivered' = Append(delivered, row)
        BY <1>3 DEF Deliver
    <2> DEFINE n == Len(delivered)
    <2>2. /\ n \in Nat /\ DOMAIN delivered = 1..n /\ DOMAIN delivered' = 1..n + 1
          /\ delivered' \in Seq(Row) /\ delivered'[n + 1] = row
          /\ \A i \in 1..n : delivered'[i] = delivered[i]
        BY <1>1, <2>1
    <2>3. \A i \in 1..n + 1 : i = n + 1 \/ i \in 1..n
        BY <2>2
    <2>4. \A i \in 1..n : i \in 1..n + 1 /\ delivered[i] # row
        BY <1>3, <2>2 DEF ToSet
    <2>5. n + 1 \in 1..n + 1
        BY <2>2
    <2> HIDE DEF n
    <2>6. ToSet(delivered') = ToSet(delivered) \cup {row}
        BY <2>2, <2>3, <2>4, <2>5 DEF ToSet
    <2>7. IsInjective(delivered')
        BY <1>1, <2>2, <2>3, <2>4 DEF IsInjective
    <2> QED
        BY <2>2, <2>6, <2>7 DEF DeliveredOnce
<1> QED
    BY <1>2, <1>3

\* A row is passed: it was given, or has no signature.
LEMMA Advanced ==
    ASSUME Inv, Grows(ledger, ledger'), call.stage \in {"rows", "replay"}, NEW row,
           call' = [call EXCEPT !.row = @ + 1], UNCHANGED <<result, chain, read>>,
           delivered' \in Seq(Row), DeliveredOnce', Charged',
           ToSet(delivered) \subseteq ToSet(delivered'), row \in ToSet(delivered') \cup {None},
           call.stage = "rows" => call.row < Len(Rows(call)) /\ row = Rows(call)[call.row + 1],
           call.stage = "replay" =>
               call.row < Len(Copy) /\ row = Copy[call.row + 1] /\ Replays'
    PROVE  Inv'
<1>1. call \in CallType /\ call.row \in Nat
    BY DEF Inv, TypeOK, CallType
<1>2. call' \in CallType
    BY <1>1 DEF CallType
<1>3. /\ call'.stage = call.stage /\ call'.kind = call.kind /\ call'.address = call.address
      /\ call'.page = call.page /\ call'.tokens = call.tokens /\ call'.wanted = call.wanted
      /\ call'.row = call.row + 1
    BY <1>1 DEF CallType
<1>4. Pages(call') = Pages(call) /\ Rows(call') = Rows(call) /\ Copy' = Copy
    BY <1>3 DEF Pages, Rows, Copy
<1>5. call.kind \in Paged /\ call.kind # "accounts"
    BY DEF Inv, Calling, Paged
<1>6. TypeOK'
    BY <1>2 DEF Inv, TypeOK
<1>7. Calling'
    BY <1>3, <1>4, <1>5 DEF Inv, Calling
<1>8. Replays'
    BY <1>3 DEF Replays
<1>9. ASSUME NEW q, GivenUpTo(call.row, q), Len(q) \in Nat, call.row < Len(q),
             row = q[call.row + 1]
      PROVE  /\ call.row + 1 <= Len(q)
             /\ \A i \in 1..call.row + 1 : q[i] \in ToSet(delivered') \cup {None}
    <2>1. \A i \in 1..call.row + 1 : i = call.row + 1 \/ i \in 1..call.row
        BY <1>1
    <2> QED
        BY <1>1, <1>9, <2>1 DEF GivenUpTo
<1>10. call.stage = "rows" => GivenUpTo(call.row, Rows(call))'
    <2> SUFFICES ASSUME call.stage = "rows"
                 PROVE  GivenUpTo(call.row, Rows(call))'
        OBVIOUS
    <2>1. GivenUpTo(call.row, Rows(call)) /\ Len(Rows(call)) \in Nat
        BY <1>5, CallRows DEF Inv, Progress
    <2> QED
        BY <1>3, <1>4, <1>9, <2>1 DEF GivenUpTo
<1>11. call.stage = "replay" => GivenUpTo(call.row, Copy)'
    <2> SUFFICES ASSUME call.stage = "replay"
                 PROVE  GivenUpTo(call.row, Copy)'
        OBVIOUS
    <2>1. GivenUpTo(call.row, Copy) /\ Len(Copy) \in Nat
        BY ReplayRows DEF Inv, Progress
    <2> QED
        BY <1>3, <1>4, <1>9, <2>1 DEF GivenUpTo
<1>12. Progress'
    BY <1>3, <1>4, <1>10, <1>11 DEF Inv, Progress
<1>13. Told' /\ Sound(ledger')
    BY DEF Inv, Told, Grows, Record
<1>14. CompleteHistory'
    <2>1. result.status # "complete"
        BY DEF Inv, Calling
    <2> QED
        BY <2>1 DEF CompleteHistory
<1> QED
    BY <1>6, <1>7, <1>8, <1>12, <1>13, <1>14 DEF Inv

LEMMA StillReplays ==
    ASSUME Inv, call' = [call EXCEPT !.row = @ + 1],
           ledger'.manifests = ledger.manifests, ledger'.payloads = ledger.payloads
    PROVE  Replays'
<1>1. call \in CallType
    BY DEF Inv, TypeOK
<1>2. /\ call'.stage = call.stage /\ call'.kind = call.kind
      /\ call'.address = call.address /\ call'.page = call.page
    BY <1>1 DEF CallType
<1>3. Copy' = Copy /\ Key(call') = Key(call)
    BY <1>2 DEF Copy, Rows, Pages, Key
<1>4. \A s : Usable(ledger', s) <=> Usable(ledger, s)
    BY WindowEntries
<1> QED
    BY <1>2, <1>3, <1>4 DEF Inv, Replays

\* A row of a page of history, streamed or replayed.
LEMMA HistoryGiven ==
    ASSUME Inv, call.stage \in {"rows", "replay"}, call.kind = "history",
           NEW row \in Signatures \cup {None}, HistoryRow(row), UNCHANGED <<chain, read>>,
           call.stage = "rows" => call.row < Len(Rows(call)) /\ row = Rows(call)[call.row + 1],
           call.stage = "replay" =>
               /\ call.row < Len(Copy) /\ row = Copy[call.row + 1]
               /\ Usable(ledger, row)
    PROVE  Inv'
<1>1. Sound(ledger) /\ Grows(ledger, ledger) /\ delivered \in Seq(Row) /\ DeliveredOnce /\ Charged
    BY DEF Inv, TypeOK, Grows
<1>2. CASE row = None
    <2>1. call' = [call EXCEPT !.row = @ + 1] /\ UNCHANGED <<ledger, delivered, result>>
        BY <1>2 DEF HistoryRow
    <2>2. Replays'
        BY <2>1, StillReplays
    <2>3. Charged' /\ DeliveredOnce'
        BY <1>1, <2>1 DEF Charged, DeliveredOnce
    <2> QED
        BY <1>1, <1>2, <2>1, <2>2, <2>3, Advanced
<1>3. CASE row # None /\ TransactionRefusal(ledger, row) # None
    <2>1. PICK budget : budget = TransactionRefusal(ledger, row)
        OBVIOUS
    <2>2. budget \in Budgets
        BY <1>3, <2>1, Refusals
    <2>3. ledger' = Terminate(ledger, budget) /\ Finish("budget") /\ delivered' = delivered
        BY <1>3, <2>1 DEF HistoryRow
    <2>4. Grows(ledger, ledger')
        BY <1>1, <2>2, <2>3, TerminateGrows
    <2> QED
        BY <2>3, <2>4, Ended
<1>4. CASE row # None /\ TransactionRefusal(ledger, row) = None
    <2>1. /\ ledger' = ObserveTransaction(ledger, row, TRUE) /\ Deliver(row)
          /\ call' = [call EXCEPT !.row = @ + 1] /\ result' = result
        BY <1>4 DEF HistoryRow
    <2>2. row \in Signatures /\ row \in Row
        BY <1>4 DEF Row
    <2>3. /\ Grows(ledger, ledger') /\ row \in ledger'.signatures
          /\ ledger'.manifests = ledger.manifests
          /\ row \in Kept(ledger) => ledger'.payloads = ledger.payloads
        BY <1>1, <1>4, <2>1, <2>2, TransactionGrows
    <2>4. /\ delivered' \in Seq(Row) /\ ToSet(delivered') = ToSet(delivered) \cup {row}
          /\ DeliveredOnce'
        BY <2>1, <2>2, Delivering
    <2>5. result.kind = "history" /\ "history" \in Paged
        BY DEF Inv, Calling, Paged
    <2>6. \A x \in ToSet(delivered') : x \in ledger'.signatures
        BY <1>1, <2>3, <2>4, <2>5 DEF Charged, Grows
    <2>7. Charged'
        BY <2>1, <2>5, <2>6 DEF Charged
    <2>8. call.stage = "replay" => Replays'
        <3>1. Usable(ledger, row) => row \in Kept(ledger)
            BY WindowEntries
        <3> QED
            BY <2>1, <2>3, <3>1, StillReplays
    <2> QED
        BY <2>1, <2>3, <2>4, <2>7, <2>8, Advanced
<1> QED
    BY <1>2, <1>3, <1>4

\* A row of the transfers of a mint.
LEMMA TransferGiven ==
    ASSUME Inv, call.stage = "rows", call.kind = "transfers",
           NEW row \in Signatures \X Nat, TransferRow(row), UNCHANGED <<chain, read>>,
           call.row < Len(Rows(call)), row = Rows(call)[call.row + 1]
    PROVE  Inv'
<1>1. Sound(ledger) /\ Charged
    BY DEF Inv
<1>2. PICK s \in Signatures : s = row[1]
    OBVIOUS
<1>3. CASE SignatureRefusal(ledger, s) # None
    <2>1. PICK budget : budget = SignatureRefusal(ledger, s)
        OBVIOUS
    <2>2. budget \in Budgets
        BY <1>3, <2>1, Refusals
    <2>3. ledger' = Terminate(ledger, budget) /\ Finish("budget") /\ delivered' = delivered
        BY <1>2, <1>3, <2>1 DEF TransferRow
    <2>4. Grows(ledger, ledger')
        BY <1>1, <2>2, <2>3, TerminateGrows
    <2> QED
        BY <2>3, <2>4, Ended
<1>4. CASE SignatureRefusal(ledger, s) = None
    <2>1. /\ ledger' = ObserveSignature(ledger, s) /\ Deliver(row)
          /\ call' = [call EXCEPT !.row = @ + 1] /\ result' = result
        BY <1>2, <1>4 DEF TransferRow
    <2>2. Grows(ledger, ledger') /\ s \in ledger'.signatures
        BY <1>1, <1>4, <2>1, SignatureGrows
    <2>3. row \in Row
        BY DEF Row
    <2>4. /\ delivered' \in Seq(Row) /\ ToSet(delivered') = ToSet(delivered) \cup {row}
          /\ DeliveredOnce'
        BY <2>1, <2>3, Delivering
    <2>5. result.kind = "transfers" /\ "transfers" \in Paged
        BY DEF Inv, Calling, Paged
    <2>6. row \in ledger'.signatures \X Nat
        BY <1>2, <2>2
    <2>7. \A x \in ToSet(delivered) : x \in ledger'.signatures \X Nat
        BY <1>1, <2>2, <2>5 DEF Charged, Grows
    <2>8. Charged'
        BY <2>1, <2>4, <2>5, <2>6, <2>7 DEF Charged
    <2> QED
        BY <2>1, <2>2, <2>4, <2>8, Advanced
<1> QED
    BY <1>3, <1>4
-----------------------------------------------------------------------------
(***************************************************************************)
(* The actions                                                             *)
(***************************************************************************)
LEMMA InitHolds == Init => Inv
<1> SUFFICES ASSUME Init
             PROVE  Inv
    OBVIOUS
<1>1. TypeOK
    BY DEF Init, TypeOK, Idle, CallType
<1>2. Sound(ledger)
    BY FreshSound DEF Init
<1>3. Calling /\ Replays /\ Progress
    BY DEF Init, Calling, Replays, Progress, Idle, Paged
<1>4. ToSet(delivered) = {}
    BY DEF Init, ToSet
<1>5. Charged /\ Told /\ DeliveredOnce /\ CompleteHistory
    BY <1>4 DEF Init, Charged, Told, DeliveredOnce, IsInjective, CompleteHistory
<1> QED
    BY <1>1, <1>2, <1>3, <1>5 DEF Inv

LEMMA BeginPages ==
    ASSUME Inv, NEW a \in Addresses, NEW limit \in PageLimits,
           BeginHistory(a, limit) \/ BeginTransfers(a, limit)
    PROVE  Inv'
<1>1. PICK kind \in Paged :
         /\ Begin(kind, a, "none")
         /\ call' = [Idle EXCEPT !.stage = "page", !.kind = kind, !.address = a, !.limit = limit]
         /\ UNCHANGED <<ledger, chain, read>>
    BY DEF BeginHistory, BeginTransfers, Paged
<1>2. /\ call' \in CallType /\ call'.stage = "page" /\ call'.kind = kind /\ call'.address = a
      /\ call'.page = 1 /\ call'.tokens = {}
    BY <1>1, HistoryPagesAssumption DEF Idle, CallType, Paged
<1>3. delivered' = <<>> /\ result'.status = "none" /\ result'.kind = kind
    BY <1>1 DEF Begin
<1>4. 1 \in DOMAIN Pages(call')
    <2>1. Pages(call') \in {History[a], Transfers[a]}
        BY <1>2 DEF Pages
    <2>2. \A S : \A q \in Seq(S) : q # <<>> => 1 \in DOMAIN q
        OBVIOUS
    <2>3. 1 \in DOMAIN History[a]
        BY PageRows, <2>2, HistoryPagesAssumption
    <2>4. 1 \in DOMAIN Transfers[a]
        BY <2>2, HistoryPagesAssumption
    <2> QED
        BY <2>1, <2>3, <2>4
<1>5. Calling'
    <2>1. 2..1 = {}
        OBVIOUS
    <2> QED
        BY <1>2, <1>3, <1>4, <2>1 DEF Calling, Paged
<1>6. Sound(ledger') /\ Told' /\ read' \in [Accounts -> SUBSET Nat] /\ chain' = chain
    BY <1>1 DEF Inv, TypeOK, Told
<1> QED
    BY <1>2, <1>3, <1>5, <1>6, Started

LEMMA BeginEarly ==
    ASSUME Inv, NEW a \in Addresses, BeginBeforeIndex(a)
    PROVE  Inv'
<1>1. /\ call' = Idle /\ delivered' = <<>> /\ result'.status = "early"
      /\ UNCHANGED <<ledger, chain, read>>
    BY DEF BeginBeforeIndex, Begin
<1>2. Idle \in CallType /\ Idle.stage = "idle" /\ Idle.kind = "none" /\ Idle.address = None
    BY DEF Idle, CallType
<1>3. Calling'
    BY <1>1, <1>2 DEF Calling, Paged
<1>4. Sound(ledger') /\ Told' /\ read' \in [Accounts -> SUBSET Nat] /\ chain' = chain
    BY <1>1 DEF Inv, TypeOK, Told
<1> QED
    BY <1>1, <1>2, <1>3, <1>4, Started DEF Paged

LEMMA Capped ==
    ASSUME Inv, CapPages
    PROVE  Inv'
<1>1. Finish("capped") /\ call.stage = "page" /\ UNCHANGED <<ledger, delivered, chain, read>>
    BY DEF CapPages
<1>2. Grows(ledger, ledger')
    BY <1>1 DEF Inv, Grows
<1> QED
    BY <1>1, <1>2, Ended

LEMMA PageReplayed ==
    ASSUME Inv, ReplayPage
    PROVE  Inv'
<1>1. /\ call.stage = "page" /\ call.kind = "history" /\ Cached(ledger, Key(call))
      /\ ledger' = ManifestGet(ledger, Key(call))
      /\ call' = [call EXCEPT !.stage = "replay", !.row = 0]
      /\ UNCHANGED <<delivered, result, chain, read>>
    BY DEF ReplayPage
<1>2. PICK a, p : a = call.address /\ p = call.page
    OBVIOUS
<1>3. a \in Addresses /\ Key(call) = <<a, p>> /\ Rows(call) = History[a][p]
    BY <1>1, <1>2 DEF Inv, Calling, Paged, Key, Rows, Pages
<1>4. \E m \in ledger.manifests : m.key = <<a, p>>
    BY <1>1, <1>3 DEF Cached
<1>5. /\ Grows(ledger, ledger') /\ ledger'.manifests = ledger.manifests
      /\ \A s : Usable(ledger', s) <=> Usable(ledger, s)
    BY <1>1, <1>3, <1>4, ReplayGrows DEF Inv
<1>6. \A i \in DOMAIN Copy : Usable(ledger, Copy[i])
    <2>1. PICK m \in ledger.manifests :
             m.key = <<a, p>> /\ \A i \in DOMAIN m.rows : Usable(ledger, m.rows[i])
        BY <1>1, <1>3 DEF Cached
    <2>2. m.rows = Sieve(History[a][p], Signatures)
        BY <2>1 DEF Inv, Sound, Copies
    <2> QED
        BY <1>3, <2>1, <2>2 DEF Copy
<1>7. call \in CallType
    BY DEF Inv, TypeOK
<1>8. /\ call' \in CallType /\ call'.stage = "replay" /\ call'.row = 0 /\ call'.kind = call.kind
      /\ call'.address = call.address /\ call'.page = call.page
      /\ call'.tokens = call.tokens /\ call'.wanted = call.wanted
    BY <1>1, <1>7 DEF CallType
<1>9. Copy' = Copy /\ Key(call') = Key(call)
    BY <1>8 DEF Copy, Rows, Pages, Key
<1>10. Replays'
    BY <1>3, <1>4, <1>5, <1>6, <1>9 DEF Replays
<1> QED
    BY <1>1, <1>5, <1>8, <1>10, Restaged

LEMMA PageRequested ==
    ASSUME Inv, RequestPage \/ Retry \/ ReceivePage
    PROVE  Inv'
<1>1. call \in CallType /\ call.attempt \in Nat
    BY DEF Inv, TypeOK, CallType
<1>2. /\ call.stage # "idle" /\ UNCHANGED <<ledger, delivered, result, chain, read>>
      /\ \/ call' = [call EXCEPT !.stage = "ask", !.attempt = 0]
         \/ call' = [call EXCEPT !.stage = "ask", !.attempt = @ + 1, !.row = 0]
         \/ call' = [call EXCEPT !.stage = "rows", !.row = 0] /\ call.kind \in Paged
    BY DEF RequestPage, Retry, ReceivePage, Reading, Paged
<1>3. /\ call' \in CallType /\ call'.kind = call.kind
      /\ call'.address = call.address /\ call'.page = call.page
      /\ call'.tokens = call.tokens /\ call'.wanted = call.wanted
      /\ \/ call'.stage = "ask"
         \/ call'.stage = "rows" /\ call'.row = 0 /\ call.kind \in Paged
    <2>1. CASE call' = [call EXCEPT !.stage = "ask", !.attempt = 0]
        BY <1>1, <2>1 DEF CallType
    <2>2. CASE call' = [call EXCEPT !.stage = "ask", !.attempt = @ + 1, !.row = 0]
        <3>1. PICK n \in Nat : n = call.attempt + 1
            BY <1>1
        <3>2. call' = [call EXCEPT !.stage = "ask", !.attempt = n, !.row = 0]
            BY <2>2, <3>1
        <3> QED
            BY <1>1, <3>2 DEF CallType
    <2>3. CASE call' = [call EXCEPT !.stage = "rows", !.row = 0] /\ call.kind \in Paged
        BY <1>1, <2>3 DEF CallType
    <2> QED
        BY <1>2, <2>1, <2>2, <2>3
<1>4. Grows(ledger, ledger')
    BY <1>2 DEF Inv, Grows
<1> QED
    BY <1>2, <1>3, <1>4, Restaged

LEMMA RowStreamed ==
    ASSUME Inv, StreamRow
    PROVE  Inv'
<1>1. PICK row : row = Rows(call)[call.row + 1]
    OBVIOUS
<1>2. /\ call.stage = "rows" /\ call.row < Len(Rows(call)) /\ UNCHANGED <<chain, read>>
      /\ IF call.kind = "history" THEN HistoryRow(row) ELSE TransferRow(row)
    BY <1>1 DEF StreamRow
<1>3. call.kind \in Paged /\ call.row \in Nat
    BY <1>2 DEF Inv, TypeOK, CallType, Calling
<1>4. CASE call.kind = "history"
    <2>1. Rows(call) \in Seq(Signatures \cup {None})
        BY <1>3, <1>4, CallRows
    <2>2. row \in Signatures \cup {None}
        BY <1>1, <1>2, <1>3, <2>1
    <2> QED
        BY <1>1, <1>2, <1>4, <2>2, HistoryGiven
<1>5. CASE call.kind = "transfers"
    <2>1. Rows(call) \in Seq(Signatures \X Nat)
        BY <1>3, <1>5, CallRows
    <2>2. row \in Signatures \X Nat
        BY <1>1, <1>2, <1>3, <2>1
    <2> QED
        BY <1>1, <1>2, <1>5, <2>2, TransferGiven
<1> QED
    BY <1>3, <1>4, <1>5 DEF Paged

LEMMA RowReplayed ==
    ASSUME Inv, ReplayRow
    PROVE  Inv'
<1>1. call.stage = "replay" /\ UNCHANGED <<chain, read>>
    BY DEF ReplayRow
<1>2. Manifest(ledger, Key(call)).rows = Copy /\ Copy \in Seq(Signatures)
    BY <1>1, ReplayRows
<1>3. PICK row : row = Copy[call.row + 1]
    OBVIOUS
<1>4. call.row < Len(Copy) /\ Usable(ledger, row) /\ HistoryRow(row)
    BY <1>2, <1>3 DEF ReplayRow
<1>5. call.kind = "history" /\ call.row \in Nat
    BY <1>1 DEF Inv, TypeOK, CallType, Calling
<1>6. row \in Signatures
    BY <1>2, <1>3, <1>4, <1>5
<1> QED
    BY <1>1, <1>3, <1>4, <1>5, <1>6, HistoryGiven

\* All the rows up to the last one are all the rows.
LEMMA AllGiven ==
    ASSUME NEW S, NEW q \in Seq(S), GivenUpTo(Len(q), q)
    PROVE  ToSet(q) \subseteq ToSet(delivered) \cup {None}
BY DEF GivenUpTo, ToSet

LEMMA PageEnded ==
    ASSUME Inv, EndPage
    PROVE  Inv'
<1>1. /\ call.stage = "rows" /\ call.row = Len(Rows(call))
      /\ UNCHANGED <<delivered, chain, read>>
    BY DEF EndPage
<1>2. PICK token \in call.tokens \cup {HonestToken(call)} :
         /\ ledger' = IF call.kind # "history" THEN ledger
                      ELSE ManifestSet(ledger, Key(call), Sieve(Rows(call), Signatures), token)
         /\ TurnPage(token)
    BY DEF EndPage
<1>3. call.kind \in Paged /\ call.tokens = 2..call.page /\ call.address \in Addresses
    BY <1>1 DEF Inv, Calling
<1>4. /\ Len(Pages(call)) \in Nat /\ call.page \in 1..Len(Pages(call))
      /\ call.page \in DOMAIN Pages(call) /\ Rows(call) \in Seq(Row \cup {None})
    BY <1>3, CallRows
<1>5. Follows(token, call.page, Len(Pages(call))) /\ token \in Nat \cup {None}
    BY <1>2, <1>3, <1>4 DEF Follows, HonestToken
<1>6. Grows(ledger, ledger')
    <2>1. CASE call.kind # "history"
        BY <1>2, <2>1 DEF Inv, Grows
    <2>2. CASE call.kind = "history"
        <3>1. PICK a, p : a = call.address /\ p = call.page
            OBVIOUS
        <3>2. Pages(call) = History[a] /\ Rows(call) = History[a][p] /\ Key(call) = <<a, p>>
            BY <2>2, <3>1 DEF Pages, Rows, Key
        <3>3. a \in Addresses /\ p \in DOMAIN History[a] /\ Follows(token, p, Len(History[a]))
            BY <1>3, <1>4, <1>5, <3>1, <3>2
        <3>4. Grows(ledger, ManifestSet(ledger, <<a, p>>, Sieve(History[a][p], Signatures), token))
            BY <1>5, <3>3, ManifestGrows DEF Inv
        <3> QED
            BY <1>2, <2>2, <3>2, <3>4
    <2> QED
        BY <2>1, <2>2
<1>7. ToSet(Rows(call)) \ {None} \subseteq ToSet(delivered)
    <2>1. GivenUpTo(Len(Rows(call)), Rows(call))
        BY <1>1 DEF Inv, Progress
    <2>2. ToSet(Rows(call)) \subseteq ToSet(delivered) \cup {None}
        BY <1>4, <2>1, AllGiven
    <2> QED
        BY <2>2
<1> QED
    BY <1>1, <1>2, <1>3, <1>5, <1>6, <1>7, Turned

LEMMA ReplayEnded ==
    ASSUME Inv, EndReplay
    PROVE  Inv'
<1>1. PICK token : token = Manifest(ledger, Key(call)).token
    OBVIOUS
<1>2. call.stage = "replay" /\ TurnPage(token) /\ UNCHANGED <<ledger, delivered, chain, read>>
    BY <1>1 DEF EndReplay
<1>3. /\ Manifest(ledger, Key(call)).rows = Copy
      /\ Copy \in Seq(Signatures) /\ ToSet(Copy) = ToSet(Rows(call)) \ {None}
      /\ Follows(token, call.page, Len(Pages(call)))
    BY <1>1, <1>2, ReplayRows
<1>4. call.row = Len(Copy) /\ call.kind \in Paged
    BY <1>2, <1>3 DEF EndReplay, Inv, Calling, Paged
<1>5. GivenUpTo(Len(Copy), Copy)
    BY <1>2, <1>4 DEF Inv, Progress
<1>6. ToSet(Copy) \subseteq ToSet(delivered) \cup {None}
    BY <1>3, <1>5, AllGiven
<1>7. ToSet(Rows(call)) \ {None} \subseteq ToSet(delivered)
    BY <1>3, <1>6
<1>8. Grows(ledger, ledger')
    BY <1>2 DEF Inv, Grows
<1> QED
    BY <1>2, <1>3, <1>4, <1>7, <1>8, Turned

LEMMA Sent ==
    ASSUME Inv, Send
    PROVE  Inv'
<1>1. PICK method : method = Method(call)
    OBVIOUS
<1>2. PICK budget : budget = Refusal(ledger, method)
    OBVIOUS
<1>3. /\ call.stage = "ask" /\ UNCHANGED <<delivered, chain, read>>
      /\ IF budget # None
         THEN ledger' = Terminate(ledger, budget) /\ Finish("budget")
         ELSE /\ ledger' = Charge(ledger, method)
              /\ call' = [call EXCEPT !.stage = "sent"] /\ result' = result
    BY <1>1, <1>2 DEF Send
<1>4. Sound(ledger) /\ call \in CallType
    BY DEF Inv, TypeOK
<1>5. CASE budget # None
    <2>1. budget \in Budgets
        BY <1>2, <1>5, Refusals
    <2>2. Grows(ledger, ledger')
        BY <1>3, <1>4, <1>5, <2>1, TerminateGrows
    <2> QED
        BY <1>3, <1>5, <2>2, Ended
<1>6. CASE budget = None
    <2>1. Grows(ledger, ledger')
        <3>1. Refusal(ledger, method) = None
            BY <1>2, <1>6
        <3>2. Grows(ledger, Charge(ledger, method))
            BY <1>4, <3>1, ChargeGrows
        <3> QED
            BY <1>3, <1>6, <3>2
    <2>2. /\ call' \in CallType /\ call'.stage = "sent" /\ call'.kind = call.kind
          /\ call'.address = call.address /\ call'.page = call.page
          /\ call'.tokens = call.tokens /\ call'.wanted = call.wanted
        BY <1>3, <1>4, <1>6 DEF CallType
    <2> QED
        BY <1>3, <1>6, <2>1, <2>2, Restaged
<1> QED
    BY <1>5, <1>6

LEMMA GivenUp ==
    ASSUME Inv, GiveUp
    PROVE  Inv'
<1>1. Finish("error") /\ call.stage # "idle" /\ UNCHANGED <<ledger, delivered, chain, read>>
    BY DEF GiveUp, Reading
<1>2. Grows(ledger, ledger')
    BY <1>1 DEF Inv, Grows
<1> QED
    BY <1>1, <1>2, Ended

\* What a transaction is learned to be is charged, or refused.
LEMMA Learned ==
    ASSUME Inv, NEW l, Grows(ledger, l), NEW s \in Signatures, NEW found \in BOOLEAN,
           LearnTransaction(l, s, found, "complete"),
           delivered' = <<>>, UNCHANGED <<chain, read>>
    PROVE  Inv'
<1>1. PICK budget : budget = TransactionRefusal(l, s)
    OBVIOUS
<1>2. /\ ledger' = IF budget # None THEN Terminate(l, budget) ELSE ObserveTransaction(l, s, found)
      /\ call' = Idle /\ result'.address = None
    BY <1>1 DEF LearnTransaction
<1>3. Grows(l, ledger')
    <2>1. CASE budget # None
        <3>1. budget \in Budgets
            BY <1>1, <2>1, Refusals
        <3> QED
            BY <1>2, <2>1, <3>1, TerminateGrows DEF Grows
    <2>2. CASE budget = None
        BY <1>1, <1>2, <2>2, TransactionGrows DEF Grows
    <2> QED
        BY <2>1, <2>2
<1>4. Idle \in CallType /\ Idle.stage = "idle" /\ Idle.kind = "none" /\ Idle.address = None
    BY DEF Idle, CallType
<1>5. Calling'
    BY <1>2, <1>4 DEF Calling, Paged
<1>6. Sound(ledger') /\ ledger'.accounts = ledger.accounts
    BY <1>3 DEF Grows
<1>7. Told' /\ read' \in [Accounts -> SUBSET Nat] /\ chain' = chain
    BY <1>6 DEF Inv, TypeOK, Told, Record
<1> QED
    BY <1>2, <1>4, <1>5, <1>6, <1>7, Started DEF Paged

LEMMA TransactionBegun ==
    ASSUME Inv, NEW s \in Signatures, BeginTransaction(s)
    PROVE  Inv'
<1>1. call.stage = "idle" /\ delivered' = <<>> /\ UNCHANGED <<chain, read>>
    BY DEF BeginTransaction
<1>2. Sound(ledger) /\ call \in CallType /\ Calling /\ Grows(ledger, ledger)
    BY DEF Inv, TypeOK, Grows
<1>3. CASE s \in Kept(ledger)
    <2>1. ledger' = TransactionGet(ledger, s) /\ result'.address = None /\ call' = call
        BY <1>3 DEF BeginTransaction
    <2>2. Grows(ledger, ledger')
        BY <1>2, <2>1, UseGrows
    <2>3. Sound(ledger') /\ ledger'.accounts = ledger.accounts
        BY <2>2 DEF Grows
    <2>4. Calling'
        BY <1>1, <1>2, <2>1 DEF Calling
    <2>5. Told' /\ read' \in [Accounts -> SUBSET Nat]
        BY <1>1, <2>3 DEF Inv, TypeOK, Told, Record
    <2>6. call'.kind \notin Paged
        BY <1>1, <1>2, <2>1 DEF Calling, Paged
    <2> QED
        BY <1>1, <1>2, <2>1, <2>3, <2>4, <2>5, <2>6, Started
<1>4. CASE s \notin Kept(ledger) /\ \E a \in ledger.answers : a.id = s
    <2>1. PICK a \in ledger.answers : a.id = s /\ LearnTransaction(ledger, s, a.found, "complete")
        BY <1>4 DEF BeginTransaction
    <2>2. PICK found \in BOOLEAN : found = a.found
        BY <1>2, <2>1 DEF Sound, Ledgers, Payload
    <2>3. LearnTransaction(ledger, s, found, "complete")
        BY <2>1, <2>2
    <2>4. PICK l : l = ledger
        OBVIOUS
    <2>5. Grows(ledger, l) /\ LearnTransaction(l, s, found, "complete")
        BY <1>2, <2>3, <2>4
    <2> QED
        BY <1>1, <2>5, Learned
<1>5. CASE s \notin Kept(ledger) /\ ~ \E a \in ledger.answers : a.id = s
    <2>1. /\ call' = [Idle EXCEPT !.stage = "ask", !.kind = "transaction", !.wanted = {s}]
          /\ result' = [status |-> "none", kind |-> "transaction", address |-> None]
          /\ ledger' = ledger
        BY <1>5 DEF BeginTransaction
    <2>2. /\ call' \in CallType /\ call'.stage = "ask" /\ call'.kind = "transaction"
          /\ call'.address = None
        BY <2>1 DEF Idle, CallType
    <2>3. Calling'
        BY <2>1, <2>2 DEF Calling, Paged
    <2>4. Sound(ledger') /\ Told' /\ read' \in [Accounts -> SUBSET Nat]
        BY <1>1, <2>1 DEF Inv, TypeOK, Told
    <2> QED
        BY <1>1, <2>1, <2>2, <2>3, <2>4, Started DEF Paged
<1> QED
    BY <1>3, <1>4, <1>5

\* Nothing is given in a call that reads no pages.
LEMMA NothingGiven ==
    ASSUME Inv, result.kind \notin Paged
    PROVE  delivered = <<>>
<1>1. ToSet(delivered) = {}
    BY DEF Inv, Charged
<1>2. delivered \in Seq(Row)
    BY DEF Inv, TypeOK
<1>3. Len(delivered) = 0
    <2>1. Len(delivered) \in Nat /\ DOMAIN delivered = 1..Len(delivered)
        BY <1>2
    <2>2. Len(delivered) # 0 => 1 \in DOMAIN delivered
        BY <2>1
    <2> QED
        BY <1>1, <2>1, <2>2 DEF ToSet
<1> QED
    BY <1>2, <1>3

LEMMA TransactionReceived ==
    ASSUME Inv, NEW s \in Signatures, NEW found \in BOOLEAN, ReceiveTransaction(s, found)
    PROVE  Inv'
<1>1. PICK l : l = [ledger EXCEPT !.answers = @ \cup {[id |-> s, found |-> found]}]
    OBVIOUS
<1>2. /\ call.stage = "sent" /\ call.kind = "transaction"
      /\ LearnTransaction(l, s, found, "complete")
      /\ UNCHANGED <<delivered, chain, read>>
    BY <1>1 DEF ReceiveTransaction
<1>3. Grows(ledger, l)
    BY <1>1, AnswerGrows DEF Inv
<1>4. result.kind \notin Paged
    BY <1>2 DEF Inv, Calling, Paged
<1>5. delivered' = <<>>
    BY <1>2, <1>4, NothingGiven
<1> QED
    BY <1>2, <1>3, <1>5, Learned

LEMMA AccountsBegun ==
    ASSUME Inv, NEW xs \in SUBSET Accounts, BeginAccounts(xs)
    PROVE  Inv'
<1>1. PICK missing \in SUBSET xs : missing = {x \in xs : Record(ledger, x) = {}}
    OBVIOUS
<1>2. /\ Begin("accounts", None, IF missing = {} THEN "complete" ELSE "none")
      /\ read' = [x \in Accounts |-> IF x \in xs \ missing
                                     THEN read[x] \cup {r.value : r \in Record(ledger, x)}
                                     ELSE read[x]]
      /\ call' = IF missing = {} THEN Idle
                 ELSE [Idle EXCEPT !.stage = "ask", !.kind = "accounts", !.wanted = missing]
      /\ UNCHANGED <<ledger, chain>>
    BY <1>1 DEF BeginAccounts
<1>3. /\ delivered' = <<>> /\ result'.address = None /\ result'.kind = "accounts"
      /\ missing # {} => result'.status = "none"
    BY <1>2 DEF Begin
<1>4. /\ call' \in CallType /\ call'.address = None
      /\ \/ call'.stage = "idle" /\ call'.kind = "none"
         \/ call'.stage = "ask" /\ call'.kind = "accounts" /\ call'.wanted = missing /\ missing # {}
    BY <1>2 DEF Idle, CallType
<1>5. \A x : Record(ledger', x) = Record(ledger, x)
    BY <1>2
<1>6. Calling'
    BY <1>1, <1>3, <1>4, <1>5 DEF Calling, Paged
<1>7. \A x \in Accounts : {r.value : r \in Record(ledger, x)} \in SUBSET Nat
    BY DEF Inv, Sound, Ledgers, Record
<1>8. read \in [Accounts -> SUBSET Nat]
    BY DEF Inv, TypeOK
<1>9. read' \in [Accounts -> SUBSET Nat]
    BY <1>2, <1>7, <1>8
<1>10. Told'
    <2> SUFFICES ASSUME NEW x \in Accounts, NEW v \in read'[x]
                 PROVE  \E r \in Record(ledger, x) : r.value = v
        BY <1>5 DEF Told
    <2>1. v \in read[x] \/ v \in {r.value : r \in Record(ledger, x)}
        BY <1>2
    <2> QED
        BY <2>1 DEF Inv, Told
<1>11. Sound(ledger') /\ chain' = chain
    BY <1>2 DEF Inv
<1> QED
    BY <1>3, <1>4, <1>6, <1>9, <1>10, <1>11, Started DEF Paged

\* Each account of the chunk had no record, and was told of no state.
LEMMA AccountsReceived ==
    ASSUME Inv, NEW chunk \in SUBSET Accounts, ReceiveAccounts(chunk)
    PROVE  Inv'
<1> DEFINE new == {[id |-> x, value |-> chain[x]] : x \in chunk}
<1>1. /\ call.stage = "sent" /\ call.kind = "accounts" /\ chunk \subseteq call.wanted
      /\ ledger' = [ledger EXCEPT !.accounts = @ \cup new]
      /\ read' = [x \in Accounts |-> IF x \in chunk THEN read[x] \cup {chain[x]} ELSE read[x]]
      /\ IF chunk = call.wanted THEN Finish("complete")
         ELSE /\ call' = [call EXCEPT !.stage = "ask", !.attempt = 0, !.wanted = @ \ chunk]
              /\ result' = result
      /\ delivered' = delivered /\ chain' = chain
    BY DEF ReceiveAccounts
<1>2. /\ call \in CallType /\ chain \in [Accounts -> Nat] /\ read \in [Accounts -> SUBSET Nat]
      /\ Sound(ledger)
    BY DEF Inv, TypeOK
<1>3. /\ call.wanted \subseteq Accounts /\ call.address = None
      /\ \A x \in call.wanted : Record(ledger, x) = {}
      /\ result.kind = "accounts" /\ result.status = "none"
    BY <1>1 DEF Inv, Calling, Paged
<1>4. delivered' = <<>>
    <2>1. result.kind \notin Paged
        BY <1>3 DEF Paged
    <2> QED
        BY <1>1, <2>1, NothingGiven
<1>5. Sound(ledger') /\ ledger'.accounts = ledger.accounts \cup new
    <2>1. PICK state \in [Accounts -> Nat] : state = chain
        BY <1>2
    <2>2. PICK l : l = ledger
        OBVIOUS
    <2>3. Sound(l) /\ \A x \in chunk : Record(l, x) = {}
        BY <1>1, <1>2, <1>3, <2>2
    <2> DEFINE m == [l EXCEPT !.accounts = @ \cup {[id |-> x, value |-> state[x]] : x \in chunk}]
    <2>4. /\ Sound(m)
          /\ m.accounts = l.accounts \cup {[id |-> x, value |-> state[x]] : x \in chunk}
        BY <2>3, AccountsSound
    <2>5. ledger' = m
        BY <1>1, <2>1, <2>2
    <2> HIDE DEF m
    <2> QED
        BY <2>1, <2>2, <2>4, <2>5
<1>6. \A x \in Accounts : x \notin chunk => Record(ledger', x) = Record(ledger, x)
    BY <1>5 DEF Record
<1>7. ASSUME NEW x \in chunk
      PROVE  \E r \in Record(ledger', x) : r.value = chain[x]
    <2> DEFINE r == [id |-> x, value |-> chain[x]]
    <2>1. r \in new /\ r.id = x /\ r.value = chain[x]
        OBVIOUS
    <2> HIDE DEF r, new
    <2> QED
        BY <1>5, <2>1 DEF Record
<1>8. \A x \in Accounts : Record(ledger, x) \subseteq Record(ledger', x)
    BY <1>5 DEF Record
<1>9. Told'
    <2> SUFFICES ASSUME NEW x \in Accounts, NEW v \in read'[x]
                 PROVE  \E r \in Record(ledger', x) : r.value = v
        BY DEF Told
    <2>1. v \in read[x] \/ (x \in chunk /\ v = chain[x])
        BY <1>1
    <2>2. v \in read[x] => \E r \in Record(ledger', x) : r.value = v
        BY <1>8 DEF Inv, Told
    <2> QED
        BY <1>7, <2>1, <2>2
<1>10. read' \in [Accounts -> SUBSET Nat]
    <2>1. \A x \in Accounts :
             (IF x \in chunk THEN read[x] \cup {chain[x]} ELSE read[x]) \in SUBSET Nat
        BY <1>2
    <2> QED
        BY <1>1, <2>1
<1>11. CASE chunk = call.wanted
    <2>1. call' = Idle /\ result'.address = None
        BY <1>1, <1>3, <1>11 DEF Finish
    <2>2. Idle \in CallType /\ Idle.stage = "idle" /\ Idle.kind = "none" /\ Idle.address = None
        BY DEF Idle, CallType
    <2>3. Calling'
        BY <2>1, <2>2 DEF Calling, Paged
    <2> QED
        BY <1>1, <1>4, <1>5, <1>9, <1>10, <2>1, <2>2, <2>3, Started DEF Paged
<1>12. CASE chunk # call.wanted
    <2>1. /\ call' = [call EXCEPT !.stage = "ask", !.attempt = 0, !.wanted = @ \ chunk]
          /\ result' = result
        BY <1>1, <1>12
    <2>2. /\ call' \in CallType /\ call'.stage = "ask" /\ call'.kind = "accounts"
          /\ call'.address = None /\ call'.wanted = call.wanted \ chunk
        BY <1>1, <1>2, <1>3, <2>1 DEF CallType
    <2>3. \A x \in call.wanted \ chunk : Record(ledger', x) = {}
        BY <1>3, <1>6
    <2>4. Calling'
        BY <1>3, <2>1, <2>2, <2>3 DEF Calling, Paged
    <2>5. call'.kind \notin Paged /\ result'.status # "complete"
        BY <1>3, <2>1, <2>2 DEF Paged
    <2> QED
        BY <1>1, <1>4, <1>5, <1>9, <1>10, <2>2, <2>4, <2>5, Started
<1> QED
    BY <1>11, <1>12

LEMMA ChainMoves ==
    ASSUME Inv, NEW x \in Accounts, AccountChanges(x)
    PROVE  Inv'
<1>1. /\ chain' = [chain EXCEPT ![x] = @ + 1]
      /\ UNCHANGED <<ledger, call, delivered, result, read>>
    BY DEF AccountChanges
<1>2. chain' \in [Accounts -> Nat]
    BY <1>1 DEF Inv, TypeOK
<1>3. TypeOK'
    BY <1>1, <1>2 DEF Inv, TypeOK
<1>4. /\ Sound(ledger') /\ Calling' /\ Replays' /\ Progress' /\ Charged' /\ Told'
      /\ DeliveredOnce' /\ CompleteHistory'
    BY <1>1 DEF Inv, Calling, Replays, Progress, GivenUpTo, Copy, Charged, Told,
                DeliveredOnce, CompleteHistory
<1> QED
    BY <1>3, <1>4 DEF Inv

LEMMA Unmoved ==
    ASSUME Inv, UNCHANGED vars
    PROVE  Inv'
<1>1. UNCHANGED <<ledger, call, delivered, result, chain, read>>
    BY DEF vars
<1> QED
    BY <1>1 DEF Inv, TypeOK, Calling, Replays, Progress, GivenUpTo, Copy, Charged, Told,
                DeliveredOnce, CompleteHistory

LEMMA NextHolds == Inv /\ [Next]_vars => Inv'
<1> SUFFICES ASSUME Inv, [Next]_vars
             PROVE  Inv'
    OBVIOUS
<1>1. CASE Provider
    BY <1>1, Sent, PageRequested, GivenUp, Capped, PageReplayed, RowStreamed, RowReplayed,
       PageEnded, ReplayEnded, TransactionReceived, AccountsReceived DEF Provider
<1>2. CASE Command
    BY <1>2, BeginPages, BeginEarly, TransactionBegun, AccountsBegun DEF Command
<1>3. CASE \E x \in Accounts : AccountChanges(x)
    BY <1>3, ChainMoves
<1>4. CASE UNCHANGED vars
    BY <1>4, Unmoved
<1> QED
    BY <1>1, <1>2, <1>3, <1>4 DEF Next
-----------------------------------------------------------------------------
(***************************************************************************)
(* The theorems                                                            *)
(***************************************************************************)

\* What the reads of an investigation keep: the ledger is within its budgets and
\* its copies are those of the provider's pages, and of a history what was passed
\* was given and charged.
THEOREM Invariance == Spec => []Inv
<1> QED
    BY InitHolds, NextHolds, PTL DEF Spec

\* A history that is called complete gave every row the provider has, whatever
\* broke off, was retried, replayed or evicted in between.
THEOREM CompleteHistoryHolds == Spec => []CompleteHistory
<1>1. Inv => CompleteHistory
    BY DEF Inv
<1> QED
    BY <1>1, Invariance, PTL

\* No row is given twice in a call, though pages are retried and may overlap.
THEOREM DeliveredOnceHolds == Spec => []DeliveredOnce
<1>1. Inv => DeliveredOnce
    BY DEF Inv
<1> QED
    BY <1>1, Invariance, PTL

\* No budget is passed, and all that was given is charged.
THEOREM WithinBudgetsHolds == Spec => []WithinBudgets
<1>1. ASSUME Inv
      PROVE  WithinBudgets
    <2>1. Spends(ledger) /\ Charged
        BY <1>1 DEF Inv, Sound
    <2>2. ASSUME NEW row \in ToSet(delivered)
          PROVE  SignatureOf(row) \in ledger.signatures
        BY <2>1 DEF Charged, SignatureOf, Paged
    <2> QED
        BY <2>1, <2>2 DEF Spends, WithinBudgets
<1> QED
    BY <1>1, Invariance, PTL

\* A replay that began finds the payload of every row that is left.
THEOREM ReplayKeepsPayloadsHolds == Spec => []ReplayKeepsPayloads
<1>1. ASSUME Inv
      PROVE  ReplayKeepsPayloads
    <2> SUFFICES ASSUME call.stage = "replay",
                        NEW i \in call.row + 1..Len(Copy)
                 PROVE  Usable(ledger, Copy[i])
        BY <1>1, ReplayRows DEF ReplayKeepsPayloads
    <2>1. Copy \in Seq(Signatures) /\ call.row \in Nat
        BY <1>1, ReplayRows DEF Inv, TypeOK, CallType
    <2>2. i \in DOMAIN Copy
        BY <2>1
    <2> QED
        BY <1>1, <2>2 DEF Inv, Replays
<1> QED
    BY <1>1, Invariance, PTL

\* The investigation is told one state of an account.
THEOREM OneAnswerPerAccountHolds == Spec => []OneAnswerPerAccount
<1>1. ASSUME Inv
      PROVE  OneAnswerPerAccount
    <2> SUFFICES ASSUME NEW x \in Accounts
                 PROVE  Cardinality(read[x]) <= 1
        BY DEF OneAnswerPerAccount
    <2>1. \A v, w \in read[x] : v = w
        BY <1>1 DEF Inv, Told, Sound, Agrees, Record
    <2>2. CASE read[x] = {}
        BY <2>2, FS_EmptySet
    <2>3. CASE read[x] # {}
        <3> PICK v : v \in read[x]
            BY <2>3
        <3>1. read[x] = {v}
            BY <2>1
        <3>2. Cardinality({v}) = 1
            BY FS_Singleton
        <3> QED
            BY <3>1, <3>2
    <2> QED
        BY <2>2, <2>3
<1> QED
    BY <1>1, Invariance, PTL
=============================================================================
