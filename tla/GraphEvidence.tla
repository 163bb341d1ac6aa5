--------------------------- MODULE GraphEvidence ---------------------------
(***************************************************************************)
(* The relationships between wallets that autopsies prove.  Facts are      *)
(* spooled once a signature; who may be a counterparty and who signed what *)
(* stay in small indexes; edges are extracted from the spool again each    *)
(* time addresses are classified.                                          *)
(***************************************************************************)
EXTENDS TransactionAutopsy

CONSTANTS
    Target,       \* the mint the investigation is about
    MaterialSol,  \* MIN_DEEP_SOL_FUNDING_LAMPORTS
    SampleLimit   \* unresolved_sample_limit

-----------------------------------------------------------------------------
(***************************************************************************)
(* GraphEvidenceAccumulator                                                *)
(***************************************************************************)
NewGraph == [facts |-> <<>>, candidates |-> {}, signed |-> <<>>]

Pairs(from, to) == {<<from, to>>, <<to, from>>}

\* _index_candidates: the counterparties of each wallet; outside a trade also the
\* authorities, the wallets that sign together and those that prepare an account.
Candidates(fact) ==
    LET tokens == UNION {Pairs(t.from, t.to) : t \in fact.tokens}
        native == UNION {Pairs(t.from, t.to) : t \in fact.natives}
        authority == UNION {{<<t.from, t.by>>, <<t.to, t.by>>} :
                               t \in {s \in fact.tokens : s.by # s.from}}
        together == fact.signers \X fact.signers
        prepared == UNION {Pairs(t.from, t.to) : t \in fact.atas}
    IN  {p \in tokens \cup native
                 \cup (IF fact.market THEN {} ELSE authority \cup together \cup prepared) :
            p[1] # p[2]}

SignedBy(signed, w) == IF w \in DOMAIN signed THEN signed[w] ELSE <<>>

\* Mutant: only the first signature of a signer is kept.
ObserveFirst(signed, fact) ==
    [w \in DOMAIN signed \cup fact.signers |->
        IF w \in fact.signers \ DOMAIN signed THEN <<fact.sig>> ELSE signed[w]]

\* SignerActivityIndex.observe: the first two signatures of a signer are enough.
Observe(signed, fact) ==
    LET Lacks(w) == /\ w \in fact.signers /\ Len(SignedBy(signed, w)) < 2
                    /\ fact.sig \notin Range(SignedBy(signed, w))
    IN  [w \in DOMAIN signed \cup fact.signers |->
            IF Lacks(w) THEN Append(SignedBy(signed, w), fact.sig) ELSE signed[w]]

\* has_other_signature
HasOtherSignature(signed, w, sig) ==
    LET known == SignedBy(signed, w) IN
    /\ known # <<>>
    /\ known[1] # sig \/ (Len(known) = 2 /\ known[2] # sig)

\* ingest: a signature is taken once
Ingest(g, fact) ==
    IF \E i \in DOMAIN g.facts : g.facts[i].sig = fact.sig THEN g
    ELSE [facts |-> Append(g.facts, fact),
          candidates |-> g.candidates \cup Candidates(fact),
          signed |-> Observe(g.signed, fact)]

CandidatesFor(g, w) == {p[2] : p \in {q \in g.candidates : q[1] = w}}
-----------------------------------------------------------------------------
(***************************************************************************)
(* candidate_addresses: the reference the index has to agree with          *)
(***************************************************************************)
CandidateAddresses(fact, w) ==
    LET mine == {t \in fact.tokens : w \in {t.from, t.to}}
        tokens == {IF t.from = w THEN t.to ELSE t.from : t \in mine}
        native == {IF t.from = w THEN t.to ELSE t.from :
                      t \in {s \in fact.natives : w \in {s.from, s.to}}}
        authority == {t.by : t \in {s \in mine : s.by # s.from}}
        together == IF w \in fact.signers THEN fact.signers ELSE {}
        prepared == {IF t.from = w THEN t.to ELSE t.from :
                        t \in {s \in fact.atas : w \in {s.from, s.to}}}
    IN  (tokens \cup native
            \cup IF fact.market THEN {} ELSE authority \cup together \cup prepared) \ {w}
-----------------------------------------------------------------------------
(***************************************************************************)
(* extract_relationships                                                   *)
(***************************************************************************)
WalletLike(classes, w) == w \in DOMAIN classes /\ classes[w] = "WALLET_LIKE"
BothWallets(classes, t) == WalletLike(classes, t.from) /\ WalletLike(classes, t.to)

Edge(fact, type, from, to, asset, amount) ==
    [sig |-> fact.sig, type |-> type, from |-> from, to |-> to, asset |-> asset,
     amount |-> amount,
     high |-> type \in {"CONFIRMED_DIRECT_LINK", "PLAIN_DIRECT_SOL_TRANSFER"} \/ ~fact.unknown]

Row(fact, from, to, asset) == [sig |-> fact.sig, from |-> from, to |-> to, asset |-> asset]

\* Transfers between different owners that no trade explains.
Transfers(fact) == IF fact.market THEN {} ELSE {t \in fact.tokens : t.from # t.to}

\* An external authority that signed for an owner.
Delegates(fact, classes) ==
    {t \in Transfers(fact) : /\ t.by # t.from
                             /\ WalletLike(classes, t.from) /\ WalletLike(classes, t.by)
                             /\ t.by \in fact.signers}

\* The sender signed and paid for the token account of the recipient.
Prepared(fact, t) ==
    \E a \in fact.atas : a.from = t.from /\ a.to = t.to /\ a.asset = t.asset /\ t.from \in fact.signers

\* A transfer between wallets that its authority signed, or that was prepared.
Proven(fact, classes) ==
    {t \in Transfers(fact) : /\ BothWallets(classes, t)
                             /\ t.by \in fact.signers \/ Prepared(fact, t)}

TokenEdges(fact, classes) ==
    {Edge(fact, IF Prepared(fact, t) THEN "CONFIRMED_DIRECT_LINK" ELSE "DIRECT_TOKEN_TRANSFER",
          t.from, t.to, t.asset, t.amount) : t \in Proven(fact, classes)}
    \cup {Edge(fact, "DELEGATED_TOKEN_AUTHORITY", t.from, t.by, t.asset, t.amount) :
             t \in Delegates(fact, classes)}

\* Native transfers of a transaction without tokens that the source signed and paid.
Fundings(fact, classes) ==
    {t \in fact.natives : /\ ~fact.market /\ fact.tokens = {}
                          /\ BothWallets(classes, t)}

NativeEdges(fact, classes) ==
    {Edge(fact, "PLAIN_DIRECT_SOL_TRANSFER", t.from, t.to, Sol, t.amount) :
        t \in {s \in Fundings(fact, classes) : s.from \in fact.signers /\ s.from = fact.payer}}

\* A token account paid for another wallet, unless a transfer already tells it.
Preparations(fact, classes) ==
    {a \in fact.atas : ~fact.market /\ a.from # a.to /\ BothWallets(classes, a)}

PreparationEdges(fact, classes) ==
    {Edge(fact, "ATA_PREPARATION", a.from, a.to, a.asset, 0) :
        a \in {b \in Preparations(fact, classes) :
                 /\ b.from \in fact.signers
                 /\ ~\E e \in TokenEdges(fact, classes) :
                       e.type = "CONFIRMED_DIRECT_LINK" /\ e.from = b.from /\ e.to = b.to}}

\* Wallets that sign one transaction together.
SignerEdges(fact, classes) ==
    IF fact.market THEN {}
    ELSE LET wallets == {w \in fact.signers : WalletLike(classes, w)} IN
         {Edge(fact, "NON_MARKET_CO_SIGNER", p[1], p[2], "SIGNATURE", 0) :
             p \in {q \in wallets \X wallets : q[1] < q[2]}}

EdgesOf(fact, classes) ==
    TokenEdges(fact, classes) \cup NativeEdges(fact, classes)
        \cup PreparationEdges(fact, classes) \cup SignerEdges(fact, classes)

Edges(facts, classes) == UNION {EdgesOf(f, classes) : f \in facts}

\* record_unresolved: authorities that are no wallets or did not sign, transfers
\* nobody signed, funding another paid for, token accounts nobody signed for.
UnresolvedOf(fact, classes) ==
    {Row(fact, t.from, t.by, t.asset) :
        t \in {s \in Transfers(fact) : s.by # s.from} \ Delegates(fact, classes)}
    \cup {Row(fact, t.from, t.to, t.asset) :
             t \in {s \in Transfers(fact) : BothWallets(classes, s)} \ Proven(fact, classes)}
    \cup {Row(fact, t.from, t.to, Sol) :
             t \in {s \in Fundings(fact, classes) : s.from \notin fact.signers \/ s.from # fact.payer}}
    \cup {Row(fact, a.from, a.to, a.asset) :
             a \in {b \in Preparations(fact, classes) : b.from \notin fact.signers}}

\* In the order of the spool.
UnresolvedRows(facts, classes) ==
    FlattenSeq([i \in DOMAIN facts |-> SetToSeq(UnresolvedOf(facts[i], classes))])

\* REPEATED_DIRECT_LINK
Repeated(edges, e) ==
    /\ e.type \in {"DIRECT_TOKEN_TRANSFER", "DELEGATED_TOKEN_AUTHORITY"}
    /\ \E d \in edges : d # e /\ d.from = e.from /\ d.to = e.to
-----------------------------------------------------------------------------
(***************************************************************************)
(* What an edge is worth to the crawl                                      *)
(***************************************************************************)

\* _edge_priority: its numbers as one number, and the signature
Signal(edges, e) ==
    CASE e.type = "CONFIRMED_DIRECT_LINK" -> 5
      [] e.type = "NON_MARKET_CO_SIGNER" -> 4
      [] e.type = "ATA_PREPARATION" -> 3
      [] OTHER -> IF Repeated(edges, e) THEN 2
                  ELSE IF e.type = "PLAIN_DIRECT_SOL_TRANSFER" /\ e.amount >= MaterialSol THEN 1 ELSE 0

Priority(edges, e) ==
    LET Bit(b) == IF b THEN 1 ELSE 0 IN
    [rank |-> ((Bit(e.asset = Target) * 2 + Bit(e.high)) * 6 + Signal(edges, e)) * 1000
                 + (IF e.asset = Target THEN e.amount ELSE 0),
     sig |-> e.sig]

Above(p, q) == p.rank > q.rank \/ (p.rank = q.rank /\ p.sig > q.sig)

\* _deep_traversal_reason
Deepens(edges, e) ==
    \/ e.asset = Target
    \/ /\ e.high
       /\ \/ e.type \in {"CONFIRMED_DIRECT_LINK", "ATA_PREPARATION"}
          \/ Repeated(edges, e)
          \/ e.type = "PLAIN_DIRECT_SOL_TRANSFER" /\ e.amount >= MaterialSol

\* _unresolved_relationship_blocks_target_status
Blocks(row) == row.asset = Target
-----------------------------------------------------------------------------
(***************************************************************************)
(* assign_graph_depths and assess_control_likelihood                       *)
(***************************************************************************)
Neighbours(edges, w) == {e.to : e \in {d \in edges : d.from = w}}
                            \cup {e.from : e \in {d \in edges : d.to = w}}

\* The only member of a set; a value bound by a set is evaluated once.
The(S) == CHOOSE x \in S : TRUE

\* Expansion of a wallet: its new neighbours take the next places, in the order of
\* the addresses, as far as the depth and the number of wallets allow.
Expand(g, w, edges, graphDepth, maxWallets) ==
    LET new == Neighbours(edges, w) \ DOMAIN g.depth
        Place(v) == Cardinality(DOMAIN g.depth) + Cardinality({u \in new : u <= v})
        beyond == g.depth[w] + 1 > graphDepth
        admitted == IF beyond THEN {} ELSE {v \in new : Place(v) <= maxWallets}
        all == DOMAIN g.depth \cup admitted
    IN  [depth |-> [v \in all |-> IF v \in DOMAIN g.depth THEN g.depth[v] ELSE g.depth[w] + 1],
         place |-> [v \in all |-> IF v \in DOMAIN g.depth THEN g.place[v] ELSE Place(v)],
         warned |-> g.warned \cup
                       (IF admitted = new THEN {} ELSE IF beyond THEN {"depth"} ELSE {"wallets"})]

\* Breadth first from the seed: the queue only grows, and its n-th wallet is the
\* n-th expanded.
Depths(seed, edges, graphDepth, maxWallets) ==
    LET Next(g, n) == {v \in DOMAIN g.place : g.place[v] = n}
        Step(g, n) == IF Next(g, n) = {} THEN g
                      ELSE Expand(g, The(Next(g, n)), edges, graphDepth, maxWallets)
        After[n \in 0..maxWallets] ==
            IF n = 0 THEN [depth |-> [v \in {seed} |-> 0], place |-> [v \in {seed} |-> 1], warned |-> {}]
            ELSE The({Step(g, n) : g \in {After[n - 1]}})
    IN  After[maxWallets]

\* _evidence_class
EvidenceClass(type) ==
    CASE type = "NON_MARKET_CO_SIGNER" -> {"CO_SIGN"}
      [] type = "ATA_PREPARATION" -> {"ATA_PREPARATION"}
      [] type = "CONFIRMED_DIRECT_LINK" -> {"ATA_TOKEN_COMPOSITE"}
      [] type = "DIRECT_TOKEN_TRANSFER" -> {"TOKEN_FLOW"}
      [] type = "PLAIN_DIRECT_SOL_TRANSFER" -> {"SOL_FUNDING"}
      [] OTHER -> {}

PairEdges(edges, v, w) ==
    {e \in edges : {e.from, e.to} = {v, w} /\ EvidenceClass(e.type) # {}}

\* LIKELY_COMMON_CONTROL: two classes of evidence in two transactions, one of them
\* of coordination and one of resources.
LikelyControlled(edges, v, w) ==
    LET pair == PairEdges(edges, v, w)
        classes == UNION {EvidenceClass(e.type) : e \in pair}
    IN  /\ Cardinality(classes) >= 2
        /\ Cardinality({e.sig : e \in pair}) >= 2
        /\ classes \cap {"CO_SIGN", "ATA_PREPARATION", "ATA_TOKEN_COMPOSITE"} # {}
        /\ classes \cap {"TOKEN_FLOW", "SOL_FUNDING", "ATA_TOKEN_COMPOSITE"} # {}
=============================================================================
