--------------------------- MODULE ClusterReports ---------------------------
(***************************************************************************)
(* What an audit may conclude, held against the whole chain.               *)
(***************************************************************************)
EXTENDS ClusterAudit

Done == phase = "done"

\* Everything the chain says, and what its addresses really are.
AllFacts == {Autopsies[i] : i \in chain}
AllClasses == [w \in Addresses |-> Classify(record[w])]

\* What its addresses are as far as the audit was told: one whose record was asked for
\* and not answered is not known to be a wallet.
AsTold == [w \in Addresses |-> IF w \in DOMAIN classes THEN classes[w] ELSE AllClasses[w]]

\* Transfers of the target between wallets that the sender signed, trades aside.
Handed(known) ==
    UNION {{t \in f.tokens : /\ t.asset = Target /\ ~f.market
                             /\ WalletLike(known, t.from) /\ WalletLike(known, t.to)
                             /\ t.by = t.from /\ t.from \in f.signers} : f \in AllFacts}

\* The wallets such transfers lead to from the seed.
Reached(known) ==
    LET After[n \in 0..Cardinality(Addresses)] ==
            IF n = 0 THEN {Seed}
            ELSE LET near == After[n - 1]
                 IN  near \cup {t.to : t \in {s \in Handed(known) : s.from \in near}}
    IN  After[Cardinality(Addresses)]

\* What the history of w tells when it is read to the end: the wallets it is related
\* to by transactions it lists, in which they are its counterparties.
Listed(w) == IF w = Seed THEN ListedWithTokens(w) ELSE ListedByName(w)

Told(known, w) ==
    IF config.deep \/ w = Seed
    THEN UNION {{v \in CandidateAddresses(Autopsies[i], w) :
                    Between(EdgesOf(Autopsies[i], known), v, w) # {}} : i \in Listed(w)}
    ELSE {Other(e, w) : e \in LineageEdges(TransfersOf(ListedTransfers(w), w), known)}

\* No request is known to have failed, and the audit knows what its addresses are, all of
\* them unless a request was answered with nothing.
Candid == failures = 0 /\ (voids = 0 => AsTold = AllClasses)

\* A target that is reported out is out, as far as wallets were recognised: the
\* wallets it was handed to, however far, are in the graph, all the graph holds was read
\* as it is and is no more than the threshold, and no relationship of the sample that
\* concerns the target is open.
OutIsCovered ==
    Done /\ report.target = "VERIFIED_OUT" =>
        /\ Candid
        /\ Reached(AsTold) \subseteq evidence.nodes
        /\ \A w \in evidence.nodes : holds[w] = Holding(w)
        /\ ~(Visible > Threshold)
        /\ \A i \in DOMAIN evidence.rows : i <= SampleLimit => ~Blocks(evidence.rows[i])

\* Relationships are resolved within scope only when the seed was visited and with
\* every wallet all that the whole of its history tells of, as far as wallets were
\* recognised.
ResolvedIsClosed ==
    Done /\ report.relationship = "RESOLVED_WITHIN_SCOPE" =>
        /\ Candid
        /\ Seed \in crawl.fetched
        /\ crawl.fetched \subseteq evidence.nodes
        /\ \A w \in crawl.fetched : Told(AsTold, w) \subseteq crawl.fetched

\* cluster.py:204: "Each failed chunk remains fail-closed as unresolved".  What the
\* wallets the target was handed to hold in all is no more than the threshold if the
\* target is reported out, whatever failed.
FailsClosed ==
    Done /\ report.target = "VERIFIED_OUT" =>
        LET Hold(w) == Holding(w) IN MapThenSumSet(Hold, Reached(AllClasses)) <= Threshold

\* docs/BETA_OPERATIONS.md: "Graph expansion ends when no evidence-backed wallet
\* candidate remains."  In a deep audit that found the target out the history of
\* every wallet of the graph was read.
ExpansionEnds ==
    Done /\ config.deep /\ report.target = "VERIFIED_OUT" =>
        evidence.nodes \subseteq crawl.fetched

\* What is reported stands in the chain: no edge, and no assessment of control,
\* comes from reading only a part of it.
NothingInvented ==
    Done =>
        LET all == Edges(AllFacts, AllClasses)
                      \cup LineageEdges(TransfersOf(chain, Seed) \cup
                                        UNION {TransfersOf(chain, w) : w \in Addresses}, AllClasses)
        IN  /\ evidence.edges \subseteq all
            /\ \A v, w \in evidence.nodes :
                  v # w /\ LikelyControlled(evidence.edges, v, w) => LikelyControlled(all, v, w)

\* The indexes agree with the facts they stand for: the counterparties of a wallet,
\* and whether it signed anything else.
IndexesExact ==
    Done =>
        LET facts == Range(graph.facts) IN
        \A w \in Addresses :
            /\ CandidatesFor(graph, w) = UNION {CandidateAddresses(f, w) : f \in facts}
            /\ \A f \in facts : HasOtherSignature(graph.signed, w, f.sig) <=>
                                    \E g \in facts : g.sig # f.sig /\ w \in g.signers
=============================================================================
