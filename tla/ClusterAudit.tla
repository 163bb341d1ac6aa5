---------------------------- MODULE ClusterAudit ----------------------------
(***************************************************************************)
(* cluster-audit: from a seed wallet through the wallets it is related to, *)
(* as far as the depth, the number of wallets and the budget allow, to     *)
(* what they hold of the target and what may be concluded.  The chain does *)
(* not change while it is read; every request may fail, after its retries, *)
(* or be answered with nothing of use, and a history may end early with    *)
(* the rows read so far.  An answer that can be read is taken at its word. *)
(***************************************************************************)
EXTENDS GraphEvidence

CONSTANTS
    Templates,    \* Templates[i]: the transaction with signature i, in order of time
    Worlds,       \* what the chain may consist of: transactions and account records
    Opening,      \* balances of the target when the window opens
    Supply,       \* supply of the target
    Seed,         \* the wallet audited
    Configs,      \* ClusterAuditConfig: deep_forensic, graph_depth, max_wallets
    Materiality,  \* materiality_inventory_pct, in percent
    Nobody,       \* no address
    MaxFailures   \* bound: requests that fail, or are answered with nothing, in one audit

Addresses == DOMAIN Opening

ASSUME ClusterAuditAssumption ==
    /\ Seed \in Addresses /\ Addresses \subseteq Nat /\ IsFiniteSet(Addresses)
    /\ Nobody \notin Addresses
    /\ Templates \in Seq(Range(Templates))
    /\ \A i \in DOMAIN Templates :
          Templates[i].id = i /\ Parties(Templates[i]) \subseteq Addresses
    /\ \A w \in Worlds : w.chain \subseteq DOMAIN Templates /\ DOMAIN w.record = Addresses
    /\ \A c \in Configs : c.graphDepth \in 0..6 /\ c.maxWallets \in Nat \ {0}
    /\ Materiality \in 0..100

VARIABLES
    config, chain, record,  \* the audit asked for and the world it reads
    phase,      \* how far run_cluster_audit is
    seen,       \* observed_transaction_signatures
    seedRows,   \* seed_transaction_signatures
    lineage,    \* signatures and wallets of the target transfers streamed
    graph,      \* graph_evidence
    classes,    \* classifications
    crawl,      \* what the traversal keeps
    evidence,   \* the edges, unresolved rows, nodes and traced wallets it ends with
    holds,      \* fresh balances read
    complete,   \* complete of the seed, the graph and the mint-wide histories
    rpcFailed,  \* last_failure_reason of the RPC client
    exhausted,  \* expansion_exhausted
    failures,   \* requests that failed and were noted so
    voids,      \* requests answered with nothing of use, which nobody notes
    report      \* the statuses concluded

vars == <<config, chain, record, phase, seen, seedRows, lineage, graph, classes, crawl,
          evidence, holds, complete, rpcFailed, exhausted, failures, voids, report>>
world == <<config, chain, record>>

Unread == -1
NoReport == [target |-> "none", relationship |-> "none", combined |-> "none"]

Init ==
    /\ config \in Configs
    /\ \E w \in Worlds : chain = w.chain /\ record = w.record
    /\ phase = "balance"
    /\ seen = {} /\ seedRows = {} /\ lineage = {}
    /\ graph = NewGraph
    /\ classes = <<>>
    /\ crawl = [depth |-> [w \in {Seed} |-> 0], queue |-> {Seed},
                priority |-> [w \in {Seed} |-> [rank |-> 20000, sig |-> 0]],
                skipped |-> {}, fetched |-> {}, warned |-> {}]
    /\ evidence = [edges |-> {}, rows |-> <<>>, nodes |-> {}, read |-> {}, traced |-> {}]
    /\ holds = <<>>
    /\ complete = [seed |-> TRUE, graph |-> TRUE, mint |-> TRUE]
    /\ rpcFailed = FALSE /\ exhausted = FALSE
    /\ failures = 0 /\ voids = 0
    /\ report = NoReport
-----------------------------------------------------------------------------
(***************************************************************************)
(* The chain and its provider                                              *)
(***************************************************************************)
\* What transactions change of a balance of the target.
Moved(w, sigs) ==
    LET Change(i) == Gain(Templates[i], w, Target) IN MapThenSumSet(Change, sigs)

Holding(w) == Opening[w] + Moved(w, chain)

\* Target transfers of a transaction, trades included.
TargetSteps(i) ==
    {Templates[i].steps[j] : j \in {k \in Steps(Templates[i], "token") : Templates[i].steps[k].asset = Target}}

\* What a history of w lists: with its token accounts, under its name only, or the
\* transfers of the target.
ListedWithTokens(w) == {i \in chain : w \in Parties(Templates[i])}
ListedByName(w) == {i \in chain : w \in Named(Templates[i])}
ListedTransfers(w) == {i \in chain : \E t \in TargetSteps(i) : w \in {t.from, t.to}}
ListedOfMint == {i \in chain : TargetSteps(i) # {}}

\* A history read to its end, or given up after some of its rows.
Reads(listed, outcome) ==
    IF outcome = "complete" THEN {listed}
    ELSE {{i \in listed : i < n} : n \in listed} \cup {listed}

\* A request the client gives up keeps its reason (_terminal).  An answer of no use, a null
\* result, a list that is null or too short, a token account that cannot be parsed, does
\* not: what is made of it is as if there were no account.
Void == {"void", "lost"}

\* Mutant: a request that failed only counts in histories.
FailQuietly(outcomes) ==
    LET failed == {i \in DOMAIN outcomes : outcomes[i] # "complete"}
        void == {i \in failed : outcomes[i] \in Void}
    IN  /\ failures' = failures + Cardinality(failed \ void)
        /\ voids' = voids + Cardinality(void)
        /\ failures' + voids' <= MaxFailures
        /\ rpcFailed' = rpcFailed
        /\ exhausted' = (exhausted \/ \E i \in failed : outcomes[i] = "budget")

\* What the answers to some requests leave behind.
Fail(outcomes) ==
    LET failed == {i \in DOMAIN outcomes : outcomes[i] # "complete"}
        void == {i \in failed : outcomes[i] \in Void}
    IN  /\ failures' = failures + Cardinality(failed \ void)
        /\ voids' = voids + Cardinality(void)
        /\ failures' + voids' <= MaxFailures
        /\ rpcFailed' = (rpcFailed \/ \E i \in failed : outcomes[i] \in {"rpc", "none"})
        /\ exhausted' = (exhausted \/ \E i \in failed : outcomes[i] = "budget")

\* One request at least, when there are addresses to classify.
Classifications(addresses) ==
    IF addresses \subseteq DOMAIN classes THEN {"complete"}
    ELSE {"complete", "rpc", "void", "budget"}

\* Addresses whose records are answered: one batch may fail and another not, a list may
\* be too short.
Answered(addresses, outcome) ==
    LET new == addresses \ DOMAIN classes IN
    IF outcome = "complete" THEN {new} ELSE (SUBSET new) \ {new}

\* Mutant: what a failed request leaves is taken for a wallet.
ClassifiedHopefully(addresses, outcome) ==
    {[w \in addresses \cup DOMAIN classes |->
        IF w \in DOMAIN classes THEN classes[w]
        ELSE IF w \in answered THEN Classify(record[w]) ELSE "WALLET_LIKE"] :
            answered \in Answered(addresses, outcome)}

\* _classify_addresses: what a request leaves unanswered is unresolved, and kept.
Classified(addresses, outcome) ==
    {[w \in addresses \cup DOMAIN classes |->
        IF w \in DOMAIN classes THEN classes[w]
        ELSE IF w \in answered THEN Classify(record[w]) ELSE "UNRESOLVED"] :
            answered \in Answered(addresses, outcome)}

Autopsies == [i \in DOMAIN Templates |-> Autopsy(Templates[i])]

\* The transactions of a history, one after the other.
IngestAll(g, sigs) ==
    LET after[n \in 0..Len(Templates)] ==
            IF n = 0 THEN g
            ELSE IF n \in sigs THEN Ingest(after[n - 1], Autopsies[n])
            ELSE after[n - 1]
    IN  after[Len(Templates)]

\* _fresh_target_balance: the RPC, or, after a failure or an answer of no use, the
\* historical provider, or no balance.
Answers == {"complete", "rpc", "none", "void", "lost", "budget"}

Balance(w, outcome) ==
    IF outcome \in {"none", "lost", "budget"} THEN Unread ELSE Holding(w)
-----------------------------------------------------------------------------
(***************************************************************************)
(* remember_neighbor                                                       *)
(***************************************************************************)
Other(e, w) == IF e.from = w THEN e.to ELSE e.from

\* The best edge first.
Before(edges, e, f) ==
    LET p == Priority(edges, e)
        q == Priority(edges, f)
    IN  Above(p, q) \/ (p = q /\ (e.from < f.from \/ (e.from = f.from /\ e.to < f.to)))

Between(edges, v, w) == {e \in edges : {e.from, e.to} = {v, w}}

\* The wallets related to w, each with the best of its edges.
BestEdges(edges, w) ==
    [v \in {Other(e, w) : e \in {d \in edges : w \in {d.from, d.to}}} \ {w} |->
        CHOOSE e \in Between(edges, v, w) : \A f \in Between(edges, v, w) : ~Before(edges, f, e)]

\* Of the related wallets the known ones and, the best edge first, as many others
\* as there is room for.
Admitted(c, edges, best) ==
    LET known == DOMAIN best \cap DOMAIN c.depth
        new == DOMAIN best \ known
        Rivals(v) == {u \in new : Before(edges, best[u], best[v])}
    IN  known \cup {v \in new : Cardinality(Rivals(v)) + Cardinality(DOMAIN c.depth) < config.maxWallets}

\* The traversal with the admitted wallets in it: a wallet keeps its least depth and
\* its best edge; a deep one is queued, another is skipped; a limit that is met is
\* reported.
Joined(c, edges, w, best, admitted, deep) ==
    LET next == c.depth[w] + 1
        beyond == next > config.graphDepth
    IN  [c EXCEPT
            !.depth = [v \in DOMAIN @ \cup admitted |->
                          IF v \in DOMAIN @ /\ (v \notin admitted \/ @[v] <= next) THEN @[v] ELSE next],
            !.priority = [v \in DOMAIN @ \cup admitted |->
                             IF v \in DOMAIN @ /\ (v \notin admitted \/ ~Above(Priority(edges, best[v]), @[v]))
                             THEN @[v] ELSE Priority(edges, best[v])],
            !.queue = @ \cup (deep \ c.fetched),
            !.skipped = (@ \cup (admitted \ (c.fetched \cup c.queue))) \ deep,
            !.warned = @ \cup (IF DOMAIN best \subseteq admitted THEN {}
                               ELSE IF beyond THEN {"depth"} ELSE {"wallets"})]

\* remember_neighbor, of every edge of w: a wallet all of whose edges are weak is not
\* to be visited.
RememberAll(c0, edges, w, forced) ==
    \E c \in {c0} : \E best \in {BestEdges(edges, w)} :
    \E admitted \in {IF c.depth[w] + 1 > config.graphDepth THEN {} ELSE Admitted(c, edges, best)} :
    \E deep \in {{v \in admitted : forced \/ \E e \in Between(edges, v, w) : Deepens(edges, e)}} :
        crawl' = Joined(c, edges, w, best, admitted, deep)

\* The wallet visited next: the nearest, the one with the best edge, the first.
Chosen ==
    LET Sooner(v, w) ==
            LET p == crawl.priority[v]
                q == crawl.priority[w]
            IN  \/ crawl.depth[v] < crawl.depth[w]
                \/ /\ crawl.depth[v] = crawl.depth[w]
                   /\ \/ p.rank > q.rank
                      \/ p.rank = q.rank /\ (p.sig < q.sig \/ (p.sig = q.sig /\ v <= w))
    IN  {v \in crawl.queue : \A w \in crawl.queue : Sooner(v, w)}
-----------------------------------------------------------------------------
(***************************************************************************)
(* run_cluster_audit: the seed                                             *)
(***************************************************************************)
ReadSeedBalance ==
    /\ phase = "balance"
    /\ \E outcome \in Answers :
          /\ Fail(<<outcome>>)
          /\ holds' = [w \in {Seed} |-> Balance(w, outcome)]
    /\ phase' = "history"
    /\ UNCHANGED <<world, seen, seedRows, lineage, graph, classes, crawl, evidence, complete, report>>

\* All that touches the seed or its token accounts.
ReadSeedHistory ==
    /\ phase = "history"
    /\ \E outcome \in {"complete", "capped", "budget"} :
          /\ Fail(<<outcome>>)
          /\ complete' = [complete EXCEPT !.seed = outcome = "complete"]
          /\ \E rows \in Reads(ListedWithTokens(Seed), outcome) :
                /\ seedRows' = rows
                /\ seen' = rows
                /\ graph' = IngestAll(graph, rows)
    /\ phase' = "seed"
    /\ UNCHANGED <<world, lineage, classes, crawl, evidence, holds, report>>

\* failure_result: a history that ends in an error is no history of the seed.
LoseSeedHistory ==
    /\ phase = "history"
    /\ Fail(<<"error">>)
    /\ phase' = "done"
    /\ report' = [s \in DOMAIN report |-> "INSUFFICIENT_DATA"]
    /\ UNCHANGED <<world, seen, seedRows, lineage, graph, classes, crawl, evidence, holds, complete>>

ClassifySeed ==
    /\ phase = "seed"
    /\ \E outcome \in Classifications({Seed}) :
          /\ Fail(<<outcome>>)
          /\ classes' \in Classified({Seed}, outcome)
    /\ phase' = "linked"
    /\ UNCHANGED <<world, seen, seedRows, lineage, graph, crawl, evidence, holds, complete, report>>

\* What the seed is seen with is classified, and its neighbours are to be visited.
SeedGraph ==
    /\ phase = "linked"
    /\ \E linked \in {CandidatesFor(graph, Seed)} : \E outcome \in Classifications(linked) :
       \E known \in Classified(linked, outcome) :
          /\ Fail(<<outcome>>)
          /\ classes' = known
          /\ \E edges \in {Edges(Range(graph.facts), known)} :
                RememberAll(crawl, edges, Seed, TRUE)
    /\ phase' = "crawl"
    /\ UNCHANGED <<world, seen, seedRows, lineage, graph, evidence, holds, complete, report>>
-----------------------------------------------------------------------------
(***************************************************************************)
(* run_cluster_audit: the traversal                                        *)
(***************************************************************************)
\* What the visit of a wallet makes of the traversal.
Visited(w, outcome) ==
    LET warning == outcome \in {"capped", "budget"} IN
    [crawl EXCEPT !.queue = @ \ {w}, !.fetched = @ \cup {w}, !.skipped = @ \ {w},
                  !.warned = IF warning THEN @ \cup {outcome} ELSE @]

Outcomes == {"complete", "error", "capped", "budget"}

\* Mutant: a history that ended early leaves the graph complete.
VisitAnyway(outcome, classified) ==
    /\ Fail(<<outcome, classified>>)
    /\ phase' = IF outcome = "budget" THEN "end" ELSE "crawl"
    /\ UNCHANGED <<world, seedRows, evidence, holds, complete, report>>

\* The requests of one visit; the budget ends the traversal.
Visit(outcome, classified) ==
    /\ Fail(<<outcome, classified>>)
    /\ phase' = IF outcome = "budget" THEN "end" ELSE "crawl"
    /\ complete' = [complete EXCEPT !.graph = @ /\ outcome = "complete"]
    /\ UNCHANGED <<world, seedRows, evidence, holds, report>>

\* The seed, and in a deep audit every wallet: all the activity under its name.
VisitActivity ==
    /\ phase = "crawl" /\ crawl.queue # {} /\ ~exhausted
    /\ \E w \in {v \in Chosen : config.deep \/ v = Seed}, outcome \in Outcomes :
       \E rows \in Reads(ListedByName(w), outcome) :
       \E spool \in {IngestAll(graph, rows \ seen)} : \E linked \in {CandidatesFor(spool, w)} :
       \E classified \in Classifications(linked) : \E known \in Classified(linked, classified) :
          /\ Visit(outcome, classified)
          /\ seen' = seen \cup rows
          /\ graph' = spool
          /\ classes' = known
          /\ \E edges \in {Edges(Range(spool.facts), known)} :
                RememberAll(Visited(w, outcome), edges, w, w = Seed)
    /\ UNCHANGED lineage

\* stream_wallet_target_transfers_bounded: transfers of the target, trades included.
TransfersOf(rows, w) ==
    UNION {{[sig |-> i, from |-> t.from, to |-> t.to, amount |-> t.amount] :
               t \in {s \in TargetSteps(i) : w \in {s.from, s.to} /\ s.from # s.to}} : i \in rows}

LineageEdges(rows, known) ==
    {[sig |-> r.sig, type |-> "TARGET_TOKEN_TRANSFER", from |-> r.from, to |-> r.to,
      asset |-> Target, amount |-> r.amount, high |-> TRUE] :
        r \in {l \in rows : WalletLike(known, l.from) /\ WalletLike(known, l.to)}}

\* Another wallet in an audit that is not deep: its transfers of the target.
VisitTransfers ==
    /\ phase = "crawl" /\ crawl.queue # {} /\ ~exhausted
    /\ \E w \in {v \in Chosen : ~config.deep /\ v # Seed}, outcome \in Outcomes :
       \E rows \in Reads(ListedTransfers(w), outcome) :
       \E transfers \in {TransfersOf(rows, w)} :
       \E linked \in {UNION {{t.from, t.to} : t \in transfers}} :
       \E classified \in Classifications(linked) : \E known \in Classified(linked, classified) :
          /\ Visit(outcome, classified)
          /\ lineage' = lineage \cup transfers
          /\ classes' = known
          /\ \E edges \in {LineageEdges(transfers, known)} :
                RememberAll(Visited(w, outcome), edges, w, FALSE)
    /\ UNCHANGED <<seen, graph>>

\* Nothing is visited once the budget is exhausted.
StopVisiting ==
    /\ phase = "crawl" /\ crawl.queue # {} /\ exhausted
    /\ crawl' = [crawl EXCEPT !.queue = @ \ Chosen, !.warned = @ \cup {"budget"}]
    /\ phase' = "end"
    /\ UNCHANGED <<world, seen, seedRows, lineage, graph, classes, evidence, holds, complete,
                   rpcFailed, exhausted, failures, voids, report>>
-----------------------------------------------------------------------------
(***************************************************************************)
(* run_cluster_audit: inventory                                            *)
(***************************************************************************)
\* What transaction i takes from its owners: normalized when the transaction was
\* read, and as the transfers streamed.  No status rests on increases.
Decreases(i) ==
    LET Decrease(type, t, to) == [at |-> i, signature |-> i, type |-> type, wallet |-> t.from,
                                  delta |-> -t.amount, destination |-> to]
        Sold(t) == Explicit(Templates[i]) /\ t.from \in Range(Templates[i].signers)
    IN  {IF Sold(t) THEN Decrease("SELL", t, Nobody) ELSE Decrease("TRANSFER", t, t.to) :
            t \in IF i \in seen THEN TargetSteps(i) ELSE {}}
        \cup {Decrease("TRANSFER", t, t.to) : t \in {l \in lineage : l.sig = i}}

\* target_events
TargetEvents ==
    LET Earlier(d, e) == d.wallet < e.wallet IN
    FlattenSeq([i \in DOMAIN Templates |-> SetToSortSeq(Decreases(i), Earlier)])

Exit == INSTANCE ExitVerdict WITH
            Wallets <- Addresses, Root <- Seed, Market <- Nobody, Holdings <- {Opening},
            Amounts <- {}, TraceDepths <- {3}, MaxMoves <- 1, MaxPerSecond <- 1,
            traceDepth <- 3, opening <- Opening, balance <- Opening, moves <- <<>>, held <- <<>>

\* The graph of the report and the wallets the target went to: the latter are
\* classified if they are not yet.
EndCrawl ==
    /\ phase = "end" \/ (phase = "crawl" /\ crawl.queue = {})
    /\ \E edges \in {Edges(Range(graph.facts), classes)
                        \cup (IF config.deep THEN {} ELSE LineageEdges(lineage, classes))} :
       \E g \in {Depths(Seed, edges, config.graphDepth, config.maxWallets)} :
       \E ev \in {TargetEvents} : \E reached \in {Exit!Discovered(ev)} : \E outcome \in Classifications(reached) :
          /\ evidence' = [edges |-> edges, rows |-> UnresolvedRows(graph.facts, classes),
                          nodes |-> DOMAIN g.depth, read |-> reached,
                          traced |-> Exit!Traced(Exit!Trace(ev))]
          /\ crawl' = [crawl EXCEPT !.warned = @ \cup g.warned \cup
                          (IF crawl.skipped \cap DOMAIN g.depth \subseteq crawl.fetched
                           THEN {} ELSE {"skipped"})]
          /\ Fail(<<outcome>>)
          /\ classes' \in Classified(reached, outcome)
    /\ phase' = "inventory"
    /\ UNCHANGED <<world, seen, seedRows, lineage, graph, holds, complete, report>>

\* One wallet after the other: those the target went to, then those of the graph.
ReadBalance ==
    LET wanted == (evidence.read \cup evidence.nodes) \ DOMAIN holds
        first == IF evidence.read \subseteq DOMAIN holds THEN wanted ELSE wanted \cap evidence.read
    IN  /\ phase = "inventory" /\ wanted # {}
        /\ \E outcome \in Answers, next \in {Min(first)} :
              /\ Fail(<<outcome>>)
              /\ holds' = [w \in DOMAIN holds \cup {next} |->
                              IF w = next THEN Balance(w, outcome) ELSE holds[w]]
        /\ UNCHANGED <<world, phase, seen, seedRows, lineage, graph, classes, crawl, evidence,
                       complete, report>>

\* _material_threshold
Basis ==
    LET starting == holds[Seed] - Moved(Seed, seedRows)
    IN  IF holds[Seed] = Unread \/ starting <= 0 THEN Supply ELSE starting

Threshold == (Basis * Materiality + 99) \div 100

Held(balances, wallets) ==
    LET Amount(w) == balances[w] IN MapThenSumSet(Amount, {w \in wallets : balances[w] # Unread})

Visible == Held(holds, evidence.nodes)

\* The history of the mint, unless what is visible settles the matter.
ReadMint ==
    /\ phase = "inventory" /\ evidence.read \cup evidence.nodes \subseteq DOMAIN holds
    /\ Visible <= Threshold /\ ~exhausted
    /\ \E outcome \in {"complete", "error", "budget"} : \E rows \in Reads(ListedOfMint, outcome) :
          /\ Fail(<<outcome>>)
          /\ seen' = seen \cup rows
          /\ graph' = IngestAll(graph, rows \ seen)
          /\ complete' = [complete EXCEPT !.mint = outcome = "complete"]
    /\ phase' = "conclusion"
    /\ UNCHANGED <<world, seedRows, lineage, classes, crawl, evidence, holds, report>>

SkipMint ==
    /\ phase = "inventory" /\ evidence.read \cup evidence.nodes \subseteq DOMAIN holds
    /\ Visible > Threshold \/ exhausted
    /\ phase' = "conclusion"
    /\ UNCHANGED <<world, seen, seedRows, lineage, graph, classes, crawl, evidence, holds, complete,
                   rpcFailed, exhausted, failures, voids, report>>
-----------------------------------------------------------------------------
(***************************************************************************)
(* run_cluster_audit: the conclusion                                       *)
(***************************************************************************)
\* unresolved_target_inventory: on traced wallets outside the graph
Unresolved ==
    Held(holds, {w \in evidence.traced : w \notin evidence.nodes \/ ~WalletLike(classes, w)})

Missing == {w \in evidence.nodes : holds[w] = Unread}

\* coverage_complete
Covered ==
    /\ complete.seed /\ complete.graph /\ complete.mint
    /\ Missing = {} /\ ~rpcFailed
    /\ "skipped" \notin crawl.warned /\ ~exhausted

\* Rows that leave the inventory open, of the first ones, which the report keeps.
Blocking == {i \in DOMAIN evidence.rows : i <= SampleLimit /\ Blocks(evidence.rows[i])}

\* The first condition that applies; open tells whether branches are.
Status(open) ==
    CASE Visible > Threshold -> "NOT_OUT"
      [] Visible <= Threshold /\ Unresolved > Threshold -> "UNRESOLVED"
      [] OTHER -> IF ~Covered THEN "INSUFFICIENT_DATA"
                  ELSE IF open THEN "UNRESOLVED" ELSE "VERIFIED_OUT"

Conclude ==
    /\ phase = "conclusion"
    /\ LET limited == crawl.warned # {}
           open == limited \/ evidence.rows # <<>> \/ exhausted \/ Unresolved > Threshold
       IN  report' = [target |-> Status(limited \/ Blocking # {}),
                      relationship |-> IF ~Covered THEN "INSUFFICIENT_DATA"
                                       ELSE IF open THEN "UNRESOLVED" ELSE "RESOLVED_WITHIN_SCOPE",
                      combined |-> Status(open)]
    /\ phase' = "done"
    /\ UNCHANGED <<world, seen, seedRows, lineage, graph, classes, crawl, evidence, holds, complete,
                   rpcFailed, exhausted, failures, voids>>

Next ==
    \/ ReadSeedBalance \/ ReadSeedHistory \/ LoseSeedHistory \/ ClassifySeed \/ SeedGraph
    \/ VisitActivity \/ VisitTransfers \/ StopVisiting \/ EndCrawl \/ ReadBalance
    \/ ReadMint \/ SkipMint \/ Conclude

Spec == Init /\ [][Next]_vars
=============================================================================
