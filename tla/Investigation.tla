--------------------------- MODULE Investigation ---------------------------
(***************************************************************************)
(* The ledger one investigation shares between its clients: the budgets a  *)
(* request, a signature or a transaction is charged to, the answers kept   *)
(* for reuse, and the window of transaction payloads with the manifests of *)
(* the history pages that can be replayed from it.  A ledger is a record;  *)
(* each operator is one method of InvestigationContext, as a function of   *)
(* the ledger before it.                                                   *)
(***************************************************************************)
EXTENDS Integers, Sequences, FiniteSets, Queues

CONSTANTS
    Signatures,       \* transactions of the chain
    None,             \* no signature, budget or token
    MaxRequests,      \* max_rpc_requests
    MaxSignatures,    \* max_signatures
    MaxTransactions,  \* max_transactions
    MaxCredits,       \* max_estimated_provider_credits
    PayloadWindow     \* 256: transaction payloads kept in memory

Budgets == {"max_rpc_requests", "max_signatures", "max_transactions",
            "max_estimated_provider_credits"}

ASSUME InvestigationAssumption ==
    /\ None \notin Signatures \cup Nat \cup Budgets
    /\ IsFiniteSet(Signatures)
    /\ {MaxRequests, MaxSignatures, MaxTransactions, MaxCredits, PayloadWindow}
          \subseteq Nat \ {0}

DasMethods == {"getAsset", "getTokenAccounts"}

\* estimated_provider_credit_weight
Weight(method) ==
    CASE method \in DasMethods -> 10
      [] method = "getProgramAccounts" -> 10
      [] method = "getTransactionsForAddress" -> 100
      [] method = "getTransfersByAddress" -> 10
      [] OTHER -> 1

NewLedger == [requests |-> 0, credits |-> 0, signatures |-> {}, transactions |-> {},
              payloads |-> <<>>, manifests |-> {}, accounts |-> {},
              answers |-> {}, terminatedBy |-> None]

\* The first budget that refused something is the one the report names.
Terminate(l, budget) ==
    IF l.terminatedBy = None THEN [l EXCEPT !.terminatedBy = budget] ELSE l
-----------------------------------------------------------------------------
(***************************************************************************)
(* Requests                                                                *)
(***************************************************************************)

\* Mutant: a retry is not compared with the ceiling of credits.
RefusalUntilFull(l, method) ==
    IF method \notin DasMethods /\ l.requests >= MaxRequests THEN "max_rpc_requests"
    ELSE IF l.credits >= MaxCredits THEN "max_estimated_provider_credits"
    ELSE None

\* The budget that refuses a request, None when it may be sent.
Refusal(l, method) ==
    IF method \notin DasMethods /\ l.requests >= MaxRequests THEN "max_rpc_requests"
    ELSE IF l.credits + Weight(method) > MaxCredits THEN "max_estimated_provider_credits"
    ELSE None

\* before_request, when it does not raise
Charge(l, method) ==
    [l EXCEPT !.requests = IF method \in DasMethods THEN @ ELSE @ + 1,
              !.credits = @ + Weight(method)]
-----------------------------------------------------------------------------
(***************************************************************************)
(* The window of payloads: least recently used first                       *)
(***************************************************************************)
Kept(l) == {l.payloads[i].id : i \in DOMAIN l.payloads}

Usable(l, s) == \E i \in DOMAIN l.payloads : l.payloads[i].id = s /\ l.payloads[i].found

Payload == [id : Signatures, found : BOOLEAN]
Of(s) == {p \in Payload : p.id = s}

\* move_to_end
Moved(window, s) == Sieve(window, Payload \ Of(s)) \o Sieve(window, Of(s))

\* _remember_transaction_payload: the transaction the provider did not know is
\* remembered as absent, and the oldest entries leave the window.
Remember(l, s, found) ==
    LET window == Append(Sieve(l.payloads, Payload \ Of(s)), [id |-> s, found |-> found])
        excess == IF Len(window) > PayloadWindow THEN Len(window) - PayloadWindow ELSE 0
    IN  [l EXCEPT !.payloads = SubSeq(window, excess + 1, Len(window))]

\* The budget observe_signature or observe_transaction raises, if any.
SignatureRefusal(l, s) ==
    IF s \notin l.signatures /\ Cardinality(l.signatures) >= MaxSignatures
    THEN "max_signatures" ELSE None

TransactionRefusal(l, s) ==
    IF SignatureRefusal(l, s) # None THEN "max_signatures"
    ELSE IF s \notin l.transactions /\ Cardinality(l.transactions) >= MaxTransactions
    THEN "max_transactions" ELSE None

ObserveSignature(l, s) == [l EXCEPT !.signatures = @ \cup {s}]

\* A payload kept is never replaced; one that was evicted may come back.
ObserveTransaction(l, s, found) ==
    LET counted == [l EXCEPT !.signatures = @ \cup {s}, !.transactions = @ \cup {s}]
    IN  IF {s} \subseteq l.signatures \cap l.transactions \cap Kept(l)
        THEN counted ELSE Remember(counted, s, found)

TransactionGet(l, s) == IF s \in Kept(l) THEN [l EXCEPT !.payloads = Moved(@, s)] ELSE l
-----------------------------------------------------------------------------
(***************************************************************************)
(* Manifests: the rows and the token of a page, by the request for it      *)
(***************************************************************************)
Manifest(l, key) == CHOOSE m \in l.manifests : m.key = key

\* Mutant: a page is replayed as long as one of its payloads is kept.
CachedAfterEviction(l, key) ==
    \E m \in l.manifests : m.key = key /\ \E i \in DOMAIN m.rows : Usable(l, m.rows[i])

\* history_page_manifest_get finds every payload of the page in the window.
Cached(l, key) ==
    \E m \in l.manifests : m.key = key /\ \A i \in DOMAIN m.rows : Usable(l, m.rows[i])

\* A hit moves the payloads of the page, in order, to the recent end.
ManifestGet(l, key) ==
    LET rows == Manifest(l, key).rows
        moved[i \in 0..Len(rows)] ==
            IF i = 0 THEN l.payloads ELSE Moved(moved[i - 1], rows[i])
    IN  [l EXCEPT !.payloads = moved[Len(rows)]]

\* A page whose payloads did not all stay in the window is not kept.
ManifestSet(l, key, rows, token) ==
    IF \E i \in DOMAIN rows : rows[i] \notin Kept(l) THEN l
    ELSE [l EXCEPT !.manifests = {m \in @ : m.key # key}
                                   \cup {[key |-> key, rows |-> rows, token |-> token]}]
=============================================================================
