---------------------------- MODULE HistoryPages ----------------------------
(***************************************************************************)
(* The reads of one investigation, one call at a time: the paginated and   *)
(* streamed history of an address, the transfers of one mint, a single     *)
(* transaction, and batches of account records.  A request may time out,   *)
(* be refused for its rate, fail for good, or break off in the middle of a *)
(* page whose first rows the consumer has already seen; a page may be      *)
(* replayed from the ledger; the provider may repeat a pagination token.   *)
(***************************************************************************)
EXTENDS Investigation, SequencesExt

CONSTANTS
    Addresses,    \* addresses whose history is read
    Accounts,     \* addresses whose account record is read
    History,      \* History[a]: the pages of a, each a sequence of transactions
    Transfers,    \* Transfers[a]: the pages of <<transaction, instruction>> rows
    PageLimits,   \* the page limits callers give (max_pages, page_limit)
    MaxRetries,   \* max_retries
    ChunkSize,    \* 100: accounts in one request
    MaxVersion,   \* bound: states an account goes through
    MaxCalls      \* bound: calls of the investigation

ASSUME HistoryPagesAssumption ==
    /\ None \notin Addresses
    /\ History \in [Addresses -> Seq(Seq(Signatures \cup {None})) \ {<<>>}]
    /\ Transfers \in [Addresses -> Seq(Seq(Signatures \X Nat)) \ {<<>>}]
    /\ IsFiniteSet(Accounts)
    /\ PageLimits \subseteq Nat \ {0} /\ ChunkSize \in Nat \ {0}
    /\ {MaxRetries, MaxVersion, MaxCalls} \subseteq Nat

VARIABLES
    ledger,     \* the InvestigationContext of the command
    call,       \* the call in progress
    delivered,  \* what the consumer of the latest call was given, in order
    result,     \* how the latest call ended
    chain,      \* chain[x]: the state account x is in
    read,       \* read[x]: the states of x the investigation was told
    calls       \* the calls begun

vars == <<ledger, call, delivered, result, chain, read, calls>>

Idle == [stage |-> "idle", kind |-> "none", address |-> None, limit |-> 0, pages |-> 0,
         page |-> 1, tokens |-> {}, attempt |-> 0, row |-> 0, wanted |-> {}]

Init ==
    /\ ledger = NewLedger
    /\ call = Idle
    /\ delivered = <<>>
    /\ result = [status |-> "none", kind |-> "none", address |-> None]
    /\ chain = [x \in Accounts |-> 0]
    /\ read = [x \in Accounts |-> {}]
    /\ calls = 0

\* The call returns a batch or raises: "error" is a ProviderError or RpcError,
\* "budget" a budget that refused; only "complete" claims the whole history.
Finish(status) ==
    /\ call' = Idle
    /\ result' = [status |-> status, kind |-> call.kind, address |-> call.address]

Begin(kind, address, status) ==
    /\ call.stage = "idle"
    /\ calls < MaxCalls
    /\ calls' = calls + 1
    /\ delivered' = <<>>
    /\ result' = [status |-> status, kind |-> kind, address |-> address]

Pages(c) == IF c.kind = "history" THEN History[c.address] ELSE Transfers[c.address]
Rows(c) == Pages(c)[c.page]
Key(c) == <<c.address, c.page>>
-----------------------------------------------------------------------------
(***************************************************************************)
(* Pages                                                                   *)
(***************************************************************************)

\* _history
BeginHistory(a, limit) ==
    /\ Begin("history", a, "none")
    /\ call' = [Idle EXCEPT !.stage = "page", !.kind = "history",
                            !.address = a, !.limit = limit]
    /\ UNCHANGED <<ledger, chain, read>>

\* stream_wallet_target_transfers_bounded
BeginTransfers(a, limit) ==
    /\ Begin("transfers", a, "none")
    /\ call' = [Idle EXCEPT !.stage = "page", !.kind = "transfers",
                            !.address = a, !.limit = limit]
    /\ UNCHANGED <<ledger, chain, read>>

\* A window that opens before the index of token accounts is not read at all.
BeginBeforeIndex(a) ==
    /\ Begin("history", a, "early")
    /\ call' = Idle
    /\ UNCHANGED <<ledger, chain, read>>

\* The page limit of the caller, or of the provider, is reached.
CapPages ==
    /\ call.stage = "page"
    /\ call.pages >= call.limit
    /\ Finish("capped")
    /\ UNCHANGED <<ledger, delivered, chain, read, calls>>

\* The rows of a page kept in the ledger are replayed, without a request.
ReplayPage ==
    /\ call.stage = "page"
    /\ call.pages < call.limit
    /\ call.kind = "history" /\ Cached(ledger, Key(call))
    /\ ledger' = ManifestGet(ledger, Key(call))
    /\ call' = [call EXCEPT !.stage = "replay", !.row = 0]
    /\ UNCHANGED <<delivered, result, chain, read, calls>>

RequestPage ==
    /\ call.stage = "page"
    /\ call.pages < call.limit
    /\ call.kind = "history" => ~Cached(ledger, Key(call))
    /\ call' = [call EXCEPT !.stage = "ask", !.attempt = 0]
    /\ UNCHANGED <<ledger, delivered, result, chain, read, calls>>

\* Mutant: the retried page gives the consumer its first rows again.
DeliverAgain(row) == delivered' = Append(delivered, row)

\* The consumer is given a row once in a call.
Deliver(row) ==
    delivered' = IF row \in ToSet(delivered) THEN delivered ELSE Append(delivered, row)

\* consume_history_transaction: a row without a signature is passed over; a
\* budget reached in the middle of a page ends the call there.
HistoryRow(row) ==
    IF row = None
    THEN /\ call' = [call EXCEPT !.row = @ + 1]
         /\ UNCHANGED <<ledger, delivered, result>>
    ELSE LET budget == TransactionRefusal(ledger, row) IN
         IF budget # None
         THEN /\ ledger' = Terminate(ledger, budget)
              /\ Finish("budget")
              /\ UNCHANGED delivered
         ELSE /\ ledger' = ObserveTransaction(ledger, row, TRUE)
              /\ Deliver(row)
              /\ call' = [call EXCEPT !.row = @ + 1]
              /\ UNCHANGED result

\* A row of a mint's transfers: only its signature is charged.
TransferRow(row) ==
    LET budget == SignatureRefusal(ledger, row[1]) IN
    IF budget # None
    THEN /\ ledger' = Terminate(ledger, budget)
         /\ Finish("budget")
         /\ UNCHANGED delivered
    ELSE /\ ledger' = ObserveSignature(ledger, row[1])
         /\ Deliver(row)
         /\ call' = [call EXCEPT !.row = @ + 1]
         /\ UNCHANGED result

StreamRow ==
    /\ call.stage = "rows"
    /\ call.row < Len(Rows(call))
    /\ LET row == Rows(call)[call.row + 1] IN
       IF call.kind = "history" THEN HistoryRow(row) ELSE TransferRow(row)
    /\ UNCHANGED <<chain, read, calls>>

ReplayRow ==
    /\ call.stage = "replay"
    /\ LET rows == Manifest(ledger, Key(call)).rows IN
       /\ call.row < Len(rows)
       /\ Usable(ledger, rows[call.row + 1])
       /\ HistoryRow(rows[call.row + 1])
    /\ UNCHANGED <<chain, read, calls>>

\* The token that follows a page: the next page, or none after the last.
HonestToken(c) == IF c.page < Len(Pages(c)) THEN c.page + 1 ELSE None

\* The page is counted; no token ends the history, a token seen before spoils it.
TurnPage(token) ==
    IF token = None THEN Finish("complete")
    ELSE IF token \in call.tokens THEN Finish("repeated")
    ELSE /\ call' = [call EXCEPT !.stage = "page", !.pages = @ + 1, !.page = token,
                                 !.row = 0, !.tokens = @ \cup {token}]
         /\ UNCHANGED result

\* The provider may repeat a token it gave before; the rows without a signature
\* are not kept.
EndPage ==
    /\ call.stage = "rows"
    /\ call.row = Len(Rows(call))
    /\ \E token \in call.tokens \cup {HonestToken(call)} :
          /\ ledger' = IF call.kind # "history" THEN ledger
                       ELSE ManifestSet(ledger, Key(call), Sieve(Rows(call), Signatures), token)
          /\ TurnPage(token)
    /\ UNCHANGED <<delivered, chain, read, calls>>

EndReplay ==
    /\ call.stage = "replay"
    /\ call.row = Len(Manifest(ledger, Key(call)).rows)
    /\ TurnPage(Manifest(ledger, Key(call)).token)
    /\ UNCHANGED <<ledger, delivered, chain, read, calls>>
-----------------------------------------------------------------------------
(***************************************************************************)
(* Requests: HeliusHistoricalProvider._call and _stream_history_page, and  *)
(* ReadOnlyRpcClient.call, all attempt a request and retry it alike        *)
(***************************************************************************)
Method(c) ==
    CASE c.kind = "history" -> "getTransactionsForAddress"
      [] c.kind = "transfers" -> "getTransfersByAddress"
      [] c.kind = "transaction" -> "getTransaction"
      [] OTHER -> "getMultipleAccounts"

\* Every attempt is charged before it is sent.
Send ==
    /\ call.stage = "ask"
    /\ LET budget == Refusal(ledger, Method(call)) IN
       IF budget # None
       THEN /\ ledger' = Terminate(ledger, budget)
            /\ Finish("budget")
       ELSE /\ ledger' = Charge(ledger, Method(call))
            /\ call' = [call EXCEPT !.stage = "sent"]
            /\ UNCHANGED result
    /\ UNCHANGED <<delivered, chain, read, calls>>

\* A page of history may break off while its rows are read.
Reading == call.stage = "rows" /\ call.kind = "history"

\* A timeout, a failed transport, a rate limit or a server error.
Retry ==
    /\ call.stage = "sent" \/ Reading
    /\ call.attempt < MaxRetries
    /\ call' = [call EXCEPT !.stage = "ask", !.attempt = @ + 1, !.row = 0]
    /\ UNCHANGED <<ledger, delivered, result, chain, read, calls>>

\* Mutant: a body that breaks off is taken for its end, and without a token the
\* history ends there.
GiveUpAtTruncation ==
    /\ call.stage = "sent" \/ Reading
    /\ Finish(IF Reading THEN "complete" ELSE "error")
    /\ UNCHANGED <<ledger, delivered, chain, read, calls>>

\* The attempts are used up, or the answer is one no retry can change: another
\* HTTP status, an error of the method, a body that is truncated or malformed.
GiveUp ==
    /\ call.stage = "sent" \/ Reading
    /\ Finish("error")
    /\ UNCHANGED <<ledger, delivered, chain, read, calls>>

ReceivePage ==
    /\ call.stage = "sent"
    /\ call.kind \in {"history", "transfers"}
    /\ call' = [call EXCEPT !.stage = "rows", !.row = 0]
    /\ UNCHANGED <<ledger, delivered, result, chain, read, calls>>
-----------------------------------------------------------------------------
(***************************************************************************)
(* get_transaction: the window, then the answers, then the provider        *)
(***************************************************************************)

\* The outcome is charged; an answer kept twice is charged once.
LearnTransaction(l, s, found, status) ==
    LET budget == TransactionRefusal(l, s) IN
    /\ ledger' = IF budget # None THEN Terminate(l, budget) ELSE ObserveTransaction(l, s, found)
    /\ call' = Idle
    /\ result' = [status |-> IF budget # None THEN "budget" ELSE status,
                  kind |-> "transaction", address |-> None]

BeginTransaction(s) ==
    /\ call.stage = "idle" /\ calls < MaxCalls
    /\ calls' = calls + 1
    /\ delivered' = <<>>
    /\ CASE s \in Kept(ledger) ->
              /\ ledger' = TransactionGet(ledger, s)
              /\ result' = [status |-> "complete", kind |-> "transaction", address |-> None]
              /\ UNCHANGED call
         [] s \notin Kept(ledger) /\ \E a \in ledger.answers : a.id = s ->
              \E a \in ledger.answers :
                 a.id = s /\ LearnTransaction(ledger, s, a.found, "complete")
         [] OTHER ->
              /\ call' = [Idle EXCEPT !.stage = "ask", !.kind = "transaction", !.wanted = {s}]
              /\ result' = [status |-> "none", kind |-> "transaction", address |-> None]
              /\ UNCHANGED ledger
    /\ UNCHANGED <<chain, read>>

\* The provider knows the transaction, or answers null.
ReceiveTransaction(s, found) ==
    /\ call.stage = "sent" /\ call.kind = "transaction" /\ call.wanted = {s}
    /\ LearnTransaction([ledger EXCEPT !.answers = @ \cup {[id |-> s, found |-> found]}],
                        s, found, "complete")
    /\ UNCHANGED <<delivered, chain, read, calls>>
-----------------------------------------------------------------------------
(***************************************************************************)
(* get_account_info and get_multiple_accounts                              *)
(***************************************************************************)
Record(l, x) == {r \in l.accounts : r.id = x}

\* The records kept are answered at once; the others are asked for in chunks.
BeginAccounts(xs) ==
    LET missing == {x \in xs : Record(ledger, x) = {}} IN
    /\ Begin("accounts", None, IF missing = {} THEN "complete" ELSE "none")
    /\ read' = [x \in Accounts |-> IF x \in xs \ missing
                                   THEN read[x] \cup {r.value : r \in Record(ledger, x)}
                                   ELSE read[x]]
    /\ call' = IF missing = {} THEN Idle
               ELSE [Idle EXCEPT !.stage = "ask", !.kind = "accounts", !.wanted = missing]
    /\ UNCHANGED <<ledger, chain>>

\* Mutant: the records of a batch are not kept.
ReceiveUnkeptAccounts(chunk) ==
    /\ call.stage = "sent" /\ call.kind = "accounts"
    /\ chunk \subseteq call.wanted
    /\ Cardinality(chunk) = ChunkSize \/ chunk = call.wanted
    /\ read' = [x \in Accounts |-> IF x \in chunk THEN read[x] \cup {chain[x]} ELSE read[x]]
    /\ IF chunk = call.wanted THEN Finish("complete")
       ELSE /\ call' = [call EXCEPT !.stage = "ask", !.attempt = 0, !.wanted = @ \ chunk]
            /\ UNCHANGED result
    /\ UNCHANGED <<ledger, delivered, chain, calls>>

ReceiveAccounts(chunk) ==
    /\ call.stage = "sent" /\ call.kind = "accounts"
    /\ chunk \subseteq call.wanted
    /\ Cardinality(chunk) <= ChunkSize
    /\ Cardinality(chunk) = ChunkSize \/ chunk = call.wanted
    /\ ledger' = [ledger EXCEPT !.accounts = @ \cup {[id |-> x, value |-> chain[x]] : x \in chunk}]
    /\ read' = [x \in Accounts |-> IF x \in chunk THEN read[x] \cup {chain[x]} ELSE read[x]]
    /\ IF chunk = call.wanted THEN Finish("complete")
       ELSE /\ call' = [call EXCEPT !.stage = "ask", !.attempt = 0, !.wanted = @ \ chunk]
            /\ UNCHANGED result
    /\ UNCHANGED <<delivered, chain, calls>>

\* The chain moves on while the investigation reads it.
AccountChanges(x) ==
    /\ chain[x] < MaxVersion
    /\ chain' = [chain EXCEPT ![x] = @ + 1]
    /\ UNCHANGED <<ledger, call, delivered, result, read, calls>>
-----------------------------------------------------------------------------
Provider ==
    \/ Send \/ Retry \/ GiveUp \/ ReceivePage
    \/ CapPages \/ ReplayPage \/ RequestPage
    \/ StreamRow \/ ReplayRow \/ EndPage \/ EndReplay
    \/ \E s \in Signatures, found \in BOOLEAN : ReceiveTransaction(s, found)
    \/ \E chunk \in SUBSET Accounts : ReceiveAccounts(chunk)

Command ==
    \/ \E a \in Addresses, limit \in PageLimits :
          BeginHistory(a, limit) \/ BeginTransfers(a, limit)
    \/ \E a \in Addresses : BeginBeforeIndex(a)
    \/ \E s \in Signatures : BeginTransaction(s)
    \/ \E xs \in (SUBSET Accounts) \ {{}} : BeginAccounts(xs)

Next == Provider \/ Command \/ \E x \in Accounts : AccountChanges(x)

Spec == Init /\ [][Next]_vars
-----------------------------------------------------------------------------
(***************************************************************************)
(* Properties                                                              *)
(***************************************************************************)

SignatureOf(row) == IF result.kind = "transfers" THEN row[1] ELSE row

\* A batch that claims complete coverage (_history, the transfers of a mint)
\* gave the consumer every row the provider has of the address, through broken
\* streams, retries, replayed pages and payloads evicted in between.
CompleteHistory ==
    result.status = "complete" /\ result.address # None =>
        LET pages == Pages([kind |-> result.kind, address |-> result.address]) IN
        \A i \in DOMAIN pages : ToSet(pages[i]) \ {None} \subseteq ToSet(delivered)

\* The consumer of a call sees no row twice, though a page that broke off is
\* streamed again from its first row and pages may overlap.
DeliveredOnce == IsInjective(delivered)

\* No request, retry, signature or transaction passes its budget, and all the
\* consumer was given is charged to the ledger (before_request, observe_*).
WithinBudgets ==
    /\ ledger.requests <= MaxRequests /\ ledger.credits <= MaxCredits
    /\ Cardinality(ledger.signatures) <= MaxSignatures
    /\ Cardinality(ledger.transactions) <= MaxTransactions
    /\ \A row \in ToSet(delivered) : SignatureOf(row) \in ledger.signatures

\* A page found in the ledger is replayed to its end: the branch of
\* _stream_history_page for a manifest that lost a payload is never taken.
ReplayKeepsPayloads ==
    call.stage = "replay" =>
        LET rows == Manifest(ledger, Key(call)).rows IN
        \A i \in call.row + 1..Len(rows) : Usable(ledger, rows[i])

\* One investigation is told one state of an account, though the account moves
\* on and is asked for in several batches ("shared immutable evidence").
OneAnswerPerAccount == \A x \in Accounts : Cardinality(read[x]) <= 1
=============================================================================
