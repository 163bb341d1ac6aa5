--------------------------- MODULE SellerRanking ---------------------------
(***************************************************************************)
(* The scan report: the sellers of the window, what each has left of the   *)
(* inventory the window implies, and what it passed on to other wallets.   *)
(* Unlike verify-exit it follows one transfer only and keeps no increase   *)
(* that nothing explains.                                                  *)
(***************************************************************************)
EXTENDS WalletLifecycle

\* normalize_transactions without include_unknown_increases
Ranked == Normalized(FALSE)

Holders == Wallets \cup {Market}

\* apply_transfer_links: the lots of every wallet, consumed oldest first by
\* whatever it parts with.  Mutant: only a sale consumes.
LinkLotsSold(ev) ==
    LET After[i \in 0..Len(ev)] ==
            IF i = 0 THEN [w \in Holders |-> <<>>]
            ELSE LET lots == After[i - 1]
                     e == ev[i]
                     own == lots[e.wallet]
                     uses == Uses(own, IF e.type = "SELL" THEN -e.delta ELSE 0)
                     kept == [lots EXCEPT ![e.wallet] =
                                [j \in DOMAIN own |-> [own[j] EXCEPT !.left = @ - uses[j]]]]
                 IN  IF Concrete(e)
                     THEN [kept EXCEPT ![e.destination] =
                              Append(@, [source |-> e.wallet, left |-> -e.delta])]
                     ELSE kept
    IN  After[Len(ev)]

\* apply_transfer_links
LinkLots(ev) ==
    LET After[i \in 0..Len(ev)] ==
            IF i = 0 THEN [w \in Holders |-> <<>>]
            ELSE LET lots == After[i - 1]
                     e == ev[i]
                     own == lots[e.wallet]
                     uses == Uses(own, IF e.delta < 0 THEN -e.delta ELSE 0)
                     kept == [lots EXCEPT ![e.wallet] =
                                [j \in DOMAIN own |-> [own[j] EXCEPT !.left = @ - uses[j]]]]
                 IN  IF Concrete(e)
                     THEN [kept EXCEPT ![e.destination] =
                              Append(@, [source |-> e.wallet, left |-> -e.delta])]
                     ELSE kept
    IN  After[Len(ev)]

\* linked[wallet][v], when trace_depth allows any
LinkedAmount(ev, w, v) ==
    LET lots == LinkLots(ev)[v]
        Left == [j \in DOMAIN lots |-> lots[j].left]
    IN  IF traceDepth = 0 THEN 0
        ELSE SumOver({j \in DOMAIN lots : lots[j].source = w}, Left)

\* transfer_linked_inventory_raw: never more than the wallets whose
\* balance was read hold now.
LinkedRemaining(ev, w, read) ==
    LET Share == [v \in Wallets |-> Lesser(LinkedAmount(ev, w, v), balance[v])]
    IN  SumOver(Wallets \cap read, Share)

Sells(ev, w) == {i \in DOMAIN ev : ev[i].type = "SELL" /\ ev[i].wallet = w}

\* _wallet_net_delta: every transfer to the wallet counts, the delivery of what
\* it bought included.
RankedNetDelta(ev, w) ==
    LET Delta == [i \in DOMAIN ev |-> ev[i].delta]
        Amount == [i \in DOMAIN ev |-> -ev[i].delta]
    IN  SumOver({i \in DOMAIN ev : ev[i].wallet = w}, Delta)
        + SumOver({i \in DOMAIN ev : Concrete(ev[i]) /\ ev[i].destination = w}, Amount)

RankedStart(ev, w) == balance[w] - RankedNetDelta(ev, w)

\* _status, in percent of the inventory the window implies
Standing(ev, w, read) ==
    LET remaining == 100 * (balance[w] + LinkedRemaining(ev, w, read))
        start == RankedStart(ev, w)
    IN  IF start <= 0 THEN "UNKNOWN"
        ELSE IF remaining <= start THEN "JEET_OUT"
        ELSE IF remaining <= 10 * start THEN "NEARLY_OUT"
        ELSE IF Cardinality(Sells(ev, w)) >= 2 /\ remaining < 50 * start THEN "DISTRIBUTING"
        ELSE "STILL_LOADED"

\* wallet_status: the wallet alone
WalletStanding(ev, w) ==
    LET remaining == 100 * balance[w]
        start == RankedStart(ev, w)
    IN  IF start <= 0 THEN "UNRESOLVED"
        ELSE IF remaining <= start THEN "WALLET_VERIFIED_OUT"
        ELSE IF remaining < 100 * start THEN "PARTIAL_EXIT"
        ELSE "STILL_HOLDING"

\* analyze_sellers, for the wallets whose balance was read
Sellers(ev) == {w \in Wallets : Sells(ev, w) # {}}

SellerRow(ev, w, read) ==
    IF w \notin read THEN [wallet |-> w, status |-> "UNKNOWN", walletStatus |-> "UNRESOLVED"]
    ELSE [wallet |-> w, status |-> Standing(ev, w, read), walletStatus |-> WalletStanding(ev, w)]

\* _run_scan: no ranking of an incomplete history or an exhausted budget, kept
\* from an earlier scan or read now.
Scan(read, complete, exhausted) ==
    IF ~complete \/ exhausted THEN [status |-> "INSUFFICIENT_DATA", sellers |-> {}]
    ELSE LET ev == Ranked IN
         [status |-> "COMPLETE", sellers |-> {SellerRow(ev, w, read) : w \in Sellers(ev)}]

\* _run_wallet
WalletReport(read, complete) == Lifecycle(Ranked, read, 0, complete)
=============================================================================
