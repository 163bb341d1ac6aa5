---------------------------- MODULE ExitVerdict ----------------------------
(***************************************************************************)
(* verify-exit: whether a seller is out of a token.  The chain moves the   *)
(* token between wallets; the provider lists the transactions by second,   *)
(* and within a second by signature, which says nothing of the order they  *)
(* happened in.  The report is a function of that list and of the fresh    *)
(* balances: the lots of the seller are followed first in, first out       *)
(* through the wallets they are transferred to.  Beside it the model keeps *)
(* where the seller's tokens really are.                                   *)
(***************************************************************************)
EXTENDS Integers, Sequences, FiniteSets, FiniteSetsExt, SequencesExt

CONSTANTS
    Wallets,       \* the seller and the wallets tokens are transferred to
    Root,          \* root_wallet: the seller
    Market,        \* pools, whose inventory is not followed
    Holdings,      \* balances of the wallets when the window opens
    Amounts,       \* amounts one transaction moves
    TraceDepths,   \* trace depths asked for
    MaxMoves,      \* bound: transactions in the window
    MaxPerSecond   \* bound: transactions of one second

ASSUME ExitVerdictAssumption ==
    /\ IsFiniteSet(Wallets) /\ Root \in Wallets /\ Market \notin Wallets
    /\ Holdings \subseteq [Wallets -> Nat]
    /\ Amounts \subseteq Nat \ {0}
    /\ TraceDepths \subseteq 0..3
    /\ {MaxMoves, MaxPerSecond} \subseteq Nat \ {0}

VARIABLES
    traceDepth, \* trace_depth of the request
    opening,   \* the balances when the window opened
    balance,   \* balance[w]: the inventory of w now
    moves,     \* the transactions of the window, as the provider lists them
    held       \* held[w]: inventory of the seller that w holds

vars == <<traceDepth, opening, balance, moves, held>>

Lesser(a, b) == IF a <= b THEN a ELSE b

\* The sum of the values of f over the set S.
SumOver(S, f) == SumFunctionOnSet(f, S)

\* The only member of a set; a value bound by a set is evaluated once.
The(S) == CHOOSE x \in S : TRUE
-----------------------------------------------------------------------------
(***************************************************************************)
(* The chain.  A wallet that mixes the seller's inventory with its own is  *)
(* taken to part with the seller's first.                                  *)
(***************************************************************************)
Kinds == {"sell", "burn", "liquidity", "buy", "gift", "transfer", "unclear"}

Init ==
    /\ traceDepth \in TraceDepths
    /\ opening \in Holdings
    /\ balance = opening
    /\ moves = <<>>
    /\ held = [w \in Wallets \cup {Market} |-> IF w = Root THEN opening[Root] ELSE 0]

Now == IF moves = <<>> THEN 0 ELSE moves[Len(moves)].at

\* Positions of the list a transaction of second t may take.
Places(t) == {p \in 1..Len(moves) + 1 : \A i \in DOMAIN moves : moves[i].at < t => i < p}

Crowd(t) == Cardinality({i \in DOMAIN moves : moves[i].at = t})

\* A transaction of this second or the next, its signature anywhere among those
\* of its second.
Happen(kind, from, to, amount) ==
    /\ Len(moves) < MaxMoves
    /\ \E t \in {Now, Now + 1} \ {0} : \E p \in Places(t) :
          /\ Crowd(t) < MaxPerSecond
          /\ moves' = InsertAt(moves, p, [at |-> t, kind |-> kind, from |-> from,
                                          to |-> to, amount |-> amount])
    /\ UNCHANGED <<traceDepth, opening>>

Give(from, to, amount) ==
    balance' = [w \in Wallets |->
                   balance[w] - (IF w = from THEN amount ELSE 0)
                              + (IF w = to THEN amount ELSE 0)]

\* Inventory of the seller among what a wallet parts with; all the seller gets
\* is the seller's.
Follow(from, to, amount) ==
    LET own == IF from = Market THEN 0 ELSE Lesser(held[from], amount) IN
    held' = [w \in Wallets \cup {Market} |->
                held[w] - (IF w = from THEN own ELSE 0)
                        + (IF w # to THEN 0 ELSE IF to = Root THEN amount ELSE own)]

Dispose(kind, w, amount) ==
    /\ balance[w] >= amount
    /\ Happen(kind, w, Market, amount)
    /\ Give(w, Market, amount)
    /\ held' = [held EXCEPT ![w] = @ - Lesser(@, amount),
                            ![Market] = IF kind = "liquidity"
                                        THEN @ + Lesser(held[w], amount) ELSE @]

Acquire(kind, w, amount) ==
    /\ Happen(kind, Market, w, amount)
    /\ Give(Market, w, amount)
    /\ Follow(Market, w, amount)

\* An instruction proves a transfer; a move no instruction proves is unclear.
Pass(kind, w, v, amount) ==
    /\ w # v /\ balance[w] >= amount
    /\ Happen(kind, w, v, amount)
    /\ Give(w, v, amount)
    /\ Follow(w, v, amount)

Next == \E w \in Wallets, amount \in Amounts :
    \/ \E kind \in {"sell", "burn", "liquidity"} : Dispose(kind, w, amount)
    \/ \E kind \in {"buy", "gift"} : Acquire(kind, w, amount)
    \/ \E kind \in {"transfer", "unclear"}, v \in Wallets : Pass(kind, w, v, amount)

Spec == Init /\ [][Next]_vars
-----------------------------------------------------------------------------
(***************************************************************************)
(* Normalized events                                                       *)
(***************************************************************************)
Event(i, type, w, delta, destination) ==
    [at |-> moves[i].at, signature |-> i, type |-> type, wallet |-> w,
     delta |-> delta, destination |-> destination]

\* normalize_transaction: a decrease by what proves it, then the increases; those
\* that nothing explains in strict inventory mode only (include_unknown_increases).
\* A market delivers what was bought from it by a transfer of its own.
Normalize(i, strict) ==
    LET m == moves[i]
        Unexplained(w) == IF strict THEN <<Event(i, "UNKNOWN", w, m.amount, w)>> ELSE <<>>
    IN
    CASE m.kind \in {"sell", "liquidity"} ->
            <<Event(i, IF m.kind = "sell" THEN "SELL" ELSE "LIQUIDITY_EVENT", m.from, -m.amount, Market)>>
                \o Unexplained(Market)
      [] m.kind = "burn" -> <<Event(i, "BURN", m.from, -m.amount, Market)>>
      [] m.kind = "buy" -> <<Event(i, "TRANSFER", Market, -m.amount, m.to),
                             Event(i, "BUY", m.to, m.amount, Market)>>
      [] m.kind \in {"gift", "transfer"} -> <<Event(i, "TRANSFER", m.from, -m.amount, m.to)>>
      [] m.kind = "unclear" -> <<Event(i, "UNKNOWN", m.from, -m.amount, m.to)>> \o Unexplained(m.to)

\* The events of the window, sorted by second and signature.
Normalized(strict) == FlattenSeq([i \in DOMAIN moves |-> Normalize(i, strict)])

Events == Normalized(TRUE)

\* is_concrete_transfer_event
Concrete(e) == e.type = "TRANSFER"

\* is_market_settlement_transfer: what a signature brings a wallet is what the
\* wallet bought by that signature.
Settlement(ev, e) ==
    LET bought == {i \in DOMAIN ev : /\ ev[i].signature = e.signature /\ ev[i].type = "BUY"
                                     /\ ev[i].wallet = e.destination}
        brought == {i \in DOMAIN ev : /\ ev[i].signature = e.signature /\ Concrete(ev[i])
                                      /\ ev[i].destination = e.destination}
        Size == [i \in DOMAIN ev |-> IF ev[i].delta < 0 THEN -ev[i].delta ELSE ev[i].delta]
    IN  /\ Concrete(e)
        /\ bought # {}
        /\ SumOver(brought, Size) = SumOver(bought, Size)

\* root_incoming.  Mutant: deliveries of the market are counted as well.
IncomingWithSettlements(ev) ==
    {i \in DOMAIN ev : Concrete(ev[i]) /\ ev[i].destination = Root /\ ev[i].wallet # Root}

Incoming(ev) ==
    {i \in DOMAIN ev : /\ Concrete(ev[i]) /\ ev[i].destination = Root /\ ev[i].wallet # Root
                       /\ ~Settlement(ev, ev[i])}

RootEvents(ev) == {i \in DOMAIN ev : ev[i].wallet = Root}
Acquisitions(ev) == {i \in RootEvents(ev) : ev[i].delta > 0}
Reductions(ev) == {i \in RootEvents(ev) : ev[i].delta < 0}

\* historical_net_delta
NetDelta(ev) ==
    LET Delta == [i \in DOMAIN ev |-> ev[i].delta]
        Amount == [i \in DOMAIN ev |-> -ev[i].delta]
    IN  SumOver(RootEvents(ev), Delta) + SumOver(Incoming(ev), Amount)

\* reconstructed_start
Reconstructed(ev) == balance[Root] - NetDelta(ev)

ObservedInventory(ev) ==
    LET Gain == [i \in DOMAIN ev |-> IF ev[i].delta < 0 THEN -ev[i].delta ELSE ev[i].delta] IN
    (IF Reconstructed(ev) > 0 THEN Reconstructed(ev) ELSE 0)
        + SumOver(Acquisitions(ev), Gain) + SumOver(Incoming(ev), Gain)

\* root_reacquisitions: an acquisition of the second of the first reduction, or later.
Reacquired(ev) ==
    \E i \in Acquisitions(ev) \cup Incoming(ev), r \in Reductions(ev) : ev[i].at >= ev[r].at
-----------------------------------------------------------------------------
(***************************************************************************)
(* The lots of the seller                                                  *)
(***************************************************************************)
NoTrace == [lots |-> [w \in Wallets |-> <<>>], depth |-> [w \in Wallets |-> 0],
            since |-> [w \in Wallets |-> 0], sold |-> 0, burned |-> 0,
            spread |-> {}, unresolved |-> FALSE]

\* consume: what each lot of a wallet gives, oldest first.
Uses(lots, amount) ==
    [j \in DOMAIN lots |->
        LET Left == [k \in DOMAIN lots |-> lots[k].left]
            rest == amount - SumOver(1..j - 1, Left)
        IN  Lesser(lots[j].left, IF rest > 0 THEN rest ELSE 0)]

\* add_lot and remember_trace
AddLot(t, w, amount, depth, e) ==
    [t EXCEPT !.lots[w] = Append(@, [left |-> amount, depth |-> depth]),
              !.spread = @ \cup {[signature |-> e.signature, to |-> w,
                                  amount |-> amount, lot |-> <<w, Len(t.lots[w]) + 1>>]},
              !.depth[w] = IF @ = 0 \/ depth < @ THEN depth ELSE @,
              !.since[w] = IF t.depth[w] = 0 \/ depth < t.depth[w] THEN e.at ELSE @]

\* Mutant: the lots that pass the trace boundary are dropped.
SpreadWithinBoundary(t, uses, lots, e) ==
    LET After[j \in 0..Len(lots)] ==
            IF j = 0 THEN t
            ELSE IF uses[j] = 0 \/ lots[j].depth + 1 > traceDepth THEN After[j - 1]
            ELSE AddLot(After[j - 1], e.destination, uses[j], lots[j].depth + 1, e)
    IN  After[Len(lots)]

\* A transfer carries each lot it uses one step further, up to the boundary.
Spread(t, uses, lots, e) ==
    LET Step(u, j) == IF uses[j] = 0 THEN u
                      ELSE IF lots[j].depth + 1 > traceDepth THEN [u EXCEPT !.unresolved = TRUE]
                      ELSE AddLot(u, e.destination, uses[j], lots[j].depth + 1, e)
        After[j \in 0..Len(lots)] ==
            IF j = 0 THEN t ELSE The({Step(u, j) : u \in {After[j - 1]}})
    IN  After[Len(lots)]

\* A transfer of the seller itself opens a lot.
LeaveRoot(t, e) ==
    IF ~Concrete(e) THEN t
    ELSE IF traceDepth = 0 THEN [t EXCEPT !.unresolved = TRUE]
    ELSE AddLot(t, e.destination, -e.delta, 1, e)

\* Mutant: whatever the wallet sells is the seller's.
UseLotsWhole(t, e) ==
    LET lots == t.lots[e.wallet]
        uses == Uses(lots, -e.delta)
        total == SumOver(DOMAIN lots, uses)
        kept == [t EXCEPT !.lots[e.wallet] = [j \in DOMAIN lots |->
                                                 [lots[j] EXCEPT !.left = @ - uses[j]]]]
    IN  CASE total = 0 /\ e.type # "SELL" -> t
          [] e.type = "SELL" -> [kept EXCEPT !.sold = @ - e.delta]
          [] total > 0 /\ e.type = "BURN" -> [kept EXCEPT !.burned = @ + total]
          [] total > 0 /\ Concrete(e) -> IF e.destination = Root THEN kept
                                         ELSE Spread(kept, uses, lots, e)
          [] OTHER -> [kept EXCEPT !.unresolved = TRUE]

\* A reduction of another wallet uses its lots; without lots it says nothing.
UseLots(t, e) ==
    LET lots == t.lots[e.wallet]
        uses == Uses(lots, -e.delta)
        total == SumOver(DOMAIN lots, uses)
        kept == [t EXCEPT !.lots[e.wallet] = [j \in DOMAIN lots |->
                                                 [lots[j] EXCEPT !.left = @ - uses[j]]]]
    IN  CASE total = 0 -> t
          [] total > 0 /\ e.type = "SELL" -> [kept EXCEPT !.sold = @ + total]
          [] total > 0 /\ e.type = "BURN" -> [kept EXCEPT !.burned = @ + total]
          [] total > 0 /\ Concrete(e) -> IF e.destination = Root THEN kept
                                         ELSE Spread(kept, uses, lots, e)
          [] OTHER -> [kept EXCEPT !.unresolved = TRUE]

Trace(ev) ==
    LET Step(t, e) == IF Settlement(ev, e) \/ e.delta >= 0 \/ e.wallet = Market THEN t
                      ELSE IF e.wallet = Root THEN LeaveRoot(t, e) ELSE UseLots(t, e)
        After[i \in 0..Len(ev)] ==
            IF i = 0 THEN NoTrace ELSE The({Step(t, ev[i]) : t \in {After[i - 1]}})
    IN  After[Len(ev)]

Traced(t) == {w \in Wallets : t.depth[w] > 0}

Remaining(t, w) ==
    LET Left == [j \in DOMAIN t.lots[w] |-> t.lots[w][j].left] IN SumOver(DOMAIN t.lots[w], Left)

\* propagated_by_signature
Propagated(t, signature, w) ==
    LET Amount == [p \in t.spread |-> p.amount] IN
    SumOver({p \in t.spread : p.signature = signature /\ p.to = w}, Amount)

\* linked_wallet_increases: a traced wallet acquires, or is sent more than lots,
\* from the second it was first traced.
LinkedIncrease(ev, t) ==
    \E i \in DOMAIN ev :
        LET e == ev[i] IN
        \/ e.wallet \in Traced(t) /\ e.delta > 0 /\ e.at >= t.since[e.wallet]
        \/ /\ Concrete(e) /\ ~Settlement(ev, e)
           /\ e.destination \in Traced(t) \ {Root}
           /\ e.at >= t.since[e.destination]
           /\ -e.delta > Propagated(t, e.signature, e.destination)
-----------------------------------------------------------------------------
(***************************************************************************)
(* The report                                                              *)
(***************************************************************************)

\* The wallets whose balances are read: transfer descendants in time order.
Discovered(ev) ==
    LET Step(d, e) == IF Concrete(e) /\ e.wallet # Market /\ e.destination # Root /\ d[e.wallet] < traceDepth
                      THEN [d EXCEPT ![e.destination] = Lesser(@, d[e.wallet] + 1)] ELSE d
        After[i \in 0..Len(ev)] ==
            IF i = 0 THEN [w \in Wallets |-> IF w = Root THEN 0 ELSE 9]
            ELSE The({Step(d, ev[i]) : d \in {After[i - 1]}})
    IN  {w \in Wallets : After[Len(ev)][w] < 9}

\* The branches that stay open: add_unresolved
Unresolved(ev, t, read) ==
    \/ Reconstructed(ev) < 0
    \/ \E i \in Reductions(ev) : ev[i].type \in {"UNKNOWN", "LIQUIDITY_EVENT"}
    \/ t.unresolved
    \/ \E w \in Traced(t) \cap read : Remaining(t, w) > balance[w]

\* Mutant: a balance that could not be read counts as zero.
StatusReadingZero(ev, t, read, complete) ==
    IF \E w \in (Traced(t) \cup {Root}) \cap read : balance[w] > 0 THEN "NOT_OUT"
    ELSE IF ~complete THEN "INSUFFICIENT_DATA"
    ELSE IF ObservedInventory(ev) <= 0 \/ Reductions(ev) = {} THEN "INSUFFICIENT_DATA"
    ELSE IF Reacquired(ev) \/ LinkedIncrease(ev, t) \/ Unresolved(ev, t, read) THEN "UNRESOLVED"
    ELSE "VERIFIED_OUT"

\* verify_exit: the first condition that applies, read is the set of wallets
\* whose balance the provider gave.
Status(ev, t, read, complete) ==
    IF \E w \in (Traced(t) \cup {Root}) \cap read : balance[w] > 0 THEN "NOT_OUT"
    ELSE IF ~complete \/ ~(Traced(t) \cup {Root} \subseteq read) THEN "INSUFFICIENT_DATA"
    ELSE IF ObservedInventory(ev) <= 0 \/ Reductions(ev) = {} THEN "INSUFFICIENT_DATA"
    ELSE IF Reacquired(ev) \/ LinkedIncrease(ev, t) \/ Unresolved(ev, t, read) THEN "UNRESOLVED"
    ELSE "VERIFIED_OUT"

\* _run_verify_exit, when the balances of failed could not be read.
Report(failed, complete) ==
    LET ev == Events IN Status(ev, Trace(ev), Discovered(ev) \ failed, complete)
=============================================================================
