---------------------------- MODULE ExitReports ----------------------------
(***************************************************************************)
(* What the three reports on the exit of a seller owe to the chain, to the *)
(* provider and to one another.                                            *)
(***************************************************************************)
EXTENDS SellerRanking

\* No two transactions of one second: the list is in the order of the chain.
InOrder == \A i, j \in DOMAIN moves : moves[i].at = moves[j].at => i = j

\* What a transaction brings a wallet.
Gain(m, w) == (IF m.to = w THEN m.amount ELSE 0) - (IF m.from = w THEN m.amount ELSE 0)

\* The inventory the reports compute for the opening of the window is the inventory
\* the seller had, whatever it sold, bought, burned, gave or was given: a purchase
\* counts once although the chain shows it twice, as an increase and as the
\* transfer that delivers it.  The scan computes it for the sellers that bought
\* nothing.
StartExact ==
    LET ev == Events IN
    /\ Reconstructed(ev) = opening[Root]
    /\ Starting(ev) = opening[Root]
    /\ \A w \in Sellers(Ranked) :
           (~\E i \in DOMAIN moves : moves[i].to = w /\ moves[i].kind \in {"buy", "unclear"})
               => RankedStart(Ranked, w) = opening[w]

\* VERIFIED_OUT accounts for every unit: what the seller had and received was sold
\* or burned by the seller or by the wallets its transfers were traced to.
Conservation ==
    LET ev == Events
        t == Trace(ev)
        Amount == [i \in DOMAIN ev |-> -ev[i].delta]
        disposed == {i \in Reductions(ev) : ev[i].type \in {"SELL", "BURN"}}
    IN  Report({}, TRUE) = "VERIFIED_OUT" =>
            SumOver(disposed, Amount) + t.sold + t.burned = ObservedInventory(ev)

\* When the seconds of the transactions differ, VERIFIED_OUT is the truth.  In
\* verify-exit: no wallet holds any of the seller's inventory, and no pool owes it
\* any.  In the wallet report, with the events verify-exit reads or its own: the
\* inventory of the seller was once zero.
OutIsTrue ==
    LET ev == Events
        Real == [s \in DOMAIN moves |-> Gain(moves[s], Root)]
    IN  InOrder =>
            /\ Report({}, TRUE) = "VERIFIED_OUT" => \A w \in DOMAIN held : held[w] = 0
            /\ "VERIFIED_OUT" \in {Lifecycle(ev, Wallets, 0, TRUE).historical,
                                  WalletReport(Wallets, TRUE).historical} =>
                  \E s \in DOMAIN moves : opening[Root] + SumOver(1..s, Real) = 0

\* A balance that could not be read and a history that is not complete never make
\* the answer better: VERIFIED_OUT, in either report, needs every balance and
\* the whole history, and the missing data could not have said otherwise.
FailuresWeaken ==
    LET ev == Events
        found == Discovered(ev)
        trace == Trace(ev)
        needed == Traced(trace) \cup {Root}
        whole == Status(ev, trace, found, TRUE)
    IN  /\ \A failed \in SUBSET found, complete \in BOOLEAN :
              LET status == Status(ev, trace, found \ failed, complete) IN
              /\ status = "VERIFIED_OUT" => complete /\ failed \cap needed = {}
              /\ status = "NOT_OUT" => whole = "NOT_OUT"
        /\ \A failed \in {{}, {Root}}, complete \in BOOLEAN :
              Lifecycle(ev, found \ failed, 0, complete).current = "VERIFIED_OUT" =>
                  complete /\ Root \notin failed

\* The reports agree on an exit: when verify-exit says VERIFIED_OUT the wallet
\* report dates the exit in the window and says the seller is still out, and the
\* scan does not rank the seller as holding.
ReportsAgree ==
    Report({}, TRUE) = "VERIFIED_OUT" =>
        /\ {Lifecycle(Events, Wallets, 0, TRUE), WalletReport(Wallets, TRUE)}
              = {[historical |-> "VERIFIED_OUT", current |-> "VERIFIED_OUT"]}
        /\ \A row \in Scan(Wallets, TRUE, FALSE).sellers :
              row.wallet = Root => row.status \in {"JEET_OUT", "UNKNOWN"}

\* Inventory is linked to the wallets that sent it: what the scan adds to the sellers
\* for one wallet they paid is no more than it was sent, so that no two of them are
\* given the same units, and leaves out no more than that wallet parted with since.
\* When the seconds differ it is no more than the wallet holds.
LinkedOnce ==
    LET Sum(v) == SumOver(Holders, [w \in Holders |-> LinkedAmount(Ranked, w, v)])
        Amount == [i \in DOMAIN moves |-> moves[i].amount]
        Received(v) == SumOver({i \in DOMAIN moves :
                                  moves[i].to = v /\ moves[i].kind \in {"buy", "gift", "transfer"}},
                               Amount)
        Parted(v) == SumOver({i \in DOMAIN moves : moves[i].from = v}, Amount)
    IN  \A v \in Wallets :
            /\ Sum(v) <= Received(v)
            /\ traceDepth > 0 => Sum(v) + Parted(v) >= Received(v)
            /\ InOrder => Sum(v) <= balance[v]
=============================================================================
