-------------------------- MODULE WalletLifecycle --------------------------
(***************************************************************************)
(* The life of one wallet as the wallet report tells it: the rows of the   *)
(* window, one a signature, run up from the inventory the fresh balance    *)
(* implies; the first row that provably brings it down to the threshold is *)
(* the exit, and what comes in from that second on is a reacquisition.     *)
(***************************************************************************)
EXTENDS ExitVerdict

\* What a signature does to the seller: its own events, or else the transfers
\* to it, which repeat the increase a market delivers.
Evidence(ev, s) ==
    LET own == {i \in RootEvents(ev) : ev[i].signature = s}
        inbound == {i \in DOMAIN ev : /\ ev[i].signature = s /\ Concrete(ev[i])
                                      /\ ev[i].destination = Root}
    IN  IF own # {} THEN own ELSE inbound

RowDelta(ev, s) ==
    LET Delta == [i \in DOMAIN ev |-> IF ev[i].wallet = Root THEN ev[i].delta ELSE -ev[i].delta]
    IN  SumOver(Evidence(ev, s), Delta)

\* _root_timeline: a signature stands at its place of the list.
Timeline(ev) == {s \in DOMAIN moves : Evidence(ev, s) # {}}

\* starting, and the inventory after the rows up to s
Starting(ev) ==
    LET Delta == [s \in DOMAIN moves |-> RowDelta(ev, s)] IN balance[Root] - SumOver(Timeline(ev), Delta)

Running(ev, s) ==
    LET Delta == [r \in DOMAIN moves |-> RowDelta(ev, r)]
    IN  Starting(ev) + SumOver({r \in Timeline(ev) : r <= s}, Delta)

Reductive(ev, s) == {ev[i].type : i \in {j \in Evidence(ev, s) : ev[j].wallet = Root /\ ev[j].delta < 0}}

Doubtful(ev, s) == Reductive(ev, s) \cap {"UNKNOWN", "LIQUIDITY_EVENT"} # {}

\* Mutant: the inventory has to fall below the threshold.
ExitRowsBelow(ev, threshold) ==
    {s \in Timeline(ev) :
        /\ Running(ev, s) - RowDelta(ev, s) > threshold
        /\ Running(ev, s) < threshold
        /\ Reductive(ev, s) \cap {"SELL", "TRANSFER", "BURN"} # {}
        /\ \A r \in Timeline(ev) : r <= s => ~Doubtful(ev, r)}

\* The rows that could be the exit: the inventory falls to the threshold by a
\* proven reduction, and no reduction so far is doubtful.
ExitRows(ev, threshold) ==
    {s \in Timeline(ev) :
        /\ Running(ev, s) - RowDelta(ev, s) > threshold
        /\ Running(ev, s) <= threshold
        /\ Reductive(ev, s) \cap {"SELL", "TRANSFER", "BURN"} # {}
        /\ \A r \in Timeline(ev) : r <= s => ~Doubtful(ev, r)}

\* Rows from the exit on that bring inventory in.
Returned(ev, threshold) ==
    IF ExitRows(ev, threshold) = {} THEN {}
    ELSE LET exit == Min(ExitRows(ev, threshold)) IN
         {s \in Timeline(ev) : s >= exit /\ RowDelta(ev, s) > 0}

Historical(ev, threshold, complete) ==
    IF ~complete THEN "INSUFFICIENT_DATA"
    ELSE IF Starting(ev) < 0 \/ \E s \in Timeline(ev) : Doubtful(ev, s) THEN "UNRESOLVED"
    ELSE IF ExitRows(ev, threshold) # {} THEN "VERIFIED_OUT"
    ELSE IF Starting(ev) <= threshold /\ Timeline(ev) = {} THEN "INSUFFICIENT_DATA"
    ELSE "NOT_OUT"

\* current_wallet_status
Current(ev, threshold, complete) ==
    LET historical == Historical(ev, threshold, complete)
        Delta == [s \in DOMAIN moves |-> RowDelta(ev, s)]
    IN  IF balance[Root] > threshold
        THEN IF /\ historical = "VERIFIED_OUT"
                /\ SumOver(Returned(ev, threshold), Delta) > threshold
             THEN "RE_ENTERED" ELSE "NOT_OUT"
        ELSE IF historical = "VERIFIED_OUT" THEN "VERIFIED_OUT"
        ELSE IF ~complete THEN "INSUFFICIENT_DATA"
        ELSE IF Starting(ev) < 0 \/ \E s \in Timeline(ev) : Doubtful(ev, s) THEN "UNRESOLVED"
        ELSE "NOT_OUT"

\* analyze_wallet_lifecycle, as _run_wallet calls it: without the balance there
\* is nothing to run the rows up from.
Lifecycle(ev, read, threshold, complete) ==
    IF Root \notin read
    THEN [historical |-> "INSUFFICIENT_DATA", current |-> "INSUFFICIENT_DATA"]
    ELSE [historical |-> Historical(ev, threshold, complete),
          current |-> Current(ev, threshold, complete)]
=============================================================================
