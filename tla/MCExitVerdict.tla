--------------------------- MODULE MCExitVerdict ---------------------------
EXTENDS ExitReports, TLC

\* The seller opens with two units; what the other wallets own they buy or are given.
MCHoldings == {[w \in Wallets |-> IF w = Root THEN 2 ELSE 0]}

\* The wallets the seller may pay are alike.
MCSymmetry == Permutations(Wallets \ {Root})
=============================================================================
