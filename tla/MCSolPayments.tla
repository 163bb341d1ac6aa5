--------------------------- MODULE MCSolPayments ---------------------------
EXTENDS SolPayments, TLC

\* Invoices, transactions, accounts, handler threads
\* and networks are interchangeable.
Symmetry == Permutations(Invoices) \cup Permutations(Signatures)
            \cup Permutations(Codes) \cup Permutations(Clients)
            \cup Permutations(Networks)
=============================================================================
