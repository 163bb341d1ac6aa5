----------------------------- MODULE MCPumpGame -----------------------------
EXTENDS PumpGame, TLC

\* Coins, founders, players and handler threads are interchangeable.
Symmetry == Permutations(Mints) \cup Permutations(Creators)
            \cup Permutations(Players) \cup Permutations(Clients)
=============================================================================
