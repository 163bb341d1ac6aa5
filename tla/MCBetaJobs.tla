----------------------------- MODULE MCBetaJobs -----------------------------
EXTENDS BetaJobs, TLC

\* Identifiers, targets, codes and handler threads are interchangeable.
Symmetry == Permutations(Ids) \cup Permutations(Codes) \cup Permutations(Targets)
            \cup Permutations(Clients)
=============================================================================
