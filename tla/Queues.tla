------------------------------- MODULE Queues -------------------------------
(***************************************************************************)
(* What a pass over a list keeps, in its order.  It is a function over the *)
(* positions of the list, so that proofs can follow it.                    *)
(***************************************************************************)
EXTENDS Integers, Sequences

\* The elements of q that are in K.
Sieve(q, K) ==
    LET sieved[i \in 0..Len(q)] ==
            IF i = 0 THEN <<>>
            ELSE IF q[i] \in K THEN Append(sieved[i - 1], q[i])
            ELSE sieved[i - 1]
    IN  sieved[Len(q)]
=============================================================================
