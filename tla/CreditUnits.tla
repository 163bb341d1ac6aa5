---------------------------- MODULE CreditUnits ----------------------------
(***************************************************************************)
(* Sums of estimated provider credits.  An amount held by an owner is a    *)
(* set of numbered units, so that the SUM(...) of a query over a set of    *)
(* rows is the cardinality of the union of their units.                    *)
(***************************************************************************)
EXTENDS Integers, FiniteSets

\* The units of one owner holding n credits.
UnitsOf(owner, n) == {owner} \X (1..n)

\* The units of every owner in S, amount[o] of them each.
Units(S, amount) == UNION {UnitsOf(o, amount[o]) : o \in S}

\* COALESCE(SUM(amount), 0) over the rows of S.
Total(S, amount) == Cardinality(Units(S, amount))

=============================================================================
