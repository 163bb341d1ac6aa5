---------------------------- MODULE CreditLedger ----------------------------
(***************************************************************************)
(* What the beta promises about provider credits, without saying how: an   *)
(* investigation takes a hold on the budget of one UTC day, the hold is    *)
(* settled exactly once at no more than what was held, and holds and       *)
(* settlements of a day together never exceed the daily cap.  BetaJobs     *)
(* implements this specification.                                          *)
(***************************************************************************)
EXTENDS CreditUnits

CONSTANTS Ids,   \* identifiers of investigations
          Days,  \* UTC days
          Cap    \* estimated credits the service may commit per day

VARIABLE entry

Entry == [phase : {"free", "held", "settled"}, day : Days, amount : 0..Cap]

NoEntry == [phase |-> "free", day |-> 0, amount |-> 0]

\* What the entries of a day commit: full holds plus settled charges.
Committed(d) ==
    Total({i \in Ids : entry[i].phase # "free" /\ entry[i].day = d},
          [i \in Ids |-> entry[i].amount])

Held == {i \in Ids : entry[i].phase = "held"}
-----------------------------------------------------------------------------
Init == entry = [i \in Ids |-> NoEntry]

\* A new investigation holds n credits of day d if they still fit.
Hold(i, d, n) ==
    /\ entry[i].phase = "free"
    /\ Committed(d) + n <= Cap
    /\ entry' = [entry EXCEPT ![i] = [phase |-> "held", day |-> d, amount |-> n]]

\* A restart settles many holds in one transaction, so S is a set.
Settle(S, charge) ==
    /\ \A i \in S : charge[i] <= entry[i].amount
    /\ entry' = [i \in Ids |->
                    IF i \in S
                    THEN [phase |-> "settled", day |-> entry[i].day, amount |-> charge[i]]
                    ELSE entry[i]]

Next ==
    \/ \E i \in Ids, d \in Days, n \in 1..Cap : Hold(i, d, n)
    \/ \E S \in SUBSET Held : \E charge \in [S -> 0..Cap] : Settle(S, charge)

Spec == Init /\ [][Next]_entry
-----------------------------------------------------------------------------
TypeOK == entry \in [Ids -> Entry]

\* No day ever commits more than the cap: BetaJobsProofs shows it follows.
WithinCap == \A d \in Days : Committed(d) <= Cap

=============================================================================
