------------------------------ MODULE PumpGame ------------------------------
(***************************************************************************)
(* The paper prediction game.  A feed thread follows the chain: a bonded   *)
(* coin opens a round, the next sell by its founding wallet settles it and *)
(* makes the next waiting coin live.  The queue of the feed is memory of   *)
(* the process; rounds, players and their calls are tables, written by the *)
(* feed's callbacks and by the handler threads that take calls.  Events of *)
(* the chain may be lost, and arrive twice when a transaction matches both *)
(* subscriptions (that of the program and that of the live founder).       *)
(***************************************************************************)
EXTENDS Integers, FiniteSets, Sequences, Queues

CONSTANTS
    Mints,        \* coins
    Creators,     \* wallets that found coins
    Players,      \* players
    Clients,      \* handler threads
    None,         \* no coin, no player
    Allowance,    \* 100 points: what a balance is topped up to once a day
    Stake,        \* 25 points: what a call puts at risk
    Delays,       \* seconds from a completion to a sell
    MaxDay,       \* bound: last UTC day explored
    MaxPending    \* bound: completions queued in the feed

ASSUME PumpGameAssumption ==
    /\ None \notin Mints \cup Players
    /\ IsFiniteSet(Clients)
    /\ {Allowance, Stake} \subseteq Nat \ {0}
    /\ Delays \subseteq Nat
    /\ {MaxDay, MaxPending} \subseteq Nat

VARIABLES
    day,       \* the UTC day
    founder,   \* who founded each coin (a fact of the chain)
    known,     \* the coins whose creation the process has seen
    active,    \* the live round of the feed
    pending,   \* the completions queued in the feed
    rounds,    \* the table game_rounds: the status of each coin's round
    player,    \* the table game_players
    call,      \* the table game_predictions, by player and coin
    request    \* request[h]: the prediction handler thread h is in the middle of

vars == <<day, founder, known, active, pending, rounds, player, call, request>>

feed == <<known, active, pending>>
Larger(a, b) == IF a >= b THEN a ELSE b
-----------------------------------------------------------------------------
(***************************************************************************)
(* The tables                                                              *)
(***************************************************************************)
Statuses == {"absent", "ACTIVE", "JEET_CONFIRMED"}

\* A bucket is the number of thresholds reached: under 5m, 5-30m, ..., 3-7d.
Thresholds == {300, 1800, 3600, 21600, 86400, 259200}
Buckets == 0..Cardinality(Thresholds)
bucket_for_seconds(d) == Cardinality({t \in Thresholds : d >= t})

Call == [result : {"none", "open", "CORRECT", "WRONG"}, bucket : Buckets]
NoCall == [result |-> "none", bucket |-> 0]

\* A player never seen has no balance and was never topped up: the first visit
\* stores the same row as a first visit of the day does.
Never == -1
Player == [points : Int, refilled : {Never} \cup 0..MaxDay]

\* Mutant: the top-up is recorded under the day that follows.
VisitedAhead(r, d) ==
    IF r.refilled = d THEN r
    ELSE [points |-> Larger(Allowance, r.points), refilled |-> d + 1]

Visited(r, d) ==
    IF r.refilled = d THEN r
    ELSE [points |-> Larger(Allowance, r.points), refilled |-> d]

OpenCalls(m) == {p \in Players : call[<<p, m>>].result = "open"}
Waiting == {active} \cup {pending[k] : k \in DOMAIN pending}
-----------------------------------------------------------------------------
Idle == [stage |-> "idle", player |-> None, mint |-> None, bucket |-> 0, points |-> 0]

Request == [stage : {"idle", "checked", "reply"}, player : Players \cup {None},
            mint : Mints \cup {None}, bucket : Buckets, points : Int]

Init ==
    /\ day = 0
    /\ founder \in [Mints -> Creators]
    /\ known = {}
    /\ active = None
    /\ pending = <<>>
    /\ rounds = [m \in Mints |-> "absent"]
    /\ player = [p \in Players |-> [points |-> 0, refilled |-> Never]]
    /\ call = [pm \in Players \X Mints |-> NoCall]
    /\ request = [h \in Clients |-> Idle]
-----------------------------------------------------------------------------
(***************************************************************************)
(* The feed thread                                                         *)
(***************************************************************************)
Create(m) ==
    /\ known' = known \cup {m}
    /\ UNCHANGED <<day, founder, active, pending, rounds, player, call, request>>

\* Every completion is queued, the one that becomes live included.
Queue(m) ==
    /\ m \in known
    /\ Len(pending) < MaxPending
    /\ pending' = Append(pending, m)
    /\ active' = IF active = None THEN m ELSE active

\* INSERT OR IGNORE: a round that exists keeps its status.
Complete(m) ==
    /\ Queue(m)
    /\ rounds' = [rounds EXCEPT ![m] = IF @ = "absent" THEN "ACTIVE" ELSE @]
    /\ UNCHANGED <<day, founder, known, player, call, request>>

\* add_round raises: the feed has already queued the coin.
CompleteUnsaved(m) ==
    /\ Queue(m)
    /\ UNCHANGED <<day, founder, known, rounds, player, call, request>>

\* Mutant: a loss is not stopped at zero.
AfterUnfloored(points, correct) == points + (IF correct THEN Stake ELSE -Stake)

After(points, correct) == Larger(0, points + (IF correct THEN Stake ELSE -Stake))

settle_jeet(m, actual) ==
    IF rounds[m] # "ACTIVE"
    THEN UNCHANGED <<rounds, player, call>>
    ELSE /\ rounds' = [rounds EXCEPT ![m] = "JEET_CONFIRMED"]
         /\ player' = [p \in Players |->
               IF p \in OpenCalls(m)
               THEN [player[p] EXCEPT !.points = After(@, call[<<p, m>>].bucket = actual)]
               ELSE player[p]]
         /\ call' = [pm \in Players \X Mints |->
               IF pm[2] = m /\ pm[1] \in OpenCalls(m)
               THEN [call[pm] EXCEPT !.result = IF call[pm].bucket = actual
                                                THEN "CORRECT" ELSE "WRONG"]
               ELSE call[pm]]

\* Mutant: every coin of the founder leaves the queue with the settled one.
RemainingOthers(m) == Sieve(pending, {x \in Mints : founder[x] # founder[m]})

Remaining(m) == Sieve(pending, Mints \ {m})

\* A sell of a wallet that founded a coin it sells, whichever coin it is; that of
\* any other wallet than the live founder is ignored.  When settle_jeet raises,
\* the feed keeps its queue and the tables are as they were.
Sell(c, d) ==
    LET rest == Remaining(active) IN
    /\ active # None
    /\ founder[active] = c
    /\ settle_jeet(active, bucket_for_seconds(d))
    /\ active' = IF rest = <<>> THEN None ELSE Head(rest)
    /\ pending' = IF rest = <<>> THEN <<>> ELSE Tail(rest)
    /\ UNCHANGED <<day, founder, known, request>>
-----------------------------------------------------------------------------
(***************************************************************************)
(* Players                                                                 *)
(***************************************************************************)
Visit(p) ==
    /\ player' = [player EXCEPT ![p] = Visited(@, day)]
    /\ UNCHANGED <<day, founder, feed, rounds, call, request>>

\* The balance is read, and topped up, before the transaction of the call.
BeginPredict(h, p, m, b) ==
    /\ request[h].stage = "idle"
    /\ player' = [player EXCEPT ![p] = Visited(@, day)]
    /\ request' = [request EXCEPT ![h] = [stage |-> "checked", player |-> p, mint |-> m,
                                          bucket |-> b, points |-> Visited(player[p], day).points]]
    /\ UNCHANGED <<day, founder, feed, rounds, call>>

\* Mutant: a round that is over still takes calls.
AcceptedLate(r) ==
    /\ rounds[r.mint] # "absent"
    /\ r.points >= Stake
    /\ call[<<r.player, r.mint>>].result = "none"

Accepted(r) ==
    /\ rounds[r.mint] = "ACTIVE"
    /\ r.points >= Stake
    /\ call[<<r.player, r.mint>>].result = "none"

LockIn(h) ==
    LET r == request[h] IN
    /\ r.stage = "checked"
    /\ Accepted(r)
    /\ call' = [call EXCEPT ![<<r.player, r.mint>>] = [result |-> "open", bucket |-> r.bucket]]
    /\ player' = [player EXCEPT ![r.player].points = @ - Stake]
    /\ request' = [request EXCEPT ![h].stage = "reply"]
    /\ UNCHANGED <<day, founder, feed, rounds>>

Refuse(h) ==
    /\ request[h].stage = "checked"
    /\ ~Accepted(request[h])
    /\ request' = [request EXCEPT ![h] = Idle]
    /\ UNCHANGED <<day, founder, feed, rounds, player, call>>

\* The answer reads the balance again.
Reply(h) ==
    /\ request[h].stage = "reply"
    /\ player' = [player EXCEPT ![request[h].player] = Visited(@, day)]
    /\ request' = [request EXCEPT ![h] = Idle]
    /\ UNCHANGED <<day, founder, feed, rounds, call>>
-----------------------------------------------------------------------------
NewDay ==
    /\ day < MaxDay
    /\ day' = day + 1
    /\ UNCHANGED <<founder, feed, rounds, player, call, request>>

\* A kill and a start: the tables stay, the feed and the requests are gone.
Restart ==
    /\ known' = {}
    /\ active' = None
    /\ pending' = <<>>
    /\ request' = [h \in Clients |-> Idle]
    /\ UNCHANGED <<day, founder, rounds, player, call>>

Feed ==
    \/ \E m \in Mints : Create(m) \/ Complete(m) \/ CompleteUnsaved(m)
    \/ \E c \in Creators, d \in Delays : Sell(c, d)

Handler(h) ==
    \/ \E p \in Players, m \in Mints, d \in Delays : BeginPredict(h, p, m, bucket_for_seconds(d))
    \/ LockIn(h)
    \/ Refuse(h)
    \/ Reply(h)

Next ==
    \/ Feed
    \/ \E p \in Players : Visit(p)
    \/ \E h \in Clients : Handler(h)
    \/ NewDay
    \/ Restart

Spec == Init /\ [][Next]_vars
-----------------------------------------------------------------------------
(***************************************************************************)
(* Properties                                                              *)
(***************************************************************************)
\* Every variable holds a value of its kind.
TypeOK ==
    /\ day \in 0..MaxDay
    /\ founder \in [Mints -> Creators]
    /\ known \subseteq Mints
    /\ active \in Mints \cup {None}
    /\ pending \in Seq(Mints)
    /\ rounds \in [Mints -> Statuses]
    /\ player \in [Players -> Player]
    /\ call \in [Players \X Mints -> Call]
    /\ request \in [Clients -> Request]

\* A call is never locked into a round that is over, however the handler and
\* the feed interleave: no stake waits for a settlement that cannot come.
SettledRoundHasNoOpenCall ==
    \A m \in Mints : rounds[m] = "JEET_CONFIRMED" => OpenCalls(m) = {}

\* Concurrent calls of one player may all rely on one balance, and losses are
\* taken meanwhile, yet a balance is never overdrawn by more than one stake for
\* each handler thread.
OverdraftBounded ==
    \A p \in Players : player[p].points >= -(Stake * Cardinality(Clients))

\* An open round outside the feed can never be settled.  Duplicate and unsaved
\* completions, or sells of a founder of several coins, leave none: only a
\* restart does.
Stray == {m \in Mints : rounds[m] = "ACTIVE" /\ m \notin Waiting}

OnlyRestartStrands == [][Restart \/ Stray' \subseteq Stray]_vars

\* What the rules of WillTheyJeet.tsx say: the stake is committed when the call
\* is locked, and a wrong call loses that stake; no other step takes points.
StakeLeavesOnce ==
    [][\A p \in Players : player'[p].points < player[p].points =>
          \E m \in Mints : call[<<p, m>>].result = "none" /\ call'[<<p, m>>].result = "open"]_vars
=============================================================================
