--------------------------- MODULE PumpGameProofs ---------------------------
(***************************************************************************)
(* Theorems about PumpGame, for every number of coins, players and handler *)
(* threads.  Those on the tables, which the feed's thread and the handlers *)
(* write between each other's transactions, assume nothing of the feed's   *)
(* queue, so they hold whatever events it misses or repeats; the last say  *)
(* what the queue itself keeps.                                            *)
(***************************************************************************)
EXTENDS PumpGame, DataFacts

\* The part of TypeOK that concerns the tables and the requests.
TablesOK ==
    /\ day \in 0..MaxDay
    /\ rounds \in [Mints -> Statuses]
    /\ player \in [Players -> Player]
    /\ call \in [Players \X Mints -> Call]
    /\ request \in [Clients -> Request]

\* There are finitely many thresholds.
LEMMA ThresholdsFinite == IsFiniteSet(Thresholds) /\ Cardinality(Thresholds) \in Nat
<1> DEFINE Short == (({300} \cup {1800}) \cup {3600}) \cup {21600}
           All == (Short \cup {86400}) \cup {259200}
<1>1. IsFiniteSet({300})
    BY FS_Singleton
<1>2. IsFiniteSet({300} \cup {1800})
    BY <1>1, FS_AddElement
<1>3. IsFiniteSet(({300} \cup {1800}) \cup {3600})
    BY <1>2, FS_AddElement
<1>4. IsFiniteSet(Short)
    BY <1>3, FS_AddElement
<1>5. IsFiniteSet(Short \cup {86400})
    BY <1>4, FS_AddElement
<1>6. IsFiniteSet(All) /\ Thresholds \subseteq All
  <2>1. IsFiniteSet(All)
      BY <1>5, FS_AddElement
  <2>2. Thresholds \subseteq All
      BY SMT DEF Thresholds
  <2> QED
      BY <2>1, <2>2
<1> HIDE DEF All
<1>7. IsFiniteSet(Thresholds)
    BY <1>6, FS_Subset
<1> QED
    BY <1>7, FS_CardinalityType

\* A number of seconds falls in one of the buckets.
LEMMA BucketType ==
    ASSUME NEW d \in Nat
    PROVE  bucket_for_seconds(d) \in Buckets
<1>1. IsFiniteSet(Thresholds) /\ Cardinality(Thresholds) \in Nat
    BY ThresholdsFinite
<1>2. {t \in Thresholds : d >= t} \subseteq Thresholds
    OBVIOUS
<1>3. /\ Cardinality({t \in Thresholds : d >= t}) \in Nat
      /\ Cardinality({t \in Thresholds : d >= t}) <= Cardinality(Thresholds)
    BY <1>1, <1>2, FS_Subset, FS_CardinalityType
<1> QED
    BY <1>1, <1>2, <1>3 DEF bucket_for_seconds, Buckets

\* A visit stores a player and never lowers a balance.
LEMMA VisitTopsUp ==
    ASSUME NEW r \in Player, NEW d \in 0..MaxDay
    PROVE  Visited(r, d) \in Player /\ Visited(r, d).points >= r.points
BY PumpGameAssumption DEF Visited, Player, Larger

\* A settled balance is a natural number.
LEMMA SettledBalance ==
    ASSUME NEW n \in Int, NEW b \in BOOLEAN
    PROVE  After(n, b) \in Nat
BY PumpGameAssumption DEF After, Larger

\* No row and a resting handler.
LEMMA Resting == NoCall \in Call /\ Idle \in Request
<1>1. 0 \in Buckets
    BY ThresholdsFinite DEF Buckets
<1> QED
    BY <1>1 DEF NoCall, Call, Idle, Request
-----------------------------------------------------------------------------
\* What a settlement writes: it closes every open call of its round, and leaves
\* the balances it changes at zero or above.
LEMMA SettlementWrites ==
    ASSUME TablesOK, NEW m, NEW b, settle_jeet(m, b)
    PROVE  /\ rounds' \in [Mints -> Statuses]
           /\ player' \in [Players -> Player]
           /\ call' \in [Players \X Mints -> Call]
           /\ \A p \in Players : player'[p] = player[p] \/ player'[p].points >= 0
           /\ \A n \in Mints, p \in Players :
                 \/ rounds'[n] = rounds[n] /\ call'[<<p, n>>] = call[<<p, n>>]
                 \/ call'[<<p, n>>].result # "open"
<1> USE DEF TablesOK
<1>1. CASE rounds[m] # "ACTIVE"
    BY <1>1 DEF settle_jeet
<1>2. CASE rounds[m] = "ACTIVE"
  <2>1. rounds' = [rounds EXCEPT ![m] = "JEET_CONFIRMED"]
      BY <1>2 DEF settle_jeet
  <2>2. ASSUME NEW p \in Players
        PROVE  /\ [player[p] EXCEPT !.points = After(@, call[<<p, m>>].bucket = b)] \in Player
               /\ After(player[p].points, call[<<p, m>>].bucket = b) >= 0
    <3>1. player[p] \in Player /\ player[p].points \in Int
        BY DEF Player
    <3>2. (call[<<p, m>>].bucket = b) \in BOOLEAN
        OBVIOUS
    <3>3. After(player[p].points, call[<<p, m>>].bucket = b) \in Nat
        BY <3>1, <3>2, SettledBalance
    <3> QED
        BY <3>1, <3>3 DEF Player
  <2>3. player' = [p \in Players |->
               IF p \in OpenCalls(m)
               THEN [player[p] EXCEPT !.points = After(@, call[<<p, m>>].bucket = b)]
               ELSE player[p]]
      BY <1>2 DEF settle_jeet
  <2>4. /\ player' \in [Players -> Player]
        /\ \A p \in Players : player'[p] = player[p] \/ player'[p].points >= 0
    <3>1. ASSUME NEW p \in Players
          PROVE  /\ player'[p] \in Player
                 /\ player'[p] = player[p] \/ player'[p].points >= 0
        BY <2>2, <2>3 DEF Player
    <3> QED
        BY <2>3, <3>1
  <2>5. call' = [pm \in Players \X Mints |->
               IF pm[2] = m /\ pm[1] \in OpenCalls(m)
               THEN [call[pm] EXCEPT !.result = IF call[pm].bucket = b
                                                THEN "CORRECT" ELSE "WRONG"]
               ELSE call[pm]]
      BY <1>2 DEF settle_jeet
  <2>6. call' \in [Players \X Mints -> Call]
      BY <2>5 DEF Call
  <2>7. ASSUME NEW n \in Mints, NEW p \in Players
        PROVE  \/ rounds'[n] = rounds[n] /\ call'[<<p, n>>] = call[<<p, n>>]
               \/ call'[<<p, n>>].result # "open"
    <3>1. CASE n # m
        BY <2>1, <2>5, <3>1
    <3>2. CASE n = m
        BY <2>5, <3>2 DEF OpenCalls, Call
    <3> QED
        BY <3>1, <3>2
  <2> QED
      BY <2>1, <2>4, <2>6, <2>7 DEF Statuses
<1> QED
    BY <1>1, <1>2

\* Handlers and the feed leave every table typed.
THEOREM StepTables == TablesOK /\ [Next]_vars => TablesOK'
<1> SUFFICES ASSUME TablesOK, [Next]_vars PROVE TablesOK'
    OBVIOUS
<1> USE DEF TablesOK
<1>1. ASSUME NEW m \in Mints, Create(m) \/ Complete(m) \/ CompleteUnsaved(m) PROVE TablesOK'
    BY <1>1 DEF Create, Complete, CompleteUnsaved, Statuses
<1>2. ASSUME NEW c \in Creators, NEW d \in Delays, Sell(c, d) PROVE TablesOK'
    BY <1>2, SettlementWrites DEF Sell
<1>3. ASSUME NEW p \in Players, Visit(p) PROVE TablesOK'
    BY <1>3, VisitTopsUp DEF Visit
<1>4. ASSUME NEW h \in Clients, NEW p \in Players, NEW m \in Mints, NEW d \in Delays,
             BeginPredict(h, p, m, bucket_for_seconds(d))
      PROVE  TablesOK'
  <2>1. bucket_for_seconds(d) \in Buckets
      BY PumpGameAssumption, BucketType
  <2>2. Visited(player[p], day) \in Player
      BY VisitTopsUp
  <2>3. request'[h] \in Request
      BY <1>4, <2>1, <2>2 DEF BeginPredict, Request, Player
  <2> QED
      BY <1>4, <2>2, <2>3 DEF BeginPredict
<1>5. ASSUME NEW h \in Clients, LockIn(h) PROVE TablesOK'
  <2>1. [result |-> "open", bucket |-> request[h].bucket] \in Call
      BY DEF Call, Request
  <2>2. player' \in [Players -> Player]
    <3>1. \A p \in Players : [player[p] EXCEPT !.points = @ - Stake] \in Player
        BY PumpGameAssumption DEF Player
    <3> QED
        BY <1>5, <3>1 DEF LockIn
  <2>3. [request[h] EXCEPT !.stage = "reply"] \in Request
      BY DEF Request
  <2> QED
      BY <1>5, <2>1, <2>2, <2>3 DEF LockIn
<1>6. ASSUME NEW h \in Clients, Refuse(h) PROVE TablesOK'
    BY <1>6, Resting DEF Refuse
<1>7. ASSUME NEW h \in Clients, Reply(h) PROVE TablesOK'
    BY <1>7, Resting, VisitTopsUp DEF Reply
<1>8. CASE NewDay
    BY <1>8, PumpGameAssumption DEF NewDay
<1>9. CASE Restart
    BY <1>9, Resting DEF Restart
<1>10. CASE UNCHANGED vars
    BY <1>10 DEF vars
<1> QED
    BY <1>1, <1>2, <1>3, <1>4, <1>5, <1>6, <1>7, <1>8, <1>9, <1>10 DEF Next, Feed, Handler

\* The tables are always typed.
THEOREM TablesCorrect == Spec => []TablesOK
<1>1. Init => TablesOK
  <2> SUFFICES ASSUME Init PROVE TablesOK
      OBVIOUS
  <2>1. [points |-> 0, refilled |-> Never] \in Player
      BY DEF Player
  <2> QED
      BY <2>1, Resting, PumpGameAssumption DEF Init, TablesOK, Statuses
<1> QED
    BY <1>1, StepTables, PTL DEF Spec
-----------------------------------------------------------------------------
\* A handler that finds the round over refuses the call, and a settlement closes
\* every call: no call is left open on a round that is over.
THEOREM SettledRoundHasNoOpenCallHolds == Spec => []SettledRoundHasNoOpenCall
<1> DEFINE NoneOpen == \A m \in Mints, p \in Players :
                          rounds[m] = "JEET_CONFIRMED" => call[<<p, m>>].result # "open"
<1>1. Init => NoneOpen
    BY DEF Init
<1>2. TablesOK /\ NoneOpen /\ [Next]_vars => NoneOpen'
  <2> SUFFICES ASSUME TablesOK, NoneOpen, [Next]_vars PROVE NoneOpen'
      OBVIOUS
  <2> USE DEF TablesOK
  <2>1. ASSUME NEW m \in Mints, Create(m) \/ Complete(m) \/ CompleteUnsaved(m) PROVE NoneOpen'
      BY <2>1 DEF Create, Complete, CompleteUnsaved
  <2>2. ASSUME NEW c \in Creators, NEW d \in Delays, Sell(c, d) PROVE NoneOpen'
      BY <2>2, SettlementWrites DEF Sell
  <2>3. ASSUME NEW p \in Players, Visit(p) PROVE NoneOpen'
      BY <2>3 DEF Visit
  <2>4. ASSUME NEW h \in Clients, NEW p \in Players, NEW m \in Mints, NEW d \in Delays,
               BeginPredict(h, p, m, bucket_for_seconds(d))
        PROVE  NoneOpen'
      BY <2>4 DEF BeginPredict
  <2>5. ASSUME NEW h \in Clients, LockIn(h) PROVE NoneOpen'
    <3>1. rounds[request[h].mint] = "ACTIVE" /\ rounds' = rounds
        BY <2>5 DEF LockIn, Accepted
    <3>2. \A m \in Mints, p \in Players :
             m # request[h].mint => call'[<<p, m>>] = call[<<p, m>>]
        BY <2>5 DEF LockIn
    <3> QED
        BY <3>1, <3>2
  <2>6. ASSUME NEW h \in Clients, Refuse(h) \/ Reply(h) PROVE NoneOpen'
      BY <2>6 DEF Refuse, Reply
  <2>7. CASE NewDay \/ Restart
      BY <2>7 DEF NewDay, Restart
  <2>8. CASE UNCHANGED vars
      BY <2>8 DEF vars
  <2> QED
      BY <2>1, <2>2, <2>3, <2>4, <2>5, <2>6, <2>7, <2>8 DEF Next, Feed, Handler
<1>3. NoneOpen => SettledRoundHasNoOpenCall
    BY DEF SettledRoundHasNoOpenCall, OpenCalls
<1> QED
    BY <1>1, <1>2, <1>3, TablesCorrect, PTL DEF Spec
-----------------------------------------------------------------------------
(***************************************************************************)
(* How far a balance is overdrawn.  A handler that has checked a balance   *)
(* and not yet spent it can still take one stake; each of the others has   *)
(* taken at most one since the balance was last found sufficient.          *)
(***************************************************************************)
Spent(p) == {h \in Clients : ~(/\ request[h].stage = "checked"
                               /\ request[h].player = p
                               /\ request[h].points >= Stake)}

Covered == \A p \in Players : player[p].points >= -(Stake * Cardinality(Spent(p)))

\* The bound is a number that shrinks when more threads have spent, and by one
\* stake when one more has.
LEMMA BoundMoves ==
    ASSUME NEW S \in SUBSET Clients, NEW T \in SUBSET Clients
    PROVE  /\ -(Stake * Cardinality(S)) \in Int
           /\ -(Stake * Cardinality(S)) <= 0
           /\ S \subseteq T => -(Stake * Cardinality(T)) <= -(Stake * Cardinality(S))
           /\ \A h : (h \notin S /\ T = S \cup {h}) =>
                 -(Stake * Cardinality(T)) = -(Stake * Cardinality(S)) - Stake
<1>1. IsFiniteSet(S) /\ IsFiniteSet(T)
    BY PumpGameAssumption, FS_Subset
<1>2. Cardinality(S) \in Nat /\ Cardinality(T) \in Nat /\ Stake \in Nat
    BY <1>1, FS_CardinalityType, PumpGameAssumption
<1>3. S \subseteq T => Cardinality(S) <= Cardinality(T)
    BY <1>1, FS_Subset
<1>4. \A h : (h \notin S /\ T = S \cup {h}) => Cardinality(T) = Cardinality(S) + 1
    BY <1>1, FS_AddElement
<1>5. ASSUME NEW k \in Nat, NEW n \in Nat, NEW s \in Nat
      PROVE  /\ -(s * k) \in Int /\ -(s * k) <= 0
             /\ k <= n => -(s * n) <= -(s * k)
             /\ n = k + 1 => -(s * n) = -(s * k) - s
    BY <1>5
<1> QED
    BY <1>2, <1>3, <1>4, <1>5

\* Only a locked call lowers a balance below what was checked, by one stake.
THEOREM StepCovered == TablesOK /\ Covered /\ [Next]_vars => Covered'
<1> SUFFICES ASSUME TablesOK, Covered, [Next]_vars, NEW p \in Players
             PROVE  player'[p].points >= -(Stake * Cardinality(Spent(p)'))
    BY DEF Covered
<1> DEFINE Goal == player'[p].points >= -(Stake * Cardinality(Spent(p)'))
<1> USE DEF TablesOK
<1>1. /\ Spent(p) \subseteq Clients /\ Spent(p)' \subseteq Clients
      /\ player[p].points >= -(Stake * Cardinality(Spent(p)))
    BY DEF Spent, Covered
<1>2. player[p].points \in Int /\ player'[p].points \in Int
  <2>1. TablesOK'
      BY StepTables
  <2> QED
      BY <2>1 DEF Player
<1>3. ASSUME player'[p].points >= 0 PROVE Goal
    BY <1>1, <1>2, <1>3, BoundMoves
<1>4. ASSUME player'[p].points >= player[p].points, Spent(p) \subseteq Spent(p)' PROVE Goal
    BY <1>1, <1>2, <1>4, BoundMoves
<1>5. ASSUME NEW m \in Mints, Create(m) \/ Complete(m) \/ CompleteUnsaved(m) PROVE Goal
    BY <1>2, <1>4, <1>5 DEF Create, Complete, CompleteUnsaved, Spent
<1>6. ASSUME NEW c \in Creators, NEW d \in Delays, Sell(c, d) PROVE Goal
  <2>1. player'[p] = player[p] \/ player'[p].points >= 0
      BY <1>6, SettlementWrites DEF Sell
  <2>2. Spent(p)' = Spent(p)
      BY <1>6 DEF Sell, Spent
  <2> QED
      BY <1>2, <1>3, <1>4, <2>1, <2>2
<1>7. ASSUME NEW q \in Players, Visit(q) PROVE Goal
  <2>1. player'[p].points >= player[p].points
      BY <1>2, <1>7, VisitTopsUp DEF Visit
  <2>2. Spent(p)' = Spent(p)
      BY <1>7 DEF Visit, Spent
  <2> QED
      BY <1>4, <2>1, <2>2
<1>8. ASSUME NEW h \in Clients, NEW q \in Players, NEW m \in Mints, NEW d \in Delays,
             BeginPredict(h, q, m, bucket_for_seconds(d))
      PROVE  Goal
  <2>1. player'[p].points >= player[p].points
      BY <1>2, <1>8, VisitTopsUp DEF BeginPredict
  <2>2. /\ request'[h].player = q
        /\ request'[h].points = player'[q].points
        /\ \A k \in Clients : k # h => request'[k] = request[k]
        /\ request[h].stage = "idle"
      BY <1>8 DEF BeginPredict
  <2>3. CASE q = p /\ player'[p].points >= Stake
      BY <1>2, <1>3, <2>3, PumpGameAssumption
  <2>4. CASE ~(q = p /\ player'[p].points >= Stake)
    <3>1. Spent(p) \subseteq Spent(p)'
        BY <2>2, <2>4 DEF Spent
    <3> QED
        BY <1>4, <2>1, <3>1
  <2> QED
      BY <2>3, <2>4
<1>9. ASSUME NEW h \in Clients, LockIn(h) PROVE Goal
  <2>1. /\ request[h].stage = "checked" /\ request[h].points >= Stake
        /\ request'[h].stage = "reply"
        /\ \A k \in Clients : k # h => request'[k] = request[k]
      BY <1>9 DEF LockIn, Accepted
  <2>2. CASE request[h].player = p
    <3>1. h \notin Spent(p) /\ Spent(p)' = Spent(p) \cup {h}
        BY <2>1, <2>2 DEF Spent
    <3>2. player'[p].points = player[p].points - Stake
        BY <1>9, <2>2 DEF LockIn, Player
    <3>3. -(Stake * Cardinality(Spent(p)')) = -(Stake * Cardinality(Spent(p))) - Stake
        BY <1>1, <3>1, BoundMoves
    <3> QED
        BY <1>1, <1>2, <3>2, <3>3, BoundMoves, PumpGameAssumption
  <2>3. CASE request[h].player # p
    <3>1. player'[p] = player[p]
        BY <1>9, <2>3 DEF LockIn
    <3>2. Spent(p) \subseteq Spent(p)'
        BY <2>1, <2>3 DEF Spent
    <3> QED
        BY <1>2, <1>4, <3>1, <3>2
  <2> QED
      BY <2>2, <2>3
<1>10. ASSUME NEW h \in Clients, Refuse(h) PROVE Goal
    BY <1>2, <1>4, <1>10 DEF Refuse, Spent, Idle
<1>11. ASSUME NEW h \in Clients, Reply(h) PROVE Goal
  <2>1. player'[p].points >= player[p].points
      BY <1>2, <1>11, VisitTopsUp DEF Reply
  <2>2. Spent(p) \subseteq Spent(p)'
      BY <1>11 DEF Reply, Spent, Idle
  <2> QED
      BY <1>4, <2>1, <2>2
<1>12. CASE NewDay
    BY <1>2, <1>4, <1>12 DEF NewDay, Spent
<1>13. CASE Restart
    BY <1>2, <1>4, <1>13 DEF Restart, Spent, Idle
<1>14. CASE UNCHANGED vars
    BY <1>2, <1>4, <1>14 DEF vars, Spent
<1> QED
    BY <1>5, <1>6, <1>7, <1>8, <1>9, <1>10, <1>11, <1>12, <1>13, <1>14 DEF Next, Feed, Handler

\* However many calls of one player run at once, his balance is overdrawn by no
\* more than one stake for each handler thread.
THEOREM OverdraftBoundedHolds == Spec => []OverdraftBounded
<1>1. Init => Covered
  <2> SUFFICES ASSUME Init, NEW p \in Players
               PROVE  player[p].points >= -(Stake * Cardinality(Spent(p)))
      BY DEF Covered
  <2>1. Spent(p) \subseteq Clients /\ player[p].points = 0
      BY DEF Init, Spent
  <2> QED
      BY <2>1, BoundMoves
<1>2. TablesOK /\ Covered => OverdraftBounded
  <2> SUFFICES ASSUME TablesOK, Covered, NEW p \in Players
               PROVE  player[p].points >= -(Stake * Cardinality(Clients))
      BY DEF OverdraftBounded
  <2>1. Spent(p) \subseteq Clients /\ player[p].points \in Int
      BY DEF Spent, TablesOK, Player
  <2> QED
      BY <2>1, BoundMoves DEF Covered
<1> QED
    BY <1>1, <1>2, StepCovered, TablesCorrect, PTL DEF Spec
-----------------------------------------------------------------------------
(***************************************************************************)
(* The queue of the feed                                                   *)
(***************************************************************************)
FeedOK ==
    /\ founder \in [Mints -> Creators]
    /\ known \subseteq Mints
    /\ active \in Mints \cup {None}
    /\ pending \in Seq(Mints)

\* What waits after a sell is what waited before it, without the settled coin.
LEMMA SellKeepsOthers ==
    ASSUME FeedOK, NEW c, NEW d, Sell(c, d)
    PROVE  /\ active' \in Mints \cup {None} /\ pending' \in Seq(Mints)
           /\ \A m \in Mints \ {active} : m \in Waiting => m \in Waiting'
<1> DEFINE rest == Remaining(active)
<1>1. /\ rest \in Seq(Mints)
      /\ \A x : Has(rest, x) <=> (x \in Mints \ {active} /\ Has(pending, x))
    BY SieveFacts DEF FeedOK, Remaining
<1>2. /\ active' = IF rest = <<>> THEN None ELSE Head(rest)
      /\ pending' = IF rest = <<>> THEN <<>> ELSE Tail(rest)
    BY DEF Sell
<1> HIDE DEF rest
<1> USE DEF Has
<1>3. CASE rest = <<>>
  <2>1. \A m \in Mints \ {active} : m \notin Waiting
      BY <1>1, <1>3 DEF Waiting, FeedOK
  <2>2. <<>> \in Seq(Mints)
      OBVIOUS
  <2> QED
      BY <1>2, <1>3, <2>1, <2>2
<1>4. CASE rest # <<>>
  <2>1. Head(rest) \in Mints /\ Tail(rest) \in Seq(Mints) /\ Head(rest) = rest[1]
      BY <1>1, <1>4
  <2>2. \A i \in DOMAIN rest : i = 1 \/ (i - 1 \in DOMAIN Tail(rest) /\ Tail(rest)[i - 1] = rest[i])
      BY <1>1, <1>4
  <2>3. ASSUME NEW m \in Mints \ {active}, m \in Waiting
        PROVE  m \in Waiting'
    <3>1. PICK i \in DOMAIN rest : rest[i] = m
        BY <1>1, <2>3 DEF Waiting
    <3>2. m = active' \/ \E k \in DOMAIN pending' : pending'[k] = m
        BY <1>2, <1>4, <2>1, <2>2, <3>1
    <3> QED
        BY <3>2 DEF Waiting
  <2> QED
      BY <1>2, <1>4, <2>1, <2>3
<1> QED
    BY <1>3, <1>4

\* A completion joins the queue and nothing leaves it.
LEMMA QueueKeeps ==
    ASSUME FeedOK, NEW m \in Mints, Queue(m)
    PROVE  /\ active' \in Mints \cup {None} /\ pending' \in Seq(Mints)
           /\ m \in Waiting' /\ \A n \in Mints : n \in Waiting => n \in Waiting'
<1>1. pending' = Append(pending, m) /\ active' = IF active = None THEN m ELSE active
    BY DEF Queue
<1>2. /\ pending' \in Seq(Mints) /\ DOMAIN pending' = DOMAIN pending \cup {Len(pending) + 1}
      /\ pending'[Len(pending) + 1] = m
      /\ \A k \in DOMAIN pending : pending'[k] = pending[k]
    BY <1>1 DEF FeedOK
<1>3. \A n \in Mints : n \in Waiting => n \in Waiting'
    BY <1>1, <1>2, PumpGameAssumption DEF Waiting
<1> QED
    BY <1>1, <1>2, <1>3 DEF Waiting, FeedOK

\* The feed and its restarts keep the queue typed; nothing else touches it.
THEOREM StepFeed == FeedOK /\ [Next]_vars => FeedOK'
<1> SUFFICES ASSUME FeedOK, [Next]_vars PROVE FeedOK'
    OBVIOUS
<1>1. ASSUME NEW m \in Mints, Create(m) PROVE FeedOK'
    BY <1>1 DEF Create, FeedOK
<1>2. ASSUME NEW m \in Mints, Complete(m) \/ CompleteUnsaved(m) PROVE FeedOK'
    BY <1>2, QueueKeeps DEF Complete, CompleteUnsaved, FeedOK
<1>3. ASSUME NEW c \in Creators, NEW d \in Delays, Sell(c, d) PROVE FeedOK'
    BY <1>3, SellKeepsOthers DEF Sell, FeedOK
<1>4. CASE Restart
  <2>1. <<>> \in Seq(Mints)
      OBVIOUS
  <2> QED
      BY <1>4, <2>1 DEF Restart, FeedOK
<1>5. ASSUME UNCHANGED <<founder, feed>> PROVE FeedOK'
    BY <1>5 DEF feed, FeedOK
<1>6. ASSUME ~Feed, ~Restart PROVE UNCHANGED <<founder, feed>>
    BY <1>6 DEF Next, Handler, Visit, BeginPredict, LockIn, Refuse, Reply, NewDay, vars, feed
<1> QED
    BY <1>1, <1>2, <1>3, <1>4, <1>5, <1>6 DEF Feed

\* Every variable keeps a value of its kind.
THEOREM TypeCorrect == Spec => []TypeOK
<1>1. Init => FeedOK
  <2>1. <<>> \in Seq(Mints)
      OBVIOUS
  <2> QED
      BY <2>1 DEF Init, FeedOK
<1>2. FeedOK /\ TablesOK => TypeOK
    BY DEF FeedOK, TablesOK, TypeOK
<1> QED
    BY <1>1, <1>2, StepFeed, TablesCorrect, PTL DEF Spec

\* Whatever the feed is told, twice, late or never, a round that is open stays in
\* its queue until it is settled: only a restart strands one.
THEOREM OnlyRestartStrandsHolds == Spec => OnlyRestartStrands
<1>1. ASSUME FeedOK, TablesOK, [Next]_vars
      PROVE  [Restart \/ Stray' \subseteq Stray]_vars
  <2> USE <1>1
  <2>1. ASSUME NEW m \in Mints, Complete(m) \/ CompleteUnsaved(m) PROVE Stray' \subseteq Stray
    <3>1. m \in Waiting' /\ \A n \in Mints : n \in Waiting => n \in Waiting'
        BY <2>1, QueueKeeps DEF Complete, CompleteUnsaved
    <3>2. \A n \in Mints : n # m => rounds'[n] = rounds[n]
        BY <2>1 DEF Complete, CompleteUnsaved, TablesOK
    <3> QED
        BY <3>1, <3>2 DEF Stray
  <2>2. ASSUME NEW c \in Creators, NEW d \in Delays, Sell(c, d) PROVE Stray' \subseteq Stray
    <3>1. active \in Mints /\ settle_jeet(active, bucket_for_seconds(d))
        BY <2>2 DEF Sell, FeedOK
    <3>2. rounds'[active] # "ACTIVE" /\ \A n \in Mints : n # active => rounds'[n] = rounds[n]
        BY <3>1 DEF settle_jeet, TablesOK
    <3>3. \A n \in Mints \ {active} : n \in Waiting => n \in Waiting'
        BY <2>2, SellKeepsOthers
    <3> QED
        BY <3>2, <3>3 DEF Stray
  <2>3. ASSUME NEW m \in Mints, Create(m) PROVE Stray' \subseteq Stray
      BY <2>3 DEF Create, Stray, Waiting
  <2>4. ASSUME UNCHANGED <<feed, rounds>> PROVE Stray' \subseteq Stray
      BY <2>4 DEF feed, Stray, Waiting
  <2>5. ASSUME ~Feed, ~Restart PROVE UNCHANGED <<feed, rounds>>
      BY <2>5 DEF Next, Handler, Visit, BeginPredict, LockIn, Refuse, Reply, NewDay, vars, feed
  <2> QED
      BY <2>1, <2>2, <2>3, <2>4, <2>5 DEF Feed
<1>2. Init => FeedOK
  <2>1. <<>> \in Seq(Mints)
      OBVIOUS
  <2> QED
      BY <2>1 DEF Init, FeedOK
<1> QED
    BY <1>1, <1>2, StepFeed, TablesCorrect, PTL DEF Spec, OnlyRestartStrands
=============================================================================
