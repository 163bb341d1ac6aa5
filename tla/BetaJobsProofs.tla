---------------------------- MODULE BetaJobsProofs ----------------------------
(***************************************************************************)
(* Theorems about BetaJobs, for every number of jobs, codes, targets,      *)
(* handler threads and days and every setting of the limits.               *)
(*                                                                         *)
(* The argument: a worker's position in _execute agrees with the state of  *)
(* its row (Threads, Handlers, DownIsQuiet), so a step either admits one   *)
(* absent row under the checks of create_or_get, or moves each row at most *)
(* forward (StepKinds).  The ledger's properties follow from that lemma.   *)
(***************************************************************************)
EXTENDS BetaJobs, DataFacts

\* A worker or a pending future of job i agrees with what its row says.
Threads ==
    \A i \in Ids : /\ row[i].state = "absent" => thread[i] = "none"
                   /\ thread[i] = "queued" => row[i].state = "queued"
                   /\ thread[i] \in Busy => row[i].state = "running"

\* A handler between create_or_get and executor.submit owns a queued row that
\* has no future yet and that no other handler owns.
Handlers ==
    /\ \A h \in Clients :
          request[h].stage = "admitted" =>
              /\ request[h].id \in Ids
              /\ row[request[h].id].state = "queued"
              /\ thread[request[h].id] = "none"
    /\ \A h, k \in Clients :
          (/\ request[h].stage = "admitted"
           /\ request[k].stage = "admitted"
           /\ request[h].id = request[k].id) => h = k

\* Nothing runs in a process that is down.
DownIsQuiet ==
    phase = "down" => /\ \A h \in Clients : request[h].stage = "idle"
                      /\ \A i \in Ids : thread[i] = "none"

\* v is a later version of the row w.
SameJob(v, w) ==
    /\ v.code = w.code /\ v.target = w.target /\ v.tier = w.tier /\ v.day = w.day
    /\ v.reserved = w.reserved /\ v.ceiling = w.ceiling

\* What one step may do to the rows when it admits none.
Started(i) ==
    /\ row[i].state = "queued"
    /\ row'[i].state = "running"
    /\ row'[i].used = row[i].used
    /\ SameJob(row'[i], row[i])

Settled(i) ==
    /\ row[i].state \in Active
    /\ row'[i].state \in Terminal
    /\ row'[i].used \in 0..row[i].reserved
    /\ \/ row'[i].used \in {row[i].reserved, Least(spent[i], row[i].reserved)}
       \/ row[i].state = "queued" /\ row'[i].used = 0
    /\ SameJob(row'[i], row[i])

Forward == \A i \in Ids : row'[i] = row[i] \/ Started(i) \/ Settled(i)
-----------------------------------------------------------------------------
\* Sums over the rows are natural numbers.
LEMMA CommittedNat ==
    ASSUME TypeOK, NEW c, NEW d
    PROVE  Committed(d) \in Nat /\ CodeCommitted(c, d) \in Nat
<1>1. IsFiniteSet(Ids) /\ Cap \in Nat
    BY BetaJobsAssumption
<1>2. \A i \in Ids : Charges[i] \in 0..Cap
    BY DEF TypeOK, Row, Charges, Charge
<1>3. /\ IsFiniteSet({i \in Rows : row[i].day = d})
      /\ IsFiniteSet({i \in Rows : row[i].code = c /\ row[i].day = d})
    BY <1>1, FS_Subset DEF Rows
<1>4. Committed(d) \in Nat
    BY <1>1, <1>2, <1>3, TotalNat DEF Committed, Rows
<1>5. CodeCommitted(c, d) \in Nat
    BY <1>1, <1>2, <1>3, TotalNat DEF CodeCommitted, Rows
<1> QED
    BY <1>4, <1>5

\* What create_or_get reserves is positive, fits the cap, and is also the
\* ceiling under which the engine spends.
LEMMA AllotmentFits ==
    ASSUME TypeOK, NEW r \in Request, ~Refused(r)
    PROVE  /\ Allotment(r) \in 1..Cap
           /\ Committed(r.day) + Allotment(r) <= Cap
           /\ Ceiling(r) = Allotment(r)
<1>1. /\ Committed(r.day) \in Nat
      /\ CodeCommitted(r.code, r.day) \in Nat
    BY CommittedNat
<1>2. /\ Cap \in Nat
      /\ Terms(r.tier).perRun \in Nat
      /\ Terms(r.tier).daily \in Nat
    BY BetaJobsAssumption DEF Terms, Request, Tiers
<1>3. Allotment(r) \in Int
    BY <1>1, <1>2 DEF Allotment, Remaining, Least, Most
<1>4. ~(Allotment(r) <= 0) /\ ~(Committed(r.day) + Allotment(r) > Cap)
    BY DEF Refused
<1>5. Ceiling(r) = Allotment(r)
    BY DEF Ceiling, Allotment
<1> QED
    BY <1>1, <1>2, <1>3, <1>4, <1>5

\* The inserted row is a row.
LEMMA AdmittedRow ==
    ASSUME TypeOK, NEW r \in Request, ~Refused(r)
    PROVE  Admitted(r) \in Row
<1>1. Allotment(r) \in 1..Cap /\ Ceiling(r) = Allotment(r) /\ Cap \in Nat
    BY AllotmentFits, BetaJobsAssumption
<1> QED
    BY <1>1 DEF Admitted, Row, Request, States

\* The columns after a row's state and charge are written.
LEMMA RowWrite ==
    ASSUME NEW w \in Row, NEW s \in States, NEW n \in 0..Cap
    PROVE  /\ Settle(w, s, n) \in Row
           /\ Settle(w, s, n).state = s
           /\ Settle(w, s, n).used = n
           /\ SameJob(Settle(w, s, n), w)
BY DEF Settle, Row, SameJob

\* Settling a row gives a row, charged at most its reservation.
LEMMA SettledRow ==
    ASSUME NEW w \in Row, NEW n \in Nat
    PROVE  /\ Completed(w, n) \in Row
           /\ Completed(w, n).state = "complete"
           /\ Completed(w, n).used = Least(n, w.reserved)
           /\ CompletedUnmetered(w) \in Row
           /\ CompletedUnmetered(w).state = "complete"
           /\ CompletedUnmetered(w).used = w.reserved
           /\ Failed(w) \in Row
           /\ Failed(w).state = "failed"
           /\ Failed(w).used = w.reserved
           /\ Interrupted(w) \in Row
           /\ Interrupted(w).state = "failed"
           /\ Interrupted(w).used = IF w.state = "running" THEN w.reserved ELSE 0
<1>1. Cap \in Nat /\ w.reserved \in 0..Cap
    BY BetaJobsAssumption DEF Row
<1>2. /\ Least(n, w.reserved) \in 0..Cap
      /\ Most(0, Least(n, w.reserved)) = Least(n, w.reserved)
    BY <1>1 DEF Most, Least
<1>3. {"complete", "failed"} \subseteq States
    BY DEF States
<1>4. Completed(w, n) \in Row /\ Completed(w, n).state = "complete"
      /\ Completed(w, n).used = Least(n, w.reserved)
    BY <1>2, <1>3, RowWrite DEF Completed
<1>5. CompletedUnmetered(w) \in Row /\ CompletedUnmetered(w).state = "complete"
      /\ CompletedUnmetered(w).used = w.reserved
    BY <1>1, <1>3, RowWrite DEF CompletedUnmetered
<1>6. Failed(w) \in Row /\ Failed(w).state = "failed" /\ Failed(w).used = w.reserved
    BY <1>1, <1>3, RowWrite DEF Failed
<1>7. (IF w.state = "running" THEN w.reserved ELSE 0) \in 0..Cap
    BY <1>1
<1>8. Interrupted(w) \in Row /\ Interrupted(w).state = "failed"
      /\ Interrupted(w).used = IF w.state = "running" THEN w.reserved ELSE 0
    BY <1>7, <1>3, RowWrite DEF Interrupted
<1> QED
    BY <1>4, <1>5, <1>6, <1>8
-----------------------------------------------------------------------------
\* Whatever settles a row closes it within its reservation.
LEMMA Closes ==
    ASSUME NEW w \in Row, NEW n \in Nat,
           NEW v \in {Completed(w, n), CompletedUnmetered(w), Failed(w), Interrupted(w)}
    PROVE  v.state \in Terminal /\ v.used \in 0..w.reserved /\ SameJob(v, w)
<1>1. Cap \in Nat /\ w.reserved \in 0..Cap
    BY BetaJobsAssumption DEF Row
<1>2. /\ Most(0, Least(n, w.reserved)) \in 0..w.reserved
      /\ Least(n, w.reserved) \in 0..w.reserved
      /\ 0..w.reserved \subseteq 0..Cap
    BY <1>1 DEF Most, Least
<1>3. "complete" \in Terminal /\ "failed" \in Terminal /\ Terminal \subseteq States
    BY DEF States, Terminal
<1>4. ASSUME NEW s \in Terminal, NEW m \in 0..w.reserved
      PROVE  /\ Settle(w, s, m).state \in Terminal
             /\ Settle(w, s, m).used \in 0..w.reserved
             /\ SameJob(Settle(w, s, m), w)
    <2>1. s \in States /\ m \in 0..Cap
        BY <1>2, <1>3
    <2> QED
        BY <2>1, RowWrite
<1>5. (IF w.state = "running" THEN w.reserved ELSE 0) \in 0..w.reserved
      /\ w.reserved \in 0..w.reserved
    BY <1>1
<1>6. \E s \in Terminal, m \in 0..w.reserved : v = Settle(w, s, m)
    BY <1>2, <1>3, <1>5, Zenon DEF Completed, CompletedUnmetered, Failed, Interrupted
<1> QED
    BY <1>4, <1>6
-----------------------------------------------------------------------------
THEOREM InitTypeOK == Init => TypeOK
<1> SUFFICES ASSUME Init PROVE TypeOK
    OBVIOUS
<1>1. 0 \in Days /\ 0 \in 0..Cap /\ 0 \in 0..MaxFaults
    BY BetaJobsAssumption DEF Days
<1>2. NoRow \in Row
    BY <1>1 DEF NoRow, Row, States, Tiers
<1>3. Idle \in Request
    BY <1>1 DEF Idle, Request, Tiers
<1> QED
    BY <1>1, <1>2, <1>3 DEF Init, TypeOK, ThreadStates

THEOREM StepTypeOK == TypeOK /\ [Next]_vars => TypeOK'
<1> SUFFICES ASSUME TypeOK, [Next]_vars PROVE TypeOK'
    OBVIOUS
<1>1. 0 \in Days /\ Cap \in Nat /\ MaxDay \in Nat /\ MaxFaults \in Nat
    BY BetaJobsAssumption DEF Days
<1>2. Idle \in Request
    BY <1>1 DEF Idle, Request, Tiers
<1>3. ASSUME NEW h \in Clients, NEW c \in Codes, NEW t \in Targets, BeginSubmit(h, c, t)
      PROVE  TypeOK'
    BY <1>3 DEF BeginSubmit, TypeOK, Request, Tier, Tiers
<1>4. ASSUME NEW h \in Clients, NEW i \in Ids, Admit(h, i)
      PROVE  TypeOK'
    <2>1. Admitted(request[h]) \in Row
        BY <1>4, AdmittedRow DEF Admit, TypeOK
    <2>2. row' \in [Ids -> Row]
        BY <1>4, <2>1 DEF Admit, TypeOK
    <2>3. request' \in [Clients -> Request]
        BY <1>4 DEF Admit, TypeOK, Request
    <2> QED
        BY <1>4, <2>2, <2>3 DEF Admit, TypeOK
<1>5. ASSUME NEW h \in Clients, Dismiss(h)
      PROVE  TypeOK'
    BY <1>2, <1>5 DEF Dismiss, TypeOK
<1>6. ASSUME NEW h \in Clients, Enqueue(h)
      PROVE  TypeOK'
    BY <1>2, <1>6 DEF Enqueue, TypeOK, ThreadStates
<1>7. ASSUME NEW i \in Ids, MarkRunning(i)
      PROVE  TypeOK'
    BY <1>7 DEF MarkRunning, TypeOK, ThreadStates, Row, States
<1>8. ASSUME NEW i \in Ids, MarkRunningFails(i)
      PROVE  TypeOK'
    BY <1>1, <1>8 DEF MarkRunningFails, Fault, TypeOK, ThreadStates
<1>9. ASSUME NEW i \in Ids, AcquireEngine(i)
      PROVE  TypeOK'
    BY <1>9 DEF AcquireEngine, TypeOK, ThreadStates
<1>10. ASSUME NEW i \in Ids, NEW w \in Weights, Spend(i, w)
       PROVE  TypeOK'
    <2>1. w \in Nat
        BY BetaJobsAssumption
    <2> QED
        BY <1>10, <2>1 DEF Spend, TypeOK
<1>11. ASSUME NEW i \in Ids, EngineEnds(i)
       PROVE  TypeOK'
    BY <1>11 DEF EngineEnds, TypeOK, ThreadStates
<1>12. ASSUME NEW i \in Ids, Completion(i)
       PROVE  row' \in [Ids -> Row]
    <2>1. /\ row[i] \in Row
          /\ spent[i] \in Nat
        BY DEF TypeOK
    <2>2. /\ Completed(row[i], spent[i]) \in Row
          /\ CompletedUnmetered(row[i]) \in Row
        BY <2>1, SettledRow
    <2> QED
        BY <1>12, <2>2 DEF Completion, TypeOK
<1>13. ASSUME NEW i \in Ids, Complete(i)
       PROVE  TypeOK'
    BY <1>12, <1>13 DEF Complete, TypeOK, ThreadStates
<1>14. ASSUME NEW i \in Ids, CompleteFails(i)
       PROVE  TypeOK'
    BY <1>1, <1>14 DEF CompleteFails, Fault, TypeOK, ThreadStates
<1>15. ASSUME NEW i \in Ids, HandleException(i)
       PROVE  TypeOK'
    <2>1. Failed(row[i]) \in Row
        BY SettledRow DEF TypeOK
    <2>2. row' \in [Ids -> Row]
        BY <1>12, <1>15, <2>1 DEF HandleException, TypeOK
    <2> QED
        BY <1>15, <2>2 DEF HandleException, TypeOK, ThreadStates
<1>16. ASSUME NEW i \in Ids, HandlerFails(i)
       PROVE  TypeOK'
    BY <1>1, <1>16 DEF HandlerFails, Fault, TypeOK, ThreadStates
<1>17. CASE Shutdown
    BY <1>17 DEF Shutdown, TypeOK, ThreadStates
<1>18. CASE Exit \/ Crash
    BY <1>2, <1>18 DEF Exit, Crash, StopProcess, TypeOK, ThreadStates
<1>19. CASE Restart
    <2>1. \A i \in Ids : Interrupted(row[i]) \in Row
        BY SettledRow DEF TypeOK
    <2> QED
        BY <1>19, <2>1 DEF Restart, TypeOK
<1>20. CASE NewDay
    BY <1>1, <1>20 DEF NewDay, TypeOK, Days
<1>21. ASSUME NEW c \in Codes, ChangeMembership(c)
       PROVE  TypeOK'
    BY <1>21 DEF ChangeMembership, TypeOK
<1>22. CASE UNCHANGED vars
    BY <1>22 DEF vars, TypeOK
<1> QED
    BY <1>3, <1>4, <1>5, <1>6, <1>7, <1>8, <1>9, <1>10, <1>11, <1>13, <1>14, <1>15,
       <1>16, <1>17, <1>18, <1>19, <1>20, <1>21, <1>22
    DEF Next, Handler, Worker, Environment
-----------------------------------------------------------------------------
(***************************************************************************)
(* Workers and rows                                                        *)
(***************************************************************************)
\* A completed row was closed.
LEMMA CompletionCloses ==
    ASSUME TypeOK, NEW i \in Ids, row[i].state \in Active,
           Completion(i) \/ row' = [row EXCEPT ![i] = Failed(@)]
    PROVE  /\ Settled(i)
           /\ \A j \in Ids \ {i} : row'[j] = row[j]
<1>1. row[i] \in Row /\ spent[i] \in Nat
    BY DEF TypeOK
<1>2. PICK v \in {Completed(row[i], spent[i]), CompletedUnmetered(row[i]), Failed(row[i])} :
         row' = [row EXCEPT ![i] = v]
    BY DEF Completion
<1>3. v.state \in Terminal /\ v.used \in 0..row[i].reserved /\ SameJob(v, row[i])
    BY <1>1, Closes
<1>4. v.used \in {row[i].reserved, Least(spent[i], row[i].reserved)}
    <2>1. CASE v = Completed(row[i], spent[i])
        BY <1>1, <2>1, SettledRow
    <2>2. CASE v \in {CompletedUnmetered(row[i]), Failed(row[i])}
        BY <1>1, <2>2, SettledRow
    <2> QED
        BY <2>1, <2>2
<1>5. row'[i] = v /\ \A j \in Ids \ {i} : row'[j] = row[j]
    BY <1>2 DEF TypeOK
<1> QED
    BY <1>3, <1>4, <1>5 DEF Settled

\* Every step admits a row or moves rows forward, one at a time but for a restart.
LEMMA StepKinds ==
    ASSUME TypeOK, Threads, [Next]_vars
    PROVE  Forward \/ \E h \in Clients, i \in Ids : Admit(h, i)
<1>1. CASE UNCHANGED row
    BY <1>1 DEF Forward
<1>2. ASSUME NEW i \in Ids, MarkRunning(i)
      PROVE  Forward
    <2>1. row[i] \in Row /\ row[i].state = "queued"
        BY <1>2 DEF MarkRunning, Threads, TypeOK
    <2>2. Started(i) /\ \A j \in Ids \ {i} : row'[j] = row[j]
        BY <1>2, <2>1 DEF MarkRunning, TypeOK, Row, Started, SameJob
    <2> QED
        BY <2>2 DEF Forward
<1>3. ASSUME NEW i \in Ids, Complete(i) \/ HandleException(i)
      PROVE  Forward
    <2>1. row[i].state \in Active
        BY <1>3 DEF Complete, HandleException, Threads, Busy, Active
    <2>2. Completion(i) \/ row' = [row EXCEPT ![i] = Failed(@)]
        BY <1>3 DEF Complete, HandleException
    <2> QED
        BY <2>1, <2>2, CompletionCloses DEF Forward
<1>4. CASE Restart
    <2> SUFFICES ASSUME NEW i \in Ids
                 PROVE  row'[i] = row[i] \/ Settled(i)
        BY DEF Forward
    <2>1. CASE row[i].state \in Active
        <3>1. row'[i] = Interrupted(row[i]) /\ row[i] \in Row
            BY <1>4, <2>1 DEF Restart, TypeOK
        <3>2. /\ row'[i].state \in Terminal
              /\ row'[i].used \in 0..row[i].reserved
              /\ SameJob(row'[i], row[i])
            BY <3>1, Closes, 0 \in Nat
        <3>3. row'[i].used = IF row[i].state = "running" THEN row[i].reserved ELSE 0
            BY <3>1, SettledRow DEF TypeOK
        <3> QED
            BY <2>1, <3>2, <3>3 DEF Settled, Active
    <2>2. CASE row[i].state \notin Active
        BY <1>4, <2>2 DEF Restart
    <2> QED
        BY <2>1, <2>2
<1> QED
    BY <1>1, <1>2, <1>3, <1>4
    DEF Next, Handler, Worker, Environment, BeginSubmit, Dismiss, Enqueue, MarkRunningFails,
        AcquireEngine, Spend, EngineEnds, CompleteFails, HandlerFails, Shutdown, Exit, Crash,
        StopProcess, NewDay, ChangeMembership, vars

\* The agreement of workers, handlers and rows that every later argument uses.
Agreement == TypeOK /\ Threads /\ Handlers /\ DownIsQuiet

THEOREM InitAgreement == Init => Agreement
<1> SUFFICES ASSUME Init PROVE Agreement
    OBVIOUS
<1>1. TypeOK
    BY InitTypeOK
<1>2. Threads /\ Handlers /\ DownIsQuiet
    BY DEF Init, NoRow, Idle, Busy, Threads, Handlers, DownIsQuiet
<1> QED
    BY <1>1, <1>2 DEF Agreement

THEOREM StepAgreement == Agreement /\ [Next]_vars => Agreement'
<1> SUFFICES ASSUME Agreement, [Next]_vars PROVE Agreement'
    OBVIOUS
<1>a. TypeOK /\ Threads /\ Handlers /\ DownIsQuiet
    BY DEF Agreement
<1>b. TypeOK'
    BY <1>a, StepTypeOK
<1> USE <1>a
<1>1. ASSUME NEW h \in Clients, NEW c \in Codes, NEW t \in Targets, BeginSubmit(h, c, t)
      PROVE  Agreement'
    <2>1. /\ request'[h].stage = "timed"
          /\ \A k \in Clients \ {h} : request'[k] = request[k]
        BY <1>1 DEF BeginSubmit, TypeOK
    <2> QED
        BY <1>1, <1>b, <2>1 DEF BeginSubmit, Agreement, Threads, Handlers, DownIsQuiet
<1>2. ASSUME NEW h \in Clients, NEW i \in Ids, Admit(h, i)
      PROVE  Agreement'
    <2>1. /\ row[i].state = "absent" /\ thread[i] = "none" /\ phase # "down"
          /\ row'[i].state = "queued"
          /\ \A j \in Ids \ {i} : row'[j] = row[j]
          /\ thread' = thread /\ phase' = phase
        BY <1>2 DEF Admit, Admitted, TypeOK, Threads
    <2>2. /\ request'[h].stage = "admitted" /\ request'[h].id = i
          /\ \A k \in Clients \ {h} : request'[k] = request[k]
        BY <1>2 DEF Admit, TypeOK, Request
    <2>3. Threads'
        BY <2>1 DEF Threads, Busy
    <2>4. \A k \in Clients \ {h} : request[k].stage = "admitted" => request[k].id # i
        BY <2>1 DEF Handlers
    <2>5. Handlers'
        BY <2>1, <2>2, <2>4 DEF Handlers
    <2> QED
        BY <1>b, <2>1, <2>3, <2>5 DEF Agreement, DownIsQuiet
<1>3. ASSUME NEW h \in Clients, Dismiss(h)
      PROVE  Agreement'
    <2>1. /\ request'[h] = Idle
          /\ \A k \in Clients \ {h} : request'[k] = request[k]
        BY <1>3 DEF Dismiss, TypeOK
    <2> QED
        BY <1>3, <1>b, <2>1 DEF Dismiss, Idle, Agreement, Threads, Handlers, DownIsQuiet
<1>4. ASSUME NEW h \in Clients, Enqueue(h)
      PROVE  Agreement'
    <2> DEFINE i == request[h].id
    <2>1. /\ i \in Ids /\ row[i].state = "queued"
          /\ row' = row /\ phase' = phase /\ phase # "down"
          /\ \A j \in Ids \ {i} : thread'[j] = thread[j]
          /\ thread'[i] \in {"queued", "none"}
        BY <1>4 DEF Enqueue, Handlers, TypeOK
    <2>2. /\ request'[h].stage = "idle"
          /\ \A k \in Clients \ {h} : request'[k] = request[k]
        BY <1>4 DEF Enqueue, TypeOK, Idle
    <2>3. Threads'
        BY <2>1 DEF Threads, Busy
    <2>4. \A k \in Clients \ {h} : request[k].stage = "admitted" => request[k].id # i
        BY <1>4 DEF Enqueue, Handlers
    <2>5. Handlers'
        BY <2>1, <2>2, <2>4 DEF Handlers
    <2> QED
        BY <1>b, <2>1, <2>3, <2>5 DEF Agreement, DownIsQuiet
<1>5. ASSUME NEW i \in Ids, thread[i] # "none", UNCHANGED <<phase, request>>,
             \A j \in Ids \ {i} : thread'[j] = thread[j] /\ row'[j] = row[j],
             \/ row'[i] = row[i] /\ thread'[i] = "gone"
             \/ row'[i] = row[i] /\ thread[i] \in Busy /\ thread'[i] \in Busy
             \/ row[i].state # "absent" /\ row'[i].state # "absent" /\ thread'[i] = "gone"
             \/ row'[i].state = "running" /\ thread'[i] \in Busy
      PROVE  Agreement'
    <2>1. \A h \in Clients : request[h].stage = "admitted" => request[h].id # i
        BY <1>5 DEF Handlers
    <2>2. Threads'
        BY <1>5 DEF Threads, Busy
    <2>3. Handlers'
        BY <1>5, <2>1 DEF Handlers
    <2>4. DownIsQuiet'
        BY <1>5 DEF DownIsQuiet
    <2> QED
        BY <1>b, <2>2, <2>3, <2>4 DEF Agreement
<1>6. ASSUME NEW i \in Ids, MarkRunning(i)
      PROVE  Agreement'
    BY <1>5, <1>6 DEF MarkRunning, TypeOK, Row, Busy
<1>7. ASSUME NEW i \in Ids, MarkRunningFails(i) \/ HandlerFails(i)
      PROVE  Agreement'
    BY <1>5, <1>7 DEF MarkRunningFails, HandlerFails, TypeOK
<1>8. ASSUME NEW i \in Ids, AcquireEngine(i) \/ EngineEnds(i) \/ CompleteFails(i)
      PROVE  Agreement'
    BY <1>5, <1>8 DEF AcquireEngine, EngineEnds, CompleteFails, TypeOK, Busy
<1>9. ASSUME NEW i \in Ids, NEW w \in Weights, Spend(i, w)
      PROVE  Agreement'
    BY <1>b, <1>9 DEF Spend, Agreement, Threads, Handlers, DownIsQuiet
<1>10. ASSUME NEW i \in Ids, Complete(i) \/ HandleException(i)
       PROVE  Agreement'
    <2>1. row[i].state \in Active /\ thread[i] # "none"
        BY <1>10 DEF Complete, HandleException, Threads, Busy, Active
    <2>2. Completion(i) \/ row' = [row EXCEPT ![i] = Failed(@)]
        BY <1>10 DEF Complete, HandleException
    <2>3. Settled(i) /\ \A j \in Ids \ {i} : row'[j] = row[j]
        BY <2>1, <2>2, CompletionCloses
    <2>4. row[i].state # "absent" /\ row'[i].state # "absent"
        BY <2>3 DEF Settled, Active, Terminal
    <2>5. /\ thread'[i] = "gone" /\ UNCHANGED <<phase, request>>
          /\ \A j \in Ids \ {i} : thread'[j] = thread[j]
        BY <1>10 DEF Complete, HandleException, TypeOK
    <2> QED
        BY <1>5, <2>1, <2>3, <2>4, <2>5
<1>11. CASE Shutdown
    BY <1>b, <1>11 DEF Shutdown, Agreement, Threads, Handlers, DownIsQuiet, Busy
<1>12. CASE Exit \/ Crash
    BY <1>b, <1>12
    DEF Exit, Crash, StopProcess, Idle, Busy, Agreement, Threads, Handlers, DownIsQuiet
<1>13. CASE Restart
    <2>1. /\ \A i \in Ids : thread'[i] = "none"
          /\ \A h \in Clients : request'[h].stage = "idle"
          /\ phase' = "up"
        BY <1>13 DEF Restart, DownIsQuiet
    <2> QED
        BY <1>b, <2>1 DEF Busy, Agreement, Threads, Handlers, DownIsQuiet
<1>14. CASE NewDay
    BY <1>b, <1>14 DEF NewDay, Agreement, Threads, Handlers, DownIsQuiet
<1>15. ASSUME NEW c \in Codes, ChangeMembership(c)
       PROVE  Agreement'
    BY <1>b, <1>15 DEF ChangeMembership, Agreement, Threads, Handlers, DownIsQuiet
<1>16. CASE UNCHANGED vars
    BY <1>b, <1>16 DEF vars, Agreement, Threads, Handlers, DownIsQuiet
<1> QED
    BY <1>1, <1>2, <1>3, <1>4, <1>6, <1>7, <1>8, <1>9, <1>10, <1>11, <1>12, <1>13, <1>14,
       <1>15, <1>16
    DEF Next, Handler, Worker, Environment

\* Agreement holds in every reachable state.
THEOREM Agreed == Spec => []Agreement
BY InitAgreement, StepAgreement, PTL DEF Spec

\* Every variable always holds a value of its kind.
THEOREM TypeCorrect == Spec => []TypeOK
<1>1. Agreement => TypeOK
    BY DEF Agreement
<1> QED
    BY <1>1, Agreed, PTL
-----------------------------------------------------------------------------
(***************************************************************************)
(* The ledger                                                              *)
(***************************************************************************)
\* What an admission does to the table.
LEMMA AdmitWrites ==
    ASSUME TypeOK, NEW h \in Clients, NEW i \in Ids, Admit(h, i)
    PROVE  /\ request[h] \in Request
           /\ row'[i] = Admitted(request[h])
           /\ row[i].state = "absent" /\ row'[i].state = "queued"
           /\ \A j \in Ids \ {i} : row'[j] = row[j]
           /\ ~Refused(request[h]) /\ ~Duplicate(request[h])
           /\ spent' = spent
BY DEF Admit, Admitted, TypeOK

\* Moving forward, a row never charges more than before and keeps its day.
LEMMA ForwardCharges ==
    ASSUME TypeOK, Forward, NEW i \in Ids
    PROVE  /\ Charges'[i] \in 0..Charges[i]
           /\ Charges[i] \in 0..Cap
           /\ SameJob(row'[i], row[i])
           /\ row'[i].state = "absent" <=> row[i].state = "absent"
           /\ row'[i].state \in Active => row[i].state \in Active
<1>1. Cap \in Nat /\ row[i] \in Row
    BY BetaJobsAssumption DEF TypeOK
<1>2. Charges'[i] = IF row'[i].state \in Active THEN row'[i].reserved ELSE row'[i].used
    BY DEF Charges, Charge
<1>3. Charges[i] = IF row[i].state \in Active THEN row[i].reserved ELSE row[i].used
    BY DEF Charges, Charge
<1>4. row'[i] = row[i] \/ Started(i) \/ Settled(i)
    BY DEF Forward
<1> QED
    BY <1>1, <1>2, <1>3, <1>4 DEF Row, Started, Settled, SameJob, Active, Terminal

LEMMA ForwardCommits ==
    ASSUME TypeOK, Forward, NEW d
    PROVE  Committed(d)' \in Nat /\ Committed(d)' <= Committed(d)
<1> DEFINE S == {i \in Rows : row[i].day = d}
           T == {i \in Rows' : row'[i].day = d}
<1>1. IsFiniteSet(S) /\ Cap \in Nat
    BY BetaJobsAssumption, FS_Subset DEF Rows
<1>2. T \subseteq S
    BY ForwardCharges DEF Rows, SameJob
<1>3. \A i \in S : Charges[i] \in 0..Cap /\ Charges'[i] \in 0..Charges[i]
    BY ForwardCharges DEF Rows
<1>4. Total(T, Charges') <= Total(S, Charges)
    BY <1>1, <1>2, <1>3, TotalMonotone
<1>5. IsFiniteSet(T) /\ \A i \in T : Charges'[i] \in 0..Cap
    BY <1>1, <1>2, <1>3, FS_Subset
<1>6. Total(T, Charges') \in Nat
    BY <1>1, <1>5, TotalNat
<1> QED
    BY <1>4, <1>6 DEF Committed

\* An admission adds its allotment to the charges of any rows it joins, and
\* leaves the others alone.
LEMMA AdmitAdds ==
    ASSUME TypeOK, NEW h \in Clients, NEW i \in Ids, Admit(h, i), NEW S \in SUBSET Rows
    PROVE  /\ Total(S, Charges') = Total(S, Charges)
           /\ Total(S \cup {i}, Charges') = Total(S, Charges) + Allotment(request[h])
<1> DEFINE r == request[h]
<1>1. IsFiniteSet(S) /\ Cap \in Nat
    BY BetaJobsAssumption, FS_Subset DEF Rows
<1>2. /\ r \in Request /\ ~Refused(r)
      /\ row'[i] = Admitted(r) /\ row[i].state = "absent"
      /\ \A j \in Ids \ {i} : row'[j] = row[j]
    BY AdmitWrites
<1>3. Allotment(r) \in 1..Cap
    BY <1>2, AllotmentFits
<1>4. Charges'[i] = Allotment(r)
    BY <1>2 DEF Admitted, Charges, Charge, Active
<1>5. i \notin S
    BY <1>2 DEF Rows
<1>6. \A j \in S : Charges[j] \in 0..Cap /\ Charges'[j] = Charges[j]
    BY <1>2 DEF Rows, Charges, Charge, TypeOK, Row
<1>7. Total(S, Charges') = Total(S, Charges)
    <2>1. \A j \in S : UnitsOf(j, Charges'[j]) = UnitsOf(j, Charges[j])
        BY <1>6
    <2> QED
        BY <2>1 DEF Units, Total
<1>8. PICK a, b : a = Charges /\ b = Charges'
    OBVIOUS
<1>9. /\ \A j \in S : a[j] \in 0..Cap /\ b[j] = a[j]
      /\ b[i] \in 0..Cap
    BY <1>1, <1>3, <1>4, <1>6, <1>8
<1>10. Total(S \cup {i}, b) = Total(S, a) + b[i]
    BY <1>1, <1>5, <1>9, TotalAdd
<1> QED
    BY <1>4, <1>7, <1>8, <1>10

\* It commits its allotment on the day of its request and to its code.
LEMMA AdmitCommits ==
    ASSUME TypeOK, NEW h \in Clients, NEW i \in Ids, Admit(h, i), NEW c, NEW d
    PROVE  /\ Committed(d)' = IF d = request[h].day
                              THEN Committed(d) + Allotment(request[h])
                              ELSE Committed(d)
           /\ CodeCommitted(c, d)' = IF c = request[h].code /\ d = request[h].day
                                      THEN CodeCommitted(c, d) + Allotment(request[h])
                                      ELSE CodeCommitted(c, d)
<1> DEFINE r == request[h]
           S == {j \in Rows : row[j].day = d}
           C == {j \in Rows : row[j].code = c /\ row[j].day = d}
<1>1. /\ row'[i] = Admitted(r) /\ row[i].state = "absent"
      /\ \A j \in Ids \ {i} : row'[j] = row[j]
    BY AdmitWrites
<1>2. /\ row'[i].state = "queued" /\ row'[i].code = r.code /\ row'[i].day = r.day
    BY <1>1 DEF Admitted
<1>3. {j \in Rows' : row'[j].day = d} = IF d = r.day THEN S \cup {i} ELSE S
    BY <1>1, <1>2 DEF Rows
<1>4. {j \in Rows' : row'[j].code = c /\ row'[j].day = d}
        = IF c = r.code /\ d = r.day THEN C \cup {i} ELSE C
    BY <1>1, <1>2 DEF Rows
<1>5. S \in SUBSET Rows /\ C \in SUBSET Rows
    OBVIOUS
<1> HIDE DEF S, C
<1>6. /\ Total(S, Charges') = Total(S, Charges)
      /\ Total(S \cup {i}, Charges') = Total(S, Charges) + Allotment(r)
      /\ Total(C, Charges') = Total(C, Charges)
      /\ Total(C \cup {i}, Charges') = Total(C, Charges) + Allotment(r)
    BY <1>5, AdmitAdds
<1> QED
    BY <1>3, <1>4, <1>6 DEF Committed, CodeCommitted, S, C

THEOREM StepDailyCap == Agreement /\ DailyCap /\ [Next]_vars => DailyCap'
<1> SUFFICES ASSUME Agreement, DailyCap, [Next]_vars, NEW d \in Days
             PROVE  Committed(d)' <= Cap
    BY DEF DailyCap, Days
<1>1. TypeOK /\ Threads
    BY DEF Agreement
<1>3. Committed(d) \in Nat /\ Cap \in Nat
    BY <1>1, CommittedNat, BetaJobsAssumption
<1>4. Committed(d) <= Cap
    BY DEF DailyCap
<1>5. CASE Forward
    BY <1>1, <1>3, <1>4, <1>5, ForwardCommits
<1>6. ASSUME NEW h \in Clients, NEW i \in Ids, Admit(h, i)
      PROVE  Committed(d)' <= Cap
    <2>1. request[h] \in Request /\ ~Refused(request[h])
        BY <1>1, <1>6, AdmitWrites
    <2>2. Committed(request[h].day) + Allotment(request[h]) <= Cap
        BY <1>1, <2>1, AllotmentFits
    <2> QED
        BY <1>1, <1>4, <1>6, <2>2, AdmitCommits
<1> QED
    BY <1>1, <1>5, <1>6, StepKinds

\* The daily cap holds whatever the number of jobs, handlers and days.
THEOREM DailyCapHolds == Spec => []DailyCap
<1>1. Init => DailyCap
    <2> SUFFICES ASSUME Init, NEW d \in Days PROVE Committed(d) <= Cap
        BY DEF DailyCap
    <2>1. Rows = {}
        BY DEF Init, NoRow, Rows
    <2>2. Units({i \in Rows : row[i].day = d}, Charges) = {}
        BY <2>1 DEF Units
    <2> QED
        BY <2>2, FS_EmptySet, BetaJobsAssumption DEF Committed, Total
<1> QED
    BY <1>1, Agreed, StepDailyCap, PTL DEF Spec
-----------------------------------------------------------------------------
(***************************************************************************)
(* What the provider has been asked for                                    *)
(***************************************************************************)
\* The stored request's ceiling is the reservation, and only a run that was
\* marked running has spent anything.
Ceilings ==
    \A i \in Ids : /\ row[i].ceiling = row[i].reserved
                   /\ row[i].state \in {"absent", "queued"} => spent[i] = 0

THEOREM StepSpendCovered ==
    Agreement /\ Ceilings /\ SpendCovered /\ [Next]_vars => Ceilings' /\ SpendCovered'
<1> SUFFICES ASSUME Agreement, Ceilings, SpendCovered, [Next]_vars, NEW i \in Ids
             PROVE  /\ row'[i].ceiling = row'[i].reserved
                    /\ row'[i].state \in {"absent", "queued"} => spent'[i] = 0
                    /\ spent'[i] <= Charge(i)'
    BY DEF Ceilings, SpendCovered
<1>1. TypeOK /\ Threads
    BY DEF Agreement
<1>2. /\ row[i] \in Row /\ spent[i] \in Nat /\ Cap \in Nat
      /\ row[i].ceiling = row[i].reserved
      /\ row[i].state \in {"absent", "queued"} => spent[i] = 0
      /\ spent[i] <= Charge(i)
    BY <1>1, BetaJobsAssumption DEF TypeOK, Ceilings, SpendCovered
<1>3. ASSUME NEW j \in Ids, NEW w \in Weights, Spend(j, w)
      PROVE  /\ row'[i].ceiling = row'[i].reserved
             /\ row'[i].state \in {"absent", "queued"} => spent'[i] = 0
             /\ spent'[i] <= Charge(i)'
    <2>1. row' = row
        BY <1>3 DEF Spend
    <2>2. Charge(i)' = Charge(i)
        BY <2>1 DEF Charge
    <2>3. CASE i = j
        <3>1. row[i].state = "running"
            BY <1>1, <1>3, <2>3 DEF Spend, Threads, Busy
        <3>2. spent'[i] <= row[i].ceiling
            BY <1>1, <1>3, <2>3 DEF Spend, TypeOK
        <3>3. Charge(i) = row[i].reserved
            BY <3>1 DEF Charge, Active
        <3> QED
            BY <1>2, <2>1, <2>2, <3>1, <3>2, <3>3
    <2>4. CASE i # j
        <3>1. spent'[i] = spent[i]
            BY <1>1, <1>3, <2>4 DEF Spend, TypeOK
        <3> QED
            BY <1>2, <2>1, <2>2, <3>1
    <2> QED
        BY <2>3, <2>4
<1>4. ASSUME NEW h \in Clients, NEW j \in Ids, Admit(h, j)
      PROVE  /\ row'[i].ceiling = row'[i].reserved
             /\ row'[i].state \in {"absent", "queued"} => spent'[i] = 0
             /\ spent'[i] <= Charge(i)'
    <2>1. /\ request[h] \in Request /\ ~Refused(request[h])
          /\ row'[j] = Admitted(request[h]) /\ row[j].state = "absent"
          /\ \A k \in Ids \ {j} : row'[k] = row[k]
          /\ spent' = spent
        BY <1>1, <1>4, AdmitWrites
    <2>2. CASE i = j
        <3>1. /\ Allotment(request[h]) \in 1..Cap
              /\ Ceiling(request[h]) = Allotment(request[h])
            BY <1>1, <2>1, AllotmentFits
        <3> QED
            BY <1>2, <2>1, <2>2, <3>1 DEF Admitted, Charge, Active
    <2>3. CASE i # j
        BY <1>2, <2>1, <2>3 DEF Charge
    <2> QED
        BY <2>2, <2>3
<1>5. CASE Forward /\ UNCHANGED spent
    <2>1. row'[i] = row[i] \/ Started(i) \/ Settled(i)
        BY <1>5 DEF Forward
    <2>2. CASE row'[i] = row[i]
        BY <1>2, <1>5, <2>2 DEF Charge
    <2>3. CASE Started(i)
        BY <1>2, <1>5, <2>3 DEF Started, SameJob, Charge, Active
    <2>4. CASE Settled(i)
        <3>1. Charge(i) = row[i].reserved /\ Charge(i)' = row'[i].used
            BY <2>4 DEF Settled, Charge, Active, Terminal
        <3>2. row'[i].used >= spent[i]
            BY <1>2, <2>4, <3>1 DEF Settled, Least, Row
        <3> QED
            BY <1>2, <1>5, <2>4, <3>1, <3>2 DEF Settled, SameJob, Terminal, Row
    <2> QED
        BY <2>1, <2>2, <2>3, <2>4
<1>6. \/ UNCHANGED spent
      \/ \E j \in Ids, w \in Weights : Spend(j, w)
    BY DEF Next, Handler, Worker, Environment, BeginSubmit, Admit, Dismiss, Enqueue,
           MarkRunning, MarkRunningFails, AcquireEngine, EngineEnds, Complete, CompleteFails,
           HandleException, HandlerFails, Shutdown, Exit, Crash, StopProcess, Restart, NewDay,
           ChangeMembership, vars
<1> QED
    BY <1>1, <1>3, <1>4, <1>5, <1>6, StepKinds

\* Credits used at the provider are always covered by the ledger's charge.
THEOREM SpendCoveredHolds == Spec => []SpendCovered
<1>1. Init => Ceilings /\ SpendCovered
    BY DEF Init, NoRow, Ceilings, SpendCovered, Charge, Active
<1> QED
    BY <1>1, Agreed, StepSpendCovered, PTL DEF Spec

\* A settled row never changes.
THEOREM TerminalIsFinalHolds == Spec => TerminalIsFinal
<1>1. ASSUME Agreement, [Next]_vars, NEW i \in Ids, row[i].state \in Terminal
      PROVE  row'[i] = row[i]
    <2>1. TypeOK /\ Threads
        BY <1>1 DEF Agreement
    <2>2. CASE Forward
        BY <1>1, <2>2 DEF Forward, Started, Settled, Active, Terminal
    <2>3. ASSUME NEW h \in Clients, NEW j \in Ids, Admit(h, j)
          PROVE  row'[i] = row[i]
        <3>1. row[j].state = "absent" /\ \A k \in Ids \ {j} : row'[k] = row[k]
            BY <2>1, <2>3, AdmitWrites
        <3> QED
            BY <1>1, <3>1 DEF Terminal
    <2> QED
        BY <1>1, <2>1, <2>2, <2>3, StepKinds
<1>2. Agreement /\ [Next]_vars =>
        [\A i \in Ids : row[i].state \in Terminal => row'[i] = row[i]]_vars
    BY <1>1
<1> QED
    BY <1>2, Agreed, PTL DEF Spec, TerminalIsFinal
-----------------------------------------------------------------------------
(***************************************************************************)
(* What admission promises                                                 *)
(***************************************************************************)
\* Moving rows forward never makes one active.
LEMMA ForwardActive ==
    ASSUME TypeOK, Forward
    PROVE  /\ ActiveRows' \subseteq ActiveRows
           /\ Rows' = Rows
BY ForwardCharges DEF ActiveRows, Rows

\* Resubmitting a job that is active never starts a second run of it.
THEOREM OneActiveHolds == Spec => []OneActivePerFingerprint
<1>1. Init => OneActivePerFingerprint
    BY DEF Init, NoRow, OneActivePerFingerprint, ActiveRows, Active
<1>2. Agreement /\ OneActivePerFingerprint /\ [Next]_vars => OneActivePerFingerprint'
    <2> SUFFICES ASSUME Agreement, OneActivePerFingerprint, [Next]_vars
                 PROVE  OneActivePerFingerprint'
        OBVIOUS
    <2>1. TypeOK /\ Threads
        BY DEF Agreement
    <2>2. CASE Forward
        <3>1. \A i \in ActiveRows' : i \in ActiveRows /\ SameJob(row'[i], row[i])
            BY <2>1, <2>2, ForwardCharges DEF ActiveRows
        <3> QED
            BY <3>1 DEF OneActivePerFingerprint, SameJob
    <2>3. ASSUME NEW h \in Clients, NEW i \in Ids, Admit(h, i)
          PROVE  OneActivePerFingerprint'
        <3>1. /\ row'[i] = Admitted(request[h]) /\ ~Duplicate(request[h])
              /\ \A j \in Ids \ {i} : row'[j] = row[j]
            BY <2>1, <2>3, AdmitWrites
        <3>2. /\ row'[i].code = request[h].code
              /\ row'[i].target = request[h].target
              /\ row'[i].tier = request[h].tier
            BY <3>1 DEF Admitted
        <3>3. \A j \in ActiveRows' \ {i} : j \in ActiveRows /\ row'[j] = row[j]
            BY <3>1 DEF ActiveRows
        <3> QED
            BY <3>1, <3>2, <3>3 DEF OneActivePerFingerprint, Duplicate, SameFingerprint
    <2> QED
        BY <2>1, <2>2, <2>3, StepKinds
<1> QED
    BY <1>1, <1>2, Agreed, PTL DEF Spec

\* Workers and active rows agree, and active rows fit the pool.
THEOREM PoolMatchesLedgerHolds == Spec => []PoolMatchesLedger
<1> DEFINE Slots == Cardinality(ActiveRows) <= MaxConcurrent
<1>1. Init => Slots
    <2> SUFFICES ASSUME Init PROVE Slots
        OBVIOUS
    <2>1. ActiveRows = {}
        BY DEF Init, NoRow, ActiveRows, Active
    <2> QED
        BY <2>1, FS_EmptySet, BetaJobsAssumption
<1>2. Agreement /\ Slots /\ [Next]_vars => Slots'
    <2> SUFFICES ASSUME Agreement, Slots, [Next]_vars
                 PROVE  Cardinality(ActiveRows') <= MaxConcurrent
        BY DEF ActiveRows
    <2>1. TypeOK /\ Threads
        BY DEF Agreement
    <2>2. IsFiniteSet(ActiveRows) /\ Cardinality(ActiveRows) \in Nat /\ MaxConcurrent \in Nat
        BY BetaJobsAssumption, FS_Subset, FS_CardinalityType DEF ActiveRows
    <2>3. CASE Forward
        <3>1. ActiveRows' \subseteq ActiveRows
            BY <2>1, <2>3, ForwardActive
        <3>2. /\ IsFiniteSet(ActiveRows')
              /\ Cardinality(ActiveRows') <= Cardinality(ActiveRows)
            BY <2>2, <3>1, FS_Subset
        <3>3. Cardinality(ActiveRows') \in Nat
            BY <3>2, FS_CardinalityType
        <3> QED
            BY <2>2, <3>2, <3>3
    <2>4. ASSUME NEW h \in Clients, NEW i \in Ids, Admit(h, i)
          PROVE  Cardinality(ActiveRows') <= MaxConcurrent
        <3>1. /\ ~Refused(request[h])
              /\ row[i].state = "absent" /\ row'[i].state = "queued"
              /\ \A j \in Ids \ {i} : row'[j] = row[j]
            BY <2>1, <2>4, AdmitWrites
        <3>2. ActiveRows' = ActiveRows \cup {i} /\ i \notin ActiveRows
            BY <3>1 DEF ActiveRows, Active
        <3>3. Cardinality(ActiveRows') = Cardinality(ActiveRows) + 1
            BY <2>2, <3>2, FS_AddElement
        <3>4. ~(Cardinality(ActiveRows) >= MaxConcurrent)
            BY <3>1 DEF Refused
        <3> QED
            BY <2>2, <3>3, <3>4
    <2> QED
        BY <2>1, <2>3, <2>4, StepKinds
<1>3. Agreement /\ Slots => PoolMatchesLedger
    <2> SUFFICES ASSUME Agreement, Slots PROVE PoolMatchesLedger
        OBVIOUS
    <2>1. Threads
        BY DEF Agreement
    <2> QED
        BY <2>1 DEF Threads, PoolMatchesLedger, Occupied, BusyThreads, ActiveRows, Active, Busy
<1> HIDE DEF Slots
<1> QED
    BY <1>1, <1>2, <1>3, Agreed, PTL DEF Spec

\* A process started with the kill switch set never has anything active.
THEOREM PausedMeansIdleHolds == Spec => []PausedMeansIdle
<1> DEFINE Paused == (phase # "down" /\ ~enabled) =>
                        /\ ActiveRows = {}
                        /\ \A h \in Clients : request[h].stage = "idle"
<1>1. Init => Paused
    BY DEF Init, NoRow, Idle, ActiveRows, Active
<1>2. Agreement /\ Paused /\ [Next]_vars => Paused'
    <2> SUFFICES ASSUME Agreement, Paused, [Next]_vars PROVE Paused'
        OBVIOUS
    <2>1. TypeOK /\ Threads /\ DownIsQuiet
        BY DEF Agreement
    <2>2. CASE Restart
        <3>1. ActiveRows' = {}
            <4> SUFFICES ASSUME NEW i \in Ids PROVE row'[i].state \notin Active
                BY DEF ActiveRows
            <4>1. CASE row[i].state \in Active
                <5>1. row'[i].state = "failed"
                    BY <2>1, <2>2, <4>1, SettledRow, 0 \in Nat DEF Restart, TypeOK
                <5> QED
                    BY <5>1 DEF Active
            <4>2. CASE row[i].state \notin Active
                BY <2>2, <4>2 DEF Restart
            <4> QED
                BY <4>1, <4>2
        <3> QED
            BY <2>1, <2>2, <3>1 DEF Restart, DownIsQuiet
    <2>3. CASE Exit \/ Crash
        BY <2>3 DEF Exit, Crash, StopProcess
    <2>4. ASSUME NEW h \in Clients, NEW i \in Ids, Admit(h, i)
          PROVE  Paused'
        BY <2>4 DEF Admit
    <2>5. ASSUME NEW h \in Clients, NEW c \in Codes, NEW t \in Targets, BeginSubmit(h, c, t)
          PROVE  Paused'
        BY <2>5 DEF BeginSubmit
    <2>6. ASSUME NEW h \in Clients, Dismiss(h) \/ Enqueue(h)
          PROVE  Paused'
        BY <2>6 DEF Dismiss, Enqueue
    <2>7. CASE Forward /\ phase' \in {phase, "draining"} /\ phase # "down"
               /\ UNCHANGED <<enabled, request>>
        BY <2>1, <2>7, ForwardActive
    <2>8. CASE phase = "down" /\ phase' = "down"
        BY <2>8
    <2>9. \/ Restart \/ Exit \/ Crash
          \/ \E h \in Clients : Dismiss(h) \/ Enqueue(h)
          \/ \E h \in Clients, i \in Ids : Admit(h, i)
          \/ \E h \in Clients, c \in Codes, t \in Targets : BeginSubmit(h, c, t)
          \/ phase' \in {phase, "draining"} /\ phase # "down" /\ UNCHANGED <<enabled, request>>
          \/ phase = "down" /\ phase' = "down"
        BY DEF Next, Handler, Worker, Environment, MarkRunning, MarkRunningFails,
               AcquireEngine, Spend, EngineEnds, Complete, CompleteFails, HandleException,
               HandlerFails, Shutdown, NewDay, ChangeMembership, vars
    <2> QED
        BY <2>1, <2>2, <2>3, <2>4, <2>5, <2>6, <2>7, <2>8, <2>9, StepKinds
<1>3. Agreement /\ Paused => PausedMeansIdle
    <2> SUFFICES ASSUME Agreement, Paused PROVE PausedMeansIdle
        OBVIOUS
    <2>1. Threads
        BY DEF Agreement
    <2> QED
        BY <2>1 DEF Threads, PausedMeansIdle, Occupied, ActiveRows, Active, Busy
<1> HIDE DEF Paused
<1> QED
    BY <1>1, <1>2, <1>3, Agreed, PTL DEF Spec

\* A code's free runs of a day.
FreeRuns(c, d) ==
    {i \in Rows : row[i].code = c /\ row[i].day = d /\ row[i].tier = "free"}

\* A code never gets more free runs in a day than the quota.
THEOREM FreeRunQuotaHolds == Spec => []FreeRunQuota
<1>1. Init => FreeRunQuota
    <2> SUFFICES ASSUME Init, RunQuota > 0, NEW c \in Codes, NEW d \in Days
                 PROVE  Cardinality(FreeRuns(c, d)) <= RunQuota
        BY DEF FreeRunQuota, FreeRuns
    <2>1. FreeRuns(c, d) = {}
        BY DEF Init, NoRow, FreeRuns, Rows
    <2>2. RunQuota \in Nat
        BY BetaJobsAssumption
    <2> QED
        BY <2>1, <2>2, FS_EmptySet
<1>2. Agreement /\ FreeRunQuota /\ [Next]_vars => FreeRunQuota'
    <2> SUFFICES ASSUME Agreement, FreeRunQuota, [Next]_vars,
                        RunQuota > 0, NEW c \in Codes, NEW d \in Days
                 PROVE  Cardinality(FreeRuns(c, d)') <= RunQuota
        BY DEF FreeRunQuota, FreeRuns, Days
    <2>1. TypeOK /\ Threads
        BY DEF Agreement
    <2>2. Cardinality(FreeRuns(c, d)) <= RunQuota
        BY DEF FreeRunQuota, FreeRuns
    <2>3. CASE Forward
        <3>1. FreeRuns(c, d)' = FreeRuns(c, d)
            BY <2>1, <2>3, ForwardCharges DEF FreeRuns, Rows, SameJob
        <3> QED
            BY <2>2, <3>1
    <2>4. ASSUME NEW h \in Clients, NEW i \in Ids, Admit(h, i)
          PROVE  Cardinality(FreeRuns(c, d)') <= RunQuota
        <3> DEFINE r == request[h]
                   D == {j \in Rows : row[j].code = c /\ row[j].day = d}
        <3>1. /\ r \in Request /\ ~Refused(r)
              /\ row'[i] = Admitted(r) /\ row[i].state = "absent"
              /\ \A j \in Ids \ {i} : row'[j] = row[j]
            BY <2>1, <2>4, AdmitWrites
        <3>2. /\ i \notin FreeRuns(c, d)
              /\ row'[i].code = r.code /\ row'[i].day = r.day /\ row'[i].tier = r.tier
            BY <3>1 DEF FreeRuns, Rows, Admitted
        <3>3. CASE r.code = c /\ r.day = d /\ r.tier = "free"
            <4>1. /\ IsFiniteSet(D) /\ IsFiniteSet(FreeRuns(c, d))
                  /\ RunQuota \in Nat
                BY BetaJobsAssumption, FS_Subset DEF Rows, FreeRuns
            <4>2. Cardinality(D) = Runs(r.code, r.day)
                BY <3>3 DEF Runs
            <4>3. ~(Runs(r.code, r.day) >= RunQuota)
                BY <3>1, <3>3 DEF Refused, Terms
            <4>4. /\ Cardinality(FreeRuns(c, d)) <= Cardinality(D)
                  /\ Cardinality(D) \in Nat /\ Cardinality(FreeRuns(c, d)) \in Nat
                BY <4>1, FS_Subset, FS_CardinalityType DEF FreeRuns
            <4>5. FreeRuns(c, d)' = FreeRuns(c, d) \cup {i}
                BY <3>1, <3>2, <3>3 DEF FreeRuns, Rows, Admitted
            <4>6. Cardinality(FreeRuns(c, d)') = Cardinality(FreeRuns(c, d)) + 1
                BY <3>2, <4>1, <4>5, FS_AddElement
            <4> QED
                BY <4>1, <4>2, <4>3, <4>4, <4>6
        <3>4. CASE ~(r.code = c /\ r.day = d /\ r.tier = "free")
            <4>1. FreeRuns(c, d)' = FreeRuns(c, d)
                BY <3>1, <3>2, <3>4 DEF FreeRuns, Rows
            <4> QED
                BY <2>2, <4>1
        <3> QED
            BY <3>3, <3>4
    <2> QED
        BY <2>1, <2>3, <2>4, StepKinds
<1> QED
    BY <1>1, <1>2, Agreed, PTL DEF Spec

\* What a member is admitted for fits the daily pool with everything the code
\* already committed that day.
THEOREM PoolCountsEarlierRunsHolds == Spec => PoolCountsEarlierRuns
<1> DEFINE Joins(i, c, d) == /\ row[i].state = "absent"
                             /\ row'[i].state = "queued"
                             /\ row'[i].code = c
                             /\ row'[i].day = d
                             /\ row'[i].tier = "member"
                             /\ MemberDaily > 0
<1>1. ASSUME Agreement, [Next]_vars, NEW i \in Ids, NEW c \in Codes, NEW d \in Days,
             Joins(i, c, d)
      PROVE  CodeCommitted(c, d)' <= MemberDaily
    <2>1. TypeOK /\ Threads
        BY <1>1 DEF Agreement
    <2>2. ~Forward
        BY <1>1, <2>1, ForwardCharges
    <2>3. PICK h \in Clients, j \in Ids : Admit(h, j)
        BY <1>1, <2>1, <2>2, StepKinds
    <2> DEFINE r == request[h]
    <2>4. /\ r \in Request /\ ~Refused(r)
          /\ row'[j] = Admitted(r)
          /\ \A k \in Ids \ {j} : row'[k] = row[k]
        BY <2>1, <2>3, AdmitWrites
    <2>5. i = j
        BY <1>1, <2>4
    <2>6. r.code = c /\ r.day = d /\ r.tier = "member"
        BY <1>1, <2>4, <2>5 DEF Admitted
    <2>7. /\ Terms(r.tier).daily = MemberDaily
          /\ Terms(r.tier).perRun \in Nat
          /\ MemberDaily \in Nat \ {0} /\ Cap \in Nat
        BY <1>1, <2>6, BetaJobsAssumption DEF Terms
    <2>8. /\ CodeCommitted(c, d) \in Nat /\ Committed(d) \in Nat
        BY <2>1, CommittedNat
    <2>9. Allotment(r) <= MemberDaily - CodeCommitted(c, d)
        BY <2>6, <2>7, <2>8 DEF Allotment, Remaining, Least, Most
    <2>10. CodeCommitted(c, d)' = CodeCommitted(c, d) + Allotment(r)
        BY <2>1, <2>3, <2>6, AdmitCommits
    <2>11. Allotment(r) \in Int
        BY <2>1, <2>4, AllotmentFits, BetaJobsAssumption
    <2> QED
        BY <2>7, <2>8, <2>9, <2>10, <2>11
<1>2. Agreement /\ [Next]_vars =>
        [\A i \in Ids, c \in Codes, d \in Days :
            Joins(i, c, d) => CodeCommitted(c, d)' <= MemberDaily]_vars
    BY <1>1
<1> QED
    BY <1>2, Agreed, PTL DEF Spec, PoolCountsEarlierRuns

\* While the process serves, only a storage error leaves an active job without a
\* thread that is going to work on it.
THEOREM StrandedOnlyByFaultHolds == Spec => []StrandedOnlyByFault
<1> DEFINE Attended(i) == \/ i \in Occupied
                          \/ \E h \in Clients : request[h].stage = "admitted" /\ request[h].id = i
           Tended == (phase = "up" /\ faults = 0) => \A i \in ActiveRows : Attended(i)
<1>1. Init => Tended
    BY DEF Init, NoRow, ActiveRows, Active
<1>2. Agreement /\ Tended /\ [Next]_vars => Tended'
    <2> SUFFICES ASSUME Agreement, Tended, [Next]_vars, phase' = "up", faults' = 0,
                        NEW i \in Ids, row'[i].state \in Active
                 PROVE  Attended(i)'
        BY DEF ActiveRows
    <2>1. TypeOK /\ Threads /\ Handlers /\ TypeOK'
        BY StepTypeOK DEF Agreement
    <2>2. ~Restart
        <3> SUFFICES ASSUME Restart PROVE FALSE
            OBVIOUS
        <3>1. CASE row[i].state \in Active
            <4>1. row'[i].state = "failed"
                BY <2>1, <3>1, SettledRow, 0 \in Nat DEF Restart, TypeOK
            <4> QED
                BY <4>1 DEF Active
        <3>2. CASE row[i].state \notin Active
            BY <3>2 DEF Restart
        <3> QED
            BY <3>1, <3>2
    <2>3. /\ phase = "up" /\ faults = 0
          /\ \A j \in Ids : ~MarkRunningFails(j) /\ ~CompleteFails(j) /\ ~HandlerFails(j)
        <3>1. faults \in Nat /\ faults + 1 # 0
            BY <2>1, BetaJobsAssumption DEF TypeOK
        <3>2. \A j \in Ids : ~MarkRunningFails(j) /\ ~CompleteFails(j) /\ ~HandlerFails(j)
            BY <3>1 DEF MarkRunningFails, CompleteFails, HandlerFails, Fault
        <3>3. UNCHANGED <<phase, faults>> \/ Shutdown \/ Exit \/ Crash
            BY <2>2, <3>2 DEF Next, Handler, Worker, Environment, BeginSubmit, Admit, Dismiss,
                Enqueue, MarkRunning, AcquireEngine, Spend, EngineEnds, Complete,
                HandleException, NewDay, ChangeMembership, vars
        <3> QED
            BY <3>2, <3>3 DEF Shutdown, Exit, Crash, StopProcess
    <2>4. row[i].state \in Active => Attended(i)
        BY <2>3 DEF ActiveRows
    <2>5. ASSUME NEW h \in Clients, NEW j \in Ids, Admit(h, j)
          PROVE  Attended(i)'
        <3>1. /\ request'[h].stage = "admitted" /\ request'[h].id = j
              /\ request[h].stage = "timed"
              /\ \A k \in Clients \ {h} : request'[k] = request[k]
              /\ thread' = thread
              /\ \A k \in Ids \ {j} : row'[k] = row[k]
            BY <2>1, <2>5 DEF Admit, TypeOK, Request
        <3> QED
            BY <2>4, <3>1 DEF Occupied
    <2>6. ASSUME NEW h \in Clients, Enqueue(h)
          PROVE  Attended(i)'
        <3>1. /\ row' = row /\ request[h].id \in Ids
              /\ thread' = [thread EXCEPT ![request[h].id] = "queued"]
              /\ \A k \in Clients \ {h} : request'[k] = request[k]
            BY <2>1, <2>3, <2>6 DEF Enqueue, TypeOK, Handlers
        <3> QED
            BY <2>1, <2>4, <3>1 DEF Occupied, TypeOK
    <2>7. ASSUME NEW h \in Clients,
                 Dismiss(h) \/ \E c \in Codes, t \in Targets : BeginSubmit(h, c, t)
          PROVE  Attended(i)'
        <3>1. /\ row' = row /\ thread' = thread
              /\ request[h].stage # "admitted"
              /\ \A k \in Clients \ {h} : request'[k] = request[k]
            BY <2>1, <2>7 DEF BeginSubmit, Dismiss, TypeOK
        <3> QED
            BY <2>4, <3>1 DEF Occupied
    <2>8. ASSUME NEW j \in Ids, Complete(j) \/ HandleException(j)
          PROVE  Attended(i)'
        <3>1. row[j].state \in Active
            BY <2>1, <2>8 DEF Complete, HandleException, Threads, Busy, Active
        <3>2. Completion(j) \/ row' = [row EXCEPT ![j] = Failed(@)]
            BY <2>8 DEF Complete, HandleException
        <3>3. Settled(j) /\ \A k \in Ids \ {j} : row'[k] = row[k]
            BY <2>1, <3>1, <3>2, CompletionCloses
        <3>4. i # j
            BY <3>3 DEF Settled, Active, Terminal
        <3>5. request' = request /\ thread'[i] = thread[i]
            BY <2>1, <2>8, <3>4 DEF Complete, HandleException, TypeOK
        <3> QED
            BY <2>4, <3>3, <3>4, <3>5 DEF Occupied
    <2>9. ASSUME NEW j \in Ids, MarkRunning(j)
          PROVE  Attended(i)'
        <3>1. /\ request' = request /\ thread'[j] = "waiting"
              /\ \A k \in Ids \ {j} : row'[k] = row[k] /\ thread'[k] = thread[k]
            BY <2>1, <2>9 DEF MarkRunning, TypeOK
        <3> QED
            BY <2>4, <3>1 DEF Occupied, Busy
    <2>10. ASSUME NEW j \in Ids, AcquireEngine(j) \/ EngineEnds(j)
           PROVE  Attended(i)'
        <3>1. /\ row' = row /\ request' = request /\ thread'[j] \in Busy
              /\ \A k \in Ids \ {j} : thread'[k] = thread[k]
            BY <2>1, <2>10 DEF AcquireEngine, EngineEnds, TypeOK, Busy
        <3> QED
            BY <2>4, <3>1 DEF Occupied
    <2>11. CASE UNCHANGED <<row, request, thread>>
        BY <2>4, <2>11 DEF Occupied
    <2> QED
        <3>1. \/ \E h \in Clients, j \in Ids : Admit(h, j)
              \/ \E h \in Clients : Enqueue(h) \/ Dismiss(h)
              \/ \E h \in Clients, c \in Codes, t \in Targets : BeginSubmit(h, c, t)
              \/ \E j \in Ids : Complete(j) \/ HandleException(j)
              \/ \E j \in Ids : MarkRunning(j) \/ AcquireEngine(j) \/ EngineEnds(j)
              \/ UNCHANGED <<row, request, thread>>
            BY <2>2, <2>3 DEF Next, Handler, Worker, Environment, Spend, Shutdown, Exit, Crash,
                StopProcess, NewDay, ChangeMembership, vars
        <3> QED
            BY <2>5, <2>6, <2>7, <2>8, <2>9, <2>10, <2>11, <3>1
<1>3. Tended => StrandedOnlyByFault
    BY DEF StrandedOnlyByFault
<1> HIDE DEF Tended
<1> QED
    BY <1>1, <1>2, <1>3, Agreed, PTL DEF Spec
-----------------------------------------------------------------------------
(***************************************************************************)
(* The refinement                                                          *)
(***************************************************************************)
\* The abstract ledger commits what the table commits.
LEMMA SameCommitment ==
    ASSUME NEW d
    PROVE  Ledger!Committed(d) = Committed(d)
<1>1. \A i \in Ids : /\ LedgerEntries[i].phase # "free" <=> i \in Rows
                     /\ LedgerEntries[i].day = row[i].day
                     /\ LedgerEntries[i].amount = Charge(i)
    BY DEF LedgerEntries, LedgerPhase, Rows
<1>2. {i \in Ids : LedgerEntries[i].phase # "free" /\ LedgerEntries[i].day = d}
        = {i \in Rows : row[i].day = d}
    BY <1>1 DEF Rows
<1>3. [i \in Ids |-> LedgerEntries[i].amount] = Charges
    BY <1>1 DEF Charges
<1>4. \A S, a : Ledger!Total(S, a) = Total(S, a)
    <2>1. \A S, a : Ledger!Units(S, a) = Units(S, a)
        BY DEF Ledger!Units, Ledger!UnitsOf, Units, UnitsOf
    <2>2. \A S : Ledger!Cardinality(S) = Cardinality(S)
        BY DEF Ledger!Cardinality, Cardinality
    <2> QED
        BY <2>1, <2>2 DEF Ledger!Total, Total
<1>5. Ledger!Committed(d) = Ledger!Total({i \in Rows : row[i].day = d}, Charges)
    BY <1>2, <1>3 DEF Ledger!Committed
<1> QED
    BY <1>4, <1>5 DEF Committed

LEMMA StepRefines ==
    ASSUME Agreement, [Next]_vars
    PROVE  Ledger!Next
<1> DEFINE E == LedgerEntries
<1>1. TypeOK /\ Threads /\ TypeOK'
    BY StepTypeOK DEF Agreement
<1>2. Cap \in Nat
    BY BetaJobsAssumption
<1>3. CASE Forward
    <2> DEFINE S == {i \in Ids : Settled(i)}
               charge == [i \in S |-> row'[i].used]
    <2>1. \A i \in S : /\ row[i].state \in Active
                       /\ row'[i].state \in Terminal
                       /\ row'[i].used \in 0..row[i].reserved
                       /\ row'[i].used \in 0..Cap
                       /\ row'[i].day = row[i].day
        BY <1>1 DEF Settled, SameJob, TypeOK, Row
    <2>2. S \in SUBSET {i \in Ids : E[i].phase = "held"}
        BY <2>1 DEF LedgerEntries, LedgerPhase, Active
    <2>3. charge \in [S -> 0..Cap]
        BY <2>1
    <2>4. \A i \in S : charge[i] <= E[i].amount
        BY <1>1, <1>2, <2>1 DEF LedgerEntries, Charge, TypeOK, Row
    <2>5. ASSUME NEW i \in Ids
          PROVE  E'[i] = IF i \in S
                         THEN [phase |-> "settled", day |-> E[i].day, amount |-> charge[i]]
                         ELSE E[i]
        <3>1. E'[i] = [phase |-> LedgerPhase(row'[i]), day |-> row'[i].day, amount |-> Charge(i)']
            BY DEF LedgerEntries, LedgerPhase
        <3>2. CASE i \in S
            BY <2>1, <3>1, <3>2 DEF LedgerEntries, LedgerPhase, Charge, Active, Terminal
        <3>3. CASE i \notin S
            <4>1. row'[i] = row[i] \/ Started(i)
                BY <1>3, <3>3 DEF Forward
            <4> QED
                BY <3>1, <3>3, <4>1
                DEF LedgerEntries, LedgerPhase, Charge, Started, SameJob, Active
        <3> QED
            BY <3>2, <3>3
    <2>6. E' = [i \in Ids |-> IF i \in S
                              THEN [phase |-> "settled", day |-> E[i].day, amount |-> charge[i]]
                              ELSE E[i]]
        <3>1. E' = [i \in Ids |-> E'[i]]
            BY DEF LedgerEntries
        <3> QED
            BY <2>5, <3>1
    <2>7. Ledger!Settle(S, charge)
        BY <2>4, <2>6 DEF Ledger!Settle
    <2> QED
        BY <2>2, <2>3, <2>7 DEF Ledger!Next, Ledger!Held
<1>4. ASSUME NEW h \in Clients, NEW i \in Ids, Admit(h, i)
      PROVE  Ledger!Next
    <2> DEFINE r == request[h]
    <2>1. /\ r \in Request /\ ~Refused(r)
          /\ row'[i] = Admitted(r) /\ row[i].state = "absent"
          /\ \A j \in Ids \ {i} : row'[j] = row[j]
        BY <1>1, <1>4, AdmitWrites
    <2>2. /\ Allotment(r) \in 1..Cap
          /\ Committed(r.day) + Allotment(r) <= Cap
        BY <1>1, <2>1, AllotmentFits
    <2>3. r.day \in Days
        BY <2>1 DEF Request
    <2>4. E[i].phase = "free"
        BY <2>1 DEF LedgerEntries, LedgerPhase
    <2>5. Ledger!Committed(r.day) + Allotment(r) <= Cap
        BY <2>2, SameCommitment
    <2>6. E'[i] = [phase |-> "held", day |-> r.day, amount |-> Allotment(r)]
        BY <2>1 DEF LedgerEntries, LedgerPhase, Charge, Admitted, Active
    <2>7. \A j \in Ids \ {i} : E'[j] = E[j]
        BY <2>1 DEF LedgerEntries, LedgerPhase, Charge
    <2>8. E' = [E EXCEPT ![i] = [phase |-> "held", day |-> r.day, amount |-> Allotment(r)]]
        BY <2>6, <2>7 DEF LedgerEntries
    <2>9. Ledger!Hold(i, r.day, Allotment(r))
        BY <2>4, <2>5, <2>8 DEF Ledger!Hold
    <2> QED
        BY <2>2, <2>3, <2>9 DEF Ledger!Next
<1> QED
    BY <1>1, <1>3, <1>4, StepKinds

\* The table and the threads that write it implement the abstract credit ledger.
THEOREM Refinement == Spec => ImplementsLedger
<1>1. Init => Ledger!Init
    BY DEF Init, NoRow, Ledger!Init, Ledger!NoEntry, LedgerEntries, LedgerPhase, Charge, Active
<1>2. Agreement /\ [Next]_vars => [Ledger!Next]_LedgerEntries
    BY StepRefines
<1> QED
    BY <1>1, <1>2, Agreed, PTL DEF Spec, ImplementsLedger, Ledger!Spec

-----------------------------------------------------------------------------
(***************************************************************************)
(* The abstract ledger by itself: holding only what still fits and         *)
(* settling at no more than was held is enough for the daily cap, whatever *)
(* implements it.                                                          *)
(***************************************************************************)
VARIABLE entry

Abstract == INSTANCE CreditLedger

\* Credits of the ledger are counted as those of the table are.
LEMMA AbstractTotal ==
    ASSUME NEW S, NEW a
    PROVE  Abstract!Total(S, a) = Total(S, a)
<1>1. Abstract!Units(S, a) = Units(S, a)
    BY DEF Abstract!Units, Abstract!UnitsOf, Units, UnitsOf
<1>2. \A T : Abstract!Cardinality(T) = Cardinality(T)
    BY DEF Abstract!Cardinality, Cardinality
<1> QED
    BY <1>1, <1>2 DEF Abstract!Total, Total

\* The amounts in the ledger, and the entries of a day that hold any.
Amounts == [i \in Ids |-> entry[i].amount]
Entered(d) == {i \in Ids : entry[i].phase # "free" /\ entry[i].day = d}

LEMMA AbstractCommitted ==
    ASSUME NEW d
    PROVE  /\ Abstract!Committed(d) = Total(Entered(d), Amounts)
           /\ Abstract!Committed(d)' = Total(Entered(d)', Amounts')
<1>1. Abstract!Committed(d) = Abstract!Total(Entered(d), Amounts)
    BY DEF Abstract!Committed, Entered, Amounts
<1>2. Abstract!Committed(d)' = Abstract!Total(Entered(d)', Amounts')
    BY DEF Abstract!Committed, Entered, Amounts
<1> QED
    BY <1>1, <1>2, AbstractTotal

\* A settlement commits no more on any day than the holds it replaces.
LEMMA SettleCommits ==
    ASSUME IsFiniteSet(Ids), Cap \in Nat, Abstract!TypeOK, NEW d,
           NEW S \in SUBSET Abstract!Held, NEW charge \in [S -> 0..Cap], Abstract!Settle(S, charge)
    PROVE  Abstract!Committed(d)' <= Abstract!Committed(d)
<1>1. /\ \A i \in Ids : /\ entry'[i].phase # "free" => entry[i].phase # "free"
                        /\ entry'[i].day = entry[i].day
                        /\ Amounts'[i] \in 0..Amounts[i]
                        /\ Amounts[i] \in 0..Cap
    BY DEF Abstract!Settle, Abstract!Held, Abstract!TypeOK, Abstract!Entry, Amounts
<1>2. Entered(d)' \subseteq Entered(d)
    BY <1>1 DEF Entered
<1>3. IsFiniteSet(Entered(d)) /\ Entered(d) \subseteq Ids
    BY FS_Subset DEF Entered
<1>4. Total(Entered(d)', Amounts') <= Total(Entered(d), Amounts)
    BY <1>1, <1>2, <1>3, TotalMonotone
<1> QED
    BY <1>4, AbstractCommitted

\* A hold adds its amount to its own day.
LEMMA HoldCommits ==
    ASSUME IsFiniteSet(Ids), Cap \in Nat, Abstract!TypeOK, NEW d,
           NEW i \in Ids, NEW e, NEW n \in 1..Cap, Abstract!Hold(i, e, n)
    PROVE  Abstract!Committed(d)' = IF d = e THEN Abstract!Committed(d) + n ELSE Abstract!Committed(d)
<1>1. /\ entry'[i] = [phase |-> "held", day |-> e, amount |-> n]
      /\ \A j \in Ids \ {i} : entry'[j] = entry[j]
      /\ entry[i].phase = "free"
    BY DEF Abstract!Hold, Abstract!TypeOK
<1>2. /\ i \notin Entered(d)
      /\ Entered(d)' = IF d = e THEN Entered(d) \cup {i} ELSE Entered(d)
    BY <1>1 DEF Entered
<1>3. IsFiniteSet(Entered(d))
    BY FS_Subset DEF Entered
<1>4. \A j \in Entered(d) : Amounts[j] \in 0..Cap /\ Amounts'[j] = Amounts[j]
    BY <1>1, <1>2 DEF Entered, Amounts, Abstract!TypeOK, Abstract!Entry
<1>5. Amounts'[i] = n
    BY <1>1 DEF Amounts
<1>6. Total(Entered(d), Amounts') = Total(Entered(d), Amounts)
    <2>1. \A j \in Entered(d) : UnitsOf(j, Amounts'[j]) = UnitsOf(j, Amounts[j])
        BY <1>4
    <2> QED
        BY <2>1 DEF Units, Total
<1>7. Total(Entered(d) \cup {i}, Amounts') = Total(Entered(d), Amounts) + n
    <2>1. PICK S, a, b : S = Entered(d) /\ a = Amounts /\ b = Amounts'
        OBVIOUS
    <2>2. IsFiniteSet(S) /\ i \notin S
        BY <1>2, <1>3, <2>1
    <2>3. \A j \in S : a[j] \in 0..Cap /\ b[j] = a[j]
        BY <1>4, <2>1
    <2>4. b[i] = n /\ n \in 0..Cap
        BY <1>5, <2>1
    <2>5. Total(S \cup {i}, b) = Total(S, a) + b[i]
        <3>1. PICK M \in Nat, x \in Ids : M = Cap /\ x = i
            OBVIOUS
        <3>2. IsFiniteSet(S) /\ x \notin S /\ b[x] \in 0..M
            BY <2>2, <2>4, <3>1
        <3>3. \A j \in S : a[j] \in 0..M /\ b[j] = a[j]
            BY <2>3, <3>1
        <3>4. Total(S \cup {x}, b) = Total(S, a) + b[x]
            BY <3>2, <3>3, TotalAdd
        <3> QED
            BY <3>1, <3>4
    <2> QED
        BY <2>1, <2>4, <2>5
<1> QED
    BY <1>2, <1>6, <1>7, AbstractCommitted

\* No behaviour of the ledger commits more than the cap on any day.
THEOREM LedgerWithinCap ==
    ASSUME IsFiniteSet(Ids), Cap \in Nat, 0 \in Days
    PROVE  Abstract!Spec => []Abstract!WithinCap
<1>1. Abstract!Init => Abstract!TypeOK /\ Abstract!WithinCap
    <2> SUFFICES ASSUME Abstract!Init PROVE Abstract!TypeOK /\ Abstract!WithinCap
        OBVIOUS
    <2>1. Abstract!TypeOK
        BY DEF Abstract!Init, Abstract!NoEntry, Abstract!TypeOK, Abstract!Entry
    <2>2. ASSUME NEW d \in Days PROVE Abstract!Committed(d) <= Cap
        <3>1. Entered(d) = {}
            BY DEF Abstract!Init, Abstract!NoEntry, Entered
        <3>2. Abstract!Committed(d) = Cardinality({})
            BY <3>1, AbstractCommitted DEF Total, Units
        <3> QED
            BY <3>2, FS_EmptySet
    <2> QED
        BY <2>1, <2>2 DEF Abstract!WithinCap
<1>2. Abstract!TypeOK /\ Abstract!WithinCap /\ [Abstract!Next]_entry => Abstract!TypeOK' /\ Abstract!WithinCap'
    <2> SUFFICES ASSUME Abstract!TypeOK, Abstract!WithinCap, [Abstract!Next]_entry PROVE Abstract!TypeOK' /\ Abstract!WithinCap'
        OBVIOUS
    <2>1. ASSUME NEW i \in Ids, NEW e \in Days, NEW n \in 1..Cap, Abstract!Hold(i, e, n)
          PROVE  Abstract!TypeOK' /\ Abstract!WithinCap'
        <3>1. Abstract!TypeOK'
            BY <2>1 DEF Abstract!Hold, Abstract!TypeOK, Abstract!Entry
        <3>2. ASSUME NEW d \in Days PROVE Abstract!Committed(d)' <= Cap
            <4>1. Abstract!Committed(d) <= Cap /\ Abstract!Committed(e) + n <= Cap
                BY <2>1 DEF Abstract!WithinCap, Abstract!Hold
            <4> QED
                BY <2>1, <4>1, HoldCommits
        <3> QED
            BY <3>1, <3>2 DEF Abstract!WithinCap
    <2>2. ASSUME NEW S \in SUBSET Abstract!Held, NEW charge \in [S -> 0..Cap], Abstract!Settle(S, charge)
          PROVE  Abstract!TypeOK' /\ Abstract!WithinCap'
        <3>1. Abstract!TypeOK'
            BY <2>2 DEF Abstract!Settle, Abstract!Held, Abstract!TypeOK, Abstract!Entry
        <3>2. ASSUME NEW d \in Days PROVE Abstract!Committed(d)' <= Cap
            <4>1. /\ Abstract!Committed(d)' <= Abstract!Committed(d) /\ Abstract!Committed(d) <= Cap
                BY <2>2, SettleCommits DEF Abstract!WithinCap
            <4>2. Abstract!Committed(d) \in Nat /\ Abstract!Committed(d)' \in Nat
                <5>1. /\ \A i \in Ids : Amounts[i] \in 0..Cap /\ Amounts'[i] \in 0..Cap
                      /\ IsFiniteSet(Entered(d)) /\ IsFiniteSet(Entered(d)')
                    BY <3>1, FS_Subset DEF Abstract!TypeOK, Abstract!Entry, Amounts, Entered
                <5>2. Entered(d) \subseteq Ids /\ Entered(d)' \subseteq Ids
                    BY DEF Entered
                <5>3. Total(Entered(d), Amounts) \in Nat /\ Total(Entered(d)', Amounts') \in Nat
                    BY <5>1, <5>2, TotalNat
                <5> QED
                    BY <5>3, AbstractCommitted
            <4> QED
                BY <4>1, <4>2
        <3> QED
            BY <3>1, <3>2 DEF Abstract!WithinCap
    <2>3. CASE UNCHANGED entry
        BY <2>3 DEF Abstract!TypeOK, Abstract!WithinCap, Abstract!Committed
    <2> QED
        BY <2>1, <2>2, <2>3 DEF Abstract!Next
<1> QED
    BY <1>1, <1>2, PTL DEF Abstract!Spec
=============================================================================
