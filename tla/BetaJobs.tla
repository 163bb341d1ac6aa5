------------------------------ MODULE BetaJobs ------------------------------
(***************************************************************************)
(* The hosted beta's investigations: the admission transaction of          *)
(* SQLiteBetaStore, the handler threads that call it, the thread pool of   *)
(* BetaJobManager that runs admitted jobs through the process-wide engine  *)
(* lock, the credits the engine spends, and the process itself, which may  *)
(* be shut down, killed and started again at any moment.                   *)
(*                                                                         *)
(* A row of beta_investigations survives the process; threads and handler  *)
(* requests do not.  Each SQLite transaction is one action.  What happens  *)
(* between two transactions of one thread is interleaved with everything   *)
(* else.                                                                   *)
(***************************************************************************)
EXTENDS CreditUnits

CONSTANTS
    Ids,            \* investigation identifiers (uuid4, never reused)
    Codes,          \* invite codes and visitor identities
    Targets,        \* what is investigated: mode, mint and wallet
    Clients,        \* handler threads able to submit at the same time
    None,           \* no code, no target, no identifier
    Cap,            \* JEET_BETA_GLOBAL_DAILY_CREDIT_CAP
    MaxConcurrent,  \* JEET_BETA_MAX_CONCURRENT
    PerRun,         \* free ceiling of one run
    RunQuota,       \* free runs per code and day, 0 for no limit
    MemberPerRun,   \* ceiling of one run bought with a membership
    MemberRuns,     \* member runs per day, 0 for no limit
    MemberDaily,    \* member daily pool, 0 for a membership without one
    Weights,        \* estimated credits of one provider request
    MaxDay,         \* bound: last UTC day explored
    MaxFaults       \* bound: storage errors explored

ASSUME BetaJobsAssumption ==
    /\ IsFiniteSet(Ids)
    /\ None \notin Ids \cup Codes \cup Targets
    /\ Cap \in Nat
    /\ MaxConcurrent \in Nat \ {0}
    /\ PerRun \in 1..Cap
    /\ MemberPerRun \in Nat \ {0}
    /\ {RunQuota, MemberRuns, MemberDaily} \subseteq Nat
    /\ Weights \subseteq Nat \ {0}
    /\ {MaxDay, MaxFaults} \subseteq Nat

VARIABLES
    phase,    \* of the process: "up", "draining" after shutdown(), or "down"
    enabled,  \* JEET_BETA_ENABLED of the running process
    today,    \* the UTC day
    member,   \* member[c]: c has an unexpired SOL membership
    row,      \* the table beta_investigations
    request,  \* request[h]: what handler thread h is in the middle of
    thread,   \* thread[i]: where the pool is with job i
    spent,    \* spent[i]: estimated credits run i has used at the provider
    billed,   \* billed[d]: estimated credits used at the provider on day d
    faults    \* storage errors so far

vars == <<phase, enabled, today, member, row, request, thread, spent, billed, faults>>

Days == 0..MaxDay

Tiers == {"free", "member"}
-----------------------------------------------------------------------------
(***************************************************************************)
(* The table                                                               *)
(***************************************************************************)
States == {"absent", "queued", "running", "complete", "failed"}
Active == {"queued", "running"}
Terminal == {"complete", "failed"}

Row == [state : States, code : Codes \cup {None}, target : Targets \cup {None},
        tier : Tiers, day : Days, reserved : 0..Cap, ceiling : Nat, used : 0..Cap]

NoRow == [state |-> "absent", code |-> None, target |-> None, tier |-> "free",
          day |-> 0, reserved |-> 0, ceiling |-> 0, used |-> 0]

Rows == {i \in Ids : row[i].state # "absent"}
ActiveRows == {i \in Ids : row[i].state \in Active}

\* CASE WHEN state IN ('queued','running') THEN reserved ELSE used END
Charge(i) == IF row[i].state \in Active THEN row[i].reserved ELSE row[i].used
Charges == [i \in Ids |-> Charge(i)]

\* The committed credits of a day, of everyone and of one code.
Committed(d) == Total({i \in Rows : row[i].day = d}, Charges)
CodeCommitted(c, d) == Total({i \in Rows : row[i].code = c /\ row[i].day = d}, Charges)

Runs(c, d) == Cardinality({i \in Rows : row[i].code = c /\ row[i].day = d})
-----------------------------------------------------------------------------
(***************************************************************************)
(* The limits of a submission.  effective_config replaces the free limits  *)
(* by the purchased ones, which also changes the request fingerprint.      *)
(***************************************************************************)
Tier(c) == IF member[c] THEN "member" ELSE "free"

Terms(tier) ==
    IF tier = "member"
    THEN [perRun |-> MemberPerRun, runs |-> MemberRuns, daily |-> MemberDaily]
    ELSE [perRun |-> PerRun, runs |-> RunQuota, daily |-> 0]

\* Purchased terms above the service cap are answered 503.
Honoured(tier) == Terms(tier).perRun <= Cap

Idle == [stage |-> "idle", code |-> None, target |-> None, tier |-> "free",
         day |-> 0, id |-> None]

Request == [stage : {"idle", "timed", "admitted"}, code : Codes \cup {None},
            target : Targets \cup {None}, tier : Tiers, day : Days,
            id : Ids \cup {None}]

SameFingerprint(i, r) ==
    row[i].code = r.code /\ row[i].target = r.target /\ row[i].tier = r.tier

\* Mutant: a duplicate is looked for among the queued jobs only.
DuplicateQueuedOnly(r) ==
    \E i \in ActiveRows : row[i].state = "queued" /\ SameFingerprint(i, r)

Duplicate(r) == \E i \in ActiveRows : SameFingerprint(i, r)

Least(m, n) == IF m <= n THEN m ELSE n
Most(m, n) == IF m <= n THEN n ELSE m

\* Mutant: the pool is charged with the runs bought from it only.
RemainingMemberOnly(r) ==
    Terms(r.tier).daily
        - Total({i \in Rows : /\ row[i].code = r.code
                              /\ row[i].day = r.day
                              /\ row[i].tier = "member"}, Charges)

Remaining(r) == Terms(r.tier).daily - CodeCommitted(r.code, r.day)

\* The reservation a submission would get.
Allotment(r) ==
    IF Terms(r.tier).daily = 0
    THEN Terms(r.tier).perRun
    ELSE Least(Terms(r.tier).perRun,
               Least(Remaining(r), Most(0, Cap - Committed(r.day))))

\* Mutants: no look at the daily cap, and a quota one too large.
RefusedUncapped(r) ==
    \/ Cardinality(ActiveRows) >= MaxConcurrent
    \/ Terms(r.tier).runs > 0 /\ Runs(r.code, r.day) >= Terms(r.tier).runs
    \/ Terms(r.tier).daily > 0 /\ Remaining(r) <= 0
    \/ Allotment(r) <= 0

RefusedLate(r) ==
    \/ Cardinality(ActiveRows) >= MaxConcurrent
    \/ Terms(r.tier).runs > 0 /\ Runs(r.code, r.day) > Terms(r.tier).runs
    \/ Terms(r.tier).daily > 0 /\ Remaining(r) <= 0
    \/ Allotment(r) <= 0
    \/ Committed(r.day) + Allotment(r) > Cap

Refused(r) ==
    \/ Cardinality(ActiveRows) >= MaxConcurrent
    \/ Terms(r.tier).runs > 0 /\ Runs(r.code, r.day) >= Terms(r.tier).runs
    \/ Terms(r.tier).daily > 0 /\ Remaining(r) <= 0
    \/ Allotment(r) <= 0
    \/ Committed(r.day) + Allotment(r) > Cap

\* The request document stored with the row: its credit ceiling is rewritten
\* to the allotment when the membership has a daily pool.
Ceiling(r) == IF Terms(r.tier).daily = 0 THEN Terms(r.tier).perRun ELSE Allotment(r)

Admitted(r) ==
    [state |-> "queued", code |-> r.code, target |-> r.target, tier |-> r.tier,
     day |-> r.day, reserved |-> Allotment(r), ceiling |-> Ceiling(r), used |-> 0]
-----------------------------------------------------------------------------
(***************************************************************************)
(* Settling a row                                                          *)
(***************************************************************************)
\* Row w written with its final state and charge.
Settle(w, state, n) == [w EXCEPT !.state = state, !.used = n]

\* complete() with the engine's estimate n in the result.
Completed(w, n) == Settle(w, "complete", Most(0, Least(n, w.reserved)))

\* complete() with no usable estimate in the result.
CompletedUnmetered(w) == Settle(w, "complete", w.reserved)

Failed(w) == Settle(w, "failed", w.reserved)

\* Mutant: an interrupted job is never charged.
InterruptedFree(w) == Settle(w, "failed", 0)

\* recover_interrupted(): a job that never left the queue is not charged.
Interrupted(w) == Settle(w, "failed", IF w.state = "running" THEN w.reserved ELSE 0)
-----------------------------------------------------------------------------
(***************************************************************************)
(* The pool.  "none": no future for this job in this process.  "queued":   *)
(* its future waits for a worker.  "waiting": marked running, waiting for  *)
(* the engine lock.  "engine": inside engine_main.  "report": the engine   *)
(* returned.  "handler": in the except block.  "gone": the worker          *)
(* finished with the job.                                                  *)
(***************************************************************************)
ThreadStates == {"none", "queued", "waiting", "engine", "report", "handler", "gone"}
Busy == {"waiting", "engine", "report", "handler"}

BusyThreads == {i \in Ids : thread[i] \in Busy}
Occupied == {i \in Ids : thread[i] \in Busy \cup {"queued"}}

Init ==
    /\ phase = "up"
    /\ enabled \in BOOLEAN
    /\ today = 0
    /\ member = [c \in Codes |-> FALSE]
    /\ row = [i \in Ids |-> NoRow]
    /\ request = [h \in Clients |-> Idle]
    /\ thread = [i \in Ids |-> "none"]
    /\ spent = [i \in Ids |-> 0]
    /\ billed = [d \in Days |-> 0]
    /\ faults = 0
-----------------------------------------------------------------------------
(***************************************************************************)
(* Handler threads: submit and submit_scan                                 *)
(***************************************************************************)
\* Mutant: the kill switch is not consulted.
BeginSubmitPaused(h, c, t) ==
    /\ phase = "up"
    /\ request[h].stage = "idle"
    /\ Honoured(Tier(c))
    /\ request' = [request EXCEPT ![h] = [stage |-> "timed", code |-> c, target |-> t,
                                          tier |-> Tier(c), day |-> today, id |-> None]]
    /\ UNCHANGED <<phase, enabled, today, member, row, thread, spent, billed, faults>>

\* The membership and the UTC day are read before the store is locked.
BeginSubmit(h, c, t) ==
    /\ phase = "up"
    /\ enabled
    /\ request[h].stage = "idle"
    /\ Honoured(Tier(c))
    /\ request' = [request EXCEPT ![h] = [stage |-> "timed", code |-> c, target |-> t,
                                          tier |-> Tier(c), day |-> today, id |-> None]]
    /\ UNCHANGED <<phase, enabled, today, member, row, thread, spent, billed, faults>>

\* create_or_get inserts a queued row.
Admit(h, i) ==
    LET r == request[h] IN
    /\ phase # "down"
    /\ r.stage = "timed"
    /\ row[i].state = "absent"
    /\ ~Duplicate(r)
    /\ ~Refused(r)
    /\ row' = [row EXCEPT ![i] = Admitted(r)]
    /\ request' = [request EXCEPT ![h] = [@ EXCEPT !.stage = "admitted", !.id = i]]
    /\ UNCHANGED <<phase, enabled, today, member, thread, spent, billed, faults>>

\* create_or_get returns the duplicate or raises BetaLimitError.
Dismiss(h) ==
    LET r == request[h] IN
    /\ phase # "down"
    /\ r.stage = "timed"
    /\ Duplicate(r) \/ Refused(r)
    /\ request' = [request EXCEPT ![h] = Idle]
    /\ UNCHANGED <<phase, enabled, today, member, row, thread, spent, billed, faults>>

\* executor.submit raises once the pool is shut down: the row stays queued.
Enqueue(h) ==
    LET i == request[h].id IN
    /\ phase # "down"
    /\ request[h].stage = "admitted"
    /\ thread' = IF phase = "up" THEN [thread EXCEPT ![i] = "queued"] ELSE thread
    /\ request' = [request EXCEPT ![h] = Idle]
    /\ UNCHANGED <<phase, enabled, today, member, row, spent, billed, faults>>
-----------------------------------------------------------------------------
(***************************************************************************)
(* Worker threads: _execute                                                *)
(***************************************************************************)
Fault == faults < MaxFaults /\ faults' = faults + 1

\* Mutant: mark_running writes the name of the stage into the state column.
MarkRunningStage(i) ==
    /\ thread[i] = "queued"
    /\ Cardinality(BusyThreads) < MaxConcurrent
    /\ thread' = [thread EXCEPT ![i] = "waiting"]
    /\ row' = [row EXCEPT ![i].state = "COLLECTING_HISTORY"]
    /\ UNCHANGED <<phase, enabled, today, member, request, spent, billed, faults>>

\* storage.get and mark_running.
MarkRunning(i) ==
    /\ thread[i] = "queued"
    /\ Cardinality(BusyThreads) < MaxConcurrent
    /\ thread' = [thread EXCEPT ![i] = "waiting"]
    /\ row' = [row EXCEPT ![i].state = "running"]
    /\ UNCHANGED <<phase, enabled, today, member, request, spent, billed, faults>>

\* Both calls are outside the try block: an error ends the job's only worker.
MarkRunningFails(i) ==
    /\ thread[i] = "queued"
    /\ Cardinality(BusyThreads) < MaxConcurrent
    /\ Fault
    /\ thread' = [thread EXCEPT ![i] = "gone"]
    /\ UNCHANGED <<phase, enabled, today, member, row, request, spent, billed>>

\* InProcessCliEngineAdapter runs one engine at a time.
AcquireEngine(i) ==
    /\ thread[i] = "waiting"
    /\ \A j \in Ids : thread[j] # "engine"
    /\ thread' = [thread EXCEPT ![i] = "engine"]
    /\ UNCHANGED <<phase, enabled, today, member, row, request, spent, billed, faults>>

\* One provider request of weight w under the ceiling of the stored request.
Spend(i, w) ==
    /\ thread[i] = "engine"
    /\ spent[i] + w <= row[i].ceiling
    /\ spent' = [spent EXCEPT ![i] = @ + w]
    /\ billed' = [billed EXCEPT ![today] = @ + w]
    /\ UNCHANGED <<phase, enabled, today, member, row, request, thread, faults>>

\* The engine returns, or raises, or the BUILDING_REPORT stage cannot be written.
EngineEnds(i) ==
    /\ thread[i] = "engine"
    /\ \E next \in {"report", "handler"} : thread' = [thread EXCEPT ![i] = next]
    /\ UNCHANGED <<phase, enabled, today, member, row, request, spent, billed, faults>>

\* The telemetry of a result is what the engine counted, or is missing or malformed.
Completion(i) ==
    \E w \in {Completed(row[i], spent[i]), CompletedUnmetered(row[i])} :
        row' = [row EXCEPT ![i] = w]

Complete(i) ==
    /\ thread[i] = "report"
    /\ Completion(i)
    /\ thread' = [thread EXCEPT ![i] = "gone"]
    /\ UNCHANGED <<phase, enabled, today, member, request, spent, billed, faults>>

CompleteFails(i) ==
    /\ thread[i] = "report"
    /\ Fault
    /\ thread' = [thread EXCEPT ![i] = "handler"]
    /\ UNCHANGED <<phase, enabled, today, member, row, request, spent, billed>>

\* Mutants: no return after the recovered receipt, and an engine error that is
\* swallowed.
HandleExceptionTwice(i) ==
    /\ thread[i] = "handler"
    /\ \/ Completion(i) /\ UNCHANGED thread
       \/ row' = [row EXCEPT ![i] = Failed(@)] /\ thread' = [thread EXCEPT ![i] = "gone"]
    /\ UNCHANGED <<phase, enabled, today, member, request, spent, billed, faults>>

HandleExceptionSwallowed(i) ==
    /\ thread[i] = "handler"
    /\ Completion(i) \/ UNCHANGED row
    /\ thread' = [thread EXCEPT ![i] = "gone"]
    /\ UNCHANGED <<phase, enabled, today, member, request, spent, billed, faults>>

\* The except block: a usable receipt on disk completes the job, otherwise it fails.
HandleException(i) ==
    /\ thread[i] = "handler"
    /\ \/ Completion(i)
       \/ row' = [row EXCEPT ![i] = Failed(@)]
    /\ thread' = [thread EXCEPT ![i] = "gone"]
    /\ UNCHANGED <<phase, enabled, today, member, request, spent, billed, faults>>

\* A storage error inside the except block leaves the row running.
HandlerFails(i) ==
    /\ thread[i] = "handler"
    /\ Fault
    /\ thread' = [thread EXCEPT ![i] = "gone"]
    /\ UNCHANGED <<phase, enabled, today, member, row, request, spent, billed>>
-----------------------------------------------------------------------------
(***************************************************************************)
(* The process, the calendar and memberships                               *)
(***************************************************************************)
\* executor.shutdown(wait=False, cancel_futures=True): running jobs go on.
Shutdown ==
    /\ phase = "up"
    /\ phase' = "draining"
    /\ thread' = [i \in Ids |-> IF thread[i] = "queued" THEN "none" ELSE thread[i]]
    /\ UNCHANGED <<enabled, today, member, row, request, spent, billed, faults>>

\* Threads and requests die with the process; the table does not.
StopProcess ==
    /\ phase' = "down"
    /\ request' = [h \in Clients |-> Idle]
    /\ thread' = [i \in Ids |-> "none"]
    /\ UNCHANGED <<enabled, today, member, row, spent, billed, faults>>

Exit == phase = "draining" /\ BusyThreads = {} /\ StopProcess

Crash == phase # "down" /\ StopProcess

\* Mutants: the UPDATE without its WHERE, and with running rows only.
RestartEveryRow ==
    /\ phase = "down"
    /\ phase' = "up"
    /\ enabled' \in BOOLEAN
    /\ row' = [i \in Ids |-> IF i \in Rows THEN Interrupted(row[i]) ELSE row[i]]
    /\ UNCHANGED <<today, member, request, thread, spent, billed, faults>>

RestartRunningOnly ==
    /\ phase = "down"
    /\ phase' = "up"
    /\ enabled' \in BOOLEAN
    /\ row' = [i \in Ids |-> IF row[i].state = "running" THEN Interrupted(row[i]) ELSE row[i]]
    /\ UNCHANGED <<today, member, request, thread, spent, billed, faults>>

\* create_app: recover_interrupted runs before anything is admitted.
Restart ==
    /\ phase = "down"
    /\ phase' = "up"
    /\ enabled' \in BOOLEAN
    /\ row' = [i \in Ids |-> IF row[i].state \in Active THEN Interrupted(row[i]) ELSE row[i]]
    /\ UNCHANGED <<today, member, request, thread, spent, billed, faults>>

NewDay ==
    /\ today < MaxDay
    /\ today' = today + 1
    /\ UNCHANGED <<phase, enabled, member, row, request, thread, spent, billed, faults>>

\* A membership is bought or runs out (SolPayments).
ChangeMembership(c) ==
    /\ member' = [member EXCEPT ![c] = ~@]
    /\ UNCHANGED <<phase, enabled, today, row, request, thread, spent, billed, faults>>
-----------------------------------------------------------------------------
Handler(h) ==
    \/ \E c \in Codes, t \in Targets : BeginSubmit(h, c, t)
    \/ \E i \in Ids : Admit(h, i)
    \/ Dismiss(h)
    \/ Enqueue(h)

Worker(i) ==
    \/ MarkRunning(i)
    \/ MarkRunningFails(i)
    \/ AcquireEngine(i)
    \/ \E w \in Weights : Spend(i, w)
    \/ EngineEnds(i)
    \/ Complete(i)
    \/ CompleteFails(i)
    \/ HandleException(i)
    \/ HandlerFails(i)

Environment ==
    \/ Shutdown
    \/ Exit
    \/ Crash
    \/ Restart
    \/ NewDay
    \/ \E c \in Codes : ChangeMembership(c)

Next ==
    \/ \E h \in Clients : Handler(h)
    \/ \E i \in Ids : Worker(i)
    \/ Environment

Spec == Init /\ [][Next]_vars

(***************************************************************************)
(* Handlers and workers are threads the operating system schedules; every  *)
(* engine run ends because its request, page and credit budgets are finite *)
(* and each request times out; the container is restarted unless stopped   *)
(* (docker-compose.beta.yml) and shutdown ends once its threads have.      *)
(* Nothing obliges a client to submit, a day to pass or the process to die.*)
(***************************************************************************)
Fairness ==
    /\ \A h \in Clients : WF_vars(Dismiss(h) \/ Enqueue(h) \/ \E i \in Ids : Admit(h, i))
    /\ \A i \in Ids : /\ WF_vars(MarkRunning(i))
                      /\ WF_vars(AcquireEngine(i))
                      /\ WF_vars(EngineEnds(i))
                      /\ WF_vars(Complete(i) \/ HandleException(i))
    /\ WF_vars(Exit)
    /\ WF_vars(Restart)

FairSpec == Spec /\ Fairness
-----------------------------------------------------------------------------
(***************************************************************************)
(* Properties                                                              *)
(***************************************************************************)
\* Every variable holds a value of its kind.
TypeOK ==
    /\ phase \in {"up", "draining", "down"}
    /\ enabled \in BOOLEAN
    /\ today \in Days
    /\ member \in [Codes -> BOOLEAN]
    /\ row \in [Ids -> Row]
    /\ request \in [Clients -> Request]
    /\ thread \in [Ids -> ThreadStates]
    /\ spent \in [Ids -> Nat]
    /\ billed \in [Days -> Nat]
    /\ faults \in 0..MaxFaults

\* Full reservations of active jobs and charges of settled ones, over all the
\* jobs created on one UTC day, never exceed the service-wide daily cap,
\* whatever handlers, workers, restarts and membership changes interleave.
DailyCap == \A d \in Days : Committed(d) <= Cap

\* What a run has already cost at the provider is always covered by what the
\* ledger charges for it: neither a crash, a failure, a recovered receipt nor a
\* restart ever releases credits that were really used.
SpendCovered == \A i \in Ids : spent[i] <= Charge(i)

\* A worker holds a job exactly as long as the job's row is active, so no engine
\* run outlives its reservation, and admission never lets more jobs in than the
\* pool has workers: an admitted job never waits behind another in the pool.
PoolMatchesLedger ==
    /\ Occupied \subseteq ActiveRows
    /\ \A i \in BusyThreads : row[i].state = "running"
    /\ Cardinality(ActiveRows) <= MaxConcurrent

\* Resubmitting what is already queued or running never starts a second run.
OneActivePerFingerprint ==
    \A i, j \in ActiveRows :
        (/\ row[i].code = row[j].code
         /\ row[i].target = row[j].target
         /\ row[i].tier = row[j].tier) => i = j

\* A code never gets more free runs in a day than the quota, however its
\* membership comes and goes during the day.
FreeRunQuota ==
    RunQuota > 0 =>
        \A c \in Codes, d \in Days :
            Cardinality({i \in Rows : row[i].code = c /\ row[i].day = d
                                      /\ row[i].tier = "free"}) <= RunQuota

\* A restart with the kill switch set leaves nothing active and no run behind.
PausedMeansIdle ==
    (phase # "down" /\ ~enabled) => ActiveRows = {} /\ Occupied = {}

\* While the process serves, an active job that no thread is going to work on
\* (it holds its slot and its credits until a restart) is due to a storage error.
StrandedOnlyByFault ==
    (phase = "up" /\ faults = 0) =>
        \A i \in ActiveRows : \/ i \in Occupied
                              \/ \E h \in Clients : request[h].id = i

\* Once complete or failed, a row never changes: no late worker, exception
\* handler or restart settles a job a second time or rewrites its charge.
TerminalIsFinal ==
    [][\A i \in Ids : row[i].state \in Terminal => row'[i] = row[i]]_vars

\* A run admitted from a member's daily pool fits the pool together with all the
\* code's commitments of that day, the free runs before the upgrade included.
PoolCountsEarlierRuns ==
    [][\A i \in Ids, c \in Codes, d \in Days :
          (/\ row[i].state = "absent"
           /\ row'[i].state = "queued"
           /\ row'[i].code = c
           /\ row'[i].day = d
           /\ row'[i].tier = "member"
           /\ MemberDaily > 0) => CodeCommitted(c, d)' <= MemberDaily]_vars

\* The credit ledger this table implements: an active row is a hold of its
\* reservation, a settled row a charge of what was used.
LedgerPhase(w) == IF w.state = "absent" THEN "free"
                  ELSE IF w.state \in Active THEN "held" ELSE "settled"

LedgerEntries ==
    [i \in Ids |-> [phase |-> LedgerPhase(row[i]), day |-> row[i].day, amount |-> Charge(i)]]

Ledger == INSTANCE CreditLedger WITH entry <- LedgerEntries

\* Every behaviour of the jobs is a behaviour of the abstract credit ledger.
ImplementsLedger == Ledger!Spec

\* Every admitted job is eventually complete or failed, whatever kills and shutdowns
\* come between, unless a storage error happens.
EveryJobSettles ==
    \A i \in Ids : row[i].state \in Active ~> (row[i].state \in Terminal \/ faults > 0)

\* What BETA_OPERATIONS.md says of the daily cap: an active run cannot carry the
\* credits used at the provider during one day across it.
BilledWithinCap == \A d \in Days : billed[d] <= Cap
=============================================================================
