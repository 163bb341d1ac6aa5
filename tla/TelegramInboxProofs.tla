------------------------ MODULE TelegramInboxProofs ------------------------
(***************************************************************************)
(* Theorems about TelegramInbox, for every number of updates and whatever  *)
(* the limits: what each interruption may lose, and what it may not.       *)
(***************************************************************************)
EXTENDS TelegramInbox, DataFacts

Stages == {"handle", "ask", "recheck", "reply", "record", "finish"}
Shows == {"notice", "controls", "result"}
EditStatuses == {"none", "open", "timeout", "complete"}

WorkerType == [at : {"down", "idle"} \cup Stages, update : Updates \cup {0}, shows : Shows]
EditorType == [at : {"down", "idle", "hide", "jobs", "edit"}, todo : SUBSET Updates, status : EditStatuses]
PollerType == [at : {"down", "idle", "asked", "batch"}, offset : Nat, batch : Seq(Updates)]
WatchType == [state : {"none", "active", "done", "revoked", "delivery_failed"},
              last : EditStatuses \cup {"revoked"}, job : Updates \cup {0}]

TypeOK ==
    /\ kind \in [Updates -> {"investigate", "pay"}]
    /\ sent \in Nat /\ 1..sent \subseteq Updates /\ acked \subseteq Updates
    /\ poller \in PollerType /\ refused \subseteq Updates
    /\ inbox \in [Updates -> {"none", "queued", "processing", "done", "delivery_unknown"}]
    /\ worker \in WorkerType /\ editor \in EditorType
    /\ job \in [Updates -> {"none", "open", "complete"}]
    /\ watch \in [Updates -> WatchType]
    /\ rows \subseteq Updates /\ controls \subseteq Updates
    /\ {stopped, payable, linked, pairing} \subseteq BOOLEAN
    /\ begun \in [Updates -> Nat]
    /\ leaked \in [edits : Nat, replies : Nat]

\* What a task holds while it is between two awaits.
Engaged ==
    /\ worker.at \in Stages => worker.update \in Updates /\ inbox[worker.update] = "processing"
    /\ worker.shows = "result" => worker.at \in {"reply", "record", "finish"} /\ \E u \in Updates : job[u] # "none"
    /\ worker.at \in {"down", "idle", "handle", "ask"} => worker.shows = "notice"
    /\ editor.at \in {"hide", "jobs", "edit"} => editor.todo # {}

Kept(u) == inbox[u] # "none" \/ u \in refused

\* An update that waits was never begun; what is confirmed, or will be when the
\* batch moves on, is kept, and the batch is a run of consecutive updates.
Confirmed ==
    /\ \A u \in Updates : begun[u] <= IF inbox[u] \in {"none", "queued"} THEN 0 ELSE 1
    /\ \A u \in Updates : u \in acked \/ u < poller.offset => Kept(u)
    /\ \A i \in DOMAIN poller.batch : poller.batch[i] = poller.batch[1] + i - 1
    /\ poller.batch # <<>> => \A u \in Updates : u < poller.batch[1] => Kept(u)

Leaving ==
    ~linked =>
        /\ leaked.edits + (IF editor.at = "edit" THEN 1 ELSE 0) <= 1
        /\ leaked.replies + (IF worker.at = "reply" /\ worker.shows = "result" THEN 1 ELSE 0) <= 1

Untouched(u) == u \notin controls /\ job[u] = "none"
Tracked(u) == (u \in controls => u \in rows) /\ (job[u] # "none" => watch[u] # NoWatch)

\* How much of an update is on record at each stage of its handling.
Tracking ==
    /\ \A u \in Updates : inbox[u] \in {"none", "queued"} => Untouched(u)
    /\ \A u \in Updates : inbox[u] = "done" => Tracked(u)
    /\ worker.at \in {"handle", "ask", "recheck"} => Untouched(worker.update)
    /\ worker.at = "reply" =>
           /\ worker.update \notin controls
           /\ job[worker.update] # "none" => worker.shows = "result"
    /\ worker.at = "record" =>
           /\ worker.update \in controls => worker.shows = "controls"
           /\ job[worker.update] # "none" => worker.shows = "result"
    /\ worker.at = "finish" => Tracked(worker.update)
-----------------------------------------------------------------------------
(***************************************************************************)
(* Choices the model makes                                                 *)
(***************************************************************************)
\* Updates are numbered from one.
LEMMA UpdatesCounted ==
    /\ Cardinality(Updates) \in Nat
    /\ Updates \in SUBSET Nat /\ Updates \in SUBSET (0..Cardinality(Updates))
    /\ 0 \notin Updates
BY FS_CardinalityType, TelegramInboxAssumption

\* The round takes one of the updates it holds.
LEMMA MinTaken ==
    ASSUME NEW S \in SUBSET Updates, S # {}
    PROVE  Min(S) \in S
<1>1. \E n \in S : \A m \in S : n <= m
    BY UpdatesCounted, HasLeast
<1> QED
    BY <1>1 DEF Min

\* A job that is watched is one there is.
LEMMA NewestTaken ==
    ASSUME TypeOK, NEW w \in Updates, job[w] # "none"
    PROVE  Newest \in Updates /\ job[Newest] # "none"
<1> DEFINE T == {u \in Updates : job[u] # "none"}
<1>1. T # {} /\ T \in SUBSET (0..Cardinality(Updates))
    BY UpdatesCounted
<1>2. PICK v \in T : \A u \in T : u <= v
    <2> HIDE DEF T
    <2> QED
        BY <1>1, UpdatesCounted, HasGreatest
<1>3. v \in Updates /\ job[v] # "none" /\ \A u \in Updates : job[u] # "none" => u <= v
    BY <1>2
<1> QED
    BY <1>3 DEF Newest
-----------------------------------------------------------------------------
(***************************************************************************)
(* Types                                                                   *)
(***************************************************************************)
\* Every table and task starts with a value of its type.
LEMMA InitType == Init => TypeOK
<1> SUFFICES ASSUME Init
             PROVE  TypeOK
    OBVIOUS
<1>1. kind \in [Updates -> {"investigate", "pay"}]
    BY TelegramInboxAssumption DEF Init
<1>2. poller \in PollerType
    BY DEF Init, PollerType, NotAsked
<1>3. worker \in WorkerType
    BY DEF Init, WorkerType, Waiting, Down, Shows
<1>4. editor \in EditorType
    BY DEF Init, EditorType, Resting, Nobody, EditStatuses
<1>5. watch \in [Updates -> WatchType]
    BY DEF Init, WatchType, NoWatch, EditStatuses
<1>6. sent \in Nat /\ 1..sent \subseteq Updates
    BY DEF Init
<1>7. leaked \in [edits : Nat, replies : Nat]
    BY DEF Init, Quiet
<1>8. {stopped, payable, linked, pairing} \subseteq BOOLEAN
    BY DEF Init
<1> QED
    BY <1>1, <1>2, <1>3, <1>4, <1>5, <1>6, <1>7, <1>8 DEF Init, TypeOK

\* The records the tasks keep between two awaits.
LEMMA AfterType ==
    ASSUME TypeOK, NEW b \in Seq(Updates), NEW n \in Nat
    PROVE  After(b) \in PollerType /\ [After(b) EXCEPT !.offset = n] \in PollerType
BY DEF TypeOK, After, PollerType

\* A round takes updates.
LEMMA RoundType ==
    ASSUME NEW at \in {"hide", "jobs"}, NEW todo \in SUBSET Updates
    PROVE  Round(at, todo) \in EditorType
BY DEF Round, Resting, Nobody, EditorType, EditStatuses

\* The worker goes from stage to stage.
LEMMA WorkingType ==
    ASSUME TypeOK, NEW at \in Stages, NEW shows \in Shows, Working(at, shows)
    PROVE  worker' \in WorkerType
BY DEF TypeOK, Working, WorkerType

\* An update is put in the inbox once; whatever the answer but that the inbox is
\* full, it is kept.
LEMMA Received ==
    ASSUME TypeOK, NEW u \in Updates, NEW answer \in Answers(u), Receive(u, answer)
    PROVE  /\ \A v \in Updates : inbox'[v] = inbox[v] \/ (inbox[v] = "none" /\ inbox'[v] = "queued")
           /\ refused \subseteq refused'
           /\ answer # "full" => Kept(u)'
           /\ begun' = begun /\ worker' = worker
<1>1. answer = "queued" => inbox[u] = "none"
    BY DEF Answers
<1>2. answer = "duplicate" => inbox[u] # "none"
    BY DEF Answers
<1>3. answer \in {"paused", "duplicate", "rate_limited", "full", "queued"}
    BY DEF Answers
<1>4. \A v \in Updates : inbox'[v] = inbox[v] \/ (inbox[v] = "none" /\ inbox'[v] = "queued")
    <2>1. inbox' = IF answer = "queued" THEN [inbox EXCEPT ![u] = "queued"] ELSE inbox
        BY DEF Receive
    <2>2. DOMAIN inbox = Updates
        BY DEF TypeOK
    <2> QED
        BY <1>1, <2>1, <2>2
<1>5. answer # "full" => Kept(u)'
    BY <1>1, <1>2, <1>3 DEF Receive, TypeOK, Kept
<1> QED
    BY <1>4, <1>5 DEF Receive

\* No task holds anything at the start.
LEMMA InitEngaged == Init => Engaged
BY DEF Init, Engaged, Waiting, Down, Resting, Nobody, Stages

\* Every step keeps the types.
LEMMA StepType == TypeOK /\ Engaged /\ [Next]_vars => TypeOK'
<1> SUFFICES ASSUME TypeOK, Engaged, [Next]_vars
             PROVE  TypeOK'
    OBVIOUS
<1>1. CASE Send
    BY <1>1, UpdatesCounted, TelegramInboxAssumption DEF TypeOK, Send, account, messages
<1>2. CASE AskUpdates
    BY <1>2 DEF TypeOK, AskUpdates, PollerType, account, messages
<1>3. CASE AnswerUpdates
    <2>1. \E b \in Seq(Updates) : poller' = After(b)
        <3>1. <<>> \in Seq(Updates)
            OBVIOUS
        <3>2. ASSUME NEW first \in 1..sent + 1
              PROVE  [i \in 1..sent + 1 - first |-> first + i - 1] \in Seq(Updates)
            <4>1. \A i \in 1..sent + 1 - first : first + i - 1 \in 1..sent
                BY DEF TypeOK
            <4>2. sent + 1 - first \in Nat
                BY DEF TypeOK
            <4> QED
                BY <4>1, <4>2 DEF TypeOK
        <3> QED
            BY <1>3, <3>1, <3>2 DEF AnswerUpdates
    <2>2. poller' \in PollerType
        BY <2>1, AfterType
    <2> QED
        BY <1>3, <2>2 DEF TypeOK, AnswerUpdates, account, messages
<1>4. CASE ReceiveNext
    <2>1. Head(poller.batch) \in Updates /\ Tail(poller.batch) \in Seq(Updates)
        BY <1>4 DEF TypeOK, PollerType, ReceiveNext
    <2>2. Head(poller.batch) + 1 \in Nat
        <3> DEFINE h == Head(poller.batch)
        <3>1. h \in Updates
            BY <2>1
        <3> HIDE DEF h
        <3>2. h \in Nat
            BY <3>1, UpdatesCounted
        <3>3. h + 1 \in Nat
            BY <3>2
        <3> QED
            BY <3>3 DEF h
    <2>3. poller' \in PollerType
        <3>1. <<>> \in Seq(Updates)
            OBVIOUS
        <3>2. After(<<>>) \in PollerType
            BY <3>1, <2>2, AfterType
        <3>3. [After(Tail(poller.batch)) EXCEPT !.offset = Head(poller.batch) + 1] \in PollerType
            BY <2>1, <2>2, AfterType
        <3> QED
            BY <1>4, <3>2, <3>3 DEF ReceiveNext
    <2> QED
        BY <1>4, <2>1, <2>3 DEF TypeOK, ReceiveNext, Receive, account, messages
<1>5. CASE ReceiveError
    <2>1. <<>> \in Seq(Updates)
        OBVIOUS
    <2>2. poller' \in PollerType
        BY <1>5, <2>1, AfterType DEF ReceiveError
    <2> QED
        BY <1>5, <2>2 DEF TypeOK, ReceiveError, account, messages
<1>6. CASE Take
    <2>1. worker' \in WorkerType
        BY <1>6 DEF Take, WorkerType, Waiting, Down, Stages, Shows
    <2> QED
        BY <1>6, <2>1 DEF TypeOK, Take, transport, account, messages
<1>7. CASE Handle
    BY <1>7 DEF TypeOK, Handle, WorkerType, Handling, Working, Stages, Shows, transport,
        account, messages
<1>8. CASE Investigate
    BY <1>8 DEF TypeOK, Investigate, WorkerType, Handling, Working, Stages, Shows, transport,
        account, messages
<1>9. CASE AskPayments
    BY <1>9 DEF TypeOK, AskPayments, WorkerType, Working, Stages, Shows, transport, messages
<1>10. CASE Recheck
    BY <1>10 DEF TypeOK, Recheck, WorkerType, Handling, Working, Stages, Shows, transport,
        account, messages
<1>11. CASE Reply
    <2>1. worker.shows \in Shows /\ worker.update \in Updates
        BY <1>11 DEF Reply, Handling, TypeOK, WorkerType, Engaged, Stages
    <2>2. worker' \in WorkerType
        BY <1>11, <2>1, WorkingType DEF Reply, Stages
    <2>3. controls' \subseteq Updates /\ leaked' \in [edits : Nat, replies : Nat]
        BY <1>11, <2>1 DEF Reply, Shown, Leaks, TypeOK
    <2> QED
        BY <1>11, <2>2, <2>3 DEF TypeOK, Reply, transport, account
<1>12. CASE Record
    BY <1>12, NewestTaken DEF TypeOK, Record, Engaged, WorkerType, WatchType, EditStatuses,
        Handling, Working, Stages, Shows, transport, account
<1>13. CASE Finish
    BY <1>13 DEF TypeOK, Finish, WorkerType, Handling, Waiting, Down, Shows, transport, account,
        messages
<1>14. CASE FailUpdate
    BY <1>14 DEF TypeOK, FailUpdate, Engaged, WorkerType, Waiting, Down, Stages, Shows, Shown,
        Leaks, Change, transport, account
<1>15. CASE WorkerDies
    BY <1>15 DEF TypeOK, WorkerDies, Engaged, WorkerType, Down, Stages, Shows, Shown, Leaks,
        Change, account
<1>16. CASE StartRound
    <2>1. Watches \in SUBSET Updates
        BY DEF Watches
    <2>2. editor' \in EditorType
        BY <1>16, <2>1, RoundType DEF StartRound, TypeOK
    <2> QED
        BY <1>16, <2>2 DEF TypeOK, StartRound, transport, account, messages
<1>17. CASE Hide
    BY <1>17 DEF TypeOK, Hide, EditorType, Editing, NextHide, Watches, Round, Resting, Nobody,
        EditStatuses, transport, account
<1>18. CASE CheckWatch
    <2> DEFINE u == Min(editor.todo)
    <2>1. u \in Updates
        BY <1>18, MinTaken DEF CheckWatch, Editing, Engaged, TypeOK, EditorType
    <2>2. ASSUME StartEdit(u)
          PROVE  editor' \in EditorType
        <3>1. Statuses(u) \subseteq EditStatuses
            BY DEF Statuses, EditStatuses
        <3>2. ASSUME NEW status \in Statuses(u), editor' = [editor EXCEPT !.at = "edit", !.status = status]
              PROVE  editor' \in EditorType
            BY <3>1, <3>2 DEF TypeOK, EditorType
        <3>3. ASSUME NextWatch(u)
              PROVE  editor' \in EditorType
            <4>1. editor.todo \ {u} \in SUBSET Updates
                BY DEF TypeOK, EditorType
            <4> QED
                BY <4>1, <3>3, RoundType DEF NextWatch
        <3> QED
            BY <2>2, <3>2, <3>3 DEF StartEdit
    <2>3. ASSUME NextWatch(u)
          PROVE  editor' \in EditorType
        <3>1. editor.todo \ {u} \in SUBSET Updates
            BY DEF TypeOK, EditorType
        <3> QED
            BY <3>1, <2>3, RoundType DEF NextWatch
    <2>4. ASSUME watch' = [watch EXCEPT ![u].state = "revoked", ![u].last = "revoked"]
          PROVE  watch' \in [Updates -> WatchType]
        <3>1. [watch[u] EXCEPT !.state = "revoked", !.last = "revoked"] \in WatchType
            <4>1. watch[u] \in WatchType
                BY <2>1 DEF TypeOK
            <4> QED
                BY <4>1 DEF WatchType
        <3> QED
            BY <2>4, <3>1 DEF TypeOK
    <2> QED
        BY <1>18, <2>2, <2>3, <2>4 DEF TypeOK, CheckWatch, transport, account, messages
<1>19. CASE EndEdit
    <2> DEFINE u == Min(editor.todo)
    <2>1. u \in Updates /\ editor.status \in EditStatuses
        BY <1>19, MinTaken DEF EndEdit, Editing, Engaged, TypeOK, EditorType
    <2>2. editor' \in EditorType
        <3>1. editor.todo \ {u} \in SUBSET Updates
            BY DEF TypeOK, EditorType
        <3> QED
            BY <1>19, <3>1, RoundType DEF EndEdit, NextWatch
    <2>3. PICK shown \in BOOLEAN, state \in {"delivery_failed", "active", "done"} :
              /\ watch' = [watch EXCEPT ![u].last = editor.status, ![u].state = state]
              /\ leaked' = [leaked EXCEPT !.edits = @ + Leaks(shown)]
        BY <1>19 DEF EndEdit
    <2>4. watch' \in [Updates -> WatchType]
        <3>1. [watch[u] EXCEPT !.last = editor.status, !.state = state] \in WatchType
            <4>1. watch[u] \in WatchType
                BY <2>1 DEF TypeOK
            <4> QED
                BY <4>1, <2>1, <2>3 DEF WatchType
        <3> QED
            BY <2>3, <3>1 DEF TypeOK
    <2>5. leaked' \in [edits : Nat, replies : Nat]
        BY <2>3 DEF TypeOK, Leaks
    <2> QED
        BY <1>19, <2>2, <2>4, <2>5 DEF TypeOK, EndEdit, transport, account
<1>20. CASE EditorDies
    BY <1>20 DEF TypeOK, EditorDies, EditorType, EditStatuses, Nobody, Change, account, messages
<1>21. CASE ToggleStop
    BY <1>21 DEF TypeOK, ToggleStop, Change, transport, messages
<1>22. CASE TogglePayments
    BY <1>22 DEF TypeOK, TogglePayments, Change, transport, messages
<1>23. CASE Unlink
    BY <1>23 DEF TypeOK, Unlink, WatchType, NoWatch, EditStatuses, Quiet, Change, transport
<1>24. CASE ConfirmPair
    BY <1>24 DEF TypeOK, ConfirmPair, transport, messages
<1>25. CASE Crash
    <2>1. worker' \in WorkerType /\ editor' \in EditorType /\ poller' \in PollerType
        <3>1. worker' = Down /\ Down \in WorkerType
            BY <1>25 DEF Crash, WorkerType, Down, Shows
        <3>2. editor' = Nobody /\ Nobody \in EditorType
            BY <1>25 DEF Crash, EditorType, Nobody, EditStatuses
        <3>3. NotAsked \in PollerType
            BY DEF PollerType, NotAsked
        <3>4. [NotAsked EXCEPT !.at = "down"] \in PollerType
            BY <3>3 DEF PollerType
        <3> QED
            BY <1>25, <3>1, <3>2, <3>4 DEF Crash
    <2>2. controls' \subseteq Updates
        BY <1>25 DEF Crash, TypeOK, Engaged, Stages
    <2>3. leaked' \in [edits : Nat, replies : Nat]
        BY <1>25 DEF Crash, TypeOK, Leaks
    <2> QED
        BY <1>25, <2>1, <2>2, <2>3 DEF TypeOK, Crash, account
<1>26. CASE Start
    <2>1. worker' \in WorkerType /\ editor' \in EditorType /\ poller' \in PollerType
        BY <1>26 DEF Start, WorkerType, EditorType, PollerType, Waiting, Down, Resting, Nobody,
            NotAsked, Shows, EditStatuses
    <2> QED
        BY <1>26, <2>1 DEF TypeOK, Start, account, messages
<1>27. ASSUME NEW u \in Updates, Post(u)
      PROVE  TypeOK'
    BY <1>27 DEF TypeOK, Post, Receive, account, messages
<1>28. ASSUME NEW u \in Updates, Advance(u)
      PROVE  TypeOK'
    BY <1>28 DEF TypeOK, Advance, transport, account, messages
<1>29. CASE UNCHANGED vars
    BY <1>29 DEF TypeOK, vars, transport, account, messages
<1> QED
    BY <1>1, <1>2, <1>3, <1>4, <1>5, <1>6, <1>7, <1>8, <1>9, <1>10, <1>11, <1>12, <1>13, <1>14,
        <1>15, <1>16, <1>17, <1>18, <1>19, <1>20, <1>21, <1>22, <1>23, <1>24, <1>25, <1>26, <1>27,
        <1>28, <1>29 DEF Next, Work, Edit

\* The update a task handles stays in processing until it finishes, fails or dies.
LEMMA StepEngaged == TypeOK /\ Engaged /\ [Next]_vars => Engaged'
<1> SUFFICES ASSUME TypeOK, Engaged, [Next]_vars
             PROVE  Engaged'
    OBVIOUS
<1>1. CASE Send
    BY <1>1 DEF Engaged, Stages, Send, account, messages
<1>2. CASE AskUpdates
    BY <1>2 DEF Engaged, Stages, AskUpdates, account, messages
<1>3. CASE AnswerUpdates
    BY <1>3 DEF Engaged, Stages, AnswerUpdates, account, messages
<1>4. CASE ReceiveNext
    <2> DEFINE u == Head(poller.batch)
    <2>1. u \in Updates
        BY <1>4 DEF TypeOK, PollerType, ReceiveNext
    <2>2. PICK answer \in Answers(u) : Receive(u, answer)
        BY <1>4 DEF ReceiveNext
    <2> HIDE DEF u
    <2>3. \A v \in Updates : inbox'[v] = inbox[v] \/ (inbox[v] = "none" /\ inbox'[v] = "queued")
        BY <2>1, <2>2, Received
    <2> QED
        BY <1>4, <2>3 DEF Engaged, Stages, TypeOK, ReceiveNext, Receive, account, messages
<1>5. CASE ReceiveError
    BY <1>5 DEF Engaged, Stages, ReceiveError, account, messages
<1>6. CASE Take
    BY <1>6 DEF Engaged, Stages, Take, TypeOK, Handling, Waiting, Down, transport, account, messages
<1>7. CASE Handle
    BY <1>7 DEF Engaged, Stages, Handle, TypeOK, WorkerType, Handling, Working, transport,
        account, messages
<1>8. CASE Investigate
    BY <1>8 DEF Engaged, Stages, Investigate, TypeOK, WorkerType, Handling, Working, transport,
        account, messages
<1>9. CASE AskPayments
    <2>1. worker'.at \in {"reply", "recheck"} /\ worker'.update = worker.update /\ worker'.shows # "result"
        BY <1>9 DEF AskPayments, Working, TypeOK, WorkerType
    <2> QED
        BY <1>9, <2>1 DEF Engaged, Stages, AskPayments, transport, messages
<1>10. CASE Recheck
    BY <1>10 DEF Engaged, Stages, Recheck, TypeOK, WorkerType, Handling, Working, transport,
        account, messages
<1>11. CASE Reply
    BY <1>11 DEF Engaged, Stages, Reply, TypeOK, WorkerType, Handling, Working, transport, account
<1>12. CASE Record
    BY <1>12 DEF Engaged, Stages, Record, TypeOK, WorkerType, Handling, Working, transport, account
<1>13. CASE Finish
    BY <1>13 DEF Engaged, Stages, Finish, TypeOK, WorkerType, Waiting, Down, transport, account,
        messages
<1>14. CASE FailUpdate
    BY <1>14 DEF Engaged, Stages, FailUpdate, TypeOK, WorkerType, Waiting, Down, transport, account
<1>15. CASE WorkerDies
    BY <1>15 DEF Engaged, Stages, WorkerDies, Down, account
<1>16. CASE StartRound
    BY <1>16 DEF Engaged, Stages, StartRound, Editing, Round, Resting, Nobody, transport,
        account, messages
<1>17. CASE Hide
    BY <1>17 DEF Engaged, Stages, Hide, Editing, NextHide, Round, Resting, Nobody, transport,
        account
<1>18. CASE CheckWatch
    BY <1>18 DEF Engaged, Stages, CheckWatch, TypeOK, EditorType, Editing, NextWatch, StartEdit,
        Round, Resting, Nobody, transport, account, messages
<1>19. CASE EndEdit
    BY <1>19 DEF Engaged, Stages, EndEdit, Editing, NextWatch, Round, Resting, Nobody,
        transport, account
<1>20. CASE EditorDies
    BY <1>20 DEF Engaged, Stages, EditorDies, Nobody, account, messages
<1>21. CASE ToggleStop
    BY <1>21 DEF Engaged, Stages, ToggleStop, transport, messages
<1>22. CASE TogglePayments
    BY <1>22 DEF Engaged, Stages, TogglePayments, transport, messages
<1>23. CASE Unlink
    BY <1>23 DEF Engaged, Stages, Unlink, transport
<1>24. CASE ConfirmPair
    BY <1>24 DEF Engaged, Stages, ConfirmPair, transport, messages
<1>25. CASE Crash
    BY <1>25 DEF Engaged, Stages, Crash, Down, Nobody, account
<1>26. CASE Start
    BY <1>26 DEF Engaged, Stages, Start, Waiting, Down, Resting, Nobody, account, messages
<1>27. ASSUME NEW u \in Updates, Post(u)
      PROVE  Engaged'
    <2>1. PICK answer \in Answers(u) \ {"full"} : Receive(u, answer)
        BY <1>27 DEF Post
    <2>2. /\ \A v \in Updates : inbox'[v] = inbox[v] \/ (inbox[v] = "none" /\ inbox'[v] = "queued")
          /\ refused \subseteq refused' /\ begun' = begun /\ Kept(u)'
        BY <2>1, Received
    <2> QED
        BY <1>27, <2>2 DEF Engaged, Stages, Post, TypeOK, Receive, account, messages
<1>28. ASSUME NEW u \in Updates, Advance(u)
      PROVE  Engaged'
    BY <1>28 DEF Engaged, Stages, Advance, TypeOK, transport, account, messages
<1>29. CASE UNCHANGED vars
    BY <1>29 DEF Engaged, Stages, vars, transport, account, messages
<1> QED
    BY <1>1, <1>2, <1>3, <1>4, <1>5, <1>6, <1>7, <1>8, <1>9, <1>10, <1>11, <1>12, <1>13, <1>14,
        <1>15, <1>16, <1>17, <1>18, <1>19, <1>20, <1>21, <1>22, <1>23, <1>24, <1>25, <1>26, <1>27,
        <1>28, <1>29 DEF Next, Work, Edit

-----------------------------------------------------------------------------
(***************************************************************************)
(* Each update once                                                        *)
(***************************************************************************)
\* No step begins an update twice, or confirms one that is not kept.
LEMMA StepConfirmed == TypeOK /\ Engaged /\ Confirmed /\ [Next]_vars => Confirmed'
<1> SUFFICES ASSUME TypeOK, Engaged, Confirmed, [Next]_vars
             PROVE  Confirmed'
    OBVIOUS
<1>1. CASE Send
    BY <1>1 DEF Confirmed, Kept, Send, transport, account, messages
<1>2. CASE AskUpdates
    <2>1. poller'.offset = poller.offset /\ poller'.batch = poller.batch
        BY <1>2 DEF AskUpdates, TypeOK, PollerType
    <2> QED
        BY <1>2, <2>1 DEF Confirmed, AskUpdates, Kept
<1>3. CASE AnswerUpdates
    <2>1. poller'.offset = poller.offset /\ \E b : poller' = After(b) /\ poller'.batch = b
        BY <1>3 DEF AnswerUpdates, After, TypeOK, PollerType
    <2>2. UNCHANGED <<acked, inbox, refused, begun>>
        BY <1>3 DEF AnswerUpdates
    <2>3. CASE poller'.batch = <<>>
        BY <2>1, <2>2, <2>3 DEF Confirmed, Kept
    <2>4. ASSUME poller'.batch # <<>>,
                 NEW first \in 1..sent + 1, first..sent = 1..sent \ acked,
                 poller'.batch = [i \in 1..sent + 1 - first |-> first + i - 1]
          PROVE  Confirmed'
        <3> DEFINE b == poller'.batch
        <3>1. 1 \in DOMAIN b /\ b[1] = first
            BY <2>4 DEF TypeOK
        <3>2. \A i \in DOMAIN b : b[i] = b[1] + i - 1
            BY <2>4, <3>1 DEF TypeOK
        <3>3. ASSUME NEW u \in Updates, u < b[1]
              PROVE  Kept(u)
            <4>1. u \in 1..sent /\ u \notin first..sent
                BY <3>1, <3>3, <2>4, UpdatesCounted DEF TypeOK
            <4> QED
                BY <4>1, <2>4 DEF Confirmed
        <3> QED
            BY <2>1, <2>2, <3>2, <3>3 DEF Confirmed, Kept
    <2> QED
        BY <1>3, <2>1, <2>3, <2>4 DEF AnswerUpdates, After, TypeOK, PollerType
<1>4. CASE ReceiveNext
    <2> DEFINE b == poller.batch
    <2>1. PICK u \in Updates : b \in Seq(Updates) /\ b # <<>> /\ u = b[1] /\ u = Head(b)
        BY <1>4 DEF ReceiveNext, TypeOK, PollerType
    <2>2. PICK answer \in Answers(u) :
              /\ Receive(u, answer)
              /\ poller' = IF answer = "full" THEN After(<<>>) ELSE [After(Tail(b)) EXCEPT !.offset = u + 1]
        BY <1>4, <2>1 DEF ReceiveNext
    <2>3. /\ \A v \in Updates : inbox'[v] = inbox[v] \/ (inbox[v] = "none" /\ inbox'[v] = "queued")
          /\ refused \subseteq refused' /\ begun' = begun /\ (answer # "full" => Kept(u)')
        BY <2>1, <2>2, Received
    <2>4. acked' = acked /\ \A v \in Updates : Kept(v) => Kept(v)'
        BY <1>4, <2>3 DEF ReceiveNext, Kept
    <2>5. \A v \in Updates : begun'[v] <= IF inbox'[v] \in {"none", "queued"} THEN 0 ELSE 1
        BY <2>3 DEF Confirmed, TypeOK
    <2>6. CASE answer = "full"
        <3>1. poller'.batch = <<>> /\ poller'.offset = poller.offset
            BY <2>2, <2>6 DEF After, TypeOK, PollerType
        <3> QED
            BY <3>1, <2>4, <2>5 DEF Confirmed
    <2>7. CASE answer # "full"
        <3>1. poller'.batch = Tail(b) /\ poller'.offset = u + 1
            BY <2>2, <2>7 DEF After, TypeOK, PollerType
        <3>2. \A v \in Updates : v < u + 1 => Kept(v)'
            <4> SUFFICES ASSUME NEW v \in Updates, v < u + 1
                         PROVE  Kept(v)'
                OBVIOUS
            <4>1. v \in Nat /\ u \in Nat
                BY UpdatesCounted
            <4>2. CASE v = u
                BY <4>2, <2>3, <2>7
            <4>3. CASE v < u
                BY <4>3, <2>1, <2>4 DEF Confirmed
            <4> QED
                BY <4>1, <4>2, <4>3
        <3>3. \A i \in DOMAIN Tail(b) : Tail(b)[i] = u + i
            <4> SUFFICES ASSUME NEW i \in DOMAIN Tail(b)
                         PROVE  Tail(b)[i] = u + i
                OBVIOUS
            <4>1. i \in Nat /\ i + 1 \in DOMAIN b /\ Tail(b)[i] = b[i + 1]
                BY <2>1
            <4>2. b[i + 1] = b[1] + (i + 1) - 1
                BY <4>1 DEF Confirmed
            <4>3. b[1] \in Nat
                BY <2>1, UpdatesCounted
            <4> QED
                BY <2>1, <4>1, <4>2, <4>3
        <3>4. Tail(b) # <<>> => 1 \in DOMAIN Tail(b)
            BY <2>1
        <3>5. u \in Nat
            BY <2>1, UpdatesCounted
        <3>6. \A i \in DOMAIN Tail(b) : i \in Nat /\ 1 \in DOMAIN Tail(b)
            BY <2>1
        <3>7. \A i \in DOMAIN Tail(b) : Tail(b)[i] = Tail(b)[1] + i - 1
            <4> SUFFICES ASSUME NEW i \in DOMAIN Tail(b)
                         PROVE  Tail(b)[i] = Tail(b)[1] + i - 1
                OBVIOUS
            <4>1. Tail(b)[i] = u + i /\ Tail(b)[1] = u + 1 /\ i \in Nat
                BY <3>3, <3>6
            <4> QED
                BY <4>1, <3>5
        <3>8. Tail(b) # <<>> => \A v \in Updates : v < Tail(b)[1] => Kept(v)'
            BY <3>2, <3>3, <3>4
        <3> QED
            BY <2>4, <2>5, <3>1, <3>2, <3>7, <3>8 DEF Confirmed
    <2> QED
        BY <2>6, <2>7
<1>5. CASE ReceiveError
    <2>1. poller'.offset = poller.offset /\ poller'.batch = <<>>
        BY <1>5 DEF ReceiveError, After, TypeOK, PollerType
    <2> QED
        BY <1>5, <2>1 DEF Confirmed, ReceiveError, Kept
<1>6. CASE Take
    BY <1>6 DEF Confirmed, Kept, Take, TypeOK, transport
<1>7. CASE Handle
    BY <1>7 DEF Confirmed, Kept, Handle, transport, account, messages
<1>8. CASE Investigate
    BY <1>8 DEF Confirmed, Kept, Investigate, transport, account, messages
<1>9. CASE AskPayments
    BY <1>9 DEF Confirmed, Kept, AskPayments, transport, account, messages
<1>10. CASE Recheck
    BY <1>10 DEF Confirmed, Kept, Recheck, transport, account, messages
<1>11. CASE Reply
    BY <1>11 DEF Confirmed, Kept, Reply, transport, account, messages
<1>12. CASE Record
    BY <1>12 DEF Confirmed, Kept, Record, transport, account, messages
<1>13. CASE Finish
    BY <1>13 DEF Confirmed, Kept, Finish, TypeOK, Engaged, Stages, Handling, Kept, transport
<1>14. CASE FailUpdate
    BY <1>14 DEF Confirmed, Kept, FailUpdate, TypeOK, Engaged, Stages, Kept, transport
<1>15. CASE WorkerDies
    BY <1>15 DEF Confirmed, Kept, WorkerDies, Kept
<1>16. CASE StartRound
    BY <1>16 DEF Confirmed, Kept, StartRound, transport, account, messages
<1>17. CASE Hide
    BY <1>17 DEF Confirmed, Kept, Hide, transport, account, messages
<1>18. CASE CheckWatch
    BY <1>18 DEF Confirmed, Kept, CheckWatch, transport, account, messages
<1>19. CASE EndEdit
    BY <1>19 DEF Confirmed, Kept, EndEdit, transport, account, messages
<1>20. CASE EditorDies
    BY <1>20 DEF Confirmed, Kept, EditorDies, Kept
<1>21. CASE ToggleStop
    BY <1>21 DEF Confirmed, Kept, ToggleStop, transport, account, messages
<1>22. CASE TogglePayments
    BY <1>22 DEF Confirmed, Kept, TogglePayments, transport, account, messages
<1>23. CASE Unlink
    BY <1>23 DEF Confirmed, Kept, Unlink, transport, account, messages
<1>24. CASE ConfirmPair
    BY <1>24 DEF Confirmed, Kept, ConfirmPair, transport, account, messages
<1>25. CASE Crash
    <2>1. poller'.offset = 1 /\ poller'.batch = <<>>
        BY <1>25 DEF Crash, NotAsked
    <2> QED
        BY <1>25, <2>1, UpdatesCounted DEF Confirmed, Crash, Kept
<1>26. CASE Start
    <2>1. poller'.offset = 1 /\ poller'.batch = <<>>
        BY <1>26 DEF Start, NotAsked
    <2> QED
        BY <1>26, <2>1, UpdatesCounted DEF Confirmed, Start, Kept, TypeOK
<1>27. ASSUME NEW u \in Updates, Post(u)
      PROVE  Confirmed'
    <2>1. PICK answer \in Answers(u) \ {"full"} : Receive(u, answer)
        BY <1>27 DEF Post
    <2>2. /\ \A v \in Updates : inbox'[v] = inbox[v] \/ (inbox[v] = "none" /\ inbox'[v] = "queued")
          /\ refused \subseteq refused' /\ begun' = begun /\ Kept(u)'
        BY <2>1, Received
    <2> QED
        BY <1>27, <2>2 DEF Confirmed, Kept, Post, Kept, TypeOK
<1>28. ASSUME NEW u \in Updates, Advance(u)
      PROVE  Confirmed'
    BY <1>28 DEF Confirmed, Kept, Advance, transport, account, messages
<1>29. CASE UNCHANGED vars
    BY <1>29 DEF Confirmed, Kept, vars, transport, account, messages
<1> QED
    BY <1>1, <1>2, <1>3, <1>4, <1>5, <1>6, <1>7, <1>8, <1>9, <1>10, <1>11, <1>12, <1>13, <1>14,
        <1>15, <1>16, <1>17, <1>18, <1>19, <1>20, <1>21, <1>22, <1>23, <1>24, <1>25, <1>26, <1>27,
        <1>28, <1>29 DEF Next, Work, Edit

-----------------------------------------------------------------------------
(***************************************************************************)
(* What is shown after an unlink                                           *)
(***************************************************************************)
\* Without a link no new edit and no new result begins.
LEMMA StepLeaving == TypeOK /\ Engaged /\ Leaving /\ [Next]_vars => Leaving'
<1> SUFFICES ASSUME TypeOK, Engaged, Leaving, [Next]_vars
             PROVE  Leaving'
    OBVIOUS
<1>1. CASE Send
    BY <1>1 DEF Leaving, Send, transport, account, messages
<1>2. CASE AskUpdates
    BY <1>2 DEF Leaving, AskUpdates, transport, account, messages
<1>3. CASE AnswerUpdates
    BY <1>3 DEF Leaving, AnswerUpdates, transport, account, messages
<1>4. CASE ReceiveNext
    BY <1>4 DEF Leaving, ReceiveNext, Receive, account, messages
<1>5. CASE ReceiveError
    BY <1>5 DEF Leaving, ReceiveError, transport, account, messages
<1>6. CASE Take
    BY <1>6 DEF Leaving, Take, TypeOK, Waiting, Down, transport, account, messages
<1>7. CASE Handle
    BY <1>7 DEF Leaving, Handle, TypeOK, WorkerType, Handling, Working, transport, account, messages
<1>8. CASE Investigate
    BY <1>8 DEF Leaving, Investigate, TypeOK, WorkerType, Handling, Working, transport, account,
        messages
<1>9. CASE AskPayments
    BY <1>9 DEF Leaving, AskPayments, TypeOK, WorkerType, Working, transport, messages
<1>10. CASE Recheck
    BY <1>10 DEF Leaving, Recheck, Engaged, TypeOK, WorkerType, Handling, Working, transport,
        account, messages
<1>11. CASE Reply
    BY <1>11 DEF Leaving, Reply, TypeOK, WorkerType, Handling, Working, Shown, Leaks, transport,
        account
<1>12. CASE Record
    BY <1>12 DEF Leaving, Record, TypeOK, WorkerType, Handling, Working, transport, account
<1>13. CASE Finish
    BY <1>13 DEF Leaving, Finish, TypeOK, Waiting, Down, transport, account, messages
<1>14. CASE FailUpdate
    BY <1>14 DEF Leaving, FailUpdate, TypeOK, Waiting, Down, Shown, Leaks, transport, account
<1>15. CASE WorkerDies
    BY <1>15 DEF Leaving, WorkerDies, TypeOK, Down, Shown, Leaks, account
<1>16. CASE StartRound
    BY <1>16 DEF Leaving, StartRound, Editing, Round, Resting, Nobody, transport, account, messages
<1>17. CASE Hide
    BY <1>17 DEF Leaving, Hide, TypeOK, Editing, NextHide, Round, Resting, Nobody, transport,
        account
<1>18. CASE CheckWatch
    BY <1>18 DEF Leaving, CheckWatch, Editing, NextWatch, StartEdit, Round, Resting, Nobody,
        transport, account, messages
<1>19. CASE EndEdit
    <2>1. editor'.at # "edit" /\ editor.at = "edit"
        BY <1>19 DEF EndEdit, Editing, NextWatch, Round, Resting, Nobody
    <2>2. PICK shown \in BOOLEAN : leaked' = [leaked EXCEPT !.edits = @ + Leaks(shown)]
        BY <1>19 DEF EndEdit
    <2>3. ~linked => leaked'.edits <= leaked.edits + 1 /\ leaked'.replies = leaked.replies /\ leaked'.edits \in Nat
        BY <2>2 DEF Leaks, TypeOK
    <2> QED
        BY <1>19, <2>1, <2>3 DEF Leaving, TypeOK, EndEdit, transport, account
<1>20. CASE EditorDies
    BY <1>20 DEF Leaving, EditorDies, TypeOK, Nobody, account, messages
<1>21. CASE ToggleStop
    BY <1>21 DEF Leaving, ToggleStop, transport, account, messages
<1>22. CASE TogglePayments
    BY <1>22 DEF Leaving, TogglePayments, transport, account, messages
<1>23. CASE Unlink
    <2>1. leaked' = Quiet /\ worker' = worker /\ editor' = editor
        BY <1>23 DEF Unlink
    <2> QED
        BY <2>1 DEF Leaving, Quiet
<1>24. CASE ConfirmPair
    BY <1>24 DEF Leaving, ConfirmPair, transport, account, messages
<1>25. CASE Crash
    BY <1>25 DEF Leaving, Crash, TypeOK, Down, Nobody, Leaks, account
<1>26. CASE Start
    BY <1>26 DEF Leaving, Start, TypeOK, Waiting, Down, Resting, Nobody, account, messages
<1>27. ASSUME NEW u \in Updates, Post(u)
      PROVE  Leaving'
    BY <1>27 DEF Leaving, Post, Receive, account, messages
<1>28. ASSUME NEW u \in Updates, Advance(u)
      PROVE  Leaving'
    BY <1>28 DEF Leaving, Advance, transport, account, messages
<1>29. CASE UNCHANGED vars
    BY <1>29 DEF Leaving, vars, transport, account, messages
<1> QED
    BY <1>1, <1>2, <1>3, <1>4, <1>5, <1>6, <1>7, <1>8, <1>9, <1>10, <1>11, <1>12, <1>13, <1>14,
        <1>15, <1>16, <1>17, <1>18, <1>19, <1>20, <1>21, <1>22, <1>23, <1>24, <1>25, <1>26, <1>27,
        <1>28, <1>29 DEF Next, Work, Edit

-----------------------------------------------------------------------------
(***************************************************************************)
(* What an update leaves on record                                         *)
(***************************************************************************)
\* No step finishes an update before what it showed or started is on record.
LEMMA StepTracking == TypeOK /\ Engaged /\ Tracking /\ [Next]_vars => Tracking'
<1> SUFFICES ASSUME TypeOK, Engaged, Tracking, [Next]_vars
             PROVE  Tracking'
    OBVIOUS
<1>1. CASE Send
    BY <1>1 DEF Tracking, Untouched, Tracked, Send, transport, account, messages
<1>2. CASE AskUpdates
    BY <1>2 DEF Tracking, Untouched, Tracked, AskUpdates, transport, account, messages
<1>3. CASE AnswerUpdates
    BY <1>3 DEF Tracking, Untouched, Tracked, AnswerUpdates, transport, account, messages
<1>4. CASE ReceiveNext
    <2>1. PICK u \in Updates : u = Head(poller.batch)
        BY <1>4 DEF ReceiveNext, TypeOK, PollerType
    <2>2. PICK answer \in Answers(u) : Receive(u, answer)
        BY <1>4, <2>1 DEF ReceiveNext
    <2>3. \A v \in Updates : inbox'[v] = inbox[v] \/ (inbox[v] = "none" /\ inbox'[v] = "queued")
        BY <2>2, Received
    <2> QED
        BY <1>4, <2>3 DEF Tracking, Untouched, Tracked, ReceiveNext, Receive, account, messages
<1>5. CASE ReceiveError
    BY <1>5 DEF Tracking, Untouched, Tracked, ReceiveError, transport, account, messages
<1>6. CASE Take
    BY <1>6 DEF Tracking, Untouched, Tracked, Take, TypeOK, Engaged, Stages, WorkerType,
        Handling, Working, transport, account, messages, Waiting, Down
<1>7. CASE Handle
    BY <1>7 DEF Tracking, Untouched, Tracked, Handle, TypeOK, Engaged, Stages, WorkerType,
        Handling, Working, transport, account, messages
<1>8. CASE Investigate
    BY <1>8 DEF Tracking, Untouched, Tracked, Investigate, TypeOK, Engaged, Stages, WorkerType,
        Handling, Working, transport, account, messages
<1>9. CASE AskPayments
    BY <1>9 DEF Tracking, Untouched, Tracked, AskPayments, TypeOK, Engaged, Stages, WorkerType,
        Working, transport, messages
<1>10. CASE Recheck
    BY <1>10 DEF Tracking, Untouched, Tracked, Recheck, TypeOK, Engaged, Stages, WorkerType,
        Handling, Working, transport, account, messages
<1>11. CASE Reply
    BY <1>11 DEF Tracking, Untouched, Tracked, Reply, TypeOK, Engaged, Stages, WorkerType,
        Handling, Working, Shown, transport, account
<1>12. CASE Record
    BY <1>12 DEF Tracking, Untouched, Tracked, Record, TypeOK, Engaged, Stages, WorkerType,
        Handling, Working, NoWatch, transport, account
<1>13. CASE Finish
    BY <1>13 DEF Tracking, Untouched, Tracked, Finish, TypeOK, Engaged, Stages, WorkerType,
        Handling, Working, transport, account, messages, Waiting, Down
<1>14. CASE FailUpdate
    BY <1>14 DEF Tracking, Untouched, Tracked, FailUpdate, TypeOK, Engaged, Stages, Waiting,
        Down, Shown, transport, account
<1>15. CASE WorkerDies
    BY <1>15 DEF Tracking, Untouched, Tracked, WorkerDies, TypeOK, Engaged, Stages, Down, Shown,
        account
<1>16. CASE StartRound
    BY <1>16 DEF Tracking, Untouched, Tracked, StartRound, transport, account, messages
<1>17. CASE Hide
    BY <1>17 DEF Tracking, Untouched, Tracked, Hide, TypeOK, transport, account
<1>18. CASE CheckWatch
    <2> DEFINE u == Min(editor.todo)
    <2>1. watch' = watch \/ watch' = [watch EXCEPT ![u].state = "revoked", ![u].last = "revoked"]
        BY <1>18 DEF CheckWatch
    <2>2. ASSUME NEW v \in Updates, watch[v] # NoWatch
          PROVE  watch'[v] # NoWatch
        <3>1. watch'[v] = watch[v] \/ watch'[v].state = "revoked"
            BY <2>1 DEF TypeOK, WatchType
        <3> QED
            BY <2>2, <3>1 DEF NoWatch
    <2>3. UNCHANGED <<inbox, worker, job, rows, controls>>
        BY <1>18 DEF CheckWatch
    <2> QED
        BY <2>2, <2>3 DEF Tracking, Untouched, Tracked, Engaged, Stages
<1>19. CASE EndEdit
    <2> DEFINE u == Min(editor.todo)
    <2>1. PICK state \in {"delivery_failed", "active", "done"} :
              watch' = [watch EXCEPT ![u].last = editor.status, ![u].state = state]
        BY <1>19 DEF EndEdit
    <2>2. ASSUME NEW v \in Updates, watch[v] # NoWatch
          PROVE  watch'[v] # NoWatch
        <3>1. watch'[v] = watch[v] \/ watch'[v].state = state
            BY <2>1 DEF TypeOK, WatchType
        <3> QED
            BY <2>2, <3>1 DEF NoWatch
    <2>3. UNCHANGED <<inbox, worker, job, rows, controls>>
        BY <1>19 DEF EndEdit
    <2> QED
        BY <2>2, <2>3 DEF Tracking, Untouched, Tracked, Engaged, Stages
<1>20. CASE EditorDies
    BY <1>20 DEF Tracking, Untouched, Tracked, EditorDies, transport, account, messages
<1>21. CASE ToggleStop
    BY <1>21 DEF Tracking, Untouched, Tracked, ToggleStop, transport, account, messages
<1>22. CASE TogglePayments
    BY <1>22 DEF Tracking, Untouched, Tracked, TogglePayments, transport, account, messages
<1>23. CASE Unlink
    <2>1. ASSUME NEW v \in Updates, watch[v] # NoWatch
          PROVE  watch'[v] # NoWatch
        <3>1. watch'[v].state = "revoked"
            BY <1>23, <2>1 DEF Unlink, TypeOK, WatchType
        <3> QED
            BY <3>1 DEF NoWatch
    <2>2. UNCHANGED <<inbox, worker, job, rows, controls>>
        BY <1>23 DEF Unlink
    <2> QED
        BY <2>1, <2>2 DEF Tracking, Untouched, Tracked, Engaged, Stages
<1>24. CASE ConfirmPair
    BY <1>24 DEF Tracking, Untouched, Tracked, ConfirmPair, transport, account, messages
<1>25. CASE Crash
    BY <1>25 DEF Tracking, Untouched, Tracked, Crash, TypeOK, Engaged, Stages, Down, account
<1>26. CASE Start
    BY <1>26 DEF Tracking, Untouched, Tracked, Start, TypeOK, Waiting, Down, account, messages
<1>27. ASSUME NEW u \in Updates, Post(u)
      PROVE  Tracking'
    <2>1. PICK answer \in Answers(u) \ {"full"} : Receive(u, answer)
        BY <1>27 DEF Post
    <2>2. /\ \A v \in Updates : inbox'[v] = inbox[v] \/ (inbox[v] = "none" /\ inbox'[v] = "queued")
          /\ refused \subseteq refused' /\ begun' = begun /\ Kept(u)'
        BY <2>1, Received
    <2> QED
        BY <1>27, <2>2 DEF Tracking, Untouched, Tracked, Post, TypeOK, Receive, account, messages
<1>28. ASSUME NEW u \in Updates, Advance(u)
      PROVE  Tracking'
    BY <1>28 DEF Tracking, Untouched, Tracked, Advance, TypeOK, transport, account, messages
<1>29. CASE UNCHANGED vars
    BY <1>29 DEF Tracking, Untouched, Tracked, vars, transport, account, messages
<1> QED
    BY <1>1, <1>2, <1>3, <1>4, <1>5, <1>6, <1>7, <1>8, <1>9, <1>10, <1>11, <1>12, <1>13, <1>14,
        <1>15, <1>16, <1>17, <1>18, <1>19, <1>20, <1>21, <1>22, <1>23, <1>24, <1>25, <1>26, <1>27,
        <1>28, <1>29 DEF Next, Work, Edit

-----------------------------------------------------------------------------
(***************************************************************************)
(* Theorems                                                                *)
(***************************************************************************)
IInv == TypeOK /\ Engaged /\ Confirmed /\ Leaving /\ Tracking

\* The invariant holds at the start.
LEMMA InitInv == Init => IInv
<1> SUFFICES ASSUME Init
             PROVE  Confirmed /\ Leaving /\ Tracking
    BY InitType, InitEngaged DEF IInv
<1>1. Confirmed
    BY UpdatesCounted DEF Init, Confirmed, NotAsked
<1>2. Leaving
    BY DEF Init, Leaving
<1>3. Tracking
    BY DEF Init, Tracking, Untouched, Waiting, Down
<1> QED
    BY <1>1, <1>2, <1>3

\* Whatever fails, and in whatever order the tasks run, the tables, the tasks and the
\* chat keep in step.
THEOREM Invariance == Spec => []IInv
<1>1. IInv /\ [Next]_vars => IInv'
    BY StepType, StepEngaged, StepConfirmed, StepLeaving, StepTracking DEF IInv
<1> QED
    BY InitInv, <1>1, PTL DEF Spec

\* An update is handled once however often it is delivered, and none is lost that
\* Telegram does not deliver again, for any number of updates, limits and crashes.
THEOREM EachUpdateOnceHolds == Spec => []EachUpdateOnce
<1>1. IInv => EachUpdateOnce
    <2> SUFFICES ASSUME IInv, NEW u \in Updates
                 PROVE  begun[u] <= 1 /\ (u \in acked => inbox[u] # "none" \/ u \in refused)
        BY DEF EachUpdateOnce
    <2>1. begun[u] \in Nat /\ begun[u] <= IF inbox[u] \in {"none", "queued"} THEN 0 ELSE 1
        BY DEF IInv, TypeOK, Confirmed
    <2>2. u \in acked => inbox[u] # "none" \/ u \in refused
        BY DEF IInv, Confirmed, Kept
    <2> QED
        BY <2>1, <2>2
<1> QED
    BY Invariance, <1>1, PTL

\* After an unlink no more is shown than the edit and the reply under way.
THEOREM UnlinkStopsHolds == Spec => []UnlinkStops
<1>1. IInv => UnlinkStops
    BY DEF IInv, TypeOK, Leaving, UnlinkStops
<1> QED
    BY Invariance, <1>1, PTL

\* What is done is on record: its payment controls and its job.
THEOREM DoneIsTrackedHolds == Spec => []DoneIsTracked
<1>1. IInv => DoneIsTracked
    BY DEF IInv, Tracking, Tracked, DoneIsTracked
<1> QED
    BY Invariance, <1>1, PTL
=============================================================================
