--------------------------- MODULE TelegramInbox ---------------------------
(***************************************************************************)
(* The Telegram bot: updates are polled, or posted to a webhook, into an   *)
(* inbox table; one task handles them, another edits the messages of the   *)
(* jobs that are watched and hides payment controls once they are disabled.*)
(* The tasks share an event loop and interleave where they await; website  *)
(* requests run in threads beside them.  Tables survive the process, tasks *)
(* do not; a message that was sent stays, whether or not anyone knows.     *)
(***************************************************************************)
EXTENDS Integers, Sequences, FiniteSets, FiniteSetsExt

CONSTANTS
    Updates,     \* updates of the user, 1, 2 and so on
    Worlds,      \* [mode, kind]: config.mode, and what each update asks
    InboxLimit,  \* config.inbox_limit
    PerMinute,   \* config.user_per_minute
    MaxChanges   \* bound: ends of the process, errors of the store, changes of the
                 \* two stop files and unlinks, together

ASSUME TelegramInboxAssumption ==
    /\ IsFiniteSet(Updates) /\ Updates = 1..Cardinality(Updates)
    /\ Worlds \subseteq [mode : {"polling", "webhook"}, kind : [Updates -> {"investigate", "pay"}]]
    /\ {InboxLimit, PerMinute} \subseteq Nat \ {0}
    /\ MaxChanges \in Nat

VARIABLES
    mode, kind,  \* the transport and what each update asks
    sent,        \* updates the user has made
    acked,       \* updates Telegram does not deliver again
    poller,      \* the polling task: its offset and the batch it is receiving
    refused,     \* updates received while the bot was stopped, or over the rate
    inbox,       \* telegram_updates
    worker,      \* the task that handles updates
    editor,      \* the task that edits messages
    job,         \* the jobs of the manager, named by the update that made them
    watch,       \* telegram_watches
    rows,        \* telegram_payment_messages
    controls,    \* messages that show payment controls
    stopped,     \* the stop file exists
    payable,     \* payments_enabled
    linked,      \* the account of the user is linked
    pairing,     \* a pairing request is open
    begun,       \* times an update was taken from the inbox
    leaked,      \* results shown since the account was unlinked
    changes      \* changes there have been

transport == <<mode, kind, sent, acked, poller, refused>>
account == <<stopped, payable, linked, pairing>>
messages == <<watch, rows, controls, leaked>>
vars == <<transport, inbox, worker, editor, job, messages, account, begun, changes>>

Down == [at |-> "down", update |-> 0, shows |-> "notice"]
Waiting == [Down EXCEPT !.at = "idle"]
Nobody == [at |-> "down", todo |-> {}, status |-> "none"]
Resting == [Nobody EXCEPT !.at = "idle"]
NotAsked == [at |-> "idle", offset |-> 1, batch |-> <<>>]
NoWatch == [state |-> "none", last |-> "none", job |-> 0]
Quiet == [edits |-> 0, replies |-> 0]

Init ==
    /\ \E world \in Worlds : mode = world.mode /\ kind = world.kind
    /\ sent = 0 /\ acked = {} /\ poller = NotAsked /\ refused = {}
    /\ inbox = [u \in Updates |-> "none"] /\ worker = Waiting /\ editor = Resting
    /\ job = [u \in Updates |-> "none"] /\ watch = [u \in Updates |-> NoWatch]
    /\ rows = {} /\ controls = {}
    /\ stopped = FALSE /\ payable = TRUE /\ linked = TRUE /\ pairing = FALSE
    /\ begun = [u \in Updates |-> 0] /\ leaked = Quiet
    /\ changes = 0

\* What closes the webhook: the process, or one of its two tasks, is gone.
Ready == "down" \notin {poller.at, worker.at, editor.at}

\* Between the updates of one batch the event loop runs no other task.
Free == poller.batch = <<>>

Change == changes < MaxChanges /\ changes' = changes + 1
-----------------------------------------------------------------------------
(***************************************************************************)
(* Receiving                                                               *)
(***************************************************************************)
Send ==
    /\ sent + 1 \in Updates
    /\ sent' = sent + 1
    /\ UNCHANGED <<mode, kind, acked, poller, refused, inbox, worker, editor, job, messages, account,
                   begun, changes>>

\* receive and admit: what is answered; the minute of earlier updates may be over.
Answers(u) ==
    LET admitted == {v \in Updates : inbox[v] # "none"} IN
    IF stopped THEN {"paused"}
    ELSE IF u \in admitted THEN {"duplicate"}
    ELSE (IF Cardinality(admitted) >= PerMinute THEN {"rate_limited"} ELSE {}) \cup
         (IF Cardinality({v \in Updates : inbox[v] = "queued"}) >= InboxLimit THEN {"full"} ELSE {"queued"})

Receive(u, answer) ==
    /\ inbox' = IF answer = "queued" THEN [inbox EXCEPT ![u] = "queued"] ELSE inbox
    /\ refused' = IF answer \in {"paused", "rate_limited"} THEN refused \cup {u} ELSE refused
    /\ UNCHANGED <<mode, kind, sent, worker, editor, job, messages, account, begun, changes>>

\* poll: the offset confirms what is before it.
AskUpdates ==
    /\ mode = "polling" /\ poller.at = "idle" /\ ~stopped
    /\ poller' = [poller EXCEPT !.at = "asked"]
    /\ acked' = acked \cup {u \in Updates : u < poller.offset}
    /\ UNCHANGED <<mode, kind, sent, refused, inbox, worker, editor, job, messages, account, begun,
                   changes>>

After(batch) == [poller EXCEPT !.at = IF batch = <<>> THEN "idle" ELSE "batch", !.batch = batch]

\* The updates that are not confirmed, in their order, or none: the same offset is
\* asked for again.
AnswerUpdates ==
    /\ poller.at = "asked"
    /\ \/ poller' = After(<<>>)
       \/ \E first \in 1..sent + 1 :
             /\ first..sent = 1..sent \ acked
             /\ poller' = After([i \in 1..sent + 1 - first |-> first + i - 1])
    /\ UNCHANGED <<mode, kind, sent, acked, refused, inbox, worker, editor, job, messages, account,
                   begun, changes>>

\* Mutant: a refused update does not stop the batch.
ReceiveNextFull ==
    /\ poller.batch # <<>>
    /\ \E answer \in Answers(Head(poller.batch)) :
          /\ Receive(Head(poller.batch), answer)
          /\ poller' = [After(Tail(poller.batch)) EXCEPT !.offset = Head(poller.batch) + 1]
    /\ UNCHANGED acked

\* One update of the batch; a full inbox ends it.
ReceiveNext ==
    /\ poller.batch # <<>>
    /\ \E answer \in Answers(Head(poller.batch)) :
          /\ Receive(Head(poller.batch), answer)
          /\ poller' = IF answer = "full" THEN After(<<>>)
                       ELSE [After(Tail(poller.batch)) EXCEPT !.offset = Head(poller.batch) + 1]
    /\ UNCHANGED acked

\* An error of the store: the rest of the batch is asked for again.
ReceiveError ==
    /\ poller.batch # <<>> /\ Change
    /\ poller' = After(<<>>)
    /\ UNCHANGED <<mode, kind, sent, acked, refused, inbox, worker, editor, job, messages, account, begun>>

\* webhook: 200, which may be lost, or 503 and another delivery.
Post(u) ==
    /\ mode = "webhook" /\ Ready
    /\ u \in 1..sent \ acked
    /\ \E answer \in Answers(u) \ {"full"} : Receive(u, answer)
    /\ acked' \in {acked, acked \cup {u}}
    /\ UNCHANGED poller
-----------------------------------------------------------------------------
(***************************************************************************)
(* Handling                                                                *)
(***************************************************************************)
Handling(at) == worker.at = at /\ Free

Working(at, shows) == worker' = [worker EXCEPT !.at = at, !.shows = shows]

\* next_update
Take ==
    /\ Handling("idle") /\ ~stopped
    /\ \E u \in Updates :
          /\ inbox[u] = "queued" /\ \A v \in Updates : inbox[v] = "queued" => u <= v
          /\ inbox' = [inbox EXCEPT ![u] = "processing"]
          /\ worker' = [Waiting EXCEPT !.at = "handle", !.update = u]
          /\ begun' = [begun EXCEPT ![u] = @ + 1]
    /\ UNCHANGED <<transport, editor, job, messages, account, changes>>

\* handle: nothing once stopped; a payment command asks in a thread, an
\* investigation without an account is refused.
Handle ==
    /\ Handling("handle")
    /\ \/ stopped /\ Working("finish", "notice")
       \/ ~stopped /\ kind[worker.update] = "pay" /\ Working("ask", "notice")
       \/ ~stopped /\ kind[worker.update] = "investigate" /\ ~linked /\ Working("reply", "notice")
    /\ UNCHANGED <<transport, inbox, editor, job, messages, account, begun, changes>>

\* The active job of the account is used again; a new one may be refused.
Investigate ==
    /\ Handling("handle") /\ ~stopped /\ linked /\ kind[worker.update] = "investigate"
    /\ \/ Working("reply", "notice") /\ UNCHANGED job
       \/ /\ Working("reply", "result")
          /\ job' = IF \E v \in Updates : job[v] = "open" THEN job
                    ELSE [job EXCEPT ![worker.update] = "open"]
    /\ UNCHANGED <<transport, inbox, editor, messages, account, begun, changes>>

\* TelegramSolSurface.access, in a thread: a pairing request, or the state of the
\* membership, or an open invoice.
AskPayments ==
    /\ worker.at = "ask"
    /\ \/ ~linked /\ pairing' = TRUE /\ Working("reply", "notice")
       \/ linked /\ Working("recheck", "notice") /\ UNCHANGED pairing
       \/ linked /\ payable /\ Working("recheck", "controls") /\ UNCHANGED pairing
    /\ UNCHANGED <<transport, inbox, editor, job, messages, stopped, payable, linked, begun,
                   changes>>

\* The link and the flag are checked again.
Recheck ==
    /\ Handling("recheck")
    /\ Working("reply", IF linked /\ payable THEN worker.shows ELSE "notice")
    /\ UNCHANGED <<transport, inbox, editor, job, messages, account, begun, changes>>

Leaks(result) == IF result /\ ~linked THEN 1 ELSE 0

Shown(shows) ==
    /\ controls' = IF shows = "controls" THEN controls \cup {worker.update} ELSE controls
    /\ leaked' = [leaked EXCEPT !.replies = @ + Leaks(shows = "result")]

\* The reply is sent.
Reply ==
    /\ Handling("reply")
    /\ Shown(worker.shows)
    /\ Working("record", worker.shows)
    /\ UNCHANGED <<transport, inbox, editor, job, watch, rows, account, begun, changes>>

Newest == CHOOSE v \in Updates : job[v] # "none" /\ \A w \in Updates : job[w] # "none" => w <= v

\* payment_message, and watch of a job
Record ==
    /\ Handling("record")
    /\ LET u == worker.update IN
       /\ rows' = IF worker.shows = "controls" THEN rows \cup {u} ELSE rows
       /\ watch' = IF worker.shows = "result"
                   THEN [watch EXCEPT ![u] = [state |-> "active", last |-> "none", job |-> Newest]]
                   ELSE watch
    /\ Working("finish", worker.shows)
    /\ UNCHANGED <<transport, inbox, editor, job, controls, leaked, account, begun, changes>>

Finish ==
    /\ Handling("finish")
    /\ inbox' = [inbox EXCEPT ![worker.update] = "done"]
    /\ worker' = Waiting
    /\ UNCHANGED <<transport, editor, job, messages, account, begun, changes>>

\* An exception of the transport, the message shown or not, or of the store.
FailUpdate ==
    /\ worker.at \in {"handle", "ask", "recheck", "reply", "record", "finish"} /\ Free
    /\ IF worker.at = "reply" THEN UNCHANGED changes ELSE Change
    /\ \E shows \in {"notice", worker.shows} :
          IF worker.at = "reply" THEN Shown(shows) ELSE UNCHANGED <<controls, leaked>>
    /\ inbox' = [inbox EXCEPT ![worker.update] = "delivery_unknown"]
    /\ worker' = Waiting
    /\ UNCHANGED <<transport, editor, job, watch, rows, account, begun>>

\* An error of the store outside the try block, or of the transport and then of the
\* store in the except block: the task ends and its update stays in processing.
WorkerDies ==
    /\ worker.at # "down" /\ Free /\ Change
    /\ \E shows \in {"notice", worker.shows} :
          IF worker.at = "reply" THEN Shown(shows) ELSE UNCHANGED <<controls, leaked>>
    /\ worker' = Down
    /\ UNCHANGED <<mode, kind, sent, acked, poller, refused, inbox, editor, job, watch, rows, account,
                   begun>>
-----------------------------------------------------------------------------
(***************************************************************************)
(* Editing                                                                 *)
(***************************************************************************)
Editing(at) == editor.at = at /\ Free

\* update_jobs reads what to edit, unless the bot is stopped.
Watches == IF stopped THEN {} ELSE {u \in Updates : watch[u].state = "active"}

Round(at, todo) == [Resting EXCEPT !.at = IF todo = {} THEN "idle" ELSE at, !.todo = todo]

\* hide_payment_messages: the messages that are due, then the watches.
StartRound ==
    /\ Editing("idle")
    /\ \E due \in SUBSET rows :
          editor' = IF payable \/ due = {} THEN Round("jobs", Watches) ELSE Round("hide", due)
    /\ editor' # editor
    /\ UNCHANGED <<transport, inbox, worker, job, messages, account, begun, changes>>

NextHide(u) == editor' = IF editor.todo = {u} THEN Round("jobs", Watches) ELSE Round("hide", editor.todo \ {u})

\* Mutant: a message is forgotten whether or not the edit succeeded.
HideAnyway ==
    /\ Editing("hide")
    /\ LET u == Min(editor.todo) IN
       /\ \E hidden \in BOOLEAN : controls' = IF hidden THEN controls \ {u} ELSE controls
       /\ rows' = rows \ {u}
       /\ NextHide(u)
    /\ UNCHANGED <<transport, inbox, worker, job, watch, leaked, account, begun, changes>>

\* An edit that raises may have hidden the message: it is tried again.
Hide ==
    /\ Editing("hide")
    /\ LET u == Min(editor.todo) IN
       /\ \E hidden, known \in BOOLEAN :
             /\ known => hidden
             /\ controls' = IF hidden THEN controls \ {u} ELSE controls
             /\ rows' = IF known THEN rows \ {u} ELSE rows
       /\ NextHide(u)
    /\ UNCHANGED <<transport, inbox, worker, job, watch, leaked, account, begun, changes>>

\* The status to show of a watch: a job that takes too long is given up.
Statuses(u) == IF job[watch[u].job] = "complete" THEN {"complete"} ELSE {"open", "timeout"}

NextWatch(u) == editor' = Round("jobs", editor.todo \ {u})

StartEdit(u) ==
    \E status \in Statuses(u) :
        IF status = watch[u].last THEN NextWatch(u)
        ELSE editor' = [editor EXCEPT !.at = "edit", !.status = status]

\* Mutant: the link is not checked.
CheckAnyWatch ==
    /\ Editing("jobs")
    /\ LET u == Min(editor.todo) IN StartEdit(u) /\ UNCHANGED watch
    /\ UNCHANGED <<transport, inbox, worker, job, rows, controls, leaked, account, begun, changes>>

\* The watch as it was read: of an account that is no longer linked it is revoked,
\* a status that was shown is not shown again.
CheckWatch ==
    /\ Editing("jobs")
    /\ LET u == Min(editor.todo) IN
       \/ linked /\ StartEdit(u) /\ UNCHANGED watch
       \/ ~linked /\ NextWatch(u) /\ watch' = [watch EXCEPT ![u].state = "revoked", ![u].last = "revoked"]
    /\ UNCHANGED <<transport, inbox, worker, job, rows, controls, leaked, account, begun, changes>>

\* Mutant: a status that could not be shown is tried again for ever.
EndEditRetrying ==
    /\ Editing("edit")
    /\ LET u == Min(editor.todo) IN
       /\ \E known \in BOOLEAN :
             watch' = IF known
                      THEN [watch EXCEPT ![u].last = editor.status,
                                         ![u].state = IF editor.status = "open" THEN "active" ELSE "done"]
                      ELSE watch
       /\ NextWatch(u)
    /\ UNCHANGED <<transport, inbox, worker, job, rows, controls, leaked, account, begun, changes>>

\* The edit ends and update_watch writes what was read before it began.
EndEdit ==
    /\ Editing("edit")
    /\ LET u == Min(editor.todo) IN
       /\ \E shown, known \in BOOLEAN :
             /\ known => shown
             /\ watch' = [watch EXCEPT ![u].last = editor.status, ![u].state =
                             IF ~known THEN "delivery_failed"
                             ELSE IF editor.status = "open" THEN "active" ELSE "done"]
             /\ leaked' = [leaked EXCEPT !.edits = @ + Leaks(shown)]
       /\ NextWatch(u)
    /\ UNCHANGED <<transport, inbox, worker, job, rows, controls, account, begun, changes>>

\* An error of the store ends the task.
EditorDies ==
    /\ editor.at # "down" /\ Free /\ Change
    /\ editor' = Nobody
    /\ UNCHANGED <<mode, kind, sent, acked, poller, refused, inbox, worker, job, messages, account,
                   begun>>
-----------------------------------------------------------------------------
(***************************************************************************)
(* The rest of the world                                                   *)
(***************************************************************************)
\* A job is run and ends.
Advance(u) ==
    /\ job[u] = "open"
    /\ job' = [job EXCEPT ![u] = "complete"]
    /\ UNCHANGED <<transport, inbox, worker, editor, messages, account, begun, changes>>

\* The stop file of the bot, and what enables payments
ToggleStop ==
    /\ Change /\ stopped' = ~stopped
    /\ UNCHANGED <<transport, inbox, worker, editor, job, messages, payable, linked, pairing, begun>>

TogglePayments ==
    /\ Change /\ payable' = ~payable
    /\ UNCHANGED <<transport, inbox, worker, editor, job, messages, stopped, linked, pairing, begun>>

\* unlink: the link goes and with it every watch.
Unlink ==
    /\ Change /\ linked
    /\ linked' = FALSE
    /\ watch' = [u \in Updates |-> IF watch[u] = NoWatch THEN NoWatch
                                   ELSE [watch[u] EXCEPT !.state = "revoked"]]
    /\ leaked' = Quiet
    /\ UNCHANGED <<transport, inbox, worker, editor, job, rows, controls, stopped, payable,
                   pairing, begun>>

\* confirm_pair: a pairing request is used once.
ConfirmPair ==
    /\ pairing /\ ~linked
    /\ pairing' = FALSE /\ linked' = TRUE
    /\ UNCHANGED <<transport, inbox, worker, editor, job, messages, stopped, payable, begun,
                   changes>>

\* The process ends; what is being sent may still arrive.
Crash ==
    /\ poller.at # "down" /\ Change
    /\ \E sending, editing \in BOOLEAN :
          LET shows == IF sending /\ worker.at = "reply" THEN worker.shows ELSE "notice"
              hides == IF editing /\ editor.at = "hide" THEN {Min(editor.todo)} ELSE {}
          IN  /\ controls' = (IF shows = "controls" THEN controls \cup {worker.update} ELSE controls) \ hides
              /\ leaked' = [edits |-> leaked.edits + Leaks(editing /\ editor.at = "edit"),
                            replies |-> leaked.replies + Leaks(shows = "result")]
    /\ worker' = Down /\ editor' = Nobody /\ poller' = [NotAsked EXCEPT !.at = "down"]
    /\ UNCHANGED <<mode, kind, sent, acked, refused, inbox, job, watch, rows, account, begun>>

\* start: what was being handled is never handled again.
Start ==
    /\ poller.at = "down"
    /\ inbox' = [u \in Updates |-> IF inbox[u] = "processing" THEN "delivery_unknown" ELSE inbox[u]]
    /\ worker' = Waiting /\ editor' = Resting /\ poller' = NotAsked
    /\ UNCHANGED <<mode, kind, sent, acked, refused, job, messages, account, begun, changes>>

Work == Take \/ Handle \/ Investigate \/ AskPayments \/ Recheck \/ Reply \/ Record \/ Finish \/ FailUpdate
Edit == StartRound \/ Hide \/ CheckWatch \/ EndEdit

Next ==
    \/ Send \/ AskUpdates \/ AnswerUpdates \/ ReceiveNext \/ ReceiveError
    \/ Work \/ WorkerDies \/ Edit \/ EditorDies
    \/ \E u \in Updates : Post(u) \/ Advance(u)
    \/ ToggleStop \/ TogglePayments \/ Unlink \/ ConfirmPair \/ Crash \/ Start

\* The event loop runs a task that is ready again and again, and requests end.
Spec == Init /\ [][Next]_vars /\ WF_vars(ReceiveNext) /\ SF_vars(Work) /\ SF_vars(Edit)
-----------------------------------------------------------------------------
(***************************************************************************)
(* Properties                                                              *)
(***************************************************************************)

\* An update is handled once, however often it is delivered and whenever the process
\* dies; one Telegram does not deliver again was queued, or refused for its rate, or
\* received while the bot was stopped, never dropped by a full inbox or an error.
EachUpdateOnce ==
    \A u \in Updates :
        /\ begun[u] <= 1
        /\ u \in acked => inbox[u] # "none" \/ u \in refused

\* Once the account is unlinked at most the edit and the reply that were under way
\* show a result in the chat, though the edit writes its watch back as active.
UnlinkStops == ~linked => leaked.edits <= 1 /\ leaked.replies <= 1

\* An update that is done leaves nothing behind that nobody keeps track of: payment
\* controls on a message are on record until they are known to be hidden, and a job
\* has its watch.
DoneIsTracked ==
    \A u \in Updates : inbox[u] = "done" =>
        /\ u \in controls => u \in rows
        /\ job[u] # "none" => watch[u] # NoWatch

\* Whenever the bot is neither stopped nor has lost the task, the updates that are
\* queued are all taken in the end, and the watches of jobs that ended are closed.
NothingLingers ==
    /\ (\E u \in Updates : inbox[u] = "queued")
           ~> ((\A u \in Updates : inbox[u] # "queued") \/ worker.at = "down" \/ stopped)
    /\ (\E u \in Updates : watch[u].state = "active" /\ job[watch[u].job] = "complete")
           ~> (editor.at = "down" \/ stopped \/
               \A u \in Updates : watch[u].state = "active" => job[watch[u].job] # "complete")
=============================================================================
