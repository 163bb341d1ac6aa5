---------------------------- MODULE SolPayments ----------------------------
(***************************************************************************)
(* Memberships bought with SOL: invoices, the payments that settle them on *)
(* the chain, and the memberships they grant.  A check of a payment is two *)
(* transactions of SolPayments.verify with slow provider calls in between; *)
(* several handler threads (web and Telegram) may check the same invoice,  *)
(* and the process may be restarted, with another network or plan, at any  *)
(* moment.  The time a handler acts on is read before it has the database. *)
(***************************************************************************)
EXTENDS CreditUnits, Sequences

CONSTANTS
    Invoices,     \* invoice identifiers (token_hex, never reused)
    Codes,        \* the accounts that buy
    Signatures,   \* transactions of the chain
    Clients,      \* handler threads
    Networks,     \* values of JEET_SOL_NETWORK
    Plans,        \* plans that were on sale, each named by its length
    None,         \* no account, invoice, network or signature
    Lifetime,     \* 86400 seconds: an invoice may be paid this long
    Throttle,     \* ten seconds: between two checks of one invoice
    DailyLimit,   \* five: invoices of one account in one Lifetime
    MaxTime       \* bound: last moment explored

ASSUME SolPaymentsAssumption ==
    /\ None \notin Invoices \cup Codes \cup Signatures \cup Networks
    /\ IsFiniteSet(Invoices)
    /\ {Lifetime, Throttle, DailyLimit} \subseteq Nat \ {0}
    /\ MaxTime \in Nat /\ Throttle <= MaxTime
    /\ Plans \subseteq Lifetime..(366 * Lifetime)

VARIABLES
    clock,       \* the time, shared by the server and the chain
    config,      \* the payment configuration of the running process
    invoice,     \* the table sol_invoices
    membership,  \* the table sol_memberships
    granted,     \* sol_payment_audit: the invoices of its rows finalized_and_granted
    transfer,    \* the transactions that carry invoice references
    request      \* request[h]: what handler thread h is in the middle of

vars == <<clock, config, invoice, membership, granted, transfer, request>>

Time == 0..MaxTime
Later(t, u) == IF t <= u THEN u ELSE t
-----------------------------------------------------------------------------
(***************************************************************************)
(* The tables and the chain                                                *)
(***************************************************************************)
Config == [enabled : BOOLEAN, network : Networks, plan : Plans]

Invoice == [state : {"absent", "pending", "paid"}, owner : Codes \cup {None},
            network : Networks \cup {None}, plan : Plans \cup {0},
            created : Time, expires : Nat, checked : Time,
            signature : Signatures \cup {None}, paidAt : Time]

NoInvoice == [state |-> "absent", owner |-> None, network |-> None, plan |-> 0,
              created |-> 0, expires |-> 0, checked |-> 0,
              signature |-> None, paidAt |-> 0]

Membership == [network : Networks \cup {None}, plan : Plans \cup {0}, expires : Nat]

NoMembership == [network |-> None, plan |-> 0, expires |-> 0]

\* A transaction may transfer to the recipient for several references at once.
Transfer == [pays : SUBSET Invoices, at : Time, finalized : BOOLEAN]

Issued == {i \in Invoices : invoice[i].state # "absent"}
PaidBy(c) == {i \in Invoices : invoice[i].state = "paid" /\ invoice[i].owner = c}

Member(c, n, t) == membership[c].network = n /\ membership[c].expires > t

Open(c, n, t) == {i \in Invoices : /\ invoice[i].state = "pending"
                                   /\ invoice[i].owner = c
                                   /\ invoice[i].network = n
                                   /\ invoice[i].expires > t}

Recent(c, t) == {i \in Issued : invoice[i].owner = c /\ invoice[i].created > t - Lifetime}

\* valid_transfer on a finalized transaction, for the invoice read earlier: the
\* fields it looks at never change once the invoice is issued.
ValidTransfer(s, i) ==
    /\ transfer[s].finalized
    /\ i \in transfer[s].pays
    /\ transfer[s].at \in invoice[i].created..invoice[i].expires
-----------------------------------------------------------------------------
Idle == [stage |-> "idle", code |-> None, invoice |-> None, signature |-> None, time |-> 0]

Request == [stage : {"idle", "create", "verify", "lookup", "found"},
            code : Codes \cup {None}, invoice : Invoices \cup {None},
            signature : Signatures \cup {None}, time : Time]

\* The clock starts late enough that an invoice never checked may be checked.
Init ==
    /\ clock = Throttle
    /\ config \in Config
    /\ invoice = [i \in Invoices |-> NoInvoice]
    /\ membership = [c \in Codes |-> NoMembership]
    /\ granted = <<>>
    /\ transfer = [s \in Signatures |-> [pays |-> {}, at |-> 0, finalized |-> FALSE]]
    /\ request = [h \in Clients |-> Idle]
-----------------------------------------------------------------------------
(***************************************************************************)
(* create_invoice                                                          *)
(***************************************************************************)
BeginCreate(h, c) ==
    /\ request[h].stage = "idle"
    /\ config.enabled
    /\ request' = [request EXCEPT ![h] = [Idle EXCEPT !.stage = "create",
                                                      !.code = c, !.time = clock]]
    /\ UNCHANGED <<clock, config, invoice, membership, granted, transfer>>

\* Mutant: the open invoice is not looked for.
DeclinedUnlessMember(r) ==
    \/ Member(r.code, config.network, r.time)
    \/ Cardinality(Recent(r.code, r.time)) >= DailyLimit

Declined(r) ==
    \/ Member(r.code, config.network, r.time)
    \/ Open(r.code, config.network, r.time) # {}
    \/ Cardinality(Recent(r.code, r.time)) >= DailyLimit

\* The invoice keeps the plan on sale when it was issued.
Create(h, i) ==
    LET r == request[h] IN
    /\ r.stage = "create"
    /\ invoice[i].state = "absent"
    /\ ~Declined(r)
    /\ invoice' = [invoice EXCEPT ![i] =
                      [NoInvoice EXCEPT !.state = "pending", !.owner = r.code,
                                        !.network = config.network, !.plan = config.plan,
                                        !.created = r.time, !.expires = r.time + Lifetime]]
    /\ request' = [request EXCEPT ![h] = Idle]
    /\ UNCHANGED <<clock, config, membership, granted, transfer>>

\* The open invoice is returned, or the request is refused.
Decline(h) ==
    /\ request[h].stage = "create"
    /\ Declined(request[h])
    /\ request' = [request EXCEPT ![h] = Idle]
    /\ UNCHANGED <<clock, config, invoice, membership, granted, transfer>>
-----------------------------------------------------------------------------
(***************************************************************************)
(* verify.  Whether a signature is pasted or searched for by the reference *)
(* of the invoice, the check ends with one valid transaction or none.      *)
(***************************************************************************)
BeginVerify(h, c, i) ==
    /\ request[h].stage = "idle"
    /\ i \in Issued
    /\ request' = [request EXCEPT ![h] = [stage |-> "verify", code |-> c, invoice |-> i,
                                          signature |-> None, time |-> clock]]
    /\ UNCHANGED <<clock, config, invoice, membership, granted, transfer>>

\* The first transaction lets one check of an invoice through per Throttle.
Admissible(r) ==
    /\ invoice[r.invoice].owner = r.code
    /\ invoice[r.invoice].state = "pending"
    /\ r.time - invoice[r.invoice].checked >= Throttle

StartCheck(h) ==
    LET r == request[h] IN
    /\ r.stage = "verify"
    /\ Admissible(r)
    /\ invoice' = [invoice EXCEPT ![r.invoice].checked = r.time]
    /\ request' = [request EXCEPT ![h].stage = "lookup"]
    /\ UNCHANGED <<clock, config, membership, granted, transfer>>

AnswerEarly(h) ==
    /\ request[h].stage = "verify"
    /\ ~Admissible(request[h])
    /\ request' = [request EXCEPT ![h] = Idle]
    /\ UNCHANGED <<clock, config, invoice, membership, granted, transfer>>

\* The provider is asked for the pasted signature, or for the last transactions
\* with the invoice's reference: the first valid one is taken.
FindTransfer(h, s) ==
    LET r == request[h] IN
    /\ r.stage = "lookup"
    /\ invoice[r.invoice].network = config.network
    /\ ValidTransfer(s, r.invoice)
    /\ request' = [request EXCEPT ![h] = [@ EXCEPT !.stage = "found", !.signature = s]]
    /\ UNCHANGED <<clock, config, invoice, membership, granted, transfer>>

\* The provider is unavailable or on another network, has nothing yet or
\* nothing valid.
FindNothing(h) ==
    /\ request[h].stage = "lookup"
    /\ request' = [request EXCEPT ![h] = Idle]
    /\ UNCHANGED <<clock, config, invoice, membership, granted, transfer>>

Credited(s) == \E j \in Invoices : invoice[j].signature = s

\* Mutants: the second transaction trusts the first, or credits a signature again.
GrantableUnread(r) == ~Credited(r.signature)

GrantableReplay(r) == invoice[r.invoice].state = "pending"

Grantable(r) == invoice[r.invoice].state = "pending" /\ ~Credited(r.signature)

\* Mutant: a membership still running is not extended but restarted.
ExtendedAfresh(r) == r.time + invoice[r.invoice].plan

Extended(r) ==
    LET m == membership[r.code]
        now == IF m.network = invoice[r.invoice].network THEN Later(r.time, m.expires)
                                                         ELSE r.time
    IN  now + invoice[r.invoice].plan

\* Mutant: the two values of the UPDATE change places.
SettledSwapped(w, r) == [w EXCEPT !.state = "paid", !.signature = r.time, !.paidAt = r.signature]

Settled(w, r) == [w EXCEPT !.state = "paid", !.signature = r.signature, !.paidAt = r.time]

\* The second transaction.  A membership row is keyed by its account alone.
Grant(h) ==
    LET r == request[h] IN
    /\ r.stage = "found"
    /\ Grantable(r)
    /\ invoice' = [invoice EXCEPT ![r.invoice] = Settled(@, r)]
    /\ membership' = [membership EXCEPT ![r.code] =
                         [network |-> invoice[r.invoice].network,
                          plan |-> invoice[r.invoice].plan,
                          expires |-> Extended(r)]]
    /\ granted' = Append(granted, r.invoice)
    /\ request' = [request EXCEPT ![h] = Idle]
    /\ UNCHANGED <<clock, config, transfer>>

\* Settled meanwhile, or PaymentReplayError.
AnswerLate(h) ==
    /\ request[h].stage = "found"
    /\ ~Grantable(request[h])
    /\ request' = [request EXCEPT ![h] = Idle]
    /\ UNCHANGED <<clock, config, invoice, membership, granted, transfer>>
-----------------------------------------------------------------------------
(***************************************************************************)
(* The chain, the clock and the process                                    *)
(***************************************************************************)
Pay(s, R) ==
    /\ transfer[s].pays = {}
    /\ R # {}
    /\ \A i, j \in R : invoice[i].network = invoice[j].network
    /\ transfer' = [transfer EXCEPT ![s] = [pays |-> R, at |-> clock, finalized |-> FALSE]]
    /\ UNCHANGED <<clock, config, invoice, membership, granted, request>>

Finalize(s) ==
    /\ transfer[s].pays # {}
    /\ ~transfer[s].finalized
    /\ transfer' = [transfer EXCEPT ![s].finalized = TRUE]
    /\ UNCHANGED <<clock, config, invoice, membership, granted, request>>

Tick ==
    /\ clock < MaxTime
    /\ clock' = clock + 1
    /\ UNCHANGED <<config, invoice, membership, granted, transfer, request>>

\* A kill at any point followed by a start under any configuration.
Restart ==
    /\ config' \in Config
    /\ request' = [h \in Clients |-> Idle]
    /\ UNCHANGED <<clock, invoice, membership, granted, transfer>>
-----------------------------------------------------------------------------
Handler(h) ==
    \/ \E c \in Codes : BeginCreate(h, c)
    \/ \E i \in Invoices : Create(h, i)
    \/ Decline(h)
    \/ \E c \in Codes, i \in Invoices : BeginVerify(h, c, i)
    \/ StartCheck(h)
    \/ AnswerEarly(h)
    \/ \E s \in Signatures : FindTransfer(h, s)
    \/ FindNothing(h)
    \/ Grant(h)
    \/ AnswerLate(h)

Environment ==
    \/ \E s \in Signatures : \E R \in SUBSET Issued : Pay(s, R)
    \/ \E s \in Signatures : Finalize(s)
    \/ Tick
    \/ Restart

Next == (\E h \in Clients : Handler(h)) \/ Environment

Spec == Init /\ [][Next]_vars
-----------------------------------------------------------------------------
(***************************************************************************)
(* Properties                                                              *)
(***************************************************************************)
\* Every variable holds a value of its kind.
TypeOK ==
    /\ clock \in Time
    /\ config \in Config
    /\ invoice \in [Invoices -> Invoice]
    /\ membership \in [Codes -> Membership]
    /\ granted \in Seq(Invoices)
    /\ transfer \in [Signatures -> Transfer]
    /\ request \in [Clients -> Request]

\* However many checks of however many invoices run at once, no transaction pays
\* for two invoices, not even one that really carries both references, and each
\* paid invoice was paid by a finalized transaction within its lifetime.
CreditedOnce ==
    /\ \A i \in Invoices : invoice[i].state = "paid" => ValidTransfer(invoice[i].signature, i)
    /\ \A i, j \in Issued :
          (invoice[i].signature = invoice[j].signature /\ invoice[i].state = "paid") => i = j

\* The rows of the audit that grant c something, and what is granted from the k-th on.
Grants(c) == {k \in DOMAIN granted : invoice[granted[k]].owner = c}
GrantedFrom(c, k) == {granted[l] : l \in {m \in Grants(c) : m >= k}}

\* When a membership ends that starts with the check of the k-th grant and lasts for
\* the plans granted to c from there on.
Worth(c, k) ==
    invoice[granted[k]].paidAt + Total(GrantedFrom(c, k), [i \in Invoices |-> invoice[i].plan])

\* The grants since c last paid on a network other than the one of its membership.
Unbroken(c) ==
    {k \in Grants(c) : \A l \in Grants(c) : l >= k => invoice[granted[l]].network = membership[c].network}

\* A membership lasts exactly as paid, however late, concurrent or repeated the checks.
\* It has the network and the terms of the last grant, and only the grants on that network
\* since another one was paid on count.  From each of these on it lasts for the plans
\* granted from there on at least, so nothing bought is lost while it runs, and from one
\* of them, the first since it last lapsed, exactly so long, so nothing is counted twice
\* and no time that lapsed comes back.
LastsAsPaid ==
    \A c \in Codes :
        IF PaidBy(c) = {}
        THEN membership[c] = NoMembership
        ELSE /\ PaidBy(c) = GrantedFrom(c, 1)
             /\ \E k \in Grants(c) : /\ \A l \in Grants(c) : l <= k
                                     /\ membership[c].network = invoice[granted[k]].network
                                     /\ membership[c].plan = invoice[granted[k]].plan
             /\ \A k \in Unbroken(c) : membership[c].expires >= Worth(c, k)
             /\ \E k \in Unbroken(c) : membership[c].expires = Worth(c, k)

\* An account is never asked to pay two invoices of one network at once, even if
\* two handlers issue invoices at the same moment with clocks read earlier.
OneOpenInvoice ==
    \A c \in Codes, n \in Networks : Cardinality(Open(c, n, clock)) <= 1

\* A membership changes only in the step that settles a pending invoice of its
\* account: a receipt checked again, after expiry or by two handlers at once,
\* grants nothing more.
GrantSettlesInvoice ==
    [][\A c \in Codes : membership'[c] # membership[c] =>
          \E i \in Invoices : /\ invoice[i].state = "pending"
                              /\ invoice'[i].state = "paid"
                              /\ invoice[i].owner = c]_vars
=============================================================================
