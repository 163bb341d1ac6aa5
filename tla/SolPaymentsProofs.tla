------------------------- MODULE SolPaymentsProofs -------------------------
(***************************************************************************)
(* Theorems about SolPayments, for every number of invoices, accounts,     *)
(* transactions and handler threads.                                       *)
(*                                                                         *)
(* The argument: a handler that found a payment holds a valid one          *)
(* (Evidence), and stays right whatever other handlers do in between,      *)
(* because a finalized transaction and the terms of an issued invoice      *)
(* never change.                                                           *)
(***************************************************************************)
EXTENDS SolPayments, DataFacts

\* A new request, a step of one, and the end of one are requests.
LEMMA RequestWrites ==
    /\ Idle \in Request
    /\ \A c \in Codes, t \in Time :
          [Idle EXCEPT !.stage = "create", !.code = c, !.time = t] \in Request
    /\ \A r \in Request, s \in Signatures :
          /\ [r EXCEPT !.stage = "lookup"] \in Request
          /\ [r EXCEPT !.stage = "found", !.signature = s] \in Request
<1>1. Idle \in Request
    BY SolPaymentsAssumption DEF Idle, Request, Time
<1>2. ASSUME NEW c \in Codes, NEW t \in Time
      PROVE  [Idle EXCEPT !.stage = "create", !.code = c, !.time = t] \in Request
    BY <1>2 DEF Idle, Request
<1>3. ASSUME NEW r \in Request, NEW s \in Signatures
      PROVE  /\ [r EXCEPT !.stage = "lookup"] \in Request
             /\ [r EXCEPT !.stage = "found", !.signature = s] \in Request
    BY <1>3 DEF Request
<1> QED
    BY <1>1, <1>2, <1>3

\* The columns the two transactions of a check write, and a new invoice.
LEMMA InvoiceWrites ==
    ASSUME NEW w \in Invoice, NEW r \in Request
    PROVE  /\ [w EXCEPT !.checked = r.time] \in Invoice
           /\ r.signature \in Signatures => Settled(w, r) \in Invoice
    BY DEF Settled, Invoice, Request

\* The columns of a new invoice.
LEMMA IssuedInvoice ==
    ASSUME NEW c \in Codes, NEW k \in Config, NEW t \in Time
    PROVE  [NoInvoice EXCEPT !.state = "pending", !.owner = c, !.network = k.network,
                             !.plan = k.plan, !.created = t, !.expires = t + Lifetime]
               \in Invoice
<1>1. t \in Nat /\ Lifetime \in Nat /\ 0 \in Time
    BY SolPaymentsAssumption DEF Time
<1>2. t + Lifetime \in Nat
    BY <1>1
<1>3. k.network \in Networks /\ k.plan \in Plans
    BY DEF Config
<1> QED
    BY <1>1, <1>2, <1>3 DEF NoInvoice, Invoice

\* What each stage of a request stands on: an account, an issued invoice, and
\* once a payment was found, a transaction that is valid for the invoice.
Supported(r) ==
    /\ r.stage # "idle" => r.code \in Codes
    /\ r.stage \in {"verify", "lookup", "found"} =>
          /\ r.invoice \in Invoices
          /\ invoice[r.invoice].state # "absent"
    /\ r.stage \in {"lookup", "found"} => invoice[r.invoice].owner = r.code
    /\ r.stage = "found" => r.signature \in Signatures /\ ValidTransfer(r.signature, r.invoice)

Evidence == \A h \in Clients : Supported(request[h])

\* A signature is recorded exactly in the invoices it paid.
Recorded ==
    \A i \in Invoices : /\ invoice[i].state = "paid" <=> invoice[i].signature \in Signatures
                        /\ invoice[i].state # "paid" => invoice[i].signature = None

\* Every payment recorded is valid, and recorded once.
Backed ==
    /\ \A i \in Invoices : invoice[i].state = "paid" => ValidTransfer(invoice[i].signature, i)
    /\ \A i, j \in Invoices :
          (invoice[i].state = "paid" /\ invoice[j].state = "paid"
              /\ invoice[i].signature = invoice[j].signature) => i = j

Sound == TypeOK /\ Evidence /\ Recorded /\ Backed
-----------------------------------------------------------------------------
\* The empty database is well typed.
THEOREM InitTypeOK == Init => TypeOK
<1> SUFFICES ASSUME Init PROVE TypeOK
    OBVIOUS
<1>1. clock \in Time
    BY SolPaymentsAssumption DEF Init, Time
<1>2. /\ NoInvoice \in Invoice
      /\ NoMembership \in Membership
      /\ [pays |-> {}, at |-> 0, finalized |-> FALSE] \in Transfer
    BY SolPaymentsAssumption DEF NoInvoice, Invoice, NoMembership, Membership, Transfer, Time
<1>3. granted \in Seq(Invoices)
    BY DEF Init
<1> QED
    BY <1>1, <1>2, <1>3, RequestWrites DEF Init, TypeOK

\* Every handler step, payment, finalization and restart keeps every variable typed.
THEOREM StepTypeOK == TypeOK /\ Evidence /\ [Next]_vars => TypeOK'
<1> SUFFICES ASSUME TypeOK, Evidence, [Next]_vars PROVE TypeOK'
    OBVIOUS
<1> USE DEF TypeOK
<1>1. ASSUME NEW h \in Clients, NEW c \in Codes, BeginCreate(h, c) PROVE TypeOK'
    BY <1>1, RequestWrites DEF BeginCreate
<1>2. ASSUME NEW h \in Clients, NEW i \in Invoices, Create(h, i) PROVE TypeOK'
  <2>1. request[h].code \in Codes /\ request[h].time \in Time
      BY <1>2 DEF Create, Evidence, Supported, Request
  <2>2. invoice' \in [Invoices -> Invoice]
      BY <1>2, <2>1, IssuedInvoice DEF Create
  <2> QED
      BY <1>2, <2>2, RequestWrites DEF Create
<1>3. ASSUME NEW h \in Clients, Decline(h) PROVE TypeOK'
    BY <1>3, RequestWrites DEF Decline
<1>4. ASSUME NEW h \in Clients, NEW c \in Codes, NEW i \in Invoices, BeginVerify(h, c, i)
      PROVE  TypeOK'
  <2>1. request' \in [Clients -> Request]
      BY <1>4 DEF BeginVerify, Request
  <2> QED
      BY <1>4, <2>1 DEF BeginVerify
<1>5. ASSUME NEW h \in Clients, StartCheck(h) PROVE TypeOK'
  <2>1. request[h].invoice \in Invoices
      BY <1>5 DEF StartCheck, Evidence, Supported
  <2>2. invoice' \in [Invoices -> Invoice]
      BY <1>5, <2>1, InvoiceWrites DEF StartCheck
  <2>3. [request[h] EXCEPT !.stage = "lookup"] \in Request
      BY DEF Request
  <2>4. request' \in [Clients -> Request]
      BY <1>5, <2>3 DEF StartCheck
  <2> QED
      BY <1>5, <2>2, <2>4 DEF StartCheck
<1>6. ASSUME NEW h \in Clients, AnswerEarly(h) PROVE TypeOK'
    BY <1>6, RequestWrites DEF AnswerEarly
<1>7. ASSUME NEW h \in Clients, NEW s \in Signatures, FindTransfer(h, s) PROVE TypeOK'
    BY <1>7, RequestWrites DEF FindTransfer
<1>8. ASSUME NEW h \in Clients, FindNothing(h) PROVE TypeOK'
    BY <1>8, RequestWrites DEF FindNothing
<1>9. ASSUME NEW h \in Clients, Grant(h) PROVE TypeOK'
  <2> DEFINE r == request[h]
             i == r.invoice
  <2>1. r \in Request /\ r.signature \in Signatures /\ i \in Invoices /\ r.code \in Codes
      BY <1>9 DEF Grant, Evidence, Supported
  <2>2. invoice[i] \in Invoice /\ membership[r.code] \in Membership
      BY <2>1
  <2>3. invoice' \in [Invoices -> Invoice]
      BY <1>9, <2>1, <2>2, InvoiceWrites DEF Grant
  <2>4. Extended(r) \in Nat
    <3>1. /\ r.time \in Nat
          /\ membership[r.code].expires \in Nat
          /\ invoice[i].plan \in Nat
      <4>1. Plans \cup {0} \subseteq Nat /\ Time \subseteq Nat
          BY SolPaymentsAssumption DEF Time
      <4> QED
          BY <2>1, <2>2, <4>1 DEF Invoice, Membership, Request
    <3> HIDE DEF TypeOK
    <3>2. Later(r.time, membership[r.code].expires) \in Nat
        BY <3>1 DEF Later
    <3> QED
        BY <3>1, <3>2 DEF Extended
  <2>5. [network |-> invoice[i].network, plan |-> invoice[i].plan, expires |-> Extended(r)]
            \in Membership
      BY <2>2, <2>4 DEF Membership, Invoice
  <2>6. membership' \in [Codes -> Membership]
      BY <1>9, <2>5 DEF Grant
  <2>7. granted' \in Seq(Invoices)
      BY <1>9, <2>1 DEF Grant
  <2> QED
      BY <1>9, <2>3, <2>6, <2>7, RequestWrites DEF Grant
<1>10. ASSUME NEW h \in Clients, AnswerLate(h) PROVE TypeOK'
    BY <1>10, RequestWrites DEF AnswerLate
<1>11. ASSUME NEW s \in Signatures, NEW R \in SUBSET Issued, Pay(s, R) PROVE TypeOK'
  <2>1. R \subseteq Invoices
      BY DEF Issued
  <2>2. transfer' \in [Signatures -> Transfer]
      BY <1>11, <2>1 DEF Pay, Transfer
  <2> QED
      BY <1>11, <2>2 DEF Pay
<1>12. ASSUME NEW s \in Signatures, Finalize(s) PROVE TypeOK'
  <2>1. transfer' \in [Signatures -> Transfer]
      BY <1>12 DEF Finalize, Transfer
  <2> QED
      BY <1>12, <2>1 DEF Finalize
<1>13. CASE Tick
  <2>1. clock' \in Time
      BY <1>13, SolPaymentsAssumption DEF Tick, Time
  <2> QED
      BY <1>13, <2>1 DEF Tick
<1>14. CASE Restart
    BY <1>14, RequestWrites DEF Restart
<1>15. CASE UNCHANGED vars
    BY <1>15 DEF vars
<1> QED
    BY <1>1, <1>2, <1>3, <1>4, <1>5, <1>6, <1>7, <1>8, <1>9, <1>10, <1>11, <1>12, <1>13,
       <1>14, <1>15 DEF Next, Handler, Environment, Issued
-----------------------------------------------------------------------------
\* What no step changes: an issued invoice keeps its owner and terms, a paid one
\* everything, and a finalized transaction is what it is.
Stable ==
    /\ \A i \in Invoices : invoice[i].state # "absent" =>
          /\ invoice'[i].state # "absent"
          /\ invoice'[i].owner = invoice[i].owner
          /\ invoice'[i].created = invoice[i].created
          /\ invoice'[i].expires = invoice[i].expires
    /\ \A i \in Invoices : invoice[i].state = "paid" => invoice'[i] = invoice[i]
    /\ \A s \in Signatures :
          (transfer[s].finalized /\ transfer[s].pays # {}) => transfer'[s] = transfer[s]

\* What every step but a grant leaves as it was.
Quiet ==
    /\ membership' = membership
    /\ granted' = granted
    /\ \A i \in Invoices : /\ invoice'[i].state = "paid" <=> invoice[i].state = "paid"
                           /\ invoice'[i].signature = invoice[i].signature

\* What becomes of one handler's request.
Progress(h) ==
    LET r == request[h]
        s == request'[h]
    IN  \/ s = r
        \/ s.stage = "idle"
        \/ s.stage = "create" /\ s.code \in Codes
        \/ s.stage = "verify" /\ s.code \in Codes /\ s.invoice \in Issued
        \/ r.stage = "verify" /\ Admissible(r) /\ s = [r EXCEPT !.stage = "lookup"]
        \/ \E x \in Signatures : /\ r.stage = "lookup"
                                 /\ ValidTransfer(x, r.invoice)
                                 /\ s = [r EXCEPT !.stage = "found", !.signature = x]

\* Every step lets every request progress and keeps what is stable, and only a
\* grant marks invoices paid or touches memberships.
LEMMA StepKinds ==
    ASSUME TypeOK, Evidence, Recorded, [Next]_vars
    PROVE  /\ Stable
           /\ \A h \in Clients : Progress(h)
           /\ Quiet \/ \E h \in Clients : Grant(h)
<1> DEFINE Kind == /\ Stable
                   /\ \A h \in Clients : Progress(h)
                   /\ Quiet \/ \E h \in Clients : Grant(h)
<1> USE DEF TypeOK, Stable, Quiet, Progress
<1>0. Idle.stage = "idle"
    BY DEF Idle
<1>1. ASSUME NEW h \in Clients, NEW c \in Codes, BeginCreate(h, c) PROVE Kind
  <2>1. request'[h].stage = "create" /\ request'[h].code = c
      BY <1>1 DEF BeginCreate, Idle
  <2> QED
      BY <1>1, <2>1 DEF BeginCreate
<1>2. ASSUME NEW h \in Clients, NEW i \in Invoices, Create(h, i) PROVE Kind
  <2>1. /\ invoice'[i].state = "pending"
        /\ invoice'[i].signature = None
        /\ invoice[i].signature = None
      BY <1>2 DEF Create, NoInvoice, Recorded
  <2>2. \A j \in Invoices : j # i => invoice'[j] = invoice[j]
      BY <1>2 DEF Create
  <2>3. invoice[i].state = "absent"
      BY <1>2 DEF Create
  <2> QED
      BY <1>0, <1>2, <2>1, <2>2, <2>3 DEF Create
<1>3. ASSUME NEW h \in Clients, Decline(h) PROVE Kind
    BY <1>0, <1>3 DEF Decline
<1>4. ASSUME NEW h \in Clients, NEW c \in Codes, NEW i \in Invoices, BeginVerify(h, c, i)
      PROVE  Kind
  <2>1. /\ request'[h].stage = "verify"
        /\ request'[h].code = c
        /\ request'[h].invoice = i
      BY <1>4 DEF BeginVerify
  <2>2. i \in Issued
      BY <1>4 DEF BeginVerify
  <2>3. \A k \in Clients : k # h => request'[k] = request[k]
      BY <1>4 DEF BeginVerify
  <2>4. /\ invoice' = invoice /\ membership' = membership
        /\ granted' = granted /\ transfer' = transfer
      BY <1>4 DEF BeginVerify
  <2>5. \A k \in Clients : Progress(k)
      BY <2>1, <2>2, <2>3
  <2> QED
      BY <2>4, <2>5
<1>5. ASSUME NEW h \in Clients, StartCheck(h) PROVE Kind
  <2>1. \A j \in Invoices : \/ invoice'[j] = invoice[j]
                            \/ /\ invoice[j].state = "pending"
                               /\ invoice'[j] = [invoice[j] EXCEPT !.checked = request[h].time]
      BY <1>5 DEF StartCheck, Admissible
  <2>2. Stable /\ Quiet
      BY <1>5, <2>1 DEF StartCheck, Invoice
  <2>3. \A k \in Clients : Progress(k)
      BY <1>5 DEF StartCheck
  <2> QED
      BY <2>2, <2>3
<1>6. ASSUME NEW h \in Clients, AnswerEarly(h) PROVE Kind
    BY <1>0, <1>6 DEF AnswerEarly
<1>7. ASSUME NEW h \in Clients, NEW s \in Signatures, FindTransfer(h, s) PROVE Kind
    BY <1>7 DEF FindTransfer
<1>8. ASSUME NEW h \in Clients, FindNothing(h) PROVE Kind
    BY <1>0, <1>8 DEF FindNothing
<1>9. ASSUME NEW h \in Clients, Grant(h) PROVE Kind
  <2>1. \A j \in Invoices : \/ invoice'[j] = invoice[j]
                            \/ /\ invoice[j].state = "pending"
                               /\ invoice'[j] = Settled(invoice[j], request[h])
      BY <1>9 DEF Grant, Grantable
  <2>2. Stable
    <3>1. ASSUME NEW j \in Invoices, invoice'[j] = Settled(invoice[j], request[h])
          PROVE  /\ invoice'[j].state = "paid"
                 /\ invoice'[j].owner = invoice[j].owner
                 /\ invoice'[j].created = invoice[j].created
                 /\ invoice'[j].expires = invoice[j].expires
        BY <3>1 DEF Settled, Invoice
    <3>2. transfer' = transfer
        BY <1>9 DEF Grant
    <3> QED
        BY <2>1, <3>1, <3>2
  <2>3. \A k \in Clients : Progress(k)
      BY <1>0, <1>9 DEF Grant
  <2> QED
      BY <1>9, <2>2, <2>3
<1>10. ASSUME NEW h \in Clients, AnswerLate(h) PROVE Kind
    BY <1>0, <1>10 DEF AnswerLate
<1>11. ASSUME NEW s \in Signatures, NEW R \in SUBSET Issued, Pay(s, R) PROVE Kind
    BY <1>11 DEF Pay
<1>12. ASSUME NEW s \in Signatures, Finalize(s) PROVE Kind
    BY <1>12 DEF Finalize
<1>13. CASE Tick
    BY <1>13 DEF Tick
<1>14. CASE Restart
    BY <1>0, <1>14 DEF Restart
<1>15. CASE UNCHANGED vars
    BY <1>15 DEF vars
<1>16. Kind
    BY <1>1, <1>2, <1>3, <1>4, <1>5, <1>6, <1>7, <1>8, <1>9, <1>10, <1>11, <1>12, <1>13,
       <1>14, <1>15 DEF Next, Handler, Environment, Issued
<1> QED
    BY <1>16

\* A transaction valid for an issued invoice stays valid for it.
ValidNext(s, i) ==
    /\ transfer'[s].finalized
    /\ i \in transfer'[s].pays
    /\ transfer'[s].at \in invoice'[i].created..invoice'[i].expires

\* No step of anybody invalidates a payment that was found valid.
LEMMA StaysValid ==
    ASSUME Stable, NEW s \in Signatures, NEW i \in Invoices,
           invoice[i].state # "absent", ValidTransfer(s, i)
    PROVE  ValidNext(s, i)
    BY DEF Stable, ValidTransfer, ValidNext

\* What Supported says of request r in the next state.
SupportedNext(r) ==
    /\ r.stage # "idle" => r.code \in Codes
    /\ r.stage \in {"verify", "lookup", "found"} =>
          /\ r.invoice \in Invoices
          /\ invoice'[r.invoice].state # "absent"
    /\ r.stage \in {"lookup", "found"} => invoice'[r.invoice].owner = r.code
    /\ r.stage = "found" => r.signature \in Signatures /\ ValidNext(r.signature, r.invoice)

\* Whatever other handlers do between the stages of a check, what a request has
\* established keeps holding until it is used.
THEOREM StepEvidence == TypeOK /\ Evidence /\ Recorded /\ [Next]_vars => Evidence'
<1> SUFFICES ASSUME TypeOK, Evidence, Recorded, [Next]_vars, NEW h \in Clients
             PROVE  SupportedNext(request'[h])
    BY DEF Evidence, Supported, SupportedNext, ValidTransfer, ValidNext
<1> DEFINE r == request[h]
<1>1. Stable /\ Progress(h)
    BY StepKinds
<1>2. r \in Request /\ Supported(r)
    BY DEF TypeOK, Evidence
<1>3. SupportedNext(r)
  <2>1. r.stage = "found" => ValidNext(r.signature, r.invoice)
      BY <1>1, <1>2, StaysValid DEF Supported
  <2> QED
      BY <1>1, <1>2, <2>1 DEF Stable, Supported, SupportedNext
<1>4. CASE request'[h] = r
    BY <1>3, <1>4
<1>5. CASE request'[h].stage = "idle" \/ (request'[h].stage = "create" /\ request'[h].code \in Codes)
    BY <1>5 DEF SupportedNext
<1>6. CASE /\ request'[h].stage = "verify"
           /\ request'[h].code \in Codes
           /\ request'[h].invoice \in Issued
    BY <1>1, <1>6 DEF Stable, Issued, SupportedNext
<1>7. CASE /\ r.stage = "verify"
           /\ Admissible(r)
           /\ request'[h] = [r EXCEPT !.stage = "lookup"]
  <2>1. /\ request'[h].stage = "lookup"
        /\ request'[h].code = r.code
        /\ request'[h].invoice = r.invoice
      BY <1>2, <1>7 DEF Request
  <2>2. invoice'[r.invoice].owner = r.code
      BY <1>1, <1>2, <1>7 DEF Stable, Admissible, Supported
  <2> QED
      BY <1>3, <1>7, <2>1, <2>2 DEF SupportedNext
<1>8. ASSUME NEW x \in Signatures,
             r.stage = "lookup",
             ValidTransfer(x, r.invoice),
             request'[h] = [r EXCEPT !.stage = "found", !.signature = x]
      PROVE  SupportedNext(request'[h])
  <2>1. /\ request'[h].signature = x
        /\ request'[h].code = r.code
        /\ request'[h].invoice = r.invoice
        /\ request'[h].stage = "found"
      BY <1>2, <1>8 DEF Request
  <2>2. ValidNext(x, r.invoice)
      BY <1>1, <1>2, <1>8, StaysValid DEF Supported
  <2> QED
      BY <1>3, <1>8, <2>1, <2>2 DEF SupportedNext
<1> QED
    BY <1>1, <1>4, <1>5, <1>6, <1>7, <1>8 DEF Progress

\* What a grant does to the invoices.
LEMMA GrantWrites ==
    ASSUME TypeOK, Evidence, NEW h \in Clients, Grant(h)
    PROVE  LET r == request[h]
               i == r.invoice
           IN  /\ i \in Invoices /\ r.code \in Codes /\ r.signature \in Signatures
               /\ invoice[i].state = "pending" /\ invoice[i].owner = r.code
               /\ \A j \in Invoices : invoice[j].signature # r.signature
               /\ invoice' = [invoice EXCEPT ![i] = Settled(invoice[i], r)]
               /\ invoice'[i].state = "paid" /\ invoice'[i].signature = r.signature
               /\ invoice'[i].paidAt = r.time
               /\ invoice'[i].owner = r.code
               /\ invoice'[i].plan = invoice[i].plan
               /\ invoice'[i].network = invoice[i].network
    BY DEF Grant, Grantable, Credited, Evidence, Supported, TypeOK, Settled, Invoice

\* Only a paid invoice ever carries a signature.
THEOREM StepRecorded == TypeOK /\ Evidence /\ Recorded /\ [Next]_vars => Recorded'
<1> SUFFICES ASSUME TypeOK, Evidence, Recorded, [Next]_vars PROVE Recorded'
    OBVIOUS
<1>1. CASE Quiet
    BY <1>1 DEF Quiet, Recorded
<1>2. ASSUME NEW h \in Clients, Grant(h) PROVE Recorded'
    BY <1>2, GrantWrites DEF Recorded, TypeOK
<1> QED
    BY <1>1, <1>2, StepKinds

\* A grant records a valid payment that no other invoice has recorded.
THEOREM StepBacked == Sound /\ [Next]_vars => Backed'
<1> SUFFICES ASSUME TypeOK, Evidence, Recorded, Backed, [Next]_vars PROVE Backed'
    BY DEF Sound
<1>1. Stable
    BY StepKinds
<1>2. ASSUME NEW i \in Invoices, invoice[i].state = "paid"
      PROVE  ValidNext(invoice'[i].signature, i)
  <2>1. invoice'[i] = invoice[i] /\ invoice[i].signature \in Signatures
      BY <1>1, <1>2 DEF Stable, Recorded
  <2>2. ValidTransfer(invoice[i].signature, i)
      BY <1>2 DEF Backed
  <2> QED
      BY <1>1, <1>2, <2>1, <2>2, StaysValid
<1>3. CASE Quiet
    BY <1>2, <1>3 DEF Quiet, Backed, ValidTransfer, ValidNext
<1>4. ASSUME NEW h \in Clients, Grant(h) PROVE Backed'
  <2> DEFINE r == request[h]
             i == r.invoice
  <2>1. /\ i \in Invoices /\ r.signature \in Signatures
        /\ invoice[i].state = "pending"
        /\ \A j \in Invoices : invoice[j].signature # r.signature
        /\ invoice'[i].signature = r.signature
        /\ \A j \in Invoices : j # i => invoice'[j] = invoice[j]
      BY <1>4, GrantWrites DEF TypeOK
  <2>2. ValidNext(r.signature, i)
    <3>1. ValidTransfer(r.signature, i)
        BY <1>4 DEF Grant, Evidence, Supported
    <3> QED
        BY <1>1, <2>1, <3>1, StaysValid
  <2>3. ASSUME NEW j \in Invoices, invoice'[j].state = "paid"
        PROVE  ValidNext(invoice'[j].signature, j)
    <3>1. CASE j = i
        BY <2>1, <2>2, <3>1
    <3>2. CASE j # i
        BY <1>2, <2>1, <2>3, <3>2
    <3> QED
        BY <3>1, <3>2
  <2>4. ASSUME NEW j \in Invoices, NEW k \in Invoices,
               invoice'[j].state = "paid", invoice'[k].state = "paid",
               invoice'[j].signature = invoice'[k].signature
        PROVE  j = k
      BY <2>1, <2>4 DEF Backed
  <2> QED
      BY <2>3, <2>4 DEF Backed, ValidTransfer, ValidNext
<1> QED
    BY <1>3, <1>4, StepKinds

\* Sound holds in every reachable state.
THEOREM AlwaysSound == Spec => []Sound
<1>1. Init => Sound
  <2> SUFFICES ASSUME Init PROVE Evidence /\ Recorded /\ Backed
      BY InitTypeOK DEF Sound
  <2> QED
      BY SolPaymentsAssumption DEF Init, Evidence, Supported, Recorded, Backed, Idle, NoInvoice
<1>2. Sound /\ [Next]_vars => Sound'
    BY StepTypeOK, StepEvidence, StepRecorded, StepBacked DEF Sound
<1> QED
    BY <1>1, <1>2, PTL DEF Spec

\* Every variable always holds a value of its kind.
THEOREM TypeCorrect == Spec => []TypeOK
<1>1. Sound => TypeOK
    BY DEF Sound
<1> QED
    BY <1>1, AlwaysSound, PTL

\* No transaction ever pays for two invoices, and every paid invoice was paid by a
\* finalized transaction within its lifetime.
THEOREM CreditedOnceHolds == Spec => []CreditedOnce
<1>1. Sound => CreditedOnce
    BY DEF Sound, Recorded, Backed, CreditedOnce, Issued
<1> QED
    BY <1>1, AlwaysSound, PTL

\* A membership changes only in the step that settles an invoice of its account.
THEOREM GrantSettlesInvoiceHolds == Spec => GrantSettlesInvoice
<1>1. ASSUME Sound, [Next]_vars, NEW c \in Codes, membership'[c] # membership[c]
      PROVE  \E i \in Invoices : /\ invoice[i].state = "pending"
                                 /\ invoice'[i].state = "paid"
                                 /\ invoice[i].owner = c
  <2>1. TypeOK /\ Evidence /\ Recorded
      BY <1>1 DEF Sound
  <2>2. PICK h \in Clients : Grant(h)
      BY <1>1, <2>1, StepKinds DEF Quiet
  <2>3. request[h].code = c
      BY <1>1, <2>1, <2>2 DEF Grant, TypeOK
  <2> QED
      BY <2>1, <2>2, <2>3, GrantWrites
<1>2. Sound /\ [Next]_vars =>
        [\A c \in Codes : membership'[c] # membership[c] =>
            \E i \in Invoices : /\ invoice[i].state = "pending"
                                /\ invoice'[i].state = "paid"
                                /\ invoice[i].owner = c]_vars
    BY <1>1
<1> QED
    BY <1>2, AlwaysSound, PTL DEF Spec, GrantSettlesInvoice
-----------------------------------------------------------------------------
(***************************************************************************)
(* How long a membership lasts.  The audit and the invoices agree, and     *)
(* what an account has follows from its grants: a grant on the network of  *)
(* its membership adds its plan to what every earlier grant is worth, one  *)
(* on another network is the first of those that count.                    *)
(***************************************************************************)
Plan == [i \in Invoices |-> invoice[i].plan]

\* The audit names the paid invoices and no other.
Audited ==
    /\ \A k \in DOMAIN granted : invoice[granted[k]].state = "paid"
    /\ \A i \in Invoices : invoice[i].state = "paid" => \E k \in DOMAIN granted : granted[k] = i

\* The membership has the network and the terms of the last grant.
LatestTerms(c) ==
    \E k \in Grants(c) : /\ \A l \in Grants(c) : l <= k
                         /\ membership[c].network = invoice[granted[k]].network
                         /\ membership[c].plan = invoice[granted[k]].plan

AtLeast(c) == \A k \in Unbroken(c) : membership[c].expires >= Worth(c, k)
Exactly(c) == \E k \in Unbroken(c) : membership[c].expires = Worth(c, k)

\* LastsAsPaid for one account, of the rows of the audit.
Lasts(c) ==
    IF Grants(c) = {}
    THEN membership[c] = NoMembership
    ELSE LatestTerms(c) /\ AtLeast(c) /\ Exactly(c)

Lasting == Audited /\ \A c \in Codes : Lasts(c)

\* A total depends on the amounts of its owners only.
LEMMA TotalSame ==
    ASSUME NEW S, NEW a, NEW b, \A o \in S : a[o] = b[o]
    PROVE  Total(S, a) = Total(S, b)
<1>1. Units(S, a) = Units(S, b)
    BY DEF Units, UnitsOf
<1> QED
    BY <1>1 DEF Total

\* A grant is a row of the audit, and what it grants an invoice of the account.
LEMMA GrantRows ==
    ASSUME TypeOK, NEW c \in Codes
    PROVE  /\ Len(granted) \in Nat
           /\ DOMAIN granted = 1..Len(granted)
           /\ Grants(c) \subseteq 1..Len(granted)
           /\ \A k \in Grants(c) : granted[k] \in Invoices /\ invoice[granted[k]].owner = c
           /\ \A k \in Grants(c) : GrantedFrom(c, k) \subseteq Invoices
<1>1. granted \in Seq(Invoices)
    BY DEF TypeOK
<1>2. /\ Len(granted) \in Nat
      /\ DOMAIN granted = 1..Len(granted)
      /\ \A k \in 1..Len(granted) : granted[k] \in Invoices
    BY <1>1
<1> QED
    BY <1>2 DEF Grants, GrantedFrom

\* The plans granted from a row on, and what they are worth, are finite.
LEMMA WorthNat ==
    ASSUME TypeOK, NEW c \in Codes, NEW k \in Grants(c)
    PROVE  /\ \A i \in Invoices : Plan[i] \in Nat
           /\ IsFiniteSet(Units(GrantedFrom(c, k), Plan))
           /\ Total(GrantedFrom(c, k), Plan) \in Nat
           /\ Worth(c, k) = invoice[granted[k]].paidAt + Total(GrantedFrom(c, k), Plan)
           /\ Worth(c, k) \in Nat
<1> DEFINE G == GrantedFrom(c, k)
<1>1. 366 * Lifetime \in Nat
    BY SolPaymentsAssumption
<1>2. Plans \cup {0} \subseteq 0..(366 * Lifetime)
    BY <1>1, SolPaymentsAssumption
<1>3. \A i \in Invoices : Plan[i] \in 0..(366 * Lifetime)
    BY <1>2 DEF Plan, TypeOK, Invoice
<1>4. G \subseteq Invoices /\ granted[k] \in Invoices
    BY GrantRows
<1>5. IsFiniteSet(G)
    BY <1>4, SolPaymentsAssumption, FS_Subset
<1>6. Total(G, Plan) \in Nat /\ IsFiniteSet(Units(G, Plan))
  <2>1. \A i \in G : Plan[i] \in 0..(366 * Lifetime)
      BY <1>3, <1>4
  <2> QED
      BY <1>1, <1>5, <2>1, TotalNat, UnitsFinite
<1>7. Worth(c, k) = invoice[granted[k]].paidAt + Total(G, Plan)
    BY DEF Worth, Plan
<1>8. invoice[granted[k]].paidAt \in Nat
  <2>1. Time \subseteq Nat
      BY SolPaymentsAssumption DEF Time
  <2> QED
      BY <1>4, <2>1 DEF TypeOK, Invoice
<1>9. Worth(c, k) \in Nat
    BY <1>6, <1>7, <1>8
<1> QED
    BY <1>1, <1>3, <1>6, <1>7, <1>9

\* A step that leaves an account's membership, its rows and what they grant alone.
LEMMA Undisturbed ==
    ASSUME NEW c \in Codes, TypeOK, Lasts(c),
           membership'[c] = membership[c],
           Grants(c)' = Grants(c),
           \A k \in Grants(c) : /\ granted'[k] = granted[k]
                                /\ invoice'[granted[k]] = invoice[granted[k]]
    PROVE  Lasts(c)'
<1>1. ASSUME NEW k \in Grants(c)
      PROVE  Worth(c, k)' = Worth(c, k)
  <2>1. GrantedFrom(c, k)' = GrantedFrom(c, k)
      BY DEF GrantedFrom
  <2>2. \A i \in GrantedFrom(c, k) : i \in Invoices /\ Plan'[i] = Plan[i]
      BY GrantRows DEF GrantedFrom, Plan
  <2>3. Total(GrantedFrom(c, k), Plan') = Total(GrantedFrom(c, k), Plan)
      BY <2>2, TotalSame
  <2>4. Worth(c, k)' = invoice'[granted'[k]].paidAt + Total(GrantedFrom(c, k)', Plan')
      BY DEF Worth, Plan
  <2>5. Worth(c, k) = invoice[granted[k]].paidAt + Total(GrantedFrom(c, k), Plan)
      BY DEF Worth, Plan
  <2> QED
      BY <2>1, <2>3, <2>4, <2>5
<1>2. Unbroken(c)' = Unbroken(c) /\ Unbroken(c) \subseteq Grants(c)
    BY DEF Unbroken
<1>3. LatestTerms(c) => LatestTerms(c)'
    BY DEF LatestTerms
<1>4. AtLeast(c) => AtLeast(c)'
    BY <1>1, <1>2 DEF AtLeast
<1>5. Exactly(c) => Exactly(c)'
    BY <1>1, <1>2 DEF Exactly
<1> QED
    BY <1>3, <1>4, <1>5 DEF Lasts

\* Row n is the one a step appends to the audit, for invoice i.
NewRow(n, i) ==
    /\ n \in Nat
    /\ DOMAIN granted' = DOMAIN granted \cup {n}
    /\ granted'[n] = i
    /\ \A k \in DOMAIN granted : /\ k \in Nat /\ k <= n /\ ~(n <= k)
                                 /\ granted[k] \in Invoices
                                 /\ granted'[k] = granted[k]

\* A grant appends a row to the audit.
LEMMA GrantAppends ==
    ASSUME TypeOK, Evidence, NEW h \in Clients, Grant(h)
    PROVE  \E n : NewRow(n, request[h].invoice)
<1> DEFINE n == Len(granted) + 1
<1>1. granted \in Seq(Invoices) /\ request[h].invoice \in Invoices
    BY GrantWrites DEF TypeOK
<1>2. granted' = Append(granted, request[h].invoice)
    BY DEF Grant
<1>3. /\ Len(granted) \in Nat /\ DOMAIN granted = 1..Len(granted)
      /\ \A k \in 1..Len(granted) : granted[k] \in Invoices
    BY <1>1
<1>4. /\ DOMAIN granted' = 1..n
      /\ granted'[n] = request[h].invoice
      /\ \A k \in 1..Len(granted) : granted'[k] = granted[k]
    BY <1>1, <1>2
<1>5. 1..n = (1..Len(granted)) \cup {n}
    BY <1>3
<1>6. \A k \in 1..Len(granted) : k \in Nat /\ k <= n /\ ~(n <= k)
    BY <1>3
<1>7. NewRow(n, request[h].invoice)
    BY <1>3, <1>4, <1>5, <1>6 DEF NewRow
<1> QED
    BY <1>7

\* Row n, for invoice i, is added to the rows of account c, is worth its own plan at
\* first, and adds that plan to what the earlier rows are worth.
Adds(c, i, n, time) ==
    /\ Grants(c)' = Grants(c) \cup {n} /\ granted'[n] = i
    /\ \A k \in Grants(c) : /\ k <= n /\ ~(n <= k)
                            /\ granted'[k] = granted[k]
                            /\ invoice'[granted[k]] = invoice[granted[k]]
                            /\ Worth(c, k)' = Worth(c, k) + invoice[i].plan
    /\ Worth(c, n)' = time + invoice[i].plan

\* What a payment buys is added to what its account had.
LEMMA GrantBuys ==
    ASSUME TypeOK, Evidence, Audited, NEW h \in Clients, Grant(h),
           NEW c \in Codes, c = request[h].code,
           NEW i \in Invoices, i = request[h].invoice,
           NEW n, NewRow(n, i)
    PROVE  Adds(c, i, n, request[h].time)
<1>1. /\ invoice[i].state = "pending" /\ invoice[i].owner = c
      /\ invoice'[i].owner = c /\ invoice'[i].paidAt = request[h].time
      /\ invoice'[i].plan = invoice[i].plan
      /\ \A j \in Invoices : j # i => invoice'[j] = invoice[j]
    BY GrantWrites DEF TypeOK
<1>2. /\ n \in Nat /\ granted'[n] = i
      /\ \A k \in DOMAIN granted : granted'[k] = granted[k]
    BY DEF NewRow
<1>3. \A k \in DOMAIN granted : granted[k] \in Invoices
    BY DEF NewRow
<1>4. \A k \in DOMAIN granted : /\ granted[k] # i
                                /\ invoice'[granted[k]] = invoice[granted[k]]
    BY <1>1, <1>3 DEF Audited
<1>5. DOMAIN granted' = DOMAIN granted \cup {n}
    BY DEF NewRow
<1>6. Grants(c)' = Grants(c) \cup {n}
  <2>1. Grants(c)' = {k \in DOMAIN granted' : invoice'[granted'[k]].owner = c}
      BY DEF Grants
  <2> QED
      BY <1>1, <1>2, <1>4, <1>5, <2>1 DEF Grants
<1>7. \A k \in Grants(c) : /\ k \in DOMAIN granted /\ k \in Nat
                           /\ k <= n /\ ~(n <= k) /\ n >= k /\ ~(k >= n)
    BY <1>2 DEF Grants, NewRow
<1>8. ASSUME NEW k \in Grants(c) PROVE Worth(c, k)' = Worth(c, k) + invoice[i].plan
  <2> DEFINE G == GrantedFrom(c, k)
  <2>1. GrantedFrom(c, k)' = {granted'[l] : l \in {m \in Grants(c)' : m >= k}}
      BY DEF GrantedFrom
  <2>2. {m \in Grants(c)' : m >= k} = {m \in Grants(c) : m >= k} \cup {n}
      BY <1>6, <1>7
  <2>3. GrantedFrom(c, k)' = G \cup {i}
      BY <1>2, <1>7, <2>1, <2>2 DEF GrantedFrom
  <2>4. \A j \in G : j \in Invoices /\ j # i
      BY <1>3, <1>4, <1>7 DEF GrantedFrom
  <2>5. \A j \in G : Plan'[j] = Plan[j]
      BY <1>1, <2>4 DEF Plan
  <2>6. /\ Plan'[i] = invoice[i].plan /\ Plan[i] = invoice[i].plan
        /\ Plan[i] \in Nat /\ IsFiniteSet(Units(G, Plan)) /\ Total(G, Plan) \in Nat
        /\ Worth(c, k) = invoice[granted[k]].paidAt + Total(G, Plan)
        /\ invoice[granted[k]].paidAt \in Nat
    <3>1. Plan'[i] = invoice[i].plan /\ Plan[i] = invoice[i].plan
        BY <1>1 DEF Plan
    <3>2. Time \subseteq Nat
        BY SolPaymentsAssumption DEF Time
    <3>3. invoice[granted[k]].paidAt \in Nat
        BY <1>3, <1>7, <3>2 DEF TypeOK, Invoice
    <3> QED
        BY <3>1, <3>3, WorthNat
  <2>7. Total(GrantedFrom(c, k)', Plan') = Total(G, Plan) + Plan'[i]
    <3>1. PICK S, a, b : S = G /\ a = Plan /\ b = Plan'
        OBVIOUS
    <3>2. /\ i \notin S /\ IsFiniteSet(Units(S, a))
          /\ \A j \in S : b[j] = a[j]
          /\ b[i] \in Nat
        BY <2>4, <2>5, <2>6, <3>1
    <3>3. Total(S \cup {i}, b) = Total(S, a) + b[i]
        BY <3>2, TotalExtend
    <3> QED
        BY <2>3, <3>1, <3>3
  <2>8. Worth(c, k)' = invoice'[granted'[k]].paidAt + Total(GrantedFrom(c, k)', Plan')
      BY DEF Worth, Plan
  <2>9. invoice'[granted'[k]].paidAt = invoice[granted[k]].paidAt
      BY <1>2, <1>4, <1>7
  <2> QED
      BY <2>6, <2>7, <2>8, <2>9
<1>9. Worth(c, n)' = request[h].time + invoice[i].plan
  <2>1. GrantedFrom(c, n)' = {granted'[l] : l \in {m \in Grants(c)' : m >= n}}
      BY DEF GrantedFrom
  <2>2. {m \in Grants(c)' : m >= n} = {n}
      BY <1>2, <1>6, <1>7
  <2>3. GrantedFrom(c, n)' = {} \cup {i}
      BY <1>2, <2>1, <2>2
  <2>4. Plan'[i] = invoice[i].plan /\ invoice[i].plan \in Nat
    <3>1. Plans \cup {0} \subseteq Nat
        BY SolPaymentsAssumption
    <3> QED
        BY <1>1, <3>1 DEF Plan, TypeOK, Invoice
  <2>5. Total(GrantedFrom(c, n)', Plan') = invoice[i].plan
    <3>1. PICK S, b : S = {} /\ b = Plan'
        OBVIOUS
    <3>2. Units(S, b) = {} /\ IsFiniteSet({}) /\ Cardinality({}) = 0
        BY <3>1, FS_EmptySet DEF Units
    <3>3. Total(S, b) = 0
        BY <3>2 DEF Total
    <3>4. i \notin S /\ IsFiniteSet(Units(S, b)) /\ b[i] \in Nat
        BY <2>4, <3>1, <3>2
    <3>5. Total(S \cup {i}, b) = Total(S, b) + b[i]
        BY <3>4, TotalExtend
    <3> QED
        BY <2>3, <2>4, <3>1, <3>3, <3>5
  <2>6. Worth(c, n)' = invoice'[granted'[n]].paidAt + Total(GrantedFrom(c, n)', Plan')
      BY DEF Worth, Plan
  <2> QED
      BY <1>1, <1>2, <2>5, <2>6
<1> QED
    BY <1>2, <1>4, <1>6, <1>7, <1>8, <1>9 DEF Adds

\* The audit keeps naming the paid invoices.
LEMMA StepAudited ==
    ASSUME TypeOK, Evidence, Recorded, Audited, [Next]_vars
    PROVE  Audited'
<1>0. \A k \in DOMAIN granted : granted[k] \in Invoices
    BY DEF TypeOK
<1>1. CASE Quiet
    BY <1>0, <1>1 DEF Quiet, Audited
<1>2. ASSUME NEW h \in Clients, Grant(h) PROVE Audited'
  <2> DEFINE i == request[h].invoice
  <2>1. /\ i \in Invoices /\ invoice'[i].state = "paid"
        /\ \A j \in Invoices : j # i => invoice'[j] = invoice[j]
      BY <1>2, GrantWrites DEF TypeOK
  <2>2. PICK n : NewRow(n, i)
      BY <1>2, GrantAppends
  <2>3. \A k \in DOMAIN granted' : invoice'[granted'[k]].state = "paid"
      BY <1>0, <2>1, <2>2 DEF Audited, NewRow
  <2>4. ASSUME NEW j \in Invoices, invoice'[j].state = "paid"
        PROVE  \E k \in DOMAIN granted' : granted'[k] = j
      BY <2>1, <2>2, <2>4 DEF Audited, NewRow
  <2> QED
      BY <2>3, <2>4 DEF Audited
<1> QED
    BY <1>1, <1>2, StepKinds

\* On the network of the membership a grant adds its plan to what is left of it, or
\* to nothing; on another, or as the first, it starts afresh.
LEMMA GrantLasts ==
    ASSUME TypeOK, Evidence, Audited, NEW h \in Clients, Grant(h),
           NEW c \in Codes, c = request[h].code, Lasts(c)
    PROVE  Lasts(c)'
<1> DEFINE r == request[h]
           m == membership[c]
<1>0. PICK i \in Invoices : i = r.invoice
    BY GrantWrites
<1>9. PICK n : NewRow(n, i)
    BY <1>0, GrantAppends
<1> DEFINE p == invoice[i].plan
<1>1. /\ Grants(c)' = Grants(c) \cup {n} /\ granted'[n] = i
      /\ \A k \in Grants(c) : /\ k <= n /\ ~(n <= k)
                              /\ granted'[k] = granted[k]
                              /\ invoice'[granted[k]] = invoice[granted[k]]
                              /\ Worth(c, k)' = Worth(c, k) + p
      /\ Worth(c, n)' = r.time + p
  <2>1. Adds(c, i, n, r.time)
      BY <1>0, <1>9, GrantBuys
  <2> QED
      BY <2>1 DEF Adds
<1>2. /\ membership'[c].network = invoice[i].network
      /\ membership'[c].plan = p
      /\ membership'[c].expires = Extended(r)
      /\ invoice'[i].network = invoice[i].network
      /\ invoice'[i].plan = p
    BY <1>0, GrantWrites DEF Grant, TypeOK
<1>3. /\ n \in Nat /\ r.time \in Nat /\ m.expires \in Nat /\ p \in Nat
      /\ \A k \in Grants(c) : k \in Nat /\ Worth(c, k) \in Nat
  <2>1. Plans \cup {0} \subseteq Nat /\ Time \subseteq Nat
      BY SolPaymentsAssumption DEF Time
  <2>2. \A k \in Grants(c) : k \in Nat /\ Worth(c, k) \in Nat
      BY GrantRows, WorthNat
  <2>3. r \in Request /\ m \in Membership /\ invoice[i] \in Invoice
      BY DEF TypeOK
  <2>4. r.time \in Nat /\ m.expires \in Nat /\ p \in Nat
      BY <2>1, <2>3 DEF Request, Membership, Invoice
  <2> QED
      BY <1>9, <2>2, <2>4 DEF NewRow
<1>4. Unbroken(c)' = {k \in Grants(c)' : \A l \in Grants(c)' :
                          l >= k => invoice'[granted'[l]].network = membership'[c].network}
    BY DEF Unbroken
<1>5. n \in Unbroken(c)' /\ n \in Grants(c)'
    BY <1>1, <1>2, <1>3, <1>4
<1>6. LatestTerms(c)'
  <2>1. /\ n \in Grants(c)' /\ \A l \in Grants(c)' : l <= n
        /\ membership'[c].network = invoice'[granted'[n]].network
        /\ membership'[c].plan = invoice'[granted'[n]].plan
      BY <1>1, <1>2, <1>3
  <2> QED
      BY <2>1 DEF LatestTerms
<1>7. CASE Grants(c) # {} /\ m.network = invoice[i].network
  <2>1. Unbroken(c)' = Unbroken(c) \cup {n}
    <3>1. ASSUME NEW k \in Grants(c)
          PROVE  k \in Unbroken(c)' <=> k \in Unbroken(c)
        BY <1>1, <1>2, <1>4, <1>7 DEF Unbroken
    <3>2. Unbroken(c)' \subseteq Grants(c) \cup {n} /\ Unbroken(c) \subseteq Grants(c)
        BY <1>1, <1>4 DEF Unbroken
    <3> QED
        BY <1>5, <3>1, <3>2
  <2>2. Unbroken(c) \subseteq Grants(c)
      BY DEF Unbroken
  <2>3. Extended(r) = Later(r.time, m.expires) + p
      BY <1>0, <1>7 DEF Extended
  <2>4. \A k \in Unbroken(c) : m.expires >= Worth(c, k)
      BY <1>7 DEF Lasts, AtLeast
  <2>5. PICK k \in Unbroken(c) : m.expires = Worth(c, k)
      BY <1>7 DEF Lasts, Exactly
  <2>6. /\ Extended(r) >= m.expires + p /\ Extended(r) >= r.time + p
        /\ Extended(r) = m.expires + p \/ Extended(r) = r.time + p
      BY <1>3, <2>3 DEF Later
  <2>7. \A l \in Unbroken(c)' : membership'[c].expires >= Worth(c, l)'
    <3>1. ASSUME NEW l \in Unbroken(c) PROVE membership'[c].expires >= Worth(c, l)'
      <4>1. m.expires >= Worth(c, l) /\ Worth(c, l) \in Nat /\ Worth(c, l)' = Worth(c, l) + p
          BY <1>1, <1>3, <2>2, <2>4
      <4>2. Extended(r) \in Nat
          BY <1>3, <2>6
      <4> QED
          BY <1>2, <1>3, <2>6, <4>1, <4>2
    <3>2. membership'[c].expires >= Worth(c, n)'
        BY <1>1, <1>2, <2>6
    <3>3. ASSUME NEW l \in Unbroken(c)' PROVE membership'[c].expires >= Worth(c, l)'
      <4>1. CASE l \in Unbroken(c)
          BY <3>1, <4>1
      <4>2. CASE l = n
          BY <3>2, <4>2
      <4> QED
          BY <2>1, <4>1, <4>2
    <3> QED
        BY <3>3
  <2>8. \/ membership'[c].expires = Worth(c, k)'
        \/ membership'[c].expires = Worth(c, n)'
      BY <1>1, <1>2, <2>2, <2>5, <2>6
  <2>9. AtLeast(c)' /\ Exactly(c)'
      BY <1>5, <2>1, <2>7, <2>8 DEF AtLeast, Exactly
  <2> QED
      BY <1>5, <1>6, <2>9 DEF Lasts
<1>8. CASE Grants(c) = {} \/ m.network # invoice[i].network
  <2>1. Extended(r) = r.time + p
    <3>1. CASE m.network # invoice[i].network
        BY <1>0, <1>3, <3>1 DEF Extended
    <3>2. CASE Grants(c) = {}
      <4>1. m.expires = 0
          BY <3>2 DEF Lasts, NoMembership
      <4>2. Later(r.time, m.expires) = r.time
          BY <1>3, <4>1 DEF Later
      <4> QED
          BY <1>0, <1>3, <4>2 DEF Extended
    <3> QED
        BY <1>8, <3>1, <3>2
  <2>2. \A k \in Grants(c) : k \notin Unbroken(c)'
    <3>1. CASE Grants(c) = {}
        BY <3>1
    <3>2. CASE Grants(c) # {} /\ m.network # invoice[i].network
      <4>1. PICK l \in Grants(c) : /\ \A k \in Grants(c) : k <= l
                                   /\ m.network = invoice[granted[l]].network
          BY <3>2 DEF Lasts, LatestTerms
      <4>2. invoice'[granted'[l]].network # membership'[c].network /\ l \in Grants(c)'
          BY <1>1, <1>2, <3>2, <4>1
      <4>3. \A k \in Grants(c) : l >= k
          BY <1>3, <4>1
      <4> QED
          BY <1>4, <4>2, <4>3
    <3> QED
        BY <1>8, <3>1, <3>2
  <2>3. Unbroken(c)' = {n}
      BY <1>1, <1>4, <1>5, <2>2
  <2>4. membership'[c].expires = Worth(c, n)' /\ membership'[c].expires >= Worth(c, n)'
      BY <1>1, <1>2, <1>3, <2>1
  <2>5. AtLeast(c)' /\ Exactly(c)'
      BY <2>3, <2>4 DEF AtLeast, Exactly
  <2> QED
      BY <1>5, <1>6, <2>5 DEF Lasts
<1> QED
    BY <1>7, <1>8

\* A grant extends its account's membership by the plan it settles, and no other
\* step changes what an account was granted or has.
THEOREM StepLasting == Sound /\ Lasting /\ [Next]_vars => Lasting'
<1> SUFFICES ASSUME TypeOK, Evidence, Recorded, Lasting, [Next]_vars, NEW c \in Codes
             PROVE  Lasts(c)'
    BY StepAudited DEF Sound, Lasting
<1>1. Stable /\ Lasts(c) /\ Audited
    BY StepKinds DEF Lasting
<1>2. \A k \in DOMAIN granted : /\ granted[k] \in Invoices
                                /\ invoice'[granted[k]] = invoice[granted[k]]
    BY <1>1 DEF TypeOK, Stable, Audited
<1>3. CASE Quiet
  <2>1. Grants(c)' = Grants(c)
      BY <1>2, <1>3 DEF Quiet, Grants
  <2>2. \A k \in Grants(c) : /\ granted'[k] = granted[k]
                             /\ invoice'[granted[k]] = invoice[granted[k]]
      BY <1>2, <1>3 DEF Quiet, Grants
  <2> QED
      BY <1>1, <1>3, <2>1, <2>2, Undisturbed DEF Quiet
<1>4. ASSUME NEW h \in Clients, Grant(h), request[h].code # c
      PROVE  Lasts(c)'
  <2>0. PICK n : NewRow(n, request[h].invoice)
      BY <1>4, GrantAppends
  <2>1. /\ DOMAIN granted' = DOMAIN granted \cup {n}
        /\ granted'[n] = request[h].invoice
        /\ \A k \in DOMAIN granted : granted'[k] = granted[k]
      BY <2>0 DEF NewRow
  <2>2. invoice'[request[h].invoice].owner # c
      BY <1>4, GrantWrites
  <2>3. Grants(c)' = Grants(c)
    <3>1. Grants(c)' = {k \in DOMAIN granted' : invoice'[granted'[k]].owner = c}
        BY DEF Grants
    <3> QED
        BY <1>2, <2>1, <2>2, <3>1 DEF Grants
  <2>4. \A k \in Grants(c) : /\ granted'[k] = granted[k]
                             /\ invoice'[granted[k]] = invoice[granted[k]]
      BY <1>2, <2>1 DEF Grants
  <2>5. membership'[c] = membership[c]
      BY <1>4 DEF Grant, TypeOK
  <2> QED
      BY <1>1, <2>3, <2>4, <2>5, Undisturbed
<1>5. ASSUME NEW h \in Clients, Grant(h), request[h].code = c
      PROVE  Lasts(c)'
    BY <1>1, <1>5, GrantLasts
<1> QED
    BY <1>3, <1>4, <1>5, StepKinds

\* A membership lasts exactly as paid, for any number of purchases on any networks,
\* lapses and late or repeated checks included.
THEOREM LastsAsPaidHolds == Spec => []LastsAsPaid
<1>1. Init => Lasting
  <2> SUFFICES ASSUME Init PROVE Lasting
      OBVIOUS
  <2>1. DOMAIN granted = {}
      BY DEF Init
  <2>2. \A i \in Invoices : invoice[i].state = "absent"
      BY DEF Init, NoInvoice
  <2>3. \A c \in Codes : Grants(c) = {}
      BY <2>1 DEF Grants
  <2> QED
      BY <2>1, <2>2, <2>3 DEF Init, Lasting, Audited, Lasts
<1>2. Sound /\ Lasting => LastsAsPaid
  <2> SUFFICES ASSUME TypeOK, Lasting, NEW c \in Codes
               PROVE  IF PaidBy(c) = {}
                      THEN membership[c] = NoMembership
                      ELSE /\ PaidBy(c) = GrantedFrom(c, 1)
                           /\ LatestTerms(c) /\ AtLeast(c) /\ Exactly(c)
      BY DEF Sound, LastsAsPaid, LatestTerms, AtLeast, Exactly
  <2>1. \A k \in Grants(c) : k >= 1
      BY GrantRows
  <2>2. GrantedFrom(c, 1) = {granted[k] : k \in Grants(c)}
      BY <2>1 DEF GrantedFrom
  <2>3. PaidBy(c) = {granted[k] : k \in Grants(c)}
    <3>1. \A k \in DOMAIN granted : granted[k] \in Invoices
        BY DEF TypeOK
    <3>2. \A k \in Grants(c) : granted[k] \in PaidBy(c)
        BY <3>1 DEF Lasting, Audited, Grants, PaidBy
    <3>3. \A i \in PaidBy(c) : \E k \in Grants(c) : granted[k] = i
        BY DEF Lasting, Audited, Grants, PaidBy
    <3> QED
        BY <3>2, <3>3
  <2>4. PaidBy(c) = {} <=> Grants(c) = {}
      BY <2>3
  <2> QED
      BY <2>2, <2>3, <2>4 DEF Lasting, Lasts
<1>3. Spec => []Lasting
    BY <1>1, StepLasting, AlwaysSound, PTL DEF Spec
<1> QED
    BY <1>2, <1>3, AlwaysSound, PTL
-----------------------------------------------------------------------------
(***************************************************************************)
(* One open invoice.  A handler decides whether to issue one by a clock it *)
(* read earlier; the invoices it finds expired by that clock are expired   *)
(* when it writes, since the clock only moves forward.                     *)
(***************************************************************************)
Punctual == \A h \in Clients : request[h].time <= clock

\* Of two pending invoices of one account and network one has expired.
Separate ==
    \A i, j \in Invoices :
        /\ i # j
        /\ invoice[i].state = "pending" /\ invoice[j].state = "pending"
        /\ invoice[i].owner = invoice[j].owner /\ invoice[i].network = invoice[j].network
        => invoice[i].expires <= clock \/ invoice[j].expires <= clock

\* A pending invoice was pending before, on the same terms.
KeptPending(i) ==
    invoice'[i].state = "pending" =>
        /\ invoice[i].state = "pending"
        /\ invoice'[i].owner = invoice[i].owner
        /\ invoice'[i].network = invoice[i].network
        /\ invoice'[i].expires = invoice[i].expires

\* Only the issue of an invoice makes one pending, and time never runs back.
LEMMA PendingKinds ==
    ASSUME TypeOK, Evidence, [Next]_vars
    PROVE  /\ clock' >= clock
           /\ \/ \A i \in Invoices : KeptPending(i)
              \/ \E h \in Clients, i \in Invoices : Create(h, i)
<1> DEFINE Kept == clock' >= clock /\ \A i \in Invoices : KeptPending(i)
<1> USE DEF TypeOK, KeptPending
<1>0. clock \in Int
    BY DEF Time
<1>1. ASSUME NEW h \in Clients, NEW c \in Codes, BeginCreate(h, c) PROVE Kept
    BY <1>0, <1>1 DEF BeginCreate
<1>2. ASSUME NEW h \in Clients, NEW i \in Invoices, Create(h, i) PROVE clock' >= clock
    BY <1>0, <1>2 DEF Create
<1>3. ASSUME NEW h \in Clients, Decline(h) \/ AnswerEarly(h) \/ FindNothing(h) \/ AnswerLate(h)
      PROVE  Kept
    BY <1>0, <1>3 DEF Decline, AnswerEarly, FindNothing, AnswerLate
<1>4. ASSUME NEW h \in Clients, NEW c \in Codes, NEW i \in Invoices, BeginVerify(h, c, i)
      PROVE  Kept
    BY <1>0, <1>4 DEF BeginVerify
<1>5. ASSUME NEW h \in Clients, StartCheck(h) PROVE Kept
  <2>1. \A i \in Invoices : \/ invoice'[i] = invoice[i]
                            \/ invoice'[i] = [invoice[i] EXCEPT !.checked = request[h].time]
      BY <1>5 DEF StartCheck
  <2> QED
      BY <1>0, <1>5, <2>1 DEF StartCheck, Invoice
<1>6. ASSUME NEW h \in Clients, NEW s \in Signatures, FindTransfer(h, s) PROVE Kept
    BY <1>0, <1>6 DEF FindTransfer
<1>7. ASSUME NEW h \in Clients, Grant(h) PROVE Kept
  <2>1. \A i \in Invoices : invoice'[i] = invoice[i] \/ invoice'[i].state = "paid"
      BY <1>7 DEF Grant, Settled, Invoice
  <2> QED
      BY <1>0, <1>7, <2>1 DEF Grant
<1>8. ASSUME NEW s \in Signatures, NEW R \in SUBSET Issued, Pay(s, R) PROVE Kept
    BY <1>0, <1>8 DEF Pay
<1>9. ASSUME NEW s \in Signatures, Finalize(s) PROVE Kept
    BY <1>0, <1>9 DEF Finalize
<1>10. CASE Tick \/ Restart \/ UNCHANGED vars
    BY <1>0, <1>10 DEF Tick, Restart, vars
<1> HIDE DEF TypeOK, KeptPending
<1> QED
    BY <1>1, <1>2, <1>3, <1>4, <1>5, <1>6, <1>7, <1>8, <1>9, <1>10
       DEF Next, Handler, Environment, Issued

\* A handler never acts on a time that is still to come.
LEMMA StepPunctual == TypeOK /\ Evidence /\ Punctual /\ [Next]_vars => Punctual'
<1> SUFFICES ASSUME TypeOK, Evidence, Punctual, [Next]_vars PROVE Punctual'
    OBVIOUS
<1>1. clock' >= clock /\ clock \in Nat /\ clock' \in Nat
    BY PendingKinds, StepTypeOK DEF TypeOK, Time
<1>2. ASSUME NEW h \in Clients
      PROVE  request'[h].time = request[h].time \/ request'[h].time \in {0, clock}
  <2> USE DEF TypeOK
  <2>1. ASSUME NEW k \in Clients, NEW c \in Codes, BeginCreate(k, c)
        PROVE  request'[h].time = request[h].time \/ request'[h].time = clock
      BY <2>1 DEF BeginCreate, Idle
  <2>2. ASSUME NEW k \in Clients,
               \/ \E i \in Invoices : Create(k, i)
               \/ Decline(k) \/ AnswerEarly(k) \/ FindNothing(k) \/ AnswerLate(k) \/ Grant(k)
        PROVE  request'[h] = request[h] \/ request'[h] = Idle
      BY <2>2 DEF Create, Decline, AnswerEarly, FindNothing, AnswerLate, Grant
  <2>3. ASSUME NEW k \in Clients, NEW c \in Codes, NEW i \in Invoices, BeginVerify(k, c, i)
        PROVE  request'[h].time = request[h].time \/ request'[h].time = clock
      BY <2>3 DEF BeginVerify
  <2>4. ASSUME NEW k \in Clients, StartCheck(k) \/ \E s \in Signatures : FindTransfer(k, s)
        PROVE  request'[h].time = request[h].time
    <3>1. ASSUME StartCheck(k) PROVE request'[h].time = request[h].time
        BY <3>1 DEF StartCheck, Request
    <3>2. ASSUME NEW s \in Signatures, FindTransfer(k, s)
          PROVE  request'[h].time = request[h].time
        BY <3>2 DEF FindTransfer, Request
    <3> QED
        BY <2>4, <3>1, <3>2
  <2>5. CASE Environment
      BY <2>5 DEF Environment, Pay, Finalize, Tick, Restart, Idle
  <2>6. CASE UNCHANGED vars
      BY <2>6 DEF vars
  <2>7. Idle.time = 0
      BY DEF Idle
  <2> HIDE DEF TypeOK
  <2> QED
      BY <2>1, <2>2, <2>3, <2>4, <2>5, <2>6, <2>7 DEF Next, Handler
<1>3. \A h \in Clients : request[h].time <= clock /\ request[h].time \in Nat
    BY DEF Punctual, TypeOK, Request, Time
<1> QED
    BY <1>1, <1>2, <1>3 DEF Punctual

\* An invoice is issued only where the others of its account and network have expired.
LEMMA StepSeparate == TypeOK /\ Evidence /\ Punctual /\ Separate /\ [Next]_vars => Separate'
<1> SUFFICES ASSUME TypeOK, Evidence, Punctual, Separate, [Next]_vars PROVE Separate'
    OBVIOUS
<1>1. clock' >= clock /\ clock \in Nat /\ clock' \in Nat
    BY PendingKinds, StepTypeOK DEF TypeOK, Time
<1>2. \A i \in Invoices : invoice[i].expires \in Nat
    BY DEF TypeOK, Invoice
<1>3. CASE \A i \in Invoices : KeptPending(i)
    BY <1>1, <1>2, <1>3 DEF Separate, KeptPending
<1>4. ASSUME NEW h \in Clients, NEW i \in Invoices, Create(h, i) PROVE Separate'
  <2> DEFINE r == request[h]
  <2>1. /\ invoice'[i].owner = r.code /\ invoice'[i].network = config.network
        /\ \A j \in Invoices : j # i => invoice'[j] = invoice[j]
        /\ clock' = clock
      BY <1>4 DEF Create, NoInvoice, TypeOK
  <2>2. r.code \in Codes /\ config.network \in Networks
      BY <1>4 DEF Create, Evidence, Supported, TypeOK, Config
  <2>3. Open(r.code, config.network, r.time) = {}
      BY <1>4 DEF Create, Declined
  <2>4. r.time <= clock /\ r.time \in Nat
      BY DEF Punctual, TypeOK, Request, Time
  <2>5. ASSUME NEW j \in Invoices, invoice[j].state = "pending",
               invoice[j].owner = r.code, invoice[j].network = config.network
        PROVE  invoice[j].expires <= clock
    <3>1. ~(invoice[j].expires > r.time)
        BY <2>3, <2>5 DEF Open
    <3> QED
        BY <1>1, <1>2, <2>4, <3>1
  <2>6. ASSUME NEW j \in Invoices, NEW k \in Invoices, j # k,
               invoice'[j].state = "pending", invoice'[k].state = "pending",
               invoice'[j].owner = invoice'[k].owner, invoice'[j].network = invoice'[k].network
        PROVE  invoice'[j].expires <= clock' \/ invoice'[k].expires <= clock'
    <3>1. CASE j = i
        BY <2>1, <2>5, <2>6, <3>1
    <3>2. CASE k = i
        BY <2>1, <2>5, <2>6, <3>2
    <3>3. CASE j # i /\ k # i
        BY <2>1, <2>6, <3>3 DEF Separate
    <3> QED
        BY <3>1, <3>2, <3>3
  <2> QED
      BY <2>6 DEF Separate
<1> QED
    BY <1>3, <1>4, PendingKinds

\* An account never has two open invoices of one network.
THEOREM OneOpenInvoiceHolds == Spec => []OneOpenInvoice
<1>1. Init => Punctual /\ Separate
    BY SolPaymentsAssumption DEF Init, Punctual, Separate, Idle, NoInvoice
<1>2. Sound => TypeOK /\ Evidence
    BY DEF Sound
<1>3. Spec => [](Punctual /\ Separate)
    BY <1>1, <1>2, StepPunctual, StepSeparate, AlwaysSound, PTL DEF Spec
<1>4. TypeOK /\ Separate => OneOpenInvoice
  <2> SUFFICES ASSUME TypeOK, Separate, NEW c \in Codes, NEW n \in Networks
               PROVE  Cardinality(Open(c, n, clock)) <= 1
      BY DEF OneOpenInvoice
  <2>1. ASSUME NEW i \in Open(c, n, clock), NEW j \in Open(c, n, clock) PROVE i = j
    <3>1. /\ invoice[i].expires \in Nat /\ invoice[j].expires \in Nat /\ clock \in Nat
          /\ invoice[i].expires > clock /\ invoice[j].expires > clock
        BY DEF Open, TypeOK, Invoice, Time
    <3> QED
        BY <2>1, <3>1 DEF Open, Separate
  <2>2. CASE Open(c, n, clock) = {}
      BY <2>2, FS_EmptySet
  <2>3. CASE Open(c, n, clock) # {}
    <3>1. PICK i \in Open(c, n, clock) : Open(c, n, clock) = {i}
        BY <2>1, <2>3
    <3> QED
        BY <3>1, FS_Singleton
  <2> QED
      BY <2>2, <2>3
<1> QED
    BY <1>2, <1>3, <1>4, AlwaysSound, PTL
=============================================================================
