-------------------------- MODULE PaygPeriodProofs --------------------------
(***************************************************************************)
(* Safety of weekly billing, for any number of weeks, workers, deliveries  *)
(* and failures, and any costs and credits.                                *)
(***************************************************************************)
EXTENDS PaygPeriod, FiniteSetTheorems, TLAPS

(***************************************************************************)
(* The four invariants hold together.  The provider answers to one request *)
(* id per week, so a week has one invoice (InvoicesOK); a row only ever    *)
(* names that one (RowOK); and a worker or a webhook in progress still     *)
(* knows what it saw, because nothing that it saw can be taken back: lines *)
(* stay, a final invoice stays final, a paid one paid (WorkerOK, HookOK).  *)
(* The cost is fixed once a period is claimed: credits come before.        *)
(***************************************************************************)
Id(p) == <<"payg", p>>

Known(p) == Id(p) \in DOMAIN invoices

Lined(p) == Known(p) /\ invoices[Id(p)].keys = {Id(p)}

Final(p) == Known(p) /\ invoices[Id(p)].state # "draft"

PaidInvoice(p) == Known(p) /\ invoices[Id(p)].state = "paid"

Billed(p) == Bill(p) = 0 \/ row[p].qrFlow \/ Final(p)

Evidence(p) == intent[p] = "succeeded" \/ PaidInvoice(p)

\* An invoice without a line, or with the line `key` about the amount c.
OneLine(i, key, c) == \/ i.state = "draft" /\ i.keys = {} /\ i.amount = 0
                      \/ i.keys = {key} /\ i.amount = c

InvoiceOK(p) ==
  Known(p) => row[p].status # None /\ OneLine(invoices[Id(p)], Id(p), Bill(p))

InvoicesOK ==
  /\ DOMAIN invoices \subseteq {Id(p) : p \in Periods}
  /\ \A p \in Periods : InvoiceOK(p)

RowOK(p) ==
  /\ row[p].status # None => p <= closed /\ row[p].cost = Cost(p)
  /\ row[p].invoice # None => row[p].invoice = Id(p) /\ Known(p)
  /\ row[p].items => Lined(p)
  /\ qr[p] # None => row[p].status # None /\ row[p].qrFlow
  /\ row[p].status \in Done => Billed(p)
  /\ row[p].status = "paid" \/ row[p].paidAt \/ p \in documented => Evidence(p)
  /\ p < pointer => row[p].status # None /\ Billed(p)

Knows(k) ==
  /\ row[k.period].status # None /\ k.bill = Bill(k.period)
  /\ k.items => Lined(k.period)
  /\ k.paid => PaidInvoice(k.period)

MayBe(place, i, p) ==
  /\ place = "skip" => Bill(p) = 0
  /\ place \in {"fetch", "save", "items", "mark", "finalize", "settle"} => i = Id(p) /\ Known(p)
  /\ place \in {"mark", "finalize"} => Lined(p)
  /\ place = "settle" => Final(p)
  /\ place = "document" => PaidInvoice(p)

WorkerOK(k) == k.at # "idle" => Knows(k) /\ MayBe(k.at, k.invoice, k.period)

Applied(kind, p) == row[p].invoice = Id(p) /\ (kind = "paid" => row[p].paidAt)

HookOK(k) ==
  k.at # "idle" =>
    \E p \in Periods :
      /\ k.id = Id(p) /\ Known(p)
      /\ k.kind = "failed" => Final(p)
      /\ k.kind = "paid" => PaidInvoice(p)
      /\ k.at \in {"document", "mark"} => Applied(k.kind, p)
      /\ k.at = "document" => k.kind = "paid"

EventOK(event) ==
  \E p \in Periods : event[2] = Id(p) /\ Known(p) /\ Applied(event[1], p)

IInv ==
  /\ TypeOK /\ InvoicesOK
  /\ \A p \in Periods : RowOK(p)
  /\ \A w \in Workers : WorkerOK(worker[w])
  /\ caller.at # "idle" => row[caller.period].status # None
  /\ \A d \in Deliveries : HookOK(hook[d])
  /\ \A event \in processed : EventOK(event)

-----------------------------------------------------------------------------
RowRecords == [status : Statuses, cost : Nat, fresh : BOOLEAN, invoice : Ids \cup {None},
               items : BOOLEAN, qrFlow : BOOLEAN, paidAt : BOOLEAN]

InvoiceRecords == [state : {"draft", "finalized", "paid"}, amount : Nat, keys : SUBSET Ids]

WorkerRecords == [at : WorkerPlaces, period : Periods, invoice : Ids \cup {None},
                  items : BOOLEAN, bill : Nat, paid : BOOLEAN]

HookRecords == [at : HookPlaces, kind : EventKinds, id : Ids \cup {None}]

\* Periods are positive, and each has an id of its own.
LEMMA PeriodsAreNats ==
  /\ Periods \subseteq Nat \ {0} /\ PeriodCount \in Nat \ {0}
  /\ \A p \in Periods : Id(p) \in Ids /\ Id(p) # None /\ Id(p)[1] = "payg" /\ Id(p)[2] = p
BY PaygAssumption, NoneAssumption DEF Periods, Id, Ids

\* What a week costs is an amount.
LEMMA CostType ==
  ASSUME TypeOK, NEW p \in Periods
  PROVE  Cost(p) \in Nat
<1>1. credit \in [Periods -> Credits \cup {0}]
  BY DEF TypeOK
<1>2. Credits \cup {0} \subseteq Nat /\ Usage \in [Periods -> Nat]
  BY PaygAssumption
<1>3. credit[p] \in Nat
  BY <1>1, <1>2
<1>4. Usage[p] \in Nat
  BY <1>2
<1> QED BY <1>3, <1>4 DEF Cost

\* What is billed of it is a number of cents.
LEMMA BillType ==
  ASSUME TypeOK, NEW p \in Periods
  PROVE  Bill(p) \in Nat
<1>1. Cost(p) \in Nat /\ Cent \in Nat \ {0}
  BY CostType, PaygAssumption
<1>2. ASSUME NEW a \in Nat, NEW b \in Nat \ {0} PROVE a \div b \in Nat
  BY <1>2
<1>3. 2 * Cost(p) + Cent \in Nat /\ 2 * Cent \in Nat \ {0}
  BY <1>1
<1> QED BY <1>2, <1>3 DEF Bill, InvoiceAmount

\* What the calls in progress know has its type.
LEMMA Places ==
  ASSUME TypeOK
  PROVE  /\ \A p \in Periods : row[p] \in RowRecords
         /\ \A w \in Workers : worker[w] \in WorkerRecords /\ worker[w].period \in Periods
         /\ \A d \in Deliveries : hook[d] \in HookRecords
         /\ caller.period \in Periods
         /\ \A i \in DOMAIN invoices : invoices[i] \in InvoiceRecords
BY DEF TypeOK, RowRecords, WorkerRecords, HookRecords, InvoiceRecords

\* The ways a step may change the row of a period.
RowCase(p) ==
  \/ row'[p] = row[p]
  \/ row'[p] = [row[p] EXCEPT !.fresh = FALSE]
  \/ /\ pointer = p /\ p <= closed
     /\ row'[p] = [row[p] EXCEPT !.status = "processing", !.fresh = TRUE, !.cost = Cost(p)]
  \/ \E w \in Workers :
       /\ worker[w].period = p
       /\ \/ /\ worker[w].at = "skip"
             /\ row'[p] = [row[p] EXCEPT !.status = "skipped", !.fresh = TRUE]
          \/ /\ worker[w].at = "await"
             /\ row'[p] = [row[p] EXCEPT !.status = "payment_due", !.fresh = TRUE, !.qrFlow = TRUE]
          \/ /\ worker[w].at = "save"
             /\ row'[p] = [row[p] EXCEPT !.invoice = worker[w].invoice]
          \/ worker[w].at = "mark" /\ row'[p] = [row[p] EXCEPT !.items = TRUE]
          \/ /\ worker[w].at = "settle"
             /\ row'[p] = [row[p] EXCEPT !.status = IF worker[w].paid THEN "paid" ELSE "payment_due",
                                         !.fresh = TRUE, !.paidAt = @ \/ worker[w].paid]
          \/ worker[w].at = "fail" /\ row'[p] = [row[p] EXCEPT !.status = "failed"]
  \/ /\ caller.at = "create" /\ caller.period = p
     /\ row'[p] = [row[p] EXCEPT !.status = "payment_due", !.qrFlow = TRUE]
  \/ /\ caller.at = "fail" /\ caller.period = p
     /\ row'[p] = [row[p] EXCEPT !.status = "failed"]
  \/ /\ qr[p] # None /\ intent[p] = "succeeded"
     /\ row'[p] = [row[p] EXCEPT !.status = "paid", !.paidAt = TRUE]
  \/ \E d \in Deliveries :
       /\ hook[d].at = "apply" /\ hook[d].id[2] = p
       /\ row'[p] = [Reported(row[p], hook[d].kind) EXCEPT !.invoice = hook[d].id]

\* Every change of a row is one of these.
LEMMA RowCases ==
  ASSUME IInv, Next, NEW p \in Periods
  PROVE  RowCase(p)
<1>0. row \in [Periods -> RowRecords]
  BY DEF IInv, TypeOK, RowRecords
<1>1. CASE row' = row
  BY <1>1 DEF RowCase
<1>2. ASSUME NEW j \in Periods, LeaseExpires(j) PROVE RowCase(p)
  BY <1>0, <1>2 DEF LeaseExpires, RowCase
<1>3. ASSUME NEW w \in Workers, ClaimDuePaygPeriod(w) PROVE RowCase(p)
  <2>1. pointer \in Periods /\ closed >= pointer
        /\ row' = [row EXCEPT ![pointer] = [row[pointer] EXCEPT !.status = "processing",
                                              !.fresh = TRUE, !.cost = Cost(pointer)]]
    BY <1>0, <1>3 DEF ClaimDuePaygPeriod
  <2>2. pointer = p => p <= closed
    BY <2>1 DEF IInv, TypeOK
  <2>3. CASE pointer = p
    BY <1>0, <2>1, <2>2, <2>3 DEF RowCase
  <2>4. CASE pointer # p
    BY <1>0, <2>1, <2>4 DEF RowCase
  <2> QED BY <2>3, <2>4
<1>4. ASSUME NEW w \in Workers, Issue(w) PROVE RowCase(p)
  <2>0. worker[w] \in WorkerRecords
    BY Places DEF IInv
  <2>1. CASE Close(w)
    <3>1. CASE worker[w].at = "skip"
      BY <1>0, <2>1, <3>1 DEF Close, MarkPaygPeriodSkipped, MarkPaygPeriodAwaitingQrPayment,
         Write, RowCase
    <3>2. CASE worker[w].at = "await"
      BY <1>0, <2>1, <3>2 DEF Close, MarkPaygPeriodSkipped, MarkPaygPeriodAwaitingQrPayment,
         Write, RowCase
    <3> QED BY <2>1, <3>1, <3>2 DEF Close, MarkPaygPeriodSkipped, MarkPaygPeriodAwaitingQrPayment
  <2>2. CASE SavePaygProviderInvoice(w)
    BY <1>0, <2>2 DEF SavePaygProviderInvoice, Write, RowCase
  <2>3. CASE MarkPaygLineItemsAdded(w)
    BY <1>0, <2>3 DEF MarkPaygLineItemsAdded, Write, RowCase
  <2>4. CASE SettleFinalizedInvoice(w)
    BY <1>0, <2>4 DEF SettleFinalizedInvoice, Write, RowCase
  <2>5. CASE FailPaygPeriod(w)
    BY <1>0, <2>5 DEF FailPaygPeriod, RowCase
  <2>6. CASE FetchAirwallexInvoice(w) \/ CreatePaygInvoiceDraft(w) \/ AddPaygInvoiceLineItems(w)
             \/ FinalizePaygInvoice(w) \/ CreatePaidStorageInvoice(w)
    <3>1. row' = row
      BY <2>6 DEF FetchAirwallexInvoice, CreatePaygInvoiceDraft, AddPaygInvoiceLineItems,
         FinalizePaygInvoice, CreatePaidStorageInvoice, Ask
    <3> QED BY <1>1, <3>1
  <2> QED BY <1>4, <2>1, <2>2, <2>3, <2>4, <2>5, <2>6 DEF Issue
<1>5. CASE CreatePaygQrPayment \/ QrPaymentFails
  <2>1. caller.period \in Periods
    BY Places DEF IInv
  <2>2. CASE QrPaymentFails
    BY <1>0, <2>1, <2>2 DEF QrPaymentFails, RowCase
  <2>3. CASE CreatePaygQrPayment
    <3>1. row' = row \/ row' = [row EXCEPT ![caller.period].status = "payment_due",
                                           ![caller.period].qrFlow = TRUE]
      BY <2>3 DEF CreatePaygQrPayment
    <3>2. CASE row' # row
      BY <1>0, <2>1, <2>3, <3>1, <3>2 DEF CreatePaygQrPayment, RowCase
    <3> QED BY <1>1, <3>2
  <2> QED BY <1>5, <2>2, <2>3
<1>6. ASSUME NEW j \in Periods, NEW s \in {"active", "ended", "succeeded"},
             ApplyPaygQrPaymentIntentStatus(j, s)
      PROVE  RowCase(p)
  <2>1. CASE s = "succeeded"
    BY <1>0, <1>6, <2>1 DEF ApplyPaygQrPaymentIntentStatus, RowCase
  <2>2. CASE s # "succeeded"
    BY <1>1, <1>6, <2>2 DEF ApplyPaygQrPaymentIntentStatus
  <2> QED BY <2>1, <2>2
<1>7. ASSUME NEW d \in Deliveries, ApplyPaygInvoiceWebhook(d) PROVE RowCase(p)
  <2>1. CASE row' = row
    BY <1>1, <2>1
  <2>2. CASE row' # row
    <3>1. hook[d].id[2] \in Periods
      BY <1>7, PeriodsAreNats DEF IInv, HookOK, ApplyPaygInvoiceWebhook
    <3>2. /\ hook[d].at = "apply"
          /\ row' = [row EXCEPT ![hook[d].id[2]] =
                       [Reported(row[hook[d].id[2]], hook[d].kind) EXCEPT !.invoice = hook[d].id]]
      BY <1>7, <2>2 DEF ApplyPaygInvoiceWebhook
    <3>3. CASE hook[d].id[2] = p
      BY <1>0, <3>2, <3>3 DEF RowCase
    <3>4. CASE hook[d].id[2] # p
      BY <1>0, <3>1, <3>2, <3>4 DEF RowCase
    <3> QED BY <3>3, <3>4
  <2> QED BY <2>1, <2>2
<1> QED BY <1>1, <1>2, <1>3, <1>4, <1>5, <1>6, <1>7
        DEF Next, WeekEnds, RepairCompletedProfilePointers, ReconcilePaidBillingInvoices,
            RequestQrPayment, Pay, AddWorkspaceUsageAdjustment, Dies, ClaimWebhook,
            DocumentWebhook, MarkWebhookProcessed

\* The ways a step may change the provider's invoice of a week.
InvoiceCase(p) ==
  \/ (Known(p)' <=> Known(p)) /\ (Known(p) => invoices'[Id(p)] = invoices[Id(p)])
  \/ /\ \E w \in Workers : worker[w].at = "create" /\ worker[w].period = p
     /\ ~Known(p) /\ Known(p)'
     /\ invoices'[Id(p)] = [state |-> "draft", amount |-> 0, keys |-> {}]
  \/ /\ Known(p) /\ Known(p)' /\ invoices[Id(p)].state = "draft"
     /\ Id(p) \notin invoices[Id(p)].keys
     /\ \E w \in Workers :
          /\ worker[w].at = "items" /\ worker[w].period = p
          /\ invoices'[Id(p)] = [invoices[Id(p)] EXCEPT !.amount = @ + worker[w].bill,
                                                       !.keys = @ \cup {Id(p)}]
  \/ /\ Known(p) /\ Known(p)' /\ Lined(p) /\ invoices[Id(p)].state = "draft"
     /\ invoices'[Id(p)] = [invoices[Id(p)] EXCEPT !.state = "finalized"]
  \/ /\ Known(p) /\ Known(p)' /\ invoices[Id(p)].state = "finalized"
     /\ invoices'[Id(p)] = [invoices[Id(p)] EXCEPT !.state = "paid"]

\* Every change of an invoice is one of these, and there are no other invoices.
LEMMA InvoiceCases ==
  ASSUME IInv, Next
  PROVE  /\ DOMAIN invoices' \subseteq {Id(p) : p \in Periods}
         /\ \A p \in Periods : InvoiceCase(p)
<1>0. DOMAIN invoices \subseteq {Id(p) : p \in Periods}
  BY DEF IInv, InvoicesOK
<1> DEFINE G == /\ DOMAIN invoices' \subseteq {Id(p) : p \in Periods}
                /\ \A p \in Periods : InvoiceCase(p)
<1>1. CASE invoices' = invoices
  BY <1>0, <1>1 DEF InvoiceCase, Known
<1>2. ASSUME NEW i \in DOMAIN invoices, NEW new, invoices' = [invoices EXCEPT ![i] = new],
             NEW j \in Periods, i = Id(j),
             [invoices EXCEPT ![i] = new][i] = new => InvoiceCase(j)
      PROVE  G
  <2>1. DOMAIN invoices' = DOMAIN invoices /\ [invoices EXCEPT ![i] = new][i] = new
    BY <1>2
  <2>2. ASSUME NEW p \in Periods, p # j PROVE InvoiceCase(p)
    <3>1. Id(p) # i
      BY <1>2, <2>2, PeriodsAreNats
    <3> QED BY <1>2, <3>1 DEF InvoiceCase, Known
  <2> QED BY <1>0, <1>2, <2>1, <2>2
<1>3. ASSUME NEW w \in Workers, CreatePaygInvoiceDraft(w), invoices' # invoices
      PROVE  G
  <2>0. PICK j \in Periods : j = worker[w].period
    BY Places DEF IInv
  <2>1. RequestId(w, j) = Id(j)
    BY DEF RequestId, Id
  <2>2. /\ Id(j) \notin DOMAIN invoices /\ worker[w].at = "create"
        /\ invoices' = [i \in DOMAIN invoices \cup {Id(j)} |->
                          IF i = Id(j) THEN [state |-> "draft", amount |-> 0, keys |-> {}]
                          ELSE invoices[i]]
    BY <1>3, <2>0, <2>1 DEF CreatePaygInvoiceDraft, Ask
  <2>3. ASSUME NEW p \in Periods, p # j PROVE InvoiceCase(p)
    <3>1. Id(p) # Id(j)
      BY <2>3, PeriodsAreNats
    <3>2. Id(p) \in DOMAIN invoices' <=> Id(p) \in DOMAIN invoices
      BY <2>2, <3>1
    <3>3. Id(p) \in DOMAIN invoices => invoices'[Id(p)] = invoices[Id(p)]
      BY <2>2, <3>1
    <3> QED BY <3>2, <3>3 DEF InvoiceCase, Known
  <2>4. InvoiceCase(j)
    BY <2>0, <2>2 DEF InvoiceCase, Known
  <2>5. DOMAIN invoices' \subseteq {Id(p) : p \in Periods}
    BY <1>0, <2>2
  <2> QED BY <2>3, <2>4, <2>5
<1>4. ASSUME NEW w \in Workers, AddPaygInvoiceLineItems(w), invoices' # invoices
      PROVE  G
  <2>0. PICK j \in Periods : j = worker[w].period
    BY Places DEF IInv
  <2> DEFINE old == invoices[Id(j)]
  <2>1. /\ RequestId(w, j) = Id(j) /\ worker[w].invoice = Id(j) /\ Known(j)
        /\ worker[w].at = "items"
    BY <1>4, <2>0 DEF IInv, RequestId, Id, WorkerOK, Knows, MayBe, AddPaygInvoiceLineItems
  <2>2. /\ Id(j) \notin old.keys /\ old.state = "draft"
        /\ invoices' = [invoices EXCEPT ![Id(j)].amount = old.amount + worker[w].bill,
                                        ![Id(j)].keys = old.keys \cup {Id(j)}]
    BY <1>4, <2>0, <2>1 DEF AddPaygInvoiceLineItems, Ask
  <2>3. invoices' = [invoices EXCEPT ![Id(j)] =
                       [old EXCEPT !.amount = old.amount + worker[w].bill,
                                   !.keys = old.keys \cup {Id(j)}]]
    BY <2>1, <2>2 DEF Known
  <2>4. InvoiceCase(j)
    BY <2>0, <2>1, <2>2, <2>3 DEF InvoiceCase, Known
  <2> QED BY <1>2, <2>1, <2>3, <2>4 DEF Known
<1>5. ASSUME NEW w \in Workers, FinalizePaygInvoice(w), invoices' # invoices
      PROVE  G
  <2>0. PICK j \in Periods : j = worker[w].period
    BY Places DEF IInv
  <2>1. worker[w].invoice = Id(j) /\ Known(j) /\ Lined(j)
    BY <1>5, <2>0 DEF IInv, WorkerOK, Knows, MayBe, FinalizePaygInvoice
  <2>2. /\ invoices[Id(j)].state = "draft"
        /\ invoices' = [invoices EXCEPT ![Id(j)] = [invoices[Id(j)] EXCEPT !.state = "finalized"]]
    BY <1>5, <2>1 DEF FinalizePaygInvoice, Ask, Known
  <2>3. InvoiceCase(j)
    BY <2>1, <2>2 DEF InvoiceCase, Known
  <2> QED BY <1>2, <2>1, <2>2, <2>3 DEF Known
<1>6. ASSUME NEW p \in Periods, Pay(p), invoices' # invoices
      PROVE  G
  <2>1. PICK i \in DOMAIN invoices :
          /\ i[2] = p /\ invoices[i].state = "finalized"
          /\ invoices' = [invoices EXCEPT ![i].state = "paid"]
    BY <1>6 DEF Pay
  <2>2. i = Id(p) /\ Known(p)
    BY <1>0, <2>1, PeriodsAreNats DEF Known
  <2>3. invoices' = [invoices EXCEPT ![Id(p)] = [invoices[Id(p)] EXCEPT !.state = "paid"]]
    BY <2>1, <2>2
  <2>4. InvoiceCase(p)
    BY <2>1, <2>2, <2>3 DEF InvoiceCase, Known
  <2> QED BY <1>2, <2>2, <2>3, <2>4 DEF Known
<1>7. ASSUME invoices' # invoices
      PROVE  \/ \E w \in Workers : \/ CreatePaygInvoiceDraft(w) \/ AddPaygInvoiceLineItems(w)
                                   \/ FinalizePaygInvoice(w)
             \/ \E p \in Periods : Pay(p)
  BY <1>7 DEF Next, WeekEnds, RepairCompletedProfilePointers, ReconcilePaidBillingInvoices,
     RequestQrPayment, AddWorkspaceUsageAdjustment, Dies, ClaimWebhook, LeaseExpires,
     DocumentWebhook, MarkWebhookProcessed, ApplyPaygInvoiceWebhook, ClaimDuePaygPeriod,
     CreatePaygQrPayment, QrPaymentFails, ApplyPaygQrPaymentIntentStatus, provider, Issue, Close,
     MarkPaygPeriodSkipped, MarkPaygPeriodAwaitingQrPayment,
     Write, FetchAirwallexInvoice, Ask, SavePaygProviderInvoice, MarkPaygLineItemsAdded,
     SettleFinalizedInvoice, CreatePaidStorageInvoice, FailPaygPeriod
<1> QED BY <1>1, <1>3, <1>4, <1>5, <1>6, <1>7
-----------------------------------------------------------------------------
\* What no step takes back.
Kept(p) ==
  /\ row[p].status # None => row'[p].status # None /\ Cost(p)' = Cost(p) /\ Bill(p)' = Bill(p)
  /\ Known(p) => Known(p)'
  /\ Lined(p) => Lined(p)'
  /\ Final(p) => Final(p)'
  /\ PaidInvoice(p) => PaidInvoice(p)'
  /\ row[p].qrFlow => row'[p].qrFlow
  /\ row[p].paidAt => row'[p].paidAt
  /\ row[p].invoice # None => row'[p].invoice = row[p].invoice
  /\ intent[p] = "succeeded" => intent'[p] = "succeeded"

\* The fields of a row; fresh is any.
Has(new, status, cost, invoice, items, qrFlow, paidAt) ==
  /\ new \in RowRecords
  /\ new.status = status /\ new.cost = cost /\ new.invoice = invoice
  /\ new.items = items /\ new.qrFlow = qrFlow /\ new.paidAt = paidAt

\* What the statements make of the fields of a row.
LEMMA Edits ==
  ASSUME NEW old \in RowRecords, NEW s \in Statuses
  PROVE  /\ Has(old, old.status, old.cost, old.invoice, old.items, old.qrFlow, old.paidAt)
         /\ Has([old EXCEPT !.fresh = FALSE],
                old.status, old.cost, old.invoice, old.items, old.qrFlow, old.paidAt)
         /\ Has([old EXCEPT !.items = TRUE],
                old.status, old.cost, old.invoice, TRUE, old.qrFlow, old.paidAt)
         /\ Has([old EXCEPT !.status = s],
                s, old.cost, old.invoice, old.items, old.qrFlow, old.paidAt)
         /\ Has([old EXCEPT !.status = s, !.fresh = TRUE],
                s, old.cost, old.invoice, old.items, old.qrFlow, old.paidAt)
         /\ Has([old EXCEPT !.status = s, !.fresh = TRUE, !.qrFlow = TRUE],
                s, old.cost, old.invoice, old.items, TRUE, old.paidAt)
         /\ Has([old EXCEPT !.status = s, !.qrFlow = TRUE],
                s, old.cost, old.invoice, old.items, TRUE, old.paidAt)
         /\ Has([old EXCEPT !.status = s, !.paidAt = TRUE],
                s, old.cost, old.invoice, old.items, old.qrFlow, TRUE)
BY DEF RowRecords, Has

\* The claim of a period.
LEMMA ClaimEdit ==
  ASSUME NEW old \in RowRecords, NEW c \in Nat
  PROVE  Has([old EXCEPT !.status = "processing", !.fresh = TRUE, !.cost = c],
             "processing", c, old.invoice, old.items, old.qrFlow, old.paidAt)
BY DEF RowRecords, Has, Statuses

\* The invoice that is saved in the row.
LEMMA SaveEdit ==
  ASSUME NEW old \in RowRecords, NEW i \in Ids
  PROVE  Has([old EXCEPT !.invoice = i],
             old.status, old.cost, i, old.items, old.qrFlow, old.paidAt)
BY DEF RowRecords, Has

\* The two ways to settle a period.
LEMMA Settled ==
  ASSUME NEW old \in RowRecords, NEW paid \in BOOLEAN
  PROVE  LET new == [old EXCEPT !.status = IF paid THEN "paid" ELSE "payment_due",
                                !.fresh = TRUE, !.paidAt = @ \/ paid]
         IN /\ paid => Has(new, "paid", old.cost, old.invoice, old.items, old.qrFlow, TRUE)
            /\ ~paid => Has(new, "payment_due", old.cost, old.invoice, old.items, old.qrFlow,
                            old.paidAt)
BY DEF RowRecords, Has, Statuses

\* The three events of an invoice.
LEMMA Reports ==
  ASSUME NEW old \in RowRecords, NEW kind \in EventKinds, NEW i \in Ids
  PROVE  LET new == [Reported(old, kind) EXCEPT !.invoice = i]
         IN /\ kind = "paid" => Has(new, "paid", old.cost, i, old.items, old.qrFlow, TRUE)
            /\ kind = "failed" => Has(new, "payment_failed", old.cost, i, old.items,
                                      old.qrFlow, old.paidAt)
            /\ kind = "created" => Has(new, old.status, old.cost, i, old.items, old.qrFlow,
                                       old.paidAt)
BY DEF Reported, RowRecords, Has, Statuses

\* The row after a step, field by field.
RowEffect(p) ==
  LET old == row[p]
      Is(s, c, i, l, q, t) == Has(row'[p], s, c, i, l, q, t)
  IN \/ Is(old.status, old.cost, old.invoice, old.items, old.qrFlow, old.paidAt)
     \/ /\ pointer = p /\ p <= closed
        /\ Is("processing", Cost(p), old.invoice, old.items, old.qrFlow, old.paidAt)
     \/ /\ Is("failed", old.cost, old.invoice, old.items, old.qrFlow, old.paidAt)
        /\ \/ \E w \in Workers : worker[w].at = "fail" /\ worker[w].period = p
           \/ caller.at = "fail" /\ caller.period = p
     \/ /\ \E w \in Workers : worker[w].at = "skip" /\ worker[w].period = p
        /\ Is("skipped", old.cost, old.invoice, old.items, old.qrFlow, old.paidAt)
     \/ /\ \/ \E w \in Workers : worker[w].at = "await" /\ worker[w].period = p
           \/ caller.at = "create" /\ caller.period = p
        /\ Is("payment_due", old.cost, old.invoice, old.items, TRUE, old.paidAt)
     \/ /\ \E w \in Workers : worker[w].at = "save" /\ worker[w].period = p
        /\ Is(old.status, old.cost, Id(p), old.items, old.qrFlow, old.paidAt)
     \/ /\ \E w \in Workers : worker[w].at = "mark" /\ worker[w].period = p
        /\ Is(old.status, old.cost, old.invoice, TRUE, old.qrFlow, old.paidAt)
     \/ /\ Final(p) /\ \E w \in Workers : worker[w].at = "settle" /\ worker[w].period = p
        /\ Is("payment_due", old.cost, old.invoice, old.items, old.qrFlow, old.paidAt)
     \/ /\ PaidInvoice(p) /\ \E w \in Workers : worker[w].at = "settle" /\ worker[w].period = p
        /\ Is("paid", old.cost, old.invoice, old.items, old.qrFlow, TRUE)
     \/ /\ qr[p] # None /\ intent[p] = "succeeded"
        /\ Is("paid", old.cost, old.invoice, old.items, old.qrFlow, TRUE)
     \/ PaidInvoice(p) /\ Is("paid", old.cost, Id(p), old.items, old.qrFlow, TRUE)
     \/ Final(p) /\ Is("payment_failed", old.cost, Id(p), old.items, old.qrFlow, old.paidAt)
     \/ Known(p) /\ Is(old.status, old.cost, Id(p), old.items, old.qrFlow, old.paidAt)

\* Every change of a row has one of these effects.
LEMMA RowEffects ==
  ASSUME IInv, Next, NEW p \in Periods
  PROVE  RowEffect(p)
<1>0. /\ row[p] \in RowRecords /\ Cost(p) \in Nat
      /\ \A w \in Workers : worker[w] \in WorkerRecords /\ WorkerOK(worker[w])
      /\ \A d \in Deliveries : hook[d] \in HookRecords /\ HookOK(hook[d])
      /\ Id(p) \in Ids
  BY Places, CostType, PeriodsAreNats DEF IInv
<1>1. {"processing", "payment_due", "payment_failed", "paid", "skipped", "failed"} \subseteq Statuses
  BY DEF Statuses
<1> DEFINE old == row[p]
           Is(st, c, i, l, q, t) == Has(row'[p], st, c, i, l, q, t)
<1>2. CASE row'[p] = row[p] \/ row'[p] = [row[p] EXCEPT !.fresh = FALSE]
  <2>1. PICK st \in Statuses : TRUE
    BY <1>1
  <2>2. Is(old.status, old.cost, old.invoice, old.items, old.qrFlow, old.paidAt)
    BY <1>0, <1>2, <2>1, Edits
  <2> QED BY <2>2 DEF RowEffect
<1>3. CASE /\ pointer = p /\ p <= closed
           /\ row'[p] = [row[p] EXCEPT !.status = "processing", !.fresh = TRUE, !.cost = Cost(p)]
  <2>1. Is("processing", Cost(p), old.invoice, old.items, old.qrFlow, old.paidAt)
    BY <1>0, <1>3, ClaimEdit
  <2> QED BY <1>3, <2>1 DEF RowEffect
<1>4. ASSUME NEW w \in Workers, worker[w].period = p, worker[w].at = "save",
             row'[p] = [row[p] EXCEPT !.invoice = worker[w].invoice]
      PROVE  RowEffect(p)
  <2>1. worker[w].invoice = Id(p)
    BY <1>0, <1>4 DEF WorkerOK, Knows, MayBe
  <2>2. Is(old.status, old.cost, Id(p), old.items, old.qrFlow, old.paidAt)
    BY <1>0, <1>4, <2>1, SaveEdit
  <2> QED BY <1>4, <2>2 DEF RowEffect
<1>5. ASSUME NEW w \in Workers, worker[w].period = p, worker[w].at = "settle",
             row'[p] = [row[p] EXCEPT !.status = IF worker[w].paid THEN "paid" ELSE "payment_due",
                                      !.fresh = TRUE, !.paidAt = @ \/ worker[w].paid]
      PROVE  RowEffect(p)
  <2>1. worker[w].paid \in BOOLEAN /\ Final(p) /\ (worker[w].paid => PaidInvoice(p))
    BY <1>0, <1>5 DEF WorkerOK, Knows, MayBe, WorkerRecords
  <2>2. /\ worker[w].paid => Has(row'[p], "paid", row[p].cost, row[p].invoice, row[p].items,
                                 row[p].qrFlow, TRUE)
        /\ ~worker[w].paid => Has(row'[p], "payment_due", row[p].cost, row[p].invoice,
                                  row[p].items, row[p].qrFlow, row[p].paidAt)
    BY <1>0, <1>5, <2>1, Settled
  <2> QED BY <1>5, <2>1, <2>2 DEF RowEffect
<1>6. ASSUME NEW d \in Deliveries, hook[d].at = "apply", hook[d].id[2] = p,
             row'[p] = [Reported(row[p], hook[d].kind) EXCEPT !.invoice = hook[d].id]
      PROVE  RowEffect(p)
  <2> DEFINE kind == hook[d].kind
  <2>1. /\ hook[d].id = Id(p) /\ kind \in EventKinds /\ Known(p)
        /\ kind = "failed" => Final(p)
        /\ kind = "paid" => PaidInvoice(p)
    BY <1>0, <1>6, PeriodsAreNats DEF HookOK, HookRecords
  <2>2. row'[p] = [Reported(old, kind) EXCEPT !.invoice = Id(p)]
    BY <1>6, <2>1
  <2>3. /\ kind = "paid" => Is("paid", old.cost, Id(p), old.items, old.qrFlow, TRUE)
        /\ kind = "failed" => Is("payment_failed", old.cost, Id(p), old.items, old.qrFlow, old.paidAt)
        /\ kind = "created" => Is(old.status, old.cost, Id(p), old.items, old.qrFlow, old.paidAt)
    <3> HIDE DEF kind
    <3> QED BY <1>0, <2>1, <2>2, Reports
  <2> HIDE DEF kind
  <2> QED BY <2>1, <2>3 DEF RowEffect, EventKinds
<1>7. ASSUME NEW st \in Statuses
      PROVE  /\ row'[p] = [old EXCEPT !.items = TRUE] =>
                  Is(old.status, old.cost, old.invoice, TRUE, old.qrFlow, old.paidAt)
             /\ row'[p] = [old EXCEPT !.status = st] =>
                  Is(st, old.cost, old.invoice, old.items, old.qrFlow, old.paidAt)
             /\ row'[p] = [old EXCEPT !.status = st, !.fresh = TRUE] =>
                  Is(st, old.cost, old.invoice, old.items, old.qrFlow, old.paidAt)
             /\ row'[p] = [old EXCEPT !.status = st, !.fresh = TRUE, !.qrFlow = TRUE] =>
                  Is(st, old.cost, old.invoice, old.items, TRUE, old.paidAt)
             /\ row'[p] = [old EXCEPT !.status = st, !.qrFlow = TRUE] =>
                  Is(st, old.cost, old.invoice, old.items, TRUE, old.paidAt)
             /\ row'[p] = [old EXCEPT !.status = st, !.paidAt = TRUE] =>
                  Is(st, old.cost, old.invoice, old.items, old.qrFlow, TRUE)
  BY <1>0, Edits
<1>8. /\ row'[p] = [old EXCEPT !.items = TRUE] =>
           Is(old.status, old.cost, old.invoice, TRUE, old.qrFlow, old.paidAt)
      /\ row'[p] = [old EXCEPT !.status = "failed"] =>
           Is("failed", old.cost, old.invoice, old.items, old.qrFlow, old.paidAt)
      /\ row'[p] = [old EXCEPT !.status = "skipped", !.fresh = TRUE] =>
           Is("skipped", old.cost, old.invoice, old.items, old.qrFlow, old.paidAt)
      /\ row'[p] = [old EXCEPT !.status = "payment_due", !.fresh = TRUE, !.qrFlow = TRUE] =>
           Is("payment_due", old.cost, old.invoice, old.items, TRUE, old.paidAt)
      /\ row'[p] = [old EXCEPT !.status = "payment_due", !.qrFlow = TRUE] =>
           Is("payment_due", old.cost, old.invoice, old.items, TRUE, old.paidAt)
      /\ row'[p] = [old EXCEPT !.status = "paid", !.paidAt = TRUE] =>
           Is("paid", old.cost, old.invoice, old.items, old.qrFlow, TRUE)
  BY <1>1, <1>7
<1>9. RowCase(p)
  BY RowCases
<1>10. CASE \E w \in Workers :
              /\ worker[w].period = p
              /\ \/ /\ worker[w].at = "skip"
                    /\ row'[p] = [row[p] EXCEPT !.status = "skipped", !.fresh = TRUE]
                 \/ /\ worker[w].at = "await"
                    /\ row'[p] = [row[p] EXCEPT !.status = "payment_due", !.fresh = TRUE,
                                                !.qrFlow = TRUE]
                 \/ worker[w].at = "mark" /\ row'[p] = [row[p] EXCEPT !.items = TRUE]
                 \/ worker[w].at = "fail" /\ row'[p] = [row[p] EXCEPT !.status = "failed"]
  BY <1>8, <1>10 DEF RowEffect
<1>11. CASE \/ /\ caller.at = "create" /\ caller.period = p
               /\ row'[p] = [row[p] EXCEPT !.status = "payment_due", !.qrFlow = TRUE]
            \/ /\ caller.at = "fail" /\ caller.period = p
               /\ row'[p] = [row[p] EXCEPT !.status = "failed"]
            \/ /\ qr[p] # None /\ intent[p] = "succeeded"
               /\ row'[p] = [row[p] EXCEPT !.status = "paid", !.paidAt = TRUE]
  BY <1>8, <1>11 DEF RowEffect
<1> QED BY <1>2, <1>3, <1>4, <1>5, <1>6, <1>9, <1>10, <1>11 DEF RowCase

-----------------------------------------------------------------------------
\* Nothing of a row is taken back: see RowEffect.
LEMMA RowsKept ==
  ASSUME IInv, Next, NEW p \in Periods
  PROVE  /\ row'[p] \in RowRecords
         /\ row[p].status # None => row'[p].status # None
         /\ row[p].qrFlow => row'[p].qrFlow
         /\ row[p].paidAt => row'[p].paidAt
         /\ row[p].invoice # None => row'[p].invoice = row[p].invoice
<1>1. RowEffect(p) /\ row[p] \in RowRecords /\ RowOK(p)
  BY RowEffects, Places DEF IInv
<1>2. row[p].invoice # None => row[p].invoice = Id(p)
  BY <1>1 DEF RowOK
<1>3. None \notin {"processing", "payment_due", "payment_failed", "paid", "skipped", "failed"}
  BY NoneAssumption
<1> QED BY <1>1, <1>2, <1>3 DEF RowEffect, Has

\* Time moves on, and a credit is given before its week is over.
LEMMA CalendarStep ==
  ASSUME IInv, Next
  PROVE  /\ closed' \in 0 .. PeriodCount /\ closed <= closed'
         /\ credit' \in [Periods -> Credits \cup {0}]
         /\ \A p \in Periods : credit'[p] = credit[p] \/ closed < p
<1>0. closed \in 0 .. PeriodCount /\ credit \in [Periods -> Credits \cup {0}] /\ PeriodCount \in Nat
  BY PaygAssumption DEF IInv, TypeOK
<1>1. CASE WeekEnds
  BY <1>0, <1>1 DEF WeekEnds
<1>2. ASSUME NEW p \in Periods, NEW amount \in Credits, AddWorkspaceUsageAdjustment(p, amount)
      PROVE  /\ closed' = closed /\ credit' \in [Periods -> Credits \cup {0}]
             /\ \A j \in Periods : credit'[j] = credit[j] \/ closed < j
  BY <1>0, <1>2 DEF AddWorkspaceUsageAdjustment, Creditable
<1>3. \/ WeekEnds \/ (closed' = closed /\ credit' = credit)
      \/ \E p \in Periods, amount \in Credits : AddWorkspaceUsageAdjustment(p, amount)
  <2>1. ASSUME NEW w \in Workers, Issue(w) PROVE closed' = closed /\ credit' = credit
    BY <2>1 DEF calendar, Issue, Close, MarkPaygPeriodSkipped, MarkPaygPeriodAwaitingQrPayment,
       Write, FetchAirwallexInvoice, Ask, CreatePaygInvoiceDraft, AddPaygInvoiceLineItems,
       FinalizePaygInvoice, SavePaygProviderInvoice, MarkPaygLineItemsAdded,
       SettleFinalizedInvoice, CreatePaidStorageInvoice, FailPaygPeriod
  <2> QED
    BY <2>1 DEF Next, calendar, RepairCompletedProfilePointers, ReconcilePaidBillingInvoices, Pay,
       RequestQrPayment, Dies, ClaimWebhook, LeaseExpires, DocumentWebhook, MarkWebhookProcessed,
       ApplyPaygInvoiceWebhook, ClaimDuePaygPeriod, CreatePaygQrPayment, QrPaymentFails,
       ApplyPaygQrPaymentIntentStatus
<1>4. CASE closed' = closed /\ credit' = credit
  BY <1>0, <1>4
<1> QED BY <1>0, <1>1, <1>2, <1>3, <1>4

\* A payment that succeeded has succeeded.
LEMMA IntentStep ==
  ASSUME IInv, Next
  PROVE  /\ intent' \in [Periods -> {None, "open", "succeeded"}]
         /\ \A p \in Periods : intent[p] = "succeeded" => intent'[p] = "succeeded"
<1>0. intent \in [Periods -> {None, "open", "succeeded"}]
  BY DEF IInv, TypeOK
<1>1. None # "succeeded"
  BY NoneAssumption
<1>2. CASE CreatePaygQrPayment
  BY <1>0, <1>1, <1>2 DEF CreatePaygQrPayment
<1>3. ASSUME NEW p \in Periods, Pay(p)
      PROVE  /\ intent' \in [Periods -> {None, "open", "succeeded"}]
             /\ \A j \in Periods : intent[j] = "succeeded" => intent'[j] = "succeeded"
  BY <1>0, <1>3 DEF Pay
<1>4. CreatePaygQrPayment \/ intent' = intent \/ \E p \in Periods : Pay(p)
  BY DEF Next, provider, WeekEnds, AddWorkspaceUsageAdjustment, RepairCompletedProfilePointers,
     ReconcilePaidBillingInvoices, RequestQrPayment, Dies, ClaimWebhook, LeaseExpires,
     DocumentWebhook, MarkWebhookProcessed, ApplyPaygInvoiceWebhook, ClaimDuePaygPeriod,
     QrPaymentFails, ApplyPaygQrPaymentIntentStatus, Issue, Close, MarkPaygPeriodSkipped,
     MarkPaygPeriodAwaitingQrPayment, Write, FetchAirwallexInvoice,
     Ask, CreatePaygInvoiceDraft, AddPaygInvoiceLineItems, FinalizePaygInvoice,
     SavePaygProviderInvoice, MarkPaygLineItemsAdded, SettleFinalizedInvoice,
     CreatePaidStorageInvoice, FailPaygPeriod
<1> QED BY <1>0, <1>2, <1>3, <1>4

\* No step takes back what a call in progress has seen.
LEMMA KeptStep ==
  ASSUME IInv, Next, NEW p \in Periods
  PROVE  Kept(p)
<1>1. row[p].status # None => Cost(p)' = Cost(p) /\ Bill(p)' = Bill(p)
  <2>1. p \in Nat /\ closed \in Int
    BY PeriodsAreNats DEF IInv, TypeOK
  <2>2. row[p].status # None => p <= closed
    BY DEF IInv, RowOK
  <2>3. credit'[p] = credit[p] \/ closed < p
    BY CalendarStep
  <2> QED BY <2>1, <2>2, <2>3 DEF Cost, Bill, InvoiceAmount
<1>2. /\ Known(p) => Known(p)'
      /\ Lined(p) => Lined(p)'
      /\ Final(p) => Final(p)'
      /\ PaidInvoice(p) => PaidInvoice(p)'
  <2>1. InvoiceCase(p)
    BY InvoiceCases
  <2>2. Known(p) => invoices[Id(p)] \in InvoiceRecords
    BY Places DEF IInv, Known
  <2> QED BY <2>1, <2>2 DEF InvoiceCase, Lined, Final, PaidInvoice, InvoiceRecords
<1> QED BY <1>1, <1>2, RowsKept, IntentStep DEF Kept

\* What was billed and paid stays billed and paid.
LEMMA BilledStays ==
  ASSUME IInv, Next, NEW p \in Periods
  PROVE  /\ row[p].status # None /\ Billed(p) => Billed(p)'
         /\ Evidence(p) => Evidence(p)'
         /\ row[p].status = None \/ Cost(p)' = Cost(p)
         /\ Kept(p)
BY KeptStep DEF Kept, Billed, Evidence

\* The statements about an invoice keep it so.
LEMMA OneLineKept ==
  ASSUME NEW key, NEW c \in Nat, NEW old \in InvoiceRecords, NEW new, OneLine(old, key, c),
         \/ new = old
         \/ key \notin old.keys /\ new = [old EXCEPT !.amount = @ + c, !.keys = @ \cup {key}]
         \/ old.keys = {key} /\ new = [old EXCEPT !.state = "finalized"]
         \/ old.state = "finalized" /\ new = [old EXCEPT !.state = "paid"]
  PROVE  OneLine(new, key, c)
<1>1. CASE key \notin old.keys /\ new = [old EXCEPT !.amount = @ + c, !.keys = @ \cup {key}]
  <2>1. old.keys = {} /\ old.amount = 0
    BY <1>1 DEF OneLine
  <2>2. new.amount = old.amount + c /\ new.keys = old.keys \cup {key}
    BY <1>1 DEF InvoiceRecords
  <2>3. new.amount = c /\ new.keys = {key}
    BY <2>1, <2>2
  <2> QED BY <2>3 DEF OneLine
<1>2. CASE old.keys = {key} /\ new = [old EXCEPT !.state = "finalized"]
  BY <1>2 DEF OneLine, InvoiceRecords
<1>3. CASE old.state = "finalized" /\ new = [old EXCEPT !.state = "paid"]
  BY <1>3 DEF OneLine, InvoiceRecords
<1> QED BY <1>1, <1>2, <1>3

\* The provider has one invoice of a week, with at most one line: its cost.
LEMMA InvoicesStep ==
  ASSUME IInv, Next
  PROVE  InvoicesOK'
<1>1. ASSUME NEW p \in Periods PROVE InvoiceOK(p)'
  <2>0. InvoiceOK(p) /\ InvoiceCase(p) /\ Kept(p) /\ Bill(p) \in Nat
    BY <1>1, InvoiceCases, KeptStep, BillType DEF IInv, InvoicesOK
  <2>1. Known(p)' => row[p].status # None
    <3>1. \A w \in Workers : worker[w].at = "create" => row[worker[w].period].status # None
      BY DEF IInv, WorkerOK, Knows, MayBe
    <3> QED BY <2>0, <3>1 DEF InvoiceOK, InvoiceCase
  <2>2. Known(p)' => row'[p].status # None /\ Bill(p)' = Bill(p)
    BY <2>0, <2>1 DEF Kept
  <2>3. \A w \in Workers : worker[w].at = "items" /\ worker[w].period = p => worker[w].bill = Bill(p)
    BY DEF IInv, WorkerOK, Knows, MayBe
  <2>4. Known(p) => invoices[Id(p)] \in InvoiceRecords
    BY Places DEF IInv, Known
  <2>5. ASSUME Known(p)' PROVE OneLine(invoices'[Id(p)], Id(p), Bill(p))
    <3>1. CASE ~Known(p)
      <4>1. invoices'[Id(p)] = [state |-> "draft", amount |-> 0, keys |-> {}]
        BY <2>0, <2>5, <3>1 DEF InvoiceCase
      <4> QED BY <4>1 DEF OneLine
    <3>2. CASE Known(p)
      <4> DEFINE old == invoices[Id(p)]
                 new == invoices'[Id(p)]
      <4>1. old \in InvoiceRecords /\ OneLine(old, Id(p), Bill(p))
        BY <2>0, <2>4, <3>2 DEF InvoiceOK
      <4>2. \/ new = old
            \/ /\ Id(p) \notin old.keys
               /\ new = [old EXCEPT !.amount = @ + Bill(p), !.keys = @ \cup {Id(p)}]
            \/ old.keys = {Id(p)} /\ new = [old EXCEPT !.state = "finalized"]
            \/ old.state = "finalized" /\ new = [old EXCEPT !.state = "paid"]
        BY <2>0, <2>3, <3>2 DEF InvoiceCase, Lined
      <4> HIDE DEF old, new
      <4>3. OneLine(new, Id(p), Bill(p))
        BY <2>0, <4>1, <4>2, OneLineKept
      <4> QED BY <4>3 DEF new
    <3> QED BY <3>1, <3>2
  <2> QED BY <2>2, <2>5 DEF InvoiceOK, Known
<1> QED BY <1>1, InvoiceCases DEF InvoicesOK

\* A QR payment is opened with the row of its period.
LEMMA QrStep ==
  ASSUME IInv, Next
  PROVE  /\ qr' \in [Periods -> {None, "active", "ended", "succeeded"}]
         /\ \A p \in Periods : \/ qr[p] = None => qr'[p] = None
                               \/ row'[p].status = "payment_due" /\ row'[p].qrFlow
<1>0. /\ qr \in [Periods -> {None, "active", "ended", "succeeded"}]
      /\ row \in [Periods -> RowRecords] /\ caller.period \in Periods
  BY Places DEF IInv, TypeOK, RowRecords
<1>1. CASE CreatePaygQrPayment
  <2>1. CASE qr' = qr
    BY <1>0, <2>1
  <2>2. CASE qr' # qr
    <3>1. /\ qr' = [qr EXCEPT ![caller.period] = "active"]
          /\ row' = [row EXCEPT ![caller.period] =
                       [row[caller.period] EXCEPT !.status = "payment_due", !.qrFlow = TRUE]]
      BY <1>0, <1>1, <2>2 DEF CreatePaygQrPayment
    <3>2. row'[caller.period].status = "payment_due" /\ row'[caller.period].qrFlow
      BY <1>0, <3>1 DEF RowRecords
    <3> QED BY <1>0, <3>1, <3>2
  <2> QED BY <2>1, <2>2
<1>2. ASSUME NEW p \in Periods, NEW status \in {"active", "ended", "succeeded"},
             ApplyPaygQrPaymentIntentStatus(p, status)
      PROVE  /\ qr' \in [Periods -> {None, "active", "ended", "succeeded"}]
             /\ \A j \in Periods : qr[j] = None => qr'[j] = None
  BY <1>0, <1>2 DEF ApplyPaygQrPaymentIntentStatus
<1>3. \/ CreatePaygQrPayment \/ qr' = qr
      \/ \E p \in Periods, status \in {"active", "ended", "succeeded"} :
           ApplyPaygQrPaymentIntentStatus(p, status)
  BY DEF Next, WeekEnds, AddWorkspaceUsageAdjustment, RepairCompletedProfilePointers,
     ReconcilePaidBillingInvoices, RequestQrPayment, Dies, ClaimWebhook, LeaseExpires, Pay,
     DocumentWebhook, MarkWebhookProcessed, ApplyPaygInvoiceWebhook, ClaimDuePaygPeriod,
     QrPaymentFails, Issue, Close, MarkPaygPeriodSkipped, MarkPaygPeriodAwaitingQrPayment, Write,
     FetchAirwallexInvoice, Ask, CreatePaygInvoiceDraft,
     AddPaygInvoiceLineItems, FinalizePaygInvoice, SavePaygProviderInvoice,
     MarkPaygLineItemsAdded, SettleFinalizedInvoice, CreatePaidStorageInvoice, FailPaygPeriod
<1> QED BY <1>0, <1>1, <1>2, <1>3

\* Lulu's own invoice is made of what is paid.
LEMMA DocumentedStep ==
  ASSUME IInv, Next
  PROVE  \A p \in documented' : p \in Periods /\ (p \in documented \/ Evidence(p))
<1>0. documented \subseteq Periods
  BY DEF IInv, TypeOK
<1>1. ASSUME NEW p \in Periods, ReconcilePaidBillingInvoices(p)
      PROVE  documented' \subseteq documented \cup {p} /\ Evidence(p)
  BY <1>1 DEF ReconcilePaidBillingInvoices, Documents, IInv, RowOK
<1>2. ASSUME NEW w \in Workers, CreatePaidStorageInvoice(w)
      PROVE  \E p \in Periods : documented' \subseteq documented \cup {p} /\ Evidence(p)
  <2>1. worker[w].period \in Periods /\ WorkerOK(worker[w])
    BY Places DEF IInv
  <2> QED BY <1>2, <2>1 DEF CreatePaidStorageInvoice, Documents, WorkerOK, Knows, MayBe, Evidence
<1>3. ASSUME NEW d \in Deliveries, DocumentWebhook(d)
      PROVE  \E p \in Periods : documented' \subseteq documented \cup {p} /\ Evidence(p)
  <2>1. PICK p \in Periods : hook[d].id = Id(p) /\ PaidInvoice(p)
    BY <1>3 DEF DocumentWebhook, IInv, HookOK
  <2>2. hook[d].id[2] = p
    BY <2>1, PeriodsAreNats
  <2> QED BY <1>3, <2>1, <2>2 DEF DocumentWebhook, Documents, Evidence
<1>4. \/ documented' = documented
      \/ \E p \in Periods : ReconcilePaidBillingInvoices(p)
      \/ \E w \in Workers : CreatePaidStorageInvoice(w)
      \/ \E d \in Deliveries : DocumentWebhook(d)
  BY DEF Next, WeekEnds, AddWorkspaceUsageAdjustment, RepairCompletedProfilePointers,
     RequestQrPayment, Dies, ClaimWebhook, LeaseExpires, Pay, MarkWebhookProcessed,
     ApplyPaygInvoiceWebhook, ClaimDuePaygPeriod, CreatePaygQrPayment, QrPaymentFails,
     ApplyPaygQrPaymentIntentStatus, Issue, Close, MarkPaygPeriodSkipped,
     MarkPaygPeriodAwaitingQrPayment, Write, FetchAirwallexInvoice, Ask,
     CreatePaygInvoiceDraft, AddPaygInvoiceLineItems, FinalizePaygInvoice,
     SavePaygProviderInvoice, MarkPaygLineItemsAdded, SettleFinalizedInvoice, FailPaygPeriod
<1> QED BY <1>0, <1>1, <1>2, <1>3, <1>4

\* The profile leaves a week when its row is finished.
LEMMA PointerStep ==
  ASSUME IInv, Next
  PROVE  \/ pointer' = pointer
         \/ /\ pointer \in Periods /\ pointer' = pointer + 1
            /\ row'[pointer].status \in Done
<1>0. row \in [Periods -> RowRecords] /\ pointer \in 1 .. PeriodCount + 1
  BY DEF IInv, TypeOK, RowRecords
<1>1. CASE RepairCompletedProfilePointers
  BY <1>1 DEF RepairCompletedProfilePointers, Repairable
<1>2. ASSUME NEW w \in Workers, Close(w) \/ SettleFinalizedInvoice(w), pointer' # pointer
      PROVE  pointer \in Periods /\ pointer' = pointer + 1 /\ row'[pointer].status \in Done
  <2>1. PICK p \in Periods : p = worker[w].period
    BY Places DEF IInv
  <2>2. row[p] \in RowRecords
    BY <1>0
  <2>3. CASE Close(w)
    <3>1. /\ pointer' = Advanced(p)
          /\ \E st \in {"skipped", "payment_due"} :
               \/ row' = [row EXCEPT ![p] = [row[p] EXCEPT !.status = st, !.fresh = TRUE]]
               \/ row' = [row EXCEPT ![p] = [row[p] EXCEPT !.status = st, !.fresh = TRUE,
                                                           !.qrFlow = TRUE]]
      BY <1>2, <2>1, <2>3 DEF Close, MarkPaygPeriodSkipped, MarkPaygPeriodAwaitingQrPayment, Write
    <3>2. row'[p].status \in {"skipped", "payment_due"}
      BY <1>0, <2>2, <3>1 DEF RowRecords
    <3> QED BY <1>2, <2>1, <3>1, <3>2 DEF Advanced, Done
  <2>4. CASE SettleFinalizedInvoice(w)
    <3> DEFINE st == IF worker[w].paid THEN "paid" ELSE "payment_due"
               changed == [row[p] EXCEPT !.status = st, !.fresh = TRUE,
                                         !.paidAt = @ \/ worker[w].paid]
    <3>1. pointer' = Advanced(p) /\ row' = [row EXCEPT ![p] = changed]
      BY <1>2, <2>1, <2>4 DEF SettleFinalizedInvoice, Write
    <3>2. changed.status = st /\ st \in Done
      <4>1. st \in Done
        BY DEF Done
      <4>2. changed.status = st
        <5> HIDE DEF st
        <5> QED BY <2>2 DEF RowRecords
      <4> QED BY <4>1, <4>2
    <3>3. row'[p] = changed
      <4> HIDE DEF changed
      <4> QED BY <1>0, <3>1
    <3> HIDE DEF changed, st
    <3> QED BY <1>2, <2>1, <3>1, <3>2, <3>3 DEF Advanced
  <2> QED BY <1>2, <2>3, <2>4
<1>3. \/ pointer' = pointer \/ RepairCompletedProfilePointers
      \/ \E w \in Workers : Close(w) \/ SettleFinalizedInvoice(w)
  BY DEF Next, WeekEnds, AddWorkspaceUsageAdjustment, ReconcilePaidBillingInvoices,
     RequestQrPayment, Dies, ClaimWebhook, LeaseExpires, Pay, MarkWebhookProcessed,
     ApplyPaygInvoiceWebhook, DocumentWebhook, ClaimDuePaygPeriod, CreatePaygQrPayment,
     QrPaymentFails, ApplyPaygQrPaymentIntentStatus, Issue, Write, FetchAirwallexInvoice, Ask,
     CreatePaygInvoiceDraft, AddPaygInvoiceLineItems, FinalizePaygInvoice,
     SavePaygProviderInvoice, MarkPaygLineItemsAdded, CreatePaidStorageInvoice, FailPaygPeriod
<1> QED BY <1>1, <1>2, <1>3

\* A row names its invoice, has its cost, and is finished, paid and left behind
\* only when it is billed.
LEMMA RowStep ==
  ASSUME IInv, Next, NEW p \in Periods
  PROVE  RowOK(p)'
<1>0. /\ RowOK(p) /\ InvoiceOK(p) /\ RowEffect(p) /\ Kept(p)
      /\ caller.at # "idle" /\ caller.period = p => row[p].status # None
  BY RowEffects, KeptStep DEF IInv, InvoicesOK
<1>w. ASSUME NEW w \in Workers, worker[w].period = p
      PROVE  /\ worker[w].at # "idle" => row[p].status # None
             /\ worker[w].at = "skip" => Bill(p) = 0
             /\ worker[w].at = "save" => Known(p)
             /\ worker[w].at = "mark" => Lined(p)
  BY <1>w DEF IInv, WorkerOK, Knows, MayBe
<1>1. row'[p].status # None => p <= closed' /\ row'[p].cost = Cost(p)'
  <2>1. p \in Nat /\ closed \in Int /\ closed' \in Int /\ closed <= closed'
    BY PeriodsAreNats, CalendarStep DEF IInv, TypeOK
  <2>2. credit'[p] = credit[p] \/ closed < p
    BY CalendarStep
  <2>3. p <= closed => Cost(p)' = Cost(p)
    BY <2>1, <2>2 DEF Cost
  <2>4. \/ pointer = p /\ p <= closed /\ row'[p].cost = Cost(p)
        \/ row'[p].cost = row[p].cost /\ row[p].status # None
        \/ row'[p].cost = row[p].cost /\ row'[p].status = row[p].status
    BY <1>0, <1>w DEF RowEffect, Has, RowOK, InvoiceOK, Final, PaidInvoice
  <2> QED BY <1>0, <2>1, <2>3, <2>4 DEF RowOK
<1>2. row'[p].invoice # None => row'[p].invoice = Id(p) /\ Known(p)'
  BY <1>0, <1>w DEF RowEffect, Has, RowOK, Kept, Final, PaidInvoice
<1>3. row'[p].items => Lined(p)'
  BY <1>0, <1>w DEF RowEffect, Has, RowOK, Kept
<1>4. qr'[p] # None => row'[p].status # None /\ row'[p].qrFlow
  <2>1. (qr[p] = None => qr'[p] = None) \/ (row'[p].status = "payment_due" /\ row'[p].qrFlow)
    BY QrStep
  <2>2. None # "payment_due"
    BY NoneAssumption
  <2> QED BY <1>0, <2>1, <2>2 DEF RowOK, Kept
<1>5. row'[p].status \in Done => Billed(p)'
  <2>1. \/ row'[p].status = row[p].status
        \/ Bill(p) = 0 /\ row[p].status # None
        \/ row'[p].qrFlow \/ Final(p) \/ PaidInvoice(p)
        \/ row'[p].status \in {"processing", "failed"}
    BY <1>0, <1>w DEF RowEffect, Has, RowOK
  <2>2. None \notin Done /\ "processing" \notin Done /\ "failed" \notin Done
    BY NoneAssumption DEF Done
  <2>3. PaidInvoice(p) => Final(p)
    BY DEF PaidInvoice, Final
  <2> QED BY <1>0, <2>1, <2>2, <2>3, BilledStays DEF RowOK, Billed, Kept
<1>6. row'[p].status = "paid" \/ row'[p].paidAt \/ p \in documented' => Evidence(p)'
  <2>1. row'[p].status = "paid" \/ row'[p].paidAt => Evidence(p)
    BY <1>0 DEF RowEffect, Has, RowOK, Evidence
  <2>2. p \in documented' => Evidence(p)
    BY <1>0, DocumentedStep DEF RowOK
  <2> QED BY <2>1, <2>2, BilledStays
<1>7. p < pointer' => row'[p].status # None /\ Billed(p)'
  <2>1. CASE p < pointer
    BY <1>0, <2>1, BilledStays DEF RowOK, Kept
  <2>2. CASE p = pointer /\ row'[p].status \in Done
    <3>1. None \notin Done
      BY NoneAssumption DEF Done
    <3> QED BY <1>5, <2>2, <3>1
  <2>3. p \in Nat /\ pointer \in Nat
    BY PeriodsAreNats, PaygAssumption DEF IInv, TypeOK
  <2> QED BY <2>1, <2>2, <2>3, PointerStep
<1> QED BY <1>1, <1>2, <1>3, <1>4, <1>5, <1>6, <1>7 DEF RowOK

-----------------------------------------------------------------------------
\* What a worker has seen stays true.
LEMMA SeenStays ==
  ASSUME IInv, Next, NEW k \in WorkerRecords, row[k.period].status # None
  PROVE  /\ Knows(k) => Knows(k)'
         /\ \A place \in WorkerPlaces : \A i : MayBe(place, i, k.period) => MayBe(place, i, k.period)'
         /\ WorkerOK(k) => WorkerOK(k)'
<1>1. k.period \in Periods /\ k.at \in WorkerPlaces
  BY DEF WorkerRecords
<1>2. Kept(k.period)
  BY <1>1, KeptStep
<1>3. Knows(k) => Knows(k)'
  BY <1>2 DEF Kept, Knows
<1>4. \A place \in WorkerPlaces : \A i : MayBe(place, i, k.period) => MayBe(place, i, k.period)'
  BY <1>2 DEF Kept, MayBe
<1> QED BY <1>1, <1>3, <1>4 DEF WorkerOK

\* The worker comes to a place that is consistent with the new state.
Moved(w) == \E k \in WorkerRecords : worker' = [worker EXCEPT ![w] = k] /\ WorkerOK(k)'

\* A worker that is done, has failed or goes on from what it knows.
LEMMA Moves ==
  ASSUME IInv, Next, NEW w \in Workers, NEW k \in WorkerRecords, k = worker[w]
  PROVE  /\ GoIdle(w) => Moved(w)
         /\ k.at # "idle" /\ Goto(w, "fail") => Moved(w)
         /\ \A place \in WorkerPlaces :
              k.at # "idle" /\ Goto(w, place) /\ MayBe(place, k.invoice, k.period)' => Moved(w)
<1>1. WorkerOK(k) /\ worker \in [Workers -> WorkerRecords]
  BY DEF IInv, TypeOK, WorkerRecords
<1>2. ASSUME GoIdle(w) PROVE Moved(w)
  <2>1. 1 \in Periods
    BY PeriodsAreNats DEF Periods
  <2>2. IdleWorker \in WorkerRecords
    BY <2>1 DEF IdleWorker, WorkerRecords, WorkerPlaces
  <2>3. WorkerOK(IdleWorker)'
    BY DEF IdleWorker, WorkerOK
  <2> QED BY <1>2, <2>2, <2>3 DEF Moved, GoIdle
<1>3. ASSUME NEW place \in WorkerPlaces, k.at # "idle", Goto(w, place),
             MayBe(place, k.invoice, k.period)'
      PROVE  Moved(w)
  <2> DEFINE new == [k EXCEPT !.at = place]
  <2>1. new \in WorkerRecords /\ worker' = [worker EXCEPT ![w] = new]
    BY <1>1, <1>3 DEF Goto, WorkerRecords
  <2>2. Knows(k) /\ row[k.period].status # None
    BY <1>1, <1>3 DEF WorkerOK, Knows
  <2>3. Knows(k)'
    BY <2>2, SeenStays
  <2>4. /\ new.at = place /\ new.period = k.period /\ new.invoice = k.invoice
        /\ new.items = k.items /\ new.bill = k.bill /\ new.paid = k.paid
    BY DEF WorkerRecords
  <2>5. WorkerOK(new)'
    <3> HIDE DEF new
    <3> QED BY <1>3, <2>3, <2>4 DEF WorkerOK, Knows
  <2> QED BY <2>1, <2>5 DEF Moved
<1>4. "fail" \in WorkerPlaces /\ MayBe("fail", k.invoice, k.period)'
  BY DEF WorkerPlaces, MayBe
<1> QED BY <1>2, <1>3, <1>4

\* A worker claims a period with what its row says.
LEMMA ClaimMoves ==
  ASSUME IInv, Next, NEW w \in Workers, ClaimDuePaygPeriod(w)
  PROVE  Moved(w)
<1>1. PICK p \in Periods : p = pointer
  BY DEF ClaimDuePaygPeriod
<1>a. PICK entry \in Entries(p) :
        worker' = [worker EXCEPT ![w] =
          [at |-> entry, period |-> p, invoice |-> row[p].invoice, items |-> row[p].items,
           bill |-> Bill(p), paid |-> FALSE]]
  BY <1>1 DEF ClaimDuePaygPeriod
<1>b. PICK k : k = [at |-> entry, period |-> p, invoice |-> row[p].invoice,
                    items |-> row[p].items, bill |-> Bill(p), paid |-> FALSE]
  OBVIOUS
<1>c. row'[p].status = "processing" /\ Bill(p)' = Bill(p) /\ invoices' = invoices
  <2>1. row \in [Periods -> RowRecords]
    BY DEF IInv, TypeOK, RowRecords
  <2>2. row'[p].status = "processing"
    BY <1>1, <2>1 DEF ClaimDuePaygPeriod, RowRecords
  <2> QED BY <2>2 DEF ClaimDuePaygPeriod, Bill, InvoiceAmount, Cost, calendar, provider
<1>2. row[p] \in RowRecords /\ RowOK(p) /\ Bill(p) \in Nat
  BY Places, BillType DEF IInv
<1>3. /\ entry \in {"skip", "await", "fetch", "create"}
      /\ entry = "skip" => Bill(p) = 0
      /\ entry = "fetch" => row[p].invoice # None
  BY <1>a DEF Entries
<1>4. k \in WorkerRecords
  BY <1>b, <1>2, <1>3 DEF WorkerRecords, RowRecords, WorkerPlaces
<1>5. /\ k.at = entry /\ k.period = p /\ k.invoice = row[p].invoice /\ k.items = row[p].items
      /\ k.bill = Bill(p) /\ k.paid = FALSE
  BY <1>b
<1>6. row'[p].status # None
  BY <1>c, NoneAssumption
<1>7. WorkerOK(k)'
  <2>1. k.items => Lined(p)'
    BY <1>2, <1>5, <1>c DEF RowOK, Lined, Known
  <2>2. Knows(k)'
    BY <1>5, <1>6, <1>c, <2>1 DEF Knows
  <2>3. entry = "fetch" => k.invoice = Id(p) /\ Known(p)'
    BY <1>2, <1>3, <1>5, <1>c DEF RowOK, Known
  <2>4. MayBe(k.at, k.invoice, k.period)'
    BY <1>3, <1>5, <1>c, <2>3 DEF MayBe
  <2> QED BY <2>2, <2>4 DEF WorkerOK
<1> QED BY <1>4, <1>7, <1>a, <1>b DEF Moved

\* The steps of issuePeriodInvoice, from what the worker knows.
LEMMA IssueMoves ==
  ASSUME IInv, Next, NEW w \in Workers, Issue(w)
  PROVE  Moved(w)
<1>0. PICK k \in WorkerRecords, p \in Periods : k = worker[w] /\ k.period = p
  BY Places DEF IInv
<1>1. /\ WorkerOK(k) /\ worker \in [Workers -> WorkerRecords]
      /\ k.at # "idle" => Knows(k) /\ MayBe(k.at, k.invoice, p) /\ row[p].status # None
  BY <1>0 DEF IInv, TypeOK, WorkerRecords, WorkerOK, Knows
<1>2. /\ GoIdle(w) => Moved(w)
      /\ k.at # "idle" /\ Goto(w, "fail") => Moved(w)
      /\ \A place \in WorkerPlaces :
           k.at # "idle" /\ Goto(w, place) /\ MayBe(place, k.invoice, p)' => Moved(w)
  BY <1>0, Moves
<1>3. k.at # "idle" =>
        \A place \in WorkerPlaces : MayBe(place, k.invoice, p) => MayBe(place, k.invoice, p)'
  BY <1>0, <1>1, SeenStays
<1>4. {"items", "mark", "finalize", "settle", "document"} \subseteq WorkerPlaces
  BY DEF WorkerPlaces
<1>5. CASE Close(w)
  BY <1>0, <1>2, <1>5 DEF Close, MarkPaygPeriodSkipped, MarkPaygPeriodAwaitingQrPayment, Write
<1>6. CASE FetchAirwallexInvoice(w)
  <2>1. k.at = "fetch" /\ k.invoice = Id(p) /\ Known(p)
    BY <1>0, <1>1, <1>6 DEF FetchAirwallexInvoice, MayBe
  <2> DEFINE state == invoices[Id(p)].state
  <2>2. CASE Goto(w, "fail")
    BY <1>2, <2>1, <2>2
  <2>3. CASE state = "draft" /\ Goto(w, IF k.items THEN "finalize" ELSE "items")
    <3>1. k.items => Lined(p)
      BY <1>0, <1>1, <2>1 DEF Knows
    <3>2. MayBe(IF k.items THEN "finalize" ELSE "items", k.invoice, p)
      BY <2>1, <3>1 DEF MayBe
    <3> QED BY <1>2, <1>3, <1>4, <2>1, <2>3, <3>2
  <2>4. CASE /\ state # "draft"
             /\ worker' = [worker EXCEPT ![w].at = "settle", ![w].paid = (state = "paid")]
    <3>1. PICK paid \in BOOLEAN : paid = (state = "paid")
      OBVIOUS
    <3> DEFINE new == [k EXCEPT !.at = "settle", !.paid = paid]
    <3>2. worker' = [worker EXCEPT ![w] = new]
      BY <1>0, <1>1, <2>4, <3>1
    <3>3. /\ new \in WorkerRecords
          /\ new.at = "settle" /\ new.period = p /\ new.invoice = k.invoice
          /\ new.items = k.items /\ new.bill = k.bill /\ new.paid = paid
      BY <1>0, <1>4, <3>1 DEF WorkerRecords
    <3>4. Final(p) /\ (paid => PaidInvoice(p))
      BY <2>1, <2>4, <3>1 DEF Final, PaidInvoice
    <3> HIDE DEF new
    <3>5. WorkerOK(new) /\ row[new.period].status # None
      BY <1>0, <1>1, <2>1, <3>3, <3>4 DEF WorkerOK, Knows, MayBe
    <3>6. WorkerOK(new)'
      BY <3>3, <3>5, SeenStays
    <3> QED BY <3>2, <3>3, <3>6 DEF Moved
  <2> QED BY <1>0, <1>6, <2>1, <2>2, <2>3, <2>4 DEF FetchAirwallexInvoice, Ask
<1>7. CASE CreatePaygInvoiceDraft(w)
  <2>1. k.at = "create" /\ RequestId(w, p) = Id(p)
    BY <1>0, <1>7 DEF CreatePaygInvoiceDraft, RequestId, Id
  <2>2. CASE Goto(w, "fail")
    BY <1>2, <2>1, <2>2
  <2> DEFINE new == [k EXCEPT !.at = "save", !.invoice = Id(p)]
  <2>3. CASE worker' = [worker EXCEPT ![w] = new] /\ Known(p)'
    <3>1. /\ new \in WorkerRecords
          /\ new.at = "save" /\ new.period = p /\ new.invoice = Id(p)
          /\ new.items = k.items /\ new.bill = k.bill /\ new.paid = k.paid
      BY <1>0, PeriodsAreNats DEF WorkerRecords, WorkerPlaces
    <3>2. Knows(k)'
      BY <1>0, <1>1, <2>1, SeenStays
    <3> HIDE DEF new
    <3>3. Knows(new)'
      BY <1>0, <3>1, <3>2 DEF Knows
    <3>4. MayBe(new.at, new.invoice, p)'
      BY <2>3, <3>1 DEF MayBe
    <3> QED BY <2>3, <3>1, <3>3, <3>4 DEF Moved, WorkerOK
  <2>4. Goto(w, "fail") \/ (worker' = [worker EXCEPT ![w] = new] /\ Known(p)')
    BY <1>0, <1>1, <1>7, <2>1 DEF CreatePaygInvoiceDraft, Ask, Known
  <2> QED BY <2>2, <2>3, <2>4
<1>8. CASE SavePaygProviderInvoice(w)
  <2>1. k.at = "save" /\ k.invoice = Id(p) /\ Known(p) /\ (k.items => Lined(p))
    BY <1>0, <1>1, <1>8 DEF SavePaygProviderInvoice, MayBe, Knows
  <2>2. MayBe(IF k.items THEN "finalize" ELSE "items", k.invoice, p)
    BY <2>1 DEF MayBe
  <2> QED BY <1>0, <1>2, <1>3, <1>4, <1>8, <2>1, <2>2 DEF SavePaygProviderInvoice, Write
<1>9. CASE AddPaygInvoiceLineItems(w)
  <2>1. k.at = "items" /\ k.invoice = Id(p) /\ Known(p) /\ RequestId(w, p) = Id(p)
    BY <1>0, <1>1, <1>9 DEF AddPaygInvoiceLineItems, MayBe, RequestId, Id
  <2>2. Goto(w, "fail") \/ (Goto(w, "mark") /\ Id(p) \in invoices'[Id(p)].keys)
    <3>1. invoices[Id(p)] \in InvoiceRecords
      BY <2>1, Places DEF IInv, Known
    <3>2. CASE Id(p) \in invoices[Id(p)].keys
      BY <1>0, <1>9, <2>1, <3>2 DEF AddPaygInvoiceLineItems, Ask
    <3>3. CASE Id(p) \notin invoices[Id(p)].keys /\ invoices[Id(p)].state = "draft"
      <4>1. \/ Goto(w, "fail")
            \/ /\ Goto(w, "mark")
               /\ invoices' = [invoices EXCEPT
                    ![Id(p)].amount = invoices[Id(p)].amount + worker[w].bill,
                    ![Id(p)].keys = invoices[Id(p)].keys \cup {Id(p)}]
        BY <1>0, <1>9, <2>1, <3>3 DEF AddPaygInvoiceLineItems, Ask
      <4> DEFINE old == invoices[Id(p)]
                 new == [old EXCEPT !.amount = old.amount + worker[w].bill,
                                    !.keys = old.keys \cup {Id(p)}]
      <4>2. new.keys = old.keys \cup {Id(p)}
        <5> HIDE DEF old
        <5> QED BY <3>1 DEF InvoiceRecords, old
      <4>3. CASE Goto(w, "mark") /\ invoices' = [invoices EXCEPT ![Id(p)] = new]
        <5>1. invoices'[Id(p)] = new
          <6> HIDE DEF new
          <6> QED BY <2>1, <4>3 DEF Known
        <5> QED BY <4>2, <4>3, <5>1
      <4> QED BY <2>1, <4>1, <4>3 DEF Known
    <3>4. CASE Id(p) \notin invoices[Id(p)].keys /\ invoices[Id(p)].state # "draft"
      BY <1>0, <1>9, <2>1, <3>4 DEF AddPaygInvoiceLineItems, Ask
    <3> QED BY <3>2, <3>3, <3>4
  <2>3. CASE Goto(w, "mark") /\ Id(p) \in invoices'[Id(p)].keys
    <3>1. Known(p)' /\ InvoiceOK(p)'
      BY <2>1, InvoicesStep, KeptStep DEF InvoicesOK, Kept
    <3>2. Lined(p)'
      BY <2>3, <3>1 DEF InvoiceOK, OneLine, Lined
    <3>3. MayBe("mark", k.invoice, p)'
      BY <2>1, <3>1, <3>2 DEF MayBe
    <3> QED BY <1>2, <1>4, <2>1, <2>3, <3>3
  <2> QED BY <1>2, <2>1, <2>2, <2>3
<1>10. CASE MarkPaygLineItemsAdded(w)
  <2>1. k.at = "mark" /\ MayBe("finalize", k.invoice, p)
    BY <1>0, <1>1, <1>10 DEF MarkPaygLineItemsAdded, MayBe
  <2> QED BY <1>0, <1>2, <1>3, <1>4, <1>10, <2>1 DEF MarkPaygLineItemsAdded, Write
<1>11. CASE FinalizePaygInvoice(w)
  <2>1. k.at = "finalize" /\ k.invoice = Id(p) /\ Known(p)
    BY <1>0, <1>1, <1>11 DEF FinalizePaygInvoice, MayBe
  <2>2. \/ Goto(w, "fail")
        \/ Goto(w, "settle") /\ invoices' = [invoices EXCEPT ![Id(p)].state = "finalized"]
    BY <1>0, <1>11, <2>1 DEF FinalizePaygInvoice, Ask
  <2>3. CASE Goto(w, "settle") /\ invoices' = [invoices EXCEPT ![Id(p)].state = "finalized"]
    <3>1. invoices[Id(p)] \in InvoiceRecords
      BY <2>1, Places DEF IInv, Known
    <3>2. Known(p)' /\ invoices'[Id(p)].state = "finalized"
      BY <2>1, <2>3, <3>1 DEF Known, InvoiceRecords
    <3>3. MayBe("settle", k.invoice, p)'
      BY <2>1, <3>2 DEF MayBe, Final
    <3> QED BY <1>2, <1>4, <2>1, <2>3, <3>3
  <2> QED BY <1>2, <2>1, <2>2, <2>3
<1>12. CASE SettleFinalizedInvoice(w)
  <2>1. k.at = "settle" /\ (k.paid => PaidInvoice(p))
    BY <1>0, <1>1, <1>12 DEF SettleFinalizedInvoice, Knows
  <2>2. k.paid => MayBe("document", k.invoice, p)
    BY <2>1 DEF MayBe
  <2> QED BY <1>0, <1>2, <1>3, <1>4, <1>12, <2>1, <2>2 DEF SettleFinalizedInvoice, Write
<1>13. CASE CreatePaidStorageInvoice(w) \/ FailPaygPeriod(w)
  BY <1>2, <1>13 DEF CreatePaidStorageInvoice, FailPaygPeriod
<1> QED BY <1>5, <1>6, <1>7, <1>8, <1>9, <1>10, <1>11, <1>12, <1>13 DEF Issue

\* A worker knows what it does.
LEMMA WorkerStep ==
  ASSUME IInv, Next
  PROVE  worker' \in [Workers -> WorkerRecords] /\ \A w \in Workers : WorkerOK(worker[w])'
<1>1. worker \in [Workers -> WorkerRecords]
  BY DEF IInv, TypeOK, WorkerRecords
<1>2. ASSUME NEW w \in Workers, worker'[w] = worker[w]
      PROVE  WorkerOK(worker[w])'
  <2>1. PICK k \in WorkerRecords : k = worker[w]
    BY <1>1
  <2>2. WorkerOK(k) /\ (k.at # "idle" => row[k.period].status # None)
    BY <2>1 DEF IInv, WorkerOK, Knows
  <2>3. k.at = "idle" => WorkerOK(k)'
    BY DEF WorkerOK
  <2>4. WorkerOK(k)'
    BY <2>2, <2>3, SeenStays
  <2> QED BY <1>2, <2>1, <2>4 DEF WorkerOK
<1>3. ASSUME NEW w \in Workers, Moved(w)
      PROVE  worker' \in [Workers -> WorkerRecords] /\ \A j \in Workers : WorkerOK(worker[j])'
  <2>1. PICK k \in WorkerRecords : worker' = [worker EXCEPT ![w] = k] /\ WorkerOK(k)'
    BY <1>3 DEF Moved
  <2>2. worker'[w] = k /\ \A j \in Workers \ {w} : worker'[j] = worker[j]
    BY <1>1, <2>1
  <2>3. WorkerOK(worker[w])'
    BY <2>1, <2>2 DEF WorkerOK
  <2> QED BY <1>1, <1>2, <2>1, <2>2, <2>3
<1>4. ASSUME NEW w \in Workers, Dies(w) PROVE Moved(w)
  BY <1>1, <1>4, Moves DEF Dies
<1>5. worker' = worker \/ \E w \in Workers : ClaimDuePaygPeriod(w) \/ Issue(w) \/ Dies(w)
  BY DEF Next, WeekEnds, RepairCompletedProfilePointers, LeaseExpires, Pay, CreatePaygQrPayment,
     ReconcilePaidBillingInvoices, RequestQrPayment, AddWorkspaceUsageAdjustment, QrPaymentFails,
     ApplyPaygQrPaymentIntentStatus, ClaimWebhook, ApplyPaygInvoiceWebhook, DocumentWebhook,
     MarkWebhookProcessed
<1>6. CASE worker' = worker
  BY <1>1, <1>2, <1>6
<1> QED BY <1>3, <1>4, <1>5, <1>6, ClaimMoves, IssueMoves

-----------------------------------------------------------------------------
\* The customer asks for a period that exists.
LEMMA CallerStep ==
  ASSUME IInv, Next
  PROVE  /\ caller' \in [at : {"idle", "create", "fail"}, period : Periods]
         /\ caller'.at # "idle" => row'[caller'.period].status # None
<1>0. /\ caller \in [at : {"idle", "create", "fail"}, period : Periods]
      /\ caller.at # "idle" => row[caller.period].status # None
      /\ \A p \in Periods : row[p].status # None => row'[p].status # None
  BY RowsKept DEF IInv, TypeOK
<1>1. ASSUME NEW p \in Periods, RequestQrPayment(p)
      PROVE  caller' = [at |-> "create", period |-> p] /\ row'[p].status # None
  BY <1>0, <1>1, NoneAssumption DEF RequestQrPayment
<1>2. CASE CreatePaygQrPayment \/ QrPaymentFails
  <2>1. /\ \E a \in {"idle", "fail"} : caller' = [caller EXCEPT !.at = a]
        /\ caller.at # "idle"
    BY <1>2 DEF CreatePaygQrPayment, QrPaymentFails
  <2> QED BY <1>0, <2>1
<1>3. \/ caller' = caller \/ CreatePaygQrPayment \/ QrPaymentFails
      \/ \E p \in Periods : RequestQrPayment(p)
  BY DEF Next, WeekEnds, RepairCompletedProfilePointers, LeaseExpires, Pay, Dies,
     ReconcilePaidBillingInvoices, AddWorkspaceUsageAdjustment, ApplyPaygQrPaymentIntentStatus,
     ClaimWebhook, ApplyPaygInvoiceWebhook, DocumentWebhook, MarkWebhookProcessed,
     ClaimDuePaygPeriod, Issue, Close, MarkPaygPeriodSkipped, MarkPaygPeriodAwaitingQrPayment,
     Write, FetchAirwallexInvoice, Ask, CreatePaygInvoiceDraft,
     AddPaygInvoiceLineItems, FinalizePaygInvoice, SavePaygProviderInvoice, FailPaygPeriod,
     MarkPaygLineItemsAdded, SettleFinalizedInvoice, CreatePaidStorageInvoice
<1> QED BY <1>0, <1>1, <1>2, <1>3

\* What a webhook is about stays true.
LEMMA EventStays ==
  ASSUME IInv, Next
  PROVE  /\ \A k \in HookRecords : HookOK(k) => HookOK(k)'
         /\ \A kind \in EventKinds, p \in Periods : Applied(kind, p) => Applied(kind, p)'
         /\ \A event \in processed : EventOK(event) => EventOK(event)'
<1>1. \A p \in Periods : Kept(p) /\ Id(p) # None
  BY KeptStep, PeriodsAreNats
<1>2. ASSUME NEW kind, NEW p \in Periods, Applied(kind, p)
      PROVE  Applied(kind, p)'
  BY <1>1, <1>2 DEF Applied, Kept
<1>3. ASSUME NEW k \in HookRecords, HookOK(k)
      PROVE  HookOK(k)'
  <2>1. CASE k.at = "idle"
    BY <2>1 DEF HookOK
  <2>2. CASE k.at # "idle"
    <3>1. PICK p \in Periods :
            /\ k.id = Id(p) /\ Known(p)
            /\ k.kind = "failed" => Final(p)
            /\ k.kind = "paid" => PaidInvoice(p)
            /\ k.at \in {"document", "mark"} => Applied(k.kind, p)
            /\ k.at = "document" => k.kind = "paid"
      BY <1>3, <2>2 DEF HookOK
    <3>2. /\ Known(p)'
          /\ k.kind = "failed" => Final(p)'
          /\ k.kind = "paid" => PaidInvoice(p)'
          /\ k.at \in {"document", "mark"} => Applied(k.kind, p)'
      BY <1>1, <1>2, <3>1 DEF Kept
    <3> QED BY <3>1, <3>2 DEF HookOK
  <2> QED BY <2>1, <2>2
<1>4. ASSUME NEW event, EventOK(event)
      PROVE  EventOK(event)'
  <2>1. PICK p \in Periods : event[2] = Id(p) /\ Known(p) /\ Applied(event[1], p)
    BY <1>4 DEF EventOK
  <2>2. Known(p)' /\ Applied(event[1], p)'
    BY <1>1, <1>2, <2>1 DEF Kept
  <2> QED BY <2>1, <2>2 DEF EventOK
<1> QED BY <1>2, <1>3, <1>4

\* A webhook in progress knows its event, and what it has applied.
LEMMA HookStep ==
  ASSUME IInv, Next
  PROVE  hook' \in [Deliveries -> HookRecords] /\ \A d \in Deliveries : HookOK(hook[d])'
<1> DEFINE Came(d) == \E k \in HookRecords : hook' = [hook EXCEPT ![d] = k] /\ HookOK(k)'
<1>0. hook \in [Deliveries -> HookRecords]
  BY DEF IInv, TypeOK, HookRecords
<1>1. ASSUME NEW d \in Deliveries, GotoHook(d, "idle")
      PROVE  Came(d)
  <2>1. IdleHook \in HookRecords
    BY DEF IdleHook, HookRecords, HookPlaces, EventKinds
  <2>2. HookOK(IdleHook)'
    BY DEF IdleHook, HookOK
  <2> QED BY <1>1, <2>1, <2>2 DEF GotoHook
<1>2. ASSUME NEW d \in Deliveries, NEW kind \in EventKinds, NEW id \in DOMAIN invoices,
             ClaimWebhook(d, kind, id)
      PROVE  Came(d)
  <2>1. PICK p \in Periods : id = Id(p)
    BY DEF IInv, InvoicesOK
  <2>2. PICK k \in HookRecords : k = [at |-> "apply", kind |-> kind, id |-> id]
    BY <2>1, PeriodsAreNats DEF HookRecords, HookPlaces
  <2>3. /\ Known(p) /\ (kind = "failed" => Final(p)) /\ (kind = "paid" => PaidInvoice(p))
        /\ hook' = [hook EXCEPT ![d] = k]
    BY <1>2, <2>1, <2>2 DEF ClaimWebhook, Sent, Known, Final, PaidInvoice
  <2>4. HookOK(k)
    BY <2>1, <2>2, <2>3 DEF HookOK
  <2> QED BY <2>3, <2>4, EventStays
<1>3. ASSUME NEW d \in Deliveries, NEW place \in {"document", "mark"}, NEW p \in Periods,
             NEW kind \in EventKinds, hook[d].at # "idle", hook[d].id = Id(p), hook[d].kind = kind,
             Applied(kind, p)', place = "document" => kind = "paid", GotoHook(d, place)
      PROVE  Came(d)
  <2>1. PICK old \in HookRecords : old = hook[d]
    BY <1>0
  <2>2. PICK k \in HookRecords : k = [old EXCEPT !.at = place]
    BY DEF HookRecords, HookPlaces
  <2>3. k.at = place /\ k.id = Id(p) /\ k.kind = kind
    BY <1>3, <2>1, <2>2 DEF HookRecords
  <2>4. hook' = [hook EXCEPT ![d] = k]
    BY <1>3, <2>1, <2>2 DEF GotoHook
  <2>5. HookOK(old)'
    BY <2>1, EventStays DEF IInv
  <2>6. PICK j \in Periods : /\ old.id = Id(j) /\ Known(j)'
                             /\ old.kind = "failed" => Final(j)'
                             /\ old.kind = "paid" => PaidInvoice(j)'
    BY <1>3, <2>1, <2>5 DEF HookOK
  <2>7. j = p
    <3>1. Id(j) = Id(p)
      BY <1>3, <2>1, <2>6
    <3>2. Id(j)[2] = j /\ Id(p)[2] = p
      BY PeriodsAreNats
    <3> QED BY <3>1, <3>2
  <2>8. HookOK(k)'
    BY <1>3, <2>1, <2>3, <2>6, <2>7 DEF HookOK
  <2> QED BY <2>4, <2>8
<1>4. ASSUME NEW d \in Deliveries, ApplyPaygInvoiceWebhook(d)
      PROVE  Came(d)
  <2>1. PICK p \in Periods, kind \in EventKinds :
          hook[d].id = Id(p) /\ hook[d].kind = kind /\ hook[d].id[2] = p
    BY <1>0, <1>4, PeriodsAreNats DEF IInv, HookOK, ApplyPaygInvoiceWebhook, HookRecords
  <2>2. CASE GotoHook(d, "idle")
    BY <1>1, <2>2
  <2>3. CASE /\ GotoHook(d, IF kind = "paid" /\ row[p].cost > 0 THEN "document" ELSE "mark")
             /\ row' = [row EXCEPT ![p] = [Reported(row[p], kind) EXCEPT !.invoice = Id(p)]]
    <3>1. row \in [Periods -> RowRecords] /\ Id(p) \in Ids
      BY PeriodsAreNats DEF IInv, TypeOK, RowRecords
    <3>2. row'[p] = [Reported(row[p], kind) EXCEPT !.invoice = Id(p)]
      BY <2>3, <3>1
    <3>3. row'[p].invoice = Id(p) /\ (kind = "paid" => row'[p].paidAt)
      <4>1. /\ kind = "paid" => Has(row'[p], "paid", row[p].cost, Id(p), row[p].items,
                                    row[p].qrFlow, TRUE)
            /\ kind = "failed" => Has(row'[p], "payment_failed", row[p].cost, Id(p),
                                      row[p].items, row[p].qrFlow, row[p].paidAt)
            /\ kind = "created" => Has(row'[p], row[p].status, row[p].cost, Id(p),
                                       row[p].items, row[p].qrFlow, row[p].paidAt)
        <5>1. row[p] \in RowRecords
          BY <3>1
        <5> QED BY <3>1, <3>2, <5>1, Reports
      <4> QED BY <4>1 DEF Has, EventKinds
    <3>4. Applied(kind, p)'
      BY <3>3 DEF Applied
    <3> QED BY <1>3, <1>4, <2>1, <2>3, <3>4 DEF ApplyPaygInvoiceWebhook
  <2> QED BY <1>4, <2>1, <2>2, <2>3 DEF ApplyPaygInvoiceWebhook
<1>5. ASSUME NEW d \in Deliveries, DocumentWebhook(d)
      PROVE  Came(d)
  <2>1. PICK p \in Periods, kind \in EventKinds :
          hook[d].id = Id(p) /\ hook[d].kind = kind /\ Applied(kind, p)
    BY <1>0, <1>5 DEF IInv, HookOK, DocumentWebhook, HookRecords
  <2>2. Applied(kind, p)'
    BY <2>1, EventStays
  <2> QED BY <1>3, <1>5, <2>1, <2>2 DEF DocumentWebhook
<1>6. ASSUME NEW d \in Deliveries, MarkWebhookProcessed(d)
      PROVE  Came(d)
  BY <1>1, <1>6 DEF MarkWebhookProcessed
<1>7. ASSUME NEW d \in Deliveries, hook'[d] = hook[d]
      PROVE  HookOK(hook[d])'
  <2>1. PICK k \in HookRecords : k = hook[d]
    BY <1>0
  <2>2. HookOK(k)'
    BY <2>1, EventStays DEF IInv
  <2> QED BY <1>7, <2>1, <2>2 DEF HookOK
<1>8. ASSUME NEW d \in Deliveries, Came(d)
      PROVE  hook' \in [Deliveries -> HookRecords] /\ \A j \in Deliveries : HookOK(hook[j])'
  <2>1. PICK k \in HookRecords : hook' = [hook EXCEPT ![d] = k] /\ HookOK(k)'
    BY <1>8
  <2>2. hook'[d] = k /\ \A j \in Deliveries \ {d} : hook'[j] = hook[j]
    BY <1>0, <2>1
  <2>3. HookOK(hook[d])'
    BY <2>1, <2>2 DEF HookOK
  <2> QED BY <1>0, <1>7, <2>1, <2>2, <2>3
<1>9. \/ hook' = hook
      \/ \E d \in Deliveries :
           \/ \E kind \in EventKinds, id \in DOMAIN invoices : ClaimWebhook(d, kind, id)
           \/ ApplyPaygInvoiceWebhook(d) \/ DocumentWebhook(d) \/ MarkWebhookProcessed(d)
  BY DEF Next, WeekEnds, RepairCompletedProfilePointers, LeaseExpires, Pay, Dies,
     ReconcilePaidBillingInvoices, AddWorkspaceUsageAdjustment, ApplyPaygQrPaymentIntentStatus,
     RequestQrPayment, CreatePaygQrPayment, QrPaymentFails, ClaimDuePaygPeriod, Issue, Close,
     MarkPaygPeriodSkipped, MarkPaygPeriodAwaitingQrPayment,
     Write, FetchAirwallexInvoice, Ask, CreatePaygInvoiceDraft, AddPaygInvoiceLineItems,
     FinalizePaygInvoice, SavePaygProviderInvoice, FailPaygPeriod, MarkPaygLineItemsAdded,
     SettleFinalizedInvoice, CreatePaidStorageInvoice
<1>10. CASE hook' = hook
  BY <1>0, <1>7, <1>10
<1> HIDE DEF Came
<1> QED BY <1>2, <1>4, <1>5, <1>6, <1>8, <1>9, <1>10

\* An event is settled after it was applied.
LEMMA EventStep ==
  ASSUME IInv, Next
  PROVE  processed' \subseteq EventKinds \X Ids /\ \A event \in processed' : EventOK(event)'
<1>0. processed \subseteq EventKinds \X Ids
  BY DEF IInv, TypeOK
<1>1. ASSUME NEW d \in Deliveries, MarkWebhookProcessed(d)
      PROVE  \E event \in EventKinds \X Ids :
               processed' \subseteq processed \cup {event} /\ EventOK(event)
  <2>1. hook[d] \in HookRecords /\ HookOK(hook[d])
    BY Places DEF IInv
  <2>2. PICK p \in Periods, kind \in EventKinds :
          hook[d].id = Id(p) /\ hook[d].kind = kind /\ Known(p) /\ Applied(kind, p)
    BY <1>1, <2>1 DEF MarkWebhookProcessed, HookOK, HookRecords
  <2>3. <<kind, Id(p)>> \in EventKinds \X Ids /\ EventOK(<<kind, Id(p)>>)
    BY <2>2, PeriodsAreNats DEF EventOK
  <2>4. processed' \subseteq processed \cup {<<kind, Id(p)>>}
    BY <1>1, <2>2 DEF MarkWebhookProcessed
  <2> QED BY <2>3, <2>4
<1>2. ASSUME NEW event, EventOK(event) PROVE EventOK(event)'
  <2>1. PICK p \in Periods : event[2] = Id(p) /\ Known(p) /\ Applied(event[1], p)
    BY <1>2 DEF EventOK
  <2>2. Kept(p) /\ Id(p) # None
    BY KeptStep, PeriodsAreNats
  <2> QED BY <2>1, <2>2 DEF Kept, Applied, EventOK
<1>3. processed' = processed \/ \E d \in Deliveries : MarkWebhookProcessed(d)
  BY DEF Next, WeekEnds, RepairCompletedProfilePointers, LeaseExpires, Pay, Dies,
     ReconcilePaidBillingInvoices, AddWorkspaceUsageAdjustment, ApplyPaygQrPaymentIntentStatus,
     RequestQrPayment, CreatePaygQrPayment, QrPaymentFails, ClaimDuePaygPeriod, Issue, Close,
     MarkPaygPeriodSkipped, MarkPaygPeriodAwaitingQrPayment,
     Write, FetchAirwallexInvoice, Ask, CreatePaygInvoiceDraft, AddPaygInvoiceLineItems,
     FinalizePaygInvoice, SavePaygProviderInvoice, FailPaygPeriod, MarkPaygLineItemsAdded,
     SettleFinalizedInvoice, CreatePaidStorageInvoice, ClaimWebhook, Claimed,
     ApplyPaygInvoiceWebhook, DocumentWebhook
<1>4. \A event \in processed : EventOK(event)
  BY DEF IInv
<1> QED BY <1>0, <1>1, <1>2, <1>3, <1>4

\* A line keeps an invoice of its kind.
LEMMA LineEdit ==
  ASSUME NEW key \in Ids, NEW old \in InvoiceRecords, NEW b \in Nat
  PROVE  [old EXCEPT !.amount = @ + b, !.keys = @ \cup {key}] \in InvoiceRecords
<1>1. old.amount \in Nat /\ old.keys \subseteq Ids
  BY DEF InvoiceRecords
<1>2. old.amount + b \in Nat
  BY <1>1
<1>3. old.keys \cup {key} \in SUBSET Ids
  BY <1>1
<1> QED BY <1>2, <1>3 DEF InvoiceRecords

\* Every row, answer and place keeps its kind.
LEMMA TypeStep ==
  ASSUME IInv, Next
  PROVE  TypeOK'
<1>1. pointer' \in 1 .. PeriodCount + 1
  <2>1. pointer \in 1 .. PeriodCount + 1 /\ PeriodCount \in Nat
    BY PaygAssumption DEF IInv, TypeOK
  <2> QED BY <2>1, PointerStep DEF Periods
<1>2. row' \in [Periods -> RowRecords]
  <2>0. row = [p \in Periods |-> row[p]] /\ worker \in [Workers -> WorkerRecords]
    BY DEF IInv, TypeOK, WorkerRecords
  <2>1. row' = [p \in Periods |-> row'[p]]
    BY <2>0 DEF Next, WeekEnds, RepairCompletedProfilePointers, LeaseExpires, Pay, Dies,
       ReconcilePaidBillingInvoices, AddWorkspaceUsageAdjustment, ApplyPaygQrPaymentIntentStatus,
       RequestQrPayment, CreatePaygQrPayment, QrPaymentFails, ClaimDuePaygPeriod, Issue, Close,
       MarkPaygPeriodSkipped, MarkPaygPeriodAwaitingQrPayment,
       Write, FetchAirwallexInvoice, Ask, CreatePaygInvoiceDraft, AddPaygInvoiceLineItems,
       FinalizePaygInvoice, SavePaygProviderInvoice, FailPaygPeriod, MarkPaygLineItemsAdded,
       SettleFinalizedInvoice, CreatePaidStorageInvoice, ClaimWebhook, ApplyPaygInvoiceWebhook,
       DocumentWebhook, MarkWebhookProcessed
  <2> QED BY <2>1, RowsKept
<1>3. /\ DOMAIN invoices' \subseteq Ids
      /\ \A i \in DOMAIN invoices' : invoices'[i] \in InvoiceRecords
  <2>1. DOMAIN invoices' \subseteq Ids
    BY InvoiceCases, PeriodsAreNats
  <2>2. ASSUME NEW p \in Periods, Known(p)' PROVE invoices'[Id(p)] \in InvoiceRecords
    <3>1. InvoiceCase(p) /\ Cost(p) \in Nat /\ Id(p) \in Ids
      BY InvoiceCases, CostType, PeriodsAreNats DEF IInv
    <3>2. Known(p) => invoices[Id(p)] \in InvoiceRecords
      BY Places DEF IInv, Known
    <3>3. \A w \in Workers : worker[w].bill \in Nat
      BY Places DEF IInv, WorkerRecords
    <3> DEFINE old == invoices[Id(p)]
               new == invoices'[Id(p)]
    <3>4. \/ new = [state |-> "draft", amount |-> 0, keys |-> {}]
          \/ old \in InvoiceRecords /\ new = old
          \/ /\ old \in InvoiceRecords
             /\ \E b \in Nat : new = [old EXCEPT !.amount = @ + b, !.keys = @ \cup {Id(p)}]
          \/ old \in InvoiceRecords /\ \E s \in {"finalized", "paid"} : new = [old EXCEPT !.state = s]
      BY <2>2, <3>1, <3>2, <3>3 DEF InvoiceCase
    <3> HIDE DEF old, new
    <3>5. [state |-> "draft", amount |-> 0, keys |-> {}] \in InvoiceRecords
      BY DEF InvoiceRecords
    <3>6. old \in InvoiceRecords =>
            \A s \in {"finalized", "paid"} : [old EXCEPT !.state = s] \in InvoiceRecords
      BY DEF InvoiceRecords
    <3>7. old \in InvoiceRecords =>
            \A b \in Nat : [old EXCEPT !.amount = @ + b, !.keys = @ \cup {Id(p)}] \in InvoiceRecords
      BY <3>1, LineEdit
    <3>8. new \in InvoiceRecords
      BY <3>4, <3>5, <3>6, <3>7
    <3> QED BY <3>8 DEF new
  <2> QED BY <2>1, <2>2, InvoiceCases DEF Known
<1>4. failures' \in 0 .. MaxFailures
  <2>0. failures \in 0 .. MaxFailures /\ MaxFailures \in Nat
    BY PaygAssumption DEF IInv, TypeOK
  <2>1. failures' = failures \/ Breaks
    BY DEF Next, WeekEnds, RepairCompletedProfilePointers, LeaseExpires, Pay, Dies, Documents,
       ReconcilePaidBillingInvoices, AddWorkspaceUsageAdjustment, ApplyPaygQrPaymentIntentStatus,
       RequestQrPayment, CreatePaygQrPayment, QrPaymentFails, ClaimDuePaygPeriod, Issue, Close,
       MarkPaygPeriodSkipped, MarkPaygPeriodAwaitingQrPayment,
       Write, FetchAirwallexInvoice, Ask, CreatePaygInvoiceDraft, AddPaygInvoiceLineItems,
       FinalizePaygInvoice, SavePaygProviderInvoice, FailPaygPeriod, MarkPaygLineItemsAdded,
       SettleFinalizedInvoice, CreatePaidStorageInvoice, ClaimWebhook, ApplyPaygInvoiceWebhook,
       DocumentWebhook, MarkWebhookProcessed
  <2> QED BY <2>0, <2>1 DEF Breaks
<1>5. documented' \subseteq Periods
  BY DocumentedStep
<1> QED BY <1>1, <1>2, <1>3, <1>4, <1>5, CalendarStep, QrStep, IntentStep, WorkerStep, CallerStep,
        HookStep, EventStep DEF TypeOK, RowRecords, InvoiceRecords, WorkerRecords, HookRecords

-----------------------------------------------------------------------------
\* Nothing is billed at first.
LEMMA InitIInv == Init => IInv
<1> SUFFICES ASSUME Init PROVE IInv
  OBVIOUS
<1>1. 1 \in Periods /\ PeriodCount \in Nat \ {0}
  BY PaygAssumption DEF Periods
<1>2. TypeOK
  <2>1. row \in [Periods -> RowRecords]
    BY DEF Init, RowRecords, Statuses
  <2>2. worker \in [Workers -> WorkerRecords]
    BY <1>1 DEF Init, IdleWorker, WorkerRecords, WorkerPlaces
  <2>3. hook \in [Deliveries -> HookRecords]
    BY DEF Init, IdleHook, HookRecords, HookPlaces, EventKinds
  <2>4. DOMAIN invoices = {}
    BY DEF Init
  <2>5. closed \in 0 .. PeriodCount /\ pointer \in 1 .. PeriodCount + 1 /\ failures \in 0 .. MaxFailures
    BY <1>1, PaygAssumption DEF Init
  <2> QED BY <1>1, <2>1, <2>2, <2>3, <2>4, <2>5
          DEF Init, TypeOK, RowRecords, WorkerRecords, HookRecords
<1>3. InvoicesOK
  BY DEF Init, InvoicesOK, InvoiceOK, Known
<1>4. ASSUME NEW p \in Periods PROVE RowOK(p)
  <2>1. ~(p < pointer)
    BY PeriodsAreNats DEF Init
  <2>2. None \notin Done /\ None # "paid"
    BY NoneAssumption DEF Done
  <2> QED BY <2>1, <2>2 DEF Init, RowOK
<1>5. /\ \A w \in Workers : WorkerOK(worker[w])
      /\ \A d \in Deliveries : HookOK(hook[d])
      /\ caller.at = "idle" /\ processed = {}
  BY DEF Init, IdleWorker, IdleHook, WorkerOK, HookOK
<1> QED BY <1>2, <1>3, <1>4, <1>5 DEF IInv

\* The invariant holds of every reachable state.
THEOREM Invariant == Spec => []IInv
<1>1. IInv /\ [Next]_vars => IInv'
  <2>1. ASSUME IInv, Next PROVE IInv'
    <3>1. caller'.at # "idle" => row'[caller'.period].status # None
      BY <2>1, CallerStep
    <3>2. (\A w \in Workers : WorkerOK(worker[w]))'
      BY <2>1, WorkerStep
    <3>3. (\A d \in Deliveries : HookOK(hook[d]))'
      BY <2>1, HookStep
    <3>4. (\A event \in processed : EventOK(event))'
      BY <2>1, EventStep
    <3>5. (\A p \in Periods : RowOK(p))' /\ InvoicesOK' /\ TypeOK'
      BY <2>1, RowStep, InvoicesStep, TypeStep
    <3> QED BY <3>1, <3>2, <3>3, <3>4, <3>5 DEF IInv
  <2>2. ASSUME IInv, UNCHANGED vars PROVE IInv'
    <3> USE <2>2 DEF vars, calendar, provider, IInv, Known, Lined, Final, PaidInvoice, Cost, Bill,
        InvoiceAmount
    <3>1. TypeOK'
      BY DEF TypeOK
    <3>2. InvoicesOK'
      BY DEF InvoicesOK, InvoiceOK
    <3>3. (\A p \in Periods : RowOK(p))'
      BY DEF RowOK, Billed, Evidence
    <3>4. (\A w \in Workers : WorkerOK(worker[w]))'
      BY DEF WorkerOK, Knows, MayBe
    <3>5. (\A d \in Deliveries : HookOK(hook[d]))' /\ (\A event \in processed : EventOK(event))'
      BY DEF HookOK, EventOK, Applied
    <3>6. (caller.at # "idle" => row[caller.period].status # None)'
      OBVIOUS
    <3> QED BY <3>1, <3>2, <3>3, <3>4, <3>5, <3>6
  <2> QED BY <2>1, <2>2
<1> QED BY InitIInv, <1>1, PTL DEF Spec

\* The record types of the module hold.
THEOREM TypeCorrect == Spec => []TypeOK
<1>1. IInv => TypeOK
  BY DEF IInv
<1> QED BY <1>1, Invariant, PTL

\* The only invoice of a week that can be issued is the one of its request id.
LEMMA IssuedOne ==
  ASSUME IInv, NEW p \in Periods
  PROVE  /\ Issued(p) \subseteq {Id(p)}
         /\ Issued(p) # {} <=> Final(p)
         /\ (\E id \in Issued(p) : invoices[id].state = "paid") <=> PaidInvoice(p)
<1>1. \A id \in DOMAIN invoices : id[2] = p => id = Id(p)
  BY PeriodsAreNats DEF IInv, InvoicesOK
<1>2. Id(p)[2] = p
  BY PeriodsAreNats
<1> QED BY <1>1, <1>2 DEF Issued, Final, PaidInvoice, Known

\* "No week is passed over": the profile leaves a week only when it is billed.
THEOREM NoWeekPassedOver == Spec => []MovedOnIsBilled
<1>1. ASSUME IInv, NEW p \in 1 .. pointer - 1
      PROVE  row[p].status # None /\ (Bill(p) = 0 \/ row[p].qrFlow \/ Issued(p) # {})
  <2>1. pointer \in 1 .. PeriodCount + 1 /\ PeriodCount \in Nat
    BY <1>1, PaygAssumption DEF IInv, TypeOK
  <2>2. p \in Periods /\ p < pointer
    BY <1>1, <2>1 DEF Periods
  <2>3. RowOK(p)
    BY <1>1, <2>2 DEF IInv
  <2> QED BY <1>1, <2>2, <2>3, IssuedOne DEF RowOK, Billed
<1>2. IInv => MovedOnIsBilled
  BY <1>1 DEF MovedOnIsBilled
<1> QED BY <1>2, Invariant, PTL

\* However often a week is claimed, one invoice of it is issued, about what it costs.
THEOREM OneInvoiceInFull == Spec => []BilledOnceInFull
<1>1. ASSUME IInv, NEW p \in Periods
      PROVE  Cardinality(Issued(p)) <= 1
  <2>1. IsFiniteSet({Id(p)}) /\ Cardinality({Id(p)}) = 1
    BY FS_Singleton
  <2>2. Cardinality(Issued(p)) <= Cardinality({Id(p)})
    BY <1>1, <2>1, IssuedOne, FS_Subset
  <2> QED BY <2>1, <2>2
<1>2. ASSUME IInv, NEW p \in Periods, NEW id \in Issued(p)
      PROVE  invoices[id].amount = Bill(p) /\ row[p].cost = Cost(p)
  <2>1. id = Id(p) /\ Final(p)
    BY <1>2, IssuedOne
  <2>2. InvoiceOK(p) /\ RowOK(p)
    BY <1>2 DEF IInv, InvoicesOK
  <2> QED BY <2>1, <2>2 DEF InvoiceOK, OneLine, Final, RowOK
<1>3. IInv => BilledOnceInFull
  BY <1>1, <1>2 DEF BilledOnceInFull
<1> QED BY <1>3, Invariant, PTL

\* What is recorded as paid, the provider has the money of.
THEOREM PaidIsEvident == Spec => []PaidHasEvidence
<1>1. IInv => PaidHasEvidence
  BY IssuedOne DEF PaidHasEvidence, IInv, RowOK, Evidence
<1> QED BY <1>1, Invariant, PTL

\* An event that is settled has left its mark on the row.
THEOREM SettledEventsApplied == Spec => []ProcessedIsApplied
<1>1. ASSUME IInv, NEW event \in processed
      PROVE  /\ row[event[2][2]].invoice = event[2]
             /\ event[1] = "paid" => row[event[2][2]].paidAt
  <2>1. PICK p \in Periods : event[2] = Id(p) /\ Applied(event[1], p)
    BY <1>1 DEF IInv, EventOK
  <2>2. event[2][2] = p
    BY <2>1, PeriodsAreNats
  <2> QED BY <2>1, <2>2 DEF Applied
<1>2. IInv => ProcessedIsApplied
  BY <1>1 DEF ProcessedIsApplied
<1> QED BY <1>2, Invariant, PTL
=============================================================================
