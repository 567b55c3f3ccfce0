----------------------------- MODULE PaygPeriod -----------------------------
(***************************************************************************)
(* Weekly storage billing of one workspace: the periods of its profile     *)
(* (payg-billing.repo.ts), the billing cycle of several workers that turns *)
(* a closed period into a provider invoice (payg-billing.worker.ts), and   *)
(* the QR payment and the provider's webhooks that settle it               *)
(* (airwallex.service.ts).  Every statement, transaction and provider call *)
(* is a step of its own; each may fail before or after it took effect, a   *)
(* worker may die between any two of them or stall past the 30 minutes     *)
(* after which its period is claimed again.  A workspace has one QR method *)
(* here; the checkout of API usage, which nothing calls, is left out.      *)
(* Operators commented "Variant:" are plausible mistakes and not part of   *)
(* the specification.                                                      *)
(***************************************************************************)
EXTENDS Integers, FiniteSets

CONSTANTS
  PeriodCount,   \* weeks
  Cent,          \* the unit of costs is one of so many parts of a cent
  Usage,         \* Usage[p]: what the storage of the week costs
  Credits,       \* credits an administrator may grant for a week
  Workers,       \* processes that run the billing cycle
  None,          \* no row, no invoice, no payment
  Deliveries,    \* webhook requests that may be in progress at the same time
  MaxFailures    \* failed calls and deaths of workers (bounds the model)

Periods == 1 .. PeriodCount

ASSUME PaygAssumption ==
  /\ PeriodCount \in Nat \ {0} /\ Cent \in Nat \ {0} /\ Usage \in [Periods -> Nat]
  /\ Credits \subseteq Nat /\ MaxFailures \in Nat

\* NULL is none of the values of the columns.
ASSUME NoneAssumption ==
  None \notin {"processing", "payment_due", "payment_failed", "paid", "skipped", "failed",
               "active", "ended", "succeeded", "open"} \cup (({"payg"} \cup Workers) \X Periods)

VARIABLES
  closed,      \* number of weeks that have ended
  pointer,     \* current period of workspace_payg_profiles
  credit,      \* credit[p]: workspace_usage_adjustments of the week
  row,         \* row[p]: the workspace_payg_periods row
  qr,          \* qr[p]: status of the workspace_payg_qr_payments row
  documented,  \* periods with Lulu's own invoice of the payment
  processed,   \* events in airwallex_webhook_events with processed_at
  invoices,    \* the provider's invoices, by the request id that made them
  intent,      \* intent[p]: the provider's payment intent of the QR payment
  worker,      \* worker[w]: the await of its billing cycle, what it has read
  caller,      \* the customer's QR request
  hook,        \* hook[d]: the await of handleWebhook and the event
  failures     \* failed calls and deaths so far

provider == <<invoices, intent>>
calendar == <<closed, credit>>
vars == <<calendar, pointer, row, qr, documented, processed, provider,
          worker, caller, hook, failures>>

Statuses == {None, "processing", "payment_due", "payment_failed", "paid", "skipped", "failed"}
WorkerPlaces == {"idle", "skip", "await", "fetch", "create", "save", "items", "mark",
                 "finalize", "settle", "document", "fail"}
HookPlaces == {"idle", "apply", "document", "mark"}
EventKinds == {"created", "failed", "paid"}
Done == {"payment_due", "payment_failed", "paid", "skipped"}

IdleWorker == [at |-> "idle", period |-> 1, invoice |-> None, items |-> FALSE, bill |-> 0, paid |-> FALSE]
IdleHook == [at |-> "idle", kind |-> "created", id |-> None]

Init ==
  /\ closed = 0 /\ pointer = 1
  /\ credit = [p \in Periods |-> 0]
  /\ row = [p \in Periods |-> [status |-> None, cost |-> 0, fresh |-> FALSE, invoice |-> None,
                               items |-> FALSE, qrFlow |-> FALSE, paidAt |-> FALSE]]
  /\ qr = [p \in Periods |-> None]
  /\ documented = {} /\ processed = {}
  /\ invoices = [id \in {} |-> 0]
  /\ intent = [p \in Periods |-> None]
  /\ worker = [w \in Workers |-> IdleWorker]
  /\ caller = [at |-> "idle", period |-> 1]
  /\ hook = [d \in Deliveries |-> IdleHook]
  /\ failures = 0

Breaks == failures < MaxFailures /\ failures' = failures + 1

-----------------------------------------------------------------------------
\* Time and settings.

WeekEnds ==
  /\ closed < PeriodCount
  /\ closed' = closed + 1
  /\ UNCHANGED <<credit, pointer, row, qr, documented, processed, provider, worker, caller,
                 hook, failures>>

\* 30 minutes after processing_started_at
LeaseExpires(p) ==
  /\ row[p].status = "processing" /\ row[p].fresh
  /\ row' = [row EXCEPT ![p].fresh = FALSE]
  /\ UNCHANGED <<calendar, pointer, qr, documented, processed, provider, worker, caller, hook, failures>>

\* A credit is for the current week of the profile and refused once that is over.
Creditable(p) == pointer = p /\ closed < p

AddWorkspaceUsageAdjustment(p, amount) ==
  /\ Creditable(p) /\ credit[p] = 0
  /\ credit' = [credit EXCEPT ![p] = amount]
  /\ UNCHANGED <<closed, pointer, row, qr, documented, processed, provider, worker, caller,
                 hook, failures>>

-----------------------------------------------------------------------------
\* The billing cycle.

Goto(w, place) == worker' = [worker EXCEPT ![w].at = place]
GoIdle(w) == worker' = [worker EXCEPT ![w] = IdleWorker]

\* advanceCompletedProfile: only when the profile still stands at this period.
Advanced(p) == IF pointer = p THEN p + 1 ELSE pointer

\* Variant: a failed period counts as finished.
RepairableAll(p) == row[p].status \in Done \cup {"failed"}

Repairable(p) == row[p].status \in Done

RepairCompletedProfilePointers ==
  /\ pointer \in Periods /\ closed >= pointer /\ Repairable(pointer)
  /\ pointer' = pointer + 1
  /\ UNCHANGED <<calendar, row, qr, documented, processed, provider, worker, caller, hook, failures>>

\* Variant: a period is claimed again only when its attempt was marked failed.
ClaimableFailed(p) == row[p].status \in {None, "failed"}

Claimable(p) == row[p].status \in {None, "failed"} \/ (row[p].status = "processing" /\ ~row[p].fresh)

Cost(p) == IF credit[p] < Usage[p] THEN Usage[p] - credit[p] ELSE 0

\* invoiceAmount: to the nearest cent.
InvoiceAmount(cost) == (2 * cost + Cent) \div (2 * Cent)

Bill(p) == InvoiceAmount(Cost(p))

\* What issuePeriodInvoice may do first with a claimed period: the preferred
\* method of payment is the one the customer has chosen last.
Entries(p) ==
  IF Bill(p) = 0 THEN {"skip"}
  ELSE {"await", IF row[p].invoice # None THEN "fetch" ELSE "create"}

ClaimDuePaygPeriod(w) ==
  /\ worker[w].at = "idle" /\ pointer \in Periods /\ closed >= pointer /\ Claimable(pointer)
  /\ row' = [row EXCEPT ![pointer].status = "processing", ![pointer].fresh = TRUE,
                        ![pointer].cost = Cost(pointer)]
  /\ \E entry \in Entries(pointer) :
       worker' = [worker EXCEPT ![w] = [at |-> entry, period |-> pointer,
                    invoice |-> row[pointer].invoice, items |-> row[pointer].items,
                    bill |-> Bill(pointer), paid |-> FALSE]]
  /\ UNCHANGED <<calendar, pointer, qr, documented, processed, provider, caller, hook, failures>>

\* A statement or transaction that makes the period `changed` and the pointer
\* `moved`: it returns, or it throws, committed or not.
Write(w, changed, moved, next) ==
  LET p == worker[w].period IN
  /\ \/ row' = [row EXCEPT ![p] = changed] /\ pointer' = moved /\ next /\ UNCHANGED failures
     \/ /\ Breaks /\ Goto(w, "fail")
        /\ \/ row' = [row EXCEPT ![p] = changed] /\ pointer' = moved
           \/ UNCHANGED <<row, pointer>>
  /\ UNCHANGED <<calendar, qr, documented, processed, provider, caller, hook>>

\* A call of the provider that makes its invoices `changed`: it answers, or
\* it throws, executed or not.
Ask(w, changed, next) ==
  /\ \/ invoices' = changed /\ next /\ UNCHANGED failures
     \/ Breaks /\ Goto(w, "fail") /\ invoices' \in {changed, invoices}
  /\ UNCHANGED <<calendar, pointer, row, qr, documented, processed, intent, caller, hook>>

\* A week that costs nothing is closed, and so is one that is paid by QR code.
MarkPaygPeriodSkipped(w) ==
  LET p == worker[w].period IN
  /\ worker[w].at = "skip"
  /\ Write(w, [row[p] EXCEPT !.status = "skipped", !.fresh = TRUE], Advanced(p), GoIdle(w))

MarkPaygPeriodAwaitingQrPayment(w) ==
  LET p == worker[w].period IN
  /\ worker[w].at = "await"
  /\ Write(w, [row[p] EXCEPT !.status = "payment_due", !.fresh = TRUE, !.qrFlow = TRUE],
           Advanced(p), GoIdle(w))

Close(w) == MarkPaygPeriodSkipped(w) \/ MarkPaygPeriodAwaitingQrPayment(w)

FetchAirwallexInvoice(w) ==
  LET state == invoices[worker[w].invoice].state IN
  /\ worker[w].at = "fetch"
  /\ Ask(w, invoices,
         IF state = "draft" THEN Goto(w, IF worker[w].items THEN "finalize" ELSE "items")
         ELSE worker' = [worker EXCEPT ![w].at = "settle", ![w].paid = (state = "paid")])

\* Variant: every attempt has request ids of its own.
RequestIdPerAttempt(w, p) == <<w, p>>

\* deterministicBillingRequestId: one for all attempts at a period.
RequestId(w, p) == <<"payg", p>>

CreatePaygInvoiceDraft(w) ==
  LET id == RequestId(w, worker[w].period) IN
  /\ worker[w].at = "create"
  /\ Ask(w, IF id \in DOMAIN invoices THEN invoices
            ELSE [i \in DOMAIN invoices \cup {id} |->
                    IF i = id THEN [state |-> "draft", amount |-> 0, keys |-> {}] ELSE invoices[i]],
         worker' = [worker EXCEPT ![w].at = "save", ![w].invoice = id])

SavePaygProviderInvoice(w) ==
  /\ worker[w].at = "save"
  /\ Write(w, [row[worker[w].period] EXCEPT !.invoice = worker[w].invoice], pointer,
           Goto(w, IF worker[w].items THEN "finalize" ELSE "items"))

\* The provider adds lines to drafts and answers a repeated request as the first time.
AddPaygInvoiceLineItems(w) ==
  LET id == worker[w].invoice
      key == RequestId(w, worker[w].period)
      old == invoices[id] IN
  /\ worker[w].at = "items"
  /\ IF key \in old.keys THEN Ask(w, invoices, Goto(w, "mark"))
     ELSE IF old.state = "draft"
     THEN Ask(w, [invoices EXCEPT ![id].amount = old.amount + worker[w].bill, ![id].keys = old.keys \cup {key}],
              Goto(w, "mark"))
     ELSE Ask(w, invoices, Goto(w, "fail"))

MarkPaygLineItemsAdded(w) ==
  /\ worker[w].at = "mark"
  /\ Write(w, [row[worker[w].period] EXCEPT !.items = TRUE], pointer, Goto(w, "finalize"))

\* The provider finalizes a draft and rejects the request for any other invoice.
FinalizePaygInvoice(w) ==
  LET id == worker[w].invoice IN
  /\ worker[w].at = "finalize"
  /\ IF invoices[id].state = "draft"
     THEN Ask(w, [invoices EXCEPT ![id].state = "finalized"], Goto(w, "settle"))
     ELSE Ask(w, invoices, Goto(w, "fail"))

\* finalizePaygPeriod, from the state of the invoice that was read before
SettleFinalizedInvoice(w) ==
  LET p == worker[w].period
      paid == worker[w].paid IN
  /\ worker[w].at = "settle"
  /\ Write(w, [row[p] EXCEPT !.status = IF paid THEN "paid" ELSE "payment_due",
                             !.fresh = TRUE, !.paidAt = @ \/ paid],
           Advanced(p), IF paid THEN Goto(w, "document") ELSE GoIdle(w))

\* createPaidStorageInvoice: repeated, it finds its first result; it never throws.
Documents(p) == \/ documented' = documented \cup {p} /\ UNCHANGED failures
                \/ Breaks /\ UNCHANGED documented

CreatePaidStorageInvoice(w) ==
  /\ worker[w].at = "document"
  /\ Documents(worker[w].period)
  /\ GoIdle(w)
  /\ UNCHANGED <<calendar, pointer, row, qr, processed, provider, caller, hook>>

FailPaygPeriod(w) ==
  /\ worker[w].at = "fail"
  /\ GoIdle(w)
  /\ \/ row' = [row EXCEPT ![worker[w].period].status = "failed"] /\ UNCHANGED failures
     \/ Breaks /\ UNCHANGED row
  /\ UNCHANGED <<calendar, pointer, qr, documented, processed, provider, caller, hook>>

\* reconcilePaidBillingInvoices, for one storage period
ReconcilePaidBillingInvoices(p) ==
  /\ row[p].status = "paid" /\ row[p].cost > 0 /\ p \notin documented
  /\ Documents(p)
  /\ UNCHANGED <<calendar, pointer, row, qr, processed, provider, worker, caller, hook>>

\* The process dies; another takes its place.
Dies(w) ==
  /\ worker[w].at # "idle" /\ Breaks
  /\ GoIdle(w)
  /\ UNCHANGED <<calendar, pointer, row, qr, documented, processed, provider, caller, hook>>

Issue(w) ==
  \/ Close(w) \/ FetchAirwallexInvoice(w) \/ CreatePaygInvoiceDraft(w) \/ SavePaygProviderInvoice(w)
  \/ AddPaygInvoiceLineItems(w) \/ MarkPaygLineItemsAdded(w) \/ FinalizePaygInvoice(w)
  \/ SettleFinalizedInvoice(w) \/ CreatePaidStorageInvoice(w) \/ FailPaygPeriod(w)

-----------------------------------------------------------------------------
\* The customer: QR payment and provider invoice.

\* getPaygQrEligiblePeriod and the check for an invoice, before the transaction
RequestQrPayment(p) ==
  /\ caller.at = "idle"
  /\ row[p].status \in {"payment_due", "payment_failed", "failed"} /\ row[p].invoice = None
  /\ caller' = [at |-> "create", period |-> p]
  /\ UNCHANGED <<calendar, pointer, row, qr, documented, processed, provider, worker, hook, failures>>

\* The transaction under the advisory lock of the period, with the calls of
\* the provider in it: an active payment is reused, less than a cent refused.
CreatePaygQrPayment ==
  LET p == caller.period
      opens == qr[p] # "active" /\ row[p].cost >= Cent
      asked == [intent EXCEPT ![p] = IF opens /\ @ = None THEN "open" ELSE @]
      Opened ==
        /\ intent' = asked
        /\ qr' = IF opens THEN [qr EXCEPT ![p] = "active"] ELSE qr
        /\ row' = IF opens THEN [row EXCEPT ![p].status = "payment_due", ![p].qrFlow = TRUE] ELSE row
  IN
  /\ caller.at = "create"
  /\ \/ /\ qr[p] = "active" \/ opens
        /\ Opened
        /\ caller' = [caller EXCEPT !.at = "idle"] /\ UNCHANGED failures
     \/ /\ qr[p] # "active" /\ ~opens
        /\ caller' = [caller EXCEPT !.at = "fail"] /\ UNCHANGED <<row, qr, intent, failures>>
     \/ /\ Breaks
        /\ Opened \/ (intent' \in {asked, intent} /\ UNCHANGED <<row, qr>>)
        /\ caller' = [caller EXCEPT !.at = "fail"]
  /\ UNCHANGED <<calendar, pointer, documented, processed, invoices, worker, hook>>

QrPaymentFails ==
  /\ caller.at = "fail"
  /\ caller' = [caller EXCEPT !.at = "idle"]
  /\ \/ row' = [row EXCEPT ![caller.period].status = "failed"] /\ UNCHANGED failures
     \/ Breaks /\ UNCHANGED row
  /\ UNCHANGED <<calendar, pointer, qr, documented, processed, provider, worker, hook>>

\* The customer pays what the provider lets him pay.
Pay(p) ==
  /\ \/ /\ qr[p] # None /\ intent[p] = "open"
        /\ intent' = [intent EXCEPT ![p] = "succeeded"] /\ UNCHANGED invoices
     \/ \E id \in DOMAIN invoices :
          /\ id[2] = p /\ invoices[id].state = "finalized"
          /\ invoices' = [invoices EXCEPT ![id].state = "paid"] /\ UNCHANGED intent
  /\ UNCHANGED <<calendar, pointer, row, qr, documented, processed, worker, caller, hook, failures>>

\* applyPaygQrPaymentIntentStatus, from a webhook or the customer's sync; reports come late.
ApplyPaygQrPaymentIntentStatus(p, status) ==
  /\ qr[p] # None
  /\ status = "succeeded" => intent[p] = "succeeded"
  /\ qr' = [qr EXCEPT ![p] = status]
  /\ row' = IF status = "succeeded" THEN [row EXCEPT ![p].status = "paid", ![p].paidAt = TRUE] ELSE row
  /\ UNCHANGED <<calendar, pointer, documented, processed, provider, worker, caller, hook, failures>>

-----------------------------------------------------------------------------
\* handleWebhook, for events about an invoice of a period.

GotoHook(d, place) == hook' = [hook EXCEPT ![d] = IF place = "idle" THEN IdleHook ELSE [@ EXCEPT !.at = place]]

\* An invoice has its event of creation, of a failed attempt to pay, and of payment.
Sent(kind, id) ==
  /\ id \in DOMAIN invoices
  /\ kind = "failed" => invoices[id].state # "draft"
  /\ kind = "paid" => invoices[id].state = "paid"

\* Variant: the claim settles the event.
ClaimedForGood(event) == processed \cup {event}

\* Only processed_at keeps an event from being claimed again.
Claimed(event) == processed

ClaimWebhook(d, kind, id) ==
  /\ hook[d].at = "idle" /\ Sent(kind, id) /\ <<kind, id>> \notin processed
  /\ hook' = [hook EXCEPT ![d] = [at |-> "apply", kind |-> kind, id |-> id]]
  /\ processed' = Claimed(<<kind, id>>)
  /\ UNCHANGED <<calendar, pointer, row, qr, documented, provider, worker, caller, failures>>

\* Variant: every event of the invoice counts as payment.
ReportedAlways(old, kind) == [old EXCEPT !.status = "paid", !.paidAt = TRUE]

Reported(old, kind) ==
  CASE kind = "paid" -> [old EXCEPT !.status = "paid", !.paidAt = TRUE]
    [] kind = "failed" -> [old EXCEPT !.status = "payment_failed"]
    [] OTHER -> old

ApplyPaygInvoiceWebhook(d) ==
  LET id == hook[d].id
      applied == [row EXCEPT ![id[2]] = [Reported(@, hook[d].kind) EXCEPT !.invoice = id]] IN
  /\ hook[d].at = "apply"
  /\ \/ /\ row' = applied /\ UNCHANGED failures
        /\ GotoHook(d, IF hook[d].kind = "paid" /\ row[id[2]].cost > 0 THEN "document" ELSE "mark")
     \/ Breaks /\ row' \in {applied, row} /\ GotoHook(d, "idle")
  /\ UNCHANGED <<calendar, pointer, qr, documented, processed, provider, worker, caller>>

DocumentWebhook(d) ==
  /\ hook[d].at = "document"
  /\ Documents(hook[d].id[2])
  /\ GotoHook(d, "mark")
  /\ UNCHANGED <<calendar, pointer, row, qr, processed, provider, worker, caller>>

MarkWebhookProcessed(d) ==
  /\ hook[d].at = "mark"
  /\ GotoHook(d, "idle")
  /\ \/ processed' = processed \cup {<<hook[d].kind, hook[d].id>>} /\ UNCHANGED failures
     \/ Breaks /\ UNCHANGED processed
  /\ UNCHANGED <<calendar, pointer, row, qr, documented, provider, worker, caller>>

-----------------------------------------------------------------------------
Next ==
  \/ WeekEnds \/ RepairCompletedProfilePointers
  \/ \E p \in Periods :
       \/ LeaseExpires(p) \/ ReconcilePaidBillingInvoices(p) \/ RequestQrPayment(p) \/ Pay(p)
       \/ \E amount \in Credits : AddWorkspaceUsageAdjustment(p, amount)
       \/ \E status \in {"active", "ended", "succeeded"} : ApplyPaygQrPaymentIntentStatus(p, status)
  \/ \E w \in Workers : ClaimDuePaygPeriod(w) \/ Issue(w) \/ Dies(w)
  \/ CreatePaygQrPayment \/ QrPaymentFails
  \/ \E d \in Deliveries :
       \/ \E kind \in EventKinds, id \in DOMAIN invoices : ClaimWebhook(d, kind, id)
       \/ ApplyPaygInvoiceWebhook(d) \/ DocumentWebhook(d) \/ MarkWebhookProcessed(d)

Spec == Init /\ [][Next]_vars

\* The interval starts cycle after cycle, a call returns or throws, and time
\* passes.  The customer, the provider's webhooks and the settings owe nothing.
Fairness ==
  /\ WF_vars(RepairCompletedProfilePointers)
  /\ \A w \in Workers : WF_vars(ClaimDuePaygPeriod(w)) /\ WF_vars(Issue(w))
  /\ \A p \in Periods : WF_vars(LeaseExpires(p))
  /\ WF_vars(CreatePaygQrPayment) /\ WF_vars(QrPaymentFails)

FairSpec == Spec /\ Fairness

-----------------------------------------------------------------------------
\* Every row, answer and place is one of its kind.
Ids == ({"payg"} \cup Workers) \X Periods
TypeOK ==
  /\ closed \in 0 .. PeriodCount /\ pointer \in 1 .. PeriodCount + 1
  /\ credit \in [Periods -> Credits \cup {0}]
  /\ row \in [Periods -> [status : Statuses, cost : Nat, fresh : BOOLEAN, invoice : Ids \cup {None},
                          items : BOOLEAN, qrFlow : BOOLEAN, paidAt : BOOLEAN]]
  /\ qr \in [Periods -> {None, "active", "ended", "succeeded"}]
  /\ documented \subseteq Periods /\ processed \subseteq EventKinds \X Ids
  /\ DOMAIN invoices \subseteq Ids
  /\ \A id \in DOMAIN invoices :
       invoices[id] \in [state : {"draft", "finalized", "paid"}, amount : Nat, keys : SUBSET Ids]
  /\ intent \in [Periods -> {None, "open", "succeeded"}]
  /\ worker \in [Workers -> [at : WorkerPlaces, period : Periods, invoice : Ids \cup {None},
                             items : BOOLEAN, bill : Nat, paid : BOOLEAN]]
  /\ caller \in [at : {"idle", "create", "fail"}, period : Periods]
  /\ hook \in [Deliveries -> [at : HookPlaces, kind : EventKinds, id : Ids \cup {None}]]
  /\ failures \in 0 .. MaxFailures

Issued(p) == {id \in DOMAIN invoices : id[2] = p /\ invoices[id].state # "draft"}

\* No week is passed over: the profile leaves a week only when it was claimed
\* and, if it costs a cent when rounded, billed: its invoice is final at the
\* provider, or it is to be paid by QR.
MovedOnIsBilled ==
  \A p \in 1 .. pointer - 1 :
    row[p].status # None /\ (Bill(p) = 0 \/ row[p].qrFlow \/ Issued(p) # {})

\* However often a week is claimed and whatever answer is lost, at most one
\* invoice of it is issued, and that invoice is about what the week costs
\* after credits, to the cent: nothing is added twice, and no credit is missed.
BilledOnceInFull ==
  \A p \in Periods : /\ Cardinality(Issued(p)) <= 1
                     /\ \A id \in Issued(p) : invoices[id].amount = Bill(p) /\ row[p].cost = Cost(p)

\* A period is recorded as paid, and Lulu's own invoice of the payment
\* exists, only when the provider has the money.
PaidHasEvidence ==
  \A p \in Periods : row[p].status = "paid" \/ row[p].paidAt \/ p \in documented =>
    intent[p] = "succeeded" \/ \E id \in Issued(p) : invoices[id].state = "paid"

\* An event that will not be delivered again has left its mark on the row:
\* it names the invoice, and if the event was the payment, it was paid.
ProcessedIsApplied ==
  \A event \in processed :
    /\ row[event[2][2]].invoice = event[2]
    /\ event[1] = "paid" => row[event[2][2]].paidAt

\* A week that is over is billed, skipped or handed to QR payment in the end,
\* although calls fail, answers are lost and workers die.
EveryPeriodEnds == \A p \in Periods : (closed >= p) ~> (pointer > p)

\* "Open the invoice to complete payment instead of creating a second charge":
\* no week is paid twice.
ChargedOnce ==
  \A p \in Periods : ~(intent[p] = "succeeded" /\ \E id \in Issued(p) : invoices[id].state = "paid")
=============================================================================
