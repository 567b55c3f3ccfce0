# Formal models of the Lulu Growth OS backend

TLA+ models of the parts of this backend that are hardest to get right and
hardest to test: the durable event queue, the live event stream, the prepaid AI
wallet and the requests that spend from it, voice sessions, the advertising wallet
and its Google Ads campaigns, agent runs with their Office controls, weekly
storage billing, and premium media candidates. TLC checks each of them on small
instances; TLAPS proves the most important results for every size.

Paths below are those of the backend: `src/events`, `src/modules/...`.

## 1. Inventory

One Node process serves HTTP and, unless configured otherwise, runs the
background workers too; several such processes share one PostgreSQL database.
There is no shared memory between processes and no broker: rows, row locks,
`NOTIFY` and timers are the only means of coordination. Within a process, code
runs alone between two `await`s.

| Component | State it keeps | Operations | What is hard | What makes it correct |
|---|---|---|---|---|
| Domain event queue (`events/domain-event.repo.ts`, `.runtime.ts`, `.registry.ts`) | `domain_events`, `domain_event_receipts`; per process: active drain, batch, heartbeats | append, claim with sweep, dispatch per consumer, receipt, mark, retry, heartbeat, stop | leases that expire under a running worker, crashes between receipt and mark, lost answers of a commit, drains that abort | processed means every consumer has run; nothing finished is reopened; bounded repetition; every event ends |
| Workspace event stream (`events/workspace-event.controller.ts`, broadcast part of the runtime) | broadcast cursor, per connection `lastSentSequence`, `replaying`, `buffered` | broadcast, replay, hand-over, catch-up, disconnect, restart | replay races live events; sequence numbers commit out of order; lost notifications | every event once, in order, none skipped; a stream catches up |
| Prepaid AI wallet (`modules/api-wallet/api-wallet.repo.ts`) | `workspace_api_wallets`, `workspace_api_topups`, ledger | create, attach, fail and settle top-ups, lazily create the wallet, debit usage | payment messages late, repeated, reordered; a row created lazily in the middle of a transaction | no money appears or disappears; each payment credited once |
| AI spend reservations (`ai-spend-reservation.repo.ts`) | `ai_spend_reservations`, wallet `reserved_amount` | reserve, mark submitting / submitted / ambiguous, release, settle | chargebacks while a hold is open; repeated and late calls | holds equal `reserved_amount`; a resolved hold is final |
| Wallet reversals (`billing/airwallex-wallet-reversal.repo.ts`) | `airwallex_wallet_reversals`, aggregate status of top-ups | record refund or dispute, apply pending ones at the credit | reversal before payment, stale updates, partial reversals | each reversal in force is taken once |
| Composio charging (`composio/composio-usage.repo.ts`) | ledger rows | charge one tool call | wallet row created in a transaction that rolls back | never beyond the balance |
| Manual funding (`admin/admin.repo.ts`) | ledger `ADJUSTMENT` rows | credit, debit | debt, idempotency, counters clipped at 0 | counted once |
| AI requests and usage (`ai/openai.service.ts`, `usage/usage.service.ts`) | hold, usage row | reserve, submit, record, settle, reconcile | crash between any two of them; unknown outcome of the provider | work is paid for or stays held; never done twice for one key |
| Voice sessions (`ai/voice.service.ts`) | session row, usage row | create, close, delete | repeated creates and closes, failures between metering and marking | an ended session is paid for, once |
| Airwallex service (`billing/airwallex.service.ts`) | `airwallex_webhook_events` | claim and route webhooks, reconcilers | repeated delivery during processing | each event takes effect |
| PAYG billing (`billing/payg-billing.repo.ts`, `.worker.ts`, `paid-billing-invoice.service.ts`) | profile pointer, periods, QR payments, invoices | claim a due period, invoice it, pay, webhook, document the payment | calls whose answer is lost, two workers after a stalled claim, webhooks delivered again | each period billed once, in full, and in the end |
| Advertising wallet (`adspend/adspend.repo.ts`) | wallet, top-ups, authorizations, reservations | deposit, settle, refund, authorize, revoke, reserve, release | two rows that many statements update; unsettled deposits | spend within what is settled and authorized |
| Google Ads campaigns (`adspend/google-ads-spend.*.ts`, `workspaces/workspace-automation.service.ts`) | allocations with leases, closure states, cost observations | launch, pause, resume, reconcile, record billing evidence, finalize | lost answers of Google, stale observations, resume against finalization | launched once, never overcharged, held while it may run |
| Premium media (`premium-media/`) | jobs, candidates with the states of their task and audit, a hold for each | submit, callback, poll, recover, charge, audit, store | callbacks early, late and contradicting; recovery against a slow submitter; leases; a charge in three steps | money is held while a call may have run; paid means charged; audited and attached once |
| Agent runs (`agents/agent.service.ts`, `.repo.ts`, `agent-run.worker.ts`) | runs and their steps, leases | request, claim, sweep, plan, execute, cancel, finish | workers that stall past their lease and return, deaths between statements | work is not repeated unless the user asks; cancelled stays cancelled; every run ends |
| Office (`office/office.repo.ts`, triggers of migrations 0079 and 0102) | work items of runs and, as their children, of action packets | project a run or packet, refresh the parent, pause, take over, resume, retry, cancel | item, run and packets are written by different actors, the parent's item by all of them | the item shows what became of the run and of its packets |
| Agent executions (`agents/agent-execution.worker.ts`, reactive deferrals) | executions, approvals, deferrals | approve, execute, recover | recovery of unknown executions | no command executed twice |
| Worker supervision, shutdown (`operations/`, `server.ts`) | liveness rows | start, progress, stop, drain | deadline against drain | pool closed last |
| The rest (commerce, finance, provider control, integrations, mail, calendar, company brain, onboarding, auth, ...) | rows | CRUD, polling, batch derivation | mostly input and output | see `PROJECT.json` |

How they interact: business transactions append events with their own rows;
the queue hands them to consumers (finance, company brain, agents, ...) and the
same table feeds the stream. Payments reach the wallet through webhooks, syncs
and reconcilers; AI work takes holds from it; when it becomes spendable again
it appends `API_FUNDS_FUNDED`, which wakes paused agent work through the queue.

`PROJECT.json` lists every component with its status and every hazard with its
line and the properties that would catch it going wrong.

## 2. Modules

| Module | What it is |
|---|---|
| `EventDelivery` | the abstract contract of the queue: tries, receipts, outcome; no workers |
| `DomainEvents` | the queue and its workers; implements `EventDelivery` |
| `DomainEventsProofs` | theorems about `DomainEvents` |
| `EventStream` | transactions, broadcaster, one SSE stream and its client |
| `EventStreamProofs` | theorems about `EventStream` |
| `AiWallet` | wallet, top-ups, reversals, holds, debits, manual adjustments |
| `AiRequest` | calls of `execute` around a hold, usage rows, reconciler; extends `AiWallet` |
| `AiRequestProofs` | theorems about `AiWallet`, `AiRequest`, which implements it, and `VoiceSession`, whose metered use goes the same way |
| `VoiceSession` | create and close calls of one voice session |
| `AdSpend` | advertising wallet: deposits, authorizations, reservations |
| `GoogleAds` | launch, pause and resume calls, automation switch and reconciliation worker of one campaign; extends `AdSpend` |
| `GoogleAdsProofs` | theorems about `AdSpend` and `GoogleAds`, which implements it |
| `AgentRuns` | runs, their workers, their user and their Office work items |
| `AgentRunsProofs` | theorems about `AgentRuns` |
| `PremiumMedia` | submission, results, charging, audit and storing of one media candidate, with its holds |
| `PremiumMediaProofs` | theorems about `PremiumMedia` |
| `PaygPeriod` | billing cycle, QR payment and webhooks of weekly storage periods |
| `PaygPeriodProofs` | theorems about `PaygPeriod` |
| `SumTheorems` | induction over numbers and finite sets, sums over finite sets, for the proofs |
| `MC*` | instances for TLC |

Operators whose comment begins with `Variant:` are plausible mistakes in the
definition that follows. They are not part of the specification; each breaks the
property it is listed with in `PROJECT.json`, which shows that the property
says something about the code.

### DomainEvents

| State | Code |
|---|---|
| `row[e]` | the `domain_events` row: `status`, `attempts`, `locked_by`, `sequence`; `fresh` is `locked_at` within `EVENT_WORKER_LEASE_SECONDS`, `due` is `available_at <= NOW()` |
| `receipts[e]` | rows of `domain_event_receipts` |
| `delivery[e][a]` | where the a-th claim of `e` stands in `processClaimedEvent`; `awaited` is FALSE for one that an aborted drain has left running |
| `handled[e][h]` | history: completed runs of the handler |
| `worker[w]` | `runtimeStarted`, `stopping`, or gone |

Each SQL statement or transaction is one action; every `await` is a point where
others run. `ClaimDomainEvents` is the transaction that dead-letters exhausted
events and leases a batch; the answer of its commit may be lost. `StartChunk` is
a turn of the loop over chunks of `EVENT_WORKER_CONCURRENCY`. A failed write may
have reached the database. When the statement of the catch block fails,
`Promise.all` rejects (`DrainAborts`): unstarted deliveries of the batch are
dropped with their leases, running ones go on, and a new drain of the same worker
id may begin. Worker ids are random for each process, so a worker that is down
does not come back. A handler runs in one step and leaves its effects out.

### EventStream

`tx[s]` is the transaction that drew sequence number `s`; numbers are drawn in
order and become visible at commit. `broadcast` is the broadcaster with cursor
and page, `stream` the server side of the connection, `wire` the response,
`client` an EventSource that reconnects with the last number it received (`Resume`),
unless its URL names a number: `afterSequence` is used in place of the header, so that
such a connection starts from that number again (`ConnectFrom`). A query is two steps, the read in the database and the answer in the process.
`OrderedCommits` restricts the schedules to those in which transactions commit
in the order of their numbers; the run without it is a finding (section 5).

### AiWallet

One workspace; the variables are its rows. Every exported function is one
transaction that locks the rows it changes, hence one action. A call that finds
its work done, or throws, changes nothing and is no step. Amounts are whole
units; `GREATEST(0, a - b)` is `Less`. `ensureWallet`, which creates and seeds
the row in the middle of another transaction, is `Seeded`. `funded` is the set of
`API_FUNDS_FUNDED` events, by idempotency key. `REFUNDED` also stands for
`CHARGEBACK`, which differs in name only. Messages without a timestamp, rounding
of exchange rates and the deletion of workspaces are left out; fees are zero for
this wallet. `reserve`, `release` and `settle` insert an unseeded row when
there is none, but then fail for lack of balance or reservation and roll it back.

`FundsWakeWork` is about the steps that make the wallet spendable again. A dispute that is
withdrawn is one of them (`settleReversal`) and appends nothing; section 5.

The provider's messages are unrestricted in order and number. Refund and dispute
webhooks go to `recordAirwallexWalletReversal` only, statuses of payments to
`applyApiProviderStatus`; the run `wallet` has the first with reports of success and
failure, the run `ai_request` has successes and refunds reported as a status.

### AiRequest

The module extends `AiWallet`: its variables are the wallet's and five more, and
each step is a wallet operation, called from a place in `execute`, or leaves the
wallet alone.

| State | Code |
|---|---|
| `caller[c]` | the `await` of `execute` (`openai.service.ts`) at which the call stands |
| `KeyOf[c]` | `reservationKey`; retries and double clicks share a key |
| `inflight`, `executed` | requests the provider may still execute, or has executed |
| `usage[u]` | the `ai_usage_ledger` row of a hold (at most one, by the unique index of migration 0095) or of a metered use (one per response id, migration 0049) |
| `early` | metered rows older than the wallet row, which the scan does not join |

`Reserve`, `Submit`, `CallProvider`, then one of `ProviderAnswers`,
`ProviderRejects` and `OutcomeUnknown`, then `RecordSubmitted`, `RecordUsage`,
`Settle` or the branches of the error handling are the awaits of `execute` in their
order. `Statement` is a statement of the database seen by the process: it may
change the rows and return, change them and throw (the answer of the commit is
lost), or throw without a change. `Dies` may happen at every await and also
stands for the process that is shut down or crashes. A request that was sent
stays in `inflight` when its caller times out or dies, and may be executed
later. Estimates and rates are part of `HoldAmounts` and `Costs`; a settlement
may cost more than was held. `recordMeteredUsage` without a hold is
`RecordMeteredUsage` and `SettlePrepaidUsage`; `ReconcileUnsettledApiUsage` is the
scan of the billing worker for one row.

Left out: work funded by the platform, failover between providers (a prepaid
request goes to one provider), circuit breakers, and Composio in this composition.

### VoiceSession

`session` is the row, `creator` and `closer` the awaits of `createSession` and
`closeSession`. Create calls carry the same client session id, so that all find the
row of the first. `minutes` stands for the time since `started_at` and for the
cost. `metered` is the row with the response id `voice-session:<id>`; the debit is
idempotent. Statements may throw after they were committed. A close call needs
the id of the session, which an answered create call hands out.

### AdSpend

| State | Code |
|---|---|
| `wallet` | the `workspace_ad_spend_wallets` row |
| `topup[t]`, `creating` | `workspace_ad_spend_topups` rows; those whose payment is being created |
| `auth[a]`, `ended` | `workspace_ad_budget_authorizations` rows; those past `ends_at` |
| `reservation[k]` | the `workspace_ad_spend_reservations` row of an idempotency key |
| `deposited` | history: deposits credited less those taken back |

Each exported function of `adspend.repo.ts` is one transaction and one action.
`verified` is whether the settlement of a payment has been proved: a report of
success credits nothing before. `SettleReservation` and `FinalizeReservation` are
the money parts of `recordGoogleAdsCostObservation` and
`finalizeGoogleAdsSpendAllocation`. A revoked authorization keeps its status (a
CHECK of migration 0080), so that one which is revoked and wholly spent cannot
be finalized. Left out: partial refunds and disputes (those of `AiWallet`), the
`AD_SPEND_FUNDED` events, manual adjustments, currency; `consumeAdSpendReservation`
has no caller. `starts_at` of an authorization has passed.

### GoogleAds

The module extends `AdSpend`: its actions are operations of that module together
with the allocation row, the campaign at Google, and the place of a call or worker.

| State | Code |
|---|---|
| `alloc[k]` | the `workspace_google_ads_spend_allocations` row: launch and closure state, baseline, observed cost, evidence, lease (`owner`, `live`) |
| `campaign` | the campaign at Google: enabled, budget, cost |
| `call[c]` | the await of a launch, pause or resume call (`google-ads-spend.service.ts`) and what it has read |
| `worker[w]` | the same of the reconciliation (`reconcileGoogleAdsAllocation`) |
| `paused` | `settings.agents.paused` of the workspace |

`Outcomes` of a request to Google are executed or not, answered or not. A launch
reads the cost of the paused campaign as its baseline, reserves, creates the
allocation and sends; only the call that made both rows sends. A resume enables
a campaign that is still held, or launches it again under a key of its own
(`Relaunch`) when it was finalized. `Observe`, `CloseStopped`, `RequestClosure`,
`PauseCampaign`, `ReadBillingEvidence`, `RecordBillingEvidence` and `Finalize` are
the statements and requests of one reconciliation; `Schedule` ends it, and stands
for every error that ends it early. Assumptions about time: final invoices are
read when the cost has not changed for `GOOGLE_ADS_FINALIZATION_LAG_DAYS`, so what
calls and workers hold is not older than that (`LagElapsed`); a launch lasts less
than its lease of 30 minutes (`LeaseExpires`). Left out: changes of the budget
and enabling by the customer at Google, corrections of the cost by Google,
several campaigns.

What the model shows of the code, without being a contradiction of anything written:
a pause of the automation closes `APPLIED` allocations only, so a launch that is under
way goes on while paused; a launch without an answer that was executed
becomes `APPLIED` without `launched_at` and is never finalized; so does one whose
rejection cannot be recorded after its reservation was released; two repeated
launch calls may each leave the sending to the other; a resume may enable
the campaign while the worker finalizes.

### AgentRuns

| State | Code |
|---|---|
| `run[r]` | the `agent_runs` row: `status`, `attempts`, `worker` (`worker_id`); `live` is a heartbeat within the lease |
| `step[r][i]` | status of the `agent_run_steps` rows |
| `item[r]` | status of the `office_work_items` row |
| `packet[r][k]` | status of the child item of an `agent_action_packets` row the run left behind |
| `announced` | keys of the terminal domain events (run and status) |
| `proc[w]` | the await at which a worker stands in `executeRun`, its step, and the steps it has read |
| `work`, `resumes`, `controls` | history: work done per step, resumes and Office commands |

`Shown` is `office_materialize_agent_run`, which the triggers run in the same statement as
the change of the run (`Update`): it gives the item the status of the run and calls
`office_refresh_parent_run_work_item` (`Refreshed`), which turns the item of a failed run
into paused, that of a cancelled run into cancelled, and that of a completed run into what its
packets make of it (`Concluded`): waiting while one is pending, else failed,
cancelled or completed. A packet that is left behind (`LeavePacket`) or moves
(`MovePacket`) refreshes its parent too (`Refresh`). `MovePacket` stands for the execution
worker, the provider's events and the Office commands on the packet's own item: it says which
changes of a packet's status occur and not why. `UpdateRun` is refused by a
cancelled run, `FinalizeRun` by a finished one; `ClaimNextRunnableRun` fails what was
attempted and given up, then claims one run. An Office command is a transaction
that is refused while the run is leased, and by the packets as `hasChildren`,
`hasActiveChildren` and `hasRunningChildren` say. `DoWork` is a call of a tool or model,
which may do its work and fail. A worker may die at every await, a statement may
fail, and a lease may expire under a worker that goes on. Left out: the approval
wait of old runs, synthesis, what a packet executes, a packet that a tool registers after its
call has timed out, the cycle of the team, the window in which a page run is
reused. A process with a concurrency above 1 is several workers.

What the model shows of the code: a run that is resumed and fails again is not
announced again (the key of the event is the same); a stalled worker and a
resume make two executors of one run, each counted by `NeverReplayed`; a stalled
planner may turn a completed or failed run back into a running one, because
`updateRun` refuses cancelled runs only (section 5); a packet that only plans ends as
`stage = 'planned'` (`agent-execution.worker.ts:1136-1151`), which the projection of packets
shows as queued, so its completed parent stays waiting; a cancelled run shows cancelled
although a packet of it may still execute; an item that the user paused or took over
becomes cancelled when a stalled worker leaves a packet behind, because the refresh does not
look at what the item showed. `office_materialize_agent_run` would keep such an item, but
the refresh it ends with overwrites it.

### PaygPeriod

| State | Code |
|---|---|
| `pointer`, `closed` | current period of `workspace_payg_profiles`; weeks that have ended |
| `row[p]`, `qr[p]` | `workspace_payg_periods`, `workspace_payg_qr_payments` |
| `credit[p]` | `workspace_usage_adjustments` of the week |
| `invoices`, `intent[p]` | the provider's invoices by request id, and its payment intents |
| `documented` | periods with Lulu's own invoice of the payment |
| `processed`, `hook[d]` | `airwallex_webhook_events.processed_at`; the await of a delivery in `handleWebhook` |
| `worker[w]`, `caller` | the awaits of `issuePeriodInvoice` and of the QR request |

`Write` is a statement that returns or throws, committed or not, `Ask` a call of the
provider that answers or throws, executed or not; both lead to the catch
block (`FailPaygPeriod`). The QR request is one transaction with the provider's answer inside
(`CreatePaygQrPayment`): its commit may take effect and throw, and `QrPaymentFails` is then
the catch block over an active QR row. Money is counted in parts of a cent (`Cent` of them to
a cent): `Bill` is the cost rounded to the cent by `invoiceAmount`, so a week of less than
half a cent is skipped although it cost something, and the QR request refuses a cost below
a cent. The provider answers a repeated request id as it did the
first time and finalizes drafts only. `Claimable` includes a claim older than 30
minutes. A delivery is claimed unless it was processed, so two may be under way.
One QR method; the preferred method of payment may change between two claims;
storage periods only (the checkout of API usage has no caller).

What the model shows of the code: `finalizePaygPeriod`, `failPaygPeriod` and
`applyPaygInvoiceWebhook` set the status whatever it was, so a paid period may
become payment_due, failed or payment_failed again (its `paid_at` stays), and
`reconcilePaidBillingInvoices`, which looks for `paid`, passes it by; a preference that
changes to QR after a draft was saved leaves a period to be paid whose draft is
never finalized and whose QR payment is refused.

### PremiumMedia

| State | Code |
|---|---|
| `cand` | the `premium_media_candidates` row: `status`, `sub` (`provider_submission_state`), `known` (a `provider_task_id`), `dated` (a `submitted_at`), `credits` against the ceiling, `recorded` (`usage_recorded`), `quality` (`quality_submission_state`), `accepted` (the stored report), `worker`, `attempts`; `live` is a claim of less than ten minutes |
| `hold[u]`, `usage` | status of the `ai_spend_reservations` rows of task and audit; which of the two is in `ai_usage_ledger` |
| `jobActive`, `media` | whether the job is neither completed, failed nor cancelled; `product_media` rows inserted |
| `task` | the provider's task |
| `proc[p]` | the await at which the submitter, a callback handler or a worker stands, and what it has read |
| `audits`, `callbacks`, `faults` | history |

`submitCandidate` is `CreateCandidate` to `ReleaseRefused`, one action for each
statement, transaction or request; `handleKieCallback` and `pollCandidate` share
`ApplyProviderResult`, the one statement that merges a report into the row, and the
charge that follows (`RecordTask`, `ChargeTask`, `MarkCandidateUsageRecorded`).
`FindStaleSubmission`, `FindTimedOut`, `FindPoll`, `FindUnrecorded` and
`FindStaleAudit` are the lists a worker's cycle goes through; they decide by the row
as it was listed, the steps after them by the row as it is. How old a row is is
not modelled: what may be stale may be found so. `ClaimCandidateForProcessing` to
`FinishStoredCandidate` is `processCandidate`. `CaughtAt` is the table of the
catch blocks; `Fails` is a statement that throws without a change, and a process that
dies stops at its await; a statement that throws after its commit is left out here. Reports
are unrestricted: final ones may contradict each other in state or credits (`Contradicts`,
which makes the candidate AMBIGUOUS), credits may be missing, within the ceiling or
above it, and the id of the task may be missing as long as the row has none (`Ids`);
`Reordered` is whether a report that the task is pending may follow a final one. A report
under the id of another task finds no row and is left out. The wallet behind the holds is `AiWallet`; a reservation may
be refused. Left out: jobs and their rounds, purposes that store no media, work
the platform pays, which has no hold, downloads, prompts, the rate limiter.

## 3. Runs

`tlc -workers 2 -config <cfg> <module>`; the longest run takes less than four minutes.

| Run | Instance | Shows |
|---|---|---|
| `events_lease` | an order with 1 consumer and a notice with none, batches of 2, concurrency 2, 2 attempts, 2 workers of which one may stop or crash | the runtime implements the delivery contract under every race for the lease, drains that abort and leave a delivery running while another worker claims its event, takeover by a drain of the same worker id; consumers run a bounded number of times; every event ends although its owner is gone |
| `stream_order` | 4 numbers, one of another workspace, pages of 2 | order, no gap, over any number of connections that start after any number or resume; pages that are full, part full, empty; a stream catches up |
| `stream_commit_order` | the same without `OrderedCommits` | the finding |
| `wallet` | top-up of 3, a refund of 1 and a dispute of 2 with up to 3 updates, 2 holds, 1 debit, 1 manual adjustment | accounts stay right; debts, partial returns and every order of payment and reversal occur; a refund that is recorded is terminal; money that makes the wallet spendable again appends `API_FUNDS_FUNDED` |
| `ai_request` | 3 callers, 2 of them with one key, 2 holds, a top-up that is paid and refunded by status, 1 metered use | work is done once per key, stays held, and is paid before it is answered; metered use is debited in the end |
| `voice_close` | 1 create call, 3 close calls, 3 minutes | an ended session is metered and debited |
| `ad_spend` | 2 top-ups of 3 and 1, 2 authorizations of 3 and 1, 2 launches of 2 | deposits reported late, twice, unsettled, refunded; the wallet holds what the credited top-ups are worth, the rows of wallet, authorizations and reservations agree and no budget is exceeded |
| `google_ads` | 1 top-up of 2, 1 authorization, 3 keys of which one is a relaunch, 2 calls, 1 pause of the automation, cost of at most 2, 1 worker | launched once, held while it may run, never overcharged, final once finalized |
| `google_ads_released` | the same | the finding |
| `agent_runs` | 1 run of 1 step, 1 packet, 2 workers, 2 commands of the Office | no replay, the item shows what became of run and packet, cancelled stays cancelled, every run ends |
| `payg_period` | 1 week of 5 parts of which 4 are a cent, credits of 3 and 4, 2 workers, 1 delivery, 1 failure | one invoice over the right amount to the cent, none over less than half a cent, evidence for what is paid, a processed webhook took effect, the week is billed in the end |
| `premium_media` | 1 candidate, 2 workers of which one may stop for good, 1 callback, 2 attempts, 1 failing statement | holds outlast calls, paid means charged, one audit, one media, no ended candidate is reopened, every call whose task has an id is resolved, while reports come without one or contradict each other |

Bounds. `MaxAttempts` of the queue and of media are limits of the code (10 and 5)
made small. `MaxSeq`, `MaxStamp`, `MaxCost`, `MaxCallbacks`, `MaxFaults` and the
finite sets of top-ups, reversals, requests, keys and usages bound the model;
`MaxMoney` only gives TLC a set to draw the seeded and pending amounts from and
is above every sum that occurs. Two workers are enough for a race and for a
stale owner that returns after another took over. In `events_lease` a chunk is as large as a
batch and an event has at most one consumer: with the concurrency of 2 that it takes to
abort a drain over one event while the other's delivery runs, a second consumer is out
of TLC's reach. Deliveries of later chunks, which an aborted drain drops before they start, and
several consumers of one event are covered by the theorems of `DomainEventsProofs` only, which
are about all batches, concurrencies and subscriptions. A reversal in two parts
reaches partial and full reversal. Two callers of one key are enough for a race and
for a retry after a death, and the third makes holds of different keys compete for
the balance; costs below and above the hold cover both branches of the settlement.
Three close calls allow a repeat of a repeat. Two launches of 2 against
authorizations of 3 and 1 and deposits of 3 and 1 make each limit bind before the
other. A relaunch continues the cost counter of the first launch. One callback and polls of two
workers apply a result up to three times. One packet is pending, failed, cancelled or done, which are
the cases of `Concluded`; that several of them are told apart in this order is in
`AgentRunsProofs`. Two commands of the Office allow a resume after a takeover or a
failure. A week of one and a quarter cents is billed as one cent; less a credit of 3 parts it costs
half a cent and is billed as one, less one of 4 it costs a quarter and is skipped. In `google_ads` calls begin once the
top-up has settled and a budget is authorized (`FundedFirst`), and either the automation
is paused or a launch of another key joins the first (`OneDisturbance`);
`GoogleAdsProofs` does without these.
`Reordered` is FALSE in `premium_media`; section 5 says what happens otherwise. In `ai_request`
the statuses reported of a payment are SUCCEEDED and REFUNDED; pending and failed ones are
in `wallet` (FAILED) and in the theorems.
Only `agent_runs` checks for deadlock: queue, stream, wallets, calls, sessions,
periods and candidates stop when all is done.

A property that a theorem establishes for every instance is not always checked by
a run as well: the type invariants of `DomainEvents`, `AiWallet`, `AiRequest`,
`EventStream`, `VoiceSession`, `AdSpend`, `GoogleAds`, `AgentRuns`, `PremiumMedia` and `PaygPeriod`,
`ProcessedMeansConsumed`, `NothingPassedOver`,
`ReceiptMeansHandled`, `DeadLetterMeansExhausted`, `FinishedIsFinal`, `FreshLeaseIsRespected`,
`DebtExcludesBalance`, `ResolvedIsFinal`, `ChargesAreEvidenced`, `AdConservation`,
`OneOpenAllocation` and `FinishIsAnnounced`. Each held in TLC when it was stated, and so did
the inductive invariants of section 4.

Fairness. Queue: time passes (`LeaseExpires`, `RetryDelayElapses`); the fallback
timer (`startDomainEventRuntime`) requests a drain every few seconds for as long
as the process is up; a call that was made returns or fails (`Deliver`,
`StartChunk`). Nothing is assumed about append, stop, crash or about
handlers succeeding. Each of these is assumed of the processes and events together (a process
that is up drains, an event that is due comes due), which suffices for
`EveryEventEnds`: from some time on no event is pending or processing. Stream: the catch-up timer fires, answers are processed, the
network delivers, and queries do not fail for ever (strong fairness of the read,
because a failed catch-up starts over). Nothing is assumed about broadcasts. AI
requests: the interval timer of the billing worker (`startPaygBillingWorker`) runs the scan again and again, and a call
that lives goes on; a call may die at any time, and nothing is assumed about the
provider. That no row makes the scan throw for ever is part of this fairness.
Agent runs: the interval timer of a worker (`startAgentRunWorker`) claims and sweeps,
a worker that does not die goes on, leases expire; nothing is assumed about the
user. Storage periods: the timer of the billing worker (`startPaygBillingWorker`) and
time; a call of the provider returns or throws, and fails `MaxFailures` times at most. Media: the worker that is not in `Mortal` runs its cycle
(`startPremiumMediaWorker`), its awaits end, and the provider ends the tasks it
accepted; nothing is assumed of the submitter, of callbacks, or of statements
that fail. `EveryCallResolves` says of the call what `EveryEventEnds` says of events: from some
time on it is recorded or left to an operator, or was reported without an id (section 5).

## 4. Proofs

All for arbitrary constants under the named assumptions of the modules
(`QueueAssumption`, `StreamAssumption`, `WalletAssumption`, `WalletFinite`, `StatusAssumption`,
`RequestAssumption`, `VoiceAssumption`, `AdSpendAssumption`, `AdSpendFinite`, `AdStatusAssumption`,
`GoogleAdsAssumption`, `AgentRunsAssumption`, `PremiumMediaAssumption`,
`PaygAssumption`, `NoneAssumption`). They say that amounts and bounds are
natural numbers, that names of different things differ, and that what is added up or
counted is finite: top-ups, reversals, holds, authorizations and launches, which are
rows of a database, and the workers of agent runs. TLC evaluates them on every run.

`SumTheorems`. The induction theorems of the library take an operator as a parameter,
which no prover here instantiates. `NatsBySteps` and `SubsetsBySteps` take a set
instead: a set that holds 0 and the successor of each of its numbers holds every natural
number; a set that holds the empty set and, with a set, each extension of it by one
element holds every finite subset. With them the module shows what `SumFunctionOnSet` of the
community modules does when one value of a function changes, when functions agree, and
when one bounds the other.

`DomainEventsProofs`. The inductive invariant is
`IInv == TypeOK /\ DeliveriesOK /\ RowsOK`. The properties alone are not inductive:
that a mark may write `processed` depends on where the delivery stands, so
`DeliveriesOK` says that the handlers before position `at` have their receipts and
that a delivery before `receipt` has handled; `RowsOK` ties receipts to
subscribers and handled counts. From it: `TypeCorrect`, `ProcessedIsConsumed`,
`ReceiptIsHandled`, `DeadLetterIsExhausted`, `FinishedForGood`,
`FreshLeaseHolds`, and `QueueImplementsContract`: every step of the queue maps to a
step of `EventDelivery` or a stutter, so the contract holds for any number of
workers, events, consumers and attempts. `RepeatsBounded` needs a second invariant,
`RepeatsOK`: the completed runs of a handler and the deliveries that are still to run
it are together no more than the claims of the event, since each claim starts one
delivery and a delivery leaves a handler for good once it has run it.

`EventStreamProofs`. The order needs `WireOK` only: what the client has is at most its
`Last-Event-ID`, what is on the wire lies between that and the number sent last, and a
connection without a number has written nothing until it knows the latest event.
Hence `EventsArriveInOrder` has no hypothesis about commits. That nothing is
missing needs `OrderedCommits` (without it, it is false: section 5). Then nothing below a committed
number is open (`SettledOK`), so that a page, once read, stays without a gap (`PagesOK`), and `BetweenOK`
says for each state of the stream where the events are that the broadcast has passed
and the stream has not sent: nowhere when it is live, in the buffer during a catch-up, in the answer or the
buffer when the answer is the last. `PassedOK` follows: what was sent is delivered.
Lemmas say that `Ascending` enumerates a set in order, that pages are gapless and
complete when they are short, and what appending to the wire does. From it:
`StreamTypesHold`, `EventsArriveInOrder`, `ReconnectingLosesNothing`,
`StreamPassesNothingOver`, for any number of events and connections and any page size.

`AiRequestProofs`, on `AiWallet`. `IInv == TypeOK /\ MoneyOK /\ CreditMeansCredited /\ ReversalsAreApplied`.
Lemmas say what each arithmetic operator (`Repay`, `Fund`, `Owe`, `Defund`,
`Seeded`, `Unpend`) does to the net of the row (`Net`) and to the exclusion of debt
and balance (`Solvent`); every operation is a composition of them. That reversals
are taken once needs `CreditMeansCredited`: without it a report of success could
mark a top-up as credited without applying the reversals that wait for it.
From it: `TypeCorrect` (no amount becomes negative), `MoneyIsConserved`,
`NoBalanceBesideDebt`, `ReversalsAreTakenOnce`, `ResolvedForGood`. Three more rest on it:
`HoldsAlwaysMatch` (the reserve of the wallet is the sum of the holds that are not
resolved), `WorkIsWoken` (`FundsWakeWork`), and,
with `FundsInv`, `FundingMatches` (what was funded is what the credited top-ups have
left) and `RefundStays` (`RefundIsTerminal`). `WorkIsWoken` needs that the key a credit, a
release, a settlement or an adjustment appends has not been used before (`KeysTell`), and that whatever
else changes the row brings no balance. `RefundStays` needs that a row says REFUNDED
only while reversals in force cover it (`RefundsCover`). For these `RowFits` says of each top-up that the parts taken
back are those of its reversals in force. `FundingMatches` has a hypothesis, `ReportedOnce`, and
`RefundStays` a stronger one, that refunds are reported as reversals of their own only
(section 5). `ReportedOnce`: a provider reports refunds either as the status of a payment or as
reversals of their own. Airwallex does the latter; `mapStatus`
(`api-wallet.repo.ts:38`) would accept the former too. With both for the same payment
the refund is taken twice, and TLC finds `FundedMatchesTopups` violated. The run
`wallet` checks the case of Airwallex.

`AiRequestProofs`, on `AiRequest`. First `CallsObeyWallet`: `CallSpec => Spec`, because each
statement of a call is a wallet operation or no change, so every theorem of
the wallet holds of the composition. Then the inductive invariant
`CallIInv == CallTypeOK /\ RequestOK /\ EngagedOK /\ StagesOK /\ ChargesAreEvidenced /\ AnswersArePaid`.
That work is done once per key is not inductive: it needs that a call which has got
past the submitting mark is the only such call of its key and that the hold of
such a call is not RESERVED, RELEASED or absent (`EngagedOK`), which in turn
needs that a call which stands before the provider, or was rejected, has no
request under way (`StagesOK`). From it: `CallTypeCorrect`, `OneExecutionPerKey`,
`HoldsOutliveWork`, `ChargedWorkIsDone`, `AnswersComeAfterPayment`, for any number
of callers, keys, top-ups and amounts.

`AiRequestProofs`, on `VoiceSession`.
`VoiceTyped` adds to the types that a session whose create call was answered is active, ended or
deleted; from it `VoiceTypesHold`, without a hypothesis, and with it that a session
costs no more than its minutes. `EndedIsCharged` is not inductive: a close call that stands before the
debit or before the end must have the usage row, or the row and the debit, behind it
(`CloserOK`), whatever the other close calls did meanwhile. `EndedSessionsAreCharged` has
the hypothesis `NoLateFailure`: no create call that fails ends the row of one that was
answered. That is the case of section 5, and the theorem says that it is the only one: calls
that race, repeat, die or are refused never leave an ended session uncharged.
`EndedSessionsOfOneCallAreCharged` needs no hypothesis but that there is one create call.

`GoogleAdsProofs`, on `AdSpend`. `AdInv` joins types, the net of the wallet row and
`WithinAuthorization`. As in the AI wallet, one lemma for each arithmetic operator says
what it does to the net; deposits leave the budgets alone (`BudgetsKept`), and what
is given back to an authorization is bounded by what its reservation has left. From
it: `AdTypesHold`, `AdMoneyIsConserved`, `AuthorizationsHold`. `BooksInv` adds what the three kinds of
rows say of each other: the deposits in the books are those whose rows say that they are credited
(`CreditInv`, `DepositsAreWhole`), a reservation has settled no more than its amount
(`SettledInv`), and the sums over the reservations are those of the wallet and of each
authorization (`BooksAgree`). From it: `AdBooksAgree`, `AdDepositsAreWhole`.

`GoogleAdsProofs`, on `GoogleAds`. `GoogleAdsImplementsAdSpend` is the refinement: every statement
of a call or worker is an operation of `AdSpend` or leaves its rows alone, so what is
proved of `AdSpend` holds of campaigns (`LaunchesStayAuthorized`). The inductive
invariant is `GInv == AdInv /\ TypeOK /\ FlowInv`. `FlowInv` has a part for the rows
(an open allocation has its reservation, `RowInv`), for calls and workers (what
they have read is still true of the rows, `CallInv`, `WorkerInv`), for the key a call
owns (`OwnersInv`: only the call that made the rows sends) and for the campaign
(`OpenInv`). From it: `GoogleAdsTypes`, `LaunchesAreSentOnce`, `BudgetsStayHeld`,
`OneAllocationIsOpen`, `FinalizedStaysFinal`.

That no cost is charged twice (`NeverOvercharged`) needs two invariants more.
`LaunchesOwnRows` says that the row of a launch in flight is pending, leased and never
observed, so that no worker has it. `CostInv` is an argument about intervals. The cost of
the campaign only grows. A launch is charged from the cost that was read before it (its
baseline) up to the cost observed last (`RowCost`), so what is charged stays within
that interval. `ChargedBelow` says that the intervals do not overlap: all that is
charged, to whatever rows, is at most where the open row begins plus its own charge, and at most every
baseline a call has read while no row is open. `WorkerCost` says what a worker holds that
it has read before: its cost lies between the observed one and the present one, and once it
waits for the billing evidence of a row no baseline lies below what the row was observed to
have cost. A second worker that handles the same row breaks the last part, and the property
(section 5). Hence the hypothesis `OneCyclePerRow` of `NoCostIsChargedTwice`: no two
cycles handle one row at the same time, which is what the lease is for, for any
number of workers, calls and keys. `NeverOverchargedByOneWorker` has no hypothesis
but the number of workers. That the sum of what is charged moves with one row only is a lemma
(`ChargedMoves`) on `SumTheorems`.

`AgentRunsProofs`. `Typed` adds to the types where a worker may stand without a
run. `Changed` says in one relation how a row may change in a step; `CancelledIsFinal` and
`FinishIsAnnounced` follow from it. `OfficeAgrees` is inductive with `Typed` and `Requested`: a
worker stands only at runs that were requested, and only such runs leave packets, so
that a refresh never finds a run whose item there is not.
`NeverReplayed` is not: the inductive form (`ReplayOK`) counts, beside the work that was
done, the workers that are about to do it, because a worker that lost its lease still
will. From these: `RunTypesHold`, `CancelledStaysCancelled`, `FinishesAreAnnounced`,
`OfficeStaysInStep`, `WorkIsNotReplayed`.

`PremiumMediaProofs`. `IInv == TypeOK /\ PlacesOK /\ TaskOK /\ AuditOK /\ ChargeOK /\ ResultOK`.
The properties speak of rows; that they stay true needs to know, for each place a
process may stand at, what holds there although the row was read earlier: a
submitter before the dispatch has no task (`TaskOK`), one worker at most stands before the
audit and none was dispatched then (`AuditOK`), a process about to mark something
as paid has settled its hold (`ChargeOK`), one about to store has a paid audit that
accepts (`ResultOK`). Each action has a lemma that first says what it does in these
terms. From it: `MediaTypesHold`, `CallsKeepTheirHolds`, `PaidIsCharged`,
`AuditsAreNotRepeated`, `AcceptedIsStoredAndPaid`, `EndsAreFinal`.

`PaygPeriodProofs`. `IInv == TypeOK /\ InvoicesOK /\ ... ` ties three things together that no
transaction spans: the row, the provider's invoice and what workers and webhooks have
read of either. One request id for each week makes one invoice for each week
(`InvoicesOK`); the cost of a row that was claimed once is fixed and the week has ended
(`RowOK`); and what a worker or a webhook has seen cannot be taken back: a finalized
invoice stays finalized, a known intent known, an item once added stays (`WorkerOK`, `HookOK`,
`EventOK`). `Write` and `Ask` make each statement and request one that may take effect and
throw, so every lemma on a step has the case in which only the caller moves. From it:
`TypeCorrect`, `NoWeekPassedOver` (`MovedOnIsBilled`), `OneInvoiceInFull`
(`BilledOnceInFull`), `PaidIsEvident` (`PaidHasEvidence`), `SettledEventsApplied`
(`ProcessedIsApplied`), for any number of weeks, workers, deliveries and failures.

Only model-checked: the liveness properties (`EveryEventEnds`, `StreamCatchesUp`,
`MeteredUseIsDebited`, `EveryRunEnds`, `EveryCallResolves`, `EveryPeriodEnds`), which need
fairness and ENABLED. Every other property of a passing run is stated by a theorem.
Five have hypotheses, without which they are false (above and section 5): `NoSkippedEvent`
(`OrderedCommits`), `FundedMatchesTopups` (`ReportedOnce`), `RefundIsTerminal` (refunds are not
reported as a status), `NeverOvercharged` (`OneCyclePerRow` or one worker) and `EndedIsCharged` (`NoLateFailure` or
one create call).

## 5. Findings

* `stream_commit_order`: README.md:88 promises that reconnecting with
  `Last-Event-ID` replays missed events in order. Sequence numbers are drawn at
  insert inside the business transaction and shown at commit; a transaction that
  commits late puts its event behind the cursors of the broadcaster, of open
  streams and of the client, and no reader looks back.
* `google_ads_released`: docs/google-ads-spend-reconciliation.md:24 says that the
  unused remainder is released only after the campaign is stopped. When a pause
  is answered before a launch that is still in flight is executed, the campaign runs
  although the row says PROVIDER_PAUSED. `recordGoogleAdsCostObservation` moves the row on to
  AWAITING_BILLING without looking at the status it has just read
  (`google-ads-spend.repo.ts:580`), nothing pauses the campaign again, and the remainder is
  released.

The following were seen with TLC in the same models and are not kept as runs. Each
names the property and the instance that breaks it.

* `PendingPaymentsHeld` (`AiWallet`; two top-ups that fail or succeed). The comment at
  `api-wallet.repo.ts:23` says that pending deposits are a payment reserve and are
  seeded when the row is created. When the row is first created by a deposit that fails, the
  seed no longer contains that deposit and its amount is subtracted all the same,
  at the expense of another pending deposit.
* `RefundIsTerminal` (`AiWallet`; one top-up, `PaymentStatuses = {"SUCCEEDED", "REFUNDED"}`, no
  reversals). The comment at `api-wallet.repo.ts:63-66` says that refunds and chargebacks are
  terminal even when their webhook arrives before a delayed success, which otherwise "could
  mint funds that were already reversed by the provider". Line 67 keeps the status of a
  refunded top-up only if it has been credited (`wasReversed&&topup.creditedAt`), so that a
  success which is reported after the refund credits the top-up.
  `adspend.repo.ts:364-367` has the same comment ("Reversal is terminal even if it is observed
  before the corresponding success webhook") over the same condition, and README.md:186 promises
  that refunds cannot be replayed into available funds. In the advertising wallet the success must
  have been settled as well, which does not tell a payment that was refunded since. In
  the AI wallet a refund that Airwallex reports as a resource of its own does stay terminal, in
  either order: that is what the run `wallet` and `RefundStays` show. `DepositsAreWhole` and
  `FundedMatchesTopups` say that the books agree with the rows of the top-ups, and not which
  rows should be credited.
* `FundsWakeWork` without its exception (`AiWallet`; as run).
  docs/autonomous-company-os-audit.md:90 says that a funded event resumes the work once debt
  is cleared. A dispute that is withdrawn gives the money back and clears the debt
  (`settleReversal`, `airwallex-wallet-reversal.repo.ts`) and appends no event, so work that was
  paused for want of that money waits for the next deposit.
* `HeldUsageIsSettled` (`AiRequest`; `FairCallSpec`, one caller, one hold). The comment at
  `usage.service.ts:326` says that the scan repairs the gap between usage and its wallet
  entry. It takes rows without a reservation only (line 349): when a caller dies, or its
  settlement throws, between the usage row of a hold and `settleAiSpend`, nothing
  settles the hold any more.
* `CloseIsRepeatable` (`VoiceSession`; two close calls). The comment at
  `voice.service.ts:138` says that a later close is safe after a metering that succeeded
  and an update that failed. The later close computes a longer duration,
  `assertUsageReplayMatches` refuses the other cost, and the session stays active.
* `EndedIsCharged` (`VoiceSession`; two create calls). A create call that fails ends the row it
  shares with an answered one, and close does not meter an ended session; migration 0149
  says that client ids make retries safe.
* `NeverOvercharged` (`GoogleAds`; two workers). `finalizeGoogleAdsSpendAllocation`
  (`google-ads-spend.repo.ts:662-675`) checks neither who holds the lease nor that the cost is
  the one the evidence was read for. A worker that is stuck past its lease with its evidence
  in hand finalizes after another has settled newer cost; a launch of another key that
  had read its baseline in between charges the same clicks again.
* `CompletedIsWhole` (`AgentRuns`; `StepCount = 2`). docs/agent-ecosystem.md:26 lists the
  steps every run contains. A worker that lost its lease and stores its result or its
  failure late can leave a step unfinished in a run that another worker completes, and its
  `updateRun` takes a finished run back to running (`agent.service.ts:863`).
* `FailureIsDurable` (`AgentRuns`; as run). The comment at `agent.repo.ts:336` says that a failed run
  is a durable stop condition. A stalled planner revives it, as above.
* `ChargedOnce` (`PaygPeriod`; `Spec`, one worker, no delivery, no credit, `MaxFailures = 1`).
  The QR request refuses a period that has an invoice, so that there is no second charge
  (`airwallex.service.ts:1270`); it reads that before the transaction that opens the payment,
  and the worker may finalize the invoice in between.
* `FreeWasNotRun` (`PremiumMedia`; one worker). Migration 0097 keeps unused submissions apart from
  those that may have run. The recovery reads a candidate that is still UNRESERVED, the
  submitter goes on to the provider, and the row is marked REJECTED with its usage
  recorded: the task runs and is never charged.
* `RejectedHoldsNothing` (`PremiumMedia`; the same race, or a submitter that dies between the
  hold and its binding). The hold stays RESERVED for good.
* `EveryResultEnds` (`PremiumMedia`; one callback). A callback that arrives while a worker audits
  takes PROCESSING back to PROVIDER_SUCCEEDED; the answer of the audit is then refused and
  the candidate stays at quality SUBMITTING, which nothing looks for in that status. The same follows
  from an error between that mark and the audit.
* `EveryCallResolves` without `Unidentified` (`PremiumMedia`; as run). The id of a task is optional in a
  report (`kie-media.client.ts:67`) and stored by COALESCE (`premium-media.repo.ts:397`). When a
  callback reports a task as pending without naming it and the submitter dies before it stores
  the answer, the row is SUBMITTED with neither a task id nor a `submitted_at`: it is not
  listed as stale (line 468), not polled (452) and not timed out (479). The same holds of a
  final report without an id whose handler dies before it charges: the list of what is
  to be charged takes rows with an id only (541), and a handler that goes on stops at
  KIE_TASK_ID_MISSING (`premium-media.service.ts:828`).
* `EveryCallResolves` (`PremiumMedia`; `Reordered = TRUE`). A late report that the task is pending
  takes AMBIGUOUS back to SUBMITTED, and a candidate that ended is polled no more.

Seen in the media model without a contradiction of anything written: a task that is
known from a pending callback only has no `submitted_at` and no deadline; a repeated
report of success for a FAILED candidate that was charged makes it AMBIGUOUS; when the
attempts are exhausted while the audit is SUBMITTED, no claim takes the candidate and none
fails it; the media of a candidate that failed after it was attached stays in the catalog.

## 6. Plan

Done: the queue with its contract and proofs; the stream, with proofs; the AI wallet and the
requests that spend from it, with proofs; voice sessions, with proofs; the advertising wallet and
Google Ads campaigns, with the refinement and proofs; agent runs with their Office
controls and proofs; storage periods with QR payments and webhook claims, with proofs;
media candidates with proofs. Every run asks a question of its own, and properties that are
proved have made room for others. Next, in this order:

1. The jobs around media candidates: rounds, references, and the end of a job when
   one of its candidates fails (`JobEnds` stands for it now).
2. `WebsiteAssetEdit` (`website-asset-edit.service.ts`): the hold protocol around a
   callback that may arrive before the answer of the submission is stored, or stop
   between the completed edit and its usage.
3. Agent executions and reactive deferrals (`agent-execution.worker.ts`): approvals,
   leases, recovery of executions whose outcome is unknown; composed with `AgentRuns`.
4. The stop of a process: deadline against drain, pool closed last.
5. Partial refunds of the advertising wallet, subscriptions and wallet reconcilers of the
   Airwallex service.

Proofs left: none of the safety properties; what comes next of the list above should be
proved as it is modelled. Whether the agent runs, candidates and periods also implement
an abstract contract each, as the queue does, has not been asked.

## 7. Not modelled

Effects inside handlers, authentication, formatting, adapters of third parties,
the liveness rows of workers, migrations, and the components listed as
`not_modelled` in `PROJECT.json` with the reason. Most of what the map does not cover is
of that kind: generated registries, queries that list and filter rows, validators,
and services that derive one row from others in a single transaction, where there is
no order of steps to get wrong.
