----------------------------- MODULE AiRequest -----------------------------
(***************************************************************************)
(* AI work for customers, above the wallet: execute of openai.service.ts,  *)
(* which holds money, calls the provider once and settles the hold, and    *)
(* the usage rows of usage.service.ts with their reconciler.               *)
(*                                                                         *)
(* Several callers, in any processes, may use one request key: retries of  *)
(* an agent step, repeated clicks.  A process may die at every await, and  *)
(* a statement that throws may have been committed.  A request that was    *)
(* sent may be executed after its caller has given up or died.  Work       *)
(* funded by the platform touches no wallet and is left out.               *)
(***************************************************************************)
EXTENDS AiWallet

CONSTANTS
  Callers,   \* calls of execute
  KeyOf      \* KeyOf[c]: reservationKey of call c

ASSUME RequestAssumption ==
  /\ KeyOf \in [Callers -> Requests]
  /\ Requests \cap Usages = {}

VARIABLES
  caller,    \* caller[c]: the await at which call c stands
  inflight,  \* calls whose request may still reach the provider
  executed,  \* calls whose work the provider has done (history)
  usage,     \* usage[u]: cost of the ai_usage_ledger row of a hold or a metered use, 0 if none
  early      \* metered rows created before the wallet row was

requestVars == <<inflight, executed, usage, early>>
callVars == <<vars, caller, requestVars>>

Ending == {"done", "failed", "dead"}

Stages == {"start", "reserved", "calling", "waiting", "answered", "billing", "settling",
           "rejected", "unknown"} \cup Ending

CallInit ==
  /\ Init
  /\ caller = [c \in Callers |-> "start"]
  /\ inflight = {} /\ executed = {}
  /\ usage = [u \in Requests \cup Usages |-> 0]
  /\ early = {}

Goto(c, stage) == caller' = [caller EXCEPT ![c] = stage]

\* A statement that changes rows and moves on; or throws, committed or not.
Statement(c, change, next, thrown) ==
  \/ change /\ (Goto(c, next) \/ Goto(c, thrown))
  \/ UNCHANGED <<vars, usage>> /\ Goto(c, thrown)

-----------------------------------------------------------------------------
\* Before the provider is called.

\* A prior hold is answered as it stands; only one still RESERVED may go on.
\* Without balance or with a debt, or when a statement throws, the call fails.
Reserve(c) ==
  LET q == KeyOf[c]
  IN /\ caller[c] = "start"
     /\ \/ /\ hold[q].status = "RESERVED"
           /\ Goto(c, "reserved")
           /\ UNCHANGED vars
        \/ \E h \in HoldAmounts : Statement(c, ReserveAiSpend(q, h), "reserved", "failed")
     /\ UNCHANGED requestVars

\* Variant: the answer of the UPDATE is not looked at.
SubmitUnchecked(c) ==
  /\ caller[c] = "reserved"
  /\ \/ Statement(c, MarkAiSpendSubmitting(KeyOf[c]), "calling", "failed")
     \/ Goto(c, "calling") /\ UNCHANGED vars
  /\ UNCHANGED requestVars

\* Of the callers that see the hold RESERVED one gets past this statement.
Submit(c) ==
  /\ caller[c] = "reserved"
  /\ Statement(c, MarkAiSpendSubmitting(KeyOf[c]), "calling", "failed")
  /\ UNCHANGED requestVars

-----------------------------------------------------------------------------
\* The provider.

\* Sent once: maxRetries is 0 for prepaid calls.
CallProvider(c) ==
  /\ caller[c] = "calling"
  /\ Goto(c, "waiting")
  /\ inflight' = inflight \cup {c}
  /\ UNCHANGED <<vars, executed, usage, early>>

ProviderExecutes(c) ==
  /\ c \in inflight
  /\ inflight' = inflight \ {c}
  /\ executed' = executed \cup {c}
  /\ UNCHANGED <<vars, caller, usage, early>>

\* A 4xx answer that definitiveProviderRejection trusts: no work was done.
ProviderRejects(c) ==
  /\ c \in inflight /\ caller[c] = "waiting"
  /\ inflight' = inflight \ {c}
  /\ Goto(c, "rejected")
  /\ UNCHANGED <<vars, executed, usage, early>>

ProviderAnswers(c) ==
  /\ c \in executed /\ caller[c] = "waiting"
  /\ Goto(c, "answered")
  /\ UNCHANGED <<vars, requestVars>>

\* Variant: a timeout is taken for a rejection.
TimeoutRejects(c) ==
  /\ caller[c] = "waiting"
  /\ Goto(c, "rejected")
  /\ UNCHANGED <<vars, requestVars>>

\* A timeout, a broken connection or a 5xx answer; or an answer without an id.
OutcomeUnknown(c) ==
  /\ caller[c] = "waiting"
  /\ Goto(c, "unknown")
  /\ UNCHANGED <<vars, requestVars>>

-----------------------------------------------------------------------------
\* After the provider was called.

\* An error of the release is only logged.
ReleaseRejected(c) ==
  /\ caller[c] = "rejected"
  /\ Statement(c, ReleaseAiSpend(KeyOf[c], "DEFINITIVE_REJECTION"), "failed", "failed")
  /\ UNCHANGED requestVars

\* So is an error of this mark; it finds nothing to do on a settled hold.
MarkUnknown(c) ==
  /\ caller[c] = "unknown"
  /\ Statement(c, MarkAiSpendAmbiguous(KeyOf[c]), "failed", "failed")
  /\ UNCHANGED requestVars

\* Refused when the answer names another model than the hold.
RecordSubmitted(c) ==
  /\ caller[c] = "answered"
  /\ Statement(c, MarkAiSpendSubmitted(KeyOf[c]), "billing", "unknown")
  /\ UNCHANGED requestVars

\* recordUsage, its insert: needs token counts, one row per hold.
InsertUsage(q) ==
  /\ usage[q] = 0
  /\ \E cost \in Costs \ {0} : usage' = [usage EXCEPT ![q] = cost]
  /\ UNCHANGED vars

RecordUsage(c) ==
  /\ caller[c] = "billing"
  /\ Statement(c, InsertUsage(KeyOf[c]), "settling", "unknown")
  /\ UNCHANGED <<inflight, executed, early>>

\* Variant: the answer is returned although settling failed.
SettleLeniently(c) ==
  /\ caller[c] = "settling"
  /\ Statement(c, SettleAiSpend(KeyOf[c], usage[KeyOf[c]]), "done", "done")
  /\ UNCHANGED requestVars

\* recordUsage, settlePrepaidUsage of the row.
Settle(c) ==
  /\ caller[c] = "settling"
  /\ Statement(c, SettleAiSpend(KeyOf[c], usage[KeyOf[c]]), "done", "unknown")
  /\ UNCHANGED requestVars

Dies(c) ==
  /\ caller[c] \notin Ending
  /\ Goto(c, "dead")
  /\ UNCHANGED <<vars, requestVars>>

-----------------------------------------------------------------------------
\* Metered use without a hold, as of the voice service.

RecordMeteredUsage(u) ==
  /\ InsertUsage(u)
  /\ early' = IF wallet.exists THEN early ELSE early \cup {u}
  /\ UNCHANGED <<caller, inflight, executed>>

\* settlePrepaidUsage after the insert, or when the same use is recorded again.
SettlePrepaidUsage(u) ==
  /\ usage[u] > 0
  /\ DebitApiWallet(u, usage[u])
  /\ UNCHANGED <<caller, requestVars>>

\* Variant: rows are only reconciled while the balance covers them.
ReconcileCovered(u) ==
  /\ wallet.exists /\ u \notin early
  /\ wallet.available >= usage[u]
  /\ SettlePrepaidUsage(u)

\* The scan of the billing worker: rows without reservation and without debit
\* that are not older than the wallet row.
ReconcileUnsettledApiUsage(u) ==
  /\ wallet.exists /\ u \notin early
  /\ SettlePrepaidUsage(u)

-----------------------------------------------------------------------------
\* What else happens to the wallet.
Elsewhere ==
  /\ EnsureWallet \/ Deposits \/ Manual
  /\ UNCHANGED <<caller, requestVars>>

Progress(c) ==
  \/ Reserve(c) \/ Submit(c) \/ CallProvider(c) \/ ProviderAnswers(c) \/ OutcomeUnknown(c)
  \/ ReleaseRejected(c) \/ MarkUnknown(c)
  \/ RecordSubmitted(c) \/ RecordUsage(c) \/ Settle(c)

CallNext ==
  \/ \E c \in Callers : Progress(c) \/ ProviderExecutes(c) \/ ProviderRejects(c) \/ Dies(c)
  \/ \E u \in Usages : \/ RecordMeteredUsage(u) \/ SettlePrepaidUsage(u)
                       \/ ReconcileUnsettledApiUsage(u)
  \/ Elsewhere

CallSpec == CallInit /\ [][CallNext]_callVars

\* The billing worker's timer; and calls that go on as long as they live.
CallFairness ==
  /\ \A u \in Usages : WF_callVars(ReconcileUnsettledApiUsage(u))
  /\ \A c \in Callers : WF_callVars(Progress(c))

FairCallSpec == CallSpec /\ CallFairness

-----------------------------------------------------------------------------
CallTypeOK ==
  /\ TypeOK
  /\ caller \in [Callers -> Stages]
  /\ inflight \in SUBSET Callers
  /\ executed \in SUBSET Callers
  /\ usage \in [Requests \cup Usages -> Costs \cup {0}]
  /\ early \in SUBSET Usages

\* Calls whose request has been or may yet be carried out.
Sent == inflight \cup executed

\* The provider does the work of a request key at most once, whichever callers
\* race for it, retry it or die.
WorkIsDoneOnce == \A c, d \in Sent : KeyOf[c] = KeyOf[d] => c = d

\* Money held for work that was done, or may yet be, never goes back to the
\* balance: the hold stays until it is settled.
WorkStaysHeld ==
  \A c \in Sent : hold[KeyOf[c]].status \in {"SUBMITTING", "SUBMITTED", "AMBIGUOUS", "SETTLED"}

\* Customers pay only for work that was done and has its usage row.
ChargesAreEvidenced ==
  /\ \A q \in Requests : usage[q] > 0 => \E c \in executed : KeyOf[c] = q
  /\ \A q \in Requests : hold[q].status = "SETTLED" => usage[q] > 0

\* An answer is handed out only after it has been paid, and to one call per key.
AnswersArePaid ==
  \A c \in Callers : caller[c] = "done" => /\ c \in executed
                                           /\ hold[KeyOf[c]].status = "SETTLED"

\* Metered use recorded under an existing wallet is debited in the end, although
\* its caller may die between the two statements.
MeteredUseIsDebited == \A u \in Usages : usage[u] > 0 /\ u \notin early ~> u \in billed

\* reconcileUnsettledApiUsage "repairs the durable gap between immutable provider
\* usage and its prepaid wallet entry", also for usage of a hold.
HeldUsageIsSettled == \A q \in Requests : usage[q] > 0 ~> hold[q].status = "SETTLED"
=============================================================================
