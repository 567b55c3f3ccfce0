----------------------------- MODULE GoogleAds -----------------------------
(***************************************************************************)
(* Prepaid Google Ads campaigns: the calls that launch, pause and resume   *)
(* the campaign (google-ads-spend.service.ts), the workspace's automation  *)
(* switch (workspace-automation.service.ts), the worker that reconciles    *)
(* allocations with the provider (google-ads-spend.worker.ts) and the      *)
(* allocation rows they share (google-ads-spend.repo.ts), on top of the    *)
(* wallet, authorizations and reservations of module AdSpend.              *)
(*                                                                         *)
(* Every statement or transaction and every provider request is a step of  *)
(* its own; calls and workers may die between any two, and a request whose *)
(* answer is lost may or may not have been executed.  One workspace and    *)
(* one campaign; the campaign is stopped or enabled, by Lulu or (stopped)  *)
(* by the customer at Google.                                              *)
(***************************************************************************)
EXTENDS AdSpend

CONSTANTS
  Callers,     \* concurrent service calls
  Workers,     \* reconciliation workers
  Relaunch,    \* Relaunch[k]: the key workspace-resume:<reservation of k>, or NoKey
  NoKey,
  MaxCost,     \* cost the campaign may run up (bounds the model)
  MaxCalls,    \* service calls started (bounds the model)
  MaxPauses    \* times automation is paused (bounds the model)

ASSUME GoogleAdsAssumption ==
  /\ NoKey \notin Keys
  /\ Relaunch \in [Keys -> Keys \cup {NoKey}]
  /\ {MaxCost, MaxCalls, MaxPauses} \subseteq Nat

VARIABLES
  paused,     \* workspace_settings.settings.agents.paused
  campaign,   \* the campaign at Google: [enabled, budget, cost]
  launches,   \* history: launch requests sent and accepted, per key
  alloc,      \* alloc[k]: the workspace_google_ads_spend_allocations row
  call,       \* call[c]: where a service call is, and what it has read
  worker,     \* worker[w]: where the worker's reconciliation is, and what it read
  tally       \* history: service calls and pauses so far

gVars == <<paused, campaign, launches, alloc, call, worker, tally>>
vars == <<adVars, gVars>>

LaunchStates == {"none", "PENDING", "APPLIED", "UNCERTAIN", "REJECTED"}

Closing == {"REQUESTED", "PAUSE_UNCERTAIN"}

ClosureStates == {"OPEN", "PROVIDER_PAUSED", "AWAITING_BILLING", "FINALIZED"} \cup Closing

Nobody == "none"

Row0 == [launch |-> "none", closure |-> "OPEN", base |-> 0, observed |-> 0, over |-> FALSE,
         stable |-> 0, launchedAt |-> FALSE, pausedAt |-> FALSE, evidence |-> FALSE,
         known |-> FALSE, reason |-> "none", after |-> 0, owner |-> Nobody, live |-> FALSE]

IdleCall == [at |-> "idle", key |-> NoKey, base |-> 0, dup |-> FALSE]

CallSteps == {"idle", "read", "reserve", "create", "undo", "send", "applied", "rejected", "close",
              "uncertain", "pause", "stopped", "unknown", "look", "enable", "resumed"}

WorkerSteps == {"idle", "read", "observe", "stop", "request", "mark", "pause", "unknown",
                "settle", "record", "finalize", "give up"}

IdleWorker == [at |-> "idle", key |-> NoKey, cost |-> 0, stopped |-> FALSE, mismatch |-> FALSE]

Init ==
  /\ AdInit
  /\ paused = FALSE
  /\ campaign = [enabled |-> FALSE, budget |-> 0, cost |-> 0]
  /\ launches = [k \in Keys |-> [sent |-> 0, accepted |-> FALSE]]
  /\ alloc = [k \in Keys |-> Row0]
  /\ call = [c \in Callers |-> IdleCall]
  /\ worker = [w \in Workers |-> IdleWorker]
  /\ tally = [calls |-> 0, pauses |-> 0]

-----------------------------------------------------------------------------
\* Allocation rows.

\* Neither rejected nor finalized: at most one row per campaign may be open.
IsOpen(k) == alloc[k].launch \notin {"none", "REJECTED"} /\ alloc[k].closure # "FINALIZED"

Desired(k) == alloc[k].base + Amount[k]

Unleased(row) == [row EXCEPT !.owner = Nobody, !.live = FALSE]

\* requestGoogleAdsAllocationClosure
Closure(row, why) ==
  IF row.closure = "FINALIZED" THEN row
  ELSE [row EXCEPT !.closure = IF @ = "OPEN" THEN "REQUESTED" ELSE @,
                   !.reason = IF @ = "none" THEN why ELSE @]

\* markGoogleAdsPauseOutcome of a row that is not finalized
PauseOutcome(row, definitive) ==
  IF definitive THEN [row EXCEPT !.closure = "PROVIDER_PAUSED", !.pausedAt = TRUE]
  ELSE [row EXCEPT !.closure = "PAUSE_UNCERTAIN"]

MarkPause(k, definitive) ==
  alloc' = IF alloc[k].closure = "FINALIZED" THEN alloc
           ELSE [alloc EXCEPT ![k] = PauseOutcome(@, definitive)]

-----------------------------------------------------------------------------
\* The provider, and the customer at the provider.

Spend ==
  /\ campaign.enabled /\ campaign.cost < MaxCost
  /\ campaign.cost <= campaign.budget   \* Google may overrun a budget a little
  /\ campaign' = [campaign EXCEPT !.cost = @ + 1]
  /\ UNCHANGED <<adVars, paused, launches, alloc, call, worker, tally>>

StoppedExternally ==
  /\ campaign.enabled
  /\ campaign' = [campaign EXCEPT !.enabled = FALSE]
  /\ UNCHANGED <<adVars, paused, launches, alloc, call, worker, tally>>

\* A request is executed or not; the caller learns the outcome, or does not.
Outcomes == {"accepted", "rejected", "lost", "executed"}

Executes(outcome) == outcome \in {"accepted", "executed"}

-----------------------------------------------------------------------------
\* Service calls.

Step(c, at) == call' = [call EXCEPT ![c].at = at]

Return(c) == call' = [call EXCEPT ![c] = IdleCall]

Begin(c) ==
  /\ call[c].at = "idle" /\ tally.calls < MaxCalls
  /\ tally' = [tally EXCEPT !.calls = @ + 1]

\* launchGoogleAdsAllocation: a key that has an allocation is answered or
\* refused from its row.
StartLaunch(c, k) ==
  /\ Begin(c) /\ ~paused
  /\ alloc[k].launch = "none"
  /\ \A j \in Keys : Relaunch[j] # k
  /\ call' = [call EXCEPT ![c] = [IdleCall EXCEPT !.at = "read", !.key = k]]
  /\ UNCHANGED <<adVars, paused, campaign, launches, alloc, worker>>

\* Rows listWorkspacePausedGoogleAdsAllocations returns: the latest launched one.
Resumable(k) ==
  /\ alloc[k].launch = "APPLIED" /\ alloc[k].reason = "automation"
  /\ \A j \in Keys : alloc[j].launch = "APPLIED" => alloc[j].after <= alloc[k].after

\* resumeWorkspaceGoogleAdsCampaigns: what is finalized is launched again under
\* a key of its own, what is still held is enabled again.
StartResume(c, k) ==
  /\ Begin(c) /\ ~paused
  /\ Resumable(k)
  /\ IF alloc[k].closure = "FINALIZED"
     THEN /\ Relaunch[k] # NoKey /\ alloc[Relaunch[k]].launch = "none"
          /\ call' = [call EXCEPT ![c] = [IdleCall EXCEPT !.at = "read", !.key = Relaunch[k]]]
     ELSE /\ reservation[k].status = "RESERVED"
          /\ call' = [call EXCEPT ![c] = [IdleCall EXCEPT !.at = "look", !.key = k]]
  /\ UNCHANGED <<adVars, paused, campaign, launches, alloc, worker>>

\* readGoogleCampaignSnapshot: the campaign must be paused, its cost is the baseline.
ReadBaseline(c) ==
  /\ call[c].at = "read"
  /\ IF campaign.enabled THEN Return(c)
     ELSE call' = [call EXCEPT ![c].at = "reserve", ![c].base = campaign.cost]
  /\ UNCHANGED <<adVars, paused, campaign, launches, alloc, worker, tally>>

\* reserveAdSpend: a reservation that exists under the key is found again.
Reserve(c) ==
  LET k == call[c].key
  IN /\ call[c].at = "reserve"
     /\ \/ ~paused /\ ReserveAdSpend(k) /\ Step(c, "create")
        \/ /\ ~paused /\ reservation[k].status # "none"
           /\ call' = [call EXCEPT ![c].at = "create", ![c].dup = TRUE]
           /\ UNCHANGED adVars
        \/ /\ paused \/ (reservation[k].status = "none" /\ ~Covered(k))
           /\ Return(c) /\ UNCHANGED adVars
     /\ UNCHANGED <<paused, campaign, launches, alloc, worker, tally>>

Creatable(k) ==
  /\ reservation[k].status = "RESERVED" /\ reservation[k].settled = 0
  /\ ~\E j \in Keys : IsOpen(j)

\* Variant: a repeated launch is sent again.
MaySendAgain(c, fresh) == TRUE

\* Only the call that made both the reservation and the allocation sends the launch.
MaySend(c, fresh) == ~call[c].dup /\ fresh

\* createGoogleAdsSpendAllocation, and what the call makes of its answer.
CreateAllocation(c) ==
  LET k == call[c].key
      fresh == alloc[k].launch = "none"
      row == [Row0 EXCEPT !.launch = "PENDING", !.base = call[c].base,
                          !.observed = call[c].base, !.owner = "launch", !.live = TRUE,
                          !.after = Cardinality({j \in Keys : alloc[j].launch # "none"})]
  IN /\ call[c].at = "create"
     /\ IF (fresh /\ Creatable(k)) \/ (~fresh /\ alloc[k].base = call[c].base)
        THEN /\ alloc' = IF fresh THEN [alloc EXCEPT ![k] = row] ELSE alloc
             /\ IF MaySend(c, fresh) THEN Step(c, "send") ELSE Return(c)
        ELSE /\ IF call[c].dup THEN Return(c) ELSE Step(c, "undo")
             /\ UNCHANGED alloc
     /\ UNCHANGED <<adVars, paused, campaign, launches, worker, tally>>

\* The reservation of a launch that was not sent, or was rejected, is released.
ReleaseOrSkip(k) ==
  \/ ReleaseAdSpendReservation(k)
  \/ /\ reservation[k].status # "RESERVED"
     /\ UNCHANGED adVars

UndoReservation(c) ==
  /\ call[c].at = "undo"
  /\ ReleaseOrSkip(call[c].key) /\ Return(c)
  /\ UNCHANGED <<paused, campaign, launches, alloc, worker, tally>>

\* Variant: a launch without an answer is taken for rejected.
AfterLaunchHasty(outcome) == IF outcome = "accepted" THEN "applied" ELSE "rejected"

AfterLaunch(outcome) ==
  CASE outcome = "accepted" -> "applied"
    [] outcome = "rejected" -> "rejected"
    [] OTHER -> "uncertain"

\* mutateGoogleCampaign with the launch body: budget ceiling and status at once.
SendLaunch(c) ==
  LET k == call[c].key
  IN /\ call[c].at = "send"
     /\ \E outcome \in Outcomes :
          /\ campaign' = IF Executes(outcome)
                         THEN [campaign EXCEPT !.enabled = TRUE, !.budget = Desired(k)]
                         ELSE campaign
          /\ launches' = [launches EXCEPT ![k] = [sent |-> @.sent + 1,
                                                  accepted |-> @.accepted \/ Executes(outcome)]]
          /\ call' = [call EXCEPT ![c] = [IdleCall EXCEPT !.at = AfterLaunch(outcome), !.key = k]]
     /\ UNCHANGED <<adVars, paused, alloc, worker, tally>>

\* The three ways the answer is recorded.  A statement that fails makes the
\* launch uncertain.
MarkLaunchApplied(c) ==
  LET k == call[c].key
  IN /\ call[c].at = "applied"
     /\ IF alloc[k].launch = "REJECTED" THEN Step(c, "uncertain") /\ UNCHANGED alloc
        ELSE /\ alloc' = [alloc EXCEPT ![k] = Unleased([@ EXCEPT !.launch = "APPLIED",
                                                                 !.launchedAt = TRUE])]
             /\ Return(c)
     /\ UNCHANGED <<adVars, paused, campaign, launches, worker, tally>>

ReleaseRejected(c) ==
  /\ call[c].at = "rejected"
  /\ ReleaseOrSkip(call[c].key) /\ Step(c, "close")
  /\ UNCHANGED <<paused, campaign, launches, alloc, worker, tally>>

MarkLaunchRejected(c) ==
  LET k == call[c].key
  IN /\ call[c].at = "close"
     /\ alloc' = IF alloc[k].closure = "FINALIZED" THEN alloc
                 ELSE [alloc EXCEPT ![k] = Unleased([@ EXCEPT !.launch = "REJECTED",
                                                              !.closure = "FINALIZED"])]
     /\ Return(c)
     /\ UNCHANGED <<adVars, paused, campaign, launches, worker, tally>>

StatementFails(c) ==
  /\ call[c].at \in {"applied", "rejected", "close"}
  /\ Step(c, "uncertain")
  /\ UNCHANGED <<adVars, paused, campaign, launches, alloc, worker, tally>>

MarkLaunchUncertain(c) ==
  LET k == call[c].key
  IN /\ call[c].at = "uncertain"
     /\ alloc' = IF alloc[k].launch # "PENDING" THEN alloc
                 ELSE [alloc EXCEPT ![k] = Unleased([@ EXCEPT !.launch = "UNCERTAIN"])]
     /\ Return(c)
     /\ UNCHANGED <<adVars, paused, campaign, launches, worker, tally>>

\* pauseGoogleAdsCampaign: the closure of the open allocation, if there is one,
\* is requested before the provider is asked.
StartPause(c) ==
  /\ Begin(c)
  /\ \E k \in Keys :
       /\ IsOpen(k)
       /\ alloc' = [alloc EXCEPT ![k] = Closure(@, "other")]
       /\ call' = [call EXCEPT ![c] = [IdleCall EXCEPT !.at = "pause", !.key = k]]
  /\ UNCHANGED <<adVars, paused, campaign, launches, worker>>

\* A pause that is refused or not answered may have been executed.
SendPause(c) ==
  /\ call[c].at = "pause"
  /\ \E outcome \in Outcomes :
       /\ campaign' = IF Executes(outcome) THEN [campaign EXCEPT !.enabled = FALSE] ELSE campaign
       /\ Step(c, IF outcome = "accepted" THEN "stopped" ELSE "unknown")
  /\ UNCHANGED <<adVars, paused, launches, alloc, worker, tally>>

MarkPauseOutcome(c) ==
  /\ call[c].at \in {"stopped", "unknown"}
  /\ MarkPause(call[c].key, call[c].at = "stopped")
  /\ Return(c)
  /\ UNCHANGED <<adVars, paused, campaign, launches, worker, tally>>

\* The resume in place looks at the campaign, enables it if it is paused, and
\* reopens the allocation unless it was finalized meanwhile.
LookBeforeResume(c) ==
  /\ call[c].at = "look"
  /\ IF campaign.budget # Desired(call[c].key) THEN Return(c)
     ELSE Step(c, IF campaign.enabled THEN "resumed" ELSE "enable")
  /\ UNCHANGED <<adVars, paused, campaign, launches, alloc, worker, tally>>

SendEnable(c) ==
  /\ call[c].at = "enable"
  /\ \E outcome \in Outcomes :
       /\ campaign' = IF Executes(outcome)
                      THEN [campaign EXCEPT !.enabled = TRUE, !.budget = Desired(call[c].key)]
                      ELSE campaign
       /\ IF outcome = "accepted" THEN Step(c, "resumed") ELSE Return(c)
  /\ UNCHANGED <<adVars, paused, launches, alloc, worker, tally>>

\* Variant: a finalized allocation is reopened too.
ReopenableAlways(row) == row.launch = "APPLIED" /\ row.reason = "automation"

Reopenable(row) ==
  row.launch = "APPLIED" /\ row.closure # "FINALIZED" /\ row.reason = "automation"

MarkResumed(c) ==
  LET k == call[c].key
      reopened == [alloc[k] EXCEPT !.closure = "OPEN", !.reason = "none",
                                   !.pausedAt = FALSE, !.evidence = FALSE]
  IN /\ call[c].at = "resumed"
     /\ alloc' = IF Reopenable(alloc[k]) THEN [alloc EXCEPT ![k] = Unleased(reopened)] ELSE alloc
     /\ Return(c)
     /\ UNCHANGED <<adVars, paused, campaign, launches, worker, tally>>

\* The process dies, or a statement fails where the call gives up.
CallDies(c) ==
  /\ call[c].at # "idle"
  /\ Return(c)
  /\ UNCHANGED <<adVars, paused, campaign, launches, alloc, worker, tally>>

\* updateWorkspaceSettings with agents.paused = TRUE (requestWorkspaceAutomationPause)
PauseAutomation ==
  /\ ~paused /\ tally.pauses < MaxPauses
  /\ tally' = [tally EXCEPT !.pauses = @ + 1]
  /\ paused' = TRUE
  /\ alloc' = [k \in Keys |-> IF alloc[k].launch = "APPLIED" /\ alloc[k].closure = "OPEN"
                              THEN [alloc[k] EXCEPT !.closure = "REQUESTED",
                                                    !.reason = "automation"]
                              ELSE alloc[k]]
  /\ UNCHANGED <<adVars, campaign, launches, call, worker>>

ResumeAutomation ==
  /\ paused
  /\ paused' = FALSE
  /\ UNCHANGED <<adVars, campaign, launches, alloc, call, worker, tally>>

-----------------------------------------------------------------------------
\* The reconciliation worker.

\* What is not read again is forgotten.
Goto(w, at) ==
  worker' = [worker EXCEPT ![w] =
               IF at \in {"stop", "request"} THEN [@ EXCEPT !.at = at, !.cost = 0]
               ELSE [IdleWorker EXCEPT !.at = at, !.key = worker[w].key]]

Rest(w) == worker' = [worker EXCEPT ![w] = IdleWorker]

\* A reservation older than 15 minutes without an allocation was never sent.
ReleaseOrphan(k) ==
  /\ alloc[k].launch = "none"
  /\ ReleaseAdSpendReservation(k)
  /\ UNCHANGED gVars

\* Dispatching keeps its lease of 30 minutes until it ends: no request of a call
\* lasts longer than one.
LeaseExpires(k) ==
  /\ alloc[k].live
  /\ \A c \in Callers : call[c].key = k => call[c].at \notin {"send", "applied", "rejected", "close", "uncertain"}
  /\ alloc' = [alloc EXCEPT ![k].live = FALSE]
  /\ UNCHANGED <<adVars, paused, campaign, launches, call, worker, tally>>

Lapsed(a) == a \in ended \/ auth[a].status \in {"REVOKED", "EXPIRED"}

\* claimGoogleAdsSpendAllocation: allocations whose authorization has lapsed are
\* closed first.
Claim(w, k) ==
  LET closed == [j \in Keys |-> IF alloc[j].launch # "none" /\ alloc[j].closure = "OPEN"
                                   /\ Lapsed(AuthOf[j])
                                THEN Closure(alloc[j], "other") ELSE alloc[j]]
  IN /\ worker[w].at = "idle"
     /\ IsOpen(k) /\ ~alloc[k].live
     /\ alloc' = [closed EXCEPT ![k].owner = w, ![k].live = TRUE]
     /\ worker' = [worker EXCEPT ![w] = [IdleWorker EXCEPT !.at = "read", !.key = k]]
     /\ UNCHANGED <<adVars, paused, campaign, launches, call, tally>>

ReadCampaign(w) ==
  LET k == worker[w].key
  IN /\ worker[w].at = "read"
     /\ worker' = [worker EXCEPT ![w] = [at |-> "observe", key |-> k, cost |-> campaign.cost,
                                         stopped |-> ~campaign.enabled,
                                         mismatch |-> campaign.budget # Desired(k)]]
     /\ UNCHANGED <<adVars, paused, campaign, launches, alloc, call, tally>>

\* Variant: what the campaign had cost before the launch is charged too.
IncrementalFromZero(k, cost) == cost

Incremental(k, cost) == Less(cost, alloc[k].base)

Bounded(k, cost) == IF Incremental(k, cost) > Amount[k] THEN Amount[k] ELSE Incremental(k, cost)

\* The row recordGoogleAdsCostObservation writes.
Observed(k, o) ==
  LET row == alloc[k]
  IN [row EXCEPT
        !.observed = o.cost,
        !.over = Incremental(k, o.cost) > Amount[k],
        !.stable = IF row.observed # o.cost THEN 1 ELSE IF @ < 2 THEN @ + 1 ELSE 2,
        !.launch = IF @ = "UNCERTAIN" /\ ~o.mismatch THEN "APPLIED" ELSE @,
        !.closure = IF @ \in Closing /\ o.stopped THEN "PROVIDER_PAUSED"
                    ELSE IF @ = "PROVIDER_PAUSED" THEN "AWAITING_BILLING" ELSE @,
        !.pausedAt = @ \/ o.stopped]

\* What the reconciliation does next with the row it has read last.
Proceed(row, o) ==
  IF row.closure = "OPEN" /\ o.stopped /\ o.at = "observe" THEN "stop"
  ELSE IF o.at \in {"observe", "stop"} /\ (row.over \/ o.mismatch \/ row.launch # "APPLIED")
  THEN "request"
  ELSE IF row.closure \in Closing THEN IF o.stopped THEN "mark" ELSE "pause"
  ELSE "settle"

\* recordGoogleAdsCostObservation, in one transaction.  It fails if the money
\* cannot be moved, and the cycle with it.
Observe(w) ==
  LET o == worker[w]
      k == o.key
      due == Bounded(k, o.cost) # reservation[k].settled
  IN /\ o.at = "observe"
     /\ IF due THEN SettleReservation(k, Bounded(k, o.cost)) ELSE UNCHANGED adVars
     /\ alloc' = [alloc EXCEPT ![k] = Observed(k, o)]
     /\ Goto(w, Proceed(alloc'[k], o))
     /\ UNCHANGED <<paused, campaign, launches, call, tally>>

\* An open allocation whose campaign is found stopped is closed as paused, after
\* a first statement that requests its closure.
CloseStopped(w) ==
  LET o == worker[w]
      k == o.key
  IN /\ o.at = "stop" /\ alloc[k].closure # "FINALIZED"
     /\ alloc' = [alloc EXCEPT ![k] = PauseOutcome(Closure(@, "other"), TRUE)]
     /\ Goto(w, Proceed(alloc'[k], o))
     /\ UNCHANGED <<adVars, paused, campaign, launches, call, tally>>

RequestClosure(w) ==
  LET o == worker[w]
      k == o.key
  IN /\ o.at = "request"
     /\ alloc' = [alloc EXCEPT ![k] = Closure(@, "other")]
     /\ Goto(w, Proceed(alloc'[k], o))
     /\ UNCHANGED <<adVars, paused, campaign, launches, call, tally>>

MarkStopped(w) ==
  LET k == worker[w].key
  IN /\ worker[w].at = "mark" /\ alloc[k].closure # "FINALIZED"
     /\ MarkPause(k, TRUE) /\ Goto(w, "settle")
     /\ UNCHANGED <<adVars, paused, campaign, launches, call, tally>>

\* Only a definite answer counts as paused.
PauseCampaign(w) ==
  /\ worker[w].at = "pause"
  /\ \E outcome \in Outcomes :
       /\ campaign' = IF Executes(outcome) THEN [campaign EXCEPT !.enabled = FALSE] ELSE campaign
       /\ Goto(w, IF outcome = "accepted" THEN "mark" ELSE "unknown")
  /\ UNCHANGED <<adVars, paused, launches, alloc, call, tally>>

MarkUnknown(w) ==
  /\ worker[w].at = "unknown"
  /\ MarkPause(worker[w].key, FALSE) /\ Goto(w, "give up")
  /\ UNCHANGED <<adVars, paused, campaign, launches, call, tally>>

\* GOOGLE_ADS_FINALIZATION_LAG_DAYS without a change of the observed cost: what
\* calls and workers still hold is not older than that.
LagElapsed(k) ==
  /\ campaign.cost = alloc[k].observed
  /\ \A w \in Workers : worker[w].at = "observe" => worker[w].cost = campaign.cost
  /\ \A c \in Callers : call[c].at \in {"reserve", "create", "send"} => call[c].base = campaign.cost

\* The last checks before the final invoices are read.
Billable(row) == ~row.over /\ row.stable = 2 /\ row.launchedAt /\ row.pausedAt

\* Reading them renews the lease, if it is still the worker's.
ReadBillingEvidence(w) ==
  LET k == worker[w].key
      ready == /\ alloc[k].closure \in {"PROVIDER_PAUSED", "AWAITING_BILLING"}
               /\ Billable(alloc[k]) /\ alloc[k].owner = w
  IN /\ worker[w].at = "settle"
     /\ \/ ready /\ LagElapsed(k) /\ Goto(w, "record") /\ alloc' = [alloc EXCEPT ![k].live = TRUE]
        \/ ~ready /\ Goto(w, "give up") /\ UNCHANGED alloc
     /\ UNCHANGED <<adVars, paused, campaign, launches, call, tally>>

\* Evidence that was recorded before is recognised and not recorded again.
RecordBillingEvidence(w) ==
  LET k == worker[w].key
  IN /\ worker[w].at = "record"
     /\ \/ alloc' = [alloc EXCEPT ![k].evidence = TRUE, ![k].known = TRUE,
                                  ![k].closure = IF @ = "PROVIDER_PAUSED" THEN "AWAITING_BILLING" ELSE @]
        \/ alloc[k].known /\ UNCHANGED alloc
     /\ Goto(w, "finalize")
     /\ UNCHANGED <<adVars, paused, campaign, launches, call, tally>>

Finalizable(row) == row.closure = "AWAITING_BILLING" /\ row.evidence /\ ~row.over

\* finalizeGoogleAdsSpendAllocation: the remainder is released and the row
\* finalized in one transaction.
Finalize(w) ==
  LET k == worker[w].key
  IN /\ worker[w].at = "finalize"
     /\ Finalizable(alloc[k])
     /\ \/ FinalizeReservation(k)
        \/ reservation[k].status # "RESERVED" /\ UNCHANGED adVars
     /\ alloc' = [alloc EXCEPT ![k] = Unleased([@ EXCEPT !.closure = "FINALIZED"])]
     /\ Rest(w)
     /\ UNCHANGED <<paused, campaign, launches, call, tally>>

\* scheduleGoogleAdsSpendAllocation, after the cycle or after any error of it:
\* the lease is given up if it is still the worker's.
Schedule(w) ==
  LET k == worker[w].key
  IN /\ worker[w].at # "idle"
     /\ alloc' = IF alloc[k].owner = w THEN [alloc EXCEPT ![k] = Unleased(@)] ELSE alloc
     /\ Rest(w)
     /\ UNCHANGED <<adVars, paused, campaign, launches, call, tally>>

\* The process dies and keeps its lease.
WorkerDies(w) ==
  /\ worker[w].at # "idle"
  /\ Rest(w)
  /\ UNCHANGED <<adVars, paused, campaign, launches, alloc, call, tally>>

-----------------------------------------------------------------------------
Calling(c) ==
  \/ \E k \in Keys : StartLaunch(c, k) \/ StartResume(c, k)
  \/ ReadBaseline(c) \/ Reserve(c) \/ CreateAllocation(c) \/ UndoReservation(c)
  \/ SendLaunch(c) \/ MarkLaunchApplied(c) \/ ReleaseRejected(c) \/ MarkLaunchRejected(c)
  \/ StatementFails(c) \/ MarkLaunchUncertain(c)
  \/ StartPause(c) \/ SendPause(c) \/ MarkPauseOutcome(c)
  \/ LookBeforeResume(c) \/ SendEnable(c) \/ MarkResumed(c)
  \/ CallDies(c)

Reconciling(w) ==
  \/ \E k \in Keys : Claim(w, k)
  \/ ReadCampaign(w) \/ Observe(w) \/ CloseStopped(w) \/ RequestClosure(w) \/ MarkStopped(w)
  \/ PauseCampaign(w) \/ MarkUnknown(w)
  \/ ReadBillingEvidence(w) \/ RecordBillingEvidence(w) \/ Finalize(w)
  \/ Schedule(w) \/ WorkerDies(w)

Next ==
  \/ (Deposits \/ Budgets) /\ UNCHANGED gVars
  \/ Spend \/ StoppedExternally
  \/ PauseAutomation \/ ResumeAutomation
  \/ \E c \in Callers : Calling(c)
  \/ \E k \in Keys : ReleaseOrphan(k) \/ LeaseExpires(k)
  \/ \E w \in Workers : Reconciling(w)

Spec == Init /\ [][Next]_vars
-----------------------------------------------------------------------------
Rows == [launch : LaunchStates, closure : ClosureStates, base : Nat, observed : Nat,
         over : BOOLEAN, stable : 0 .. 2, launchedAt : BOOLEAN, pausedAt : BOOLEAN,
         evidence : BOOLEAN, known : BOOLEAN, reason : {"none", "automation", "other"},
         after : Nat, owner : Workers \cup {Nobody, "launch"}, live : BOOLEAN]

CallStates == [at : CallSteps, key : Keys \cup {NoKey}, base : Nat, dup : BOOLEAN]

WorkerStates == [at : WorkerSteps, key : Keys \cup {NoKey}, cost : Nat, stopped : BOOLEAN,
                 mismatch : BOOLEAN]

\* Type correctness of the allocations, the campaign, the calls and the workers.
TypeOK ==
  /\ paused \in BOOLEAN
  /\ campaign \in [enabled : BOOLEAN, budget : Nat, cost : Nat]
  /\ launches \in [Keys -> [sent : Nat, accepted : BOOLEAN]]
  /\ alloc \in [Keys -> Rows]
  /\ call \in [Callers -> CallStates]
  /\ worker \in [Workers -> WorkerStates]
  /\ tally \in [calls : Nat, pauses : Nat]

\* What is charged for the launches of a campaign, all together, never exceeds
\* what the campaign has cost, however launches, relaunches and stale
\* observations interleave (google-ads-spend.repo.ts: "a customer is never
\* charged more than the observed campaign cost").
NeverOvercharged ==
  SumFunction([k \in Keys |-> reservation[k].settled]) <= campaign.cost

\* A launch is sent to Google at most once per operation key, whoever repeats
\* the call and whichever step the first one died at.
LaunchedOnce == \A k \in Keys : launches[k].sent <= 1

\* While Google may be running a launch (accepted, with or without an answer) the
\* whole budget stays held or spent until the allocation is finalized
\* ("Network-ambiguous launch or pause outcomes retain the reservation").
HeldWhileOpen ==
  \A k \in Keys : launches[k].accepted /\ alloc[k].closure # "FINALIZED"
                   => reservation[k].status = "RESERVED"

\* At most one allocation of the campaign is open, so that two budgets never
\* charge the same clicks.
OneOpenAllocation == Cardinality({k \in Keys : IsOpen(k)}) <= 1

\* A finalized allocation is never reopened and its reservation never moves
\* again: not by a resume that had read it before, nor by a late worker.
FinalizedIsFinal ==
  [][\A k \in Keys : alloc[k].closure = "FINALIZED"
                      => alloc'[k].closure = "FINALIZED" /\ reservation'[k] = reservation[k]]_vars

\* The remainder of a budget is released only after the campaign is stopped
\* (docs/google-ads-spend-reconciliation.md).
ReleasedOnlyStopped ==
  [][\A k \in Keys : alloc[k].closure # "FINALIZED" /\ alloc'[k].closure = "FINALIZED"
                      /\ alloc[k].launch = "APPLIED" => ~campaign.enabled]_vars
=============================================================================
