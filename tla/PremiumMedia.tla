---------------------------- MODULE PremiumMedia ----------------------------
(***************************************************************************)
(* One premium media candidate: a paid task of the media provider and the  *)
(* paid quality audit of its result (premium-media.service.ts, .repo.ts    *)
(* and .worker.ts), each under a prepaid hold (ai-spend-reservation.repo). *)
(*                                                                         *)
(* The submitter reserves the hold and dispatches the task.                *)
(* The provider reports the result in callbacks, early, late or repeatedly,*)
(* and workers poll for it, give up on what became stale, charge what was  *)
(* used, audit the result and store it.  Every statement or transaction is *)
(* a step; a process may stop between any two, which is what a death is    *)
(* here, and a worker may stall past its lease and go on afterwards.       *)
(*                                                                         *)
(* The candidate is one of a finishing purpose, paid by the customer.  The *)
(* amounts and the wallet behind the holds are those of AiWallet.          *)
(* Operators commented "Variant:" are plausible mistakes and not part of   *)
(* the specification.                                                      *)
(***************************************************************************)
EXTENDS Integers

CONSTANTS
  Workers,      \* worker processes
  Mortal,       \* those that may stop for good
  Handlers,     \* handlers of callbacks, one for each that is served at a time
  Submitter,    \* the process that submits the candidate
  NoWorker,
  MaxAttempts,  \* claims of a candidate for processing (5 in the worker)
  Reordered,    \* whether callbacks overtake each other
  Faulty,       \* processes whose statements fail (bounds the model)
  MaxCallbacks, \* callbacks the provider sends (bounds the model)
  MaxFaults     \* statements that fail (bounds the model)

ASSUME PremiumMediaAssumption ==
  /\ Submitter \notin Workers \cup Handlers /\ NoWorker \notin Workers
  /\ Workers \cap Handlers = {} /\ Mortal \subseteq Workers
  /\ Faulty \subseteq Workers \cup Handlers \cup {Submitter}
  /\ Reordered \in BOOLEAN /\ MaxAttempts \in Nat \ {0} /\ MaxCallbacks \in Nat /\ MaxFaults \in Nat

VARIABLES
  cand,       \* the premium_media_candidates row
  hold,       \* status of the ai_spend_reservations of the task and of the audit
  usage,      \* which of the two is in ai_usage_ledger
  jobActive,  \* the job of the candidate is neither completed, failed nor cancelled
  media,      \* product_media rows inserted for the candidate
  task,       \* the provider's task
  proc,       \* where each process is, and what it has read
  audits,     \* history: audits dispatched
  callbacks,  \* history: callbacks sent
  faults      \* history: statements that failed

rows == <<cand, hold, usage, jobActive, media>>
history == <<audits, callbacks, faults>>
vars == <<rows, task, proc, history>>

Uses == {"task", "audit"}
Procs == Workers \cup Handlers \cup {Submitter}
HoldStates == {"none", "RESERVED", "SUBMITTING", "SUBMITTED", "AMBIGUOUS", "SETTLED", "RELEASED"}
Ended == {"ACCEPTED", "REJECTED", "FAILED"}
Results == {"media", "empty"}

Init ==
  /\ cand = [status |-> "none", sub |-> "UNRESERVED", known |-> FALSE, dated |-> FALSE,
             credits |-> "none", recorded |-> FALSE, quality |-> "NOT_STARTED", accepted |-> FALSE,
             worker |-> NoWorker, live |-> FALSE, attempts |-> 0]
  /\ hold = [u \in Uses |-> "none"]
  /\ usage = {}
  /\ jobActive = TRUE
  /\ media = 0
  /\ task = "none"
  /\ proc = [p \in Procs |-> [at |-> IF p = Submitter THEN "create" ELSE "idle", seen |-> "none", verdict |-> "none"]]
  /\ audits = 0 /\ callbacks = 0 /\ faults = 0

-----------------------------------------------------------------------------
\* Processes.

At(p, place) == proc[p].at = place

Goto(p, place) == proc' = [proc EXCEPT ![p].at = place]

Left == [at |-> "idle", seen |-> "none", verdict |-> "none"]

Leave(p) == proc' = [proc EXCEPT ![p] = Left]

\* A statement that updates the row if its WHERE clause holds.
Update(p, where, row, found, missed) ==
  IF where THEN cand' = row /\ Goto(p, found) ELSE Goto(p, missed) /\ UNCHANGED cand

\* The same, for the last statement of what the process does.
LastUpdate(p, where, row) ==
  /\ Leave(p)
  /\ cand' = IF where THEN row ELSE cand

-----------------------------------------------------------------------------
\* Holds (ai-spend-reservation.repo.ts).

\* Variant: a hold is released however far its call has gone.
ReleasableUnresolved(u, disposition) == hold[u] \in {"RESERVED", "SUBMITTING", "SUBMITTED", "RELEASED"}

\* releaseAiSpend; where it may not, it throws.
Releasable(u, disposition) ==
  \/ hold[u] = "RESERVED" /\ disposition = "BEFORE_SUBMISSION"
  \/ hold[u] = "SUBMITTING" /\ disposition = "DEFINITIVE_REJECTION"
  \/ hold[u] = "RELEASED"

ReleaseAiSpend(p, u, disposition, released, thrown) ==
  IF Releasable(u, disposition)
  THEN hold' = [hold EXCEPT ![u] = "RELEASED"] /\ Goto(p, released)
  ELSE Goto(p, thrown) /\ UNCHANGED hold

\* reserveAiSpend: one hold per key; a wallet without the money throws.
ReserveAiSpend(p, u, reserved, thrown) ==
  \/ /\ hold' = [hold EXCEPT ![u] = IF @ = "none" THEN "RESERVED" ELSE @]
     /\ Goto(p, reserved)
  \/ hold[u] = "none" /\ Goto(p, thrown) /\ UNCHANGED hold

MarkAiSpendSubmitting(p, u, marked, conflict) ==
  IF hold[u] = "RESERVED"
  THEN hold' = [hold EXCEPT ![u] = "SUBMITTING"] /\ Goto(p, marked)
  ELSE Goto(p, conflict) /\ UNCHANGED hold

MarkAiSpendSubmitted(u) == hold' = [hold EXCEPT ![u] = IF @ = "SUBMITTING" THEN "SUBMITTED" ELSE @]

MarkAiSpendAmbiguous(u) ==
  hold' = [hold EXCEPT ![u] = IF @ \in {"SUBMITTING", "SUBMITTED"} THEN "AMBIGUOUS" ELSE @]

\* settleAiSpend, for usage that was recorded; it throws before submission and
\* after a release.
Settleable(u) == hold[u] \in {"SUBMITTING", "SUBMITTED", "AMBIGUOUS", "SETTLED"}

SettleAiSpend(p, u, settled, thrown) ==
  IF Settleable(u)
  THEN hold' = [hold EXCEPT ![u] = "SETTLED"] /\ Goto(p, settled)
  ELSE Goto(p, thrown) /\ UNCHANGED hold

\* recordMeteredUsage first inserts the usage, unless it is there, then settles.
RecordUsage(p, u, next) ==
  /\ usage' = usage \cup {u}
  /\ Goto(p, next)

-----------------------------------------------------------------------------
\* Submission (submitCandidate).

CreateCandidate(p) ==
  /\ At(p, "create")
  /\ cand' = [cand EXCEPT !.status = "SUBMITTING"]
  /\ Goto(p, "reserve")
  /\ UNCHANGED <<hold, usage, jobActive, media, task, history>>

ReserveTask(p) ==
  /\ At(p, "reserve")
  /\ ReserveAiSpend(p, "task", "bind", "reject")
  /\ UNCHANGED <<cand, usage, jobActive, media, task, history>>

BindCandidateProviderFunding(p) ==
  /\ At(p, "bind")
  /\ Update(p, cand.sub = "UNRESERVED", [cand EXCEPT !.sub = "RESERVED"], "start", "unbind")
  /\ UNCHANGED <<hold, usage, jobActive, media, task, history>>

\* The hold is given back; that this may fail is ignored.
Unbind(p) ==
  /\ At(p, "unbind")
  /\ ReleaseAiSpend(p, "task", "BEFORE_SUBMISSION", "reject", "reject")
  /\ UNCHANGED <<cand, usage, jobActive, media, task, history>>

Starts == cand.status = "SUBMITTING" /\ cand.sub = "RESERVED"

MarkCandidateSubmissionStarted(p) ==
  /\ At(p, "start")
  /\ Update(p, Starts, [cand EXCEPT !.sub = "SUBMITTING"], "submitting", "unbind")
  /\ UNCHANGED <<hold, usage, jobActive, media, task, history>>

MarkTaskSubmitting(p) ==
  /\ At(p, "submitting")
  /\ MarkAiSpendSubmitting(p, "task", "dispatch", "unbind")
  /\ UNCHANGED <<cand, usage, jobActive, media, task, history>>

\* The provider accepts the task, refuses it, or what it did is not known.
CreateTask(p) ==
  /\ At(p, "dispatch")
  /\ \/ task' = "running" /\ (Goto(p, "submitted") \/ Goto(p, "doubt hold"))
     \/ UNCHANGED task /\ (Goto(p, "refused") \/ Goto(p, "doubt hold"))
  /\ UNCHANGED <<rows, history>>

MarkCandidateSubmitted(p) ==
  /\ At(p, "submitted")
  /\ Update(p, cand.status = "SUBMITTING" /\ cand.sub \in {"SUBMITTING", "AMBIGUOUS"},
            [cand EXCEPT !.status = "SUBMITTED", !.sub = "SUBMITTED", !.known = TRUE, !.dated = TRUE],
            "hold submitted", "doubt hold")
  /\ UNCHANGED <<hold, usage, jobActive, media, task, history>>

MarkTaskSubmitted(p) ==
  /\ At(p, "hold submitted")
  /\ MarkAiSpendSubmitted("task")
  /\ Leave(p)
  /\ UNCHANGED <<cand, usage, jobActive, media, task, history>>

\* If that fails, the hold alone is put in doubt.
DoubtSubmitted(p) ==
  /\ At(p, "doubt submitted")
  /\ MarkAiSpendAmbiguous("task")
  /\ Leave(p)
  /\ UNCHANGED <<cand, usage, jobActive, media, task, history>>

ReleaseRefused(p) ==
  /\ At(p, "refused")
  /\ ReleaseAiSpend(p, "task", "DEFINITIVE_REJECTION", "reject refused", "doubt hold")
  /\ UNCHANGED <<cand, usage, jobActive, media, task, history>>

Rejections == {"reject", "reject refused", "reject stale", "reject unreserved"}

MarkCandidateSubmissionRejected(p) ==
  /\ proc[p].at \in Rejections
  /\ LastUpdate(p, cand.status = "SUBMITTING" /\ cand.sub \in {"UNRESERVED", "RESERVED", "SUBMITTING"},
                [cand EXCEPT !.status = "FAILED", !.sub = "REJECTED", !.recorded = TRUE])
  /\ UNCHANGED <<hold, usage, jobActive, media, task, history>>

\* What the provider did is not known: hold and candidate are kept for
\* reconciliation.
DoubtHold(p) ==
  /\ At(p, "doubt hold")
  /\ MarkAiSpendAmbiguous("task")
  /\ Goto(p, "doubt")
  /\ UNCHANGED <<cand, usage, jobActive, media, task, history>>

MarkCandidateSubmissionAmbiguous(p) ==
  /\ At(p, "doubt")
  /\ LastUpdate(p, /\ cand.status \in {"SUBMITTING", "SUBMITTED", "PROVIDER_SUCCEEDED", "FAILED"}
                   /\ cand.sub \in {"SUBMITTING", "SUBMITTED", "AMBIGUOUS"},
                [cand EXCEPT !.sub = "AMBIGUOUS"])
  /\ UNCHANGED <<hold, usage, jobActive, media, task, history>>

-----------------------------------------------------------------------------
\* Results of the provider.

TaskEnds ==
  /\ task = "running"
  /\ task' \in Results
  /\ UNCHANGED <<rows, proc, history>>

\* A report may leave out the id of the task, which matters as long as the row
\* has none.
Ids == IF cand.known THEN {TRUE} ELSE BOOLEAN

\* What may be said of a task that ended, by a provider that may contradict what
\* it said before, and the credits it reports, if it does.
FinalReports ==
  [state : {"PROVIDER_SUCCEEDED", "FAILED"}, id : Ids, credits : {"none", "within", "above"}]

PendingReports == [state : {"SUBMITTED"}, id : Ids, credits : {"none"}]

\* A report that the task is pending may be overtaken by its end.
Reports == (IF task = "running" \/ Reordered THEN PendingReports ELSE {})
           \cup (IF task \in Results THEN FinalReports ELSE {})

Final(report) == report.state # "SUBMITTED"

\* Variant: only a result is kept, not what became of it.
AppliedStatusReopens(report) ==
  IF cand.status = "PROVIDER_SUCCEEDED" /\ report.state \in {"SUBMITTED", "FAILED"}
  THEN cand.status ELSE report.state

AppliedStatus(report) ==
  IF cand.status \in Ended \/ (cand.status = "PROVIDER_SUCCEEDED" /\ report.state \in {"SUBMITTED", "FAILED"})
  THEN cand.status ELSE report.state

\* The candidate ended otherwise, or at another price, than is reported now.
Contradicts(report) ==
  /\ Final(report)
  /\ \/ cand.status \in {"PROVIDER_SUCCEEDED", "FAILED"} \ {report.state}
     \/ cand.credits # "none" /\ report.credits \notin {"none", cand.credits}

AppliedSubmission(report) ==
  IF cand.sub = "REJECTED" THEN "REJECTED"
  ELSE IF Contradicts(report) THEN "AMBIGUOUS"
  ELSE IF cand.sub = "SETTLED" THEN "SETTLED"
  ELSE IF Final(report) /\ cand.credits = "none" /\ report.credits = "none" THEN "AMBIGUOUS"
  ELSE "SUBMITTED"

\* The row after applyProviderResult, one statement for callbacks and polls.
Applied(report) ==
  [cand EXCEPT !.known = @ \/ report.id,
               !.status = AppliedStatus(report),
               !.sub = AppliedSubmission(report),
               !.credits = IF @ = "none" THEN report.credits ELSE @]

\* How settleCandidateProviderUsage goes on with the row it was given: a task
\* without an id, and credits that are missing or above the ceiling of the hold,
\* are not charged.
Settlement(row) ==
  IF row.recorded \/ row.sub = "REJECTED" THEN "idle"
  ELSE IF row.known /\ row.credits = "within" THEN "record" ELSE "doubt hold"

ApplyProviderResult(p, report) ==
  /\ cand' = Applied(report)
  /\ Goto(p, IF Final(report) THEN Settlement(Applied(report)) ELSE "idle")

HandleKieCallback(k) ==
  /\ At(k, "idle") /\ task # "none" /\ callbacks < MaxCallbacks
  /\ \E report \in Reports : ApplyProviderResult(k, report)
  /\ callbacks' = callbacks + 1
  /\ UNCHANGED <<hold, usage, jobActive, media, task, audits, faults>>

\* A poll of a task that runs changes nothing.
PollCandidate(w) ==
  /\ At(w, "poll")
  /\ IF task \in Results THEN \E report \in FinalReports : ApplyProviderResult(w, report)
     ELSE Leave(w) /\ UNCHANGED cand
  /\ UNCHANGED <<hold, usage, jobActive, media, task, history>>

RecordTask(p) ==
  /\ At(p, "record")
  /\ RecordUsage(p, "task", "charge")
  /\ UNCHANGED <<cand, hold, jobActive, media, task, history>>

\* Variant: that the charge failed is ignored.
ChargeTaskIgnored(p) ==
  /\ At(p, "charge")
  /\ SettleAiSpend(p, "task", "recorded", "recorded") \/ (Goto(p, "recorded") /\ UNCHANGED hold)
  /\ UNCHANGED <<cand, usage, jobActive, media, task, history>>

ChargeTask(p) ==
  /\ At(p, "charge")
  /\ SettleAiSpend(p, "task", "recorded", "idle")
  /\ UNCHANGED <<cand, usage, jobActive, media, task, history>>

MarkCandidateUsageRecorded(p) ==
  /\ At(p, "recorded")
  /\ LastUpdate(p, cand.sub = "SUBMITTED" /\ cand.credits = "within",
                [cand EXCEPT !.recorded = TRUE, !.sub = "SETTLED"])
  /\ UNCHANGED <<hold, usage, jobActive, media, task, history>>

-----------------------------------------------------------------------------
\* What a cycle of a worker finds to do (runPremiumMediaCycle).  How old a row
\* is is not modelled: what can be stale may be.

Found(w, place) ==
  /\ At(w, "idle")
  /\ Goto(w, place)
  /\ UNCHANGED <<rows, task, history>>

\* listStaleSubmittingCandidates: what was not dispatched is cancelled, with its
\* hold if the row that was read has one.
FindStaleSubmission(w) ==
  /\ cand.status = "SUBMITTING"
  /\ \/ cand.sub = "SUBMITTING" /\ Found(w, "doubt hold")
     \/ cand.sub = "RESERVED" /\ Found(w, "cancel")
     \/ cand.sub = "UNRESERVED" /\ Found(w, "reject unreserved")

CancelStale(w) ==
  /\ At(w, "cancel")
  /\ ReleaseAiSpend(w, "task", "BEFORE_SUBMISSION", "reject stale", "doubt cancelled")
  /\ UNCHANGED <<cand, usage, jobActive, media, task, history>>

DoubtCancelled(w) ==
  /\ At(w, "doubt cancelled")
  /\ MarkAiSpendAmbiguous("task")
  /\ Goto(w, "start cancelled")
  /\ UNCHANGED <<cand, usage, jobActive, media, task, history>>

StartCancelled(w) ==
  /\ At(w, "start cancelled")
  /\ Update(w, Starts, [cand EXCEPT !.sub = "SUBMITTING"], "doubt", "doubt")
  /\ UNCHANGED <<hold, usage, jobActive, media, task, history>>

AtProvider == cand.status = "SUBMITTED" /\ cand.sub = "SUBMITTED"

\* listTimedOutProviderCandidates: only what was marked as submitted has a date.
FindTimedOut(w) == AtProvider /\ cand.dated /\ Found(w, "doubt hold")

\* listCandidatesNeedingPoll
FindPoll(w) == AtProvider /\ cand.known /\ Found(w, "poll")

\* Variant: only the usage of tasks that succeeded is looked for.
UnrecordedSucceeded ==
  /\ cand.known /\ ~cand.recorded /\ cand.credits # "none" /\ cand.sub = "SUBMITTED"
  /\ cand.status = "PROVIDER_SUCCEEDED"

\* listUnrecordedProviderUsage
Unrecorded ==
  /\ cand.known /\ ~cand.recorded /\ cand.credits # "none" /\ cand.sub = "SUBMITTED"
  /\ cand.status \in {"PROVIDER_SUCCEEDED", "PROCESSING"} \cup Ended

FindUnrecorded(w) == Unrecorded /\ Found(w, Settlement(cand))

\* listStaleQualitySubmissions
FindStaleAudit(w) ==
  /\ cand.status = "PROCESSING" /\ cand.quality = "SUBMITTING" /\ ~cand.live
  /\ At(w, "idle")
  /\ proc' = [proc EXCEPT ![w] = [Left EXCEPT !.at = "audit doubt hold", !.seen = "stale"]]
  /\ UNCHANGED <<rows, task, history>>

\* What claimCandidateForProcessing looks at: charged, and not leased.
Processable ==
  /\ cand.status \in {"PROVIDER_SUCCEEDED", "PROCESSING"}
  /\ cand.sub = "SETTLED" /\ cand.recorded
  /\ cand.quality \notin {"SUBMITTING", "AMBIGUOUS"}
  /\ cand.worker = NoWorker \/ ~cand.live

Exhausted == Processable /\ cand.attempts >= MaxAttempts /\ cand.quality # "SUBMITTED"

\* claimCandidateForProcessing, one transaction: a candidate that was tried too
\* often fails, another is claimed.
ClaimCandidateForProcessing(w) ==
  /\ At(w, "idle")
  /\ \/ /\ Exhausted
        /\ cand' = [cand EXCEPT !.status = "FAILED", !.worker = NoWorker]
        /\ UNCHANGED proc
     \/ /\ Processable /\ cand.attempts < MaxAttempts
        /\ cand' = [cand EXCEPT !.status = "PROCESSING", !.worker = w, !.live = TRUE,
                                !.attempts = @ + 1]
        /\ proc' = [proc EXCEPT ![w] = [Left EXCEPT !.at = "process", !.seen = cand.quality]]
  /\ UNCHANGED <<hold, usage, jobActive, media, task, history>>

LeaseExpires ==
  /\ cand.live
  /\ cand' = [cand EXCEPT !.live = FALSE]
  /\ UNCHANGED <<hold, usage, jobActive, media, task, proc, history>>

\* The job ends otherwise: another of its candidates failed it, or its product
\* was removed.  Only when a worker is about to look does it matter.
JobEnds ==
  /\ jobActive /\ \E w \in Workers : At(w, "process")
  /\ jobActive' = FALSE
  /\ UNCHANGED <<cand, hold, usage, media, task, proc, history>>

-----------------------------------------------------------------------------
\* The audit and what follows (processCandidate).

Mine(w) == cand.worker = w /\ cand.status = "PROCESSING"

Unleased(row) == [row EXCEPT !.worker = NoWorker, !.live = FALSE]

\* An error while the audit is under way puts it in doubt, before and after that
\* the candidate is retried.
Thrown(w) == IF proc[w].seen \in {"NOT_STARTED", "RESERVED"} THEN "audit doubt hold" ELSE "retry"

NextPlace == [NOT_STARTED |-> "audit reserve", RESERVED |-> "audit start",
              SUBMITTED |-> "audit record", SETTLED |-> "finish"]

\* A job that ended ends the candidate.  A result without media is left: the
\* row is only finished after its audit.
ProcessCandidate(w) ==
  /\ At(w, "process")
  /\ \/ ~jobActive /\ Goto(w, "fail")
     \/ jobActive /\ task # "media" /\ Leave(w)
     \/ jobActive /\ task = "media" /\ Goto(w, NextPlace[proc[w].seen])
  /\ UNCHANGED <<rows, task, history>>

FailClaimedCandidate(w) ==
  /\ At(w, "fail")
  /\ LastUpdate(w, Mine(w), [Unleased(cand) EXCEPT !.status = "FAILED"])
  /\ UNCHANGED <<hold, usage, jobActive, media, task, history>>

ReserveAudit(w) ==
  /\ At(w, "audit reserve")
  /\ ReserveAiSpend(w, "audit", "audit bind", "retry")
  /\ UNCHANGED <<cand, usage, jobActive, media, task, history>>

BindCandidateQualityFunding(w) ==
  /\ At(w, "audit bind")
  /\ Update(w, Mine(w) /\ cand.quality = "NOT_STARTED", [cand EXCEPT !.quality = "RESERVED"],
            "audit start", "audit unbind")
  /\ UNCHANGED <<hold, usage, jobActive, media, task, history>>

UnbindAudit(w) ==
  /\ At(w, "audit unbind")
  /\ ReleaseAiSpend(w, "audit", "BEFORE_SUBMISSION", "retry", "retry")
  /\ UNCHANGED <<cand, usage, jobActive, media, task, history>>

MarkCandidateQualitySubmitting(w) ==
  /\ At(w, "audit start")
  /\ Update(w, Mine(w) /\ cand.quality = "RESERVED", [cand EXCEPT !.quality = "SUBMITTING"],
            "audit submitting", "retry")
  /\ UNCHANGED <<hold, usage, jobActive, media, task, history>>

MarkAuditSubmitting(w) ==
  /\ At(w, "audit submitting")
  /\ MarkAiSpendSubmitting(w, "audit", "audit", "audit unbind")
  /\ UNCHANGED <<cand, usage, jobActive, media, task, history>>

\* Variant: an audit whose answer is lost is asked for again.
EvaluateMediaQualityRetried(w) ==
  /\ At(w, "audit")
  /\ audits' = audits + 1
  /\ UNCHANGED proc \/ proc' = [proc EXCEPT ![w].at = "audit persist", ![w].verdict = "accepted"]
  /\ UNCHANGED <<rows, task, callbacks, faults>>

\* evaluateMediaQuality.  The answer has a verdict and its credits, or it says
\* nothing that can be charged, or the audit is refused.
EvaluateMediaQuality(w) ==
  /\ At(w, "audit")
  /\ \/ /\ audits' = audits + 1
        /\ \/ \E verdict \in {"accepted", "rejected", "above"} :
                proc' = [proc EXCEPT ![w].at = "audit persist", ![w].verdict = verdict]
           \/ Goto(w, "audit doubt hold")
     \/ UNCHANGED audits /\ (Goto(w, "audit refused") \/ Goto(w, "audit doubt hold"))
  /\ UNCHANGED <<rows, task, callbacks, faults>>

PersistCandidateQualityResponse(w) ==
  LET within == proc[w].verdict # "above"
  IN /\ At(w, "audit persist")
     /\ Update(w, Mine(w) /\ cand.quality \in {"SUBMITTING", "SUBMITTED"},
               [cand EXCEPT !.quality = IF within THEN "SUBMITTED" ELSE "AMBIGUOUS",
                            !.accepted = (proc[w].verdict = "accepted")],
               IF within THEN "audit submitted" ELSE "audit doubt hold", "audit doubt hold")
     /\ UNCHANGED <<hold, usage, jobActive, media, task, history>>

MarkAuditSubmitted(w) ==
  /\ At(w, "audit submitted")
  /\ MarkAiSpendSubmitted("audit")
  /\ Goto(w, "audit record")
  /\ UNCHANGED <<cand, usage, jobActive, media, task, history>>

RecordAudit(w) ==
  /\ At(w, "audit record")
  /\ RecordUsage(w, "audit", "audit charge")
  /\ UNCHANGED <<cand, hold, jobActive, media, task, history>>

ChargeAudit(w) ==
  /\ At(w, "audit charge")
  /\ SettleAiSpend(w, "audit", "audit recorded", Thrown(w))
  /\ UNCHANGED <<cand, usage, jobActive, media, task, history>>

MarkCandidateQualitySettled(w) ==
  /\ At(w, "audit recorded")
  /\ Update(w, Mine(w) /\ cand.quality \in {"SUBMITTED", "SETTLED"},
            [cand EXCEPT !.quality = "SETTLED"], "finish", Thrown(w))
  /\ UNCHANGED <<hold, usage, jobActive, media, task, history>>

\* finishSettledQuality: what is accepted is stored first, which may fail.
FinishSettledQuality(w) ==
  /\ At(w, "finish")
  /\ \/ ~cand.accepted
        /\ LastUpdate(w, Mine(w) /\ cand.quality = "SETTLED",
                      [Unleased(cand) EXCEPT !.status = "REJECTED"])
     \/ cand.accepted /\ (Goto(w, "attach") \/ Goto(w, Thrown(w))) /\ UNCHANGED cand
  /\ UNCHANGED <<hold, usage, jobActive, media, task, history>>

\* Variant: media that was attached before is not looked for.
AttachAgain(w) ==
  /\ At(w, "attach")
  /\ IF Mine(w) /\ cand.quality = "SETTLED"
     THEN media' = media + 1 /\ Goto(w, "store")
     ELSE Goto(w, Thrown(w)) /\ UNCHANGED media
  /\ UNCHANGED <<cand, hold, usage, jobActive, task, history>>

\* attachAcceptedCandidate: media that was attached before is found.
AttachAcceptedCandidate(w) ==
  /\ At(w, "attach")
  /\ \/ media > 0 /\ Goto(w, "store") /\ UNCHANGED media
     \/ media = 0 /\ Mine(w) /\ cand.quality = "SETTLED"
        /\ media' = media + 1 /\ Goto(w, "store")
     \/ media = 0 /\ ~(Mine(w) /\ cand.quality = "SETTLED") /\ Goto(w, Thrown(w)) /\ UNCHANGED media
  /\ UNCHANGED <<cand, hold, usage, jobActive, task, history>>

FinishStoredCandidate(w) ==
  /\ At(w, "store")
  /\ LastUpdate(w, Mine(w) /\ cand.quality = "SETTLED", [Unleased(cand) EXCEPT !.status = "ACCEPTED"])
  /\ UNCHANGED <<hold, usage, jobActive, media, task, history>>

\* releaseCandidateForRetry, of the worker's cycle
ReleaseCandidateForRetry(w) ==
  /\ At(w, "retry")
  /\ LastUpdate(w, Mine(w), [Unleased(cand) EXCEPT !.status = "PROVIDER_SUCCEEDED"])
  /\ UNCHANGED <<hold, usage, jobActive, media, task, history>>

ReleaseRefusedAudit(w) ==
  /\ At(w, "audit refused")
  /\ ReleaseAiSpend(w, "audit", "DEFINITIVE_REJECTION", "audit reject", "audit doubt hold")
  /\ UNCHANGED <<cand, usage, jobActive, media, task, history>>

MarkCandidateQualityRejected(w) ==
  /\ At(w, "audit reject")
  /\ LastUpdate(w, Mine(w) /\ cand.quality \in {"RESERVED", "SUBMITTING"},
                [Unleased(cand) EXCEPT !.status = "REJECTED", !.quality = "REJECTED"])
  /\ UNCHANGED <<hold, usage, jobActive, media, task, history>>

DoubtAuditHold(w) ==
  /\ At(w, "audit doubt hold")
  /\ MarkAiSpendAmbiguous("audit")
  /\ Goto(w, "audit doubt")
  /\ UNCHANGED <<cand, usage, jobActive, media, task, history>>

\* For the worker of the candidate, and for whoever found the audit stale.
MarkCandidateQualityAmbiguous(w) ==
  /\ At(w, "audit doubt")
  /\ LastUpdate(w, /\ proc[w].seen = "stale" \/ cand.worker = w
                   /\ cand.status = "PROCESSING"
                   /\ cand.quality \in {"SUBMITTING", "SUBMITTED", "AMBIGUOUS"},
                [Unleased(cand) EXCEPT !.quality = "AMBIGUOUS"])
  /\ UNCHANGED <<hold, usage, jobActive, media, task, history>>

-----------------------------------------------------------------------------
\* Where the catch clauses take a process whose statement fails.  (Some doubts
\* are raised inside a try block: raised again they are as without the error.)
CaughtAt(p) ==
  CASE proc[p].at \in {"reserve", "bind", "unbind"} -> "reject"
    [] proc[p].at = "submitting" -> "unbind"
    [] proc[p].at \in {"submitted", "refused", "reject refused"} -> "doubt hold"
    [] proc[p].at = "hold submitted" -> "doubt submitted"
    [] proc[p].at = "doubt hold" -> "doubt"
    [] proc[p].at \in {"cancel", "reject stale"} -> "doubt cancelled"
    [] proc[p].at \in {"doubt cancelled", "reject unreserved"} -> "start cancelled"
    [] proc[p].at = "start cancelled" -> "doubt"
    [] proc[p].at \in {"process", "fail", "audit reserve", "audit bind", "audit unbind",
                       "audit start", "audit submitting"} -> "retry"
    [] proc[p].at \in {"audit persist", "audit submitted", "audit record", "audit charge",
                       "audit recorded", "finish", "attach", "store"} -> Thrown(p)
    [] proc[p].at \in {"audit refused", "audit reject"} -> "audit doubt hold"
    [] proc[p].at = "audit doubt hold" -> "audit doubt"
    [] proc[p].at = "audit doubt" /\ proc[p].seen # "stale" -> "retry"
    [] OTHER -> "idle"

Fails(p) ==
  /\ p \in Faulty /\ faults < MaxFaults /\ faults' = faults + 1
  /\ ~At(p, "idle")
  /\ IF CaughtAt(p) = "idle" THEN Leave(p) ELSE Goto(p, CaughtAt(p))
  /\ UNCHANGED <<rows, task, audits, callbacks>>

-----------------------------------------------------------------------------
Submitting(p) ==
  \/ CreateCandidate(p) \/ ReserveTask(p) \/ BindCandidateProviderFunding(p) \/ Unbind(p)
  \/ MarkCandidateSubmissionStarted(p) \/ MarkTaskSubmitting(p) \/ CreateTask(p)
  \/ MarkCandidateSubmitted(p) \/ MarkTaskSubmitted(p) \/ DoubtSubmitted(p) \/ ReleaseRefused(p)

Settling(p) ==
  \/ MarkCandidateSubmissionRejected(p) \/ DoubtHold(p) \/ MarkCandidateSubmissionAmbiguous(p)
  \/ RecordTask(p) \/ ChargeTask(p) \/ MarkCandidateUsageRecorded(p)

Recovering(w) == CancelStale(w) \/ DoubtCancelled(w) \/ StartCancelled(w) \/ PollCandidate(w)

Auditing(w) ==
  \/ ProcessCandidate(w) \/ FailClaimedCandidate(w) \/ ReserveAudit(w)
  \/ BindCandidateQualityFunding(w) \/ UnbindAudit(w) \/ MarkCandidateQualitySubmitting(w)
  \/ MarkAuditSubmitting(w) \/ EvaluateMediaQuality(w) \/ PersistCandidateQualityResponse(w)
  \/ MarkAuditSubmitted(w) \/ RecordAudit(w) \/ ChargeAudit(w) \/ MarkCandidateQualitySettled(w)
  \/ FinishSettledQuality(w) \/ AttachAcceptedCandidate(w) \/ FinishStoredCandidate(w)
  \/ ReleaseCandidateForRetry(w) \/ ReleaseRefusedAudit(w) \/ MarkCandidateQualityRejected(w)
  \/ DoubtAuditHold(w) \/ MarkCandidateQualityAmbiguous(w)

Finding(w) ==
  \/ FindStaleSubmission(w) \/ FindPoll(w) \/ FindUnrecorded(w) \/ FindStaleAudit(w)
  \/ ClaimCandidateForProcessing(w)

Step(p) == Submitting(p) \/ Settling(p) \/ Recovering(p) \/ Auditing(p)

Next ==
  \/ \E p \in Procs : Step(p) \/ Fails(p)
  \/ \E w \in Workers : Finding(w) \/ FindTimedOut(w)
  \/ \E k \in Handlers : HandleKieCallback(k)
  \/ TaskEnds \/ LeaseExpires \/ JobEnds

Spec == Init /\ [][Next]_vars

\* The submitter and the handlers may die anywhere, so nothing is assumed of
\* them.  A worker runs a cycle every few seconds, its awaits end, and the
\* provider ends the tasks it accepted.
Fairness ==
  /\ \A w \in Workers \ Mortal : WF_vars(Step(w)) /\ WF_vars(Finding(w))
  /\ WF_vars(TaskEnds)

FairSpec == Spec /\ Fairness
-----------------------------------------------------------------------------
Places ==
  {"idle", "create", "reserve", "bind", "unbind", "start", "submitting", "dispatch", "submitted",
   "hold submitted", "doubt submitted", "refused", "doubt hold", "doubt", "record", "charge", "recorded",
   "poll", "cancel", "doubt cancelled", "start cancelled", "process", "fail", "audit reserve",
   "audit bind", "audit unbind", "audit start", "audit submitting", "audit", "audit persist",
   "audit submitted", "audit record", "audit charge", "audit recorded", "finish", "attach", "store",
   "retry", "audit refused", "audit reject", "audit doubt hold", "audit doubt"} \cup Rejections

CandRows ==
  [status : {"none", "SUBMITTING", "SUBMITTED", "PROVIDER_SUCCEEDED", "PROCESSING"} \cup Ended,
   sub : {"UNRESERVED", "RESERVED", "SUBMITTING", "SUBMITTED", "AMBIGUOUS", "REJECTED", "SETTLED"},
   known : BOOLEAN, dated : BOOLEAN, credits : {"none", "within", "above"}, recorded : BOOLEAN,
   quality : {"NOT_STARTED", "RESERVED", "SUBMITTING", "SUBMITTED", "AMBIGUOUS", "REJECTED", "SETTLED"},
   accepted : BOOLEAN, worker : Workers \cup {NoWorker}, live : BOOLEAN, attempts : 0 .. MaxAttempts]

ProcRows ==
  [at : Places, seen : {"none", "NOT_STARTED", "RESERVED", "SUBMITTED", "SETTLED", "stale"},
   verdict : {"none", "accepted", "rejected", "above"}]

\* Type correctness.
TypeOK ==
  /\ cand \in CandRows
  /\ hold \in [Uses -> HoldStates]
  /\ usage \subseteq Uses
  /\ jobActive \in BOOLEAN
  /\ media \in Nat
  /\ task \in {"none", "running"} \cup Results
  /\ proc \in [Procs -> ProcRows]
  /\ audits \in Nat /\ callbacks \in 0 .. MaxCallbacks /\ faults \in 0 .. MaxFaults

\* Unknown outcomes keep the customer's funds held, and only verified usage
\* settles a hold (docs/autonomous-company-os-audit.md:211): the hold of a task
\* or an audit that may have run is not released, whoever gives up on it, and
\* one that was settled has its usage in the ledger.
HoldsOutlastCalls ==
  /\ task # "none" => hold["task"] # "RELEASED"
  /\ audits > 0 => hold["audit"] # "RELEASED"
  /\ \A u \in Uses : hold[u] = "SETTLED" => u \in usage

\* A candidate that counts as paid was charged, with the credits that the
\* provider reported first and the hold covers: no report, poll or recovery that
\* comes late or contradicts it makes it count as paid otherwise.
SettledIsCharged ==
  /\ cand.sub = "SETTLED" => hold["task"] = "SETTLED" /\ cand.credits = "within"
  /\ cand.quality = "SETTLED" => hold["audit"] = "SETTLED"

\* The audit is paid once, whatever happens to the worker that dispatched it.
AuditedOnce == audits <= 1

\* What is accepted has its media in the catalog once, and was audited and paid.
AcceptedIsWhole ==
  /\ media <= 1
  /\ cand.status = "ACCEPTED" =>
       media = 1 /\ cand.accepted /\ cand.recorded /\ hold = [u \in Uses |-> "SETTLED"]

\* A candidate that ended stays as it ended: no late report and no worker that
\* lost its lease reopens it.
EndedIsFinal == [][cand.status \in Ended => cand'.status = cand.status]_vars

\* A candidate is known to be refused, is charged, or is left to an operator.
Resolved == cand.recorded \/ cand.sub = "AMBIGUOUS"

\* The provider reported on a task whose id is not stored.
Unidentified == cand.sub = "SUBMITTED" /\ ~cand.known

\* Every call of the provider is resolved in the end and for good, although the
\* submitter dies, callbacks do not come, come early or contradict each other,
\* and charging fails.  Only what was reported without an id waits for the
\* submitter or a callback to tell the id, which may not happen.
EveryCallResolves == <>[](cand.status = "none" \/ Resolved \/ Unidentified)

\* A candidate that succeeded ends or is left to an operator.
EveryResultEnds ==
  cand.status = "PROVIDER_SUCCEEDED" ~>
    (cand.status \in Ended \/ "AMBIGUOUS" \in {cand.sub, cand.quality})

\* What counts as free was not run (migration 0097).
FreeWasNotRun == cand.sub = "REJECTED" => task = "none"

\* A candidate that was given up holds no money.
RejectedHoldsNothing == cand.sub = "REJECTED" /\ (\A p \in Procs : At(p, "idle")) => hold["task"] \in {"none", "RELEASED"}
=============================================================================
