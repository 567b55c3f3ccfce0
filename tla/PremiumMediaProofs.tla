------------------------- MODULE PremiumMediaProofs -------------------------
(***************************************************************************)
(* Safety of a premium media candidate for any number of workers, handlers *)
(* of callbacks, callbacks and failing statements: holds outlast the calls *)
(* they pay for, what counts as paid was charged, the audit is dispatched  *)
(* once, what is accepted is whole, and what ended stays ended.            *)
(*                                                                         *)
(* The invariant says, for the places a process can be at, what is true of *)
(* the rows there although others changed them since they were read.  Each *)
(* action has a lemma: its first step says what the action does in the     *)
(* terms of the invariant, the rest follows from that.                     *)
(***************************************************************************)
EXTENDS PremiumMedia, TLAPS

\* A call may have been made under such a hold.
Out == {"SUBMITTING", "SUBMITTED", "AMBIGUOUS", "SETTLED"}

\* Where only the submitter gets to.
Own == {"create", "reserve", "bind", "unbind", "start", "submitting", "dispatch", "submitted",
        "hold submitted", "doubt submitted", "refused", "reject", "reject refused"}

\* About to dispatch the audit, or told that it was refused.
Engaged(p) == proc[p].at \in {"audit", "audit refused"}

\* Who may be where.
PlacesOK ==
  \A p \in Procs :
    /\ proc[p].at \in Own => p = Submitter
    /\ At(p, "process") => proc[p].seen \in {"NOT_STARTED", "RESERVED", "SUBMITTED", "SETTLED"}

\* A task was dispatched under its hold, by the submitter, once.
TaskOK ==
  /\ task # "none" => hold["task"] \in Out
  /\ \A p \in Procs :
       /\ At(p, "create") => cand.status = "none" /\ hold["task"] = "none"
       /\ At(p, "dispatch") => hold["task"] \in Out /\ task = "none"
       /\ At(p, "refused") => task = "none"

\* An audit was dispatched under its hold, by one worker.
AuditOK ==
  /\ audits \in {0, 1}
  /\ audits = 1 => hold["audit"] \in Out
  /\ \A p \in Procs : Engaged(p) => audits = 0 /\ hold["audit"] \in Out
  /\ \A p, q \in Procs : Engaged(p) /\ Engaged(q) => p = q

\* What was settled was recorded first, and marked as paid last.
ChargeOK ==
  /\ \A u \in Uses : hold[u] = "SETTLED" => u \in usage
  /\ \A p \in Procs :
       /\ At(p, "charge") => "task" \in usage
       /\ At(p, "recorded") => hold["task"] = "SETTLED"
       /\ At(p, "audit charge") => "audit" \in usage
       /\ At(p, "audit recorded") => hold["audit"] = "SETTLED"
  /\ SettledIsCharged

\* Nothing is stored or accepted before its task and its audit are paid.
ResultOK ==
  /\ cand.quality = "REJECTED" => cand.status \in Ended
  /\ cand.status \in {"PROCESSING", "ACCEPTED"} => cand.recorded /\ hold["task"] = "SETTLED"
  /\ media \in {0, 1}
  /\ cand.status = "ACCEPTED" => media = 1 /\ cand.accepted /\ cand.quality = "SETTLED"
  /\ \A p \in Procs :
       /\ At(p, "process") /\ proc[p].seen = "SETTLED" => cand.quality = "SETTLED"
       /\ proc[p].at \in {"finish", "attach", "store"} => cand.quality = "SETTLED"
       /\ proc[p].at \in {"attach", "store"} => cand.accepted
       /\ At(p, "store") => media = 1

\* The inductive invariant.
IInv == TypeOK /\ PlacesOK /\ TaskOK /\ AuditOK /\ ChargeOK /\ ResultOK

-----------------------------------------------------------------------------
\* What a step does, in the terms of the invariant.

\* Nobody but p moves.
Moved(p) == proc' \in [Procs -> ProcRows] /\ \A q \in Procs : q # p => proc'[q] = proc[q]

\* p goes there, or is done.
To(p, place) == Moved(p) /\ proc'[p].at = place /\ proc'[p].seen = proc[p].seen

Home(p) == Moved(p) /\ proc'[p].at = "idle"

\* The candidate, in what the invariant says of it.
Row(status, sub, credits, recorded, quality, accepted) ==
  /\ cand' \in CandRows
  /\ cand'.status = status /\ cand'.sub = sub /\ cand'.credits = credits
  /\ cand'.recorded = recorded /\ cand'.quality = quality /\ cand'.accepted = accepted

\* The holds of the task and of the audit.
Holds(t, a) == hold' \in [Uses -> HoldStates] /\ hold'["task"] = t /\ hold'["audit"] = a

\* What ended stays as it ended.
EndedStays == cand.status \in Ended => cand'.status = cand.status

\* Steps between places do what they say.
LEMMA GotoMoves ==
  ASSUME IInv, NEW p \in Procs, NEW place \in Places, Goto(p, place)
  PROVE  To(p, place)
<1>1. proc \in [Procs -> ProcRows]
  BY DEF IInv, TypeOK
<1>2. [proc[p] EXCEPT !.at = place] \in ProcRows
  BY <1>1 DEF ProcRows
<1> QED BY <1>1, <1>2 DEF Goto, Moved, To, ProcRows

LEMMA LeaveMoves ==
  ASSUME IInv, NEW p \in Procs, Leave(p)
  PROVE  Home(p)
<1>1. proc \in [Procs -> ProcRows]
  BY DEF IInv, TypeOK
<1>2. Left \in ProcRows /\ Left.at = "idle"
  BY DEF ProcRows, Left, Places
<1> QED BY <1>1, <1>2 DEF Leave, Moved, Home

\* Places of which the invariant says something.
Guarded == Own \cup {"process", "charge", "recorded", "audit", "audit refused", "audit charge",
                     "audit recorded", "finish", "attach", "store"}

\* A process steps aside where nothing is expected of it.
LEMMA AsideKeeps ==
  ASSUME IInv, NEW p \in Procs, Moved(p),
         \/ proc'[p].at \notin Guarded
         \/ proc'[p].at \in {"reject", "unbind", "doubt submitted"} /\ proc[p].at \in Own,
         UNCHANGED <<cand, hold, usage, jobActive, media, task, audits, callbacks>>,
         faults' \in 0 .. MaxFaults
  PROVE  IInv' /\ EndedStays
<1>1. TypeOK'
  BY DEF IInv, TypeOK, Moved
<1>2. PlacesOK'
  BY DEF IInv, PlacesOK, Guarded, Own, Moved, At
<1>3. TaskOK'
  BY DEF IInv, TaskOK, Guarded, Own, Moved, At
<1>4. AuditOK'
  BY DEF IInv, AuditOK, Engaged, Guarded, Own, Moved, At
<1>5. ChargeOK'
  BY DEF IInv, ChargeOK, SettledIsCharged, Guarded, Own, Moved, At
<1>6. ResultOK'
  BY DEF IInv, ResultOK, Ended, Guarded, Own, Moved, At
<1> QED BY <1>1, <1>2, <1>3, <1>4, <1>5, <1>6 DEF IInv, EndedStays

-----------------------------------------------------------------------------
\* Submission.

LEMMA CreateCandidateKeeps ==
  ASSUME IInv, NEW p \in Procs, CreateCandidate(p)
  PROVE  IInv' /\ EndedStays
<1>1. /\ Row("SUBMITTING", cand.sub, cand.credits, cand.recorded, cand.quality, cand.accepted)
      /\ To(p, "reserve")
  BY GotoMoves DEF CreateCandidate, Places, Row, CandRows, Ended, IInv, TypeOK
<1>2. At(p, "create") /\ UNCHANGED <<hold, usage, media, task, audits, jobActive, callbacks, faults>>
  BY DEF CreateCandidate, history, rows
<1>3. TypeOK'
  BY <1>1, <1>2 DEF IInv, TypeOK, Row, To, Moved, Uses, Results
<1>4. (PlacesOK /\ TaskOK /\ AuditOK)'
  BY <1>1, <1>2 DEF IInv, PlacesOK, Own, TaskOK, Out, AuditOK, Engaged, Row, To, Moved, At
<1>5. (ChargeOK /\ ResultOK)'
  BY <1>1, <1>2 DEF IInv, ChargeOK, SettledIsCharged, Uses, ResultOK, Ended, TaskOK, Row, To, Moved,
     At
<1>6. EndedStays
  BY <1>1, <1>2 DEF EndedStays, Row, IInv, TaskOK, Ended
<1> QED BY <1>3, <1>4, <1>5, <1>6 DEF IInv

LEMMA ReserveTaskKeeps ==
  ASSUME IInv, NEW p \in Procs, ReserveTask(p)
  PROVE  IInv' /\ EndedStays
<1>1. \/ /\ Holds(IF hold["task"] = "none" THEN "RESERVED" ELSE hold["task"], hold["audit"])
         /\ To(p, "bind")
      \/ hold' = hold /\ To(p, "reject")
  <2>1. Goto(p, "bind") => To(p, "bind")
    BY GotoMoves DEF Places, Rejections
  <2>2. Goto(p, "reject") => To(p, "reject")
    BY GotoMoves DEF Places, Rejections
  <2>3. hold' = [hold EXCEPT !["task"] = IF @ = "none" THEN "RESERVED" ELSE @]
         => Holds(IF hold["task"] = "none" THEN "RESERVED" ELSE hold["task"], hold["audit"])
    BY DEF IInv, TypeOK, Holds, HoldStates, Uses
  <2> QED BY <2>1, <2>2, <2>3 DEF ReserveTask, ReserveAiSpend
<1>2. At(p, "reserve") /\ UNCHANGED <<cand, usage, media, task, audits, jobActive, callbacks, faults>>
  BY DEF ReserveTask, history, rows
<1>3. TypeOK'
  BY <1>1, <1>2 DEF IInv, TypeOK, Holds, To, Moved, Uses, Results
<1>4. (PlacesOK /\ TaskOK /\ AuditOK)'
  BY <1>1, <1>2 DEF IInv, PlacesOK, Own, TaskOK, Out, AuditOK, Engaged, Holds, To, Moved, At
<1>5. (ChargeOK /\ ResultOK)'
  BY <1>1, <1>2 DEF IInv, ChargeOK, SettledIsCharged, Uses, ResultOK, Ended, Holds, To, Moved, At
<1>6. EndedStays
  BY <1>1, <1>2 DEF EndedStays
<1> QED BY <1>3, <1>4, <1>5, <1>6 DEF IInv

LEMMA BindCandidateProviderFundingKeeps ==
  ASSUME IInv, NEW p \in Procs, BindCandidateProviderFunding(p)
  PROVE  IInv' /\ EndedStays
<1>1. \/ /\ cand.sub = "UNRESERVED"
         /\ Row(cand.status, "RESERVED", cand.credits, cand.recorded, cand.quality, cand.accepted)
         /\ To(p, "start")
      \/ cand' = cand /\ To(p, "unbind")
  <2>1. Goto(p, "start") => To(p, "start")
    BY GotoMoves DEF Places, Rejections
  <2>2. Goto(p, "unbind") => To(p, "unbind")
    BY GotoMoves DEF Places, Rejections
  <2>3. cand' = [cand EXCEPT !.sub = "RESERVED"]
         => Row(cand.status, "RESERVED", cand.credits, cand.recorded, cand.quality, cand.accepted)
    BY DEF IInv, TypeOK, Row, CandRows, Ended, Unleased
  <2> QED BY <2>1, <2>2, <2>3 DEF BindCandidateProviderFunding, Update
<1>2. At(p, "bind") /\ UNCHANGED <<hold, usage, media, task, audits, jobActive, callbacks, faults>>
  BY DEF BindCandidateProviderFunding, history, rows
<1>3. TypeOK'
  BY <1>1, <1>2 DEF IInv, TypeOK, Row, To, Moved, Uses, Results
<1>4. (PlacesOK /\ TaskOK /\ AuditOK)'
  BY <1>1, <1>2 DEF IInv, PlacesOK, Own, TaskOK, Out, AuditOK, Engaged, Row, To, Moved, At
<1>5. (ChargeOK /\ ResultOK)'
  BY <1>1, <1>2 DEF IInv, ChargeOK, SettledIsCharged, Uses, ResultOK, Ended, Row, To, Moved, At
<1>6. EndedStays
  BY <1>1, <1>2 DEF EndedStays, Row, Starts, Ended
<1> QED BY <1>3, <1>4, <1>5, <1>6 DEF IInv

LEMMA UnbindKeeps ==
  ASSUME IInv, NEW p \in Procs, Unbind(p)
  PROVE  IInv' /\ EndedStays
<1>1. \/ /\ hold["task"] \in {"RESERVED", "RELEASED"}
         /\ Holds("RELEASED", hold["audit"])
         /\ To(p, "reject")
      \/ hold' = hold /\ To(p, "reject")
  <2>1. Goto(p, "reject") => To(p, "reject")
    BY GotoMoves DEF Places, Rejections
  <2>2. hold' = [hold EXCEPT !["task"] = "RELEASED"]
         => Holds("RELEASED", hold["audit"])
    BY DEF IInv, TypeOK, Holds, HoldStates, Uses
  <2> QED BY <2>1, <2>2 DEF Unbind, ReleaseAiSpend, Releasable
<1>2. At(p, "unbind") /\ UNCHANGED <<cand, usage, media, task, audits, jobActive, callbacks, faults>>
  BY DEF Unbind, history, rows
<1>3. TypeOK'
  BY <1>1, <1>2 DEF IInv, TypeOK, Holds, To, Moved, Uses, Results
<1>4. (PlacesOK /\ TaskOK /\ AuditOK)'
  BY <1>1, <1>2 DEF IInv, PlacesOK, Own, TaskOK, Out, AuditOK, Engaged, Holds, To, Moved, At
<1>5. (ChargeOK /\ ResultOK)'
  BY <1>1, <1>2 DEF IInv, ChargeOK, SettledIsCharged, Uses, ResultOK, Ended, Holds, To, Moved, At
<1>6. EndedStays
  BY <1>1, <1>2 DEF EndedStays
<1> QED BY <1>3, <1>4, <1>5, <1>6 DEF IInv

LEMMA MarkCandidateSubmissionStartedKeeps ==
  ASSUME IInv, NEW p \in Procs, MarkCandidateSubmissionStarted(p)
  PROVE  IInv' /\ EndedStays
<1>1. \/ /\ Starts
         /\ Row(cand.status, "SUBMITTING", cand.credits, cand.recorded, cand.quality, cand.accepted)
         /\ To(p, "submitting")
      \/ cand' = cand /\ To(p, "unbind")
  <2>1. Goto(p, "submitting") => To(p, "submitting")
    BY GotoMoves DEF Places, Rejections
  <2>2. Goto(p, "unbind") => To(p, "unbind")
    BY GotoMoves DEF Places, Rejections
  <2>3. cand' = [cand EXCEPT !.sub = "SUBMITTING"]
         => Row(cand.status, "SUBMITTING", cand.credits, cand.recorded, cand.quality, cand.accepted)
    BY DEF IInv, TypeOK, Row, CandRows, Ended, Unleased
  <2> QED BY <2>1, <2>2, <2>3 DEF MarkCandidateSubmissionStarted, Update, Starts
<1>2. At(p, "start") /\ UNCHANGED <<hold, usage, media, task, audits, jobActive, callbacks, faults>>
  BY DEF MarkCandidateSubmissionStarted, history, rows
<1>3. TypeOK'
  BY <1>1, <1>2 DEF IInv, TypeOK, Row, To, Moved, Uses, Results
<1>4. (PlacesOK /\ TaskOK /\ AuditOK)'
  BY <1>1, <1>2 DEF IInv, PlacesOK, Own, TaskOK, Out, Starts, AuditOK, Engaged, Row, To, Moved, At
<1>5. (ChargeOK /\ ResultOK)'
  BY <1>1, <1>2 DEF IInv, ChargeOK, SettledIsCharged, Uses, ResultOK, Ended, Starts, Row, To, Moved,
     At
<1>6. EndedStays
  BY <1>1, <1>2 DEF EndedStays, Row, Starts, Ended
<1> QED BY <1>3, <1>4, <1>5, <1>6 DEF IInv

LEMMA MarkTaskSubmittingKeeps ==
  ASSUME IInv, NEW p \in Procs, MarkTaskSubmitting(p)
  PROVE  IInv' /\ EndedStays
<1>1. \/ hold["task"] = "RESERVED" /\ Holds("SUBMITTING", hold["audit"]) /\ To(p, "dispatch")
      \/ hold' = hold /\ To(p, "unbind")
  BY GotoMoves DEF MarkTaskSubmitting, MarkAiSpendSubmitting, Places, Holds, HoldStates, Uses, IInv,
     TypeOK
<1>2. At(p, "submitting") /\ UNCHANGED <<cand, usage, media, task, audits, jobActive, callbacks, faults>>
  BY DEF MarkTaskSubmitting, history, rows
<1>3. TypeOK'
  BY <1>1, <1>2 DEF IInv, TypeOK, Holds, To, Moved, Uses, Results
<1>4. (PlacesOK /\ TaskOK /\ AuditOK)'
  BY <1>1, <1>2 DEF IInv, PlacesOK, Own, TaskOK, Out, AuditOK, Engaged, Holds, To, Moved, At
<1>5. (ChargeOK /\ ResultOK)'
  BY <1>1, <1>2 DEF IInv, ChargeOK, SettledIsCharged, Uses, ResultOK, Ended, Holds, To, Moved, At
<1>6. EndedStays
  BY <1>1, <1>2 DEF EndedStays
<1> QED BY <1>3, <1>4, <1>5, <1>6 DEF IInv

LEMMA CreateTaskKeeps ==
  ASSUME IInv, NEW p \in Procs, CreateTask(p)
  PROVE  IInv' /\ EndedStays
<1>1. \/ task' = "running" /\ To(p, "submitted")
      \/ task' \in {"running", task} /\ To(p, "doubt hold")
      \/ task' = task /\ To(p, "refused")
  BY GotoMoves DEF CreateTask, Places
<1>2. At(p, "dispatch") /\ UNCHANGED <<cand, hold, usage, media, audits, jobActive, callbacks, faults>>
  BY DEF CreateTask, history, rows
<1>3. TypeOK'
  BY <1>1, <1>2 DEF IInv, TypeOK, To, Moved, Uses, Results
<1>4. (PlacesOK /\ TaskOK /\ AuditOK)'
  BY <1>1, <1>2 DEF IInv, PlacesOK, Own, TaskOK, Out, AuditOK, Engaged, To, Moved, At
<1>5. (ChargeOK /\ ResultOK)'
  BY <1>1, <1>2 DEF IInv, ChargeOK, SettledIsCharged, Uses, ResultOK, Ended, To, Moved, At
<1>6. EndedStays
  BY <1>1, <1>2 DEF EndedStays
<1> QED BY <1>3, <1>4, <1>5, <1>6 DEF IInv

LEMMA MarkCandidateSubmittedKeeps ==
  ASSUME IInv, NEW p \in Procs, MarkCandidateSubmitted(p)
  PROVE  IInv' /\ EndedStays
<1>1. \/ /\ cand.status = "SUBMITTING"
         /\ Row("SUBMITTED", "SUBMITTED", cand.credits, cand.recorded, cand.quality, cand.accepted)
         /\ To(p, "hold submitted")
      \/ cand' = cand /\ To(p, "doubt hold")
  <2>1. Goto(p, "hold submitted") => To(p, "hold submitted")
    BY GotoMoves DEF Places, Rejections
  <2>2. Goto(p, "doubt hold") => To(p, "doubt hold")
    BY GotoMoves DEF Places, Rejections
  <2>3. cand' = [cand EXCEPT !.status = "SUBMITTED", !.sub = "SUBMITTED", !.known = TRUE, !.dated = TRUE]
         => Row("SUBMITTED", "SUBMITTED", cand.credits, cand.recorded, cand.quality, cand.accepted)
    BY DEF IInv, TypeOK, Row, CandRows, Ended, Unleased
  <2> QED BY <2>1, <2>2, <2>3 DEF MarkCandidateSubmitted, Update
<1>2. At(p, "submitted") /\ UNCHANGED <<hold, usage, media, task, audits, jobActive, callbacks, faults>>
  BY DEF MarkCandidateSubmitted, history, rows
<1>3. TypeOK'
  BY <1>1, <1>2 DEF IInv, TypeOK, Row, To, Moved, Uses, Results
<1>4. (PlacesOK /\ TaskOK /\ AuditOK)'
  BY <1>1, <1>2 DEF IInv, PlacesOK, Own, TaskOK, Out, AuditOK, Engaged, Row, To, Moved, At
<1>5. (ChargeOK /\ ResultOK)'
  BY <1>1, <1>2 DEF IInv, ChargeOK, SettledIsCharged, Uses, ResultOK, Ended, Row, To, Moved, At
<1>6. EndedStays
  BY <1>1, <1>2 DEF EndedStays, Row, Starts, Ended
<1> QED BY <1>3, <1>4, <1>5, <1>6 DEF IInv

LEMMA MarkTaskSubmittedKeeps ==
  ASSUME IInv, NEW p \in Procs, MarkTaskSubmitted(p)
  PROVE  IInv' /\ EndedStays
<1>1. /\ Holds(IF hold["task"] = "SUBMITTING" THEN "SUBMITTED" ELSE hold["task"], hold["audit"])
      /\ Home(p)
  BY LeaveMoves DEF MarkTaskSubmitted, MarkAiSpendSubmitted, Places, Holds, HoldStates, Uses, IInv,
     TypeOK
<1>2. /\ At(p, "hold submitted")
      /\ UNCHANGED <<cand, usage, media, task, audits, jobActive, callbacks, faults>>
  BY DEF MarkTaskSubmitted, history, rows
<1>3. TypeOK'
  BY <1>1, <1>2 DEF IInv, TypeOK, Holds, Home, Moved, Uses, Results
<1>4. (PlacesOK /\ TaskOK /\ AuditOK)'
  BY <1>1, <1>2 DEF IInv, PlacesOK, Own, TaskOK, Out, AuditOK, Engaged, Holds, Home, Moved, At
<1>5. (ChargeOK /\ ResultOK)'
  BY <1>1, <1>2 DEF IInv, ChargeOK, SettledIsCharged, Uses, ResultOK, Ended, Holds, Home, Moved, At
<1>6. EndedStays
  BY <1>1, <1>2 DEF EndedStays
<1> QED BY <1>3, <1>4, <1>5, <1>6 DEF IInv

LEMMA DoubtSubmittedKeeps ==
  ASSUME IInv, NEW p \in Procs, DoubtSubmitted(p)
  PROVE  IInv' /\ EndedStays
<1>1. /\ Holds(IF hold["task"] \in {"SUBMITTING", "SUBMITTED"} THEN "AMBIGUOUS" ELSE hold["task"], hold["audit"])
      /\ Home(p)
  BY LeaveMoves DEF DoubtSubmitted, MarkAiSpendAmbiguous, Places, Holds, HoldStates, Uses, IInv,
     TypeOK
<1>2. /\ At(p, "doubt submitted")
      /\ UNCHANGED <<cand, usage, media, task, audits, jobActive, callbacks, faults>>
  BY DEF DoubtSubmitted, history, rows
<1>3. TypeOK'
  BY <1>1, <1>2 DEF IInv, TypeOK, Holds, Home, Moved, Uses, Results
<1>4. (PlacesOK /\ TaskOK /\ AuditOK)'
  BY <1>1, <1>2 DEF IInv, PlacesOK, Own, TaskOK, Out, AuditOK, Engaged, Holds, Home, Moved, At
<1>5. (ChargeOK /\ ResultOK)'
  BY <1>1, <1>2 DEF IInv, ChargeOK, SettledIsCharged, Uses, ResultOK, Ended, Holds, Home, Moved, At
<1>6. EndedStays
  BY <1>1, <1>2 DEF EndedStays
<1> QED BY <1>3, <1>4, <1>5, <1>6 DEF IInv

LEMMA ReleaseRefusedKeeps ==
  ASSUME IInv, NEW p \in Procs, ReleaseRefused(p)
  PROVE  IInv' /\ EndedStays
<1>1. \/ /\ hold["task"] \in {"SUBMITTING", "RELEASED"}
         /\ Holds("RELEASED", hold["audit"])
         /\ To(p, "reject refused")
      \/ hold' = hold /\ To(p, "doubt hold")
  <2>1. Goto(p, "reject refused") => To(p, "reject refused")
    BY GotoMoves DEF Places, Rejections
  <2>2. Goto(p, "doubt hold") => To(p, "doubt hold")
    BY GotoMoves DEF Places, Rejections
  <2>3. hold' = [hold EXCEPT !["task"] = "RELEASED"]
         => Holds("RELEASED", hold["audit"])
    BY DEF IInv, TypeOK, Holds, HoldStates, Uses
  <2> QED BY <2>1, <2>2, <2>3 DEF ReleaseRefused, ReleaseAiSpend, Releasable
<1>2. At(p, "refused") /\ UNCHANGED <<cand, usage, media, task, audits, jobActive, callbacks, faults>>
  BY DEF ReleaseRefused, history, rows
<1>3. TypeOK'
  BY <1>1, <1>2 DEF IInv, TypeOK, Holds, To, Moved, Uses, Results
<1>4. (PlacesOK /\ TaskOK /\ AuditOK)'
  BY <1>1, <1>2 DEF IInv, PlacesOK, Own, TaskOK, Out, AuditOK, Engaged, Holds, To, Moved, At
<1>5. (ChargeOK /\ ResultOK)'
  BY <1>1, <1>2 DEF IInv, ChargeOK, SettledIsCharged, Uses, ResultOK, Ended, Holds, To, Moved, At
<1>6. EndedStays
  BY <1>1, <1>2 DEF EndedStays
<1> QED BY <1>3, <1>4, <1>5, <1>6 DEF IInv

-----------------------------------------------------------------------------
\* Settlement of the task.

LEMMA MarkCandidateSubmissionRejectedKeeps ==
  ASSUME IInv, NEW p \in Procs, MarkCandidateSubmissionRejected(p)
  PROVE  IInv' /\ EndedStays
<1>1. \/ /\ cand.status = "SUBMITTING"
         /\ Row("FAILED", "REJECTED", cand.credits, TRUE, cand.quality, cand.accepted)
         /\ Home(p)
      \/ cand' = cand /\ Home(p)
  BY LeaveMoves DEF MarkCandidateSubmissionRejected, LastUpdate, Rejections, Places, Row, CandRows,
     Ended, IInv, TypeOK
<1>2. /\ proc[p].at \in Rejections
      /\ UNCHANGED <<hold, usage, media, task, audits, jobActive, callbacks, faults>>
  BY DEF MarkCandidateSubmissionRejected, history, rows
<1>3. TypeOK'
  BY <1>1, <1>2 DEF IInv, TypeOK, Row, Home, Moved, Uses, Results
<1>4. (PlacesOK /\ TaskOK /\ AuditOK)'
  BY <1>1, <1>2 DEF IInv, PlacesOK, Own, Rejections, TaskOK, Out, AuditOK, Engaged, Row, Home,
     Moved, At
<1>5. (ChargeOK /\ ResultOK)'
  BY <1>1, <1>2 DEF IInv, ChargeOK, SettledIsCharged, Uses, ResultOK, Ended, Rejections, Row, Home,
     Moved, At
<1>6. EndedStays
  BY <1>1, <1>2 DEF EndedStays, Row, Starts, Ended
<1> QED BY <1>3, <1>4, <1>5, <1>6 DEF IInv

LEMMA DoubtHoldKeeps ==
  ASSUME IInv, NEW p \in Procs, DoubtHold(p)
  PROVE  IInv' /\ EndedStays
<1>1. /\ Holds(IF hold["task"] \in {"SUBMITTING", "SUBMITTED"} THEN "AMBIGUOUS" ELSE hold["task"], hold["audit"])
      /\ To(p, "doubt")
  BY GotoMoves DEF DoubtHold, MarkAiSpendAmbiguous, Places, Holds, HoldStates, Uses, IInv, TypeOK
<1>2. At(p, "doubt hold") /\ UNCHANGED <<cand, usage, media, task, audits, jobActive, callbacks, faults>>
  BY DEF DoubtHold, history, rows
<1>3. TypeOK'
  BY <1>1, <1>2 DEF IInv, TypeOK, Holds, To, Moved, Uses, Results
<1>4. (PlacesOK /\ TaskOK /\ AuditOK)'
  BY <1>1, <1>2 DEF IInv, PlacesOK, Own, TaskOK, Out, AuditOK, Engaged, Holds, To, Moved, At
<1>5. (ChargeOK /\ ResultOK)'
  BY <1>1, <1>2 DEF IInv, ChargeOK, SettledIsCharged, Uses, ResultOK, Ended, Holds, To, Moved, At
<1>6. EndedStays
  BY <1>1, <1>2 DEF EndedStays
<1> QED BY <1>3, <1>4, <1>5, <1>6 DEF IInv

LEMMA MarkCandidateSubmissionAmbiguousKeeps ==
  ASSUME IInv, NEW p \in Procs, MarkCandidateSubmissionAmbiguous(p)
  PROVE  IInv' /\ EndedStays
<1>1. \/ /\ Row(cand.status, "AMBIGUOUS", cand.credits, cand.recorded, cand.quality, cand.accepted)
         /\ Home(p)
      \/ cand' = cand /\ Home(p)
  BY LeaveMoves DEF MarkCandidateSubmissionAmbiguous, LastUpdate, Places, Row, CandRows, Ended,
     IInv, TypeOK
<1>2. At(p, "doubt") /\ UNCHANGED <<hold, usage, media, task, audits, jobActive, callbacks, faults>>
  BY DEF MarkCandidateSubmissionAmbiguous, history, rows
<1>3. TypeOK'
  BY <1>1, <1>2 DEF IInv, TypeOK, Row, Home, Moved, Uses, Results
<1>4. (PlacesOK /\ TaskOK /\ AuditOK)'
  BY <1>1, <1>2 DEF IInv, PlacesOK, Own, TaskOK, Out, AuditOK, Engaged, Row, Home, Moved, At
<1>5. (ChargeOK /\ ResultOK)'
  BY <1>1, <1>2 DEF IInv, ChargeOK, SettledIsCharged, Uses, ResultOK, Ended, Row, Home, Moved, At
<1>6. EndedStays
  BY <1>1, <1>2 DEF EndedStays, Row
<1> QED BY <1>3, <1>4, <1>5, <1>6 DEF IInv

LEMMA RecordTaskKeeps ==
  ASSUME IInv, NEW p \in Procs, RecordTask(p)
  PROVE  IInv' /\ EndedStays
<1>1. usage' = usage \cup {"task"} /\ To(p, "charge")
  BY GotoMoves DEF RecordTask, RecordUsage, Places
<1>2. At(p, "record") /\ UNCHANGED <<cand, hold, media, task, audits, jobActive, callbacks, faults>>
  BY DEF RecordTask, history, rows
<1>3. TypeOK'
  BY <1>1, <1>2 DEF IInv, TypeOK, To, Moved, Uses, Results
<1>4. (PlacesOK /\ TaskOK /\ AuditOK)'
  BY <1>1, <1>2 DEF IInv, PlacesOK, Own, TaskOK, Out, AuditOK, Engaged, To, Moved, At
<1>5. (ChargeOK /\ ResultOK)'
  BY <1>1, <1>2 DEF IInv, ChargeOK, SettledIsCharged, Uses, ResultOK, Ended, To, Moved, At
<1>6. EndedStays
  BY <1>1, <1>2 DEF EndedStays
<1> QED BY <1>3, <1>4, <1>5, <1>6 DEF IInv

LEMMA ChargeTaskKeeps ==
  ASSUME IInv, NEW p \in Procs, ChargeTask(p)
  PROVE  IInv' /\ EndedStays
<1>1. \/ /\ hold["task"] \in {"SUBMITTING", "SUBMITTED", "AMBIGUOUS", "SETTLED"}
         /\ Holds("SETTLED", hold["audit"])
         /\ To(p, "recorded")
      \/ hold' = hold /\ To(p, "idle")
  BY GotoMoves DEF ChargeTask, SettleAiSpend, Settleable, Places, Holds, HoldStates, Uses, IInv,
     TypeOK
<1>2. At(p, "charge") /\ UNCHANGED <<cand, usage, media, task, audits, jobActive, callbacks, faults>>
  BY DEF ChargeTask, history, rows
<1>3. TypeOK'
  BY <1>1, <1>2 DEF IInv, TypeOK, Holds, To, Moved, Uses, Results
<1>4. (PlacesOK /\ TaskOK /\ AuditOK)'
  BY <1>1, <1>2 DEF IInv, PlacesOK, Own, TaskOK, Out, AuditOK, Engaged, Holds, To, Moved, At
<1>5. (ChargeOK /\ ResultOK)'
  BY <1>1, <1>2 DEF IInv, ChargeOK, SettledIsCharged, Uses, ResultOK, Ended, Holds, To, Moved, At
<1>6. EndedStays
  BY <1>1, <1>2 DEF EndedStays
<1> QED BY <1>3, <1>4, <1>5, <1>6 DEF IInv

LEMMA MarkCandidateUsageRecordedKeeps ==
  ASSUME IInv, NEW p \in Procs, MarkCandidateUsageRecorded(p)
  PROVE  IInv' /\ EndedStays
<1>1. \/ /\ cand.credits = "within"
         /\ Row(cand.status, "SETTLED", cand.credits, TRUE, cand.quality, cand.accepted)
         /\ Home(p)
      \/ cand' = cand /\ Home(p)
  BY LeaveMoves DEF MarkCandidateUsageRecorded, LastUpdate, Places, Row, CandRows, Ended, IInv,
     TypeOK
<1>2. At(p, "recorded") /\ UNCHANGED <<hold, usage, media, task, audits, jobActive, callbacks, faults>>
  BY DEF MarkCandidateUsageRecorded, history, rows
<1>3. TypeOK'
  BY <1>1, <1>2 DEF IInv, TypeOK, Row, Home, Moved, Uses, Results
<1>4. (PlacesOK /\ TaskOK /\ AuditOK)'
  BY <1>1, <1>2 DEF IInv, PlacesOK, Own, TaskOK, Out, AuditOK, Engaged, Row, Home, Moved, At
<1>5. (ChargeOK /\ ResultOK)'
  BY <1>1, <1>2 DEF IInv, ChargeOK, SettledIsCharged, Uses, ResultOK, Ended, Row, Home, Moved, At
<1>6. EndedStays
  BY <1>1, <1>2 DEF EndedStays, Row
<1> QED BY <1>3, <1>4, <1>5, <1>6 DEF IInv

-----------------------------------------------------------------------------
\* Recovery of stale submissions.

LEMMA CancelStaleKeeps ==
  ASSUME IInv, NEW p \in Procs, CancelStale(p)
  PROVE  IInv' /\ EndedStays
<1>1. \/ /\ hold["task"] \in {"RESERVED", "RELEASED"}
         /\ Holds("RELEASED", hold["audit"])
         /\ To(p, "reject stale")
      \/ hold' = hold /\ To(p, "doubt cancelled")
  <2>1. Goto(p, "reject stale") => To(p, "reject stale")
    BY GotoMoves DEF Places, Rejections
  <2>2. Goto(p, "doubt cancelled") => To(p, "doubt cancelled")
    BY GotoMoves DEF Places, Rejections
  <2>3. hold' = [hold EXCEPT !["task"] = "RELEASED"]
         => Holds("RELEASED", hold["audit"])
    BY DEF IInv, TypeOK, Holds, HoldStates, Uses
  <2> QED BY <2>1, <2>2, <2>3 DEF CancelStale, ReleaseAiSpend, Releasable
<1>2. At(p, "cancel") /\ UNCHANGED <<cand, usage, media, task, audits, jobActive, callbacks, faults>>
  BY DEF CancelStale, history, rows
<1>3. TypeOK'
  BY <1>1, <1>2 DEF IInv, TypeOK, Holds, To, Moved, Uses, Results
<1>4. (PlacesOK /\ TaskOK /\ AuditOK)'
  BY <1>1, <1>2 DEF IInv, PlacesOK, Own, TaskOK, Out, AuditOK, Engaged, Holds, To, Moved, At
<1>5. (ChargeOK /\ ResultOK)'
  BY <1>1, <1>2 DEF IInv, ChargeOK, SettledIsCharged, Uses, ResultOK, Ended, Holds, To, Moved, At
<1>6. EndedStays
  BY <1>1, <1>2 DEF EndedStays
<1> QED BY <1>3, <1>4, <1>5, <1>6 DEF IInv

LEMMA DoubtCancelledKeeps ==
  ASSUME IInv, NEW p \in Procs, DoubtCancelled(p)
  PROVE  IInv' /\ EndedStays
<1>1. /\ Holds(IF hold["task"] \in {"SUBMITTING", "SUBMITTED"} THEN "AMBIGUOUS" ELSE hold["task"], hold["audit"])
      /\ To(p, "start cancelled")
  BY GotoMoves DEF DoubtCancelled, MarkAiSpendAmbiguous, Places, Holds, HoldStates, Uses, IInv,
     TypeOK
<1>2. /\ At(p, "doubt cancelled")
      /\ UNCHANGED <<cand, usage, media, task, audits, jobActive, callbacks, faults>>
  BY DEF DoubtCancelled, history, rows
<1>3. TypeOK'
  BY <1>1, <1>2 DEF IInv, TypeOK, Holds, To, Moved, Uses, Results
<1>4. (PlacesOK /\ TaskOK /\ AuditOK)'
  BY <1>1, <1>2 DEF IInv, PlacesOK, Own, TaskOK, Out, AuditOK, Engaged, Holds, To, Moved, At
<1>5. (ChargeOK /\ ResultOK)'
  BY <1>1, <1>2 DEF IInv, ChargeOK, SettledIsCharged, Uses, ResultOK, Ended, Holds, To, Moved, At
<1>6. EndedStays
  BY <1>1, <1>2 DEF EndedStays
<1> QED BY <1>3, <1>4, <1>5, <1>6 DEF IInv

LEMMA StartCancelledKeeps ==
  ASSUME IInv, NEW p \in Procs, StartCancelled(p)
  PROVE  IInv' /\ EndedStays
<1>1. \/ /\ Starts
         /\ Row(cand.status, "SUBMITTING", cand.credits, cand.recorded, cand.quality, cand.accepted)
         /\ To(p, "doubt")
      \/ cand' = cand /\ To(p, "doubt")
  <2>1. Goto(p, "doubt") => To(p, "doubt")
    BY GotoMoves DEF Places, Rejections
  <2>2. cand' = [cand EXCEPT !.sub = "SUBMITTING"]
         => Row(cand.status, "SUBMITTING", cand.credits, cand.recorded, cand.quality, cand.accepted)
    BY DEF IInv, TypeOK, Row, CandRows, Ended, Unleased
  <2> QED BY <2>1, <2>2 DEF StartCancelled, Update, Starts
<1>2. /\ At(p, "start cancelled")
      /\ UNCHANGED <<hold, usage, media, task, audits, jobActive, callbacks, faults>>
  BY DEF StartCancelled, history, rows
<1>3. TypeOK'
  BY <1>1, <1>2 DEF IInv, TypeOK, Row, To, Moved, Uses, Results
<1>4. (PlacesOK /\ TaskOK /\ AuditOK)'
  BY <1>1, <1>2 DEF IInv, PlacesOK, Own, TaskOK, Out, Starts, AuditOK, Engaged, Row, To, Moved, At
<1>5. (ChargeOK /\ ResultOK)'
  BY <1>1, <1>2 DEF IInv, ChargeOK, SettledIsCharged, Uses, ResultOK, Ended, Starts, Row, To, Moved,
     At
<1>6. EndedStays
  BY <1>1, <1>2 DEF EndedStays, Row, Starts, Ended
<1> QED BY <1>3, <1>4, <1>5, <1>6 DEF IInv

-----------------------------------------------------------------------------
\* The audit and what follows.

LEMMA ProcessCandidateKeeps ==
  ASSUME IInv, NEW p \in Procs, ProcessCandidate(p)
  PROVE  IInv' /\ EndedStays
<1>1. \/ To(p, "fail")
      \/ Home(p)
      \/ To(p, "audit reserve")
      \/ To(p, "audit start")
      \/ To(p, "audit record")
      \/ proc[p].seen = "SETTLED" /\ To(p, "finish")
  <2>1. \A place \in {"fail", "audit reserve", "audit start", "audit record", "finish"} :
             Goto(p, place) => To(p, place)
    BY GotoMoves DEF Places
  <2>2. Leave(p) => Home(p)
    BY LeaveMoves
  <2>3. \/ proc[p].seen = "NOT_STARTED" /\ NextPlace[proc[p].seen] = "audit reserve"
        \/ proc[p].seen = "RESERVED" /\ NextPlace[proc[p].seen] = "audit start"
        \/ proc[p].seen = "SUBMITTED" /\ NextPlace[proc[p].seen] = "audit record"
        \/ proc[p].seen = "SETTLED" /\ NextPlace[proc[p].seen] = "finish"
    <3>1. proc[p].seen \in {"NOT_STARTED", "RESERVED", "SUBMITTED", "SETTLED"}
      BY DEF ProcessCandidate, IInv, PlacesOK
    <3>2. /\ NextPlace["NOT_STARTED"] = "audit reserve" /\ NextPlace["RESERVED"] = "audit start"
          /\ NextPlace["SUBMITTED"] = "audit record" /\ NextPlace["SETTLED"] = "finish"
      BY DEF NextPlace
    <3> QED BY <3>1, <3>2
  <2> QED BY <2>1, <2>2, <2>3 DEF ProcessCandidate
<1>2. At(p, "process") /\ UNCHANGED <<cand, hold, usage, media, task, audits, jobActive, callbacks, faults>>
  BY DEF ProcessCandidate, history, rows
<1>3. TypeOK'
  BY <1>1, <1>2 DEF IInv, TypeOK, To, Home, Moved, Uses, Results
<1>4. (PlacesOK /\ TaskOK /\ AuditOK)'
  BY <1>1, <1>2 DEF IInv, PlacesOK, Own, TaskOK, Out, AuditOK, Engaged, To, Home, Moved, At
<1>5. (ChargeOK /\ ResultOK)'
  BY <1>1, <1>2 DEF IInv, ChargeOK, SettledIsCharged, Uses, ResultOK, Ended, To, Home, Moved, At
<1>6. EndedStays
  BY <1>1, <1>2 DEF EndedStays
<1> QED BY <1>3, <1>4, <1>5, <1>6 DEF IInv

LEMMA EvaluateMediaQualityKeeps ==
  ASSUME IInv, NEW p \in Procs, EvaluateMediaQuality(p)
  PROVE  IInv' /\ EndedStays
<1>1. \/ audits' = 1 /\ To(p, "audit persist")
      \/ audits' = 1 /\ To(p, "audit doubt hold")
      \/ audits' = audits /\ To(p, "audit refused")
      \/ audits' = audits /\ To(p, "audit doubt hold")
  <2>1. \A place \in {"audit refused", "audit doubt hold"} : Goto(p, place) => To(p, place)
    BY GotoMoves DEF Places
  <2>2. audits + 1 = 1
    <3>1. audits = 0
      BY DEF EvaluateMediaQuality, IInv, AuditOK, Engaged, At
    <3> QED BY <3>1
  <2>3. ASSUME NEW verdict \in {"accepted", "rejected", "above"},
               proc' = [proc EXCEPT ![p].at = "audit persist", ![p].verdict = verdict]
        PROVE  To(p, "audit persist")
    <3>1. proc \in [Procs -> ProcRows]
      BY DEF IInv, TypeOK
    <3>2. [proc[p] EXCEPT !.at = "audit persist", !.verdict = verdict] \in ProcRows
      BY <3>1 DEF ProcRows, Places
    <3> QED BY <2>3, <3>1, <3>2 DEF To, Moved, ProcRows
  <2> QED BY <2>1, <2>2, <2>3 DEF EvaluateMediaQuality
<1>2. At(p, "audit") /\ UNCHANGED <<cand, hold, usage, media, task, jobActive, callbacks, faults>>
  BY DEF EvaluateMediaQuality, history, rows
<1>3. TypeOK'
  <2>1. audits' \in Nat
    <3>1. audits \in Nat
      BY DEF IInv, TypeOK
    <3>2. audits' = audits \/ audits' = 1
      BY <1>1
    <3> QED BY <3>1, <3>2
  <2> QED BY <1>1, <1>2, <2>1 DEF IInv, TypeOK, To, Moved
<1>4. (PlacesOK /\ TaskOK /\ AuditOK)'
  BY <1>1, <1>2 DEF IInv, PlacesOK, Own, TaskOK, Out, AuditOK, Engaged, To, Moved, At
<1>5. (ChargeOK /\ ResultOK)'
  BY <1>1, <1>2 DEF IInv, ChargeOK, SettledIsCharged, Uses, ResultOK, Ended, To, Moved, At
<1>6. EndedStays
  BY <1>1, <1>2 DEF EndedStays
<1> QED BY <1>3, <1>4, <1>5, <1>6 DEF IInv

LEMMA FailClaimedCandidateKeeps ==
  ASSUME IInv, NEW p \in Procs, FailClaimedCandidate(p)
  PROVE  IInv' /\ EndedStays
<1>1. \/ /\ cand.status = "PROCESSING"
         /\ Row("FAILED", cand.sub, cand.credits, cand.recorded, cand.quality, cand.accepted)
         /\ Home(p)
      \/ cand' = cand /\ Home(p)
  BY LeaveMoves DEF FailClaimedCandidate, LastUpdate, Mine, Unleased, Places, Row, CandRows, Ended,
     IInv, TypeOK
<1>2. At(p, "fail") /\ UNCHANGED <<hold, usage, media, task, audits, jobActive, callbacks, faults>>
  BY DEF FailClaimedCandidate, history, rows
<1>3. TypeOK'
  BY <1>1, <1>2 DEF IInv, TypeOK, Row, Home, Moved, Uses, Results
<1>4. (PlacesOK /\ TaskOK /\ AuditOK)'
  BY <1>1, <1>2 DEF IInv, PlacesOK, Own, TaskOK, Out, AuditOK, Engaged, Row, Home, Moved, At
<1>5. (ChargeOK /\ ResultOK)'
  BY <1>1, <1>2 DEF IInv, ChargeOK, SettledIsCharged, Uses, ResultOK, Ended, Row, Home, Moved, At
<1>6. EndedStays
  BY <1>1, <1>2 DEF EndedStays, Row, Starts, Ended
<1> QED BY <1>3, <1>4, <1>5, <1>6 DEF IInv

LEMMA ReserveAuditKeeps ==
  ASSUME IInv, NEW p \in Procs, ReserveAudit(p)
  PROVE  IInv' /\ EndedStays
<1>1. \/ /\ Holds(hold["task"], IF hold["audit"] = "none" THEN "RESERVED" ELSE hold["audit"])
         /\ To(p, "audit bind")
      \/ hold' = hold /\ To(p, "retry")
  BY GotoMoves DEF ReserveAudit, ReserveAiSpend, Places, Holds, HoldStates, Uses, IInv, TypeOK
<1>2. At(p, "audit reserve") /\ UNCHANGED <<cand, usage, media, task, audits, jobActive, callbacks, faults>>
  BY DEF ReserveAudit, history, rows
<1>3. TypeOK'
  BY <1>1, <1>2 DEF IInv, TypeOK, Holds, To, Moved, Uses, Results
<1>4. (PlacesOK /\ TaskOK /\ AuditOK)'
  BY <1>1, <1>2 DEF IInv, PlacesOK, Own, TaskOK, Out, AuditOK, Engaged, Holds, To, Moved, At
<1>5. (ChargeOK /\ ResultOK)'
  BY <1>1, <1>2 DEF IInv, ChargeOK, SettledIsCharged, Uses, ResultOK, Ended, Holds, To, Moved, At
<1>6. EndedStays
  BY <1>1, <1>2 DEF EndedStays
<1> QED BY <1>3, <1>4, <1>5, <1>6 DEF IInv

LEMMA BindCandidateQualityFundingKeeps ==
  ASSUME IInv, NEW p \in Procs, BindCandidateQualityFunding(p)
  PROVE  IInv' /\ EndedStays
<1>1. \/ /\ cand.quality = "NOT_STARTED"
         /\ Row(cand.status, cand.sub, cand.credits, cand.recorded, "RESERVED", cand.accepted)
         /\ To(p, "audit start")
      \/ cand' = cand /\ To(p, "audit unbind")
  <2>1. Goto(p, "audit start") => To(p, "audit start")
    BY GotoMoves DEF Places, Rejections
  <2>2. Goto(p, "audit unbind") => To(p, "audit unbind")
    BY GotoMoves DEF Places, Rejections
  <2>3. cand' = [cand EXCEPT !.quality = "RESERVED"]
         => Row(cand.status, cand.sub, cand.credits, cand.recorded, "RESERVED", cand.accepted)
    BY DEF IInv, TypeOK, Row, CandRows, Ended, Unleased
  <2> QED BY <2>1, <2>2, <2>3 DEF BindCandidateQualityFunding, Update, Mine
<1>2. At(p, "audit bind") /\ UNCHANGED <<hold, usage, media, task, audits, jobActive, callbacks, faults>>
  BY DEF BindCandidateQualityFunding, history, rows
<1>3. TypeOK'
  BY <1>1, <1>2 DEF IInv, TypeOK, Row, To, Moved, Uses, Results
<1>4. (PlacesOK /\ TaskOK /\ AuditOK)'
  BY <1>1, <1>2 DEF IInv, PlacesOK, Own, TaskOK, Out, AuditOK, Engaged, Row, To, Moved, At
<1>5. (ChargeOK /\ ResultOK)'
  BY <1>1, <1>2 DEF IInv, ChargeOK, SettledIsCharged, Uses, ResultOK, Ended, Row, To, Moved, At
<1>6. EndedStays
  BY <1>1, <1>2 DEF EndedStays, Row, Starts, Ended
<1> QED BY <1>3, <1>4, <1>5, <1>6 DEF IInv

LEMMA UnbindAuditKeeps ==
  ASSUME IInv, NEW p \in Procs, UnbindAudit(p)
  PROVE  IInv' /\ EndedStays
<1>1. \/ /\ hold["audit"] \in {"RESERVED", "RELEASED"}
         /\ Holds(hold["task"], "RELEASED")
         /\ To(p, "retry")
      \/ hold' = hold /\ To(p, "retry")
  BY GotoMoves DEF UnbindAudit, ReleaseAiSpend, Releasable, Places, Holds, HoldStates, Uses, IInv,
     TypeOK
<1>2. At(p, "audit unbind") /\ UNCHANGED <<cand, usage, media, task, audits, jobActive, callbacks, faults>>
  BY DEF UnbindAudit, history, rows
<1>3. TypeOK'
  BY <1>1, <1>2 DEF IInv, TypeOK, Holds, To, Moved, Uses, Results
<1>4. (PlacesOK /\ TaskOK /\ AuditOK)'
  BY <1>1, <1>2 DEF IInv, PlacesOK, Own, TaskOK, Out, AuditOK, Engaged, Holds, To, Moved, At
<1>5. (ChargeOK /\ ResultOK)'
  BY <1>1, <1>2 DEF IInv, ChargeOK, SettledIsCharged, Uses, ResultOK, Ended, Holds, To, Moved, At
<1>6. EndedStays
  BY <1>1, <1>2 DEF EndedStays
<1> QED BY <1>3, <1>4, <1>5, <1>6 DEF IInv

LEMMA MarkCandidateQualitySubmittingKeeps ==
  ASSUME IInv, NEW p \in Procs, MarkCandidateQualitySubmitting(p)
  PROVE  IInv' /\ EndedStays
<1>1. \/ /\ cand.quality = "RESERVED"
         /\ Row(cand.status, cand.sub, cand.credits, cand.recorded, "SUBMITTING", cand.accepted)
         /\ To(p, "audit submitting")
      \/ cand' = cand /\ To(p, "retry")
  <2>1. Goto(p, "audit submitting") => To(p, "audit submitting")
    BY GotoMoves DEF Places, Rejections
  <2>2. Goto(p, "retry") => To(p, "retry")
    BY GotoMoves DEF Places, Rejections
  <2>3. cand' = [cand EXCEPT !.quality = "SUBMITTING"]
         => Row(cand.status, cand.sub, cand.credits, cand.recorded, "SUBMITTING", cand.accepted)
    BY DEF IInv, TypeOK, Row, CandRows, Ended, Unleased
  <2> QED BY <2>1, <2>2, <2>3 DEF MarkCandidateQualitySubmitting, Update, Mine
<1>2. At(p, "audit start") /\ UNCHANGED <<hold, usage, media, task, audits, jobActive, callbacks, faults>>
  BY DEF MarkCandidateQualitySubmitting, history, rows
<1>3. TypeOK'
  BY <1>1, <1>2 DEF IInv, TypeOK, Row, To, Moved, Uses, Results
<1>4. (PlacesOK /\ TaskOK /\ AuditOK)'
  BY <1>1, <1>2 DEF IInv, PlacesOK, Own, TaskOK, Out, AuditOK, Engaged, Row, To, Moved, At
<1>5. (ChargeOK /\ ResultOK)'
  BY <1>1, <1>2 DEF IInv, ChargeOK, SettledIsCharged, Uses, ResultOK, Ended, Row, To, Moved, At
<1>6. EndedStays
  BY <1>1, <1>2 DEF EndedStays, Row, Starts, Ended
<1> QED BY <1>3, <1>4, <1>5, <1>6 DEF IInv

LEMMA MarkAuditSubmittingKeeps ==
  ASSUME IInv, NEW p \in Procs, MarkAuditSubmitting(p)
  PROVE  IInv' /\ EndedStays
<1>1. \/ hold["audit"] = "RESERVED" /\ Holds(hold["task"], "SUBMITTING") /\ To(p, "audit")
      \/ hold' = hold /\ To(p, "audit unbind")
  BY GotoMoves DEF MarkAuditSubmitting, MarkAiSpendSubmitting, Places, Holds, HoldStates, Uses,
     IInv, TypeOK
<1>2. /\ At(p, "audit submitting")
      /\ UNCHANGED <<cand, usage, media, task, audits, jobActive, callbacks, faults>>
  BY DEF MarkAuditSubmitting, history, rows
<1>3. TypeOK'
  BY <1>1, <1>2 DEF IInv, TypeOK, Holds, To, Moved, Uses, Results
<1>4. (PlacesOK /\ TaskOK)'
  BY <1>1, <1>2 DEF IInv, PlacesOK, Own, TaskOK, Out, Holds, To, Moved, At
<1>5. AuditOK'
  <2>1. \A q \in Procs : q # p => (Engaged(q)' <=> Engaged(q))
    BY <1>1, <1>2 DEF Engaged, To, Moved
  <2>2. CASE hold["audit"] = "RESERVED" /\ Holds(hold["task"], "SUBMITTING") /\ To(p, "audit")
    <3>1. audits' = 0 /\ \A q \in Procs : ~Engaged(q)
      BY <1>2, <2>2 DEF IInv, AuditOK, Out
    <3>2. hold'["audit"] \in Out
      BY <2>2 DEF Holds, Out
    <3> QED BY <2>1, <3>1, <3>2 DEF AuditOK
  <2>3. CASE hold' = hold /\ To(p, "audit unbind")
    <3>1. ~Engaged(p)'
      BY <2>3 DEF To, Engaged
    <3> QED BY <1>2, <2>1, <2>3, <3>1 DEF IInv, AuditOK
  <2> QED BY <1>1, <2>2, <2>3
<1>6. (ChargeOK /\ ResultOK)'
  BY <1>1, <1>2 DEF IInv, ChargeOK, SettledIsCharged, Uses, ResultOK, Ended, Holds, To, Moved, At
<1>7. EndedStays
  BY <1>1, <1>2 DEF EndedStays
<1> QED BY <1>3, <1>4, <1>5, <1>6, <1>7 DEF IInv

LEMMA PersistCandidateQualityResponseKeeps ==
  ASSUME IInv, NEW p \in Procs, PersistCandidateQualityResponse(p)
  PROVE  IInv' /\ EndedStays
<1>1. \/ /\ cand.status = "PROCESSING"
         /\ cand.quality \in {"SUBMITTING", "SUBMITTED"}
         /\ Row(cand.status, cand.sub, cand.credits, cand.recorded, "SUBMITTED", proc[p].verdict = "accepted")
         /\ To(p, "audit submitted")
      \/ /\ cand.status = "PROCESSING"
         /\ cand.quality \in {"SUBMITTING", "SUBMITTED"}
         /\ Row(cand.status, cand.sub, cand.credits, cand.recorded, "AMBIGUOUS", proc[p].verdict = "accepted")
         /\ To(p, "audit doubt hold")
      \/ cand' = cand /\ To(p, "audit doubt hold")
  <2>1. Goto(p, "audit submitted") => To(p, "audit submitted")
    BY GotoMoves DEF Places, Rejections
  <2>2. Goto(p, "audit doubt hold") => To(p, "audit doubt hold")
    BY GotoMoves DEF Places, Rejections
  <2>3. cand' = [cand EXCEPT !.quality = "SUBMITTED", !.accepted = (proc[p].verdict = "accepted")]
         => Row(cand.status, cand.sub, cand.credits, cand.recorded, "SUBMITTED", proc[p].verdict = "accepted")
    BY DEF IInv, TypeOK, Row, CandRows, Ended, Unleased
  <2>4. cand' = [cand EXCEPT !.quality = "AMBIGUOUS", !.accepted = (proc[p].verdict = "accepted")]
         => Row(cand.status, cand.sub, cand.credits, cand.recorded, "AMBIGUOUS", proc[p].verdict = "accepted")
    BY DEF IInv, TypeOK, Row, CandRows, Ended, Unleased
  <2> QED BY <2>1, <2>2, <2>3, <2>4 DEF PersistCandidateQualityResponse, Update, Mine
<1>2. At(p, "audit persist") /\ UNCHANGED <<hold, usage, media, task, audits, jobActive, callbacks, faults>>
  BY DEF PersistCandidateQualityResponse, history, rows
<1>3. TypeOK'
  BY <1>1, <1>2 DEF IInv, TypeOK, Row, To, Moved, Uses, Results
<1>4. (PlacesOK /\ TaskOK /\ AuditOK)'
  BY <1>1, <1>2 DEF IInv, PlacesOK, Own, TaskOK, Out, AuditOK, Engaged, Row, To, Moved, At
<1>5. (ChargeOK /\ ResultOK)'
  BY <1>1, <1>2 DEF IInv, ChargeOK, SettledIsCharged, Uses, ResultOK, Ended, Row, To, Moved, At
<1>6. EndedStays
  BY <1>1, <1>2 DEF EndedStays, Row, Starts, Ended
<1> QED BY <1>3, <1>4, <1>5, <1>6 DEF IInv

LEMMA MarkAuditSubmittedKeeps ==
  ASSUME IInv, NEW p \in Procs, MarkAuditSubmitted(p)
  PROVE  IInv' /\ EndedStays
<1>1. /\ Holds(hold["task"], IF hold["audit"] = "SUBMITTING" THEN "SUBMITTED" ELSE hold["audit"])
      /\ To(p, "audit record")
  BY GotoMoves DEF MarkAuditSubmitted, MarkAiSpendSubmitted, Places, Holds, HoldStates, Uses, IInv,
     TypeOK
<1>2. /\ At(p, "audit submitted")
      /\ UNCHANGED <<cand, usage, media, task, audits, jobActive, callbacks, faults>>
  BY DEF MarkAuditSubmitted, history, rows
<1>3. TypeOK'
  BY <1>1, <1>2 DEF IInv, TypeOK, Holds, To, Moved, Uses, Results
<1>4. (PlacesOK /\ TaskOK /\ AuditOK)'
  BY <1>1, <1>2 DEF IInv, PlacesOK, Own, TaskOK, Out, AuditOK, Engaged, Holds, To, Moved, At
<1>5. (ChargeOK /\ ResultOK)'
  BY <1>1, <1>2 DEF IInv, ChargeOK, SettledIsCharged, Uses, ResultOK, Ended, Holds, To, Moved, At
<1>6. EndedStays
  BY <1>1, <1>2 DEF EndedStays
<1> QED BY <1>3, <1>4, <1>5, <1>6 DEF IInv

LEMMA RecordAuditKeeps ==
  ASSUME IInv, NEW p \in Procs, RecordAudit(p)
  PROVE  IInv' /\ EndedStays
<1>1. usage' = usage \cup {"audit"} /\ To(p, "audit charge")
  BY GotoMoves DEF RecordAudit, RecordUsage, Places
<1>2. At(p, "audit record") /\ UNCHANGED <<cand, hold, media, task, audits, jobActive, callbacks, faults>>
  BY DEF RecordAudit, history, rows
<1>3. TypeOK'
  BY <1>1, <1>2 DEF IInv, TypeOK, To, Moved, Uses, Results
<1>4. (PlacesOK /\ TaskOK /\ AuditOK)'
  BY <1>1, <1>2 DEF IInv, PlacesOK, Own, TaskOK, Out, AuditOK, Engaged, To, Moved, At
<1>5. (ChargeOK /\ ResultOK)'
  BY <1>1, <1>2 DEF IInv, ChargeOK, SettledIsCharged, Uses, ResultOK, Ended, To, Moved, At
<1>6. EndedStays
  BY <1>1, <1>2 DEF EndedStays
<1> QED BY <1>3, <1>4, <1>5, <1>6 DEF IInv

LEMMA ChargeAuditKeeps ==
  ASSUME IInv, NEW p \in Procs, ChargeAudit(p)
  PROVE  IInv' /\ EndedStays
<1>1. \/ Holds(hold["task"], "SETTLED") /\ To(p, "audit recorded")
      \/ hold' = hold /\ To(p, "audit doubt hold")
      \/ hold' = hold /\ To(p, "retry")
  BY GotoMoves DEF ChargeAudit, SettleAiSpend, Settleable, Thrown, Places, Holds, HoldStates, Uses,
     IInv, TypeOK
<1>2. At(p, "audit charge") /\ UNCHANGED <<cand, usage, media, task, audits, jobActive, callbacks, faults>>
  BY DEF ChargeAudit, history, rows
<1>3. TypeOK'
  BY <1>1, <1>2 DEF IInv, TypeOK, Holds, To, Moved, Uses, Results
<1>4. (PlacesOK /\ TaskOK /\ AuditOK)'
  BY <1>1, <1>2 DEF IInv, PlacesOK, Own, TaskOK, Out, AuditOK, Engaged, Holds, To, Moved, At
<1>5. (ChargeOK /\ ResultOK)'
  BY <1>1, <1>2 DEF IInv, ChargeOK, SettledIsCharged, Uses, ResultOK, Ended, Holds, To, Moved, At
<1>6. EndedStays
  BY <1>1, <1>2 DEF EndedStays
<1> QED BY <1>3, <1>4, <1>5, <1>6 DEF IInv

LEMMA MarkCandidateQualitySettledKeeps ==
  ASSUME IInv, NEW p \in Procs, MarkCandidateQualitySettled(p)
  PROVE  IInv' /\ EndedStays
<1>1. \/ /\ cand.quality \in {"SUBMITTED", "SETTLED"}
         /\ Row(cand.status, cand.sub, cand.credits, cand.recorded, "SETTLED", cand.accepted)
         /\ To(p, "finish")
      \/ cand' = cand /\ To(p, "audit doubt hold")
      \/ cand' = cand /\ To(p, "retry")
  <2>1. Goto(p, "finish") => To(p, "finish")
    BY GotoMoves DEF Places, Rejections
  <2>2. Goto(p, "audit doubt hold") => To(p, "audit doubt hold")
    BY GotoMoves DEF Places, Rejections
  <2>3. Goto(p, "retry") => To(p, "retry")
    BY GotoMoves DEF Places, Rejections
  <2>4. cand' = [cand EXCEPT !.quality = "SETTLED"]
         => Row(cand.status, cand.sub, cand.credits, cand.recorded, "SETTLED", cand.accepted)
    BY DEF IInv, TypeOK, Row, CandRows, Ended, Unleased
  <2> QED BY <2>1, <2>2, <2>3, <2>4 DEF MarkCandidateQualitySettled, Update, Mine, Thrown
<1>2. /\ At(p, "audit recorded")
      /\ UNCHANGED <<hold, usage, media, task, audits, jobActive, callbacks, faults>>
  BY DEF MarkCandidateQualitySettled, history, rows
<1>3. TypeOK'
  BY <1>1, <1>2 DEF IInv, TypeOK, Row, To, Moved, Uses, Results
<1>4. (PlacesOK /\ TaskOK /\ AuditOK)'
  BY <1>1, <1>2 DEF IInv, PlacesOK, Own, TaskOK, Out, AuditOK, Engaged, Row, To, Moved, At
<1>5. (ChargeOK /\ ResultOK)'
  BY <1>1, <1>2 DEF IInv, ChargeOK, SettledIsCharged, Uses, ResultOK, Ended, Row, To, Moved, At
<1>6. EndedStays
  BY <1>1, <1>2 DEF EndedStays, Row, Starts, Ended
<1> QED BY <1>3, <1>4, <1>5, <1>6 DEF IInv

LEMMA FinishSettledQualityKeeps ==
  ASSUME IInv, NEW p \in Procs, FinishSettledQuality(p)
  PROVE  IInv' /\ EndedStays
<1>1. \/ /\ cand.status = "PROCESSING"
         /\ Row("REJECTED", cand.sub, cand.credits, cand.recorded, cand.quality, cand.accepted)
         /\ Home(p)
      \/ cand' = cand /\ Home(p)
      \/ cand' = cand /\ cand.accepted /\ To(p, "attach")
      \/ cand' = cand /\ To(p, "audit doubt hold")
      \/ cand' = cand /\ To(p, "retry")
  <2>1. Goto(p, "attach") => To(p, "attach")
    BY GotoMoves DEF Places, Rejections
  <2>2. Goto(p, "audit doubt hold") => To(p, "audit doubt hold")
    BY GotoMoves DEF Places, Rejections
  <2>3. Goto(p, "retry") => To(p, "retry")
    BY GotoMoves DEF Places, Rejections
  <2>4. Leave(p) => Home(p)
    BY LeaveMoves
  <2>5. cand' = [Unleased(cand) EXCEPT !.status = "REJECTED"]
         => Row("REJECTED", cand.sub, cand.credits, cand.recorded, cand.quality, cand.accepted)
    BY DEF IInv, TypeOK, Row, CandRows, Ended, Unleased
  <2> QED BY <2>1, <2>2, <2>3, <2>4, <2>5 DEF FinishSettledQuality, LastUpdate, Mine, Unleased,
         Thrown
<1>2. At(p, "finish") /\ UNCHANGED <<hold, usage, media, task, audits, jobActive, callbacks, faults>>
  BY DEF FinishSettledQuality, history, rows
<1>3. TypeOK'
  BY <1>1, <1>2 DEF IInv, TypeOK, Row, To, Home, Moved, Uses, Results
<1>4. (PlacesOK /\ TaskOK /\ AuditOK)'
  BY <1>1, <1>2 DEF IInv, PlacesOK, Own, TaskOK, Out, AuditOK, Engaged, Row, To, Home, Moved, At
<1>5. (ChargeOK /\ ResultOK)'
  BY <1>1, <1>2 DEF IInv, ChargeOK, SettledIsCharged, Uses, ResultOK, Ended, Row, To, Home, Moved,
     At
<1>6. EndedStays
  BY <1>1, <1>2 DEF EndedStays, Row, Starts, Ended
<1> QED BY <1>3, <1>4, <1>5, <1>6 DEF IInv

LEMMA AttachAcceptedCandidateKeeps ==
  ASSUME IInv, NEW p \in Procs, AttachAcceptedCandidate(p)
  PROVE  IInv' /\ EndedStays
<1>1. \/ media # 0 /\ media' = media /\ To(p, "store")
      \/ media' = 1 /\ To(p, "store")
      \/ media' = media /\ To(p, "audit doubt hold")
      \/ media' = media /\ To(p, "retry")
  <2>1. \A place \in {"store", "audit doubt hold", "retry"} : Goto(p, place) => To(p, place)
    BY GotoMoves DEF Places
  <2>2. media \in Nat /\ (media > 0 => media # 0) /\ (media = 0 => media + 1 = 1)
    BY DEF IInv, TypeOK
  <2> QED BY <2>1, <2>2 DEF AttachAcceptedCandidate, Thrown
<1>2. At(p, "attach") /\ UNCHANGED <<cand, hold, usage, task, audits, jobActive, callbacks, faults>>
  BY DEF AttachAcceptedCandidate, history, rows
<1>3. TypeOK'
  <2>1. media' \in Nat
    <3>1. media \in Nat
      BY DEF IInv, TypeOK
    <3>2. media' = media \/ media' = 1
      BY <1>1
    <3> QED BY <3>1, <3>2
  <2> QED BY <1>1, <1>2, <2>1 DEF IInv, TypeOK, To, Moved
<1>4. (PlacesOK /\ TaskOK /\ AuditOK)'
  BY <1>1, <1>2 DEF IInv, PlacesOK, Own, TaskOK, Out, AuditOK, Engaged, To, Moved, At
<1>5. ChargeOK'
  BY <1>1, <1>2 DEF IInv, ChargeOK, SettledIsCharged, To, Moved, At
<1>6. ResultOK'
  <2>1. media \in {0, 1} /\ cand.accepted
    BY <1>2 DEF IInv, ResultOK, At
  <2>2. media' \in {0, 1} /\ (At(p, "store")' => media' = 1) /\ (media = 1 => media' = 1)
    BY <1>1, <2>1 DEF To, At
  <2> QED BY <1>1, <1>2, <2>1, <2>2 DEF IInv, ResultOK, To, Moved, At
<1>7. EndedStays
  BY <1>1, <1>2 DEF EndedStays
<1> QED BY <1>3, <1>4, <1>5, <1>6, <1>7 DEF IInv

LEMMA FinishStoredCandidateKeeps ==
  ASSUME IInv, NEW p \in Procs, FinishStoredCandidate(p)
  PROVE  IInv' /\ EndedStays
<1>1. \/ /\ cand.status = "PROCESSING"
         /\ cand.quality = "SETTLED"
         /\ Row("ACCEPTED", cand.sub, cand.credits, cand.recorded, cand.quality, cand.accepted)
         /\ Home(p)
      \/ cand' = cand /\ Home(p)
  BY LeaveMoves DEF FinishStoredCandidate, LastUpdate, Mine, Unleased, Places, Row, CandRows, Ended,
     IInv, TypeOK
<1>2. At(p, "store") /\ UNCHANGED <<hold, usage, media, task, audits, jobActive, callbacks, faults>>
  BY DEF FinishStoredCandidate, history, rows
<1>3. TypeOK'
  BY <1>1, <1>2 DEF IInv, TypeOK, Row, Home, Moved, Uses, Results
<1>4. (PlacesOK /\ TaskOK /\ AuditOK)'
  BY <1>1, <1>2 DEF IInv, PlacesOK, Own, TaskOK, Out, AuditOK, Engaged, Row, Home, Moved, At
<1>5. (ChargeOK /\ ResultOK)'
  BY <1>1, <1>2 DEF IInv, ChargeOK, SettledIsCharged, Uses, ResultOK, Ended, Row, Home, Moved, At
<1>6. EndedStays
  BY <1>1, <1>2 DEF EndedStays, Row, Starts, Ended
<1> QED BY <1>3, <1>4, <1>5, <1>6 DEF IInv

LEMMA ReleaseCandidateForRetryKeeps ==
  ASSUME IInv, NEW p \in Procs, ReleaseCandidateForRetry(p)
  PROVE  IInv' /\ EndedStays
<1>1. \/ /\ cand.status = "PROCESSING"
         /\ Row("PROVIDER_SUCCEEDED", cand.sub, cand.credits, cand.recorded, cand.quality, cand.accepted)
         /\ Home(p)
      \/ cand' = cand /\ Home(p)
  BY LeaveMoves DEF ReleaseCandidateForRetry, LastUpdate, Mine, Unleased, Places, Row, CandRows,
     Ended, IInv, TypeOK
<1>2. At(p, "retry") /\ UNCHANGED <<hold, usage, media, task, audits, jobActive, callbacks, faults>>
  BY DEF ReleaseCandidateForRetry, history, rows
<1>3. TypeOK'
  BY <1>1, <1>2 DEF IInv, TypeOK, Row, Home, Moved, Uses, Results
<1>4. (PlacesOK /\ TaskOK /\ AuditOK)'
  BY <1>1, <1>2 DEF IInv, PlacesOK, Own, TaskOK, Out, AuditOK, Engaged, Row, Home, Moved, At
<1>5. (ChargeOK /\ ResultOK)'
  BY <1>1, <1>2 DEF IInv, ChargeOK, SettledIsCharged, Uses, ResultOK, Ended, Row, Home, Moved, At
<1>6. EndedStays
  BY <1>1, <1>2 DEF EndedStays, Row, Starts, Ended
<1> QED BY <1>3, <1>4, <1>5, <1>6 DEF IInv

LEMMA ReleaseRefusedAuditKeeps ==
  ASSUME IInv, NEW p \in Procs, ReleaseRefusedAudit(p)
  PROVE  IInv' /\ EndedStays
<1>1. \/ /\ hold["audit"] \in {"SUBMITTING", "RELEASED"}
         /\ Holds(hold["task"], "RELEASED")
         /\ To(p, "audit reject")
      \/ hold' = hold /\ To(p, "audit doubt hold")
  BY GotoMoves DEF ReleaseRefusedAudit, ReleaseAiSpend, Releasable, Places, Holds, HoldStates, Uses,
     IInv, TypeOK
<1>2. At(p, "audit refused") /\ UNCHANGED <<cand, usage, media, task, audits, jobActive, callbacks, faults>>
  BY DEF ReleaseRefusedAudit, history, rows
<1>3. TypeOK'
  BY <1>1, <1>2 DEF IInv, TypeOK, Holds, To, Moved, Uses, Results
<1>4. (PlacesOK /\ TaskOK)'
  BY <1>1, <1>2 DEF IInv, PlacesOK, Own, TaskOK, Out, Holds, To, Moved, At
<1>5. AuditOK'
  <2>1. \A q \in Procs : q # p => (Engaged(q)' <=> Engaged(q))
    BY <1>1, <1>2 DEF Engaged, To, Moved
  <2>2. Engaged(p) /\ ~Engaged(p)'
    BY <1>1, <1>2 DEF Engaged, To, At
  <2>3. \A q \in Procs : ~Engaged(q)'
    BY <2>1, <2>2 DEF IInv, AuditOK
  <2>4. audits' = 0
    BY <1>2, <2>2 DEF IInv, AuditOK
  <2> QED BY <2>3, <2>4 DEF AuditOK
<1>6. (ChargeOK /\ ResultOK)'
  BY <1>1, <1>2 DEF IInv, ChargeOK, SettledIsCharged, Uses, ResultOK, Ended, Holds, To, Moved, At
<1>7. EndedStays
  BY <1>1, <1>2 DEF EndedStays
<1> QED BY <1>3, <1>4, <1>5, <1>6, <1>7 DEF IInv

LEMMA MarkCandidateQualityRejectedKeeps ==
  ASSUME IInv, NEW p \in Procs, MarkCandidateQualityRejected(p)
  PROVE  IInv' /\ EndedStays
<1>1. \/ /\ cand.status = "PROCESSING"
         /\ cand.quality \in {"RESERVED", "SUBMITTING"}
         /\ Row("REJECTED", cand.sub, cand.credits, cand.recorded, "REJECTED", cand.accepted)
         /\ Home(p)
      \/ cand' = cand /\ Home(p)
  BY LeaveMoves DEF MarkCandidateQualityRejected, LastUpdate, Mine, Unleased, Places, Row, CandRows,
     Ended, IInv, TypeOK
<1>2. At(p, "audit reject") /\ UNCHANGED <<hold, usage, media, task, audits, jobActive, callbacks, faults>>
  BY DEF MarkCandidateQualityRejected, history, rows
<1>3. TypeOK'
  BY <1>1, <1>2 DEF IInv, TypeOK, Row, Home, Moved, Uses, Results
<1>4. (PlacesOK /\ TaskOK /\ AuditOK)'
  BY <1>1, <1>2 DEF IInv, PlacesOK, Own, TaskOK, Out, AuditOK, Engaged, Row, Home, Moved, At
<1>5. (ChargeOK /\ ResultOK)'
  BY <1>1, <1>2 DEF IInv, ChargeOK, SettledIsCharged, Uses, ResultOK, Ended, Row, Home, Moved, At
<1>6. EndedStays
  BY <1>1, <1>2 DEF EndedStays, Row, Starts, Ended
<1> QED BY <1>3, <1>4, <1>5, <1>6 DEF IInv

LEMMA DoubtAuditHoldKeeps ==
  ASSUME IInv, NEW p \in Procs, DoubtAuditHold(p)
  PROVE  IInv' /\ EndedStays
<1>1. /\ Holds(hold["task"], IF hold["audit"] \in {"SUBMITTING", "SUBMITTED"} THEN "AMBIGUOUS" ELSE hold["audit"])
      /\ To(p, "audit doubt")
  BY GotoMoves DEF DoubtAuditHold, MarkAiSpendAmbiguous, Places, Holds, HoldStates, Uses, IInv,
     TypeOK
<1>2. /\ At(p, "audit doubt hold")
      /\ UNCHANGED <<cand, usage, media, task, audits, jobActive, callbacks, faults>>
  BY DEF DoubtAuditHold, history, rows
<1>3. TypeOK'
  BY <1>1, <1>2 DEF IInv, TypeOK, Holds, To, Moved, Uses, Results
<1>4. (PlacesOK /\ TaskOK /\ AuditOK)'
  BY <1>1, <1>2 DEF IInv, PlacesOK, Own, TaskOK, Out, AuditOK, Engaged, Holds, To, Moved, At
<1>5. (ChargeOK /\ ResultOK)'
  BY <1>1, <1>2 DEF IInv, ChargeOK, SettledIsCharged, Uses, ResultOK, Ended, Holds, To, Moved, At
<1>6. EndedStays
  BY <1>1, <1>2 DEF EndedStays
<1> QED BY <1>3, <1>4, <1>5, <1>6 DEF IInv

LEMMA MarkCandidateQualityAmbiguousKeeps ==
  ASSUME IInv, NEW p \in Procs, MarkCandidateQualityAmbiguous(p)
  PROVE  IInv' /\ EndedStays
<1>1. \/ /\ cand.status = "PROCESSING"
         /\ cand.quality \in {"SUBMITTING", "SUBMITTED", "AMBIGUOUS"}
         /\ Row(cand.status, cand.sub, cand.credits, cand.recorded, "AMBIGUOUS", cand.accepted)
         /\ Home(p)
      \/ cand' = cand /\ Home(p)
  BY LeaveMoves DEF MarkCandidateQualityAmbiguous, LastUpdate, Unleased, Places, Row, CandRows,
     Ended, IInv, TypeOK
<1>2. At(p, "audit doubt") /\ UNCHANGED <<hold, usage, media, task, audits, jobActive, callbacks, faults>>
  BY DEF MarkCandidateQualityAmbiguous, history, rows
<1>3. TypeOK'
  BY <1>1, <1>2 DEF IInv, TypeOK, Row, Home, Moved, Uses, Results
<1>4. (PlacesOK /\ TaskOK /\ AuditOK)'
  BY <1>1, <1>2 DEF IInv, PlacesOK, Own, TaskOK, Out, AuditOK, Engaged, Row, Home, Moved, At
<1>5. (ChargeOK /\ ResultOK)'
  BY <1>1, <1>2 DEF IInv, ChargeOK, SettledIsCharged, Uses, ResultOK, Ended, Row, Home, Moved, At
<1>6. EndedStays
  BY <1>1, <1>2 DEF EndedStays, Row, Starts, Ended
<1> QED BY <1>3, <1>4, <1>5, <1>6 DEF IInv

-----------------------------------------------------------------------------
\* Results of the provider.

Told ==
  [state : {"SUBMITTED", "PROVIDER_SUCCEEDED", "FAILED"}, id : BOOLEAN, credits : {"none", "within", "above"}]

\* A result neither ends a candidate otherwise than it ended nor makes it paid,
\* and the credits of one that is paid stay.
LEMMA AppliedRow ==
  ASSUME IInv, NEW report \in Told, cand' = Applied(report)
  PROVE  /\ Row(cand'.status, cand'.sub, cand'.credits, cand.recorded, cand.quality, cand.accepted)
         /\ \/ cand'.status = cand.status
            \/ cand.status \notin Ended /\ cand'.status \in {"SUBMITTED", "PROVIDER_SUCCEEDED", "FAILED"}
         /\ cand'.sub = "SETTLED" => cand.sub = "SETTLED" /\ cand'.credits = cand.credits
<1>1. cand \in CandRows
  BY DEF IInv, TypeOK
<1>2. AppliedStatus(report) = cand.status
      \/ (cand.status \notin Ended /\ AppliedStatus(report) \in {"SUBMITTED", "PROVIDER_SUCCEEDED", "FAILED"})
  BY DEF AppliedStatus, Told
<1>3. /\ AppliedSubmission(report) \in {"REJECTED", "AMBIGUOUS", "SETTLED", "SUBMITTED"}
      /\ AppliedSubmission(report) = "SETTLED" => cand.sub = "SETTLED"
  BY DEF AppliedSubmission
<1>4. AppliedStatus(report) \in {"none", "SUBMITTING", "SUBMITTED", "PROVIDER_SUCCEEDED", "PROCESSING"} \cup Ended
  BY <1>1, <1>2 DEF CandRows, Ended
<1>5. DEFINE credits == IF cand.credits = "none" THEN report.credits ELSE cand.credits
<1>6. credits \in {"none", "within", "above"}
  BY <1>1 DEF CandRows, Told
<1>7. /\ cand' \in CandRows /\ cand'.status = AppliedStatus(report) /\ cand'.sub = AppliedSubmission(report)
      /\ cand'.credits = credits /\ cand'.recorded = cand.recorded /\ cand'.quality = cand.quality
      /\ cand'.accepted = cand.accepted
  <2> HIDE DEF credits
  <2> DEFINE known == cand.known \/ report.id
  <2>1. known \in BOOLEAN
    OBVIOUS
  <2> HIDE DEF known
  <2>2. cand' = [cand EXCEPT !.known = known, !.status = AppliedStatus(report),
                             !.sub = AppliedSubmission(report), !.credits = credits]
    BY DEF Applied, credits, known
  <2> QED BY <1>1, <1>3, <1>4, <1>6, <2>1, <2>2 DEF CandRows
<1>8. cand.sub = "SETTLED" => credits = cand.credits
  BY DEF IInv, ChargeOK, SettledIsCharged
<1> QED BY <1>2, <1>3, <1>7, <1>8 DEF Row

\* The tasks that callbacks and polls tell of were dispatched.
LEMMA ApplyProviderResultKeeps ==
  ASSUME IInv, NEW p \in Procs, NEW report \in Told, ApplyProviderResult(p, report), task # "none",
         callbacks' \in 0 .. MaxCallbacks, UNCHANGED <<hold, usage, media, task, audits, jobActive, faults>>
  PROVE  IInv' /\ EndedStays
<1>1. /\ Row(cand'.status, cand'.sub, cand'.credits, cand.recorded, cand.quality, cand.accepted)
      /\ \/ cand'.status = cand.status
         \/ cand.status \notin Ended /\ cand'.status \in {"SUBMITTED", "PROVIDER_SUCCEEDED", "FAILED"}
      /\ cand'.sub = "SETTLED" => cand.sub = "SETTLED" /\ cand'.credits = cand.credits
  <2>1. cand' = Applied(report)
    BY DEF ApplyProviderResult
  <2> QED BY <2>1, AppliedRow
<1>2. \E place \in {"idle", "record", "doubt hold"} : To(p, place)
  <2>1. \A place \in {"idle", "record", "doubt hold"} : Goto(p, place) => To(p, place)
    BY GotoMoves DEF Places
  <2>2. Settlement(Applied(report)) \in {"idle", "record", "doubt hold"}
    BY DEF Settlement
  <2> QED BY <2>1, <2>2 DEF ApplyProviderResult
<1>3. TypeOK'
  BY <1>1, <1>2 DEF IInv, TypeOK, Row, To, Moved
<1>4. PlacesOK'
  BY <1>2 DEF IInv, PlacesOK, Own, To, Moved, At
<1>5. TaskOK'
  BY <1>2 DEF IInv, TaskOK, Out, To, Moved, At
<1>6. AuditOK'
  BY <1>2 DEF IInv, AuditOK, Engaged, To, Moved, At
<1>7. ChargeOK'
  BY <1>1, <1>2 DEF IInv, ChargeOK, SettledIsCharged, Row, To, Moved, At
<1>8. ResultOK'
  BY <1>1, <1>2 DEF IInv, ResultOK, Ended, Row, To, Moved, At
<1>9. EndedStays
  BY <1>1 DEF EndedStays
<1> QED BY <1>3, <1>4, <1>5, <1>6, <1>7, <1>8, <1>9 DEF IInv

LEMMA ReportsTold ==
  ASSUME IInv
  PROVE  FinalReports \subseteq Told /\ Reports \subseteq Told
<1>1. Ids \subseteq BOOLEAN
  BY DEF Ids
<1>2. FinalReports \subseteq Told
  BY <1>1 DEF FinalReports, Told
<1>3. PendingReports \subseteq Told
  BY <1>1 DEF PendingReports, Told
<1> QED BY <1>2, <1>3 DEF Reports

LEMMA PollCandidateKeeps ==
  ASSUME IInv, NEW p \in Procs, PollCandidate(p)
  PROVE  IInv' /\ EndedStays
<1>1. UNCHANGED <<hold, usage, media, task, audits, jobActive, callbacks, faults>>
  BY DEF PollCandidate, history
<1>2. callbacks' \in 0 .. MaxCallbacks
  BY <1>1 DEF IInv, TypeOK
<1>3. CASE task \in Results
  <2>1. PICK report \in FinalReports : ApplyProviderResult(p, report)
    BY <1>3 DEF PollCandidate
  <2>2. task # "none"
    BY <1>3 DEF Results
  <2> QED BY <1>1, <1>2, <2>1, <2>2, ReportsTold, ApplyProviderResultKeeps
<1>4. CASE Leave(p) /\ UNCHANGED cand
  BY <1>1, <1>4, LeaveMoves, AsideKeeps DEF Home, Guarded, Own, IInv, TypeOK
<1> QED BY <1>3, <1>4 DEF PollCandidate

LEMMA HandleKieCallbackKeeps ==
  ASSUME IInv, NEW p \in Procs, HandleKieCallback(p)
  PROVE  IInv' /\ EndedStays
<1>1. task # "none" /\ UNCHANGED <<hold, usage, media, task, audits, jobActive, faults>>
  BY DEF HandleKieCallback
<1>2. PICK report \in Reports : ApplyProviderResult(p, report)
  BY DEF HandleKieCallback
<1>3. callbacks' \in 0 .. MaxCallbacks
  BY PremiumMediaAssumption DEF HandleKieCallback, IInv, TypeOK, PremiumMediaAssumption
<1> QED BY <1>1, <1>2, <1>3, ReportsTold, ApplyProviderResultKeeps

-----------------------------------------------------------------------------
\* What a worker finds, and the steps of nobody.

LEMMA FoundKeeps ==
  ASSUME IInv, NEW w \in Procs,
         FindStaleSubmission(w) \/ FindPoll(w) \/ FindUnrecorded(w) \/ FindTimedOut(w) \/ FindStaleAudit(w)
  PROVE  IInv' /\ EndedStays
<1>1. UNCHANGED <<cand, hold, usage, media, task, audits, jobActive, callbacks, faults>>
  BY DEF FindStaleSubmission, FindPoll, FindUnrecorded, FindTimedOut, FindStaleAudit, Found, rows,
     history
<1>2. ASSUME NEW place \in {"doubt hold", "cancel", "reject unreserved", "poll", "idle", "record"}, Found(w, place)
      PROVE  IInv' /\ EndedStays
  <2>1. To(w, place)
    BY <1>2, GotoMoves DEF Found, Places, Rejections
  <2> QED BY <1>1, <2>1, AsideKeeps DEF To, Guarded, Own, IInv, TypeOK
<1>3. CASE FindStaleAudit(w)
  <2>1. [Left EXCEPT !.at = "audit doubt hold", !.seen = "stale"] \in ProcRows
    BY DEF Left, ProcRows, Places
  <2>2. Moved(w) /\ proc'[w].at = "audit doubt hold"
    BY <1>3, <2>1 DEF FindStaleAudit, IInv, TypeOK, Moved, ProcRows, Left
  <2> QED BY <1>1, <2>2, AsideKeeps DEF Guarded, Own, IInv, TypeOK
<1>4. Settlement(cand) \in {"idle", "record", "doubt hold"}
  BY DEF Settlement
<1> QED BY <1>2, <1>3, <1>4 DEF FindStaleSubmission, FindPoll, FindUnrecorded, FindTimedOut

LEMMA ClaimCandidateForProcessingKeeps ==
  ASSUME IInv, NEW w \in Workers, ClaimCandidateForProcessing(w)
  PROVE  IInv' /\ EndedStays
<1> w \in Procs
  BY DEF Procs
<1>1. /\ UNCHANGED <<hold, usage, media, task, audits, jobActive, callbacks, faults>>
      /\ cand.status \in {"PROVIDER_SUCCEEDED", "PROCESSING"} /\ cand.sub = "SETTLED" /\ cand.recorded
      /\ cand.quality \notin {"SUBMITTING", "AMBIGUOUS"}
  BY DEF ClaimCandidateForProcessing, Exhausted, Processable, history
<1>2. cand.quality \in {"NOT_STARTED", "RESERVED", "SUBMITTED", "SETTLED"} /\ cand.attempts \in 0 .. MaxAttempts
  BY <1>1 DEF IInv, TypeOK, CandRows, ResultOK, Ended
<1>3. CASE proc' = proc /\ cand' = [cand EXCEPT !.status = "FAILED", !.worker = NoWorker]
  <2>1. Row("FAILED", cand.sub, cand.credits, cand.recorded, cand.quality, cand.accepted)
    BY <1>3 DEF IInv, TypeOK, CandRows, Ended, Row
  <2>2. TypeOK'
    BY <1>1, <1>3, <2>1 DEF IInv, TypeOK, Row
  <2>3. (PlacesOK /\ TaskOK /\ AuditOK)'
    BY <1>1, <1>3, <2>1 DEF IInv, PlacesOK, TaskOK, AuditOK, Engaged, At, Row
  <2>4. (ChargeOK /\ ResultOK)'
    BY <1>1, <1>3, <2>1 DEF IInv, ChargeOK, SettledIsCharged, ResultOK, Ended, At, Row
  <2> QED BY <1>1, <2>2, <2>3, <2>4 DEF IInv, EndedStays, Ended
<1>4. CASE /\ cand.attempts < MaxAttempts
           /\ cand' = [cand EXCEPT !.status = "PROCESSING", !.worker = w, !.live = TRUE, !.attempts = @ + 1]
           /\ proc' = [proc EXCEPT ![w] = [Left EXCEPT !.at = "process", !.seen = cand.quality]]
  <2>1. cand.attempts + 1 \in 0 .. MaxAttempts
    BY <1>2, <1>4, PremiumMediaAssumption DEF PremiumMediaAssumption
  <2>2. Row("PROCESSING", cand.sub, cand.credits, cand.recorded, cand.quality, cand.accepted)
    BY <1>4, <2>1 DEF IInv, TypeOK, CandRows, Row
  <2>3. [Left EXCEPT !.at = "process", !.seen = cand.quality] \in ProcRows
    BY <1>2 DEF Left, ProcRows, Places
  <2>4. Moved(w) /\ proc'[w].at = "process" /\ proc'[w].seen = cand.quality
    BY <1>4, <2>3 DEF IInv, TypeOK, Moved, ProcRows, Left
  <2>5. TypeOK'
    BY <1>1, <2>2, <2>4 DEF IInv, TypeOK, Row, Moved
  <2>6. PlacesOK'
    BY <1>2, <2>4 DEF IInv, PlacesOK, Own, Moved, At
  <2>7. (TaskOK /\ AuditOK)'
    BY <1>1, <2>2, <2>4 DEF IInv, TaskOK, AuditOK, Engaged, PlacesOK, Own, Moved, At, Row
  <2>8. ChargeOK'
    BY <1>1, <2>2, <2>4 DEF IInv, ChargeOK, SettledIsCharged, Moved, At, Row
  <2>9. ResultOK'
    BY <1>1, <1>2, <2>2, <2>4 DEF IInv, ResultOK, ChargeOK, SettledIsCharged, Ended, Moved, At, Row
  <2> QED BY <1>1, <2>5, <2>6, <2>7, <2>8, <2>9 DEF IInv, EndedStays, Ended
<1> QED BY <1>3, <1>4 DEF ClaimCandidateForProcessing

LEMMA FailsKeeps ==
  ASSUME IInv, NEW p \in Procs, Fails(p)
  PROVE  IInv' /\ EndedStays
<1>1. UNCHANGED <<cand, hold, usage, media, task, audits, jobActive, callbacks>>
  BY DEF Fails, rows
<1>2. faults' \in 0 .. MaxFaults
  BY PremiumMediaAssumption DEF Fails, IInv, TypeOK, PremiumMediaAssumption
<1>3. CASE Leave(p)
  BY <1>1, <1>2, <1>3, LeaveMoves, AsideKeeps DEF Home, Guarded, Own, IInv, TypeOK
<1>4. CASE Goto(p, CaughtAt(p)) /\ CaughtAt(p) # "idle"
  <2>1. Thrown(p) \in {"audit doubt hold", "retry"}
    BY DEF Thrown
  <2>2. \/ CaughtAt(p) \in {"doubt hold", "doubt", "doubt cancelled", "start cancelled", "retry",
                            "audit doubt hold", "audit doubt"}
        \/ CaughtAt(p) \in {"reject", "unbind", "doubt submitted"} /\ proc[p].at \in Own
    BY <1>4, <2>1 DEF CaughtAt, At, Own
  <2>3. CaughtAt(p) \in Places
    BY <2>2 DEF Places, Rejections
  <2>4. To(p, CaughtAt(p))
    BY <1>4, <2>3, GotoMoves
  <2> QED BY <1>1, <1>2, <2>2, <2>4, AsideKeeps DEF To, Guarded, Own, IInv, TypeOK
<1> QED BY <1>3, <1>4 DEF Fails

\* The provider ends a task that runs, leases expire, and jobs end.
LEMMA EnvironmentKeeps ==
  ASSUME IInv, TaskEnds \/ LeaseExpires \/ JobEnds
  PROVE  IInv' /\ EndedStays
<1>1. UNCHANGED <<hold, usage, media, proc, audits, callbacks, faults>>
  BY DEF TaskEnds, LeaseExpires, JobEnds, rows, history
<1>2. /\ Row(cand.status, cand.sub, cand.credits, cand.recorded, cand.quality, cand.accepted)
      /\ jobActive' \in BOOLEAN /\ task' \in {"none", "running"} \cup Results
      /\ task' = task \/ task = "running"
  BY DEF TaskEnds, LeaseExpires, JobEnds, IInv, TypeOK, CandRows, Row, rows
<1>3. TypeOK'
  BY <1>1, <1>2 DEF IInv, TypeOK, Row
<1>4. (PlacesOK /\ TaskOK /\ AuditOK)'
  BY <1>1, <1>2 DEF IInv, PlacesOK, TaskOK, AuditOK, Engaged, At, Row
<1>5. (ChargeOK /\ ResultOK)'
  BY <1>1, <1>2 DEF IInv, ChargeOK, SettledIsCharged, ResultOK, At, Row
<1> QED BY <1>2, <1>3, <1>4, <1>5 DEF IInv, EndedStays, Row

-----------------------------------------------------------------------------
LEMMA InitHolds ==
  ASSUME Init
  PROVE  IInv
<1>1. cand.status = "none" /\ cand.sub = "UNRESERVED" /\ cand.quality = "NOT_STARTED" /\ cand \in CandRows
  BY PremiumMediaAssumption DEF Init, CandRows, PremiumMediaAssumption
<1>2. hold["task"] = "none" /\ hold["audit"] = "none" /\ hold \in [Uses -> HoldStates]
  BY DEF Init, Uses, HoldStates
<1>3. /\ proc \in [Procs -> ProcRows]
      /\ \A p \in Procs : proc[p].at = "idle" \/ (p = Submitter /\ proc[p].at = "create")
  <2>1. \A p \in Procs :
          proc[p] = [at |-> IF p = Submitter THEN "create" ELSE "idle", seen |-> "none", verdict |-> "none"]
    BY DEF Init
  <2>2. "create" \in Places /\ "idle" \in Places
    BY DEF Places
  <2>3. ASSUME NEW p \in Procs
        PROVE  proc[p] \in ProcRows
    <3>1. PICK at \in {"create", "idle"} : proc[p] = [at |-> at, seen |-> "none", verdict |-> "none"]
      BY <2>1
    <3> QED BY <2>2, <3>1 DEF ProcRows
  <2> QED BY <2>1, <2>3 DEF Init
<1>4. usage = {} /\ jobActive = TRUE /\ media = 0 /\ task = "none" /\ audits = 0 /\ callbacks = 0 /\ faults = 0
  BY DEF Init
<1>5. TypeOK
  BY <1>1, <1>2, <1>3, <1>4, PremiumMediaAssumption DEF TypeOK, PremiumMediaAssumption
<1>6. PlacesOK /\ TaskOK
  BY <1>1, <1>2, <1>3, <1>4 DEF PlacesOK, TaskOK, At, Own
<1>7. AuditOK
  <2>1. \A p \in Procs : ~Engaged(p)
    BY <1>3 DEF Engaged
  <2> QED BY <1>4, <2>1 DEF AuditOK
<1>8. ChargeOK /\ ResultOK
  BY <1>1, <1>2, <1>3, <1>4 DEF ChargeOK, SettledIsCharged, ResultOK, At, Uses
<1> QED BY <1>5, <1>6, <1>7, <1>8 DEF IInv

LEMMA NextKeeps ==
  ASSUME IInv, [Next]_vars
  PROVE  IInv' /\ EndedStays
<1>1. CASE UNCHANGED vars
  <2>1. UNCHANGED <<cand, hold, usage, jobActive, media, task, proc, audits, callbacks, faults>>
    BY <1>1 DEF vars, rows, history
  <2>2. TypeOK'
    BY <2>1 DEF IInv, TypeOK
  <2>3. (PlacesOK /\ TaskOK /\ AuditOK)'
    BY <2>1 DEF IInv, PlacesOK, TaskOK, AuditOK, Engaged, At
  <2>4. (ChargeOK /\ ResultOK)'
    BY <2>1 DEF IInv, ChargeOK, SettledIsCharged, ResultOK, At
  <2> QED BY <2>1, <2>2, <2>3, <2>4 DEF IInv, EndedStays
<1>2. ASSUME NEW p \in Procs, Submitting(p)
      PROVE  IInv' /\ EndedStays
  BY <1>2, CreateCandidateKeeps, ReserveTaskKeeps, BindCandidateProviderFundingKeeps, UnbindKeeps,
     MarkCandidateSubmissionStartedKeeps, MarkTaskSubmittingKeeps, CreateTaskKeeps,
     MarkCandidateSubmittedKeeps, MarkTaskSubmittedKeeps, DoubtSubmittedKeeps, ReleaseRefusedKeeps DEF Submitting
<1>3. ASSUME NEW p \in Procs, Settling(p)
      PROVE  IInv' /\ EndedStays
  BY <1>3, MarkCandidateSubmissionRejectedKeeps, DoubtHoldKeeps,
     MarkCandidateSubmissionAmbiguousKeeps,
     RecordTaskKeeps, ChargeTaskKeeps, MarkCandidateUsageRecordedKeeps DEF Settling
<1>4. ASSUME NEW p \in Procs, Recovering(p)
      PROVE  IInv' /\ EndedStays
  BY <1>4, CancelStaleKeeps, DoubtCancelledKeeps, StartCancelledKeeps,
     PollCandidateKeeps DEF Recovering
<1>5. ASSUME NEW p \in Procs, Auditing(p)
      PROVE  IInv' /\ EndedStays
  BY <1>5, ProcessCandidateKeeps, FailClaimedCandidateKeeps, ReserveAuditKeeps,
     BindCandidateQualityFundingKeeps, UnbindAuditKeeps, MarkCandidateQualitySubmittingKeeps,
     MarkAuditSubmittingKeeps, EvaluateMediaQualityKeeps, PersistCandidateQualityResponseKeeps,
     MarkAuditSubmittedKeeps, RecordAuditKeeps, ChargeAuditKeeps, MarkCandidateQualitySettledKeeps,
     FinishSettledQualityKeeps, AttachAcceptedCandidateKeeps, FinishStoredCandidateKeeps,
     ReleaseCandidateForRetryKeeps, ReleaseRefusedAuditKeeps, MarkCandidateQualityRejectedKeeps,
     DoubtAuditHoldKeeps, MarkCandidateQualityAmbiguousKeeps DEF Auditing
<1>6. ASSUME NEW w \in Workers, Finding(w) \/ FindTimedOut(w)
      PROVE  IInv' /\ EndedStays
  BY <1>6, FoundKeeps, ClaimCandidateForProcessingKeeps DEF Finding, Procs
<1>7. ASSUME NEW k \in Handlers, HandleKieCallback(k)
      PROVE  IInv' /\ EndedStays
  BY <1>7, HandleKieCallbackKeeps DEF Procs
<1> QED BY <1>1, <1>2, <1>3, <1>4, <1>5, <1>6, <1>7, FailsKeeps, EnvironmentKeeps DEF Next, Step

\* The invariant holds of every behaviour of the code.
THEOREM Invariance == Spec => []IInv
<1>1. Init => IInv
  BY InitHolds
<1>2. IInv /\ [Next]_vars => IInv'
  BY NextKeeps
<1> QED BY <1>1, <1>2, PTL DEF Spec

-----------------------------------------------------------------------------
\* Every variable keeps its type.
THEOREM MediaTypesHold == Spec => []TypeOK
<1>1. IInv => TypeOK
  BY DEF IInv
<1> QED BY <1>1, Invariance, PTL

\* The hold of a task or an audit that may have run is not released, whoever
\* gives up on it, and a hold that was settled has its usage in the ledger.
THEOREM CallsKeepTheirHolds == Spec => []HoldsOutlastCalls
<1>1. IInv => HoldsOutlastCalls
  <2> SUFFICES ASSUME IInv PROVE HoldsOutlastCalls
    OBVIOUS
  <2>1. task # "none" => hold["task"] # "RELEASED"
    BY DEF IInv, TaskOK, Out
  <2>2. audits > 0 => hold["audit"] # "RELEASED"
    <3>1. audits > 0 => audits = 1
      BY DEF IInv, AuditOK
    <3> QED BY <3>1 DEF IInv, AuditOK, Out
  <2>3. \A u \in Uses : hold[u] = "SETTLED" => u \in usage
    BY DEF IInv, ChargeOK
  <2> QED BY <2>1, <2>2, <2>3 DEF HoldsOutlastCalls
<1> QED BY <1>1, Invariance, PTL

\* A candidate or an audit that counts as paid was charged.
THEOREM PaidIsCharged == Spec => []SettledIsCharged
<1>1. IInv => SettledIsCharged
  BY DEF IInv, ChargeOK
<1> QED BY <1>1, Invariance, PTL

\* The audit is dispatched once, however many workers take the candidate over.
THEOREM AuditsAreNotRepeated == Spec => []AuditedOnce
<1>1. IInv => AuditedOnce
  <2>1. audits \in {0, 1} => audits <= 1
    OBVIOUS
  <2> QED BY <2>1 DEF IInv, AuditOK, AuditedOnce
<1> QED BY <1>1, Invariance, PTL

\* What is accepted is in the catalog once, audited and paid.
THEOREM AcceptedIsStoredAndPaid == Spec => []AcceptedIsWhole
<1>1. IInv => AcceptedIsWhole
  <2> SUFFICES ASSUME IInv PROVE AcceptedIsWhole
    OBVIOUS
  <2>1. media \in {0, 1} => media <= 1
    OBVIOUS
  <2>2. cand.status = "ACCEPTED" =>
          /\ media = 1 /\ cand.accepted /\ cand.recorded
          /\ hold["task"] = "SETTLED" /\ hold["audit"] = "SETTLED"
    BY DEF IInv, ResultOK, ChargeOK, SettledIsCharged
  <2>3. hold["task"] = "SETTLED" /\ hold["audit"] = "SETTLED" => hold = [u \in Uses |-> "SETTLED"]
    BY DEF IInv, TypeOK, Uses
  <2> QED BY <2>1, <2>2, <2>3 DEF AcceptedIsWhole, IInv, ResultOK
<1> QED BY <1>1, Invariance, PTL

\* A candidate that ended stays as it ended.
THEOREM EndsAreFinal == Spec => EndedIsFinal
<1>1. IInv /\ [Next]_vars => [cand.status \in Ended => cand'.status = cand.status]_vars
  BY NextKeeps DEF EndedStays
<1> QED BY <1>1, Invariance, PTL DEF Spec, EndedIsFinal
=============================================================================
