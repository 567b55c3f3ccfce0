----------------------------- MODULE AgentRuns -----------------------------
(***************************************************************************)
(* Agent runs of one workspace: how they are requested (agent.service.ts), *)
(* claimed, executed step by step and finished by leased workers           *)
(* (agent-run.worker.ts, agent.repo.ts), cancelled by their user, and      *)
(* paused, taken over and resumed through their Office work item           *)
(* (office.repo.ts), which triggers of the database keep in step with the  *)
(* run and with the action packets it leaves behind (migrations 0079, 0098 *)
(* and 0102).                                                              *)
(*                                                                         *)
(* Every statement or transaction is a step.  A process may die between    *)
(* any two, and a worker may stall for longer than its lease and go on     *)
(* afterwards.  The approval wait of old runs and the synthesis of the     *)
(* result are left out.  Operators commented "Variant:" are plausible      *)
(* mistakes and not part of the specification.                             *)
(***************************************************************************)
EXTENDS Integers, FiniteSets

CONSTANTS
  Runs,         \* agent_runs that may be requested
  Triggered,    \* those a domain event requests
  PageOf,       \* PageOf[r]: the page agent of the run
  Workers,      \* worker processes
  NoWorker,
  StepCount,    \* steps of a plan
  Packets,      \* agent_action_packets a run may leave behind (bounds the model)
  MaxControls   \* Office commands given (bounds the model)

ASSUME AgentRunsAssumption ==
  /\ Triggered \subseteq Runs /\ NoWorker \notin Workers /\ IsFiniteSet(Workers)
  /\ StepCount \in Nat \ {0} /\ MaxControls \in Nat

VARIABLES
  paused,     \* workspace_settings.settings.agents.paused
  run,        \* run[r]: the agent_runs row
  step,       \* step[r][i]: status of the i-th agent_run_steps row
  item,       \* item[r]: status of the run's office_work_items row
  packet,     \* packet[r][k]: status of the child item of its k-th action packet
  announced,  \* keys of the terminal domain events appended
  proc,       \* proc[w]: where a worker is in its execution, and what it has read
  work,       \* history: work[r][i], how often the work of a step was done
  resumes,    \* history: resumes[r], how often the user resumed the run
  controls    \* history: Office commands so far

rows == <<run, step, item, packet, announced>>
history == <<work, resumes, controls>>
vars == <<paused, rows, proc, history>>

Steps == 1 .. StepCount
Active == {"queued", "planning", "running"}
Terminal == {"completed", "failed", "cancelled"}
ItemStates == {"none", "queued", "running", "waiting", "paused", "human_controlled", "completed",
               "failed", "cancelled"}

\* Child items that work may still come of: "active" stands for queued, waiting,
\* paused, waiting_for_approval and human_controlled.
Pending == {"active", "running"}
PacketStates == Pending \cup {"none", "completed", "failed", "cancelled"}
Places == {"idle", "start", "plan", "create", "go", "check", "begin", "work", "store",
           "fail step", "finish", "abort", "cancelled", "release"}

Idle == [at |-> "idle", run |-> "none", next |-> 1, seen |-> [i \in Steps |-> "none"]]

Init ==
  /\ paused = FALSE
  /\ run = [r \in Runs |-> [status |-> "none", attempts |-> 0, worker |-> NoWorker, live |-> FALSE]]
  /\ step = [r \in Runs |-> [i \in Steps |-> "none"]]
  /\ item = [r \in Runs |-> "none"]
  /\ packet = [r \in Runs |-> [k \in Packets |-> "none"]]
  /\ announced = {}
  /\ proc = [w \in Workers |-> Idle]
  /\ work = [r \in Runs |-> [i \in Steps |-> 0]]
  /\ resumes = [r \in Runs |-> 0]
  /\ controls = 0

-----------------------------------------------------------------------------
\* The rows of a run.

\* Variant: a completed run is shown as completed, whatever its packets do.
ConcludedAtOnce(packets) == "completed"

\* office_refresh_parent_run_work_item: what the packets make of a completed run.
Concluded(packets) ==
  IF \E k \in Packets : packets[k] \in Pending THEN "waiting"
  ELSE IF \E k \in Packets : packets[k] = "failed" THEN "failed"
  ELSE IF \E k \in Packets : packets[k] = "cancelled" THEN "cancelled"
  ELSE "completed"

\* The same function for any run; an item whose run has not ended stays as it is.
Refreshed(old, row, packets) ==
  IF row.status = "cancelled" THEN "cancelled"
  ELSE IF row.status = "failed" THEN "paused"
  ELSE IF row.status = "completed" THEN Concluded(packets)
  ELSE old

\* office_materialize_agent_run, called by office_agent_run_projection_trigger: the
\* item takes the status of its run and is then refreshed.
Shown(row, packets) ==
  Refreshed(IF row.status \in {"planning", "running"} \/ row.worker # NoWorker THEN "running"
            ELSE "queued", row, packets)

\* Rows of runs change together with their work items.
Update(changed) ==
  /\ run' = changed
  /\ item' = [r \in Runs |-> IF changed[r] = run[r] THEN item[r] ELSE Shown(changed[r], packet[r])]

Set(r, row) == Update([run EXCEPT ![r] = row])

Unleased(row) == [row EXCEPT !.worker = NoWorker, !.live = FALSE]

\* Variant: a late writer may revive a cancelled run.
ChangeableAlways(r) == TRUE

\* updateRun: cancellation is terminal.
Changeable(r) == run[r].status # "cancelled"

UpdateRun(r, status) ==
  IF Changeable(r) THEN Set(r, [run[r] EXCEPT !.status = status]) ELSE UNCHANGED <<run, item>>

\* finalizeRun, one transaction: only a run that is not finished is finished.
Finalizable(r) == run[r].status \in Active

\* appendDomainEvent with a key of the run and the status
Announced(r, status) == announced \cup {<<r, status>>}

FinalizeRun(r, status) ==
  IF Finalizable(r)
  THEN /\ Set(r, [run[r] EXCEPT !.status = status])
       /\ announced' = Announced(r, status)
  ELSE UNCHANGED <<run, item, announced>>

\* A child item changes (office_work_item_changed), and its parent is refreshed.
Refresh(r) == item' = [item EXCEPT ![r] = Refreshed(@, run[r], packet'[r])]

UpdateStep(r, i, status) == step' = [step EXCEPT ![r][i] = status]

-----------------------------------------------------------------------------
\* Requests.

\* A failed run of a page stops new autonomous runs of it.
Blocked(r) == \E q \in Runs : PageOf[q] = PageOf[r] /\ run[q].status = "failed"

\* startRun, startAutomaticRun.  Whether automation is paused was read before.
Request(r) ==
  /\ run[r].status = "none"
  /\ r \in Triggered => ~Blocked(r)
  /\ Set(r, [run[r] EXCEPT !.status = "queued"])
  /\ UNCHANGED <<paused, step, packet, announced, proc, history>>

\* cancelRun, by the user of the run.
CancelRun(r) ==
  /\ run[r].status \in Active
  /\ FinalizeRun(r, "cancelled")
  /\ UNCHANGED <<paused, step, packet, proc, history>>

PauseAutomation ==
  /\ paused' = ~paused
  /\ UNCHANGED <<rows, proc, history>>

-----------------------------------------------------------------------------
\* Office controls, each one transaction (controlWorkItem).  availableControls offers
\* none for a run that is leased, and some only without child items.

Children(r) == {k \in Packets : packet[r][k] # "none"}

Control(r) ==
  /\ controls < MaxControls /\ run[r].worker = NoWorker
  /\ controls' = controls + 1

Resume(r) ==
  /\ Control(r)
  /\ item[r] \in {"paused", "human_controlled"}
  /\ \A k \in Packets : packet[r][k] # "running"
  /\ run' = [run EXCEPT ![r] = Unleased([@ EXCEPT !.status = "queued", !.attempts = 0])]
  /\ item' = [item EXCEPT ![r] = "queued"]
  /\ step' = [step EXCEPT ![r] = [i \in Steps |-> IF @[i] = "failed" THEN "pending" ELSE @[i]]]
  /\ resumes' = [resumes EXCEPT ![r] = @ + 1]
  /\ UNCHANGED <<paused, packet, announced, proc, work>>

\* pause, takeover and cancel end the run; they differ in what the item shows.
Withdraw(r, shown) ==
  /\ Control(r)
  /\ CASE shown = "paused" -> item[r] \in {"queued", "waiting"} /\ Children(r) = {}
       [] shown = "human_controlled" ->
            item[r] \notin {"none", "completed", "cancelled", "human_controlled"} /\ Children(r) = {}
       [] shown = "cancelled" -> /\ item[r] \notin {"none", "completed", "cancelled"}
                                 /\ \A k \in Packets : packet[r][k] \notin Pending
  /\ run' = [run EXCEPT ![r] = IF @.status \in {"completed", "cancelled"} THEN @
                               ELSE Unleased([@ EXCEPT !.status = "cancelled"])]
  /\ item' = [item EXCEPT ![r] = shown]
  /\ announced' = IF shown = "cancelled" THEN announced \cup {<<r, "cancelled">>} ELSE announced
  /\ UNCHANGED <<paused, step, packet, proc, work, resumes>>

-----------------------------------------------------------------------------
\* The workers.

\* What is not read again is forgotten.
Goto(w, at) ==
  proc' = [proc EXCEPT ![w] = IF at \in {"finish", "abort", "cancelled", "release"}
                              THEN [Idle EXCEPT !.at = at, !.run = proc[w].run] ELSE [@ EXCEPT !.at = at]]

Leave(w) == proc' = [proc EXCEPT ![w] = Idle]

\* Variant: the configured number of attempts is taken.
AttemptLimitConfigured == 2

AutomaticAttemptLimit == 1

Unheld(r) == run[r].worker = NoWorker \/ ~run[r].live

\* Variant: a run whose worker gave it up is left alone.
ExhaustedHeld(r) ==
  /\ run[r].status \in Active /\ ~paused
  /\ run[r].attempts >= AutomaticAttemptLimit
  /\ run[r].worker # NoWorker /\ ~run[r].live

Exhausted(r) ==
  /\ run[r].status \in Active /\ ~paused
  /\ run[r].attempts >= AutomaticAttemptLimit
  /\ Unheld(r)

Runnable(r) ==
  /\ run[r].status \in Active /\ ~paused
  /\ run[r].attempts < AutomaticAttemptLimit
  /\ Unheld(r)

Swept == [r \in Runs |-> IF Exhausted(r) THEN Unleased([run[r] EXCEPT !.status = "failed"]) ELSE run[r]]

Claimed(r, w) == [Swept EXCEPT ![r].worker = w, ![r].live = TRUE, ![r].attempts = @ + 1]

\* claimNextRunnableRun, one transaction: what was attempted and given up is
\* failed, then one run is claimed, if there is one.
ClaimNextRunnableRun(w) ==
  /\ proc[w].at = "idle"
  /\ \/ \E r \in Runs : /\ Runnable(r) /\ Update(Claimed(r, w))
                        /\ proc' = [proc EXCEPT ![w] = [Idle EXCEPT !.at = "start", !.run = r]]
     \/ /\ \A r \in Runs : ~Runnable(r)
        /\ \E r \in Runs : Exhausted(r)
        /\ Update(Swept) /\ UNCHANGED proc
  /\ announced' = announced \cup {<<r, "failed">> : r \in {q \in Runs : Exhausted(q)}}
  /\ UNCHANGED <<paused, step, packet, history>>

\* executeRun reads the steps once; a run without any is planned.
ReadSteps(w) ==
  LET r == proc[w].run
  IN /\ proc[w].at = "start"
     /\ proc' = [proc EXCEPT ![w].seen = step[r],
                             ![w].at = IF \A i \in Steps : step[r][i] = "none" THEN "plan" ELSE "check"]
     /\ UNCHANGED <<paused, rows, history>>

Plan(w) ==
  /\ proc[w].at = "plan"
  /\ UpdateRun(proc[w].run, "planning")
  /\ Goto(w, "create")
  /\ UNCHANGED <<paused, step, packet, announced, history>>

\* createSteps: one INSERT after the other; a step that exists is refused.
CreateStep(w) ==
  LET r == proc[w].run
      i == proc[w].next
  IN /\ proc[w].at = "create"
     /\ IF step[r][i] # "none" THEN Goto(w, "abort") /\ UNCHANGED step
        ELSE /\ UpdateStep(r, i, "pending")
             /\ proc' = [proc EXCEPT ![w].seen[i] = "pending",
                                     ![w].next = IF i = StepCount THEN 1 ELSE i + 1,
                                     ![w].at = IF i = StepCount THEN "go" ELSE "create"]
     /\ UNCHANGED <<paused, run, item, packet, announced, history>>

Go(w) ==
  /\ proc[w].at = "go"
  /\ UpdateRun(proc[w].run, "running")
  /\ Goto(w, "check")
  /\ UNCHANGED <<paused, step, packet, announced, history>>

\* What follows the check that the run is not cancelled.
Onward(p) ==
  IF p.next > StepCount \/ p.seen[p.next] = "none" THEN "finish"
  ELSE IF p.seen[p.next] = "completed" THEN "check" ELSE "begin"

\* assertNotCancelled, before and after each step.  A read that fails passes.
Check(w) ==
  LET p == proc[w]
  IN /\ p.at = "check"
     /\ \/ run[p.run].status = "cancelled" /\ Goto(w, "cancelled")
        \/ Onward(p) # "check" /\ Goto(w, Onward(p))
        \/ Onward(p) = "check" /\ proc' = [proc EXCEPT ![w].next = @ + 1]
     /\ UNCHANGED <<paused, rows, history>>

BeginStep(w) ==
  /\ proc[w].at = "begin"
  /\ UpdateStep(proc[w].run, proc[w].next, "running")
  /\ Goto(w, "work")
  /\ UNCHANGED <<paused, run, item, packet, announced, history>>

\* registerAgentActionPacket, by the tool page_action_writeback: what is to be
\* executed later is left behind as a packet.
LeavePacket(r, k) ==
  /\ packet[r][k] = "none"
  /\ packet' = [packet EXCEPT ![r][k] = "active"]
  /\ Refresh(r)

\* The tool or the model is called; it may do its work and fail to answer in time.
DoWork(w) ==
  LET r == proc[w].run
      i == proc[w].next
  IN /\ proc[w].at = "work"
     /\ \/ /\ work' = [work EXCEPT ![r][i] = @ + 1]
           /\ UNCHANGED <<packet, item>> \/ \E k \in Packets : LeavePacket(r, k)
           /\ Goto(w, "store") \/ Goto(w, "fail step")
        \/ UNCHANGED <<work, packet, item>> /\ Goto(w, "fail step")
     /\ UNCHANGED <<paused, run, step, announced, resumes, controls>>

\* The result is stored; what is noted about it afterwards may fail the step.
StoreResult(w) ==
  /\ proc[w].at = "store"
  /\ UpdateStep(proc[w].run, proc[w].next, "completed")
  /\ \/ proc' = [proc EXCEPT ![w].at = "check", ![w].next = @ + 1]
     \/ Goto(w, "fail step")
  /\ UNCHANGED <<paused, run, item, packet, announced, history>>

FailStep(w) ==
  /\ proc[w].at = "fail step"
  /\ UpdateStep(proc[w].run, proc[w].next, "failed")
  /\ Goto(w, "abort")
  /\ UNCHANGED <<paused, run, item, packet, announced, history>>

Outcome == [finish |-> "completed", abort |-> "failed", cancelled |-> "cancelled"]

Finish(w) ==
  /\ proc[w].at \in DOMAIN Outcome
  /\ FinalizeRun(proc[w].run, Outcome[proc[w].at])
  /\ Goto(w, "release")
  /\ UNCHANGED <<paused, step, packet, history>>

\* releaseRunLease, if the run is still the worker's.
Release(w) ==
  LET r == proc[w].run
  IN /\ proc[w].at = "release"
     /\ IF run[r].worker = w THEN Set(r, Unleased(run[r])) ELSE UNCHANGED <<run, item>>
     /\ Leave(w)
     /\ UNCHANGED <<paused, step, packet, announced, history>>

\* A statement fails: the execution fails the run, or gives up if that is what
\* failed.
StatementFails(w) ==
  /\ \/ proc[w].at \in {"plan", "create", "go", "check", "begin", "finish"} /\ Goto(w, "abort")
     \/ proc[w].at = "store" /\ Goto(w, "fail step")
     \/ proc[w].at = "fail step" /\ Goto(w, "abort")
     \/ proc[w].at \in {"start", "abort", "cancelled"} /\ Goto(w, "release")
     \/ proc[w].at = "release" /\ Leave(w)
  /\ UNCHANGED <<paused, rows, history>>

Dies(w) ==
  /\ proc[w].at # "idle"
  /\ Leave(w)
  /\ UNCHANGED <<paused, rows, history>>

\* heartbeatRun, while the worker processes the run.
HeartbeatRun(w) ==
  LET r == proc[w].run
  IN /\ proc[w].at # "idle"
     /\ run[r].worker = w /\ run[r].status \in Active /\ ~run[r].live
     /\ Set(r, [run[r] EXCEPT !.live = TRUE])
     /\ UNCHANGED <<paused, step, packet, announced, proc, history>>

LeaseExpires(r) ==
  /\ run[r].live
  /\ run' = [run EXCEPT ![r].live = FALSE]
  /\ UNCHANGED <<paused, step, item, packet, announced, proc, history>>

-----------------------------------------------------------------------------
\* What the execution worker, the events of providers and the Office make of a
\* packet: a failed execution is paused; a planning artifact stays queued.
PacketMoves == [active |-> {"running", "completed", "failed", "cancelled"},
                running |-> {"active", "completed"},
                failed |-> {"active", "cancelled"}]

MovePacket(r, k) ==
  /\ packet[r][k] \in DOMAIN PacketMoves
  /\ \E to \in PacketMoves[packet[r][k]] : packet' = [packet EXCEPT ![r][k] = to]
  /\ Refresh(r)
  /\ UNCHANGED <<paused, run, step, announced, proc, history>>

-----------------------------------------------------------------------------
Working(w) ==
  \/ ReadSteps(w) \/ Plan(w) \/ CreateStep(w) \/ Go(w) \/ Check(w) \/ BeginStep(w)
  \/ DoWork(w) \/ StoreResult(w) \/ FailStep(w) \/ Finish(w) \/ Release(w)

Users ==
  \/ PauseAutomation
  \/ \E r \in Runs :
       \/ Request(r) \/ CancelRun(r) \/ Resume(r)
       \/ \E shown \in {"paused", "human_controlled", "cancelled"} : Withdraw(r, shown)

Next ==
  \/ Users
  \/ \E r \in Runs : LeaseExpires(r) \/ \E k \in Packets : MovePacket(r, k)
  \/ \E w \in Workers : \/ ClaimNextRunnableRun(w) \/ Working(w) \/ HeartbeatRun(w)
                        \/ StatementFails(w) \/ Dies(w)

Spec == Init /\ [][Next]_vars

\* Workers poll on a timer, every await ends (tools and models have a timeout),
\* and a lease that nobody renews runs out.
Fairness ==
  /\ WF_vars(\E w \in Workers : ClaimNextRunnableRun(w))
  /\ WF_vars(\E w \in Workers : Working(w) \/ StatementFails(w))
  /\ WF_vars(\E r \in Runs : LeaseExpires(r) /\ \A w \in Workers : proc[w].run # r)

FairSpec == Spec /\ Fairness
-----------------------------------------------------------------------------
Procs == [at : Places, run : Runs \cup {"none"}, next : 1 .. StepCount + 1,
          seen : [Steps -> {"none", "pending", "running", "completed", "failed"}]]

\* Type correctness; a run is never counted as attempted more than once.
TypeOK ==
  /\ paused \in BOOLEAN
  /\ run \in [Runs -> [status : Active \cup Terminal \cup {"none"},
                       attempts : 0 .. AutomaticAttemptLimit,
                       worker : Workers \cup {NoWorker}, live : BOOLEAN]]
  /\ step \in [Runs -> [Steps -> {"none", "pending", "running", "completed", "failed"}]]
  /\ item \in [Runs -> ItemStates]
  /\ packet \in [Runs -> [Packets -> PacketStates]]
  /\ announced \in SUBSET (Runs \X Terminal)
  /\ proc \in [Workers -> Procs]
  /\ work \in [Runs -> [Steps -> Nat]]
  /\ resumes \in [Runs -> Nat]
  /\ controls \in Nat

\* The work of a step is done and paid once, and once more for every time the
\* user resumes the run: no crash, lost lease or late worker makes automation
\* replay it (claimNextRunnableRun: "Recovery is an explicit Office Resume/Retry
\* action, never an automatic worker decision").
NeverReplayed == \A r \in Runs, i \in Steps : work[r][i] <= 1 + resumes[r]

\* The Office shows what may still happen to a run: what is shown as queued or
\* running will be worked on or failed, and no worker will claim what is shown
\* otherwise; a failed run is shown as paused, where it can be resumed, and no
\* completed run is, since a resume would repeat it; a completed run is shown as
\* waiting exactly while one of its packets is pending, and as completed exactly
\* when all of them were (migration 0079: "A reasoning run is not finished from the
\* Office perspective while one of its persisted action packets is still executing").
OfficeAgrees ==
  \A r \in Runs :
    /\ item[r] \in {"queued", "running"} <=> run[r].status \in Active
    /\ run[r].status = "failed" => item[r] = "paused"
    /\ item[r] \in {"paused", "human_controlled"} => run[r].status \in {"failed", "cancelled"}
    /\ item[r] = "failed" =>
         run[r].status = "completed" /\ \E k \in Packets : packet[r][k] = "failed"
    /\ item[r] = "waiting" <=>
         run[r].status = "completed" /\ \E k \in Packets : packet[r][k] \in Pending
    /\ item[r] = "completed" <=>
         run[r].status = "completed" /\ \A k \in Children(r) : packet[r][k] = "completed"

\* A run that finished is known to have finished: a completed or failed run has
\* the event that tells its consumers so.
FinishIsAnnounced ==
  \A r \in Runs : run[r].status \in {"completed", "failed"} => <<r, run[r].status>> \in announced

\* Only the user's explicit resume takes a run out of cancellation: no worker
\* that returns late does.
CancelledIsFinal ==
  [][\A r \in Runs : run[r].status = "cancelled" /\ run'[r].status # "cancelled"
                      => resumes'[r] > resumes[r]]_vars

\* Every run that is requested or resumed ends or is paused with its workspace,
\* although workers die, stall, fail to finish it or fail to give it up.
EveryRunEnds == \A r \in Runs : []<>(run[r].status \notin Active \/ paused)

\* A run is completed only with all the steps of its plan (docs/agent-ecosystem.md).
CompletedIsWhole ==
  \A r \in Runs : run[r].status = "completed" => \A i \in Steps : step[r][i] # "none"

\* A failed run stays failed until its user resumes it (getBlockedPageRun).
FailureIsDurable ==
  [][\A r \in Runs : run[r].status = "failed" /\ run'[r].status \notin {"failed", "cancelled"}
                      => resumes'[r] > resumes[r]]_vars
=============================================================================
