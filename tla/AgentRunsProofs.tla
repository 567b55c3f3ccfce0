-------------------------- MODULE AgentRunsProofs --------------------------
(***************************************************************************)
(* Safety of agent runs for any number of runs, workers and steps of a     *)
(* plan: rows keep their types, the Office agrees with the runs, what is   *)
(* finished is announced, no late worker revives what was cancelled, and   *)
(* no work is repeated that the user did not ask to repeat.                *)
(***************************************************************************)
EXTENDS AgentRuns, FiniteSetTheorems, TLAPS

RunRows == [status : Active \cup Terminal \cup {"none"}, attempts : 0 .. AutomaticAttemptLimit,
            worker : Workers \cup {NoWorker}, live : BOOLEAN]

StepStates == {"none", "pending", "running", "completed", "failed"}

\* A run that was not requested is not leased.
UnrequestedIsUnleased == \A r \in Runs : run[r].status = "none" => run[r].worker = NoWorker

\* A worker that is at work has a run, and stands at a step of its plan where it
\* handles one.
PlacesOK ==
  \A w \in Workers :
    /\ proc[w].at # "idle" => proc[w].run \in Runs
    /\ proc[w].at \in {"start", "plan"} => proc[w].next = 1
    /\ proc[w].at \in {"create", "begin", "work", "store", "fail step"} => proc[w].next \in Steps

\* What is inductive about types.
Typed == TypeOK /\ UnrequestedIsUnleased /\ PlacesOK

-----------------------------------------------------------------------------
\* Rows change with their items only.
LEMMA UpdateTyped ==
  ASSUME TypeOK, NEW changed \in [Runs -> RunRows], Update(changed)
  PROVE  run' \in [Runs -> RunRows] /\ item' \in [Runs -> ItemStates]
<1>1. \A r \in Runs : Shown(changed[r], packet[r]) \in ItemStates
  BY DEF TypeOK, Shown, Refreshed, Concluded, ItemStates, RunRows, Active, Terminal
<1> QED BY <1>1 DEF Update, TypeOK

LEMMA RefreshTyped ==
  ASSUME TypeOK, NEW r \in Runs, Refresh(r)
  PROVE  item' \in [Runs -> ItemStates]
<1>1. Refreshed(item[r], run[r], packet'[r]) \in ItemStates
  BY DEF TypeOK, Refreshed, Concluded, ItemStates
<1> QED BY <1>1 DEF Refresh, TypeOK

LEMMA SetTyped ==
  ASSUME TypeOK, NEW r \in Runs, NEW new \in RunRows, Set(r, new)
  PROVE  run' \in [Runs -> RunRows] /\ item' \in [Runs -> ItemStates] /\ run' = [run EXCEPT ![r] = new]
<1>1. [run EXCEPT ![r] = new] \in [Runs -> RunRows]
  BY DEF TypeOK, RunRows
<1> QED BY <1>1, UpdateTyped DEF Set, Update

LEMMA UnleasedTyped ==
  ASSUME NEW old \in RunRows
  PROVE  Unleased(old) \in RunRows /\ Unleased(old).worker = NoWorker
                       /\ Unleased(old).status = old.status /\ Unleased(old).attempts = old.attempts
BY DEF RunRows, Unleased

\* A run is given a status and keeps its lease and attempts.
LEMMA StatusTyped ==
  ASSUME TypeOK, NEW r \in Runs, NEW s \in Active \cup Terminal,
         UpdateRun(r, s) \/ FinalizeRun(r, s)
  PROVE  /\ run' \in [Runs -> RunRows] /\ item' \in [Runs -> ItemStates]
         /\ \A q \in Runs : run'[q] = run[q] \/ (q = r /\ run'[q] = [run[r] EXCEPT !.status = s])
<1>1. run \in [Runs -> RunRows] /\ item \in [Runs -> ItemStates]
  BY DEF TypeOK, RunRows
<1>2. [run[r] EXCEPT !.status = s] \in RunRows
  BY <1>1 DEF RunRows
<1>3. CASE UNCHANGED <<run, item>>
  BY <1>1, <1>3
<1>4. CASE Set(r, [run[r] EXCEPT !.status = s])
  BY <1>1, <1>2, <1>4, SetTyped
<1> QED BY <1>3, <1>4 DEF UpdateRun, FinalizeRun

LEMMA SweptTyped ==
  ASSUME TypeOK
  PROVE  /\ Swept \in [Runs -> RunRows]
         /\ \A q \in Runs : /\ Swept[q] = run[q] \/ Exhausted(q)
                            /\ Swept[q].attempts = run[q].attempts
                            /\ Exhausted(q) => Swept[q].status = "failed" /\ Swept[q].worker = NoWorker
<1>1. ASSUME NEW q \in Runs
      PROVE  /\ Unleased([run[q] EXCEPT !.status = "failed"]) \in RunRows
             /\ Unleased([run[q] EXCEPT !.status = "failed"]).status = "failed"
             /\ Unleased([run[q] EXCEPT !.status = "failed"]).worker = NoWorker
             /\ Unleased([run[q] EXCEPT !.status = "failed"]).attempts = run[q].attempts
  BY DEF TypeOK, RunRows, Unleased, Terminal
<1>2. run \in [Runs -> RunRows]
  BY DEF TypeOK, RunRows
<1> QED BY <1>1, <1>2 DEF Swept

LEMMA ClaimedTyped ==
  ASSUME TypeOK, NEW r \in Runs, NEW w \in Workers, Runnable(r)
  PROVE  /\ Claimed(r, w) \in [Runs -> RunRows]
         /\ \A q \in Runs \ {r} : Claimed(r, w)[q] = Swept[q]
         /\ Claimed(r, w)[r].status = run[r].status
         /\ Claimed(r, w)[r].attempts = run[r].attempts + 1
         /\ Claimed(r, w)[r].worker = w
<1>1. ~Exhausted(r) /\ run[r].attempts = 0
  BY DEF TypeOK, Runnable, Exhausted, AutomaticAttemptLimit
<1>2. Swept \in [Runs -> RunRows] /\ Swept[r] = run[r]
  BY <1>1, SweptTyped
<1>3. [Swept EXCEPT ![r].worker = w, ![r].live = TRUE, ![r].attempts = @ + 1]
        = [Swept EXCEPT ![r] = [run[r] EXCEPT !.worker = w, !.live = TRUE, !.attempts = @ + 1]]
  BY <1>2 DEF RunRows
<1>4. [run[r] EXCEPT !.worker = w, !.live = TRUE, !.attempts = @ + 1] \in RunRows
  <2>1. run[r] \in RunRows /\ run[r].attempts + 1 \in 0 .. AutomaticAttemptLimit
    BY <1>1 DEF TypeOK, RunRows, AutomaticAttemptLimit
  <2> QED BY <2>1 DEF RunRows
<1> QED BY <1>1, <1>2, <1>3, <1>4 DEF Claimed, RunRows

LEMMA IdleTyped == Idle \in Procs /\ Idle.at = "idle" /\ Idle.run = "none" /\ Idle.next = 1
BY AgentRunsAssumption DEF Procs, Idle, Places, Steps

\* Where a worker goes.
LEMMA GotoTyped ==
  ASSUME TypeOK, PlacesOK, NEW w \in Workers, NEW at \in Places, proc[w].at # "idle", Goto(w, at),
         at \in {"start", "plan"} => proc[w].next = 1,
         at \in {"create", "begin", "work", "store", "fail step"} => proc[w].next \in Steps
  PROVE  proc' \in [Workers -> Procs] /\ PlacesOK'
<1> DEFINE new == IF at \in {"finish", "abort", "cancelled", "release"}
                  THEN [Idle EXCEPT !.at = at, !.run = proc[w].run] ELSE [proc[w] EXCEPT !.at = at]
<1>1. proc' = [proc EXCEPT ![w] = new]
  BY DEF Goto, TypeOK
<1>2. new \in Procs /\ new.run = proc[w].run /\ new.at = at
  <2>1. proc[w] \in Procs /\ Idle \in Procs
    BY IdleTyped DEF TypeOK
  <2> QED BY <2>1 DEF Procs
<1>3. at \notin {"finish", "abort", "cancelled", "release"} => new.next = proc[w].next
  BY DEF TypeOK, Procs
<1> HIDE DEF new
<1> QED BY <1>1, <1>2, <1>3 DEF TypeOK, PlacesOK

LEMMA LeaveTyped ==
  ASSUME TypeOK, PlacesOK, NEW w \in Workers, Leave(w)
  PROVE  proc' \in [Workers -> Procs] /\ PlacesOK'
<1> QED BY IdleTyped DEF Leave, TypeOK, PlacesOK

-----------------------------------------------------------------------------
\* The rows of a step: what its conjuncts about rows have to show.
RowsTyped ==
  /\ run \in [Runs -> RunRows] /\ item \in [Runs -> ItemStates]
  /\ step \in [Runs -> [Steps -> StepStates]]
  /\ packet \in [Runs -> [Packets -> PacketStates]]
  /\ announced \in SUBSET (Runs \X Terminal)
  /\ UnrequestedIsUnleased

HistoryTyped ==
  work \in [Runs -> [Steps -> Nat]] /\ resumes \in [Runs -> Nat] /\ controls \in Nat

ProcTyped == proc \in [Workers -> Procs] /\ PlacesOK

LEMMA TypedParts == Typed <=> RowsTyped /\ HistoryTyped /\ ProcTyped /\ paused \in BOOLEAN
BY DEF Typed, TypeOK, RowsTyped, HistoryTyped, ProcTyped, RunRows, StepStates

LEMMA TypedNext == RowsTyped' /\ HistoryTyped' /\ ProcTyped' /\ paused' \in BOOLEAN => Typed'
BY DEF Typed, TypeOK, RowsTyped, HistoryTyped, ProcTyped, RunRows, StepStates

LEMMA InitTyped == Init => Typed
<1> SUFFICES ASSUME Init PROVE Typed
  OBVIOUS
<1>1. RowsTyped
  BY DEF Init, RowsTyped, RunRows, StepStates, ItemStates, PacketStates, UnrequestedIsUnleased, AutomaticAttemptLimit
<1>2. HistoryTyped
  BY DEF Init, HistoryTyped
<1>3. ProcTyped
  BY IdleTyped DEF Init, ProcTyped, PlacesOK
<1> QED BY <1>1, <1>2, <1>3, TypedParts DEF Init

\* What users do to the rows.
LEMMA UsersTyped == Typed /\ Users => Typed'
<1> SUFFICES ASSUME Typed, Users PROVE Typed'
  OBVIOUS
<1>a. TypeOK /\ RowsTyped /\ HistoryTyped /\ ProcTyped /\ paused \in BOOLEAN
  BY TypedParts DEF Typed
<1>b. proc' = proc
  BY DEF Users, Request, CancelRun, PauseAutomation, Resume, Withdraw
<1>c. ProcTyped'
  BY <1>a, <1>b DEF ProcTyped, PlacesOK
<1>1. CASE PauseAutomation
  <2>1. RowsTyped' /\ HistoryTyped' /\ paused' \in BOOLEAN
    BY <1>1, <1>a DEF PauseAutomation, rows, history, RowsTyped, HistoryTyped, UnrequestedIsUnleased
  <2> QED BY <1>c, <2>1, TypedNext
<1>2. ASSUME NEW r \in Runs, Request(r) PROVE Typed'
  <2>1. [run[r] EXCEPT !.status = "queued"] \in RunRows
    BY <1>a DEF RowsTyped, RunRows, Active
  <2>2. run' = [run EXCEPT ![r] = [run[r] EXCEPT !.status = "queued"]]
        /\ run' \in [Runs -> RunRows] /\ item' \in [Runs -> ItemStates]
    BY <1>2, <1>a, <2>1, SetTyped DEF Request
  <2>3. RowsTyped'
    BY <1>2, <1>a, <2>1, <2>2 DEF Request, RowsTyped, UnrequestedIsUnleased, RunRows
  <2>4. HistoryTyped' /\ paused' = paused
    BY <1>2, <1>a DEF Request, history, HistoryTyped
  <2> QED BY <1>a, <1>c, <2>3, <2>4, TypedNext
<1>3. ASSUME NEW r \in Runs, CancelRun(r) PROVE Typed'
  <2>1. /\ run' \in [Runs -> RunRows] /\ item' \in [Runs -> ItemStates]
        /\ \A q \in Runs : run'[q] = run[q] \/ (q = r /\ run'[q] = [run[r] EXCEPT !.status = "cancelled"])
    BY <1>3, <1>a, StatusTyped DEF CancelRun, Terminal
  <2>2. [run[r] EXCEPT !.status = "cancelled"].status = "cancelled"
    BY <1>a DEF RowsTyped, RunRows
  <2>5. announced' \in SUBSET (Runs \X Terminal) /\ step' = step /\ packet' = packet
    BY <1>3, <1>a DEF CancelRun, FinalizeRun, Announced, RowsTyped, Terminal
  <2>6. UnrequestedIsUnleased'
    BY <1>a, <2>1, <2>2 DEF RowsTyped, UnrequestedIsUnleased
  <2>3. RowsTyped'
    BY <1>a, <2>1, <2>5, <2>6 DEF RowsTyped
  <2>4. HistoryTyped' /\ paused' = paused
    BY <1>3, <1>a DEF CancelRun, history, HistoryTyped
  <2> QED BY <1>a, <1>c, <2>3, <2>4, TypedNext
<1>4. ASSUME NEW r \in Runs, Resume(r) PROVE Typed'
  <2> DEFINE new == Unleased([run[r] EXCEPT !.status = "queued", !.attempts = 0])
  <2>1. new \in RunRows /\ new.status = "queued"
    <3>1. 0 \in 0 .. AutomaticAttemptLimit
      BY DEF AutomaticAttemptLimit
    <3>2. [run[r] EXCEPT !.status = "queued", !.attempts = 0] \in RunRows
      BY <1>a, <3>1 DEF RowsTyped, RunRows, Active
    <3>3. [run[r] EXCEPT !.status = "queued", !.attempts = 0].status = "queued"
      BY <1>a DEF RowsTyped, RunRows
    <3> QED BY <3>2, <3>3, UnleasedTyped
  <2>2. run' = [run EXCEPT ![r] = new]
    BY <1>4, <1>a DEF Resume, RowsTyped
  <2>3. step' \in [Runs -> [Steps -> StepStates]]
    BY <1>4, <1>a DEF Resume, RowsTyped, StepStates
  <2>4. item' \in [Runs -> ItemStates]
    BY <1>4, <1>a DEF Resume, RowsTyped, ItemStates
  <2> HIDE DEF new
  <2>5. run' \in [Runs -> RunRows] /\ UnrequestedIsUnleased'
    BY <1>a, <2>1, <2>2 DEF RowsTyped, UnrequestedIsUnleased
  <2>6. RowsTyped'
    BY <1>4, <1>a, <2>3, <2>4, <2>5 DEF Resume, RowsTyped
  <2>7. HistoryTyped'
    BY <1>4, <1>a DEF Resume, Control, HistoryTyped
  <2> QED BY <1>4, <1>a, <1>c, <2>6, <2>7, TypedNext DEF Resume
<1>5. ASSUME NEW r \in Runs, NEW shown \in {"paused", "human_controlled", "cancelled"}, Withdraw(r, shown)
      PROVE Typed'
  <2> DEFINE new == IF run[r].status \in {"completed", "cancelled"} THEN run[r]
                    ELSE Unleased([run[r] EXCEPT !.status = "cancelled"])
  <2>1. new \in RunRows /\ new.status \in {"completed", "cancelled"}
    BY <1>a DEF RowsTyped, RunRows, Unleased, Terminal
  <2>2. run' = [run EXCEPT ![r] = new]
    BY <1>5, <1>a DEF Withdraw, RowsTyped
  <2>4. item' \in [Runs -> ItemStates]
    BY <1>5, <1>a DEF Withdraw, RowsTyped, ItemStates
  <2>3. announced' \in SUBSET (Runs \X Terminal)
    BY <1>5, <1>a DEF Withdraw, RowsTyped, Terminal
  <2> HIDE DEF new
  <2>5. run' \in [Runs -> RunRows] /\ UnrequestedIsUnleased'
    BY <1>a, <2>1, <2>2 DEF RowsTyped, UnrequestedIsUnleased
  <2>6. RowsTyped'
    BY <1>5, <1>a, <2>3, <2>4, <2>5 DEF Withdraw, RowsTyped
  <2>7. HistoryTyped'
    BY <1>5, <1>a DEF Withdraw, Control, HistoryTyped
  <2> QED BY <1>5, <1>a, <1>c, <2>6, <2>7, TypedNext DEF Withdraw
<1> QED BY <1>1, <1>2, <1>3, <1>4, <1>5 DEF Users

\* What workers do.
LEMMA WorkersTyped ==
  ASSUME Typed, NEW w \in Workers,
         ClaimNextRunnableRun(w) \/ Working(w) \/ HeartbeatRun(w) \/ StatementFails(w) \/ Dies(w)
  PROVE  Typed'
<1>a. TypeOK /\ RowsTyped /\ HistoryTyped /\ ProcTyped /\ PlacesOK /\ paused \in BOOLEAN
  BY TypedParts DEF Typed, ProcTyped
<1>b. ASSUME UNCHANGED rows PROVE RowsTyped'
  BY <1>a, <1>b DEF rows, RowsTyped, UnrequestedIsUnleased
<1>c. ASSUME UNCHANGED history PROVE HistoryTyped'
  BY <1>a, <1>c DEF history, HistoryTyped
<1>d. proc[w].at # "idle" => proc[w].run \in Runs
  BY <1>a DEF PlacesOK
<1>e. proc[w] \in Procs /\ proc \in [Workers -> Procs]
  BY <1>a DEF ProcTyped
<1>1. CASE ClaimNextRunnableRun(w)
  <2>1. ASSUME NEW changed \in [Runs -> RunRows], Update(changed), changed \in {Swept} \cup {Claimed(r, w) : r \in {q \in Runs : Runnable(q)}}
        PROVE  RowsTyped'
    <3>1. run' \in [Runs -> RunRows] /\ item' \in [Runs -> ItemStates] /\ run' = changed
      BY <1>a, <2>1, UpdateTyped DEF Update
    <3>2. \A q \in Runs : Swept[q].status = "none" => Swept[q].worker = NoWorker
      BY <1>a, SweptTyped DEF RowsTyped, UnrequestedIsUnleased
    <3>3. \A q \in Runs : changed[q].status = "none" => changed[q].worker = NoWorker
      <4>1. CASE changed = Swept
        BY <3>2, <4>1
      <4>2. ASSUME NEW r \in Runs, Runnable(r), changed = Claimed(r, w) 
            PROVE  \A q \in Runs : changed[q].status = "none" => changed[q].worker = NoWorker
        <5>1. run[r].status # "none"
          BY <4>2 DEF Runnable, Active
        <5>2. /\ \A q \in Runs \ {r} : changed[q] = Swept[q]
              /\ changed[r].status = run[r].status
          BY <1>a, <4>2, ClaimedTyped
        <5> QED BY <3>2, <5>1, <5>2
      <4> QED BY <2>1, <4>1, <4>2
    <3>4. announced' \in SUBSET (Runs \X Terminal)
      <4>1. announced' = announced \cup {<<r, "failed">> : r \in {q \in Runs : Exhausted(q)}}
        BY <1>1 DEF ClaimNextRunnableRun
      <4>2. announced \in SUBSET (Runs \X Terminal) /\ "failed" \in Terminal
        BY <1>a DEF RowsTyped, Terminal
      <4> QED BY <4>1, <4>2
    <3> QED BY <1>1, <1>a, <3>1, <3>3, <3>4 DEF ClaimNextRunnableRun, RowsTyped, UnrequestedIsUnleased
  <2>2. CASE \E r \in Runs : /\ Runnable(r) /\ Update(Claimed(r, w))
                             /\ proc' = [proc EXCEPT ![w] = [Idle EXCEPT !.at = "start", !.run = r]]
    <3>1. PICK r \in Runs : /\ Runnable(r) /\ Update(Claimed(r, w))
                            /\ proc' = [proc EXCEPT ![w] = [Idle EXCEPT !.at = "start", !.run = r]]
      BY <2>2
    <3>2. RowsTyped'
      BY <1>a, <2>1, <3>1, ClaimedTyped
    <3>3. ProcTyped'
      <4> DEFINE new == [Idle EXCEPT !.at = "start", !.run = r]
      <4>1. new \in Procs /\ new.run = r /\ new.at = "start" /\ new.next = 1
        BY IdleTyped DEF Procs, Places
      <4> HIDE DEF new
      <4>2. proc' = [proc EXCEPT ![w] = new]
        BY <3>1 DEF new
      <4> QED BY <1>a, <4>1, <4>2 DEF ProcTyped, PlacesOK
    <3> QED BY <1>1, <1>a, <1>c, <3>2, <3>3, TypedNext DEF ClaimNextRunnableRun
  <2>3. CASE Update(Swept) /\ UNCHANGED proc
    <3>1. RowsTyped'
      BY <1>a, <2>1, <2>3, SweptTyped
    <3>2. ProcTyped'
      BY <1>a, <2>3 DEF ProcTyped, PlacesOK
    <3> QED BY <1>1, <1>a, <1>c, <3>1, <3>2, TypedNext DEF ClaimNextRunnableRun
  <2> QED BY <1>1, <2>2, <2>3 DEF ClaimNextRunnableRun
<1>2. CASE ReadSteps(w)
  <2> DEFINE at == IF \A i \in Steps : step[proc[w].run][i] = "none" THEN "plan" ELSE "check"
             new == [proc[w] EXCEPT !.seen = step[proc[w].run], !.at = at]
  <2>1. proc' = [proc EXCEPT ![w] = new]
    BY <1>2, <1>e DEF ReadSteps
  <2>2. step[proc[w].run] \in [Steps -> StepStates]
    BY <1>2, <1>a, <1>d DEF ReadSteps, RowsTyped
  <2>3. new \in Procs /\ new.run = proc[w].run /\ new.at \in {"plan", "check"} /\ new.next = 1
    BY <1>2, <1>a, <1>e, <2>2 DEF Procs, Places, StepStates, PlacesOK, ReadSteps
  <2> HIDE DEF new
  <2>4. ProcTyped'
    BY <1>2, <1>a, <1>d, <2>1, <2>3 DEF ProcTyped, PlacesOK, ReadSteps
  <2> QED BY <1>2, <1>a, <1>b, <1>c, <2>4, TypedNext DEF ReadSteps
<1>3. ASSUME NEW s \in Active, NEW to \in {"create", "check"}, proc[w].at \in {"plan", "go"}, UpdateRun(proc[w].run, s),
             Goto(w, to), to = "create" => proc[w].at = "plan", UNCHANGED <<paused, step, packet, announced, history>>
      PROVE  Typed'
  <2>1. /\ run' \in [Runs -> RunRows] /\ item' \in [Runs -> ItemStates]
        /\ \A q \in Runs : run'[q] = run[q] \/ (q = proc[w].run /\ run'[q] = [run[q] EXCEPT !.status = s])
    BY <1>3, <1>a, <1>d, StatusTyped
  <2>2. \A q \in Runs : [run[q] EXCEPT !.status = s].status = s
    BY <1>a DEF RowsTyped, RunRows
  <2>3. RowsTyped'
    BY <1>3, <1>a, <2>1, <2>2 DEF RowsTyped, UnrequestedIsUnleased, Active
  <2>4. to = "create" => proc[w].next \in Steps
    <3>1. to = "create" => proc[w].next = 1
      BY <1>3, <1>a DEF PlacesOK
    <3>2. 1 \in Steps
      BY AgentRunsAssumption DEF Steps
    <3> QED BY <3>1, <3>2
  <2>5. ProcTyped'
    BY <1>3, <1>a, <2>4, GotoTyped DEF ProcTyped, Places
  <2> QED BY <1>3, <1>a, <1>c, <2>3, <2>5, TypedNext
<1>4. CASE Plan(w)
  BY <1>3, <1>4 DEF Plan, Active
<1>5. CASE Go(w)
  BY <1>3, <1>5 DEF Go, Active
<1>6. ASSUME NEW r \in Runs, NEW i \in Steps, NEW s \in StepStates, UpdateStep(r, i, s) \/ UNCHANGED step,
             UNCHANGED <<run, item, packet, announced>>
      PROVE  RowsTyped'
  <2>1. step' \in [Runs -> [Steps -> StepStates]]
    <3>1. step \in [Runs -> [Steps -> StepStates]]
      BY <1>a DEF RowsTyped
    <3> QED BY <1>6, <3>1 DEF UpdateStep
  <2> QED BY <1>6, <1>a, <2>1 DEF RowsTyped, UnrequestedIsUnleased
<1>f. proc[w].at \in {"create", "begin", "work", "store", "fail step"} => proc[w].next \in Steps
  BY <1>a DEF PlacesOK
<1>7. CASE CreateStep(w)
  <2>1. proc[w].run \in Runs /\ proc[w].next \in Steps
    BY <1>7, <1>d, <1>f DEF CreateStep
  <2>2. RowsTyped'
    BY <1>6, <1>7, <2>1 DEF CreateStep, StepStates
  <2>3. ProcTyped'
    <3>1. CASE Goto(w, "abort")
      BY <1>7, <1>a, <3>1, GotoTyped DEF CreateStep, ProcTyped, Places
    <3>2. CASE proc' = [proc EXCEPT ![w].seen[proc[w].next] = "pending",
                               ![w].next = IF proc[w].next = StepCount THEN 1 ELSE proc[w].next + 1,
                               ![w].at = IF proc[w].next = StepCount THEN "go" ELSE "create"]
      <4> DEFINE new == [proc[w] EXCEPT !.seen = [proc[w].seen EXCEPT ![proc[w].next] = "pending"],
                               !.next = IF proc[w].next = StepCount THEN 1 ELSE proc[w].next + 1,
                               !.at = IF proc[w].next = StepCount THEN "go" ELSE "create"]
      <4>1. proc' = [proc EXCEPT ![w] = new]
        BY <3>2, <1>e DEF Procs
      <4>2. proc[w].next \in 1 .. StepCount /\ StepCount \in Nat
        BY <2>1, AgentRunsAssumption DEF Steps
      <4>3. [proc[w].seen EXCEPT ![proc[w].next] = "pending"] \in [Steps -> StepStates]
        BY <1>e DEF Procs, StepStates
      <4>4. (IF proc[w].next = StepCount THEN 1 ELSE proc[w].next + 1) \in 1 .. StepCount
        BY <4>2
      <4>5. /\ new \in Procs /\ new.run \in Runs /\ new.at \in {"go", "create"} /\ new.next \in Steps
        <5>1. (IF proc[w].next = StepCount THEN 1 ELSE proc[w].next + 1) \in 1 .. StepCount + 1
          BY <4>2, <4>4
        <5>2. {"go", "create"} \subseteq Places
          BY DEF Places
        <5> QED BY <1>e, <2>1, <4>3, <4>4, <5>1, <5>2 DEF Procs, StepStates, Steps
      <4> HIDE DEF new
      <4> QED BY <1>a, <4>1, <4>5 DEF ProcTyped, PlacesOK
    <3> QED BY <1>7, <3>1, <3>2 DEF CreateStep
  <2> QED BY <1>7, <1>a, <1>c, <2>2, <2>3, TypedNext DEF CreateStep
<1>8. CASE Check(w)
  <2>1. Onward(proc[w]) \in {"finish", "check", "begin"}
    BY DEF Onward
  <2>2. Onward(proc[w]) # "finish" => proc[w].next \in Steps
    BY <1>e, AgentRunsAssumption DEF Onward, Procs, Steps
  <2>3. ProcTyped'
    <3>1. ASSUME NEW at \in {"cancelled", "finish", "begin"}, Goto(w, at), at = "begin" => Onward(proc[w]) = "begin"
          PROVE  ProcTyped'
      BY <1>8, <1>a, <2>2, <3>1, GotoTyped DEF Check, ProcTyped, Places
    <3>2. CASE Onward(proc[w]) = "check" /\ proc' = [proc EXCEPT ![w].next = @ + 1]
      <4> DEFINE new == [proc[w] EXCEPT !.next = @ + 1]
      <4>1. proc' = [proc EXCEPT ![w] = new]
        BY <1>e, <3>2
      <4>2. proc[w].next + 1 \in 1 .. StepCount + 1
        BY <2>2, <3>2, AgentRunsAssumption DEF Steps
      <4>3. new \in Procs /\ new.run = proc[w].run /\ new.at = "check"
        BY <1>8, <1>e, <4>2 DEF Procs, Check
      <4> HIDE DEF new
      <4> QED BY <1>8, <1>a, <4>1, <4>3 DEF ProcTyped, PlacesOK, Check
    <3> QED BY <1>8, <2>1, <3>1, <3>2 DEF Check
  <2> QED BY <1>8, <1>a, <1>b, <1>c, <2>3, TypedNext DEF Check
<1>9. ASSUME NEW at \in {"work", "check", "fail step", "abort"}, proc[w].at \in {"begin", "store", "fail step"},
             Goto(w, at), NEW s \in StepStates, UpdateStep(proc[w].run, proc[w].next, s),
             UNCHANGED <<paused, run, item, packet, announced, history>>
      PROVE  Typed'
  <2>1. RowsTyped'
    BY <1>6, <1>9, <1>d, <1>f
  <2>2. ProcTyped'
    BY <1>9, <1>a, <1>f, GotoTyped DEF ProcTyped, Places
  <2> QED BY <1>9, <1>a, <1>c, <2>1, <2>2, TypedNext
<1>10. CASE BeginStep(w)
  BY <1>9, <1>10 DEF BeginStep, StepStates
<1>11. CASE DoWork(w)
  <2>1. HistoryTyped'
    <3>1. proc[w].run \in Runs /\ proc[w].next \in Steps
      BY <1>11, <1>d, <1>f DEF DoWork
    <3>2. CASE work' = [work EXCEPT ![proc[w].run][proc[w].next] = @ + 1]
      <4>1. work[proc[w].run][proc[w].next] + 1 \in Nat
        BY <1>a, <3>1 DEF HistoryTyped
      <4> QED BY <1>11, <1>a, <3>2, <4>1 DEF DoWork, HistoryTyped
    <3>3. CASE UNCHANGED work
      BY <1>11, <1>a, <3>3 DEF DoWork, HistoryTyped
    <3> QED BY <1>11, <3>2, <3>3 DEF DoWork
  <2>2. Goto(w, "store") \/ Goto(w, "fail step")
    BY <1>11 DEF DoWork
  <2>3. ProcTyped'
    BY <1>11, <1>a, <1>f, <2>2, GotoTyped DEF DoWork, ProcTyped, Places
  <2>4. RowsTyped'
    <3>1. proc[w].run \in Runs
      BY <1>11, <1>d DEF DoWork
    <3>2. CASE UNCHANGED <<packet, item>>
      BY <1>11, <1>b, <3>2 DEF DoWork, rows
    <3>3. ASSUME NEW k \in Packets, LeavePacket(proc[w].run, k) PROVE RowsTyped'
      <4>1. item' \in [Runs -> ItemStates]
        BY <1>a, <3>1, <3>3, RefreshTyped DEF LeavePacket
      <4>2. packet' \in [Runs -> [Packets -> PacketStates]]
        BY <1>a, <3>1, <3>3 DEF LeavePacket, RowsTyped, PacketStates, Pending
      <4> QED BY <1>11, <1>a, <4>1, <4>2 DEF DoWork, RowsTyped, UnrequestedIsUnleased
    <3> QED BY <1>11, <3>2, <3>3 DEF DoWork
  <2> QED BY <1>11, <1>a, <2>1, <2>3, <2>4, TypedNext DEF DoWork
<1>12. CASE StoreResult(w)
  <2>1. CASE Goto(w, "fail step")
    BY <1>9, <1>12, <2>1 DEF StoreResult, StepStates
  <2>2. CASE proc' = [proc EXCEPT ![w].at = "check", ![w].next = @ + 1]
    <3> DEFINE new == [proc[w] EXCEPT !.at = "check", !.next = @ + 1]
    <3>1. proc' = [proc EXCEPT ![w] = new]
      BY <1>e, <2>2
    <3>2. proc[w].run \in Runs /\ proc[w].next \in Steps
      BY <1>12, <1>d, <1>f DEF StoreResult
    <3>3. proc[w].next + 1 \in 1 .. StepCount + 1
      BY <3>2, AgentRunsAssumption DEF Steps
    <3>4. new \in Procs /\ new.run \in Runs /\ new.at = "check"
      BY <1>e, <3>2, <3>3 DEF Procs, Places
    <3> HIDE DEF new
    <3>5. ProcTyped'
      BY <1>a, <3>1, <3>4 DEF ProcTyped, PlacesOK
    <3>6. RowsTyped'
      BY <1>6, <1>12, <3>2 DEF StoreResult, StepStates
    <3> QED BY <1>12, <1>a, <1>c, <3>5, <3>6, TypedNext DEF StoreResult
  <2> QED BY <1>12, <2>1, <2>2 DEF StoreResult
<1>13. CASE FailStep(w)
  BY <1>9, <1>13 DEF FailStep, StepStates
<1>14. CASE Finish(w)
  <2>1. proc[w].at \in {"finish", "abort", "cancelled"} /\ Outcome[proc[w].at] \in Terminal
    BY <1>14 DEF Finish, Outcome, Terminal
  <2> DEFINE s == Outcome[proc[w].at]
  <2>2. s \in Terminal /\ FinalizeRun(proc[w].run, s) /\ proc[w].run \in Runs
    BY <1>14, <1>d, <2>1 DEF Finish
  <2> HIDE DEF s
  <2>3. /\ run' \in [Runs -> RunRows] /\ item' \in [Runs -> ItemStates]
        /\ \A q \in Runs : run'[q] = run[q] \/ (q = proc[w].run /\ run'[q] = [run[q] EXCEPT !.status = s])
    BY <1>a, <2>2, StatusTyped
  <2>4. \A q \in Runs : [run[q] EXCEPT !.status = s].status = s
    BY <1>a DEF RowsTyped, RunRows
  <2>5. UnrequestedIsUnleased'
    BY <1>a, <2>2, <2>3, <2>4 DEF RowsTyped, UnrequestedIsUnleased, Terminal
  <2>6. announced' \in SUBSET (Runs \X Terminal)
    BY <1>a, <2>2 DEF RowsTyped, FinalizeRun, Announced
  <2>7. RowsTyped'
    BY <1>14, <1>a, <2>3, <2>5, <2>6 DEF RowsTyped, Finish
  <2>8. ProcTyped'
    BY <1>14, <1>a, <2>1, GotoTyped DEF Finish, ProcTyped, Places
  <2> QED BY <1>14, <1>a, <1>c, <2>7, <2>8, TypedNext DEF Finish
<1>g. ASSUME NEW r \in Runs, NEW new \in RunRows, Set(r, new), UNCHANGED <<step, packet, announced>>,
             new.status = "none" => new.worker = NoWorker
      PROVE  RowsTyped'
  <2>1. run' \in [Runs -> RunRows] /\ item' \in [Runs -> ItemStates] /\ run' = [run EXCEPT ![r] = new]
    BY <1>a, <1>g, SetTyped
  <2> QED BY <1>a, <1>g, <2>1 DEF RowsTyped, UnrequestedIsUnleased
<1>15. CASE Release(w)
  <2>1. proc[w].run \in Runs
    BY <1>15, <1>d DEF Release
  <2>2. RowsTyped'
    <3>1. CASE UNCHANGED <<run, item>>
      BY <1>15, <3>1, <1>b DEF Release, rows
    <3>2. CASE Set(proc[w].run, Unleased(run[proc[w].run]))
      <4>1. run[proc[w].run] \in RunRows
        BY <1>a, <2>1 DEF RowsTyped
      <4> QED BY <1>15, <1>g, <2>1, <3>2, <4>1, UnleasedTyped DEF Release
    <3> QED BY <1>15, <3>1, <3>2 DEF Release
  <2>3. ProcTyped'
    BY <1>15, <1>a, LeaveTyped DEF Release, ProcTyped
  <2> QED BY <1>15, <1>a, <1>c, <2>2, <2>3, TypedNext DEF Release
<1>16. CASE HeartbeatRun(w)
  <2>1. proc[w].run \in Runs
    BY <1>16, <1>d DEF HeartbeatRun
  <2> DEFINE new == [run[proc[w].run] EXCEPT !.live = TRUE]
  <2>2. new \in RunRows /\ new.status \in Active
    BY <1>16, <1>a, <2>1 DEF HeartbeatRun, RowsTyped, RunRows
  <2>3. Set(proc[w].run, new)
    BY <1>16 DEF HeartbeatRun
  <2> HIDE DEF new
  <2>4. RowsTyped'
    BY <1>16, <1>g, <2>1, <2>2, <2>3 DEF HeartbeatRun, Active
  <2>5. ProcTyped'
    BY <1>16, <1>a DEF HeartbeatRun, ProcTyped, PlacesOK
  <2> QED BY <1>16, <1>a, <1>c, <2>4, <2>5, TypedNext DEF HeartbeatRun
<1>17. CASE StatementFails(w)
  <2>1. ProcTyped'
    <3>1. CASE Leave(w)
      BY <1>a, <3>1, LeaveTyped DEF ProcTyped
    <3>2. ASSUME NEW at \in {"abort", "fail step", "release"}, Goto(w, at), proc[w].at # "idle",
                 at = "fail step" => proc[w].at = "store"
          PROVE  ProcTyped'
      BY <1>a, <1>f, <3>2, GotoTyped DEF ProcTyped, Places
    <3> QED BY <1>17, <3>1, <3>2 DEF StatementFails
  <2> QED BY <1>17, <1>a, <1>b, <1>c, <2>1, TypedNext DEF StatementFails
<1>18. CASE Dies(w)
  BY <1>18, <1>a, <1>b, <1>c, LeaveTyped, TypedNext DEF Dies, ProcTyped
<1> QED BY <1>1, <1>2, <1>4, <1>5, <1>7, <1>8, <1>10, <1>11, <1>12, <1>13, <1>14, <1>15, <1>16, <1>17, <1>18
        DEF Working

LEMMA NextTyped == Typed /\ [Next]_vars => Typed'
<1> SUFFICES ASSUME Typed, [Next]_vars PROVE Typed'
  OBVIOUS
<1>1. CASE UNCHANGED vars
  BY <1>1 DEF vars, rows, history, Typed, TypeOK, UnrequestedIsUnleased, PlacesOK
<1>2. ASSUME NEW r \in Runs, LeaseExpires(r) PROVE Typed'
  <2>1. \A q \in Runs : run'[q] = run[q] \/ run'[q] = [run[q] EXCEPT !.live = FALSE]
    BY <1>2 DEF LeaseExpires, Typed, TypeOK
  <2>2. \A q \in Runs : [run[q] EXCEPT !.live = FALSE] \in RunRows
    BY DEF Typed, TypeOK, RunRows
  <2>3. run' \in [Runs -> RunRows]
    BY <1>2, <2>2 DEF LeaseExpires, Typed, TypeOK, RunRows
  <2>4. UnrequestedIsUnleased'
    <3>1. \A q \in Runs : /\ [run[q] EXCEPT !.live = FALSE].status = run[q].status
                          /\ [run[q] EXCEPT !.live = FALSE].worker = run[q].worker
      BY DEF Typed, TypeOK
    <3> QED BY <2>1, <3>1 DEF Typed, UnrequestedIsUnleased
  <2> QED BY <1>2, <2>3, <2>4 DEF LeaseExpires, Typed, TypeOK, PlacesOK, RunRows, history
<1>3. ASSUME NEW r \in Runs, NEW k \in Packets, MovePacket(r, k) PROVE Typed'
  <2>1. PICK to \in PacketMoves[packet[r][k]] : packet' = [packet EXCEPT ![r][k] = to]
    BY <1>3 DEF MovePacket
  <2>2. to \in PacketStates
    BY <1>3, <2>1 DEF MovePacket, PacketMoves, PacketStates, Pending
  <2>3. packet' \in [Runs -> [Packets -> PacketStates]]
    BY <2>1, <2>2 DEF Typed, TypeOK
  <2>4. item' \in [Runs -> ItemStates]
    BY <1>3, RefreshTyped DEF MovePacket, Typed
  <2> QED BY <1>3, <2>3, <2>4 DEF MovePacket, Typed, TypeOK, PlacesOK, UnrequestedIsUnleased, history
<1> QED BY <1>1, <1>2, <1>3, UsersTyped, WorkersTyped DEF Next

\* Every run, step, item and worker is in a state of its kind, and no run is ever
\* attempted twice without the user.
THEOREM RunTypesHold == Spec => []TypeOK
<1>1. Typed => TypeOK
  BY DEF Typed
<1> QED BY <1>1, InitTyped, NextTyped, PTL DEF Spec

-----------------------------------------------------------------------------
\* How the row of a run may change: a cancelled run is requeued by a resume only,
\* a run that finishes has its event, and attempts are given back by a resume only.
Changed(r) ==
  /\ \/ run'[r].status = run[r].status
     \/ /\ run[r].status # "cancelled"
        /\ run'[r].status \in Active \cup {"cancelled"} \/ <<r, run'[r].status>> \in announced'
     \/ resumes'[r] > resumes[r] /\ run'[r].status = "queued"
  /\ run'[r].attempts + resumes'[r] >= run[r].attempts + resumes[r]

LEMMA Numbers ==
  ASSUME Typed, NEW r \in Runs
  PROVE  /\ run[r] \in RunRows /\ run[r].attempts \in Nat /\ run[r].attempts <= 1
         /\ resumes[r] \in Nat
         /\ \A s : /\ [run[r] EXCEPT !.status = s].status = s
                   /\ [run[r] EXCEPT !.status = s].attempts = run[r].attempts
BY DEF Typed, TypeOK, RunRows, AutomaticAttemptLimit

LEMMA UnchangedRow ==
  ASSUME Typed, NEW r \in Runs, run'[r] = run[r], resumes'[r] = resumes[r]
  PROVE  Changed(r)
BY Numbers DEF Changed

\* A status that updateRun or finalizeRun gives.
LEMMA StatusChanged ==
  ASSUME Typed, NEW q \in Runs, NEW r \in Runs, resumes' = resumes, NEW s,
         \/ s \in Active /\ UpdateRun(r, s)
         \/ s \in Terminal /\ FinalizeRun(r, s)
  PROVE  Changed(q)
<1>1. CASE run' = run
  BY <1>1, UnchangedRow
<1>2. CASE /\ run' = [run EXCEPT ![r] = [run[r] EXCEPT !.status = s]]
           /\ run[r].status # "cancelled"
           /\ s \in Active \/ <<r, s>> \in announced'
  <2>1. run \in [Runs -> RunRows]
    BY DEF Typed, TypeOK, RunRows
  <2>2. CASE q # r
    BY <1>2, <2>1, <2>2, UnchangedRow
  <2>3. CASE q = r
    <3>1. run'[q] = [run[q] EXCEPT !.status = s]
      BY <1>2, <2>1, <2>3
    <3>2. run'[q].status = s /\ run'[q].attempts = run[q].attempts
      BY <3>1, Numbers
    <3> QED BY <1>2, <2>3, <3>2, Numbers DEF Changed
  <2> QED BY <2>2, <2>3
<1> QED BY <1>1, <1>2 DEF UpdateRun, FinalizeRun, Set, Update, Changeable, Finalizable, Active, Terminal, Announced

LEMMA RowChanges ==
  ASSUME Typed, [Next]_vars
  PROVE  announced \subseteq announced' /\ \A q \in Runs : Changed(q)
<1>t. TypeOK /\ RowsTyped /\ PlacesOK
  BY TypedParts DEF Typed
<1>r. run \in [Runs -> RunRows]
  BY <1>t DEF RowsTyped
<1>0. ASSUME run' = run, resumes' = resumes, announced \subseteq announced' PROVE announced \subseteq announced' /\ \A q \in Runs : Changed(q)
  BY <1>0, UnchangedRow
<1>f. ASSUME NEW r \in Runs, NEW s \in Terminal, FinalizeRun(r, s) PROVE announced \subseteq announced'
  BY <1>f DEF FinalizeRun, Announced
<1>1. CASE UNCHANGED vars
  BY <1>0, <1>1 DEF vars, rows, history
<1>2. CASE PauseAutomation
  BY <1>0, <1>2 DEF PauseAutomation, rows, history
<1>3. ASSUME NEW r \in Runs, Request(r) PROVE announced \subseteq announced' /\ \A q \in Runs : Changed(q)
  <2>1. run' = [run EXCEPT ![r] = [run[r] EXCEPT !.status = "queued"]] /\ resumes' = resumes /\ announced' = announced
    BY <1>3 DEF Request, Set, Update, history
  <2>2. \A q \in Runs \ {r} : Changed(q)
    BY <1>r, <2>1, UnchangedRow
  <2>3. run'[r].status = "queued" /\ run'[r].attempts = run[r].attempts /\ run[r].status = "none"
    BY <1>3, <1>r, <2>1, Numbers DEF Request
  <2>4. Changed(r)
    BY <2>1, <2>3, Numbers DEF Changed, Active
  <2> QED BY <2>1, <2>2, <2>4
<1>4. ASSUME NEW r \in Runs, CancelRun(r) PROVE announced \subseteq announced' /\ \A q \in Runs : Changed(q)
  <2>1. FinalizeRun(r, "cancelled") /\ resumes' = resumes /\ "cancelled" \in Terminal
    BY <1>4 DEF CancelRun, history, Terminal
  <2> QED BY <2>1, <1>f, StatusChanged
<1>5. ASSUME NEW r \in Runs, Resume(r) PROVE announced \subseteq announced' /\ \A q \in Runs : Changed(q)
  <2> DEFINE new == Unleased([run[r] EXCEPT !.status = "queued", !.attempts = 0])
  <2>1. run' = [run EXCEPT ![r] = new] /\ resumes' = [resumes EXCEPT ![r] = @ + 1] /\ announced' = announced
    BY <1>5, <1>r DEF Resume
  <2>2. new.status = "queued" /\ new.attempts = 0
    BY <1>r DEF Unleased, RunRows
  <2>3. \A q \in Runs \ {r} : run'[q] = run[q] /\ resumes'[q] = resumes[q]
    BY <1>r, <2>1 DEF Typed, TypeOK
  <2>4. run'[r] = new /\ resumes'[r] = resumes[r] + 1
    BY <1>r, <2>1 DEF Typed, TypeOK
  <2>5. Changed(r)
    BY <2>2, <2>4, Numbers DEF Changed
  <2> QED BY <2>1, <2>3, <2>5, UnchangedRow
<1>6. ASSUME NEW r \in Runs, NEW shown \in {"paused", "human_controlled", "cancelled"}, Withdraw(r, shown)
      PROVE  announced \subseteq announced' /\ \A q \in Runs : Changed(q)
  <2> DEFINE new == Unleased([run[r] EXCEPT !.status = "cancelled"])
  <2>1. /\ run' = run \/ (run' = [run EXCEPT ![r] = new] /\ run[r].status # "cancelled")
        /\ resumes' = resumes /\ announced \subseteq announced'
    BY <1>6, <1>r DEF Withdraw
  <2>2. new.status = "cancelled" /\ new.attempts = run[r].attempts
    BY <1>r DEF Unleased, RunRows
  <2>3. CASE run' = [run EXCEPT ![r] = new] /\ run[r].status # "cancelled"
    <3>1. \A q \in Runs \ {r} : run'[q] = run[q]
      BY <1>r, <2>3
    <3>2. run'[r].status = "cancelled" /\ run'[r].attempts = run[r].attempts
      BY <1>r, <2>2, <2>3
    <3>3. Changed(r)
      BY <2>1, <2>3, <3>2, Numbers DEF Changed
    <3> QED BY <2>1, <3>1, <3>3, UnchangedRow
  <2> QED BY <2>1, <2>3, <1>0
<1>7. ASSUME NEW r \in Runs, LeaseExpires(r) PROVE announced \subseteq announced' /\ \A q \in Runs : Changed(q)
  <2>1. \A q \in Runs : /\ run'[q].status = run[q].status /\ run'[q].attempts = run[q].attempts
    BY <1>7, <1>r DEF LeaseExpires, RunRows
  <2> QED BY <1>7, <2>1, Numbers DEF LeaseExpires, history, Changed
<1>8. ASSUME NEW w \in Workers, ClaimNextRunnableRun(w) PROVE announced \subseteq announced' /\ \A q \in Runs : Changed(q)
  <2>1. resumes' = resumes /\ announced' = announced \cup {<<q, "failed">> : q \in {q \in Runs : Exhausted(q)}}
    BY <1>8 DEF ClaimNextRunnableRun, history
  <2>2. ASSUME NEW q \in Runs, run'[q].status = Swept[q].status, run'[q].attempts >= run[q].attempts,
               run'[q].attempts \in Nat
        PROVE  Changed(q)
    <3>1. CASE Exhausted(q)
      <4>1. run'[q].status = "failed" /\ run[q].status # "cancelled"
        BY <2>2, <3>1, <1>t, SweptTyped DEF Exhausted, Active
      <4>2. <<q, run'[q].status>> \in announced'
        BY <2>1, <3>1, <4>1
      <4>3. run'[q].attempts + resumes'[q] >= run[q].attempts + resumes[q]
        BY <2>1, <2>2, Numbers
      <4> QED BY <4>1, <4>2, <4>3 DEF Changed
    <3>2. CASE ~Exhausted(q)
      <4>1. run'[q].status = run[q].status
        BY <2>2, <3>2, <1>t, SweptTyped
      <4>3. run'[q].attempts + resumes'[q] >= run[q].attempts + resumes[q]
        BY <2>1, <2>2, Numbers
      <4> QED BY <4>1, <4>3 DEF Changed
    <3> QED BY <3>1, <3>2
  <2>3. CASE run' = Swept
    BY <2>1, <2>2, <2>3, <1>t, SweptTyped, Numbers
  <2>4. ASSUME NEW r \in Runs, Runnable(r), run' = Claimed(r, w) PROVE \A q \in Runs : Changed(q)
    <3>1. /\ \A q \in Runs \ {r} : run'[q] = Swept[q]
          /\ run'[r].status = run[r].status /\ run'[r].attempts = run[r].attempts + 1
      BY <1>t, <2>4, ClaimedTyped
    <3>2. Swept[r] = run[r]
      <4>1. ~Exhausted(r)
        BY <2>4, Numbers DEF Exhausted, Runnable, AutomaticAttemptLimit
      <4> QED BY <1>t, <4>1, SweptTyped
    <3>3. \A q \in Runs \ {r} : Changed(q)
      BY <1>t, <2>2, <3>1, SweptTyped, Numbers
    <3>4. Changed(r)
      BY <2>2, <3>1, <3>2, Numbers
    <3> QED BY <3>3, <3>4
  <2> QED BY <1>8, <2>1, <2>3, <2>4 DEF ClaimNextRunnableRun, Update
<1>9. ASSUME NEW w \in Workers, Working(w) PROVE announced \subseteq announced' /\ \A q \in Runs : Changed(q)
  <2>1. proc[w].at # "idle" => proc[w].run \in Runs
    BY <1>t DEF PlacesOK
  <2>2. resumes' = resumes
    BY <1>9 DEF Working, ReadSteps, Plan, CreateStep, Go, Check, BeginStep, DoWork, StoreResult, FailStep,
                Finish, Release, history
  <2>3. CASE run' = run /\ announced' = announced
    BY <2>2, <2>3, <1>0
  <2>4. CASE Plan(w) \/ Go(w)
    BY <2>1, <2>2, <2>4, StatusChanged DEF Plan, Go, Active
  <2>5. CASE Finish(w)
    <3>1. proc[w].run \in Runs /\ Outcome[proc[w].at] \in Terminal
      BY <2>1, <2>5 DEF Finish, Outcome, Terminal
    <3> QED BY <2>2, <2>5, <3>1, <1>f, StatusChanged DEF Finish
  <2>6. CASE Release(w)
    <3> DEFINE r == proc[w].run
    <3>1. r \in Runs /\ announced' = announced
      BY <2>1, <2>6 DEF Release
    <3>2. CASE run' = [run EXCEPT ![r] = Unleased(run[r])]
      <4>1. \A q \in Runs : run'[q].status = run[q].status /\ run'[q].attempts = run[q].attempts
        BY <1>r, <3>1, <3>2, UnleasedTyped
      <4> QED BY <2>2, <3>1, <4>1, Numbers DEF Changed
    <3> QED BY <2>2, <2>6, <3>1, <3>2, <1>0 DEF Release, Set, Update
  <2> QED BY <1>9, <2>3, <2>4, <2>5, <2>6
          DEF Working, ReadSteps, CreateStep, Check, BeginStep, DoWork, StoreResult, FailStep, rows
<1>10. ASSUME NEW w \in Workers, HeartbeatRun(w) PROVE announced \subseteq announced' /\ \A q \in Runs : Changed(q)
  <2>1. resumes' = resumes /\ announced' = announced
    BY <1>10 DEF HeartbeatRun, history
  <2>2. \A q \in Runs : run'[q].status = run[q].status /\ run'[q].attempts = run[q].attempts
    BY <1>10, <1>r DEF HeartbeatRun, Set, Update, RunRows
  <2> QED BY <2>1, <2>2, Numbers DEF Changed
<1>11. ASSUME NEW w \in Workers, StatementFails(w) \/ Dies(w) PROVE announced \subseteq announced' /\ \A q \in Runs : Changed(q)
  BY <1>0, <1>11 DEF StatementFails, Dies, rows, history
<1>12. ASSUME NEW r \in Runs, NEW k \in Packets, MovePacket(r, k)
       PROVE  announced \subseteq announced' /\ \A q \in Runs : Changed(q)
  BY <1>0, <1>12 DEF MovePacket, history
<1> QED BY <1>1, <1>2, <1>3, <1>4, <1>5, <1>6, <1>7, <1>8, <1>9, <1>10, <1>11, <1>12 DEF Next, Users

\* A cancelled run that runs again was resumed by its user: no worker that comes
\* back late revives it.
THEOREM CancelledStaysCancelled == Spec => CancelledIsFinal
<1>1. Typed /\ [Next]_vars => [\A r \in Runs : run[r].status = "cancelled" /\ run'[r].status # "cancelled"
                                                => resumes'[r] > resumes[r]]_vars
  BY RowChanges DEF Changed
<1> QED BY <1>1, InitTyped, NextTyped, PTL DEF Spec, CancelledIsFinal

\* Every completed or failed run has the event that tells its consumers.
THEOREM FinishesAreAnnounced == Spec => []FinishIsAnnounced
<1>1. Init => FinishIsAnnounced
  BY DEF Init, FinishIsAnnounced
<1>2. Typed /\ FinishIsAnnounced /\ [Next]_vars => FinishIsAnnounced'
  BY RowChanges DEF FinishIsAnnounced, Changed, Active
<1> QED BY <1>1, <1>2, InitTyped, NextTyped, PTL DEF Spec

-----------------------------------------------------------------------------
\* Workers work for runs that were requested, and only such runs leave packets.
AtWorkOnRequested == \A w \in Workers : proc[w].at # "idle" => run[proc[w].run].status # "none"

LeftByRequested == \A r \in Runs, k \in Packets : packet[r][k] # "none" => run[r].status # "none"

Requested == AtWorkOnRequested /\ LeftByRequested

LEMMA StaysRequested ==
  ASSUME Typed, [Next]_vars, NEW r \in Runs, run[r].status # "none"
  PROVE  run'[r].status # "none"
<1>1. Changed(r) /\ Typed'
  BY RowChanges, NextTyped
<1>2. <<r, "none">> \notin announced'
  BY <1>1 DEF Typed, TypeOK, Terminal
<1> QED BY <1>1, <1>2 DEF Changed, Active

\* A worker stays with its run until it takes another.
LEMMA WorkerMoves ==
  ASSUME Typed, [Next]_vars, NEW w \in Workers
  PROVE  \/ proc'[w].at = "idle"
         \/ proc[w].at # "idle" /\ proc'[w].run = proc[w].run
         \/ proc'[w].run \in Runs /\ run'[proc'[w].run].status # "none"
<1>t. TypeOK /\ proc \in [Workers -> Procs]
  BY DEF Typed, TypeOK
<1> DEFINE Moved(v) == \/ proc'[v].at = "idle"
                       \/ proc[v].at # "idle" /\ proc'[v].run = proc[v].run
                       \/ proc'[v].run \in Runs /\ run'[proc'[v].run].status # "none"
<1>0. ASSUME proc' = proc PROVE Moved(w)
  BY <1>0
<1>1. ASSUME NEW v \in Workers, Leave(v) PROVE Moved(w)
  BY <1>1, <1>t, IdleTyped DEF Leave
<1>2. ASSUME NEW v \in Workers, NEW at, Goto(v, at), proc[v].at # "idle" PROVE Moved(w)
  BY <1>2, <1>t DEF Goto, Procs, Idle
<1>3. ASSUME NEW v \in Workers, ClaimNextRunnableRun(v) PROVE Moved(w)
  <2>1. ASSUME NEW r \in Runs, Runnable(r), Update(Claimed(r, v)),
               proc' = [proc EXCEPT ![v] = [Idle EXCEPT !.at = "start", !.run = r]]
        PROVE  Moved(w)
    <3>1. run'[r].status # "none"
      BY <1>t, <2>1, ClaimedTyped DEF Update, Runnable, Active
    <3>2. proc'[v].run = r /\ \A u \in Workers \ {v} : proc'[u] = proc[u]
      BY <1>t, <2>1 DEF Idle
    <3> QED BY <1>0, <3>1, <3>2
  <2> QED BY <1>0, <1>3, <2>1 DEF ClaimNextRunnableRun
<1>4. ASSUME NEW v \in Workers, ReadSteps(v) PROVE Moved(w)
  BY <1>4, <1>t DEF ReadSteps, Procs
<1>5. ASSUME NEW v \in Workers, CreateStep(v) PROVE Moved(w)
  <2>1. CASE Goto(v, "abort")
    BY <1>2, <1>5, <2>1 DEF CreateStep
  <2>2. CASE ~Goto(v, "abort")
    <3>1. proc[v].at # "idle" /\ proc'[v].run = proc[v].run /\ \A u \in Workers \ {v} : proc'[u] = proc[u]
      BY <1>5, <1>t, <2>2 DEF CreateStep, Procs
    <3> QED BY <3>1
  <2> QED BY <2>1, <2>2
<1>6. ASSUME NEW v \in Workers, Check(v) PROVE Moved(w)
  <2>1. CASE proc' = [proc EXCEPT ![v].next = @ + 1]
    BY <1>6, <1>t, <2>1 DEF Check, Procs
  <2> QED BY <1>2, <1>6, <2>1 DEF Check
<1>7. ASSUME NEW v \in Workers, StoreResult(v) PROVE Moved(w)
  <2>1. CASE proc' = [proc EXCEPT ![v].at = "check", ![v].next = @ + 1]
    BY <1>7, <1>t, <2>1 DEF StoreResult, Procs
  <2> QED BY <1>2, <1>7, <2>1 DEF StoreResult
<1>8. ASSUME NEW v \in Workers,
             Plan(v) \/ Go(v) \/ BeginStep(v) \/ DoWork(v) \/ FailStep(v) \/ Finish(v)
      PROVE  Moved(w)
  BY <1>2, <1>8 DEF Plan, Go, BeginStep, DoWork, FailStep, Finish, Outcome
<1>9. ASSUME NEW v \in Workers, Release(v) \/ Dies(v) \/ StatementFails(v) PROVE Moved(w)
  BY <1>1, <1>2, <1>9 DEF Release, Dies, StatementFails
<1>10. CASE Users \/ UNCHANGED vars
  BY <1>0, <1>10 DEF Users, PauseAutomation, Request, CancelRun, Resume, Withdraw, vars
<1>11. ASSUME NEW r \in Runs, LeaseExpires(r) \/ \E k \in Packets : MovePacket(r, k) PROVE Moved(w)
  BY <1>0, <1>11 DEF LeaseExpires, MovePacket
<1>12. ASSUME NEW v \in Workers, HeartbeatRun(v) PROVE Moved(w)
  BY <1>0, <1>12 DEF HeartbeatRun
<1> QED BY <1>3, <1>4, <1>5, <1>6, <1>7, <1>8, <1>9, <1>10, <1>11, <1>12 DEF Next, Working

\* A packet is left by the run a worker works for, or it was there.
LEMMA PacketsLeft ==
  ASSUME Typed, [Next]_vars, NEW r \in Runs, NEW k \in Packets, packet'[r][k] # "none"
  PROVE  packet[r][k] # "none" \/ \E w \in Workers : proc[w].at # "idle" /\ proc[w].run = r
<1>t. packet \in [Runs -> [Packets -> PacketStates]] /\ PlacesOK
  BY DEF Typed, TypeOK
<1>1. CASE packet' = packet
  BY <1>1
<1>2. ASSUME NEW w \in Workers, DoWork(w)
      PROVE  packet[r][k] # "none" \/ \E v \in Workers : proc[v].at # "idle" /\ proc[v].run = r
  <2>1. proc[w].at # "idle" /\ proc[w].run \in Runs
    BY <1>2, <1>t DEF DoWork, PlacesOK
  <2>2. CASE packet' = packet
    BY <2>2
  <2>3. ASSUME NEW j \in Packets, LeavePacket(proc[w].run, j), proc[w].run # r
        PROVE  packet'[r] = packet[r]
    BY <1>t, <2>1, <2>3 DEF LeavePacket
  <2> QED BY <1>2, <2>1, <2>2, <2>3 DEF DoWork
<1>3. ASSUME NEW q \in Runs, NEW j \in Packets, MovePacket(q, j) PROVE packet[r][k] # "none"
  <2>1. packet[q][j] # "none"
    BY <1>3 DEF MovePacket, PacketMoves
  <2>2. PICK to \in PacketMoves[packet[q][j]] : packet' = [packet EXCEPT ![q][j] = to]
    BY <1>3 DEF MovePacket
  <2>3. CASE q = r /\ j = k
    BY <2>1, <2>3
  <2>4. CASE ~(q = r /\ j = k)
    BY <1>t, <2>2, <2>4
  <2> QED BY <2>3, <2>4
<1>4. ASSUME NEW w \in Workers, ClaimNextRunnableRun(w) \/ HeartbeatRun(w) \/ StatementFails(w) \/ Dies(w)
      PROVE  packet' = packet
  BY <1>4 DEF ClaimNextRunnableRun, HeartbeatRun, StatementFails, Dies, rows
<1>5. ASSUME NEW w \in Workers, Working(w), ~DoWork(w) PROVE packet' = packet
  BY <1>5 DEF Working, ReadSteps, Plan, CreateStep, Go, Check, BeginStep, StoreResult, FailStep, Finish,
              Release, rows
<1>6. CASE Users \/ UNCHANGED vars
  BY <1>1, <1>6 DEF Users, PauseAutomation, Request, CancelRun, Resume, Withdraw, vars, rows
<1>7. ASSUME NEW q \in Runs, LeaseExpires(q) PROVE packet' = packet
  BY <1>7 DEF LeaseExpires
<1> QED BY <1>1, <1>2, <1>3, <1>4, <1>5, <1>6, <1>7 DEF Next

LEMMA RequestedInductive == Typed /\ Requested /\ [Next]_vars => Requested'
<1> SUFFICES ASSUME Typed, Requested, [Next]_vars PROVE Requested'
  OBVIOUS
<1>1. \A w \in Workers : proc[w].at # "idle" => proc[w].run \in Runs /\ run[proc[w].run].status # "none"
  BY DEF Requested, AtWorkOnRequested, Typed, PlacesOK
<1>2. AtWorkOnRequested'
  BY <1>1, WorkerMoves, StaysRequested DEF AtWorkOnRequested
<1>3. LeftByRequested'
  BY <1>1, PacketsLeft, StaysRequested DEF Requested, LeftByRequested
<1> QED BY <1>2, <1>3 DEF Requested

-----------------------------------------------------------------------------
\* What OfficeAgrees says of a run, its item and its packets.
Agrees(shown, row, packets) ==
  /\ shown \in {"queued", "running"} <=> row.status \in Active
  /\ row.status = "failed" => shown = "paused"
  /\ shown \in {"paused", "human_controlled"} => row.status \in {"failed", "cancelled"}
  /\ shown = "failed" => row.status = "completed" /\ \E k \in Packets : packets[k] = "failed"
  /\ shown = "waiting" <=> row.status = "completed" /\ \E k \in Packets : packets[k] \in Pending
  /\ shown = "completed" <=>
       row.status = "completed" /\ \A k \in Packets : packets[k] \in {"none", "completed"}

LEMMA AgreesForAll ==
  /\ OfficeAgrees <=> \A r \in Runs : Agrees(item[r], run[r], packet[r])
  /\ OfficeAgrees' <=> \A r \in Runs : Agrees(item'[r], run'[r], packet'[r])
<1>1. \A r \in Runs : (\A k \in Children(r) : packet[r][k] = "completed")
                       <=> \A k \in Packets : packet[r][k] \in {"none", "completed"}
  BY DEF Children
<1>2. \A r \in Runs : (\A k \in Children(r)' : packet'[r][k] = "completed")
                       <=> \A k \in Packets : packet'[r][k] \in {"none", "completed"}
  BY DEF Children
<1>3. OfficeAgrees <=> \A r \in Runs : Agrees(item[r], run[r], packet[r])
  BY <1>1 DEF OfficeAgrees, Agrees
<1>4. OfficeAgrees' <=> \A r \in Runs : Agrees(item'[r], run'[r], packet'[r])
  BY <1>2 DEF OfficeAgrees, Agrees
<1> QED BY <1>3, <1>4

\* What the packets make of a completed run.
LEMMA ConcludedAgrees ==
  ASSUME NEW packets \in [Packets -> PacketStates], NEW row, row.status = "completed"
  PROVE  Agrees(Concluded(packets), row, packets)
<1>1. CASE \E k \in Packets : packets[k] \in Pending
  BY <1>1 DEF Concluded, Agrees, Pending, Active
<1>2. CASE \A k \in Packets : packets[k] \notin Pending
  <2>1. CASE \E k \in Packets : packets[k] = "failed"
    BY <1>2, <2>1 DEF Concluded, Agrees, Active
  <2>2. CASE \A k \in Packets : packets[k] # "failed"
    <3>1. CASE \E k \in Packets : packets[k] = "cancelled"
      BY <1>2, <2>2, <3>1 DEF Concluded, Agrees, Active
    <3>2. CASE \A k \in Packets : packets[k] # "cancelled"
      <4>1. \A k \in Packets : packets[k] \in {"none", "completed"}
        BY <1>2, <2>2, <3>2 DEF PacketStates
      <4> QED BY <1>2, <2>2, <3>2, <4>1 DEF Concluded, Agrees, Active
    <3> QED BY <3>1, <3>2
  <2> QED BY <2>1, <2>2
<1> QED BY <1>1, <1>2

\* What the triggers show agrees with the row and the packets it shows.
LEMMA RefreshedAgrees ==
  ASSUME NEW old, NEW packets \in [Packets -> PacketStates], NEW row,
         row.status \in Active => old \in {"queued", "running"},
         row.status \in Active \cup Terminal
  PROVE  Agrees(Refreshed(old, row, packets), row, packets)
<1>1. CASE row.status = "completed"
  BY <1>1, ConcludedAgrees DEF Refreshed
<1>2. CASE row.status # "completed"
  BY <1>2 DEF Refreshed, Agrees, Active, Terminal
<1> QED BY <1>1, <1>2

LEMMA ShownAgrees ==
  ASSUME NEW packets \in [Packets -> PacketStates], NEW row \in RunRows, row.status # "none"
  PROVE  Agrees(Shown(row, packets), row, packets)
BY RefreshedAgrees DEF Shown, RunRows

LEMMA UpdateAgrees ==
  ASSUME Typed, OfficeAgrees, NEW changed \in [Runs -> RunRows], Update(changed), packet' = packet,
         \A q \in Runs : changed[q] = run[q] \/ changed[q].status # "none"
  PROVE  OfficeAgrees'
<1>1. run' = changed /\ \A q \in Runs : item'[q] = IF changed[q] = run[q] THEN item[q] ELSE Shown(changed[q], packet[q])
  BY DEF Update
<1>2. \A q \in Runs : packet[q] \in [Packets -> PacketStates] /\ Agrees(item[q], run[q], packet[q])
  BY AgreesForAll DEF Typed, TypeOK
<1>3. ASSUME NEW q \in Runs PROVE Agrees(item'[q], changed[q], packet[q])
  <2>1. CASE changed[q] = run[q]
    BY <1>1, <1>2, <2>1
  <2>2. CASE changed[q] # run[q]
    BY <1>1, <1>2, <2>2, ShownAgrees
  <2> QED BY <2>1, <2>2
<1> QED BY <1>1, <1>3, AgreesForAll

\* A packet changes, and its run's item is refreshed.
LEMMA RefreshAgrees ==
  ASSUME Typed, OfficeAgrees, NEW r \in Runs, NEW k \in Packets, NEW to \in PacketStates,
         packet' = [packet EXCEPT ![r][k] = to], Refresh(r), run' = run, run[r].status # "none"
  PROVE  OfficeAgrees'
<1>1. packet'[r] \in [Packets -> PacketStates] /\ \A q \in Runs \ {r} : packet'[q] = packet[q] /\ item'[q] = item[q]
  BY DEF Typed, TypeOK, Refresh
<1>2. \A q \in Runs : Agrees(item[q], run[q], packet[q])
  BY AgreesForAll
<1>3. item'[r] = Refreshed(item[r], run[r], packet'[r])
  BY DEF Typed, TypeOK, Refresh
<1>4. run[r].status \in Active \cup Terminal
  BY DEF Typed, TypeOK
<1>5. Agrees(item'[r], run[r], packet'[r])
  BY <1>1, <1>2, <1>3, <1>4, RefreshedAgrees DEF Agrees
<1> QED BY <1>1, <1>2, <1>5, AgreesForAll

LEMMA SetAgrees ==
  ASSUME Typed, OfficeAgrees, NEW r \in Runs, NEW new \in RunRows, new.status # "none", Set(r, new), packet' = packet
  PROVE  OfficeAgrees'
<1>1. run \in [Runs -> RunRows]
  BY DEF Typed, TypeOK, RunRows
<1> QED BY <1>1, UpdateAgrees DEF Set

LEMMA StatusAgrees ==
  ASSUME Typed, OfficeAgrees, NEW r \in Runs, NEW s \in Active \cup Terminal,
         UpdateRun(r, s) \/ FinalizeRun(r, s), packet' = packet
  PROVE  OfficeAgrees'
<1>1. CASE UNCHANGED <<run, item>>
  BY <1>1, AgreesForAll
<1>2. CASE Set(r, [run[r] EXCEPT !.status = s])
  <2>1. [run[r] EXCEPT !.status = s] \in RunRows /\ s # "none"
    BY DEF Typed, TypeOK, RunRows, Active, Terminal
  <2>2. [run[r] EXCEPT !.status = s].status = s
    BY Numbers
  <2> QED BY <1>2, <2>1, <2>2, SetAgrees
<1> QED BY <1>1, <1>2 DEF UpdateRun, FinalizeRun

LEMMA OfficeInductive == Typed /\ Requested /\ OfficeAgrees /\ [Next]_vars => OfficeAgrees'
<1> SUFFICES ASSUME Typed, Requested, OfficeAgrees, [Next]_vars PROVE OfficeAgrees'
  OBVIOUS
<1>q. /\ \A w \in Workers : proc[w].at # "idle" => run[proc[w].run].status # "none"
      /\ \A r \in Runs, k \in Packets : packet[r][k] # "none" => run[r].status # "none"
  BY DEF Requested, AtWorkOnRequested, LeftByRequested
<1>t. TypeOK /\ PlacesOK /\ UnrequestedIsUnleased
  BY DEF Typed
<1>r. run \in [Runs -> RunRows] /\ item \in [Runs -> ItemStates]
  BY <1>t DEF TypeOK, RunRows
<1>g. \A r \in Runs : Agrees(item[r], run[r], packet[r])
  BY AgreesForAll
<1>0. CASE UNCHANGED <<run, item, packet>>
  BY <1>0, <1>g, AgreesForAll
<1>1. ASSUME NEW r \in Runs, Request(r) PROVE OfficeAgrees'
  <2>1. [run[r] EXCEPT !.status = "queued"] \in RunRows /\ [run[r] EXCEPT !.status = "queued"].status # "none"
    BY <1>r DEF RunRows, Active
  <2> QED BY <1>1, <2>1, SetAgrees DEF Request
<1>2. ASSUME NEW r \in Runs, CancelRun(r) PROVE OfficeAgrees'
  BY <1>2, StatusAgrees DEF CancelRun, Terminal
<1>3. ASSUME NEW r \in Runs, Resume(r) PROVE OfficeAgrees'
  <2>1. \A q \in Runs \ {r} : run'[q] = run[q] /\ item'[q] = item[q]
    BY <1>3, <1>r DEF Resume
  <2>2. run'[r].status = "queued" /\ item'[r] = "queued"
    BY <1>3, <1>r DEF Resume, Unleased, RunRows
  <2>3. packet' = packet
    BY <1>3 DEF Resume
  <2>4. Agrees(item'[r], run'[r], packet'[r])
    BY <2>2 DEF Agrees, Active
  <2> QED BY <1>g, <2>1, <2>3, <2>4, AgreesForAll
<1>4. ASSUME NEW r \in Runs, NEW shown \in {"paused", "human_controlled", "cancelled"}, Withdraw(r, shown)
      PROVE  OfficeAgrees'
  <2>1. packet' = packet /\ \A q \in Runs \ {r} : run'[q] = run[q] /\ item'[q] = item[q]
    BY <1>4, <1>r DEF Withdraw
  <2>2. item[r] # "completed" /\ item'[r] = shown
    BY <1>4, <1>r DEF Withdraw
  <2>3. CASE run[r].status # "completed"
    <3>1. run'[r].status = "cancelled"
      <4>1. CASE run[r].status = "cancelled"
        BY <1>4, <1>r, <4>1 DEF Withdraw
      <4>2. CASE run[r].status # "cancelled"
        BY <1>4, <1>r, <2>3, <4>2 DEF Withdraw, Unleased, RunRows
      <4> QED BY <4>1, <4>2
    <3>2. Agrees(item'[r], run'[r], packet'[r])
      BY <2>2, <3>1 DEF Agrees, Active
    <3> QED BY <1>g, <2>1, <3>2, AgreesForAll
  <2>4. CASE run[r].status = "completed"
    <3>1. run'[r] = run[r]
      BY <1>4, <1>r, <2>4 DEF Withdraw
    <3>2. item[r] # "cancelled" /\ item[r] # "none"
      BY <1>4 DEF Withdraw
    <3>3. item[r] \in {"waiting", "failed"}
      BY <1>g, <1>r, <2>2, <2>4, <3>2 DEF Agrees, ItemStates, Active
    <3>4. \E k \in Packets : packet[r][k] # "none"
      BY <1>g, <3>3 DEF Agrees, Pending
    <3>5. Children(r) # {}
      BY <3>4 DEF Children
    <3>6. shown = "cancelled" /\ \A k \in Packets : packet[r][k] \notin Pending
      BY <1>4, <3>5 DEF Withdraw
    <3>7. item[r] = "failed" /\ \E k \in Packets : packet[r][k] = "failed"
      BY <1>g, <3>3, <3>6 DEF Agrees
    <3>8. Agrees(shown, run[r], packet[r])
      BY <2>4, <3>6, <3>7 DEF Agrees, Active
    <3> QED BY <1>g, <2>1, <2>2, <3>1, <3>8, AgreesForAll
  <2> QED BY <2>3, <2>4
<1>5. ASSUME NEW r \in Runs, LeaseExpires(r) PROVE OfficeAgrees'
  <2>1. item' = item /\ packet' = packet /\ \A q \in Runs : run'[q].status = run[q].status
    BY <1>5, <1>r DEF LeaseExpires, RunRows
  <2>2. \A q \in Runs : Agrees(item'[q], run'[q], packet'[q])
    BY <1>g, <2>1 DEF Agrees
  <2> QED BY <2>2, AgreesForAll
<1>6. ASSUME NEW w \in Workers, ClaimNextRunnableRun(w) PROVE OfficeAgrees'
  <2>1. \A q \in Runs : Swept[q] = run[q] \/ Swept[q].status = "failed"
    BY <1>t, SweptTyped
  <2>4. packet' = packet
    BY <1>6 DEF ClaimNextRunnableRun
  <2>2. CASE Update(Swept)
    BY <1>t, <2>1, <2>2, <2>4, SweptTyped, UpdateAgrees
  <2>3. ASSUME NEW r \in Runs, Runnable(r), Update(Claimed(r, w)) PROVE OfficeAgrees'
    <3>1. Claimed(r, w)[r].status # "none"
      BY <1>t, <2>3, ClaimedTyped DEF Runnable, Active
    <3>2. \A q \in Runs : Claimed(r, w)[q] = run[q] \/ Claimed(r, w)[q].status # "none"
      BY <1>t, <2>1, <2>3, <3>1, ClaimedTyped
    <3> QED BY <1>t, <2>3, <2>4, <3>2, ClaimedTyped, UpdateAgrees
  <2> QED BY <1>6, <2>2, <2>3 DEF ClaimNextRunnableRun
<1>7. ASSUME NEW w \in Workers, Working(w) PROVE OfficeAgrees'
  <2>1. proc[w].at # "idle" => proc[w].run \in Runs
    BY <1>t DEF PlacesOK
  <2>2. CASE Plan(w) \/ Go(w)
    BY <2>1, <2>2, StatusAgrees DEF Plan, Go, Active
  <2>3. CASE Finish(w)
    <3>1. proc[w].run \in Runs /\ Outcome[proc[w].at] \in Terminal
      BY <2>1, <2>3 DEF Finish, Outcome, Terminal
    <3> QED BY <2>3, <3>1, StatusAgrees DEF Finish
  <2>4. CASE Release(w)
    <3>1. proc[w].run \in Runs
      BY <2>1, <2>4 DEF Release
    <3>3. packet' = packet
      BY <2>4 DEF Release
    <3>2. CASE run[proc[w].run].worker = w /\ Set(proc[w].run, Unleased(run[proc[w].run]))
      <4>1. run[proc[w].run].status # "none"
        BY <1>t, <3>1, <3>2, AgentRunsAssumption DEF UnrequestedIsUnleased
      <4>2. Unleased(run[proc[w].run]) \in RunRows /\ Unleased(run[proc[w].run]).status # "none"
        BY <1>r, <3>1, <4>1, UnleasedTyped
      <4> QED BY <3>1, <3>2, <3>3, <4>2, SetAgrees
    <3> QED BY <1>0, <2>4, <3>2, <3>3 DEF Release
  <2>5. CASE DoWork(w)
    <3>1. proc[w].run \in Runs /\ run[proc[w].run].status # "none" /\ run' = run
      BY <1>q, <2>1, <2>5 DEF DoWork
    <3>2. ASSUME NEW k \in Packets, LeavePacket(proc[w].run, k) PROVE OfficeAgrees'
      BY <3>1, <3>2, RefreshAgrees DEF LeavePacket, PacketStates, Pending
    <3> QED BY <1>0, <2>5, <3>1, <3>2 DEF DoWork
  <2> QED BY <1>0, <1>7, <2>2, <2>3, <2>4, <2>5
          DEF Working, ReadSteps, CreateStep, Check, BeginStep, StoreResult, FailStep, rows
<1>9. ASSUME NEW r \in Runs, NEW k \in Packets, MovePacket(r, k) PROVE OfficeAgrees'
  <2>1. PICK to \in PacketMoves[packet[r][k]] : packet' = [packet EXCEPT ![r][k] = to]
    BY <1>9 DEF MovePacket
  <2>2. to \in PacketStates /\ packet[r][k] # "none"
    BY <1>9, <2>1 DEF MovePacket, PacketMoves, PacketStates, Pending
  <2> QED BY <1>9, <1>q, <2>1, <2>2, RefreshAgrees DEF MovePacket
<1>8. ASSUME NEW w \in Workers, HeartbeatRun(w) PROVE OfficeAgrees'
  <2> DEFINE new == [run[proc[w].run] EXCEPT !.live = TRUE]
  <2>1. proc[w].run \in Runs /\ Set(proc[w].run, new)
    BY <1>8, <1>t DEF HeartbeatRun, PlacesOK
  <2>2. new \in RunRows /\ new.status # "none"
    BY <1>8, <1>r, <2>1 DEF HeartbeatRun, RunRows, Active
  <2> HIDE DEF new
  <2>3. packet' = packet
    BY <1>8 DEF HeartbeatRun
  <2> QED BY <2>1, <2>2, <2>3, SetAgrees
<1> QED BY <1>0, <1>1, <1>2, <1>3, <1>4, <1>5, <1>6, <1>7, <1>8, <1>9
        DEF Next, Users, PauseAutomation, StatementFails, Dies, vars, rows

\* What the Office shows of a run is what workers will do to it.
THEOREM OfficeStaysInStep == Spec => []OfficeAgrees
<1>1. Init => OfficeAgrees /\ Requested
  <2> SUFFICES ASSUME Init PROVE OfficeAgrees /\ Requested
    OBVIOUS
  <2>1. Requested
    BY IdleTyped DEF Init, Requested, AtWorkOnRequested, LeftByRequested
  <2>2. \A r \in Runs : item[r] = "none" /\ run[r].status = "none"
    BY DEF Init
  <2>3. OfficeAgrees
    BY <2>2 DEF OfficeAgrees, Active
  <2> QED BY <2>1, <2>3
<1> QED BY <1>1, OfficeInductive, RequestedInductive, InitTyped, NextTyped, PTL DEF Spec
-----------------------------------------------------------------------------
\* A worker that may still do the work of step i of run r.
MayWork(p, r, i) ==
  /\ p.run = r
  /\ \/ p.at \in {"start", "plan", "create", "go"}
     \/ p.at \in {"check", "begin", "work"} /\ p.next <= i
     \/ p.at = "store" /\ p.next < i

Executors(r, i) == {w \in Workers : MayWork(proc[w], r, i)}

\* Work that was done, and every worker that may yet do it, was paid for with an
\* attempt: the one of the run, or one that a resume gave back.
ReplayOK ==
  \A r \in Runs, i \in Steps :
    work[r][i] + Cardinality(Executors(r, i)) <= resumes[r] + run[r].attempts

LEMMA ExecutorsFinite ==
  ASSUME NEW r, NEW i
  PROVE  IsFiniteSet(Executors(r, i)) /\ Cardinality(Executors(r, i)) \in Nat
<1>1. IsFiniteSet(Workers) /\ Executors(r, i) \subseteq Workers
  BY AgentRunsAssumption DEF Executors
<1> QED BY <1>1, FS_Subset, FS_CardinalityType

\* Nothing is done and nobody may do more than before.
LEMMA NobodyMore ==
  ASSUME Typed, ReplayOK, NEW r \in Runs, NEW i \in Steps, Changed(r), work'[r][i] = work[r][i],
         \A w \in Workers : MayWork(proc'[w], r, i) => MayWork(proc[w], r, i),
         resumes'[r] \in Nat, run'[r].attempts \in Nat
  PROVE  work'[r][i] + Cardinality(Executors(r, i)') <= resumes'[r] + run'[r].attempts
<1>1. Executors(r, i)' \subseteq Executors(r, i)
  BY DEF Executors
<1>2. Cardinality(Executors(r, i)') <= Cardinality(Executors(r, i)) /\ Cardinality(Executors(r, i)') \in Nat
  BY <1>1, ExecutorsFinite, FS_Subset, FS_CardinalityType
<1>3. work[r][i] \in Nat /\ Cardinality(Executors(r, i)) \in Nat
  BY ExecutorsFinite DEF Typed, TypeOK
<1>4. work[r][i] + Cardinality(Executors(r, i)) <= resumes[r] + run[r].attempts
  BY DEF ReplayOK
<1>5. resumes[r] + run[r].attempts <= resumes'[r] + run'[r].attempts
  BY Numbers DEF Changed
<1> QED BY <1>2, <1>3, <1>4, <1>5, Numbers

LEMMA StepOrder == \A a, b \in Int : (a < b => a <= b) /\ a <= a
OBVIOUS

\* A worker that did its work may do that of later steps only.
LEMMA WorkDone ==
  ASSUME NEW p, NEW q, NEW r, NEW i \in Int, NEW n \in Int, p.at = "work", p.next = n,
         q.at \in {"store", "fail step"}, q.run = p.run, q.next = n
  PROVE  /\ MayWork(q, r, i) => MayWork(p, r, i) /\ n < i
         /\ p.run = r /\ i = n => MayWork(p, r, i)
<1>1. p.next <= i <=> n <= i
  OBVIOUS
<1>2. MayWork(p, r, i) <=> p.run = r /\ n <= i
  BY <1>1 DEF MayWork
<1>3. MayWork(q, r, i) => q.run = r /\ q.at = "store" /\ n < i
  BY DEF MayWork
<1> QED BY <1>2, <1>3, StepOrder

\* What a worker that stands elsewhere may do.
LEMMA GotoShrinks ==
  ASSUME Typed, NEW w \in Workers, NEW at, Goto(w, at), NEW r \in Runs, NEW i \in Steps,
         \/ at \in {"finish", "abort", "cancelled", "release", "fail step"}
         \/ proc[w].at \in {"plan", "create", "go"} /\ at \in {"create", "check"}
         \/ proc[w].at \in {"check", "begin"} /\ at \in {"begin", "work"}
  PROVE  \A v \in Workers : MayWork(proc'[v], r, i) => MayWork(proc[v], r, i)
<1>1. proc[w] \in Procs /\ proc \in [Workers -> Procs]
  BY DEF Typed, TypeOK
<1>2. \A v \in Workers \ {w} : proc'[v] = proc[v]
  BY <1>1 DEF Goto
<1>3. CASE at \in {"finish", "abort", "cancelled", "release"}
  <2>1. proc'[w].at = at
    BY <1>1, <1>3 DEF Goto, Idle
  <2> QED BY <1>2, <1>3, <2>1 DEF MayWork
<1>4. CASE at \notin {"finish", "abort", "cancelled", "release"}
  <2>1. proc'[w].at = at /\ proc'[w].run = proc[w].run /\ proc'[w].next = proc[w].next
    BY <1>1, <1>4 DEF Goto, Procs
  <2> QED BY <1>2, <1>4, <2>1 DEF MayWork
<1> QED BY <1>3, <1>4

LEMMA LeaveShrinks ==
  ASSUME Typed, NEW w \in Workers, Leave(w), NEW r \in Runs, NEW i \in Steps
  PROVE  \A v \in Workers : MayWork(proc'[v], r, i) => MayWork(proc[v], r, i)
<1>1. proc'[w].at = "idle" /\ \A v \in Workers \ {w} : proc'[v] = proc[v]
  BY DEF Leave, Idle, Typed, TypeOK
<1> QED BY <1>1 DEF MayWork

LEMMA ReplayInductive ==
  ASSUME Typed, ReplayOK, [Next]_vars
  PROVE  ReplayOK'
<1> SUFFICES ASSUME NEW r \in Runs, NEW i \in Steps
             PROVE  work'[r][i] + Cardinality(Executors(r, i)') <= resumes'[r] + run'[r].attempts
  BY DEF ReplayOK
<1>t. TypeOK /\ PlacesOK
  BY DEF Typed
<1>n. Typed' /\ Changed(r) /\ resumes'[r] \in Nat /\ run'[r].attempts \in Nat /\ i \in Int
  <2>1. Typed' /\ Changed(r)
    BY NextTyped, RowChanges
  <2>2. resumes'[r] \in Nat /\ run'[r].attempts \in 0 .. AutomaticAttemptLimit
    BY <2>1 DEF Typed, TypeOK
  <2> QED BY <2>1, <2>2, AgentRunsAssumption DEF AutomaticAttemptLimit, Steps
<1>p. proc \in [Workers -> Procs]
  BY <1>t DEF TypeOK
<1> DEFINE Goal == work'[r][i] + Cardinality(Executors(r, i)') <= resumes'[r] + run'[r].attempts
<1>0. ASSUME work' = work, \A v \in Workers : MayWork(proc'[v], r, i) => MayWork(proc[v], r, i)
      PROVE  Goal
  BY <1>0, <1>n, NobodyMore
<1>1. CASE work' = work /\ proc' = proc
  BY <1>0, <1>1
<1>2. ASSUME NEW w \in Workers, ClaimNextRunnableRun(w) PROVE Goal
  <2>1. work' = work /\ resumes' = resumes
    BY <1>2 DEF ClaimNextRunnableRun, history
  <2>2. ASSUME NEW q \in Runs, Runnable(q), Update(Claimed(q, w)),
               proc' = [proc EXCEPT ![w] = [Idle EXCEPT !.at = "start", !.run = q]]
        PROVE  Goal
    <3>1. proc'[w].run = q /\ \A v \in Workers \ {w} : proc'[v] = proc[v]
      BY <1>p, <2>2 DEF Idle
    <3>2. CASE q # r
      BY <1>0, <2>1, <3>1, <3>2 DEF MayWork
    <3>3. CASE q = r
      <4>1. run'[r].attempts = run[r].attempts + 1
        BY <1>t, <2>2, <3>3, ClaimedTyped DEF Update
      <4>2. Executors(r, i)' \subseteq Executors(r, i) \cup {w}
        BY <3>1 DEF Executors
      <4>3. Cardinality(Executors(r, i)') <= Cardinality(Executors(r, i)) + 1 /\ Cardinality(Executors(r, i)') \in Nat
        <5>1. IsFiniteSet(Executors(r, i)) /\ Cardinality(Executors(r, i)) \in Nat
          BY ExecutorsFinite
        <5>2. /\ IsFiniteSet(Executors(r, i) \cup {w})
              /\ Cardinality(Executors(r, i) \cup {w}) <= Cardinality(Executors(r, i)) + 1
          BY <5>1, FS_AddElement
        <5> QED BY <4>2, <5>1, <5>2, FS_Subset, FS_CardinalityType
      <4>4. work[r][i] + Cardinality(Executors(r, i)) <= resumes[r] + run[r].attempts
        BY DEF ReplayOK
      <4>5. work[r][i] \in Nat /\ Cardinality(Executors(r, i)) \in Nat
        BY <1>t, ExecutorsFinite DEF TypeOK
      <4> QED BY <2>1, <4>1, <4>3, <4>4, <4>5, Numbers
    <3> QED BY <3>2, <3>3
  <2> QED BY <1>2, <1>1, <2>1, <2>2 DEF ClaimNextRunnableRun
<1>3. ASSUME NEW w \in Workers, ReadSteps(w) PROVE Goal
  <2>1. /\ proc[w].at = "start" /\ proc'[w].run = proc[w].run
        /\ work' = work /\ \A v \in Workers \ {w} : proc'[v] = proc[v]
    BY <1>3, <1>p DEF ReadSteps, history, Procs
  <2> QED BY <1>0, <2>1 DEF MayWork
<1>4. ASSUME NEW w \in Workers, CreateStep(w) PROVE Goal
  <2>1. work' = work
    BY <1>4 DEF CreateStep, history
  <2>2. CASE Goto(w, "abort")
    BY <1>0, <2>1, <2>2, GotoShrinks
  <2>3. CASE ~Goto(w, "abort")
    <3>1. proc[w].at = "create" /\ proc'[w].run = proc[w].run /\ \A v \in Workers \ {w} : proc'[v] = proc[v]
      BY <1>4, <1>p, <2>3 DEF CreateStep, Procs
    <3> QED BY <1>0, <2>1, <3>1 DEF MayWork
  <2> QED BY <2>2, <2>3
<1>5. ASSUME NEW w \in Workers, proc' = [proc EXCEPT ![w].next = @ + 1] \/ proc' = [proc EXCEPT ![w].at = "check", ![w].next = @ + 1],
             proc[w].at \in {"check", "store"}, work' = work, proc[w].at = "check" \/ proc'[w].at = "check"
      PROVE  Goal
  <2>1. proc'[w].run = proc[w].run /\ proc'[w].next = proc[w].next + 1 /\ proc[w].next \in Int
        /\ proc'[w].at = "check"
    BY <1>5, <1>p, AgentRunsAssumption DEF Procs
  <2>2. \A v \in Workers \ {w} : proc'[v] = proc[v]
    BY <1>5, <1>p
  <2> QED BY <1>0, <1>5, <1>n, <2>1, <2>2 DEF MayWork
<1>6. ASSUME NEW w \in Workers, Check(w) PROVE Goal
  <2>1. work' = work /\ proc[w].at = "check"
    BY <1>6 DEF Check, history
  <2>2. CASE Onward(proc[w]) = "check" /\ proc' = [proc EXCEPT ![w].next = @ + 1]
    BY <1>5, <2>1, <2>2
  <2>3. CASE Goto(w, "cancelled") \/ Goto(w, "finish") \/ Goto(w, "begin")
    BY <1>0, <2>1, <2>3, GotoShrinks
  <2> QED BY <1>6, <2>2, <2>3 DEF Check, Onward
<1>7. ASSUME NEW w \in Workers, DoWork(w) PROVE Goal
  <2>1. proc[w].at = "work" /\ proc[w].run \in Runs /\ proc[w].next \in Steps /\ run' = run /\ resumes' = resumes
    BY <1>7, <1>t DEF DoWork, rows, PlacesOK
  <2>4. proc[w].next \in Int /\ i \in Int
    BY <2>1 DEF Steps
  <2>2. CASE UNCHANGED work /\ Goto(w, "fail step")
    BY <1>0, <2>2, GotoShrinks
  <2>3. CASE /\ work' = [work EXCEPT ![proc[w].run][proc[w].next] = @ + 1]
             /\ Goto(w, "store") \/ Goto(w, "fail step")
    <3>1. proc'[w].at \in {"store", "fail step"} /\ proc'[w].run = proc[w].run /\ proc'[w].next = proc[w].next
      BY <1>p, <2>3 DEF Goto, Procs
    <3>2. \A v \in Workers \ {w} : proc'[v] = proc[v]
      BY <1>p, <2>3 DEF Goto
    <3>6. /\ MayWork(proc'[w], r, i) => MayWork(proc[w], r, i) /\ proc[w].next < i
          /\ proc[w].run = r /\ i = proc[w].next => MayWork(proc[w], r, i)
      BY <2>1, <2>4, <3>1, WorkDone
    <3>3. \A v \in Workers : MayWork(proc'[v], r, i) => MayWork(proc[v], r, i)
      BY <3>2, <3>6
    <3>4. CASE r = proc[w].run /\ i = proc[w].next
      <4>1. work'[r][i] = work[r][i] + 1 /\ work[r][i] \in Nat
        <5>1. work \in [Runs -> [Steps -> Nat]]
          BY <1>t DEF TypeOK
        <5> QED BY <2>3, <3>4, <5>1
      <4>2. w \in Executors(r, i) /\ w \notin Executors(r, i)'
        <5>1. MayWork(proc[w], r, i) /\ ~MayWork(proc'[w], r, i)
          BY <2>4, <3>4, <3>6
        <5> QED BY <5>1 DEF Executors
      <4>3. Executors(r, i)' \subseteq Executors(r, i) \ {w}
        BY <3>3, <4>2 DEF Executors
      <4>4. /\ Cardinality(Executors(r, i)') <= Cardinality(Executors(r, i)) - 1
            /\ Cardinality(Executors(r, i)') \in Nat /\ Cardinality(Executors(r, i)) \in Nat
        <5>1. IsFiniteSet(Executors(r, i)) /\ Cardinality(Executors(r, i)) \in Nat
          BY ExecutorsFinite
        <5>2. /\ IsFiniteSet(Executors(r, i) \ {w})
              /\ Cardinality(Executors(r, i) \ {w}) = Cardinality(Executors(r, i)) - 1
          BY <4>2, <5>1, FS_RemoveElement
        <5> QED BY <4>3, <5>1, <5>2, FS_Subset, FS_CardinalityType
      <4>5. work[r][i] + Cardinality(Executors(r, i)) <= resumes[r] + run[r].attempts
        BY DEF ReplayOK
      <4> QED BY <2>1, <4>1, <4>4, <4>5, Numbers
    <3>5. CASE ~(r = proc[w].run /\ i = proc[w].next)
      <4>1. work'[r][i] = work[r][i]
        BY <1>t, <2>1, <2>3, <3>5 DEF TypeOK
      <4> QED BY <1>n, <3>3, <4>1, NobodyMore
    <3> QED BY <3>4, <3>5
  <2> QED BY <1>7, <2>2, <2>3 DEF DoWork
<1>8. ASSUME NEW w \in Workers, StoreResult(w) PROVE Goal
  <2>1. work' = work /\ proc[w].at = "store"
    BY <1>8 DEF StoreResult, history
  <2>2. CASE proc' = [proc EXCEPT ![w].at = "check", ![w].next = @ + 1]
    <3>1. proc'[w].at = "check"
      BY <1>p, <2>2 DEF Procs
    <3> QED BY <1>5, <2>1, <2>2, <3>1
  <2>3. CASE Goto(w, "fail step")
    BY <1>0, <2>1, <2>3, GotoShrinks
  <2> QED BY <1>8, <2>2, <2>3 DEF StoreResult
<1>9. ASSUME NEW w \in Workers, Plan(w) \/ Go(w) \/ BeginStep(w) \/ FailStep(w) \/ Finish(w)
      PROVE  Goal
  <2>1. work' = work
    BY <1>9 DEF Plan, Go, BeginStep, FailStep, Finish, history
  <2>2. \/ proc[w].at = "plan" /\ Goto(w, "create")
        \/ proc[w].at = "go" /\ Goto(w, "check")
        \/ proc[w].at = "begin" /\ Goto(w, "work")
        \/ Goto(w, "abort")
        \/ Goto(w, "release")
    BY <1>9 DEF Plan, Go, BeginStep, FailStep, Finish
  <2>3. \A v \in Workers : MayWork(proc'[v], r, i) => MayWork(proc[v], r, i)
    BY <2>2, GotoShrinks
  <2> QED BY <1>0, <2>1, <2>3
<1>10. ASSUME NEW w \in Workers, Release(w) \/ Dies(w) PROVE Goal
  <2>1. work' = work /\ Leave(w)
    BY <1>10 DEF Release, Dies, history
  <2> QED BY <1>0, <2>1, LeaveShrinks
<1>11. ASSUME NEW w \in Workers, StatementFails(w) PROVE Goal
  <2>1. work' = work
    BY <1>11 DEF StatementFails, history
  <2>2. Leave(w) \/ Goto(w, "abort") \/ Goto(w, "fail step") \/ Goto(w, "release")
    BY <1>11 DEF StatementFails
  <2>3. \A v \in Workers : MayWork(proc'[v], r, i) => MayWork(proc[v], r, i)
    BY <2>2, GotoShrinks, LeaveShrinks
  <2> QED BY <1>0, <2>1, <2>3
<1>12. CASE UNCHANGED vars \/ Users \/ \E q \in Runs : LeaseExpires(q) \/ \E k \in Packets : MovePacket(q, k)
  <2>1. work' = work /\ proc' = proc
    BY <1>12 DEF vars, history, Users, PauseAutomation, Request, CancelRun, Resume, Withdraw, LeaseExpires,
                 MovePacket
  <2> QED BY <1>1, <2>1
<1>13. ASSUME NEW w \in Workers, HeartbeatRun(w) PROVE Goal
  BY <1>1, <1>13 DEF HeartbeatRun, history
<1> QED BY <1>2, <1>3, <1>4, <1>6, <1>7, <1>8, <1>9, <1>10, <1>11, <1>12, <1>13 DEF Next, Working

\* No crash, expired lease or late worker makes automation repeat the work of a
\* step: it is repeated as often as the user resumes the run.
THEOREM WorkIsNotReplayed == Spec => []NeverReplayed
<1>1. Init => ReplayOK
  <2> SUFFICES ASSUME Init, NEW r \in Runs, NEW i \in Steps
               PROVE  work[r][i] + Cardinality(Executors(r, i)) <= resumes[r] + run[r].attempts
    BY DEF ReplayOK
  <2>1. Executors(r, i) = {}
    BY IdleTyped DEF Init, Executors, MayWork
  <2> QED BY <2>1, FS_EmptySet DEF Init
<1>2. Typed /\ ReplayOK => NeverReplayed
  <2> SUFFICES ASSUME Typed, ReplayOK, NEW r \in Runs, NEW i \in Steps PROVE work[r][i] <= 1 + resumes[r]
    BY DEF NeverReplayed
  <2>1. work[r][i] \in Nat /\ Cardinality(Executors(r, i)) \in Nat
    BY ExecutorsFinite DEF Typed, TypeOK
  <2>2. work[r][i] + Cardinality(Executors(r, i)) <= resumes[r] + run[r].attempts
    BY DEF ReplayOK
  <2> QED BY <2>1, <2>2, Numbers
<1> QED BY <1>1, <1>2, InitTyped, NextTyped, ReplayInductive, PTL DEF Spec
=============================================================================
