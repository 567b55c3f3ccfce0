---------------------------- MODULE DomainEvents ----------------------------
(***************************************************************************)
(* The durable domain event queue: rows of domain_events and               *)
(* domain_event_receipts, and the worker processes that claim, dispatch,   *)
(* retry and dead-letter them (src/events/domain-event.repo.ts and         *)
(* domain-event.runtime.ts).                                               *)
(*                                                                         *)
(* Every SQL statement or transaction is one step, every await between two *)
(* of them is a point where other workers run.  A delivery is one claim of *)
(* one event; since each claim increments attempts, <<event, attempt>>     *)
(* names it.  Time is abstract: a lease (locked_at) is fresh until it      *)
(* expires, a backed-off event is not due until its delay has elapsed.     *)
(* A process that exits comes back under a new random worker id, so a      *)
(* worker that is down never comes back.                                   *)
(*                                                                         *)
(* Operators commented "Variant:" are not part of the specification: each  *)
(* is a plausible mistake in the definition that follows it, and breaks a  *)
(* property stated below.                                                  *)
(***************************************************************************)
EXTENDS Naturals, Sequences, FiniteSets

CONSTANTS
  Events,        \* events the business transactions may append
  Workers,       \* worker ids, one per process incarnation
  Mortal,        \* workers whose process may stop or crash
  Handlers,      \* names of the registered consumers
  HandlersFor,   \* HandlersFor[e]: the consumers of e in registry order
  MaxAttempts,   \* domain_events.max_attempts
  BatchSize,     \* EVENT_WORKER_BATCH_SIZE
  Concurrency,   \* EVENT_WORKER_CONCURRENCY
  NoWorker       \* locked_by IS NULL

ASSUME QueueAssumption ==
  /\ Mortal \subseteq Workers
  /\ NoWorker \notin Workers
  /\ HandlersFor \in [Events -> Seq(Handlers)]
  /\ MaxAttempts \in Nat \ {0}
  /\ BatchSize \in Nat \ {0}
  /\ Concurrency \in Nat \ {0}

VARIABLES
  row,        \* row[e]: the domain_events row
  lastSeq,    \* last value of the BIGSERIAL sequence column
  receipts,   \* receipts[e]: consumer_name of the rows in domain_event_receipts
  delivery,   \* delivery[e][a]: where the a-th claim of e stands in its process
  handled,    \* handled[e][h]: completed runs of handler h on e
  worker      \* worker[w]: life of the process

vars == <<row, lastSeq, receipts, delivery, handled, worker>>

Attempts == 1 .. MaxAttempts

Statuses == {"absent", "pending", "processing", "processed", "dead_letter"}

Rows == [status : Statuses, attempts : 0 .. MaxAttempts,
         lockedBy : Workers \cup {NoWorker}, fresh : BOOLEAN, due : BOOLEAN,
         sequence : Nat]

\* "waiting": in a claimed batch, its chunk not started; "check", "handle",
\* "receipt": in dispatchEvent at handler number at; "mark": before
\* markDomainEventProcessed; "retry": in the catch block.
Running == {"check", "handle", "receipt", "mark", "retry"}

Deliveries == [pc : Running \cup {"none", "waiting"},
               by : Workers \cup {NoWorker}, at : Nat, awaited : BOOLEAN]

Absent == [status |-> "absent", attempts |-> 0, lockedBy |-> NoWorker,
           fresh |-> FALSE, due |-> TRUE, sequence |-> 0]

NoDelivery == [pc |-> "none", by |-> NoWorker, at |-> 1, awaited |-> FALSE]

Init ==
  /\ row = [e \in Events |-> Absent]
  /\ lastSeq = 0
  /\ receipts = [e \in Events |-> {}]
  /\ delivery = [e \in Events |-> [a \in Attempts |-> NoDelivery]]
  /\ handled = [e \in Events |-> [h \in Handlers |-> 0]]
  /\ worker = [w \in Workers |-> "up"]

-----------------------------------------------------------------------------
\* appendDomainEvent, in a business transaction that commits.  A second append
\* under the same idempotency key inserts nothing: an event is its key here.
AppendDomainEvent(e) ==
  /\ row[e].status = "absent"
  /\ lastSeq' = lastSeq + 1
  /\ row' = [row EXCEPT ![e] = [Absent EXCEPT !.status = "pending",
                                               !.sequence = lastSeq + 1]]
  /\ UNCHANGED <<receipts, delivery, handled, worker>>

\* Time passes: a lease runs out, a retry delay elapses.
LeaseExpires(e) ==
  /\ row[e].status = "processing" /\ row[e].fresh
  /\ row' = [row EXCEPT ![e].fresh = FALSE]
  /\ UNCHANGED <<lastSeq, receipts, delivery, handled, worker>>

RetryDelayElapses(e) ==
  /\ ~row[e].due
  /\ row' = [row EXCEPT ![e].due = TRUE]
  /\ UNCHANGED <<lastSeq, receipts, delivery, handled, worker>>

-----------------------------------------------------------------------------
\* claimDomainEvents: one transaction that dead-letters what is exhausted and
\* then leases the lowest sequences that are due.
Unheld(e) ==
  \/ row[e].status = "pending"
  \/ row[e].status = "processing" /\ ~row[e].fresh

\* Variant: one attempt too late.
ExhaustedLate(e) == Unheld(e) /\ row[e].attempts > MaxAttempts

Exhausted(e) == Unheld(e) /\ row[e].attempts >= MaxAttempts

Claimable(e) == Unheld(e) /\ row[e].attempts < MaxAttempts /\ row[e].due

\* ORDER BY sequence LIMIT BatchSize
InBatch(e) ==
  /\ Claimable(e)
  /\ Cardinality({f \in Events : Claimable(f) /\ row[f].sequence < row[e].sequence})
       < BatchSize

Swept(e) == [row[e] EXCEPT !.status = "dead_letter", !.lockedBy = NoWorker,
                           !.fresh = FALSE]

\* Variant: taking over an expired lease counts as the same attempt.
LeasedUncounted(e, w) ==
  [row[e] EXCEPT !.status = "processing", !.lockedBy = w, !.fresh = TRUE,
                 !.attempts = IF row[e].status = "pending" THEN row[e].attempts + 1
                              ELSE row[e].attempts]

Leased(e, w) == [row[e] EXCEPT !.status = "processing",
                               !.attempts = row[e].attempts + 1,
                               !.lockedBy = w, !.fresh = TRUE]

\* A process runs one drain at a time: it claims again only when every
\* delivery it awaits has finished.  The answer of the COMMIT may be lost: the
\* rows are then leased and the drain ends without having seen them.
Draining(w) ==
  \E e \in Events, a \in Attempts : delivery[e][a].by = w /\ delivery[e][a].awaited

ClaimDomainEvents(w) ==
  /\ worker[w] = "up" /\ ~Draining(w)
  /\ \E e \in Events : Exhausted(e) \/ InBatch(e)
  /\ row' = [e \in Events |-> IF Exhausted(e) THEN Swept(e)
                              ELSE IF InBatch(e) THEN Leased(e, w) ELSE row[e]]
  /\ \E answered \in BOOLEAN :
       delivery' = [e \in Events |-> [a \in Attempts |->
          IF answered /\ InBatch(e) /\ a = row[e].attempts + 1
          THEN [pc |-> "waiting", by |-> w, at |-> 1, awaited |-> TRUE]
          ELSE delivery[e][a]]]
  /\ UNCHANGED <<lastSeq, receipts, handled, worker>>

-----------------------------------------------------------------------------
\* drainDomainEvents starts the next chunk once the previous one has ended.
Waiting(w) == {d \in Events \X Attempts :
                 delivery[d[1]][d[2]].by = w /\ delivery[d[1]][d[2]].pc = "waiting"}

AwaitedRunning(e, a, w) ==
  /\ delivery[e][a].by = w /\ delivery[e][a].awaited
  /\ delivery[e][a].pc \in Running

\* Variant: the loop ends one handler early.
GotoEarly(e, at) == IF at < Len(HandlersFor[e]) THEN "check" ELSE "mark"

\* The next thing dispatchEvent does after handler number at - 1.
Goto(e, at) == IF at <= Len(HandlersFor[e]) THEN "check" ELSE "mark"

StartChunk(w, chunk) ==
  /\ worker[w] # "down"
  /\ chunk # {} /\ chunk \subseteq Waiting(w)
  /\ \/ Cardinality(chunk) = Concurrency
     \/ Cardinality(chunk) < Concurrency /\ chunk = Waiting(w)
  /\ \A e \in Events, a \in Attempts : ~AwaitedRunning(e, a, w)
  /\ delivery' = [e \in Events |-> [a \in Attempts |->
        IF <<e, a>> \in chunk
        THEN [delivery[e][a] EXCEPT !.pc = Goto(e, 1)]
        ELSE delivery[e][a]]]
  /\ UNCHANGED <<row, lastSeq, receipts, handled, worker>>

At(e, a, pc) == delivery[e][a].pc = pc

Handler(e, a) == HandlersFor[e][delivery[e][a].at]

\* Next handler of the dispatch loop, or the catch block after any failure.
Advance(e, a) ==
  delivery' = [delivery EXCEPT ![e][a].at = delivery[e][a].at + 1,
                               ![e][a].pc = Goto(e, delivery[e][a].at + 1)]
Move(e, a, pc) == delivery' = [delivery EXCEPT ![e][a].pc = pc]
Finish(e, a) == delivery' = [delivery EXCEPT ![e][a] = NoDelivery]

\* hasConsumerReceipt: the handler is skipped if its receipt exists.
HasConsumerReceipt(e, a) ==
  /\ At(e, a, "check")
  /\ \/ Handler(e, a) \in receipts[e] /\ Advance(e, a)
     \/ Handler(e, a) \notin receipts[e] /\ Move(e, a, "handle")
  /\ UNCHANGED <<row, lastSeq, receipts, handled, worker>>

\* handler.handle(event) returns.
Handle(e, a) ==
  /\ At(e, a, "handle")
  /\ Move(e, a, "receipt")
  /\ handled' = [handled EXCEPT ![e][Handler(e, a)] = @ + 1]
  /\ UNCHANGED <<row, lastSeq, receipts, worker>>

\* recordConsumerReceipt: ON CONFLICT DO NOTHING.
RecordConsumerReceipt(e, a) ==
  /\ At(e, a, "receipt")
  /\ receipts' = [receipts EXCEPT ![e] = @ \cup {Handler(e, a)}]
  /\ Advance(e, a)
  /\ UNCHANGED <<row, lastSeq, handled, worker>>

\* The row is still leased by the process that runs this delivery.
HoldsLease(e, a) ==
  row[e].status = "processing" /\ row[e].lockedBy = delivery[e][a].by

Processed(e) == [row[e] EXCEPT !.status = "processed", !.lockedBy = NoWorker,
                               !.fresh = FALSE]

\* markDomainEventProcessed
MarkDomainEventProcessed(e, a) ==
  /\ At(e, a, "mark")
  /\ row' = IF HoldsLease(e, a) THEN [row EXCEPT ![e] = Processed(e)] ELSE row
  /\ Finish(e, a)
  /\ UNCHANGED <<lastSeq, receipts, handled, worker>>

\* A handler throws, or a statement of the try block fails; a failed write may
\* have reached the database all the same.
DispatchFails(e, a) ==
  /\ \/ At(e, a, "check") /\ UNCHANGED <<row, receipts>>
     \/ At(e, a, "handle") /\ UNCHANGED <<row, receipts>>
     \/ /\ At(e, a, "receipt")
        /\ receipts' \in {receipts, [receipts EXCEPT ![e] = @ \cup {Handler(e, a)}]}
        /\ UNCHANGED row
     \/ /\ At(e, a, "mark")
        /\ row' \in {row, IF HoldsLease(e, a) THEN [row EXCEPT ![e] = Processed(e)]
                          ELSE row}
        /\ UNCHANGED receipts
  /\ Move(e, a, "retry")
  /\ UNCHANGED <<lastSeq, handled, worker>>

\* retryDomainEvent: back to pending with a delay, or dead-lettered.
Retried(e) ==
  [row[e] EXCEPT !.status = IF row[e].attempts >= MaxAttempts THEN "dead_letter"
                            ELSE "pending",
                 !.due = FALSE, !.lockedBy = NoWorker, !.fresh = FALSE]

RetryDomainEvent(e, a) ==
  /\ At(e, a, "retry")
  /\ row' = IF HoldsLease(e, a) THEN [row EXCEPT ![e] = Retried(e)] ELSE row
  /\ Finish(e, a)
  /\ UNCHANGED <<lastSeq, receipts, handled, worker>>

\* The statement of the catch block fails: Promise.all rejects and the drain
\* ends.  The batch's unstarted deliveries are dropped with their leases, its
\* running ones go on with nobody awaiting them.
DrainAborts(e, a) ==
  LET w == delivery[e][a].by
      Left(d) == IF d.by # w THEN d
                 ELSE IF d.pc = "waiting" THEN NoDelivery
                 ELSE [d EXCEPT !.awaited = FALSE]
  IN /\ At(e, a, "retry")
     /\ row' \in {row, IF HoldsLease(e, a) THEN [row EXCEPT ![e] = Retried(e)] ELSE row}
     /\ delivery' = [f \in Events |-> [b \in Attempts |->
           IF f = e /\ b = a THEN NoDelivery
           ELSE IF delivery[e][a].awaited THEN Left(delivery[f][b]) ELSE delivery[f][b]]]
     /\ UNCHANGED <<lastSeq, receipts, handled, worker>>

\* heartbeatDomainEvent, from the interval timer of processClaimedEvent.
HeartbeatDomainEvent(e, a) ==
  /\ delivery[e][a].pc \in Running
  /\ HoldsLease(e, a) /\ ~row[e].fresh
  /\ row' = [row EXCEPT ![e].fresh = TRUE]
  /\ UNCHANGED <<lastSeq, receipts, delivery, handled, worker>>

-----------------------------------------------------------------------------
\* stopDomainEventRuntime: no new claim, the active drain is awaited, then the
\* process exits.  A crash ends every delivery of the process at once.
StopRuntime(w) ==
  /\ w \in Mortal /\ worker[w] = "up"
  /\ worker' = [worker EXCEPT ![w] = "stopping"]
  /\ UNCHANGED <<row, lastSeq, receipts, delivery, handled>>

Dies(w) ==
  /\ worker' = [worker EXCEPT ![w] = "down"]
  /\ delivery' = [e \in Events |-> [a \in Attempts |->
        IF delivery[e][a].by = w THEN NoDelivery ELSE delivery[e][a]]]
  /\ UNCHANGED <<row, lastSeq, receipts, handled>>

Exit(w) == worker[w] = "stopping" /\ ~Draining(w) /\ Dies(w)

Crash(w) == w \in Mortal /\ worker[w] # "down" /\ Dies(w)

-----------------------------------------------------------------------------
Deliver(e, a) ==
  \/ HasConsumerReceipt(e, a)
  \/ Handle(e, a)
  \/ RecordConsumerReceipt(e, a)
  \/ MarkDomainEventProcessed(e, a)
  \/ DispatchFails(e, a)
  \/ RetryDomainEvent(e, a)
  \/ DrainAborts(e, a)

Next ==
  \/ \E e \in Events : AppendDomainEvent(e) \/ LeaseExpires(e) \/ RetryDelayElapses(e)
  \/ \E w \in Workers : ClaimDomainEvents(w) \/ StopRuntime(w) \/ Exit(w) \/ Crash(w)
  \/ \E w \in Workers : \E chunk \in SUBSET Waiting(w) : StartChunk(w, chunk)
  \/ \E e \in Events, a \in Attempts : Deliver(e, a) \/ HeartbeatDomainEvent(e, a)

\* Time passes, the fallback timer requests a drain again and again, and every
\* call that a running process made returns or fails.  It is enough that this
\* holds of the processes together: one that is slow for ever holds nobody up.
Fairness ==
  /\ WF_vars(\E e \in Events : LeaseExpires(e))
  /\ WF_vars(\E e \in Events : RetryDelayElapses(e))
  /\ WF_vars(\E w \in Workers : ClaimDomainEvents(w))
  /\ WF_vars(\E w \in Workers : \E chunk \in SUBSET Waiting(w) : StartChunk(w, chunk))
  /\ WF_vars(\E e \in Events, a \in Attempts : Deliver(e, a))

Spec == Init /\ [][Next]_vars

FairSpec == Spec /\ Fairness

-----------------------------------------------------------------------------
\* Type correctness of the tables and of the processes' control state.
TypeOK ==
  /\ row \in [Events -> Rows]
  /\ lastSeq \in Nat
  /\ receipts \in [Events -> SUBSET Handlers]
  /\ delivery \in [Events -> [Attempts -> Deliveries]]
  /\ handled \in [Events -> [Handlers -> Nat]]
  /\ worker \in [Workers -> {"up", "stopping", "down"}]

Subscribers == [e \in Events |-> {HandlersFor[e][i] : i \in 1 .. Len(HandlersFor[e])}]

\* An event is marked processed only when every consumer registered for it has
\* left its receipt, however often the event was handed from worker to worker.
ProcessedMeansConsumed ==
  \A e \in Events : row[e].status = "processed" => Subscribers[e] \subseteq receipts[e]

\* A receipt stands for a run of its handler that returned: no crash, lost
\* lease or failed statement lets a consumer be recorded without having run.
ReceiptMeansHandled ==
  \A e \in Events : \A h \in receipts[e] : handled[e][h] >= 1

\* An event is dead-lettered only after all its attempts were begun, never
\* because a stale worker reported a failure.
DeadLetterMeansExhausted ==
  \A e \in Events : row[e].status = "dead_letter" => row[e].attempts = MaxAttempts

\* At-least-once delivery is bounded: a handler runs on an event at most once
\* per claim, whatever receipts were read before they were written.
RepeatsAreBounded ==
  \A e \in Events, h \in Handlers : handled[e][h] <= row[e].attempts

\* processed and dead_letter are final: no late retry, heartbeat or mark of a
\* worker that lost the event takes it out again.
FinishedIsFinal ==
  [][\A e \in Events : row[e].status \in {"processed", "dead_letter"} =>
       row'[e].status = row[e].status]_vars

\* While a lease is fresh only the process that holds it ends the claim, by a
\* delivery that finishes in the same step.
FreshLeaseIsRespected ==
  [][\A e \in Events :
       row[e].status = "processing" /\ row[e].fresh /\ row'[e].status # "processing" =>
         \E a \in Attempts : /\ delivery[e][a].by = row[e].lockedBy
                             /\ delivery[e][a].pc # delivery'[e][a].pc]_vars

\* As long as one worker process stays up every event that is appended ends:
\* from some moment on none is pending or processing, not even one whose
\* drain was aborted under it.
EveryEventEnds ==
  <>[](\A e \in Events : row[e].status \notin {"pending", "processing"})

\* The queue implements the delivery contract.
Outcome(s) == CASE s = "absent" -> "absent"
                [] s \in {"pending", "processing"} -> "open"
                [] s = "processed" -> "processed"
                [] s = "dead_letter" -> "dead_letter"

Contract == INSTANCE EventDelivery WITH
  outcome <- [e \in Events |-> Outcome(row[e].status)],
  tries <- [e \in Events |-> row[e].attempts],
  consumed <- receipts

\* Workers, leases and crashes stay invisible: the queue is an EventDelivery.
ImplementsContract == Contract!Spec
=============================================================================
