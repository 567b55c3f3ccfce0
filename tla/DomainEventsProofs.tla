------------------------- MODULE DomainEventsProofs -------------------------
(***************************************************************************)
(* Safety of the durable event queue for any number of events, workers,    *)
(* handlers and attempts, any batch size and any concurrency.              *)
(***************************************************************************)
EXTENDS DomainEvents, FiniteSetTheorems, TLAPS

\* The control state of a delivery that is running a handler's turn.
LEMMA GotoType ==
  ASSUME NEW e \in Events, NEW at \in Nat
  PROVE  Goto(e, at) \in Running
BY DEF Goto, Running

\* The rows the queue's statements write are rows.
LEMMA RowUpdates ==
  ASSUME TypeOK, NEW e \in Events
  PROVE  /\ row[e] \in Rows
         /\ Swept(e) \in Rows
         /\ Processed(e) \in Rows
         /\ Retried(e) \in Rows
         /\ \A w \in Workers : row[e].attempts < MaxAttempts => Leased(e, w) \in Rows
<1> USE QueueAssumption DEF TypeOK, Rows, Statuses
<1>1. row[e] \in Rows
  OBVIOUS
<1>2. Swept(e) \in Rows /\ Processed(e) \in Rows /\ Retried(e) \in Rows
  BY <1>1 DEF Swept, Processed, Retried
<1>3. \A w \in Workers : row[e].attempts < MaxAttempts => Leased(e, w) \in Rows
  <2> SUFFICES ASSUME NEW w \in Workers, row[e].attempts < MaxAttempts
               PROVE  Leased(e, w) \in Rows
    OBVIOUS
  <2>1. row[e].attempts + 1 \in 0 .. MaxAttempts
    BY <1>1
  <2> QED BY <1>1, <2>1 DEF Leased
<1> QED BY <1>1, <1>2, <1>3

\* Initially the tables are empty and no process delivers anything.
LEMMA InitType == Init => TypeOK
BY QueueAssumption
   DEF Init, TypeOK, Rows, Statuses, Absent, NoDelivery, Deliveries, Running, Attempts

\* A claim keeps the types: what it leases has attempts left.
LEMMA ClaimType ==
  ASSUME TypeOK, NEW w \in Workers, ClaimDomainEvents(w)
  PROVE  TypeOK'
<1>1. row' \in [Events -> Rows]
  <2>1. ASSUME NEW e \in Events
        PROVE  (IF Exhausted(e) THEN Swept(e)
                ELSE IF InBatch(e) THEN Leased(e, w) ELSE row[e]) \in Rows
    BY RowUpdates DEF InBatch, Claimable
  <2> QED BY <2>1 DEF ClaimDomainEvents
<1>2. delivery' \in [Events -> [Attempts -> Deliveries]]
  <2>1. [pc |-> "waiting", by |-> w, at |-> 1, awaited |-> TRUE] \in Deliveries
    BY DEF Deliveries
  <2>2. PICK answered \in BOOLEAN :
          delivery' = [e \in Events |-> [a \in Attempts |->
             IF answered /\ InBatch(e) /\ a = row[e].attempts + 1
             THEN [pc |-> "waiting", by |-> w, at |-> 1, awaited |-> TRUE]
             ELSE delivery[e][a]]]
    BY DEF ClaimDomainEvents
  <2> QED BY <2>1, <2>2 DEF TypeOK
<1> QED BY <1>1, <1>2 DEF ClaimDomainEvents, TypeOK

\* Moves of one delivery keep its type.
LEMMA DeliveryMoves ==
  ASSUME TypeOK, NEW e \in Events, NEW a \in Attempts
  PROVE  /\ Advance(e, a) => delivery' \in [Events -> [Attempts -> Deliveries]]
         /\ \A pc \in Running : Move(e, a, pc) => delivery' \in [Events -> [Attempts -> Deliveries]]
         /\ Finish(e, a) => delivery' \in [Events -> [Attempts -> Deliveries]]
<1>1. /\ delivery[e] \in [Attempts -> Deliveries]
      /\ delivery[e][a] \in Deliveries
  BY DEF TypeOK
<1>2. ASSUME NEW d \in Deliveries, delivery' = [delivery EXCEPT ![e][a] = d]
      PROVE  delivery' \in [Events -> [Attempts -> Deliveries]]
  BY <1>2 DEF TypeOK
<1>3. Advance(e, a) => delivery' \in [Events -> [Attempts -> Deliveries]]
  <2> DEFINE d == [delivery[e][a] EXCEPT !.at = delivery[e][a].at + 1,
                                         !.pc = Goto(e, delivery[e][a].at + 1)]
  <2>1. d \in Deliveries
    <3>1. delivery[e][a].at + 1 \in Nat
      BY <1>1 DEF Deliveries
    <3>2. Goto(e, delivery[e][a].at + 1) \in Running
      BY <3>1, GotoType
    <3> QED BY <1>1, <3>1, <3>2 DEF Deliveries
  <2>2. Advance(e, a) => delivery' = [delivery EXCEPT ![e][a] = d]
    BY <1>1 DEF Advance, Deliveries, TypeOK
  <2> QED BY <1>2, <2>1, <2>2
<1>4. ASSUME NEW pc \in Running, Move(e, a, pc)
      PROVE  delivery' \in [Events -> [Attempts -> Deliveries]]
  <2> DEFINE d == [delivery[e][a] EXCEPT !.pc = pc]
  <2>1. d \in Deliveries
    BY <1>1 DEF Deliveries
  <2>2. delivery' = [delivery EXCEPT ![e][a] = d]
    BY <1>1, <1>4 DEF Move, Deliveries, TypeOK
  <2> QED BY <1>2, <2>1, <2>2
<1>5. Finish(e, a) => delivery' \in [Events -> [Attempts -> Deliveries]]
  BY <1>2 DEF Finish, NoDelivery, Deliveries
<1> QED BY <1>3, <1>4, <1>5

-----------------------------------------------------------------------------
(***************************************************************************)
(* TypeOK alone is not inductive: a step of dispatchEvent uses the handler *)
(* at the delivery's position, which must be one of the event's handlers.  *)
(* DeliveryOK says what a delivery knows: its position, that the handlers  *)
(* before it have left receipts (also when the delivery outlived its lease *)
(* and others ran meanwhile), and that the handler whose receipt it is     *)
(* about to write has run.                                                 *)
(***************************************************************************)
AtHandler == {"check", "handle", "receipt"}

DeliveryOK(e, d) ==
  /\ d.pc # "none" => row[e].status # "absent"
  /\ d.pc = "waiting" => d.at = 1
  /\ d.pc \in AtHandler => d.at \in 1 .. Len(HandlersFor[e])
  /\ d.pc = "mark" => d.at > Len(HandlersFor[e])
  /\ d.pc \in AtHandler \cup {"mark"} =>
       \A i \in 1 .. Len(HandlersFor[e]) : i < d.at => HandlersFor[e][i] \in receipts[e]
  /\ d.pc = "receipt" => handled[e][HandlersFor[e][d.at]] >= 1

DeliveriesOK == \A e \in Events, a \in Attempts : DeliveryOK(e, delivery[e][a])

\* What the tables say of an event, whoever delivers it.
RowOK(e) ==
  /\ row[e].status = "absent" => row[e].attempts = 0
  /\ row[e].status = "processed" => Subscribers[e] \subseteq receipts[e]
  /\ row[e].status = "dead_letter" => row[e].attempts = MaxAttempts
  /\ receipts[e] \subseteq Subscribers[e]
  /\ \A h \in receipts[e] : handled[e][h] >= 1

RowsOK == \A e \in Events : RowOK(e)

IInv == TypeOK /\ DeliveriesOK /\ RowsOK

\* While a delivery is at a handler, that is one of the event's consumers.
LEMMA HandlerType ==
  ASSUME DeliveriesOK, NEW e \in Events, NEW a \in Attempts,
         delivery[e][a].pc \in AtHandler
  PROVE  Handler(e, a) \in Handlers /\ Handler(e, a) \in Subscribers[e]
<1>1. delivery[e][a].at \in 1 .. Len(HandlersFor[e])
  BY DEF DeliveriesOK, DeliveryOK
<1>2. HandlersFor[e] \in Seq(Handlers)
  BY QueueAssumption
<1> QED BY <1>1, <1>2 DEF Handler, Subscribers

\* Every step keeps the types.
LEMMA TypeStep ==
  ASSUME TypeOK, DeliveriesOK, Next
  PROVE  TypeOK'
<1>1. ASSUME NEW e \in Events, AppendDomainEvent(e) PROVE TypeOK'
  <2>1. [Absent EXCEPT !.status = "pending", !.sequence = lastSeq + 1] \in Rows
    <3>1. Absent \in Rows
      BY QueueAssumption DEF Rows, Statuses, Absent
    <3>2. lastSeq + 1 \in Nat /\ "pending" \in Statuses
      BY DEF TypeOK, Statuses
    <3> QED BY <3>1, <3>2 DEF Rows
  <2> QED BY <1>1, <2>1 DEF AppendDomainEvent, TypeOK
<1>2. ASSUME NEW e \in Events, LeaseExpires(e) PROVE TypeOK'
  BY <1>2 DEF LeaseExpires, TypeOK, Rows
<1>3. ASSUME NEW e \in Events, RetryDelayElapses(e) PROVE TypeOK'
  BY <1>3 DEF RetryDelayElapses, TypeOK, Rows
<1>4. ASSUME NEW w \in Workers, ClaimDomainEvents(w) PROVE TypeOK'
  BY <1>4, ClaimType
<1>5. ASSUME NEW w \in Workers, StopRuntime(w) PROVE TypeOK'
  BY <1>5 DEF StopRuntime, TypeOK
<1>6. ASSUME NEW w \in Workers, Exit(w) \/ Crash(w) PROVE TypeOK'
  <2>1. NoDelivery \in Deliveries
    BY DEF NoDelivery, Deliveries
  <2>2. Dies(w)
    BY <1>6 DEF Exit, Crash
  <2> QED BY <2>1, <2>2 DEF Dies, TypeOK
<1>7. ASSUME NEW w \in Workers, NEW chunk \in SUBSET Waiting(w), StartChunk(w, chunk)
      PROVE  TypeOK'
  <2>1. ASSUME NEW e \in Events, NEW a \in Attempts
        PROVE  [delivery[e][a] EXCEPT !.pc = Goto(e, 1)] \in Deliveries
    <3>1. Goto(e, 1) \in Running
      BY GotoType
    <3>2. delivery[e][a] \in Deliveries
      BY DEF TypeOK
    <3> QED BY <3>1, <3>2 DEF Deliveries
  <2> QED BY <1>7, <2>1 DEF StartChunk, TypeOK
<1>8. ASSUME NEW e \in Events, NEW a \in Attempts, Deliver(e, a) PROVE TypeOK'
  <2>1. CASE HasConsumerReceipt(e, a)
    BY <2>1, DeliveryMoves DEF HasConsumerReceipt, TypeOK, Running
  <2>2. CASE Handle(e, a)
    <3>1. Handler(e, a) \in Handlers
      BY <2>2, HandlerType DEF Handle, At, AtHandler
    <3>2. handled' \in [Events -> [Handlers -> Nat]]
      BY <2>2, <3>1 DEF Handle, TypeOK
    <3>3. delivery' \in [Events -> [Attempts -> Deliveries]]
      BY <2>2, DeliveryMoves DEF Handle, Running
    <3> QED BY <2>2, <3>2, <3>3 DEF Handle, TypeOK
  <2>3. CASE RecordConsumerReceipt(e, a)
    <3>1. Handler(e, a) \in Handlers
      BY <2>3, HandlerType DEF RecordConsumerReceipt, At, AtHandler
    <3> QED BY <2>3, <3>1, DeliveryMoves DEF RecordConsumerReceipt, TypeOK
  <2>4. CASE MarkDomainEventProcessed(e, a)
    BY <2>4, DeliveryMoves, RowUpdates DEF MarkDomainEventProcessed, TypeOK
  <2>5. CASE DispatchFails(e, a)
    <3>1. row' \in [Events -> Rows]
      BY <2>5, RowUpdates DEF DispatchFails, TypeOK
    <3>2. receipts' \in [Events -> SUBSET Handlers]
      <4>1. CASE At(e, a, "receipt")
        <5>1. Handler(e, a) \in Handlers
          BY <4>1, HandlerType DEF At, AtHandler
        <5> QED BY <2>5, <5>1 DEF DispatchFails, TypeOK
      <4>2. CASE ~At(e, a, "receipt")
        BY <2>5, <4>2 DEF DispatchFails, TypeOK
      <4> QED BY <4>1, <4>2
    <3> QED BY <2>5, <3>1, <3>2, DeliveryMoves DEF DispatchFails, TypeOK, Running
  <2>6. CASE RetryDomainEvent(e, a)
    BY <2>6, DeliveryMoves, RowUpdates DEF RetryDomainEvent, TypeOK
  <2>7. CASE DrainAborts(e, a)
    <3>1. row' \in [Events -> Rows]
      BY <2>7, RowUpdates DEF DrainAborts, TypeOK
    <3>2. NoDelivery \in Deliveries
      BY DEF NoDelivery, Deliveries
    <3>3. \A d \in Deliveries : [d EXCEPT !.awaited = FALSE] \in Deliveries
      BY DEF Deliveries
    <3>4. delivery' \in [Events -> [Attempts -> Deliveries]]
      BY <2>7, <3>2, <3>3 DEF DrainAborts, TypeOK
    <3> QED BY <2>7, <3>1, <3>4 DEF DrainAborts, TypeOK
  <2> QED BY <1>8, <2>1, <2>2, <2>3, <2>4, <2>5, <2>6, <2>7 DEF Deliver
<1>9. ASSUME NEW e \in Events, NEW a \in Attempts, HeartbeatDomainEvent(e, a)
      PROVE  TypeOK'
  BY <1>9 DEF HeartbeatDomainEvent, TypeOK, Rows
<1> QED BY <1>1, <1>2, <1>3, <1>4, <1>5, <1>6, <1>7, <1>8, <1>9 DEF Next

-----------------------------------------------------------------------------
\* Tables only grow: events stay, receipts stay, completed runs stay.
LEMMA Growth ==
  ASSUME TypeOK, DeliveriesOK, Next, NEW e \in Events
  PROVE  /\ row'[e].status = "absent" => row[e].status = "absent"
         /\ receipts[e] \subseteq receipts'[e]
         /\ \A h \in Handlers : handled[e][h] <= handled'[e][h]
<1>1. row'[e].status = "absent" => row[e].status = "absent"
  <2>1. /\ Swept(e).status # "absent"
        /\ Processed(e).status # "absent"
        /\ Retried(e).status # "absent"
        /\ \A w \in Workers : Leased(e, w).status # "absent"
    <3>1. row[e] \in Rows
      BY DEF TypeOK
    <3> QED BY <3>1 DEF Swept, Processed, Retried, Leased, Rows
  <2>2. CASE row' = row
    BY <2>2
  <2>3. ASSUME NEW f \in Events, AppendDomainEvent(f) PROVE row'[e].status # "absent" \/ row'[e] = row[e]
    BY <2>3 DEF AppendDomainEvent, TypeOK, Absent
  <2>4. ASSUME NEW f \in Events,
               LeaseExpires(f) \/ RetryDelayElapses(f) \/ (\E a \in Attempts : HeartbeatDomainEvent(f, a))
        PROVE  row'[e].status = row[e].status
    <3>1. /\ [row[f] EXCEPT !.fresh = FALSE].status = row[f].status
          /\ [row[f] EXCEPT !.fresh = TRUE].status = row[f].status
          /\ [row[f] EXCEPT !.due = TRUE].status = row[f].status
      BY DEF TypeOK, Rows
    <3>2. \/ row' = [row EXCEPT ![f] = [row[f] EXCEPT !.fresh = FALSE]]
          \/ row' = [row EXCEPT ![f] = [row[f] EXCEPT !.fresh = TRUE]]
          \/ row' = [row EXCEPT ![f] = [row[f] EXCEPT !.due = TRUE]]
      BY <2>4 DEF LeaseExpires, RetryDelayElapses, HeartbeatDomainEvent, TypeOK
    <3> QED BY <3>1, <3>2 DEF TypeOK
  <2>5. ASSUME NEW w \in Workers, ClaimDomainEvents(w)
        PROVE  row'[e].status # "absent" \/ row'[e] = row[e]
    BY <2>1, <2>5 DEF ClaimDomainEvents
  <2>6. ASSUME NEW f \in Events, NEW a \in Attempts, Deliver(f, a)
        PROVE  row'[e].status # "absent" \/ row'[e] = row[e]
    BY <2>1, <2>6 DEF Deliver, HasConsumerReceipt, Handle, RecordConsumerReceipt, TypeOK,
         MarkDomainEventProcessed, DispatchFails, RetryDomainEvent, DrainAborts
  <2>7. ASSUME NEW w \in Workers,
               \/ StopRuntime(w) \/ Exit(w) \/ Crash(w)
               \/ \E chunk \in SUBSET Waiting(w) : StartChunk(w, chunk)
        PROVE  row' = row
    BY <2>7 DEF StopRuntime, Exit, Crash, Dies, StartChunk
  <2> QED BY <2>2, <2>3, <2>4, <2>5, <2>6, <2>7 DEF Next
<1>2. receipts[e] \subseteq receipts'[e]
  <2>1. CASE receipts' = receipts
    BY <2>1
  <2>2. ASSUME NEW f \in Events, NEW h,
               receipts' = [receipts EXCEPT ![f] = receipts[f] \cup {h}]
        PROVE  receipts[e] \subseteq receipts'[e]
    BY <2>2 DEF TypeOK
  <2>3. \/ receipts' = receipts
        \/ \E f \in Events, a \in Attempts :
             receipts' = [receipts EXCEPT ![f] = receipts[f] \cup {Handler(f, a)}]
    BY DEF Next, AppendDomainEvent, LeaseExpires, RetryDelayElapses, ClaimDomainEvents,
           StopRuntime, Exit, Crash, Dies, StartChunk, HeartbeatDomainEvent, Deliver,
           HasConsumerReceipt, Handle, RecordConsumerReceipt, MarkDomainEventProcessed,
           DispatchFails, RetryDomainEvent, DrainAborts
  <2> QED BY <2>1, <2>2, <2>3
<1>3. \A h \in Handlers : handled[e][h] <= handled'[e][h]
  <2>1. CASE handled' = handled
    BY <2>1 DEF TypeOK
  <2>2. ASSUME NEW f \in Events, NEW a \in Attempts, Handle(f, a)
        PROVE  \A h \in Handlers : handled[e][h] <= handled'[e][h]
    BY <2>2 DEF Handle, TypeOK
  <2>3. handled' = handled \/ \E f \in Events, a \in Attempts : Handle(f, a)
    BY DEF Next, AppendDomainEvent, LeaseExpires, RetryDelayElapses, ClaimDomainEvents,
           StopRuntime, Exit, Crash, Dies, StartChunk, HeartbeatDomainEvent, Deliver,
           HasConsumerReceipt, RecordConsumerReceipt, MarkDomainEventProcessed,
           DispatchFails, RetryDomainEvent, DrainAborts
  <2> QED BY <2>1, <2>2, <2>3
<1> QED BY <1>1, <1>2, <1>3

\* What a delivery knows stays true whatever the others do.
LEMMA DeliveryStable ==
  ASSUME TypeOK, TypeOK', DeliveriesOK, Next, NEW e \in Events, NEW d \in Deliveries,
         DeliveryOK(e, d)
  PROVE  DeliveryOK(e, d)'
<1>1. /\ row'[e].status = "absent" => row[e].status = "absent"
      /\ receipts[e] \subseteq receipts'[e]
      /\ \A h \in Handlers : handled[e][h] <= handled'[e][h]
  BY Growth
<1>2. ASSUME d.pc = "receipt"
      PROVE  handled'[e][HandlersFor[e][d.at]] >= 1
  <2>1. HandlersFor[e][d.at] \in Handlers
    BY <1>2, QueueAssumption DEF DeliveryOK, AtHandler
  <2>2. /\ handled[e][HandlersFor[e][d.at]] \in Nat
        /\ handled'[e][HandlersFor[e][d.at]] \in Nat
    BY <2>1 DEF TypeOK
  <2>3. handled[e][HandlersFor[e][d.at]] >= 1
    BY <1>2 DEF DeliveryOK
  <2> QED BY <1>1, <2>1, <2>2, <2>3
<1> QED BY <1>1, <1>2 DEF DeliveryOK

\* In particular a delivery that does not move knows what it knew.
LEMMA DeliveryKept ==
  ASSUME TypeOK, TypeOK', DeliveriesOK, Next, NEW e \in Events, NEW a \in Attempts,
         delivery'[e][a] = delivery[e][a]
  PROVE  DeliveryOK(e, delivery[e][a])'
<1>1. delivery[e][a] \in Deliveries /\ DeliveryOK(e, delivery[e][a])
  BY DEF TypeOK, DeliveriesOK
<1>2. \A d \in Deliveries : DeliveryOK(e, d) => DeliveryOK(e, d)'
  BY DeliveryStable
<1> QED BY <1>1, <1>2 DEF DeliveryOK

\* A delivery that starts, or goes on after a handler, is at a handler or done.
LEMMA GotoOK ==
  ASSUME NEW e \in Events, NEW a \in Attempts, NEW at \in Nat \ {0},
         at <= Len(HandlersFor[e]) + 1, row'[e].status # "absent",
         delivery'[e][a].pc = Goto(e, at), delivery'[e][a].at = at,
         \A i \in 1 .. Len(HandlersFor[e]) : i < at => HandlersFor[e][i] \in receipts'[e]
  PROVE  DeliveryOK(e, delivery[e][a])'
<1>1. Len(HandlersFor[e]) \in Nat
  BY QueueAssumption
<1> QED BY <1>1 DEF DeliveryOK, Goto, AtHandler

\* Advance is right once the receipt of the current handler is there.
LEMMA AdvanceOK ==
  ASSUME TypeOK, TypeOK', DeliveriesOK, Next, NEW e \in Events, NEW a \in Attempts,
         delivery[e][a].pc \in AtHandler, Advance(e, a), Handler(e, a) \in receipts'[e]
  PROVE  DeliveryOK(e, delivery[e][a])'
<1> DEFINE at == delivery[e][a].at
<1>1. delivery[e][a] \in Deliveries /\ DeliveryOK(e, delivery[e][a])
  BY DEF TypeOK, DeliveriesOK
<1>2. at \in 1 .. Len(HandlersFor[e]) /\ Len(HandlersFor[e]) \in Nat
  BY <1>1, QueueAssumption DEF DeliveryOK
<1>3. row'[e].status # "absent" /\ receipts[e] \subseteq receipts'[e]
  BY <1>1, Growth DEF DeliveryOK, AtHandler
<1>4. \A i \in 1 .. Len(HandlersFor[e]) : i < at + 1 => HandlersFor[e][i] \in receipts'[e]
  BY <1>1, <1>2, <1>3 DEF DeliveryOK, Handler
<1>5. delivery'[e][a].pc = Goto(e, at + 1) /\ delivery'[e][a].at = at + 1
  BY <1>1 DEF Advance, TypeOK, Deliveries
<1> QED BY <1>2, <1>3, <1>4, <1>5, GotoOK

\* Moving on within a handler's turn, or to the catch block, needs nothing but
\* the run before the receipt.
LEMMA MoveOK ==
  ASSUME TypeOK, TypeOK', DeliveriesOK, Next, NEW e \in Events, NEW a \in Attempts,
         NEW pc \in {"handle", "receipt", "retry"}, Move(e, a, pc),
         delivery[e][a].pc \in AtHandler \cup {"mark"},
         pc # "retry" => delivery[e][a].pc # "mark",
         pc = "receipt" => handled'[e][Handler(e, a)] >= 1
  PROVE  DeliveryOK(e, delivery[e][a])'
<1>1. delivery[e][a] \in Deliveries /\ DeliveryOK(e, delivery[e][a])
  BY DEF TypeOK, DeliveriesOK
<1>2. row'[e].status # "absent" /\ receipts[e] \subseteq receipts'[e]
  BY <1>1, Growth DEF DeliveryOK, AtHandler
<1>3. delivery'[e][a].pc = pc /\ delivery'[e][a].at = delivery[e][a].at
  BY <1>1 DEF Move, TypeOK, Deliveries
<1> QED BY <1>1, <1>2, <1>3 DEF DeliveryOK, AtHandler, Handler

\* Every step keeps what the deliveries know.
LEMMA DeliveriesStep ==
  ASSUME TypeOK, TypeOK', DeliveriesOK, Next
  PROVE  DeliveriesOK'
<1> SUFFICES ASSUME NEW e \in Events, NEW a \in Attempts
             PROVE  DeliveryOK(e, delivery[e][a])'
  BY DEF DeliveriesOK
<1>1. ASSUME delivery'[e][a] = NoDelivery
      PROVE  DeliveryOK(e, delivery[e][a])'
  BY <1>1 DEF DeliveryOK, NoDelivery, AtHandler
<1>2. CASE delivery' = delivery
  BY <1>2, DeliveryKept
<1>3. ASSUME NEW w \in Workers, ClaimDomainEvents(w)
      PROVE  DeliveryOK(e, delivery[e][a])'
  <2>1. CASE delivery'[e][a] = delivery[e][a]
    BY <2>1, DeliveryKept
  <2>2. CASE delivery'[e][a] # delivery[e][a]
    <3>1. delivery'[e][a] = [pc |-> "waiting", by |-> w, at |-> 1, awaited |-> TRUE] /\ InBatch(e)
      BY <1>3, <2>2 DEF ClaimDomainEvents, TypeOK
    <3>2. row[e].status # "absent"
      BY <3>1 DEF InBatch, Claimable, Unheld
    <3>3. row'[e].status # "absent"
      BY <3>2, Growth
    <3> QED BY <3>1, <3>3 DEF DeliveryOK, AtHandler
  <2> QED BY <2>1, <2>2
<1>4. ASSUME NEW w \in Workers, Dies(w)
      PROVE  DeliveryOK(e, delivery[e][a])'
  <2>1. delivery'[e][a] \in {delivery[e][a], NoDelivery}
    BY <1>4 DEF Dies
  <2> QED BY <1>1, <2>1, DeliveryKept
<1>5. ASSUME NEW w \in Workers, NEW chunk \in SUBSET Waiting(w), StartChunk(w, chunk)
      PROVE  DeliveryOK(e, delivery[e][a])'
  <2>1. CASE <<e, a>> \in chunk
    <3>1. delivery[e][a] \in Deliveries /\ DeliveryOK(e, delivery[e][a])
      BY DEF TypeOK, DeliveriesOK
    <3>2. delivery[e][a].pc = "waiting"
      BY <2>1 DEF Waiting
    <3>3. delivery[e][a].at = 1 /\ row'[e].status # "absent"
      BY <3>1, <3>2, Growth DEF DeliveryOK
    <3>4. delivery'[e][a].pc = Goto(e, 1) /\ delivery'[e][a].at = 1
      BY <1>5, <2>1, <3>1, <3>3 DEF StartChunk, Deliveries
    <3>5. Len(HandlersFor[e]) \in Nat
      BY QueueAssumption
    <3> QED BY <3>3, <3>4, <3>5, GotoOK
  <2>2. CASE <<e, a>> \notin chunk
    BY <1>5, <2>2, DeliveryKept DEF StartChunk
  <2> QED BY <2>1, <2>2
<1>6. ASSUME NEW f \in Events, NEW b \in Attempts, Deliver(f, b)
      PROVE  DeliveryOK(e, delivery[e][a])'
  <2>1. CASE DrainAborts(f, b)
    <3>1. \/ delivery'[e][a] \in {delivery[e][a], NoDelivery}
          \/ delivery'[e][a] = [delivery[e][a] EXCEPT !.awaited = FALSE]
      BY <2>1 DEF DrainAborts
    <3>2. ASSUME delivery'[e][a] = [delivery[e][a] EXCEPT !.awaited = FALSE]
          PROVE  DeliveryOK(e, delivery[e][a])'
      <4>1. \A d \in Deliveries : DeliveryOK(e, d) => DeliveryOK(e, d)'
        BY DeliveryStable
      <4>2. delivery[e][a] \in Deliveries /\ DeliveryOK(e, delivery[e][a])
        BY DEF TypeOK, DeliveriesOK
      <4>3. /\ delivery'[e][a].pc = delivery[e][a].pc
            /\ delivery'[e][a].at = delivery[e][a].at
        BY <3>2, <4>2 DEF Deliveries
      <4> QED BY <4>1, <4>2, <4>3 DEF DeliveryOK
    <3> QED BY <1>1, <3>1, <3>2, DeliveryKept
  <2>2. CASE ~DrainAborts(f, b)
    <3>1. CASE <<e, a>> # <<f, b>>
      <4>1. delivery'[e][a] = delivery[e][a]
        BY <1>6, <2>2, <3>1 DEF Deliver, HasConsumerReceipt, Handle, RecordConsumerReceipt,
             MarkDomainEventProcessed, DispatchFails, RetryDomainEvent, Advance, Move, Finish, TypeOK
      <4> QED BY <4>1, DeliveryKept
    <3>2. CASE e = f /\ a = b
      <4>1. CASE HasConsumerReceipt(e, a)
        BY <4>1, AdvanceOK, MoveOK DEF HasConsumerReceipt, At, AtHandler
      <4>2. CASE Handle(e, a)
        <5>1. handled'[e][Handler(e, a)] >= 1
          BY <4>2, HandlerType DEF Handle, At, AtHandler, TypeOK
        <5> QED BY <4>2, <5>1, MoveOK DEF Handle, At, AtHandler
      <4>3. CASE RecordConsumerReceipt(e, a)
        <5>1. Handler(e, a) \in receipts'[e]
          BY <4>3 DEF RecordConsumerReceipt, TypeOK
        <5> QED BY <4>3, <5>1, AdvanceOK DEF RecordConsumerReceipt, At, AtHandler
      <4>4. CASE MarkDomainEventProcessed(e, a) \/ RetryDomainEvent(e, a)
        <5>1. delivery'[e][a] = NoDelivery
          BY <4>4 DEF MarkDomainEventProcessed, RetryDomainEvent, Finish, TypeOK
        <5> QED BY <1>1, <5>1
      <4>5. CASE DispatchFails(e, a)
        BY <4>5, MoveOK DEF DispatchFails, At, AtHandler
      <4> QED BY <1>6, <2>2, <3>2, <4>1, <4>2, <4>3, <4>4, <4>5 DEF Deliver
    <3> QED BY <3>1, <3>2
  <2> QED BY <2>1, <2>2
<1>7. delivery' = delivery
      \/ (\E w \in Workers : ClaimDomainEvents(w) \/ Dies(w))
      \/ (\E w \in Workers : \E chunk \in SUBSET Waiting(w) : StartChunk(w, chunk))
      \/ (\E f \in Events, b \in Attempts : Deliver(f, b))
  BY DEF Next, AppendDomainEvent, LeaseExpires, RetryDelayElapses, StopRuntime, Exit, Crash,
         HeartbeatDomainEvent
<1> QED BY <1>2, <1>3, <1>4, <1>5, <1>6, <1>7

-----------------------------------------------------------------------------
\* The ways a step may change the row of an event.
LEMMA RowCases ==
  ASSUME TypeOK, Next, NEW e \in Events
  PROVE  \/ row'[e].status = row[e].status /\ row'[e].attempts = row[e].attempts
         \/ /\ AppendDomainEvent(e)
            /\ row'[e].status = "pending" /\ row'[e].attempts = 0
         \/ /\ \E w \in Workers : ClaimDomainEvents(w)
            /\ \/ Exhausted(e) /\ row'[e] = Swept(e)
               \/ \E w \in Workers : InBatch(e) /\ row'[e] = Leased(e, w)
         \/ \E a \in Attempts :
              /\ MarkDomainEventProcessed(e, a) \/ DispatchFails(e, a)
              /\ At(e, a, "mark") /\ HoldsLease(e, a) /\ row'[e] = Processed(e)
         \/ \E a \in Attempts :
              /\ RetryDomainEvent(e, a) \/ DrainAborts(e, a)
              /\ At(e, a, "retry") /\ HoldsLease(e, a) /\ row'[e] = Retried(e)
<1>1. CASE row'[e] = row[e]
  BY <1>1
<1>2. ASSUME NEW f \in Events, AppendDomainEvent(f), row'[e] # row[e]
      PROVE  AppendDomainEvent(e) /\ row'[e].status = "pending" /\ row'[e].attempts = 0
  BY <1>2 DEF AppendDomainEvent, TypeOK, Absent
<1>3. ASSUME NEW f \in Events,
             LeaseExpires(f) \/ RetryDelayElapses(f) \/ (\E a \in Attempts : HeartbeatDomainEvent(f, a))
      PROVE  row'[e].status = row[e].status /\ row'[e].attempts = row[e].attempts
  <2>1. \A r \in {[row[f] EXCEPT !.fresh = FALSE], [row[f] EXCEPT !.fresh = TRUE],
                  [row[f] EXCEPT !.due = TRUE]} :
          r.status = row[f].status /\ r.attempts = row[f].attempts
    BY DEF TypeOK, Rows
  <2>2. \/ row' = [row EXCEPT ![f] = [row[f] EXCEPT !.fresh = FALSE]]
        \/ row' = [row EXCEPT ![f] = [row[f] EXCEPT !.fresh = TRUE]]
        \/ row' = [row EXCEPT ![f] = [row[f] EXCEPT !.due = TRUE]]
    BY <1>3 DEF LeaseExpires, RetryDelayElapses, HeartbeatDomainEvent, TypeOK
  <2> QED BY <2>1, <2>2 DEF TypeOK
<1>4. ASSUME NEW w \in Workers, ClaimDomainEvents(w), row'[e] # row[e]
      PROVE  \/ Exhausted(e) /\ row'[e] = Swept(e)
             \/ InBatch(e) /\ row'[e] = Leased(e, w)
  BY <1>4 DEF ClaimDomainEvents
<1>5. ASSUME NEW f \in Events, NEW a \in Attempts, Deliver(f, a), row'[e] # row[e]
      PROVE  \/ /\ MarkDomainEventProcessed(e, a) \/ DispatchFails(e, a)
                /\ At(e, a, "mark") /\ HoldsLease(e, a) /\ row'[e] = Processed(e)
             \/ /\ RetryDomainEvent(e, a) \/ DrainAborts(e, a)
                /\ At(e, a, "retry") /\ HoldsLease(e, a) /\ row'[e] = Retried(e)
  BY <1>5 DEF Deliver, HasConsumerReceipt, Handle, RecordConsumerReceipt, TypeOK,
       MarkDomainEventProcessed, DispatchFails, RetryDomainEvent, DrainAborts
<1>6. ASSUME NEW w \in Workers,
             \/ StopRuntime(w) \/ Exit(w) \/ Crash(w)
             \/ \E chunk \in SUBSET Waiting(w) : StartChunk(w, chunk)
      PROVE  row' = row
  BY <1>6 DEF StopRuntime, Exit, Crash, Dies, StartChunk
<1> QED BY <1>1, <1>2, <1>3, <1>4, <1>5, <1>6 DEF Next

\* Receipts are written by deliveries, one at a time.
LEMMA ReceiptCases ==
  ASSUME TypeOK, Next
  PROVE  \/ receipts' = receipts
         \/ /\ row' = row /\ handled' = handled
            /\ \E f \in Events, a \in Attempts :
                 /\ At(f, a, "receipt")
                 /\ receipts' = [receipts EXCEPT ![f] = receipts[f] \cup {Handler(f, a)}]
BY DEF Next, AppendDomainEvent, LeaseExpires, RetryDelayElapses, ClaimDomainEvents,
       StopRuntime, Exit, Crash, Dies, StartChunk, HeartbeatDomainEvent, Deliver, At,
       HasConsumerReceipt, Handle, RecordConsumerReceipt, MarkDomainEventProcessed,
       DispatchFails, RetryDomainEvent, DrainAborts

\* A delivery that passed its last handler found every consumer's receipt.
LEMMA MarkMeansConsumed ==
  ASSUME DeliveriesOK, TypeOK, NEW e \in Events, NEW a \in Attempts, At(e, a, "mark")
  PROVE  Subscribers[e] \subseteq receipts[e]
<1>1. DeliveryOK(e, delivery[e][a]) /\ delivery[e][a] \in Deliveries
  BY DEF DeliveriesOK, TypeOK
<1>2. Len(HandlersFor[e]) \in Nat
  BY QueueAssumption
<1> QED BY <1>1, <1>2 DEF DeliveryOK, At, AtHandler, Subscribers, Deliveries

\* Every step keeps what the tables say.
LEMMA RowsStep ==
  ASSUME IInv, TypeOK', Next
  PROVE  RowsOK'
<1> SUFFICES ASSUME NEW e \in Events PROVE RowOK(e)'
  BY DEF RowsOK
<1>0. TypeOK /\ DeliveriesOK /\ RowOK(e) /\ row[e] \in Rows /\ MaxAttempts \in Nat \ {0}
  BY QueueAssumption DEF IInv, RowsOK, TypeOK
<1>1. /\ row'[e].status = "absent" => row'[e].attempts = 0
      /\ row'[e].status = "dead_letter" => row'[e].attempts = MaxAttempts
  <2>1. row[e].attempts \in 0 .. MaxAttempts
    BY <1>0 DEF Rows
  <2>2. CASE row'[e].status = row[e].status /\ row'[e].attempts = row[e].attempts
    BY <1>0, <2>2 DEF RowOK
  <2>3. /\ Exhausted(e) => Swept(e).attempts = MaxAttempts
        /\ Swept(e).status = "dead_letter"
    BY <1>0, <2>1 DEF Exhausted, Swept, Rows
  <2>4. \A w \in Workers : Leased(e, w).status = "processing"
    BY <1>0 DEF Leased, Rows
  <2>5. Processed(e).status = "processed"
    BY <1>0 DEF Processed, Rows
  <2>6. /\ Retried(e).status \in {"pending", "dead_letter"}
        /\ Retried(e).status = "dead_letter" => Retried(e).attempts = MaxAttempts
    BY <1>0, <2>1 DEF Retried, Rows
  <2> QED BY <1>0, <2>2, <2>3, <2>4, <2>5, <2>6, RowCases
<1>2. row'[e].status = "processed" => Subscribers[e] \subseteq receipts'[e]
  <2>1. receipts[e] \subseteq receipts'[e]
    BY <1>0, Growth
  <2>2. /\ Swept(e).status # "processed" /\ Retried(e).status # "processed"
        /\ \A w \in Workers : Leased(e, w).status # "processed"
    <3>1. Swept(e).status = "dead_letter"
      BY <1>0 DEF Swept, Rows
    <3>2. Retried(e).status \in {"dead_letter", "pending"}
      BY <1>0 DEF Retried, Rows
    <3>3. \A w \in Workers : Leased(e, w).status = "processing"
      BY <1>0 DEF Leased, Rows
    <3> QED BY <3>1, <3>2, <3>3
  <2>3. row'[e].status = "processed" =>
          row[e].status = "processed" \/ \E a \in Attempts : At(e, a, "mark")
    BY <1>0, <2>2, RowCases
  <2> QED BY <1>0, <2>1, <2>3, MarkMeansConsumed DEF RowOK
<1>3. /\ receipts'[e] \subseteq Subscribers[e]
      /\ \A h \in receipts'[e] : handled'[e][h] >= 1
  <2>1. CASE receipts' = receipts
    <3>1. \A h \in receipts[e] : h \in Handlers /\ handled[e][h] >= 1
      BY <1>0 DEF RowOK, TypeOK
    <3>2. \A h \in Handlers : /\ handled[e][h] <= handled'[e][h]
                              /\ handled[e][h] \in Nat /\ handled'[e][h] \in Nat
      BY <1>0, Growth DEF TypeOK
    <3> QED BY <1>0, <2>1, <3>1, <3>2 DEF RowOK
  <2>2. ASSUME NEW f \in Events, NEW a \in Attempts, At(f, a, "receipt"),
               receipts' = [receipts EXCEPT ![f] = receipts[f] \cup {Handler(f, a)}],
               handled' = handled
        PROVE  /\ receipts'[e] \subseteq Subscribers[e]
               /\ \A h \in receipts'[e] : handled'[e][h] >= 1
    <3>1. Handler(f, a) \in Subscribers[f]
      BY <1>0, <2>2, HandlerType DEF At, AtHandler
    <3>2. handled[f][Handler(f, a)] >= 1
      BY <1>0, <2>2 DEF DeliveriesOK, DeliveryOK, At, Handler
    <3>3. receipts'[e] = IF e = f THEN receipts[e] \cup {Handler(f, a)} ELSE receipts[e]
      BY <1>0, <2>2 DEF TypeOK
    <3> QED BY <1>0, <2>2, <3>1, <3>2, <3>3 DEF RowOK
  <2> QED BY <1>0, <2>1, <2>2, ReceiptCases
<1> QED BY <1>1, <1>2, <1>3 DEF RowOK

\* The inductive invariant.
THEOREM Invariant == Spec => []IInv
<1>1. Init => IInv
  <2>1. Init => DeliveriesOK
    BY DEF Init, DeliveriesOK, DeliveryOK, NoDelivery, AtHandler
  <2>2. Init => RowsOK
    BY DEF Init, RowsOK, RowOK, Absent
  <2> QED BY <2>1, <2>2, InitType DEF IInv
<1>2. IInv /\ [Next]_vars => IInv'
  <2> SUFFICES ASSUME IInv, [Next]_vars PROVE IInv'
    OBVIOUS
  <2>1. CASE Next
    BY <2>1, TypeStep, DeliveriesStep, RowsStep DEF IInv
  <2>2. CASE UNCHANGED vars
    BY <2>2 DEF vars, IInv, TypeOK, DeliveriesOK, DeliveryOK, RowsOK, RowOK
  <2> QED BY <2>1, <2>2
<1> QED BY <1>1, <1>2, PTL DEF Spec

-----------------------------------------------------------------------------
\* The tables and the control state keep their types (all of src/events).
THEOREM TypeCorrect == Spec => []TypeOK
<1>1. IInv => TypeOK
  BY DEF IInv
<1> QED BY <1>1, Invariant, PTL

\* An event marked processed has a receipt from every registered consumer.
THEOREM ProcessedIsConsumed == Spec => []ProcessedMeansConsumed
<1>1. IInv => ProcessedMeansConsumed
  BY DEF IInv, RowsOK, RowOK, ProcessedMeansConsumed
<1> QED BY <1>1, Invariant, PTL

\* A receipt stands for a completed run of its handler.
THEOREM ReceiptIsHandled == Spec => []ReceiptMeansHandled
<1>1. IInv => ReceiptMeansHandled
  BY DEF IInv, RowsOK, RowOK, ReceiptMeansHandled
<1> QED BY <1>1, Invariant, PTL

\* An event is dead-lettered only once its attempts are used up.
THEOREM DeadLetterIsExhausted == Spec => []DeadLetterMeansExhausted
<1>1. IInv => DeadLetterMeansExhausted
  BY DEF IInv, RowsOK, RowOK, DeadLetterMeansExhausted
<1> QED BY <1>1, Invariant, PTL

\* The statements that end or take a claim match rows that are not finished.
LEMMA FinishedStep ==
  ASSUME TypeOK, Next, NEW e \in Events, row[e].status \in {"processed", "dead_letter"}
  PROVE  row'[e].status = row[e].status
<1>1. ~AppendDomainEvent(e) /\ ~Exhausted(e) /\ ~InBatch(e)
  BY DEF AppendDomainEvent, Exhausted, InBatch, Claimable, Unheld
<1>2. \A a \in Attempts : ~HoldsLease(e, a)
  BY DEF HoldsLease
<1> QED BY <1>1, <1>2, RowCases

\* processed and dead_letter are final, whatever late workers do.
THEOREM FinishedForGood == Spec => FinishedIsFinal
<1> DEFINE Final == \A e \in Events : row[e].status \in {"processed", "dead_letter"} =>
                      row'[e].status = row[e].status
<1>1. TypeOK /\ [Next]_vars => [Final]_vars
  BY FinishedStep
<1> QED BY <1>1, TypeCorrect, PTL DEF Spec, FinishedIsFinal

\* A claim under a fresh lease is ended by a delivery of the lease holder.
LEMMA FreshLeaseStep ==
  ASSUME TypeOK, Next, NEW e \in Events,
         row[e].status = "processing", row[e].fresh, row'[e].status # "processing"
  PROVE  \E a \in Attempts : /\ delivery[e][a].by = row[e].lockedBy
                             /\ delivery[e][a].pc # delivery'[e][a].pc
<1>1. ~AppendDomainEvent(e) /\ ~Exhausted(e) /\ ~InBatch(e)
  BY DEF AppendDomainEvent, Exhausted, InBatch, Claimable, Unheld
<1>2. PICK a \in Attempts :
        /\ HoldsLease(e, a)
        /\ \/ At(e, a, "mark") /\ (MarkDomainEventProcessed(e, a) \/ DispatchFails(e, a))
           \/ At(e, a, "retry") /\ (RetryDomainEvent(e, a) \/ DrainAborts(e, a))
  BY <1>1, RowCases
<1>3. delivery[e][a] \in Deliveries
  BY DEF TypeOK
<1>4. delivery'[e][a].pc \in {"none", "retry"} /\ (At(e, a, "retry") => delivery'[e][a].pc = "none")
  <2>1. CASE delivery'[e][a] = NoDelivery
    BY <2>1 DEF NoDelivery
  <2>2. CASE At(e, a, "mark") /\ Move(e, a, "retry")
    BY <2>2, <1>3 DEF Move, TypeOK, Deliveries, At
  <2>3. \/ delivery'[e][a] = NoDelivery
        \/ At(e, a, "mark") /\ Move(e, a, "retry")
    BY <1>2 DEF MarkDomainEventProcessed, DispatchFails, RetryDomainEvent, DrainAborts, Finish,
                TypeOK, At
  <2> QED BY <2>1, <2>2, <2>3
<1> QED BY <1>2, <1>4 DEF HoldsLease, At

\* No other process ends a claim whose lease is fresh.
THEOREM FreshLeaseHolds == Spec => FreshLeaseIsRespected
<1> DEFINE Respected ==
      \A e \in Events :
        row[e].status = "processing" /\ row[e].fresh /\ row'[e].status # "processing" =>
          \E a \in Attempts : /\ delivery[e][a].by = row[e].lockedBy
                              /\ delivery[e][a].pc # delivery'[e][a].pc
<1>1. TypeOK /\ [Next]_vars => [Respected]_vars
  BY FreshLeaseStep
<1> QED BY <1>1, TypeCorrect, PTL DEF Spec, FreshLeaseIsRespected

-----------------------------------------------------------------------------
(***************************************************************************)
(* The queue implements EventDelivery.  An append publishes, a claim polls *)
(* (beginning some events, giving up others), a receipt consumes, a mark   *)
(* that finds its lease completes, a retry after the last attempt is a     *)
(* poll that gives the event up; every other step is a stutter.            *)
(***************************************************************************)
outcomeBar == [e \in Events |-> Outcome(row[e].status)]

triesBar == [e \in Events |-> row[e].attempts]

\* How the statuses of a row are seen from outside.
LEMMA Outcomes ==
  /\ Outcome("absent") = "absent" /\ Outcome("processed") = "processed"
  /\ Outcome("pending") = "open" /\ Outcome("processing") = "open"
  /\ Outcome("dead_letter") = "dead_letter"
BY DEF Outcome

\* A step that changes no status, no count and no receipt is a stutter.
LEMMA Stutter ==
  ASSUME receipts' = receipts,
         \A e \in Events : /\ Outcome(row'[e].status) = Outcome(row[e].status)
                           /\ row'[e].attempts = row[e].attempts
  PROVE  UNCHANGED Contract!vars
BY DEF Contract!vars

\* appendDomainEvent publishes.
LEMMA PublishStep ==
  ASSUME IInv, NEW f \in Events, AppendDomainEvent(f)
  PROVE  Contract!Publish(f)
<1>1. row[f].attempts = 0 /\ row[f].status = "absent" /\ receipts' = receipts
  BY DEF IInv, RowsOK, RowOK, AppendDomainEvent
<1>2. row' = [row EXCEPT ![f] = [Absent EXCEPT !.status = "pending", !.sequence = lastSeq + 1]]
  BY DEF AppendDomainEvent
<1>3. \A e \in Events :
        /\ row'[e].attempts = row[e].attempts
        /\ row'[e].status = IF e = f THEN "pending" ELSE row[e].status
  BY <1>1, <1>2 DEF Absent, IInv, TypeOK
<1>4. outcomeBar' = [outcomeBar EXCEPT ![f] = "open"]
  BY <1>3, Outcomes DEF outcomeBar
<1>5. triesBar' = triesBar
  BY <1>3 DEF triesBar
<1>6. outcomeBar[f] = "absent"
  BY <1>1 DEF outcomeBar, Outcome
<1> QED BY <1>1, <1>4, <1>5, <1>6 DEF Contract!Publish, outcomeBar, triesBar

\* claimDomainEvents polls: it begins what it leases and gives up what it sweeps.
LEMMA PollStep ==
  ASSUME TypeOK, NEW w \in Workers, ClaimDomainEvents(w)
  PROVE  \E T, G \in SUBSET Events : Contract!Poll(T, G)
<1>0. PICK T \in SUBSET Events, G \in SUBSET Events :
        \A e \in Events : /\ e \in G <=> Exhausted(e)
                          /\ e \in T <=> ~Exhausted(e) /\ InBatch(e)
  <2>1. {e \in Events : Exhausted(e)} \in SUBSET Events
    OBVIOUS
  <2>2. {e \in Events : ~Exhausted(e) /\ InBatch(e)} \in SUBSET Events
    OBVIOUS
  <2> QED BY <2>1, <2>2
<1>1. ASSUME NEW e \in Events
      PROVE  /\ row[e] \in Rows /\ row[e].attempts \in 0 .. MaxAttempts /\ MaxAttempts \in Nat
             /\ Swept(e).status = "dead_letter" /\ Swept(e).attempts = row[e].attempts
             /\ Leased(e, w).status = "processing" /\ Leased(e, w).attempts = row[e].attempts + 1
  <2>1. row[e] \in Rows /\ MaxAttempts \in Nat
    BY QueueAssumption DEF TypeOK
  <2> QED BY <2>1 DEF Swept, Leased, Rows
<1>2. ASSUME NEW e \in Events
      PROVE  /\ e \in T => outcomeBar[e] = "open" /\ triesBar[e] < MaxAttempts
             /\ e \in G => outcomeBar[e] = "open" /\ triesBar[e] = MaxAttempts
  <2>1. outcomeBar[e] = Outcome(row[e].status) /\ triesBar[e] = row[e].attempts
    BY DEF outcomeBar, triesBar
  <2>2. e \in T => row[e].status \in {"pending", "processing"} /\ row[e].attempts < MaxAttempts
    BY <1>0 DEF InBatch, Claimable, Unheld
  <2>3. e \in G => row[e].status \in {"pending", "processing"} /\ row[e].attempts = MaxAttempts
    BY <1>0, <1>1 DEF Exhausted, Unheld
  <2> QED BY <2>1, <2>2, <2>3, Outcomes
<1>3. ASSUME NEW e \in Events
      PROVE  /\ Outcome(row'[e].status) = IF e \in G THEN "dead_letter" ELSE outcomeBar[e]
             /\ row'[e].attempts = IF e \in T THEN triesBar[e] + 1 ELSE triesBar[e]
  <2>1. row'[e] = IF e \in G THEN Swept(e) ELSE IF e \in T THEN Leased(e, w) ELSE row[e]
    BY <1>0 DEF ClaimDomainEvents
  <2>2. triesBar[e] = row[e].attempts /\ outcomeBar[e] = Outcome(row[e].status)
    BY DEF triesBar, outcomeBar
  <2>3. CASE e \in G
    BY <1>0, <1>1, <2>1, <2>2, <2>3, Outcomes
  <2>4. CASE e \notin G /\ e \in T
    BY <1>1, <1>2, <2>1, <2>2, <2>4, Outcomes
  <2>5. CASE e \notin G /\ e \notin T
    BY <2>1, <2>2, <2>5
  <2> QED BY <2>3, <2>4, <2>5
<1>4. /\ outcomeBar' = [e \in Events |-> IF e \in G THEN "dead_letter" ELSE outcomeBar[e]]
      /\ triesBar' = [e \in Events |-> IF e \in T THEN triesBar[e] + 1 ELSE triesBar[e]]
  BY <1>3 DEF outcomeBar, triesBar
<1>5. receipts' = receipts
  BY DEF ClaimDomainEvents
<1>6. Contract!Poll(T, G)
  BY <1>2, <1>4, <1>5 DEF Contract!Poll, outcomeBar, triesBar
<1> QED BY <1>6

\* A stored receipt is one of a subscriber, for an event that was published.
LEMMA ConsumeStep ==
  ASSUME IInv, NEW f \in Events, NEW a \in Attempts, At(f, a, "receipt"), row' = row,
         receipts' = [receipts EXCEPT ![f] = receipts[f] \cup {Handler(f, a)}]
  PROVE  Contract!Consume(f, Handler(f, a)) /\ Handler(f, a) \in Subscribers[f]
<1>1. Handler(f, a) \in Subscribers[f]
  BY HandlerType DEF At, AtHandler, IInv
<1>2. row[f].status # "absent" /\ row[f].status \in Statuses
  BY DEF IInv, DeliveriesOK, DeliveryOK, At, TypeOK, Rows
<1>3. outcomeBar[f] # "absent"
  BY <1>2 DEF outcomeBar, Outcome, Statuses
<1> QED BY <1>1, <1>3 DEF Contract!Consume, outcomeBar

\* A mark that finds its lease completes an event consumed by all.
LEMMA CompleteStep ==
  ASSUME IInv, NEW f \in Events, NEW a \in Attempts, At(f, a, "mark"), HoldsLease(f, a),
         row' = [row EXCEPT ![f] = Processed(f)], receipts' = receipts
  PROVE  Contract!Complete(f)
<1>1. row[f] \in Rows /\ row[f].status = "processing"
  BY DEF IInv, TypeOK, HoldsLease
<1>2. receipts[f] = Subscribers[f]
  BY MarkMeansConsumed DEF IInv, RowsOK, RowOK
<1>3. Processed(f).status = "processed" /\ Processed(f).attempts = row[f].attempts
  BY <1>1 DEF Processed, Rows
<1>4. \A e \in Events : /\ row'[e].attempts = row[e].attempts
                        /\ row'[e].status = IF e = f THEN "processed" ELSE row[e].status
  BY <1>3 DEF IInv, TypeOK
<1>5. outcomeBar' = [outcomeBar EXCEPT ![f] = "processed"]
  <2>1. \A e \in Events : Outcome(row'[e].status) =
                           IF e = f THEN "processed" ELSE Outcome(row[e].status)
    BY <1>4, Outcomes
  <2> QED BY <2>1 DEF outcomeBar
<1>6. triesBar' = triesBar
  BY <1>4 DEF triesBar
<1>7. outcomeBar[f] = "open"
  BY <1>1 DEF outcomeBar, Outcome
<1> QED BY <1>2, <1>5, <1>6, <1>7 DEF Contract!Complete, outcomeBar, triesBar

\* A retry changes nothing visible before the last attempt, and gives up after it.
LEMMA RetryStep ==
  ASSUME IInv, NEW f \in Events, NEW a \in Attempts, HoldsLease(f, a),
         row' = [row EXCEPT ![f] = Retried(f)], receipts' = receipts
  PROVE  UNCHANGED Contract!vars \/ \E T, G \in SUBSET Events : Contract!Poll(T, G)
<1>1. /\ row[f] \in Rows /\ row[f].status = "processing"
      /\ row[f].attempts \in 0 .. MaxAttempts /\ MaxAttempts \in Nat
  BY QueueAssumption DEF IInv, TypeOK, HoldsLease, Rows
<1>2. /\ Retried(f).attempts = row[f].attempts
      /\ Retried(f).status = IF row[f].attempts >= MaxAttempts THEN "dead_letter" ELSE "pending"
  BY <1>1 DEF Retried, Rows
<1>3. \A e \in Events : /\ row'[e].attempts = row[e].attempts
                        /\ row'[e].status = IF e = f THEN Retried(f).status ELSE row[e].status
  BY <1>2 DEF IInv, TypeOK
<1>4. CASE row[f].attempts < MaxAttempts
  <2>1. Outcome(Retried(f).status) = Outcome(row[f].status)
    BY <1>1, <1>2, <1>4 DEF Outcome
  <2> QED BY <1>3, <2>1, Stutter
<1>5. CASE row[f].attempts = MaxAttempts
  <2>1. Retried(f).status = "dead_letter"
    BY <1>1, <1>2, <1>5
  <2>2. outcomeBar' = [e \in Events |-> IF e \in {f} THEN "dead_letter" ELSE outcomeBar[e]]
    BY <1>3, <2>1, Outcomes DEF outcomeBar
  <2>3. triesBar' = [e \in Events |-> IF e \in {} THEN triesBar[e] + 1 ELSE triesBar[e]]
    BY <1>3 DEF triesBar
  <2>4. outcomeBar[f] = "open" /\ triesBar[f] = MaxAttempts
    BY <1>1, <1>5 DEF outcomeBar, triesBar, Outcome
  <2>5. Contract!Poll({}, {f})
    BY <2>2, <2>3, <2>4 DEF Contract!Poll, outcomeBar, triesBar
  <2> QED BY <2>5
<1> QED BY <1>1, <1>4, <1>5

\* The abstract counterpart of any step of a delivery.
LEMMA DeliverStep ==
  ASSUME IInv, NEW f \in Events, NEW a \in Attempts, Deliver(f, a)
  PROVE  Contract!Next \/ UNCHANGED Contract!vars
<1>1. CASE row' = row /\ receipts' = receipts
  BY <1>1, Stutter
<1>2. CASE At(f, a, "receipt") /\ row' = row
           /\ receipts' = [receipts EXCEPT ![f] = receipts[f] \cup {Handler(f, a)}]
  BY <1>2, ConsumeStep DEF Contract!Next
<1>3. CASE At(f, a, "mark") /\ HoldsLease(f, a)
           /\ row' = [row EXCEPT ![f] = Processed(f)] /\ receipts' = receipts
  BY <1>3, CompleteStep DEF Contract!Next
<1>4. CASE HoldsLease(f, a) /\ row' = [row EXCEPT ![f] = Retried(f)] /\ receipts' = receipts
  BY <1>4, RetryStep DEF Contract!Next
<1> QED BY <1>1, <1>2, <1>3, <1>4
        DEF Deliver, HasConsumerReceipt, Handle, RecordConsumerReceipt,
            MarkDomainEventProcessed, DispatchFails, RetryDomainEvent, DrainAborts

\* The events' rows change at most in when they may be claimed again.
LEMMA TimeStep ==
  ASSUME TypeOK, NEW f \in Events,
         \/ LeaseExpires(f) \/ RetryDelayElapses(f)
         \/ \E a \in Attempts : HeartbeatDomainEvent(f, a)
  PROVE  UNCHANGED Contract!vars
<1>1. \A r \in {[row[f] EXCEPT !.fresh = FALSE], [row[f] EXCEPT !.fresh = TRUE],
                [row[f] EXCEPT !.due = TRUE]} :
        r.status = row[f].status /\ r.attempts = row[f].attempts
  BY DEF TypeOK, Rows
<1>2. /\ receipts' = receipts
      /\ \/ row' = [row EXCEPT ![f] = [row[f] EXCEPT !.fresh = FALSE]]
         \/ row' = [row EXCEPT ![f] = [row[f] EXCEPT !.fresh = TRUE]]
         \/ row' = [row EXCEPT ![f] = [row[f] EXCEPT !.due = TRUE]]
  BY DEF LeaseExpires, RetryDelayElapses, HeartbeatDomainEvent, TypeOK
<1>3. \A e \in Events : row'[e].status = row[e].status /\ row'[e].attempts = row[e].attempts
  BY <1>1, <1>2 DEF TypeOK
<1> QED BY <1>2, <1>3, Stutter

\* At-least-once delivery with a bounded number of tries: the queue of rows,
\* leases and workers implements EventDelivery.
THEOREM QueueImplementsContract == Spec => ImplementsContract
<1>1. Init => Contract!Init
  BY DEF Init, Contract!Init, Absent, Outcome
<1>2. IInv /\ [Next]_vars => [Contract!Next]_(Contract!vars)
  <2> SUFFICES ASSUME IInv, [Next]_vars
               PROVE  Contract!Next \/ UNCHANGED Contract!vars
    OBVIOUS
  <2>1. TypeOK
    BY DEF IInv
  <2>2. CASE row' = row /\ receipts' = receipts
    BY <2>2, Stutter
  <2>3. ASSUME NEW e \in Events, AppendDomainEvent(e)
        PROVE  Contract!Next \/ UNCHANGED Contract!vars
    BY <2>3, PublishStep DEF Contract!Next
  <2>4. ASSUME NEW w \in Workers, ClaimDomainEvents(w)
        PROVE  Contract!Next \/ UNCHANGED Contract!vars
    BY <2>1, <2>4, PollStep DEF Contract!Next
  <2>5. ASSUME NEW e \in Events, NEW a \in Attempts, Deliver(e, a)
        PROVE  Contract!Next \/ UNCHANGED Contract!vars
    BY <2>5, DeliverStep
  <2>6. ASSUME NEW e \in Events,
               \/ LeaseExpires(e) \/ RetryDelayElapses(e)
               \/ \E a \in Attempts : HeartbeatDomainEvent(e, a)
        PROVE  UNCHANGED Contract!vars
    BY <2>1, <2>6, TimeStep
  <2>7. ASSUME NEW w \in Workers,
               \/ StopRuntime(w) \/ Exit(w) \/ Crash(w)
               \/ \E chunk \in SUBSET Waiting(w) : StartChunk(w, chunk)
        PROVE  row' = row /\ receipts' = receipts
    BY <2>7 DEF StopRuntime, Exit, Crash, Dies, StartChunk
  <2>8. CASE UNCHANGED vars
    BY <2>2, <2>8 DEF vars
  <2> QED BY <2>2, <2>3, <2>4, <2>5, <2>6, <2>7, <2>8 DEF Next
<1> QED BY <1>1, <1>2, Invariant, PTL DEF Spec, ImplementsContract, Contract!Spec
-----------------------------------------------------------------------------
(***************************************************************************)
(* Bounded repetition.  Every claim counts an attempt and begins at most   *)
(* one delivery; a delivery runs each handler at most once, because it     *)
(* passes a handler only with the handler's receipt.  So the runs that are *)
(* done and those that deliveries under way may still do never exceed the  *)
(* attempts: RepeatsOK counts both.                                        *)
(***************************************************************************)
Before(e, at, h) == \E i \in 1 .. Len(HandlersFor[e]) : i < at /\ HandlersFor[e][i] = h

\* A delivery in state d may still run h.
MayRun(e, d, h) ==
  \/ d.pc = "waiting"
  \/ d.pc \in {"check", "handle"} /\ ~Before(e, d.at, h)
  \/ d.pc = "receipt" /\ ~Before(e, d.at + 1, h)

Due(e, h) == {a \in Attempts : MayRun(e, delivery[e][a], h)}

RepeatsOK ==
  \A e \in Events :
    /\ \A a \in Attempts : delivery[e][a].pc # "none" => a <= row[e].attempts
    /\ \A a \in Attempts : delivery[e][a].pc = "handle" =>
                             ~Before(e, delivery[e][a].at, Handler(e, a))
    /\ \A h \in Handlers : handled[e][h] + Cardinality(Due(e, h)) <= row[e].attempts

\* The ways a step may change where a delivery stands.
LEMMA DeliveryCases ==
  ASSUME TypeOK, Next, NEW e \in Events, NEW a \in Attempts
  PROVE  \/ /\ delivery'[e][a].pc = delivery[e][a].pc
            /\ delivery'[e][a].at = delivery[e][a].at
         \/ delivery'[e][a].pc = "none"
         \/ delivery'[e][a].pc = "retry" /\ delivery[e][a].pc # "none"
         \/ /\ \E w \in Workers : ClaimDomainEvents(w)
            /\ InBatch(e) /\ a = row[e].attempts + 1
            /\ delivery'[e][a].pc = "waiting"
         \/ delivery[e][a].pc = "waiting" /\ delivery'[e][a].pc \in {"check", "mark"}
         \/ /\ delivery[e][a].pc \in {"check", "receipt"}
            /\ delivery'[e][a].pc \in {"check", "mark"}
            /\ delivery'[e][a].at = delivery[e][a].at + 1
         \/ /\ delivery[e][a].pc = "check" /\ Handler(e, a) \notin receipts[e]
            /\ delivery'[e][a].pc = "handle" /\ delivery'[e][a].at = delivery[e][a].at
         \/ /\ Handle(e, a) /\ delivery'[e][a].pc = "receipt"
            /\ delivery'[e][a].at = delivery[e][a].at
<1>0. delivery[e][a] \in Deliveries
  BY DEF TypeOK
<1>1. CASE delivery'[e][a] = delivery[e][a]
  BY <1>1
<1>2. ASSUME NEW w \in Workers, ClaimDomainEvents(w), delivery'[e][a] # delivery[e][a]
      PROVE  InBatch(e) /\ a = row[e].attempts + 1 /\ delivery'[e][a].pc = "waiting"
  BY <1>2 DEF ClaimDomainEvents
<1>3. ASSUME NEW w \in Workers, Dies(w), delivery'[e][a] # delivery[e][a]
      PROVE  delivery'[e][a].pc = "none"
  BY <1>3 DEF Dies, NoDelivery
<1>4. ASSUME NEW w \in Workers, NEW chunk \in SUBSET Waiting(w), StartChunk(w, chunk),
             delivery'[e][a] # delivery[e][a]
      PROVE  delivery[e][a].pc = "waiting" /\ delivery'[e][a].pc \in {"check", "mark"}
  <2>1. <<e, a>> \in chunk
    BY <1>4 DEF StartChunk
  <2>2. delivery[e][a].pc = "waiting"
    BY <2>1 DEF Waiting
  <2>3. delivery'[e][a] = [delivery[e][a] EXCEPT !.pc = Goto(e, 1)]
    BY <1>4, <2>1 DEF StartChunk
  <2> QED BY <1>0, <2>2, <2>3 DEF Goto, Deliveries
<1>5. ASSUME NEW f \in Events, NEW b \in Attempts, DrainAborts(f, b)
      PROVE  \/ delivery'[e][a].pc = "none"
             \/ /\ delivery'[e][a].pc = delivery[e][a].pc
                /\ delivery'[e][a].at = delivery[e][a].at
  <2>1. \/ delivery'[e][a] \in {delivery[e][a], NoDelivery}
        \/ delivery'[e][a] = [delivery[e][a] EXCEPT !.awaited = FALSE]
    BY <1>5 DEF DrainAborts
  <2>2. NoDelivery.pc = "none"
    BY DEF NoDelivery
  <2> QED BY <1>0, <2>1, <2>2 DEF Deliveries
<1>6. ASSUME NEW f \in Events, NEW b \in Attempts, Deliver(f, b), ~DrainAborts(f, b),
             delivery'[e][a] # delivery[e][a]
      PROVE  e = f /\ a = b
  BY <1>6 DEF Deliver, HasConsumerReceipt, Handle, RecordConsumerReceipt,
       MarkDomainEventProcessed, DispatchFails, RetryDomainEvent, Advance, Move, Finish, TypeOK
<1>7. ASSUME Advance(e, a)
      PROVE  /\ delivery'[e][a].pc \in {"check", "mark"}
             /\ delivery'[e][a].at = delivery[e][a].at + 1
  BY <1>0, <1>7 DEF Advance, TypeOK, Deliveries, Goto
<1>8. ASSUME NEW pc \in Running, Move(e, a, pc)
      PROVE  delivery'[e][a].pc = pc /\ delivery'[e][a].at = delivery[e][a].at
  BY <1>0, <1>8 DEF Move, TypeOK, Deliveries
<1>9. Finish(e, a) => delivery'[e][a].pc = "none"
  BY DEF Finish, TypeOK, NoDelivery
<1>10. ASSUME Deliver(e, a), ~DrainAborts(e, a), ~Handle(e, a)
       PROVE  \/ delivery'[e][a].pc \in {"none", "retry"}
              \/ /\ delivery[e][a].pc \in {"check", "receipt"}
                 /\ delivery'[e][a].pc \in {"check", "mark"}
                 /\ delivery'[e][a].at = delivery[e][a].at + 1
              \/ /\ delivery[e][a].pc = "check" /\ Handler(e, a) \notin receipts[e]
                 /\ delivery'[e][a].pc = "handle" /\ delivery'[e][a].at = delivery[e][a].at
  BY <1>7, <1>8, <1>9, <1>10 DEF Deliver, HasConsumerReceipt, RecordConsumerReceipt, At, Running,
       MarkDomainEventProcessed, DispatchFails, RetryDomainEvent
<1>11. Handle(e, a) => delivery'[e][a].pc = "receipt" /\ delivery'[e][a].at = delivery[e][a].at
  BY <1>8 DEF Handle, Running
<1>12. \A f \in Events, b \in Attempts : Deliver(f, b) => delivery[f][b].pc # "none"
  BY DEF Deliver, HasConsumerReceipt, Handle, RecordConsumerReceipt, At,
         MarkDomainEventProcessed, DispatchFails, RetryDomainEvent, DrainAborts
<1>13. \/ delivery' = delivery
       \/ (\E w \in Workers : ClaimDomainEvents(w) \/ Dies(w))
       \/ (\E w \in Workers : \E chunk \in SUBSET Waiting(w) : StartChunk(w, chunk))
       \/ (\E f \in Events, b \in Attempts : Deliver(f, b))
  BY DEF Next, AppendDomainEvent, LeaseExpires, RetryDelayElapses, StopRuntime, Exit, Crash,
         HeartbeatDomainEvent
<1> QED BY <1>1, <1>2, <1>3, <1>4, <1>5, <1>6, <1>10, <1>11, <1>12, <1>13

\* Only a claim changes how often an event was tried, and it counts one attempt.
LEMMA AttemptsCases ==
  ASSUME IInv, Next, NEW e \in Events
  PROVE  IF (\E w \in Workers : ClaimDomainEvents(w)) /\ InBatch(e)
         THEN row'[e].attempts = row[e].attempts + 1
         ELSE row'[e].attempts = row[e].attempts
<1>0. TypeOK /\ RowOK(e) /\ row[e] \in Rows /\ row[e].attempts \in Nat /\ MaxAttempts \in Nat
  BY QueueAssumption DEF IInv, TypeOK, RowsOK, Rows
<1>1. /\ Swept(e).attempts = row[e].attempts /\ Processed(e).attempts = row[e].attempts
      /\ Retried(e).attempts = row[e].attempts
      /\ \A w \in Workers : Leased(e, w).attempts = row[e].attempts + 1
  BY <1>0 DEF Swept, Processed, Retried, Leased, Rows
<1>2. InBatch(e) => ~Exhausted(e)
  BY <1>0 DEF InBatch, Claimable, Exhausted
<1>3. ASSUME NEW w \in Workers, ClaimDomainEvents(w)
      PROVE  row'[e] = IF Exhausted(e) THEN Swept(e) ELSE IF InBatch(e) THEN Leased(e, w) ELSE row[e]
  BY <1>3 DEF ClaimDomainEvents
<1>4. CASE \E w \in Workers : ClaimDomainEvents(w)
  BY <1>1, <1>2, <1>3, <1>4
<1>5. CASE ~\E w \in Workers : ClaimDomainEvents(w)
  <2>1. AppendDomainEvent(e) => row[e].attempts = 0
    BY <1>0 DEF RowOK, AppendDomainEvent
  <2> QED BY <1>0, <1>1, <1>5, <2>1, RowCases
<1> QED BY <1>4, <1>5

\* No step but a claim gives a delivery runs to do.
LEMMA DueStep ==
  ASSUME IInv, RepeatsOK, Next, NEW e \in Events, NEW h \in Handlers, NEW a \in Attempts,
         a \in Due(e, h)'
  PROVE  \/ a \in Due(e, h)
         \/ (\E w \in Workers : ClaimDomainEvents(w)) /\ InBatch(e) /\ a = row[e].attempts + 1
<1>0. TypeOK /\ delivery[e][a] \in Deliveries /\ delivery[e][a].at \in Nat
  BY DEF IInv, TypeOK, Deliveries
<1>1. MayRun(e, delivery'[e][a], h)
  BY DEF Due, MayRun, Before
<1>2. ASSUME NEW at \in Nat, Before(e, at, h)
      PROVE  Before(e, at + 1, h)
  BY <1>2, QueueAssumption DEF Before
<1>3. SUFFICES ASSUME ~ /\ \E w \in Workers : ClaimDomainEvents(w)
                        /\ InBatch(e) /\ a = row[e].attempts + 1
               PROVE  MayRun(e, delivery[e][a], h)
  BY DEF Due
<1>4. DeliveryOK(e, delivery[e][a])
  BY DEF IInv, DeliveriesOK
<1>5. Handle(e, a) => delivery[e][a].pc = "handle"
  BY DEF Handle, At
<1> QED BY <1>0, <1>1, <1>2, <1>3, <1>5, DeliveryCases DEF MayRun

\* A run of a handler is one of those its delivery could still do, and the last.
LEMMA RunsOnce ==
  ASSUME IInv, RepeatsOK, Next, NEW e \in Events, NEW a \in Attempts, Handle(e, a),
         NEW h \in Handlers, h = Handler(e, a)
  PROVE  a \in Due(e, h) /\ a \notin Due(e, h)'
<1>0. TypeOK /\ delivery[e][a] \in Deliveries /\ delivery[e][a].at \in Nat
  BY DEF IInv, TypeOK, Deliveries
<1>1. delivery[e][a].pc = "handle" /\ ~Before(e, delivery[e][a].at, h)
  BY DEF Handle, At, RepeatsOK
<1>2. delivery'[e][a].pc = "receipt" /\ delivery'[e][a].at = delivery[e][a].at
  BY <1>0 DEF Handle, Move, TypeOK, Deliveries
<1>3. delivery[e][a].at \in 1 .. Len(HandlersFor[e])
  BY <1>1 DEF IInv, DeliveriesOK, DeliveryOK, AtHandler
<1>4. Before(e, delivery[e][a].at + 1, h)
  BY <1>0, <1>3 DEF Before, Handler
<1>5. a \in Due(e, h)
  BY <1>1 DEF Due, MayRun
<1>6. ~MayRun(e, delivery'[e][a], h)
  BY <1>2, <1>4 DEF MayRun
<1> QED BY <1>5, <1>6 DEF Due, MayRun, Before

\* Every step keeps runs done and runs still due within the attempts.
LEMMA RepeatsStep ==
  ASSUME IInv, RepeatsOK, TypeOK', Next
  PROVE  RepeatsOK'
<1> SUFFICES ASSUME NEW e \in Events
             PROVE  /\ \A a \in Attempts : delivery'[e][a].pc # "none" => a <= row'[e].attempts
                    /\ \A a \in Attempts : delivery'[e][a].pc = "handle" =>
                          ~Before(e, delivery'[e][a].at, HandlersFor[e][delivery'[e][a].at])
                    /\ \A h \in Handlers :
                         handled'[e][h] + Cardinality(Due(e, h)') <= row'[e].attempts
  BY DEF RepeatsOK, Before, Handler
<1> DEFINE claimed == (\E w \in Workers : ClaimDomainEvents(w)) /\ InBatch(e)
           tries == row[e].attempts
<1>0. /\ TypeOK /\ tries \in 0 .. MaxAttempts /\ MaxAttempts \in Nat
      /\ row'[e].attempts = IF claimed THEN tries + 1 ELSE tries
  <2>1. row[e] \in Rows
    BY DEF IInv, TypeOK
  <2> QED BY <2>1, AttemptsCases, QueueAssumption DEF IInv, Rows
<1>1. \A a \in Attempts : delivery'[e][a].pc # "none" => a <= row'[e].attempts
  <2> SUFFICES ASSUME NEW a \in Attempts, delivery'[e][a].pc # "none"
               PROVE  a <= row'[e].attempts
    OBVIOUS
  <2>1. delivery[e][a].pc # "none" => a <= tries
    BY DEF RepeatsOK
  <2>2. delivery[e][a].pc # "none" \/ (claimed /\ a = tries + 1)
    BY <1>0, DeliveryCases DEF Handle, At
  <2> QED BY <1>0, <2>1, <2>2 DEF Attempts
<1>2. ASSUME NEW a \in Attempts, delivery'[e][a].pc = "handle"
      PROVE  ~Before(e, delivery'[e][a].at, HandlersFor[e][delivery'[e][a].at])
  <2>1. CASE delivery[e][a].pc = "handle" /\ delivery'[e][a].at = delivery[e][a].at
    BY <2>1 DEF RepeatsOK, Handler
  <2>2. CASE delivery[e][a].pc = "check" /\ Handler(e, a) \notin receipts[e]
             /\ delivery'[e][a].at = delivery[e][a].at
    BY <2>2 DEF IInv, DeliveriesOK, DeliveryOK, AtHandler, Before, Handler
  <2> QED BY <1>0, <1>2, <2>1, <2>2, DeliveryCases
<1>3. ASSUME NEW h \in Handlers
      PROVE  handled'[e][h] + Cardinality(Due(e, h)') <= row'[e].attempts
  <2>0. /\ IsFiniteSet(Due(e, h)) /\ Cardinality(Due(e, h)) \in Nat
        /\ IsFiniteSet(Due(e, h)') /\ Cardinality(Due(e, h)') \in Nat
        /\ handled[e][h] \in Nat /\ handled'[e][h] \in Nat
        /\ handled[e][h] + Cardinality(Due(e, h)) <= tries
    <3>1. IsFiniteSet(Attempts)
      BY <1>0, FS_Interval DEF Attempts
    <3>2. Due(e, h) \subseteq Attempts /\ Due(e, h)' \subseteq Attempts
      BY DEF Due
    <3>3. IsFiniteSet(Due(e, h)) /\ IsFiniteSet(Due(e, h)')
      BY <3>1, <3>2, FS_Subset
    <3> QED BY <1>0, <3>3, FS_CardinalityType DEF RepeatsOK, TypeOK
  <2>1. ASSUME NEW a \in Attempts, Handle(e, a), Handler(e, a) = h
        PROVE  handled'[e][h] + Cardinality(Due(e, h)') <= row'[e].attempts
    <3>1. handled'[e][h] = handled[e][h] + 1
      BY <1>0, <2>1 DEF Handle, TypeOK
    <3>2. ~claimed /\ row'[e].attempts = tries
      BY <2>1, <1>0 DEF Handle
    <3>3. Due(e, h)' \subseteq Due(e, h) \ {a}
      <4>1. a \in Due(e, h) /\ a \notin Due(e, h)'
        BY <2>1, RunsOnce
      <4>2. \A b \in Attempts : b \in Due(e, h)' => b \in Due(e, h)
        BY <3>2, DueStep
      <4> QED BY <4>1, <4>2 DEF Due
    <3>4. a \in Due(e, h)
      BY <2>1, RunsOnce
    <3>5. /\ IsFiniteSet(Due(e, h) \ {a})
          /\ Cardinality(Due(e, h) \ {a}) = Cardinality(Due(e, h)) - 1
      BY <2>0, <3>4, FS_RemoveElement
    <3>6. Cardinality(Due(e, h)') <= Cardinality(Due(e, h) \ {a})
      BY <3>3, <3>5, FS_Subset
    <3> HIDE DEF claimed, tries
    <3> QED BY <1>0, <2>0, <3>1, <3>2, <3>5, <3>6
  <2>2. CASE handled'[e][h] = handled[e][h]
    <3>1. CASE claimed
      <4>1. Due(e, h)' \subseteq Due(e, h) \cup {tries + 1}
        BY <3>1, DueStep DEF Due
      <4>2. /\ IsFiniteSet(Due(e, h) \cup {tries + 1})
            /\ Cardinality(Due(e, h) \cup {tries + 1}) <= Cardinality(Due(e, h)) + 1
        <5>1. IsFiniteSet(Due(e, h)) /\ Cardinality(Due(e, h)) \in Nat
          BY <2>0
        <5>2. ASSUME NEW S, NEW x, IsFiniteSet(S), Cardinality(S) \in Nat
              PROVE  IsFiniteSet(S \cup {x}) /\ Cardinality(S \cup {x}) <= Cardinality(S) + 1
          <6>1. /\ IsFiniteSet(S \cup {x})
                /\ Cardinality(S \cup {x}) = IF x \in S THEN Cardinality(S) ELSE Cardinality(S) + 1
            BY <5>2, FS_AddElement
          <6> QED BY <5>2, <6>1
        <5> QED BY <5>1, <5>2
      <4>3. Cardinality(Due(e, h)') <= Cardinality(Due(e, h) \cup {tries + 1})
        BY <4>1, <4>2, FS_Subset
      <4>4. Cardinality(Due(e, h) \cup {tries + 1}) \in Nat
        BY <4>2, FS_CardinalityType
      <4> HIDE DEF claimed, tries
      <4> QED BY <1>0, <2>0, <2>2, <3>1, <4>2, <4>3, <4>4
    <3>2. CASE ~claimed
      <4>1. Due(e, h)' \subseteq Due(e, h)
        BY <3>2, DueStep DEF Due
      <4>2. Cardinality(Due(e, h)') <= Cardinality(Due(e, h))
        BY <2>0, <4>1, FS_Subset
      <4> HIDE DEF claimed, tries
      <4> QED BY <1>0, <2>0, <2>2, <3>2, <4>2
    <3> QED BY <3>1, <3>2
  <2>3. \/ handled'[e][h] = handled[e][h]
        \/ \E a \in Attempts : Handle(e, a) /\ Handler(e, a) = h
    <3>1. handled' = handled \/ \E f \in Events, a \in Attempts : Handle(f, a)
      BY DEF Next, AppendDomainEvent, LeaseExpires, RetryDelayElapses, ClaimDomainEvents,
             StopRuntime, Exit, Crash, Dies, StartChunk, HeartbeatDomainEvent, Deliver,
             HasConsumerReceipt, RecordConsumerReceipt, MarkDomainEventProcessed,
             DispatchFails, RetryDomainEvent, DrainAborts
    <3>2. ASSUME NEW f \in Events, NEW a \in Attempts, Handle(f, a), handled'[e][h] # handled[e][h]
          PROVE  f = e /\ Handler(e, a) = h
      <4>1. handled' = [handled EXCEPT ![f] = [handled[f] EXCEPT ![Handler(f, a)] =
                                                 handled[f][Handler(f, a)] + 1]]
        BY <1>0, <3>2 DEF Handle, TypeOK
      <4>2. f = e
        BY <1>0, <3>2, <4>1 DEF TypeOK
      <4>3. handled[e] \in [Handlers -> Nat]
        BY <1>0 DEF TypeOK
      <4>4. handled'[e] = [handled[e] EXCEPT ![Handler(e, a)] = handled[e][Handler(e, a)] + 1]
        BY <1>0, <4>1, <4>2 DEF TypeOK
      <4> QED BY <3>2, <4>2, <4>3, <4>4
    <3> QED BY <3>1, <3>2
  <2> QED BY <2>1, <2>2, <2>3
<1> QED BY <1>1, <1>2, <1>3

\* At-least-once delivery runs a handler at most once per claim of its event:
\* takeovers of lapsed leases, crashes and lost receipts add no run beyond the
\* attempts that claimDomainEvents counts.
THEOREM RepeatsBounded == Spec => []RepeatsAreBounded
<1>1. Init => RepeatsOK
  <2> SUFFICES ASSUME Init, NEW e \in Events
               PROVE  /\ \A a \in Attempts : delivery[e][a].pc = "none"
                      /\ row[e].attempts = 0
                      /\ \A h \in Handlers : handled[e][h] = 0 /\ Cardinality(Due(e, h)) = 0
    BY DEF RepeatsOK
  <2>1. /\ \A a \in Attempts : delivery[e][a].pc = "none"
        /\ row[e].attempts = 0 /\ \A h \in Handlers : handled[e][h] = 0
    BY DEF Init, NoDelivery, Absent
  <2>2. \A h \in Handlers : Due(e, h) = {}
    BY <2>1 DEF Due, MayRun
  <2> QED BY <2>1, <2>2, FS_EmptySet
<1>2. IInv /\ RepeatsOK /\ IInv' /\ [Next]_vars => RepeatsOK'
  <2>1. IInv /\ RepeatsOK /\ IInv' /\ Next => RepeatsOK'
    BY RepeatsStep DEF IInv
  <2>2. RepeatsOK /\ UNCHANGED vars => RepeatsOK'
    BY DEF vars, RepeatsOK, Due, MayRun, Before, Handler
  <2> QED BY <2>1, <2>2
<1>3. IInv /\ RepeatsOK => RepeatsAreBounded
  <2> SUFFICES ASSUME IInv, RepeatsOK, NEW e \in Events, NEW h \in Handlers
               PROVE  handled[e][h] <= row[e].attempts
    BY DEF RepeatsAreBounded
  <2>1. IsFiniteSet(Attempts) /\ Due(e, h) \subseteq Attempts
    BY QueueAssumption, FS_Interval DEF Attempts, Due
  <2>2. Cardinality(Due(e, h)) \in Nat
    BY <2>1, FS_Subset, FS_CardinalityType
  <2>3. handled[e][h] \in Nat /\ row[e].attempts \in Nat
    <3>1. row[e] \in Rows
      BY DEF IInv, TypeOK
    <3> QED BY <3>1, QueueAssumption DEF IInv, TypeOK, Rows
  <2> QED BY <2>2, <2>3 DEF RepeatsOK
<1> QED BY <1>1, <1>2, <1>3, Invariant, PTL DEF Spec
=============================================================================
