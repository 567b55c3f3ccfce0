--------------------------- MODULE EventDelivery ---------------------------
(***************************************************************************)
(* What the domain event runtime (src/events) promises about one durable   *)
(* event, with no workers, leases or batches in it: the event stays open   *)
(* while it is tried a bounded number of times, each of its consumers      *)
(* leaves at most one receipt, and it ends either processed, with a        *)
(* receipt from every consumer, or dead-lettered, with its tries used up.  *)
(* DomainEvents implements this specification.                             *)
(***************************************************************************)
EXTENDS Naturals, FiniteSets

CONSTANTS
  Events,        \* events that may be published
  Subscribers,   \* Subscribers[e]: the consumers registered for event e
  MaxAttempts    \* domain_events.max_attempts

VARIABLES
  outcome,       \* outcome[e]: where the event stands
  tries,         \* tries[e]: how many deliveries were begun
  consumed       \* consumed[e]: the consumers with a receipt

vars == <<outcome, tries, consumed>>

Outcomes == {"absent", "open", "processed", "dead_letter"}

Init ==
  /\ outcome = [e \in Events |-> "absent"]
  /\ tries = [e \in Events |-> 0]
  /\ consumed = [e \in Events |-> {}]

\* The business transaction that appends the event commits.
Publish(e) ==
  /\ outcome[e] = "absent"
  /\ outcome' = [outcome EXCEPT ![e] = "open"]
  /\ UNCHANGED <<tries, consumed>>

\* One poll begins a delivery of the events of T and gives up those of G.
Poll(T, G) ==
  /\ \A e \in T : outcome[e] = "open" /\ tries[e] < MaxAttempts
  /\ \A e \in G : outcome[e] = "open" /\ tries[e] = MaxAttempts
  /\ tries' = [e \in Events |-> IF e \in T THEN tries[e] + 1 ELSE tries[e]]
  /\ outcome' = [e \in Events |-> IF e \in G THEN "dead_letter" ELSE outcome[e]]
  /\ UNCHANGED consumed

\* A consumer's receipt is stored.  A delivery that outlived its lease may
\* still do this after the event was given up.
Consume(e, c) ==
  /\ outcome[e] # "absent"
  /\ c \in Subscribers[e]
  /\ consumed' = [consumed EXCEPT ![e] = @ \cup {c}]
  /\ UNCHANGED <<outcome, tries>>

Complete(e) ==
  /\ outcome[e] = "open"
  /\ consumed[e] = Subscribers[e]
  /\ outcome' = [outcome EXCEPT ![e] = "processed"]
  /\ UNCHANGED <<tries, consumed>>

Next ==
  \/ \E e \in Events : Publish(e) \/ Complete(e)
  \/ \E e \in Events : \E c \in Subscribers[e] : Consume(e, c)
  \/ \E T, G \in SUBSET Events : Poll(T, G)

Spec == Init /\ [][Next]_vars
=============================================================================
