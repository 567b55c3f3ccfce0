----------------------------- MODULE EventStream -----------------------------
(***************************************************************************)
(* The live event stream of one web process and one of its SSE clients:    *)
(* business transactions insert rows of domain_events, the runtime's       *)
(* broadcast drain reads them behind its cursor and emits them to the open *)
(* streams (domain-event.runtime.ts), and a stream replays, buffers,       *)
(* forwards and catches up (workspace-event.controller.ts).                *)
(*                                                                         *)
(* An event is its BIGSERIAL sequence number.  PostgreSQL assigns the      *)
(* number when the row is inserted and shows the row when its transaction  *)
(* commits, so numbers may become visible out of order; OrderedCommits     *)
(* asks for the schedules in which they do not.  A query is two steps, the *)
(* read in the database and the answer in the process; between two awaits  *)
(* the process runs alone.                                                 *)
(*                                                                         *)
(* Operators commented "Variant:" are not part of the specification: each  *)
(* is a plausible mistake in the definition that follows it.               *)
(***************************************************************************)
EXTENDS Integers, Sequences, FiniteSets, FiniteSetsExt

CONSTANTS
  MaxSeq,          \* rows the business transactions insert (bounds the model)
  Mine,            \* numbers that fall to the client's workspace
  Page,            \* page size of both readers (500 in the code)
  OrderedCommits   \* TRUE: transactions commit in the order of their numbers

Seqs == 1 .. MaxSeq

ASSUME StreamAssumption ==
  /\ MaxSeq \in Nat \ {0}
  /\ Page \in Nat \ {0}
  /\ Mine \subseteq Seqs
  /\ OrderedCommits \in BOOLEAN

VARIABLES
  tx,          \* tx[s]: the transaction that inserted number s
  broadcast,   \* the process' broadcast drain and its cursor
  stream,      \* the server side of the client's connection
  wire,        \* numbers written to the response and not yet received
  client       \* what the client has: the events received, its Last-Event-ID

vars == <<tx, broadcast, stream, wire, client>>

Committed == {s \in Seqs : tx[s] = "committed"}

Highest(S) == IF S = {} THEN 0 ELSE Max(S)

\* The numbers of S in ascending order.
Ascending(S) ==
  CHOOSE q \in [1 .. Cardinality(S) -> S] :
    /\ \A s \in S : \E i \in 1 .. Cardinality(S) : q[i] = s
    /\ \A i, j \in 1 .. Cardinality(S) : i < j => q[i] < q[j]

\* ORDER BY sequence ASC LIMIT Page of the visible rows of S after a cursor.
PageAfter(S, cursor) ==
  LET later == {s \in S \cap Committed : s > cursor}
  IN {s \in later : Cardinality({r \in later : r < s}) < Page}

ClosedStream == [pc |-> "off", mode |-> "latest", lastSent |-> 0,
                 answer |-> {}, buffered |-> {}]

Init ==
  /\ tx = [s \in Seqs |-> "none"]
  /\ broadcast = [pc |-> "idle", requested |-> FALSE, cursor |-> 0, page |-> {}]
  /\ stream = ClosedStream
  /\ wire = << >>
  /\ client = [inbox |-> << >>, lastId |-> 0, base |-> MaxSeq]

-----------------------------------------------------------------------------
\* The INSERT of appendDomainEvent takes the next number; its transaction
\* commits or rolls back later.
Insert(s) ==
  /\ tx[s] = "none"
  /\ \A r \in 1 .. s - 1 : tx[r] # "none"
  /\ tx' = [tx EXCEPT ![s] = "open"]
  /\ UNCHANGED <<broadcast, stream, wire, client>>

Commit(s) ==
  /\ tx[s] = "open"
  /\ OrderedCommits => \A r \in 1 .. s - 1 : tx[r] # "open"
  /\ tx' = [tx EXCEPT ![s] = "committed"]
  /\ UNCHANGED <<broadcast, stream, wire, client>>

Rollback(s) ==
  /\ tx[s] = "open"
  /\ tx' = [tx EXCEPT ![s] = "rolledback"]
  /\ UNCHANGED <<broadcast, stream, wire, client>>

-----------------------------------------------------------------------------
\* Variant: send writes whatever it is given.
UnsentAll(S) == S

\* What a stream has written once it sends the events of S in ascending order:
\* send drops what is not after lastSentSequence.
Unsent(S) == {s \in S : s > stream.lastSent}

Written(S) == wire \o Ascending(Unsent(S))

\* requestDomainEventBroadcast: by NOTIFY, by the fallback timer, by a new
\* LISTEN connection.  While a drain is active it only leaves a mark.
RequestDomainEventBroadcast ==
  /\ broadcast' = IF broadcast.pc = "idle"
                  THEN [broadcast EXCEPT !.pc = "query", !.requested = FALSE]
                  ELSE [broadcast EXCEPT !.requested = TRUE]
  /\ UNCHANGED <<tx, stream, wire, client>>

BroadcastRead ==
  /\ broadcast.pc = "query"
  /\ broadcast' = [broadcast EXCEPT !.pc = "answer",
                                    !.page = PageAfter(Seqs, broadcast.cursor)]
  /\ UNCHANGED <<tx, stream, wire, client>>

\* The drain's next turn: again if it was requested meanwhile.
Rest(b) == [b EXCEPT !.pc = IF b.requested THEN "query" ELSE "idle",
                     !.requested = FALSE, !.page = {}]

\* The page is emitted to the stream, which forwards or buffers it.
BroadcastEmit ==
  LET page == broadcast.page
      passed == [broadcast EXCEPT !.cursor = Highest(page \cup {@})]
  IN /\ broadcast.pc = "answer"
     /\ broadcast' = IF Cardinality(page) < Page THEN Rest(passed)
                     ELSE [passed EXCEPT !.pc = "query", !.page = {}]
     /\ CASE stream.pc = "off" -> UNCHANGED <<stream, wire>>
          [] stream.pc = "live" ->
               /\ wire' = Written(page \cap Mine)
               /\ stream' = [stream EXCEPT !.lastSent = Highest(Unsent(page \cap Mine) \cup {@})]
          [] OTHER ->
               /\ stream' = [stream EXCEPT !.buffered = @ \cup (page \cap Mine)]
               /\ UNCHANGED wire
     /\ UNCHANGED <<tx, client>>

BroadcastFails ==
  /\ broadcast.pc = "query"
  /\ broadcast' = Rest(broadcast)
  /\ UNCHANGED <<tx, stream, wire, client>>

-----------------------------------------------------------------------------
\* streamWorkspaceEvents subscribes, then replays after the client's number.
ConnectAfter(s) ==
  /\ stream.pc = "off"
  /\ stream' = [ClosedStream EXCEPT !.pc = "query", !.mode = "replay", !.lastSent = s]
  /\ UNCHANGED <<tx, broadcast, wire>>

\* Reconnection with Last-Event-ID, which counts only if the URL has no
\* afterSequence.
Resume == client.lastId > 0 /\ ConnectAfter(client.lastId) /\ UNCHANGED client

\* A connection whose URL has afterSequence: 0 or the number of an event.  A
\* client that reconnects with it starts again from there.
ConnectFrom(n) ==
  /\ n \in {0} \cup Committed
  /\ ConnectAfter(n)
  /\ client' = [inbox |-> << >>, lastId |-> 0, base |-> n]

\* A connection without a number starts after the latest visible event.
ConnectFresh ==
  /\ stream.pc = "off"
  /\ stream' = [ClosedStream EXCEPT !.pc = "query"]
  /\ client' = [inbox |-> << >>, lastId |-> 0, base |-> MaxSeq]
  /\ UNCHANGED <<tx, broadcast, wire>>

\* The catchupTimer fires.
CatchUp ==
  /\ stream.pc = "live"
  /\ stream' = [stream EXCEPT !.pc = "query", !.mode = "catchup"]
  /\ UNCHANGED <<tx, broadcast, wire, client>>

StreamRead ==
  /\ stream.pc = "query"
  /\ stream' = [stream EXCEPT !.pc = "answer",
                  !.answer = IF stream.mode = "latest" THEN Mine \cap Committed
                             ELSE PageAfter(Mine, stream.lastSent)]
  /\ UNCHANGED <<tx, broadcast, wire, client>>

\* Variant: what was emitted during the replay is dropped.
GoLiveUnbuffered(lastSent, sent) ==
  /\ stream' = [stream EXCEPT !.pc = "live", !.answer = {}, !.buffered = {},
                              !.lastSent = lastSent]
  /\ wire' = sent

\* replaying = false: the buffer is sorted and sent after what was sent so far.
GoLive(lastSent, sent) ==
  LET flushed == {s \in stream.buffered : s > lastSent}
  IN /\ stream' = [stream EXCEPT !.pc = "live", !.answer = {}, !.buffered = {},
                                 !.lastSent = Highest(flushed \cup {lastSent})]
     /\ wire' = sent \o Ascending(flushed)

LatestAnswer ==
  /\ stream.pc = "answer" /\ stream.mode = "latest"
  /\ GoLive(Highest(stream.answer), wire)
  /\ client' = [client EXCEPT !.base = Highest(stream.answer)]
  /\ UNCHANGED <<tx, broadcast>>

\* A full page is followed by another query, any other ends the replay.
ReplayAnswer ==
  LET page == stream.answer
      lastSent == Highest(Unsent(page) \cup {stream.lastSent})
  IN /\ stream.pc = "answer" /\ stream.mode # "latest"
     /\ IF Cardinality(page) < Page
        THEN GoLive(lastSent, Written(page))
        ELSE /\ stream' = [stream EXCEPT !.pc = "query", !.answer = {},
                                         !.lastSent = lastSent]
             /\ wire' = Written(page)
     /\ UNCHANGED <<tx, broadcast, client>>

\* Variant: replaying stays set after an error, no timer catches up again.
CatchUpStaysOff ==
  /\ stream.pc = "query" /\ stream.mode = "catchup"
  /\ stream' = [stream EXCEPT !.pc = "replaying"]
  /\ UNCHANGED <<tx, broadcast, wire, client>>

\* A failed catch-up query still flushes the buffer; a failed query of the
\* connection's start ends the response, see Disconnect.
CatchUpFails ==
  /\ stream.pc = "query" /\ stream.mode = "catchup"
  /\ GoLive(stream.lastSent, wire)
  /\ UNCHANGED <<tx, broadcast, client>>

\* Either side closes; what is still on the wire is lost.
Disconnect ==
  /\ stream.pc # "off"
  /\ stream' = ClosedStream
  /\ wire' = << >>
  /\ UNCHANGED <<tx, broadcast, client>>

Receive ==
  /\ wire # << >>
  /\ wire' = Tail(wire)
  /\ client' = [client EXCEPT !.inbox = Append(@, Head(wire)), !.lastId = Head(wire)]
  /\ UNCHANGED <<tx, broadcast, stream>>

\* The process restarts: startDomainEventRuntime reads its cursor and requests a
\* broadcast before the server listens.
Restart ==
  /\ broadcast' = [pc |-> "query", requested |-> FALSE, cursor |-> Highest(Committed),
                   page |-> {}]
  /\ stream' = ClosedStream
  /\ wire' = << >>
  /\ UNCHANGED <<tx, client>>

-----------------------------------------------------------------------------
Next ==
  \/ \E s \in Seqs : Insert(s) \/ Commit(s) \/ Rollback(s)
  \/ RequestDomainEventBroadcast \/ BroadcastRead \/ BroadcastEmit \/ BroadcastFails
  \/ Resume \/ ConnectFresh \/ \E n \in 0 .. MaxSeq : ConnectFrom(n)
  \/ CatchUp \/ StreamRead \/ LatestAnswer \/ ReplayAnswer \/ CatchUpFails
  \/ Disconnect \/ Receive \/ Restart

\* The catch-up timer fires, answers are processed, the network delivers, and
\* the database does not fail every query for ever.
Fairness ==
  /\ WF_vars(CatchUp) /\ SF_vars(StreamRead)
  /\ WF_vars(LatestAnswer) /\ WF_vars(ReplayAnswer) /\ WF_vars(Receive)

Spec == Init /\ [][Next]_vars

FairSpec == Spec /\ Fairness

-----------------------------------------------------------------------------
Received == {client.inbox[i] : i \in 1 .. Len(client.inbox)}

\* Type correctness of the rows, the drain, the stream and the client.
TypeOK ==
  /\ tx \in [Seqs -> {"none", "open", "committed", "rolledback"}]
  /\ broadcast \in [pc : {"idle", "query", "answer"}, requested : BOOLEAN,
                    cursor : 0 .. MaxSeq, page : SUBSET Seqs]
  /\ stream \in [pc : {"off", "query", "answer", "live"},
                 mode : {"latest", "replay", "catchup"}, lastSent : 0 .. MaxSeq,
                 answer : SUBSET Mine, buffered : SUBSET Mine]
  /\ wire \in Seq(Mine)
  /\ client \in [inbox : Seq(Mine), lastId : 0 .. MaxSeq, base : 0 .. MaxSeq]

\* Over any number of connections the client sees each event at most once and
\* in ascending order, what it is about to receive included.
InOrder ==
  LET seen == client.inbox \o wire
  IN \A i \in 1 .. Len(seen) - 1 : seen[i] < seen[i + 1]

\* An event committed before the client's Last-Event-ID, after the point from
\* which it asked for events, has been received: reconnecting with that number
\* loses nothing.
NoSkippedEvent ==
  \A s \in Mine \cap Committed :
    client.base < s /\ s <= client.lastId => s \in Received

\* Nothing the stream has passed over is missing from what it wrote.
NothingPassedOver ==
  stream.pc # "off" =>
    \A s \in Mine \cap Committed :
      client.base < s /\ s <= stream.lastSent =>
        \/ s \in Received
        \/ \E i \in 1 .. Len(wire) : wire[i] = s

\* A committed event reaches a client that stays connected, even if every
\* notification and every broadcast is lost: the catch-up timer finds it.
StreamCatchesUp ==
  \A s \in Mine :
    s \in Committed /\ stream.pc # "off" /\ client.base < s
      ~> s \in Received \/ stream.pc = "off"
=============================================================================
