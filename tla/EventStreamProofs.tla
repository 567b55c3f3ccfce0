------------------------- MODULE EventStreamProofs -------------------------
(***************************************************************************)
(* Safety of the stream, for any number of events, of connections and of   *)
(* broadcasts, and any size of page.                                       *)
(***************************************************************************)
EXTENDS EventStream, SumTheorems

Elements(q) == {q[i] : i \in 1 .. Len(q)}

Rising(q) == \A i, j \in 1 .. Len(q) : i < j => q[i] < q[j]

(***************************************************************************)
(* The order: what is on the wire comes after what the client has and      *)
(* before what the stream sends next.  A connection without a number has   *)
(* sent nothing until it knows the latest event.                           *)
(***************************************************************************)
Connected == stream.pc # "off"

WireOK ==
  /\ Rising(client.inbox) /\ Rising(wire)
  /\ \A s \in Elements(client.inbox) : s <= client.lastId
  /\ \A s \in Elements(wire) : client.lastId < s /\ s <= stream.lastSent
  /\ Connected => client.lastId <= stream.lastSent
  /\ ~Connected => wire = << >>
  /\ stream.pc \in {"query", "answer"} /\ stream.mode = "latest" =>
       wire = << >> /\ client.lastId = 0

OrderInv == TypeOK /\ WireOK

(***************************************************************************)
(* The gaps, when transactions commit in order: below a committed number   *)
(* nothing is open (SettledOK), so what was read behind a cursor stays all *)
(* there is (PagesOK); and between what the stream has sent and the cursor *)
(* of the broadcast, nothing is missing from what the stream holds         *)
(* (BetweenOK).                                                            *)
(***************************************************************************)
SettledOK ==
  \A s \in Seqs, r \in Seqs :
    r < s => /\ tx[s] # "none" => tx[r] # "none"
             /\ tx[s] = "committed" => tx[r] # "open"

Known == Committed \cup {0}

KnownOK ==
  /\ broadcast.cursor \in Known /\ client.lastId \in Known
  /\ Connected => stream.lastSent \in Known
  /\ Elements(wire) \subseteq Committed
  /\ broadcast.pc = "answer" => broadcast.page \subseteq Committed
  /\ stream.pc = "answer" => stream.answer \subseteq Committed
  /\ stream.buffered \subseteq Committed
  /\ \A s \in stream.buffered : s <= broadcast.cursor

\* All of S after a number, up to any member of the page, is in the page.
Gapless(page, S, after) ==
  \A p \in page, s \in S \cap Committed : after < s /\ s <= p => s \in page

PagesOK ==
  /\ broadcast.pc = "answer" => Gapless(broadcast.page, Seqs, broadcast.cursor)
  /\ stream.pc = "answer" /\ stream.mode # "latest" =>
       Gapless(stream.answer, Mine, stream.lastSent)

\* What the broadcast has passed and the stream, which has sent up to a number,
\* has not.
Between(sent) == {s \in Mine \cap Committed : sent < s /\ s <= broadcast.cursor}

Asked == {s \in Seqs : client.base < s}

BetweenOK ==
  /\ stream.pc = "live" => Between(stream.lastSent) \cap Asked = {}
  /\ stream.pc \in {"query", "answer"} /\ stream.mode = "catchup" =>
       Between(stream.lastSent) \cap Asked \subseteq stream.buffered
  /\ stream.pc = "answer" /\ stream.mode = "latest" =>
       Between(0) \subseteq stream.answer \cup stream.buffered
  /\ stream.pc = "answer" /\ stream.mode # "latest" /\ Cardinality(stream.answer) < Page =>
       Between(stream.lastSent) \subseteq stream.answer \cup stream.buffered

Delivered == Elements(client.inbox) \cup Elements(wire)

\* Everything up to a number that was asked for is in a set.
Covers(S, upto) == \A s \in Mine \cap Committed \cap Asked : s <= upto => s \in S

PassedOK == /\ Connected => Covers(Delivered, stream.lastSent)
            /\ Covers(Elements(client.inbox), client.lastId)

GapInv == SettledOK /\ KnownOK /\ PagesOK /\ BetweenOK /\ PassedOK

-----------------------------------------------------------------------------
(***************************************************************************)
(* Sets and sequences of numbers.                                          *)
(***************************************************************************)

\* The numbers, and the sets of them.
LEMMA SeqsFacts ==
  /\ MaxSeq \in Nat /\ Page \in Nat /\ Page > 0 /\ Mine \subseteq Seqs /\ Seqs \subseteq Nat
  /\ \A S \in SUBSET Seqs : IsFiniteSet(S) /\ Cardinality(S) \in Nat
<1>1. /\ MaxSeq \in Nat /\ Page \in Nat /\ Page > 0 /\ Mine \subseteq Seqs /\ Seqs \subseteq Nat
      /\ IsFiniteSet(Seqs)
  BY StreamAssumption, FS_Interval DEF Seqs
<1> QED BY <1>1, FS_Subset, FS_CardinalityType

\* A set of numbers up to n has a greatest one.
LEMMA GreatestExists ==
  ASSUME NEW n \in Nat, NEW S, S \subseteq 0 .. n, S # {}
  PROVE  \E x \in S : \A y \in S : x >= y
<1> DEFINE T == {k \in Nat : \A U \in SUBSET (0 .. k) :
                               U # {} => \E x \in U : \A y \in U : x >= y}
<1>1. 0 \in T
  <2> SUFFICES ASSUME NEW U \in SUBSET (0 .. 0), NEW x \in U
               PROVE  \E z \in U : \A y \in U : z >= y
    OBVIOUS
  <2>1. x \in Int /\ \A y \in U : y = x
    OBVIOUS
  <2> QED BY <2>1
<1>2. ASSUME NEW k \in Nat, k \in T PROVE k + 1 \in T
  <2> SUFFICES ASSUME NEW U \in SUBSET (0 .. k + 1), U # {}
               PROVE  \E x \in U : \A y \in U : x >= y
    OBVIOUS
  <2>1. CASE k + 1 \in U
    BY <2>1
  <2>2. CASE k + 1 \notin U
    <3>1. U \subseteq 0 .. k
      BY <2>2
    <3> QED BY <1>2, <3>1
  <2> QED BY <2>1, <2>2
<1>3. Nat \subseteq T
  <2> HIDE DEF T
  <2> QED BY <1>1, <1>2, NatsBySteps
<1> QED BY <1>3

\* A set of numbers has a least one.
LEMMA LeastExists ==
  ASSUME NEW S, S \subseteq Nat, S # {}
  PROVE  \E x \in S : \A y \in S : x <= y
<1>1. PICK x \in S : \A y \in S : <<y, x>> \notin NatOrder
  <2>1. IsWellFoundedOn(NatOrder, Nat)
    BY NatLessThanWellFounded DEF OpToRel, NatOrder
  <2> QED BY <2>1, WFMin
<1>2. ASSUME NEW y \in S PROVE x <= y
  <2>1. x \in Nat /\ y \in Nat /\ <<y, x>> \in Nat \X Nat
    OBVIOUS
  <2>2. ~(y < x)
    BY <1>1, <2>1 DEF NatOrder
  <2> QED BY <2>1, <2>2
<1> QED BY <1>2

\* Highest of a set with a member x is a member, and none is above it.
LEMMA HighestIs ==
  ASSUME NEW S, S \subseteq 0 .. MaxSeq, NEW x \in S
  PROVE  Highest(S) \in S /\ \A y \in S : Highest(S) >= y
BY GreatestExists, SeqsFacts DEF Highest, Max

\* An ascending enumeration of a set of numbers exists.
LEMMA AscendingExists ==
  ASSUME NEW n \in Nat, NEW S, S \subseteq 1 .. n
  PROVE  \E q \in [1 .. Cardinality(S) -> S] :
           /\ \A s \in S : \E i \in 1 .. Cardinality(S) : q[i] = s
           /\ \A i, j \in 1 .. Cardinality(S) : i < j => q[i] < q[j]
<1> DEFINE Sorts(q, U) == /\ q \in [1 .. Cardinality(U) -> U]
                          /\ \A s \in U : \E i \in 1 .. Cardinality(U) : q[i] = s
                          /\ \A i, j \in 1 .. Cardinality(U) : i < j => q[i] < q[j]
           T == {k \in Nat : \A U \in SUBSET (1 .. k) : \E q : Sorts(q, U)}
<1>1. 0 \in T
  <2>1. \A U \in SUBSET (1 .. 0) : U = {}
    OBVIOUS
  <2>2. Cardinality({}) = 0
    BY FS_EmptySet
  <2>3. Sorts([i \in 1 .. Cardinality({}) |-> 0], {})
    BY <2>2
  <2> QED BY <2>1, <2>3
<1>2. ASSUME NEW k \in Nat, k \in T PROVE k + 1 \in T
  <2> HIDE DEF Sorts
  <2> SUFFICES ASSUME NEW U \in SUBSET (1 .. k + 1) PROVE \E q : Sorts(q, U)
    OBVIOUS
  <2>1. CASE k + 1 \notin U
    <3>1. U \in SUBSET (1 .. k)
      BY <2>1
    <3> QED BY <1>2, <3>1
  <2>2. CASE k + 1 \in U
    <3> USE DEF Sorts
    <3> DEFINE V == U \ {k + 1}
               c == Cardinality(V)
    <3>1. V \in SUBSET (1 .. k)
      OBVIOUS
    <3>2. IsFiniteSet(U)
      <4>1. IsFiniteSet(1 .. k + 1)
        BY FS_Interval
      <4> QED BY <4>1, FS_Subset
    <3>3. c \in Nat /\ Cardinality(U) = c + 1
      BY <2>2, <3>2, OneLess
    <3>4. PICK q : Sorts(q, V)
      BY <1>2, <3>1
    <3> DEFINE p == [i \in 1 .. c + 1 |-> IF i = c + 1 THEN k + 1 ELSE q[i]]
    <3> HIDE DEF c
    <3>5. q \in [1 .. c -> V]
      BY <3>4 DEF c
    <3>6. p \in [1 .. c + 1 -> U]
      BY <2>2, <3>3, <3>5
    <3>7. ASSUME NEW s \in U PROVE \E i \in 1 .. c + 1 : p[i] = s
      <4>1. CASE s = k + 1
        BY <3>3, <4>1
      <4>2. CASE s # k + 1
        <5>1. PICK i \in 1 .. c : q[i] = s
          BY <3>4, <4>2 DEF c
        <5> QED BY <3>3, <5>1
      <4> QED BY <4>1, <4>2
    <3>8. ASSUME NEW i \in 1 .. c + 1, NEW j \in 1 .. c + 1, i < j PROVE p[i] < p[j]
      <4>1. i \in 1 .. c /\ i # c + 1
        BY <3>3, <3>8
      <4>2. p[i] = q[i] /\ q[i] \in 1 .. k
        BY <3>1, <3>5, <4>1
      <4>3. CASE j = c + 1
        <5>1. p[j] = k + 1
          BY <4>3
        <5> QED BY <4>2, <5>1
      <4>4. CASE j # c + 1
        <5>1. j \in 1 .. c /\ p[j] = q[j]
          BY <3>3, <4>4
        <5>2. q[i] < q[j]
          BY <3>4, <3>8, <4>1, <5>1 DEF c
        <5> QED BY <4>2, <5>1, <5>2
      <4> QED BY <4>3, <4>4
    <3>9. Sorts(p, U)
      BY <3>3, <3>6, <3>7, <3>8
    <3> QED BY <3>9
  <2> QED BY <2>1, <2>2
<1>3. Nat \subseteq T
  <2> HIDE DEF T
  <2> QED BY <1>1, <1>2, NatsBySteps
<1>4. PICK q : Sorts(q, S)
  BY <1>3
<1> QED BY <1>4

\* What Ascending makes of a set of numbers.
LEMMA AscendingIs ==
  ASSUME NEW S, S \subseteq Seqs
  PROVE  /\ Ascending(S) \in Seq(S) /\ Rising(Ascending(S))
         /\ Elements(Ascending(S)) = S
<1> DEFINE n == Cardinality(S)
           Sorts(q) == /\ \A s \in S : \E i \in 1 .. n : q[i] = s
                       /\ \A i, j \in 1 .. n : i < j => q[i] < q[j]
<1>1. \E q \in [1 .. n -> S] : Sorts(q)
  BY AscendingExists, SeqsFacts DEF Seqs
<1>2. Ascending(S) = CHOOSE q \in [1 .. n -> S] : Sorts(q)
  BY DEF Ascending
<1>3. Ascending(S) \in [1 .. n -> S] /\ Sorts(Ascending(S))
  <2> HIDE DEF n, Sorts
  <2> QED BY <1>1, <1>2
<1>4. n \in Nat
  BY SeqsFacts
<1> HIDE DEF n
<1>5. Ascending(S) \in Seq(S) /\ Len(Ascending(S)) = n
  BY <1>3, <1>4
<1>6. Rising(Ascending(S))
  BY <1>3, <1>5 DEF Rising
<1>7. Elements(Ascending(S)) = S
  BY <1>3, <1>5 DEF Elements
<1> QED BY <1>5, <1>6, <1>7

\* Numbers in ascending order, after those that were there already.
LEMMA AppendAscending ==
  ASSUME NEW p \in Seq(Mine), Rising(p), NEW S, S \subseteq Mine,
         \A x \in Elements(p), s \in S : x < s
  PROVE  /\ p \o Ascending(S) \in Seq(Mine) /\ Rising(p \o Ascending(S))
         /\ Elements(p \o Ascending(S)) = Elements(p) \cup S
<1> DEFINE q == Ascending(S)
           m == Len(p)
           n == Len(q)
           r == p \o q
<1>1. q \in Seq(S) /\ q \in Seq(Mine) /\ Rising(q) /\ Elements(q) = S
  <2>1. S \subseteq Seqs
    BY SeqsFacts
  <2>2. q \in Seq(S) /\ Rising(q) /\ Elements(q) = S
    BY <2>1, AscendingIs
  <2> HIDE DEF q
  <2> QED BY <2>2
<1>2. m \in Nat /\ n \in Nat
  BY <1>1
<1> HIDE DEF q
<1>3. r \in Seq(Mine) /\ Len(r) = m + n
  BY <1>1
<1>4. /\ \A i \in 1 .. m : r[i] = p[i]
      /\ \A i \in m + 1 .. m + n : i - m \in 1 .. n /\ r[i] = q[i - m]
      /\ \A i \in 1 .. n : m + i \in 1 .. m + n /\ r[m + i] = q[i]
  BY <1>1, <1>2
<1>5. /\ \A i \in 1 .. m : p[i] \in Elements(p) /\ p[i] \in Nat
      /\ \A i \in 1 .. n : q[i] \in S /\ q[i] \in Nat
  <2>1. \A i \in 1 .. m : p[i] \in Elements(p) /\ p[i] \in Mine
    BY DEF Elements
  <2>2. \A i \in 1 .. n : q[i] \in S
    BY <1>1
  <2> QED BY <2>1, <2>2, SeqsFacts
<1> HIDE DEF r, m, n
<1>6. ASSUME NEW i \in 1 .. m + n, NEW j \in 1 .. m + n, i < j PROVE r[i] < r[j]
  <2>1. CASE j \in 1 .. m
    BY <1>2, <1>4, <1>6, <2>1 DEF Rising, m
  <2>2. CASE i \in 1 .. m /\ j \in m + 1 .. m + n
    BY <1>4, <1>5, <2>2
  <2>3. CASE i \in m + 1 .. m + n
    <3>1. j \in m + 1 .. m + n /\ i - m < j - m
      BY <1>2, <1>6, <2>3
    <3> QED BY <1>1, <1>4, <2>3, <3>1 DEF Rising, n
  <2> QED BY <1>2, <1>6, <2>1, <2>2, <2>3
<1>7. Elements(r) = Elements(p) \cup S
  <2>1. ASSUME NEW x \in Elements(r) PROVE x \in Elements(p) \cup S
    <3>1. PICK i \in 1 .. m + n : x = r[i]
      BY <1>3 DEF Elements
    <3>2. CASE i \in 1 .. m
      BY <1>4, <1>5, <3>1, <3>2
    <3>3. CASE i \in m + 1 .. m + n
      BY <1>4, <1>5, <3>1, <3>3
    <3> QED BY <1>2, <3>2, <3>3
  <2>2. ASSUME NEW x \in Elements(p) PROVE x \in Elements(r)
    BY <1>2, <1>3, <1>4, <2>2 DEF Elements, m
  <2>3. ASSUME NEW x \in S PROVE x \in Elements(r)
    <3>1. PICK i \in 1 .. n : x = q[i]
      BY <1>1, <2>3 DEF Elements, n
    <3> QED BY <1>3, <1>4, <3>1 DEF Elements
  <2> QED BY <2>1, <2>2, <2>3
<1> QED BY <1>3, <1>6, <1>7 DEF Rising, r, q

-----------------------------------------------------------------------------
(***************************************************************************)
(* The order in which a client receives events.                            *)
(***************************************************************************)

\* Highest of numbers that are to be added to a last one.
LEMMA HighestWith ==
  ASSUME NEW S, S \subseteq Seqs, NEW x \in 0 .. MaxSeq
  PROVE  /\ Highest(S \cup {x}) \in 0 .. MaxSeq /\ Highest(S \cup {x}) \in S \cup {x}
         /\ x <= Highest(S \cup {x}) /\ \A s \in S : s <= Highest(S \cup {x})
<1> DEFINE U == S \cup {x}
<1>1. U \subseteq 0 .. MaxSeq /\ x \in U /\ \A y \in U : y \in Int
  BY SeqsFacts DEF Seqs
<1>2. Highest(U) \in U /\ \A y \in U : Highest(U) >= y
  BY <1>1, HighestIs
<1> QED BY <1>1, <1>2

\* The parts of the state, which are numbers and sets of numbers.
LEMMA Parts ==
  ASSUME TypeOK
  PROVE  /\ stream.lastSent \in 0 .. MaxSeq /\ stream.lastSent \in Nat
         /\ client.lastId \in 0 .. MaxSeq /\ client.lastId \in Nat
         /\ client.base \in 0 .. MaxSeq /\ client.base \in Nat
         /\ broadcast.cursor \in 0 .. MaxSeq /\ broadcast.cursor \in Nat
         /\ wire \in Seq(Mine) /\ client.inbox \in Seq(Mine)
         /\ stream.buffered \subseteq Mine /\ stream.answer \subseteq Mine
         /\ broadcast.page \subseteq Seqs
<1>1. /\ stream.lastSent \in 0 .. MaxSeq /\ client.lastId \in 0 .. MaxSeq
      /\ client.base \in 0 .. MaxSeq /\ broadcast.cursor \in 0 .. MaxSeq
      /\ stream.buffered \in SUBSET Mine /\ stream.answer \in SUBSET Mine
      /\ broadcast.page \in SUBSET Seqs
  BY DEF TypeOK
<1>2. wire \in Seq(Mine) /\ client.inbox \in Seq(Mine)
  BY DEF TypeOK
<1> QED BY <1>1, <1>2, SeqsFacts

\* The members of a sequence of the workspace's numbers.
LEMMA ElementsAreNumbers ==
  ASSUME NEW q \in Seq(Mine)
  PROVE  Elements(q) \subseteq Mine /\ Elements(q) \subseteq Seqs /\ Elements(q) \subseteq Nat
<1>1. Elements(q) \subseteq Mine
  BY DEF Elements
<1> QED BY <1>1, SeqsFacts

\* What is sent comes after all that was written before, and leaves nothing of it
\* that is above the number sent last.
LEMMA WrittenIs ==
  ASSUME OrderInv, Connected, NEW S, S \subseteq Mine, NEW n,
         n = Highest(Unsent(S) \cup {stream.lastSent})
  PROVE  /\ Written(S) \in Seq(Mine) /\ Rising(Written(S))
         /\ Elements(Written(S)) = Elements(wire) \cup Unsent(S)
         /\ n \in 0 .. MaxSeq /\ n \in Unsent(S) \cup {stream.lastSent}
         /\ stream.lastSent <= n /\ client.lastId <= n
         /\ \A s \in S : s <= n
         /\ \A s \in Elements(Written(S)) : client.lastId < s /\ s <= n
<1> DEFINE U == Unsent(S)
<1>1. /\ stream.lastSent \in 0 .. MaxSeq /\ client.lastId \in 0 .. MaxSeq /\ wire \in Seq(Mine)
      /\ client.lastId <= stream.lastSent /\ Rising(wire)
      /\ \A s \in Elements(wire) : client.lastId < s /\ s <= stream.lastSent
  BY Parts DEF OrderInv, WireOK
<1>2. U \subseteq Mine /\ U \subseteq Seqs /\ \A s \in U : s \in Nat /\ s > stream.lastSent
  BY SeqsFacts DEF Unsent
<1>3. \A s \in Elements(wire) : s \in Nat
  BY <1>1, ElementsAreNumbers
<1>4. \A x \in Elements(wire), s \in U : x < s
  BY <1>1, <1>2, <1>3, SeqsFacts
<1>5. \A s \in S : s \in U \/ s <= stream.lastSent
  BY <1>1, SeqsFacts DEF Unsent
<1>6. \A s \in S : s \in Nat
  BY SeqsFacts
<1> HIDE DEF U
<1>7. /\ wire \o Ascending(U) \in Seq(Mine) /\ Rising(wire \o Ascending(U))
      /\ Elements(wire \o Ascending(U)) = Elements(wire) \cup U
  BY <1>1, <1>2, <1>4, AppendAscending
<1>8. /\ n \in 0 .. MaxSeq /\ n \in U \cup {stream.lastSent} /\ stream.lastSent <= n
      /\ \A s \in U : s <= n
  BY <1>1, <1>2, HighestWith DEF U
<1> HIDE DEF U
<1>a. stream.lastSent \in Int /\ client.lastId \in Int /\ n \in Int
  BY <1>1, <1>8, SeqsFacts
<1>9. client.lastId <= n /\ \A s \in S : s <= n
  <2>1. client.lastId <= n
    BY <1>1, <1>8, <1>a
  <2>2. ASSUME NEW s \in S PROVE s <= n
    BY <1>5, <1>6, <1>8, <1>a
  <2> QED BY <2>1, <2>2
<1>10. ASSUME NEW s \in Elements(wire) \cup U PROVE client.lastId < s /\ s <= n
  <2>1. CASE s \in Elements(wire)
    <3>1. s \in Int /\ client.lastId < s /\ s <= stream.lastSent
      BY <1>1, <1>3, <2>1
    <3> QED BY <1>8, <1>a, <3>1
  <2>2. CASE s \in U
    <3>1. s \in Int /\ s > stream.lastSent /\ s <= n
      BY <1>2, <1>8, <2>2
    <3> QED BY <1>1, <1>a, <3>1
  <2> QED BY <2>1, <2>2
<1> QED BY <1>7, <1>8, <1>9, <1>10 DEF Written, U

\* A stream goes live with what it has sent and the buffered rest.
LEMMA GoLiveIs ==
  ASSUME TypeOK, NEW sent \in Seq(Mine), Rising(sent), NEW n \in 0 .. MaxSeq,
         client.lastId <= n, \A s \in Elements(sent) : client.lastId < s /\ s <= n,
         GoLive(n, sent)
  PROVE  /\ wire' \in Seq(Mine) /\ Rising(wire')
         /\ Elements(wire') = Elements(sent) \cup {s \in stream.buffered : s > n}
         /\ stream' \in [pc : {"live"}, mode : {stream.mode}, lastSent : 0 .. MaxSeq,
                         answer : {{}}, buffered : {{}}]
         /\ stream'.lastSent \in stream.buffered \cup {n} /\ n <= stream'.lastSent
         /\ \A s \in stream.buffered : s <= stream'.lastSent
         /\ \A s \in Elements(wire') : client.lastId < s /\ s <= stream'.lastSent
<1> DEFINE U == {s \in stream.buffered : s > n}
           m == Highest(U \cup {n})
<1>1. stream.buffered \subseteq Mine /\ stream.buffered \subseteq Nat /\ client.lastId \in Nat
  BY Parts, SeqsFacts
<1>2. U \subseteq Mine /\ U \subseteq Seqs /\ U \subseteq Nat /\ \A s \in U : s > n
  BY <1>1, SeqsFacts
<1>3. \A s \in Elements(sent) : s \in Nat
  BY ElementsAreNumbers
<1>4. \A x \in Elements(sent), s \in U : x < s
  BY <1>2, <1>3, SeqsFacts
<1>5. wire' = sent \o Ascending(U) /\ stream' = [stream EXCEPT !.pc = "live", !.answer = {}, !.buffered = {}, !.lastSent = m]
  BY DEF GoLive
<1>6. \A s \in stream.buffered : s \in U \/ s <= n
  BY <1>1, SeqsFacts
<1> HIDE DEF U, m
<1>7. /\ sent \o Ascending(U) \in Seq(Mine) /\ Rising(sent \o Ascending(U))
      /\ Elements(sent \o Ascending(U)) = Elements(sent) \cup U
  BY <1>2, <1>4, AppendAscending
<1>8. m \in 0 .. MaxSeq /\ m \in U \cup {n} /\ n <= m /\ \A s \in U : s <= m
  BY <1>2, HighestWith DEF m
<1>9. stream' \in [pc : {"live"}, mode : {stream.mode}, lastSent : {m}, answer : {{}}, buffered : {{}}]
  BY <1>5 DEF TypeOK
<1>a. m \in Int /\ n \in Int
  BY <1>8, SeqsFacts
<1>10. ASSUME NEW s \in Elements(sent) \cup U PROVE client.lastId < s /\ s <= m
  <2>1. CASE s \in Elements(sent)
    <3>1. s \in Int /\ client.lastId < s /\ s <= n
      BY <1>3, <2>1
    <3> QED BY <1>8, <1>a, <3>1
  <2>2. CASE s \in U
    <3>1. s \in Int /\ s > n /\ s <= m
      BY <1>2, <1>8, <2>2
    <3> QED BY <1>1, <1>a, <3>1
  <2> QED BY <2>1, <2>2
<1>11. \A s \in stream.buffered : s <= m
  BY <1>1, <1>6, <1>8, SeqsFacts
<1>12. m \in stream.buffered \cup {n}
  BY <1>8 DEF U
<1> QED BY <1>5, <1>7, <1>8, <1>9, <1>10, <1>11, <1>12 DEF U

\* Types and order hold at first.
LEMMA OrderInit == Init => OrderInv
<1> SUFFICES ASSUME Init PROVE OrderInv
  OBVIOUS
<1>1. TypeOK
  BY SeqsFacts DEF Init, TypeOK, ClosedStream
<1>2. wire = << >> /\ client.inbox = << >> /\ client.lastId = 0 /\ stream.pc = "off"
  BY DEF Init, ClosedStream
<1>3. WireOK
  BY <1>2 DEF WireOK, Rising, Elements, Connected
<1> QED BY <1>1, <1>3 DEF OrderInv

\* A stream that is closed or opened keeps the order: it has nothing on the wire.
LEMMA ClosedKeepsOrder ==
  ASSUME OrderInv, TypeOK', wire' = << >>,
         \/ UNCHANGED client
         \/ client'.inbox = << >> /\ client'.lastId = 0,
         \/ stream'.pc = "off"
         \/ client'.lastId <= stream'.lastSent
            /\ (stream'.mode = "latest" => client'.lastId = 0)
  PROVE  OrderInv'
<1>1. Elements(wire') = {} /\ Rising(wire')
  BY DEF Elements, Rising
<1>2. Rising(client'.inbox) /\ \A s \in Elements(client'.inbox) : s <= client'.lastId
  BY DEF OrderInv, WireOK, Rising, Elements
<1> QED BY <1>1, <1>2 DEF OrderInv, WireOK, Connected

\* A step of the connection that leaves what is sent and the client alone.
LEMMA StillKeepsOrder ==
  ASSUME OrderInv, TypeOK', UNCHANGED <<wire, client>>,
         \/ UNCHANGED stream
         \/ /\ stream.pc # "off" /\ stream'.lastSent = stream.lastSent /\ stream'.pc # "off"
            /\ stream'.pc \in {"query", "answer"} /\ stream'.mode = "latest" =>
                 stream.pc \in {"query", "answer"} /\ stream.mode = "latest"
  PROVE  OrderInv'
BY DEF OrderInv, WireOK, Connected, Rising, Elements

\* What is written keeps the order.
LEMMA WritingKeepsOrder ==
  ASSUME OrderInv, TypeOK', UNCHANGED client, Connected,
         Rising(wire'), client.lastId <= stream'.lastSent,
         \A s \in Elements(wire') : client.lastId < s /\ s <= stream'.lastSent,
         stream'.pc # "off", stream'.pc = "live" \/ stream'.mode # "latest"
  PROVE  OrderInv'
BY DEF OrderInv, WireOK, Connected, Rising, Elements

\* Pages are sets of numbers.
LEMMA PageAfterIs ==
  ASSUME NEW S, S \subseteq Seqs, NEW cursor
  PROVE  PageAfter(S, cursor) \subseteq S \cap Committed
BY DEF PageAfter

\* Transactions.
LEMMA RowsKeepOrder ==
  ASSUME OrderInv, NEW s \in Seqs, Insert(s) \/ Commit(s) \/ Rollback(s)
  PROVE  OrderInv'
<1>1. TypeOK'
  BY DEF OrderInv, TypeOK, Insert, Commit, Rollback
<1> QED BY <1>1, StillKeepsOrder DEF Insert, Commit, Rollback

\* The steps of the broadcast that emit nothing.
LEMMA DrainKeepsOrder ==
  ASSUME OrderInv, RequestDomainEventBroadcast \/ BroadcastRead \/ BroadcastFails
  PROVE  OrderInv'
<1>1. PageAfter(Seqs, broadcast.cursor) \subseteq Seqs
  BY PageAfterIs
<1>2. broadcast' \in [pc : {"idle", "query", "answer"}, requested : BOOLEAN,
                     cursor : 0 .. MaxSeq, page : SUBSET Seqs]
  BY <1>1 DEF OrderInv, TypeOK, RequestDomainEventBroadcast, BroadcastRead, BroadcastFails, Rest
<1>3. UNCHANGED <<tx, stream, wire, client>>
  BY DEF RequestDomainEventBroadcast, BroadcastRead, BroadcastFails
<1>4. TypeOK'
  BY <1>2, <1>3 DEF OrderInv, TypeOK
<1> QED BY <1>3, <1>4, StillKeepsOrder

\* Where the drain stands after a page.
LEMMA EmitIs ==
  ASSUME TypeOK, BroadcastEmit
  PROVE  /\ broadcast' \in [pc : {"idle", "query"}, requested : BOOLEAN,
                            cursor : 0 .. MaxSeq, page : {{}}]
         /\ broadcast'.cursor \in broadcast.page \cup {broadcast.cursor}
         /\ broadcast.cursor <= broadcast'.cursor
         /\ \A s \in broadcast.page : s <= broadcast'.cursor
<1> DEFINE n == Highest(broadcast.page \cup {broadcast.cursor})
<1>1. /\ n \in 0 .. MaxSeq /\ n \in broadcast.page \cup {broadcast.cursor}
      /\ broadcast.cursor <= n /\ \A s \in broadcast.page : s <= n
  BY Parts, HighestWith
<1>2. broadcast' = IF Cardinality(broadcast.page) < Page THEN Rest([broadcast EXCEPT !.cursor = n])
                   ELSE [[broadcast EXCEPT !.cursor = n] EXCEPT !.pc = "query", !.page = {}]
  BY DEF BroadcastEmit
<1> HIDE DEF n
<1>3. broadcast' \in [pc : {"idle", "query"}, requested : BOOLEAN, cursor : {n}, page : {{}}]
  BY <1>2 DEF TypeOK, Rest
<1> QED BY <1>1, <1>3

\* A page that is emitted to a closed, a live or a replaying stream.
LEMMA EmitKeepsOrder ==
  ASSUME OrderInv, BroadcastEmit
  PROVE  OrderInv'
<1> DEFINE mine == broadcast.page \cap Mine
           n == Highest(Unsent(mine) \cup {stream.lastSent})
<1>1. TypeOK /\ UNCHANGED <<tx, client>>
  BY DEF OrderInv, BroadcastEmit
<1>2. broadcast' \in [pc : {"idle", "query", "answer"}, requested : BOOLEAN,
                     cursor : 0 .. MaxSeq, page : SUBSET Seqs]
  BY <1>1, EmitIs
<1>3. CASE stream.pc = "off"
  <2>1. UNCHANGED <<stream, wire>>
    BY <1>3 DEF BroadcastEmit
  <2>2. TypeOK'
    BY <1>1, <1>2, <2>1 DEF TypeOK
  <2> QED BY <1>1, <2>1, <2>2, StillKeepsOrder
<1>4. CASE stream.pc = "live"
  <2>1. wire' = Written(mine) /\ stream' = [stream EXCEPT !.lastSent = n]
    BY <1>4 DEF BroadcastEmit
  <2> HIDE DEF n
  <2>2. /\ Written(mine) \in Seq(Mine) /\ Rising(Written(mine))
        /\ n \in 0 .. MaxSeq /\ client.lastId <= n
        /\ \A s \in Elements(Written(mine)) : client.lastId < s /\ s <= n
    BY <1>4, WrittenIs DEF Connected, n
  <2>3. stream'.lastSent = n /\ stream'.pc = "live"
    BY <1>1, <1>4, <2>1 DEF TypeOK
  <2>4. TypeOK'
    BY <1>1, <1>2, <2>1, <2>2 DEF TypeOK
  <2> QED BY <1>1, <1>4, <2>1, <2>2, <2>3, <2>4, WritingKeepsOrder DEF Connected
<1>5. CASE stream.pc \notin {"off", "live"}
  <2>1. UNCHANGED wire /\ stream' = [stream EXCEPT !.buffered = @ \cup mine]
    BY <1>5 DEF BroadcastEmit
  <2>2. TypeOK'
    BY <1>1, <1>2, <2>1 DEF TypeOK
  <2>3. stream'.pc = stream.pc /\ stream'.mode = stream.mode /\ stream'.lastSent = stream.lastSent
    BY <1>1, <2>1 DEF TypeOK
  <2> QED BY <1>1, <1>5, <2>1, <2>2, <2>3, StillKeepsOrder
<1> QED BY <1>3, <1>4, <1>5

\* Connections that begin or end.
LEMMA ConnectionKeepsOrder ==
  ASSUME OrderInv, Resume \/ (\E n \in 0 .. MaxSeq : ConnectFrom(n)) \/ ConnectFresh \/ Disconnect \/ Restart
  PROVE  OrderInv'
<1>1. TypeOK /\ (~Connected => wire = << >>) /\ << >> \in Seq(Mine)
  BY DEF OrderInv, WireOK
<1>2. CASE Resume
  <2>1. /\ UNCHANGED <<tx, broadcast, wire, client>> /\ wire = << >>
        /\ stream' = [ClosedStream EXCEPT !.pc = "query", !.mode = "replay",
                                          !.lastSent = client.lastId]
    BY <1>1, <1>2 DEF Resume, ConnectAfter, Connected
  <2>2. TypeOK'
    BY <1>1, <2>1 DEF TypeOK, ClosedStream
  <2>3. stream'.lastSent = client.lastId /\ stream'.mode = "replay"
    BY <2>1 DEF ClosedStream
  <2>4. client'.lastId <= stream'.lastSent
    BY <1>1, <2>1, <2>3, Parts
  <2> QED BY <2>1, <2>2, <2>3, <2>4, ClosedKeepsOrder
<1>3. ASSUME NEW n \in 0 .. MaxSeq, ConnectFrom(n) PROVE OrderInv'
  <2>1. /\ UNCHANGED <<tx, broadcast, wire>> /\ wire = << >>
        /\ stream' = [ClosedStream EXCEPT !.pc = "query", !.mode = "replay", !.lastSent = n]
        /\ client' = [inbox |-> << >>, lastId |-> 0, base |-> n]
    BY <1>1, <1>3 DEF ConnectFrom, ConnectAfter, Connected
  <2>2. TypeOK'
    <3>1. client' \in [inbox : Seq(Mine), lastId : 0 .. MaxSeq, base : 0 .. MaxSeq]
      BY <1>1, <2>1, SeqsFacts
    <3>2. stream' \in [pc : {"query"}, mode : {"latest", "replay"}, lastSent : 0 .. MaxSeq,
                      answer : {{}}, buffered : {{}}]
      BY <2>1 DEF ClosedStream
    <3> QED BY <1>1, <2>1, <3>1, <3>2 DEF TypeOK
  <2>3. stream'.lastSent = n /\ stream'.mode = "replay" /\ 0 <= n
    BY <2>1 DEF ClosedStream
  <2> QED BY <2>1, <2>2, <2>3, ClosedKeepsOrder
<1>4. CASE ConnectFresh
  <2>1. /\ UNCHANGED <<tx, broadcast, wire>> /\ wire = << >>
        /\ stream' = [ClosedStream EXCEPT !.pc = "query"]
        /\ client' = [inbox |-> << >>, lastId |-> 0, base |-> MaxSeq]
    BY <1>1, <1>4 DEF ConnectFresh, Connected
  <2>2. TypeOK'
    <3>1. client' \in [inbox : Seq(Mine), lastId : 0 .. MaxSeq, base : 0 .. MaxSeq]
      BY <1>1, <2>1, SeqsFacts
    <3>2. stream' \in [pc : {"query"}, mode : {"latest", "replay"}, lastSent : {0},
                      answer : {{}}, buffered : {{}}]
      BY <2>1 DEF ClosedStream
    <3>3. 0 \in 0 .. MaxSeq
      BY SeqsFacts
    <3> QED BY <1>1, <2>1, <3>1, <3>2, <3>3 DEF TypeOK
  <2>3. stream'.lastSent = 0
    BY <2>1 DEF ClosedStream
  <2> QED BY <2>1, <2>2, <2>3, ClosedKeepsOrder
<1>5. CASE Disconnect \/ Restart
  <2>1. UNCHANGED <<tx, client>> /\ stream' = ClosedStream /\ wire' = << >>
    BY <1>5 DEF Disconnect, Restart
  <2>2. Committed \subseteq 0 .. MaxSeq /\ \A s \in Committed : s \in 0 .. MaxSeq
    BY SeqsFacts DEF Committed, Seqs
  <2>3. Highest(Committed) \in 0 .. MaxSeq
    <3>1. CASE Committed = {}
      BY <3>1, SeqsFacts DEF Highest
    <3>2. CASE Committed # {}
      BY <2>2, <3>2, HighestIs
    <3> QED BY <3>1, <3>2
  <2>4. broadcast' \in [pc : {"idle", "query", "answer"}, requested : BOOLEAN,
                       cursor : 0 .. MaxSeq, page : SUBSET Seqs]
    <3>1. CASE Disconnect
      BY <1>1, <3>1 DEF Disconnect, TypeOK
    <3>2. CASE Restart
      BY <2>3, <3>2 DEF Restart
    <3> QED BY <1>5, <3>1, <3>2
  <2>5. TypeOK'
    BY <1>1, <2>1, <2>4, SeqsFacts DEF TypeOK, ClosedStream
  <2> QED BY <2>1, <2>5, ClosedKeepsOrder DEF ClosedStream
<1> QED BY <1>2, <1>3, <1>4, <1>5

\* The steps of the stream.
LEMMA QueriesKeepOrder ==
  ASSUME OrderInv, CatchUp \/ StreamRead
  PROVE  OrderInv'
<1>1. TypeOK
  BY DEF OrderInv
<1>2. CASE CatchUp
  <2>1. /\ stream' = [stream EXCEPT !.pc = "query", !.mode = "catchup"]
        /\ stream.pc = "live" /\ UNCHANGED <<tx, broadcast, wire, client>>
    BY <1>2 DEF CatchUp
  <2>2. TypeOK' /\ stream'.lastSent = stream.lastSent /\ stream'.pc = "query"
        /\ stream'.mode = "catchup"
    BY <1>1, <2>1 DEF TypeOK
  <2> QED BY <2>1, <2>2, StillKeepsOrder
<1>3. CASE StreamRead
  <2> DEFINE page == IF stream.mode = "latest" THEN Mine \cap Committed
                     ELSE PageAfter(Mine, stream.lastSent)
  <2>1. page \subseteq Mine
    BY PageAfterIs, SeqsFacts
  <2>2. /\ stream' = [stream EXCEPT !.pc = "answer", !.answer = page]
        /\ stream.pc = "query" /\ UNCHANGED <<tx, broadcast, wire, client>>
    BY <1>3 DEF StreamRead
  <2> HIDE DEF page
  <2>3. TypeOK' /\ stream'.lastSent = stream.lastSent /\ stream'.pc = "answer"
        /\ stream'.mode = stream.mode
    BY <1>1, <2>1, <2>2 DEF TypeOK
  <2> QED BY <2>2, <2>3, StillKeepsOrder
<1> QED BY <1>2, <1>3

\* Going live, from what was written up to a number.
LEMMA LiveKeepsOrder ==
  ASSUME OrderInv, Connected, UNCHANGED <<tx, broadcast>>,
         client' = client \/ (wire = << >> /\ client.lastId = 0
                               /\ \E n \in 0 .. MaxSeq : client' = [client EXCEPT !.base = n]),
         NEW sent \in Seq(Mine), Rising(sent), NEW n \in 0 .. MaxSeq,
         client.lastId <= n, \A s \in Elements(sent) : client.lastId < s /\ s <= n,
         GoLive(n, sent)
  PROVE  OrderInv'
<1>1. TypeOK
  BY DEF OrderInv
<1>2. /\ wire' \in Seq(Mine) /\ Rising(wire')
      /\ stream' \in [pc : {"live"}, mode : {stream.mode}, lastSent : 0 .. MaxSeq,
                      answer : {{}}, buffered : {{}}]
      /\ n <= stream'.lastSent
      /\ \A s \in Elements(wire') : client.lastId < s /\ s <= stream'.lastSent
  BY <1>1, GoLiveIs
<1>3. client'.inbox = client.inbox /\ client'.lastId = client.lastId
      /\ client' \in [inbox : Seq(Mine), lastId : 0 .. MaxSeq, base : 0 .. MaxSeq]
  BY <1>1 DEF TypeOK
<1>4. TypeOK'
  BY <1>1, <1>2, <1>3 DEF TypeOK
<1>5. client.lastId <= stream'.lastSent /\ stream'.pc = "live"
  <2>1. client.lastId \in Int /\ n \in Int /\ stream'.lastSent \in Int
    BY <1>1, <1>2, Parts, SeqsFacts
  <2> QED BY <1>2, <2>1
<1>6. WireOK'
  BY <1>2, <1>3, <1>5 DEF OrderInv, WireOK, Connected, Rising, Elements
<1> QED BY <1>4, <1>6 DEF OrderInv

\* What has been written so far.
LEMMA WireIs ==
  ASSUME OrderInv, Connected
  PROVE  /\ wire \in Seq(Mine) /\ Rising(wire) /\ stream.lastSent \in 0 .. MaxSeq
         /\ client.lastId <= stream.lastSent
         /\ \A s \in Elements(wire) : client.lastId < s /\ s <= stream.lastSent
BY Parts DEF OrderInv, WireOK

\* Answers, and catch-up queries that fail.
LEMMA AnswersKeepOrder ==
  ASSUME OrderInv, LatestAnswer \/ ReplayAnswer \/ CatchUpFails
  PROVE  OrderInv'
<1>1. TypeOK
  BY DEF OrderInv
<1>2. CASE LatestAnswer
  <2> DEFINE n == Highest(stream.answer)
  <2>1. n \in 0 .. MaxSeq
    <3>1. stream.answer \subseteq 0 .. MaxSeq
      <4>1. stream.answer \subseteq Seqs
        BY <1>1, Parts, SeqsFacts
      <4> QED BY <4>1, SeqsFacts DEF Seqs
    <3>2. CASE stream.answer = {}
      BY <3>2, SeqsFacts DEF Highest
    <3>3. CASE stream.answer # {}
      BY <3>1, <3>3, HighestIs
    <3> QED BY <3>2, <3>3
  <2>2. /\ stream.pc = "answer" /\ stream.mode = "latest" /\ UNCHANGED <<tx, broadcast>>
        /\ client' = [client EXCEPT !.base = n] /\ GoLive(n, << >>)
        /\ wire = << >> /\ client.lastId = 0
    BY <1>2 DEF LatestAnswer, OrderInv, WireOK
  <2> HIDE DEF n
  <2>3. << >> \in Seq(Mine) /\ Rising(<< >>) /\ Elements(<< >>) = {} /\ client.lastId <= n
    BY <2>1, <2>2, SeqsFacts DEF Rising, Elements
  <2>4. Connected
    BY <2>2 DEF Connected
  <2>5. \A s \in Elements(<< >>) : client.lastId < s /\ s <= n
    BY <2>3
  <2> QED BY <2>1, <2>2, <2>3, <2>4, <2>5, LiveKeepsOrder
<1>3. CASE ReplayAnswer
  <2> DEFINE page == stream.answer
             n == Highest(Unsent(page) \cup {stream.lastSent})
  <2>1. /\ Connected /\ stream.mode # "latest" /\ UNCHANGED <<tx, broadcast, client>>
        /\ Cardinality(page) < Page => GoLive(n, Written(page))
        /\ ~(Cardinality(page) < Page) =>
              /\ stream' = [stream EXCEPT !.pc = "query", !.answer = {}, !.lastSent = n]
              /\ wire' = Written(page)
    BY <1>3 DEF ReplayAnswer, Connected
  <2> HIDE DEF n
  <2>2. /\ Written(page) \in Seq(Mine) /\ Rising(Written(page))
        /\ n \in 0 .. MaxSeq /\ client.lastId <= n
        /\ \A s \in Elements(Written(page)) : client.lastId < s /\ s <= n
    <3>1. page \subseteq Mine
      BY <1>1, Parts
    <3> HIDE DEF page
    <3> QED BY <2>1, <3>1, WrittenIs DEF n
  <2>3. CASE Cardinality(page) < Page
    BY <2>1, <2>2, <2>3, LiveKeepsOrder
  <2>4. CASE ~(Cardinality(page) < Page)
    <3>1. stream'.lastSent = n /\ stream'.pc = "query" /\ stream'.mode # "latest"
      BY <1>1, <2>1, <2>4 DEF TypeOK
    <3>2. TypeOK'
      BY <1>1, <2>1, <2>2, <2>4 DEF TypeOK
    <3> QED BY <2>1, <2>2, <2>4, <3>1, <3>2, WritingKeepsOrder
  <2> QED BY <2>3, <2>4
<1>4. CASE CatchUpFails
  <2>1. Connected /\ UNCHANGED <<tx, broadcast, client>> /\ GoLive(stream.lastSent, wire)
    BY <1>4 DEF CatchUpFails, Connected
  <2> QED BY <2>1, WireIs, LiveKeepsOrder
<1> QED BY <1>2, <1>3, <1>4

\* The next event arrives at the client.
LEMMA ReceiveIs ==
  ASSUME OrderInv, Receive
  PROVE  /\ client' = [client EXCEPT !.inbox = Append(@, wire[1]), !.lastId = wire[1]]
         /\ wire[1] \in Elements(wire) /\ wire[1] \in Mine /\ wire' \in Seq(Mine)
         /\ Rising(wire') /\ Elements(wire) = Elements(wire') \cup {wire[1]}
         /\ \A s \in Elements(wire') : wire[1] < s
         /\ client'.inbox \in Seq(Mine) /\ Rising(client'.inbox)
         /\ Elements(client'.inbox) = Elements(client.inbox) \cup {wire[1]}
<1> DEFINE inbox == client.inbox
           m == Len(inbox)
           n == Len(wire)
           x == wire[1]
<1>1. wire \in Seq(Mine) /\ wire # << >> /\ inbox \in Seq(Mine) /\ Rising(wire) /\ Rising(inbox)
  BY Parts DEF OrderInv, WireOK, Receive
<1>2. n \in Nat /\ n > 0 /\ m \in Nat
  BY <1>1
<1>3. x \in Mine /\ x \in Elements(wire) /\ Head(wire) = x
  BY <1>1, <1>2 DEF Elements
<1>4. /\ wire' = Tail(wire) /\ wire' \in Seq(Mine) /\ Len(wire') = n - 1
      /\ \A i \in 1 .. n - 1 : wire'[i] = wire[i + 1]
  BY <1>1, <1>2 DEF Receive
<1>5. client' = [client EXCEPT !.inbox = Append(@, x), !.lastId = x]
  BY <1>3 DEF Receive
<1>6. client'.inbox = Append(inbox, x)
  BY <1>5 DEF OrderInv, TypeOK
<1>7. /\ client'.inbox \in Seq(Mine) /\ Len(client'.inbox) = m + 1
      /\ client'.inbox[m + 1] = x /\ \A i \in 1 .. m : client'.inbox[i] = inbox[i]
  BY <1>1, <1>2, <1>3, <1>6
<1> HIDE DEF x, m, n, inbox
<1>8. Rising(wire') /\ \A s \in Elements(wire') : x < s
  <2>1. \A i \in 1 .. n - 1 : i + 1 \in 1 .. n /\ 1 < i + 1
    BY <1>2
  <2>2. \A i, j \in 1 .. n : i < j => wire[i] < wire[j]
    BY <1>1 DEF Rising, n
  <2>3. Rising(wire')
    BY <1>2, <1>4, <2>1, <2>2 DEF Rising
  <2>4. 1 \in 1 .. n
    BY <1>2
  <2>5. \A s \in Elements(wire') : x < s
    BY <1>4, <2>1, <2>2, <2>4 DEF Elements, x
  <2> QED BY <2>3, <2>5
<1>9. Elements(wire) = Elements(wire') \cup {x}
  <2>1. ASSUME NEW s \in Elements(wire) PROVE s \in Elements(wire') \cup {x}
    <3>1. PICK i \in 1 .. n : s = wire[i]
      BY <2>1 DEF Elements, n
    <3>2. CASE i = 1
      BY <3>1, <3>2 DEF x
    <3>3. CASE i # 1
      <4>1. i - 1 \in 1 .. n - 1 /\ s = wire'[i - 1]
        BY <1>2, <1>4, <3>1, <3>3
      <4> QED BY <1>4, <4>1 DEF Elements
    <3> QED BY <3>2, <3>3
  <2>2. ASSUME NEW s \in Elements(wire') PROVE s \in Elements(wire)
    <3>1. PICK i \in 1 .. n - 1 : s = wire[i + 1]
      BY <1>4, <2>2 DEF Elements
    <3>2. i + 1 \in 1 .. n
      BY <1>2
    <3> QED BY <3>1, <3>2 DEF Elements, n
  <2> QED BY <1>3, <2>1, <2>2
<1>10. Elements(client'.inbox) = Elements(inbox) \cup {x}
  <2>1. ASSUME NEW s \in Elements(client'.inbox) PROVE s \in Elements(inbox) \cup {x}
    <3>1. PICK i \in 1 .. m + 1 : s = client'.inbox[i]
      BY <1>7, <2>1 DEF Elements
    <3>2. i = m + 1 \/ i \in 1 .. m
      BY <1>2
    <3> QED BY <1>7, <3>1, <3>2 DEF Elements, m
  <2>2. \A i \in 1 .. m : i \in 1 .. m + 1
    BY <1>2
  <2>3. Elements(inbox) \subseteq Elements(client'.inbox)
    BY <1>7, <2>2 DEF Elements, m
  <2>4. m + 1 \in 1 .. m + 1
    BY <1>2
  <2>5. x \in Elements(client'.inbox)
    BY <1>7, <2>4 DEF Elements
  <2> QED BY <2>1, <2>3, <2>5
<1>11. Rising(client'.inbox)
  <2>1. \A s \in Elements(inbox) : s < x
    <3>1. /\ \A s \in Elements(inbox) : s <= client.lastId
          /\ client.lastId < x /\ client.lastId \in Int /\ x \in Int
      BY <1>3, Parts, SeqsFacts DEF OrderInv, WireOK, inbox
    <3>2. \A s \in Elements(inbox) : s \in Int
      BY <1>1, ElementsAreNumbers
    <3> QED BY <3>1, <3>2
  <2>2. \A i \in 1 .. m : inbox[i] < x
    BY <2>1 DEF Elements, m
  <2>3. ASSUME NEW i \in 1 .. m + 1, NEW j \in 1 .. m + 1, i < j
        PROVE  client'.inbox[i] < client'.inbox[j]
    <3>1. i \in 1 .. m /\ client'.inbox[i] = inbox[i]
      BY <1>2, <1>7, <2>3
    <3>2. CASE j = m + 1
      BY <1>7, <2>2, <3>1, <3>2
    <3>3. CASE j \in 1 .. m
      BY <1>1, <1>7, <2>3, <3>1, <3>3 DEF Rising, m
    <3> QED BY <1>2, <3>2, <3>3
  <2> QED BY <1>7, <2>3 DEF Rising
<1> QED BY <1>3, <1>4, <1>5, <1>7, <1>8, <1>9, <1>10, <1>11 DEF x, inbox

\* Receiving keeps the order.
LEMMA ReceiveKeepsOrder ==
  ASSUME OrderInv, Receive
  PROVE  OrderInv'
<1>1. TypeOK /\ UNCHANGED <<tx, broadcast, stream>> /\ wire # << >>
  BY DEF OrderInv, Receive
<1>2. client'.lastId = wire[1] /\ client'.base = client.base /\ wire[1] \in 1 .. MaxSeq
  BY <1>1, ReceiveIs, SeqsFacts DEF TypeOK, Seqs
<1>3. TypeOK'
  <2>1. wire[1] \in 0 .. MaxSeq
    BY <1>2, SeqsFacts
  <2>2. client' = [client EXCEPT !.inbox = client'.inbox, !.lastId = wire[1]]
    BY <1>1, <1>2, ReceiveIs DEF TypeOK
  <2>3. client' \in [inbox : Seq(Mine), lastId : 0 .. MaxSeq, base : 0 .. MaxSeq]
    BY <1>1, <2>1, <2>2, ReceiveIs DEF TypeOK
  <2> QED BY <1>1, <2>3, ReceiveIs DEF TypeOK
<1>4. \A s \in Elements(client'.inbox) : s <= client'.lastId
  <2>1. /\ \A s \in Elements(client.inbox) : s <= client.lastId
        /\ client.lastId < wire[1] /\ client.lastId \in Int /\ wire[1] \in Int
    BY <1>1, <1>2, ReceiveIs, Parts, SeqsFacts DEF OrderInv, WireOK
  <2>2. \A s \in Elements(client.inbox) : s \in Int
    BY <1>1, Parts, ElementsAreNumbers
  <2>3. \A s \in Elements(client'.inbox) : s \in Elements(client.inbox) \/ s = wire[1]
    BY ReceiveIs
  <2> QED BY <1>2, <2>1, <2>2, <2>3
<1>5. \A s \in Elements(wire') : client'.lastId < s /\ s <= stream'.lastSent
  BY <1>1, <1>2, ReceiveIs DEF OrderInv, WireOK
<1>6. Connected /\ client'.lastId <= stream'.lastSent
      /\ ~(stream.pc \in {"query", "answer"} /\ stream.mode = "latest")
  BY <1>1, <1>2, ReceiveIs DEF OrderInv, WireOK
<1>7. WireOK'
  BY <1>1, <1>4, <1>5, <1>6, ReceiveIs DEF WireOK, Connected
<1> QED BY <1>3, <1>7 DEF OrderInv

\* Every step keeps types and order.
LEMMA OrderStep == OrderInv /\ [Next]_vars => OrderInv'
<1> SUFFICES ASSUME OrderInv, [Next]_vars PROVE OrderInv'
  OBVIOUS
<1>1. CASE UNCHANGED vars
  BY <1>1 DEF vars, OrderInv, TypeOK, WireOK, Connected, Rising, Elements
<1>2. CASE Next
  BY <1>2, RowsKeepOrder, DrainKeepsOrder, EmitKeepsOrder, ConnectionKeepsOrder,
     QueriesKeepOrder, AnswersKeepOrder, ReceiveKeepsOrder DEF Next
<1> QED BY <1>1, <1>2

\* Types and order hold for every schedule of transactions, ordered or not.
THEOREM StreamTypesHold == Spec => []TypeOK
<1>1. OrderInv => TypeOK
  BY DEF OrderInv
<1> QED BY <1>1, OrderInit, OrderStep, PTL DEF Spec

\* What rises within inbox and wire, and from one to the other, is in order.
LEMMA OrderGivesInOrder == OrderInv => InOrder
<1> SUFFICES ASSUME OrderInv PROVE InOrder
  OBVIOUS
<1> DEFINE p == client.inbox
           m == Len(p)
           n == Len(wire)
           r == p \o wire
<1>1. p \in Seq(Mine) /\ wire \in Seq(Mine) /\ Rising(p) /\ Rising(wire)
  BY Parts DEF OrderInv, WireOK
<1>2. m \in Nat /\ n \in Nat /\ Len(r) = m + n
  BY <1>1
<1>3. /\ \A i \in 1 .. m : r[i] = p[i] /\ p[i] \in Elements(p)
      /\ \A i \in 1 .. n : r[m + i] = wire[i] /\ wire[i] \in Elements(wire)
  BY <1>1, <1>2 DEF Elements
<1>4. \A x \in Elements(p), y \in Elements(wire) : x < y
  <2>1. /\ \A x \in Elements(p) : x \in Int /\ x <= client.lastId
        /\ \A y \in Elements(wire) : y \in Int /\ client.lastId < y
        /\ client.lastId \in Int
    BY <1>1, Parts, ElementsAreNumbers DEF OrderInv, WireOK
  <2> QED BY <2>1
<1> HIDE DEF p, m, n, r
<1>5. ASSUME NEW i \in 1 .. m + n - 1 PROVE r[i] < r[i + 1]
  <2>1. CASE i + 1 <= m
    <3>1. i \in 1 .. m /\ i + 1 \in 1 .. m /\ i < i + 1
      BY <1>2, <2>1
    <3> QED BY <1>1, <1>3, <3>1 DEF Rising, m
  <2>2. CASE i = m
    <3>1. i \in 1 .. m /\ 1 \in 1 .. n
      BY <1>2, <2>2
    <3> QED BY <1>3, <1>4, <2>2, <3>1
  <2>3. CASE i > m
    <3>1. i - m \in 1 .. n /\ i - m + 1 \in 1 .. n /\ i - m < i - m + 1
      BY <1>2, <2>3
    <3>2. m + (i - m) = i /\ m + (i - m + 1) = i + 1
      BY <1>2
    <3>3. wire[i - m] < wire[i - m + 1]
      BY <1>1, <3>1 DEF Rising, n
    <3>4. r[m + (i - m)] = wire[i - m] /\ r[m + (i - m + 1)] = wire[i - m + 1]
      BY <1>3, <3>1
    <3> QED BY <3>2, <3>3, <3>4
  <2> QED BY <1>2, <2>1, <2>2, <2>3
<1>6. \A i \in 1 .. Len(r) - 1 : r[i] < r[i + 1]
  BY <1>2, <1>5
<1> QED BY <1>6, Zenon DEF InOrder, r, p

\* The client sees each event at most once and in ascending order, over any
\* number of connections.
THEOREM EventsArriveInOrder == Spec => []InOrder
BY OrderInit, OrderStep, OrderGivesInOrder, PTL DEF Spec

-----------------------------------------------------------------------------
(***************************************************************************)
(* No gaps, when transactions commit in the order of their numbers.        *)
(***************************************************************************)

\* Numbers that are known.
LEMMA KnownIs ==
  /\ Committed \subseteq Seqs /\ Known \subseteq 0 .. MaxSeq /\ Known \subseteq Nat
  /\ 0 \in Known /\ Committed \subseteq Known
<1>1. Committed \subseteq Seqs
  BY DEF Committed
<1> QED BY <1>1, SeqsFacts DEF Known, Seqs

\* Below a number that is known nothing becomes visible any more.
LEMMA FixedBelow ==
  ASSUME OrderedCommits, TypeOK, SettledOK, Next
  PROVE  /\ SettledOK' /\ Committed \subseteq Committed'
         /\ \A n \in Known, r \in Committed' : r <= n => r \in Committed
<1>1. ASSUME NEW s \in Seqs, Insert(s)
      PROVE  SettledOK' /\ Committed' = Committed
  <2>1. tx \in [Seqs -> {"none", "open", "committed", "rolledback"}]
    BY DEF TypeOK
  <2>2. tx[s] = "none" /\ tx' = [tx EXCEPT ![s] = "open"] /\ \A r \in 1 .. s - 1 : tx[r] # "none"
    BY <1>1 DEF Insert
  <2>3. \A r \in Seqs : r < s => tx[r] # "none"
    BY <2>2, SeqsFacts DEF Seqs
  <2>4. SettledOK'
    BY <2>1, <2>2, <2>3 DEF SettledOK
  <2> QED BY <2>1, <2>2, <2>4 DEF Committed
<1>2. ASSUME NEW s \in Seqs, Commit(s)
      PROVE  /\ SettledOK' /\ Committed' = Committed \cup {s}
             /\ \A n \in Known : ~(s <= n)
  <2>1. tx \in [Seqs -> {"none", "open", "committed", "rolledback"}]
    BY DEF TypeOK
  <2>2. tx[s] = "open" /\ tx' = [tx EXCEPT ![s] = "committed"] /\ \A r \in 1 .. s - 1 : tx[r] # "open"
    BY <1>2 DEF Commit
  <2>3. \A r \in Seqs : r < s => tx[r] # "open"
    BY <2>2, SeqsFacts DEF Seqs
  <2>4. SettledOK'
    BY <2>1, <2>2, <2>3 DEF SettledOK
  <2>5. Committed' = Committed \cup {s}
    BY <2>1, <2>2 DEF Committed
  <2>6. ASSUME NEW n \in Known, s <= n PROVE FALSE
    <3>1. n \in Committed
      BY <2>6, SeqsFacts, KnownIs DEF Known, Seqs
    <3>2. n \in Seqs /\ tx[n] = "committed"
      BY <3>1 DEF Committed
    <3>3. s < n
      BY <2>2, <2>6, <3>2, SeqsFacts
    <3> QED BY <2>2, <3>2, <3>3 DEF SettledOK
  <2> QED BY <2>4, <2>5, <2>6
<1>3. ASSUME NEW s \in Seqs, Rollback(s)
      PROVE  SettledOK' /\ Committed' = Committed
  <2>1. tx \in [Seqs -> {"none", "open", "committed", "rolledback"}]
    BY DEF TypeOK
  <2>2. tx[s] = "open" /\ tx' = [tx EXCEPT ![s] = "rolledback"]
    BY <1>3 DEF Rollback
  <2>3. SettledOK'
    BY <2>1, <2>2 DEF SettledOK
  <2> QED BY <2>1, <2>2, <2>3 DEF Committed
<1>4. ASSUME UNCHANGED tx PROVE SettledOK' /\ Committed' = Committed
  BY <1>4 DEF SettledOK, Committed
<1>5. (\E s \in Seqs : Insert(s) \/ Commit(s) \/ Rollback(s)) \/ UNCHANGED tx
  BY DEF Next, RequestDomainEventBroadcast, BroadcastRead, BroadcastEmit, BroadcastFails,
         Resume, ConnectFrom, ConnectFresh, ConnectAfter, CatchUp, StreamRead,
         LatestAnswer, ReplayAnswer, CatchUpFails, Disconnect, Receive, Restart
<1> QED BY <1>1, <1>2, <1>3, <1>4, <1>5

\* A page holds the first rows after a cursor, and all of them if it is short.
LEMMA PageAfterHolds ==
  ASSUME NEW S, S \subseteq Seqs, NEW cursor \in Nat
  PROVE  /\ PageAfter(S, cursor) \subseteq S \cap Committed
         /\ Gapless(PageAfter(S, cursor), S, cursor)
         /\ Cardinality(PageAfter(S, cursor)) < Page =>
              \A s \in S \cap Committed : cursor < s => s \in PageAfter(S, cursor)
<1> DEFINE later == {s \in S \cap Committed : s > cursor}
           below(s) == {r \in later : r < s}
           page == {s \in later : Cardinality(below(s)) < Page}
<1>1. PageAfter(S, cursor) = page
  BY DEF PageAfter
<1>2. later \subseteq Seqs /\ later \subseteq Nat /\ page \subseteq later /\ page \subseteq Seqs
  BY SeqsFacts
<1>3. \A s : below(s) \subseteq Seqs /\ IsFiniteSet(below(s)) /\ Cardinality(below(s)) \in Nat
  BY <1>2, SeqsFacts
<1>4. IsFiniteSet(page) /\ Cardinality(page) \in Nat /\ Page \in Nat
  BY <1>2, SeqsFacts
<1>5. \A s \in S \cap Committed : cursor < s <=> s \in later
  BY SeqsFacts
<1> HIDE DEF later
<1>6. ASSUME NEW p \in page, NEW s \in later, s <= p PROVE s \in page
  <2>1. below(s) \subseteq below(p)
    <3>1. p \in Nat /\ s \in Nat
      BY <1>2
    <3>2. ASSUME NEW r \in later, r < s PROVE r < p
      BY <1>2, <1>6, <3>1, <3>2
    <3> QED BY <3>2
  <2>2. Cardinality(below(s)) <= Cardinality(below(p))
    BY <1>3, <2>1, FS_Subset
  <2>3. Cardinality(below(p)) < Page
    OBVIOUS
  <2> HIDE DEF below
  <2>4. Cardinality(below(s)) < Page
    BY <1>3, <1>4, <2>2, <2>3
  <2> QED BY <2>4
<1>7. ASSUME Cardinality(page) < Page, NEW x \in later, x \notin page PROVE FALSE
  <2> DEFINE rest == later \ page
  <2>1. rest \subseteq Nat /\ rest # {}
    BY <1>2, <1>7
  <2>2. PICK s \in rest : \A y \in rest : s <= y
    <3> HIDE DEF rest
    <3> QED BY <2>1, LeastExists
  <2>3. ASSUME NEW r \in below(s) PROVE r \in page
    <3>1. r \in later /\ r < s /\ r \in Nat /\ s \in Nat
      BY <1>2, <2>1, <2>2, <2>3
    <3> QED BY <2>2, <3>1
  <2>4. Cardinality(below(s)) <= Cardinality(page)
    <3>1. below(s) \subseteq page
      BY <2>3
    <3> HIDE DEF page, below
    <3> QED BY <1>4, <3>1, FS_Subset
  <2>5. s \in later /\ s \notin page
    BY <2>2
  <2>6. Cardinality(below(s)) < Page
    <3> HIDE DEF page, below
    <3> QED BY <1>3, <1>4, <1>7, <2>4
  <2> QED BY <2>5, <2>6
<1> HIDE DEF page
<1>8. page \subseteq S \cap Committed
  BY <1>2 DEF later
<1>9. Gapless(page, S, cursor)
  BY <1>5, <1>6 DEF Gapless
<1>10. Cardinality(page) < Page => \A s \in S \cap Committed : cursor < s => s \in page
  BY <1>5, <1>7
<1> QED BY <1>1, <1>8, <1>9, <1>10

\* Nothing is missing at first.
LEMMA GapInit == Init => GapInv
<1> SUFFICES ASSUME Init PROVE GapInv
  OBVIOUS
<1>1. Committed = {} /\ stream.pc = "off" /\ broadcast.pc = "idle" /\ stream.buffered = {}
      /\ broadcast.cursor = 0 /\ wire = << >> /\ client.lastId = 0
  BY DEF Init, ClosedStream, Committed
<1>2. SettledOK
  BY DEF Init, SettledOK
<1>3. Elements(wire) = {}
  BY <1>1 DEF Elements
<1>4. KnownOK /\ PagesOK /\ BetweenOK /\ PassedOK
  BY <1>1, <1>3 DEF KnownOK, Known, PagesOK, BetweenOK, PassedOK, Covers, Connected
<1> QED BY <1>2, <1>4 DEF GapInv

\* Transactions.
LEMMA RowsKeepGaps ==
  ASSUME OrderedCommits, OrderInv, GapInv, NEW s \in Seqs, Insert(s) \/ Commit(s) \/ Rollback(s)
  PROVE  GapInv'
<1>1. UNCHANGED <<broadcast, stream, wire, client>>
  BY DEF Insert, Commit, Rollback
<1>2. Next /\ TypeOK
  BY DEF Next, OrderInv
<1>3. /\ SettledOK' /\ Committed \subseteq Committed' /\ Known \subseteq Known'
      /\ \A n \in Known, r \in Committed' : r <= n => r \in Committed
  BY <1>2, FixedBelow DEF GapInv, Known
<1>4. KnownOK'
  BY <1>1, <1>3 DEF GapInv, KnownOK, Connected, Elements
<1>5. PagesOK'
  <2>1. ASSUME NEW page, page \subseteq Committed, NEW S, NEW after, Gapless(page, S, after)
        PROVE  Gapless(page, S, after)'
    BY <1>3, <2>1, KnownIs DEF Gapless
  <2> QED BY <1>1, <2>1 DEF GapInv, PagesOK, KnownOK
<1>6. BetweenOK'
  <2>1. \A n : Between(n)' = Between(n)
    BY <1>1, <1>3 DEF Between, GapInv, KnownOK
  <2>2. Asked' = Asked
    BY <1>1 DEF Asked
  <2> QED BY <1>1, <2>1, <2>2 DEF GapInv, BetweenOK
<1>7. PassedOK'
  <2>1. ASSUME NEW S, NEW n \in Known, Covers(S, n) PROVE Covers(S, n)'
    BY <1>1, <1>3, <2>1 DEF Covers, Asked
  <2> QED BY <1>1, <2>1 DEF GapInv, PassedOK, KnownOK, Connected, Delivered, Elements
<1> QED BY <1>3, <1>4, <1>5, <1>6, <1>7 DEF GapInv

\* The steps of the broadcast that emit nothing.
LEMMA DrainKeepsGaps ==
  ASSUME OrderInv, GapInv, SettledOK',
         RequestDomainEventBroadcast \/ BroadcastRead \/ BroadcastFails
  PROVE  GapInv'
<1>1. UNCHANGED <<tx, stream, wire, client>> /\ Committed' = Committed
  BY DEF RequestDomainEventBroadcast, BroadcastRead, BroadcastFails, Committed
<1>2. TypeOK /\ broadcast'.cursor = broadcast.cursor
  BY DEF OrderInv, TypeOK, RequestDomainEventBroadcast, BroadcastRead, BroadcastFails, Rest
<1>3. broadcast'.pc = "answer" =>
        broadcast'.page \subseteq Committed /\ Gapless(broadcast'.page, Seqs, broadcast.cursor)
  <2>1. CASE RequestDomainEventBroadcast
    <3>1. broadcast'.pc = "answer" => broadcast.pc = "answer" /\ broadcast'.page = broadcast.page
      BY <1>2, <2>1 DEF RequestDomainEventBroadcast, TypeOK
    <3> QED BY <3>1 DEF GapInv, KnownOK, PagesOK
  <2>2. CASE BroadcastRead
    <3>1. broadcast'.page = PageAfter(Seqs, broadcast.cursor)
      BY <1>2, <2>2 DEF BroadcastRead, TypeOK
    <3>2. broadcast.cursor \in Nat
      BY <1>2, Parts
    <3> QED BY <3>1, <3>2, PageAfterHolds
  <2>3. CASE BroadcastFails
    <3>1. broadcast'.pc # "answer"
      BY <1>2, <2>3 DEF BroadcastFails, Rest, TypeOK
    <3> QED BY <3>1
  <2> QED BY <2>1, <2>2, <2>3
<1>4. KnownOK'
  BY <1>1, <1>2, <1>3 DEF GapInv, KnownOK, Known, Connected, Elements
<1>5. PagesOK'
  BY <1>1, <1>2, <1>3 DEF GapInv, PagesOK, Gapless
<1>6. BetweenOK' /\ PassedOK'
  BY <1>1, <1>2 DEF GapInv, BetweenOK, Between, Asked, PassedOK, Covers, Connected, Delivered, Elements
<1> QED BY <1>4, <1>5, <1>6 DEF GapInv

\* What the cursor passes in a step is in the page.
LEMMA EmitPasses ==
  ASSUME OrderInv, GapInv, BroadcastEmit, NEW s \in Committed,
         s <= broadcast'.cursor, ~(s <= broadcast.cursor)
  PROVE  s \in broadcast.page
<1>1. TypeOK /\ broadcast.pc = "answer" /\ Gapless(broadcast.page, Seqs, broadcast.cursor)
  BY DEF OrderInv, GapInv, PagesOK, BroadcastEmit
<1>2. broadcast'.cursor \in broadcast.page \cup {broadcast.cursor}
  BY <1>1, EmitIs
<1>3. s \in Nat /\ s \in Seqs /\ broadcast.cursor < s
  <2>1. s \in Seqs /\ s \in Nat
    BY KnownIs, SeqsFacts
  <2>2. broadcast.cursor \in Nat
    BY <1>1, Parts
  <2> QED BY <2>1, <2>2
<1>4. broadcast'.cursor \in broadcast.page
  BY <1>2
<1> QED BY <1>1, <1>3, <1>4 DEF Gapless

\* A page that is emitted.
LEMMA EmitKeepsGaps ==
  ASSUME OrderInv, GapInv, SettledOK', BroadcastEmit
  PROVE  GapInv'
<1> DEFINE mine == broadcast.page \cap Mine
           n == Highest(Unsent(mine) \cup {stream.lastSent})
<1>1. TypeOK /\ UNCHANGED <<tx, client>> /\ Committed' = Committed /\ broadcast.pc = "answer"
  BY DEF OrderInv, BroadcastEmit, Committed
<1>2. /\ broadcast'.pc # "answer" /\ broadcast'.cursor \in broadcast.page \cup {broadcast.cursor}
      /\ broadcast.cursor <= broadcast'.cursor /\ \A s \in broadcast.page : s <= broadcast'.cursor
  BY <1>1, EmitIs
<1>a. broadcast.cursor \in Int /\ broadcast'.cursor \in Int
  <2>1. broadcast.cursor \in Nat
    BY <1>1, Parts
  <2>2. broadcast.page \subseteq Nat
    <3>1. broadcast.page \subseteq Seqs
      BY <1>1, Parts
    <3> QED BY <3>1, SeqsFacts
  <2> QED BY <1>2, <2>1, <2>2
<1>3. broadcast.page \subseteq Committed /\ broadcast'.cursor \in Known
      /\ \A s \in stream.buffered \cup mine : s <= broadcast'.cursor
  <2>1. broadcast.page \subseteq Committed /\ broadcast'.cursor \in Known
    BY <1>1, <1>2, KnownIs DEF GapInv, KnownOK
  <2>2. \A s \in stream.buffered : s \in Int
    <3>1. stream.buffered \subseteq Mine
      BY <1>1, Parts
    <3>2. \A s \in Mine : s \in Nat
      BY SeqsFacts
    <3> QED BY <3>1, <3>2
  <2>3. \A s \in stream.buffered : s <= broadcast.cursor
    BY DEF GapInv, KnownOK
  <2> QED BY <1>2, <1>a, <2>1, <2>2, <2>3
<1>4. \A s \in Mine \cap Committed :
        s <= broadcast'.cursor => s <= broadcast.cursor \/ s \in mine
  BY EmitPasses
<1>5. CASE stream.pc = "off"
  <2>1. UNCHANGED <<stream, wire>>
    BY <1>5 DEF BroadcastEmit
  <2>2. KnownOK'
    BY <1>1, <1>2, <1>3, <1>5, <2>1 DEF GapInv, KnownOK, Known, Connected, Elements
  <2>3. PagesOK' /\ BetweenOK'
    BY <1>2, <1>5, <2>1 DEF PagesOK, BetweenOK
  <2>4. PassedOK'
    BY <1>1, <2>1 DEF GapInv, PassedOK, Covers, Asked, Connected, Delivered, Elements
  <2> QED BY <2>2, <2>3, <2>4 DEF GapInv
<1>6. CASE stream.pc = "live"
  <2>1. wire' = Written(mine) /\ stream' = [stream EXCEPT !.lastSent = n]
    BY <1>6 DEF BroadcastEmit
  <2> HIDE DEF n
  <2>2. /\ Elements(Written(mine)) = Elements(wire) \cup Unsent(mine)
        /\ n \in 0 .. MaxSeq /\ n \in Unsent(mine) \cup {stream.lastSent}
        /\ stream.lastSent <= n /\ \A s \in mine : s <= n
    <3>1. mine \subseteq Mine /\ Connected
      BY <1>6 DEF Connected
    <3> HIDE DEF mine
    <3> QED BY <3>1, WrittenIs DEF n
  <2>3. /\ stream'.lastSent = n /\ stream'.pc = "live" /\ stream'.buffered = stream.buffered
    BY <1>1, <1>6, <2>1 DEF TypeOK
  <2>4. Unsent(mine) \subseteq mine /\ \A s \in mine : s \in Unsent(mine) <=> s > stream.lastSent
    BY DEF Unsent
  <2>5. n \in Int /\ stream.lastSent \in Int /\ broadcast.cursor \in Int
        /\ \A s \in Committed : s \in Int
    BY <1>1, <2>2, Parts, KnownIs, SeqsFacts
  <2>6. \A s \in Mine \cap Committed \cap Asked : s <= broadcast.cursor => s <= stream.lastSent
    BY <1>6, <2>5 DEF GapInv, BetweenOK, Between
  <2>7. KnownOK'
    <3>1. n \in Known /\ Elements(wire') \subseteq Committed
      BY <1>3, <1>6, <2>1, <2>2, <2>4, KnownIs DEF GapInv, KnownOK, Connected
    <3> QED BY <1>1, <1>2, <1>3, <2>3, <3>1 DEF GapInv, KnownOK, Known
  <2>8. PagesOK'
    BY <1>2, <2>3 DEF PagesOK
  <2>9. BetweenOK'
    <3>1. ASSUME NEW s \in Mine \cap Committed \cap Asked, s <= broadcast'.cursor PROVE s <= n
      <4>1. CASE s <= broadcast.cursor
        BY <2>2, <2>5, <2>6, <4>1
      <4>2. CASE s \in mine
        BY <2>2, <4>2
      <4> QED BY <1>4, <3>1, <4>1, <4>2
    <3>2. Asked' = Asked
      BY <1>1 DEF Asked
    <3>3. (Between(stream.lastSent) \cap Asked)' = {}
      BY <1>1, <2>3, <2>5, <3>1, <3>2 DEF Between
    <3> QED BY <2>3, <3>3 DEF BetweenOK
  <2>10. PassedOK'
    <3>1. ASSUME NEW s \in Mine \cap Committed \cap Asked, s <= n PROVE s \in Delivered'
      <4>1. CASE s <= stream.lastSent
        <5>1. s \in Delivered
          BY <1>6, <4>1 DEF GapInv, PassedOK, Covers, Connected
        <5> QED BY <1>1, <2>1, <2>2, <5>1 DEF Delivered
      <4>2. CASE ~(s <= stream.lastSent)
        <5>1. n \in mine
          BY <2>2, <2>4, <3>1, <4>2
        <5>2. s <= broadcast'.cursor
          <6>1. n <= broadcast'.cursor
            BY <1>3, <5>1
          <6> QED BY <1>a, <2>5, <3>1, <6>1
        <5>3. s \in mine
          BY <1>4, <2>6, <4>2, <5>2
        <5>4. s \in Unsent(mine)
          BY <2>4, <2>5, <4>2, <5>3
        <5> QED BY <1>1, <2>1, <2>2, <5>4 DEF Delivered
      <4> QED BY <4>1, <4>2
    <3>2. Asked' = Asked
      BY <1>1 DEF Asked
    <3>3. Covers(Delivered, stream.lastSent)'
      BY <1>1, <2>3, <3>1, <3>2 DEF Covers
    <3>4. Covers(Elements(client.inbox), client.lastId)'
      BY <1>1, <3>2 DEF GapInv, PassedOK, Covers
    <3> QED BY <3>3, <3>4 DEF PassedOK
  <2> QED BY <2>7, <2>8, <2>9, <2>10 DEF GapInv
<1>7. CASE stream.pc \notin {"off", "live"}
  <2>1. UNCHANGED wire /\ stream' = [stream EXCEPT !.buffered = @ \cup mine]
    BY <1>7 DEF BroadcastEmit
  <2>2. /\ stream'.pc = stream.pc /\ stream'.mode = stream.mode /\ stream'.answer = stream.answer
        /\ stream'.lastSent = stream.lastSent /\ stream'.buffered = stream.buffered \cup mine
    BY <1>1, <2>1 DEF TypeOK
  <2> HIDE DEF mine
  <2>3. mine \subseteq Committed
    BY <1>3 DEF mine
  <2>4. KnownOK'
    BY <1>1, <1>2, <1>3, <1>7, <2>1, <2>2, <2>3 DEF GapInv, KnownOK, Known, Connected, Elements
  <2>5. PagesOK'
    BY <1>1, <1>2, <2>2 DEF GapInv, PagesOK, Gapless
  <2>6. BetweenOK'
    <3>1. \A x : Between(x)' \subseteq Between(x) \cup mine
      BY <1>1, <1>4 DEF Between
    <3>2. Asked' = Asked
      BY <1>1 DEF Asked
    <3> QED BY <1>7, <2>2, <3>1, <3>2 DEF GapInv, BetweenOK
  <2>7. PassedOK'
    BY <1>1, <2>1, <2>2 DEF GapInv, PassedOK, Covers, Asked, Connected, Delivered, Elements
  <2> QED BY <2>4, <2>5, <2>6, <2>7 DEF GapInv
<1> QED BY <1>5, <1>6, <1>7

\* A connection that begins after a number up to which nothing is missing, or ends.
LEMMA ClosedKeepsGaps ==
  ASSUME OrderInv, GapInv, SettledOK', UNCHANGED tx, wire' = << >>,
         stream'.pc \in {"off", "query"}, stream'.mode # "catchup", stream'.buffered = {},
         Connected' => /\ stream'.lastSent \in Known
                       /\ stream'.lastSent <= client'.lastId \/ stream'.lastSent <= client'.base,
         \/ UNCHANGED broadcast
         \/ broadcast'.cursor \in Known /\ broadcast'.pc # "answer",
         \/ UNCHANGED client
         \/ client'.lastId = 0 /\ client'.base \in Int
  PROVE  GapInv'
<1>1. Committed' = Committed /\ Elements(wire') = {}
  BY DEF Committed, Elements
<1>2. KnownOK'
  BY <1>1, KnownIs DEF GapInv, KnownOK, Known, Connected
<1>3. PagesOK' /\ BetweenOK'
  BY <1>1 DEF GapInv, PagesOK, Gapless, BetweenOK
<1>4. Covers(Elements(client.inbox), client.lastId)'
  <2>1. CASE UNCHANGED client
    BY <1>1, <2>1 DEF GapInv, PassedOK, Covers, Asked
  <2>2. CASE client'.lastId = 0
    <3>1. \A s \in Mine : ~(s <= 0)
      BY SeqsFacts DEF Seqs
    <3> QED BY <1>1, <2>2, <3>1 DEF Covers
  <2> QED BY <2>1, <2>2
<1>5. ASSUME Connected' PROVE Covers(Delivered, stream.lastSent)'
  <2>1. stream'.lastSent \in Int /\ client'.lastId \in Int
    <3>1. stream'.lastSent \in Nat
      BY <1>5, KnownIs
    <3>2. client.lastId \in Nat
      BY Parts DEF OrderInv
    <3> QED BY <3>1, <3>2
  <2>2. \A s \in Mine : s \in Int
    BY SeqsFacts
  <2>3. \A s \in Mine : s <= stream'.lastSent => s <= client'.lastId \/ ~(client'.base < s)
    <3>1. client'.base \in Int
      BY Parts DEF OrderInv, TypeOK
    <3> QED BY <1>5, <2>1, <2>2, <3>1
  <2> QED BY <1>1, <1>4, <2>3 DEF Covers, Delivered, Asked
<1> QED BY <1>2, <1>3, <1>4, <1>5 DEF GapInv, PassedOK

\* Connections that begin or end.
LEMMA ConnectionKeepsGaps ==
  ASSUME OrderInv, GapInv, SettledOK',
         Resume \/ (\E n \in 0 .. MaxSeq : ConnectFrom(n)) \/ ConnectFresh \/ Disconnect \/ Restart
  PROVE  GapInv'
<1>1. TypeOK /\ (~Connected => wire = << >>)
  BY DEF OrderInv, WireOK
<1>2. client.lastId \in Known /\ client.lastId \in Int
  <2>1. client.lastId \in Nat
    BY <1>1, Parts
  <2> QED BY <2>1 DEF GapInv, KnownOK
<1>3. CASE Resume
  <2>1. /\ UNCHANGED <<tx, broadcast, wire, client>> /\ wire = << >>
        /\ stream' = [ClosedStream EXCEPT !.pc = "query", !.mode = "replay",
                                          !.lastSent = client.lastId]
    BY <1>1, <1>3 DEF Resume, ConnectAfter, Connected
  <2>2. /\ stream'.lastSent = client.lastId /\ stream'.mode = "replay" /\ stream'.pc = "query"
        /\ stream'.buffered = {}
    BY <2>1 DEF ClosedStream
  <2> QED BY <1>2, <2>1, <2>2, ClosedKeepsGaps
<1>6. ASSUME NEW n \in 0 .. MaxSeq, ConnectFrom(n) PROVE GapInv'
  <2>1. /\ UNCHANGED <<tx, broadcast, wire>> /\ wire = << >> /\ n \in Known
        /\ client' = [inbox |-> << >>, lastId |-> 0, base |-> n]
        /\ stream' = [ClosedStream EXCEPT !.pc = "query", !.mode = "replay", !.lastSent = n]
    BY <1>1, <1>6 DEF ConnectFrom, ConnectAfter, Connected, Known
  <2>2. /\ stream'.lastSent = n /\ stream'.mode # "catchup" /\ stream'.pc = "query"
        /\ stream'.buffered = {} /\ client'.lastId = 0 /\ client'.base = n
    BY <2>1 DEF ClosedStream
  <2>3. n <= client'.base /\ client'.base \in Int
    BY <2>2
  <2> QED BY <2>1, <2>2, <2>3, ClosedKeepsGaps
<1>4. CASE ConnectFresh
  <2>1. UNCHANGED <<tx, broadcast, wire>> /\ wire = << >> /\ client'.lastId = 0
        /\ client'.base \in Int
    BY <1>1, <1>4, SeqsFacts DEF ConnectFresh, Connected
  <2>2. /\ stream'.lastSent = 0 /\ stream'.mode # "catchup" /\ stream'.pc = "query"
        /\ stream'.buffered = {}
    BY <1>4 DEF ConnectFresh, ClosedStream
  <2>3. stream'.lastSent \in Known /\ stream'.lastSent <= client'.lastId
    BY <2>1, <2>2, KnownIs
  <2> QED BY <2>1, <2>2, <2>3, ClosedKeepsGaps
<1>5. CASE Disconnect \/ Restart
  <2>1. /\ UNCHANGED <<tx, client>> /\ wire' = << >> /\ stream'.pc = "off"
        /\ stream'.mode = "latest" /\ stream'.buffered = {}
    BY <1>5 DEF Disconnect, Restart, ClosedStream
  <2>2. Highest(Committed) \in Known
    <3>1. CASE Committed = {}
      BY <3>1 DEF Highest, Known
    <3>2. CASE Committed # {}
      <4>1. Committed \subseteq 0 .. MaxSeq
        BY KnownIs
      <4>2. Highest(Committed) \in Committed
        BY <3>2, <4>1, HighestIs
      <4> QED BY <4>2, KnownIs
    <3> QED BY <3>1, <3>2
  <2>3. \/ UNCHANGED broadcast
        \/ broadcast'.cursor \in Known /\ broadcast'.pc # "answer"
    BY <1>5, <2>2 DEF Disconnect, Restart
  <2> QED BY <2>1, <2>3, ClosedKeepsGaps DEF Connected
<1> QED BY <1>3, <1>4, <1>5, <1>6

\* Queries of the stream.
LEMMA QueriesKeepGaps ==
  ASSUME OrderInv, GapInv, SettledOK', CatchUp \/ StreamRead
  PROVE  GapInv'
<1>1. TypeOK /\ UNCHANGED <<tx, broadcast, wire, client>> /\ Committed' = Committed
  BY DEF OrderInv, CatchUp, StreamRead, Committed
<1>2. CASE CatchUp
  <2>1. /\ stream.pc = "live" /\ stream'.pc = "query" /\ stream'.mode = "catchup"
        /\ stream'.lastSent = stream.lastSent /\ stream'.buffered = stream.buffered
    BY <1>1, <1>2 DEF CatchUp, TypeOK
  <2>2. KnownOK' /\ PagesOK' /\ PassedOK'
    BY <1>1, <2>1 DEF GapInv, KnownOK, Known, PagesOK, Gapless, PassedOK, Covers, Asked,
                      Connected, Delivered, Elements
  <2>3. BetweenOK'
    BY <1>1, <2>1 DEF GapInv, BetweenOK, Between, Asked
  <2> QED BY <2>2, <2>3 DEF GapInv
<1>3. CASE StreamRead
  <2>1. /\ stream.pc = "query" /\ stream'.pc = "answer" /\ stream'.mode = stream.mode
        /\ stream'.lastSent = stream.lastSent /\ stream'.buffered = stream.buffered
        /\ stream'.answer = IF stream.mode = "latest" THEN Mine \cap Committed
                            ELSE PageAfter(Mine, stream.lastSent)
    BY <1>1, <1>3 DEF StreamRead, TypeOK
  <2>2. stream.lastSent \in Nat /\ Mine \subseteq Seqs
    BY <1>1, Parts, SeqsFacts
  <2>3. stream.mode # "latest" =>
          /\ stream'.answer \subseteq Mine \cap Committed
          /\ Gapless(stream'.answer, Mine, stream.lastSent)
          /\ Cardinality(stream'.answer) < Page =>
               \A s \in Mine \cap Committed : stream.lastSent < s => s \in stream'.answer
    BY <2>1, <2>2, PageAfterHolds
  <2>4. stream'.answer \subseteq Committed
    BY <2>1, <2>3
  <2>5. KnownOK' /\ PagesOK'
    BY <1>1, <2>1, <2>3, <2>4 DEF GapInv, KnownOK, Known, PagesOK, Gapless, Connected, Elements
  <2>6. PassedOK'
    BY <1>1, <2>1 DEF GapInv, PassedOK, Covers, Asked, Connected, Delivered, Elements
  <2>7. BetweenOK'
    BY <1>1, <2>1, <2>3 DEF GapInv, BetweenOK, Between, Asked
  <2> QED BY <2>5, <2>6, <2>7 DEF GapInv
<1> QED BY <1>2, <1>3

\* A stream goes live: what it has written covers what it sent, and what the
\* broadcast has passed beyond that is buffered.
LEMMA LiveKeepsGaps ==
  ASSUME OrderInv, GapInv, SettledOK', Connected, UNCHANGED <<tx, broadcast>>,
         client'.inbox = client.inbox, client'.lastId = client.lastId,
         NEW sent \in Seq(Mine), Rising(sent), NEW n \in Known,
         client.lastId <= n, \A s \in Elements(sent) : client.lastId < s /\ s <= n,
         Elements(sent) \subseteq Committed, GoLive(n, sent),
         \A s \in Mine \cap Committed : client'.base < s /\ s <= n =>
            s \in Elements(client.inbox) \cup Elements(sent),
         \A s \in Mine \cap Committed : client'.base < s /\ n < s /\ s <= broadcast.cursor =>
            s \in stream.buffered,
         Covers(Elements(client.inbox), client.lastId)'
  PROVE  GapInv'
<1> DEFINE m == stream'.lastSent
           U == {s \in stream.buffered : s > n}
<1>1. TypeOK /\ n \in 0 .. MaxSeq /\ n \in Int
  BY KnownIs DEF OrderInv
<1>2. /\ Elements(wire') = Elements(sent) \cup U
      /\ stream' \in [pc : {"live"}, mode : {stream.mode}, lastSent : 0 .. MaxSeq,
                      answer : {{}}, buffered : {{}}]
      /\ m \in stream.buffered \cup {n} /\ n <= m
      /\ \A s \in stream.buffered : s <= m
  BY <1>1, GoLiveIs
<1>3. stream'.pc = "live" /\ stream'.buffered = {} /\ m \in 0 .. MaxSeq
  BY <1>2
<1>4. Committed' = Committed /\ broadcast' = broadcast
  BY DEF Committed
<1> HIDE DEF m, U
<1>5. /\ m \in Int /\ broadcast.cursor \in Int
      /\ \A s \in Committed : s \in Int
  <2>1. broadcast.cursor \in Nat
    BY <1>1, Parts
  <2>2. \A s \in Committed : s \in Int
    BY KnownIs, SeqsFacts
  <2> QED BY <1>3, <2>1, <2>2, SeqsFacts
<1>6. stream.buffered \subseteq Committed /\ \A s \in stream.buffered : s <= broadcast.cursor
  BY DEF GapInv, KnownOK
<1>7. KnownOK'
  <2>1. m \in Known
    BY <1>2, <1>6, KnownIs
  <2>2. U \subseteq Committed
    BY <1>6 DEF U
  <2> QED BY <1>2, <1>3, <1>4, <2>1, <2>2 DEF GapInv, KnownOK, Known, m
<1>8. PagesOK'
  BY <1>3, <1>4 DEF GapInv, PagesOK, Gapless
<1>9. BetweenOK'
  <2>1. ASSUME NEW s \in Mine \cap Committed, client'.base < s, m < s, s <= broadcast.cursor
        PROVE  FALSE
    <3>1. n < s /\ s \in Int
      BY <1>1, <1>2, <1>5, <2>1
    <3>2. s <= m
      BY <1>2, <2>1, <3>1
    <3> QED BY <1>5, <2>1, <3>1, <3>2
  <2>2. (Between(stream.lastSent) \cap Asked)' = {}
    BY <1>4, <2>1 DEF Between, Asked, m
  <2> QED BY <1>3, <2>2 DEF BetweenOK
<1>10. PassedOK'
  <2>1. ASSUME NEW s \in Mine \cap Committed, client'.base < s, s <= m
        PROVE  s \in Elements(client.inbox) \cup Elements(wire')
    <3>1. CASE s <= n
      BY <1>2, <2>1, <3>1
    <3>2. CASE n < s
      <4>1. m \in stream.buffered
        BY <1>1, <1>2, <1>5, <2>1, <3>2
      <4>2. s <= broadcast.cursor
        BY <1>5, <1>6, <2>1, <4>1
      <4>3. s \in U
        BY <1>1, <1>5, <2>1, <3>2, <4>2 DEF U
      <4> QED BY <1>2, <4>3
    <3> QED BY <1>1, <1>5, <3>1, <3>2
  <2>2. Covers(Delivered, stream.lastSent)'
    BY <1>4, <2>1 DEF Covers, Delivered, Asked, m
  <2> QED BY <2>2 DEF PassedOK
<1> QED BY <1>7, <1>8, <1>9, <1>10 DEF GapInv

\* The answer that ends or continues a replay is written without a gap.
LEMMA ReplayIs ==
  ASSUME OrderInv, GapInv, ReplayAnswer, NEW n,
         n = Highest(Unsent(stream.answer) \cup {stream.lastSent})
  PROVE  /\ n \in Known /\ stream.lastSent <= n /\ \A s \in stream.answer : s <= n
         /\ Elements(Written(stream.answer)) \subseteq Committed
         /\ \A s \in Mine \cap Committed \cap Asked : s <= n =>
              s \in Elements(client.inbox) \cup Elements(Written(stream.answer))
<1> DEFINE page == stream.answer
<1>1. /\ TypeOK /\ Connected /\ page \subseteq Committed
      /\ Gapless(page, Mine, stream.lastSent) /\ stream.lastSent \in Known
      /\ Elements(wire) \subseteq Committed
  BY DEF OrderInv, GapInv, KnownOK, PagesOK, ReplayAnswer, Connected
<1>2. page \subseteq Mine
  BY <1>1, Parts
<1>3. Unsent(page) \subseteq page /\ \A s \in page : s \in Unsent(page) <=> s > stream.lastSent
  BY DEF Unsent
<1> HIDE DEF page
<1>4. /\ Elements(Written(page)) = Elements(wire) \cup Unsent(page)
      /\ n \in Unsent(page) \cup {stream.lastSent}
      /\ stream.lastSent <= n /\ \A s \in page : s <= n
  BY <1>1, <1>2, WrittenIs DEF page
<1>5. n \in Known
  BY <1>1, <1>3, <1>4, KnownIs
<1>6. n \in Int /\ stream.lastSent \in Int /\ \A s \in Committed : s \in Int
  <2>1. n \in Nat /\ stream.lastSent \in Nat
    BY <1>1, <1>5, KnownIs
  <2>2. \A s \in Committed : s \in Nat
    BY KnownIs
  <2> QED BY <2>1, <2>2
<1>7. ASSUME NEW s \in Mine \cap Committed \cap Asked, s <= n
      PROVE  s \in Elements(client.inbox) \cup Elements(Written(page))
  <2>1. CASE s <= stream.lastSent
    <3>1. s \in Delivered
      BY <1>1, <2>1 DEF GapInv, PassedOK, Covers
    <3> QED BY <1>4, <3>1 DEF Delivered
  <2>2. CASE ~(s <= stream.lastSent)
    <3>1. stream.lastSent < s
      BY <1>6, <2>2
    <3>2. n \in page
      BY <1>3, <1>4, <1>7, <2>2
    <3>3. s \in page
      BY <1>1, <1>7, <3>1, <3>2 DEF Gapless
    <3>4. s \in Unsent(page)
      BY <1>3, <1>6, <3>1, <3>3
    <3> QED BY <1>4, <3>4
  <2> QED BY <2>1, <2>2
<1> QED BY <1>1, <1>3, <1>4, <1>5, <1>7 DEF page

\* Answers, and queries that fail.
LEMMA AnswersKeepGaps ==
  ASSUME OrderInv, GapInv, SettledOK', LatestAnswer \/ ReplayAnswer \/ CatchUpFails
  PROVE  GapInv'
<1>1. TypeOK /\ Connected /\ UNCHANGED <<tx, broadcast>> /\ Committed' = Committed
  BY DEF OrderInv, Connected, Committed, LatestAnswer, ReplayAnswer, CatchUpFails
<1>2. \A s \in Committed : s \in Nat /\ s \in Seqs
  BY KnownIs, SeqsFacts
<1>3. CASE LatestAnswer
  <2> DEFINE n == Highest(stream.answer)
  <2>1. /\ stream.pc = "answer" /\ stream.mode = "latest"
        /\ client' = [client EXCEPT !.base = n] /\ GoLive(n, << >>)
        /\ wire = << >> /\ client.lastId = 0 /\ stream.answer \subseteq Committed
    BY <1>3 DEF LatestAnswer, OrderInv, WireOK, GapInv, KnownOK
  <2>2. n \in Known /\ \A s \in stream.answer : s <= n
    <3>1. CASE stream.answer = {}
      BY <3>1 DEF Highest, Known
    <3>2. CASE stream.answer # {}
      <4>1. stream.answer \subseteq 0 .. MaxSeq /\ \A s \in stream.answer : s \in Int
        BY <2>1, KnownIs
      <4>2. n \in stream.answer /\ \A s \in stream.answer : n >= s
        BY <3>2, <4>1, HighestIs
      <4>3. n \in Int
        BY <4>1, <4>2
      <4> QED BY <2>1, <4>1, <4>2, <4>3, KnownIs
    <3> QED BY <3>1, <3>2
  <2> HIDE DEF n
  <2>3. n \in Nat
    BY <2>2, KnownIs
  <2>4. client'.inbox = client.inbox /\ client'.lastId = 0 /\ client'.base = n
    BY <1>1, <2>1 DEF TypeOK
  <2>5. /\ << >> \in Seq(Mine) /\ Rising(<< >>) /\ Elements(<< >>) = {} /\ client.lastId <= n
    BY <2>1, <2>3 DEF Rising, Elements
  <2>6. \A s \in Mine \cap Committed : ~(client'.base < s /\ s <= n)
    BY <1>2, <2>3, <2>4
  <2>7. ASSUME NEW s \in Mine \cap Committed, n < s, s <= broadcast.cursor
        PROVE  s \in stream.buffered
    <3>1. s > 0 /\ s \notin stream.answer
      BY <1>2, <2>2, <2>3, <2>7
    <3>2. s \in Between(0)
      BY <2>7, <3>1 DEF Between
    <3> QED BY <2>1, <3>1, <3>2 DEF GapInv, BetweenOK
  <2>8. Covers(Elements(client.inbox), client.lastId)'
    <3>1. \A s \in Committed : ~(s <= 0)
      BY <1>2, SeqsFacts DEF Seqs
    <3> QED BY <1>1, <2>4, <3>1 DEF Covers
  <2>9. \A s \in Elements(<< >>) : client.lastId < s /\ s <= n
    BY <2>5
  <2> QED BY <1>1, <2>1, <2>2, <2>4, <2>5, <2>6, <2>7, <2>8, <2>9, LiveKeepsGaps
<1>4. ASSUME ReplayAnswer \/ CatchUpFails
      PROVE  /\ client' = client /\ Asked' = Asked /\ stream.mode # "latest"
             /\ Covers(Elements(client.inbox), client.lastId)'
  <2>1. client' = client /\ Asked' = Asked /\ stream.mode # "latest"
    BY <1>4 DEF ReplayAnswer, CatchUpFails, Asked
  <2> QED BY <1>1, <2>1 DEF GapInv, PassedOK, Covers
<1>5. \A s \in Committed : s \in Asked <=> client.base < s
  BY <1>2 DEF Asked
<1>6. CASE ReplayAnswer
  <2> DEFINE page == stream.answer
             n == Highest(Unsent(page) \cup {stream.lastSent})
  <2>1. /\ Cardinality(page) < Page => GoLive(n, Written(page))
        /\ ~(Cardinality(page) < Page) =>
              /\ stream' = [stream EXCEPT !.pc = "query", !.answer = {}, !.lastSent = n]
              /\ wire' = Written(page)
        /\ stream.pc = "answer"
    BY <1>6 DEF ReplayAnswer
  <2>2. /\ n \in Known /\ stream.lastSent <= n /\ \A s \in page : s <= n
        /\ Elements(Written(page)) \subseteq Committed
        /\ \A s \in Mine \cap Committed \cap Asked : s <= n =>
             s \in Elements(client.inbox) \cup Elements(Written(page))
    BY <1>6, ReplayIs
  <2>3. page \subseteq Mine
    BY <1>1, Parts
  <2> HIDE DEF page
  <2>4. /\ Written(page) \in Seq(Mine) /\ Rising(Written(page))
        /\ n \in 0 .. MaxSeq /\ client.lastId <= n
        /\ \A s \in Elements(Written(page)) : client.lastId < s /\ s <= n
    BY <1>1, <2>3, WrittenIs
  <2> HIDE DEF n
  <2>5. n \in Int /\ stream.lastSent \in Int
    <3>1. n \in Nat
      BY <2>2, KnownIs
    <3>2. stream.lastSent \in Nat
      BY <1>1, Parts
    <3> QED BY <3>1, <3>2
  <2>6. \A s \in Committed : n < s => stream.lastSent < s /\ s \notin page
    <3> SUFFICES ASSUME NEW s \in Committed, n < s PROVE stream.lastSent < s /\ ~(s <= n)
      BY <2>2
    <3> QED BY <1>2, <2>2, <2>5
  <2>7. CASE Cardinality(page) < Page
    <3>1. \A s \in Mine \cap Committed : n < s /\ s <= broadcast.cursor => s \in stream.buffered
      BY <1>4, <1>6, <2>1, <2>6, <2>7 DEF GapInv, BetweenOK, Between, page
    <3>2. \A s \in Mine \cap Committed : client'.base < s /\ s <= n =>
            s \in Elements(client.inbox) \cup Elements(Written(page))
      BY <1>4, <1>5, <1>6, <2>2
    <3>3. GoLive(n, Written(page))
      BY <2>1, <2>7
    <3> QED BY <1>1, <1>4, <1>6, <2>2, <2>4, <3>1, <3>2, <3>3, LiveKeepsGaps
  <2>8. CASE ~(Cardinality(page) < Page)
    <3>1. /\ stream'.pc = "query" /\ stream'.mode = stream.mode /\ stream'.lastSent = n
          /\ stream'.buffered = stream.buffered /\ wire' = Written(page)
      BY <1>1, <2>1, <2>8 DEF TypeOK
    <3>2. KnownOK'
      BY <1>1, <1>4, <1>6, <2>2, <3>1 DEF GapInv, KnownOK, Known
    <3>3. PagesOK'
      BY <1>1, <3>1 DEF GapInv, PagesOK, Gapless
    <3>4. BetweenOK'
      <4>1. Between(stream.lastSent)' \subseteq Between(stream.lastSent)
        BY <1>1, <2>6, <3>1 DEF Between
      <4> QED BY <1>4, <1>6, <2>1, <3>1, <4>1 DEF GapInv, BetweenOK
    <3>5. PassedOK'
      BY <1>1, <1>4, <1>6, <2>2, <3>1 DEF PassedOK, Covers, Delivered
    <3> QED BY <3>2, <3>3, <3>4, <3>5 DEF GapInv
  <2> QED BY <2>7, <2>8
<1>7. CASE CatchUpFails
  <2> DEFINE n == stream.lastSent
  <2>1. GoLive(n, wire) /\ stream.pc = "query" /\ stream.mode = "catchup"
    BY <1>7 DEF CatchUpFails
  <2>2. /\ wire \in Seq(Mine) /\ Rising(wire) /\ client.lastId <= n
        /\ \A s \in Elements(wire) : client.lastId < s /\ s <= n
    BY <1>1, WireIs
  <2>3. n \in Known /\ Elements(wire) \subseteq Committed
    BY <1>1 DEF GapInv, KnownOK
  <2>4. \A s \in Mine \cap Committed : client'.base < s /\ s <= n =>
          s \in Elements(client.inbox) \cup Elements(wire)
    BY <1>1, <1>4, <1>5, <1>7 DEF GapInv, PassedOK, Covers, Delivered
  <2>5. \A s \in Mine \cap Committed :
          client'.base < s /\ n < s /\ s <= broadcast.cursor => s \in stream.buffered
    BY <1>4, <1>5, <1>7, <2>1 DEF GapInv, BetweenOK, Between
  <2> QED BY <1>1, <1>4, <1>7, <2>1, <2>2, <2>3, <2>4, <2>5, LiveKeepsGaps
<1> QED BY <1>3, <1>6, <1>7

\* What arrives moves from the wire to the client.
LEMMA ReceiveKeepsGaps ==
  ASSUME OrderInv, GapInv, SettledOK', Receive
  PROVE  GapInv'
<1>1. /\ TypeOK /\ UNCHANGED <<tx, broadcast, stream>> /\ Committed' = Committed
      /\ wire # << >> /\ Connected
  BY DEF OrderInv, WireOK, Receive, Committed
<1>2. client'.lastId = wire[1] /\ client'.base = client.base
  BY <1>1, ReceiveIs DEF TypeOK
<1>3. /\ Elements(wire) = Elements(wire') \cup {wire[1]} /\ \A s \in Elements(wire') : wire[1] < s
      /\ Elements(client'.inbox) = Elements(client.inbox) \cup {wire[1]}
      /\ wire[1] \in Mine /\ wire[1] \in Elements(wire) /\ wire' \in Seq(Mine)
  BY ReceiveIs
<1>4. KnownOK'
  BY <1>1, <1>2, <1>3, KnownIs DEF GapInv, KnownOK, Known, Connected
<1>5. PagesOK' /\ BetweenOK'
  BY <1>1, <1>2 DEF GapInv, PagesOK, Gapless, BetweenOK, Between, Asked
<1>6. Delivered' = Delivered /\ Asked' = Asked
  BY <1>2, <1>3 DEF Delivered, Asked
<1>7. ASSUME NEW s \in Mine \cap Committed \cap Asked, s <= wire[1]
      PROVE  s \in Elements(client'.inbox)
  <2>1. wire[1] <= stream.lastSent /\ wire[1] \in Int /\ s \in Int /\ stream.lastSent \in Int
    <3>1. wire[1] <= stream.lastSent
      BY <1>3 DEF OrderInv, WireOK
    <3>2. stream.lastSent \in Nat
      BY <1>1, Parts
    <3>3. \A r \in Mine : r \in Nat
      BY SeqsFacts
    <3>4. wire[1] \in Nat /\ s \in Nat
      BY <1>3, <3>3
    <3> QED BY <3>1, <3>2, <3>4
  <2>2. s <= stream.lastSent
    BY <1>7, <2>1
  <2>3. s \in Delivered
    BY <1>1, <2>2 DEF GapInv, PassedOK, Covers
  <2>4. s \notin Elements(wire')
    BY <1>3, <1>7, <2>1
  <2> QED BY <1>3, <2>3, <2>4 DEF Delivered
<1>8. PassedOK'
  <2>1. Covers(Elements(client.inbox), client.lastId)'
    BY <1>1, <1>2, <1>6, <1>7 DEF Covers
  <2>2. Covers(Delivered, stream.lastSent)'
    BY <1>1, <1>6 DEF GapInv, PassedOK, Covers
  <2> QED BY <2>1, <2>2 DEF PassedOK
<1> QED BY <1>4, <1>5, <1>8 DEF GapInv

\* Every step keeps what the stream holds without a gap.
LEMMA GapStep ==
  ASSUME OrderedCommits, OrderInv, GapInv, [Next]_vars
  PROVE  GapInv'
<1>1. CASE UNCHANGED vars
  BY <1>1 DEF vars, GapInv, SettledOK, KnownOK, Known, Committed, Connected, Elements, PagesOK,
              Gapless, BetweenOK, Between, Asked, PassedOK, Covers, Delivered
<1>2. CASE Next
  <2>1. SettledOK'
    BY <1>2, FixedBelow DEF OrderInv, GapInv
  <2> QED BY <1>2, <2>1, RowsKeepGaps, DrainKeepsGaps, EmitKeepsGaps, ConnectionKeepsGaps,
             QueriesKeepGaps, AnswersKeepGaps, ReceiveKeepsGaps DEF Next
<1> QED BY <1>1, <1>2

\* Both invariants, when commits are in order.
LEMMA GapsHold ==
  ASSUME OrderedCommits
  PROVE  Spec => [](OrderInv /\ GapInv)
<1>1. Init => OrderInv /\ GapInv
  BY OrderInit, GapInit
<1>2. OrderInv /\ GapInv /\ [Next]_vars => (OrderInv /\ GapInv)'
  BY OrderStep, GapStep
<1> QED BY <1>1, <1>2, PTL DEF Spec

\* The properties, which are stated of the sequences.
LEMMA PassedGives ==
  ASSUME TypeOK, PassedOK
  PROVE  NoSkippedEvent /\ NothingPassedOver
<1>1. \A s \in Committed : s \in Seqs
  BY KnownIs
<1>2. NoSkippedEvent
  BY <1>1 DEF NoSkippedEvent, PassedOK, Covers, Asked, Received, Elements
<1>3. NothingPassedOver
  BY <1>1 DEF NothingPassedOver, PassedOK, Covers, Asked, Delivered, Received, Elements, Connected
<1> QED BY <1>2, <1>3

\* When transactions commit in the order of their numbers, a client that
\* reconnects with its Last-Event-ID has lost nothing up to it.
THEOREM ReconnectingLosesNothing ==
  ASSUME OrderedCommits
  PROVE  Spec => []NoSkippedEvent
<1>1. OrderInv /\ GapInv => NoSkippedEvent
  BY PassedGives DEF OrderInv, GapInv
<1> QED BY <1>1, GapsHold, PTL

\* Nor has a stream that is open passed over an event that it did not write.
THEOREM StreamPassesNothingOver ==
  ASSUME OrderedCommits
  PROVE  Spec => []NothingPassedOver
<1>1. OrderInv /\ GapInv => NothingPassedOver
  BY PassedGives DEF OrderInv, GapInv
<1> QED BY <1>1, GapsHold, PTL
=============================================================================
