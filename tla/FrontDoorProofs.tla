--------------------------- MODULE FrontDoorProofs ---------------------------
(***************************************************************************)
(* Proofs about FrontDoor for any number of threads, requests, calls,      *)
(* chunks and connections.                                                 *)
(***************************************************************************)
EXTENDS FrontDoor, FiniteSetTheorems, FunctionTheorems, WellFoundedInduction,
        NaturalsInduction, TLAPS

-----------------------------------------------------------------------------
(* What retain leaves of the registry.                                     *)

\* The positions kept, in their order, are numbered without a gap.
LEMMA RankBijective ==
  ASSUME NEW n \in Nat, NEW K \in SUBSET (1..n)
  PROVE  /\ IsFiniteSet(K) /\ Cardinality(K) \in Nat
         /\ \A k \in K : Rank(K, k) \in 1..Cardinality(K)
         /\ \A j, k \in K : j < k => Rank(K, j) < Rank(K, k)
         /\ \A i \in 1..Cardinality(K) : \E k \in K : Rank(K, k) = i
<1> DEFINE below(k) == {j \in K : j <= k}
<1> DEFINE f == [k \in K |-> Rank(K, k)]
<1>0. \A k \in K : k \in Nat
  OBVIOUS
<1>1. IsFiniteSet(K) /\ Cardinality(K) \in Nat
  <2>1. IsFiniteSet(1..n)
    BY FS_Interval
  <2> QED
    BY <2>1, FS_Subset, FS_CardinalityType
<1>2. ASSUME NEW k \in K
      PROVE  /\ IsFiniteSet(below(k)) /\ Cardinality(below(k)) \in Nat
             /\ Cardinality(below(k)) <= Cardinality(K)
  <2>1. below(k) \in SUBSET K
    OBVIOUS
  <2> QED
    BY <1>1, <2>1, FS_Subset, FS_CardinalityType
<1>3. ASSUME NEW k \in K PROVE Rank(K, k) \in 1..Cardinality(K)
  <2>1. k \in below(k)
    OBVIOUS
  <2>2. Cardinality(below(k)) # 0
    BY <1>2, <2>1, FS_EmptySet
  <2> QED
    BY <1>1, <1>2, <2>2 DEF Rank
<1>4. ASSUME NEW j \in K, NEW k \in K, j < k PROVE Rank(K, j) < Rank(K, k)
  <2>1. below(j) \in SUBSET below(k)
    <3>1. ASSUME NEW i \in K, i <= j PROVE i <= k
      BY <1>0, <1>4, <3>1
    <3> QED
      BY <3>1
  <2>2. k \in below(k) /\ k \notin below(j)
    BY <1>4
  <2>3. Cardinality(below(j)) <= Cardinality(below(k))
    BY <1>2, <2>1, FS_Subset
  <2>4. Cardinality(below(j)) # Cardinality(below(k))
    BY <1>2, <2>1, <2>2, FS_Subset
  <2> QED
    BY <1>2, <2>3, <2>4 DEF Rank
<1>5. \A i \in 1..Cardinality(K) : \E k \in K : Rank(K, k) = i
  <2>1. f \in [K -> 1..Cardinality(K)]
    BY <1>3
  <2>2. ASSUME NEW j \in K, NEW k \in K, f[j] = f[k] PROVE j = k
    <3>1. j \in Nat /\ k \in Nat
      OBVIOUS
    <3>2. Rank(K, j) = Rank(K, k)
      BY <2>2
    <3>3. Rank(K, j) \in Nat /\ Rank(K, k) \in Nat
      BY <1>1, <1>3
    <3> QED
      BY <1>4, <3>1, <3>2, <3>3
  <2>3. f \in Injection(K, 1..Cardinality(K))
    BY <2>1, <2>2, Fun_IsInj
  <2>4. IsFiniteSet(1..Cardinality(K)) /\ Cardinality(1..Cardinality(K)) = Cardinality(K)
    BY <1>1, FS_Interval
  <2>5. f \in Surjection(K, 1..Cardinality(K))
    BY <2>3, <2>4, FS_Injection
  <2> QED
    BY <2>5 DEF Surjection
<1> QED
  BY <1>1, <1>3, <1>4, <1>5

\* Every place of the result has a kept position, and the other way round.
LEMMA KeptAll ==
  ASSUME NEW n \in Nat, NEW K \in SUBSET (1..n)
  PROVE  /\ \A i \in 1..Cardinality(K) : Kept(K, i) \in K
         /\ \A k \in K : \E i \in 1..Cardinality(K) : Kept(K, i) = k
<1>0. Cardinality(K) \in Nat
  BY RankBijective
<1>1. ASSUME NEW j \in K, NEW k \in K
      PROVE  /\ Rank(K, j) \in 1..Cardinality(K)
             /\ Rank(K, j) = Rank(K, k) => j = k
  <2>1. j \in Nat /\ k \in Nat
    OBVIOUS
  <2>2. Rank(K, j) \in 1..Cardinality(K) /\ Rank(K, k) \in 1..Cardinality(K)
    BY RankBijective
  <2>3. /\ j < k => Rank(K, j) < Rank(K, k)
        /\ k < j => Rank(K, k) < Rank(K, j)
    BY RankBijective
  <2> QED
    BY <1>0, <2>1, <2>2, <2>3
<1>2. ASSUME NEW i \in 1..Cardinality(K)
      PROVE  Kept(K, i) \in K /\ Rank(K, Kept(K, i)) = i
  BY RankBijective DEF Kept
<1>3. ASSUME NEW k \in K PROVE \E i \in 1..Cardinality(K) : Kept(K, i) = k
  <2>1. PICK i \in 1..Cardinality(K) : i = Rank(K, k)
    BY <1>1
  <2>2. Kept(K, i) \in K /\ Rank(K, Kept(K, i)) = Rank(K, k)
    BY <1>2, <2>1
  <2>3. Kept(K, i) = k
    BY <1>1, <2>2
  <2> QED
    BY <2>3
<1> QED
  BY <1>2, <1>3

\* Retain keeps the elements at the positions given, and no others.
LEMMA RetainKeeps ==
  ASSUME NEW S, NEW s \in Seq(S), NEW K \in SUBSET DOMAIN s
  PROVE  Retain(s, K) \in Seq(S) /\ Elements(Retain(s, K)) = {s[k] : k \in K}
<1>1. DOMAIN s = 1..Len(s) /\ Len(s) \in Nat
  OBVIOUS
<1>2. K \in SUBSET (1..Len(s))
  BY <1>1
<1>3. Cardinality(K) \in Nat /\ \A i \in 1..Cardinality(K) : Kept(K, i) \in K
  BY <1>1, <1>2, KeptAll, RankBijective
<1>4. \A k \in K : s[k] \in S
  BY <1>1
<1>5. Retain(s, K) \in Seq(S)
  BY <1>3, <1>4 DEF Retain
<1>6. DOMAIN Retain(s, K) = 1..Cardinality(K)
  BY DEF Retain
<1>7. \A i \in 1..Cardinality(K) : Retain(s, K)[i] = s[Kept(K, i)]
  BY DEF Retain
<1>8. Elements(Retain(s, K)) = {s[k] : k \in K}
  <2>1. ASSUME NEW x \in Elements(Retain(s, K)) PROVE x \in {s[k] : k \in K}
    BY <1>3, <1>6, <1>7, <2>1 DEF Elements
  <2>2. ASSUME NEW k \in K PROVE s[k] \in Elements(Retain(s, K))
    <3>1. PICK i \in 1..Cardinality(K) : Kept(K, i) = k
      BY <1>1, <1>2, KeptAll
    <3> QED
      BY <1>6, <1>7, <3>1 DEF Elements
  <2> QED
    BY <2>1, <2>2
<1> QED
  BY <1>5, <1>8

\* In particular, dropping every occurrence of one element.
LEMMA RetainOthers ==
  ASSUME NEW S, NEW s \in Seq(S), NEW x
  PROVE  LET rest == Retain(s, {k \in DOMAIN s : s[k] # x})
         IN  rest \in Seq(S) /\ Elements(rest) = Elements(s) \ {x}
<1> DEFINE K == {k \in DOMAIN s : s[k] # x}
<1>1. K \in SUBSET DOMAIN s
  OBVIOUS
<1>2. {s[k] : k \in K} = Elements(s) \ {x}
  BY DEF Elements
<1> HIDE DEF K
<1>3. Retain(s, K) \in Seq(S) /\ Elements(Retain(s, K)) = {s[k] : k \in K}
  BY <1>1, RetainKeeps
<1> QED
  BY <1>2, <1>3 DEF K

LEMMA ElementsEmpty == Elements(<<>>) = {}
BY DEF Elements

LEMMA ElementsAppend ==
  ASSUME NEW S, NEW s \in Seq(S), NEW x \in S
  PROVE  Elements(Append(s, x)) = Elements(s) \cup {x}
<1>1. DOMAIN Append(s, x) = DOMAIN s \cup {Len(s) + 1}
  OBVIOUS
<1>2. \A k \in DOMAIN s : Append(s, x)[k] = s[k]
  OBVIOUS
<1>3. Append(s, x)[Len(s) + 1] = x
  OBVIOUS
<1> QED
  BY <1>1, <1>2, <1>3 DEF Elements

-----------------------------------------------------------------------------
(* Registry::pick().                                                       *)

\* Every nonempty set of numbers has a least element.
LEMMA LeastNat ==
  ASSUME NEW T \in SUBSET Nat, T # {}
  PROVE  \E m \in T : \A y \in T : m <= y
<1> DEFINE R == OpToRel(<, Nat)
<1>1. R = {p \in Nat \X Nat : p[1] < p[2]}
  BY Zenon DEF OpToRel
<1>2. IsWellFoundedOn(R, Nat)
  BY NatLessThanWellFounded
<1>3. PICK m \in T : \A y \in T : ~(<<y, m>> \in R)
  BY <1>2, WFMin
<1> HIDE DEF R
<1>4. ASSUME NEW y \in T PROVE m <= y
  <2>1. ~(<<y, m>> \in {p \in Nat \X Nat : p[1] < p[2]})
    BY <1>1, <1>3
  <2> QED
    BY <2>1
<1> QED
  BY <1>4

LEMMA ModOfMultiple ==
  ASSUME NEW n \in Nat, n # 0, NEW q \in Nat, NEW i \in 0..(n - 1)
  PROVE  (n * q + i) % n = i
OBVIOUS

\* From any start the ring passes every place.
LEMMA RingReachesAll ==
  ASSUME NEW n \in Nat, n # 0, NEW a \in Nat, NEW i \in 0..(n - 1)
  PROVE  \E k \in 0..(n - 1) : (a + k) % n = i
<1> DEFINE d == a % n
<1> DEFINE q == a \div n
<1>1. a = n * q + d /\ d \in 0..(n - 1) /\ q \in Nat
  OBVIOUS
<1> HIDE DEF d, q
<1>2. CASE i >= d
  <2>1. a + (i - d) = n * q + i
    BY <1>1
  <2>2. (n * q + i) % n = i
    BY <1>1, ModOfMultiple
  <2>3. i - d \in 0..(n - 1)
    BY <1>1, <1>2
  <2> QED
    BY <2>1, <2>2, <2>3
<1>3. CASE i < d
  <2>1. a + (n + i - d) = n * (q + 1) + i
    BY <1>1
  <2>2. (n * (q + 1) + i) % n = i
    BY <1>1, ModOfMultiple
  <2>3. n + i - d \in 0..(n - 1)
    BY <1>1, <1>3
  <2> QED
    BY <2>1, <2>2, <2>3
<1> QED
  BY <1>1, <1>2, <1>3

LEMMA PendingIsNat == \A r : pending_requests(r) \in Nat
<1> TAKE r
<1>1. IsFiniteSet(Requests)
  BY FrontDoorAssumption, FS_Interval DEF Requests
<1>2. {q \in Requests : to[q] = r /\ answers[q] # "none"} \in SUBSET Requests
  OBVIOUS
<1> QED
  BY <1>1, <1>2, FS_Subset, FS_CardinalityType DEF pending_requests

\* Registry::pick() returns a thread of the registry, and none of them owes
\* fewer answers: wherever `next` stands, the ring passes all of them.
THEOREM PickIsLeastLoaded ==
  ASSUME registry \in Seq(Reactors), registry # <<>>, next \in Nat
  PROVE  /\ pick \in Elements(registry)
         /\ \A r \in Elements(registry) : pending_requests(pick) <= pending_requests(r)
<1> DEFINE n == Len(registry)
<1> DEFINE place(k) == ((next + k - 1) % n) + 1
<1> DEFINE ring == [k \in 1..n |-> registry[place(k)]]
<1> DEFINE load(k) == pending_requests(ring[k])
<1> DEFINE first(k) == /\ \A j \in 1..n : load(k) <= load(j)
                       /\ \A j \in 1..(k - 1) : load(k) < load(j)
<1>1. n \in Nat /\ n # 0
  OBVIOUS
<1>2. \A k \in 1..n : place(k) \in 1..n
  BY <1>1
<1>3. \A k \in 1..n : ring[k] \in Elements(registry)
  BY <1>2 DEF Elements
<1>4. \A r \in Elements(registry) : \E k \in 1..n : ring[k] = r
  <2> TAKE r \in Elements(registry)
  <2>1. PICK i \in 1..n : registry[i] = r
    BY DEF Elements
  <2>2. PICK j \in 0..(n - 1) : (next + j) % n = i - 1
    <3>1. i - 1 \in 0..(n - 1)
      BY <1>1
    <3> HIDE DEF n
    <3> QED
      BY <1>1, <3>1, RingReachesAll
  <2>3. place(j + 1) = i
    <3>1. next + (j + 1) - 1 = next + j
      OBVIOUS
    <3> QED
      BY <1>1, <2>2, <3>1
  <2> QED
    BY <1>1, <2>1, <2>3
<1>5. \A k \in 1..n : load(k) \in Nat
  BY PendingIsNat
<1>6. \E k \in 1..n : first(k)
  <2> DEFINE L == {load(k) : k \in 1..n}
  <2>1. L \in SUBSET Nat /\ L # {}
    BY <1>1, <1>5
  <2>2. PICK m \in L : \A y \in L : m <= y
    BY <2>1, LeastNat
  <2> DEFINE K == {k \in 1..n : load(k) = m}
  <2>3. K \in SUBSET Nat /\ K # {}
    BY <2>2
  <2>4. PICK k \in K : \A j \in K : k <= j
    BY <2>3, LeastNat
  <2>5. \A j \in 1..n : load(k) <= load(j)
    BY <2>2, <2>4
  <2>6. ASSUME NEW j \in 1..(k - 1) PROVE load(k) < load(j)
    <3>0. k \in 1..n /\ n \in Nat /\ j \in Nat /\ j < k
      BY <1>1
    <3>1. j \in 1..n /\ j \notin K
      <4>1. j \in 1..n
        BY <3>0
      <4>2. ~(k <= j)
        BY <3>0
      <4> QED
        BY <2>4, <4>1, <4>2, Zenon
    <3>2. load(j) # load(k) /\ load(k) <= load(j)
      BY <2>4, <2>5, <3>1
    <3> QED
      BY <1>5, <3>1, <3>2
  <2> QED
    BY <2>4, <2>5, <2>6
<1> DEFINE c == CHOOSE k \in 1..n : first(k)
<1>7. c \in 1..n /\ first(c)
  BY <1>6
<1>8. pick = ring[c]
  BY DEF pick
<1> HIDE DEF c
<1> QED
  BY <1>3, <1>4, <1>7, <1>8

-----------------------------------------------------------------------------
(* Types.                                                                  *)

LEMMA UnlistedIs ==
  ASSUME registry \in Seq(Reactors), NEW r
  PROVE  Unlisted(r) \in Seq(Reactors) /\ Elements(Unlisted(r)) = Elements(registry) \ {r}
BY RetainOthers DEF Unlisted

LEMMA PickIsReactor ==
  ASSUME TypeOK, registry # <<>>
  PROVE  pick \in Reactors /\ pick \in Elements(registry)
<1>1. registry \in Seq(Reactors) /\ next \in Nat
  BY DEF TypeOK
<1>2. pick \in Elements(registry)
  BY <1>1, PickIsLeastLoaded
<1>3. Elements(registry) \subseteq Reactors
  BY <1>1 DEF Elements
<1> QED
  BY <1>2, <1>3

LEMMA InitTypeOK == Init => TypeOK
<1> SUFFICES ASSUME Init PROVE TypeOK
  OBVIOUS
<1>1. /\ failure \in [Requests -> BOOLEAN] /\ sending \in [Requests -> BOOLEAN]
      /\ stop \in BOOLEAN /\ timedOut \in BOOLEAN
  BY DEF Init
<1> QED
  BY <1>1, FrontDoorAssumption DEF Init, TypeOK

LEMMA BooleanSet ==
  ASSUME NEW f \in [Requests -> BOOLEAN], NEW q \in Requests, NEW b \in BOOLEAN
  PROVE  Set(f, q, b) \in [Requests -> BOOLEAN]
BY DEF Set

\* The ends of the channels a task drops keep their types.
LEMMA DroppedTypes ==
  ASSUME TypeOK, NEW q \in Requests, Dropped(q)
  PROVE  /\ reply' \in [Requests -> {"open", "full", "head", "dropped"}]
         /\ frames' \in [Requests -> 0..StreamChunks]
         /\ failure' \in [Requests -> BOOLEAN] /\ sending' \in [Requests -> BOOLEAN]
<1>1. failure' \in [Requests -> BOOLEAN]
  <2>1. failure' = Set(failure, q, FALSE) /\ failure \in [Requests -> BOOLEAN]
    BY Dropped(q) DEF Dropped, TypeOK
  <2> QED
    BY <2>1, BooleanSet
<1>2. sending' \in [Requests -> BOOLEAN]
  BY Dropped(q) DEF Dropped, TypeOK
<1>3. frames' \in [Requests -> 0..StreamChunks]
  BY FrontDoorAssumption, Dropped(q) DEF Dropped, TypeOK, Set
<1>4. reply' \in [Requests -> {"open", "full", "head", "dropped"}]
  BY Dropped(q) DEF Dropped, TypeOK, Set
<1> QED
  BY <1>1, <1>2, <1>3, <1>4

\* A body's channel takes one more only where there is room.
LEMMA RoomTypes ==
  ASSUME TypeOK, NEW q \in Requests, frames[q] < StreamChunks
  PROVE  Set(frames, q, frames[q] + 1) \in [Requests -> 0..StreamChunks]
<1>1. frames \in [Requests -> 0..StreamChunks] /\ StreamChunks \in Nat
  BY FrontDoorAssumption DEF TypeOK
<1>2. frames[q] + 1 \in 0..StreamChunks
  BY <1>1
<1> QED
  BY <1>1, <1>2 DEF Set

LEMMA HyperTypeOK ==
  ASSUME TypeOK, NEW q \in Requests, Hyper(q)
  PROVE  TypeOK'
<1> USE FrontDoorAssumption DEF TypeOK, Set, dispatch, client, channels, listener, fromPhp
<1>1. CASE Deliver(q)
  BY <1>1 DEF Deliver, deliver
<1>2. CASE TakeReply(q)
  BY <1>2, DroppedTypes DEF TakeReply, Over
<1>3. CASE PollFrame(q)
  BY <1>3 DEF PollFrame
<1>4. CASE PollEnd(q)
  BY <1>4, DroppedTypes DEF PollEnd, Over
<1>5. CASE ChunkSent(q)
  <2>1. sending' \in [Requests -> BOOLEAN]
    BY <1>5, BooleanSet DEF ChunkSent
  <2>2. frames' \in [Requests -> 0..StreamChunks]
    <3>1. \/ frames' = frames
          \/ frames[q] < StreamChunks /\ frames' = Set(frames, q, frames[q] + 1)
      BY <1>5 DEF ChunkSent
    <3> QED
      BY <3>1, RoomTypes, Zenon
  <2> QED
    BY <1>5, <2>1, <2>2 DEF ChunkSent
<1>6. CASE GuardDrops(q)
  BY <1>6 DEF GuardDrops, cancel_request
<1> QED
  BY <1>1, <1>2, <1>3, <1>4, <1>5, <1>6, Hyper(q) DEF Hyper

LEMMA HandlerTypeOK ==
  ASSUME TypeOK, NEW q \in Requests, Handler(q)
  PROVE  TypeOK'
<1> USE FrontDoorAssumption DEF TypeOK, Set, dispatch, client, channels, listener, fromPhp
<1>1. CASE Receive(q)
  BY <1>1 DEF Receive
<1>2. CASE respond(q)
  BY <1>2, ZenonT(40) DEF respond, stream_end
<1>3. CASE RespondRefused(q)
  BY <1>3 DEF RespondRefused, take_answer
<1>4. CASE respond_start(q)
  BY <1>4 DEF respond_start
<1>5. CASE send_chunk(q)
  <2>1. frames' \in [Requests -> 0..StreamChunks]
    <3>1. \/ frames' = frames
          \/ frames[q] < StreamChunks /\ frames' = Set(frames, q, frames[q] + 1)
      BY <1>5 DEF send_chunk
    <3> QED
      BY <3>1, RoomTypes, Zenon
  <2>2. sending' \in [Requests -> BOOLEAN]
    BY <1>5, BooleanSet DEF send_chunk
  <2> QED
    BY <1>5, <2>1, <2>2 DEF send_chunk
<1>6. CASE respond_end(q)
  BY <1>6 DEF respond_end
<1>7. CASE ignis_grpc_end(q)
  <2>1. PICK ok \in BOOLEAN : stream_end(q, ok)
    BY <1>7 DEF ignis_grpc_end
  <2>2. failure' \in [Requests -> BOOLEAN]
    <3>1. (~ok /\ Listening(q)) \in BOOLEAN
      BY DEF Listening
    <3> QED
      BY <2>1, <3>1, BooleanSet DEF stream_end
  <2> QED
    BY <1>7, <2>1, <2>2 DEF ignis_grpc_end, stream_end
<1>8. CASE Return(q)
  BY <1>8 DEF Return
<1>9. CASE TailInterrupted(q)
  BY <1>9 DEF TailInterrupted
<1> QED
  BY <1>1, <1>2, <1>3, <1>4, <1>5, <1>6, <1>7, <1>8, <1>9, Handler(q) DEF Handler

LEMMA ClientTypeOK ==
  ASSUME TypeOK, NEW q \in Requests, Client(q)
  PROVE  TypeOK'
<1> USE FrontDoorAssumption DEF TypeOK, Set, dispatch, client, channels, listener
<1>1. CASE Serve(q)
  <2>1. to' \in [Requests -> Reactors \cup {0}] /\ next' \in Nat
    <3>1. CASE registry = <<>>
      BY <1>1, <3>1 DEF Serve
    <3>2. CASE registry # <<>>
      <4>1. pick \in Reactors
        BY <3>2, PickIsReactor
      <4> QED
        <5>1. to' = [to EXCEPT ![q] = pick] /\ next' = next + 1
          BY <1>1, <3>2 DEF Serve
        <5>2. to \in [Requests -> Reactors \cup {0}] /\ next \in Nat
          OBVIOUS
        <5> HIDE DEF TypeOK
        <5> QED
          BY <4>1, <5>1, <5>2
    <3> QED
      BY <3>1, <3>2
  <2> QED
    BY <1>1, <2>1 DEF Serve
<1>2. CASE BodyRefused(q)
  BY <1>2, DroppedTypes DEF BodyRefused, Over
<1>3. CASE ClientLeaves(q)
  <2>1. /\ answers' \in [Requests -> {"none", "Whole", "Streaming", "Grpc"}]
        /\ cancelled' \subseteq Requests
    <3>1. \/ UNCHANGED <<answers, cancelled>>
          \/ cancel_request(q)
      BY <1>3 DEF ClientLeaves
    <3> QED
      BY <3>1 DEF cancel_request
  <2>2. /\ conn' \in [Requests -> {"unsent", "reading", "awaiting", "body", "dropping", "over"}]
        /\ got' \in [Requests -> {"nothing", "answer", "left"}]
    BY <1>3 DEF ClientLeaves
  <2>3. Dropped(q)
    BY <1>3 DEF ClientLeaves
  <2> QED
    BY <1>3, <2>1, <2>2, <2>3, DroppedTypes DEF ClientLeaves
<1> QED
  BY <1>1, <1>2, <1>3, Client(q) DEF Client

LEMMA ThreadTypeOK ==
  ASSUME TypeOK, NEW r \in Reactors, Thread(r)
  PROVE  TypeOK'
<1> USE DEF TypeOK, Set, dispatch, client, channels, listener, threadsKeep
<1>1. CASE start(r)
  BY <1>1 DEF start
<1>2. CASE leave_dispatch(r)
  BY <1>2, UnlistedIs DEF leave_dispatch
<1>3. CASE ScriptEnds(r)
  BY <1>3 DEF ScriptEnds
<1>4. CASE Dies(r)
  BY <1>4 DEF Dies
<1>5. CASE unregister(r)
  BY <1>5, UnlistedIs DEF unregister
<1>6. CASE fail_pending(r)
  BY <1>6 DEF fail_pending
<1> QED
  BY <1>1, <1>2, <1>3, <1>4, <1>5, <1>6, Thread(r) DEF Thread

LEMMA ListenerTypeOK ==
  ASSUME TypeOK, Listener
  PROVE  TypeOK'
<1> USE FrontDoorAssumption DEF TypeOK, dispatch, client, channels, listener, drainKeeps
<1>1. CASE AcceptCheck
  BY <1>1 DEF AcceptCheck, ListenerStop
<1>2. CASE AcceptSubscribe
  BY <1>2 DEF AcceptSubscribe
<1>3. CASE Accept
  BY <1>3 DEF Accept, Permits
<1>4. CASE ConnectionCloses
  BY <1>4 DEF ConnectionCloses
<1>5. CASE DrainStops
  BY <1>5 DEF DrainStops
<1>6. CASE DrainNotifies
  BY <1>6 DEF DrainNotifies
<1>7. CASE DrainCounts
  BY <1>7 DEF DrainCounts
<1>8. CASE DrainTimesOut
  BY <1>8 DEF DrainTimesOut
<1> QED
  BY <1>1, <1>2, <1>3, <1>4, <1>5, <1>6, <1>7, <1>8, Listener DEF Listener

LEMMA NextTypeOK == TypeOK /\ [Next]_vars => TypeOK'
<1> SUFFICES ASSUME TypeOK, [Next]_vars PROVE TypeOK'
  OBVIOUS
<1>1. CASE UNCHANGED vars
  BY <1>1 DEF TypeOK, vars, dispatch, client, channels, listener
<1> QED
  BY <1>1, HyperTypeOK, HandlerTypeOK, ClientTypeOK, ThreadTypeOK, ListenerTypeOK DEF Next

\* Every variable of FrontDoor keeps its type: a request is always handed to
\* a thread, a body's channel never holds more than its capacity, and the
\* permits never run below zero.
THEOREM TypeCorrect == Spec => []TypeOK
BY InitTypeOK, NextTypeOK, PTL DEF Spec

-----------------------------------------------------------------------------
(* The inductive invariant.                                                *)

\* Only a thread that serves, or one that died and is not unregistered yet,
\* is in the registry.
ListedInv == \A r \in Elements(registry) : thread[r] \in {"serving", "ended"}

\* A request before its delivery has no trace on the PHP side.
Fresh(q) ==
  conn[q] \in {"unsent", "reading"} =>
    /\ php[q] = "none" /\ answers[q] = "none" /\ reply[q] = "open" /\ ~failure[q]
    /\ q \notin finished

\* Until it is over a request belongs to a thread that was started.
Placed(q) ==
  conn[q] \in {"reading", "awaiting", "body", "dropping"} \/ php[q] # "none" =>
    to[q] \in Reactors /\ thread[to[q]] # "absent"

\* The entry of the answers map, the oneshot and the connection go together;
\* an entry outlives the receiver only until the guard is dropped.
Paired(q) ==
  /\ answers[q] = "Whole" =>
       conn[q] = "dropping" \/ (conn[q] = "awaiting" /\ reply[q] = "open")
  /\ answers[q] = "Streaming" => conn[q] = "dropping" \/ (Listening(q) /\ reply[q] = "head")
  /\ answers[q] = "Grpc" => conn[q] = "body" /\ q \in Grpc
  /\ conn[q] = "awaiting" /\ reply[q] = "open" => answers[q] = "Whole"

\* An entry is owed by a handler that has not returned, or left it owed, on a
\* thread that is not gone unless it was gone at delivery; it is neither
\* finished nor failed.
Owed(q) ==
  answers[q] # "none" =>
    /\ php[q] \in {"queued", "running", "interrupted", "unanswered"}
    /\ ~failure[q] /\ q \notin finished
    /\ thread[to[q]] = "gone" => q \in orphans

\* Whoever waits without an entry was answered or has lost its thread.
Settled(q) ==
  Listening(q) /\ answers[q] = "none" => q \in finished \/ thread[to[q]] = "gone"

\* A leave is over once the guard has found the entry, or nothing because
\* the answer is complete, began to stream in between, or lost its thread.
Told(q) ==
  /\ q \in cancelled => conn[q] = "over" /\ q \notin finished
  /\ conn[q] = "dropping" /\ answers[q] = "none" =>
       q \in finished \cup unheard \/ thread[to[q]] = "gone"
  /\ got[q] = "left" =>
       /\ conn[q] \in {"dropping", "over"}
       /\ conn[q] = "over" /\ php[q] \in {"queued", "running"} =>
            q \in cancelled \cup finished \cup unheard \/ thread[to[q]] = "gone"

Life(q) == Fresh(q) /\ Placed(q) /\ Paired(q) /\ Owed(q) /\ Settled(q) /\ Told(q)

LifeInv == ListedInv /\ \A q \in Requests : Life(q)

\* A step that leaves request p alone.
Same(p) ==
  /\ conn'[p] = conn[p] /\ to'[p] = to[p] /\ got'[p] = got[p] /\ php'[p] = php[p]
  /\ answers'[p] = answers[p] /\ reply'[p] = reply[p] /\ failure'[p] = failure[p]
  /\ (p \in cancelled') <=> (p \in cancelled)
  /\ (p \in finished') <=> (p \in finished)
  /\ (p \in unheard') <=> (p \in unheard)
  /\ (p \in orphans') <=> (p \in orphans)

\* What one request does is of no consequence to another.
LEMMA OthersKeep ==
  ASSUME LifeInv, NEW q \in Requests, UNCHANGED <<thread, registry>>,
         \A p \in Requests \ {q} : Same(p),
         Life(q)'
  PROVE  LifeInv'
<1>1. ListedInv'
  BY DEF LifeInv, ListedInv
<1>2. ASSUME NEW p \in Requests, p # q PROVE Life(p)'
  BY <1>2 DEF LifeInv, Life, Same, Fresh, Placed, Paired, Owed, Settled, Told, Listening
<1> QED
  BY <1>1, <1>2 DEF LifeInv

\* ... and none touches the threads, the registry, or another request.
LEMMA RequestIsLocal ==
  ASSUME TypeOK, NEW q \in Requests, Hyper(q) \/ Handler(q) \/ Client(q)
  PROVE  UNCHANGED <<thread, registry>> /\ \A p \in Requests \ {q} : Same(p)
<1> USE DEF TypeOK, Set, dispatch, client, channels, listener, fromPhp, Same
<1>1. CASE Deliver(q)
  BY <1>1 DEF Deliver, deliver
<1>2. CASE TakeReply(q)
  BY <1>2 DEF TakeReply, Over, Dropped
<1>3. CASE PollFrame(q)
  BY <1>3 DEF PollFrame
<1>4. CASE PollEnd(q)
  BY <1>4 DEF PollEnd, Over, Dropped
<1>5. CASE ChunkSent(q)
  BY <1>5 DEF ChunkSent
<1>6. CASE Receive(q)
  BY <1>6 DEF Receive
<1>7. CASE respond(q)
  BY <1>7 DEF respond, stream_end
<1>8. CASE RespondRefused(q)
  BY <1>8 DEF RespondRefused, take_answer
<1>9. CASE respond_start(q)
  BY <1>9 DEF respond_start
<1>10. CASE send_chunk(q)
  BY <1>10 DEF send_chunk
<1>11. CASE respond_end(q)
  BY <1>11 DEF respond_end
<1>12. CASE ignis_grpc_end(q)
  BY <1>12 DEF ignis_grpc_end, stream_end
<1>13. CASE Return(q)
  BY <1>13 DEF Return
<1>14. CASE TailInterrupted(q)
  BY <1>14 DEF TailInterrupted
<1>15. CASE Serve(q)
  BY <1>15 DEF Serve
<1>16. CASE BodyRefused(q)
  BY <1>16 DEF BodyRefused, Over, Dropped
<1>17. CASE ClientLeaves(q)
  BY <1>17 DEF ClientLeaves, cancel_request, Dropped
<1>18. CASE GuardDrops(q)
  BY <1>18 DEF GuardDrops, cancel_request
<1> QED
  BY <1>1, <1>2, <1>3, <1>4, <1>5, <1>6, <1>7, <1>8, <1>9, <1>10,
     <1>11, <1>12, <1>13, <1>14, <1>15, <1>16, <1>17, <1>18
     DEF Hyper, Handler, Client

LEMMA RequestLife ==
  ASSUME TypeOK, LifeInv, NEW q \in Requests, Hyper(q) \/ Handler(q) \/ Client(q)
  PROVE  LifeInv'
<1> USE DEF TypeOK, Set, dispatch, client, channels, listener, fromPhp
<1> USE DEF Life, Fresh, Placed, Paired, Owed, Settled, Told, Listening
<1>0. Life(q)
  BY DEF LifeInv
<1>1. ASSUME Deliver(q) PROVE Life(q)'
  BY <1>0, <1>1 DEF Deliver, deliver
<1>2. ASSUME TakeReply(q) PROVE Life(q)'
  BY <1>0, <1>2 DEF TakeReply, Over, Dropped
<1>3. ASSUME PollFrame(q) PROVE Life(q)'
  BY <1>0, <1>3 DEF PollFrame
<1>4. ASSUME PollEnd(q) PROVE Life(q)'
  BY <1>0, <1>4 DEF PollEnd, Over, Dropped, SenderGone
<1>5. ASSUME ChunkSent(q) PROVE Life(q)'
  BY <1>0, <1>5 DEF ChunkSent
<1>6. ASSUME Receive(q) PROVE Life(q)'
  BY <1>0, <1>6 DEF Receive
<1>7. ASSUME respond(q) PROVE Life(q)'
  BY <1>0, <1>7 DEF respond, stream_end, Running
<1>8. ASSUME RespondRefused(q) PROVE Life(q)'
  BY <1>0, <1>8 DEF RespondRefused, take_answer, Running
<1>9. ASSUME respond_start(q) PROVE Life(q)'
  BY <1>0, <1>9 DEF respond_start, Running
<1>10. ASSUME send_chunk(q) PROVE Life(q)'
  BY <1>0, <1>10 DEF send_chunk, Running
<1>11. ASSUME respond_end(q) PROVE Life(q)'
  BY <1>0, <1>11 DEF respond_end, Running
<1>12. ASSUME ignis_grpc_end(q) PROVE Life(q)'
  BY <1>0, <1>12 DEF ignis_grpc_end, stream_end, Running
<1>13. ASSUME Return(q) PROVE Life(q)'
  BY <1>0, <1>13 DEF Return
<1>14. ASSUME TailInterrupted(q) PROVE Life(q)'
  BY <1>0, <1>14 DEF TailInterrupted
<1>15. ASSUME Serve(q) PROVE Life(q)'
  <2>1. CASE registry = <<>>
    BY <1>0, <1>15, <2>1 DEF Serve
  <2>2. CASE registry # <<>>
    <3>1. pick \in Reactors /\ thread[pick] # "absent"
      BY <2>2, PickIsReactor DEF LifeInv, ListedInv
    <3> QED
      BY <1>0, <1>15, <2>2, <3>1 DEF Serve
  <2> QED
    BY <2>1, <2>2
<1>16. ASSUME BodyRefused(q) PROVE Life(q)'
  BY <1>0, <1>16 DEF BodyRefused, Over, Dropped
<1>17. ASSUME ClientLeaves(q) PROVE Life(q)'
  <2>1. CASE ~GuardArmed(q)
    BY <1>0, <1>17, <2>1 DEF ClientLeaves, Dropped, GuardArmed
  <2>2. CASE GuardArmed(q) /\ q \in Grpc
    BY <1>0, <1>17, <2>2 DEF ClientLeaves, cancel_request, Dropped, GuardArmed
  <2>3. CASE GuardArmed(q) /\ q \notin Grpc
    BY <1>0, <1>17, <2>3 DEF ClientLeaves, Dropped, GuardArmed
  <2> QED
    BY <2>1, <2>2, <2>3
<1>18. ASSUME GuardDrops(q) PROVE Life(q)'
  BY <1>0, <1>18 DEF GuardDrops, cancel_request
<1> HIDE DEF Life
<1>20. Life(q)'
  BY <1>1, <1>2, <1>3, <1>4, <1>5, <1>6, <1>7, <1>8, <1>9, <1>10,
     <1>11, <1>12, <1>13, <1>14, <1>15, <1>16, <1>17, <1>18
     DEF Hyper, Handler, Client
<1> QED
  BY <1>20, RequestIsLocal, OthersKeep

\* Threads come and go: a request notices only the end of its own.
LEMMA ThreadLife ==
  ASSUME TypeOK, LifeInv, NEW r \in Reactors, Thread(r)
  PROVE  LifeInv'
<1> USE DEF TypeOK, Set, dispatch, client, channels, listener, threadsKeep
<1>1. ASSUME NEW old \in SUBSET {"absent", "serving", "leaving", "ended"}, thread[r] \in old,
             NEW new \in {"serving", "leaving", "ended", "unlisted"},
             thread' = Set(thread, r, new),
             UNCHANGED <<threadsKeep, answers, channels>>
      PROVE  \A q \in Requests : Life(q)'
  BY <1>1, ZenonT(40) DEF LifeInv, Life, Fresh, Placed, Paired, Owed, Settled, Told, Listening
<1>2. CASE start(r)
  <2>1. \A q \in Requests : Life(q)'
    BY <1>1, <1>2 DEF start
  <2>2. Elements(registry') = Elements(registry) \cup {r}
    BY <1>2, ElementsAppend DEF start
  <2>3. Elements(registry) \subseteq Reactors
    BY DEF Elements
  <2>4. ListedInv'
    BY <1>2, <2>2, <2>3 DEF start, LifeInv, ListedInv
  <2> QED
    BY <2>1, <2>4 DEF LifeInv
<1>3. ASSUME registry' = Unlisted(r), NEW v, thread' = Set(thread, r, v) PROVE ListedInv'
  <2>1. Elements(registry') = Elements(registry) \ {r}
    BY <1>3, UnlistedIs
  <2>2. Elements(registry) \subseteq Reactors
    BY DEF Elements
  <2> QED
    BY <1>3, <2>1, <2>2 DEF LifeInv, ListedInv
<1>4. CASE leave_dispatch(r)
  <2>1. \A q \in Requests : Life(q)'
    BY <1>1, <1>4 DEF leave_dispatch
  <2> QED
    BY <1>3, <1>4, <2>1 DEF leave_dispatch, LifeInv
<1>5. CASE unregister(r)
  <2>1. \A q \in Requests : Life(q)'
    BY <1>1, <1>5 DEF unregister
  <2> QED
    BY <1>3, <1>5, <2>1 DEF unregister, LifeInv
<1>6. CASE ScriptEnds(r) \/ Dies(r)
  <2>1. \A q \in Requests : Life(q)'
    BY <1>1, <1>6 DEF ScriptEnds, Dies, Alive
  <2>2. Elements(registry) \subseteq Reactors
    BY DEF Elements
  <2>3. ListedInv'
    BY <1>6, <2>2 DEF ScriptEnds, Dies, LifeInv, ListedInv
  <2> QED
    BY <2>1, <2>3 DEF LifeInv
<1>7. CASE fail_pending(r)
  <2>1. ASSUME NEW q \in Requests PROVE Life(q)'
    <3>1. Life(q)
      BY DEF LifeInv
    <3> QED
      BY <1>7, <3>1 DEF fail_pending, Life, Fresh, Placed, Paired, Owed, Settled, Told, Listening
  <2>2. Elements(registry) \subseteq Reactors
    BY DEF Elements
  <2>3. ListedInv'
    BY <1>7, <2>2 DEF fail_pending, LifeInv, ListedInv
  <2> QED
    BY <2>1, <2>3 DEF LifeInv
<1> QED
  BY <1>2, <1>4, <1>5, <1>6, <1>7, Thread(r) DEF Thread

\* The listener and the drain touch no request and no thread.
LEMMA ListenerLife ==
  ASSUME LifeInv, Listener \/ UNCHANGED vars
  PROVE  LifeInv'
<1>1. UNCHANGED <<registry, thread, conn, to, got, answers, channels, php, cancelled,
                  finished, unheard, orphans>>
  BY DEF Listener, AcceptCheck, AcceptSubscribe, Accept, ConnectionCloses, DrainStops,
         DrainNotifies, DrainCounts, DrainTimesOut, drainKeeps, vars, dispatch, client
<1> QED
  BY <1>1 DEF LifeInv, ListedInv, Life, Fresh, Placed, Paired, Owed, Settled, Told, Listening,
              channels

LEMMA LifeCorrect == Spec => []LifeInv
<1>1. Init => LifeInv
  BY ElementsEmpty DEF Init, LifeInv, ListedInv, Life, Fresh, Placed, Paired, Owed, Settled,
         Told, Listening
<1>2. TypeOK /\ LifeInv /\ [Next]_vars => LifeInv'
  BY RequestLife, ThreadLife, ListenerLife DEF Next
<1> QED
  BY <1>1, <1>2, TypeCorrect, PTL DEF Spec

-----------------------------------------------------------------------------
(* What it gives the client.                                               *)

\* Once its connection is gone PHP owes nothing to a client that left, and has
\* been told of it unless it had completed the answer, lost its thread, or
\* begun to stream between the drops of the receiver and of the guard; it is
\* never told so of an answer it completed.
THEOREM LeaverAlwaysTold == Spec => []LeaverIsTold
<1>1. TypeOK /\ LifeInv => LeaverIsTold
  <2> SUFFICES ASSUME TypeOK, LifeInv PROVE LeaverIsTold
    OBVIOUS
  <2>1. ASSUME NEW q \in Requests, got[q] = "left", conn[q] # "dropping"
        PROVE  /\ answers[q] = "none"
               /\ php[q] \in {"queued", "running"} =>
                    q \in cancelled \cup finished \cup unheard \/ thread[to[q]] = "gone"
    BY <2>1 DEF TypeOK, LifeInv, Life, Paired, Told, Listening
  <2>2. cancelled \cap finished = {}
    BY DEF TypeOK, LifeInv, Life, Told
  <2> QED
    BY <2>1, <2>2 DEF LeaverIsTold
<1> QED
  BY <1>1, TypeCorrect, LifeCorrect, PTL

\* No call PHP makes on a request that streams cuts the body short: its last
\* sender goes only when PHP ended it or its thread is gone.
THEOREM OnlyDeathCuts == Spec => []CutOnlyByDeath
<1>1. TypeOK /\ LifeInv => CutOnlyByDeath
  BY DEF TypeOK, LifeInv, Life, Paired, Settled, Listening, CutOnlyByDeath, SenderGone
<1> QED
  BY <1>1, TypeCorrect, LifeCorrect, PTL

\* Whoever waits for an answer has something to read or somebody who will
\* write it; the exceptions are the three NeverStranded names.
THEOREM NobodyStranded == Spec => []NeverStranded
<1>1. TypeOK /\ LifeInv => NeverStranded
  <2> SUFFICES ASSUME TypeOK, LifeInv, NEW q \in Requests, Listening(q), q \notin orphans,
                      ~Abandoned(q), ~CanRead(q)
               PROVE  WillBeWritten(q)
    BY DEF NeverStranded
  <2>1. Life(q)
    BY DEF LifeInv
  <2>2. sending[q] \/ answers[q] # "none"
    BY <2>1 DEF TypeOK, Life, Paired, Listening, CanRead, SenderGone
  <2>3. to[q] \in Reactors /\ thread[to[q]] # "absent"
    BY <2>1 DEF Life, Placed, Listening
  <2> QED
    BY <2>1, <2>2, <2>3 DEF TypeOK, Life, Owed, WillBeWritten, Alive, Abandoned
<1> QED
  BY <1>1, TypeCorrect, LifeCorrect, PTL

-----------------------------------------------------------------------------
(* The drain.                                                              *)

LEMMA NothingPending ==
  ASSUME NEW r, pending_requests(r) = 0, NEW q \in Requests, to[q] = r
  PROVE  answers[q] = "none"
<1> DEFINE owed == {p \in Requests : to[p] = r /\ answers[p] # "none"}
<1>1. IsFiniteSet(Requests)
  BY FrontDoorAssumption, FS_Interval DEF Requests
<1>2. owed \in SUBSET Requests
  OBVIOUS
<1>3. IsFiniteSet(owed)
  BY <1>1, <1>2, FS_Subset
<1>4. owed = {}
  BY <1>3, FS_EmptySet DEF pending_requests
<1> QED
  BY <1>4

\* A drain that did not time out leaves no request of a listed thread half
\* answered: what it counted to zero are the same entries the clients wait
\* for, and the process does nothing after it.
THEOREM DrainIsHonest == Spec => []DrainHonest
<1>1. Init => DrainHonest
  BY DEF Init, DrainHonest
<1>2. TypeOK /\ LifeInv /\ DrainHonest /\ [Next]_vars => DrainHonest'
  <2> SUFFICES ASSUME TypeOK, LifeInv, DrainHonest, [Next]_vars PROVE DrainHonest'
    OBVIOUS
  <2>1. CASE drain' # "exited" \/ timedOut'
    BY <2>1 DEF DrainHonest
  <2>2. CASE DrainCounts
    <3>1. ASSUME NEW q \in Requests, Listening(q), to[q] \in Elements(registry)
          PROVE  q \in finished
      <4>1. answers[q] = "none"
        BY <2>2, <3>1, NothingPending DEF DrainCounts
      <4>2. thread[to[q]] # "gone"
        BY <3>1 DEF LifeInv, ListedInv
      <4> QED
        BY <3>1, <4>1, <4>2 DEF LifeInv, Life, Settled
    <3> QED
      BY <2>2, <3>1 DEF DrainCounts, drainKeeps, dispatch, client, DrainHonest, Listening
  <2>3. CASE UNCHANGED vars
    BY <2>3 DEF vars, dispatch, client, listener, DrainHonest, Elements
  <2>4. ASSUME ~DrainCounts, ~UNCHANGED vars PROVE drain' # "exited" \/ timedOut'
    <3>1. ASSUME NEW q \in Requests, Hyper(q) \/ Handler(q) \/ Client(q) PROVE drain' # "exited"
      BY <3>1 DEF Hyper, Deliver, TakeReply, PollFrame, PollEnd, ChunkSent, GuardDrops,
                  Handler, Receive, respond, RespondRefused, respond_start, send_chunk,
                  respond_end, ignis_grpc_end, Return, TailInterrupted,
                  Client, Serve, BodyRefused, ClientLeaves, listener, fromPhp, Up
    <3>2. ASSUME NEW r \in Reactors, Thread(r) PROVE drain' # "exited"
      BY <3>2 DEF Thread, start, leave_dispatch, ScriptEnds, Dies, unregister, fail_pending,
                  threadsKeep, listener, Up
    <3>3. ASSUME Listener PROVE drain' # "exited" \/ timedOut'
      BY <2>4, <3>3 DEF Listener, AcceptCheck, AcceptSubscribe, Accept, ConnectionCloses,
                        DrainStops, DrainNotifies, DrainTimesOut, listener, Up
    <3> QED
      BY <2>4, <3>1, <3>2, <3>3 DEF Next
  <2> QED
    BY <2>1, <2>2, <2>3, <2>4
<1> QED
  BY <1>1, <1>2, TypeCorrect, LifeCorrect, PTL DEF Spec

\* Once a connection slipped in after the stop, the loop is back at its check
\* of the flag, or has left.
LateInv ==
  /\ lateAccepts <= 1
  /\ lateAccepts = 1 => stop /\ accept \in {"check", "gone"}

\* The notification of the stop can be missed for one connection and no more.
THEOREM LateAcceptOnce == Spec => []OneLateAccept
<1>1. Init => LateInv
  BY DEF Init, LateInv
<1>2. TypeOK /\ LateInv /\ [Next]_vars => LateInv'
  <2> SUFFICES ASSUME TypeOK, LateInv, [Next]_vars PROVE LateInv'
    OBVIOUS
  <2>1. CASE AcceptCheck
    BY <2>1 DEF AcceptCheck, ListenerStop, LateInv, TypeOK
  <2>2. CASE AcceptSubscribe
    BY <2>2 DEF AcceptSubscribe, LateInv, TypeOK
  <2>3. CASE Accept
    BY <2>3 DEF Accept, LateInv, TypeOK
  <2>4. CASE DrainStops
    BY <2>4 DEF DrainStops, drainKeeps, LateInv, TypeOK
  <2>5. CASE DrainNotifies
    BY <2>5 DEF DrainNotifies, drainKeeps, LateInv, TypeOK
  <2>6. ASSUME UNCHANGED <<lateAccepts, stop>>, accept' \in {accept, "gone"} PROVE LateInv'
    BY <2>6 DEF LateInv
  <2>7. ASSUME NEW q \in Requests, Hyper(q) \/ Handler(q) \/ Client(q)
        PROVE  UNCHANGED listener
    BY <2>7 DEF Hyper, Deliver, TakeReply, PollFrame, PollEnd, ChunkSent, GuardDrops,
                Handler, Receive, respond, RespondRefused, respond_start, send_chunk,
                respond_end, ignis_grpc_end, Return, TailInterrupted,
                Client, Serve, BodyRefused, ClientLeaves, fromPhp
  <2>8. ASSUME NEW r \in Reactors, Thread(r) PROVE UNCHANGED listener
    BY <2>8 DEF Thread, start, leave_dispatch, ScriptEnds, Dies, unregister, fail_pending,
                threadsKeep
  <2>9. ASSUME ConnectionCloses \/ DrainCounts \/ DrainTimesOut \/ UNCHANGED vars
        PROVE  UNCHANGED <<lateAccepts, stop>> /\ accept' \in {accept, "gone"}
    BY <2>9 DEF ConnectionCloses, DrainCounts, DrainTimesOut, drainKeeps, vars, listener
  <2> QED
    BY <2>1, <2>2, <2>3, <2>4, <2>5, <2>6, <2>7, <2>8, <2>9 DEF Next, Listener, listener
<1>3. LateInv => OneLateAccept
  BY DEF LateInv, OneLateAccept
<1> QED
  BY <1>1, <1>2, <1>3, TypeCorrect, PTL DEF Spec
=============================================================================
