---------------------------- MODULE OutputProofs ----------------------------
(***************************************************************************)
(* Output.tla for any fibers, requests, frame size, room of a queue and    *)
(* length of body: a byte stays with the request that wrote it, bodies     *)
(* are received in the order they were written, and an answer that was     *)
(* ended has all of them.                                                  *)
(***************************************************************************)
EXTENDS Output, TLAPS

-----------------------------------------------------------------------------
(* Sequences.                                                              *)

LEMMA RangeEmpty == Range(<<>>) = {}
BY DEF Range

LEMMA RangeAppend ==
  ASSUME NEW S, NEW s \in Seq(S), NEW x \in S
  PROVE  Range(Append(s, x)) = Range(s) \cup {x}
<1>1. /\ DOMAIN Append(s, x) = DOMAIN s \cup {Len(s) + 1}
      /\ \A k \in DOMAIN s : Append(s, x)[k] = s[k]
      /\ Append(s, x)[Len(s) + 1] = x
  OBVIOUS
<1> QED
  BY <1>1 DEF Range

LEMMA RangeConcat ==
  ASSUME NEW S, NEW s \in Seq(S), NEW t \in Seq(S)
  PROVE  /\ Range(s \o t) = Range(s) \cup Range(t)
         /\ s \o t \in Seq(S) /\ Len(s \o t) = Len(s) + Len(t)
         /\ \A k \in DOMAIN s : (s \o t)[k] = s[k]
         /\ \A k \in DOMAIN t : (s \o t)[Len(s) + k] = t[k]
         /\ \A k \in DOMAIN (s \o t) : k \in DOMAIN s \/ k - Len(s) \in DOMAIN t
<1>1. /\ s \o t \in Seq(S) /\ Len(s \o t) = Len(s) + Len(t)
      /\ \A k \in DOMAIN s : (s \o t)[k] = s[k] /\ k \in DOMAIN (s \o t)
      /\ \A k \in DOMAIN t : (s \o t)[Len(s) + k] = t[k] /\ Len(s) + k \in DOMAIN (s \o t)
      /\ \A k \in DOMAIN (s \o t) : k \in DOMAIN s \/ k - Len(s) \in DOMAIN t
  OBVIOUS
<1>2. ASSUME NEW k \in DOMAIN (s \o t) PROVE (s \o t)[k] \in Range(s) \cup Range(t)
  <2>1. CASE k \in DOMAIN s
    BY <1>1, <2>1 DEF Range
  <2>2. CASE k - Len(s) \in DOMAIN t
    <3>1. (s \o t)[Len(s) + (k - Len(s))] = t[k - Len(s)] /\ Len(s) + (k - Len(s)) = k
      BY <1>1, <2>2
    <3> QED
      BY <2>2, <3>1 DEF Range
  <2> QED
    BY <1>1, <2>1, <2>2
<1>3. Range(s) \subseteq Range(s \o t)
  BY <1>1 DEF Range
<1>4. ASSUME NEW k \in DOMAIN t PROVE t[k] \in Range(s \o t)
  <2>1. Len(s) + k \in DOMAIN (s \o t) /\ (s \o t)[Len(s) + k] = t[k]
    BY <1>1
  <2> QED
    BY <2>1, Zenon DEF Range
<1> QED
  BY <1>1, <1>2, <1>3, <1>4 DEF Range

LEMMA RangeTail ==
  ASSUME NEW S, NEW s \in Seq(S), s # <<>>
  PROVE  /\ Range(s) = {Head(s)} \cup Range(Tail(s))
         /\ Head(s) \in S /\ Tail(s) \in Seq(S) /\ Len(Tail(s)) = Len(s) - 1
         /\ Len(s) \in Nat \ {0} /\ Head(s) = s[1]
         /\ \A k \in DOMAIN Tail(s) : Tail(s)[k] = s[k + 1] /\ k + 1 \in DOMAIN s
<1>1. /\ Len(s) \in Nat \ {0} /\ Head(s) = s[1] /\ 1 \in DOMAIN s /\ Head(s) \in S
      /\ DOMAIN s = 1 .. Len(s) /\ DOMAIN Tail(s) = 1 .. (Len(s) - 1)
      /\ Tail(s) \in Seq(S) /\ Len(Tail(s)) = Len(s) - 1
  OBVIOUS
<1>2. \A k \in 1 .. (Len(s) - 1) : Tail(s)[k] = s[k + 1]
  OBVIOUS
<1>3. ASSUME NEW k \in DOMAIN s, k # 1 PROVE s[k] \in Range(Tail(s))
  <2>1. k - 1 \in DOMAIN Tail(s) /\ Tail(s)[k - 1] = s[k]
    BY <1>1, <1>2, <1>3
  <2> QED
    BY <2>1, Zenon DEF Range
<1>4. ASSUME NEW k \in DOMAIN Tail(s)
      PROVE  Tail(s)[k] = s[k + 1] /\ k + 1 \in DOMAIN s /\ Tail(s)[k] \in Range(s)
  <2>1. k + 1 \in DOMAIN s /\ Tail(s)[k] = s[k + 1]
    BY <1>1, <1>2
  <2> QED
    BY <2>1, Zenon DEF Range
<1>5. Range(s) \subseteq {Head(s)} \cup Range(Tail(s))
  BY <1>1, <1>3 DEF Range
<1>6. {Head(s)} \cup Range(Tail(s)) \subseteq Range(s)
  BY <1>1, <1>4 DEF Range
<1> QED
  BY <1>1, <1>4, <1>5, <1>6

LEMMA RangeTyped ==
  ASSUME NEW S, NEW s \in Seq(S)
  PROVE  Range(s) \subseteq S /\ (Range(s) = {} <=> s = <<>>)
<1>1. DOMAIN s = 1 .. Len(s) /\ Len(s) \in Nat /\ \A k \in DOMAIN s : s[k] \in S
  OBVIOUS
<1>2. ASSUME s # <<>> PROVE Range(s) # {}
  <2>1. 1 \in DOMAIN s
    BY <1>1, <1>2
  <2> QED
    BY <2>1, Zenon DEF Range
<1>3. Range(s) \subseteq S
  BY <1>1 DEF Range
<1> QED
  BY <1>2, <1>3, RangeEmpty

-----------------------------------------------------------------------------
(* The inductive invariant.                                                *)

AllSends(r) == slow[r] \cup Range(line[r])

\* A fiber has a stream bound exactly while it produces one, its own; no two
\* fibers run one request, and none runs one that is over.
FiberOK(a) ==
  /\ job[a] = Nobody <=> phase[a] = "idle"
  /\ bound[a].id # Nobody <=> phase[a] \in {"produce", "await"}
  /\ bound[a].id # Nobody => bound[a].id = job[a]
  /\ bound[a].id = Nobody => bound[a] = Unbound
  /\ job[a] \notin over
  /\ \A b \in Addresses : job[a] # Nobody /\ job[b] = job[a] => b = a

\* What a request, its stream and its captures hold was written by it.
Own(r) ==
  /\ \A c \in Range(body[r]) : c[1] = r
  /\ \A f \in Range(queue[r]) : \A c \in Range(f) : c[1] = r
  /\ \A s \in AllSends(r) : \A c \in Range(s.frame) : c[1] = r

OwnOutput(a) ==
  /\ \A c \in Range(bound[a].pending) : c[1] = job[a]
  /\ \A n \in DOMAIN sinks[a] :
       job[a] # Nobody /\ \A k \in DOMAIN sinks[a][n] : sinks[a][n][k] = job[a]

\* A send that somebody waits for is one of the request he runs.
Awaited(r) ==
  \A s \in AllSends(r) : s.for # Nobody => job[s.for] = r /\ phase[s.for] \in {"await", "tail"}

\* The bytes of a frame continue those up to number m.
Run(r, frame, m) == \A i \in DOMAIN frame : frame[i] = <<r, m + i>>

\* The number of the last byte that went into the queue before place k.
Before(r, k) ==
  IF k = 1 THEN Len(body[r]) ELSE queue[r][k - 1][Len(queue[r][k - 1])][2]

SentUpTo(r) == Before(r, Len(queue[r]) + 1)

\* The frames in the queue continue the body and each other.
Chained(r) ==
  \A k \in DOMAIN queue[r] : queue[r][k] # <<>> /\ Run(r, queue[r][k], Before(r, k))

Queued(r) == Range(body[r]) \cup UNION {Range(f) : f \in Range(queue[r])}

\* No byte is missing of those sent.
Complete(r) == \A n \in 1 .. SentUpTo(r) : <<r, n>> \in Queued(r)

\* There is at most one send that waits; it is awaited, and has all that was
\* written and is not in the queue.
OneSend(r) ==
  /\ \A s \in slow[r] : slow[r] = {s} /\ line[r] = <<>>
  /\ Len(line[r]) <= 1
  /\ \A s \in AllSends(r) :
       /\ s.for # Nobody /\ s.frame # <<>>
       /\ Run(r, s.frame, SentUpTo(r))
       /\ SentUpTo(r) + Len(s.frame) = wrote[r]

AllSent(r) == AllSends(r) = {} /\ SentUpTo(r) = wrote[r]

\* Where the fiber that runs r is with it.
Progress(r, a) ==
  /\ phase[a] = "handler" => resp[r] = "none" /\ wrote[r] = 0
  /\ phase[a] = "produce" =>
       /\ resp[r] = IF bound[a].started THEN "streaming" ELSE "none"
       /\ Run(r, bound[a].pending, SentUpTo(r))
       /\ SentUpTo(r) + Len(bound[a].pending) = wrote[r]
  /\ phase[a] = "await" =>
       /\ resp[r] = "streaming" /\ bound[a].started /\ bound[a].pending = <<>>
       /\ AllSends(r) = {} => AllSent(r)
  /\ phase[a] = "tail" => resp[r] = "streaming" /\ (AllSends(r) = {} => AllSent(r))
  /\ phase[a] = "release" => resp[r] \in {"ended", "answered"}

Untouched(r) == resp[r] = "none" /\ wrote[r] = 0

\* A request whose client is there and whose waits were not cut.
Streamed(r) ==
  /\ Chained(r) /\ Complete(r) /\ OneSend(r)
  /\ \A a \in Addresses : job[a] = r => Progress(r, a)
  /\ r \notin over /\ (\A a \in Addresses : job[a] # r) => Untouched(r)
  /\ r \in over => resp[r] \in {"ended", "answered"}
  /\ resp[r] = "none" => body[r] = <<>> /\ queue[r] = <<>> /\ AllSends(r) = {}
  /\ resp[r] = "ended" => AllSent(r)

\* Nothing more goes to a client that has left.
NothingFor(r) == r \in gone => queue[r] = <<>>

Ordered(r) == \A n \in DOMAIN body[r] : body[r][n] = <<r, n>>

AddressOK(a) == FiberOK(a) /\ OwnOutput(a)

RequestOK(r) ==
  /\ Own(r) /\ Awaited(r) /\ NothingFor(r)
  /\ r \notin cut => Ordered(r)
  /\ r \notin gone \cup cut => Streamed(r)

OutputInv ==
  /\ TypeOK
  /\ \A a \in Addresses : AddressOK(a)
  /\ \A r \in Requests : RequestOK(r)

-----------------------------------------------------------------------------
(* What the steps on the wire of one request keep.                         *)

NotARequest == Nobody \notin Addresses \cup Requests

LEMMA NobodyIs == NotARequest
BY OutputConstants DEF NotARequest, Nobody

LEMMA WireTyped ==
  ASSUME TypeOK, NEW r \in Requests
  PROVE  /\ queue[r] \in Seq(Seq(Bytes)) /\ body[r] \in Seq(Bytes)
         /\ line[r] \in Seq(Sends) /\ slow[r] \subseteq Sends /\ AllSends(r) \subseteq Sends
         /\ wrote[r] \in Nat /\ Len(queue[r]) \in Nat /\ Len(body[r]) \in Nat
         /\ DOMAIN queue[r] = 1 .. Len(queue[r]) /\ DOMAIN body[r] = 1 .. Len(body[r])
<1>1. /\ queue[r] \in Seq(Seq(Bytes)) /\ body[r] \in Seq(Bytes)
      /\ line[r] \in Seq(Sends) /\ slow[r] \subseteq Sends /\ wrote[r] \in 0 .. MaxBytes
  BY DEF TypeOK
<1>2. AllSends(r) \subseteq Sends
  BY <1>1, RangeTyped DEF AllSends
<1> QED
  BY <1>1, <1>2, OutputConstants

\* The number of the last byte of a frame that continues those up to m.
LEMMA RunEnds ==
  ASSUME NEW r \in Requests, NEW m \in Nat, NEW f \in Seq(Bytes), f # <<>>, Run(r, f, m)
  PROVE  f[Len(f)][2] = m + Len(f) /\ Len(f) \in Nat \ {0}
<1>1. Len(f) \in DOMAIN f /\ Len(f) \in Nat \ {0}
  OBVIOUS
<1>2. f[Len(f)] = <<r, m + Len(f)>>
  BY <1>1 DEF Run
<1> QED
  BY <1>1, <1>2

LEMMA SentIsNat ==
  ASSUME TypeOK, NEW r \in Requests, Chained(r), NEW k \in 1 .. (Len(queue[r]) + 1)
  PROVE  Before(r, k) \in Nat
<1>1. CASE k = 1
  BY <1>1, WireTyped DEF Before
<1>2. CASE k # 1
  <2>1. k - 1 \in DOMAIN queue[r] /\ queue[r][k - 1] \in Seq(Bytes) /\ queue[r][k - 1] # <<>>
    BY <1>2, WireTyped DEF Chained
  <2> DEFINE f == queue[r][k - 1]
  <2>2. Len(f) \in DOMAIN f
    BY <2>1
  <2>3. f[Len(f)] \in Bytes
    BY <2>1, <2>2
  <2> HIDE DEF f
  <2>4. f[Len(f)][2] \in Nat
    BY <2>3, OutputConstants DEF Bytes
  <2> QED
    BY <1>2, <2>4 DEF Before, f
<1> QED
  BY <1>1, <1>2

\* A frame that continues what was sent goes into the queue.
LEMMA FrameQueued ==
  ASSUME TypeOK, NEW r \in Requests, Chained(r), Complete(r),
         NEW f \in Seq(Bytes), f # <<>>, Run(r, f, SentUpTo(r)),
         queue'[r] = Append(queue[r], f), body'[r] = body[r]
  PROVE  /\ Chained(r)' /\ Complete(r)'
         /\ SentUpTo(r)' = SentUpTo(r) + Len(f)
<1> DEFINE n == Len(queue[r])
<1>1. /\ n \in Nat /\ queue[r] \in Seq(Seq(Bytes)) /\ body[r] \in Seq(Bytes)
      /\ DOMAIN queue[r] = 1 .. n /\ Len(body[r]) \in Nat
  BY WireTyped
<1>2. /\ Len(queue'[r]) = n + 1 /\ queue'[r][n + 1] = f /\ DOMAIN queue'[r] = 1 .. (n + 1)
      /\ \A k \in 1 .. n : queue'[r][k] = queue[r][k]
  BY <1>1
<1> HIDE DEF n
<1>3. ASSUME NEW k \in 1 .. (n + 1) PROVE Before(r, k)' = Before(r, k)
  <2>1. CASE k = 1
    BY <2>1 DEF Before
  <2>2. CASE k # 1
    <3>1. k - 1 \in 1 .. n
      BY <1>1, <2>2
    <3> QED
      BY <1>2, <2>2, <3>1 DEF Before
  <2> QED
    BY <2>1, <2>2
<1>4. SentUpTo(r) = Before(r, n + 1)
  BY DEF SentUpTo, n
<1>5. SentUpTo(r)' = f[Len(f)][2]
  BY <1>1, <1>2 DEF SentUpTo, Before
<1>6. SentUpTo(r) \in Nat
  BY <1>1, SentIsNat DEF SentUpTo, n
<1>7. SentUpTo(r)' = SentUpTo(r) + Len(f) /\ Len(f) \in Nat
  BY <1>5, <1>6, RunEnds
<1>8. Chained(r)'
  <2> SUFFICES ASSUME NEW k \in 1 .. (n + 1)
               PROVE  queue'[r][k] # <<>> /\ Run(r, queue'[r][k], Before(r, k))
    BY <1>2, <1>3 DEF Chained, Run
  <2>1. CASE k = n + 1
    BY <1>2, <1>4, <2>1
  <2>2. CASE k # n + 1
    <3>1. k \in DOMAIN queue[r] /\ queue'[r][k] = queue[r][k]
      BY <1>1, <1>2, <2>2
    <3> QED
      BY <3>1 DEF Chained
  <2> QED
    BY <2>1, <2>2
<1>9. Queued(r)' = Queued(r) \cup Range(f)
  <2>1. Range(queue'[r]) = Range(queue[r]) \cup {f}
    BY <1>1, RangeAppend
  <2> QED
    BY <2>1 DEF Queued
<1>10. ASSUME NEW i \in 1 .. (SentUpTo(r) + Len(f)) PROVE <<r, i>> \in Queued(r)'
  <2>1. CASE i <= SentUpTo(r)
    <3>1. i \in 1 .. SentUpTo(r)
      BY <1>6, <1>7, <2>1
    <3> QED
      BY <1>9, <3>1 DEF Complete
  <2>2. CASE i > SentUpTo(r)
    <3>1. i - SentUpTo(r) \in DOMAIN f /\ i = SentUpTo(r) + (i - SentUpTo(r))
      BY <1>6, <1>7, <2>2
    <3>2. f[i - SentUpTo(r)] = <<r, i>>
      BY <3>1 DEF Run
    <3>3. <<r, i>> \in Range(f)
      BY <3>1, <3>2, Zenon DEF Range
    <3> QED
      BY <1>9, <3>3
  <2> QED
    BY <1>6, <1>7, <2>1, <2>2
<1> QED
  BY <1>7, <1>8, <1>10 DEF Complete

\* The client takes the first frame.
LEMMA FrameReceived ==
  ASSUME TypeOK, NEW r \in Requests, Chained(r), Complete(r), Ordered(r), queue[r] # <<>>,
         queue'[r] = Tail(queue[r]), body'[r] = body[r] \o Head(queue[r])
  PROVE  /\ Chained(r)' /\ Complete(r)' /\ Ordered(r)'
         /\ SentUpTo(r)' = SentUpTo(r)
<1>0. PICK n \in Nat, m \in Nat, f \in Seq(Bytes) :
        n = Len(queue[r]) /\ m = Len(body[r]) /\ f = Head(queue[r])
  BY WireTyped, RangeTail
<1>1. /\ n \in Nat \ {0} /\ queue[r] \in Seq(Seq(Bytes)) /\ body[r] \in Seq(Bytes)
      /\ DOMAIN queue[r] = 1 .. n /\ m \in Nat /\ DOMAIN body[r] = 1 .. m
  BY <1>0, WireTyped
<1>2. /\ f = queue[r][1] /\ Len(queue'[r]) = n - 1
      /\ DOMAIN queue'[r] = 1 .. (n - 1)
      /\ \A k \in 1 .. (n - 1) : queue'[r][k] = queue[r][k + 1]
      /\ Range(queue[r]) = {f} \cup Range(queue'[r])
  BY <1>0, <1>1, RangeTail
<1>3. f # <<>> /\ Run(r, f, m)
  <2>1. 1 \in DOMAIN queue[r] /\ Before(r, 1) = m
    BY <1>0, <1>1 DEF Before
  <2> QED
    BY <1>2, <2>1 DEF Chained
<1>4. /\ Range(body'[r]) = Range(body[r]) \cup Range(f) /\ Len(body'[r]) = m + Len(f)
      /\ \A k \in DOMAIN body[r] : body'[r][k] = body[r][k]
      /\ \A k \in DOMAIN f : body'[r][m + k] = f[k]
      /\ \A k \in DOMAIN body'[r] : k \in DOMAIN body[r] \/ k - m \in DOMAIN f
      /\ body'[r] \in Seq(Bytes)
  <2>1. body'[r] = body[r] \o f
    BY <1>0
  <2> DEFINE t == body[r]
  <2>2. /\ Range(t \o f) = Range(t) \cup Range(f)
        /\ t \o f \in Seq(Bytes) /\ Len(t \o f) = Len(t) + Len(f)
        /\ \A k \in DOMAIN t : (t \o f)[k] = t[k]
        /\ \A k \in DOMAIN f : (t \o f)[Len(t) + k] = f[k]
        /\ \A k \in DOMAIN (t \o f) : k \in DOMAIN t \/ k - Len(t) \in DOMAIN f
    BY <1>1, RangeConcat, Zenon
  <2> QED
    BY <1>0, <2>1, <2>2, Zenon
<1>5. f[Len(f)][2] = m + Len(f) /\ Len(f) \in Nat
  BY <1>1, <1>2, <1>3, RunEnds, ZenonT(40)
<1>6. ASSUME NEW k \in 1 .. n PROVE Before(r, k)' = Before(r, k + 1)
  <2>1. CASE k = 1
    <3>1. Before(r, k)' = m + Len(f)
      BY <1>4, <2>1 DEF Before
    <3>2. Before(r, k + 1) = f[Len(f)][2]
      <4>1. k + 1 # 1 /\ (k + 1) - 1 = 1
        BY <2>1
      <4> QED
        BY <1>2, <4>1 DEF Before
    <3> QED
      BY <1>5, <3>1, <3>2
  <2>2. CASE k # 1
    <3>1. k - 1 \in 1 .. (n - 1) /\ (k + 1) - 1 = k /\ (k - 1) + 1 = k /\ k + 1 # 1
      BY <1>1, <2>2
    <3>2. queue'[r][k - 1] = queue[r][k]
      BY <1>2, <3>1
    <3> QED
      BY <2>2, <3>1, <3>2 DEF Before
  <2> QED
    BY <2>1, <2>2
<1>7. Chained(r)'
  <2> SUFFICES ASSUME NEW k \in 1 .. (n - 1)
               PROVE  queue'[r][k] # <<>> /\ Run(r, queue'[r][k], Before(r, k + 1))
    <3>1. ASSUME NEW k \in 1 .. (n - 1) PROVE Before(r, k)' = Before(r, k + 1)
      <4>1. k \in 1 .. n
        BY <1>1
      <4> QED
        BY <1>6, <4>1
    <3> QED
      BY <1>2, <3>1 DEF Chained, Run
  <2>1. k + 1 \in DOMAIN queue[r] /\ queue'[r][k] = queue[r][k + 1]
    BY <1>1, <1>2
  <2> QED
    BY <2>1 DEF Chained
<1>8. SentUpTo(r)' = SentUpTo(r)
  <2>1. SentUpTo(r)' = Before(r, n)' /\ SentUpTo(r) = Before(r, n + 1)
    <3>1. (n - 1) + 1 = n
      BY <1>1
    <3> QED
      BY <1>0, <1>2, <3>1 DEF SentUpTo
  <2>2. n \in 1 .. n
    BY <1>1
  <2> QED
    BY <1>6, <2>1, <2>2
<1>9. Queued(r)' = Queued(r)
  BY <1>2, <1>4 DEF Queued
<1>10. Ordered(r)'
  <2> SUFFICES ASSUME NEW k \in DOMAIN body'[r] PROVE body'[r][k] = <<r, k>>
    BY DEF Ordered
  <2>1. CASE k \in DOMAIN body[r]
    BY <1>4, <2>1 DEF Ordered
  <2>2. CASE k - m \in DOMAIN f
    <3>1. body'[r][m + (k - m)] = f[k - m]
      BY <1>4, <2>2
    <3>2. f[k - m] = <<r, m + (k - m)>>
      BY <1>3, <2>2 DEF Run
    <3>3. m + (k - m) = k
      <4>1. DOMAIN body'[r] = 1 .. Len(body'[r])
        BY <1>4
      <4>2. k \in Int
        BY <1>1, <1>4, <1>5, <4>1
      <4> QED
        BY <1>1, <4>2
    <3> QED
      BY <3>1, <3>2, <3>3
  <2> QED
    BY <1>4, <2>1, <2>2
<1> QED
  BY <1>7, <1>8, <1>9, <1>10 DEF Complete

-----------------------------------------------------------------------------
(* What a step leaves alone.                                               *)

LEMMA SameWire ==
  ASSUME NEW r, queue'[r] = queue[r], body'[r] = body[r]
  PROVE  /\ SentUpTo(r)' = SentUpTo(r) /\ Queued(r)' = Queued(r)
         /\ Chained(r)' <=> Chained(r)
         /\ Complete(r)' <=> Complete(r)
         /\ Ordered(r)' <=> Ordered(r)
<1>1. \A k : Before(r, k)' = Before(r, k)
  BY DEF Before
<1>2. SentUpTo(r)' = SentUpTo(r) /\ Queued(r)' = Queued(r)
  BY <1>1 DEF SentUpTo, Queued
<1>3. Chained(r)' <=> Chained(r)
  BY <1>1 DEF Chained, Run
<1> QED
  BY <1>2, <1>3 DEF Complete, Ordered

\* A step that concerns at most request p.
OnlyFor(p) ==
  \A r \in Requests \ {p} :
    /\ queue'[r] = queue[r] /\ slow'[r] = slow[r] /\ line'[r] = line[r] /\ body'[r] = body[r]
    /\ wrote'[r] = wrote[r] /\ resp'[r] = resp[r]
    /\ r \in gone' <=> r \in gone
    /\ r \in cut' <=> r \in cut
    /\ r \in over' <=> r \in over
    /\ \A a \in Addresses :
         /\ job'[a] = r <=> job[a] = r
         /\ job[a] = r => phase'[a] = phase[a] /\ bound'[a] = bound[a]

LEMMA OthersKeep ==
  ASSUME TypeOK, NEW p, OnlyFor(p), NEW r \in Requests, r # p, RequestOK(r)
  PROVE  RequestOK(r)'
<1>1. /\ queue'[r] = queue[r] /\ slow'[r] = slow[r] /\ line'[r] = line[r] /\ body'[r] = body[r]
      /\ wrote'[r] = wrote[r] /\ resp'[r] = resp[r]
      /\ r \in gone' <=> r \in gone
      /\ r \in cut' <=> r \in cut
      /\ r \in over' <=> r \in over
      /\ \A a \in Addresses :
           /\ job'[a] = r <=> job[a] = r
           /\ job[a] = r => phase'[a] = phase[a] /\ bound'[a] = bound[a]
  BY DEF OnlyFor
<1>2. /\ SentUpTo(r)' = SentUpTo(r) /\ AllSends(r)' = AllSends(r)
      /\ Chained(r)' <=> Chained(r)
      /\ Complete(r)' <=> Complete(r)
      /\ Ordered(r)' <=> Ordered(r)
  BY <1>1, SameWire DEF AllSends
<1>3. Own(r)'
  BY <1>1, <1>2 DEF RequestOK, Own
<1>4. Awaited(r)'
  <2>1. \A s \in AllSends(r) : s.for \in Addresses \cup {Nobody}
    BY WireTyped DEF Sends
  <2> QED
    BY <1>1, <1>2, <2>1 DEF RequestOK, Awaited
<1>5. NothingFor(r)' /\ (r \notin cut' => Ordered(r)')
  BY <1>1, <1>2 DEF RequestOK, NothingFor
<1>6. ASSUME r \notin gone' \cup cut' PROVE Streamed(r)'
  <2>1. Streamed(r)
    BY <1>1, <1>6 DEF RequestOK
  <2>2. Chained(r)' /\ Complete(r)'
    BY <1>2, <2>1 DEF Streamed
  <2>3. OneSend(r)'
    BY <1>1, <1>2, <2>1 DEF Streamed, OneSend, Run
  <2>4. ASSUME NEW a \in Addresses, job'[a] = r PROVE Progress(r, a)'
    <3>1. job[a] = r /\ phase'[a] = phase[a] /\ bound'[a] = bound[a] /\ Progress(r, a)
      BY <1>1, <2>1, <2>4 DEF Streamed
    <3> QED
      BY <1>1, <1>2, <3>1 DEF Progress, AllSent, Run
  <2> QED
    BY <1>1, <1>2, <2>1, <2>2, <2>3, <2>4 DEF Streamed, Untouched, AllSent
<1> QED
  BY <1>3, <1>4, <1>5, <1>6 DEF RequestOK

\* A step of one fiber leaves the others alone.
LEMMA OtherFibers ==
  ASSUME TypeOK, \A b \in Addresses : AddressOK(b), NEW a \in Addresses,
         \A b \in Addresses \ {a} : /\ job'[b] = job[b] /\ phase'[b] = phase[b]
                                    /\ bound'[b] = bound[b] /\ sinks'[b] = sinks[b],
         over' \subseteq over \cup ({job[a]} \ {Nobody}),
         \/ job'[a] \in {job[a], Nobody}
         \/ \A b \in Addresses : job[b] # job'[a],
         NEW b \in Addresses, b # a
  PROVE  AddressOK(b)'
<1>1. AddressOK(b) /\ AddressOK(a)
  OBVIOUS
<1>2. /\ job'[b] = job[b] /\ phase'[b] = phase[b] /\ bound'[b] = bound[b] /\ sinks'[b] = sinks[b]
  OBVIOUS
<1>3. job[b] \notin over'
  BY <1>1 DEF AddressOK, FiberOK
<1>4. ASSUME NEW c \in Addresses, job'[b] # Nobody, job'[c] = job'[b] PROVE c = b
  <2>1. CASE c = a
    BY <1>1, <1>2, <1>4, <2>1 DEF AddressOK, FiberOK
  <2>2. CASE c # a
    <3>1. job'[c] = job[c]
      BY <2>2
    <3> QED
      BY <1>1, <1>2, <1>4, <3>1 DEF AddressOK, FiberOK
  <2> QED
    BY <2>1, <2>2
<1>5. FiberOK(b)'
  BY <1>1, <1>2, <1>3, <1>4 DEF AddressOK, FiberOK
<1>6. OwnOutput(b)'
  BY <1>1, <1>2 DEF AddressOK, OwnOutput
<1> QED
  BY <1>5, <1>6 DEF AddressOK

\* A step without fibers leaves all of them alone.
LEMMA FibersKeep ==
  ASSUME \A b \in Addresses : AddressOK(b), UNCHANGED <<job, phase, bound, sinks, over>>
  PROVE  \A b \in Addresses : AddressOK(b)'
BY DEF AddressOK, FiberOK, OwnOutput

\* The request of a fiber, and that it is nobody else's.
LEMMA JobIs ==
  ASSUME TypeOK, NEW a \in Addresses, AddressOK(a), phase[a] # "idle"
  PROVE  /\ job[a] \in Requests /\ job[a] \notin over /\ job[a] # Nobody
         /\ \A b \in Addresses : job[b] = job[a] <=> b = a
<1>1. job[a] # Nobody /\ job[a] \in Requests \cup {Nobody}
  BY DEF TypeOK, AddressOK, FiberOK
<1> QED
  BY <1>1 DEF AddressOK, FiberOK

\* Nobody waits for a send of a fiber that is not in a wait.
LEMMA NoSendFor ==
  ASSUME TypeOK, \A r \in Requests : RequestOK(r), NEW a \in Addresses,
         phase[a] \notin {"await", "tail"}, NEW r \in Requests, NEW s \in AllSends(r)
  PROVE  s.for # a
BY NobodyIs DEF RequestOK, Awaited, NotARequest

-----------------------------------------------------------------------------
(* Types.                                                                  *)

Bindings == [id : Requests \cup {Nobody}, pending : Seq(Bytes), started : BOOLEAN]

\* A frame goes into a queue that has room.
LEMMA QueueTyped ==
  ASSUME TypeOK, NEW r \in Requests, NEW f \in Seq(Bytes), Len(queue[r]) < Chunks,
         queue' = [queue EXCEPT ![r] = Append(queue[r], f)]
  PROVE  /\ queue' \in [Requests -> Seq(Seq(Bytes))]
         /\ \A q \in Requests : Len(queue'[q]) <= Chunks
<1>1. queue[r] \in Seq(Seq(Bytes)) /\ Len(queue[r]) \in Nat
  BY WireTyped
<1>2. Append(queue[r], f) \in Seq(Seq(Bytes)) /\ Len(Append(queue[r], f)) = Len(queue[r]) + 1
  BY <1>1
<1>3. queue' \in [Requests -> Seq(Seq(Bytes))]
  BY <1>2 DEF TypeOK
<1>4. Len(Append(queue[r], f)) <= Chunks
  BY <1>1, <1>2, OutputConstants
<1> QED
  BY <1>3, <1>4 DEF TypeOK

\* What a push returns and does.
LEMMA PushTyped ==
  ASSUME TypeOK, NEW b \in Bindings, b.id \in Requests, NEW frame \in Seq(Bytes)
  PROVE  /\ Push(b, frame).started \in BOOLEAN /\ Push(b, frame).sent \in BOOLEAN
         /\ Push(b, frame).back \in {<<>>, frame}
         /\ Rebound(b, frame) \in Bindings
         /\ Pushed(b, frame) =>
              /\ resp' \in [Requests -> {"none", "streaming", "ended", "answered"}]
              /\ queue' \in [Requests -> Seq(Seq(Bytes))]
              /\ \A r \in Requests : Len(queue'[r]) <= Chunks
<1>1. b.started \in BOOLEAN /\ b.id \in Requests /\ b.pending \in Seq(Bytes)
  BY DEF Bindings
<1>2. Opens(b.id) \in BOOLEAN /\ Room(b.id) \in BOOLEAN
  BY DEF Opens, Room
<1>3. /\ Push(b, frame).started \in BOOLEAN /\ Push(b, frame).sent \in BOOLEAN
      /\ Push(b, frame).back \in {<<>>, frame}
      /\ Push(b, frame).sent => Room(b.id)
  BY <1>1, <1>2 DEF Push
<1>4. Rebound(b, frame) \in Bindings
  <2>1. Push(b, frame).back \in Seq(Bytes)
    <3>1. <<>> \in Seq(Bytes)
      OBVIOUS
    <3> QED
      BY <1>3, <3>1, Zenon
  <2> QED
    BY <1>3, <2>1 DEF Rebound, Bindings
<1>5. ASSUME Pushed(b, frame)
      PROVE  /\ resp' \in [Requests -> {"none", "streaming", "ended", "answered"}]
             /\ queue' \in [Requests -> Seq(Seq(Bytes))]
             /\ \A r \in Requests : Len(queue'[r]) <= Chunks
  <2>1. resp' \in [Requests -> {"none", "streaming", "ended", "answered"}]
    <3>1. resp' \in {resp, [resp EXCEPT ![b.id] = "streaming"]}
      BY <1>5, Zenon DEF Pushed
    <3> QED
      BY <1>1, <3>1 DEF TypeOK
  <2>2. CASE ~Push(b, frame).sent
    BY <1>5, <2>1, <2>2 DEF Pushed, TypeOK
  <2>3. CASE Push(b, frame).sent
    <3>1. queue' = [queue EXCEPT ![b.id] = Append(queue[b.id], frame)] /\ Len(queue[b.id]) < Chunks
      BY <1>3, <1>5, <2>3 DEF Pushed, Room
    <3> QED
      BY <2>1, <3>1, QueueTyped
  <2> QED
    BY <2>2, <2>3
<1> QED
  BY <1>3, <1>4, <1>5

\* The next byte of a fiber that writes.
LEMMA ByteTyped ==
  ASSUME TypeOK, NEW a \in Addresses, AddressOK(a), Writes(a), bound[a].id # Nobody
  PROVE  /\ NextByte(a) \in Seq(Bytes) /\ Len(NextByte(a)) = 1
         /\ NextByte(a)[1] = <<job[a], wrote[job[a]] + 1>>
         /\ job[a] \in Requests /\ bound[a].id = job[a] /\ bound[a] \in Bindings
         /\ bound[a].pending \in Seq(Bytes)
         /\ bound[a].pending \o NextByte(a) \in Seq(Bytes)
         /\ bound[a].pending \o NextByte(a) # <<>>
         /\ Len(bound[a].pending \o NextByte(a)) = Len(bound[a].pending) + 1
         /\ wrote[job[a]] + 1 \in 1 .. MaxBytes
<1>1. job[a] \in Requests /\ bound[a].id = job[a]
  BY JobIs DEF Writes, Live, AddressOK, FiberOK
<1>2. wrote[job[a]] \in 0 .. MaxBytes /\ wrote[job[a]] + 1 \in 1 .. MaxBytes
  BY <1>1, OutputConstants DEF TypeOK, Writes
<1>3. <<job[a], wrote[job[a]] + 1>> \in Bytes
  BY <1>1, <1>2 DEF Bytes
<1>4. /\ NextByte(a) \in Seq(Bytes) /\ Len(NextByte(a)) = 1
      /\ NextByte(a)[1] = <<job[a], wrote[job[a]] + 1>>
  BY <1>3 DEF NextByte
<1>5. bound[a] \in Bindings /\ bound[a].pending \in Seq(Bytes)
  BY DEF TypeOK, Bindings
<1>6. /\ bound[a].pending \o NextByte(a) \in Seq(Bytes)
      /\ Len(bound[a].pending \o NextByte(a)) = Len(bound[a].pending) + 1
  <2> DEFINE t == bound[a].pending
             u == NextByte(a)
  <2>1. t \o u \in Seq(Bytes) /\ Len(t \o u) = Len(t) + Len(u)
    BY <1>4, <1>5, RangeConcat, Zenon
  <2> QED
    BY <1>4, <2>1, Zenon
<1>7. bound[a].pending \o NextByte(a) # <<>>
  <2>1. Len(bound[a].pending) \in Nat
    BY <1>5
  <2> QED
    BY <1>6, <2>1
<1> QED
  BY <1>1, <1>2, <1>4, <1>5, <1>6, <1>7

LEMMA UnboundTyped == \A r \in Requests \cup {Nobody} : BoundTo(r) \in Bindings
<1>1. <<>> \in Seq(Bytes)
  OBVIOUS
<1> QED
  BY <1>1 DEF BoundTo, Bindings

\* A send joins those that wait.
LEMMA SubmitTyped ==
  ASSUME TypeOK, NEW a \in Addresses, NEW r \in Requests, NEW frame \in Seq(Bytes),
         slow' = [slow EXCEPT ![r] = Submit(a, r, frame)]
  PROVE  slow' \in [Requests -> SUBSET Sends]
<1>1. [frame |-> frame, for |-> a] \in Sends
  BY DEF Sends
<1>2. Submit(a, r, frame) \in SUBSET Sends
  BY <1>1, WireTyped DEF Submit
<1>3. slow \in [Requests -> SUBSET Sends]
  BY DEF TypeOK
<1> QED
  BY <1>2, <1>3, Zenon

\* The waits of a fiber are forgotten, not their frames.
LEMMA DisownedTyped ==
  ASSUME TypeOK, NEW a \in Addresses, Disowned(a)
  PROVE  slow' \in [Requests -> SUBSET Sends] /\ line' \in [Requests -> Seq(Sends)]
<1> DEFINE Orphan(s) == IF s.for = a THEN [s EXCEPT !.for = Nobody] ELSE s
<1>1. \A s \in Sends : Orphan(s) \in Sends
  BY DEF Sends
<1>2. /\ slow' = [r \in Requests |-> {Orphan(s) : s \in slow[r]}]
      /\ line' = [r \in Requests |-> [n \in DOMAIN line[r] |-> Orphan(line[r][n])]]
  BY DEF Disowned
<1> HIDE DEF Orphan
<1>3. ASSUME NEW r \in Requests PROVE {Orphan(s) : s \in slow[r]} \subseteq Sends
  <2>1. slow[r] \subseteq Sends
    BY WireTyped
  <2> QED
    BY <1>1, <2>1
<1>4. ASSUME NEW r \in Requests
      PROVE  [n \in DOMAIN line[r] |-> Orphan(line[r][n])] \in Seq(Sends)
  <2>1. line[r] \in Seq(Sends) /\ DOMAIN line[r] = 1 .. Len(line[r]) /\ Len(line[r]) \in Nat
    BY WireTyped
  <2>2. \A n \in DOMAIN line[r] : Orphan(line[r][n]) \in Sends
    BY <1>1, <2>1
  <2> QED
    BY <2>1, <2>2
<1> QED
  BY <1>2, <1>3, <1>4

LEMMA InitTyped == Init => TypeOK
<1> SUFFICES ASSUME Init PROVE TypeOK
  OBVIOUS
<1>1. /\ job \in [Addresses -> Requests \cup {Nobody}]
      /\ phase \in [Addresses -> {"idle", "handler", "produce", "await", "tail", "release"}]
      /\ sinks \in [Addresses -> Seq(Seq(Requests))]
      /\ wrote \in [Requests -> 0 .. MaxBytes]
      /\ resp \in [Requests -> {"none", "streaming", "ended", "answered"}]
  BY OutputConstants DEF Init
<1>2. bound \in [Addresses -> Bindings]
  BY UnboundTyped DEF Init, Unbound
<1>3. /\ queue \in [Requests -> Seq(Seq(Bytes))] /\ body \in [Requests -> Seq(Bytes)]
      /\ line \in [Requests -> Seq(Sends)] /\ slow \in [Requests -> SUBSET Sends]
  BY DEF Init
<1>4. \A r \in Requests : Len(queue[r]) <= Chunks
  BY OutputConstants DEF Init
<1>5. gone \subseteq Requests /\ cut \subseteq Requests /\ over \subseteq Requests
  BY DEF Init
<1> QED
  BY <1>1, <1>2, <1>3, <1>4, <1>5 DEF TypeOK, Bindings

-----------------------------------------------------------------------------
(* Steps of one fiber, and steps on the wire of one request.               *)

LEMMA FiberStep ==
  ASSUME OutputInv, TypeOK', NEW a \in Addresses,
         \A b \in Addresses \ {a} : /\ job'[b] = job[b] /\ phase'[b] = phase[b]
                                    /\ bound'[b] = bound[b] /\ sinks'[b] = sinks[b],
         over' \subseteq over \cup ({job[a]} \ {Nobody}),
         \/ job'[a] \in {job[a], Nobody}
         \/ \A b \in Addresses : job[b] # job'[a],
         AddressOK(a)', NEW p, OnlyFor(p), p \in Requests => RequestOK(p)'
  PROVE  OutputInv'
<1>1. TypeOK /\ (\A b \in Addresses : AddressOK(b)) /\ \A r \in Requests : RequestOK(r)
  BY DEF OutputInv
<1>2. ASSUME NEW b \in Addresses PROVE AddressOK(b)'
  <2>1. CASE b = a
    BY <2>1
  <2>2. CASE b # a
    BY <1>1, <2>2, OtherFibers
  <2> QED
    BY <2>1, <2>2
<1>3. ASSUME NEW r \in Requests PROVE RequestOK(r)'
  BY <1>1, OthersKeep
<1> QED
  BY <1>2, <1>3 DEF OutputInv

LEMMA WireStep ==
  ASSUME OutputInv, TypeOK', UNCHANGED <<job, phase, bound, sinks, over>>,
         NEW p \in Requests, OnlyFor(p), RequestOK(p)'
  PROVE  OutputInv'
<1>1. TypeOK /\ (\A b \in Addresses : AddressOK(b)) /\ \A r \in Requests : RequestOK(r)
  BY DEF OutputInv
<1>2. \A b \in Addresses : AddressOK(b)'
  BY <1>1, FibersKeep
<1>3. ASSUME NEW r \in Requests PROVE RequestOK(r)'
  BY <1>1, OthersKeep
<1> QED
  BY <1>2, <1>3 DEF OutputInv

-----------------------------------------------------------------------------
(* Captures.                                                               *)

\* A capture changes nothing but its fiber's stack.
LEMMA CaptureStep ==
  ASSUME OutputInv, NEW a \in Addresses, phase[a] # "idle", NEW stack \in Seq(Seq(Requests)),
         sinks' = [sinks EXCEPT ![a] = stack],
         UNCHANGED <<fibers, bound, wrote, resp, gone, wire, cut, over>>,
         \A n \in DOMAIN stack : \A k \in DOMAIN stack[n] : stack[n][k] = job[a]
  PROVE  OutputInv'
<1>1. UNCHANGED <<job, phase, bound, wrote, resp, gone, queue, slow, line, body, cut, over>>
  BY DEF fibers, wire, sends
<1>2. TypeOK /\ AddressOK(a)
  BY DEF OutputInv
<1>3. TypeOK'
  BY <1>1, <1>2 DEF TypeOK
<1>4. OnlyFor(Nobody)
  BY <1>1 DEF OnlyFor
<1>5. \A b \in Addresses \ {a} : sinks'[b] = sinks[b]
  BY <1>2 DEF TypeOK
<1>6. AddressOK(a)'
  <2>1. sinks'[a] = stack /\ job[a] # Nobody
    BY <1>2, JobIs DEF TypeOK
  <2> QED
    BY <1>1, <1>2, <2>1 DEF AddressOK, FiberOK, OwnOutput
<1>7. Nobody \notin Requests
  BY NobodyIs DEF NotARequest
<1> QED
  BY <1>1, <1>3, <1>4, <1>5, <1>6, <1>7, FiberStep

LEMMA Captures ==
  ASSUME OutputInv, NEW a \in Addresses, EchoCaptured(a) \/ capture_start(a) \/ capture_take(a)
  PROVE  OutputInv'
<1>1. TypeOK /\ AddressOK(a) /\ sinks[a] \in Seq(Seq(Requests))
  BY DEF OutputInv, TypeOK
<1>2. phase[a] # "idle"
  BY DEF EchoCaptured, capture_start, capture_take, Live
<1>3. job[a] \in Requests
  BY <1>1, <1>2, JobIs
<1>4. \A n \in DOMAIN sinks[a] : \A k \in DOMAIN sinks[a][n] : sinks[a][n][k] = job[a]
  BY <1>1 DEF AddressOK, OwnOutput
<1>5. PICK old \in Seq(Seq(Requests)) : old = sinks[a]
  BY <1>1
<1>6. CASE EchoCaptured(a)
  <2>1. /\ sinks[a] # <<>>
        /\ sinks' = [sinks EXCEPT ![a][Len(sinks[a])] = Append(@, job[a])]
        /\ UNCHANGED <<fibers, bound, wrote, resp, gone, wire, cut, over>>
    BY <1>6 DEF EchoCaptured
  <2> DEFINE n == Len(old)
             stack == [old EXCEPT ![n] = Append(old[n], job[a])]
  <2>2. n \in DOMAIN old /\ old[n] \in Seq(Requests)
    BY <1>5, <2>1
  <2>3. sinks' = [sinks EXCEPT ![a] = stack]
    BY <1>5, <2>1
  <2>4. Append(old[n], job[a]) \in Seq(Requests)
    BY <1>3, <2>2
  <2>5. stack \in Seq(Seq(Requests))
    BY <2>2, <2>4
  <2>6. \A k \in DOMAIN Append(old[n], job[a]) : Append(old[n], job[a])[k] = job[a]
    BY <1>3, <1>4, <1>5, <2>2
  <2>7. \A m \in DOMAIN stack : stack[m] = old[m] \/ stack[m] = Append(old[n], job[a])
    OBVIOUS
  <2>8. DOMAIN stack = DOMAIN old
    OBVIOUS
  <2> HIDE DEF stack, n
  <2>9. ASSUME NEW m \in DOMAIN stack PROVE \A k \in DOMAIN stack[m] : stack[m][k] = job[a]
    BY <1>4, <1>5, <2>6, <2>7, <2>8
  <2> QED
    BY <1>2, <2>1, <2>3, <2>5, <2>9, CaptureStep
<1>7. CASE capture_start(a)
  <2>1. /\ sinks' = [sinks EXCEPT ![a] = Append(old, <<>>)]
        /\ UNCHANGED <<fibers, bound, wrote, resp, gone, wire, cut, over>>
    BY <1>5, <1>7 DEF capture_start
  <2> DEFINE stack == Append(old, <<>>)
  <2>2. stack \in Seq(Seq(Requests))
    OBVIOUS
  <2>3. \A m \in DOMAIN stack : (m \in DOMAIN old /\ stack[m] = old[m]) \/ stack[m] = <<>>
    OBVIOUS
  <2> HIDE DEF stack
  <2>4. \A m \in DOMAIN stack : \A k \in DOMAIN stack[m] : stack[m][k] = job[a]
    BY <1>4, <1>5, <2>3
  <2> QED
    BY <1>2, <2>1, <2>2, <2>4, CaptureStep DEF stack
<1>8. CASE capture_take(a)
  <2>1. /\ sinks' = [sinks EXCEPT ![a] = SubSeq(old, 1, Len(old) - 1)] /\ old # <<>>
        /\ UNCHANGED <<fibers, bound, wrote, resp, gone, wire, cut, over>>
    BY <1>5, <1>8 DEF capture_take
  <2> DEFINE stack == SubSeq(old, 1, Len(old) - 1)
  <2>2. stack \in Seq(Seq(Requests))
    OBVIOUS
  <2>3. \A m \in DOMAIN stack : m \in DOMAIN old /\ stack[m] = old[m]
    BY <2>1
  <2> HIDE DEF stack
  <2>4. \A m \in DOMAIN stack : \A k \in DOMAIN stack[m] : stack[m][k] = job[a]
    BY <1>4, <1>5, <2>3
  <2> QED
    BY <1>2, <2>1, <2>2, <2>4, CaptureStep DEF stack
<1> QED
  BY <1>6, <1>7, <1>8

-----------------------------------------------------------------------------
(* Steps that send nothing.                                                *)

\* Who waits for a send of a request is the fiber that runs it.
LEMMA WaiterIs ==
  ASSUME OutputInv, NEW a \in Addresses, phase[a] # "idle",
         NEW s \in AllSends(job[a]), s.for # Nobody
  PROVE  s.for = a /\ phase[a] \in {"await", "tail"}
<1>1. TypeOK /\ AddressOK(a)
  BY DEF OutputInv
<1>2. job[a] \in Requests /\ \A b \in Addresses : job[b] = job[a] <=> b = a
  BY <1>1, JobIs
<1>3. Awaited(job[a])
  BY <1>2 DEF OutputInv, RequestOK
<1>4. s.for \in Addresses \cup {Nobody}
  BY <1>1, <1>2, WireTyped DEF Sends
<1> QED
  BY <1>2, <1>3, <1>4 DEF Awaited

\* A request that is streamed and whose fiber is in no wait has no send that
\* waits.
LEMMA NoneWaits ==
  ASSUME OutputInv, NEW a \in Addresses, phase[a] # "idle", job[a] \notin gone \cup cut,
         phase[a] \notin {"await", "tail"} \/ ~Waits(a)
  PROVE  AllSends(job[a]) = {} /\ slow[job[a]] = {} /\ line[job[a]] = <<>>
<1>1. TypeOK /\ AddressOK(a)
  BY DEF OutputInv
<1>2. job[a] \in Requests
  BY <1>1, JobIs
<1>3. OneSend(job[a])
  BY <1>2 DEF OutputInv, RequestOK, Streamed
<1>4. ASSUME NEW s \in AllSends(job[a]) PROVE FALSE
  <2>1. s.for # Nobody
    BY <1>3 DEF OneSend
  <2>2. s.for = a /\ phase[a] \in {"await", "tail"}
    BY <2>1, WaiterIs
  <2> QED
    BY <1>2, <2>2 DEF Waits, AllSends
<1>5. AllSends(job[a]) = {}
  BY <1>4
<1>6. slow[job[a]] = {} /\ Range(line[job[a]]) = {}
  BY <1>5 DEF AllSends
<1> QED
  BY <1>1, <1>2, <1>5, <1>6, WireTyped, RangeTyped

\* The conditions under which a step of fiber a that leaves the wire alone
\* keeps the invariant.
LEMMA QuietStep ==
  ASSUME OutputInv, TypeOK', NEW a \in Addresses, phase[a] # "idle", NEW r, r = job[a],
         UNCHANGED <<wrote, gone, wire, cut>>,
         \A q \in Requests \ {r} : resp'[q] = resp[q],
         over' \in {over, over \cup {r}},
         \A b \in Addresses \ {a} : /\ job'[b] = job[b] /\ phase'[b] = phase[b]
                                    /\ bound'[b] = bound[b] /\ sinks'[b] = sinks[b],
         job'[a] \in {r, Nobody},
         phase[a] \notin {"await", "tail"} \/ ~Waits(a),
         AddressOK(a)',
         r \notin gone \cup cut =>
           /\ job'[a] = r => Progress(r, a)'
           /\ r \in over' => resp'[r] \in {"ended", "answered"}
           /\ job'[a] # r => r \in over'
           /\ resp'[r] = "none" => resp[r] = "none"
           /\ resp'[r] = "ended" => AllSent(r)
  PROVE  OutputInv'
<1>1. UNCHANGED <<wrote, gone, queue, slow, line, body, cut>>
  BY DEF wire, sends
<1>2. TypeOK /\ AddressOK(a) /\ \A q \in Requests : RequestOK(q)
  BY DEF OutputInv
<1>3. r \in Requests /\ r # Nobody /\ \A b \in Addresses : job[b] = r <=> b = a
  BY <1>2, JobIs
<1>4. \A b \in Addresses : job'[b] = r <=> b = a /\ job'[a] = r
  BY <1>3
<1>5. OnlyFor(r)
  <2>1. ASSUME NEW q \in Requests, q # r, NEW b \in Addresses
        PROVE  /\ job'[b] = q <=> job[b] = q
               /\ job[b] = q => phase'[b] = phase[b] /\ bound'[b] = bound[b]
    BY <1>3, <2>1, NobodyIs DEF NotARequest
  <2> QED
    BY <1>1, <2>1 DEF OnlyFor
<1>6. /\ AllSends(r)' = AllSends(r) /\ SentUpTo(r)' = SentUpTo(r)
      /\ Chained(r)' <=> Chained(r)
      /\ Complete(r)' <=> Complete(r)
      /\ Ordered(r)' <=> Ordered(r)
  BY <1>1, SameWire DEF AllSends
<1>7. Own(r)' /\ NothingFor(r)' /\ (r \notin cut' => Ordered(r)')
  BY <1>1, <1>2, <1>3, <1>6 DEF RequestOK, Own, NothingFor
<1>8. \A s \in AllSends(r) : s.for = Nobody
  <2>1. ASSUME NEW s \in AllSends(r), s.for # Nobody PROVE FALSE
    <3>1. s.for = a /\ phase[a] \in {"await", "tail"}
      BY <2>1, WaiterIs
    <3> QED
      BY <1>3, <3>1 DEF Waits, AllSends
  <2> QED
    BY <2>1
<1>9. Awaited(r)'
  BY <1>6, <1>8 DEF Awaited
<1>10. ASSUME r \notin gone' \cup cut' PROVE Streamed(r)'
  <2>1. Streamed(r) /\ AllSends(r) = {} /\ r \notin gone \cup cut
    BY <1>1, <1>2, <1>3, <1>10, NoneWaits DEF RequestOK
  <2>2. OneSend(r)'
    BY <1>1, <1>6, <2>1 DEF Streamed, OneSend
  <2>3. \A b \in Addresses : job'[b] = r => Progress(r, b)'
    BY <1>4, <2>1
  <2>4. AllSent(r)' <=> AllSent(r)
    BY <1>1, <1>6 DEF AllSent
  <2>5. resp'[r] = "none" => body'[r] = <<>> /\ queue'[r] = <<>> /\ AllSends(r)' = {}
    BY <1>1, <1>6, <2>1 DEF Streamed
  <2> QED
    BY <1>4, <1>6, <2>1, <2>2, <2>3, <2>4, <2>5 DEF Streamed
<1>11. RequestOK(r)'
  BY <1>7, <1>9, <1>10 DEF RequestOK
<1> QED
  BY <1>3, <1>5, <1>11, FiberStep

LEMMA AnswerKeeps ==
  ASSUME OutputInv, NEW a \in Addresses, Answer(a)
  PROVE  OutputInv'
<1>1. /\ phase[a] = "handler" /\ resp' = Answered(job[a])
      /\ phase' = [phase EXCEPT ![a] = "release"]
      /\ UNCHANGED <<job, sinks, bound, wrote, gone, wire, cut, over>>
      /\ UNCHANGED <<queue, slow, line, body>>
  BY DEF Answer, buffers, wire, sends
<1>2. TypeOK /\ AddressOK(a) /\ \A q \in Requests : RequestOK(q)
  BY DEF OutputInv
<1>3. PICK r \in Requests : r = job[a]
  BY <1>1, <1>2, JobIs
<1>4. resp' = IF Opens(r) THEN [resp EXCEPT ![r] = "answered"] ELSE resp
  BY <1>1, <1>3 DEF Answered
<1>5. phase'[a] = "release" /\ \A b \in Addresses \ {a} : phase'[b] = phase[b]
  BY <1>1, <1>2 DEF TypeOK
<1>6. /\ \A q \in Requests \ {r} : resp'[q] = resp[q]
      /\ Opens(r) => resp'[r] = "answered"
  BY <1>2, <1>4 DEF TypeOK
<1>7. TypeOK'
  BY <1>1, <1>2, <1>4 DEF TypeOK
<1>8. AddressOK(a)'
  BY <1>1, <1>2, <1>5 DEF AddressOK, FiberOK, OwnOutput
<1>9. ASSUME r \notin gone \cup cut PROVE resp'[r] = "answered" /\ r \notin over
  <2>1. Progress(r, a)
    BY <1>2, <1>3, <1>9 DEF RequestOK, Streamed
  <2> QED
    BY <1>1, <1>2, <1>3, <1>6, <1>9, <2>1, JobIs DEF Progress, Opens
<1>10. resp'[r] = "answered" => Progress(r, a)'
  BY <1>5 DEF Progress
<1> QED
  BY <1>1, <1>3, <1>5, <1>6, <1>7, <1>8, <1>9, <1>10, QuietStep

LEMMA BindKeeps ==
  ASSUME OutputInv, NEW a \in Addresses, stream_bind(a)
  PROVE  OutputInv'
<1>1. /\ phase[a] = "handler" /\ bound' = [bound EXCEPT ![a] = BoundTo(job[a])]
      /\ phase' = [phase EXCEPT ![a] = "produce"]
      /\ UNCHANGED <<job, sinks, wrote, resp, gone, wire, cut, over>>
      /\ UNCHANGED <<queue, slow, line, body>>
  BY DEF stream_bind, wire, sends
<1>2. TypeOK /\ AddressOK(a) /\ \A q \in Requests : RequestOK(q)
  BY DEF OutputInv
<1>3. PICK r \in Requests : r = job[a]
  BY <1>1, <1>2, JobIs
<1>4. /\ phase'[a] = "produce" /\ \A b \in Addresses \ {a} : phase'[b] = phase[b]
      /\ bound'[a] = BoundTo(r) /\ \A b \in Addresses \ {a} : bound'[b] = bound[b]
  BY <1>1, <1>2, <1>3 DEF TypeOK
<1>5. BoundTo(r).id = r /\ BoundTo(r).pending = <<>> /\ BoundTo(r).started = FALSE
  BY DEF BoundTo
<1>6. TypeOK'
  <2>1. BoundTo(r) \in Bindings
    BY UnboundTyped
  <2>2. bound' \in [Addresses -> Bindings]
    BY <1>1, <1>2, <1>3, <2>1 DEF TypeOK, Bindings
  <2> QED
    BY <1>1, <1>2, <2>2 DEF TypeOK, Bindings
<1>7. AddressOK(a)'
  <2>1. r # Nobody
    BY NobodyIs DEF NotARequest
  <2>2. FiberOK(a)'
    BY <1>1, <1>2, <1>3, <1>4, <1>5, <2>1 DEF AddressOK, FiberOK
  <2>3. OwnOutput(a)'
    BY <1>1, <1>2, <1>3, <1>4, <1>5, RangeEmpty DEF AddressOK, OwnOutput
  <2> QED
    BY <2>2, <2>3 DEF AddressOK
<1>8. ASSUME r \notin gone \cup cut PROVE Progress(r, a)' /\ r \notin over /\ resp'[r] = "none"
  <2>1. Streamed(r) /\ Progress(r, a)
    BY <1>2, <1>3, <1>8 DEF RequestOK, Streamed
  <2>2. resp[r] = "none" /\ wrote[r] = 0 /\ body[r] = <<>> /\ queue[r] = <<>>
    BY <1>1, <2>1 DEF Streamed, Progress
  <2>3. SentUpTo(r)' = 0
    <3>1. Len(queue'[r]) + 1 = 1 /\ Len(body'[r]) = 0
      BY <1>1, <2>2
    <3> QED
      BY <3>1 DEF SentUpTo, Before
  <2>4. Run(r, <<>>, 0)
    BY DEF Run
  <2>5. Progress(r, a)'
    BY <1>1, <1>4, <1>5, <2>2, <2>3, <2>4 DEF Progress
  <2> QED
    BY <1>1, <1>2, <1>3, <2>2, <2>5, JobIs
<1> QED
  BY <1>1, <1>3, <1>4, <1>6, <1>7, <1>8, QuietStep

LEMMA ResumeKeeps ==
  ASSUME OutputInv, NEW a \in Addresses, ResumeProducer(a)
  PROVE  OutputInv'
<1>1. /\ phase[a] = "await" /\ ~Waits(a)
      /\ phase' = [phase EXCEPT ![a] = "produce"]
      /\ UNCHANGED <<job, sinks, bound, wrote, resp, gone, wire, cut, over>>
      /\ UNCHANGED <<queue, slow, line, body>>
  BY DEF ResumeProducer, buffers, wire, sends
<1>2. TypeOK /\ AddressOK(a) /\ \A q \in Requests : RequestOK(q)
  BY DEF OutputInv
<1>3. PICK r \in Requests : r = job[a]
  BY <1>1, <1>2, JobIs
<1>4. phase'[a] = "produce" /\ \A b \in Addresses \ {a} : phase'[b] = phase[b]
  BY <1>1, <1>2 DEF TypeOK
<1>5. TypeOK'
  BY <1>1, <1>2 DEF TypeOK
<1>6. AddressOK(a)'
  BY <1>1, <1>2, <1>4 DEF AddressOK, FiberOK, OwnOutput
<1>7. ASSUME r \notin gone \cup cut
      PROVE  /\ Progress(r, a)' /\ r \notin over /\ resp'[r] = resp[r] /\ resp'[r] = "streaming"
  <2>1. Progress(r, a) /\ AllSends(r) = {}
    BY <1>1, <1>2, <1>3, <1>7, NoneWaits DEF RequestOK, Streamed
  <2>2. /\ resp[r] = "streaming" /\ bound[a].started /\ bound[a].pending = <<>>
        /\ SentUpTo(r) = wrote[r]
    BY <1>1, <2>1 DEF Progress, AllSent
  <2>3. SentUpTo(r)' = wrote[r] /\ wrote[r] + 0 = wrote[r]
    BY <1>1, <1>2, <2>2, SameWire, WireTyped
  <2>4. Run(r, <<>>, wrote[r]) /\ Len(<<>>) = 0
    BY DEF Run
  <2>5. Progress(r, a)'
    BY <1>1, <1>4, <2>2, <2>3, <2>4 DEF Progress
  <2> QED
    BY <1>1, <1>2, <1>3, <2>2, <2>5, JobIs
<1> QED
  BY <1>1, <1>3, <1>4, <1>5, <1>6, <1>7, QuietStep

LEMMA EndKeeps ==
  ASSUME OutputInv, NEW a \in Addresses, EndStream(a)
  PROVE  OutputInv'
<1>1. /\ phase[a] = "tail" /\ ~Waits(a)
      /\ resp' = [resp EXCEPT ![job[a]] = "ended"]
      /\ phase' = [phase EXCEPT ![a] = "release"]
      /\ UNCHANGED <<job, sinks, bound, wrote, gone, wire, cut, over>>
      /\ UNCHANGED <<queue, slow, line, body>>
  BY DEF EndStream, buffers, wire, sends
<1>2. TypeOK /\ AddressOK(a) /\ \A q \in Requests : RequestOK(q)
  BY DEF OutputInv
<1>3. PICK r \in Requests : r = job[a]
  BY <1>1, <1>2, JobIs
<1>4. /\ phase'[a] = "release" /\ \A b \in Addresses \ {a} : phase'[b] = phase[b]
      /\ resp'[r] = "ended" /\ \A q \in Requests \ {r} : resp'[q] = resp[q]
  BY <1>1, <1>2, <1>3 DEF TypeOK
<1>5. TypeOK'
  BY <1>1, <1>2, <1>3 DEF TypeOK
<1>6. AddressOK(a)'
  BY <1>1, <1>2, <1>4 DEF AddressOK, FiberOK, OwnOutput
<1>7. ASSUME r \notin gone \cup cut PROVE r \notin over /\ AllSent(r)
  <2>1. Progress(r, a) /\ AllSends(r) = {}
    BY <1>1, <1>2, <1>3, <1>7, NoneWaits DEF RequestOK, Streamed
  <2> QED
    BY <1>1, <1>2, <1>3, <2>1, JobIs DEF Progress
<1>8. Progress(r, a)'
  BY <1>4 DEF Progress
<1> QED
  BY <1>1, <1>3, <1>4, <1>5, <1>6, <1>7, <1>8, QuietStep

LEMMA ReleaseKeeps ==
  ASSUME OutputInv, NEW a \in Addresses, Release(a)
  PROVE  OutputInv'
<1>1. /\ phase[a] = "release"
      /\ bound' = [bound EXCEPT ![a] = Unbound] /\ sinks' = [sinks EXCEPT ![a] = <<>>]
      /\ over' = over \cup {job[a]}
      /\ job' = [job EXCEPT ![a] = Nobody]
      /\ phase' = [phase EXCEPT ![a] = "idle"]
      /\ UNCHANGED <<wrote, resp, gone, wire, cut>>
      /\ UNCHANGED <<queue, slow, line, body>>
  BY DEF Release, capture_reset, wire, sends
<1>2. TypeOK /\ AddressOK(a) /\ \A q \in Requests : RequestOK(q)
  BY DEF OutputInv
<1>3. PICK r \in Requests : r = job[a]
  BY <1>1, <1>2, JobIs
<1>4. /\ phase'[a] = "idle" /\ job'[a] = Nobody /\ bound'[a] = Unbound /\ sinks'[a] = <<>>
      /\ \A b \in Addresses \ {a} : /\ phase'[b] = phase[b] /\ job'[b] = job[b]
                                    /\ bound'[b] = bound[b] /\ sinks'[b] = sinks[b]
  BY <1>1, <1>2 DEF TypeOK
<1>5. TypeOK'
  <2>1. bound' \in [Addresses -> Bindings]
    BY <1>1, <1>2, UnboundTyped DEF TypeOK, Bindings, Unbound
  <2>2. sinks' \in [Addresses -> Seq(Seq(Requests))] /\ over' \subseteq Requests
    BY <1>1, <1>2, <1>3 DEF TypeOK
  <2> QED
    BY <1>1, <1>2, <2>1, <2>2 DEF TypeOK, Bindings
<1>6. AddressOK(a)'
  <2>1. Unbound.id = Nobody /\ Unbound.pending = <<>>
    BY DEF Unbound, BoundTo
  <2>2. Nobody \notin over'
    BY <1>5, NobodyIs DEF NotARequest, TypeOK
  <2>3. FiberOK(a)'
    BY <1>4, <2>1, <2>2 DEF FiberOK
  <2>4. OwnOutput(a)'
    BY <1>4, <2>1, RangeEmpty DEF OwnOutput
  <2> QED
    BY <2>3, <2>4 DEF AddressOK
<1>7. ASSUME r \notin gone \cup cut
      PROVE  /\ resp'[r] \in {"ended", "answered"} /\ (resp'[r] = "ended" => AllSent(r))
  <2>1. Progress(r, a) /\ Streamed(r)
    BY <1>2, <1>3, <1>7 DEF RequestOK, Streamed
  <2> QED
    BY <1>1, <2>1 DEF Progress, Streamed
<1>8. r # Nobody
  BY NobodyIs DEF NotARequest
<1> QED
  BY <1>1, <1>3, <1>4, <1>5, <1>6, <1>7, <1>8, QuietStep

LEMMA StartKeeps ==
  ASSUME OutputInv, NEW a \in Addresses, NEW r \in Requests, Start(a, r)
  PROVE  OutputInv'
<1>1. /\ phase[a] = "idle" /\ r \notin over /\ \A b \in Addresses : job[b] # r
      /\ job' = [job EXCEPT ![a] = r]
      /\ phase' = [phase EXCEPT ![a] = "handler"]
      /\ UNCHANGED <<bound, sinks, wrote, resp, gone, queue, slow, line, body, cut, over>>
  BY DEF Start, buffers, wire, sends
<1>2. TypeOK /\ AddressOK(a) /\ RequestOK(r)
  BY DEF OutputInv
<1>3. /\ phase'[a] = "handler" /\ job'[a] = r
      /\ \A b \in Addresses \ {a} : phase'[b] = phase[b] /\ job'[b] = job[b]
  BY <1>1, <1>2 DEF TypeOK
<1>4. TypeOK'
  BY <1>1, <1>2 DEF TypeOK
<1>5. job[a] = Nobody /\ bound[a] = Unbound
  BY <1>1, <1>2 DEF AddressOK, FiberOK
<1>6. AddressOK(a)'
  <2>1. Unbound.id = Nobody /\ Unbound.pending = <<>> /\ r # Nobody
    BY NobodyIs DEF Unbound, BoundTo, NotARequest
  <2>2. FiberOK(a)'
    BY <1>1, <1>3, <1>5, <2>1 DEF FiberOK
  <2>3. OwnOutput(a)'
    BY <1>1, <1>2, <1>3, <1>5, <2>1, RangeEmpty DEF AddressOK, OwnOutput
  <2> QED
    BY <2>2, <2>3 DEF AddressOK
<1>7. OnlyFor(r)
  <2>1. ASSUME NEW q \in Requests, q # r, NEW b \in Addresses
        PROVE  /\ job'[b] = q <=> job[b] = q
               /\ job[b] = q => phase'[b] = phase[b]
    BY <1>3, <1>5, <2>1, NobodyIs DEF NotARequest
  <2> QED
    BY <1>1, <2>1 DEF OnlyFor
<1>8. /\ AllSends(r)' = AllSends(r) /\ SentUpTo(r)' = SentUpTo(r)
      /\ Chained(r)' <=> Chained(r)
      /\ Complete(r)' <=> Complete(r)
      /\ Ordered(r)' <=> Ordered(r)
  BY <1>1, SameWire DEF AllSends
<1>9. Own(r)' /\ NothingFor(r)' /\ (r \notin cut' => Ordered(r)')
  BY <1>1, <1>2, <1>8 DEF RequestOK, Own, NothingFor
<1>10. Awaited(r)'
  <2>1. \A s \in AllSends(r) : s.for \in Addresses \cup {Nobody}
    BY <1>2, WireTyped DEF Sends
  <2> QED
    BY <1>1, <1>2, <1>8, <2>1 DEF RequestOK, Awaited
<1>11. ASSUME r \notin gone' \cup cut' PROVE Streamed(r)'
  <2>1. Streamed(r)
    BY <1>1, <1>2, <1>11 DEF RequestOK
  <2>2. Untouched(r)
    BY <1>1, <2>1 DEF Streamed
  <2>3. Progress(r, a)'
    BY <1>1, <1>3, <2>2 DEF Progress, Untouched
  <2>4. \A b \in Addresses : job'[b] = r => b = a
    BY <1>1, <1>3
  <2>5. OneSend(r)' /\ (AllSent(r)' <=> AllSent(r))
    BY <1>1, <1>8, <2>1 DEF Streamed, OneSend, Run, AllSent
  <2> QED
    BY <1>1, <1>3, <1>8, <2>1, <2>3, <2>4, <2>5 DEF Streamed
<1>12. RequestOK(r)'
  BY <1>9, <1>10, <1>11 DEF RequestOK
<1> QED
  BY <1>1, <1>3, <1>4, <1>6, <1>7, <1>12, FiberStep

\* The sends of a fiber go on without it, with the same frames; those of
\* other requests are not its own.
LEMMA DisownedSends ==
  ASSUME OutputInv, NEW a \in Addresses, phase[a] # "idle", Disowned(a),
         NEW r \in Requests, r = job[a]
  PROVE  /\ \A q \in Requests \ {r} : slow'[q] = slow[q] /\ line'[q] = line[q]
         /\ \A t \in AllSends(r)' :
              t.for = Nobody /\ \E s \in AllSends(r) : t.frame = s.frame
<1> DEFINE Orphan(s) == IF s.for = a THEN [s EXCEPT !.for = Nobody] ELSE s
<1>1. TypeOK /\ AddressOK(a) /\ \A q \in Requests : RequestOK(q)
  BY DEF OutputInv
<1>2. /\ slow' = [q \in Requests |-> {Orphan(s) : s \in slow[q]}]
      /\ line' = [q \in Requests |-> [n \in DOMAIN line[q] |-> Orphan(line[q][n])]]
  BY DEF Disowned
<1>3. ASSUME NEW s \in Sends
      PROVE  /\ s.for # a => Orphan(s) = s
             /\ Orphan(s).frame = s.frame
             /\ s.for \in {a, Nobody} => Orphan(s).for = Nobody
  BY DEF Sends
<1> HIDE DEF Orphan
<1>4. ASSUME NEW q \in Requests \ {r} PROVE slow'[q] = slow[q] /\ line'[q] = line[q]
  <2>1. \A s \in AllSends(q) : s \in Sends /\ s.for # a
    BY <1>1, WireTyped, NobodyIs DEF RequestOK, Awaited, NotARequest
  <2>2. \A s \in slow[q] : Orphan(s) = s
    BY <1>3, <2>1 DEF AllSends
  <2>3. \A n \in DOMAIN line[q] : Orphan(line[q][n]) = line[q][n]
    BY <1>3, <2>1 DEF AllSends, Range
  <2>4. slow'[q] = slow[q]
    BY <1>2, <2>2
  <2>5. line'[q] = [n \in DOMAIN line[q] |-> line[q][n]]
    BY <1>2, <2>3
  <2>6. line[q] = [n \in DOMAIN line[q] |-> line[q][n]]
    BY <1>1, WireTyped
  <2> QED
    BY <2>4, <2>5, <2>6
<1>5. ASSUME NEW s \in AllSends(r)
      PROVE  s \in Sends /\ s.for \in {a, Nobody} /\ Orphan(s).for = Nobody /\ Orphan(s).frame = s.frame
  <2>1. s \in Sends /\ s.for \in {a, Nobody}
    BY <1>1, WireTyped, WaiterIs
  <2> QED
    BY <1>3, <2>1
<1>6. ASSUME NEW t \in AllSends(r)'
      PROVE  \E s \in AllSends(r) : t = Orphan(s)
  <2>1. t \in slow'[r] \cup Range(line'[r])
    BY DEF AllSends
  <2>2. CASE t \in slow'[r]
    BY <1>2, <2>2 DEF AllSends
  <2>3. CASE t \in Range(line'[r])
    <3>1. PICK n \in DOMAIN line'[r] : t = line'[r][n]
      BY <2>3, Zenon DEF Range
    <3>2. n \in DOMAIN line[r] /\ t = Orphan(line[r][n])
      BY <1>2, <3>1
    <3>3. line[r][n] \in AllSends(r)
      BY <3>2, Zenon DEF AllSends, Range
    <3> QED
      BY <3>2, <3>3
  <2> QED
    BY <2>1, <2>2, <2>3
<1> QED
  BY <1>4, <1>5, <1>6

\* A wait that is given up.
LEMMA DisownStep ==
  ASSUME OutputInv, TypeOK', NEW a \in Addresses, phase[a] # "idle", NEW r, r = job[a],
         Disowned(a), cut' = cut \cup {r}, UNCHANGED <<wrote, resp, gone, queue, body>>,
         over' \in {over, over \cup {r}},
         \A b \in Addresses \ {a} : /\ job'[b] = job[b] /\ phase'[b] = phase[b]
                                    /\ bound'[b] = bound[b] /\ sinks'[b] = sinks[b],
         job'[a] \in {r, Nobody}, AddressOK(a)'
  PROVE  OutputInv'
<1>1. TypeOK /\ AddressOK(a) /\ \A q \in Requests : RequestOK(q)
  BY DEF OutputInv
<1>2. r \in Requests /\ r # Nobody /\ \A b \in Addresses : job[b] = r <=> b = a
  BY <1>1, JobIs
<1>3. /\ \A q \in Requests \ {r} : slow'[q] = slow[q] /\ line'[q] = line[q]
      /\ \A t \in AllSends(r)' :
           t.for = Nobody /\ \E s \in AllSends(r) : t.frame = s.frame
  BY <1>2, DisownedSends
<1>4. OnlyFor(r)
  <2>1. ASSUME NEW q \in Requests, q # r, NEW b \in Addresses
        PROVE  /\ job'[b] = q <=> job[b] = q
               /\ job[b] = q => phase'[b] = phase[b] /\ bound'[b] = bound[b]
    BY <1>2, <2>1, NobodyIs DEF NotARequest
  <2> QED
    BY <1>3, <2>1 DEF OnlyFor
<1>5. RequestOK(r)
  BY <1>1, <1>2
<1>6. Own(r)'
  BY <1>3, <1>5 DEF RequestOK, Own
<1>7. Awaited(r)' /\ NothingFor(r)' /\ r \in cut'
  BY <1>3, <1>5 DEF RequestOK, Awaited, NothingFor
<1>8. RequestOK(r)'
  BY <1>6, <1>7 DEF RequestOK
<1> QED
  BY <1>2, <1>4, <1>8, FiberStep

LEMMA CutKeeps ==
  ASSUME OutputInv, NEW a \in Addresses, CutWait(a)
  PROVE  OutputInv'
<1>1. /\ phase[a] \in {"await", "tail"}
      /\ phase' = [phase EXCEPT ![a] = IF phase[a] = "await" THEN "produce" ELSE "release"]
      /\ Disowned(a) /\ cut' = cut \cup {job[a]}
      /\ UNCHANGED <<job, sinks, bound, wrote, resp, gone, queue, body, over>>
  BY DEF CutWait, buffers
<1>2. TypeOK /\ AddressOK(a)
  BY DEF OutputInv
<1>3. PICK r \in Requests : r = job[a]
  BY <1>1, <1>2, JobIs
<1>4. /\ phase'[a] = IF phase[a] = "await" THEN "produce" ELSE "release"
      /\ \A b \in Addresses \ {a} : phase'[b] = phase[b]
  BY <1>1, <1>2 DEF TypeOK
<1>5. TypeOK'
  <2>1. slow' \in [Requests -> SUBSET Sends] /\ line' \in [Requests -> Seq(Sends)]
    BY <1>1, <1>2, DisownedTyped
  <2> QED
    BY <1>1, <1>2, <1>3, <2>1 DEF TypeOK
<1>6. AddressOK(a)'
  BY <1>1, <1>2, <1>4 DEF AddressOK, FiberOK, OwnOutput
<1> QED
  BY <1>1, <1>3, <1>4, <1>5, <1>6, DisownStep

LEMMA DieKeeps ==
  ASSUME OutputInv, NEW a \in Addresses, Die(a)
  PROVE  OutputInv'
<1>1. /\ phase[a] # "idle"
      /\ bound' = [bound EXCEPT ![a] = Unbound] /\ sinks' = [sinks EXCEPT ![a] = <<>>]
      /\ over' = over \cup {job[a]} /\ cut' = cut \cup {job[a]} /\ Disowned(a)
      /\ job' = [job EXCEPT ![a] = Nobody]
      /\ phase' = [phase EXCEPT ![a] = "idle"]
      /\ UNCHANGED <<wrote, resp, gone, queue, body>>
  BY DEF Die, on_fiber_destroy
<1>2. TypeOK /\ AddressOK(a)
  BY DEF OutputInv
<1>3. PICK r \in Requests : r = job[a]
  BY <1>1, <1>2, JobIs
<1>4. /\ phase'[a] = "idle" /\ job'[a] = Nobody /\ bound'[a] = Unbound /\ sinks'[a] = <<>>
      /\ \A b \in Addresses \ {a} : /\ phase'[b] = phase[b] /\ job'[b] = job[b]
                                    /\ bound'[b] = bound[b] /\ sinks'[b] = sinks[b]
  BY <1>1, <1>2 DEF TypeOK
<1>5. TypeOK'
  <2>1. bound' \in [Addresses -> Bindings]
    BY <1>1, <1>2, UnboundTyped DEF TypeOK, Bindings, Unbound
  <2>2. /\ sinks' \in [Addresses -> Seq(Seq(Requests))]
        /\ over' \subseteq Requests /\ cut' \subseteq Requests
    BY <1>1, <1>2, <1>3 DEF TypeOK
  <2>3. slow' \in [Requests -> SUBSET Sends] /\ line' \in [Requests -> Seq(Sends)]
    BY <1>1, <1>2, DisownedTyped
  <2> QED
    BY <1>1, <1>2, <2>1, <2>2, <2>3 DEF TypeOK, Bindings
<1>6. AddressOK(a)'
  <2>1. Unbound.id = Nobody /\ Unbound.pending = <<>>
    BY DEF Unbound, BoundTo
  <2>2. Nobody \notin over'
    BY <1>5, NobodyIs DEF NotARequest, TypeOK
  <2>3. FiberOK(a)'
    BY <1>4, <2>1, <2>2 DEF FiberOK
  <2>4. OwnOutput(a)'
    BY <1>4, <2>1, RangeEmpty DEF OwnOutput
  <2> QED
    BY <2>3, <2>4 DEF AddressOK
<1> QED
  BY <1>1, <1>3, <1>4, <1>5, <1>6, DisownStep

-----------------------------------------------------------------------------
(* The socket.                                                             *)

fiberState == <<job, phase, bound, sinks, wrote, resp, cut, over>>

\* A step on the wire of r is of no concern to the others.
LEMMA WireOnly ==
  ASSUME NEW r \in Requests, UNCHANGED fiberState,
         \A q \in Requests \ {r} :
           /\ queue'[q] = queue[q] /\ slow'[q] = slow[q] /\ line'[q] = line[q]
           /\ body'[q] = body[q] /\ (q \in gone' <=> q \in gone)
  PROVE  OnlyFor(r) /\ UNCHANGED <<job, phase, bound, sinks, wrote, resp, cut, over>>
BY DEF OnlyFor, fiberState

\* A step that moves bytes towards the client, or a send into the line.
LEMMA StreamMoves ==
  ASSUME NEW r \in Requests, Streamed(r), UNCHANGED fiberState,
         SentUpTo(r)' = SentUpTo(r), AllSends(r)' = AllSends(r),
         Chained(r)', Complete(r)', OneSend(r)',
         resp[r] = "none" => body'[r] = <<>> /\ queue'[r] = <<>>
  PROVE  Streamed(r)'
<1>1. UNCHANGED <<job, phase, bound, wrote, resp, over>>
  BY DEF fiberState
<1>2. AllSent(r)' <=> AllSent(r)
  BY <1>1 DEF AllSent
<1>3. \A a \in Addresses : Progress(r, a) => Progress(r, a)'
  BY <1>1, <1>2 DEF Progress, Run
<1>4. Untouched(r)' <=> Untouched(r)
  BY <1>1 DEF Untouched
<1>5. \A a \in Addresses : job'[a] = r => Progress(r, a)'
  BY <1>1, <1>3 DEF Streamed
<1> QED
  BY <1>1, <1>2, <1>4, <1>5 DEF Streamed

\* A send that waited goes into the queue.
LEMMA FrameSent ==
  ASSUME OutputInv, NEW r \in Requests, r \notin gone, NEW s \in AllSends(r),
         UNCHANGED fiberState, UNCHANGED gone, body'[r] = body[r],
         queue'[r] = Append(queue[r], s.frame),
         AllSends(r)' \subseteq AllSends(r),
         r \notin cut => slow'[r] = {} /\ line'[r] = <<>>
  PROVE  RequestOK(r)'
<1>1. TypeOK /\ RequestOK(r) /\ \A a \in Addresses : AddressOK(a)
  BY DEF OutputInv
<1>2. UNCHANGED <<job, phase, bound, wrote, resp, cut, over, gone>>
  BY DEF fiberState
<1>3. s.frame \in Seq(Bytes) /\ queue[r] \in Seq(Seq(Bytes)) /\ s.for \in Addresses \cup {Nobody}
  BY <1>1, WireTyped DEF Sends
<1>4. Range(queue'[r]) = Range(queue[r]) \cup {s.frame}
  BY <1>3, RangeAppend
<1>5. Own(r)'
  BY <1>1, <1>4 DEF RequestOK, Own
<1>6. Awaited(r)'
  BY <1>1, <1>2 DEF RequestOK, Awaited
<1>7. NothingFor(r)' /\ (r \notin cut' => Ordered(r)')
  BY <1>1, <1>2 DEF RequestOK, NothingFor, Ordered
<1>8. ASSUME r \notin gone' \cup cut' PROVE Streamed(r)'
  <2>1. Streamed(r) /\ slow'[r] = {} /\ line'[r] = <<>>
    BY <1>1, <1>2, <1>8 DEF RequestOK
  <2>2. /\ s.for # Nobody /\ s.frame # <<>>
        /\ Run(r, s.frame, SentUpTo(r)) /\ SentUpTo(r) + Len(s.frame) = wrote[r]
    BY <2>1 DEF Streamed, OneSend
  <2>3. Chained(r)' /\ Complete(r)' /\ SentUpTo(r)' = wrote[r]
    BY <1>1, <1>3, <2>1, <2>2, FrameQueued DEF Streamed
  <2>4. AllSends(r)' = {}
    BY <2>1, RangeEmpty DEF AllSends
  <2>5. AllSent(r)'
    BY <1>2, <2>3, <2>4 DEF AllSent
  <2>6. OneSend(r)'
    BY <2>1, <2>4 DEF OneSend
  <2>7. PICK w \in Addresses : job[w] = r /\ phase[w] \in {"await", "tail"}
    BY <1>1, <1>3, <2>2 DEF RequestOK, Awaited
  <2>8. \A a \in Addresses : job[a] = r <=> a = w
    BY <1>1, <2>7, JobIs
  <2>9. Progress(r, w)
    BY <2>1, <2>7 DEF Streamed
  <2>10. resp[r] = "streaming" /\ Progress(r, w)'
    BY <1>2, <2>5, <2>7, <2>9 DEF Progress
  <2>11. r \notin over
    BY <1>1, <2>7, JobIs
  <2> QED
    BY <1>2, <2>3, <2>5, <2>6, <2>7, <2>8, <2>10, <2>11 DEF Streamed
<1> QED
  BY <1>5, <1>6, <1>7, <1>8 DEF RequestOK

LEMMA SlowSendKeeps ==
  ASSUME OutputInv, NEW r \in Requests, NEW s \in slow[r], SlowSend(r, s)
  PROVE  OutputInv'
<1>1. /\ r \notin gone /\ slow' = [slow EXCEPT ![r] = slow[r] \ {s}]
      /\ UNCHANGED <<job, phase, sinks, bound, wrote, resp, gone, body, cut, over>>
  BY DEF SlowSend, fibers, buffers
<1>2. TypeOK /\ RequestOK(r)
  BY DEF OutputInv
<1>3. UNCHANGED fiberState
  BY <1>1 DEF fiberState
<1>4. s \in AllSends(r) /\ s \in Sends /\ s.frame \in Seq(Bytes)
  BY <1>2, WireTyped DEF AllSends, Sends
<1>5. /\ slow'[r] = slow[r] \ {s} /\ \A q \in Requests \ {r} : slow'[q] = slow[q]
      /\ slow' \in [Requests -> SUBSET Sends]
  BY <1>1, <1>2 DEF TypeOK
<1>6. ASSUME r \notin cut PROVE slow'[r] = {} /\ line[r] = <<>> /\ slow[r] = {s}
  BY <1>1, <1>2, <1>5, <1>6 DEF RequestOK, Streamed, OneSend
<1>7. CASE Room(r)
  <2>1. queue' = [queue EXCEPT ![r] = Append(queue[r], s.frame)] /\ line' = line
    BY <1>7 DEF SlowSend
  <2>2. /\ queue'[r] = Append(queue[r], s.frame)
        /\ \A q \in Requests \ {r} : queue'[q] = queue[q]
    BY <1>2, <2>1 DEF TypeOK
  <2>3. TypeOK'
    <3>1. /\ queue' \in [Requests -> Seq(Seq(Bytes))]
          /\ \A q \in Requests : Len(queue'[q]) <= Chunks
      BY <1>2, <1>4, <1>7, <2>1, QueueTyped DEF Room
    <3> QED
      BY <1>1, <1>2, <1>5, <2>1, <3>1 DEF TypeOK
  <2>4. AllSends(r)' \subseteq AllSends(r)
    BY <1>5, <2>1 DEF AllSends
  <2>5. RequestOK(r)'
    BY <1>1, <1>3, <1>4, <1>6, <2>1, <2>2, <2>4, FrameSent
  <2>6. OnlyFor(r)
    BY <1>1, <1>3, <1>5, <2>1, <2>2, WireOnly
  <2> QED
    BY <1>1, <2>3, <2>5, <2>6, WireStep
<1>8. CASE ~Room(r)
  <2>1. line' = [line EXCEPT ![r] = Append(line[r], s)] /\ queue' = queue
    BY <1>8 DEF SlowSend
  <2>2. line[r] \in Seq(Sends)
    BY <1>2, WireTyped
  <2>3. Append(line[r], s) \in Seq(Sends) /\ Range(Append(line[r], s)) = Range(line[r]) \cup {s}
    BY <1>4, <2>2, RangeAppend
  <2>4. /\ line'[r] = Append(line[r], s) /\ \A q \in Requests \ {r} : line'[q] = line[q]
        /\ line' \in [Requests -> Seq(Sends)]
    BY <1>2, <2>1, <2>3 DEF TypeOK
  <2>5. TypeOK'
    BY <1>1, <1>2, <1>5, <2>1, <2>4 DEF TypeOK
  <2>6. AllSends(r)' = AllSends(r)
    BY <1>5, <2>3, <2>4 DEF AllSends
  <2>7. OnlyFor(r)
    BY <1>1, <1>3, <1>5, <2>1, <2>4, WireOnly
  <2>8. /\ SentUpTo(r)' = SentUpTo(r)
        /\ Chained(r)' <=> Chained(r)
        /\ Complete(r)' <=> Complete(r)
        /\ Ordered(r)' <=> Ordered(r)
    BY <1>1, <2>1, SameWire
  <2>9. Own(r)' /\ Awaited(r)' /\ NothingFor(r)' /\ (r \notin cut' => Ordered(r)')
    BY <1>1, <1>2, <2>1, <2>6, <2>8 DEF RequestOK, Own, Awaited, NothingFor
  <2>10. ASSUME r \notin gone' \cup cut' PROVE Streamed(r)'
    <3>1. Streamed(r) /\ slow'[r] = {} /\ line[r] = <<>>
      BY <1>1, <1>2, <1>6, <2>10 DEF RequestOK
    <3>2. Len(line'[r]) = 1
      BY <2>2, <2>4, <3>1, <1>4
    <3>3. OneSend(r)'
      BY <1>1, <2>6, <2>8, <3>1, <3>2 DEF Streamed, OneSend, Run
    <3> QED
      BY <1>1, <1>3, <2>1, <2>6, <2>8, <3>1, <3>3, StreamMoves DEF Streamed
  <2>11. RequestOK(r)'
    BY <2>9, <2>10 DEF RequestOK
  <2> QED
    BY <1>1, <2>5, <2>7, <2>11, WireStep
<1> QED
  BY <1>7, <1>8

LEMMA AdmittedKeeps ==
  ASSUME OutputInv, NEW r \in Requests, SlowAdmitted(r)
  PROVE  OutputInv'
<1>1. /\ line[r] # <<>> /\ r \notin gone /\ Len(queue[r]) < Chunks
      /\ queue' = [queue EXCEPT ![r] = Append(queue[r], Head(line[r]).frame)]
      /\ line' = [line EXCEPT ![r] = Tail(line[r])]
      /\ UNCHANGED <<job, phase, sinks, bound, wrote, resp, gone, slow, body, cut, over>>
  BY DEF SlowAdmitted, fibers, buffers
<1>2. TypeOK /\ RequestOK(r) /\ line[r] \in Seq(Sends)
  BY WireTyped DEF OutputInv
<1>3. UNCHANGED fiberState
  BY <1>1 DEF fiberState
<1>4. /\ Range(line[r]) = {Head(line[r])} \cup Range(Tail(line[r]))
      /\ Head(line[r]) \in Sends /\ Tail(line[r]) \in Seq(Sends)
      /\ Len(Tail(line[r])) = Len(line[r]) - 1 /\ Len(line[r]) \in Nat \ {0}
  BY <1>1, <1>2, RangeTail
<1>5. PICK s \in Sends : s = Head(line[r])
  BY <1>4
<1>6. s.frame \in Seq(Bytes) /\ s \in AllSends(r)
  BY <1>4, <1>5 DEF Sends, AllSends
<1>7. /\ queue'[r] = Append(queue[r], s.frame) /\ \A q \in Requests \ {r} : queue'[q] = queue[q]
      /\ line'[r] = Tail(line[r]) /\ \A q \in Requests \ {r} : line'[q] = line[q]
      /\ line' \in [Requests -> Seq(Sends)]
  BY <1>1, <1>2, <1>4, <1>5 DEF TypeOK
<1>8. TypeOK'
  <2>1. /\ queue' \in [Requests -> Seq(Seq(Bytes))]
        /\ \A q \in Requests : Len(queue'[q]) <= Chunks
    BY <1>1, <1>2, <1>5, <1>6, QueueTyped
  <2> QED
    BY <1>1, <1>2, <1>7, <2>1 DEF TypeOK
<1>9. AllSends(r)' \subseteq AllSends(r)
  BY <1>1, <1>4, <1>7 DEF AllSends
<1>10. ASSUME r \notin cut PROVE slow'[r] = {} /\ line'[r] = <<>>
  <2>1. OneSend(r)
    BY <1>1, <1>2, <1>10 DEF RequestOK, Streamed
  <2>2. slow[r] = {} /\ Len(line[r]) <= 1
    BY <1>1, <2>1 DEF OneSend
  <2>3. Len(line'[r]) = 0 /\ line'[r] \in Seq(Sends)
    <3>1. PICK n \in Nat : n = Len(line[r]) /\ n # 0 /\ n <= 1
      BY <1>4, <2>2
    <3>2. n # 0 /\ n <= 1
      BY <3>1
    <3>3. n = 1
      BY <3>2
    <3>4. Len(line'[r]) = n - 1 /\ line'[r] \in Seq(Sends)
      BY <1>4, <1>7, <3>1, Zenon
    <3> QED
      BY <3>3, <3>4
  <2> QED
    BY <1>1, <2>2, <2>3
<1>11. RequestOK(r)'
  BY <1>1, <1>3, <1>6, <1>7, <1>9, <1>10, FrameSent
<1>12. OnlyFor(r)
  BY <1>1, <1>3, <1>7, WireOnly
<1> QED
  BY <1>1, <1>8, <1>11, <1>12, WireStep

LEMMA FailKeeps ==
  ASSUME OutputInv, NEW r \in Requests, SlowFail(r)
  PROVE  OutputInv'
<1>1. /\ r \in gone
      /\ slow' = [slow EXCEPT ![r] = {}] /\ line' = [line EXCEPT ![r] = <<>>]
      /\ UNCHANGED <<job, phase, sinks, bound, wrote, resp, gone, queue, body, cut, over>>
  BY DEF SlowFail, fibers, buffers
<1>2. TypeOK /\ RequestOK(r)
  BY DEF OutputInv
<1>3. UNCHANGED fiberState
  BY <1>1 DEF fiberState
<1>4. /\ slow'[r] = {} /\ \A q \in Requests \ {r} : slow'[q] = slow[q]
      /\ line'[r] = <<>> /\ \A q \in Requests \ {r} : line'[q] = line[q]
      /\ line' \in [Requests -> Seq(Sends)] /\ slow' \in [Requests -> SUBSET Sends]
  BY <1>1, <1>2 DEF TypeOK
<1>5. TypeOK'
  BY <1>1, <1>2, <1>4 DEF TypeOK
<1>6. AllSends(r)' = {}
  BY <1>4, RangeEmpty DEF AllSends
<1>7. Own(r)' /\ Awaited(r)' /\ NothingFor(r)' /\ (r \notin cut' => Ordered(r)')
  BY <1>1, <1>2, <1>6 DEF RequestOK, Own, Awaited, NothingFor, Ordered
<1>8. RequestOK(r)'
  BY <1>1, <1>7 DEF RequestOK
<1>9. OnlyFor(r)
  BY <1>1, <1>3, <1>4, WireOnly
<1> QED
  BY <1>1, <1>5, <1>8, <1>9, WireStep

LEMMA LeaveKeeps ==
  ASSUME OutputInv, NEW r \in Requests, Leave(r)
  PROVE  OutputInv'
<1>1. /\ gone' = gone \cup {r} /\ queue' = [queue EXCEPT ![r] = <<>>]
      /\ UNCHANGED <<job, phase, sinks, bound, wrote, resp, slow, line, body, cut, over>>
  BY DEF Leave, fibers, buffers, sends
<1>2. TypeOK /\ RequestOK(r)
  BY DEF OutputInv
<1>3. UNCHANGED fiberState
  BY <1>1 DEF fiberState
<1>4. /\ queue'[r] = <<>> /\ \A q \in Requests \ {r} : queue'[q] = queue[q]
      /\ queue' \in [Requests -> Seq(Seq(Bytes))]
  BY <1>1, <1>2 DEF TypeOK
<1>5. TypeOK'
  <2>1. Len(queue'[r]) <= Chunks
    BY <1>4, OutputConstants
  <2> QED
    BY <1>1, <1>2, <1>4, <2>1 DEF TypeOK
<1>6. AllSends(r)' = AllSends(r)
  BY <1>1 DEF AllSends
<1>7. Own(r)' /\ Awaited(r)' /\ NothingFor(r)' /\ (r \notin cut' => Ordered(r)')
  BY <1>1, <1>2, <1>4, <1>6, RangeEmpty DEF RequestOK, Own, Awaited, NothingFor, Ordered
<1>8. RequestOK(r)'
  BY <1>1, <1>7 DEF RequestOK
<1>9. OnlyFor(r)
  BY <1>1, <1>3, <1>4, WireOnly
<1> QED
  BY <1>1, <1>5, <1>8, <1>9, WireStep

LEMMA ReceiveKeeps ==
  ASSUME OutputInv, NEW r \in Requests, Receive(r)
  PROVE  OutputInv'
<1>1. /\ queue[r] # <<>>
      /\ body' = [body EXCEPT ![r] = body[r] \o Head(queue[r])]
      /\ queue' = [queue EXCEPT ![r] = Tail(queue[r])]
      /\ UNCHANGED <<job, phase, sinks, bound, wrote, resp, gone, slow, line, cut, over>>
  BY DEF Receive, fibers, buffers, sends
<1>2. TypeOK /\ RequestOK(r) /\ queue[r] \in Seq(Seq(Bytes)) /\ body[r] \in Seq(Bytes)
  BY WireTyped DEF OutputInv
<1>3. UNCHANGED fiberState
  BY <1>1 DEF fiberState
<1>4. /\ Range(queue[r]) = {Head(queue[r])} \cup Range(Tail(queue[r]))
      /\ Head(queue[r]) \in Seq(Bytes) /\ Tail(queue[r]) \in Seq(Seq(Bytes))
      /\ Len(Tail(queue[r])) = Len(queue[r]) - 1 /\ Len(queue[r]) \in Nat \ {0}
  BY <1>1, <1>2, RangeTail
<1>5. PICK f \in Seq(Bytes) : f = Head(queue[r])
  BY <1>4
<1>6. body[r] \o f \in Seq(Bytes) /\ Range(body[r] \o f) = Range(body[r]) \cup Range(f)
  BY <1>2, RangeConcat
<1>7. /\ queue'[r] = Tail(queue[r]) /\ \A q \in Requests \ {r} : queue'[q] = queue[q]
      /\ queue' \in [Requests -> Seq(Seq(Bytes))]
  BY <1>1, <1>2, <1>4 DEF TypeOK
<1>8. /\ body'[r] = body[r] \o f /\ \A q \in Requests \ {r} : body'[q] = body[q]
      /\ body' \in [Requests -> Seq(Bytes)]
  BY <1>1, <1>2, <1>5, <1>6 DEF TypeOK
<1>9. TypeOK'
  <2>1. Len(queue[r]) <= Chunks
    BY <1>2 DEF TypeOK
  <2>2. Len(queue'[r]) <= Chunks
    BY <1>4, <1>7, <2>1, OutputConstants
  <2> QED
    BY <1>1, <1>2, <1>7, <1>8, <2>2 DEF TypeOK
<1>10. AllSends(r)' = AllSends(r)
  BY <1>1 DEF AllSends
<1>11. r \notin gone
  BY <1>1, <1>2 DEF RequestOK, NothingFor
<1>12. Own(r)'
  BY <1>2, <1>4, <1>5, <1>6, <1>7, <1>8, <1>10 DEF RequestOK, Own
<1>13. Awaited(r)' /\ NothingFor(r)'
  BY <1>1, <1>2, <1>10, <1>11 DEF RequestOK, Awaited, NothingFor
<1>14. ASSUME r \notin cut' PROVE Ordered(r)' /\ Streamed(r)'
  <2>1. Streamed(r) /\ Ordered(r)
    BY <1>1, <1>2, <1>11, <1>14 DEF RequestOK
  <2>2. /\ Chained(r)' /\ Complete(r)' /\ Ordered(r)'
        /\ SentUpTo(r)' = SentUpTo(r)
    BY <1>1, <1>2, <1>5, <1>7, <1>8, <2>1, FrameReceived DEF Streamed
  <2>3. OneSend(r)'
    BY <1>1, <1>10, <2>1, <2>2 DEF Streamed, OneSend, Run
  <2>4. resp[r] # "none"
    BY <1>1, <2>1 DEF Streamed
  <2> QED
    BY <1>3, <1>10, <2>1, <2>2, <2>3, <2>4, StreamMoves
<1>15. RequestOK(r)'
  BY <1>12, <1>13, <1>14 DEF RequestOK
<1>16. OnlyFor(r)
  BY <1>1, <1>3, <1>7, <1>8, WireOnly
<1> QED
  BY <1>1, <1>9, <1>15, <1>16, WireStep

-----------------------------------------------------------------------------
(* Steps that send.                                                        *)

\* A fiber with a stream bound that is not in a wait produces it.
LEMMA Producing ==
  ASSUME OutputInv, NEW a \in Addresses, phase[a] \notin {"await"}, bound[a].id # Nobody
  PROVE  /\ phase[a] = "produce" /\ job[a] \in Requests /\ bound[a].id = job[a]
         /\ bound[a] \in Bindings /\ bound[a].pending \in Seq(Bytes) /\ bound[a].started \in BOOLEAN
         /\ \A c \in Range(bound[a].pending) : c[1] = job[a]
<1>1. TypeOK /\ AddressOK(a)
  BY DEF OutputInv
<1>2. phase[a] = "produce" /\ bound[a].id = job[a]
  BY <1>1 DEF AddressOK, FiberOK
<1>3. job[a] \in Requests
  BY <1>1, <1>2, JobIs
<1>4. bound[a] \in Bindings
  BY <1>1 DEF TypeOK, Bindings
<1> QED
  BY <1>1, <1>2, <1>3, <1>4 DEF AddressOK, OwnOutput, Bindings

\* What is pending, and the next byte after it, was written by the request
\* and continues what was sent.
LEMMA FrameIs ==
  ASSUME OutputInv, NEW a \in Addresses, Writes(a), bound[a].id # Nobody,
         NEW frame, frame = bound[a].pending \o NextByte(a)
  PROVE  /\ frame \in Seq(Bytes) /\ frame # <<>> /\ \A c \in Range(frame) : c[1] = job[a]
         /\ job[a] \notin gone \cup cut =>
              /\ Run(job[a], frame, SentUpTo(job[a]))
              /\ SentUpTo(job[a]) + Len(frame) = wrote[job[a]] + 1
<1>1. TypeOK /\ AddressOK(a)
  BY DEF OutputInv
<1>2. PICK t \in Seq(Bytes), u \in Seq(Bytes), r \in Requests, m \in Nat :
        t = bound[a].pending /\ u = NextByte(a) /\ r = job[a] /\ m = wrote[r]
  BY <1>1, ByteTyped, WireTyped
<1>3. /\ Len(u) = 1 /\ u[1] = <<r, m + 1>> /\ frame = t \o u
      /\ frame \in Seq(Bytes) /\ frame # <<>> /\ Len(frame) = Len(t) + 1
  BY <1>1, <1>2, ByteTyped
<1>4. /\ Range(t \o u) = Range(t) \cup Range(u)
      /\ \A k \in DOMAIN t : (t \o u)[k] = t[k]
      /\ \A k \in DOMAIN u : (t \o u)[Len(t) + k] = u[k]
      /\ \A k \in DOMAIN (t \o u) : k \in DOMAIN t \/ k - Len(t) \in DOMAIN u
  BY RangeConcat
<1>5. DOMAIN u = {1} /\ Range(u) = {<<r, m + 1>>}
  <2>1. DOMAIN u = 1 .. Len(u) /\ 1 .. 1 = {1}
    OBVIOUS
  <2>2. DOMAIN u = {1}
    BY <1>3, <2>1, Zenon
  <2>3. Range(u) = {u[1]}
    BY <2>2 DEF Range
  <2> QED
    BY <1>3, <2>2, <2>3, Zenon
<1>6. phase[a] = "produce" /\ \A c \in Range(t) : c[1] = r
  BY <1>2, Producing DEF Writes, Live
<1>7. \A c \in Range(frame) : c[1] = r
  BY <1>3, <1>4, <1>5, <1>6
<1>8. ASSUME r \notin gone \cup cut
      PROVE  Run(r, frame, SentUpTo(r)) /\ SentUpTo(r) + Len(frame) = m + 1
  <2>1. Progress(r, a) /\ Chained(r)
    BY <1>2, <1>8 DEF OutputInv, RequestOK, Streamed
  <2>2. SentUpTo(r) \in Nat
    <3>1. Len(queue[r]) + 1 \in 1 .. (Len(queue[r]) + 1)
      BY <1>1, WireTyped
    <3> QED
      BY <1>1, <2>1, <3>1, SentIsNat DEF SentUpTo
  <2>3. PICK n \in Nat : n = SentUpTo(r)
    BY <2>2
  <2>4. PICK l \in Nat : l = Len(t)
    OBVIOUS
  <2>5. Run(r, t, n) /\ n + l = m /\ Len(frame) = l + 1
    BY <1>2, <1>3, <1>6, <2>1, <2>3, <2>4 DEF Progress
  <2>6. ASSUME NEW i \in DOMAIN frame PROVE frame[i] = <<r, n + i>>
    <3>1. CASE i \in DOMAIN t
      BY <1>3, <1>4, <2>5, <3>1 DEF Run
    <3>2. CASE i - Len(t) \in DOMAIN u
      <4>1. i \in Nat
        <5>1. DOMAIN frame = 1 .. Len(frame)
          BY <1>3
        <5> QED
          BY <2>5, <5>1
      <4>2. i = l + 1 /\ n + i = m + 1
        BY <1>5, <2>4, <2>5, <3>2, <4>1
      <4>3. frame[i] = <<r, m + 1>>
        BY <1>3, <1>4, <1>5, <2>4, <4>2
      <4> QED
        BY <4>2, <4>3
    <3> QED
      BY <1>3, <1>4, <3>1, <3>2
  <2>7. n + Len(frame) = m + 1
    BY <2>5
  <2> QED
    BY <2>3, <2>6, <2>7 DEF Run
<1> QED
  BY <1>2, <1>3, <1>7, <1>8

\* A push of a frame is of no concern to others, or to a client that left.
LEMMA PushDoes ==
  ASSUME OutputInv, NEW a \in Addresses, bound[a].id # Nobody, phase[a] # "await",
         NEW r \in Requests, r = job[a], NEW frame \in Seq(Bytes), Pushed(bound[a], frame)
  PROVE  /\ \A q \in Requests \ {r} : queue'[q] = queue[q] /\ resp'[q] = resp[q]
         /\ Push(bound[a], frame).sent => queue'[r] = Append(queue[r], frame)
         /\ ~Push(bound[a], frame).sent => queue'[r] = queue[r]
         /\ queue'[r] \in {queue[r], Append(queue[r], frame)}
         /\ r \in gone => queue'[r] = queue[r]
<1>1. TypeOK
  BY DEF OutputInv
<1>2. PICK b \in Bindings : b = bound[a] /\ b.id = r
  BY Producing
<1>3. /\ resp' = IF ~b.started /\ Opens(r) THEN [resp EXCEPT ![r] = "streaming"] ELSE resp
      /\ queue' = IF Push(b, frame).sent THEN [queue EXCEPT ![r] = Append(queue[r], frame)] ELSE queue
  BY <1>2 DEF Pushed
<1>4. \A q \in Requests \ {r} : queue'[q] = queue[q] /\ resp'[q] = resp[q]
  BY <1>1, <1>3 DEF TypeOK
<1>5. /\ Push(b, frame).sent => queue'[r] = Append(queue[r], frame)
      /\ ~Push(b, frame).sent => queue'[r] = queue[r]
  BY <1>1, <1>3 DEF TypeOK
<1>6. r \in gone => ~Push(b, frame).sent
  BY <1>2 DEF Push
<1> QED
  BY <1>2, <1>4, <1>5, <1>6

\* One that continues what was sent finds the response open or opens it, and
\* puts the frame into the queue or gives it back.
LEMMA PushQueues ==
  ASSUME OutputInv, NEW a \in Addresses, bound[a].id # Nobody, phase[a] # "await",
         NEW r \in Requests, r = job[a], NEW frame \in Seq(Bytes), frame # <<>>,
         Push(bound[a], frame).sent => queue'[r] = Append(queue[r], frame),
         ~Push(bound[a], frame).sent => queue'[r] = queue[r], body' = body,
         r \notin gone \cup cut, Run(r, frame, SentUpTo(r))
  PROVE  /\ (bound[a].started /\ resp[r] = "streaming") \/ (~bound[a].started /\ Opens(r))
         /\ Push(bound[a], frame).started
         /\ Chained(r)' /\ Complete(r)'
         /\ \/ Push(bound[a], frame).back = <<>> /\ SentUpTo(r)' = SentUpTo(r) + Len(frame)
            \/ Push(bound[a], frame).back = frame /\ SentUpTo(r)' = SentUpTo(r)
<1>1. TypeOK
  BY DEF OutputInv
<1>2. PICK b \in Bindings : b = bound[a]
  BY Producing
<1>3. phase[a] = "produce" /\ b.id = r /\ b.started \in BOOLEAN
  BY <1>2, Producing
<1>4. Streamed(r) /\ Progress(r, a)
  BY DEF OutputInv, RequestOK, Streamed
<1>5. resp[r] = IF b.started THEN "streaming" ELSE "none"
  BY <1>2, <1>3, <1>4 DEF Progress
<1>6. (b.started /\ resp[r] = "streaming") \/ (~b.started /\ Opens(r))
  BY <1>5 DEF Opens
<1>7. Push(b, frame).started
  BY <1>3, <1>6 DEF Push
<1>8. CASE Push(b, frame).sent
  <2>1. Push(b, frame).back = <<>>
    BY <1>8 DEF Push
  <2>2. Chained(r)' /\ Complete(r)' /\ SentUpTo(r)' = SentUpTo(r) + Len(frame)
    BY <1>1, <1>2, <1>4, <1>8, FrameQueued DEF Streamed
  <2> QED
    BY <1>2, <1>6, <1>7, <2>1, <2>2
<1>9. CASE ~Push(b, frame).sent
  <2>1. Push(b, frame).back = frame
    BY <1>3, <1>6, <1>9 DEF Push
  <2>2. Chained(r)' /\ Complete(r)' /\ SentUpTo(r)' = SentUpTo(r)
    BY <1>2, <1>4, <1>9, SameWire DEF Streamed
  <2> QED
    BY <1>2, <1>6, <1>7, <2>1, <2>2
<1> QED
  BY <1>8, <1>9

LEMMA PushSends ==
  ASSUME OutputInv, NEW a \in Addresses, bound[a].id # Nobody, phase[a] # "await",
         NEW r \in Requests, r = job[a], NEW frame \in Seq(Bytes), frame # <<>>,
         Pushed(bound[a], frame), body' = body,
         r \notin gone \cup cut, Run(r, frame, SentUpTo(r))
  PROVE  /\ Push(bound[a], frame).started /\ resp'[r] = "streaming"
         /\ Chained(r)' /\ Complete(r)'
         /\ \/ Push(bound[a], frame).back = <<>> /\ SentUpTo(r)' = SentUpTo(r) + Len(frame)
            \/ Push(bound[a], frame).back = frame /\ SentUpTo(r)' = SentUpTo(r)
<1>1. TypeOK
  BY DEF OutputInv
<1>2. PICK b \in Bindings : b = bound[a] /\ b.id = r
  BY Producing
<1>3. /\ Push(bound[a], frame).sent => queue'[r] = Append(queue[r], frame)
      /\ ~Push(bound[a], frame).sent => queue'[r] = queue[r]
  BY PushDoes
<1>4. /\ (bound[a].started /\ resp[r] = "streaming") \/ (~bound[a].started /\ Opens(r))
      /\ Push(bound[a], frame).started
      /\ Chained(r)' /\ Complete(r)'
      /\ \/ Push(bound[a], frame).back = <<>> /\ SentUpTo(r)' = SentUpTo(r) + Len(frame)
         \/ Push(bound[a], frame).back = frame /\ SentUpTo(r)' = SentUpTo(r)
  BY <1>3, PushQueues
<1>5. resp' = IF ~b.started /\ Opens(r) THEN [resp EXCEPT ![r] = "streaming"] ELSE resp
  BY <1>2 DEF Pushed
<1>6. resp'[r] = "streaming"
  BY <1>1, <1>2, <1>4, <1>5 DEF TypeOK
<1> QED
  BY <1>4, <1>6

\* The conditions under which a step of a producer that may send a frame, or
\* wait for room for it, keeps the invariant.
LEMMA SendStep ==
  ASSUME OutputInv, TypeOK', NEW a \in Addresses, phase[a] = "produce", NEW r, r = job[a],
         UNCHANGED <<job, sinks, gone, line, body, cut, over>>,
         \A q \in Requests \ {r} : /\ queue'[q] = queue[q] /\ slow'[q] = slow[q]
                                   /\ wrote'[q] = wrote[q] /\ resp'[q] = resp[q],
         \A b \in Addresses \ {a} : phase'[b] = phase[b] /\ bound'[b] = bound[b],
         NEW frame \in Seq(Bytes), \A c \in Range(frame) : c[1] = r,
         queue'[r] \in {queue[r], Append(queue[r], frame)},
         r \in gone => queue'[r] = queue[r],
         \/ slow'[r] = slow[r]
         \/ /\ slow'[r] = slow[r] \cup {[frame |-> frame, for |-> a]}
            /\ phase'[a] \in {"await", "tail"},
         AddressOK(a)',
         r \notin gone \cup cut =>
           /\ Chained(r)' /\ Complete(r)' /\ OneSend(r)' /\ Progress(r, a)'
           /\ resp'[r] = "none" => body'[r] = <<>> /\ queue'[r] = <<>> /\ AllSends(r)' = {}
           /\ resp'[r] = "ended" => AllSent(r)'
  PROVE  OutputInv'
<1>1. TypeOK /\ AddressOK(a) /\ \A q \in Requests : RequestOK(q)
  BY DEF OutputInv
<1>2. r \in Requests /\ r \notin over /\ \A b \in Addresses : job[b] = r <=> b = a
  BY <1>1, JobIs
<1>3. OnlyFor(r)
  BY <1>2 DEF OnlyFor
<1>4. RequestOK(r) /\ queue[r] \in Seq(Seq(Bytes))
  BY <1>1, <1>2, WireTyped
<1>5. \A f \in Range(queue'[r]) : f \in Range(queue[r]) \/ f = frame
  <2>1. Range(Append(queue[r], frame)) = Range(queue[r]) \cup {frame}
    BY <1>4, RangeAppend
  <2> QED
    BY <2>1, Zenon
<1>6. \A s \in AllSends(r)' :
        \/ s \in AllSends(r)
        \/ /\ s = [frame |-> frame, for |-> a]
           /\ phase'[a] \in {"await", "tail"}
  BY DEF AllSends
<1>7. Own(r)'
  BY <1>4, <1>5, <1>6 DEF RequestOK, Own
<1>8. Awaited(r)'
  <2>1. \A s \in AllSends(r) : s.for = Nobody
    BY WaiterIs
  <2> QED
    BY <1>6, <2>1 DEF Awaited
<1>9. NothingFor(r)' /\ (r \notin cut' => Ordered(r)')
  BY <1>4 DEF RequestOK, NothingFor, Ordered
<1>10. ASSUME r \notin gone' \cup cut' PROVE Streamed(r)'
  <2>1. /\ Chained(r)' /\ Complete(r)' /\ OneSend(r)' /\ Progress(r, a)'
        /\ resp'[r] = "none" => body'[r] = <<>> /\ queue'[r] = <<>> /\ AllSends(r)' = {}
        /\ resp'[r] = "ended" => AllSent(r)'
    BY <1>10
  <2>2. \A b \in Addresses : job'[b] = r <=> b = a
    BY <1>2
  <2> QED
    BY <1>2, <2>1, <2>2 DEF Streamed
<1>11. RequestOK(r)'
  BY <1>7, <1>8, <1>9, <1>10 DEF RequestOK
<1> QED
  BY <1>2, <1>3, <1>11, FiberStep

\* A binding of the same request, with its own bytes.
LEMMA BindingKeeps ==
  ASSUME OutputInv, NEW a \in Addresses, phase[a] = "produce", NEW b, b.id = job[a],
         \A c \in Range(b.pending) : c[1] = job[a],
         bound'[a] = b, phase'[a] \in {"produce", "await"}, UNCHANGED <<job, sinks, over>>
  PROVE  AddressOK(a)'
<1>1. TypeOK /\ AddressOK(a)
  BY DEF OutputInv
<1>2. job[a] # Nobody
  BY <1>1, JobIs
<1>3. FiberOK(a)'
  BY <1>1, <1>2 DEF AddressOK, FiberOK
<1>4. OwnOutput(a)'
  BY <1>1 DEF AddressOK, OwnOutput
<1> QED
  BY <1>3, <1>4 DEF AddressOK

\* The one send of a request that had none.
LEMMA FirstSend ==
  ASSUME NEW r, NEW a \in Addresses, NEW f, f # <<>>, slow[r] = {}, line[r] = <<>>,
         slow'[r] = {[frame |-> f, for |-> a]}, line'[r] = line[r],
         Run(r, f, SentUpTo(r)'), SentUpTo(r)' + Len(f) = wrote'[r]
  PROVE  OneSend(r)' /\ AllSends(r)' # {}
<1>1. PICK t : t = [frame |-> f, for |-> a]
  OBVIOUS
<1>2. t.frame = f /\ t.for = a /\ a # Nobody
  BY <1>1, NobodyIs DEF NotARequest
<1>3. AllSends(r)' = {t} /\ slow'[r] = {t} /\ line'[r] = <<>>
  BY <1>1, RangeEmpty DEF AllSends
<1>4. Len(line'[r]) <= 1
  BY <1>3
<1> QED
  BY <1>2, <1>3, <1>4 DEF OneSend

\* A push whose leftover stays pending.
LEMMA ReboundKeeps ==
  ASSUME OutputInv, NEW a \in Addresses, bound[a].id # Nobody, phase[a] # "await",
         NEW r \in Requests, r = job[a], NEW frame \in Seq(Bytes), frame # <<>>,
         \A c \in Range(frame) : c[1] = r,
         Pushed(bound[a], frame), bound' = [bound EXCEPT ![a] = Rebound(bound[a], frame)],
         UNCHANGED <<job, phase, sinks, gone, slow, line, body, cut, over>>,
         wrote' \in [Requests -> 0 .. MaxBytes],
         \A q \in Requests \ {r} : wrote'[q] = wrote[q],
         r \notin gone \cup cut =>
           Run(r, frame, SentUpTo(r)) /\ SentUpTo(r) + Len(frame) = wrote'[r]
  PROVE  OutputInv'
<1>1. TypeOK /\ AddressOK(a) /\ \A q \in Requests : RequestOK(q)
  BY DEF OutputInv
<1>2. PICK b \in Bindings : b = bound[a] /\ b.id = r /\ phase[a] = "produce"
  BY Producing
<1>3. r \notin gone \cup cut => OneSend(r)' /\ AllSends(r)' = {}
  <2>1. r \notin gone \cup cut => AllSends(r) = {} /\ slow[r] = {} /\ line[r] = <<>>
    BY <1>2, NoneWaits
  <2>2. r \notin gone \cup cut => AllSends(r)' = {} /\ slow'[r] = {} /\ line'[r] = <<>>
    BY <2>1 DEF AllSends
  <2> QED
    BY <2>2 DEF OneSend
<1>4. /\ Push(b, frame).back \in {<<>>, frame} /\ Rebound(b, frame) \in Bindings
      /\ resp' \in [Requests -> {"none", "streaming", "ended", "answered"}]
      /\ queue' \in [Requests -> Seq(Seq(Bytes))]
      /\ \A q \in Requests : Len(queue'[q]) <= Chunks
  BY <1>1, <1>2, PushTyped
<1>5. /\ bound'[a] = Rebound(b, frame) /\ \A c \in Addresses \ {a} : bound'[c] = bound[c]
      /\ bound' \in [Addresses -> Bindings]
  BY <1>1, <1>2, <1>4 DEF TypeOK, Bindings
<1>6. TypeOK'
  BY <1>1, <1>4, <1>5 DEF TypeOK, Bindings
<1>7. /\ Rebound(b, frame).id = r /\ Rebound(b, frame).pending = Push(b, frame).back
      /\ Rebound(b, frame).started = Push(b, frame).started
  BY <1>2 DEF Rebound, Bindings
<1>8. \A c \in Range(Rebound(b, frame).pending) : c[1] = r
  BY <1>4, <1>7, RangeEmpty
<1>9. AddressOK(a)'
  BY <1>2, <1>5, <1>7, <1>8, BindingKeeps
<1>10. /\ \A q \in Requests \ {r} : queue'[q] = queue[q] /\ resp'[q] = resp[q]
       /\ queue'[r] \in {queue[r], Append(queue[r], frame)}
       /\ r \in gone => queue'[r] = queue[r]
  BY PushDoes
<1>11. ASSUME r \notin gone \cup cut
       PROVE  Chained(r)' /\ Complete(r)' /\ resp'[r] = "streaming" /\ Progress(r, a)'
  <2>1. /\ Push(bound[a], frame).started /\ resp'[r] = "streaming"
        /\ Chained(r)' /\ Complete(r)'
        /\ \/ Push(bound[a], frame).back = <<>> /\ SentUpTo(r)' = SentUpTo(r) + Len(frame)
           \/ Push(bound[a], frame).back = frame /\ SentUpTo(r)' = SentUpTo(r)
    BY <1>11, PushSends
  <2>2. Run(r, frame, SentUpTo(r)) /\ SentUpTo(r) + Len(frame) = wrote'[r]
    BY <1>11
  <2>3. wrote'[r] \in Nat
    BY OutputConstants
  <2>4. /\ Run(r, Push(b, frame).back, SentUpTo(r)')
        /\ SentUpTo(r)' + Len(Push(b, frame).back) = wrote'[r]
    <3>1. CASE Push(b, frame).back = <<>> /\ SentUpTo(r)' = SentUpTo(r) + Len(frame)
      BY <2>2, <2>3, <3>1 DEF Run
    <3>2. CASE Push(b, frame).back = frame /\ SentUpTo(r)' = SentUpTo(r)
      BY <2>2, <3>2
    <3> QED
      BY <1>2, <2>1, <3>1, <3>2
  <2>5. Progress(r, a)'
    BY <1>2, <1>5, <1>7, <2>1, <2>4 DEF Progress
  <2> QED
    BY <2>1, <2>5
<1> QED
  BY <1>2, <1>3, <1>5, <1>6, <1>9, <1>10, <1>11, SendStep

LEMMA EchoKeeps ==
  ASSUME OutputInv, NEW a \in Addresses, EchoBound(a)
  PROVE  OutputInv'
<1>1. TypeOK /\ AddressOK(a) /\ \A q \in Requests : RequestOK(q)
  BY DEF OutputInv
<1>2. /\ Writes(a) /\ bound[a].id # Nobody /\ phase[a] # "await"
      /\ wrote' = [wrote EXCEPT ![job[a]] = wrote[job[a]] + 1]
      /\ UNCHANGED <<job, phase, sinks, gone, slow, line, body, cut, over>>
  BY DEF EchoBound, Writes, Live, fibers, sends
<1>3. PICK b \in Bindings, r \in Requests, frame \in Seq(Bytes) :
        /\ b = bound[a] /\ r = job[a] /\ b.id = r /\ frame = bound[a].pending \o NextByte(a)
        /\ phase[a] = "produce" /\ frame # <<>> /\ wrote[r] + 1 \in 1 .. MaxBytes
  <2>1. /\ job[a] \in Requests /\ bound[a].id = job[a] /\ bound[a] \in Bindings
        /\ bound[a].pending \o NextByte(a) \in Seq(Bytes)
        /\ bound[a].pending \o NextByte(a) # <<>>
        /\ wrote[job[a]] + 1 \in 1 .. MaxBytes
    BY <1>1, <1>2, ByteTyped
  <2>2. phase[a] = "produce"
    BY <1>2, Producing
  <2> QED
    BY <2>1, <2>2, Zenon
<1>4. /\ \A c \in Range(frame) : c[1] = r
      /\ r \notin gone \cup cut =>
           Run(r, frame, SentUpTo(r)) /\ SentUpTo(r) + Len(frame) = wrote[r] + 1
  BY <1>2, <1>3, FrameIs
<1>5. /\ wrote'[r] = wrote[r] + 1 /\ \A q \in Requests \ {r} : wrote'[q] = wrote[q]
      /\ wrote' \in [Requests -> 0 .. MaxBytes]
  <2>1. wrote[r] + 1 \in 0 .. MaxBytes
    BY <1>1, <1>3, OutputConstants DEF TypeOK
  <2> QED
    BY <1>1, <1>2, <1>3, <2>1 DEF TypeOK
<1>6. r \notin gone \cup cut =>
        /\ AllSends(r)' = {} /\ AllSends(r) = {} /\ slow'[r] = {} /\ line'[r] = <<>>
        /\ OneSend(r)' /\ Streamed(r) /\ Progress(r, a)
  <2> SUFFICES ASSUME r \notin gone \cup cut
               PROVE  /\ AllSends(r)' = {} /\ AllSends(r) = {} /\ slow'[r] = {} /\ line'[r] = <<>>
                      /\ OneSend(r)' /\ Streamed(r) /\ Progress(r, a)
    OBVIOUS
  <2>1. AllSends(r) = {} /\ slow[r] = {} /\ line[r] = <<>>
    BY <1>3, NoneWaits
  <2>2. AllSends(r)' = {} /\ slow'[r] = {} /\ line'[r] = <<>>
    BY <1>2, <2>1 DEF AllSends
  <2>3. OneSend(r)'
    BY <2>2 DEF OneSend
  <2> QED
    BY <1>1, <1>3, <2>1, <2>2, <2>3 DEF RequestOK, Streamed
<1>7. CASE Len(frame) >= FrameBytes
  <2>1. Pushed(bound[a], frame) /\ bound' = [bound EXCEPT ![a] = Rebound(bound[a], frame)]
    BY <1>3, <1>7 DEF EchoBound
  <2>2. r \notin gone \cup cut =>
          Run(r, frame, SentUpTo(r)) /\ SentUpTo(r) + Len(frame) = wrote'[r]
    BY <1>4, <1>5
  <2> QED
    <3>1. /\ bound[a].id # Nobody /\ phase[a] # "await" /\ r = job[a] /\ frame # <<>>
          /\ \A c \in Range(frame) : c[1] = r
          /\ UNCHANGED <<job, phase, sinks, gone, slow, line, body, cut, over>>
          /\ wrote' \in [Requests -> 0 .. MaxBytes]
          /\ \A q \in Requests \ {r} : wrote'[q] = wrote[q]
      BY <1>2, <1>3, <1>4, <1>5
    <3> QED
      BY <2>1, <2>2, <3>1, ReboundKeeps
<1>8. CASE ~(Len(frame) >= FrameBytes)
  <2>1. bound' = [bound EXCEPT ![a] = [b EXCEPT !.pending = frame]] /\ UNCHANGED <<resp, queue>>
    BY <1>3, <1>8 DEF EchoBound
  <2>2. PICK nb : nb = [b EXCEPT !.pending = frame]
    OBVIOUS
  <2>3. nb \in Bindings /\ nb.id = r /\ nb.pending = frame /\ nb.started = b.started
    BY <1>3, <2>2 DEF Bindings
  <2>4. /\ bound'[a] = nb /\ \A c \in Addresses \ {a} : bound'[c] = bound[c]
        /\ bound' \in [Addresses -> Bindings]
    BY <1>1, <2>1, <2>2, <2>3 DEF TypeOK, Bindings
  <2>5. TypeOK'
    BY <1>1, <1>2, <1>5, <2>1, <2>4 DEF TypeOK, Bindings
  <2>6. AddressOK(a)'
    BY <1>2, <1>3, <1>4, <2>3, <2>4, BindingKeeps, ZenonT(40)
  <2>7. ASSUME r \notin gone \cup cut
        PROVE  /\ Chained(r)' /\ Complete(r)' /\ Progress(r, a)'
               /\ resp'[r] = "none" => body'[r] = <<>> /\ queue'[r] = <<>>
               /\ resp'[r] # "ended"
    <3>1. Streamed(r) /\ Progress(r, a)
      BY <1>6, <2>7
    <3>2. Chained(r)' /\ Complete(r)' /\ SentUpTo(r)' = SentUpTo(r)
      BY <1>2, <2>1, <3>1, SameWire DEF Streamed
    <3>3. resp'[r] = IF nb.started THEN "streaming" ELSE "none"
      BY <1>3, <2>1, <2>3, <3>1 DEF Progress
    <3>4. Progress(r, a)'
      BY <1>2, <1>3, <1>4, <1>5, <2>3, <2>4, <2>7, <3>2, <3>3 DEF Progress
    <3> QED
      BY <1>2, <2>1, <3>1, <3>2, <3>3, <3>4 DEF Streamed
  <2> QED
    BY <1>2, <1>3, <1>4, <1>5, <1>6, <2>1, <2>4, <2>5, <2>6, <2>7, SendStep, ZenonT(40)
<1> QED
  BY <1>7, <1>8

LEMMA FlushKeeps ==
  ASSUME OutputInv, NEW a \in Addresses, Flush(a)
  PROVE  OutputInv'
<1>1. TypeOK /\ \A q \in Requests : RequestOK(q)
  BY DEF OutputInv
<1>2. /\ bound[a].id # Nobody /\ bound[a].pending # <<>> /\ phase[a] # "await"
      /\ Pushed(bound[a], bound[a].pending)
      /\ bound' = [bound EXCEPT ![a] = Rebound(bound[a], bound[a].pending)]
      /\ UNCHANGED <<job, phase, sinks, wrote, gone, slow, line, body, cut, over>>
  BY DEF Flush, Live, fibers, sends
<1>3. PICK r \in Requests, frame \in Seq(Bytes) :
        /\ r = job[a] /\ frame = bound[a].pending /\ phase[a] = "produce"
        /\ \A c \in Range(frame) : c[1] = r
  BY <1>2, Producing
<1>4. ASSUME r \notin gone \cup cut
      PROVE  Run(r, frame, SentUpTo(r)) /\ SentUpTo(r) + Len(frame) = wrote'[r]
  <2>1. Progress(r, a)
    BY <1>1, <1>3, <1>4 DEF RequestOK, Streamed
  <2> QED
    BY <1>2, <1>3, <2>1 DEF Progress
<1>5. wrote' \in [Requests -> 0 .. MaxBytes]
  BY <1>1, <1>2 DEF TypeOK
<1> QED
  BY <1>2, <1>3, <1>4, <1>5, ReboundKeeps

LEMMA StreamWriteKeeps ==
  ASSUME OutputInv, NEW a \in Addresses, StreamWrite(a)
  PROVE  OutputInv'
<1>1. TypeOK /\ AddressOK(a) /\ \A q \in Requests : RequestOK(q)
  BY DEF OutputInv
<1>2. /\ Writes(a) /\ bound[a].id # Nobody /\ phase[a] # "await"
      /\ wrote' = [wrote EXCEPT ![job[a]] = wrote[job[a]] + 1]
      /\ Pushed(bound[a], WriteFrame(a))
      /\ bound' = [bound EXCEPT ![a] =
           [bound[a] EXCEPT !.started = Push(bound[a], WriteFrame(a)).started, !.pending = <<>>]]
      /\ IF Push(bound[a], WriteFrame(a)).back = <<>>
         THEN UNCHANGED <<phase, slow>>
         ELSE /\ slow' = [slow EXCEPT ![bound[a].id] =
                            Submit(a, bound[a].id, Push(bound[a], WriteFrame(a)).back)]
              /\ phase' = [phase EXCEPT ![a] = "await"]
      /\ UNCHANGED <<job, sinks, gone, line, body, cut, over>>
  BY DEF StreamWrite
<1>3. /\ job[a] \in Requests /\ bound[a].id = job[a] /\ bound[a] \in Bindings
      /\ WriteFrame(a) \in Seq(Bytes) /\ WriteFrame(a) # <<>> /\ phase[a] = "produce"
      /\ wrote[job[a]] + 1 \in 1 .. MaxBytes
  BY <1>1, <1>2, ByteTyped, Producing DEF WriteFrame
<1>4. PICK b \in Bindings, r \in Requests, frame \in Seq(Bytes) :
        b = bound[a] /\ r = job[a] /\ b.id = r /\ frame = WriteFrame(a) /\ frame # <<>>
  BY <1>3, Zenon
<1>5. /\ \A c \in Range(frame) : c[1] = r
      /\ r \notin gone \cup cut =>
           Run(r, frame, SentUpTo(r)) /\ SentUpTo(r) + Len(frame) = wrote[r] + 1
  BY <1>2, <1>4, FrameIs DEF WriteFrame
<1>6. /\ wrote'[r] = wrote[r] + 1 /\ \A q \in Requests \ {r} : wrote'[q] = wrote[q]
      /\ wrote' \in [Requests -> 0 .. MaxBytes] /\ wrote'[r] \in Nat
  <2>1. wrote[r] + 1 \in 0 .. MaxBytes /\ wrote[r] + 1 \in Nat
    BY <1>1, <1>3, <1>4, OutputConstants DEF TypeOK
  <2> QED
    BY <1>1, <1>2, <1>4, <2>1 DEF TypeOK
<1>7. PICK p : p = Push(b, frame)
  OBVIOUS
<1>8. /\ p.back \in {<<>>, frame} /\ p.started \in BOOLEAN
      /\ resp' \in [Requests -> {"none", "streaming", "ended", "answered"}]
      /\ queue' \in [Requests -> Seq(Seq(Bytes))]
      /\ \A q \in Requests : Len(queue'[q]) <= Chunks
  BY <1>1, <1>2, <1>4, <1>7, PushTyped
<1>9. /\ \A q \in Requests \ {r} : queue'[q] = queue[q] /\ resp'[q] = resp[q]
      /\ queue'[r] \in {queue[r], Append(queue[r], frame)}
      /\ r \in gone => queue'[r] = queue[r]
  BY <1>2, <1>4, PushDoes
<1>10. PICK nb : nb = [b EXCEPT !.started = p.started, !.pending = <<>>]
  OBVIOUS
<1>11. nb \in Bindings /\ nb.id = r /\ nb.pending = <<>> /\ nb.started = p.started
  <2>1. <<>> \in Seq(Bytes)
    OBVIOUS
  <2> QED
    BY <1>4, <1>8, <1>10, <2>1 DEF Bindings
<1>12. /\ bound'[a] = nb /\ \A c \in Addresses \ {a} : bound'[c] = bound[c]
       /\ bound' \in [Addresses -> Bindings]
  <2>1. bound' = [bound EXCEPT ![a] = nb]
    BY <1>2, <1>4, <1>7, <1>10
  <2> QED
    BY <1>1, <1>11, <2>1 DEF TypeOK, Bindings
<1>13. ASSUME r \notin gone \cup cut
       PROVE  /\ p.started /\ resp'[r] = "streaming" /\ Chained(r)' /\ Complete(r)'
              /\ \/ p.back = <<>> /\ SentUpTo(r)' = SentUpTo(r) + Len(frame)
                 \/ p.back = frame /\ SentUpTo(r)' = SentUpTo(r)
              /\ Run(r, frame, SentUpTo(r)) /\ SentUpTo(r) + Len(frame) = wrote'[r]
              /\ AllSends(r) = {} /\ slow[r] = {} /\ line[r] = <<>>
  <2>1. Run(r, frame, SentUpTo(r)) /\ SentUpTo(r) + Len(frame) = wrote'[r]
    BY <1>5, <1>6, <1>13
  <2>2. Pushed(bound[a], frame) /\ bound[a].id # Nobody /\ phase[a] # "await" /\ body' = body
    BY <1>2, <1>4
  <2>3. /\ Push(bound[a], frame).started /\ resp'[r] = "streaming"
        /\ Chained(r)' /\ Complete(r)'
        /\ \/ Push(bound[a], frame).back = <<>> /\ SentUpTo(r)' = SentUpTo(r) + Len(frame)
           \/ Push(bound[a], frame).back = frame /\ SentUpTo(r)' = SentUpTo(r)
    BY <1>4, <1>13, <2>1, <2>2, PushSends
  <2>4. AllSends(r) = {} /\ slow[r] = {} /\ line[r] = <<>>
    BY <1>3, <1>4, <1>13, NoneWaits
  <2> QED
    BY <1>4, <1>7, <2>1, <2>3, <2>4, Zenon
<1>14. CASE p.back = <<>>
  <2>1. UNCHANGED <<phase, slow>>
    BY <1>2, <1>4, <1>7, <1>14
  <2>2. TypeOK'
    BY <1>1, <1>2, <1>6, <1>8, <1>12, <2>1 DEF TypeOK, Bindings
  <2>3. AddressOK(a)'
    BY <1>2, <1>3, <1>4, <1>11, <1>12, <2>1, RangeEmpty, BindingKeeps
  <2>4. ASSUME r \notin gone \cup cut PROVE OneSend(r)' /\ Progress(r, a)'
    <3>1. AllSends(r)' = {} /\ slow'[r] = {} /\ line'[r] = <<>>
      BY <1>2, <1>13, <2>1, <2>4 DEF AllSends
    <3>2. OneSend(r)'
      BY <3>1 DEF OneSend
    <3>3. SentUpTo(r)' = wrote'[r]
      BY <1>4, <1>13, <1>14, <2>4
    <3>4. Run(r, <<>>, wrote'[r]) /\ wrote'[r] + Len(<<>>) = wrote'[r]
      BY <1>6 DEF Run
    <3>5. Progress(r, a)'
      BY <1>3, <1>11, <1>12, <1>13, <2>1, <2>4, <3>3, <3>4 DEF Progress
    <3> QED
      BY <3>2, <3>5
  <2> QED
    BY <1>2, <1>3, <1>4, <1>5, <1>6, <1>9, <1>12, <1>13, <2>1, <2>2, <2>3, <2>4, SendStep, SMTT(30)
<1>15. CASE p.back # <<>>
  <2>1. /\ slow' = [slow EXCEPT ![r] = Submit(a, r, frame)] /\ p.back = frame
        /\ phase' = [phase EXCEPT ![a] = "await"]
    BY <1>2, <1>4, <1>7, <1>8, <1>15
  <2>2. slow' \in [Requests -> SUBSET Sends]
    BY <1>1, <2>1, SubmitTyped
  <2>3. TypeOK'
    BY <1>1, <1>2, <1>6, <1>8, <1>12, <2>1, <2>2 DEF TypeOK, Bindings
  <2>4. /\ phase'[a] = "await" /\ \A c \in Addresses \ {a} : phase'[c] = phase[c]
        /\ slow'[r] = slow[r] \cup {[frame |-> frame, for |-> a]}
        /\ \A q \in Requests \ {r} : slow'[q] = slow[q]
    BY <1>1, <2>1 DEF TypeOK, Submit
  <2>5. AddressOK(a)'
    BY <1>2, <1>3, <1>4, <1>11, <1>12, <2>4, RangeEmpty, BindingKeeps, ZenonT(40)
  <2>6. ASSUME r \notin gone \cup cut PROVE OneSend(r)' /\ Progress(r, a)'
    <3>1. SentUpTo(r)' = SentUpTo(r)
      BY <1>13, <1>15, <2>6
    <3>2. OneSend(r)' /\ AllSends(r)' # {}
      BY <1>2, <1>4, <1>13, <2>4, <2>6, <3>1, FirstSend
    <3>3. Progress(r, a)'
      BY <1>11, <1>12, <1>13, <2>4, <2>6, <3>2 DEF Progress
    <3> QED
      BY <3>2, <3>3
  <2> QED
    <3>1. /\ phase[a] = "produce" /\ r = job[a] /\ \A c \in Range(frame) : c[1] = r
          /\ UNCHANGED <<job, sinks, gone, line, body, cut, over>>
      BY <1>2, <1>3, <1>4, <1>5
    <3>2. /\ \A q \in Requests \ {r} : /\ queue'[q] = queue[q] /\ slow'[q] = slow[q]
                                       /\ wrote'[q] = wrote[q] /\ resp'[q] = resp[q]
          /\ \A c \in Addresses \ {a} : phase'[c] = phase[c] /\ bound'[c] = bound[c]
      BY <1>6, <1>9, <1>12, <2>4
    <3>3. r \notin gone \cup cut =>
            /\ Chained(r)' /\ Complete(r)' /\ OneSend(r)' /\ Progress(r, a)'
            /\ resp'[r] = "streaming"
      BY <1>13, <2>6
    <3> QED
      BY <1>9, <2>3, <2>4, <2>5, <3>1, <3>2, <3>3, SendStep
<1> QED
  BY <1>14, <1>15

\* ignis_stream_unbind: what it returns, and what is left of the binding.
LEMMA UnbindIs ==
  ASSUME TypeOK, NEW b \in Bindings, b.id \in Requests
  PROVE  /\ Unbind(b).back \in {<<>>, b.pending} /\ Unbind(b).sent \in BOOLEAN
         /\ Unbind(b).started \in BOOLEAN
         /\ Unbind(b).sent => b.id \notin gone /\ Len(queue[b.id]) < Chunks
<1>1. CASE b.pending = <<>>
  BY <1>1 DEF Unbind, Bindings
<1>2. CASE b.pending # <<>>
  <2>1. Unbind(b) = Push(b, b.pending) /\ b.pending \in Seq(Bytes)
    BY <1>2 DEF Unbind, Bindings
  <2>2. /\ Push(b, b.pending).started \in BOOLEAN /\ Push(b, b.pending).sent \in BOOLEAN
        /\ Push(b, b.pending).back \in {<<>>, b.pending}
    BY <2>1, PushTyped
  <2>3. Push(b, b.pending).sent => b.id \notin gone /\ Len(queue[b.id]) < Chunks
    BY DEF Push, Room
  <2> QED
    BY <2>1, <2>2, <2>3
<1> QED
  BY <1>1, <1>2

LEMMA UnboundKeeps ==
  ASSUME OutputInv, NEW a \in Addresses, phase[a] = "produce",
         bound'[a] = Unbound, phase'[a] \in {"tail", "release"}, UNCHANGED <<job, sinks, over>>
  PROVE  AddressOK(a)'
<1>1. TypeOK /\ AddressOK(a)
  BY DEF OutputInv
<1>2. job[a] # Nobody
  BY <1>1, JobIs
<1>3. Unbound.id = Nobody /\ Unbound.pending = <<>>
  BY DEF Unbound, BoundTo
<1>4. FiberOK(a)'
  BY <1>1, <1>2, <1>3 DEF AddressOK, FiberOK
<1>5. OwnOutput(a)'
  BY <1>1, <1>3, RangeEmpty DEF AddressOK, OwnOutput
<1> QED
  BY <1>4, <1>5 DEF AddressOK

\* What is left to send when the producer is done.
LEMMA TailIs ==
  ASSUME OutputInv, NEW a \in Addresses, phase[a] = "produce", bound[a].id # Nobody,
         NEW r \in Requests, r = job[a], r \notin gone \cup cut,
         NEW frame \in Seq(Bytes), frame = bound[a].pending, NEW u, u = Unbind(bound[a]),
         u.sent => queue'[r] = Append(queue[r], frame), ~u.sent => queue'[r] = queue[r],
         body' = body
  PROVE  /\ Chained(r)' /\ Complete(r)'
         /\ ~u.started => Opens(r) /\ queue'[r] = <<>> /\ body'[r] = <<>>
         /\ u.back = <<>> => SentUpTo(r)' = wrote[r]
         /\ u.back # <<>> => /\ u.back = frame /\ Run(r, frame, SentUpTo(r)')
                             /\ SentUpTo(r)' + Len(frame) = wrote[r]
<1>1. TypeOK
  BY DEF OutputInv
<1>2. Streamed(r) /\ Progress(r, a)
  BY DEF OutputInv, RequestOK, Streamed
<1>3. /\ resp[r] = IF bound[a].started THEN "streaming" ELSE "none"
      /\ Run(r, frame, SentUpTo(r)) /\ SentUpTo(r) + Len(frame) = wrote[r]
  BY <1>2 DEF Progress
<1>4. SentUpTo(r) \in Nat
  <2>1. Len(queue[r]) + 1 \in 1 .. (Len(queue[r]) + 1)
    BY <1>1, WireTyped
  <2> QED
    BY <1>1, <1>2, <2>1, SentIsNat DEF SentUpTo, Streamed
<1>5. CASE frame = <<>>
  <2>1. u = [started |-> bound[a].started, sent |-> FALSE, back |-> <<>>]
    BY <1>5 DEF Unbind
  <2>2. u.started = bound[a].started /\ ~u.sent /\ u.back = <<>>
    BY <2>1
  <2>3. Chained(r)' /\ Complete(r)' /\ SentUpTo(r)' = SentUpTo(r)
    BY <1>2, <2>2, SameWire DEF Streamed
  <2>4. SentUpTo(r) = wrote[r]
    BY <1>3, <1>4, <1>5
  <2>5. ~u.started => Opens(r) /\ queue'[r] = <<>> /\ body'[r] = <<>>
    BY <1>2, <1>3, <2>2 DEF Opens, Streamed
  <2> QED
    BY <2>2, <2>3, <2>4, <2>5
<1>6. CASE frame # <<>>
  <2>1. u = Push(bound[a], frame)
    BY <1>6 DEF Unbind
  <2>2. /\ Push(bound[a], frame).sent => queue'[r] = Append(queue[r], frame)
        /\ ~Push(bound[a], frame).sent => queue'[r] = queue[r]
    BY <2>1
  <2>3. /\ u.started /\ Chained(r)' /\ Complete(r)'
        /\ \/ u.back = <<>> /\ SentUpTo(r)' = SentUpTo(r) + Len(frame)
           \/ u.back = frame /\ SentUpTo(r)' = SentUpTo(r)
    <3>1. phase[a] # "await"
      OBVIOUS
    <3>2. /\ Push(bound[a], frame).started /\ Chained(r)' /\ Complete(r)'
          /\ \/ Push(bound[a], frame).back = <<>> /\ SentUpTo(r)' = SentUpTo(r) + Len(frame)
             \/ Push(bound[a], frame).back = frame /\ SentUpTo(r)' = SentUpTo(r)
      BY <1>3, <1>6, <2>2, <3>1, PushQueues
    <3> QED
      BY <2>1, <3>2, Zenon
  <2> QED
    BY <1>3, <1>6, <2>3
<1> QED
  BY <1>5, <1>6

LEMMA ProducedKeeps ==
  ASSUME OutputInv, NEW a \in Addresses, Produced(a)
  PROVE  OutputInv'
<1>1. TypeOK /\ AddressOK(a) /\ \A q \in Requests : RequestOK(q)
  BY DEF OutputInv
<1>2. phase[a] = "produce" /\ bound[a].id # Nobody
  BY DEF Produced
<1>3. /\ job[a] \in Requests /\ bound[a].id = job[a] /\ bound[a] \in Bindings
      /\ bound[a].pending \in Seq(Bytes) /\ \A c \in Range(bound[a].pending) : c[1] = job[a]
  BY <1>2, Producing
<1>4. PICK b \in Bindings, r \in Requests, frame \in Seq(Bytes) :
        /\ b = bound[a] /\ r = job[a] /\ b.id = r /\ frame = bound[a].pending
        /\ \A c \in Range(frame) : c[1] = r
  BY <1>3, Zenon
<1>5. PICK u : u = Unbind(b)
  OBVIOUS
<1>6. /\ bound' = [bound EXCEPT ![a] = Unbound]
      /\ queue' = IF u.sent THEN [queue EXCEPT ![r] = Append(queue[r], frame)] ELSE queue
      /\ \/ /\ ~u.started /\ resp' = Answered(r) /\ phase' = [phase EXCEPT ![a] = "release"]
            /\ slow' = slow
         \/ /\ u.started /\ u.back = <<>> /\ resp' = [resp EXCEPT ![r] = "ended"]
            /\ phase' = [phase EXCEPT ![a] = "release"] /\ slow' = slow
         \/ /\ u.started /\ u.back # <<>> /\ resp' = [resp EXCEPT ![r] = "streaming"]
            /\ slow' = [slow EXCEPT ![r] = Submit(a, r, u.back)]
            /\ phase' = [phase EXCEPT ![a] = "tail"]
      /\ UNCHANGED <<job, sinks, wrote, gone, line, body, cut, over>>
  BY <1>4, <1>5 DEF Produced
<1>7. /\ u.back \in {<<>>, frame} /\ u.sent \in BOOLEAN
      /\ u.sent => r \notin gone /\ Len(queue[r]) < Chunks
  BY <1>1, <1>4, <1>5, UnbindIs
<1>8. /\ queue' \in [Requests -> Seq(Seq(Bytes))]
      /\ \A q \in Requests : Len(queue'[q]) <= Chunks
  <2>1. CASE u.sent
    BY <1>1, <1>6, <1>7, <2>1, QueueTyped
  <2>2. CASE ~u.sent
    BY <1>1, <1>6, <2>2 DEF TypeOK
  <2> QED
    BY <2>1, <2>2
<1>9. /\ u.sent => queue'[r] = Append(queue[r], frame)
      /\ ~u.sent => queue'[r] = queue[r]
      /\ \A q \in Requests \ {r} : queue'[q] = queue[q]
  BY <1>1, <1>6 DEF TypeOK
<1>10. /\ bound'[a] = Unbound /\ \A c \in Addresses \ {a} : bound'[c] = bound[c]
       /\ bound' \in [Addresses -> Bindings]
  BY <1>1, <1>6, UnboundTyped DEF TypeOK, Bindings, Unbound
<1>11. /\ resp' \in [Requests -> {"none", "streaming", "ended", "answered"}]
       /\ \A q \in Requests \ {r} : resp'[q] = resp[q]
       /\ ~u.started /\ Opens(r) => resp'[r] = "answered"
       /\ u.started /\ u.back = <<>> => resp'[r] = "ended"
       /\ u.started /\ u.back # <<>> => resp'[r] = "streaming"
  BY <1>1, <1>6 DEF TypeOK, Answered
<1>12. /\ phase' \in [Addresses -> {"idle", "handler", "produce", "await", "tail", "release"}]
       /\ \A c \in Addresses \ {a} : phase'[c] = phase[c]
       /\ ~u.started \/ u.back = <<>> => phase'[a] = "release"
       /\ u.started /\ u.back # <<>> => phase'[a] = "tail"
       /\ phase'[a] \in {"release", "tail"}
  BY <1>1, <1>6 DEF TypeOK
<1>13. AddressOK(a)'
  BY <1>2, <1>6, <1>10, <1>12, UnboundKeeps
<1>14. ASSUME r \notin gone \cup cut
       PROVE  /\ Chained(r)' /\ Complete(r)'
              /\ ~u.started => Opens(r)
              /\ u.back = <<>> => SentUpTo(r)' = wrote'[r]
              /\ u.back # <<>> => /\ u.back = frame /\ Run(r, frame, SentUpTo(r)')
                                  /\ SentUpTo(r)' + Len(frame) = wrote'[r]
              /\ slow[r] = {} /\ line[r] = <<>>
  <2>1. slow[r] = {} /\ line[r] = <<>>
    BY <1>2, <1>4, <1>14, NoneWaits
  <2>2. u = Unbind(bound[a]) /\ body' = body /\ wrote' = wrote
    BY <1>4, <1>5, <1>6
  <2>3. /\ Chained(r)' /\ Complete(r)'
        /\ ~u.started => Opens(r)
        /\ u.back = <<>> => SentUpTo(r)' = wrote[r]
        /\ u.back # <<>> => /\ u.back = frame /\ Run(r, frame, SentUpTo(r)')
                            /\ SentUpTo(r)' + Len(frame) = wrote[r]
    BY <1>2, <1>4, <1>9, <1>14, <2>2, TailIs
  <2> QED
    BY <2>1, <2>2, <2>3
<1>15. CASE ~u.started \/ u.back = <<>>
  <2>1. slow' = slow /\ phase'[a] = "release"
    BY <1>6, <1>12, <1>15
  <2>2. TypeOK'
    BY <1>1, <1>6, <1>8, <1>10, <1>11, <1>12, <2>1 DEF TypeOK, Bindings
  <2>3. ASSUME r \notin gone \cup cut
        PROVE  /\ Chained(r)' /\ Complete(r)' /\ OneSend(r)' /\ Progress(r, a)'
               /\ resp'[r] # "none" /\ (resp'[r] = "ended" => AllSent(r)')
    <3>1. slow'[r] = {} /\ line'[r] = <<>> /\ AllSends(r)' = {}
      BY <1>6, <1>14, <2>1, <2>3, RangeEmpty DEF AllSends
    <3>2. OneSend(r)'
      BY <3>1 DEF OneSend
    <3>3. resp'[r] \in {"ended", "answered"} /\ (resp'[r] = "ended" => u.back = <<>>)
      BY <1>11, <1>14, <1>15, <2>3
    <3>4. resp'[r] = "ended" => AllSent(r)'
      BY <1>14, <2>3, <3>1, <3>3 DEF AllSent
    <3>5. Progress(r, a)'
      BY <2>1, <3>3 DEF Progress
    <3> QED
      BY <1>14, <2>3, <3>2, <3>3, <3>4, <3>5
  <2>4. /\ queue'[r] \in {queue[r], Append(queue[r], frame)}
        /\ r \in gone => queue'[r] = queue[r]
    BY <1>7, <1>9
  <2> QED
    <3>1. /\ \A q \in Requests \ {r} : /\ queue'[q] = queue[q] /\ slow'[q] = slow[q]
                                       /\ wrote'[q] = wrote[q] /\ resp'[q] = resp[q]
          /\ \A c \in Addresses \ {a} : phase'[c] = phase[c] /\ bound'[c] = bound[c]
          /\ UNCHANGED <<job, sinks, gone, line, body, cut, over>> /\ slow'[r] = slow[r]
      BY <1>6, <1>9, <1>10, <1>11, <1>12, <2>1
    <3> QED
      BY <1>2, <1>4, <1>13, <2>2, <2>3, <2>4, <3>1, SendStep
<1>16. CASE u.started /\ u.back # <<>>
  <2>1. slow' = [slow EXCEPT ![r] = Submit(a, r, frame)] /\ phase'[a] = "tail" /\ resp'[r] = "streaming"
    BY <1>6, <1>7, <1>11, <1>12, <1>16
  <2>2. slow' \in [Requests -> SUBSET Sends]
    BY <1>1, <2>1, SubmitTyped
  <2>3. TypeOK'
    BY <1>1, <1>6, <1>8, <1>10, <1>11, <1>12, <2>2 DEF TypeOK, Bindings
  <2>4. /\ slow'[r] = slow[r] \cup {[frame |-> frame, for |-> a]}
        /\ \A q \in Requests \ {r} : slow'[q] = slow[q]
    BY <1>1, <2>1 DEF TypeOK, Submit
  <2>5. ASSUME r \notin gone \cup cut
        PROVE  Chained(r)' /\ Complete(r)' /\ OneSend(r)' /\ Progress(r, a)'
    <3>1. /\ frame # <<>> /\ Run(r, frame, SentUpTo(r)') /\ SentUpTo(r)' + Len(frame) = wrote'[r]
          /\ slow[r] = {} /\ line[r] = <<>> /\ line'[r] = line[r]
      BY <1>6, <1>14, <1>16, <2>5
    <3>2. OneSend(r)' /\ AllSends(r)' # {}
      BY <2>4, <3>1, FirstSend
    <3>3. Progress(r, a)'
      BY <2>1, <3>2 DEF Progress
    <3> QED
      BY <1>14, <2>5, <3>2, <3>3
  <2>6. /\ queue'[r] \in {queue[r], Append(queue[r], frame)}
        /\ r \in gone => queue'[r] = queue[r]
    BY <1>7, <1>9
  <2>7. /\ \A q \in Requests \ {r} : /\ queue'[q] = queue[q] /\ slow'[q] = slow[q]
                                     /\ wrote'[q] = wrote[q] /\ resp'[q] = resp[q]
        /\ \A c \in Addresses \ {a} : phase'[c] = phase[c] /\ bound'[c] = bound[c]
        /\ UNCHANGED <<job, sinks, gone, line, body, cut, over>>
    BY <1>6, <1>9, <1>10, <1>11, <1>12, <2>4
  <2> QED
    BY <1>2, <1>4, <1>13, <2>1, <2>3, <2>4, <2>5, <2>6, <2>7, SendStep
<1> QED
  BY <1>15, <1>16

-----------------------------------------------------------------------------
(* Every state.                                                            *)

LEMMA OutputStart == Init => OutputInv
<1> SUFFICES ASSUME Init PROVE OutputInv
  OBVIOUS
<1>1. TypeOK
  BY InitTyped
<1>2. ASSUME NEW a \in Addresses PROVE AddressOK(a)
  <2>1. job[a] = Nobody /\ phase[a] = "idle" /\ sinks[a] = <<>> /\ bound[a] = Unbound /\ over = {}
    BY DEF Init
  <2>2. Unbound.id = Nobody /\ Unbound.pending = <<>>
    BY DEF Unbound, BoundTo
  <2> QED
    BY <2>1, <2>2, RangeEmpty DEF AddressOK, FiberOK, OwnOutput
<1>3. ASSUME NEW r \in Requests PROVE RequestOK(r)
  <2>1. /\ queue[r] = <<>> /\ body[r] = <<>> /\ slow[r] = {} /\ line[r] = <<>>
        /\ wrote[r] = 0 /\ resp[r] = "none" /\ over = {}
        /\ \A a \in Addresses : job[a] # r
    BY NobodyIs DEF Init, NotARequest
  <2>2. AllSends(r) = {}
    BY <2>1, RangeEmpty DEF AllSends
  <2>3. Own(r) /\ Awaited(r) /\ NothingFor(r) /\ Ordered(r) /\ Chained(r)
    BY <2>1, <2>2, RangeEmpty DEF Own, Awaited, NothingFor, Ordered, Chained
  <2>4. SentUpTo(r) = 0
    <3>1. Len(queue[r]) + 1 = 1 /\ Len(body[r]) = 0
      BY <2>1
    <3> QED
      BY <3>1 DEF SentUpTo, Before
  <2>5. Complete(r) /\ OneSend(r) /\ Untouched(r)
    BY <2>1, <2>2, <2>4 DEF Complete, OneSend, Untouched
  <2> QED
    BY <2>1, <2>2, <2>3, <2>5 DEF RequestOK, Streamed
<1> QED
  BY <1>1, <1>2, <1>3 DEF OutputInv

LEMMA OutputStutters == OutputInv /\ UNCHANGED vars => OutputInv'
<1> SUFFICES ASSUME OutputInv, UNCHANGED vars PROVE OutputInv'
  OBVIOUS
<1>1. UNCHANGED <<job, phase, sinks, bound, wrote, resp, gone, queue, slow, line, body, cut, over>>
  BY DEF vars, fibers, buffers, wire, sends
<1>2. TypeOK /\ (\A a \in Addresses : AddressOK(a)) /\ \A r \in Requests : RequestOK(r)
  BY DEF OutputInv
<1>3. TypeOK'
  BY <1>1, <1>2 DEF TypeOK
<1>4. \A a \in Addresses : AddressOK(a)'
  BY <1>1, <1>2, FibersKeep
<1>5. OnlyFor(Nobody)
  BY <1>1 DEF OnlyFor
<1>6. \A r \in Requests : RequestOK(r)'
  BY <1>2, <1>5, OthersKeep, NobodyIs DEF NotARequest
<1> QED
  BY <1>3, <1>4, <1>6 DEF OutputInv

LEMMA OutputSteps == OutputInv /\ [Next]_vars => OutputInv'
<1> SUFFICES ASSUME OutputInv, [Next]_vars PROVE OutputInv'
  OBVIOUS
<1>1. ASSUME NEW a \in Addresses, EchoBound(a) PROVE OutputInv'
  BY <1>1, EchoKeeps
<1>2. ASSUME NEW a \in Addresses, EchoCaptured(a) \/ capture_start(a) \/ capture_take(a)
      PROVE  OutputInv'
  BY <1>2, Captures
<1>3. ASSUME NEW a \in Addresses, Flush(a) PROVE OutputInv'
  BY <1>3, FlushKeeps
<1>4. ASSUME NEW a \in Addresses, StreamWrite(a) PROVE OutputInv'
  BY <1>4, StreamWriteKeeps
<1>5. ASSUME NEW a \in Addresses, NEW r \in Requests, Start(a, r) PROVE OutputInv'
  BY <1>5, StartKeeps
<1>6. ASSUME NEW a \in Addresses, Answer(a) PROVE OutputInv'
  BY <1>6, AnswerKeeps
<1>7. ASSUME NEW a \in Addresses, stream_bind(a) PROVE OutputInv'
  BY <1>7, BindKeeps
<1>8. ASSUME NEW a \in Addresses, Produced(a) PROVE OutputInv'
  BY <1>8, ProducedKeeps
<1>9. ASSUME NEW a \in Addresses, ResumeProducer(a) PROVE OutputInv'
  BY <1>9, ResumeKeeps
<1>10. ASSUME NEW a \in Addresses, EndStream(a) PROVE OutputInv'
  BY <1>10, EndKeeps
<1>11. ASSUME NEW a \in Addresses, CutWait(a) PROVE OutputInv'
  BY <1>11, CutKeeps
<1>12. ASSUME NEW a \in Addresses, Release(a) PROVE OutputInv'
  BY <1>12, ReleaseKeeps
<1>13. ASSUME NEW a \in Addresses, Die(a) PROVE OutputInv'
  BY <1>13, DieKeeps
<1>14. ASSUME NEW r \in Requests, NEW s \in slow[r], SlowSend(r, s) PROVE OutputInv'
  BY <1>14, SlowSendKeeps
<1>15. ASSUME NEW r \in Requests, SlowAdmitted(r) PROVE OutputInv'
  BY <1>15, AdmittedKeeps
<1>16. ASSUME NEW r \in Requests, SlowFail(r) PROVE OutputInv'
  BY <1>16, FailKeeps
<1>17. ASSUME NEW r \in Requests, Receive(r) PROVE OutputInv'
  BY <1>17, ReceiveKeeps
<1>18. ASSUME NEW r \in Requests, Leave(r) PROVE OutputInv'
  BY <1>18, LeaveKeeps
<1>19. CASE Next
  BY <1>19, <1>1, <1>2, <1>3, <1>4, <1>5, <1>6, <1>7, <1>8, <1>9, <1>10, <1>11, <1>12, <1>13,
     <1>14, <1>15, <1>16, <1>17, <1>18, Zenon DEF Next
<1> QED
  BY <1>19, OutputStutters

\* The invariant of the output of one thread: every fiber has the stream and
\* the captures of its own request, and what was sent for a request whose
\* waits were not cut is one chain of frames (php/output.rs, send_chunk of
\* php/module.rs).
THEOREM OutputInvariance == Spec => []OutputInv
<1>1. Init => OutputInv
  BY OutputStart
<1>2. OutputInv /\ [Next]_vars => OutputInv'
  BY OutputSteps
<1> QED
  BY <1>1, <1>2, PTL DEF Spec

\* What is received, queued, waits for room, is pending or was captured was
\* written by the request it belongs to, whatever fibers were pooled, died
\* and left their address behind (output.rs:5).
THEOREM BytesStayOwn == Spec => []OwnBytesOnly
<1>1. OutputInv => OwnBytesOnly
  <2> SUFFICES ASSUME OutputInv PROVE OwnBytesOnly
    OBVIOUS
  <2>1. TypeOK /\ (\A a \in Addresses : AddressOK(a)) /\ \A r \in Requests : RequestOK(r)
    BY DEF OutputInv
  <2>2. ASSUME NEW r \in Requests, NEW c \in OnTheWay(r) PROVE c[1] = r
    BY <2>1 DEF OnTheWay, RequestOK, Own, AllSends
  <2>3. ASSUME NEW a \in Addresses, bound[a].id # Nobody
        PROVE  bound[a].id = job[a] /\ \A c \in Range(bound[a].pending) : c[1] = job[a]
    BY <2>1, <2>3 DEF AddressOK, FiberOK, OwnOutput
  <2>4. ASSUME NEW a \in Addresses, NEW n \in 1 .. Len(sinks[a])
        PROVE  job[a] # Nobody /\ \A k \in 1 .. Len(sinks[a][n]) : sinks[a][n][k] = job[a]
    <3>1. sinks[a] \in Seq(Seq(Requests))
      BY <2>1 DEF TypeOK
    <3>2. n \in DOMAIN sinks[a] /\ sinks[a][n] \in Seq(Requests)
      BY <3>1
    <3>3. DOMAIN sinks[a][n] = 1 .. Len(sinks[a][n])
      BY <3>2
    <3> QED
      BY <2>1, <3>2, <3>3 DEF AddressOK, OwnOutput
  <2> QED
    BY <2>1, <2>2, <2>3, <2>4 DEF OwnBytesOnly
<1> QED
  BY <1>1, OutputInvariance, PTL

\* The client reads the bytes in the order they were written and without a
\* gap, for any size of frame and room of the queue, as long as no wait for
\* room was cut (module.rs:549).
THEOREM BodiesInOrder == Spec => []InOrder
<1>1. OutputInv => InOrder
  <2> SUFFICES ASSUME OutputInv, NEW r \in Requests \ cut, NEW n \in 1 .. Len(body[r])
               PROVE  body[r][n] = <<r, n>>
    BY DEF InOrder
  <2>1. TypeOK /\ Ordered(r)
    BY DEF OutputInv, RequestOK
  <2>2. n \in DOMAIN body[r]
    BY <2>1, WireTyped
  <2> QED
    BY <2>1, <2>2 DEF Ordered
<1> QED
  BY <1>1, OutputInvariance, PTL

\* Of a request whose client stayed and whose waits were not cut, none is
\* released without an answer, and a body that was ended has, received or on
\* its way, every byte its producer wrote (Loop.php:923, output.rs:337-339).
THEOREM AnswersAreFull == Spec => []AnsweredInFull
<1>1. OutputInv => AnsweredInFull
  <2> SUFFICES ASSUME OutputInv PROVE AnsweredInFull
    OBVIOUS
  <2>1. over \subseteq Requests
    BY DEF OutputInv, TypeOK
  <2>2. ASSUME NEW r \in over \ (gone \cup cut) PROVE resp[r] \in {"ended", "answered"}
    BY <2>1 DEF OutputInv, RequestOK, Streamed
  <2>3. ASSUME NEW r \in Requests \ (gone \cup cut), resp[r] = "ended", NEW n \in 1 .. wrote[r]
        PROVE  <<r, n>> \in OnTheWay(r)
    <3>1. Complete(r) /\ SentUpTo(r) = wrote[r]
      BY <2>3 DEF OutputInv, RequestOK, Streamed, AllSent
    <3>2. <<r, n>> \in Queued(r)
      BY <3>1 DEF Complete
    <3> QED
      BY <3>2 DEF Queued, OnTheWay
  <2> QED
    BY <2>2, <2>3 DEF AnsweredInFull
<1> QED
  BY <1>1, OutputInvariance, PTL

=============================================================================
