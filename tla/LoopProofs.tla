----------------------------- MODULE LoopProofs -----------------------------
(***************************************************************************)
(* Proofs about Loop for any number of requests, ops and child fibers, any *)
(* fiber budget and queue depth, any set of exempt requests, with or       *)
(* without streamed responses.                                             *)
(***************************************************************************)
EXTENDS Loop, FiniteSetTheorems, FunctionTheorems, TLAPS

-----------------------------------------------------------------------------
(* What Retain returns, for every sequence and every set of positions.     *)

\* The positions kept, in their order, are numbered without a gap.
LEMMA RankBijective ==
  ASSUME NEW n \in Nat, NEW K \in SUBSET (1..n)
  PROVE  /\ IsFiniteSet(K) /\ Cardinality(K) \in Nat
         /\ \A k \in K : Rank(K, k) \in 1..Cardinality(K)
         /\ \A j, k \in K : j < k => Rank(K, j) < Rank(K, k)
         /\ \A i \in 1..Cardinality(K) : \E k \in K : Rank(K, k) = i
<1> DEFINE below(k) == {j \in K : j <= k}
<1> DEFINE f == [k \in K |-> Rank(K, k)]
<1>0. \A k \in K : k \in Nat
  OBVIOUS
<1>1. IsFiniteSet(K) /\ Cardinality(K) \in Nat
  <2>1. IsFiniteSet(1..n)
    BY FS_Interval
  <2> QED
    BY <2>1, FS_Subset, FS_CardinalityType
<1>2. ASSUME NEW k \in K
      PROVE  /\ IsFiniteSet(below(k)) /\ Cardinality(below(k)) \in Nat
             /\ Cardinality(below(k)) <= Cardinality(K)
  <2>1. below(k) \in SUBSET K
    OBVIOUS
  <2> QED
    BY <1>1, <2>1, FS_Subset, FS_CardinalityType
<1>3. ASSUME NEW k \in K PROVE Rank(K, k) \in 1..Cardinality(K)
  <2>1. k \in below(k)
    OBVIOUS
  <2>2. Cardinality(below(k)) # 0
    BY <1>2, <2>1, FS_EmptySet
  <2> QED
    BY <1>1, <1>2, <2>2 DEF Rank
<1>4. ASSUME NEW j \in K, NEW k \in K, j < k PROVE Rank(K, j) < Rank(K, k)
  <2>1. below(j) \in SUBSET below(k)
    <3>1. ASSUME NEW i \in K, i <= j PROVE i <= k
      BY <1>0, <1>4, <3>1
    <3> QED
      BY <3>1
  <2>2. k \in below(k) /\ k \notin below(j)
    BY <1>4
  <2>3. Cardinality(below(j)) <= Cardinality(below(k))
    BY <1>2, <2>1, FS_Subset
  <2>4. Cardinality(below(j)) # Cardinality(below(k))
    BY <1>2, <2>1, <2>2, FS_Subset
  <2> QED
    BY <1>2, <2>3, <2>4 DEF Rank
<1>5. \A i \in 1..Cardinality(K) : \E k \in K : Rank(K, k) = i
  <2>1. f \in [K -> 1..Cardinality(K)]
    BY <1>3
  <2>2. ASSUME NEW j \in K, NEW k \in K, f[j] = f[k] PROVE j = k
    <3>1. j \in Nat /\ k \in Nat
      OBVIOUS
    <3>2. Rank(K, j) = Rank(K, k)
      BY <2>2
    <3>3. Rank(K, j) \in Nat /\ Rank(K, k) \in Nat
      BY <1>1, <1>3
    <3> QED
      BY <1>4, <3>1, <3>2, <3>3
  <2>3. f \in Injection(K, 1..Cardinality(K))
    BY <2>1, <2>2, Fun_IsInj
  <2>4. IsFiniteSet(1..Cardinality(K)) /\ Cardinality(1..Cardinality(K)) = Cardinality(K)
    BY <1>1, FS_Interval
  <2>5. f \in Surjection(K, 1..Cardinality(K))
    BY <2>3, <2>4, FS_Injection
  <2> QED
    BY <2>5 DEF Surjection
<1> QED
  BY <1>1, <1>3, <1>4, <1>5

\* The places of the result and the kept positions correspond in order.
LEMMA KeptInOrder ==
  ASSUME NEW n \in Nat, NEW K \in SUBSET (1..n)
  PROVE  /\ \A i \in 1..Cardinality(K) : Kept(K, i) \in K
         /\ \A k \in K : \E i \in 1..Cardinality(K) : Kept(K, i) = k
         /\ \A i, j \in 1..Cardinality(K) : i < j => Kept(K, i) < Kept(K, j)
<1>0. Cardinality(K) \in Nat
  BY RankBijective
<1>1. ASSUME NEW j \in K, NEW k \in K
      PROVE  /\ Rank(K, j) \in 1..Cardinality(K)
             /\ Rank(K, j) < Rank(K, k) => j < k
             /\ Rank(K, j) = Rank(K, k) => j = k
  <2>1. j \in Nat /\ k \in Nat
    OBVIOUS
  <2>2. Rank(K, j) \in 1..Cardinality(K) /\ Rank(K, k) \in 1..Cardinality(K)
    BY RankBijective
  <2>3. /\ j < k => Rank(K, j) < Rank(K, k)
        /\ k < j => Rank(K, k) < Rank(K, j)
    BY RankBijective
  <2> QED
    BY <1>0, <2>1, <2>2, <2>3
<1>2. ASSUME NEW i \in 1..Cardinality(K)
      PROVE  Kept(K, i) \in K /\ Rank(K, Kept(K, i)) = i
  BY RankBijective DEF Kept
<1>3. ASSUME NEW k \in K PROVE \E i \in 1..Cardinality(K) : Kept(K, i) = k
  <2>1. PICK i \in 1..Cardinality(K) : i = Rank(K, k)
    BY <1>1
  <2>2. Kept(K, i) \in K /\ Rank(K, Kept(K, i)) = Rank(K, k)
    BY <1>2, <2>1
  <2>3. Kept(K, i) = k
    BY <1>1, <2>2
  <2> QED
    BY <2>3
<1>4. ASSUME NEW i \in 1..Cardinality(K), NEW j \in 1..Cardinality(K), i < j
      PROVE  Kept(K, i) < Kept(K, j)
  <2>1. /\ Kept(K, i) \in K /\ Rank(K, Kept(K, i)) = i
        /\ Kept(K, j) \in K /\ Rank(K, Kept(K, j)) = j
    BY <1>2
  <2>2. Rank(K, Kept(K, i)) < Rank(K, Kept(K, j))
    BY <1>4, <2>1
  <2> QED
    BY <1>1, <2>1, <2>2, Zenon
<1> QED
  BY <1>2, <1>3, <1>4

\* Retain keeps the elements at the positions given, no others, and keeps
\* them in order.
THEOREM RetainKeeps ==
  ASSUME NEW S, NEW s \in Seq(S), NEW K \in SUBSET DOMAIN s
  PROVE  /\ Retain(s, K) \in Seq(S)
         /\ Len(Retain(s, K)) = Cardinality(K)
         /\ Cardinality(K) <= Len(s)
         /\ Elements(Retain(s, K)) = {s[k] : k \in K}
         /\ \A i \in 1..Cardinality(K) : Retain(s, K)[i] = s[Kept(K, i)]
<1>1. DOMAIN s = 1..Len(s) /\ Len(s) \in Nat
  OBVIOUS
<1>2. K \in SUBSET (1..Len(s))
  BY <1>1
<1>3. Cardinality(K) \in Nat /\ \A i \in 1..Cardinality(K) : Kept(K, i) \in K
  BY <1>1, <1>2, KeptInOrder, RankBijective
<1>4. \A k \in K : s[k] \in S
  BY <1>1
<1>5. Retain(s, K) \in Seq(S) /\ Len(Retain(s, K)) = Cardinality(K)
  BY <1>3, <1>4 DEF Retain
<1>6. Cardinality(K) <= Len(s)
  <2>1. IsFiniteSet(1..Len(s)) /\ Cardinality(1..Len(s)) = Len(s)
    <3>1. Len(s) \in Int /\ 1 \in Int
      BY <1>1
    <3>2. Cardinality(1..Len(s)) = IF 1 > Len(s) THEN 0 ELSE Len(s) - 1 + 1
      BY <3>1, FS_Interval
    <3>3. IsFiniteSet(1..Len(s))
      BY <3>1, FS_Interval
    <3> QED
      BY <1>1, <3>2, <3>3
  <2> QED
    BY <1>2, <2>1, FS_Subset
<1>7. DOMAIN Retain(s, K) = 1..Cardinality(K)
  BY DEF Retain
<1>8. \A i \in 1..Cardinality(K) : Retain(s, K)[i] = s[Kept(K, i)]
  BY DEF Retain
<1>9. Elements(Retain(s, K)) = {s[k] : k \in K}
  <2>1. ASSUME NEW x \in Elements(Retain(s, K)) PROVE x \in {s[k] : k \in K}
    BY <1>3, <1>7, <1>8, <2>1 DEF Elements
  <2>2. ASSUME NEW k \in K PROVE s[k] \in Elements(Retain(s, K))
    <3>1. PICK i \in 1..Cardinality(K) : Kept(K, i) = k
      BY <1>1, <1>2, KeptInOrder
    <3> QED
      BY <1>7, <1>8, <3>1 DEF Elements
  <2> QED
    BY <2>1, <2>2
<1> QED
  BY <1>5, <1>6, <1>8, <1>9

\* In particular, dropping every occurrence of one element.
LEMMA RetainOthers ==
  ASSUME NEW S, NEW s \in Seq(S), NEW x
  PROVE  LET rest == Retain(s, {k \in DOMAIN s : s[k] # x})
         IN  rest \in Seq(S) /\ Elements(rest) = Elements(s) \ {x}
<1> DEFINE K == {k \in DOMAIN s : s[k] # x}
<1>1. K \in SUBSET DOMAIN s
  OBVIOUS
<1>2. {s[k] : k \in K} = Elements(s) \ {x}
  BY DEF Elements
<1> HIDE DEF K
<1>3. Retain(s, K) \in Seq(S) /\ Elements(Retain(s, K)) = {s[k] : k \in K}
  BY <1>1, RetainKeeps
<1> QED
  BY <1>2, <1>3 DEF K

LEMMA ElementsEmpty == Elements(<<>>) = {}
BY DEF Elements

LEMMA ElementsAppend ==
  ASSUME NEW S, NEW s \in Seq(S), NEW x \in S
  PROVE  Elements(Append(s, x)) = Elements(s) \cup {x}
<1>1. DOMAIN Append(s, x) = DOMAIN s \cup {Len(s) + 1}
  OBVIOUS
<1>2. \A k \in DOMAIN s : Append(s, x)[k] = s[k]
  OBVIOUS
<1>3. Append(s, x)[Len(s) + 1] = x
  OBVIOUS
<1> QED
  BY <1>1, <1>2, <1>3 DEF Elements

-----------------------------------------------------------------------------
(* The lists the loop keeps.                                               *)

\* No element twice.
Distinct(s) == \A j, k \in DOMAIN s : s[j] = s[k] => j = k

\* What taking the first one leaves.
LEMMA TailOf ==
  ASSUME NEW S, NEW s \in Seq(S), s # <<>>
  PROVE  /\ Head(s) \in S /\ Head(s) = s[1] /\ Tail(s) \in Seq(S)
         /\ Head(s) \in Elements(s)
         /\ Len(s) \in Nat \ {0} /\ Len(Tail(s)) = Len(s) - 1
         /\ \A k \in 1..(Len(s) - 1) : Tail(s)[k] = s[k + 1]
         /\ Elements(s) = Elements(Tail(s)) \cup {Head(s)}
         /\ Distinct(s) => Distinct(Tail(s)) /\ Elements(Tail(s)) = Elements(s) \ {Head(s)}
<1>1. /\ Len(s) \in Nat \ {0} /\ Head(s) = s[1] /\ 1 \in DOMAIN s /\ s[1] \in S
      /\ DOMAIN s = 1..Len(s)
      /\ Tail(s) \in Seq(S) /\ Len(Tail(s)) = Len(s) - 1
      /\ DOMAIN Tail(s) = 1..(Len(s) - 1)
  OBVIOUS
<1>2. \A k \in 1..(Len(s) - 1) : Tail(s)[k] = s[k + 1]
  OBVIOUS
<1>3. ASSUME NEW k \in DOMAIN s, k # 1 PROVE k - 1 \in DOMAIN Tail(s) /\ Tail(s)[k - 1] = s[k]
  BY <1>1, <1>2, <1>3
<1>4. Elements(s) = Elements(Tail(s)) \cup {Head(s)}
  <2>1. Elements(s) \subseteq Elements(Tail(s)) \cup {Head(s)}
    BY <1>1, <1>3 DEF Elements
  <2>2. ASSUME NEW k \in DOMAIN Tail(s) PROVE Tail(s)[k] \in Elements(s)
    <3>1. k + 1 \in DOMAIN s /\ Tail(s)[k] = s[k + 1]
      BY <1>1, <1>2
    <3> QED
      BY <3>1 DEF Elements
  <2> QED
    BY <1>1, <2>1, <2>2 DEF Elements
<1>5. ASSUME Distinct(s)
      PROVE  Distinct(Tail(s)) /\ Elements(Tail(s)) = Elements(s) \ {Head(s)}
  <2>1. ASSUME NEW j \in DOMAIN Tail(s), NEW k \in DOMAIN Tail(s), Tail(s)[j] = Tail(s)[k]
        PROVE  j = k
    <3>1. /\ j + 1 \in DOMAIN s /\ k + 1 \in DOMAIN s /\ j \in Nat /\ k \in Nat
          /\ s[j + 1] = s[k + 1]
      BY <1>1, <1>2, <2>1
    <3>2. j + 1 = k + 1
      BY <1>5, <3>1 DEF Distinct
    <3> QED
      BY <3>1, <3>2
  <2>2. ASSUME NEW k \in DOMAIN Tail(s) PROVE Tail(s)[k] # Head(s)
    <3>1. k + 1 \in DOMAIN s /\ Tail(s)[k] = s[k + 1] /\ k + 1 # 1
      BY <1>1, <1>2
    <3> QED
      BY <1>1, <1>5, <3>1 DEF Distinct
  <2>3. Head(s) \notin Elements(Tail(s))
    BY <2>2 DEF Elements
  <2> QED
    BY <1>4, <2>1, <2>3 DEF Distinct
<1>6. Head(s) \in Elements(s)
  BY <1>1 DEF Elements
<1> QED
  BY <1>1, <1>2, <1>4, <1>5, <1>6

\* What taking the last one leaves.
LEMMA FrontOf ==
  ASSUME NEW S, NEW s \in Seq(S), s # <<>>, Distinct(s)
  PROVE  LET front == SubSeq(s, 1, Len(s) - 1)
         IN  /\ s[Len(s)] \in S /\ s[Len(s)] \in Elements(s)
             /\ front \in Seq(S) /\ Distinct(front)
             /\ Elements(front) = Elements(s) \ {s[Len(s)]}
<1> DEFINE front == SubSeq(s, 1, Len(s) - 1)
<1>1. Len(s) \in Nat \ {0} /\ DOMAIN s = 1..Len(s) /\ Len(s) \in DOMAIN s /\ s[Len(s)] \in S
  OBVIOUS
<1>2. front \in Seq(S) /\ Len(front) = Len(s) - 1 /\ DOMAIN front = 1..(Len(s) - 1)
  BY <1>1
<1>3. \A k \in 1..(Len(s) - 1) : front[k] = s[k] /\ k \in DOMAIN s /\ k # Len(s)
  <2>1. front = [k \in 1..(Len(s) - 1) |-> s[k]]
    BY <1>1
  <2>2. ASSUME NEW k \in 1..(Len(s) - 1) PROVE k \in DOMAIN s /\ k # Len(s)
    <3>1. Len(s) \in Nat /\ k \in Nat /\ 1 <= k /\ k <= Len(s) - 1
      BY <1>1
    <3>2. k # Len(s)
      BY <3>1
    <3>3. k \in 1..Len(s)
      BY <3>1
    <3> QED
      BY <1>1, <3>2, <3>3
  <2> HIDE DEF front
  <2>3. \A k \in 1..(Len(s) - 1) : front[k] = s[k]
    BY <2>1
  <2> QED
    BY <2>2, <2>3
<1>4. Distinct(front)
  BY <1>2, <1>3 DEF Distinct
<1>5. Elements(front) \subseteq Elements(s) \ {s[Len(s)]}
  BY <1>1, <1>2, <1>3 DEF Elements, Distinct
<1>6. ASSUME NEW k \in DOMAIN s, s[k] # s[Len(s)] PROVE s[k] \in Elements(front)
  <2>1. k # Len(s)
    BY <1>6
  <2>2. k \in DOMAIN front
    BY <1>1, <1>2, <2>1
  <2> QED
    BY <1>2, <1>3, <2>2 DEF Elements
<1>7. Elements(s) \ {s[Len(s)]} \subseteq Elements(front)
  BY <1>6 DEF Elements
<1> QED
  BY <1>1, <1>2, <1>4, <1>5, <1>7 DEF Elements

\* A new one at the end.
LEMMA AppendOf ==
  ASSUME NEW S, NEW s \in Seq(S), NEW x \in S
  PROVE  /\ Append(s, x) \in Seq(S) /\ Append(s, x) # <<>>
         /\ Elements(Append(s, x)) = Elements(s) \cup {x}
         /\ Distinct(s) /\ x \notin Elements(s) => Distinct(Append(s, x))
<1>1. /\ Append(s, x) \in Seq(S) /\ Append(s, x) # <<>> /\ Len(s) \in Nat
      /\ DOMAIN s = 1..Len(s) /\ DOMAIN Append(s, x) = 1..(Len(s) + 1)
      /\ Append(s, x)[Len(s) + 1] = x
      /\ \A k \in DOMAIN s : Append(s, x)[k] = s[k]
  OBVIOUS
<1>2. ASSUME Distinct(s), x \notin Elements(s),
             NEW j \in DOMAIN Append(s, x), NEW k \in DOMAIN Append(s, x),
             Append(s, x)[j] = Append(s, x)[k]
      PROVE  j = k
  <2>1. \A i \in DOMAIN Append(s, x) : i \in DOMAIN s \/ i = Len(s) + 1
    BY <1>1
  <2>2. \A i \in DOMAIN s : s[i] # x
    BY <1>2 DEF Elements
  <2> QED
    BY <1>1, <1>2, <2>1, <2>2 DEF Distinct
<1>3. Distinct(s) /\ x \notin Elements(s) => Distinct(Append(s, x))
  BY <1>2 DEF Distinct
<1> QED
  BY <1>1, <1>3, ElementsAppend

\* Two lists, one after the other.
LEMMA ConcatOf ==
  ASSUME NEW S, NEW s \in Seq(S), NEW t \in Seq(S)
  PROVE  /\ s \o t \in Seq(S) /\ Elements(s \o t) = Elements(s) \cup Elements(t)
         /\ Distinct(s) /\ Distinct(t) /\ Elements(s) \cap Elements(t) = {} => Distinct(s \o t)
<1>1. /\ s \o t \in Seq(S) /\ Len(s) \in Nat /\ Len(t) \in Nat
      /\ DOMAIN s = 1..Len(s) /\ DOMAIN t = 1..Len(t) /\ DOMAIN (s \o t) = 1..(Len(s) + Len(t))
  OBVIOUS
<1>2. \A k \in DOMAIN s : k \in DOMAIN (s \o t) /\ (s \o t)[k] = s[k]
  BY <1>1
<1>3. \A k \in DOMAIN t : k + Len(s) \in DOMAIN (s \o t) /\ (s \o t)[k + Len(s)] = t[k]
  BY <1>1
<1>4. \A k \in DOMAIN (s \o t) : k \in DOMAIN s \/ (k - Len(s) \in DOMAIN t /\ (s \o t)[k] = t[k - Len(s)])
  BY <1>1
<1>5. Elements(s \o t) \subseteq Elements(s) \cup Elements(t)
  BY <1>2, <1>4 DEF Elements
<1>6. Elements(s) \subseteq Elements(s \o t)
  BY <1>2 DEF Elements
<1>7. Elements(t) \subseteq Elements(s \o t)
  BY <1>3 DEF Elements
<1>8. ASSUME Distinct(s), Distinct(t), Elements(s) \cap Elements(t) = {},
             NEW j \in DOMAIN (s \o t), NEW k \in DOMAIN (s \o t), (s \o t)[j] = (s \o t)[k]
      PROVE  j = k
  <2>1. \A i \in DOMAIN s : s[i] \in Elements(s)
    BY DEF Elements
  <2>2. \A i \in DOMAIN t : t[i] \in Elements(t)
    BY DEF Elements
  <2>3. CASE j \in DOMAIN s /\ k \in DOMAIN s
    BY <1>2, <1>8, <2>3 DEF Distinct
  <2>4. CASE j \notin DOMAIN s /\ k \notin DOMAIN s
    <3>1. j - Len(s) = k - Len(s)
      BY <1>4, <1>8, <2>4 DEF Distinct
    <3> QED
      BY <1>1, <3>1
  <2>5. CASE j \in DOMAIN s /\ k \notin DOMAIN s
    BY <1>2, <1>4, <1>8, <2>1, <2>2, <2>5
  <2>6. CASE j \notin DOMAIN s /\ k \in DOMAIN s
    BY <1>2, <1>4, <1>8, <2>1, <2>2, <2>6
  <2> QED
    BY <2>3, <2>4, <2>5, <2>6
<1>9. Distinct(s) /\ Distinct(t) /\ Elements(s) \cap Elements(t) = {} => Distinct(s \o t)
  BY <1>8 DEF Distinct
<1> QED
  BY <1>1, <1>5, <1>6, <1>7, <1>9

\* The order a cancellation walks the children in.
LEMMA ReverseOf ==
  ASSUME NEW S, NEW s \in Seq(S)
  PROVE  Reverse(s) \in Seq(S) /\ Elements(Reverse(s)) = Elements(s)
<1>1. Len(s) \in Nat /\ DOMAIN s = 1..Len(s) /\ DOMAIN Reverse(s) = 1..Len(s)
  BY DEF Reverse
<1>2. \A k \in 1..Len(s) : Len(s) + 1 - k \in 1..Len(s) /\ Reverse(s)[k] = s[Len(s) + 1 - k]
  BY <1>1 DEF Reverse
<1>3. \A k \in 1..Len(s) : Reverse(s)[k] \in S
  BY <1>1, <1>2
<1>4. Reverse(s) \in Seq(S)
  BY <1>1, <1>3 DEF Reverse
<1>5. Elements(Reverse(s)) \subseteq Elements(s)
  BY <1>1, <1>2 DEF Elements
<1>6. ASSUME NEW k \in DOMAIN s PROVE s[k] \in Elements(Reverse(s))
  <2>1. /\ Len(s) + 1 - k \in DOMAIN Reverse(s)
        /\ Len(s) + 1 - (Len(s) + 1 - k) = k
    BY <1>1
  <2>2. Reverse(s)[Len(s) + 1 - k] = s[k]
    BY <1>1, <1>2, <2>1
  <2> QED
    BY <2>1, <2>2 DEF Elements
<1>7. Elements(s) \subseteq Elements(Reverse(s))
  BY <1>6 DEF Elements
<1> QED
  BY <1>4, <1>5, <1>7

\* How often a list without repetition holds a fiber.
LEMMA TimesOf ==
  ASSUME NEW S, NEW s \in Seq(S), Distinct(s), NEW x
  PROVE  Times(x, s) = IF x \in Elements(s) THEN 1 ELSE 0
<1> DEFINE K == {k \in DOMAIN s : s[k] = x}
<1>1. CASE x \in Elements(s)
  <2>1. PICK k \in DOMAIN s : s[k] = x
    BY <1>1 DEF Elements
  <2>2. K = {k}
    BY <2>1 DEF Distinct
  <2> QED
    BY <1>1, <2>2, FS_Singleton DEF Times
<1>2. CASE x \notin Elements(s)
  <2>1. K = {}
    BY <1>2 DEF Elements
  <2> QED
    BY <1>2, <2>1, FS_EmptySet DEF Times
<1> QED
  BY <1>1, <1>2

-----------------------------------------------------------------------------
(* The inductive invariant.                                                *)

\* Where the loop may be while it has events, a cancellation or a fiber in
\* hand.
Control ==
  /\ events # <<>> => turn = "dispatch"
  /\ walk # NoWalk => turn = "dispatch" /\ walk.requestId # 0
  /\ running # 0 => turn \in {"start", "ready", "dispatch"}

\* The places that resume a fiber, from the fiber's side (where it is
\* suspended) and from theirs (the lists and maps that name it).
HeldOnce(f) ==
  /\ running = f <=> at[f] = "run"
  /\ f \in Elements(pending) <=> at[f] = "created"
  /\ f \in Elements(idle) => at[f] = "idle" /\ f \notin Elements(ready)
  /\ f \in Elements(ready) => at[f] \in {"idle", "future"}
  /\ at[f] = "idle" => f \in Elements(idle) \cup Elements(ready)
  /\ at[f] = "future" => \/ f \in Elements(ready)
                         \/ \E j \in Futures : f \in Elements(waiters[j])
  /\ at[f] = "op" <=> parkedOn[f] # 0
  /\ parkedOn[f] # 0 => waiting[parkedOn[f]] = f

Held ==
  /\ Distinct(pending) /\ Distinct(ready) /\ Distinct(idle)
  /\ \A j \in Futures : Distinct(waiters[j])
  /\ \A f \in Fibers : HeldOnce(f)
  /\ \A j \in Futures : \A f \in Elements(waiters[j]) :
       /\ at[f] = "future" /\ f \notin Elements(ready)
       /\ \A i \in Futures : f \in Elements(waiters[i]) => i = j
  /\ \A o \in Ops : waiting[o] # 0 => parkedOn[waiting[o]] = o /\ o < nextOp

\* A fiber is created only for a request that is admitted or a child.
Entered == {r \in Requests : fate[r] \in {"admitted", "released"}}
Created == {f \in Fibers : at[f] # "absent"}

Room == Cardinality(Created) <= Cardinality(Entered) + nextFuture - 1

\* The ids events carry.
Ids ==
  \A e \in Elements(channel) \cup Elements(events) :
    e.id \in IF e.kind \in {"request", "cancel"} THEN Requests ELSE Ops

\* Requests are dispatched in the order in which they arrive: those in the
\* queue before those of the batch, those of the batch before those still in
\* the channel, and each is in one of the three at most.
Requested(s) == {r \in Requests : Event("request", r) \in Elements(s)}

InOrder(s) ==
  \A j, k \in DOMAIN s :
    j < k /\ s[j].kind = "request" /\ s[k].kind = "request" => s[j].id < s[k].id

Dispatched == {"queued", "rejected", "dropped", "admitted", "released"}

Order ==
  /\ InOrder(channel) /\ InOrder(events)
  /\ \A q \in Requested(events) : \A r \in Requested(channel) : q < r
  /\ \A j, k \in DOMAIN requestQueue : j < k => requestQueue[j] < requestQueue[k]
  /\ \A r \in Requests :
       /\ fate[r] = "sent" <=> r \in Requested(channel) \cup Requested(events)
       /\ fate[r] = "queued" <=> r \in Elements(requestQueue)
  /\ \A q, r \in Requests :
       /\ fate[q] # "unsent" /\ fate[r] = "unsent" => q < r
       /\ fate[q] \in Dispatched /\ fate[r] = "sent" => q < r

\* A request that is admitted is handled by one fiber; a fiber out of work
\* holds no job; a fiber drains the queue only on its own stack.
Handling(f) == job[f].stage \in {"handler", "stream"}

HandlerJob(f) ==
  /\ Handling(f) => /\ job[f].handles # 0 /\ fate[job[f].handles] = "admitted"
                    /\ job[f].requestId = 0 /\ job[f].future = 0
                    /\ job[f].owner = job[f].handles /\ ~job[f].keyless
  /\ job[f].stage = "drain" => running = f /\ job[f].requestId = 0 /\ job[f].future = 0
  /\ at[f] = "absent" \/ f \in Elements(idle) <=> job[f].stage = "none"
  /\ job[f].stage = "none" => job[f] = NoJob

Handlers ==
  /\ \A f \in Fibers : HandlerJob(f)
  /\ \A f, g \in Fibers :
       Handling(f) /\ Handling(g) /\ job[f].handles = job[g].handles => f = g

\* A future not settled has its child; a child awaits only futures made
\* after its own, and only such as are not settled.
ChildJob(f) ==
  /\ job[f].stage = "child" <=> job[f].future # 0
  /\ job[f].future < nextFuture
  /\ \A i \in job[f].mine : job[f].future < i /\ i < nextFuture

Awaits ==
  /\ \A f \in Fibers : ChildJob(f)
  /\ \A j \in Futures :
       /\ \A f \in Elements(waiters[j]) : j \in job[f].mine \ settled
       /\ j < nextFuture => j \in settled \/ \E g \in Fibers : job[g].future = j

\* The maps a cancellation walks name only fibers that still do the
\* request's work, and so does what is left of the walk.
KeyOf(f) ==
  /\ job[f].stage = "child" => job[f].handles = 0
  /\ job[f].stage = "child" /\ ~job[f].keyless =>
       job[f].owner = job[f].requestId /\ job[f].requestId # 0
  /\ job[f].stage # "drain" /\ at[f] \in {"run", "op", "future"} =>
       job[f].keyless \/ scope[f] \in {0, job[f].owner}

Mapped ==
  \A r \in Requests :
    /\ requestFibers[r] # 0 =>
         Handling(requestFibers[r]) /\ job[requestFibers[r]].handles = r
    /\ \A f \in Elements(children[r]) : job[f].stage = "child" /\ job[f].requestId = r

Walking ==
  \A f \in Elements(walk.left) :
    at[f] = "idle" \/ walk.requestId \in {job[f].handles, job[f].requestId}

Keys == Mapped /\ Walking /\ \A f \in Fibers : KeyOf(f)

\* Without a budget nothing is queued.
NeverQueued == FiberBudget = 0 => requestQueue = <<>>

LoopInv ==
  /\ TypeOK /\ Control /\ Held /\ Room /\ Ids /\ Order
  /\ Handlers /\ Awaits /\ Keys
  /\ BudgetHeld /\ NeverQueued /\ QueueServed

-----------------------------------------------------------------------------
(* Every fiber is held once.                                               *)

\* The fiber spawn() takes: the one parked last, or one not yet created.
Spawnable ==
  /\ SpawnTarget \in Fibers
  /\ idle # <<>> => SpawnTarget = idle[Len(idle)]
  /\ idle = <<>> => at[SpawnTarget] = "absent"

\* How many fibers and requests there can be.
LEMMA CreatedIsFinite ==
  /\ IsFiniteSet(Fibers) /\ Cardinality(Fibers) = MaxRequest + MaxFuture
  /\ IsFiniteSet(Requests) /\ Cardinality(Requests) = MaxRequest
<1>1. /\ MaxRequest \in Nat /\ MaxFuture \in Nat /\ MaxRequest + MaxFuture \in Nat
      /\ 1 \in Int /\ MaxRequest + MaxFuture \in Int /\ MaxRequest \in Int
  BY LoopAssumption
<1>2. /\ IsFiniteSet(1..(MaxRequest + MaxFuture))
      /\ Cardinality(1..(MaxRequest + MaxFuture)) =
           IF 1 > MaxRequest + MaxFuture THEN 0 ELSE MaxRequest + MaxFuture - 1 + 1
  BY <1>1, FS_Interval
<1>3. /\ IsFiniteSet(1..MaxRequest)
      /\ Cardinality(1..MaxRequest) = IF 1 > MaxRequest THEN 0 ELSE MaxRequest - 1 + 1
  BY <1>1, FS_Interval
<1>4. Cardinality(1..(MaxRequest + MaxFuture)) = MaxRequest + MaxFuture
  BY <1>1, <1>2
<1>5. Cardinality(1..MaxRequest) = MaxRequest
  BY <1>1, <1>3
<1> QED
  BY <1>2, <1>3, <1>4, <1>5 DEF Fibers, Requests

\* While requests and children are within the bounds spawn() finds a fiber.
LEMMA SpawnFindsFiber ==
  ASSUME TypeOK, Room, Cardinality(Entered) + nextFuture - 1 < MaxRequest + MaxFuture
  PROVE  Spawnable
<1>1. CASE idle # <<>>
  <2>1. idle \in Seq(Fibers)
    BY DEF TypeOK
  <2>2. idle[Len(idle)] \in Fibers
    BY <1>1, <2>1
  <2> QED
    BY <1>1, <2>2 DEF Spawnable, SpawnTarget
<1>2. CASE idle = <<>>
  <2>1. \E f \in Fibers : at[f] = "absent"
    <3>1. SUFFICES ASSUME \A f \in Fibers : at[f] # "absent" PROVE FALSE
      OBVIOUS
    <3>2. Created = Fibers
      BY <3>1 DEF Created
    <3>3. Cardinality(Created) = MaxRequest + MaxFuture
      BY <3>2, CreatedIsFinite
    <3>4. IsFiniteSet(Entered) /\ Cardinality(Entered) \in Nat
      BY CreatedIsFinite, FS_Subset, FS_CardinalityType DEF Entered
    <3>5. nextFuture \in Nat /\ MaxRequest \in Nat /\ MaxFuture \in Nat
      BY LoopAssumption DEF TypeOK
    <3> QED
      BY <3>3, <3>4, <3>5 DEF Room
  <2>2. NewFiber \in Fibers /\ at[NewFiber] = "absent"
    BY <2>1 DEF NewFiber
  <2> QED
    BY <1>2, <2>2 DEF Spawnable, SpawnTarget
<1> QED
  BY <1>1, <1>2

\* spawnOnto() keeps the types of the pool.
LEMMA SpawnTypes ==
  ASSUME TypeOK, Spawnable, spawnOnto(SpawnTarget)
  PROVE  /\ pending' \in Seq(Fibers) /\ ready' \in Seq(Fibers) /\ idle' \in Seq(Fibers)
         /\ at' \in [Fibers -> Places]
<1>1. /\ pending \in Seq(Fibers) /\ ready \in Seq(Fibers) /\ idle \in Seq(Fibers)
      /\ at \in [Fibers -> Places] /\ SpawnTarget \in Fibers
  BY DEF TypeOK, Spawnable
<1>2. CASE idle # <<>>
  <2>1. /\ ready' = Append(ready, SpawnTarget)
        /\ idle' = SubSeq(idle, 1, Len(idle) - 1)
        /\ UNCHANGED <<pending, at>>
    BY <1>2 DEF spawnOnto
  <2>2. Append(ready, SpawnTarget) \in Seq(Fibers)
    BY <1>1, AppendOf
  <2>3. SubSeq(idle, 1, Len(idle) - 1) \in Seq(Fibers)
    BY <1>1, <1>2
  <2> QED
    BY <1>1, <2>1, <2>2, <2>3
<1>3. CASE idle = <<>>
  <2>1. /\ pending' = Append(pending, SpawnTarget)
        /\ at' = [at EXCEPT ![SpawnTarget] = "created"]
        /\ UNCHANGED <<ready, idle>>
    BY <1>3 DEF spawnOnto
  <2>2. Append(pending, SpawnTarget) \in Seq(Fibers)
    BY <1>1, AppendOf
  <2>3. "created" \in Places
    BY DEF Places
  <2> QED
    BY <1>1, <2>1, <2>2, <2>3
<1> QED
  BY <1>2, <1>3

\* spawn() moves a fiber from the pool, or from nowhere, to one list.
LEMMA HeldBySpawn ==
  ASSUME TypeOK, Held, Spawnable, spawnOnto(SpawnTarget),
         UNCHANGED <<running, waiting, parkedOn, waiters, nextOp>>
  PROVE  Held'
<1> DEFINE g == SpawnTarget
<1>0. /\ g \in Fibers
      /\ pending \in Seq(Fibers) /\ ready \in Seq(Fibers) /\ idle \in Seq(Fibers)
      /\ at \in [Fibers -> Places]
  BY DEF Spawnable, TypeOK
<1>1. CASE idle # <<>>
  <2>1. g = idle[Len(idle)]
    BY <1>1 DEF Spawnable
  <2>2. /\ g \in Elements(idle) /\ Distinct(idle') /\ Elements(idle') = Elements(idle) \ {g}
        /\ ready' = Append(ready, g) /\ UNCHANGED <<pending, at>>
    <3>1. /\ idle' = SubSeq(idle, 1, Len(idle) - 1)
          /\ ready' = Append(ready, g) /\ UNCHANGED <<pending, at>>
      BY <1>1 DEF spawnOnto
    <3>2. Distinct(idle)
      BY DEF Held
    <3> QED
      BY <1>0, <1>1, <2>1, <3>1, <3>2, FrontOf
  <2>3. at[g] = "idle" /\ g \notin Elements(ready)
    BY <1>0, <2>2 DEF Held, HeldOnce
  <2>4. Distinct(ready') /\ Elements(ready') = Elements(ready) \cup {g}
    BY <1>0, <2>2, <2>3, AppendOf DEF Held
  <2> HIDE DEF g
  <2>5. ASSUME NEW f \in Fibers PROVE HeldOnce(f)'
    BY <1>0, <2>2, <2>3, <2>4 DEF Held, HeldOnce
  <2>6. \A j \in Futures : \A f \in Elements(waiters[j]) : f # g
    BY <2>3 DEF Held
  <2> QED
    BY <2>2, <2>4, <2>5, <2>6 DEF Held
<1>2. CASE idle = <<>>
  <2>1. /\ at[g] = "absent" /\ pending' = Append(pending, g) /\ UNCHANGED <<ready, idle>>
        /\ at' = [at EXCEPT ![g] = "created"]
    BY <1>2 DEF Spawnable, spawnOnto
  <2>2. g \notin Elements(pending) /\ g \notin Elements(ready) /\ g \notin Elements(idle)
    BY <1>0, <2>1 DEF Held, HeldOnce
  <2>3. Distinct(pending') /\ Elements(pending') = Elements(pending) \cup {g}
    BY <1>0, <2>1, <2>2, AppendOf DEF Held
  <2> HIDE DEF g
  <2>4. ASSUME NEW f \in Fibers PROVE HeldOnce(f)'
    BY <1>0, <2>1, <2>2, <2>3 DEF Held, HeldOnce
  <2>5. \A j \in Futures : \A f \in Elements(waiters[j]) : f # g /\ at'[f] = at[f]
    BY <1>0, <2>1 DEF Held
  <2> QED
    BY <2>1, <2>3, <2>4, <2>5 DEF Held
<1> QED
  BY <1>1, <1>2

\* startPending() and resumeReady() take a fiber off its list and run it.
LEMMA HeldByGiving ==
  ASSUME TypeOK, Held, running = 0, NEW f \in Fibers, running' = f,
         at' = [at EXCEPT ![f] = "run"],
         UNCHANGED <<idle, waiting, parkedOn, waiters, nextOp>>,
         \/ pending # <<>> /\ f = Head(pending) /\ pending' = Tail(pending) /\ ready' = ready
         \/ ready # <<>> /\ f = Head(ready) /\ ready' = Tail(ready) /\ pending' = pending
  PROVE  Held'
<1>0. /\ pending \in Seq(Fibers) /\ ready \in Seq(Fibers) /\ idle \in Seq(Fibers)
      /\ at \in [Fibers -> Places] /\ 0 \notin Fibers
      /\ waiters \in [Futures -> Seq(Fibers)]
  BY LoopAssumption DEF TypeOK, Fibers
<1>1. \A j \in Futures : \A h \in Elements(waiters[j]) : h \in Fibers
  BY <1>0 DEF Elements
<1>2. CASE pending # <<>> /\ f = Head(pending) /\ pending' = Tail(pending) /\ ready' = ready
  <2>1. /\ f \in Elements(pending) /\ Distinct(pending')
        /\ Elements(pending') = Elements(pending) \ {f}
    BY <1>0, <1>2, TailOf DEF Held
  <2>2. at[f] = "created"
    BY <2>1 DEF Held, HeldOnce
  <2>3. ASSUME NEW h \in Fibers PROVE HeldOnce(h)'
    <3>1. HeldOnce(h) /\ HeldOnce(f)
      BY DEF Held
    <3> QED
      BY <1>0, <1>2, <2>1, <2>2, <3>1 DEF HeldOnce
  <2>4. \A j \in Futures : \A h \in Elements(waiters[j]) : h # f /\ at'[h] = at[h]
    BY <1>0, <1>1, <2>2 DEF Held
  <2> QED
    BY <1>2, <2>1, <2>3, <2>4 DEF Held
<1>3. CASE ready # <<>> /\ f = Head(ready) /\ ready' = Tail(ready) /\ pending' = pending
  <2>1. /\ f \in Elements(ready) /\ Distinct(ready')
        /\ Elements(ready') = Elements(ready) \ {f}
    BY <1>0, <1>3, TailOf DEF Held
  <2>2. at[f] \in {"idle", "future"}
    BY <2>1 DEF Held, HeldOnce
  <2>3. ASSUME NEW h \in Fibers PROVE HeldOnce(h)'
    <3>1. HeldOnce(h) /\ HeldOnce(f)
      BY DEF Held
    <3> QED
      BY <1>0, <1>3, <2>1, <2>2, <3>1 DEF HeldOnce
  <2>4. \A j \in Futures : \A h \in Elements(waiters[j]) : h # f /\ at'[h] = at[h]
    BY <1>0, <1>1, <2>1 DEF Held
  <2> QED
    BY <1>3, <2>1, <2>3, <2>4 DEF Held
<1> QED
  BY <1>2, <1>3

\* A completion, or a cancellation, resumes the fiber parked on an op.
LEMMA HeldByResuming ==
  ASSUME TypeOK, Held, running = 0, NEW o \in Ops, waiting[o] # 0,
         waiting' = [waiting EXCEPT ![o] = 0],
         parkedOn' = [parkedOn EXCEPT ![waiting[o]] = 0],
         running' = waiting[o], at' = [at EXCEPT ![waiting[o]] = "run"],
         UNCHANGED <<pool, waiters, nextOp>>
  PROVE  Held'
<1> DEFINE f == waiting[o]
<1>0. /\ at \in [Fibers -> Places] /\ waiting \in [Ops -> Fibers \cup {0}]
      /\ parkedOn \in [Fibers -> Ops \cup {0}] /\ waiters \in [Futures -> Seq(Fibers)]
      /\ 0 \notin Fibers /\ 0 \notin Ops
      /\ UNCHANGED <<pending, ready, idle>>
  BY LoopAssumption DEF TypeOK, Fibers, Ops, pool
<1>1. f \in Fibers /\ parkedOn[f] = o /\ at[f] = "op"
  BY <1>0 DEF Held, HeldOnce
<1>2. \A j \in Futures : \A h \in Elements(waiters[j]) : h \in Fibers
  BY <1>0 DEF Elements
<1> HIDE DEF f
<1>3. /\ waiting' = [waiting EXCEPT ![o] = 0] /\ parkedOn' = [parkedOn EXCEPT ![f] = 0]
      /\ running' = f /\ at' = [at EXCEPT ![f] = "run"]
  BY DEF f
<1>4. ASSUME NEW h \in Fibers PROVE HeldOnce(h)'
  <2>1. HeldOnce(h) /\ HeldOnce(f)
    BY <1>1 DEF Held
  <2>2. CASE h = f
    BY <1>0, <1>1, <1>3, <2>1, <2>2 DEF HeldOnce
  <2>3. CASE h # f
    <3>1. parkedOn'[h] = parkedOn[h] /\ at'[h] = at[h]
      BY <1>0, <1>1, <1>3, <2>3
    <3>2. parkedOn[h] # 0 => waiting'[parkedOn[h]] = h
      BY <1>0, <1>1, <1>3, <2>1, <2>3 DEF HeldOnce, f
    <3> QED
      BY <1>0, <1>3, <2>1, <2>3, <3>1, <3>2 DEF HeldOnce
  <2> QED
    BY <2>2, <2>3
<1>5. \A j \in Futures : \A h \in Elements(waiters[j]) : h # f /\ at'[h] = at[h]
  BY <1>0, <1>1, <1>2, <1>3 DEF Held
<1>6. \A p \in Ops : waiting'[p] # 0 => parkedOn'[waiting'[p]] = p /\ p < nextOp
  <2> TAKE p \in Ops
  <2>1. waiting[p] # 0 => parkedOn[waiting[p]] = p /\ p < nextOp /\ waiting[p] \in Fibers
    BY <1>0 DEF Held
  <2>2. CASE p = o
    BY <1>0, <1>3, <2>2
  <2>3. CASE p # o
    <3>1. waiting'[p] = waiting[p]
      BY <1>0, <1>3, <2>3
    <3>2. waiting[p] # 0 => waiting[p] # f
      BY <1>1, <2>1, <2>3
    <3> QED
      BY <1>0, <1>3, <2>1, <3>1, <3>2
  <2> QED
    BY <2>2, <2>3
<1> QED
  BY <1>0, <1>4, <1>5, <1>6 DEF Held

\* The running fiber parks on an op,
LEMMA HeldByParking ==
  ASSUME TypeOK, Held, NEW f \in Fibers, awaitOp(f)
  PROVE  Held'
<1>0. /\ at \in [Fibers -> Places] /\ waiting \in [Ops -> Fibers \cup {0}]
      /\ parkedOn \in [Fibers -> Ops \cup {0}] /\ waiters \in [Futures -> Seq(Fibers)]
      /\ 0 \notin Fibers /\ 0 \notin Ops /\ nextOp \in Nat /\ \A p \in Ops : p \in Nat
  BY LoopAssumption DEF TypeOK, Fibers, Ops
<1>1. /\ running = f /\ nextOp \in Ops /\ nextOp' = nextOp + 1
      /\ waiting' = [waiting EXCEPT ![nextOp] = f]
      /\ parkedOn' = [parkedOn EXCEPT ![f] = nextOp]
      /\ at' = [at EXCEPT ![f] = "op"] /\ running' = 0
      /\ UNCHANGED <<pending, ready, idle, waiters>>
  BY DEF awaitOp, InUserCode, pool, futures
<1>2. \A j \in Futures : \A h \in Elements(waiters[j]) : h \in Fibers
  BY <1>0 DEF Elements
<1>3. at[f] = "run" /\ waiting[nextOp] = 0
  BY <1>0, <1>1 DEF Held, HeldOnce
<1>4. ASSUME NEW h \in Fibers PROVE HeldOnce(h)'
  <2>1. HeldOnce(h) /\ HeldOnce(f)
    BY DEF Held
  <2> QED
    BY <1>0, <1>1, <1>3, <2>1 DEF HeldOnce
<1>5. \A j \in Futures : \A h \in Elements(waiters[j]) : h # f /\ at'[h] = at[h]
  BY <1>0, <1>1, <1>2, <1>3 DEF Held
<1>6. \A p \in Ops : waiting'[p] # 0 => parkedOn'[waiting'[p]] = p /\ p < nextOp'
  <2> TAKE p \in Ops
  <2>1. waiting[p] # 0 => /\ parkedOn[waiting[p]] = p /\ p < nextOp /\ waiting[p] \in Fibers
                          /\ waiting[p] # f
    BY <1>0, <1>3 DEF Held, HeldOnce
  <2> QED
    BY <1>0, <1>1, <2>1
<1> QED
  BY <1>1, <1>4, <1>5, <1>6 DEF Held

\* or on a future.
LEMMA HeldByAwaiting ==
  ASSUME TypeOK, Held, NEW f \in Fibers, await(f)
  PROVE  Held'
<1>0. /\ at \in [Fibers -> Places] /\ parkedOn \in [Fibers -> Ops \cup {0}]
      /\ waiters \in [Futures -> Seq(Fibers)] /\ 0 \notin Fibers
      /\ job \in [Fibers -> Jobs]
  BY LoopAssumption DEF TypeOK, Fibers
<1>1. PICK j \in job[f].mine : waiters' = [waiters EXCEPT ![j] = Append(@, f)]
  BY DEF await
<1>2. /\ running = f /\ at' = [at EXCEPT ![f] = "future"] /\ running' = 0
      /\ UNCHANGED <<pending, ready, idle, waiting, parkedOn, nextOp>>
  BY DEF await, InUserCode, pool, parks, reactor
<1>3. j \in Futures
  BY <1>0, <1>1 DEF Jobs
<1>4. at[f] = "run" /\ f \notin Elements(ready)
  BY <1>0, <1>2 DEF Held, HeldOnce
<1>5. \A i \in Futures : f \notin Elements(waiters[i])
  BY <1>4 DEF Held
<1>6. /\ \A i \in Futures : Distinct(waiters'[i])
      /\ \A i \in Futures : Elements(waiters'[i]) =
           IF i = j THEN Elements(waiters[i]) \cup {f} ELSE Elements(waiters[i])
  <2> SUFFICES ASSUME NEW i \in Futures
               PROVE  /\ Distinct(waiters'[i])
                      /\ Elements(waiters'[i]) =
                           IF i = j THEN Elements(waiters[i]) \cup {f} ELSE Elements(waiters[i])
    OBVIOUS
  <2>1. waiters[i] \in Seq(Fibers) /\ Distinct(waiters[i]) /\ f \notin Elements(waiters[i])
    BY <1>0, <1>5 DEF Held
  <2>2. CASE i = j
    <3>1. waiters'[i] = Append(waiters[i], f)
      BY <1>0, <1>1, <1>3, <2>2
    <3> QED
      BY <2>1, <2>2, <3>1, AppendOf
  <2>3. CASE i # j
    BY <1>0, <1>1, <2>1, <2>3
  <2> QED
    BY <2>2, <2>3
<1>7. \A i \in Futures : \A h \in Elements(waiters[i]) : h \in Fibers
  BY <1>0 DEF Elements
<1>8. ASSUME NEW h \in Fibers PROVE HeldOnce(h)'
  <2>1. HeldOnce(h) /\ HeldOnce(f)
    BY DEF Held
  <2>2. CASE h = f
    BY <1>0, <1>2, <1>3, <1>4, <1>6, <2>1, <2>2 DEF HeldOnce
  <2>3. CASE h # f
    BY <1>0, <1>2, <1>3, <1>6, <2>1, <2>3 DEF HeldOnce
  <2> QED
    BY <2>2, <2>3
<1>9. \A i \in Futures : \A h \in Elements(waiters'[i]) :
        /\ at'[h] = "future" /\ h \notin Elements(ready)
        /\ \A l \in Futures : h \in Elements(waiters'[l]) => l = i
  <2> SUFFICES ASSUME NEW i \in Futures, NEW h \in Elements(waiters'[i])
               PROVE  /\ at'[h] = "future" /\ h \notin Elements(ready)
                      /\ \A l \in Futures : h \in Elements(waiters'[l]) => l = i
    OBVIOUS
  <2>1. CASE h = f
    BY <1>0, <1>2, <1>4, <1>5, <1>6, <2>1
  <2>2. CASE h # f
    <3>1. h \in Elements(waiters[i])
      BY <1>6, <2>2
    <3>2. at[h] = "future" /\ h \notin Elements(ready)
      BY <3>1 DEF Held
    <3>3. \A l \in Futures : h \in Elements(waiters'[l]) => h \in Elements(waiters[l])
      BY <1>6, <2>2
    <3>4. \A l \in Futures : h \in Elements(waiters[l]) => l = i
      BY <3>1 DEF Held
    <3>5. at'[h] = at[h]
      BY <1>0, <1>2, <1>7, <2>2, <3>1
    <3> QED
      BY <3>2, <3>3, <3>4, <3>5
  <2> QED
    BY <2>1, <2>2
<1>10. \A p \in Ops : waiting'[p] # 0 => parkedOn'[waiting'[p]] = p /\ p < nextOp'
  BY <1>2 DEF Held
<1>11. Distinct(pending') /\ Distinct(ready') /\ Distinct(idle')
  BY <1>2 DEF Held
<1> QED
  BY <1>2, <1>6, <1>8, <1>9, <1>10, <1>11 DEF Held

\* What settle() does to the lists, whether the job has a future or not.
LEMMA SettleMoves ==
  ASSUME TypeOK, Held, NEW j \in Futures \cup {0}, settle(j)
  PROVE  /\ ready' \in Seq(Fibers) /\ waiters' \in [Futures -> Seq(Fibers)]
         /\ Distinct(ready') /\ \A i \in Futures : Distinct(waiters'[i])
         /\ Elements(ready') =
              Elements(ready) \cup IF j = 0 THEN {} ELSE Elements(waiters[j])
         /\ \A i \in Futures :
              Elements(waiters'[i]) = IF i = j THEN {} ELSE Elements(waiters[i])
<1>0. /\ ready \in Seq(Fibers) /\ waiters \in [Futures -> Seq(Fibers)] /\ 0 \notin Futures
  BY LoopAssumption DEF TypeOK, Futures
<1>1. CASE j = 0
  BY <1>0, <1>1 DEF settle, Held
<1>2. CASE j # 0
  <2>1. /\ j \in Futures /\ ready' = ready \o waiters[j]
        /\ waiters' = [waiters EXCEPT ![j] = <<>>]
    BY <1>2 DEF settle
  <2>2. /\ waiters[j] \in Seq(Fibers) /\ Distinct(ready) /\ Distinct(waiters[j])
        /\ Elements(ready) \cap Elements(waiters[j]) = {}
    BY <1>0, <2>1 DEF Held
  <2>3. /\ ready \o waiters[j] \in Seq(Fibers) /\ Distinct(ready \o waiters[j])
        /\ Elements(ready \o waiters[j]) = Elements(ready) \cup Elements(waiters[j])
    BY <1>0, <2>2, ConcatOf
  <2>4. <<>> \in Seq(Fibers) /\ Distinct(<<>>) /\ Elements(<<>>) = {}
    BY ElementsEmpty DEF Distinct
  <2>5. \A i \in Futures : waiters'[i] = IF i = j THEN <<>> ELSE waiters[i]
    BY <1>0, <2>1
  <2>6. waiters' \in [Futures -> Seq(Fibers)]
    BY <1>0, <2>1, <2>4
  <2>7. \A i \in Futures : Distinct(waiters[i])
    BY DEF Held
  <2>8. \A i \in Futures : Distinct(waiters'[i])
    BY <2>4, <2>5, <2>7
  <2>9. \A i \in Futures : Elements(waiters'[i]) = IF i = j THEN {} ELSE Elements(waiters[i])
    BY <2>4, <2>5
  <2> QED
    BY <1>2, <2>1, <2>3, <2>6, <2>8, <2>9
<1> QED
  BY <1>1, <1>2

\* The fiber goes back to the pool, and those that awaited its future become
\* ready.
LEMMA HeldByPooling ==
  ASSUME TypeOK, Held, NEW f \in Fibers, poolBody(f)
  PROVE  Held'
<1> DEFINE j == job[f].future
<1>0. /\ at \in [Fibers -> Places] /\ parkedOn \in [Fibers -> Ops \cup {0}]
      /\ idle \in Seq(Fibers) /\ 0 \notin Fibers /\ 0 \notin Futures
      /\ waiters \in [Futures -> Seq(Fibers)] /\ job[f] \in Jobs
  BY LoopAssumption DEF TypeOK, Fibers, Futures
<1>1. /\ running = f /\ settle(j) /\ idle' = Append(idle, f)
      /\ at' = [at EXCEPT ![f] = "idle"] /\ running' = 0
      /\ UNCHANGED <<pending, waiting, parkedOn, nextOp>>
  BY DEF poolBody, InUserCode, Draining, parks, reactor
<1>2. j \in Futures \cup {0}
  BY <1>0 DEF Jobs
<1> HIDE DEF j
<1>3. at[f] = "run" /\ f \notin Elements(ready) /\ f \notin Elements(idle)
  BY <1>0, <1>1 DEF Held, HeldOnce
<1>4. \A i \in Futures : f \notin Elements(waiters[i])
  BY <1>3 DEF Held
<1>5. Distinct(idle') /\ Elements(idle') = Elements(idle) \cup {f}
  BY <1>0, <1>1, <1>3, AppendOf DEF Held
<1>6. /\ Distinct(ready') /\ \A i \in Futures : Distinct(waiters'[i])
      /\ Elements(ready') = Elements(ready) \cup IF j = 0 THEN {} ELSE Elements(waiters[j])
      /\ \A i \in Futures : Elements(waiters'[i]) = IF i = j THEN {} ELSE Elements(waiters[i])
  BY <1>1, <1>2, SettleMoves
<1>7. \A i \in Futures : \A h \in Elements(waiters[i]) : h \in Fibers /\ at[h] = "future"
  BY <1>0 DEF Elements, Held
<1>8. f \notin Elements(ready')
  BY <1>2, <1>3, <1>4, <1>6
<1>9. ASSUME NEW h \in Fibers PROVE HeldOnce(h)'
  <2>1. HeldOnce(h)
    BY DEF Held
  <2>2. CASE h = f
    BY <1>0, <1>1, <1>3, <1>5, <1>8, <2>1, <2>2 DEF HeldOnce
  <2>3. CASE h # f
    <3>1. at'[h] = at[h] /\ (h \in Elements(idle') <=> h \in Elements(idle))
      BY <1>0, <1>1, <1>5, <2>3
    <3>2. h \in Elements(ready') => at[h] = "future" \/ h \in Elements(ready)
      BY <1>2, <1>6, <1>7
    <3>3. h \in Elements(idle) => h \notin Elements(ready')
      BY <2>1, <3>2 DEF HeldOnce
    <3>4. at[h] = "future" => \/ h \in Elements(ready')
                              \/ \E i \in Futures : h \in Elements(waiters'[i])
      <4>1. SUFFICES ASSUME at[h] = "future", h \notin Elements(ready')
                     PROVE  \E i \in Futures : h \in Elements(waiters'[i])
        OBVIOUS
      <4>2. h \notin Elements(ready)
        BY <1>6, <4>1
      <4>3. PICK i \in Futures : h \in Elements(waiters[i])
        BY <2>1, <4>1, <4>2 DEF HeldOnce
      <4>4. i # j
        BY <1>0, <1>6, <4>1, <4>3
      <4> QED
        BY <1>6, <4>3, <4>4
    <3>5. h \in Elements(ready') => at[h] \in {"idle", "future"}
      BY <2>1, <3>2 DEF HeldOnce
    <3>6. at[h] = "idle" => h \in Elements(idle') \cup Elements(ready')
      BY <1>5, <1>6, <2>1 DEF HeldOnce
    <3> QED
      BY <1>0, <1>1, <2>1, <2>3, <3>1, <3>3, <3>4, <3>5, <3>6 DEF HeldOnce
  <2> QED
    BY <2>2, <2>3
<1>10. ASSUME NEW i \in Futures, NEW h \in Elements(waiters'[i])
       PROVE  /\ at'[h] = "future" /\ h \notin Elements(ready')
              /\ \A l \in Futures : h \in Elements(waiters'[l]) => l = i
  <2>1. i # j /\ h \in Elements(waiters[i])
    BY <1>6
  <2>2. /\ at[h] = "future" /\ h \notin Elements(ready)
        /\ \A l \in Futures : h \in Elements(waiters[l]) => l = i
    BY <2>1 DEF Held
  <2>3. at'[h] = at[h]
    BY <1>0, <1>1, <1>4, <1>7, <2>1
  <2>4. h \notin Elements(ready')
    BY <1>2, <1>6, <2>1, <2>2
  <2>5. \A l \in Futures : h \in Elements(waiters'[l]) => l = i
    BY <1>6, <2>2
  <2> QED
    BY <2>2, <2>3, <2>4, <2>5
<1>11. \A p \in Ops : waiting'[p] # 0 => parkedOn'[waiting'[p]] = p /\ p < nextOp'
  BY <1>1 DEF Held
<1>12. Distinct(pending')
  BY <1>1 DEF Held
<1> QED
  BY <1>5, <1>6, <1>9, <1>10, <1>11, <1>12 DEF Held

\* There is a fiber for a request not yet admitted, and for a child.
LEMMA AdmitFindsFiber ==
  ASSUME TypeOK, Room, NEW r \in Requests, fate[r] \notin {"admitted", "released"}
  PROVE  Spawnable
<1>1. Entered \subseteq Requests \ {r}
  BY DEF Entered
<1>2. IsFiniteSet(Requests \ {r}) /\ Cardinality(Requests \ {r}) = MaxRequest - 1
  BY CreatedIsFinite, FS_RemoveElement
<1>3. Cardinality(Entered) <= MaxRequest - 1 /\ Cardinality(Entered) \in Nat
  BY <1>1, <1>2, FS_Subset, FS_CardinalityType
<1>4. nextFuture \in Nat /\ nextFuture <= MaxFuture + 1 /\ MaxFuture \in Nat /\ MaxRequest \in Nat
  BY LoopAssumption DEF TypeOK
<1>5. Cardinality(Entered) + nextFuture - 1 < MaxRequest + MaxFuture
  BY <1>3, <1>4
<1> QED
  BY <1>5, SpawnFindsFiber

\* A child still to come has a fiber to run on.
LEMMA ChildFindsFiber ==
  ASSUME TypeOK, Room, nextFuture \in Futures
  PROVE  Spawnable
<1>1. Entered \subseteq Requests
  BY DEF Entered
<1>2. Cardinality(Entered) <= MaxRequest /\ Cardinality(Entered) \in Nat
  BY <1>1, CreatedIsFinite, FS_Subset, FS_CardinalityType
<1>3. nextFuture \in Nat /\ nextFuture <= MaxFuture /\ MaxFuture \in Nat /\ MaxRequest \in Nat
  BY LoopAssumption DEF TypeOK, Futures
<1>4. Cardinality(Entered) + nextFuture - 1 < MaxRequest + MaxFuture
  BY <1>2, <1>3
<1> QED
  BY <1>4, SpawnFindsFiber

\* The event in hand, and the request it names.
LEMMA HeadEvent ==
  ASSUME TypeOK, Ids, events # <<>>
  PROVE  /\ Head(events) \in Events /\ Head(events) \in Elements(events)
         /\ Head(events).kind \in {"request", "cancel"} => Head(events).id \in Requests
         /\ Head(events).kind \in {"op", "error"} => Head(events).id \in Ops
         /\ Head(events).kind \in Kinds
         /\ Tail(events) \in Seq(Events)
<1>1. events \in Seq(Events)
  BY DEF TypeOK
<1>2. /\ Head(events) \in Events /\ Head(events) \in Elements(events)
      /\ Tail(events) \in Seq(Events)
  BY <1>1, TailOf
<1> QED
  BY <1>2 DEF Ids, Events, Kinds

\* The request the loop is about to dispatch was never dispatched before.
LEMMA HeadRequest ==
  ASSUME LoopInv, events # <<>>, Head(events).kind = "request"
  PROVE  /\ Head(events).id \in Requests /\ fate[Head(events).id] = "sent"
         /\ Head(events).id \in Requested(events)
<1>1. /\ Head(events) \in Events /\ Head(events) \in Elements(events)
      /\ Head(events).id \in Requests
  BY HeadEvent DEF LoopInv
<1>2. Head(events) = Event("request", Head(events).id)
  BY <1>1 DEF Events, Event
<1>3. Head(events).id \in Requested(events)
  BY <1>1, <1>2 DEF Requested
<1> QED
  BY <1>1, <1>3 DEF LoopInv, Order

\* The request at the head of the queue is queued.
LEMMA HeadQueued ==
  ASSUME LoopInv, requestQueue # <<>>
  PROVE  Head(requestQueue) \in Requests /\ fate[Head(requestQueue)] = "queued"
<1>1. Head(requestQueue) \in Requests /\ Head(requestQueue) \in Elements(requestQueue)
  BY TailOf DEF LoopInv, TypeOK
<1> QED
  BY <1>1 DEF LoopInv, Order

\* The fiber that runs, and the list it comes from.
LEMMA HeadFiber ==
  ASSUME TypeOK
  PROVE  /\ pending # <<>> => Head(pending) \in Fibers /\ Tail(pending) \in Seq(Fibers)
         /\ ready # <<>> => Head(ready) \in Fibers /\ Tail(ready) \in Seq(Fibers)
BY TailOf DEF TypeOK

\* What the reactor, the front door and the file watcher leave alone.
LEMMA EnvironmentIsOutside ==
  ASSUME Environment
  PROVE  UNCHANGED <<turn, events, walk, running, at, job, scope, pending, ready, idle,
                     waiting, parkedOn, requestFibers, children, deadlineOf, settled,
                     waiters, nextFuture, requestQueue, queued, queueCancelled,
                     inflightRequests, nextOp>>
<1> USE DEF control, fibers, pool, parks, maps, futures, admission, winding, reactor, requests
<1>1. CASE BeginReload
  BY <1>1 DEF BeginReload
<1>2. ASSUME NEW o \in Ops, OpCompletes(o) \/ OpCalledOff(o) PROVE UNCHANGED reactorSees
  BY <1>2 DEF OpCompletes, OpCalledOff
<1>3. ASSUME NEW r \in Requests, RequestArrives(r) \/ ClientLeaves(r) PROVE UNCHANGED reactorSees
  BY <1>3 DEF RequestArrives, ClientLeaves
<1>4. CASE UNCHANGED reactorSees
  BY <1>4 DEF reactorSees
<1> QED
  BY <1>1, <1>2, <1>3, <1>4 DEF Environment

\* A step of the loop or of a fiber keeps every fiber held once.
LEMMA HeldKept ==
  ASSUME LoopInv, Next
  PROVE  Held'
<1> USE DEF LoopInv
<1> USE DEF control, fibers, pool, parks, maps, futures, admission, winding, reactor, requests
<1> DEFINE quiet == UNCHANGED <<pending, ready, idle, waiters, at, running, waiting, parkedOn>>
<1>0. 0 \notin Fibers /\ 0 \notin Ops
  BY LoopAssumption DEF Fibers, Ops
<1>1. ASSUME quiet, nextOp' \in Nat, nextOp' >= nextOp PROVE Held'
  <2>1. nextOp \in Nat /\ \A o \in Ops : o \in Nat
    BY LoopAssumption DEF TypeOK, Ops
  <2>2. \A o \in Ops : waiting[o] # 0 => parkedOn[waiting[o]] = o /\ o < nextOp'
    BY <1>1, <2>1 DEF Held
  <2>3. \A f \in Fibers : HeldOnce(f)'
    BY <1>1 DEF Held, HeldOnce
  <2> QED
    BY <1>1, <2>2, <2>3 DEF Held
<1>2. nextOp \in Nat
  BY DEF TypeOK
<1>3. CASE startPending
  <2>1. CASE pending = <<>>
    BY <1>1, <1>2, <1>3, <2>1 DEF startPending
  <2>2. CASE pending # <<>>
    BY <1>3, <2>2, HeadFiber, HeldByGiving DEF startPending, giveThread, OnMain
  <2> QED
    BY <2>1, <2>2
<1>4. CASE resumeReady
  <2>1. CASE ready = <<>>
    BY <1>1, <1>2, <1>4, <2>1 DEF resumeReady
  <2>2. CASE ready # <<>>
    BY <1>4, <2>2, HeadFiber, HeldByGiving DEF resumeReady, giveThread, OnMain
  <2> QED
    BY <2>1, <2>2
<1>5. CASE WindDown \/ ignis_poll \/ DispatchCancel \/ DispatchDeadline \/ EndOfBatch \/ EndOfWalk
  BY <1>1, <1>2, <1>5
     DEF WindDown, ignis_poll, DispatchCancel, DispatchDeadline, EndOfBatch, EndOfWalk
<1>6. CASE dispatchRequest
  <2> DEFINE r == Head(events).id
  <2>1. r \in Requests /\ fate[r] = "sent"
    BY <1>6, HeadRequest DEF dispatchRequest, Dispatching
  <2>2. CASE OverBudget(r)
    BY <1>1, <1>2, <1>6, <2>2 DEF dispatchRequest
  <2>3. CASE ~OverBudget(r)
    <3>1. Spawnable
      BY <2>1, AdmitFindsFiber
    <3>2. spawnOnto(SpawnTarget) /\ UNCHANGED <<running, waiting, parkedOn, waiters, nextOp>>
      BY <1>6, <2>3 DEF dispatchRequest, admitRequest
    <3> QED
      BY <3>1, <3>2, HeldBySpawn
  <2> QED
    BY <2>2, <2>3
<1>7. CASE DispatchCompletion
  <2> DEFINE o == Head(events).id
  <2>1. o \in Ops /\ running = 0
    BY <1>7, HeadEvent DEF DispatchCompletion, Dispatching, OnMain
  <2>2. CASE waiting[o] = 0
    BY <1>1, <1>2, <1>7, <2>2 DEF DispatchCompletion
  <2>3. CASE waiting[o] # 0
    BY <1>7, <2>1, <2>3, HeldByResuming DEF DispatchCompletion
  <2> QED
    BY <2>2, <2>3
<1>8. CASE throwInto
  <2> DEFINE f == Head(walk.left)
  <2>1. f \in Fibers /\ running = 0
    <3>1. walk.left \in Seq(Fibers)
      BY DEF TypeOK, Walks
    <3> QED
      BY <1>8, <3>1, TailOf DEF throwInto
  <2>2. CASE parkedOn[f] = 0
    BY <1>1, <1>2, <1>8, <2>2 DEF throwInto
  <2>3. CASE parkedOn[f] # 0
    <3>1. parkedOn[f] \in Ops /\ waiting[parkedOn[f]] = f
      <4>1. parkedOn \in [Fibers -> Ops \cup {0}]
        BY DEF TypeOK
      <4>2. HeldOnce(f)
        BY <2>1 DEF Held
      <4> QED
        BY <2>1, <2>3, <4>1, <4>2 DEF HeldOnce
    <3>2. f # 0
      BY <1>0, <2>1
    <3> DEFINE o == parkedOn[f]
    <3>3. /\ waiting' = [waiting EXCEPT ![o] = 0] /\ parkedOn' = [parkedOn EXCEPT ![f] = 0]
          /\ running' = f /\ at' = [at EXCEPT ![f] = "run"]
          /\ UNCHANGED <<pool, waiters, nextOp>>
      BY <1>8, <2>3 DEF throwInto
    <3> HIDE DEF o, f
    <3>4. o \in Ops /\ waiting[o] = f
      BY <3>1 DEF o
    <3> QED
      BY <2>1, <3>2, <3>3, <3>4, HeldByResuming
  <2> QED
    BY <2>2, <2>3
<1>9. ASSUME NEW f \in Fibers, FiberStep(f) PROVE Held'
  <2>1. CASE awaitOp(f)
    BY <2>1, HeldByParking
  <2>2. CASE await(f)
    BY <2>2, HeldByAwaiting
  <2>3. CASE poolBody(f)
    BY <2>3, HeldByPooling
  <2>4. CASE spawn(f)
    <3>1. Spawnable
      BY <2>4, ChildFindsFiber DEF spawn
    <3> QED
      BY <2>4, <3>1, HeldBySpawn DEF spawn
  <2>5. CASE drainQueue(f)
    <3> DEFINE r == Head(requestQueue)
    <3>1. CASE r \in queueCancelled
      BY <1>1, <1>2, <2>5, <3>1 DEF drainQueue
    <3>2. CASE r \notin queueCancelled
      <4>1. Spawnable
        BY <2>5, HeadQueued, AdmitFindsFiber DEF drainQueue, RoomForQueued
      <4>2. spawnOnto(SpawnTarget) /\ UNCHANGED <<running, waiting, parkedOn, waiters, nextOp>>
        BY <2>5, <3>2 DEF drainQueue, admitRequest
      <4> QED
        BY <4>1, <4>2, HeldBySpawn
    <3> QED
      BY <3>1, <3>2
  <2>6. CASE deadline(f)
    BY <1>1, <1>2, <2>6 DEF deadline
  <2>7. CASE stop(f) \/ produce(f) \/ releaseRequest(f)
    BY <1>1, <1>2, <2>7 DEF stop, produce, releaseRequest
  <2> QED
    BY <1>9, <2>1, <2>2, <2>3, <2>4, <2>5, <2>6, <2>7 DEF FiberStep
<1>10. CASE Environment
  BY <1>1, <1>2, <1>10, EnvironmentIsOutside
<1> HIDE DEF LoopInv
<1> QED
  BY <1>3, <1>4, <1>5, <1>6, <1>7, <1>8, <1>9, <1>10 DEF Next, Turn

-----------------------------------------------------------------------------
(* Types, and where the loop is.                                           *)

\* A request is released only while it is admitted.
LEMMA ReleasedWasAdmitted ==
  ASSUME LoopInv, NEW f \in Fibers, Handling(f)
  PROVE  /\ job[f].handles \in Requests /\ fate[job[f].handles] = "admitted"
         /\ inflightRequests \in Nat /\ inflightRequests >= 1
<1> DEFINE r == job[f].handles
<1>1. job[f] \in Jobs /\ HandlerJob(f) /\ inflightRequests \in Nat
  BY DEF LoopInv, TypeOK, Handlers
<1>2. r \in Requests /\ fate[r] = "admitted"
  BY <1>1 DEF Jobs, HandlerJob
<1>3. IsFiniteSet(AdmittedNow)
  BY CreatedIsFinite, FS_Subset DEF AdmittedNow
<1>4. r \in AdmittedNow
  BY <1>2 DEF AdmittedNow
<1>5. Cardinality(AdmittedNow) # 0
  BY <1>3, <1>4, FS_EmptySet
<1>6. inflightRequests = Cardinality(AdmittedNow)
  BY DEF LoopInv, BudgetHeld
<1> QED
  BY <1>1, <1>2, <1>5, <1>6

\* The list cancelRequest() walks.
LEMMA WalkOf ==
  ASSUME TypeOK, NEW r \in Requests, cancelRequest(r)
  PROVE  /\ walk' \in Walks /\ walk'.requestId = r
         /\ Elements(walk'.left) =
              Elements(children[r]) \cup (IF requestFibers[r] = 0 THEN {} ELSE {requestFibers[r]})
         /\ queueCancelled' = IF r \in queued THEN queueCancelled \cup {r} ELSE queueCancelled
<1> DEFINE own == IF requestFibers[r] = 0 THEN <<>> ELSE <<requestFibers[r]>>
<1>1. children[r] \in Seq(Fibers) /\ requestFibers[r] \in Fibers \cup {0}
  BY DEF TypeOK
<1>2. Reverse(children[r]) \in Seq(Fibers) /\ Elements(Reverse(children[r])) = Elements(children[r])
  BY <1>1, ReverseOf
<1>3. own \in Seq(Fibers) /\ Elements(own) = IF requestFibers[r] = 0 THEN {} ELSE {requestFibers[r]}
  <2>1. CASE requestFibers[r] = 0
    BY <2>1, ElementsEmpty
  <2>2. CASE requestFibers[r] # 0
    <3>1. requestFibers[r] \in Fibers
      BY <1>1, <2>2
    <3>2. own = Append(<<>>, requestFibers[r]) /\ <<>> \in Seq(Fibers)
      BY <2>2
    <3> HIDE DEF own
    <3>3. own \in Seq(Fibers) /\ Elements(own) = Elements(<<>>) \cup {requestFibers[r]}
      BY <3>1, <3>2, AppendOf
    <3> QED
      BY <2>2, <3>3, ElementsEmpty
  <2> QED
    BY <2>1, <2>2
<1> HIDE DEF own
<1>4. /\ Reverse(children[r]) \o own \in Seq(Fibers)
      /\ Elements(Reverse(children[r]) \o own) = Elements(children[r]) \cup Elements(own)
  BY <1>2, <1>3, ConcatOf
<1>5. walk' = [requestId |-> r, left |-> Reverse(children[r]) \o own]
  BY DEF cancelRequest, own
<1>6. walk'.requestId = r /\ walk'.left = Reverse(children[r]) \o own
  BY <1>5
<1>7. walk' \in Walks
  BY <1>4, <1>5 DEF Walks
<1> QED
  BY <1>3, <1>4, <1>6, <1>7 DEF cancelRequest

\* Types, when a fiber gets the thread,
LEMMA TypesByGiving ==
  ASSUME TypeOK, NEW f \in Fibers, giveThread(f)
  PROVE  /\ running' \in Fibers /\ at' \in [Fibers -> Places]
         /\ requestFibers' \in [Requests -> Fibers \cup {0}]
         /\ scope' \in [Fibers -> Requests \cup {0}]
<1>0. /\ at \in [Fibers -> Places] /\ requestFibers \in [Requests -> Fibers \cup {0}]
      /\ scope \in [Fibers -> Requests \cup {0}] /\ job[f] \in Jobs
      /\ "run" \in Places
  BY DEF TypeOK, Places
<1>1. job[f].handles \in Requests \cup {0} /\ job[f].requestId \in Requests \cup {0}
  BY <1>0 DEF Jobs
<1>2. running' \in Fibers /\ at' \in [Fibers -> Places]
  BY <1>0 DEF giveThread
<1>3. requestFibers' \in [Requests -> Fibers \cup {0}]
  BY <1>0, <1>1 DEF giveThread
<1>4. scope' \in [Fibers -> Requests \cup {0}]
  BY <1>0, <1>1 DEF giveThread
<1> QED
  BY <1>2, <1>3, <1>4

\* An admission keeps the types of what it writes.
LEMMA HandlerIsJob ==
  ASSUME NEW r \in Requests
  PROVE  Handler(r) \in Jobs /\ NoJob \in Jobs
<1>1. FALSE \in BOOLEAN /\ {} \in SUBSET Futures /\ "handler" \in Stages /\ "none" \in Stages
  BY DEF Stages
<1>2. Handler(r) \in Jobs
  BY <1>1 DEF Jobs, Handler
<1>3. NoJob \in Jobs
  BY <1>1 DEF Jobs, NoJob
<1> QED
  BY <1>2, <1>3

\* when a request is admitted,
LEMMA TypesByAdmitting ==
  ASSUME TypeOK, Spawnable, NEW r \in Requests, admitRequest(r)
  PROVE  /\ pending' \in Seq(Fibers) /\ ready' \in Seq(Fibers) /\ idle' \in Seq(Fibers)
         /\ at' \in [Fibers -> Places] /\ job' \in [Fibers -> Jobs]
         /\ fate' \in [Requests -> Fates] /\ inflightRequests' \in Nat
<1>1. spawnOnto(SpawnTarget) /\ SpawnTarget \in Fibers
  BY DEF admitRequest, Spawnable
<1>2. job \in [Fibers -> Jobs] /\ fate \in [Requests -> Fates] /\ inflightRequests \in Nat
  BY DEF TypeOK
<1>3. "admitted" \in Fates /\ Handler(r) \in Jobs
  BY HandlerIsJob DEF Fates
<1>4. job' \in [Fibers -> Jobs]
  BY <1>1, <1>2, <1>3 DEF admitRequest
<1>5. fate' \in [Requests -> Fates] /\ inflightRequests' \in Nat
  BY <1>2, <1>3 DEF admitRequest
<1> QED
  BY <1>1, <1>4, <1>5, SpawnTypes

\* The jobs after spawn(): the child's on its fiber, one more future on the
\* parent's.
LEMMA SpawnJobs ==
  ASSUME TypeOK, NEW f \in Fibers, Spawnable, spawn(f), SpawnTarget # f
  PROVE  LET g == SpawnTarget
             p == [job[f] EXCEPT !.mine = job[f].mine \cup {nextFuture}]
         IN  /\ ChildOf(f) \in Jobs /\ p \in Jobs /\ job' \in [Fibers -> Jobs]
             /\ job'[g] = ChildOf(f) /\ job'[f] = p
             /\ \A h \in Fibers \ {f, g} : job'[h] = job[h]
<1> DEFINE g == SpawnTarget
<1> DEFINE p == [job[f] EXCEPT !.mine = job[f].mine \cup {nextFuture}]
<1>0. g \in Fibers /\ g # f /\ job \in [Fibers -> Jobs] /\ nextFuture \in Futures
  BY DEF Spawnable, TypeOK, spawn
<1>1. job[f] \in Jobs
  BY <1>0
<1>2. job[f].mine \cup {nextFuture} \in SUBSET Futures
  BY <1>0, <1>1 DEF Jobs
<1>3. p \in Jobs
  BY <1>1, <1>2 DEF Jobs
<1>4. /\ scope[f] \in Requests \cup {0} /\ job[f].owner \in Requests \cup {0}
      /\ (job[f].keyless \/ scope[f] = 0) \in BOOLEAN /\ {} \in SUBSET Futures
      /\ "child" \in Stages
  BY <1>1 DEF TypeOK, Jobs, Stages
<1>5. ChildOf(f) \in Jobs
  BY <1>0, <1>4 DEF Jobs, ChildOf
<1>6. job' = [[job EXCEPT ![g] = ChildOf(f)] EXCEPT ![f].mine = @ \cup {nextFuture}]
  BY DEF spawn
<1> DEFINE mid == [job EXCEPT ![g] = ChildOf(f)]
<1>7. /\ mid \in [Fibers -> Jobs] /\ mid[f] = job[f] /\ mid[g] = ChildOf(f)
      /\ \A h \in Fibers \ {g} : mid[h] = job[h]
  BY <1>0, <1>5
<1> HIDE DEF mid
<1>8. job' = [mid EXCEPT ![f] = p]
  BY <1>6, <1>7 DEF mid
<1> HIDE DEF p
<1>9. /\ job' \in [Fibers -> Jobs] /\ job'[f] = p /\ job'[g] = mid[g]
      /\ \A h \in Fibers \ {f, g} : job'[h] = mid[h]
  BY <1>0, <1>3, <1>7, <1>8
<1> QED
  BY <1>3, <1>5, <1>7, <1>9 DEF p

\* The running fiber is none that spawn() may take.
LEMMA SpawnTakesAnother ==
  ASSUME TypeOK, Held, Spawnable, NEW f \in Fibers, running = f
  PROVE  SpawnTarget # f
<1>1. at[f] = "run" /\ f \notin Elements(idle)
  BY DEF Held, HeldOnce
<1>2. CASE idle # <<>>
  <2>1. idle \in Seq(Fibers) /\ Distinct(idle)
    BY DEF TypeOK, Held
  <2> QED
    BY <1>1, <1>2, <2>1, FrontOf DEF Spawnable
<1>3. CASE idle = <<>>
  BY <1>1, <1>3 DEF Spawnable
<1> QED
  BY <1>2, <1>3

\* and in every step.
LEMMA TypesKept ==
  ASSUME LoopInv, Next
  PROVE  TypeOK'
<1> USE DEF control, fibers, pool, parks, maps, futures, admission, winding, reactor, requests
<1>0. TypeOK /\ Held /\ Room /\ Ids
  BY DEF LoopInv
<1>1. CASE startPending
  <2>1. CASE pending = <<>>
    BY <1>0, <1>1, <2>1 DEF startPending, TypeOK
  <2>2. CASE pending # <<>>
    <3>1. Head(pending) \in Fibers /\ Tail(pending) \in Seq(Fibers) /\ giveThread(Head(pending))
      BY <1>0, <1>1, <2>2, HeadFiber DEF startPending
    <3>2. /\ running' \in Fibers /\ at' \in [Fibers -> Places]
          /\ requestFibers' \in [Requests -> Fibers \cup {0}]
          /\ scope' \in [Fibers -> Requests \cup {0}]
      BY <1>0, <3>1, TypesByGiving
    <3> QED
      BY <1>0, <1>1, <2>2, <3>1, <3>2 DEF startPending, TypeOK
  <2> QED
    BY <2>1, <2>2
<1>2. CASE resumeReady
  <2>1. CASE ready = <<>>
    BY <1>0, <1>2, <2>1 DEF resumeReady, TypeOK
  <2>2. CASE ready # <<>>
    <3>1. Head(ready) \in Fibers /\ Tail(ready) \in Seq(Fibers) /\ giveThread(Head(ready))
      BY <1>0, <1>2, <2>2, HeadFiber DEF resumeReady
    <3>2. /\ running' \in Fibers /\ at' \in [Fibers -> Places]
          /\ requestFibers' \in [Requests -> Fibers \cup {0}]
          /\ scope' \in [Fibers -> Requests \cup {0}]
      BY <1>0, <3>1, TypesByGiving
    <3> QED
      BY <1>0, <1>2, <2>2, <3>1, <3>2 DEF resumeReady, TypeOK
  <2> QED
    BY <2>1, <2>2
<1>3. CASE WindDown \/ EndOfBatch
  BY <1>0, <1>3 DEF WindDown, EndOfBatch, TypeOK
<1>4. CASE EndOfWalk
  <2>1. NoWalk \in Walks
    BY DEF NoWalk, Walks
  <2> QED
    BY <1>0, <1>4, <2>1 DEF EndOfWalk, TypeOK
<1>5. CASE ignis_poll
  <2>1. events' \in Seq(Events)
    BY <1>0, <1>5, RetainKeeps DEF ignis_poll, TypeOK
  <2>2. fate' \in [Requests -> Fates]
    <3>1. fate \in [Requests -> Fates] /\ "overwritten" \in Fates
      BY <1>0 DEF TypeOK, Fates
    <3> QED
      BY <1>5, <3>1 DEF ignis_poll
  <2>3. channel' \in Seq(Events)
    BY <1>5 DEF ignis_poll
  <2> QED
    BY <1>0, <1>5, <2>1, <2>2, <2>3 DEF ignis_poll, TypeOK
<1>6. CASE dispatchRequest
  <2> DEFINE r == Head(events).id
  <2>1. r \in Requests /\ fate[r] = "sent" /\ events' \in Seq(Events)
    BY <1>0, <1>6, HeadRequest, HeadEvent DEF dispatchRequest, Dispatching
  <2>2. fate \in [Requests -> Fates] /\ {"rejected", "queued"} \subseteq Fates
    BY <1>0 DEF TypeOK, Fates
  <2>3. CASE ~OverBudget(r)
    <3>1. Spawnable
      BY <1>0, <2>1, AdmitFindsFiber
    <3>2. admitRequest(r) /\ UNCHANGED <<requestQueue, queued, owes>>
      BY <1>6, <2>3 DEF dispatchRequest
    <3>3. /\ pending' \in Seq(Fibers) /\ ready' \in Seq(Fibers) /\ idle' \in Seq(Fibers)
          /\ at' \in [Fibers -> Places] /\ job' \in [Fibers -> Jobs]
          /\ fate' \in [Requests -> Fates] /\ inflightRequests' \in Nat
      BY <1>0, <2>1, <3>1, <3>2, TypesByAdmitting
    <3>4. UNCHANGED <<turn, walk, running, scope, waiting, parkedOn, requestFibers, children,
                      deadlineOf, settled, waiters, nextFuture, queueCancelled, stopping,
                      longTimers, orphanTimers, nextOp, outstanding, callingOff, channel>>
      BY <1>6 DEF dispatchRequest
    <3> QED
      BY <1>0, <2>1, <3>2, <3>3, <3>4 DEF TypeOK
  <2>4. CASE OverBudget(r)
    <3>1. fate' \in [Requests -> Fates]
      BY <1>6, <2>2, <2>4 DEF dispatchRequest
    <3>2. requestQueue' \in Seq(Requests) /\ queued' \subseteq Requests /\ owes' \subseteq Requests
      <4>1. /\ requestQueue \in Seq(Requests) /\ queued \subseteq Requests
            /\ owes \subseteq Requests /\ Append(requestQueue, r) \in Seq(Requests)
        BY <1>0, <2>1, AppendOf DEF TypeOK
      <4> QED
        BY <1>6, <2>1, <2>4, <4>1 DEF dispatchRequest
    <3>3. UNCHANGED <<turn, walk, running, scope, waiting, parkedOn, requestFibers, children,
                      deadlineOf, settled, waiters, nextFuture, queueCancelled, stopping,
                      longTimers, orphanTimers, nextOp, outstanding, callingOff, channel,
                      inflightRequests, pending, ready, idle, at, job>>
      BY <1>6, <2>4 DEF dispatchRequest
    <3> QED
      BY <1>0, <2>1, <3>1, <3>2, <3>3 DEF TypeOK
  <2> QED
    BY <2>3, <2>4
<1>7. CASE DispatchCancel
  <2>1. Head(events).id \in Requests /\ events' \in Seq(Events) /\ cancelRequest(Head(events).id)
    BY <1>0, <1>7, HeadEvent DEF DispatchCancel, Dispatching
  <2>2. walk' \in Walks /\ queueCancelled' \subseteq Requests
    BY <1>0, <2>1, WalkOf DEF TypeOK
  <2> QED
    BY <1>0, <1>7, <2>1, <2>2 DEF DispatchCancel, TypeOK
<1>8. CASE DispatchDeadline
  <2>1. events' \in Seq(Events)
    BY <1>0, <1>8, HeadEvent DEF DispatchDeadline, Dispatching
  <2>2. PICK r \in ArmedBy(Head(events).id) :
          deadlineOf' = [deadlineOf EXCEPT ![r] = 0] /\ cancelRequest(r)
    BY <1>8 DEF DispatchDeadline
  <2>3. r \in Requests
    BY DEF ArmedBy
  <2>4. walk' \in Walks /\ queueCancelled' \subseteq Requests
    BY <1>0, <2>2, <2>3, WalkOf DEF TypeOK
  <2>5. deadlineOf' \in [Requests -> Ops \cup {0}]
    BY <1>0, <2>2 DEF TypeOK
  <2> QED
    BY <1>0, <1>8, <2>1, <2>4, <2>5 DEF DispatchDeadline, TypeOK
<1>9. CASE DispatchCompletion
  <2> DEFINE o == Head(events).id
  <2>1. o \in Ops /\ events' \in Seq(Events)
    BY <1>0, <1>9, HeadEvent DEF DispatchCompletion, Dispatching
  <2>2. CASE waiting[o] = 0
    BY <1>0, <1>9, <2>1, <2>2 DEF DispatchCompletion, TypeOK
  <2>3. CASE waiting[o] # 0
    <3>1. waiting[o] \in Fibers /\ "run" \in Places
      BY <1>0, <2>1, <2>3 DEF TypeOK, Places
    <3>2. /\ waiting' \in [Ops -> Fibers \cup {0}] /\ parkedOn' \in [Fibers -> Ops \cup {0}]
          /\ running' \in Fibers /\ at' \in [Fibers -> Places]
      <4>1. /\ waiting \in [Ops -> Fibers \cup {0}] /\ parkedOn \in [Fibers -> Ops \cup {0}]
            /\ at \in [Fibers -> Places]
        BY <1>0 DEF TypeOK
      <4>2. /\ waiting' = [waiting EXCEPT ![o] = 0]
            /\ parkedOn' = [parkedOn EXCEPT ![waiting[o]] = 0]
            /\ running' = waiting[o] /\ at' = [at EXCEPT ![waiting[o]] = "run"]
        BY <1>9, <2>3 DEF DispatchCompletion
      <4> QED
        BY <3>1, <4>1, <4>2
    <3> QED
      BY <1>0, <1>9, <2>1, <3>2 DEF DispatchCompletion, TypeOK
  <2> QED
    BY <2>2, <2>3
<1>10. CASE throwInto
  <2> DEFINE f == Head(walk.left)
  <2>1. walk.left \in Seq(Fibers) /\ walk.requestId \in Requests \cup {0} /\ walk \in Walks
    BY <1>0 DEF TypeOK, Walks
  <2>2. f \in Fibers /\ Tail(walk.left) \in Seq(Fibers)
    BY <1>10, <2>1, TailOf DEF throwInto
  <2>3. walk' \in Walks
    BY <1>10, <2>1, <2>2 DEF throwInto, Walks
  <2>4. CASE parkedOn[f] = 0
    BY <1>0, <1>10, <2>3, <2>4 DEF throwInto, TypeOK
  <2>5. CASE parkedOn[f] # 0
    <3>1. parkedOn[f] \in Ops /\ "run" \in Places
      BY <1>0, <2>2, <2>5 DEF TypeOK, Places
    <3>2. /\ waiting' \in [Ops -> Fibers \cup {0}] /\ parkedOn' \in [Fibers -> Ops \cup {0}]
          /\ running' \in Fibers /\ at' \in [Fibers -> Places]
      BY <1>0, <1>10, <2>2, <2>5, <3>1 DEF throwInto, TypeOK
    <3> QED
      BY <1>0, <1>10, <2>3, <3>2 DEF throwInto, TypeOK
  <2> QED
    BY <2>4, <2>5
<1>11. ASSUME NEW f \in Fibers, FiberStep(f) PROVE TypeOK'
  <2>0. /\ MaxOp \in Nat /\ MaxFuture \in Nat /\ {"op", "future", "idle"} \subseteq Places
        /\ job[f] \in Jobs /\ scope[f] \in Requests \cup {0}
    BY <1>0, LoopAssumption DEF Places, TypeOK
  <2>1. CASE awaitOp(f)
    <3>1. nextOp \in Ops /\ nextOp' \in 1..(MaxOp + 1) /\ outstanding' \subseteq Ops
      BY <1>0, <2>0, <2>1 DEF awaitOp, TypeOK, Ops
    <3>2. /\ waiting' \in [Ops -> Fibers \cup {0}] /\ parkedOn' \in [Fibers -> Ops \cup {0}]
          /\ running' = 0 /\ at' \in [Fibers -> Places]
      BY <1>0, <2>0, <2>1, <3>1 DEF awaitOp, TypeOK
    <3> QED
      BY <1>0, <2>1, <3>1, <3>2 DEF awaitOp, TypeOK
  <2>2. CASE await(f)
    <3>1. waiters' \in [Futures -> Seq(Fibers)]
      <4>1. PICK j \in job[f].mine : waiters' = [waiters EXCEPT ![j] = Append(@, f)]
        BY <2>2 DEF await
      <4>2. j \in Futures /\ waiters \in [Futures -> Seq(Fibers)]
        BY <1>0, <2>0 DEF Jobs, TypeOK
      <4>3. Append(waiters[j], f) \in Seq(Fibers)
        BY <4>2, AppendOf
      <4> QED
        BY <4>1, <4>2, <4>3
    <3>2. running' = 0 /\ at' \in [Fibers -> Places]
      BY <1>0, <2>0, <2>2 DEF await, TypeOK
    <3> QED
      BY <1>0, <2>2, <3>1, <3>2 DEF await, TypeOK
  <2>3. CASE poolBody(f)
    <3>1. job[f].future \in Futures \cup {0} /\ settle(job[f].future)
      BY <2>0, <2>3 DEF poolBody, Jobs
    <3>2. ready' \in Seq(Fibers) /\ waiters' \in [Futures -> Seq(Fibers)]
      BY <1>0, <3>1, SettleMoves
    <3>3. settled' \subseteq Futures
      BY <1>0, <3>1 DEF settle, TypeOK
    <3>4. children' \in [Requests -> Seq(Fibers)]
      <4> DEFINE r == job[f].requestId
      <4>1. children \in [Requests -> Seq(Fibers)] /\ r \in Requests \cup {0}
        BY <1>0, <2>0 DEF TypeOK, Jobs
      <4>2. CASE r = 0
        BY <2>3, <4>1, <4>2 DEF poolBody, forgetChild
      <4>3. CASE r # 0
        <5>1. children[r] \in Seq(Fibers)
          BY <4>1, <4>3
        <5>2. Without(children[r], f) \in Seq(Fibers)
          BY <5>1, RetainOthers DEF Without
        <5> QED
          BY <2>3, <4>1, <4>3, <5>2 DEF poolBody, forgetChild
      <4> QED
        BY <4>2, <4>3
    <3>5. idle' \in Seq(Fibers) /\ running' = 0 /\ at' \in [Fibers -> Places]
      BY <1>0, <2>0, <2>3, AppendOf DEF poolBody, TypeOK
    <3>6. job' \in [Fibers -> Jobs]
      <4>1. NoJob \in Jobs
        BY DEF NoJob, Jobs, Stages
      <4> QED
        BY <1>0, <2>3, <4>1 DEF poolBody, TypeOK
    <3>7. UNCHANGED <<turn, events, walk, scope, pending, waiting, parkedOn, requestFibers,
                      deadlineOf, nextFuture, requestQueue, queued, queueCancelled,
                      inflightRequests, stopping, longTimers, orphanTimers, nextOp,
                      outstanding, callingOff, channel, owes, fate>>
      BY <2>3 DEF poolBody
    <3> QED
      BY <1>0, <3>2, <3>3, <3>4, <3>5, <3>6, <3>7 DEF TypeOK
  <2>4. CASE spawn(f)
    <3>1. Spawnable /\ SpawnTarget # f /\ SpawnTarget \in Fibers
      BY <1>0, <2>4, ChildFindsFiber, SpawnTakesAnother DEF spawn, InUserCode, Spawnable
    <3>2. job' \in [Fibers -> Jobs]
      BY <1>0, <2>4, <3>1, SpawnJobs
    <3>3. /\ pending' \in Seq(Fibers) /\ ready' \in Seq(Fibers) /\ idle' \in Seq(Fibers)
          /\ at' \in [Fibers -> Places]
      BY <1>0, <2>4, <3>1, SpawnTypes DEF spawn
    <3>4. nextFuture' \in 1..(MaxFuture + 1)
      BY <1>0, <2>0, <2>4 DEF spawn, Futures
    <3>5. children' \in [Requests -> Seq(Fibers)]
      <4>1. children \in [Requests -> Seq(Fibers)]
        BY <1>0 DEF TypeOK
      <4>2. CASE scope[f] = 0
        BY <2>4, <4>1, <4>2 DEF spawn
      <4>3. CASE scope[f] # 0
        <5>1. scope[f] \in Requests /\ children[scope[f]] \in Seq(Fibers)
          BY <2>0, <4>1, <4>3
        <5>2. Without(children[scope[f]], SpawnTarget) \in Seq(Fibers)
          BY <5>1, RetainOthers, ZenonT(40) DEF Without
        <5>3. Append(Without(children[scope[f]], SpawnTarget), SpawnTarget) \in Seq(Fibers)
          BY <3>1, <5>2, AppendOf
        <5> QED
          BY <2>4, <4>1, <4>3, <5>1, <5>3 DEF spawn
      <4> QED
        BY <4>2, <4>3
    <3>6. UNCHANGED <<turn, events, walk, running, scope, waiting, parkedOn, requestFibers,
                      deadlineOf, settled, waiters, requestQueue, queued, queueCancelled,
                      inflightRequests, stopping, longTimers, orphanTimers, nextOp,
                      outstanding, callingOff, channel, owes, fate>>
      BY <2>4 DEF spawn
    <3> QED
      BY <1>0, <3>2, <3>3, <3>4, <3>5, <3>6 DEF TypeOK
  <2>5. CASE drainQueue(f)
    <3> DEFINE r == Head(requestQueue)
    <3>1. r \in Requests /\ fate[r] = "queued" /\ Tail(requestQueue) \in Seq(Requests)
      BY <1>0, <2>5, HeadQueued, TailOf DEF drainQueue, RoomForQueued, TypeOK
    <3>2. /\ requestQueue' \in Seq(Requests) /\ queued' \subseteq Requests
          /\ queueCancelled' \subseteq Requests
      BY <1>0, <2>5, <3>1 DEF drainQueue, TypeOK
    <3>3. /\ pending' \in Seq(Fibers) /\ ready' \in Seq(Fibers) /\ idle' \in Seq(Fibers)
          /\ at' \in [Fibers -> Places] /\ job' \in [Fibers -> Jobs]
          /\ fate' \in [Requests -> Fates] /\ inflightRequests' \in Nat
      <4>1. CASE r \in queueCancelled
        <5>1. fate \in [Requests -> Fates] /\ "dropped" \in Fates
          BY <1>0 DEF TypeOK, Fates
        <5>2. fate' \in [Requests -> Fates]
          BY <2>5, <4>1, <5>1 DEF drainQueue
        <5> QED
          BY <1>0, <2>5, <4>1, <5>2 DEF drainQueue, TypeOK
      <4>2. CASE r \notin queueCancelled
        <5>1. Spawnable
          BY <1>0, <3>1, AdmitFindsFiber
        <5>2. admitRequest(r)
          BY <2>5, <4>2 DEF drainQueue
        <5> QED
          BY <1>0, <3>1, <5>1, <5>2, TypesByAdmitting
      <4> QED
        BY <4>1, <4>2
    <3>4. UNCHANGED <<turn, events, walk, running, scope, waiting, parkedOn, requestFibers,
                      children, deadlineOf, settled, waiters, nextFuture, stopping,
                      longTimers, orphanTimers, nextOp, outstanding, callingOff, channel,
                      owes>>
      BY <2>5 DEF drainQueue
    <3> QED
      BY <1>0, <3>2, <3>3, <3>4 DEF TypeOK
  <2>6. CASE deadline(f)
    <3>1. nextOp \in Ops /\ nextOp' \in 1..(MaxOp + 1) /\ outstanding' \subseteq Ops
      BY <1>0, <2>0, <2>6 DEF deadline, TypeOK, Ops
    <3>2. deadlineOf' \in [Requests -> Ops \cup {0}] /\ callingOff' \subseteq Ops
      BY <1>0, <2>0, <2>6, <3>1 DEF deadline, disarmed, TypeOK
    <3>3. longTimers' \subseteq Ops /\ orphanTimers' \subseteq Ops
      BY <1>0, <2>6, <3>1 DEF deadline, TypeOK
    <3> QED
      BY <1>0, <2>6, <3>1, <3>2, <3>3 DEF deadline, TypeOK
  <2>7. CASE stop(f)
    BY <1>0, <2>7 DEF stop, TypeOK
  <2>8. CASE produce(f)
    <3>1. scope' \in [Fibers -> Requests \cup {0}]
      BY <1>0, <2>8 DEF produce, TypeOK
    <3>2. job' \in [Fibers -> Jobs]
      <4>1. "stream" \in Stages /\ job \in [Fibers -> Jobs]
        BY <1>0 DEF Stages, TypeOK
      <4>2. [job[f] EXCEPT !.stage = "stream"] \in Jobs
        BY <2>0, <4>1 DEF Jobs
      <4> QED
        BY <2>8, <4>1, <4>2 DEF produce
    <3> QED
      BY <1>0, <2>8, <3>1, <3>2 DEF produce, TypeOK
  <2>9. CASE releaseRequest(f)
    <3> DEFINE r == job[f].handles
    <3>1. r \in Requests /\ inflightRequests \in Nat /\ inflightRequests >= 1
      BY <2>9, ReleasedWasAdmitted DEF releaseRequest, Handling
    <3>2. inflightRequests' \in Nat
      BY <2>9, <3>1 DEF releaseRequest
    <3>3. forgetRequest(r)
      BY <2>9 DEF releaseRequest
    <3>4. /\ callingOff' \subseteq Ops /\ deadlineOf' \in [Requests -> Ops \cup {0}]
          /\ requestFibers' \in [Requests -> Fibers \cup {0}]
      BY <1>0, <3>1, <3>3 DEF forgetRequest, disarmed, TypeOK
    <3>5. children' \in [Requests -> Seq(Fibers)]
      <4>1. <<>> \in Seq(Fibers) /\ children \in [Requests -> Seq(Fibers)]
        BY <1>0 DEF TypeOK
      <4> QED
        BY <3>3, <4>1 DEF forgetRequest
    <3>6. fate' \in [Requests -> Fates] /\ scope' \in [Fibers -> Requests \cup {0}]
      <4>1. fate \in [Requests -> Fates] /\ "released" \in Fates
        BY <1>0 DEF TypeOK, Fates
      <4> QED
        BY <1>0, <2>9, <4>1 DEF releaseRequest, TypeOK
    <3>7. job' \in [Fibers -> Jobs]
      <4>1. "drain" \in Stages /\ job \in [Fibers -> Jobs]
        BY <1>0 DEF Stages, TypeOK
      <4>2. [job[f] EXCEPT !.stage = "drain"] \in Jobs
        BY <2>0, <4>1 DEF Jobs
      <4> QED
        BY <2>9, <4>1, <4>2 DEF releaseRequest
    <3>8. owes' \subseteq Requests
      BY <1>0, <2>9 DEF releaseRequest, TypeOK
    <3>9. UNCHANGED <<turn, events, walk, running, at, pending, ready, idle, waiting,
                      parkedOn, settled, waiters, nextFuture, requestQueue, queued,
                      queueCancelled, stopping, longTimers, orphanTimers, nextOp,
                      outstanding, channel>>
      BY <2>9 DEF releaseRequest
    <3> QED
      BY <1>0, <3>2, <3>4, <3>5, <3>6, <3>7, <3>8, <3>9 DEF TypeOK
  <2> QED
    BY <1>11, <2>1, <2>2, <2>3, <2>4, <2>5, <2>6, <2>7, <2>8, <2>9 DEF FiberStep
<1>12. CASE Environment
  <2>0. Ops \subseteq Nat /\ Requests \subseteq Nat
    BY DEF Ops, Requests
  <2>1. CASE BeginReload
    BY <1>0, <2>1 DEF BeginReload, TypeOK
  <2>2. ASSUME NEW o \in Ops, OpCompletes(o) PROVE TypeOK'
    <3>1. Event("op", o) \in Events
      BY <2>0 DEF Event, Events, Kinds
    <3>2. channel' \in Seq(Events) /\ outstanding' \subseteq Ops
      BY <1>0, <2>2, <3>1, AppendOf DEF OpCompletes, TypeOK
    <3> QED
      BY <1>0, <1>12, <2>2, <3>2, EnvironmentIsOutside DEF OpCompletes, reactorSees, TypeOK
  <2>3. ASSUME NEW o \in Ops, OpCalledOff(o) PROVE TypeOK'
    <3> DEFINE e == Event("error", o)
    <3>1. e \in Events
      BY <2>0 DEF Event, Events, Kinds
    <3> HIDE DEF e
    <3>2. <<e, e>> \in Seq(Events) /\ <<e>> \in Seq(Events)
      BY <3>1
    <3>3. channel' = channel \o (IF o \in outstanding THEN <<e, e>> ELSE <<e>>)
      BY <2>3 DEF OpCalledOff, e
    <3>4. channel' \in Seq(Events)
      BY <1>0, <3>2, <3>3, ConcatOf DEF TypeOK
    <3>5. outstanding' \subseteq Ops /\ callingOff' \subseteq Ops
      BY <1>0, <2>3 DEF OpCalledOff, TypeOK
    <3> QED
      BY <1>0, <1>12, <2>3, <3>4, <3>5, EnvironmentIsOutside DEF OpCalledOff, reactorSees, TypeOK
  <2>4. ASSUME NEW r \in Requests, RequestArrives(r) PROVE TypeOK'
    <3>1. Event("request", r) \in Events /\ "sent" \in Fates
      BY <2>0 DEF Event, Events, Kinds, Fates
    <3>2. channel' \in Seq(Events) /\ owes' \subseteq Requests /\ fate' \in [Requests -> Fates]
      BY <1>0, <2>4, <3>1, AppendOf DEF RequestArrives, TypeOK
    <3> QED
      BY <1>0, <1>12, <2>4, <3>2, EnvironmentIsOutside DEF RequestArrives, reactorSees, TypeOK
  <2>5. ASSUME NEW r \in Requests, ClientLeaves(r) PROVE TypeOK'
    <3>1. Event("cancel", r) \in Events
      BY <2>0 DEF Event, Events, Kinds
    <3>2. channel' \in Seq(Events) /\ owes' \subseteq Requests
      BY <1>0, <2>5, <3>1, AppendOf DEF ClientLeaves, TypeOK
    <3> QED
      BY <1>0, <1>12, <2>5, <3>2, EnvironmentIsOutside DEF ClientLeaves, reactorSees, TypeOK
  <2> QED
    BY <1>12, <2>1, <2>2, <2>3, <2>4, <2>5 DEF Environment
<1> QED
  BY <1>1, <1>2, <1>3, <1>4, <1>5, <1>6, <1>7, <1>8, <1>9, <1>10, <1>11, <1>12 DEF Next, Turn

\* Where the loop is, in every step.
LEMMA ControlKept ==
  ASSUME LoopInv, Next
  PROVE  Control'
<1> USE DEF control, fibers, pool, parks, maps, futures, admission, winding, reactor, requests
<1>0. TypeOK /\ Ids /\ Control /\ 0 \notin Requests
  BY DEF LoopInv, Requests
<1>1. CASE startPending \/ resumeReady \/ WindDown \/ ignis_poll \/ EndOfBatch
  BY <1>0, <1>1
     DEF Control, startPending, resumeReady, WindDown, ignis_poll, EndOfBatch, OnMain, giveThread
<1>2. CASE dispatchRequest
  BY <1>0, <1>2 DEF Control, dispatchRequest, Dispatching
<1>3. CASE DispatchCancel
  <2>1. walk'.requestId \in Requests
    BY <1>0, <1>3, HeadEvent, WalkOf DEF DispatchCancel, Dispatching
  <2> QED
    BY <1>0, <1>3, <2>1 DEF Control, DispatchCancel, Dispatching
<1>4. CASE DispatchDeadline
  <2>1. walk'.requestId \in Requests
    BY <1>0, <1>4, WalkOf DEF DispatchDeadline, ArmedBy
  <2> QED
    BY <1>0, <1>4, <2>1 DEF Control, DispatchDeadline, Dispatching
<1>5. CASE DispatchCompletion
  BY <1>0, <1>5 DEF Control, DispatchCompletion, Dispatching
<1>6. CASE throwInto
  <2>1. walk \in Walks
    BY <1>0 DEF TypeOK
  <2>2. walk'.requestId = walk.requestId /\ turn' = turn /\ events' = events
    BY <1>6, <2>1 DEF throwInto, Walks
  <2> QED
    BY <1>0, <1>6, <2>2 DEF Control, throwInto
<1>7. CASE EndOfWalk
  BY <1>0, <1>7 DEF Control, EndOfWalk
<1>8. ASSUME NEW f \in Fibers, FiberStep(f) PROVE Control'
  <2>1. UNCHANGED <<turn, events, walk>> /\ running' \in {running, 0}
    BY <1>8
       DEF FiberStep, awaitOp, spawn, await, deadline, stop, produce, releaseRequest, drainQueue,
           poolBody
  <2> QED
    BY <1>0, <2>1 DEF Control
<1>9. CASE Environment
  BY <1>0, <1>9, EnvironmentIsOutside DEF Control
<1> QED
  BY <1>1, <1>2, <1>3, <1>4, <1>5, <1>6, <1>7, <1>8, <1>9 DEF Next, Turn

\* A spawn creates one fiber at most.
LEMMA SpawnCreates ==
  ASSUME TypeOK, Spawnable, spawnOnto(SpawnTarget)
  PROVE  Created' \subseteq Created \cup {SpawnTarget}
<1>0. at \in [Fibers -> Places] /\ SpawnTarget \in Fibers
  BY DEF TypeOK, Spawnable
<1>1. \A f \in Fibers \ {SpawnTarget} : at'[f] = at[f]
  BY <1>0 DEF spawnOnto
<1> QED
  BY <1>1 DEF Created

\* A fiber more for a request or a child more.
LEMMA RoomForOneMore ==
  ASSUME TypeOK, Room, NEW g, Created' \subseteq Created \cup {g},
         Cardinality(Entered') + nextFuture' >= Cardinality(Entered) + nextFuture + 1,
         nextFuture' \in Nat
  PROVE  Room'
<1>1. Created \subseteq Fibers /\ Entered \subseteq Requests /\ Entered' \subseteq Requests
  BY DEF Created, Entered
<1>2. /\ IsFiniteSet(Created) /\ Cardinality(Created) \in Nat
      /\ Cardinality(Entered) \in Nat /\ Cardinality(Entered') \in Nat
  BY <1>1, CreatedIsFinite, FS_Subset, FS_CardinalityType
<1>3. /\ IsFiniteSet(Created \cup {g})
      /\ Cardinality(Created \cup {g}) =
           IF g \in Created THEN Cardinality(Created) ELSE Cardinality(Created) + 1
  BY <1>2, FS_AddElement
<1>4. Cardinality(Created') <= Cardinality(Created \cup {g}) /\ Cardinality(Created') \in Nat
  BY <1>3, FS_Subset, FS_CardinalityType
<1>5. nextFuture \in Nat
  BY DEF TypeOK
<1> QED
  BY <1>2, <1>3, <1>4, <1>5 DEF Room

\* Admitting a request is one more of those that entered.
LEMMA AdmitEnters ==
  ASSUME TypeOK, NEW r \in Requests, fate[r] \notin {"admitted", "released"},
         fate' = [fate EXCEPT ![r] = "admitted"]
  PROVE  /\ Entered' = Entered \cup {r} /\ Cardinality(Entered') = Cardinality(Entered) + 1
         /\ Cardinality(Entered) \in Nat
<1>1. IsFiniteSet(Entered) /\ r \notin Entered /\ Cardinality(Entered) \in Nat
  BY CreatedIsFinite, FS_Subset, FS_CardinalityType DEF Entered
<1>2. fate \in [Requests -> Fates]
  BY DEF TypeOK
<1>3. Entered' = Entered \cup {r}
  BY <1>2 DEF Entered
<1> QED
  BY <1>1, <1>3, FS_AddElement

\* There is a fiber for everyone to come, in every step.
LEMMA RoomKept ==
  ASSUME LoopInv, Next
  PROVE  Room'
<1> USE DEF control, fibers, pool, parks, maps, futures, admission, winding, reactor, requests
<1>0. /\ TypeOK /\ Held /\ Room /\ Ids /\ nextFuture \in Nat
      /\ at \in [Fibers -> Places] /\ fate \in [Requests -> Fates]
  BY DEF LoopInv, TypeOK
<1>1. ASSUME Created' = Created, Entered' = Entered, nextFuture' = nextFuture PROVE Room'
  BY <1>0, <1>1 DEF Room
<1>2. ASSUME UNCHANGED <<fate, nextFuture>>, NEW f \in Fibers, NEW p \in Places \ {"absent"},
             at' = [at EXCEPT ![f] = p], at[f] # "absent"
      PROVE  Room'
  BY <1>0, <1>1, <1>2 DEF Created, Entered
<1>3. ASSUME UNCHANGED <<at, fate, nextFuture>> PROVE Room'
  BY <1>1, <1>3 DEF Created, Entered
<1>4. {"run", "op", "future", "idle"} \subseteq Places \ {"absent"}
  BY DEF Places
<1>5. ASSUME NEW r \in Requests, fate[r] \in {"sent", "queued"}, admitRequest(r),
             nextFuture' = nextFuture
      PROVE  Room'
  <2>1. Spawnable
    BY <1>0, <1>5, AdmitFindsFiber
  <2>2. Created' \subseteq Created \cup {SpawnTarget}
    BY <1>0, <1>5, <2>1, SpawnCreates DEF admitRequest
  <2>3. Cardinality(Entered') = Cardinality(Entered) + 1 /\ Cardinality(Entered) \in Nat
    BY <1>0, <1>5, AdmitEnters DEF admitRequest
  <2> QED
    BY <1>0, <1>5, <2>2, <2>3, RoomForOneMore
<1>6. CASE startPending
  <2>1. CASE pending = <<>>
    BY <1>3, <1>6, <2>1 DEF startPending
  <2>2. CASE pending # <<>>
    <3>1. Head(pending) \in Fibers /\ Head(pending) \in Elements(pending)
      BY <1>0, <2>2, TailOf DEF TypeOK
    <3>2. at[Head(pending)] # "absent"
      BY <1>0, <3>1 DEF Held, HeldOnce
    <3> QED
      BY <1>2, <1>4, <1>6, <2>2, <3>1, <3>2 DEF startPending, giveThread
  <2> QED
    BY <2>1, <2>2
<1>7. CASE resumeReady
  <2>1. CASE ready = <<>>
    BY <1>3, <1>7, <2>1 DEF resumeReady
  <2>2. CASE ready # <<>>
    <3>1. Head(ready) \in Fibers /\ Head(ready) \in Elements(ready)
      BY <1>0, <2>2, TailOf DEF TypeOK
    <3>2. at[Head(ready)] # "absent"
      BY <1>0, <3>1 DEF Held, HeldOnce
    <3> QED
      BY <1>2, <1>4, <1>7, <2>2, <3>1, <3>2 DEF resumeReady, giveThread
  <2> QED
    BY <2>1, <2>2
<1>8. CASE WindDown \/ DispatchCancel \/ DispatchDeadline \/ EndOfBatch \/ EndOfWalk
  BY <1>3, <1>8 DEF WindDown, DispatchCancel, DispatchDeadline, EndOfBatch, EndOfWalk
<1>9. CASE ignis_poll
  <2>1. ASSUME NEW r \in Requests PROVE r \in Entered' <=> r \in Entered
    <3>1. Event("request", r) \in Elements(channel) => fate[r] = "sent"
      BY DEF LoopInv, Order, Requested
    <3> QED
      BY <1>9, <3>1 DEF ignis_poll, Entered
  <2> QED
    BY <1>1, <1>9, <2>1 DEF ignis_poll, Created, Entered
<1>10. CASE dispatchRequest
  <2> DEFINE r == Head(events).id
  <2>1. r \in Requests /\ fate[r] = "sent"
    BY <1>10, HeadRequest DEF dispatchRequest, Dispatching
  <2>2. CASE ~OverBudget(r)
    BY <1>5, <1>10, <2>1, <2>2 DEF dispatchRequest
  <2>3. CASE OverBudget(r)
    BY <1>0, <1>1, <1>10, <2>1, <2>3 DEF dispatchRequest, Created, Entered
  <2> QED
    BY <2>2, <2>3
<1>11. CASE DispatchCompletion
  <2> DEFINE o == Head(events).id
  <2>1. o \in Ops
    BY <1>0, <1>11, HeadEvent DEF DispatchCompletion, Dispatching
  <2>2. CASE waiting[o] = 0
    BY <1>3, <1>11, <2>2 DEF DispatchCompletion
  <2>3. CASE waiting[o] # 0
    <3>1. waiting[o] \in Fibers /\ parkedOn[waiting[o]] = o
      BY <1>0, <2>1, <2>3 DEF TypeOK, Held
    <3>2. o # 0
      BY <2>1 DEF Ops
    <3>3. at[waiting[o]] # "absent"
      BY <1>0, <3>1, <3>2 DEF Held, HeldOnce
    <3> QED
      BY <1>2, <1>4, <1>11, <2>3, <3>1, <3>3 DEF DispatchCompletion
  <2> QED
    BY <2>2, <2>3
<1>12. CASE throwInto
  <2> DEFINE f == Head(walk.left)
  <2>1. f \in Fibers
    BY <1>0, <1>12, TailOf DEF throwInto, TypeOK, Walks
  <2>2. CASE parkedOn[f] = 0
    BY <1>3, <1>12, <2>2 DEF throwInto
  <2>3. CASE parkedOn[f] # 0
    <3>1. at[f] # "absent"
      BY <1>0, <2>1, <2>3 DEF Held, HeldOnce
    <3> QED
      BY <1>2, <1>4, <1>12, <2>1, <2>3, <3>1 DEF throwInto
  <2> QED
    BY <2>2, <2>3
<1>13. ASSUME NEW f \in Fibers, FiberStep(f) PROVE Room'
  <2>0. running = f /\ at[f] # "absent"
    <3>1. running = f
      BY <1>13
         DEF FiberStep, awaitOp, spawn, await, deadline, stop, produce, releaseRequest,
             drainQueue, poolBody, InUserCode, Draining
    <3> QED
      BY <1>0, <3>1 DEF Held, HeldOnce
  <2>1. CASE awaitOp(f)
    BY <1>2, <1>4, <2>0, <2>1 DEF awaitOp
  <2>2. CASE await(f)
    BY <1>2, <1>4, <2>0, <2>2 DEF await
  <2>3. CASE poolBody(f)
    BY <1>2, <1>4, <2>0, <2>3 DEF poolBody
  <2>4. CASE spawn(f)
    <3>1. Spawnable
      BY <1>0, <2>4, ChildFindsFiber DEF spawn
    <3>2. Created' \subseteq Created \cup {SpawnTarget}
      BY <1>0, <2>4, <3>1, SpawnCreates DEF spawn
    <3>3. Entered' = Entered /\ nextFuture' = nextFuture + 1
      BY <2>4 DEF spawn, Entered
    <3>4. Cardinality(Entered) \in Nat
      BY CreatedIsFinite, FS_Subset, FS_CardinalityType DEF Entered
    <3> QED
      BY <1>0, <3>2, <3>3, <3>4, RoomForOneMore
  <2>5. CASE drainQueue(f)
    <3> DEFINE r == Head(requestQueue)
    <3>1. r \in Requests /\ fate[r] = "queued"
      BY <2>5, HeadQueued DEF drainQueue, RoomForQueued
    <3>2. CASE r \in queueCancelled
      BY <1>0, <1>1, <2>5, <3>1, <3>2 DEF drainQueue, Created, Entered
    <3>3. CASE r \notin queueCancelled
      BY <1>5, <2>5, <3>1, <3>3 DEF drainQueue
    <3> QED
      BY <3>2, <3>3
  <2>6. CASE deadline(f) \/ stop(f) \/ produce(f)
    BY <1>3, <2>6 DEF deadline, stop, produce
  <2>7. CASE releaseRequest(f)
    <3> DEFINE r == job[f].handles
    <3>1. r \in Requests /\ fate[r] = "admitted"
      BY <2>7, ReleasedWasAdmitted DEF releaseRequest, Handling
    <3>2. fate' = [fate EXCEPT ![r] = "released"] /\ UNCHANGED <<at, nextFuture>>
      BY <2>7 DEF releaseRequest
    <3> HIDE DEF r
    <3> QED
      BY <1>0, <1>1, <3>1, <3>2 DEF Created, Entered
  <2> QED
    BY <1>13, <2>1, <2>2, <2>3, <2>4, <2>5, <2>6, <2>7 DEF FiberStep
<1>14. CASE Environment
  <2>1. UNCHANGED <<at, nextFuture>>
    BY <1>14, EnvironmentIsOutside
  <2>2. ASSUME NEW r \in Requests, RequestArrives(r) PROVE Entered' = Entered
    BY <1>0, <2>2 DEF RequestArrives, Entered
  <2>3. ASSUME ~\E r \in Requests : RequestArrives(r) PROVE fate' = fate
    BY <1>14, <2>3 DEF Environment, BeginReload, OpCompletes, OpCalledOff, ClientLeaves
  <2> QED
    BY <1>1, <1>3, <2>1, <2>2, <2>3 DEF Created
<1> QED
  BY <1>6, <1>7, <1>8, <1>9, <1>10, <1>11, <1>12, <1>13, <1>14 DEF Next, Turn

-----------------------------------------------------------------------------
(* The order of requests.                                                  *)

\* A request event is told by its kind and its id.
LEMMA RequestEvent ==
  ASSUME NEW e \in Events
  PROVE  /\ e.kind = "request" => e = Event("request", e.id)
         /\ \A r : e = Event("request", r) => e.kind = "request" /\ e.id = r
BY DEF Events, Event

\* The first event is dispatched,
LEMMA InOrderTail ==
  ASSUME NEW s \in Seq(Events), s # <<>>, InOrder(s)
  PROVE  /\ InOrder(Tail(s))
         /\ Head(s).kind # "request" => Requested(Tail(s)) = Requested(s)
         /\ Head(s).kind = "request" /\ Head(s).id \in Requests =>
              /\ Requested(Tail(s)) = Requested(s) \ {Head(s).id}
              /\ \A q \in Requested(Tail(s)) : Head(s).id < q
<1>1. /\ Head(s) \in Events /\ Head(s) = s[1] /\ Tail(s) \in Seq(Events)
      /\ Len(s) \in Nat \ {0} /\ Len(Tail(s)) = Len(s) - 1
      /\ \A k \in 1..(Len(s) - 1) : Tail(s)[k] = s[k + 1]
      /\ Elements(s) = Elements(Tail(s)) \cup {Head(s)}
  BY TailOf
<1>2. /\ DOMAIN s = 1..Len(s) /\ DOMAIN Tail(s) = 1..(Len(s) - 1)
      /\ \A k \in DOMAIN Tail(s) : k + 1 \in DOMAIN s /\ Tail(s)[k] = s[k + 1] /\ k \in Nat /\ 1 < k + 1
      /\ 1 \in DOMAIN s
  BY <1>1
<1>3. InOrder(Tail(s))
  BY <1>2 DEF InOrder
<1>4. ASSUME Head(s).kind # "request" PROVE Requested(Tail(s)) = Requested(s)
  BY <1>1, <1>4, RequestEvent DEF Requested
<1>5. ASSUME Head(s).kind = "request", NEW q \in Requested(Tail(s)) PROVE Head(s).id < q
  <2>1. Event("request", q) \in Elements(Tail(s))
    BY DEF Requested
  <2>2. PICK k \in DOMAIN Tail(s) : Tail(s)[k] = Event("request", q)
    BY <2>1 DEF Elements
  <2>3. s[k + 1].kind = "request" /\ s[k + 1].id = q
    BY <1>2, <2>2 DEF Event
  <2> QED
    BY <1>1, <1>2, <1>5, <2>3 DEF InOrder
<1>6. ASSUME Head(s).kind = "request", Head(s).id \in Requests
      PROVE  Requested(Tail(s)) = Requested(s) \ {Head(s).id}
  <2>1. Head(s).id \in Nat
    BY <1>6 DEF Requests
  <2>2. Head(s).id \notin Requested(Tail(s))
    BY <1>5, <1>6, <2>1
  <2>3. Head(s) = Event("request", Head(s).id)
    BY <1>1, <1>6, RequestEvent
  <2>4. ASSUME NEW q \in Requests, q # Head(s).id PROVE Event("request", q) # Head(s)
    BY <1>1, <2>4, RequestEvent
  <2> QED
    BY <1>1, <2>2, <2>4 DEF Requested
<1> QED
  BY <1>3, <1>4, <1>5, <1>6

\* or one more arrives: requests stay in order.
LEMMA InOrderAppend ==
  ASSUME NEW s \in Seq(Events), NEW e \in Events, InOrder(s),
         \A x \in Elements(s) : x.kind = "request" => x.id \in Requests,
         e.kind = "request" => e.id \in Requests /\ \A q \in Requested(s) : q < e.id
  PROVE  /\ InOrder(Append(s, e))
         /\ Requested(Append(s, e)) =
              Requested(s) \cup (IF e.kind = "request" THEN {e.id} ELSE {})
<1>1. /\ Len(s) \in Nat /\ DOMAIN s = 1..Len(s) /\ DOMAIN Append(s, e) = 1..(Len(s) + 1)
      /\ Append(s, e)[Len(s) + 1] = e /\ \A k \in DOMAIN s : Append(s, e)[k] = s[k]
      /\ \A k \in DOMAIN s : s[k] \in Events
  OBVIOUS
<1>2. \A k \in DOMAIN Append(s, e) : k \in Nat /\ (k \in DOMAIN s \/ k = Len(s) + 1)
  BY <1>1
<1>3. ASSUME NEW k \in DOMAIN s, s[k].kind = "request" PROVE s[k].id \in Requested(s)
  <2>1. s[k] \in Elements(s) /\ s[k] = Event("request", s[k].id)
    BY <1>1, <1>3, RequestEvent DEF Elements
  <2> QED
    BY <1>3, <2>1 DEF Requested
<1>4. ASSUME NEW j \in DOMAIN Append(s, e), NEW k \in DOMAIN Append(s, e), j < k,
             Append(s, e)[j].kind = "request", Append(s, e)[k].kind = "request"
      PROVE  Append(s, e)[j].id < Append(s, e)[k].id
  <2>1. j \in DOMAIN s
    BY <1>1, <1>4
  <2>2. CASE k \in DOMAIN s
    BY <1>1, <1>4, <2>1, <2>2 DEF InOrder
  <2>3. CASE k = Len(s) + 1
    BY <1>1, <1>3, <1>4, <2>1, <2>3
  <2> QED
    BY <1>2, <2>2, <2>3
<1>5. InOrder(Append(s, e))
  BY <1>4 DEF InOrder
<1>6. Elements(Append(s, e)) = Elements(s) \cup {e}
  BY AppendOf
<1>7. Requested(Append(s, e)) = Requested(s) \cup (IF e.kind = "request" THEN {e.id} ELSE {})
  BY <1>6, RequestEvent DEF Requested
<1> QED
  BY <1>5, <1>7

\* What ignis_poll() keeps of the channel.
LEMMA PollKeeps ==
  ASSUME LoopInv, ignis_poll
  PROVE  /\ events = <<>> /\ channel' = <<>>
         /\ events' \in Seq(Events) /\ Elements(events') \subseteq Elements(channel)
         /\ InOrder(events')
         /\ \A r \in Requests :
              r \in Requested(events') <=>
                r \in Requested(channel) /\ ~Overwritten(Event("request", r))
<1> DEFINE K == {k \in DOMAIN channel :
                   channel[k].kind # "error" /\ ~Overwritten(channel[k])}
<1>0. channel \in Seq(Events) /\ K \in SUBSET DOMAIN channel /\ InOrder(channel)
  BY DEF LoopInv, TypeOK, Order
<1>1. events = <<>> /\ channel' = <<>> /\ events' = Retain(channel, K)
  BY DEF LoopInv, Control, ignis_poll
<1>2. DOMAIN channel = 1..Len(channel) /\ Len(channel) \in Nat
  BY <1>0
<1> HIDE DEF K
<1>3. /\ Retain(channel, K) \in Seq(Events)
      /\ Len(Retain(channel, K)) = Cardinality(K)
      /\ Elements(Retain(channel, K)) = {channel[k] : k \in K}
      /\ \A i \in 1..Cardinality(K) : Retain(channel, K)[i] = channel[Kept(K, i)]
  BY <1>0, RetainKeeps
<1>4. /\ \A i \in 1..Cardinality(K) : Kept(K, i) \in K
      /\ \A i, j \in 1..Cardinality(K) : i < j => Kept(K, i) < Kept(K, j)
  BY <1>0, <1>2, KeptInOrder
<1>5. DOMAIN Retain(channel, K) = 1..Cardinality(K)
  BY <1>3
<1>6. InOrder(Retain(channel, K))
  BY <1>0, <1>3, <1>4, <1>5 DEF InOrder
<1>7. ASSUME NEW r \in Requests
      PROVE  r \in Requested(events') <=>
               r \in Requested(channel) /\ ~Overwritten(Event("request", r))
  <2>1. r \in Requested(events') <=> \E k \in K : channel[k] = Event("request", r)
    BY <1>1, <1>3 DEF Requested
  <2>2. (\E k \in K : channel[k] = Event("request", r)) <=>
          (\E k \in DOMAIN channel : channel[k] = Event("request", r)) /\ ~Overwritten(Event("request", r))
    <3>1. Event("request", r).kind # "error"
      BY DEF Event
    <3> QED
      BY <3>1 DEF K
  <2>3. r \in Requested(channel) <=> \E k \in DOMAIN channel : channel[k] = Event("request", r)
    BY DEF Requested, Elements
  <2> QED
    BY <2>1, <2>2, <2>3
<1>8. Elements(events') \subseteq Elements(channel)
  <2>1. \A k \in K : channel[k] \in Elements(channel)
    BY <1>0 DEF Elements
  <2> QED
    BY <1>1, <1>3, <2>1
<1> QED
  BY <1>1, <1>3, <1>6, <1>7, <1>8

\* What the reactor and the front door add to the channel.
LEMMA ChannelGrows ==
  ASSUME LoopInv, NEW e \in Events, e.kind # "request"
  PROVE  /\ Append(channel, e) \in Seq(Events)
         /\ Elements(Append(channel, e)) = Elements(channel) \cup {e}
         /\ InOrder(Append(channel, e)) /\ Requested(Append(channel, e)) = Requested(channel)
<1>1. channel \in Seq(Events) /\ InOrder(channel)
  BY DEF LoopInv, TypeOK, Order
<1>2. \A x \in Elements(channel) : x.kind = "request" => x.id \in Requests
  BY DEF LoopInv, Ids
<1>3. Requested(Append(channel, e)) = Requested(channel) \cup {} /\ InOrder(Append(channel, e))
  BY <1>1, <1>2, InOrderAppend
<1> QED
  BY <1>1, <1>3, AppendOf

\* One or two error completions bring no request.
LEMMA CalledOffGrows ==
  ASSUME LoopInv, NEW o \in Ops, OpCalledOff(o)
  PROVE  /\ Elements(channel') = Elements(channel) \cup {Event("error", o)}
         /\ InOrder(channel') /\ Requested(channel') = Requested(channel)
<1> DEFINE e == Event("error", o)
<1>1. e \in Events /\ e.kind # "request"
  BY DEF e, Event, Events, Kinds, Ops
<1> HIDE DEF e
<1> DEFINE c == Append(channel, e)
<1>2. /\ c \in Seq(Events) /\ Elements(c) = Elements(channel) \cup {e}
      /\ InOrder(c) /\ Requested(c) = Requested(channel)
  BY <1>1, ChannelGrows
<1> HIDE DEF c
<1>3. \A x \in Elements(c) : x.kind = "request" => x.id \in Requests
  <2>1. \A x \in Elements(channel) : x.kind = "request" => x.id \in Requests
    BY DEF LoopInv, Ids
  <2> QED
    BY <1>1, <1>2, <2>1
<1>4. channel \in Seq(Events)
  BY DEF LoopInv, TypeOK
<1>5. channel' = IF o \in outstanding THEN Append(c, e) ELSE c
  <2>1. channel' = channel \o (IF o \in outstanding THEN <<e, e>> ELSE <<e>>)
    BY DEF OpCalledOff, e
  <2>2. channel \o <<e>> = Append(channel, e)
    BY <1>1, <1>4
  <2>3. channel \o <<e, e>> = Append(Append(channel, e), e)
    BY <1>1, <1>4
  <2> QED
    BY <2>1, <2>2, <2>3 DEF c
<1>6. /\ InOrder(Append(c, e)) /\ Requested(Append(c, e)) = Requested(c) \cup {}
  BY <1>1, <1>2, <1>3, InOrderAppend
<1>7. Elements(Append(c, e)) = Elements(c) \cup {e}
  BY <1>1, <1>2, AppendOf
<1> QED
  BY <1>2, <1>5, <1>6, <1>7 DEF e

\* The ids of events, in every step.
LEMMA IdsKept ==
  ASSUME LoopInv, Next
  PROVE  Ids'
<1> USE DEF control, fibers, pool, parks, maps, futures, admission, winding, reactor, requests
<1>0. TypeOK /\ Ids /\ channel \in Seq(Events) /\ events \in Seq(Events)
  BY DEF LoopInv, TypeOK
<1>1. ASSUME Elements(channel') \cup Elements(events') \subseteq Elements(channel) \cup Elements(events)
      PROVE  Ids'
  BY <1>0, <1>1 DEF Ids
<1>2. ASSUME events # <<>>, events' = Tail(events), channel' = channel PROVE Ids'
  BY <1>0, <1>1, <1>2, TailOf
<1>3. CASE ignis_poll
  BY <1>1, <1>3, PollKeeps, ElementsEmpty
<1>4. CASE dispatchRequest \/ DispatchCancel \/ DispatchDeadline \/ DispatchCompletion
  BY <1>2, <1>4
     DEF dispatchRequest, DispatchCancel, DispatchDeadline, DispatchCompletion, Dispatching
<1>5. CASE startPending \/ resumeReady \/ WindDown \/ EndOfBatch \/ throwInto \/ EndOfWalk
  BY <1>1, <1>5 DEF startPending, resumeReady, WindDown, EndOfBatch, throwInto, EndOfWalk
<1>6. ASSUME NEW f \in Fibers, FiberStep(f) PROVE Ids'
  <2>1. UNCHANGED <<events, channel>>
    BY <1>6
       DEF FiberStep, awaitOp, spawn, await, deadline, stop, produce, releaseRequest, drainQueue,
           poolBody
  <2> QED
    BY <1>1, <2>1
<1>7. CASE Environment
  <2>0. events' = events
    BY <1>7, EnvironmentIsOutside
  <2>1. CASE BeginReload
    BY <1>1, <2>1 DEF BeginReload
  <2>2. ASSUME NEW e, Elements(channel') = Elements(channel) \cup {e},
               e.id \in IF e.kind \in {"request", "cancel"} THEN Requests ELSE Ops
        PROVE  Ids'
    BY <1>0, <2>0, <2>2 DEF Ids
  <2>3. ASSUME NEW o \in Ops, OpCompletes(o) PROVE Ids'
    <3>1. Event("op", o) \in Events
      BY DEF Event, Events, Kinds, Ops
    <3> QED
      BY <1>0, <2>2, <2>3, <3>1, AppendOf DEF OpCompletes, Event
  <2>4. ASSUME NEW o \in Ops, OpCalledOff(o) PROVE Ids'
    BY <2>2, <2>4, CalledOffGrows DEF Event
  <2>5. ASSUME NEW r \in Requests, RequestArrives(r) PROVE Ids'
    <3>1. Event("request", r) \in Events
      BY DEF Event, Events, Kinds, Requests
    <3> QED
      BY <1>0, <2>2, <2>5, <3>1, AppendOf DEF RequestArrives, Event
  <2>6. ASSUME NEW r \in Requests, ClientLeaves(r) PROVE Ids'
    <3>1. Event("cancel", r) \in Events
      BY DEF Event, Events, Kinds, Requests
    <3> QED
      BY <1>0, <2>2, <2>6, <3>1, AppendOf DEF ClientLeaves, Event
  <2> QED
    BY <1>7, <2>1, <2>3, <2>4, <2>5, <2>6 DEF Environment
<1> QED
  BY <1>3, <1>4, <1>5, <1>6, <1>7 DEF Next, Turn

\* The queue is sorted, so its head is the earliest and is in it once.
LEMMA QueueTail ==
  ASSUME LoopInv, requestQueue # <<>>
  PROVE  LET r == Head(requestQueue)
         IN  /\ Tail(requestQueue) \in Seq(Requests)
             /\ \A j, k \in DOMAIN Tail(requestQueue) :
                  j < k => Tail(requestQueue)[j] < Tail(requestQueue)[k]
             /\ Elements(Tail(requestQueue)) = Elements(requestQueue) \ {r}
             /\ \A q \in Elements(Tail(requestQueue)) : r < q
             /\ Len(Tail(requestQueue)) = Len(requestQueue) - 1 /\ Len(requestQueue) \in Nat \ {0}
<1> DEFINE s == requestQueue
<1>0. /\ s \in Seq(Requests) /\ s # <<>>
      /\ \A j, k \in DOMAIN s : j < k => s[j] < s[k]
      /\ \A r \in Requests : r \in Nat
  BY DEF LoopInv, TypeOK, Order, Requests
<1> HIDE DEF s
<1>1. Distinct(s)
  <2>1. \A k \in DOMAIN s : k \in Nat /\ s[k] \in Requests
    BY <1>0
  <2>2. \A k \in DOMAIN s : s[k] \in Nat
    BY <1>0, <2>1
  <2> QED
    BY <1>0, <2>1, <2>2 DEF Distinct
<1>2. /\ Tail(s) \in Seq(Requests) /\ Head(s) = s[1] /\ Len(s) \in Nat \ {0}
      /\ Len(Tail(s)) = Len(s) - 1
      /\ \A k \in 1..(Len(s) - 1) : Tail(s)[k] = s[k + 1]
      /\ Elements(Tail(s)) = Elements(s) \ {Head(s)}
  BY <1>0, <1>1, TailOf
<1>3. /\ DOMAIN s = 1..Len(s) /\ DOMAIN Tail(s) = 1..(Len(s) - 1) /\ 1 \in DOMAIN s
      /\ \A k \in DOMAIN Tail(s) : k + 1 \in DOMAIN s /\ Tail(s)[k] = s[k + 1] /\ k \in Nat /\ 1 < k + 1
  BY <1>0, <1>2
<1>4. \A j, k \in DOMAIN Tail(s) : j < k => Tail(s)[j] < Tail(s)[k]
  BY <1>0, <1>3
<1>5. \A k \in DOMAIN Tail(s) : Head(s) < Tail(s)[k]
  BY <1>0, <1>2, <1>3
<1>6. \A q \in Elements(Tail(s)) : Head(s) < q
  BY <1>5 DEF Elements
<1> QED
  BY <1>2, <1>4, <1>6 DEF s

\* The order of requests, in every step.
LEMMA OrderKept ==
  ASSUME LoopInv, Next
  PROVE  Order'
<1> USE DEF control, fibers, pool, parks, maps, futures, admission, winding, reactor, requests
<1>0. /\ TypeOK /\ Ids /\ Order /\ channel \in Seq(Events) /\ events \in Seq(Events)
      /\ requestQueue \in Seq(Requests) /\ fate \in [Requests -> Fates]
      /\ \A r \in Requests : r \in Nat
  BY DEF LoopInv, TypeOK, Requests
<1>1. ASSUME UNCHANGED <<channel, events, requestQueue, fate>> PROVE Order'
  BY <1>0, <1>1 DEF Order, Requested
<1>2. ASSUME events # <<>>, Head(events).kind # "request", events' = Tail(events),
             UNCHANGED <<channel, requestQueue, fate>>
      PROVE  Order'
  <2>1. InOrder(events') /\ Requested(events') = Requested(events)
    BY <1>0, <1>2, InOrderTail DEF Order
  <2>2. Requested(channel') = Requested(channel) /\ InOrder(channel')
    BY <1>0, <1>2 DEF Order
  <2> QED
    BY <1>0, <1>2, <2>1, <2>2 DEF Order
<1>3. ASSUME InOrder(channel'), Requested(channel') = Requested(channel),
             UNCHANGED <<events, requestQueue, fate>>
      PROVE  Order'
  BY <1>0, <1>3 DEF Order
<1>4. CASE startPending \/ resumeReady \/ WindDown \/ EndOfBatch \/ throwInto \/ EndOfWalk
  BY <1>1, <1>4 DEF startPending, resumeReady, WindDown, EndOfBatch, throwInto, EndOfWalk
<1>5. CASE DispatchCancel \/ DispatchDeadline \/ DispatchCompletion
  BY <1>2, <1>5 DEF DispatchCancel, DispatchDeadline, DispatchCompletion, Dispatching
<1>6. CASE ignis_poll
  <2>1. /\ events = <<>> /\ channel' = <<>> /\ InOrder(events')
        /\ \A r \in Requests :
             r \in Requested(events') <=>
               r \in Requested(channel) /\ ~Overwritten(Event("request", r))
    BY <1>6, PollKeeps
  <2>2. Requested(channel') = {} /\ Requested(events) = {} /\ InOrder(channel')
    BY <2>1, ElementsEmpty DEF Requested, InOrder
  <2>3. \A r \in Requests :
          fate'[r] = IF r \in Requested(channel) /\ Overwritten(Event("request", r))
                     THEN "overwritten" ELSE fate[r]
    BY <1>6 DEF ignis_poll, Requested
  <2>4. requestQueue' = requestQueue
    BY <1>6 DEF ignis_poll
  <2>5. \A r \in Requests : fate[r] = "sent" <=> r \in Requested(channel)
    BY <1>0, <2>2 DEF Order
  <2>6. \A r \in Requests : /\ fate'[r] = "sent" <=> r \in Requested(events')
                            /\ fate'[r] = "queued" <=> r \in Elements(requestQueue)
    BY <1>0, <2>1, <2>3, <2>5 DEF Order
  <2>7. \A q, r \in Requests : /\ fate'[q] # "unsent" /\ fate'[r] = "unsent" => q < r
                               /\ fate'[q] \in Dispatched /\ fate'[r] = "sent" => q < r
    BY <1>0, <2>3, <2>5 DEF Order, Dispatched
  <2> QED
    BY <1>0, <2>1, <2>2, <2>4, <2>6, <2>7 DEF Order
<1>7. CASE dispatchRequest
  <2> DEFINE r == Head(events).id
  <2>1. /\ r \in Requests /\ fate[r] = "sent" /\ events # <<>> /\ Head(events).kind = "request"
        /\ events' = Tail(events) /\ channel' = channel
    BY <1>7, HeadRequest DEF dispatchRequest, Dispatching
  <2>2. /\ InOrder(events') /\ Requested(events') = Requested(events) \ {r}
        /\ \A q \in Requested(events') : r < q
    BY <1>0, <2>1, InOrderTail DEF Order
  <2>3. Requested(channel') = Requested(channel) /\ InOrder(channel')
    BY <1>0, <2>1 DEF Order
  <2>4. r \in Requested(events)
    BY <2>1, HeadRequest
  <2>5. r \notin Requested(channel) /\ \A q \in Requested(channel) : r < q
    BY <1>0, <2>1, <2>4 DEF Order
  <2>6. \A q \in Requested(events') : \A p \in Requested(channel') : q < p
    BY <1>0, <2>2, <2>3 DEF Order
  <2> HIDE DEF r
  <2>7. ASSUME fate' = [fate EXCEPT ![r] = "admitted"] \/ fate' = [fate EXCEPT ![r] = "rejected"],
               requestQueue' = requestQueue
        PROVE  Order'
    <3>1. \A q \in Requests : /\ fate'[q] = "sent" <=> q \in Requested(channel') \cup Requested(events')
                              /\ fate'[q] = "queued" <=> q \in Elements(requestQueue')
      BY <1>0, <2>1, <2>2, <2>3, <2>5, <2>7 DEF Order
    <3>2. \A p, q \in Requests : fate'[p] # "unsent" /\ fate'[q] = "unsent" => p < q
      BY <1>0, <2>1, <2>7 DEF Order
    <3>3. ASSUME NEW p \in Requests, NEW q \in Requests, fate'[p] \in Dispatched, fate'[q] = "sent"
          PROVE  p < q
      <4>1. q # r /\ fate[q] = "sent"
        BY <1>0, <2>1, <2>7, <3>3
      <4>2. CASE p = r
        BY <2>2, <2>3, <2>5, <3>1, <3>3, <4>2
      <4>3. CASE p # r
        BY <1>0, <2>1, <2>7, <3>3, <4>1, <4>3 DEF Order
      <4> QED
        BY <4>2, <4>3
    <3> QED
      BY <1>0, <2>2, <2>3, <2>6, <2>7, <3>1, <3>2, <3>3 DEF Order
  <2>8. ASSUME fate' = [fate EXCEPT ![r] = "queued"], requestQueue' = Append(requestQueue, r)
        PROVE  Order'
    <3>1. Elements(requestQueue') = Elements(requestQueue) \cup {r}
      BY <1>0, <2>1, <2>8, AppendOf
    <3>2. \A q \in Requests : /\ fate'[q] = "sent" <=> q \in Requested(channel') \cup Requested(events')
                              /\ fate'[q] = "queued" <=> q \in Elements(requestQueue')
      BY <1>0, <2>1, <2>2, <2>3, <2>5, <2>8, <3>1 DEF Order
    <3>3. \A p, q \in Requests : fate'[p] # "unsent" /\ fate'[q] = "unsent" => p < q
      BY <1>0, <2>1, <2>8 DEF Order
    <3>4. ASSUME NEW p \in Requests, NEW q \in Requests, fate'[p] \in Dispatched, fate'[q] = "sent"
          PROVE  p < q
      <4>1. q # r /\ fate[q] = "sent"
        BY <1>0, <2>1, <2>8, <3>4
      <4>2. CASE p = r
        BY <2>2, <2>3, <2>5, <3>2, <3>4, <4>2
      <4>3. CASE p # r
        BY <1>0, <2>1, <2>8, <3>4, <4>1, <4>3 DEF Order
      <4> QED
        BY <4>2, <4>3
    <3>5. \A k \in DOMAIN requestQueue : requestQueue[k] < r
      <4>1. \A k \in DOMAIN requestQueue :
              requestQueue[k] \in Requests /\ requestQueue[k] \in Elements(requestQueue)
        BY <1>0 DEF Elements
      <4>2. \A k \in DOMAIN requestQueue : fate[requestQueue[k]] = "queued"
        BY <1>0, <4>1 DEF Order
      <4> QED
        BY <1>0, <2>1, <4>1, <4>2 DEF Order, Dispatched
    <3>6. \A j, k \in DOMAIN requestQueue' : j < k => requestQueue'[j] < requestQueue'[k]
      <4>1. /\ Len(requestQueue) \in Nat /\ DOMAIN requestQueue = 1..Len(requestQueue)
            /\ DOMAIN requestQueue' = 1..(Len(requestQueue) + 1)
            /\ requestQueue'[Len(requestQueue) + 1] = r
            /\ \A k \in DOMAIN requestQueue : requestQueue'[k] = requestQueue[k]
        BY <1>0, <2>1, <2>8
      <4>2. \A k \in DOMAIN requestQueue' : k \in Nat /\ (k \in DOMAIN requestQueue \/ k = Len(requestQueue) + 1)
        BY <4>1
      <4>3. \A j, k \in DOMAIN requestQueue' : j < k => j \in DOMAIN requestQueue
        BY <4>1
      <4> QED
        BY <1>0, <3>5, <4>1, <4>2, <4>3 DEF Order
    <3> QED
      BY <1>0, <2>2, <2>3, <2>6, <3>2, <3>3, <3>4, <3>6 DEF Order
  <2>9. CASE OverBudget(r)
    BY <1>7, <2>7, <2>8, <2>9 DEF dispatchRequest, r
  <2>10. CASE ~OverBudget(r)
    BY <1>7, <2>7, <2>10 DEF dispatchRequest, admitRequest, r
  <2> QED
    BY <2>9, <2>10
<1>8. ASSUME NEW f \in Fibers, FiberStep(f) PROVE Order'
  <2>1. CASE awaitOp(f) \/ spawn(f) \/ await(f) \/ deadline(f) \/ stop(f) \/ produce(f) \/ poolBody(f)
    BY <1>1, <2>1 DEF awaitOp, spawn, await, deadline, stop, produce, poolBody
  <2>2. CASE releaseRequest(f)
    <3> DEFINE r == job[f].handles
    <3>1. r \in Requests /\ fate[r] = "admitted"
      BY <2>2, ReleasedWasAdmitted DEF releaseRequest, Handling
    <3>2. /\ fate' = [fate EXCEPT ![r] = "released"]
          /\ UNCHANGED <<channel, events, requestQueue>>
      BY <2>2 DEF releaseRequest
    <3> HIDE DEF r
    <3>3. \A q \in Requests : /\ fate'[q] = "sent" <=> fate[q] = "sent"
                              /\ fate'[q] = "queued" <=> fate[q] = "queued"
                              /\ fate'[q] = "unsent" <=> fate[q] = "unsent"
                              /\ fate'[q] \in Dispatched => fate[q] \in Dispatched
      BY <1>0, <3>1, <3>2 DEF Dispatched
    <3> QED
      BY <1>0, <3>2, <3>3 DEF Order, Requested
  <2>3. CASE drainQueue(f)
    <3> DEFINE r == Head(requestQueue)
    <3>0. requestQueue # <<>>
      BY <2>3 DEF drainQueue, RoomForQueued
    <3>1. r \in Requests /\ fate[r] = "queued"
      BY <3>0, HeadQueued
    <3>2. /\ fate' = [fate EXCEPT ![r] = "dropped"] \/ fate' = [fate EXCEPT ![r] = "admitted"]
          /\ UNCHANGED <<channel, events>> /\ requestQueue' = Tail(requestQueue)
      BY <2>3 DEF drainQueue, admitRequest
    <3>3. /\ \A j, k \in DOMAIN requestQueue' : j < k => requestQueue'[j] < requestQueue'[k]
          /\ Elements(requestQueue') = Elements(requestQueue) \ {r}
      BY <3>0, <3>2, QueueTail
    <3> HIDE DEF r
    <3>4. \A q \in Requests : /\ fate'[q] = "sent" <=> fate[q] = "sent"
                              /\ fate'[q] = "queued" <=> fate[q] = "queued" /\ q # r
                              /\ fate'[q] = "unsent" <=> fate[q] = "unsent"
                              /\ fate'[q] \in Dispatched => fate[q] \in Dispatched
      BY <1>0, <3>1, <3>2 DEF Dispatched
    <3> QED
      BY <1>0, <3>2, <3>3, <3>4 DEF Order, Requested
  <2> QED
    BY <1>8, <2>1, <2>2, <2>3 DEF FiberStep
<1>9. CASE Environment
  <2>0. UNCHANGED <<events, requestQueue>>
    BY <1>9, EnvironmentIsOutside
  <2>1. CASE BeginReload
    BY <1>1, <2>1 DEF BeginReload
  <2>2. ASSUME NEW o \in Ops, OpCompletes(o) PROVE Order'
    <3>1. Event("op", o) \in Events /\ Event("op", o).kind # "request"
      BY DEF Event, Events, Kinds, Ops
    <3> QED
      BY <1>3, <2>0, <2>2, <3>1, ChannelGrows DEF OpCompletes
  <2>3. ASSUME NEW o \in Ops, OpCalledOff(o) PROVE Order'
    BY <1>3, <2>0, <2>3, CalledOffGrows DEF OpCalledOff
  <2>4. ASSUME NEW r \in Requests, ClientLeaves(r) PROVE Order'
    <3>1. Event("cancel", r) \in Events /\ Event("cancel", r).kind # "request"
      BY DEF Event, Events, Kinds, Requests
    <3> QED
      BY <1>3, <2>0, <2>4, <3>1, ChannelGrows DEF ClientLeaves
  <2>5. ASSUME NEW r \in Requests, RequestArrives(r) PROVE Order'
    <3> DEFINE e == Event("request", r)
    <3>1. e \in Events /\ e.kind = "request" /\ e.id = r
      BY DEF e, Event, Events, Kinds, Requests
    <3>2. channel' = Append(channel, e) /\ fate' = [fate EXCEPT ![r] = "sent"] /\ fate[r] = "unsent"
      BY <2>5 DEF RequestArrives
    <3> HIDE DEF e
    <3>3. \A q \in Requests : fate[q] # "unsent" => q < r
      BY <1>0, <3>2 DEF Order
    <3>4. \A q \in Requested(channel) \cup Requested(events) : q \in Requests /\ q < r
      BY <1>0, <3>3 DEF Order, Requested
    <3>5. \A x \in Elements(channel) : x.kind = "request" => x.id \in Requests
      BY <1>0 DEF Ids
    <3>6. InOrder(channel') /\ Requested(channel') = Requested(channel) \cup {r}
      BY <1>0, <3>1, <3>2, <3>4, <3>5, InOrderAppend DEF Order
    <3>7. \A q \in Requests : fate[q] = "unsent" /\ q # r => r < q
      <4>1. ASSUME NEW q \in Requests, q < r PROVE fate[q] # "unsent"
        <5>1. q \in 1..(r - 1)
          BY <1>0, <4>1 DEF Requests
        <5> QED
          BY <2>5, <5>1 DEF RequestArrives
      <4> QED
        BY <1>0, <4>1
    <3>8. \A q \in Requests : /\ fate'[q] = "sent" <=> q \in Requested(channel') \cup Requested(events')
                              /\ fate'[q] = "queued" <=> q \in Elements(requestQueue')
      BY <1>0, <2>0, <3>2, <3>6 DEF Order
    <3>9. \A p, q \in Requests : fate'[p] # "unsent" /\ fate'[q] = "unsent" => p < q
      BY <1>0, <3>2, <3>7 DEF Order
    <3>10. \A p, q \in Requests : fate'[p] \in Dispatched /\ fate'[q] = "sent" => p < q
      BY <1>0, <3>2, <3>3 DEF Order, Dispatched
    <3>11. \A p \in Requested(events') : \A q \in Requested(channel') : p < q
      BY <1>0, <2>0, <3>4, <3>6 DEF Order
    <3> QED
      BY <1>0, <2>0, <3>6, <3>8, <3>9, <3>10, <3>11 DEF Order
  <2> QED
    BY <1>9, <2>1, <2>2, <2>3, <2>4, <2>5 DEF Environment
<1> QED
  BY <1>4, <1>5, <1>6, <1>7, <1>8, <1>9 DEF Next, Turn

-----------------------------------------------------------------------------
(* The jobs.                                                               *)

\* The fiber spawn() takes had no job and is out of the pool; the others
\* stay where they are.
LEMMA SpawnPlaces ==
  ASSUME TypeOK, Held, Handlers, Spawnable, spawnOnto(SpawnTarget)
  PROVE  /\ job[SpawnTarget] = NoJob
         /\ at[SpawnTarget] \in {"absent", "idle"} /\ at'[SpawnTarget] \in {"created", "idle"}
         /\ at[SpawnTarget] = "idle" => at'[SpawnTarget] = "idle"
         /\ SpawnTarget \notin Elements(idle')
         /\ \A h \in Fibers \ {SpawnTarget} :
              at'[h] = at[h] /\ (h \in Elements(idle') <=> h \in Elements(idle))
<1> DEFINE g == SpawnTarget
<1>0. g \in Fibers /\ idle \in Seq(Fibers) /\ at \in [Fibers -> Places] /\ Distinct(idle)
  BY DEF Spawnable, TypeOK, Held
<1>1. HandlerJob(g) /\ HeldOnce(g)
  BY <1>0 DEF Handlers, Held
<1>2. CASE idle # <<>>
  <2>1. g = idle[Len(idle)] /\ idle' = SubSeq(idle, 1, Len(idle) - 1) /\ at' = at
    BY <1>2 DEF Spawnable, spawnOnto
  <2>2. g \in Elements(idle) /\ Elements(idle') = Elements(idle) \ {g}
    BY <1>0, <1>2, <2>1, FrontOf
  <2> HIDE DEF g
  <2>3. at[g] = "idle" /\ job[g] = NoJob
    BY <1>1, <2>2 DEF HandlerJob, HeldOnce
  <2> QED
    BY <2>1, <2>2, <2>3 DEF g
<1>3. CASE idle = <<>>
  <2>1. at[g] = "absent" /\ at' = [at EXCEPT ![g] = "created"] /\ idle' = idle
    BY <1>3 DEF Spawnable, spawnOnto
  <2> HIDE DEF g
  <2>2. job[g] = NoJob
    BY <1>1, <2>1 DEF HandlerJob
  <2>3. Elements(idle) = {}
    BY <1>3, ElementsEmpty
  <2> QED
    BY <1>0, <2>1, <2>2, <2>3 DEF g
<1> QED
  BY <1>2, <1>3

\* What an admission does to the jobs.
LEMMA AdmitJobs ==
  ASSUME TypeOK, Held, Handlers, Spawnable, NEW r \in Requests, admitRequest(r)
  PROVE  /\ job'[SpawnTarget] = Handler(r)
         /\ \A h \in Fibers \ {SpawnTarget} : job'[h] = job[h]
         /\ fate'[r] = "admitted" /\ \A q \in Requests \ {r} : fate'[q] = fate[q]
<1>1. SpawnTarget \in Fibers /\ job \in [Fibers -> Jobs] /\ fate \in [Requests -> Fates]
  BY DEF Spawnable, TypeOK
<1> QED
  BY <1>1 DEF admitRequest

\* Only user code and the drain run on a fiber, so a step of a fiber is one
\* of the fiber that has the thread.
LEMMA StepIsOnStack ==
  ASSUME LoopInv, NEW f \in Fibers, FiberStep(f)
  PROVE  running = f /\ at[f] = "run" /\ job[f].stage # "none"
<1>1. running = f /\ job[f].stage # "none"
  BY DEF FiberStep, awaitOp, spawn, await, deadline, stop, produce, releaseRequest, drainQueue,
         poolBody, InUserCode, Draining
<1> QED
  BY <1>1 DEF LoopInv, Held, HeldOnce

\* A request that is admitted gets a fiber of its own.
LEMMA HandlersByAdmitting ==
  ASSUME LoopInv, NEW r \in Requests, fate[r] \in {"sent", "queued"}, admitRequest(r),
         UNCHANGED running
  PROVE  Handlers'
<1>0. TypeOK /\ Held /\ Handlers /\ Room
  BY DEF LoopInv
<1>1. Spawnable /\ SpawnTarget \in Fibers
  BY <1>0, AdmitFindsFiber DEF Spawnable
<1> PICK g \in Fibers : g = SpawnTarget
  BY <1>1
<1>2. /\ job[g] = NoJob /\ at'[g] \in {"created", "idle"} /\ g \notin Elements(idle')
      /\ \A h \in Fibers \ {g} : at'[h] = at[h] /\ (h \in Elements(idle') <=> h \in Elements(idle))
  BY <1>0, <1>1, SpawnPlaces DEF admitRequest
<1>3. /\ job'[g] = Handler(r) /\ \A h \in Fibers \ {g} : job'[h] = job[h]
      /\ fate'[r] = "admitted" /\ \A q \in Requests \ {r} : fate'[q] = fate[q]
  BY <1>0, <1>1, AdmitJobs
<1>4. r # 0
  BY DEF Requests
<1>5. HandlerJob(g)'
  BY <1>2, <1>3, <1>4 DEF HandlerJob, Handling, Handler
<1>6. ASSUME NEW h \in Fibers \ {g} PROVE HandlerJob(h)' /\ (Handling(h) => job[h].handles # r)
  <2>1. HandlerJob(h) /\ job[h] \in Jobs
    BY <1>0 DEF Handlers, TypeOK
  <2>2. Handling(h) => job[h].handles # r
    BY <2>1 DEF HandlerJob
  <2>3. Handling(h) => job[h].handles \in Requests \ {r}
    BY <2>1, <2>2 DEF HandlerJob, Jobs
  <2> QED
    BY <1>2, <1>3, <2>1, <2>2, <2>3 DEF HandlerJob, Handling
<1>7. \A f, h \in Fibers :
        Handling(f)' /\ Handling(h)' /\ job'[f].handles = job'[h].handles => f = h
  <2>1. job'[g].handles = r
    BY <1>3 DEF Handler
  <2>2. \A h \in Fibers \ {g} : Handling(h)' => Handling(h) /\ job'[h].handles = job[h].handles
    BY <1>3 DEF Handling
  <2> QED
    BY <1>0, <1>6, <2>1, <2>2 DEF Handlers
<1> QED
  BY <1>5, <1>6, <1>7 DEF Handlers

\* Who handles what, in every step.
LEMMA HandlersKept ==
  ASSUME LoopInv, Next
  PROVE  Handlers'
<1> USE DEF control, fibers, pool, parks, maps, futures, admission, winding, reactor, requests
<1>0. /\ TypeOK /\ Held /\ Handlers /\ Ids /\ Room /\ at \in [Fibers -> Places]
      /\ job \in [Fibers -> Jobs] /\ fate \in [Requests -> Fates] /\ 0 \notin Fibers
  BY DEF LoopInv, TypeOK, Fibers
<1>1. ASSUME UNCHANGED <<job, at, idle, running>>,
             \A r \in Requests : fate[r] = "admitted" => fate'[r] = "admitted"
      PROVE  Handlers'
  <2>1. ASSUME NEW f \in Fibers PROVE HandlerJob(f)'
    <3>1. HandlerJob(f) /\ job[f] \in Jobs
      BY <1>0 DEF Handlers
    <3>2. Handling(f) => job[f].handles \in Requests
      BY <3>1 DEF HandlerJob, Jobs
    <3> QED
      BY <1>1, <3>1, <3>2 DEF HandlerJob, Handling
  <2> QED
    BY <1>0, <1>1, <2>1 DEF Handlers, Handling
\* A fiber gets the thread, or gives it up, in the middle of its job.
<1>2. ASSUME NEW f \in Fibers, NEW p \in Places \ {"absent"}, at' = [at EXCEPT ![f] = p],
             at[f] # "absent", UNCHANGED <<job, idle, fate>>,
             running = 0 \/ (running = f /\ job[f].stage # "drain")
      PROVE  Handlers'
  <2>1. ASSUME NEW h \in Fibers PROVE HandlerJob(h)'
    <3>1. HandlerJob(h)
      BY <1>0 DEF Handlers
    <3>2. job[h].stage # "drain"
      BY <1>0, <1>2, <3>1 DEF HandlerJob
    <3>3. at'[h] = "absent" <=> at[h] = "absent"
      BY <1>0, <1>2
    <3> QED
      BY <1>2, <3>1, <3>2, <3>3 DEF HandlerJob, Handling
  <2> QED
    BY <1>0, <1>2, <2>1 DEF Handlers, Handling
<1>3. {"run", "op", "future", "idle"} \subseteq Places \ {"absent"}
  BY DEF Places
<1>4. CASE startPending
  <2>1. CASE pending = <<>>
    BY <1>1, <1>4, <2>1 DEF startPending
  <2>2. CASE pending # <<>>
    <3>1. Head(pending) \in Fibers /\ Head(pending) \in Elements(pending)
      BY <1>0, <2>2, TailOf DEF TypeOK
    <3>2. at[Head(pending)] # "absent"
      BY <1>0, <3>1 DEF Held, HeldOnce
    <3> QED
      BY <1>2, <1>3, <1>4, <2>2, <3>1, <3>2 DEF startPending, giveThread, OnMain
  <2> QED
    BY <2>1, <2>2
<1>5. CASE resumeReady
  <2>1. CASE ready = <<>>
    BY <1>1, <1>5, <2>1 DEF resumeReady
  <2>2. CASE ready # <<>>
    <3>1. Head(ready) \in Fibers /\ Head(ready) \in Elements(ready)
      BY <1>0, <2>2, TailOf DEF TypeOK
    <3>2. at[Head(ready)] # "absent"
      BY <1>0, <3>1 DEF Held, HeldOnce
    <3> QED
      BY <1>2, <1>3, <1>5, <2>2, <3>1, <3>2 DEF resumeReady, giveThread, OnMain
  <2> QED
    BY <2>1, <2>2
<1>6. CASE WindDown \/ DispatchCancel \/ DispatchDeadline \/ EndOfBatch \/ EndOfWalk
  BY <1>1, <1>6 DEF WindDown, DispatchCancel, DispatchDeadline, EndOfBatch, EndOfWalk
<1>7. CASE ignis_poll
  <2>1. \A r \in Requests : Event("request", r) \in Elements(channel) => fate[r] = "sent"
    BY DEF LoopInv, Order, Requested
  <2>2. \A r \in Requests : fate[r] = "admitted" => fate'[r] = "admitted"
    BY <1>7, <2>1 DEF ignis_poll
  <2> QED
    BY <1>1, <1>7, <2>2 DEF ignis_poll
<1>8. CASE dispatchRequest
  <2> DEFINE r == Head(events).id
  <2>1. r \in Requests /\ fate[r] = "sent"
    BY <1>8, HeadRequest DEF dispatchRequest, Dispatching
  <2>2. CASE ~OverBudget(r)
    BY <1>8, <2>1, <2>2, HandlersByAdmitting DEF dispatchRequest
  <2>3. CASE OverBudget(r)
    BY <1>0, <1>1, <1>8, <2>1, <2>3 DEF dispatchRequest
  <2> QED
    BY <2>2, <2>3
<1>9. CASE DispatchCompletion
  <2> DEFINE o == Head(events).id
  <2>1. o \in Ops /\ o # 0 /\ running = 0
    BY <1>0, <1>9, HeadEvent DEF DispatchCompletion, Dispatching, OnMain, Ops
  <2>2. CASE waiting[o] = 0
    BY <1>1, <1>9, <2>2 DEF DispatchCompletion
  <2>3. CASE waiting[o] # 0
    <3>1. waiting[o] \in Fibers /\ parkedOn[waiting[o]] = o
      BY <1>0, <2>1, <2>3 DEF TypeOK, Held
    <3>2. at[waiting[o]] # "absent"
      BY <1>0, <2>1, <3>1 DEF Held, HeldOnce
    <3> QED
      BY <1>2, <1>3, <1>9, <2>1, <2>3, <3>1, <3>2 DEF DispatchCompletion
  <2> QED
    BY <2>2, <2>3
<1>10. CASE throwInto
  <2> DEFINE f == Head(walk.left)
  <2>1. f \in Fibers /\ running = 0
    BY <1>0, <1>10, TailOf DEF throwInto, TypeOK, Walks
  <2>2. CASE parkedOn[f] = 0
    BY <1>1, <1>10, <2>2 DEF throwInto
  <2>3. CASE parkedOn[f] # 0
    <3>1. at[f] # "absent"
      BY <1>0, <2>1, <2>3 DEF Held, HeldOnce
    <3> QED
      BY <1>2, <1>3, <1>10, <2>1, <2>3, <3>1 DEF throwInto
  <2> QED
    BY <2>2, <2>3
<1>11. ASSUME NEW f \in Fibers, FiberStep(f) PROVE Handlers'
  <2>0. running = f /\ at[f] = "run" /\ HandlerJob(f) /\ job[f] \in Jobs /\ f \notin Elements(idle)
    BY <1>0, <1>11, StepIsOnStack DEF Handlers, Held, HeldOnce
  <2>1. CASE awaitOp(f)
    BY <1>2, <1>3, <2>0, <2>1 DEF awaitOp, InUserCode
  <2>2. CASE await(f)
    BY <1>2, <1>3, <2>0, <2>2 DEF await, InUserCode
  <2>3. CASE poolBody(f)
    <3>1. /\ job' = [job EXCEPT ![f] = NoJob] /\ at' = [at EXCEPT ![f] = "idle"] /\ fate' = fate
          /\ idle' = Append(idle, f)
      BY <2>3 DEF poolBody
    <3>2. Elements(idle') = Elements(idle) \cup {f}
      BY <1>0, <3>1, AppendOf DEF TypeOK
    <3>3. HandlerJob(f)'
      BY <1>0, <3>1, <3>2 DEF HandlerJob, Handling, NoJob
    <3>4. ASSUME NEW h \in Fibers \ {f}
          PROVE  HandlerJob(h)' /\ (Handling(h)' <=> Handling(h)) /\ job'[h] = job[h]
      <4>1. HandlerJob(h) /\ job'[h] = job[h] /\ at'[h] = at[h]
        BY <1>0, <3>1 DEF Handlers
      <4>2. job[h].stage # "drain"
        BY <2>0, <4>1 DEF HandlerJob
      <4> QED
        BY <3>1, <3>2, <4>1, <4>2 DEF HandlerJob, Handling
    <3>5. ~Handling(f)'
      BY <1>0, <3>1 DEF Handling, NoJob
    <3>6. \A h, i \in Fibers : Handling(h)' /\ Handling(i)' /\ job'[h].handles = job'[i].handles => h = i
      BY <1>0, <3>4, <3>5 DEF Handlers
    <3> QED
      BY <3>3, <3>4, <3>6 DEF Handlers
  <2>4. CASE spawn(f)
    <3>1. Spawnable /\ SpawnTarget # f /\ SpawnTarget \in Fibers
      BY <1>0, <2>0, <2>4, ChildFindsFiber, SpawnTakesAnother DEF spawn, Spawnable
    <3> PICK g \in Fibers : g = SpawnTarget
      BY <3>1
    <3>2. /\ job[g] = NoJob /\ at'[g] \in {"created", "idle"} /\ g \notin Elements(idle')
          /\ \A h \in Fibers \ {g} : at'[h] = at[h] /\ (h \in Elements(idle') <=> h \in Elements(idle))
      BY <1>0, <2>4, <3>1, SpawnPlaces DEF spawn
    <3>3. /\ job'[g] = ChildOf(f)
          /\ job'[f] = [job[f] EXCEPT !.mine = job[f].mine \cup {nextFuture}]
          /\ \A h \in Fibers \ {f, g} : job'[h] = job[h]
      BY <1>0, <2>4, <3>1, SpawnJobs
    <3>4. UNCHANGED <<running, fate>>
      BY <2>4 DEF spawn
    <3>5. \A h \in Fibers \ {g} :
            /\ job'[h].stage = job[h].stage /\ job'[h].handles = job[h].handles
            /\ job'[h].requestId = job[h].requestId /\ job'[h].future = job[h].future
            /\ job'[h].owner = job[h].owner /\ job'[h].keyless = job[h].keyless
            /\ h # f => job'[h] = job[h]
      <4>1. /\ job'[f].stage = job[f].stage /\ job'[f].handles = job[f].handles
            /\ job'[f].requestId = job[f].requestId /\ job'[f].future = job[f].future
            /\ job'[f].owner = job[f].owner /\ job'[f].keyless = job[f].keyless
        BY <2>0, <3>3 DEF Jobs
      <4> QED
        BY <3>3, <4>1
    <3>6. HandlerJob(g)' /\ ~Handling(g)'
      BY <3>2, <3>3 DEF HandlerJob, Handling, ChildOf
    <3>7. ASSUME NEW h \in Fibers \ {g} PROVE HandlerJob(h)' /\ (Handling(h)' <=> Handling(h))
      <4>1. HandlerJob(h)
        BY <1>0 DEF Handlers
      <4>2. h = f => job[h].stage # "none"
        BY <2>0, <4>1 DEF HandlerJob
      <4> QED
        BY <3>2, <3>4, <3>5, <4>1, <4>2 DEF HandlerJob, Handling
    <3>8. \A h, i \in Fibers : Handling(h)' /\ Handling(i)' /\ job'[h].handles = job'[i].handles => h = i
      BY <1>0, <3>5, <3>6, <3>7 DEF Handlers
    <3> QED
      BY <3>6, <3>7, <3>8 DEF Handlers
  <2>5. CASE drainQueue(f)
    <3> DEFINE r == Head(requestQueue)
    <3>1. r \in Requests /\ fate[r] = "queued"
      BY <2>5, HeadQueued DEF drainQueue, RoomForQueued
    <3>2. CASE r \in queueCancelled
      BY <1>0, <1>1, <2>5, <3>1, <3>2 DEF drainQueue
    <3>3. CASE r \notin queueCancelled
      BY <2>5, <3>1, <3>3, HandlersByAdmitting DEF drainQueue
    <3> QED
      BY <3>2, <3>3
  <2>6. CASE deadline(f) \/ stop(f)
    BY <1>1, <2>6 DEF deadline, stop
  <2>7. CASE produce(f)
    <3>1. /\ job' = [job EXCEPT ![f].stage = "stream"] /\ UNCHANGED <<at, idle, running, fate>>
          /\ job[f].stage = "handler"
      BY <2>7 DEF produce
    <3>2. /\ job'[f].stage = "stream" /\ job'[f].handles = job[f].handles
          /\ job'[f].requestId = job[f].requestId /\ job'[f].future = job[f].future
          /\ job'[f].owner = job[f].owner /\ job'[f].keyless = job[f].keyless
      BY <1>0, <2>0, <3>1 DEF Jobs
    <3>3. \A h \in Fibers \ {f} : job'[h] = job[h]
      BY <1>0, <3>1
    <3>4. HandlerJob(f)' /\ Handling(f)
      BY <2>0, <3>1, <3>2 DEF HandlerJob, Handling
    <3>5. ASSUME NEW h \in Fibers \ {f} PROVE HandlerJob(h)' /\ (Handling(h)' <=> Handling(h))
      <4>1. HandlerJob(h)
        BY <1>0 DEF Handlers
      <4> QED
        BY <3>1, <3>3, <4>1 DEF HandlerJob, Handling
    <3>6. \A h, i \in Fibers : Handling(h)' /\ Handling(i)' /\ job'[h].handles = job'[i].handles => h = i
      BY <1>0, <3>2, <3>3, <3>4, <3>5 DEF Handlers
    <3> QED
      BY <3>4, <3>5, <3>6 DEF Handlers
  <2>8. CASE releaseRequest(f)
    <3> DEFINE r == job[f].handles
    <3>1. r \in Requests /\ fate[r] = "admitted" /\ Handling(f)
      BY <2>8, ReleasedWasAdmitted DEF releaseRequest, Handling
    <3>2. /\ job' = [job EXCEPT ![f].stage = "drain"] /\ UNCHANGED <<at, idle, running>>
          /\ fate' = [fate EXCEPT ![r] = "released"]
      BY <2>8 DEF releaseRequest
    <3>3. /\ job'[f].stage = "drain" /\ job'[f].requestId = job[f].requestId
          /\ job'[f].future = job[f].future
      BY <1>0, <2>0, <3>2 DEF Jobs
    <3>4. \A h \in Fibers \ {f} : job'[h] = job[h]
      BY <1>0, <3>2
    <3>5. HandlerJob(f)' /\ ~Handling(f)'
      BY <2>0, <3>1, <3>2, <3>3 DEF HandlerJob, Handling
    <3>6. ASSUME NEW h \in Fibers \ {f} PROVE HandlerJob(h)' /\ (Handling(h)' <=> Handling(h))
      <4>1. HandlerJob(h) /\ job[h] \in Jobs
        BY <1>0 DEF Handlers
      <4>2. Handling(h) => job[h].handles # r
        BY <1>0, <3>1 DEF Handlers
      <4>3. Handling(h) => job[h].handles \in Requests \ {r}
        BY <4>1, <4>2 DEF HandlerJob, Jobs
      <4> HIDE DEF r
      <4>4. Handling(h) => fate'[job[h].handles] = "admitted"
        BY <1>0, <3>2, <4>1, <4>3 DEF HandlerJob
      <4> QED
        BY <3>2, <3>4, <4>1, <4>4 DEF HandlerJob, Handling
    <3>7. \A h, i \in Fibers : Handling(h)' /\ Handling(i)' /\ job'[h].handles = job'[i].handles => h = i
      BY <1>0, <3>4, <3>5, <3>6 DEF Handlers
    <3> QED
      BY <3>5, <3>6, <3>7 DEF Handlers
  <2> QED
    BY <1>11, <2>1, <2>2, <2>3, <2>4, <2>5, <2>6, <2>7, <2>8 DEF FiberStep
<1>12. CASE Environment
  <2>1. UNCHANGED <<job, at, idle, running>>
    BY <1>12, EnvironmentIsOutside
  <2>2. ASSUME NEW r \in Requests, RequestArrives(r)
        PROVE  \A q \in Requests : fate[q] = "admitted" => fate'[q] = "admitted"
    BY <1>0, <2>2 DEF RequestArrives
  <2>3. ASSUME ~\E r \in Requests : RequestArrives(r) PROVE fate' = fate
    BY <1>12, <2>3 DEF Environment, BeginReload, OpCompletes, OpCalledOff, ClientLeaves
  <2> QED
    BY <1>1, <2>1, <2>2, <2>3
<1> QED
  BY <1>4, <1>5, <1>6, <1>7, <1>8, <1>9, <1>10, <1>11, <1>12 DEF Next, Turn

\* A job put on a fiber that had none leaves the awaits as they are.
LEMMA AwaitsByAdmitting ==
  ASSUME LoopInv, NEW r \in Requests, fate[r] \in {"sent", "queued"}, admitRequest(r),
         UNCHANGED <<settled, waiters, nextFuture>>
  PROVE  Awaits'
<1>0. TypeOK /\ Held /\ Handlers /\ Room /\ Awaits /\ nextFuture \in Nat \ {0}
  BY DEF LoopInv, TypeOK
<1>1. Spawnable /\ SpawnTarget \in Fibers
  BY <1>0, AdmitFindsFiber DEF Spawnable
<1> PICK g \in Fibers : g = SpawnTarget
  BY <1>1
<1>2. job[g] = NoJob /\ at[g] \in {"absent", "idle"}
  BY <1>0, <1>1, SpawnPlaces DEF admitRequest
<1>3. job'[g] = Handler(r) /\ \A h \in Fibers \ {g} : job'[h] = job[h]
  BY <1>0, <1>1, AdmitJobs
<1>4. ChildJob(g)'
  BY <1>0, <1>3 DEF ChildJob, Handler
<1>5. \A h \in Fibers \ {g} : ChildJob(h)'
  BY <1>0, <1>3 DEF ChildJob, Awaits
<1>6. ASSUME NEW j \in Futures
      PROVE  /\ \A f \in Elements(waiters'[j]) : j \in job'[f].mine \ settled'
             /\ j < nextFuture' => j \in settled' \/ \E h \in Fibers : job'[h].future = j
  <2>1. \A f \in Elements(waiters[j]) : f \in Fibers \ {g}
    <3>1. waiters[j] \in Seq(Fibers)
      BY <1>0 DEF TypeOK
    <3>2. \A f \in Elements(waiters[j]) : f \in Fibers
      BY <3>1 DEF Elements
    <3> QED
      BY <1>0, <1>2, <3>2 DEF Held
  <2>2. job[g].future # j
    BY <1>2 DEF NoJob, Futures
  <2> QED
    BY <1>0, <1>3, <2>1, <2>2 DEF Awaits
<1> QED
  BY <1>4, <1>5, <1>6 DEF Awaits

\* Who waits for whom, in every step.
LEMMA AwaitsKept ==
  ASSUME LoopInv, Next
  PROVE  Awaits'
<1> USE DEF control, fibers, pool, parks, maps, futures, admission, winding, reactor, requests
<1>0. /\ TypeOK /\ Held /\ Handlers /\ Ids /\ Room /\ Awaits
      /\ job \in [Fibers -> Jobs] /\ nextFuture \in Nat \ {0}
      /\ waiters \in [Futures -> Seq(Fibers)] /\ Futures \subseteq Nat \ {0}
  BY DEF LoopInv, TypeOK, Futures
<1>1. ASSUME UNCHANGED <<job, settled, waiters, nextFuture>> PROVE Awaits'
  BY <1>0, <1>1 DEF Awaits, ChildJob
<1>2. \A j \in Futures : \A f \in Elements(waiters[j]) : f \in Fibers /\ at[f] = "future"
  BY <1>0 DEF Held, Elements
\* A handler goes on to its next stage.
<1>3. ASSUME NEW f \in Fibers, Handling(f), NEW p \in {"stream", "drain"},
             job' = [job EXCEPT ![f].stage = p], UNCHANGED <<settled, waiters, nextFuture>>
      PROVE  Awaits'
  <2>1. HandlerJob(f) /\ ChildJob(f) /\ job[f] \in Jobs
    BY <1>0 DEF Handlers, Awaits
  <2>2. job'[f].stage = p /\ job'[f].future = job[f].future /\ job'[f].mine = job[f].mine
    BY <1>0, <1>3, <2>1 DEF Jobs
  <2>3. \A h \in Fibers \ {f} : job'[h] = job[h]
    BY <1>0, <1>3
  <2>4. ChildJob(f)'
    BY <1>3, <2>1, <2>2 DEF ChildJob, HandlerJob
  <2>5. \A h \in Fibers \ {f} : ChildJob(h)'
    BY <1>0, <1>3, <2>3 DEF ChildJob, Awaits
  <2>6. \A h \in Fibers : job'[h].future = job[h].future /\ job'[h].mine = job[h].mine
    BY <2>2, <2>3
  <2> QED
    BY <1>0, <1>2, <1>3, <2>4, <2>5, <2>6 DEF Awaits
<1>4. CASE startPending \/ resumeReady \/ WindDown \/ ignis_poll \/ DispatchCancel \/ DispatchDeadline
           \/ DispatchCompletion \/ EndOfBatch \/ throwInto \/ EndOfWalk
  BY <1>1, <1>4
     DEF startPending, resumeReady, WindDown, ignis_poll, DispatchCancel, DispatchDeadline,
         DispatchCompletion, EndOfBatch, throwInto, EndOfWalk
<1>5. CASE dispatchRequest
  <2> DEFINE r == Head(events).id
  <2>1. r \in Requests /\ fate[r] = "sent"
    BY <1>5, HeadRequest DEF dispatchRequest, Dispatching
  <2>2. CASE ~OverBudget(r)
    BY <1>5, <2>1, <2>2, AwaitsByAdmitting DEF dispatchRequest
  <2>3. CASE OverBudget(r)
    BY <1>1, <1>5, <2>3 DEF dispatchRequest
  <2> QED
    BY <2>2, <2>3
<1>6. ASSUME NEW f \in Fibers, FiberStep(f) PROVE Awaits'
  <2>0. /\ running = f /\ at[f] = "run" /\ HandlerJob(f) /\ ChildJob(f) /\ job[f] \in Jobs
        /\ \A j \in Futures : f \notin Elements(waiters[j])
    BY <1>0, <1>2, <1>6, StepIsOnStack DEF Handlers, Awaits
  <2>1. CASE awaitOp(f) \/ deadline(f) \/ stop(f)
    BY <1>1, <2>1 DEF awaitOp, deadline, stop
  <2>2. CASE await(f)
    <3>1. PICK j \in job[f].mine \ settled : waiters' = [waiters EXCEPT ![j] = Append(@, f)]
      BY <2>2 DEF await
    <3>2. j \in Futures /\ UNCHANGED <<job, settled, nextFuture>>
      BY <2>0, <2>2 DEF await, Jobs
    <3>3. Elements(waiters'[j]) = Elements(waiters[j]) \cup {f}
      <4>1. waiters'[j] = Append(waiters[j], f) /\ waiters[j] \in Seq(Fibers)
        BY <1>0, <3>1, <3>2
      <4> QED
        BY <4>1, AppendOf
    <3>4. \A i \in Futures \ {j} : waiters'[i] = waiters[i]
      BY <1>0, <3>1
    <3>5. \A i \in Futures : \A h \in Elements(waiters'[i]) : i \in job[h].mine \ settled
      BY <1>0, <3>1, <3>3, <3>4 DEF Awaits
    <3>6. \A h \in Fibers : ChildJob(h)'
      BY <1>0, <3>2 DEF ChildJob, Awaits
    <3> QED
      BY <1>0, <3>2, <3>5, <3>6 DEF Awaits
  <2>3. CASE poolBody(f)
    <3> DEFINE j == job[f].future
    <3>1. /\ settle(j) /\ job' = [job EXCEPT ![f] = NoJob] /\ nextFuture' = nextFuture
      BY <2>3 DEF poolBody
    <3>2. j \in Futures \cup {0}
      BY <2>0 DEF Jobs
    <3>3. \A i \in Futures : Elements(waiters'[i]) = IF i = j THEN {} ELSE Elements(waiters[i])
      BY <1>0, <3>1, <3>2, SettleMoves
    <3>4. settled' = IF j = 0 THEN settled ELSE settled \cup {j}
      BY <3>1 DEF settle
    <3> HIDE DEF j
    <3>5. job'[f] = NoJob /\ \A h \in Fibers \ {f} : job'[h] = job[h]
      BY <1>0, <3>1
    <3>6. ChildJob(f)'
      BY <1>0, <3>1, <3>5 DEF ChildJob, NoJob
    <3>7. \A h \in Fibers \ {f} : ChildJob(h)'
      BY <1>0, <3>1, <3>5 DEF ChildJob, Awaits
    <3>8. ASSUME NEW i \in Futures, NEW h \in Elements(waiters'[i])
          PROVE  i \in job'[h].mine \ settled'
      <4>1. i # j /\ h \in Elements(waiters[i])
        BY <3>3
      <4>2. h \in Fibers \ {f}
        BY <1>2, <2>0, <4>1
      <4> QED
        BY <1>0, <3>4, <3>5, <4>1, <4>2 DEF Awaits
    <3>9. ASSUME NEW i \in Futures, i < nextFuture', i \notin settled'
          PROVE  \E h \in Fibers : job'[h].future = i
      <4>1. i \notin settled /\ i # j
        BY <1>0, <3>4, <3>9
      <4>2. PICK h \in Fibers : job[h].future = i
        BY <1>0, <3>1, <3>9, <4>1 DEF Awaits
      <4>3. h # f
        BY <4>1, <4>2 DEF j
      <4> QED
        BY <3>5, <4>2, <4>3
    <3> QED
      BY <3>6, <3>7, <3>8, <3>9 DEF Awaits
  <2>4. CASE spawn(f)
    <3>1. Spawnable /\ SpawnTarget # f /\ SpawnTarget \in Fibers
      BY <1>0, <2>0, <2>4, ChildFindsFiber, SpawnTakesAnother DEF spawn, Spawnable
    <3> PICK g \in Fibers : g = SpawnTarget
      BY <3>1
    <3>2. job[g] = NoJob /\ at[g] \in {"absent", "idle"}
      BY <1>0, <2>4, <3>1, SpawnPlaces DEF spawn
    <3>3. /\ job'[g] = ChildOf(f)
          /\ job'[f] = [job[f] EXCEPT !.mine = job[f].mine \cup {nextFuture}]
          /\ \A h \in Fibers \ {f, g} : job'[h] = job[h]
      BY <1>0, <2>4, <3>1, SpawnJobs
    <3>4. UNCHANGED <<settled, waiters>> /\ nextFuture' = nextFuture + 1
      BY <2>4 DEF spawn
    <3>5. /\ job'[f].stage = job[f].stage /\ job'[f].future = job[f].future
          /\ job'[f].mine = job[f].mine \cup {nextFuture}
      BY <2>0, <3>3 DEF Jobs
    <3>6. ChildJob(g)'
      BY <1>0, <3>3, <3>4 DEF ChildJob, ChildOf
    <3>7. \A h \in Fibers : job[h].future \in Nat /\ \A i \in job[h].mine : i \in Nat
      <4> TAKE h \in Fibers
      <4>1. job[h] \in Jobs
        BY <1>0
      <4>2. job[h].future \in Futures \cup {0} /\ job[h].mine \in SUBSET Futures
        BY <4>1 DEF Jobs
      <4>3. \A i \in Futures \cup {0} : i \in Nat
        BY LoopAssumption DEF Futures
      <4> QED
        BY <4>2, <4>3
    <3>8. ChildJob(f)'
      <4>1. /\ job[f].stage = "child" <=> job[f].future # 0
            /\ job[f].future < nextFuture
            /\ \A i \in job[f].mine : job[f].future < i /\ i < nextFuture
        BY <2>0 DEF ChildJob
      <4>2. job[f].future \in Nat /\ job[f].future < nextFuture + 1
        BY <1>0, <3>7, <4>1
      <4>3. \A i \in job[f].mine \cup {nextFuture} : job[f].future < i /\ i < nextFuture + 1
        BY <1>0, <3>7, <4>1
      <4> QED
        BY <3>4, <3>5, <4>1, <4>2, <4>3 DEF ChildJob
    <3>9. ASSUME NEW h \in Fibers \ {f, g} PROVE ChildJob(h)'
      <4>1. ChildJob(h) /\ job'[h] = job[h]
        BY <1>0, <3>3 DEF Awaits
      <4> QED
        BY <1>0, <3>4, <3>7, <4>1 DEF ChildJob
    <3>10. ASSUME NEW i \in Futures, NEW h \in Elements(waiters'[i])
           PROVE  i \in job'[h].mine \ settled'
      <4>1. h \in Fibers /\ at[h] = "future" /\ i \in job[h].mine \ settled
        BY <1>0, <1>2, <3>4 DEF Awaits
      <4>2. h # g /\ h # f
        BY <2>0, <3>2, <4>1
      <4> QED
        BY <3>3, <3>4, <4>1, <4>2
    <3>11. ASSUME NEW i \in Futures, i < nextFuture', i \notin settled'
           PROVE  \E h \in Fibers : job'[h].future = i
      <4>1. CASE i = nextFuture
        BY <3>3, <4>1 DEF ChildOf
      <4>2. CASE i # nextFuture
        <5>1. i < nextFuture
          BY <1>0, <3>4, <3>11, <4>2
        <5>2. PICK h \in Fibers : job[h].future = i
          BY <1>0, <3>4, <3>11, <5>1 DEF Awaits
        <5>3. h # g
          BY <1>0, <3>2, <5>2 DEF NoJob
        <5> QED
          BY <3>3, <3>5, <5>2, <5>3
      <4> QED
        BY <4>1, <4>2
    <3> QED
      BY <3>6, <3>8, <3>9, <3>10, <3>11 DEF Awaits
  <2>5. CASE drainQueue(f)
    <3> DEFINE r == Head(requestQueue)
    <3>1. r \in Requests /\ fate[r] = "queued"
      BY <2>5, HeadQueued DEF drainQueue, RoomForQueued
    <3>2. CASE r \in queueCancelled
      BY <1>1, <2>5, <3>2 DEF drainQueue
    <3>3. CASE r \notin queueCancelled
      BY <2>5, <3>1, <3>3, AwaitsByAdmitting DEF drainQueue
    <3> QED
      BY <3>2, <3>3
  <2>6. CASE produce(f)
    BY <1>3, <2>6 DEF produce, Handling
  <2>7. CASE releaseRequest(f)
    BY <1>3, <2>7 DEF releaseRequest, Handling
  <2> QED
    BY <1>6, <2>1, <2>2, <2>3, <2>4, <2>5, <2>6, <2>7 DEF FiberStep
<1>7. CASE Environment
  BY <1>1, <1>7, EnvironmentIsOutside
<1> QED
  BY <1>4, <1>5, <1>6, <1>7 DEF Next, Turn

-----------------------------------------------------------------------------
(* A cancellation finds its own request's fibers.                          *)

\* What a fiber does is put down to the same requests as before.
SameWork(h) ==
  /\ job'[h].stage = job[h].stage \/ (Handling(h) /\ Handling(h)')
  /\ job'[h].handles = job[h].handles /\ job'[h].requestId = job[h].requestId
  /\ job'[h].owner = job[h].owner /\ job'[h].keyless = job[h].keyless

\* The maps and the walk name fibers.
LEMMA NamedAreFibers ==
  ASSUME LoopInv
  PROVE  /\ \A r \in Requests : \A f \in Elements(children[r]) : f \in Fibers
         /\ \A r \in Requests : requestFibers[r] \in Fibers \cup {0}
         /\ \A f \in Elements(walk.left) : f \in Fibers /\ walk # NoWalk /\ walk.requestId # 0
<1>1. /\ children \in [Requests -> Seq(Fibers)] /\ requestFibers \in [Requests -> Fibers \cup {0}]
      /\ walk \in Walks
  BY DEF LoopInv, TypeOK
<1>2. \A r \in Requests : \A f \in Elements(children[r]) : f \in Fibers
  <2>1. \A r \in Requests : children[r] \in Seq(Fibers)
    BY <1>1
  <2> QED
    BY <2>1 DEF Elements
<1>3. \A f \in Elements(walk.left) : f \in Fibers
  <2>1. walk.left \in Seq(Fibers)
    BY <1>1 DEF Walks
  <2> QED
    BY <2>1 DEF Elements
<1>4. walk = NoWalk => Elements(walk.left) = {}
  BY ElementsEmpty DEF NoWalk
<1>5. walk # NoWalk => walk.requestId # 0
  BY DEF LoopInv, Control
<1> QED
  BY <1>1, <1>2, <1>3, <1>4, <1>5

\* A fiber that does the same work goes by a key of the same request.
LEMMA SameKey ==
  ASSUME NEW f, KeyOf(f), SameWork(f), scope'[f] \in {scope[f], 0},
         at'[f] \in {"run", "op", "future"} => at[f] \in {"run", "op", "future"}
  PROVE  KeyOf(f)'
BY DEF KeyOf, SameWork, Handling

\* A job put on a fiber that had none.
LEMMA KeysBySpawn ==
  ASSUME LoopInv, Spawnable, spawnOnto(SpawnTarget),
         UNCHANGED <<walk, scope, requestFibers>>,
         \A h \in Fibers \ {SpawnTarget} : SameWork(h),
         job'[SpawnTarget].stage = "child" => job'[SpawnTarget].handles = 0,
         job'[SpawnTarget].stage = "child" /\ ~job'[SpawnTarget].keyless =>
           job'[SpawnTarget].owner = job'[SpawnTarget].requestId /\ job'[SpawnTarget].requestId # 0,
         \A r \in Requests : \A h \in Elements(children'[r]) :
           \/ h \in Elements(children[r])
           \/ h = SpawnTarget /\ job'[h].stage = "child" /\ job'[h].requestId = r
  PROVE  Keys'
<1>0. TypeOK /\ Held /\ Handlers /\ Keys /\ SpawnTarget \in Fibers
  BY DEF LoopInv, Spawnable
<1> PICK g \in Fibers : g = SpawnTarget
  BY <1>0
<1>1. /\ job[g] = NoJob /\ at'[g] \in {"created", "idle"}
      /\ at[g] = "idle" => at'[g] = "idle"
      /\ \A h \in Fibers \ {g} : at'[h] = at[h]
  BY <1>0, SpawnPlaces
<1>2. /\ job[g].stage = "none" /\ job[g].handles = 0 /\ job[g].requestId = 0
  BY <1>1 DEF NoJob
<1>3. KeyOf(g)'
  BY <1>1 DEF KeyOf
<1>4. ASSUME NEW h \in Fibers \ {g} PROVE KeyOf(h)'
  BY <1>0, <1>1, SameKey DEF Keys
<1>5. Mapped'
  <2>1. ASSUME NEW r \in Requests, requestFibers'[r] # 0
        PROVE  Handling(requestFibers[r])' /\ job'[requestFibers[r]].handles = r
    <3>1. requestFibers[r] \in Fibers /\ Handling(requestFibers[r]) /\ job[requestFibers[r]].handles = r
      BY <1>0, <2>1, NamedAreFibers DEF Keys, Mapped
    <3>2. requestFibers[r] # g
      BY <1>2, <3>1 DEF Handling
    <3> QED
      BY <3>1, <3>2 DEF SameWork, Handling
  <2>2. ASSUME NEW r \in Requests, NEW h \in Elements(children'[r])
        PROVE  job'[h].stage = "child" /\ job'[h].requestId = r
    <3>1. CASE h \in Elements(children[r])
      <4>1. h \in Fibers /\ job[h].stage = "child" /\ job[h].requestId = r
        BY <1>0, <3>1, NamedAreFibers DEF Keys, Mapped
      <4>2. h # g
        BY <1>2, <4>1
      <4> QED
        BY <4>1, <4>2 DEF SameWork, Handling
    <3> QED
      BY <3>1
  <2> QED
    BY <2>1, <2>2 DEF Mapped
<1>6. Walking'
  <2>1. ASSUME NEW h \in Elements(walk.left)
        PROVE  at'[h] = "idle" \/ walk.requestId \in {job'[h].handles, job'[h].requestId}
    <3>1. /\ h \in Fibers /\ walk.requestId # 0
          /\ at[h] = "idle" \/ walk.requestId \in {job[h].handles, job[h].requestId}
      BY <1>0, NamedAreFibers DEF Keys, Walking
    <3>2. CASE h = g
      BY <1>1, <1>2, <3>1, <3>2
    <3>3. CASE h # g
      BY <1>1, <3>1, <3>3 DEF SameWork
    <3> QED
      BY <3>2, <3>3
  <2> QED
    BY <2>1 DEF Walking
<1> QED
  BY <1>3, <1>4, <1>5, <1>6 DEF Keys

\* A handler is put on a fiber that no map names.
LEMMA KeysByAdmitting ==
  ASSUME LoopInv, NEW r \in Requests, fate[r] \in {"sent", "queued"}, admitRequest(r),
         UNCHANGED <<walk, scope, requestFibers, children>>
  PROVE  Keys'
<1>0. TypeOK /\ Held /\ Handlers /\ Room
  BY DEF LoopInv
<1>1. Spawnable
  BY <1>0, AdmitFindsFiber
<1>2. job'[SpawnTarget] = Handler(r) /\ \A h \in Fibers \ {SpawnTarget} : job'[h] = job[h]
  BY <1>0, <1>1, AdmitJobs
<1>3. job'[SpawnTarget].stage = "handler"
  BY <1>2 DEF Handler
<1>4. \A h \in Fibers \ {SpawnTarget} : SameWork(h)
  BY <1>2 DEF SameWork
<1> QED
  BY <1>1, <1>3, <1>4, KeysBySpawn DEF admitRequest

\* The fiber that starts or goes on: a handler takes its place in the map.
LEMMA KeysByGiving ==
  ASSUME LoopInv, NEW f \in Fibers, giveThread(f), OnMain,
         f \in Elements(pending) \/ f \in Elements(ready),
         UNCHANGED <<walk, job, children>>
  PROVE  Keys'
<1>0. /\ TypeOK /\ Held /\ Handlers /\ Keys /\ HandlerJob(f) /\ KeyOf(f) /\ HeldOnce(f)
      /\ job[f] \in Jobs /\ at \in [Fibers -> Places] /\ scope \in [Fibers -> Requests \cup {0}]
      /\ requestFibers \in [Requests -> Fibers \cup {0}]
  BY DEF LoopInv, TypeOK, Handlers, Held, Keys
<1>1. at'[f] = "run" /\ \A h \in Fibers \ {f} : at'[h] = at[h] /\ scope'[h] = scope[h]
  BY <1>0 DEF giveThread
<1>2. at[f] \in {"created", "idle", "future"} /\ f \notin Elements(idle)
  BY <1>0 DEF HeldOnce
<1>3. job[f].stage \in {"handler", "stream", "child"}
  <2>1. job[f].stage # "none" /\ job[f].stage \in Stages
    BY <1>0, <1>2 DEF HandlerJob, Jobs
  <2>2. job[f].stage # "drain"
    BY <1>0 DEF HandlerJob, OnMain, Fibers
  <2> QED
    BY <2>1, <2>2 DEF Stages
<1>4. \A h \in Fibers : SameWork(h)
  BY DEF SameWork
<1>5. ASSUME NEW h \in Fibers \ {f} PROVE KeyOf(h)'
  BY <1>0, <1>1, <1>4, SameKey DEF Keys
<1>6. KeyOf(f)'
  <2>1. CASE at[f] = "future"
    <3>1. scope'[f] = scope[f]
      BY <2>1 DEF giveThread
    <3> QED
      BY <1>0, <1>4, <2>1, <3>1, SameKey
  <2>2. CASE at[f] \in {"created", "idle"} /\ Handling(f)
    <3>1. job[f].handles # 0 /\ job[f].owner = job[f].handles
      BY <1>0, <2>2 DEF HandlerJob
    <3>2. scope'[f] = job[f].handles
      BY <1>0, <2>2, <3>1 DEF giveThread
    <3> QED
      BY <1>0, <2>2, <3>1, <3>2 DEF KeyOf, Handling
  <2>3. CASE at[f] \in {"created", "idle"} /\ job[f].stage = "child"
    <3>1. job[f].handles = 0 /\ (job[f].keyless \/ (job[f].owner = job[f].requestId /\ job[f].requestId # 0))
      BY <1>0, <2>3 DEF KeyOf
    <3>2. job[f].requestId # 0 => scope'[f] = job[f].requestId
      BY <1>0, <2>3, <3>1 DEF giveThread
    <3> QED
      BY <2>3, <3>1, <3>2 DEF KeyOf
  <2> QED
    BY <1>2, <1>3, <2>1, <2>2, <2>3 DEF Handling
<1>7. Mapped'
  <2>1. \A r \in Requests :
          \/ requestFibers'[r] = requestFibers[r]
          \/ requestFibers'[r] = f /\ job[f].handles = r /\ r # 0
    BY <1>0 DEF giveThread, Requests
  <2>2. job[f].handles # 0 => Handling(f)
    BY <1>0, <1>3 DEF KeyOf, Handling
  <2>3. ASSUME NEW r \in Requests, requestFibers'[r] # 0
        PROVE  Handling(requestFibers'[r]) /\ job[requestFibers'[r]].handles = r
    BY <1>0, <2>1, <2>2, <2>3 DEF Keys, Mapped
  <2> QED
    BY <1>0, <2>3 DEF Keys, Mapped, Handling
<1>8. Walking'
  BY ElementsEmpty DEF Walking, OnMain, NoWalk
<1> QED
  BY <1>5, <1>6, <1>7, <1>8 DEF Keys

\* What the maps and the walk name, in every step.
LEMMA KeysKept ==
  ASSUME LoopInv, Next
  PROVE  Keys'
<1> USE DEF control, fibers, pool, parks, maps, futures, admission, winding, reactor, requests
<1>0. /\ TypeOK /\ Held /\ Handlers /\ Ids /\ Room /\ Keys
      /\ job \in [Fibers -> Jobs] /\ at \in [Fibers -> Places] /\ 0 \notin Fibers /\ 0 \notin Requests
  BY DEF LoopInv, TypeOK, Fibers, Requests
\* Nobody moves; what is left of the walk may shrink.
<1>1. ASSUME UNCHANGED <<job, scope, at, requestFibers, children>>,
             walk' = NoWalk \/ (/\ walk'.requestId = walk.requestId
                                /\ Elements(walk'.left) \subseteq Elements(walk.left))
      PROVE  Keys'
  <2>1. Walking'
    BY <1>0, <1>1, ElementsEmpty DEF Keys, Walking, NoWalk
  <2> QED
    BY <1>0, <1>1, <2>1 DEF Keys, Mapped, Handling, KeyOf
\* A fiber in the middle of its job gets the thread or gives it up.
<1>2. ASSUME NEW f \in Fibers, NEW p \in {"run", "op", "future"}, at' = [at EXCEPT ![f] = p],
             at[f] \in {"run", "op", "future"}, UNCHANGED <<job, scope, requestFibers, children>>,
             walk'.requestId = walk.requestId, Elements(walk'.left) \subseteq Elements(walk.left)
      PROVE  Keys'
  <2>1. at'[f] = p /\ \A h \in Fibers \ {f} : at'[h] = at[h]
    BY <1>0, <1>2
  <2>2. ASSUME NEW h \in Fibers PROVE KeyOf(h)' /\ (at'[h] = "idle" <=> at[h] = "idle")
    <3>1. KeyOf(h) /\ SameWork(h)
      BY <1>0, <1>2 DEF Keys, SameWork
    <3>2. CASE h = f
      BY <1>2, <2>1, <3>1, <3>2, SameKey
    <3>3. CASE h # f
      BY <1>2, <2>1, <3>1, <3>3, SameKey
    <3> QED
      BY <3>2, <3>3
  <2>3. Walking'
    BY <1>0, <1>2, <2>2, NamedAreFibers DEF Keys, Walking
  <2> QED
    BY <1>0, <1>2, <2>2, <2>3 DEF Keys, Mapped, Handling
\* A cancellation begins.
<1>3. ASSUME NEW r \in Requests, cancelRequest(r), UNCHANGED <<job, scope, at, requestFibers, children>>
      PROVE  Keys'
  <2>1. /\ walk'.requestId = r
        /\ \A f \in Elements(walk'.left) :
             f \in Elements(children[r]) \/ (requestFibers[r] # 0 /\ f = requestFibers[r])
    BY <1>0, <1>3, WalkOf
  <2>2. \A f \in Elements(walk'.left) : r \in {job[f].handles, job[f].requestId}
    BY <1>0, <2>1 DEF Keys, Mapped
  <2> QED
    BY <1>0, <1>3, <2>1, <2>2 DEF Keys, Mapped, Handling, KeyOf, Walking
<1>4. CASE startPending
  <2>1. CASE pending = <<>>
    BY <1>1, <1>4, <2>1 DEF startPending
  <2>2. CASE pending # <<>>
    <3>1. Head(pending) \in Fibers /\ Head(pending) \in Elements(pending)
      BY <1>0, <2>2, TailOf DEF TypeOK
    <3> QED
      BY <1>4, <2>2, <3>1, KeysByGiving DEF startPending
  <2> QED
    BY <2>1, <2>2
<1>5. CASE resumeReady
  <2>1. CASE ready = <<>>
    BY <1>1, <1>5, <2>1 DEF resumeReady
  <2>2. CASE ready # <<>>
    <3>1. Head(ready) \in Fibers /\ Head(ready) \in Elements(ready)
      BY <1>0, <2>2, TailOf DEF TypeOK
    <3> QED
      BY <1>5, <2>2, <3>1, KeysByGiving DEF resumeReady
  <2> QED
    BY <2>1, <2>2
<1>6. CASE WindDown \/ ignis_poll \/ EndOfBatch \/ EndOfWalk
  BY <1>1, <1>6 DEF WindDown, ignis_poll, EndOfBatch, EndOfWalk
<1>7. CASE DispatchCancel
  <2>1. Head(events).id \in Requests
    BY <1>0, <1>7, HeadEvent DEF DispatchCancel, Dispatching
  <2> QED
    BY <1>3, <1>7, <2>1 DEF DispatchCancel
<1>8. CASE DispatchDeadline
  BY <1>3, <1>8 DEF DispatchDeadline, ArmedBy
<1>9. CASE dispatchRequest
  <2> DEFINE r == Head(events).id
  <2>1. r \in Requests /\ fate[r] = "sent"
    BY <1>9, HeadRequest DEF dispatchRequest, Dispatching
  <2>2. CASE ~OverBudget(r)
    BY <1>9, <2>1, <2>2, KeysByAdmitting DEF dispatchRequest
  <2>3. CASE OverBudget(r)
    BY <1>1, <1>9, <2>3 DEF dispatchRequest
  <2> QED
    BY <2>2, <2>3
<1>10. CASE DispatchCompletion
  <2> DEFINE o == Head(events).id
  <2>1. o \in Ops /\ o # 0 /\ walk' = walk
    BY <1>0, <1>10, HeadEvent DEF DispatchCompletion, Dispatching, Ops
  <2>2. CASE waiting[o] = 0
    BY <1>1, <1>10, <2>1, <2>2 DEF DispatchCompletion
  <2>3. CASE waiting[o] # 0
    <3>1. waiting[o] \in Fibers /\ parkedOn[waiting[o]] = o
      BY <1>0, <2>1, <2>3 DEF TypeOK, Held
    <3>2. at[waiting[o]] = "op"
      BY <1>0, <2>1, <3>1 DEF Held, HeldOnce
    <3> QED
      BY <1>2, <1>10, <2>1, <2>3, <3>1, <3>2 DEF DispatchCompletion
  <2> QED
    BY <2>2, <2>3
<1>11. CASE throwInto
  <2> DEFINE f == Head(walk.left)
  <2>1. /\ f \in Fibers /\ Elements(Tail(walk.left)) \subseteq Elements(walk.left)
    BY <1>0, <1>11, TailOf DEF throwInto, TypeOK, Walks
  <2>2. walk'.requestId = walk.requestId /\ walk'.left = Tail(walk.left)
    BY <1>0, <1>11 DEF throwInto, TypeOK, Walks
  <2>3. CASE parkedOn[f] = 0
    BY <1>1, <1>11, <2>1, <2>2, <2>3 DEF throwInto
  <2>4. CASE parkedOn[f] # 0
    <3>1. at[f] = "op"
      BY <1>0, <2>1, <2>4 DEF Held, HeldOnce
    <3> QED
      BY <1>2, <1>11, <2>1, <2>2, <2>4, <3>1 DEF throwInto
  <2> QED
    BY <2>3, <2>4
<1>12. ASSUME NEW f \in Fibers, FiberStep(f) PROVE Keys'
  <2>0. running = f /\ at[f] = "run" /\ HandlerJob(f) /\ KeyOf(f) /\ job[f] \in Jobs /\ job[f].stage # "none"
    BY <1>0, <1>12, StepIsOnStack DEF Handlers, Keys
  <2>1. CASE awaitOp(f) \/ await(f)
    <3>1. UNCHANGED <<walk, job, scope, requestFibers, children>>
      BY <2>1 DEF awaitOp, await
    <3>2. \E p \in {"op", "future"} : at' = [at EXCEPT ![f] = p]
      BY <2>1 DEF awaitOp, await
    <3> QED
      BY <1>2, <2>0, <3>1, <3>2
  <2>2. CASE deadline(f) \/ stop(f)
    BY <1>1, <2>2 DEF deadline, stop
  <2>3. CASE drainQueue(f)
    <3> DEFINE r == Head(requestQueue)
    <3>1. r \in Requests /\ fate[r] = "queued"
      BY <2>3, HeadQueued DEF drainQueue, RoomForQueued
    <3>2. CASE r \in queueCancelled
      BY <1>1, <2>3, <3>2 DEF drainQueue
    <3>3. CASE r \notin queueCancelled
      BY <2>3, <3>1, <3>3, KeysByAdmitting DEF drainQueue
    <3> QED
      BY <3>2, <3>3
  <2>4. CASE spawn(f)
    <3>1. Spawnable /\ SpawnTarget # f /\ SpawnTarget \in Fibers
      BY <1>0, <2>0, <2>4, ChildFindsFiber, SpawnTakesAnother DEF spawn, Spawnable
    <3>2. /\ job'[SpawnTarget] = ChildOf(f)
          /\ job'[f] = [job[f] EXCEPT !.mine = job[f].mine \cup {nextFuture}]
          /\ \A h \in Fibers \ {f, SpawnTarget} : job'[h] = job[h]
      BY <1>0, <2>4, <3>1, SpawnJobs
    <3>3. /\ job'[SpawnTarget].stage = "child" /\ job'[SpawnTarget].handles = 0
          /\ job'[SpawnTarget].requestId = scope[f] /\ job'[SpawnTarget].owner = job[f].owner
          /\ job'[SpawnTarget].keyless = (job[f].keyless \/ scope[f] = 0)
      BY <3>2 DEF ChildOf
    <3>4. SameWork(f)
      BY <2>0, <3>2 DEF SameWork, Jobs
    <3>5. \A h \in Fibers \ {SpawnTarget} : SameWork(h)
      BY <3>2, <3>4 DEF SameWork
    <3>6. job[f].stage # "drain"
      BY <2>4 DEF spawn, InUserCode
    <3>7. job[f].keyless \/ scope[f] \in {0, job[f].owner}
      BY <2>0, <3>6 DEF KeyOf
    <3>8. ASSUME NEW r \in Requests, NEW h \in Elements(children'[r])
          PROVE  \/ h \in Elements(children[r])
                 \/ h = SpawnTarget /\ job'[h].stage = "child" /\ job'[h].requestId = r
      <4>1. CASE scope[f] = 0 \/ r # scope[f]
        BY <1>0, <2>4, <4>1 DEF spawn, TypeOK
      <4>2. CASE scope[f] # 0 /\ r = scope[f]
        <5>1. children[r] \in Seq(Fibers) /\ children \in [Requests -> Seq(Fibers)]
          BY <1>0 DEF TypeOK
        <5>2. /\ Without(children[r], SpawnTarget) \in Seq(Fibers)
              /\ Elements(Without(children[r], SpawnTarget)) = Elements(children[r]) \ {SpawnTarget}
          BY <5>1, RetainOthers DEF Without
        <5>3. children'[r] = Append(Without(children[r], SpawnTarget), SpawnTarget)
          BY <2>4, <4>2, <5>1 DEF spawn
        <5>4. Elements(children'[r]) = (Elements(children[r]) \ {SpawnTarget}) \cup {SpawnTarget}
          BY <3>1, <5>2, <5>3, AppendOf
        <5> QED
          BY <3>3, <4>2, <5>4
      <4> QED
        BY <4>1, <4>2
    <3>9. UNCHANGED <<walk, scope, requestFibers>> /\ spawnOnto(SpawnTarget)
      BY <2>4 DEF spawn
    <3>10. ~job'[SpawnTarget].keyless =>
             /\ job'[SpawnTarget].owner = job'[SpawnTarget].requestId
             /\ job'[SpawnTarget].requestId # 0
      BY <3>3, <3>7
    <3> QED
      BY <3>1, <3>3, <3>5, <3>8, <3>9, <3>10, KeysBySpawn
  <2>5. CASE produce(f)
    <3>1. /\ job' = [job EXCEPT ![f].stage = "stream"] /\ scope' = [scope EXCEPT ![f] = 0]
          /\ UNCHANGED <<walk, at, requestFibers, children>> /\ job[f].stage = "handler"
      BY <2>5 DEF produce
    <3>2. SameWork(f)
      BY <1>0, <2>0, <3>1 DEF SameWork, Handling, Jobs
    <3>3. \A h \in Fibers : SameWork(h)
      BY <1>0, <3>1, <3>2 DEF SameWork
    <3>4. \A h \in Fibers : scope'[h] \in {scope[h], 0}
      BY <1>0, <3>1 DEF TypeOK
    <3>5. \A h \in Fibers : KeyOf(h)'
      BY <1>0, <3>1, <3>3, <3>4, SameKey DEF Keys
    <3>6. \A h \in Fibers : /\ Handling(h) => Handling(h)'
                            /\ job[h].stage = "child" => job'[h].stage = "child"
      BY <3>3 DEF SameWork, Handling
    <3>7. Mapped'
      BY <1>0, <3>1, <3>3, <3>6, NamedAreFibers DEF Keys, Mapped, SameWork
    <3>8. Walking'
      BY <1>0, <3>1, <3>3, NamedAreFibers DEF Keys, Walking, SameWork
    <3> QED
      BY <3>5, <3>7, <3>8 DEF Keys
  <2>6. CASE releaseRequest(f)
    <3> DEFINE r == job[f].handles
    <3>1. r \in Requests /\ Handling(f)
      BY <2>6, ReleasedWasAdmitted DEF releaseRequest, Handling
    <3>2. /\ job' = [job EXCEPT ![f].stage = "drain"] /\ scope' = [scope EXCEPT ![f] = 0]
          /\ requestFibers' = [requestFibers EXCEPT ![r] = 0] /\ children' = [children EXCEPT ![r] = <<>>]
          /\ UNCHANGED <<walk, at>>
      BY <2>6 DEF releaseRequest, forgetRequest
    <3>3. job'[f].stage = "drain" /\ job'[f].handles = r /\ job'[f].requestId = job[f].requestId
      BY <1>0, <2>0, <3>2 DEF Jobs
    <3>4. \A h \in Fibers \ {f} : job'[h] = job[h] /\ scope'[h] = scope[h]
      BY <1>0, <3>2 DEF TypeOK
    <3>5. KeyOf(f)'
      BY <3>3 DEF KeyOf
    <3>6. \A h \in Fibers \ {f} : KeyOf(h)'
      BY <1>0, <3>2, <3>4 DEF Keys, KeyOf
    <3>7. requestFibers'[r] = 0 /\ \A q \in Requests \ {r} : requestFibers'[q] = requestFibers[q]
      BY <1>0, <3>1, <3>2 DEF TypeOK
    <3>8. children'[r] = <<>> /\ \A q \in Requests \ {r} : children'[q] = children[q]
      BY <1>0, <3>1, <3>2 DEF TypeOK
    <3>9. ASSUME NEW q \in Requests, requestFibers'[q] # 0
          PROVE  Handling(requestFibers[q])' /\ job'[requestFibers'[q]].handles = q
      <4>1. q # r /\ requestFibers'[q] = requestFibers[q] /\ requestFibers[q] \in Fibers
        BY <3>7, <3>9, NamedAreFibers
      <4>2. Handling(requestFibers[q]) /\ job[requestFibers[q]].handles = q
        BY <1>0, <3>9, <4>1 DEF Keys, Mapped
      <4>3. requestFibers[q] # f
        BY <4>1, <4>2
      <4> QED
        BY <3>4, <4>1, <4>2, <4>3 DEF Handling
    <3>10. ASSUME NEW q \in Requests, NEW h \in Elements(children'[q])
           PROVE  job'[h].stage = "child" /\ job'[h].requestId = q
      <4>1. q # r /\ h \in Elements(children[q])
        BY <3>8, ElementsEmpty
      <4>2. h \in Fibers /\ job[h].stage = "child" /\ job[h].requestId = q
        BY <1>0, <4>1, NamedAreFibers DEF Keys, Mapped
      <4>3. h # f
        BY <3>1, <4>2 DEF Handling
      <4> QED
        BY <3>4, <4>2, <4>3
    <3>11. Walking'
      <4>1. \A h \in Fibers : job'[h].handles = job[h].handles /\ job'[h].requestId = job[h].requestId
        BY <3>3, <3>4
      <4> QED
        BY <1>0, <3>2, <4>1, NamedAreFibers DEF Keys, Walking
    <3>12. Mapped'
      BY <3>9, <3>10 DEF Mapped, Handling
    <3> QED
      BY <3>5, <3>6, <3>11, <3>12 DEF Keys
  <2>7. CASE poolBody(f)
    <3> DEFINE r == job[f].requestId
    <3>1. /\ job' = [job EXCEPT ![f] = NoJob] /\ at' = [at EXCEPT ![f] = "idle"]
          /\ children' = forgetChild(r, f) /\ UNCHANGED <<walk, scope, requestFibers>>
          /\ job[f].stage \in {"child", "drain"}
      BY <2>7 DEF poolBody, Draining
    <3>2. /\ job'[f] = NoJob /\ at'[f] = "idle"
          /\ \A h \in Fibers \ {f} : job'[h] = job[h] /\ at'[h] = at[h]
      BY <1>0, <3>1
    <3>3. KeyOf(f)'
      BY <3>2 DEF KeyOf, NoJob
    <3>4. \A h \in Fibers \ {f} : KeyOf(h)'
      BY <1>0, <3>1, <3>2 DEF Keys, KeyOf
    <3>5. ASSUME NEW q \in Requests
          PROVE  \A h \in Elements(children'[q]) : h \in Elements(children[q]) /\ h # f
      <4>0. /\ children \in [Requests -> Seq(Fibers)] /\ children[q] \in Seq(Fibers)
            /\ f \in Elements(children[q]) => job[f].stage = "child" /\ r = q
        BY <1>0 DEF TypeOK, Keys, Mapped
      <4>1. CASE r = q
        <5>1. children'[q] = Without(children[q], f)
          BY <1>0, <3>1, <4>0, <4>1 DEF forgetChild
        <5>2. Elements(Without(children[q], f)) = Elements(children[q]) \ {f}
          BY <4>0, RetainOthers DEF Without
        <5> QED
          BY <5>1, <5>2
      <4>2. CASE r # q
        <5>1. children'[q] = children[q]
          BY <3>1, <4>0, <4>2 DEF forgetChild
        <5> QED
          BY <4>0, <4>2, <5>1
      <4> QED
        BY <4>1, <4>2
    <3>6. ASSUME NEW q \in Requests, requestFibers'[q] # 0
          PROVE  Handling(requestFibers[q])' /\ job'[requestFibers[q]].handles = q
      <4>1. requestFibers[q] \in Fibers /\ Handling(requestFibers[q]) /\ job[requestFibers[q]].handles = q
        BY <1>0, <3>1, <3>6, NamedAreFibers DEF Keys, Mapped
      <4>2. requestFibers[q] # f
        BY <3>1, <4>1 DEF Handling
      <4> QED
        BY <3>1, <3>2, <4>1, <4>2 DEF Handling
    <3>7. ASSUME NEW q \in Requests, NEW h \in Elements(children'[q])
          PROVE  job'[h].stage = "child" /\ job'[h].requestId = q
      <4>1. h \in Fibers \ {f} /\ job[h].stage = "child" /\ job[h].requestId = q
        BY <1>0, <3>5, NamedAreFibers DEF Keys, Mapped
      <4> QED
        BY <3>2, <4>1
    <3>8. Mapped'
      BY <3>1, <3>6, <3>7 DEF Mapped, Handling
    <3>9. Walking'
      BY <1>0, <3>1, <3>2, NamedAreFibers DEF Keys, Walking
    <3> QED
      BY <3>3, <3>4, <3>8, <3>9 DEF Keys
  <2> QED
    BY <1>12, <2>1, <2>2, <2>3, <2>4, <2>5, <2>6, <2>7 DEF FiberStep
<1>13. CASE Environment
  BY <1>1, <1>13, EnvironmentIsOutside
<1> QED
  BY <1>4, <1>5, <1>6, <1>7, <1>8, <1>9, <1>10, <1>11, <1>12, <1>13 DEF Next, Turn

-----------------------------------------------------------------------------
(* The fiber budget and the queue.                                         *)

\* Which requests are admitted is all the budget looks at.
LEMMA BudgetUnmoved ==
  ASSUME BudgetHeld, inflightRequests' = inflightRequests,
         \A r \in Requests : fate'[r] = "admitted" <=> fate[r] = "admitted"
  PROVE  BudgetHeld'
<1>1. AdmittedNow' = AdmittedNow
  BY DEF AdmittedNow
<1> QED
  BY <1>1 DEF BudgetHeld

\* One request more within the budget, or exempt from it.
LEMMA BudgetByAdmitting ==
  ASSUME TypeOK, BudgetHeld, NEW r \in Requests, fate[r] # "admitted", admitRequest(r),
         FiberBudget > 0 => inflightRequests < FiberBudget \/ r \in Exempt
  PROVE  BudgetHeld'
<1> DEFINE A == AdmittedNow
<1>1. AdmittedNow' = A \cup {r} /\ r \notin A
  BY DEF TypeOK, admitRequest, AdmittedNow
<1>2. IsFiniteSet(A) /\ Cardinality(A) \in Nat /\ FiberBudget \in Nat /\ inflightRequests = Cardinality(A)
  BY CreatedIsFinite, FS_Subset, FS_CardinalityType, LoopAssumption DEF AdmittedNow, BudgetHeld
<1> HIDE DEF A
<1>3. inflightRequests' = Cardinality(AdmittedNow')
  BY <1>1, <1>2, FS_AddElement DEF admitRequest
<1>4. ASSUME FiberBudget > 0 PROVE Cardinality(AdmittedNow' \ Exempt) <= FiberBudget
  <2>1. Cardinality(A \ Exempt) <= FiberBudget
    BY <1>4 DEF BudgetHeld, A
  <2>2. CASE r \in Exempt
    <3>1. AdmittedNow' \ Exempt = A \ Exempt
      BY <1>1, <2>2
    <3> QED
      BY <2>1, <3>1
  <2>3. CASE r \notin Exempt
    <3>1. AdmittedNow' \ Exempt = (A \ Exempt) \cup {r} /\ r \notin A \ Exempt
      BY <1>1, <2>3
    <3>2. A \ Exempt \in SUBSET A
      OBVIOUS
    <3>3. IsFiniteSet(A \ Exempt) /\ Cardinality(A \ Exempt) <= Cardinality(A)
      BY <1>2, <3>2, FS_Subset
    <3>4. Cardinality(AdmittedNow' \ Exempt) = Cardinality(A \ Exempt) + 1 /\ Cardinality(A \ Exempt) \in Nat
      BY <3>1, <3>3, FS_AddElement, FS_CardinalityType
    <3>5. Cardinality(A) < FiberBudget
      BY <1>2, <1>4, <2>3
    <3> QED
      BY <1>2, <3>3, <3>4, <3>5
  <2> QED
    BY <2>2, <2>3
<1> QED
  BY <1>3, <1>4 DEF BudgetHeld

\* One request less.
LEMMA BudgetByReleasing ==
  ASSUME LoopInv, NEW f \in Fibers, releaseRequest(f)
  PROVE  BudgetHeld'
<1> DEFINE r == job[f].handles
<1> DEFINE A == AdmittedNow
<1>0. r \in Requests /\ fate[r] = "admitted"
  BY ReleasedWasAdmitted DEF releaseRequest, Handling
<1>1. fate' = [fate EXCEPT ![r] = "released"] /\ inflightRequests' = inflightRequests - 1
      /\ fate \in [Requests -> Fates]
  BY DEF releaseRequest, LoopInv, TypeOK
<1> HIDE DEF r
<1>2. AdmittedNow' = A \ {r} /\ r \in A
  BY <1>0, <1>1 DEF AdmittedNow
<1>3. /\ IsFiniteSet(A) /\ Cardinality(A) \in Nat /\ FiberBudget \in Nat /\ inflightRequests = Cardinality(A)
      /\ FiberBudget > 0 => Cardinality(A \ Exempt) <= FiberBudget
  BY CreatedIsFinite, FS_Subset, FS_CardinalityType, LoopAssumption DEF AdmittedNow, BudgetHeld, LoopInv
<1> HIDE DEF A
<1>4. inflightRequests' = Cardinality(AdmittedNow')
  BY <1>1, <1>2, <1>3, FS_RemoveElement
<1>5. /\ A \ Exempt \in SUBSET A /\ AdmittedNow' \ Exempt \in SUBSET (A \ Exempt)
      /\ AdmittedNow' \ Exempt \in SUBSET A
  BY <1>2
<1>6. IsFiniteSet(A \ Exempt)
  BY <1>3, <1>5, FS_Subset
<1>7. /\ Cardinality(AdmittedNow' \ Exempt) <= Cardinality(A \ Exempt)
      /\ Cardinality(A \ Exempt) \in Nat /\ Cardinality(AdmittedNow' \ Exempt) \in Nat
  BY <1>5, <1>6, FS_Subset, FS_CardinalityType
<1>8. FiberBudget > 0 => Cardinality(AdmittedNow' \ Exempt) <= FiberBudget
  BY <1>3, <1>7
<1> QED
  BY <1>4, <1>8 DEF BudgetHeld

\* The budget, in every step.
LEMMA BudgetKept ==
  ASSUME LoopInv, Next
  PROVE  BudgetHeld'
<1> USE DEF control, fibers, pool, parks, maps, futures, admission, winding, reactor, requests
<1>0. /\ TypeOK /\ BudgetHeld /\ Order /\ fate \in [Requests -> Fates]
      /\ inflightRequests \in Nat /\ FiberBudget \in Nat
  BY LoopAssumption DEF LoopInv, TypeOK
<1>1. CASE startPending \/ resumeReady \/ WindDown \/ DispatchCancel \/ DispatchDeadline
           \/ DispatchCompletion \/ EndOfBatch \/ throwInto \/ EndOfWalk
  BY <1>0, <1>1, BudgetUnmoved
     DEF startPending, resumeReady, WindDown, DispatchCancel, DispatchDeadline,
         DispatchCompletion, EndOfBatch, throwInto, EndOfWalk, cancelRequest
<1>2. CASE ignis_poll
  <2>1. \A r \in Requests : Event("request", r) \in Elements(channel) => fate[r] = "sent"
    BY <1>0 DEF Order, Requested
  <2>2. \A r \in Requests : fate'[r] = "admitted" <=> fate[r] = "admitted"
    BY <1>0, <1>2, <2>1 DEF ignis_poll
  <2> QED
    BY <1>0, <1>2, <2>2, BudgetUnmoved DEF ignis_poll
<1>3. CASE dispatchRequest
  <2> DEFINE r == Head(events).id
  <2>1. r \in Requests /\ fate[r] = "sent"
    BY <1>3, HeadRequest DEF dispatchRequest, Dispatching
  <2>2. CASE ~OverBudget(r)
    <3>1. admitRequest(r)
      BY <1>3, <2>2 DEF dispatchRequest
    <3>2. FiberBudget > 0 => inflightRequests < FiberBudget \/ r \in Exempt
      BY <1>0, <2>2 DEF OverBudget
    <3> HIDE DEF r
    <3> QED
      BY <1>0, <2>1, <3>1, <3>2, BudgetByAdmitting
  <2>3. CASE OverBudget(r)
    <3>1. /\ inflightRequests' = inflightRequests
          /\ fate' \in {[fate EXCEPT ![r] = "rejected"], [fate EXCEPT ![r] = "queued"]}
      BY <1>3, <2>3 DEF dispatchRequest
    <3> HIDE DEF r
    <3>2. \A q \in Requests : fate'[q] = "admitted" <=> fate[q] = "admitted"
      BY <1>0, <2>1, <3>1
    <3> QED
      BY <1>0, <3>1, <3>2, BudgetUnmoved
  <2> QED
    BY <2>2, <2>3
<1>4. ASSUME NEW f \in Fibers, FiberStep(f) PROVE BudgetHeld'
  <2>1. CASE awaitOp(f) \/ spawn(f) \/ await(f) \/ deadline(f) \/ stop(f) \/ produce(f) \/ poolBody(f)
    BY <1>0, <2>1, BudgetUnmoved DEF awaitOp, spawn, await, deadline, stop, produce, poolBody
  <2>2. CASE releaseRequest(f)
    BY <2>2, BudgetByReleasing
  <2>3. CASE drainQueue(f)
    <3> DEFINE r == Head(requestQueue)
    <3>1. r \in Requests /\ fate[r] = "queued"
      BY <2>3, HeadQueued DEF drainQueue, RoomForQueued
    <3>2. CASE r \in queueCancelled
      <4>1. fate' = [fate EXCEPT ![r] = "dropped"] /\ inflightRequests' = inflightRequests
        BY <2>3, <3>2 DEF drainQueue
      <4> HIDE DEF r
      <4>2. \A q \in Requests : fate'[q] = "admitted" <=> fate[q] = "admitted"
        BY <1>0, <3>1, <4>1
      <4> QED
        BY <1>0, <4>1, <4>2, BudgetUnmoved
    <3>3. CASE r \notin queueCancelled
      <4>1. admitRequest(r)
        BY <2>3, <3>3 DEF drainQueue
      <4>2. FiberBudget > 0 => inflightRequests < FiberBudget
        BY <1>0, <2>3 DEF drainQueue, RoomForQueued
      <4> HIDE DEF r
      <4> QED
        BY <1>0, <3>1, <4>1, <4>2, BudgetByAdmitting
    <3> QED
      BY <3>2, <3>3
  <2> QED
    BY <1>4, <2>1, <2>2, <2>3 DEF FiberStep
<1>5. CASE Environment
  <2>1. inflightRequests' = inflightRequests
    BY <1>5, EnvironmentIsOutside
  <2>2. ASSUME NEW r \in Requests, RequestArrives(r)
        PROVE  \A q \in Requests : fate'[q] = "admitted" <=> fate[q] = "admitted"
    BY <1>0, <2>2 DEF RequestArrives
  <2>3. ASSUME ~\E r \in Requests : RequestArrives(r) PROVE fate' = fate
    BY <1>5, <2>3 DEF Environment, BeginReload, OpCompletes, OpCalledOff, ClientLeaves
  <2> QED
    BY <1>0, <2>1, <2>2, <2>3, BudgetUnmoved
<1> QED
  BY <1>1, <1>2, <1>3, <1>4, <1>5 DEF Next, Turn

\* A queue with nobody draining it waits for the budget.
LEMMA QueueWaits ==
  ASSUME LoopInv, requestQueue # <<>>, running = 0 \/ job[running].stage # "drain"
  PROVE  inflightRequests >= FiberBudget
<1>1. ASSUME NEW f \in Fibers PROVE ~Draining(f)
  BY DEF Draining, Fibers
<1> QED
  BY <1>1 DEF LoopInv, QueueServed

\* A step that leaves the queue alone.
LEMMA QueueUnmoved ==
  ASSUME LoopInv, UNCHANGED <<requestQueue, queued, inflightRequests>>,
         queueCancelled' \subseteq queued,
         \/ running = 0 \/ job[running].stage # "drain" \/ (\E f \in Fibers : Draining(f)')
  PROVE  NeverQueued' /\ QueueServed'
<1>1. requestQueue' # <<>> => inflightRequests' >= FiberBudget \/ \E f \in Fibers : Draining(f)'
  BY QueueWaits
<1> QED
  BY <1>1 DEF LoopInv, QueueServed, NeverQueued

\* The queue, in every step.
LEMMA QueueKept ==
  ASSUME LoopInv, Next
  PROVE  NeverQueued' /\ QueueServed'
<1> USE DEF control, fibers, pool, parks, maps, futures, admission, winding, reactor, requests
<1>0. /\ TypeOK /\ Held /\ Handlers /\ Room /\ Ids /\ requestQueue \in Seq(Requests)
      /\ inflightRequests \in Nat /\ FiberBudget \in Nat /\ QueueDepth \in Nat
      /\ queued = Elements(requestQueue) /\ queueCancelled \subseteq queued
      /\ QueueDepth > 0 => Len(requestQueue) <= QueueDepth
      /\ job \in [Fibers -> Jobs] /\ 0 \notin Fibers
  BY LoopAssumption DEF LoopInv, TypeOK, QueueServed, Fibers
<1>1. CASE startPending \/ resumeReady \/ WindDown \/ ignis_poll \/ DispatchCompletion
           \/ EndOfBatch \/ throwInto \/ EndOfWalk
  <2>1. running = 0 /\ UNCHANGED <<requestQueue, queued, inflightRequests, queueCancelled>>
    BY <1>1 DEF startPending, resumeReady, WindDown, ignis_poll, DispatchCompletion,
                EndOfBatch, throwInto, EndOfWalk, OnMain, Dispatching
  <2> QED
    BY <1>0, <2>1, QueueUnmoved
<1>2. CASE DispatchCancel \/ DispatchDeadline
  <2>1. /\ running = 0 /\ UNCHANGED <<requestQueue, queued, inflightRequests>>
        /\ \E r : cancelRequest(r)
    BY <1>2 DEF DispatchCancel, DispatchDeadline, Dispatching, OnMain
  <2>2. queueCancelled' \subseteq queued
    BY <1>0, <2>1 DEF cancelRequest
  <2> QED
    BY <2>1, <2>2, QueueUnmoved
<1>3. CASE dispatchRequest
  <2> DEFINE r == Head(events).id
  <2>1. r \in Requests /\ running = 0 /\ queueCancelled' = queueCancelled
    BY <1>3, HeadRequest DEF dispatchRequest, Dispatching, OnMain
  <2>2. CASE ~OverBudget(r)
    <3>1. inflightRequests' = inflightRequests + 1 /\ UNCHANGED <<requestQueue, queued>>
      BY <1>3, <2>2 DEF dispatchRequest, admitRequest
    <3>2. requestQueue' # <<>> => inflightRequests' >= FiberBudget
      BY <1>0, <2>1, <3>1, QueueWaits
    <3> QED
      BY <1>0, <2>1, <3>1, <3>2 DEF LoopInv, NeverQueued, QueueServed
  <2>3. CASE OverBudget(r) /\ (QueueDepth > 0 /\ Len(requestQueue) >= QueueDepth)
    BY <1>0, <1>3, <2>1, <2>3, QueueUnmoved DEF dispatchRequest
  <2>4. CASE OverBudget(r) /\ ~(QueueDepth > 0 /\ Len(requestQueue) >= QueueDepth)
    <3>1. /\ requestQueue' = Append(requestQueue, r) /\ queued' = queued \cup {r}
          /\ inflightRequests' = inflightRequests
      BY <1>3, <2>4 DEF dispatchRequest
    <3> HIDE DEF r
    <3>2. Elements(requestQueue') = Elements(requestQueue) \cup {r}
      BY <1>0, <2>1, <3>1, AppendOf
    <3>3. Len(requestQueue) \in Nat /\ Len(requestQueue') = Len(requestQueue) + 1
      BY <1>0, <2>1, <3>1
    <3>4. QueueDepth > 0 => Len(requestQueue') <= QueueDepth
      BY <1>0, <2>4, <3>3
    <3>5. inflightRequests' >= FiberBudget /\ FiberBudget > 0
      BY <1>0, <2>4, <3>1 DEF OverBudget
    <3> QED
      BY <1>0, <2>1, <3>1, <3>2, <3>4, <3>5 DEF NeverQueued, QueueServed
  <2> QED
    BY <2>2, <2>3, <2>4
<1>4. ASSUME NEW f \in Fibers, FiberStep(f) PROVE NeverQueued' /\ QueueServed'
  <2>0. running = f /\ job[f] \in Jobs
    BY <1>0, <1>4, StepIsOnStack
  <2>1. CASE awaitOp(f) \/ spawn(f) \/ await(f) \/ deadline(f) \/ stop(f) \/ produce(f)
    <3>1. job[f].stage # "drain" /\ UNCHANGED <<requestQueue, queued, inflightRequests, queueCancelled>>
      BY <2>1 DEF awaitOp, spawn, await, deadline, stop, produce, InUserCode
    <3> QED
      BY <1>0, <2>0, <3>1, QueueUnmoved
  <2>2. CASE poolBody(f)
    <3>1. UNCHANGED <<requestQueue, queued, inflightRequests, queueCancelled>>
      BY <2>2 DEF poolBody
    <3>2. CASE job[f].stage # "drain"
      BY <1>0, <2>0, <3>1, <3>2, QueueUnmoved
    <3>3. CASE job[f].stage = "drain"
      <4>1. ~RoomForQueued
        BY <2>2, <3>3 DEF poolBody
      <4>2. requestQueue # <<>> => inflightRequests >= FiberBudget
        BY <1>0, <4>1 DEF RoomForQueued
      <4> QED
        BY <1>0, <3>1, <4>2 DEF LoopInv, NeverQueued, QueueServed
    <3> QED
      BY <3>2, <3>3
  <2>3. CASE releaseRequest(f)
    <3>1. /\ job' = [job EXCEPT ![f].stage = "drain"] /\ running' = running
          /\ UNCHANGED <<requestQueue, queued, queueCancelled>>
      BY <2>3 DEF releaseRequest
    <3>2. Draining(f)'
      BY <1>0, <2>0, <3>1 DEF Draining, Jobs
    <3> QED
      BY <1>0, <3>1, <3>2 DEF LoopInv, NeverQueued, QueueServed
  <2>4. CASE drainQueue(f)
    <3> DEFINE r == Head(requestQueue)
    <3>1. r \in Requests /\ fate[r] = "queued" /\ requestQueue # <<>> /\ Draining(f)
      BY <2>4, HeadQueued DEF drainQueue, RoomForQueued
    <3>2. /\ queued' = queued \ {r} /\ queueCancelled' = queueCancelled \ {r}
          /\ requestQueue' = Tail(requestQueue) /\ running' = running
      BY <2>4 DEF drainQueue
    <3>3. Draining(f)'
      <4>1. CASE r \in queueCancelled
        BY <2>4, <3>1, <3>2, <4>1 DEF drainQueue, Draining
      <4>2. CASE r \notin queueCancelled
        <5>1. admitRequest(r)
          BY <2>4, <4>2 DEF drainQueue
        <5>2. Spawnable
          BY <1>0, <3>1, AdmitFindsFiber
        <5>3. SpawnTarget # f
          BY <1>0, <2>0, <5>2, SpawnTakesAnother
        <5>4. job'[f] = job[f]
          BY <1>0, <3>1, <5>1, <5>2, <5>3, AdmitJobs
        <5> QED
          BY <3>1, <3>2, <5>4 DEF Draining
      <4> QED
        BY <4>1, <4>2
    <3>4. /\ Elements(requestQueue') = Elements(requestQueue) \ {r}
          /\ Len(requestQueue') = Len(requestQueue) - 1 /\ Len(requestQueue) \in Nat
      BY <3>1, <3>2, QueueTail
    <3>5. QueueDepth > 0 => Len(requestQueue') <= QueueDepth
      BY <1>0, <3>4
    <3>6. FiberBudget # 0
      BY <3>1 DEF LoopInv, NeverQueued
    <3> QED
      BY <1>0, <3>2, <3>3, <3>4, <3>5, <3>6 DEF NeverQueued, QueueServed
  <2> QED
    BY <1>4, <2>1, <2>2, <2>3, <2>4 DEF FiberStep
<1>5. CASE Environment
  <2>1. UNCHANGED <<requestQueue, queued, inflightRequests, queueCancelled, running, job>>
    BY <1>5, EnvironmentIsOutside
  <2> QED
    BY <1>0, <2>1 DEF LoopInv, NeverQueued, QueueServed, Draining
<1> QED
  BY <1>1, <1>2, <1>3, <1>4, <1>5 DEF Next, Turn

-----------------------------------------------------------------------------
(* The invariant.                                                          *)

\* A loop that has not begun satisfies it.
LEMMA InitLoopInv == Init => LoopInv
<1> SUFFICES ASSUME Init PROVE LoopInv
  OBVIOUS
<1>0. /\ \A f \in Fibers : at[f] = "absent" /\ job[f] = NoJob /\ scope[f] = 0 /\ parkedOn[f] = 0
      /\ \A r \in Requests : fate[r] = "unsent" /\ requestFibers[r] = 0 /\ children[r] = <<>>
      /\ \A j \in Futures : waiters[j] = <<>>
      /\ \A o \in Ops : waiting[o] = 0
      /\ walk = NoWalk /\ running = 0 /\ 0 \notin Fibers /\ nextFuture = 1 /\ nextOp = 1
      /\ events = <<>> /\ channel = <<>> /\ pending = <<>> /\ ready = <<>> /\ idle = <<>>
      /\ requestQueue = <<>>
  BY DEF Init, Fibers
<1>1. Elements(<<>>) = {} /\ Distinct(<<>>)
  BY ElementsEmpty DEF Distinct
<1>2. TypeOK
  <2>1. NoJob \in Jobs
    BY DEF Jobs, NoJob, Stages
  <2>2. NoWalk \in Walks
    BY DEF Walks, NoWalk
  <2>3. 1 \in 1..(MaxOp + 1) /\ 1 \in 1..(MaxFuture + 1)
    BY LoopAssumption
  <2>4. "absent" \in Places /\ "unsent" \in Fates
    BY DEF Places, Fates
  <2>5. /\ at \in [Fibers -> Places] /\ job \in [Fibers -> Jobs]
        /\ scope \in [Fibers -> Requests \cup {0}] /\ parkedOn \in [Fibers -> Ops \cup {0}]
    BY <2>1, <2>4 DEF Init
  <2>6. /\ waiting \in [Ops -> Fibers \cup {0}] /\ requestFibers \in [Requests -> Fibers \cup {0}]
        /\ deadlineOf \in [Requests -> Ops \cup {0}] /\ fate \in [Requests -> Fates]
    BY <2>4 DEF Init
  <2>7. children \in [Requests -> Seq(Fibers)] /\ waiters \in [Futures -> Seq(Fibers)]
    BY DEF Init
  <2>8. /\ events \in Seq(Events) /\ channel \in Seq(Events) /\ requestQueue \in Seq(Requests)
        /\ pending \in Seq(Fibers) /\ ready \in Seq(Fibers) /\ idle \in Seq(Fibers)
    BY DEF Init
  <2> QED
    BY <2>2, <2>3, <2>5, <2>6, <2>7, <2>8 DEF Init, TypeOK
<1>3. Control
  BY <1>0 DEF Control
<1>4. Held
  BY <1>0, <1>1 DEF Held, HeldOnce
<1>5. Room
  <2>1. Created = {} /\ Entered = {}
    BY <1>0 DEF Created, Entered
  <2> QED
    BY <1>0, <2>1, FS_EmptySet DEF Room
<1>6. Ids
  BY <1>0, <1>1 DEF Ids
<1>7. Order
  <2>1. Requested(<<>>) = {}
    BY <1>1 DEF Requested
  <2>2. InOrder(<<>>)
    BY DEF InOrder
  <2> QED
    BY <1>0, <1>1, <2>1, <2>2 DEF Order, Dispatched
<1>8. Handlers
  <2>1. \A f \in Fibers : job[f].stage = "none"
    BY <1>0 DEF NoJob
  <2> QED
    BY <1>0, <2>1 DEF Handlers, HandlerJob, Handling
<1>9. Awaits
  <2>1. \A f \in Fibers : job[f].stage = "none" /\ job[f].future = 0 /\ job[f].mine = {}
    BY <1>0 DEF NoJob
  <2>2. \A j \in Futures : ~(j < nextFuture)
    BY <1>0 DEF Futures
  <2> QED
    BY <1>0, <1>1, <2>1, <2>2 DEF Awaits, ChildJob
<1>10. Keys
  <2>1. \A f \in Fibers : job[f].stage = "none"
    BY <1>0 DEF NoJob
  <2>2. walk.left = <<>>
    BY <1>0 DEF NoWalk
  <2> QED
    BY <1>0, <1>1, <2>1, <2>2 DEF Keys, Mapped, Walking, KeyOf
<1>11. BudgetHeld
  <2>1. AdmittedNow = {} /\ AdmittedNow \ Exempt = {} /\ inflightRequests = 0
    BY <1>0 DEF AdmittedNow, Init
  <2> QED
    BY <2>1, FS_EmptySet, LoopAssumption DEF BudgetHeld
<1>12. NeverQueued /\ QueueServed
  BY <1>0, <1>1, LoopAssumption DEF NeverQueued, QueueServed, Init
<1> QED
  BY <1>2, <1>3, <1>4, <1>5, <1>6, <1>7, <1>8, <1>9, <1>10, <1>11, <1>12 DEF LoopInv

\* Steps of others do not disturb it.
LEMMA LoopInvStutters ==
  ASSUME LoopInv, UNCHANGED vars
  PROVE  LoopInv'
<1> USE DEF vars, control, fibers, pool, parks, maps, futures, admission, winding, reactor, requests
<1>1. TypeOK' /\ Control'
  BY DEF LoopInv, TypeOK, Control
<1>2. Held' /\ Room' /\ Ids'
  BY DEF LoopInv, Held, HeldOnce, Room, Created, Entered, Ids
<1>3. Order'
  BY DEF LoopInv, Order, InOrder, Requested
<1>4. Handlers' /\ Awaits'
  BY DEF LoopInv, Handlers, HandlerJob, Handling, Awaits, ChildJob
<1>5. Keys'
  BY DEF LoopInv, Keys, Mapped, Walking, KeyOf, Handling
<1>6. BudgetHeld' /\ NeverQueued' /\ QueueServed'
  BY DEF LoopInv, BudgetHeld, AdmittedNow, NeverQueued, QueueServed, Draining
<1> QED
  BY <1>1, <1>2, <1>3, <1>4, <1>5, <1>6 DEF LoopInv

\* No step of the loop does.
LEMMA LoopInvKept ==
  ASSUME LoopInv, [Next]_vars
  PROVE  LoopInv'
<1>1. CASE Next
  BY <1>1, TypesKept, ControlKept, HeldKept, RoomKept, IdsKept, OrderKept, HandlersKept,
     AwaitsKept, KeysKept, BudgetKept, QueueKept DEF LoopInv
<1>2. CASE UNCHANGED vars
  BY <1>2, LoopInvStutters
<1> QED
  BY <1>1, <1>2

\* The inductive invariant holds in every state the loop reaches.
THEOREM LoopInvariance == Spec => []LoopInv
BY InitLoopInv, LoopInvKept, PTL DEF Spec

\* However fibers end or are cancelled, $inflightRequests counts the requests
\* that are admitted and not released, and those that count against the
\* budget are never more than it allows.
THEOREM BudgetAlwaysHeld == Spec => []BudgetHeld
<1>1. LoopInv => BudgetHeld
  BY DEF LoopInv
<1> QED
  BY <1>1, LoopInvariance, PTL

\* A request waits in the queue only while the budget is used up or a fiber
\* drains it; the queue, its index and the remembered cancels agree, and the
\* queue stays within its depth.
THEOREM QueueAlwaysServed == Spec => []QueueServed
<1>1. LoopInv => QueueServed
  BY DEF LoopInv
<1> QED
  BY <1>1, LoopInvariance, PTL

-----------------------------------------------------------------------------
(* One place holds each fiber.                                             *)

\* The places that hold a fiber, counted.
LEMMA WakersOf ==
  ASSUME LoopInv, NEW f \in Fibers
  PROVE  Wakers(f) = IF at[f] = "absent" THEN 0 ELSE 1
<1> DEFINE ops == {o \in Ops : waiting[o] = f}
<1> DEFINE futs == {j \in Futures : f \in Elements(waiters[j])}
<1>0. /\ Held /\ HeldOnce(f) /\ at[f] \in Places /\ parkedOn[f] \in Ops \cup {0} /\ 0 \notin Ops
      /\ f # 0 /\ pending \in Seq(Fibers) /\ ready \in Seq(Fibers) /\ idle \in Seq(Fibers)
      /\ Distinct(pending) /\ Distinct(ready) /\ Distinct(idle)
  <2>1. /\ at \in [Fibers -> Places] /\ parkedOn \in [Fibers -> Ops \cup {0}]
        /\ pending \in Seq(Fibers) /\ ready \in Seq(Fibers) /\ idle \in Seq(Fibers)
    BY DEF LoopInv, TypeOK
  <2>2. Held /\ HeldOnce(f) /\ Distinct(pending) /\ Distinct(ready) /\ Distinct(idle)
    BY DEF LoopInv, Held
  <2>3. 0 \notin Ops /\ f # 0
    BY DEF Ops, Fibers
  <2> QED
    BY <2>1, <2>2, <2>3
<1>1. /\ Times(f, pending) = IF f \in Elements(pending) THEN 1 ELSE 0
      /\ Times(f, ready) = IF f \in Elements(ready) THEN 1 ELSE 0
      /\ Times(f, idle) = IF f \in Elements(idle) THEN 1 ELSE 0
  BY <1>0, TimesOf
<1>2. Cardinality(ops) = IF at[f] = "op" THEN 1 ELSE 0
  <2>1. \A o \in ops : parkedOn[f] = o
    BY <1>0 DEF Held
  <2>2. CASE at[f] = "op"
    <3>1. parkedOn[f] \in ops
      BY <1>0, <2>2 DEF HeldOnce
    <3>2. ops = {parkedOn[f]}
      BY <2>1, <3>1
    <3> QED
      BY <2>2, <3>2, FS_Singleton
  <2>3. CASE at[f] # "op"
    <3>1. parkedOn[f] = 0
      BY <1>0, <2>3 DEF HeldOnce
    <3>2. ops = {}
      BY <1>0, <2>1, <3>1
    <3> QED
      BY <2>3, <3>2, FS_EmptySet
  <2> QED
    BY <2>2, <2>3
<1>3. Cardinality(futs) = IF at[f] = "future" /\ f \notin Elements(ready) THEN 1 ELSE 0
  <2>1. CASE at[f] = "future" /\ f \notin Elements(ready)
    <3>1. PICK j \in Futures : f \in Elements(waiters[j])
      BY <1>0, <2>1 DEF HeldOnce
    <3>2. \A i \in futs : i = j
      BY <1>0, <3>1 DEF Held
    <3>3. futs = {j}
      BY <3>1, <3>2
    <3> QED
      BY <2>1, <3>3, FS_Singleton
  <2>2. CASE ~(at[f] = "future" /\ f \notin Elements(ready))
    <3>1. futs = {}
      BY <1>0, <2>2 DEF Held
    <3> QED
      BY <2>2, <3>1, FS_EmptySet
  <2> QED
    BY <2>1, <2>2
<1> HIDE DEF ops, futs
<1>4. Wakers(f) = (IF running = f THEN 1 ELSE 0) + Times(f, pending) + Times(f, ready)
                    + Times(f, idle) + Cardinality(ops) + Cardinality(futs)
  BY DEF Wakers, ops, futs
<1>5. CASE at[f] \in {"absent", "created", "run", "op"}
  <2>1. f \notin Elements(ready) /\ f \notin Elements(idle)
    BY <1>0, <1>5 DEF HeldOnce
  <2> QED
    BY <1>0, <1>1, <1>2, <1>3, <1>4, <1>5, <2>1 DEF HeldOnce
<1>6. CASE at[f] = "idle"
  <2>1. /\ running # f /\ f \notin Elements(pending)
        /\ \/ f \in Elements(idle) /\ f \notin Elements(ready)
           \/ f \notin Elements(idle) /\ f \in Elements(ready)
    BY <1>0, <1>6 DEF HeldOnce
  <2> QED
    BY <1>1, <1>2, <1>3, <1>4, <1>6, <2>1
<1>7. CASE at[f] = "future"
  <2>1. running # f /\ f \notin Elements(pending) /\ f \notin Elements(idle)
    BY <1>0, <1>7 DEF HeldOnce
  <2> QED
    BY <1>1, <1>2, <1>3, <1>4, <1>7, <2>1
<1> QED
  BY <1>0, <1>5, <1>6, <1>7 DEF Places

\* However ops complete, clients leave and fibers end, every fiber that
\* exists is held by exactly one of the places that resume fibers.
THEOREM FiberHeldOnce == Spec => []OneWakeSource
<1>1. LoopInv => OneWakeSource
  BY WakersOf DEF LoopInv, OneWakeSource
<1> QED
  BY <1>1, LoopInvariance, PTL

-----------------------------------------------------------------------------
(* Whom a cancellation reaches.                                            *)

\* The one step that gives a fiber the thread during a cancellation throws into it.
LEMMA CancelReaches ==
  ASSUME LoopInv, Next, walk # NoWalk, running = 0, running' # 0
  PROVE  LET j == job[running']
         IN  /\ walk.requestId \in {j.handles, j.requestId}
             /\ j.keyless \/ j.owner = walk.requestId
<1> USE DEF control, fibers, pool, parks, maps, futures, admission, winding, reactor, requests
<1>0. 0 \notin Fibers
  BY DEF Fibers
<1>1. throwInto
  <2>1. \A f \in Fibers : ~FiberStep(f)
    BY <1>0, StepIsOnStack
  <2>2. ~Environment
    BY EnvironmentIsOutside
  <2>3. ~(startPending \/ resumeReady \/ WindDown \/ ignis_poll \/ dispatchRequest \/ DispatchCancel
          \/ DispatchDeadline \/ DispatchCompletion \/ EndOfBatch)
    BY DEF startPending, resumeReady, WindDown, ignis_poll, dispatchRequest, DispatchCancel,
           DispatchDeadline, DispatchCompletion, EndOfBatch, Dispatching, OnMain
  <2>4. ~EndOfWalk
    BY DEF EndOfWalk
  <2> QED
    BY <2>1, <2>2, <2>3, <2>4 DEF Next, Turn
<1> DEFINE f == Head(walk.left)
<1>2. walk.left \in Seq(Fibers) /\ walk.left # <<>>
  BY <1>1 DEF throwInto, LoopInv, TypeOK, Walks
<1>3. f \in Fibers /\ f \in Elements(walk.left) /\ running' = f /\ parkedOn[f] # 0
  BY <1>1, <1>2, TailOf DEF throwInto
<1> HIDE DEF f
<1>4. /\ HandlerJob(f) /\ KeyOf(f) /\ HeldOnce(f) /\ job[f] \in Jobs /\ walk.requestId # 0
      /\ at[f] = "idle" \/ walk.requestId \in {job[f].handles, job[f].requestId}
  BY <1>3 DEF LoopInv, TypeOK, Handlers, Keys, Walking, Held, Control
<1>5. at[f] = "op" /\ f \notin Elements(idle)
  BY <1>3, <1>4 DEF HeldOnce
<1>6. job[f].stage \in {"handler", "stream", "child"}
  <2>1. job[f].stage \in Stages /\ job[f].stage # "none"
    BY <1>4, <1>5 DEF HandlerJob, Jobs
  <2>2. job[f].stage # "drain"
    BY <1>0, <1>3, <1>4 DEF HandlerJob
  <2> QED
    BY <2>1, <2>2 DEF Stages
<1>7. CASE Handling(f)
  BY <1>3, <1>4, <1>5, <1>7 DEF HandlerJob
<1>8. CASE job[f].stage = "child"
  BY <1>3, <1>4, <1>5, <1>8 DEF KeyOf
<1> QED
  BY <1>6, <1>7, <1>8 DEF Handling

\* A disconnect or a deadline is thrown only into a fiber that does the work
\* of that request, however the pool has reused its fibers since.
THEOREM CancelFindsItsRequest == Spec => CancelStaysInRequest
<1>1. ASSUME LoopInv, [Next]_vars
      PROVE  [walk # NoWalk /\ running = 0 /\ running' # 0 =>
                LET j == job[running']
                IN  /\ walk.requestId \in {j.handles, j.requestId}
                    /\ j.keyless \/ j.owner = walk.requestId]_vars
  BY <1>1, CancelReaches
<1> QED
  BY <1>1, LoopInvariance, PTL DEF Spec, CancelStaysInRequest

-----------------------------------------------------------------------------
(* First come, first served.                                               *)

\* Admission from the channel finds the queue empty or the budget used up;
\* admission from the queue takes the earliest.
LEMMA OvertakingKept ==
  ASSUME LoopInv, NoOvertaking, Next
  PROVE  NoOvertaking'
<1> USE DEF control, fibers, pool, parks, maps, futures, admission, winding, reactor, requests
<1>0. /\ TypeOK /\ Ids /\ Order /\ fate \in [Requests -> Fates]
      /\ \A r \in Requests : r \in Nat
  BY DEF LoopInv, TypeOK, Requests
<1>1. ASSUME queueCancelled \subseteq queueCancelled',
             \A r \in Requests :
               /\ fate'[r] = "queued" => fate[r] = "queued"
               /\ fate'[r] \in {"admitted", "released"} => fate[r] \in {"admitted", "released"}
      PROVE  NoOvertaking'
  BY <1>1 DEF NoOvertaking
<1>2. CASE startPending \/ resumeReady \/ WindDown \/ DispatchCompletion \/ EndOfBatch
           \/ throwInto \/ EndOfWalk
  BY <1>1, <1>2 DEF startPending, resumeReady, WindDown, DispatchCompletion, EndOfBatch,
                    throwInto, EndOfWalk
<1>3. CASE DispatchCancel \/ DispatchDeadline
  <2>1. fate' = fate /\ \E r : cancelRequest(r)
    BY <1>3 DEF DispatchCancel, DispatchDeadline
  <2>2. queueCancelled \subseteq queueCancelled'
    BY <2>1 DEF cancelRequest
  <2> QED
    BY <1>1, <2>1, <2>2
<1>4. CASE ignis_poll
  BY <1>0, <1>1, <1>4 DEF ignis_poll
<1>5. CASE dispatchRequest
  <2> DEFINE r == Head(events).id
  <2>1. r \in Requests /\ fate[r] = "sent" /\ running = 0 /\ queueCancelled' = queueCancelled
    BY <1>5, HeadRequest DEF dispatchRequest, Dispatching, OnMain
  <2>2. CASE ~OverBudget(r)
    <3>1. fate' = [fate EXCEPT ![r] = "admitted"]
      BY <1>5, <2>2 DEF dispatchRequest, admitRequest
    <3>2. ASSUME NEW q \in Requests, fate[q] = "queued" PROVE r \in Exempt
      <4>1. q \in Elements(requestQueue)
        BY <1>0, <3>2 DEF Order
      <4>2. requestQueue # <<>>
        BY <4>1, ElementsEmpty
      <4>3. inflightRequests >= FiberBudget /\ FiberBudget # 0 /\ FiberBudget \in Nat
        BY <2>1, <4>2, QueueWaits, LoopAssumption DEF LoopInv, NeverQueued
      <4> QED
        BY <2>2, <4>3 DEF OverBudget
    <3> HIDE DEF r
    <3>3. fate'[r] = "admitted" /\ \A q \in Requests \ {r} : fate'[q] = fate[q]
      BY <1>0, <2>1, <3>1
    <3> QED
      BY <2>1, <3>2, <3>3 DEF NoOvertaking
  <2>3. CASE OverBudget(r) /\ fate' = [fate EXCEPT ![r] = "rejected"]
    BY <1>0, <1>1, <2>1, <2>3
  <2>4. CASE OverBudget(r) /\ fate' = [fate EXCEPT ![r] = "queued"]
    <3> HIDE DEF r
    <3>1. fate'[r] = "queued" /\ \A q \in Requests \ {r} : fate'[q] = fate[q]
      BY <1>0, <2>1, <2>4
    <3>2. \A q \in Requests : fate[q] \in {"admitted", "released"} => q < r
      BY <1>0, <2>1 DEF Order, Dispatched
    <3>3. \A q \in Requests : fate[q] \in {"admitted", "released"} => ~(r < q)
      BY <1>0, <2>1, <3>2
    <3> QED
      BY <2>1, <3>1, <3>3 DEF NoOvertaking
  <2> QED
    BY <1>5, <2>2, <2>3, <2>4 DEF dispatchRequest
<1>6. ASSUME NEW f \in Fibers, FiberStep(f) PROVE NoOvertaking'
  <2>1. CASE awaitOp(f) \/ spawn(f) \/ await(f) \/ deadline(f) \/ stop(f) \/ produce(f) \/ poolBody(f)
    BY <1>1, <2>1 DEF awaitOp, spawn, await, deadline, stop, produce, poolBody
  <2>2. CASE releaseRequest(f)
    <3> DEFINE r == job[f].handles
    <3>1. r \in Requests /\ fate[r] = "admitted"
      BY <2>2, ReleasedWasAdmitted DEF releaseRequest, Handling
    <3>2. fate' = [fate EXCEPT ![r] = "released"] /\ queueCancelled' = queueCancelled
      BY <2>2 DEF releaseRequest
    <3> HIDE DEF r
    <3> QED
      BY <1>0, <1>1, <3>1, <3>2
  <2>3. CASE drainQueue(f)
    <3> DEFINE r == Head(requestQueue)
    <3>1. r \in Requests /\ fate[r] = "queued" /\ requestQueue # <<>>
      BY <2>3, HeadQueued DEF drainQueue, RoomForQueued
    <3>2. /\ queueCancelled' = queueCancelled \ {r}
          /\ fate' = [fate EXCEPT ![r] = "dropped"] \/ fate' = [fate EXCEPT ![r] = "admitted"]
      BY <2>3 DEF drainQueue, admitRequest
    <3>3. \A q \in Requests : fate[q] = "queued" /\ q # r => ~(q < r)
      <4>1. /\ Elements(Tail(requestQueue)) = Elements(requestQueue) \ {r}
            /\ \A q \in Elements(Tail(requestQueue)) : r < q
        BY <3>1, QueueTail
      <4>2. \A q \in Requests : fate[q] = "queued" /\ q # r => r < q
        BY <1>0, <4>1 DEF Order
      <4> QED
        BY <1>0, <3>1, <4>2
    <3> HIDE DEF r
    <3>4. fate'[r] \in {"dropped", "admitted"} /\ \A q \in Requests \ {r} : fate'[q] = fate[q]
      BY <1>0, <3>1, <3>2
    <3>5. \A q \in Requests \ {r} : q \in queueCancelled' <=> q \in queueCancelled
      BY <3>2
    <3> QED
      BY <3>1, <3>3, <3>4, <3>5 DEF NoOvertaking
  <2> QED
    BY <1>6, <2>1, <2>2, <2>3 DEF FiberStep
<1>7. CASE Environment
  <2>1. queueCancelled' = queueCancelled
    BY <1>7, EnvironmentIsOutside
  <2>2. ASSUME NEW r \in Requests, RequestArrives(r)
        PROVE  \A q \in Requests : fate'[q] = fate[q] \/ fate'[q] = "sent"
    BY <1>0, <2>2 DEF RequestArrives
  <2>3. ASSUME ~\E r \in Requests : RequestArrives(r) PROVE fate' = fate
    BY <1>7, <2>3 DEF Environment, BeginReload, OpCompletes, OpCalledOff, ClientLeaves
  <2>4. \A q \in Requests : fate'[q] = fate[q] \/ fate'[q] = "sent"
    BY <2>2, <2>3
  <2> QED
    BY <1>1, <2>1, <2>4
<1> QED
  BY <1>2, <1>3, <1>4, <1>5, <1>6, <1>7 DEF Next, Turn

\* A request that counts against the budget never gets a fiber before an
\* earlier one whose client still waits in the queue.
THEOREM NoOneOvertakes == Spec => []NoOvertaking
<1>1. Init => NoOvertaking
  BY DEF Init, NoOvertaking
<1>2. ASSUME LoopInv, NoOvertaking, UNCHANGED vars PROVE NoOvertaking'
  BY <1>2 DEF NoOvertaking, vars, admission, requests
<1>3. LoopInv /\ NoOvertaking /\ [Next]_vars => NoOvertaking'
  BY <1>2, OvertakingKept
<1> QED
  BY <1>1, <1>3, LoopInvariance, PTL DEF Spec

-----------------------------------------------------------------------------
(* The end of the loop.                                                    *)

\* The largest of some numbers.
LEMMA Largest ==
  ASSUME NEW n \in Nat, NEW K \in SUBSET (1..n), K # {}
  PROVE  \E m \in K : \A k \in K : ~(m < k)
<1> DEFINE c == Cardinality(K)
<1>1. IsFiniteSet(K) /\ c \in Nat /\ c # 0
  BY RankBijective, FS_EmptySet
<1>2. /\ \A i \in 1..c : Kept(K, i) \in K
      /\ \A k \in K : \E i \in 1..c : Kept(K, i) = k
      /\ \A i, j \in 1..c : i < j => Kept(K, i) < Kept(K, j)
  BY KeptInOrder
<1> HIDE DEF c
<1>3. c \in 1..c /\ \A i \in 1..c : i < c \/ i = c
  BY <1>1
<1>4. \A k \in K : k \in Nat
  OBVIOUS
<1>5. ASSUME NEW k \in K PROVE ~(Kept(K, c) < k)
  <2>1. PICK i \in 1..c : Kept(K, i) = k
    BY <1>2
  <2>2. i = c \/ k < Kept(K, c)
    BY <1>2, <1>3, <2>1
  <2>3. PICK m \in Nat : m = Kept(K, c)
    BY <1>2, <1>3, <1>4
  <2>4. k = m \/ k < m
    BY <2>1, <2>2, <2>3
  <2>5. ~(m < k)
    BY <1>4, <2>4
  <2> QED
    BY <2>3, <2>5
<1> QED
  BY <1>2, <1>3, <1>5

\* A loop that finds nothing in flight, no list filled and no op awaited has
\* no fiber in the middle of a job: were one waiting for a future, the last
\* future anyone waits for would have a child in its turn waiting for a later
\* one.
LEMMA NobodyInTheMiddle ==
  ASSUME LoopInv, running = 0, pending = <<>>, ready = <<>>, \A o \in Ops : waiting[o] = 0,
         NEW f \in Fibers
  PROVE  at[f] \in {"absent", "idle"}
<1>0. /\ Held /\ Handlers /\ Awaits /\ 0 \notin Fibers /\ 0 \notin Ops /\ MaxFuture \in Nat
      /\ Elements(<<>>) = {}
  BY LoopAssumption, ElementsEmpty DEF LoopInv, Fibers, Ops
<1>1. at \in [Fibers -> Places] /\ parkedOn \in [Fibers -> Ops \cup {0}] /\ job \in [Fibers -> Jobs]
      /\ waiters \in [Futures -> Seq(Fibers)]
  BY DEF LoopInv, TypeOK
<1>2. ASSUME NEW g \in Fibers PROVE at[g] \in {"absent", "idle", "future"}
  <2>1. HeldOnce(g) /\ at[g] \in Places /\ parkedOn[g] \in Ops \cup {0}
    BY <1>0, <1>1 DEF Held
  <2>2. at[g] # "run" /\ at[g] # "created"
    BY <1>0, <2>1 DEF HeldOnce
  <2>3. at[g] # "op"
    BY <1>0, <2>1 DEF HeldOnce
  <2> QED
    BY <2>1, <2>2, <2>3 DEF Places
<1> DEFINE K == {j \in Futures : Elements(waiters[j]) # {}}
<1>3. \A g \in Fibers : at[g] = "future" => \E j \in K : g \in Elements(waiters[j])
  BY <1>0 DEF Held, HeldOnce
<1>4. ASSUME NEW j \in K PROVE \E i \in K : j < i
  <2>1. PICK h \in Elements(waiters[j]) : TRUE
    OBVIOUS
  <2>2. h \in Fibers
    <3>1. waiters[j] \in Seq(Fibers)
      BY <1>1
    <3> QED
      BY <3>1 DEF Elements
  <2>3. j \in job[h].mine \ settled /\ ChildJob(h)
    BY <1>0, <2>2 DEF Awaits
  <2>4. j < nextFuture
    BY <2>3 DEF ChildJob
  <2>5. PICK g \in Fibers : job[g].future = j
    BY <1>0, <2>3, <2>4 DEF Awaits
  <2>6. ChildJob(g) /\ HandlerJob(g) /\ HeldOnce(g)
    BY <1>0 DEF Awaits, Handlers, Held
  <2>7. job[g].stage = "child"
    BY <2>5, <2>6 DEF ChildJob, Futures
  <2>8. at[g] # "absent" /\ g \notin Elements(idle)
    BY <2>6, <2>7 DEF HandlerJob
  <2>9. at[g] = "future"
    BY <1>0, <1>2, <2>6, <2>8 DEF HeldOnce
  <2>10. PICK i \in K : g \in Elements(waiters[i])
    BY <1>3, <2>9
  <2>11. i \in job[g].mine
    BY <1>0, <2>10 DEF Awaits
  <2> QED
    BY <2>5, <2>6, <2>10, <2>11 DEF ChildJob
<1>5. K = {}
  <2>1. K \in SUBSET (1..MaxFuture)
    BY DEF Futures
  <2> HIDE DEF K
  <2> QED
    BY <1>0, <1>4, <2>1, Largest
<1> HIDE DEF K
<1> QED
  BY <1>2, <1>3, <1>5

\* Nothing in flight means nothing lost, and the end is final.
LEMMA StopKept ==
  ASSUME LoopInv, StopLosesNothing, Next
  PROVE  StopLosesNothing'
<1> USE DEF control, fibers, pool, parks, maps, futures, admission, winding, reactor, requests
<1>0. 0 \notin Fibers /\ Control
  BY DEF LoopInv, Fibers
<1>1. CASE WindDown /\ turn' = "stopped"
  <2>1. /\ running = 0 /\ events = <<>> /\ channel = <<>> /\ inflightRequests = 0
        /\ \A o \in Ops : waiting[o] = 0
        /\ ready = <<>> /\ pending = <<>> /\ UNCHANGED <<at, fate>>
    BY <1>0, <1>1 DEF WindDown, OnMain, NothingInFlight, Control
  <2>2. \A f \in Fibers : at[f] \in {"absent", "idle"}
    BY <2>1, NobodyInTheMiddle
  <2>3. \A r \in Requests : fate[r] # "sent"
    <3>1. Requested(channel) = {} /\ Requested(events) = {}
      BY <2>1, ElementsEmpty DEF Requested
    <3> QED
      BY <3>1 DEF LoopInv, Order
  <2>4. \A r \in Requests : fate[r] # "queued"
    <3>1. requestQueue # <<>> => 0 >= FiberBudget /\ FiberBudget # 0
      BY <2>1, QueueWaits DEF LoopInv, NeverQueued
    <3>2. requestQueue = <<>>
      BY <3>1, LoopAssumption
    <3> QED
      BY <3>2, ElementsEmpty DEF LoopInv, Order
  <2>5. \A r \in Requests : fate[r] # "admitted"
    <3>1. Cardinality(AdmittedNow) = 0
      BY <2>1 DEF LoopInv, BudgetHeld
    <3>2. IsFiniteSet(AdmittedNow)
      BY CreatedIsFinite, FS_Subset DEF AdmittedNow
    <3>3. AdmittedNow = {}
      BY <3>1, <3>2, FS_EmptySet
    <3> QED
      BY <3>3 DEF AdmittedNow
  <2> QED
    BY <2>1, <2>2, <2>3, <2>4, <2>5 DEF StopLosesNothing
\* After the end nothing moves but what the reactor still has to deliver.
<1>2. CASE turn = "stopped"
  <2>1. running = 0 /\ walk = NoWalk
    BY <1>0, <1>2 DEF Control
  <2>2. \A f \in Fibers : ~FiberStep(f)
    BY <1>0, <2>1, StepIsOnStack
  <2>3. ~Turn
    BY <1>2, <2>1
       DEF Turn, startPending, resumeReady, WindDown, ignis_poll, dispatchRequest, DispatchCancel,
           DispatchDeadline, DispatchCompletion, EndOfBatch, throwInto, EndOfWalk, Dispatching
  <2>4. Environment
    BY <2>2, <2>3 DEF Next
  <2>5. UNCHANGED <<turn, at>>
    BY <2>4, EnvironmentIsOutside
  <2>6. fate' = fate
    BY <1>2, <2>4
       DEF Environment, BeginReload, OpCompletes, OpCalledOff, RequestArrives, ClientLeaves
  <2> QED
    BY <1>2, <2>5, <2>6 DEF StopLosesNothing
<1>3. CASE turn # "stopped" /\ ~(WindDown /\ turn' = "stopped")
  <2>1. ASSUME Turn PROVE turn' # "stopped"
    BY <1>3, <2>1
       DEF Turn, startPending, resumeReady, WindDown, ignis_poll, dispatchRequest, DispatchCancel,
           DispatchDeadline, DispatchCompletion, EndOfBatch, throwInto, EndOfWalk
  <2>2. ASSUME NEW f \in Fibers, FiberStep(f) PROVE turn' = turn
    BY <2>2 DEF FiberStep, awaitOp, spawn, await, deadline, stop, produce, releaseRequest,
                drainQueue, poolBody
  <2>3. ASSUME Environment PROVE turn' = turn
    BY <2>3, EnvironmentIsOutside
  <2> QED
    BY <1>3, <2>1, <2>2, <2>3 DEF Next, StopLosesNothing
<1> QED
  BY <1>1, <1>2, <1>3

\* A loop that winds down ends only when no request it was given is on its
\* way, queued or running and no fiber is in the middle of a job, and stays
\* so.
THEOREM StopKeepsAll == Spec => []StopLosesNothing
<1>1. Init => StopLosesNothing
  BY DEF Init, StopLosesNothing
<1>2. ASSUME LoopInv, StopLosesNothing, UNCHANGED vars PROVE StopLosesNothing'
  BY <1>2 DEF StopLosesNothing, vars, control, fibers, requests
<1>3. LoopInv /\ StopLosesNothing /\ [Next]_vars => StopLosesNothing'
  BY <1>2, StopKept
<1> QED
  BY <1>1, <1>3, LoopInvariance, PTL DEF Spec
=============================================================================
