---------------------------- MODULE MasterProofs ----------------------------
(***************************************************************************)
(* Proofs about Master for any number of workers, any restart budget, with *)
(* or without respawning, with or without failing forks, and any number of *)
(* deaths and signals.                                                     *)
(***************************************************************************)
EXTENDS Master, FiniteSetTheorems, TLAPS

ChildSet == [slot: Slots, pid: Pids, paused: BOOLEAN]

-----------------------------------------------------------------------------
(* The inductive invariant.                                                *)

\* Where the for loops stand.
CursorInv ==
  /\ pc = "fork" => /\ cursor \in 1..(Count + 1) /\ Len(children) = cursor - 1
                    /\ \A k \in DOMAIN children : children[k].slot = k
  /\ pc \in {"retry", "reload", "wait"} => cursor >= 1
  /\ pc = "wait" => cursor \in DOMAIN children

\* No two of the children share a slot or a pid.
Distinct(kids) ==
  \A j, k \in DOMAIN kids :
    kids[j].slot = kids[k].slot \/ kids[j].pid = kids[k].pid => j = k

Older == \A c \in Elements(children) : c.pid < nextPid

\* Every process not reaped has its child, and, as long as fork never
\* failed, every child that is not paused its process.
Owned ==
  \A p \in Pids : proc[p] \in Alive \cup {"dead"} => \E c \in Elements(children) : c.pid = p

Backed == \A c \in Elements(children) : ~c.paused /\ ~forkFailed => proc[c.pid] # "reaped"

\* Before a shutdown only the worker the reload waits for drains.
OnlyWaitedDrains ==
  ~shutdown =>
    \A p \in Pids : proc[p] = "draining" => pc = "wait" /\ p = children[cursor].pid

\* A paused child has no process any more.
Resting == \A c \in Elements(children) : c.paused => proc[c.pid] = "reaped"

KidsOK == Distinct(children) /\ Older /\ Owned /\ Backed /\ Resting

KidsInv == CursorInv /\ KidsOK /\ OnlyWaitedDrains /\ SlotsKept

-----------------------------------------------------------------------------
(* The vector of children.                                                 *)

LEMMA ElementsEmpty == Elements(<<>>) = {}
BY DEF Elements

LEMMA ElementsAppend ==
  ASSUME NEW S, NEW s \in Seq(S), NEW x \in S
  PROVE  Elements(Append(s, x)) = Elements(s) \cup {x}
<1>1. DOMAIN Append(s, x) = DOMAIN s \cup {Len(s) + 1}
  OBVIOUS
<1>2. \A k \in DOMAIN s : Append(s, x)[k] = s[k]
  OBVIOUS
<1>3. Append(s, x)[Len(s) + 1] = x
  OBVIOUS
<1> QED
  BY <1>1, <1>2, <1>3 DEF Elements

LEMMA RemovedIs ==
  ASSUME NEW S, NEW s \in Seq(S), NEW k \in DOMAIN s
  PROVE  /\ Removed(s, k) \in Seq(S)
         /\ Len(Removed(s, k)) = Len(s) - 1
         /\ \A i \in 1..(Len(s) - 1) : Removed(s, k)[i] = s[IF i < k THEN i ELSE i + 1]
<1> DEFINE front == SubSeq(s, 1, k - 1)
<1> DEFINE back == SubSeq(s, k + 1, Len(s))
<1>1. k \in 1..Len(s) /\ Len(s) \in Nat
  OBVIOUS
<1>2. /\ front \in Seq(S) /\ Len(front) = k - 1
      /\ \A i \in 1..(k - 1) : front[i] = s[i]
  BY <1>1
<1>3. /\ back \in Seq(S) /\ Len(back) = Len(s) - k
      /\ \A i \in 1..(Len(s) - k) : back[i] = s[i + k]
  BY <1>1
<1> HIDE DEF front, back
<1>4. /\ front \o back \in Seq(S) /\ Len(front \o back) = Len(s) - 1
  BY <1>1, <1>2, <1>3
<1>5. ASSUME NEW i \in 1..(Len(s) - 1)
      PROVE  (front \o back)[i] = s[IF i < k THEN i ELSE i + 1]
  BY <1>1, <1>2, <1>3
<1> QED
  BY <1>4, <1>5 DEF Removed, front, back

\* The children but one, those with one replaced in place, and those with
\* one moved to the end stay distinct.
LEMMA DistinctRemoved ==
  ASSUME NEW kids \in Seq(ChildSet), Distinct(kids), NEW k \in DOMAIN kids
  PROVE  /\ Distinct(Removed(kids, k))
         /\ Elements(Removed(kids, k)) = Elements(kids) \ {kids[k]}
<1> DEFINE n == Len(kids)
<1> DEFINE new == Removed(kids, k)
<1> DEFINE from(i) == IF i < k THEN i ELSE i + 1
<1>1. n \in Nat /\ k \in 1..n /\ DOMAIN kids = 1..n
  OBVIOUS
<1>2. DOMAIN new = 1..(n - 1) /\ \A i \in 1..(n - 1) : new[i] = kids[from(i)]
  BY RemovedIs
<1>3. \A i \in 1..(n - 1) : from(i) \in 1..n /\ from(i) # k
  BY <1>1
<1>4. \A i, j \in 1..(n - 1) : from(i) = from(j) => i = j
  BY <1>1
<1>5. \A j \in 1..n : j # k => \E i \in 1..(n - 1) : from(i) = j
  <2> TAKE j \in 1..n
  <2> HAVE j # k
  <2>1. CASE j < k
    <3>1. j \in 1..(n - 1) /\ from(j) = j
      BY <1>1, <2>1
    <3> QED
      BY <3>1
  <2>2. CASE j > k
    <3>1. j - 1 \in 1..(n - 1) /\ from(j - 1) = j
      BY <1>1, <2>2
    <3> QED
      BY <3>1
  <2> QED
    BY <1>1, <2>1, <2>2
<1> HIDE DEF new, n, from
<1>6. Distinct(new)
  BY <1>1, <1>2, <1>3, <1>4 DEF Distinct
<1>7. ASSUME NEW i \in 1..(n - 1) PROVE new[i] # kids[k]
  BY <1>1, <1>2, <1>3 DEF Distinct
<1>8. Elements(new) = Elements(kids) \ {kids[k]}
  <2>1. ASSUME NEW i \in 1..(n - 1) PROVE new[i] \in Elements(kids) \ {kids[k]}
    BY <1>1, <1>2, <1>3, <1>7 DEF Elements
  <2>2. ASSUME NEW j \in 1..n, kids[j] # kids[k] PROVE kids[j] \in Elements(new)
    <3>1. PICK i \in 1..(n - 1) : from(i) = j
      BY <1>5, <2>2
    <3> QED
      BY <1>2, <3>1 DEF Elements
  <2> QED
    BY <1>1, <1>2, <2>1, <2>2 DEF Elements
<1> QED
  BY <1>6, <1>8 DEF new

LEMMA DistinctAppend ==
  ASSUME NEW kids \in Seq(ChildSet), Distinct(kids), NEW c \in ChildSet,
         \A d \in Elements(kids) : d.slot # c.slot /\ d.pid # c.pid
  PROVE  Distinct(Append(kids, c))
<1>1. /\ Len(kids) \in Nat /\ DOMAIN kids = 1..Len(kids)
      /\ DOMAIN Append(kids, c) = 1..(Len(kids) + 1)
      /\ \A i \in 1..Len(kids) : Append(kids, c)[i] = kids[i]
      /\ Append(kids, c)[Len(kids) + 1] = c
  OBVIOUS
<1>2. \A i \in 1..Len(kids) : kids[i] \in Elements(kids)
  BY <1>1 DEF Elements
<1> QED
  BY <1>1, <1>2 DEF Distinct

LEMMA DistinctReplaced ==
  ASSUME NEW kids \in Seq(ChildSet), Distinct(kids), NEW k \in DOMAIN kids,
         NEW c \in ChildSet, c.slot = kids[k].slot,
         \A d \in Elements(kids) : d.pid # c.pid
  PROVE  /\ [kids EXCEPT ![k] = c] \in Seq(ChildSet)
         /\ Len([kids EXCEPT ![k] = c]) = Len(kids)
         /\ Distinct([kids EXCEPT ![k] = c])
         /\ Elements([kids EXCEPT ![k] = c]) = (Elements(kids) \ {kids[k]}) \cup {c}
<1> DEFINE new == [kids EXCEPT ![k] = c]
<1>1. /\ DOMAIN kids = 1..Len(kids) /\ DOMAIN new = 1..Len(kids) /\ Len(kids) \in Nat
      /\ new[k] = c /\ \A i \in DOMAIN kids : i # k => new[i] = kids[i]
  OBVIOUS
<1>2. new \in Seq(ChildSet) /\ Len(new) = Len(kids)
  OBVIOUS
<1>3. \A i \in DOMAIN kids : kids[i] \in Elements(kids)
  BY DEF Elements
<1> HIDE DEF new
<1>4. Distinct(new)
  BY <1>1, <1>3 DEF Distinct
<1>5. \A i \in DOMAIN kids : i # k => kids[i] # kids[k]
  BY DEF Distinct
<1>6. Elements(new) = (Elements(kids) \ {kids[k]}) \cup {c}
  BY <1>1, <1>5 DEF Elements
<1> QED
  BY <1>2, <1>4, <1>6 DEF new

-----------------------------------------------------------------------------
(* Types.                                                                  *)

ProcStates == Alive \cup {"none", "dead", "reaped"}

LEMMA PidsAre ==
  Count + MaxDeaths + Count * MaxHups \in Nat /\ Pids \subseteq Nat
<1>1. Count * MaxHups \in Nat
  BY MasterAssumption
<1> QED
  BY <1>1, MasterAssumption DEF Pids

LEMMA ChildType ==
  ASSUME NEW slot \in Slots, NEW pid \in Pids
  PROVE  /\ Child(slot, pid) \in ChildSet
         /\ Child(slot, pid).slot = slot /\ Child(slot, pid).pid = pid
         /\ ~Child(slot, pid).paused
BY DEF Child, ChildSet

LEMMA ForkedTypes ==
  ASSUME TypeOK, NEW before \in [Pids -> ProcStates], Forked(before)
  PROVE  /\ nextPid \in Pids /\ nextPid \in Nat /\ nextPid' = nextPid + 1
         /\ nextPid' \in 1..(Count + MaxDeaths + Count * MaxHups + 1)
         /\ proc' \in [Pids -> ProcStates]
         /\ proc'[nextPid] = "booting"
         /\ \A p \in Pids : p # nextPid => proc'[p] = before[p]
         /\ forkFailed' = forkFailed
<1>1. nextPid \in Pids /\ nextPid \in Nat /\ nextPid' = nextPid + 1
  BY PidsAre DEF Forked
<1>2. nextPid' \in 1..(Count + MaxDeaths + Count * MaxHups + 1)
  BY <1>1, PidsAre DEF Pids
<1> QED
  BY <1>1, <1>2 DEF Forked, ProcStates, Alive

LEMMA ChildrenElements ==
  ASSUME TypeOK
  PROVE  /\ children \in Seq(ChildSet) /\ Elements(children) \subseteq ChildSet
         /\ \A k \in DOMAIN children : children[k] \in Elements(children)
         /\ {children[k].slot : k \in DOMAIN children} = {c.slot : c \in Elements(children)}
<1>1. children \in Seq(ChildSet)
  BY DEF TypeOK, ChildSet
<1>2. Elements(children) \subseteq ChildSet
  BY <1>1 DEF Elements
<1>3. \A k \in DOMAIN children : children[k] \in Elements(children)
  BY DEF Elements
<1>4. \A c \in Elements(children) : \E k \in DOMAIN children : children[k] = c
  BY DEF Elements
<1> QED
  BY <1>1, <1>2, <1>3, <1>4

\* What is left of the vector when the child of a reaped process, if it has
\* one, stays dead.
LEMMA ReapedTypes ==
  ASSUME TypeOK, Distinct(children), NEW p \in Pids,
         NEW index, index = {k \in DOMAIN children : children[k].pid = p},
         \/ index = {} /\ children' = children
         \/ \E k \in index : children' = Removed(children, k)
  PROVE  /\ children' \in Seq(ChildSet) /\ Distinct(children')
         /\ Elements(children') = {c \in Elements(children) : c.pid # p}
<1>1. children \in Seq(ChildSet)
  BY ChildrenElements
<1>2. CASE index = {} /\ children' = children
  BY <1>1, <1>2 DEF Elements
<1>3. ASSUME NEW k \in index, children' = Removed(children, k)
      PROVE  /\ children' \in Seq(ChildSet) /\ Distinct(children')
             /\ Elements(children') = {c \in Elements(children) : c.pid # p}
  <2>1. k \in DOMAIN children /\ children[k].pid = p
    BY <1>3
  <2>2. /\ children' \in Seq(ChildSet) /\ Distinct(children')
        /\ Elements(children') = Elements(children) \ {children[k]}
    BY <1>1, <1>3, <2>1, RemovedIs, DistinctRemoved
  <2>3. \A c \in Elements(children) : c.pid = p => c = children[k]
    BY <2>1 DEF Elements, Distinct
  <2> QED
    BY <2>1, <2>2, <2>3
<1> QED
  BY <1>2, <1>3

LEMMA AppendRemoved ==
  ASSUME TypeOK, Distinct(children), NEW k \in DOMAIN children, NEW c \in ChildSet,
         c.slot = children[k].slot,
         \A d \in Elements(children) \ {children[k]} : d.pid # c.pid
  PROVE  LET new == Append(Removed(children, k), c)
         IN  /\ new \in Seq(ChildSet) /\ Distinct(new)
             /\ Elements(new) = (Elements(children) \ {children[k]}) \cup {c}
<1> DEFINE rest == Removed(children, k)
<1>1. children \in Seq(ChildSet)
  BY ChildrenElements
<1>2. /\ rest \in Seq(ChildSet) /\ Distinct(rest)
      /\ Elements(rest) = Elements(children) \ {children[k]}
  BY <1>1, RemovedIs, DistinctRemoved
<1>3. \A d \in Elements(children) \ {children[k]} : d.slot # c.slot
  BY DEF Distinct, Elements
<1> HIDE DEF rest
<1>4. Distinct(Append(rest, c)) /\ Append(rest, c) \in Seq(ChildSet)
  BY <1>2, <1>3, DistinctAppend
<1>5. Elements(Append(rest, c)) = Elements(rest) \cup {c}
  BY <1>2, ElementsAppend
<1> QED
  BY <1>2, <1>4, <1>5 DEF rest

LEMMA InitTypeOK == Init => TypeOK
<1> SUFFICES ASSUME Init PROVE TypeOK
  OBVIOUS
<1>1. shutdown \in BOOLEAN /\ late \in BOOLEAN /\ forkFailed \in BOOLEAN
  BY DEF Init
<1>2. nextPid \in 1..(Count + MaxDeaths + Count * MaxHups + 1)
  BY PidsAre DEF Init
<1> QED
  BY <1>1, <1>2, MasterAssumption DEF Init, TypeOK


-----------------------------------------------------------------------------
(* The inductive step.                                                     *)

SlotSet == {c.slot : c \in Elements(children)}

\* A step that reaps nobody and forks nobody.
LEMMA QuietProcs ==
  ASSUME TypeOK, KidsOK, UNCHANGED <<children, nextPid, forkFailed>>,
         \A p \in Pids : /\ proc'[p] \in Alive \cup {"dead"} => proc[p] \in Alive \cup {"dead"}
                         /\ proc'[p] = "reaped" <=> proc[p] = "reaped"
  PROVE  KidsOK'
<1>1. \A c \in Elements(children) : c.pid \in Pids
  BY ChildrenElements DEF ChildSet
<1>2. Elements(children') = Elements(children)
  BY DEF Elements
<1> QED
  BY <1>1, <1>2 DEF KidsOK, Distinct, Older, Owned, Backed, Resting

\* A fresh worker takes over the slot of a child whose process is reaped.
LEMMA FreshWorker ==
  ASSUME TypeOK, KidsOK, NEW before \in [Pids -> ProcStates], Forked(before),
         NEW k \in DOMAIN children,
         before[children[k].pid] = "reaped",
         \A p \in Pids : p # children[k].pid => before[p] = proc[p],
         Distinct(children'),
         Elements(children') = (Elements(children) \ {children[k]})
                                 \cup {Child(children[k].slot, nextPid)}
  PROVE  KidsOK' /\ SlotSet' = SlotSet
<1> DEFINE c == Child(children[k].slot, nextPid)
<1>1. /\ children[k] \in Elements(children) /\ Elements(children) \subseteq ChildSet
      /\ \A d \in Elements(children) : d.pid \in Pids
  BY ChildrenElements DEF ChildSet
<1>2. /\ nextPid \in Nat /\ nextPid' = nextPid + 1
      /\ nextPid \in Pids /\ proc'[nextPid] = "booting"
      /\ \A p \in Pids : p # nextPid => proc'[p] = before[p]
      /\ forkFailed' = forkFailed
  BY ForkedTypes
<1>3. c.slot = children[k].slot /\ c.pid = nextPid /\ ~c.paused
  BY <1>1, <1>2, ChildType DEF ChildSet
<1>4. ASSUME NEW d \in Elements(children), d # children[k]
      PROVE  d.pid \in Pids /\ d.pid < nextPid /\ d.pid # nextPid /\ proc'[d.pid] = proc[d.pid]
  <2>1. d.pid # children[k].pid
    BY <1>4 DEF KidsOK, Distinct, Elements
  <2>2. d.pid \in Nat /\ d.pid < nextPid
    BY <1>1, PidsAre DEF KidsOK, Older
  <2>3. d.pid # nextPid
    BY <1>2, <2>2
  <2> QED
    BY <1>1, <1>2, <2>1, <2>2, <2>3
<1> HIDE DEF c
<1>5. Elements(children') = (Elements(children) \ {children[k]}) \cup {c}
  BY DEF c
<1>6. Older'
  <2>1. ASSUME NEW d \in Elements(children') PROVE d.pid < nextPid'
    <3>1. CASE d = c
      BY <1>2, <1>3, <3>1
    <3>2. CASE d \in Elements(children) /\ d # children[k]
      <4>1. d.pid \in Nat /\ d.pid < nextPid
        BY <1>4, <3>2, PidsAre
      <4> QED
        BY <1>2, <4>1
    <3> QED
      BY <1>5, <2>1, <3>1, <3>2
  <2> QED
    BY <2>1 DEF Older
<1>7. Owned'
  <2>1. ASSUME NEW p \in Pids, proc'[p] \in Alive \cup {"dead"}
        PROVE  \E d \in Elements(children') : d.pid = p
    <3>1. CASE p = nextPid
      BY <1>3, <1>5, <3>1
    <3>2. CASE p # nextPid
      <4>1. before[p] \in Alive \cup {"dead"}
        BY <1>2, <2>1, <3>2
      <4>2. p # children[k].pid
        BY <4>1 DEF Alive
      <4>3. PICK d \in Elements(children) : d.pid = p
        BY <4>1, <4>2 DEF KidsOK, Owned
      <4> QED
        BY <1>5, <4>2, <4>3
    <3> QED
      BY <3>1, <3>2
  <2> QED
    BY <2>1 DEF Owned
<1>8. Backed' /\ Resting'
  BY <1>2, <1>3, <1>4, <1>5 DEF KidsOK, Backed, Resting
<1>9. SlotSet' = SlotSet
  BY <1>1, <1>3, <1>5 DEF SlotSet
<1> QED
  BY <1>6, <1>7, <1>8, <1>9 DEF KidsOK

LEMMA ForkStep == TypeOK /\ KidsInv /\ Fork => TypeOK' /\ KidsInv'
<1> SUFFICES ASSUME TypeOK, KidsInv, Fork PROVE TypeOK' /\ KidsInv'
  OBVIOUS
<1>0. /\ pc = "fork" /\ proc \in [Pids -> ProcStates] /\ Count \in Nat
      /\ UNCHANGED <<restarts, pending, shutdown, late, counts>>
      /\ cursor \in 1..(Count + 1) /\ Len(children) = cursor - 1
      /\ \A k \in DOMAIN children : children[k].slot = k
      /\ children \in Seq(ChildSet) /\ DOMAIN children = 1..(cursor - 1)
  <2>1. pc = "fork" /\ UNCHANGED <<restarts, pending, shutdown, late, counts>>
    BY DEF Fork
  <2>2. proc \in [Pids -> ProcStates] /\ Count \in Nat /\ children \in Seq(ChildSet)
    BY MasterAssumption, ChildrenElements DEF TypeOK, ProcStates
  <2>3. /\ cursor \in 1..(Count + 1) /\ Len(children) = cursor - 1
        /\ \A k \in DOMAIN children : children[k].slot = k
    BY <2>1 DEF KidsInv, CursorInv
  <2>4. DOMAIN children = 1..Len(children)
    BY <2>2
  <2> QED
    BY <2>1, <2>2, <2>3, <2>4
<1>1. CASE cursor > Count
  <2>1. pc' = "reap" /\ UNCHANGED <<cursor, children, proc, nextPid, forkFailed>>
    BY <1>1 DEF Fork
  <2>2. TypeOK'
    BY <1>0, <2>1 DEF TypeOK, counts
  <2>3. KidsOK'
    BY <2>1, QuietProcs DEF KidsInv
  <2>4. cursor - 1 = Count
    BY <1>0, <1>1
  <2>5. {children[k].slot : k \in DOMAIN children} = Slots
    BY <1>0, <2>4 DEF Slots
  <2> QED
    BY <1>0, <2>1, <2>2, <2>3, <2>5
       DEF KidsInv, CursorInv, OnlyWaitedDrains, SlotsKept
<1>2. CASE ~(cursor > Count) /\ Forked(proc) /\ UNCHANGED pc
           /\ children' = Append(children, Child(cursor, nextPid)) /\ cursor' = cursor + 1
  <2> DEFINE c == Child(cursor, nextPid)
  <2>1. cursor \in Slots /\ cursor \in Nat
    BY <1>0, <1>2 DEF Slots
  <2>2. /\ nextPid \in Pids /\ nextPid \in Nat /\ nextPid' = nextPid + 1
        /\ nextPid' \in 1..(Count + MaxDeaths + Count * MaxHups + 1)
        /\ proc' \in [Pids -> ProcStates] /\ proc'[nextPid] = "booting"
        /\ \A p \in Pids : p # nextPid => proc'[p] = proc[p]
        /\ forkFailed' = forkFailed
    BY <1>0, <1>2, ForkedTypes
  <2>3. c \in ChildSet /\ c.slot = cursor /\ c.pid = nextPid /\ ~c.paused
    BY <2>1, <2>2, ChildType
  <2>4. ASSUME NEW d \in Elements(children)
        PROVE  /\ d.slot # cursor /\ d.pid \in Pids /\ d.pid \in Nat
               /\ d.pid < nextPid /\ d.pid # nextPid
    <3>1. d \in ChildSet
      BY ChildrenElements
    <3>2. PICK k \in DOMAIN children : d = children[k]
      BY DEF Elements
    <3>3. d.slot # cursor
      BY <1>0, <3>2
    <3>4. d.pid \in Pids /\ d.pid \in Nat /\ d.pid < nextPid
      BY <3>1, PidsAre DEF ChildSet, KidsInv, KidsOK, Older
    <3> QED
      BY <2>2, <3>3, <3>4
  <2> HIDE DEF c
  <2>5. children' = Append(children, c)
    BY <1>2 DEF c
  <2>6. children' \in Seq(ChildSet) /\ Distinct(children')
    BY <1>0, <2>3, <2>4, <2>5, DistinctAppend DEF KidsInv, KidsOK
  <2>7. Elements(children') = Elements(children) \cup {c}
    BY <1>0, <2>3, <2>5, ElementsAppend
  <2>8. TypeOK'
    BY <1>0, <1>2, <2>2, <2>6 DEF TypeOK, counts, ChildSet, ProcStates
  <2>9. Older'
    BY <2>2, <2>3, <2>4, <2>7 DEF Older
  <2>10. Owned' /\ Backed' /\ Resting'
    BY <2>2, <2>3, <2>4, <2>7 DEF KidsInv, KidsOK, Owned, Backed, Resting
  <2>11. CursorInv'
    <3>1. Len(children') = cursor /\ DOMAIN children' = 1..cursor
      BY <1>0, <2>1, <2>5
    <3>2. ASSUME NEW k \in 1..cursor PROVE children'[k].slot = k
      BY <1>0, <2>1, <2>3, <2>5
    <3> QED
      BY <1>0, <1>2, <2>1, <3>1, <3>2 DEF CursorInv
  <2>12. OnlyWaitedDrains' /\ SlotsKept'
    BY <1>0, <1>2, <2>2 DEF KidsInv, OnlyWaitedDrains, SlotsKept
  <2> QED
    BY <2>6, <2>8, <2>9, <2>10, <2>11, <2>12 DEF KidsInv, KidsOK
<1>3. CASE ~(cursor > Count) /\ ForkFailed(proc) /\ pc' = "done" /\ UNCHANGED <<cursor, children>>
  <2>1. forkFailed' \in BOOLEAN /\ forkFailed' /\ proc' = proc /\ nextPid' = nextPid
    BY <1>3 DEF ForkFailed
  <2>2. TypeOK'
    BY <1>0, <1>3, <2>1 DEF TypeOK, counts
  <2>3. KidsOK'
    BY <1>3, <2>1 DEF KidsInv, KidsOK, Distinct, Older, Owned, Backed, Resting, Elements
  <2> QED
    BY <1>0, <1>3, <2>1, <2>2, <2>3 DEF KidsInv, CursorInv, OnlyWaitedDrains, SlotsKept
<1> QED
  BY <1>1, <1>2, <1>3 DEF Fork

LEMMA ReapStep == TypeOK /\ KidsInv /\ Reap => TypeOK' /\ KidsInv'
<1> SUFFICES ASSUME TypeOK, KidsInv, Reap PROVE TypeOK' /\ KidsInv'
  OBVIOUS
<1>0. /\ pc = "reap" /\ UNCHANGED <<loop, pending, shutdown, late, counts>>
      /\ Budget \in Nat /\ Distinct(children)
      /\ children \in Seq(ChildSet) /\ Elements(children) \subseteq ChildSet
  BY MasterAssumption, ChildrenElements DEF Reap, KidsInv, KidsOK
<1>1. PICK p \in Pids :
        /\ proc[p] = "dead"
        /\ LET after == [proc EXCEPT ![p] = "reaped"]
               index == {k \in DOMAIN children : children[k].pid = p}
           IN  \/ /\ index = {}
                  /\ proc' = after
                  /\ UNCHANGED <<children, restarts, nextPid, forkFailed>>
               \/ /\ StaysDead
                  /\ \E k \in index : children' = Removed(children, k)
                  /\ proc' = after
                  /\ UNCHANGED <<restarts, nextPid, forkFailed>>
               \/ /\ ~StaysDead
                  /\ \E k \in index, spent \in {restarts, 0} :
                       \/ /\ BudgetSpent(spent)
                          /\ children' = Paused(k)
                          /\ restarts' = spent
                          /\ proc' = after
                          /\ UNCHANGED <<nextPid, forkFailed>>
                       \/ /\ ~BudgetSpent(spent)
                          /\ restarts' = spent + 1
                          /\ \/ /\ Forked(after)
                                /\ children' = Append(Removed(children, k),
                                                      Child(children[k].slot, nextPid))
                             \/ /\ ForkFailed(after)
                                /\ children' = Removed(children, k)
  BY DEF Reap
<1> DEFINE after == [proc EXCEPT ![p] = "reaped"]
<1> DEFINE index == {k \in DOMAIN children : children[k].pid = p}
<1>2. /\ after \in [Pids -> ProcStates] /\ after[p] = "reaped"
      /\ \A q \in Pids : q # p => after[q] = proc[q]
  BY DEF TypeOK, ProcStates
<1> HIDE DEF after, index
\* Whatever became of the child, the rest of the state is in order.
<1>3. ASSUME children' \in Seq(ChildSet), restarts' \in 0..Budget,
             proc' \in [Pids -> ProcStates], forkFailed' \in BOOLEAN,
             nextPid' \in 1..(Count + MaxDeaths + Count * MaxHups + 1),
             \A q \in Pids : proc'[q] = "draining" => proc[q] = "draining",
             KidsOK',
             Respawn /\ ~shutdown /\ ~forkFailed' => ~forkFailed /\ SlotSet' = SlotSet
      PROVE  TypeOK' /\ KidsInv'
  <2>1. TypeOK'
    BY <1>0, <1>3 DEF TypeOK, loop, counts, ChildSet, ProcStates
  <2>2. CursorInv' /\ OnlyWaitedDrains'
    BY <1>0, <1>3 DEF loop, CursorInv, OnlyWaitedDrains, KidsInv
  <2>3. /\ {children[k].slot : k \in DOMAIN children} = SlotSet
        /\ {children'[k].slot : k \in DOMAIN children'} = SlotSet'
    BY DEF SlotSet, Elements
  <2>4. SlotsKept'
    BY <1>0, <1>3, <2>3 DEF loop, SlotsKept, KidsInv
  <2> QED
    BY <1>3, <2>1, <2>2, <2>4 DEF KidsInv
<1>4. CASE /\ \/ index = {} /\ children' = children
              \/ StaysDead /\ \E k \in index : children' = Removed(children, k)
           /\ proc' = after
           /\ UNCHANGED <<restarts, nextPid, forkFailed>>
  <2>1. /\ children' \in Seq(ChildSet) /\ Distinct(children')
        /\ Elements(children') = {c \in Elements(children) : c.pid # p}
    BY <1>0, <1>4, ReapedTypes DEF index
  <2>2. \A c \in Elements(children') : c \in Elements(children) /\ c.pid \in Pids /\ c.pid # p
    BY <1>0, <2>1 DEF ChildSet
  <2>3. KidsOK'
    <3>1. Older'
      BY <1>4, <2>2 DEF KidsInv, KidsOK, Older
    <3>2. Owned'
      BY <1>2, <1>4, <2>1 DEF KidsInv, KidsOK, Owned, Alive
    <3>3. Backed' /\ Resting'
      BY <1>2, <1>4, <2>2 DEF KidsInv, KidsOK, Backed, Resting
    <3> QED
      BY <2>1, <3>1, <3>2, <3>3 DEF KidsOK
  <2>4. ASSUME Respawn, ~shutdown PROVE SlotSet' = SlotSet
    <3>1. index = {}
      BY <1>4, <2>4 DEF StaysDead
    <3>2. \A c \in Elements(children) : c.pid # p
      BY <3>1 DEF index, Elements
    <3> QED
      BY <2>1, <3>2 DEF SlotSet
  <2>5. \A q \in Pids : proc'[q] = "draining" => proc[q] = "draining"
    BY <1>2, <1>4
  <2> QED
    BY <1>2, <1>3, <1>4, <2>1, <2>3, <2>4, <2>5 DEF TypeOK
<1>5. ASSUME ~StaysDead, NEW k \in index, NEW spent \in {restarts, 0}, BudgetSpent(spent),
             children' = Paused(k), restarts' = spent, proc' = after,
             UNCHANGED <<nextPid, forkFailed>>
      PROVE  TypeOK' /\ KidsInv'
  <2> DEFINE c == [children[k] EXCEPT !.paused = TRUE]
  <2>1. k \in DOMAIN children /\ children[k].pid = p /\ children[k] \in ChildSet
        /\ children[k] \in Elements(children)
    BY <1>0 DEF index, Elements
  <2>2. c \in ChildSet /\ c.slot = children[k].slot /\ c.pid = p /\ c.paused
    BY <2>1 DEF ChildSet
  <2>3. \A d \in Elements(children) \ {children[k]} : d.pid # p /\ d.pid \in Pids
    BY <1>0, <2>1 DEF Distinct, Elements, ChildSet
  <2> HIDE DEF c
  <2>4. /\ children' \in Seq(ChildSet) /\ Distinct(children')
        /\ Elements(children') = (Elements(children) \ {children[k]}) \cup {c}
    BY <1>0, <1>5, <2>1, <2>2, <2>3, AppendRemoved DEF Paused, c
  <2>5. KidsOK'
    <3>1. Older'
      BY <1>5, <2>1, <2>2, <2>4 DEF KidsInv, KidsOK, Older
    <3>2. Owned'
      BY <1>2, <1>5, <2>1, <2>2, <2>4 DEF KidsInv, KidsOK, Owned, Alive
    <3>3. Backed' /\ Resting'
      BY <1>2, <1>5, <2>2, <2>3, <2>4 DEF KidsInv, KidsOK, Backed, Resting
    <3> QED
      BY <2>4, <3>1, <3>2, <3>3 DEF KidsOK
  <2>6. SlotSet' = SlotSet
    BY <2>1, <2>2, <2>4 DEF SlotSet
  <2>7. \A q \in Pids : proc'[q] = "draining" => proc[q] = "draining"
    BY <1>2, <1>5
  <2> QED
    BY <1>0, <1>2, <1>3, <1>5, <2>4, <2>5, <2>6, <2>7 DEF TypeOK
<1>6. ASSUME NEW k \in index, NEW spent \in {restarts, 0}, ~BudgetSpent(spent),
             restarts' = spent + 1, Forked(after),
             children' = Append(Removed(children, k), Child(children[k].slot, nextPid))
      PROVE  TypeOK' /\ KidsInv'
  <2> DEFINE c == Child(children[k].slot, nextPid)
  <2>1. k \in DOMAIN children /\ children[k].pid = p /\ children[k] \in ChildSet
    BY <1>0 DEF index
  <2>2. /\ nextPid \in Pids /\ nextPid \in Nat
        /\ nextPid' \in 1..(Count + MaxDeaths + Count * MaxHups + 1)
        /\ proc' \in [Pids -> ProcStates] /\ proc'[nextPid] = "booting"
        /\ \A q \in Pids : q # nextPid => proc'[q] = after[q]
        /\ forkFailed' = forkFailed
    BY <1>2, <1>6, ForkedTypes
  <2>3. c \in ChildSet /\ c.slot = children[k].slot /\ c.pid = nextPid
    BY <2>1, <2>2, ChildType DEF ChildSet
  <2>4. \A d \in Elements(children) : d.pid # nextPid
    <3>1. \A d \in Elements(children) : d.pid \in Nat /\ d.pid < nextPid
      BY <1>0, PidsAre DEF ChildSet, KidsInv, KidsOK, Older
    <3> QED
      BY <2>2, <3>1
  <2>5. /\ children' \in Seq(ChildSet) /\ Distinct(children')
        /\ Elements(children') = (Elements(children) \ {children[k]}) \cup {c}
    BY <1>0, <1>6, <2>1, <2>3, <2>4, AppendRemoved
  <2>6. KidsOK' /\ SlotSet' = SlotSet
    BY <1>2, <1>6, <2>1, <2>5, FreshWorker DEF KidsInv
  <2>7. \A q \in Pids : proc'[q] = "draining" => proc[q] = "draining"
    BY <1>2, <2>2
  <2>8. restarts' \in 0..Budget
    BY <1>0, <1>6 DEF BudgetSpent, TypeOK
  <2> QED
    BY <1>3, <2>2, <2>5, <2>6, <2>7, <2>8 DEF TypeOK
<1>7. ASSUME NEW k \in index, NEW spent \in {restarts, 0}, ~BudgetSpent(spent),
             restarts' = spent + 1, ForkFailed(after), children' = Removed(children, k)
      PROVE  TypeOK' /\ KidsInv'
  <2>1. k \in DOMAIN children /\ children[k].pid = p
    BY DEF index
  <2>2. proc' = after /\ forkFailed' = TRUE /\ nextPid' = nextPid
    BY <1>7 DEF ForkFailed
  <2>3. /\ children' \in Seq(ChildSet) /\ Distinct(children')
        /\ Elements(children') = Elements(children) \ {children[k]}
    BY <1>0, <1>7, <2>1, RemovedIs, DistinctRemoved
  <2>4. \A d \in Elements(children') : d \in Elements(children) /\ d.pid # p /\ d.pid \in Pids
    BY <1>0, <2>1, <2>3 DEF Distinct, Elements, ChildSet
  <2>5. KidsOK'
    <3>1. Older'
      BY <2>2, <2>4 DEF KidsInv, KidsOK, Older
    <3>2. Owned'
      BY <1>2, <2>1, <2>2, <2>3 DEF KidsInv, KidsOK, Owned, Alive
    <3>3. Backed' /\ Resting'
      BY <1>2, <2>2, <2>4 DEF KidsInv, KidsOK, Backed, Resting
    <3> QED
      BY <2>3, <3>1, <3>2, <3>3 DEF KidsOK
  <2>6. \A q \in Pids : proc'[q] = "draining" => proc[q] = "draining"
    BY <1>2, <2>2
  <2>7. restarts' \in 0..Budget
    BY <1>0, <1>7 DEF BudgetSpent, TypeOK
  <2>8. forkFailed' \in BOOLEAN /\ forkFailed'
    BY <2>2
  <2> QED
    BY <1>2, <1>3, <2>2, <2>3, <2>5, <2>6, <2>7, <2>8 DEF TypeOK
<1> QED
  BY <1>1, <1>4, <1>5, <1>6, <1>7 DEF after, index

\* A child replaced in place by a fresh worker, for a slot whose pause is
\* over and for one the reload has waited for.
LEMMA ReplacedInPlace ==
  ASSUME TypeOK, KidsOK, NEW k \in DOMAIN children,
         NEW before \in [Pids -> ProcStates], Forked(before),
         before[children[k].pid] = "reaped",
         \A p \in Pids : p # children[k].pid => before[p] = proc[p],
         children' = [children EXCEPT ![k] = Child(@.slot, nextPid)]
  PROVE  /\ KidsOK' /\ SlotSet' = SlotSet
         /\ children' \in Seq(ChildSet) /\ Len(children') = Len(children)
         /\ DOMAIN children' = DOMAIN children
<1> DEFINE c == Child(children[k].slot, nextPid)
<1>1. children \in Seq(ChildSet) /\ children[k] \in ChildSet /\ Distinct(children)
  BY ChildrenElements DEF KidsOK
<1>2. nextPid \in Pids /\ nextPid \in Nat
  BY ForkedTypes
<1>3. c \in ChildSet /\ c.slot = children[k].slot /\ c.pid = nextPid
  BY <1>1, <1>2, ChildType DEF ChildSet
<1>4. \A d \in Elements(children) : d.pid # nextPid
  <2>1. \A d \in Elements(children) : d.pid \in Nat /\ d.pid < nextPid
    BY ChildrenElements, PidsAre DEF ChildSet, KidsOK, Older
  <2> QED
    BY <1>2, <2>1
<1>5. children' = [children EXCEPT ![k] = c]
  OBVIOUS
<1> HIDE DEF c
<1>6. /\ children' \in Seq(ChildSet) /\ Len(children') = Len(children)
      /\ Distinct(children')
      /\ Elements(children') = (Elements(children) \ {children[k]}) \cup {c}
  <2>1. \A d \in Elements(children) : d.pid # c.pid
    BY <1>3, <1>4
  <2>2. /\ [children EXCEPT ![k] = c] \in Seq(ChildSet)
        /\ Len([children EXCEPT ![k] = c]) = Len(children)
        /\ Distinct([children EXCEPT ![k] = c])
        /\ Elements([children EXCEPT ![k] = c]) = (Elements(children) \ {children[k]}) \cup {c}
    BY <1>1, <1>3, <2>1, DistinctReplaced, Zenon
  <2> QED
    BY <1>5, <2>2, Zenon
<1>7. DOMAIN children' = DOMAIN children
  BY <1>1, <1>6
<1>8. KidsOK' /\ SlotSet' = SlotSet
  BY <1>6, FreshWorker DEF c
<1> QED
  BY <1>6, <1>7, <1>8

\* A fork that failed leaves the children as they were.
LEMMA FailedFork ==
  ASSUME TypeOK, KidsOK, NEW before \in [Pids -> ProcStates], ForkFailed(before),
         UNCHANGED children,
         \A p \in Pids : before[p] = proc[p] \/ before[p] = "reaped"
  PROVE  KidsOK' /\ proc' = before /\ forkFailed' \in BOOLEAN /\ forkFailed' /\ nextPid' = nextPid
<1>1. proc' = before /\ forkFailed' = TRUE /\ nextPid' = nextPid
  BY DEF ForkFailed
<1>2. forkFailed' \in BOOLEAN /\ forkFailed'
  BY <1>1
<1>3. \A c \in Elements(children) : c.pid \in Pids
  BY ChildrenElements DEF ChildSet
<1>4. Elements(children') = Elements(children)
  BY DEF Elements
<1> QED
  BY <1>1, <1>2, <1>3, <1>4 DEF KidsOK, Distinct, Older, Owned, Backed, Resting, Alive

LEMMA SlotsAre ==
  /\ {children[k].slot : k \in DOMAIN children} = SlotSet
  /\ {children'[k].slot : k \in DOMAIN children'} = SlotSet'
BY DEF SlotSet, Elements

LEMMA RetryStep == TypeOK /\ KidsInv /\ RetryPausedSlots => TypeOK' /\ KidsInv'
<1> SUFFICES ASSUME TypeOK, KidsInv, RetryPausedSlots PROVE TypeOK' /\ KidsInv'
  OBVIOUS
<1>0. /\ pc = "retry" /\ UNCHANGED <<restarts, pending, shutdown, late, counts>>
      /\ proc \in [Pids -> ProcStates] /\ KidsOK
      /\ cursor \in Nat /\ cursor >= 1
      /\ pc' \in {"retry", "signal"} /\ cursor' \in {cursor, cursor + 1}
  <2>1. pc = "retry" /\ UNCHANGED <<restarts, pending, shutdown, late, counts>>
    BY DEF RetryPausedSlots
  <2>2. pc' \in {"retry", "signal"} /\ cursor' \in {cursor, cursor + 1}
    BY DEF RetryPausedSlots
  <2>3. proc \in [Pids -> ProcStates] /\ cursor \in Nat
    BY DEF TypeOK, ProcStates
  <2> QED
    BY <2>1, <2>2, <2>3 DEF KidsInv, CursorInv
<1>1. CASE UNCHANGED <<children, proc, nextPid, forkFailed>>
  <2>1. TypeOK'
    BY <1>0, <1>1 DEF TypeOK, counts
  <2>2. KidsOK'
    BY <1>0, <1>1, QuietProcs
  <2>3. CursorInv'
    BY <1>0, <1>1 DEF KidsInv, CursorInv
  <2>4. OnlyWaitedDrains'
    BY <1>0, <1>1 DEF KidsInv, OnlyWaitedDrains
  <2>5. SlotsKept'
    BY <1>0, <1>1 DEF KidsInv, SlotsKept
  <2> QED
    BY <2>1, <2>2, <2>3, <2>4, <2>5 DEF KidsInv
<1>2. CASE ~(cursor > Len(children)) /\ children[cursor].paused /\ UNCHANGED pc
  <2>1. cursor \in DOMAIN children
    BY <1>0, <1>2, ChildrenElements
  <2>2. children[cursor].pid \in Pids /\ proc[children[cursor].pid] = "reaped"
    BY <1>0, <1>2, <2>1, ChildrenElements DEF KidsOK, Resting, ChildSet
  <2>3. CASE Forked(proc) /\ children' = [children EXCEPT ![cursor] = Child(@.slot, nextPid)]
    <3>1. KidsOK' /\ SlotSet' = SlotSet /\ children' \in Seq(ChildSet)
      BY <1>0, <2>1, <2>2, <2>3, ReplacedInPlace
    <3>2. /\ nextPid' \in 1..(Count + MaxDeaths + Count * MaxHups + 1)
          /\ proc' \in [Pids -> ProcStates] /\ forkFailed' = forkFailed
          /\ \A p \in Pids : proc'[p] = "draining" => proc[p] = "draining"
      BY <1>0, <2>3, ForkedTypes
    <3>3. TypeOK'
      BY <1>0, <3>1, <3>2 DEF TypeOK, counts, ChildSet, ProcStates
    <3>4. CursorInv' /\ OnlyWaitedDrains'
      BY <1>0, <1>2, <3>2 DEF KidsInv, CursorInv, OnlyWaitedDrains
    <3>5. SlotsKept'
      BY <1>0, <1>2, <3>1, <3>2, SlotsAre DEF KidsInv, SlotsKept
    <3> QED
      BY <3>1, <3>3, <3>4, <3>5 DEF KidsInv
  <2>4. CASE ForkFailed(proc) /\ UNCHANGED children
    <3>1. KidsOK' /\ proc' = proc /\ forkFailed' \in BOOLEAN /\ forkFailed' /\ nextPid' = nextPid
      BY <1>0, <2>4, FailedFork
    <3>2. TypeOK'
      BY <1>0, <2>4, <3>1 DEF TypeOK, counts
    <3> QED
      BY <1>0, <1>2, <2>4, <3>1, <3>2 DEF KidsInv, CursorInv, OnlyWaitedDrains, SlotsKept
  <2> QED
    BY <1>1, <1>2, <2>3, <2>4 DEF RetryPausedSlots
<1> QED
  BY <1>1, <1>2 DEF RetryPausedSlots

LEMMA ReloadSpawnStep == TypeOK /\ KidsInv /\ ReloadSpawn => TypeOK' /\ KidsInv'
<1> SUFFICES ASSUME TypeOK, KidsInv, ReloadSpawn PROVE TypeOK' /\ KidsInv'
  OBVIOUS
<1> DEFINE p == children[cursor].pid
<1> DEFINE after == WaitFor(p)
<1>0. /\ pc = "wait" /\ pc' = "reload" /\ cursor' = cursor + 1
      /\ UNCHANGED <<restarts, pending, shutdown, late, counts>>
      /\ cursor \in Nat /\ cursor >= 1 /\ cursor \in DOMAIN children /\ KidsOK
  <2>1. /\ pc = "wait" /\ pc' = "reload" /\ cursor' = cursor + 1
        /\ UNCHANGED <<restarts, pending, shutdown, late, counts>>
    BY DEF ReloadSpawn
  <2> QED
    BY <2>1 DEF TypeOK, KidsInv, CursorInv
<1>1. p \in Pids
  BY <1>0, ChildrenElements DEF ChildSet
<1>2. /\ after \in [Pids -> ProcStates] /\ after[p] = "reaped"
      /\ \A q \in Pids : q # p => after[q] = proc[q]
  BY <1>1 DEF WaitFor, TypeOK, ProcStates
\* the worker that drained was the one waited for
<1>3. ASSUME ~shutdown, NEW q \in Pids PROVE after[q] # "draining"
  BY <1>0, <1>2, <1>3 DEF KidsInv, OnlyWaitedDrains
<1> HIDE DEF after
<1>4. CASE Forked(after) /\ children' = [children EXCEPT ![cursor] = Child(@.slot, nextPid)]
  <2>1. KidsOK' /\ SlotSet' = SlotSet /\ children' \in Seq(ChildSet)
    BY <1>0, <1>2, <1>4, ReplacedInPlace
  <2>2. /\ nextPid' \in 1..(Count + MaxDeaths + Count * MaxHups + 1)
        /\ proc' \in [Pids -> ProcStates] /\ forkFailed' = forkFailed
        /\ \A q \in Pids : proc'[q] = "draining" => after[q] = "draining"
    BY <1>2, <1>4, ForkedTypes
  <2>3. TypeOK'
    BY <1>0, <2>1, <2>2 DEF TypeOK, counts, ChildSet, ProcStates
  <2>4. CursorInv' /\ OnlyWaitedDrains'
    BY <1>0, <1>3, <2>2 DEF KidsInv, CursorInv, OnlyWaitedDrains
  <2>5. SlotsKept'
    BY <1>0, <2>1, <2>2, SlotsAre DEF KidsInv, SlotsKept
  <2> QED
    BY <2>1, <2>3, <2>4, <2>5 DEF KidsInv
<1>5. CASE ForkFailed(after) /\ UNCHANGED children
  <2>1. KidsOK' /\ proc' = after /\ forkFailed' \in BOOLEAN /\ forkFailed' /\ nextPid' = nextPid
    <3>1. \A q \in Pids : after[q] = proc[q] \/ after[q] = "reaped"
      BY <1>2
    <3> QED
      BY <1>0, <1>2, <1>5, <3>1, FailedFork
  <2>2. TypeOK'
    BY <1>0, <1>2, <1>5, <2>1 DEF TypeOK, counts, ProcStates
  <2> QED
    BY <1>0, <1>3, <1>5, <2>1, <2>2 DEF KidsInv, CursorInv, OnlyWaitedDrains, SlotsKept
<1> QED
  BY <1>4, <1>5 DEF ReloadSpawn, after

\* The steps that leave the children alone: the master's other decisions, and
\* whatever the workers, the clock and the operator do.
LEMMA QuietStep ==
  ASSUME TypeOK, KidsInv,
         \/ ReapedAll \/ NoSignal \/ BeginReload \/ forward \/ Reload \/ Check
         \/ DeadlinePasses \/ Hup \/ Term
         \/ \E p \in Pids : Worker(p)
  PROVE  TypeOK' /\ KidsInv'
<1> USE DEF loop, counts, masterKeeps
<1>0. KidsOK /\ CursorInv /\ OnlyWaitedDrains /\ SlotsKept /\ proc \in [Pids -> ProcStates]
  BY DEF KidsInv, TypeOK, ProcStates
<1>1. ASSUME ReapedAll PROVE TypeOK' /\ KidsInv'
  <2>1. UNCHANGED <<children, proc, nextPid, forkFailed, shutdown>> /\ pc = "reap" /\ pc' = "retry"
        /\ cursor' = 1
    BY <1>1 DEF ReapedAll
  <2>2. TypeOK'
    BY <1>1 DEF ReapedAll, TypeOK
  <2>3. KidsOK'
    BY <1>0, <2>1, QuietProcs
  <2> QED
    BY <1>0, <2>1, <2>2, <2>3 DEF KidsInv, CursorInv, OnlyWaitedDrains, SlotsKept
<1>2. ASSUME NoSignal PROVE TypeOK' /\ KidsInv'
  <2>1. UNCHANGED <<children, proc, nextPid, forkFailed, shutdown>> /\ pc = "signal" /\ pc' = "check"
    BY <1>2 DEF NoSignal
  <2>2. TypeOK'
    BY <1>2 DEF NoSignal, TypeOK
  <2>3. KidsOK'
    BY <1>0, <2>1, QuietProcs
  <2> QED
    BY <1>0, <2>1, <2>2, <2>3 DEF KidsInv, CursorInv, OnlyWaitedDrains, SlotsKept
<1>3. ASSUME BeginReload PROVE TypeOK' /\ KidsInv'
  <2>1. UNCHANGED <<children, proc, nextPid, forkFailed, shutdown>> /\ pc = "signal" /\ pc' = "reload"
        /\ cursor' = 1
    BY <1>3 DEF BeginReload
  <2>2. TypeOK'
    BY <1>3 DEF BeginReload, TypeOK
  <2>3. KidsOK'
    BY <1>0, <2>1, QuietProcs
  <2> QED
    BY <1>0, <2>1, <2>2, <2>3 DEF KidsInv, CursorInv, OnlyWaitedDrains, SlotsKept
\* A signal reaches the living and revives nobody.
<1>4. ASSUME NEW pids, NEW swallowed
      PROVE  /\ SentTerm(pids, swallowed) \in [Pids -> ProcStates]
             /\ \A p \in Pids :
                  /\ SentTerm(pids, swallowed)[p] \in Alive => proc[p] \in Alive
                  /\ SentTerm(pids, swallowed)[p] \notin Alive =>
                       SentTerm(pids, swallowed)[p] = proc[p]
                  /\ SentTerm(pids, swallowed)[p] = "reaped" <=> proc[p] = "reaped"
                  /\ p \notin pids => SentTerm(pids, swallowed)[p] = proc[p]
  BY <1>0 DEF SentTerm, ProcStates, Alive
<1>5. ASSUME forward PROVE TypeOK' /\ KidsInv'
  <2>1. PICK swallowed \in SUBSET Booting(PidsOf(children)) :
          proc' = SentTerm(PidsOf(children), swallowed)
    BY <1>5 DEF forward
  <2>2. UNCHANGED <<children, nextPid, forkFailed, cursor>> /\ shutdown' = TRUE /\ pc' = "check"
    BY <1>5 DEF forward
  <2>3. shutdown' \in BOOLEAN /\ shutdown'
    BY <2>2
  <2>4. TypeOK'
    BY <1>4, <1>5, <2>1, <2>3 DEF forward, TypeOK, ProcStates
  <2>5. KidsOK'
    <3>1. \A p \in Pids : /\ proc'[p] \in Alive \cup {"dead"} => proc[p] \in Alive \cup {"dead"}
                          /\ proc'[p] = "reaped" <=> proc[p] = "reaped"
      BY <1>4, <2>1
    <3> QED
      BY <1>0, <2>2, <3>1, QuietProcs
  <2> QED
    BY <2>2, <2>3, <2>4, <2>5 DEF KidsInv, CursorInv, OnlyWaitedDrains, SlotsKept
<1>6. ASSUME Reload PROVE TypeOK' /\ KidsInv'
  <2>1. /\ pc = "reload" /\ UNCHANGED <<cursor, children, shutdown, nextPid, forkFailed>>
        /\ UNCHANGED <<restarts, pending, late, counts>>
    BY <1>6 DEF Reload
  <2>2. CASE cursor > Len(children)
    <3>1. pc' = "check" /\ proc' = proc
      BY <1>6, <2>2 DEF Reload
    <3>2. TypeOK'
      BY <2>1, <3>1 DEF TypeOK
    <3>3. KidsOK'
      BY <1>0, <2>1, <3>1, QuietProcs
    <3> QED
      BY <1>0, <2>1, <3>1, <3>2, <3>3 DEF KidsInv, CursorInv, OnlyWaitedDrains, SlotsKept
  <2>3. CASE ~(cursor > Len(children))
    <3> DEFINE p == children[cursor].pid
    <3>1. pc' = "wait" /\ \E swallowed : proc' = SentTerm({p}, swallowed)
      BY <1>6, <2>3 DEF Reload
    <3>2. PICK swallowed : proc' = SentTerm({p}, swallowed)
      BY <3>1
    <3>3. cursor \in DOMAIN children
      <4>1. cursor \in Nat /\ cursor >= 1
        BY <1>0, <2>1 DEF TypeOK, CursorInv
      <4> QED
        BY <2>3, <4>1, ChildrenElements
    <3>4. TypeOK'
      BY <1>4, <2>1, <3>1, <3>2 DEF TypeOK, ProcStates
    <3>5. KidsOK'
      <4>1. \A q \in Pids : /\ proc'[q] \in Alive \cup {"dead"} => proc[q] \in Alive \cup {"dead"}
                            /\ proc'[q] = "reaped" <=> proc[q] = "reaped"
        BY <1>4, <3>2
      <4> QED
        BY <1>0, <2>1, <4>1, QuietProcs
    <3>6. ASSUME ~shutdown, NEW q \in Pids, proc'[q] = "draining" PROVE q = p
      BY <1>0, <1>4, <2>1, <3>2, <3>6 DEF OnlyWaitedDrains
    <3> QED
      BY <1>0, <2>1, <3>1, <3>3, <3>4, <3>5, <3>6
         DEF KidsInv, CursorInv, OnlyWaitedDrains, SlotsKept
  <2> QED
    BY <2>2, <2>3
<1>7. ASSUME Check PROVE TypeOK' /\ KidsInv'
  <2>1. /\ pc = "check" /\ pc' \in {"done", "reap"}
        /\ UNCHANGED <<cursor, children, restarts, pending, shutdown, late, nextPid,
                       counts, forkFailed>>
    BY <1>7 DEF Check
  <2>2. /\ proc' \in [Pids -> ProcStates]
        /\ \A p \in Pids : \/ proc'[p] = proc[p]
                           \/ proc[p] \in Alive /\ proc'[p] = "dead"
    BY <1>0, <1>7 DEF Check, ProcStates
  <2>3. TypeOK'
    BY <2>1, <2>2 DEF TypeOK, ProcStates
  <2>4. KidsOK'
    <3>1. \A q \in Pids : /\ proc'[q] \in Alive \cup {"dead"} => proc[q] \in Alive \cup {"dead"}
                          /\ proc'[q] = "reaped" <=> proc[q] = "reaped"
      BY <2>2 DEF Alive
    <3> QED
      BY <1>0, <2>1, <3>1, QuietProcs
  <2> QED
    BY <1>0, <2>1, <2>2, <2>3, <2>4 DEF KidsInv, CursorInv, OnlyWaitedDrains, SlotsKept
<1>8. ASSUME NEW p \in Pids, Worker(p) PROVE TypeOK' /\ KidsInv'
  <2>1. UNCHANGED <<loop, children, shutdown, nextPid, forkFailed>>
    BY <1>8 DEF Worker, Boots, Dies, Drains
  <2>2. /\ proc' \in [Pids -> ProcStates]
        /\ proc[p] \in Alive /\ proc'[p] \in {"up", "dead"}
        /\ \A q \in Pids : q # p => proc'[q] = proc[q]
    BY <1>0, <1>8 DEF Worker, Boots, Dies, Drains, ProcStates, Alive
  <2>3. TypeOK'
    <3>1. deaths' \in 0..MaxDeaths
      BY <1>8, MasterAssumption DEF Worker, Boots, Dies, Drains, TypeOK
    <3> QED
      BY <1>8, <2>2, <3>1 DEF Worker, Boots, Dies, Drains, TypeOK, ProcStates
  <2>4. KidsOK'
    <3>1. \A q \in Pids : /\ proc'[q] \in Alive \cup {"dead"} => proc[q] \in Alive \cup {"dead"}
                          /\ proc'[q] = "reaped" <=> proc[q] = "reaped"
      BY <2>2 DEF Alive
    <3> QED
      BY <1>0, <2>1, <3>1, QuietProcs
  <2> QED
    BY <1>0, <2>1, <2>2, <2>3, <2>4 DEF KidsInv, CursorInv, OnlyWaitedDrains, SlotsKept
<1>9. ASSUME DeadlinePasses \/ Hup \/ Term PROVE TypeOK' /\ KidsInv'
  <2>1. UNCHANGED <<masterKeeps, proc>>
    BY <1>9 DEF DeadlinePasses, Hup, Term
  <2>2. TypeOK'
    <3>1. late' \in BOOLEAN
      BY <1>9 DEF DeadlinePasses, Hup, Term, TypeOK
    <3>2. hups' \in 0..MaxHups /\ terms' \in 0..MaxTerms /\ deaths' \in 0..MaxDeaths
      BY <1>9, MasterAssumption DEF DeadlinePasses, Hup, Term, TypeOK
    <3>3. pending' \in {"none", "HUP", "TERM"}
      BY <1>9 DEF DeadlinePasses, Hup, Term, TypeOK
    <3> QED
      BY <2>1, <3>1, <3>2, <3>3 DEF TypeOK
  <2>3. KidsOK'
    BY <1>0, <2>1, QuietProcs
  <2> QED
    BY <1>0, <2>1, <2>2, <2>3 DEF KidsInv, CursorInv, OnlyWaitedDrains, SlotsKept
<1> QED
  BY <1>1, <1>2, <1>3, <1>5, <1>6, <1>7, <1>8, <1>9

LEMMA MasterInv == Spec => [](TypeOK /\ KidsInv)
<1>1. Init => TypeOK /\ KidsInv
  <2> SUFFICES ASSUME Init PROVE KidsInv
    BY InitTypeOK
  <2>1. Elements(children) = {} /\ children = <<>> /\ DOMAIN children = {}
    BY ElementsEmpty DEF Init
  <2>2. CursorInv
    BY <2>1, MasterAssumption DEF Init, CursorInv
  <2>3. KidsOK
    BY <2>1 DEF Init, KidsOK, Distinct, Older, Owned, Backed, Resting, Alive
  <2> QED
    BY <2>2, <2>3 DEF Init, KidsInv, OnlyWaitedDrains, SlotsKept
<1>2. TypeOK /\ KidsInv /\ [Next]_vars => TypeOK' /\ KidsInv'
  <2> SUFFICES ASSUME TypeOK, KidsInv, [Next]_vars PROVE TypeOK' /\ KidsInv'
    OBVIOUS
  <2>1. CASE UNCHANGED vars
    <3>1. TypeOK'
      BY <2>1 DEF vars, loop, counts, TypeOK
    <3>2. KidsOK'
      BY <2>1, QuietProcs DEF vars, KidsInv
    <3> QED
      BY <2>1, <3>1, <3>2 DEF vars, loop, KidsInv, CursorInv, OnlyWaitedDrains, SlotsKept
  <2> QED
    BY <2>1, ForkStep, ReapStep, RetryStep, ReloadSpawnStep, QuietStep DEF Next, Supervise
<1> QED
  BY <1>1, <1>2, PTL DEF Spec

-----------------------------------------------------------------------------
(* What the operator relies on.                                            *)

LEMMA OnlyOne ==
  ASSUME NEW S, NEW x \in S, \A y \in S : y = x
  PROVE  Cardinality(S) = 1
<1>1. S = {x}
  OBVIOUS
<1> QED
  BY <1>1, FS_Singleton

\* Every process not reaped is the process of exactly one child, no slot has
\* two, and a child that is not paused has a process to signal unless a fork
\* failed; the state keeps its types.
THEOREM NoStrayWorker == Spec => []NoStray
<1>1. TypeOK /\ KidsInv => NoStray
  <2> SUFFICES ASSUME TypeOK, KidsInv PROVE NoStray
    OBVIOUS
  <2>1. ASSUME NEW p \in Pids, proc[p] \in Alive \cup {"dead"}
        PROVE  Cardinality({k \in DOMAIN children : children[k].pid = p}) = 1
    <3>1. PICK k \in DOMAIN children : children[k].pid = p
      BY <2>1 DEF KidsInv, KidsOK, Owned, Elements
    <3>2. \A j \in DOMAIN children : children[j].pid = p => j = k
      BY <3>1 DEF KidsInv, KidsOK, Distinct
    <3> DEFINE S == {j \in DOMAIN children : children[j].pid = p}
    <3>3. k \in S /\ \A j \in S : j = k
      BY <3>1, <3>2
    <3> HIDE DEF S
    <3>4. Cardinality(S) = 1
      BY <3>3, OnlyOne
    <3> QED
      BY <3>4 DEF S
  <2>2. \A j, k \in DOMAIN children : children[j].slot = children[k].slot => j = k
    BY DEF KidsInv, KidsOK, Distinct
  <2>3. \A k \in DOMAIN children :
          ~children[k].paused /\ ~forkFailed => proc[children[k].pid] # "reaped"
    BY DEF KidsInv, KidsOK, Backed, Elements
  <2> QED
    BY <2>1, <2>2, <2>3 DEF NoStray
<1> QED
  BY <1>1, MasterInv, PTL

\* Until it is told to stop, a respawning master whose forks succeed has a
\* child for every slot, a crash loop's included.
THEOREM SlotsAlwaysKept == Spec => []SlotsKept
<1>1. TypeOK /\ KidsInv => SlotsKept
  BY DEF KidsInv
<1> QED
  BY <1>1, MasterInv, PTL

\* A rolling reload never has two workers draining.
THEOREM ReloadsOneAtATime == Spec => []OneAtATime
<1>1. TypeOK /\ KidsInv => OneAtATime
  <2> SUFFICES ASSUME KidsInv, ~shutdown
               PROVE  Cardinality({p \in Pids : proc[p] = "draining"}) <= 1
    BY DEF OneAtATime
  <2> DEFINE D == {p \in Pids : proc[p] = "draining"}
  <2>1. D \subseteq {children[cursor].pid}
    BY DEF KidsInv, OnlyWaitedDrains
  <2> HIDE DEF D
  <2>2. IsFiniteSet({children[cursor].pid}) /\ Cardinality({children[cursor].pid}) = 1
    BY FS_Singleton
  <2>3. Cardinality(D) <= 1
    BY <2>1, <2>2, FS_Subset
  <2> QED
    BY <2>3 DEF D
<1> QED
  BY <1>1, MasterInv, PTL
=============================================================================
