----------------------------- MODULE ParkProofs -----------------------------
(***************************************************************************)
(* Park.tla for any fibers, descriptors and timeouts: a suspended fiber    *)
(* always has something that will wake it, the gate follows the fiber that *)
(* runs, a socket is left in its own mode, and no timeout is reported      *)
(* before its time.                                                        *)
(***************************************************************************)
EXTENDS Park, TLAPS

-----------------------------------------------------------------------------
(* The arithmetic of the timeouts.                                         *)

LEMMA TimesMonotonic ==
  ASSUME NEW a \in Nat, NEW b \in Nat, NEW u \in Nat, a <= b
  PROVE  a * u <= b * u /\ a * u \in Nat
OBVIOUS

LEMMA TimesNat ==
  ASSUME NEW a \in Nat, NEW b \in Nat
  PROVE  a * b \in Nat
OBVIOUS

\* Rounding up loses nothing.
LEMMA DivCeil ==
  ASSUME NEW n \in Nat, NEW u \in Nat \ {0}
  PROVE  /\ (n \div u) \in Nat
         /\ (n \div u) * u <= n
         /\ n - u + 1 <= (n \div u) * u
<1>1. (n \div u) \in Int /\ u * (n \div u) <= n /\ n < u * ((n \div u) + 1)
  OBVIOUS
<1> QED
  BY <1>1

LEMMA Units ==
  /\ UsPerMs \in Nat \ {0} /\ NsPerUs \in Nat \ {0} /\ UnitsPerMs \in Nat \ {0}
  /\ MaxULong * NsPerUs \in Nat /\ MaxInt * UnitsPerMs \in Nat
  /\ \A ms \in Nat : ms * UnitsPerMs = (ms * UsPerMs) * NsPerUs /\ ms * UsPerMs \in Nat
  /\ MaxInt * UnitsPerMs <= MaxULong * NsPerUs
<1>1. /\ UsPerMs \in Nat \ {0} /\ NsPerUs \in Nat \ {0} /\ MaxInt \in Nat /\ MaxULong \in Nat
      /\ MaxInt * UsPerMs <= MaxULong
  BY ParkConstants
<1>2. UnitsPerMs \in Nat \ {0}
  BY <1>1 DEF UnitsPerMs
<1>3. MaxULong * NsPerUs \in Nat /\ MaxInt * UnitsPerMs \in Nat
  BY <1>1, <1>2, TimesNat
<1>4. \A ms \in Nat : ms * UnitsPerMs = (ms * UsPerMs) * NsPerUs /\ ms * UsPerMs \in Nat
  BY <1>1, TimesNat DEF UnitsPerMs
<1>5. (MaxInt * UsPerMs) * NsPerUs <= MaxULong * NsPerUs
  <2>1. MaxInt * UsPerMs \in Nat
    BY <1>1, TimesNat
  <2> QED
    BY <1>1, <2>1, TimesMonotonic
<1> QED
  BY <1>1, <1>2, <1>3, <1>4, <1>5

\* What a c_int can say of a timeout is never less than what was asked for,
\* and neither saturation makes a long wait a short one.
LEMMA CeilCovers ==
  ASSUME NEW seconds \in Nat, NEW sub \in Nat
  PROVE  /\ milliseconds_ceil(seconds, sub) \in 0 .. MaxInt
         /\ Asked(seconds, sub, MaxInt * UnitsPerMs) \in 0 .. MaxInt * UnitsPerMs
         /\ Asked(seconds, sub, MaxInt * UnitsPerMs) <= milliseconds_ceil(seconds, sub) * UnitsPerMs
<1> DEFINE M == MsPerSecond
           U == UnitsPerMs
           sM == seconds * M
           sMU == sM * U
           top == MaxInt * U
           whole == saturating(sM)
           n == saturating(sub + U - 1)
           rem == n \div U
           ms == milliseconds_ceil(seconds, sub)
<1>1. /\ seconds \in Nat /\ sub \in Nat /\ M \in Nat /\ U \in Nat \ {0}
      /\ MaxInt \in Nat /\ MaxLong \in Nat /\ top <= MaxLong
  BY ParkConstants, Units
<1>2. sM \in Nat /\ sMU \in Nat /\ top \in Nat /\ MaxInt <= top
  <2>1. sM \in Nat
    BY <1>1, TimesNat
  <2>2. sMU \in Nat /\ top \in Nat
    BY <1>1, <2>1, TimesNat
  <2>3. MaxInt <= top
    BY <1>1
  <2> QED
    BY <2>1, <2>2, <2>3
<1>3. ms = Lesser(saturating(whole + rem), MaxInt)
  BY DEF milliseconds_ceil
<1>4. Asked(seconds, sub, MaxInt * UnitsPerMs) = Lesser(sMU + sub, top)
  BY DEF Asked
<1>5. whole \in Nat /\ n \in Nat
  BY <1>1, <1>2 DEF saturating, Lesser
<1>6. rem \in Nat /\ n - U + 1 <= rem * U /\ rem * U \in Nat
  BY <1>1, <1>5, DivCeil, TimesNat
<1> HIDE DEF sM, sMU, top, whole, n, rem, ms
<1>7. ms \in 0 .. MaxInt
  BY <1>1, <1>3, <1>5, <1>6 DEF saturating, Lesser
<1>8. Asked(seconds, sub, MaxInt * UnitsPerMs) \in 0 .. top
  BY <1>1, <1>2, <1>4 DEF Lesser
<1>9. CASE ms = MaxInt
  BY <1>1, <1>2, <1>7, <1>8, <1>9 DEF top, ms
<1>10. CASE ms < MaxInt
  <2>1. ms = whole + rem /\ whole < MaxInt /\ rem < MaxInt
    BY <1>1, <1>2, <1>3, <1>5, <1>6, <1>10 DEF saturating, Lesser
  <2>2. whole = sM
    BY <1>1, <1>2, <2>1 DEF whole, saturating, Lesser
  <2>3. rem * U + U <= top
    <3>1. (rem + 1) * U <= MaxInt * U
      BY <1>1, <1>6, <2>1, TimesMonotonic
    <3>2. (rem + 1) * U = rem * U + U
      BY <1>1, <1>6
    <3> QED
      BY <3>1, <3>2 DEF top
  <2>4. n < MaxLong
    BY <1>1, <1>2, <1>5, <1>6, <2>3
  <2>5. n = sub + U - 1
    BY <1>1, <2>4 DEF n, saturating, Lesser
  <2>6. sub <= rem * U
    BY <1>1, <1>6, <2>5
  <2>7. ms * U = sMU + rem * U
    BY <1>1, <1>2, <1>6, <2>1, <2>2 DEF sMU
  <2> QED
    BY <1>1, <1>2, <1>4, <1>6, <1>7, <1>8, <2>6, <2>7 DEF Lesser, ms, top
<1> QED
  BY <1>1, <1>7, <1>8, <1>9, <1>10 DEF ms, top

\* A sleep is for what was asked, to the microsecond.
LEMMA SleepCovers ==
  ASSUME NEW seconds \in Nat, NEW sub \in Nat
  PROVE  LET us == microseconds_of(seconds, sub)
             asked == Asked(seconds, sub, MaxULong * NsPerUs)
         IN  us \in 0 .. MaxULong /\ asked \in 0 .. MaxULong * NsPerUs /\ asked <= (us + 1) * NsPerUs
<1> DEFINE sM == seconds * MsPerSecond
           sU == seconds * (MsPerSecond * UsPerMs)
           sN == sM * UnitsPerMs
           rem == sub \div NsPerUs
           top == MaxULong * NsPerUs
           us == microseconds_of(seconds, sub)
           asked == Asked(seconds, sub, top)
           N == NsPerUs
<1>1. N \in Nat \ {0} /\ top \in Nat /\ MaxULong \in Nat /\ sub \in Nat
  BY Units, ParkConstants
<1>2. sU \in Nat /\ sN \in Nat /\ sN = sU * N
  <2>1. sM \in Nat /\ sU \in Nat /\ sM * UsPerMs \in Nat
    BY ParkConstants, TimesNat
  <2>2. sN = (sM * UsPerMs) * N /\ sN \in Nat
    BY <2>1, Units, TimesNat
  <2>3. sM * UsPerMs = sU
    BY ParkConstants
  <2> QED
    BY <2>1, <2>2, <2>3
<1>3. rem \in Nat /\ sub <= (rem + 1) * N
  BY <1>1, DivCeil
<1>4. us = Lesser(Lesser(sU, MaxULong) + rem, MaxULong) /\ asked = Lesser(sN + sub, top)
  BY DEF microseconds_of, Asked
<1>5. (sU + rem + 1) * N = sU * N + (rem + 1) * N
  BY <1>1, <1>2, <1>3
<1> HIDE DEF sM, sU, sN, rem, us, asked, N
<1>6. us \in 0 .. MaxULong /\ (us = MaxULong \/ us = sU + rem)
  BY <1>1, <1>2, <1>3, <1>4 DEF Lesser
<1>7. asked \in 0 .. top /\ asked <= sN + sub
  BY <1>1, <1>2, <1>4 DEF Lesser
<1>8. CASE us = MaxULong
  <2>1. (us + 1) * N = top + N
    BY <1>1, <1>8 DEF N
  <2> QED
    BY <1>1, <1>6, <1>7, <2>1 DEF us, asked, N
<1>9. CASE us = sU + rem
  <2>1. (us + 1) * N = sN + (rem + 1) * N
    BY <1>2, <1>5, <1>9
  <2>2. (rem + 1) * N \in Nat
    BY <1>1, <1>3, TimesNat
  <2> QED
    BY <1>1, <1>2, <1>3, <1>6, <1>7, <2>1, <2>2 DEF us, asked, N
<1> QED
  BY <1>6, <1>8, <1>9

-----------------------------------------------------------------------------
(* What holds of every call a fiber can be in.                             *)

CallTypes == [kind : Kinds, on : SUBSET Fds, us : -1 .. MaxULong,
              asked : -1 .. MaxULong * NsPerUs, left : -1 .. MaxULong,
              waited : 0 .. LongestWait, due : -1 .. LongestWait]

LEMMA Waiting ==
  /\ MaxULong \in Nat /\ UsPerMs \in Nat \ {0} /\ LongestWait \in Nat
  /\ LongestWait = 2 * MaxULong + UsPerMs
BY ParkConstants DEF LongestWait

\* The timeout it runs on is at least what the caller asked for.
Covers(c) ==
  c.us >= 0 =>
    /\ c.kind \in {"poll", "io"} => c.asked >= 0 /\ c.asked <= c.us * NsPerUs
    /\ c.kind = "sleep" => c.asked >= 0 /\ c.asked <= (c.us + 1) * NsPerUs

\* It never waits past its deadline, has one exactly if it has a timeout, and
\* no park was for more than the timeout.
Sound(c) ==
  /\ c \in CallTypes
  /\ c.waited <= c.due \/ c.waited = 0
  /\ c.due < 0 <=> c.us < 0
  /\ c.us <= c.due /\ c.left <= c.us /\ c.us <= c.waited + c.left
  /\ c.us >= 0 => c.left >= 0
  /\ c.us > 0 => c.left > 0
  /\ c.kind = "flock" => c.us \in 1 .. FlockMax
  /\ c.kind \in {"sleep", "flock"} => c.on = {}
  /\ Covers(c)

\* Its deadline is at most a millisecond away from its timeout, or from twice
\* that once its park was cut.
Bounded(c, cut) ==
  c.us >= 0 => c.due < c.us + UsPerMs \/ (cut /\ c.due < 2 * c.us + UsPerMs)

LEMMA CallSound ==
  ASSUME NEW kind \in Kinds, NEW on \in SUBSET Fds, NEW us \in -1 .. MaxULong,
         NEW asked \in -1 .. MaxULong * NsPerUs,
         kind = "flock" => us \in 1 .. FlockMax,
         kind \in {"sleep", "flock"} => on = {},
         kind \in {"poll", "io"} /\ us >= 0 => asked >= 0 /\ asked <= us * NsPerUs,
         kind = "sleep" /\ us >= 0 => asked >= 0 /\ asked <= (us + 1) * NsPerUs
  PROVE  LET c == Call(kind, on, us, asked)
         IN  Sound(c) /\ Bounded(c, FALSE) /\ c.kind = kind /\ c.on = on /\ c.us = us
<1> DEFINE c == Call(kind, on, us, asked)
<1>1. /\ c.kind = kind /\ c.on = on /\ c.us = us /\ c.asked = asked
      /\ c.waited = 0 /\ c.due = us /\ c.left = us
  BY DEF Call
<1>2. 0 \in 0 .. LongestWait /\ us \in -1 .. LongestWait
  BY Waiting
<1>3. c \in CallTypes
  BY <1>2 DEF Call, CallTypes
<1> HIDE DEF c
<1>4. Sound(c)
  BY <1>1, <1>3, Waiting DEF Sound, Covers
<1>5. Bounded(c, FALSE)
  BY <1>1, Waiting DEF Bounded
<1> QED
  BY <1>1, <1>4, <1>5 DEF c

LEMMA NoCallSound == Sound(NoCall) /\ NoCall.kind = "none"
<1>1. "none" \in Kinds /\ {} \in SUBSET Fds /\ 0 \in -1 .. MaxULong /\ 0 \in -1 .. MaxULong * NsPerUs
  BY Units, Waiting DEF Kinds
<1>2. ASSUME NEW kind \in {"none"}, NEW zero \in {0} PROVE Sound(Call(kind, {}, zero, zero))
  <2>1. /\ kind \in Kinds /\ kind \notin {"flock", "sleep", "poll", "io"}
        /\ zero \in -1 .. MaxULong /\ zero \in -1 .. MaxULong * NsPerUs
    BY <1>1
  <2> QED
    BY <1>1, <2>1, CallSound
<1>3. Sound(NoCall)
  BY <1>2 DEF NoCall
<1> QED
  BY <1>3 DEF NoCall, Call

\* The real call of a park that was cut.
LEMMA AfreshSound ==
  ASSUME NEW c, Sound(c), Bounded(c, FALSE)
  PROVE  /\ Sound(Afresh(c)) /\ Bounded(Afresh(c), TRUE)
         /\ Afresh(c).kind = c.kind /\ Afresh(c).on = c.on
         /\ TimeIsUp(Afresh(c)) => c.us >= 0 /\ c.us <= c.waited
<1> DEFINE d == Afresh(c)
           late == IF c.us < 0 THEN Forever ELSE c.waited + c.left
<1>1. /\ c.kind \in Kinds /\ c.on \in SUBSET Fds /\ c.us \in -1 .. MaxULong
      /\ c.asked \in -1 .. MaxULong * NsPerUs /\ c.waited \in 0 .. LongestWait
      /\ c.left \in -1 .. MaxULong /\ c.due \in -1 .. LongestWait /\ c \in CallTypes
  BY DEF Sound, CallTypes
<1>2. /\ c.waited <= c.due \/ c.waited = 0
      /\ c.due < 0 <=> c.us < 0
      /\ c.left <= c.us /\ c.us <= c.waited + c.left
      /\ c.us >= 0 => c.left >= 0
      /\ c.us > 0 => c.left > 0
      /\ c.us >= 0 => c.due < c.us + UsPerMs
  BY DEF Sound, Bounded
<1>3. /\ late \in -1 .. LongestWait
      /\ c.us >= 0 => late < 2 * c.us + UsPerMs
  BY <1>1, <1>2, Waiting DEF Forever
<1>4. /\ d.kind = c.kind /\ d.on = c.on /\ d.us = c.us /\ d.asked = c.asked
      /\ d.waited = c.waited /\ d.due = late /\ d.left = c.left
  BY <1>1 DEF Afresh, CallTypes
<1>5. d \in CallTypes
  BY <1>1, <1>3 DEF Afresh, CallTypes
<1> HIDE DEF d
<1>6. Covers(d)
  BY <1>4 DEF Sound, Covers
<1>7. /\ d.waited <= d.due \/ d.waited = 0
      /\ d.due < 0 <=> d.us < 0
  BY <1>1, <1>2, <1>4, Waiting DEF Forever
<1>8. d.us <= d.due
  BY <1>1, <1>2, <1>4, Waiting DEF Forever
<1>9. Sound(d) /\ Bounded(d, TRUE)
  BY <1>3, <1>4, <1>5, <1>6, <1>7, <1>8 DEF Sound, Bounded
<1>10. TimeIsUp(d) => c.us >= 0 /\ c.us <= c.waited
  BY <1>1, <1>2, <1>4, Waiting DEF TimeIsUp, Forever
<1> QED
  BY <1>4, <1>9, <1>10 DEF d

\* A poll that parks again.
LEMMA AgainSound ==
  ASSUME NEW c, Sound(c), ~(c.us >= 0 /\ Left(c) <= 0)
  PROVE  /\ Sound(Again(c)) /\ Bounded(Again(c), FALSE)
         /\ Again(c).kind = c.kind /\ Again(c).on = c.on
<1> DEFINE d == Again(c)
           q == c.waited \div UsPerMs
           left == IF c.us < 0 THEN Forever ELSE c.us - q * UsPerMs
           due == IF c.us < 0 THEN Forever ELSE c.waited + left
<1>1. /\ c.kind \in Kinds /\ c.on \in SUBSET Fds /\ c.us \in -1 .. MaxULong
      /\ c.asked \in -1 .. MaxULong * NsPerUs /\ c.waited \in 0 .. LongestWait
      /\ c.due \in -1 .. LongestWait /\ c \in CallTypes
  BY DEF Sound, CallTypes
<1>2. /\ c.waited \in Nat /\ q * UsPerMs \in Nat
      /\ q * UsPerMs <= c.waited /\ c.waited < q * UsPerMs + UsPerMs
  <2>1. c.waited \in Nat /\ UsPerMs \in Nat \ {0}
    BY <1>1, Waiting
  <2>2. q \in Nat /\ q * UsPerMs <= c.waited /\ c.waited - UsPerMs + 1 <= q * UsPerMs
    BY <2>1, DivCeil
  <2>3. q * UsPerMs \in Nat
    BY <2>1, <2>2, TimesNat
  <2> QED
    BY <2>1, <2>2, <2>3
<1>3. Left(c) = left
  BY DEF Left
<1>4. /\ d.kind = c.kind /\ d.on = c.on /\ d.us = c.us /\ d.asked = c.asked
      /\ d.waited = c.waited /\ d.due = due /\ d.left = left
      /\ d = [c EXCEPT !.left = left, !.due = due]
  BY <1>1, <1>3 DEF Again, CallTypes
<1> HIDE DEF q
<1>5. /\ left \in -1 .. MaxULong /\ due \in -1 .. LongestWait
      /\ (left <= c.us /\ c.us <= c.waited + left) \/ c.us < 0
      /\ c.us >= 0 => left > 0 /\ due < c.us + UsPerMs /\ c.us <= due /\ c.waited <= due
  BY <1>1, <1>2, <1>3, Waiting DEF Forever
<1>6. c.us < 0 => c.waited = 0
  BY <1>1, Waiting DEF Sound
<1>7. d \in CallTypes
  BY <1>1, <1>4, <1>5 DEF CallTypes
<1>8. c.us < 0 => c.us = -1 /\ left = -1 /\ due = -1
  BY <1>1, Waiting DEF Forever
<1> HIDE DEF d, left, due
<1>9. Covers(d)
  BY <1>4 DEF Sound, Covers
<1>10. /\ d.waited <= d.due \/ d.waited = 0
       /\ d.due < 0 <=> d.us < 0
       /\ d.us <= d.due /\ d.left <= d.us /\ d.us <= d.waited + d.left
       /\ d.us >= 0 => d.left >= 0
       /\ d.us > 0 => d.left > 0
  BY <1>1, <1>2, <1>4, <1>5, <1>6, <1>8, Waiting
<1>11. Sound(d)
  BY <1>4, <1>7, <1>9, <1>10 DEF Sound
<1>12. Bounded(d, FALSE)
  BY <1>4, <1>5 DEF Bounded
<1> QED
  BY <1>4, <1>11, <1>12 DEF d

\* A tick of the clock.
LEMMA TickSound ==
  ASSUME NEW c, Sound(c), c.waited < c.due
  PROVE  LET d == [c EXCEPT !.waited = @ + 1]
         IN  /\ Sound(d) /\ d.kind = c.kind /\ d.on = c.on /\ d.us = c.us /\ d.due = c.due
             /\ d.waited = c.waited + 1 /\ c.waited \in Nat
<1> DEFINE d == [c EXCEPT !.waited = @ + 1]
<1>1. /\ c.waited \in 0 .. LongestWait /\ c.due \in -1 .. LongestWait /\ c \in CallTypes
      /\ c.us \in -1 .. MaxULong /\ c.left \in -1 .. MaxULong
  BY DEF Sound, CallTypes
<1>2. MaxULong \in Nat /\ LongestWait \in Nat
  BY Waiting
<1>3. /\ d.kind = c.kind /\ d.on = c.on /\ d.us = c.us /\ d.asked = c.asked
      /\ d.waited = c.waited + 1 /\ d.due = c.due /\ d.left = c.left
  BY <1>1 DEF CallTypes
<1>4. c.waited + 1 \in 0 .. LongestWait
  BY <1>1, <1>2
<1>5. d \in CallTypes
  BY <1>1, <1>4 DEF CallTypes
<1> HIDE DEF d
<1>6. Covers(d)
  BY <1>3 DEF Sound, Covers
<1>7. Sound(d)
  BY <1>1, <1>2, <1>3, <1>5, <1>6 DEF Sound
<1>8. c.waited \in Nat
  BY <1>1, <1>2
<1> QED
  BY <1>3, <1>7, <1>8 DEF d

-----------------------------------------------------------------------------
(* The inductive invariant.                                                *)

CoreTypes ==
  /\ running \in Fibers \cup {"main"}
  /\ gate \in 0 .. 2
  /\ pc \in [Fibers -> {"user", "parked", "woken", "kernel"}]
  /\ call \in [Fibers -> CallTypes]
  /\ exc \in [Fibers -> BOOLEAN]
  /\ ans \in [Fibers -> {"none", "ready", "timeout"}]
  /\ parked \subseteq Ids /\ results \subseteq Ids
  /\ ops \subseteq Ids /\ chan \subseteq Ids

\* A fiber that was woken or that holds the thread is the one that runs, and
\* one that is suspended is not; a deadline is moved only by a cut.
Stands(f) ==
  /\ Sound(call[f])
  /\ pc[f] = "user" => call[f] = NoCall
  /\ pc[f] \in {"woken", "kernel"} => running = f
  /\ pc[f] = "parked" => running # f
  /\ pc[f] \in {"parked", "woken"} => Bounded(call[f], FALSE)
  /\ call[f].kind = "poll" => Bounded(call[f], exc[f])

\* A suspended fiber has a wake-up coming, and one that was resumed without
\* an exception finds the outcome it was resumed with.
Waits(f) ==
  /\ pc[f] = "parked" => \E i \in parked : i[1] = f /\ i \in ops \cup chan
  /\ pc[f] = "woken" /\ ~exc[f] => \E i \in results : i[1] = f

Interest(i) == i[2] \in call[i[1]].on \cup {Timer}

\* A timer's completion, until it is taken, is one whose time is up.
Earned(i) == i[2] = Timer => TimeIsUp(call[i[1]])

Tables ==
  /\ \A i \in parked : pc[i[1]] \in {"parked", "woken"} /\ Interest(i)
  /\ \A i \in chan : pc[i[1]] = "parked" /\ Earned(i)
  /\ \A i \in results : running = i[1] /\ pc[i[1]] = "woken" /\ Interest(i) /\ Earned(i)

Core ==
  /\ CoreTypes
  /\ GateFollowsFiber
  /\ \A f \in Fibers : Stands(f) /\ Waits(f)
  /\ Tables

LEMMA MineIs ==
  ASSUME NEW f \in Fibers, NEW i \in Ids
  PROVE  (i \in Mine(f) <=> i[1] = f) /\ i[1] \in Fibers /\ i[2] \in Fds \cup {Timer}
BY DEF Ids, Mine

LEMMA NotMain == "main" \notin Fibers
BY ParkConstants

LEMMA InitCore == Init => Core
<1> SUFFICES ASSUME Init PROVE Core
  OBVIOUS
<1>1. NoCall \in CallTypes
  BY NoCallSound DEF Sound
<1>2. CoreTypes
  BY <1>1 DEF Init, CoreTypes
<1>3. GateFollowsFiber
  BY NotMain DEF Init, GateFollowsFiber, Runs
<1>4. \A f \in Fibers : Stands(f) /\ Waits(f)
  BY NoCallSound DEF Init, Stands, Waits
<1> QED
  BY <1>2, <1>3, <1>4 DEF Init, Core, Tables

\* A fiber that is neither suspended nor just resumed has nothing in the
\* tables, and nobody but the fiber that was resumed has an outcome.
LEMMA QuietTables ==
  ASSUME Core, NEW f \in Fibers, pc[f] \in {"user", "kernel"}
  PROVE  parked \ Mine(f) = parked /\ results \ Mine(f) = results
BY MineIs DEF Core, CoreTypes, Tables

LEMMA ResultsMine ==
  ASSUME Core, NEW f \in Fibers, running = f
  PROVE  results \ Mine(f) = {}
BY MineIs DEF Core, CoreTypes, Tables

\* What a step of one fiber leaves of the others.
LEMMA OthersKept ==
  ASSUME Core, NEW f \in Fibers, NEW g \in Fibers, g # f,
         running = f, running' \in {f, "main"},
         pc'[g] = pc[g], call'[g] = call[g], exc'[g] = exc[g],
         \A i \in Ids : i \notin Mine(f) => (i \in parked' <=> i \in parked)
                                         /\ (i \in ops' <=> i \in ops),
         chan' = chan
  PROVE  (Stands(g) /\ Waits(g))'
<1>1. Stands(g) /\ Waits(g)
  BY DEF Core
<1>2. pc[g] \notin {"woken", "kernel"}
  BY <1>1 DEF Stands
<1>3. running' # g
  BY NotMain
<1>4. Stands(g)'
  BY <1>1, <1>2, <1>3 DEF Stands
<1>5. Waits(g)'
  BY <1>1, <1>2, MineIs DEF Waits, Core, CoreTypes
<1> QED
  BY <1>4, <1>5

LEMMA SuspendStep ==
  ASSUME Core, NEW f \in Fibers, NEW c, Sound(c), Bounded(c, FALSE), Submit(f, c) # {},
         running = f, pc[f] \in {"user", "woken"}, Suspend(f, c)
  PROVE  Core'
<1>1. /\ \A g \in Fibers : g # f => pc'[g] = pc[g] /\ call'[g] = call[g] /\ exc'[g] = exc[g]
      /\ pc'[f] = "parked" /\ call'[f] = c /\ exc' = exc
      /\ ans' \in [Fibers -> {"none", "ready", "timeout"}]
      /\ running' = "main" /\ gate' = 0 /\ chan' = chan /\ results' = {}
  BY ResultsMine DEF Suspend, on_switch, Core, CoreTypes
<1>2. c \in CallTypes /\ c.on \subseteq Fds
  BY DEF Sound, CallTypes
<1>3. Submit(f, c) \subseteq Mine(f) /\ Submit(f, c) \subseteq Ids
  BY <1>2 DEF Submit, Mine, Ids
<1>4. \A i \in Submit(f, c) : i[1] = f /\ i[2] \in c.on \cup {Timer}
  BY DEF Submit
<1>5. CoreTypes'
  <2>1. parked' \subseteq Ids /\ results' \subseteq Ids /\ ops' \subseteq Ids /\ chan' \subseteq Ids
    BY <1>1, <1>3 DEF Suspend, Core, CoreTypes
  <2>2. pc' \in [Fibers -> {"user", "parked", "woken", "kernel"}] /\ call' \in [Fibers -> CallTypes]
    BY <1>2 DEF Suspend, Core, CoreTypes
  <2> QED
    BY <1>1, <2>1, <2>2 DEF Core, CoreTypes
<1>6. GateFollowsFiber'
  BY <1>1, NotMain DEF GateFollowsFiber, Runs
<1>7. Stands(f)'
  BY <1>1, NotMain DEF Stands, Bounded
<1>8. Waits(f)'
  BY <1>1, <1>4 DEF Suspend, Waits
<1>9. \A g \in Fibers : (Stands(g) /\ Waits(g))'
  <2>1. \A i \in Ids : i \notin Mine(f) => (i \in parked' <=> i \in parked)
                                        /\ (i \in ops' <=> i \in ops)
    BY <1>3 DEF Suspend
  <2>2. \A g \in Fibers : g # f => (Stands(g) /\ Waits(g))'
    BY <1>1, <2>1, OthersKept
  <2> QED
    BY <1>7, <1>8, <2>2
<1>10. Tables'
  <2>1. \A i \in parked' : pc'[i[1]] \in {"parked", "woken"} /\ i[2] \in call'[i[1]].on \cup {Timer}
    <3> TAKE i \in parked'
    <3>1. CASE i \in Submit(f, c)
      BY <1>1, <1>4, <3>1
    <3>2. CASE i \in parked /\ i \notin Mine(f)
      <4>1. i[1] # f /\ i[1] \in Fibers
        BY <3>2, MineIs DEF Core, CoreTypes
      <4> QED
        BY <1>1, <3>2, <4>1 DEF Core, Tables, Interest
    <3> QED
      BY <3>1, <3>2 DEF Suspend
  <2>2. \A i \in chan' : pc'[i[1]] = "parked" /\ (i[2] = Timer => TimeIsUp(call'[i[1]]))
    <3> TAKE i \in chan'
    <3>1. i \in chan /\ pc[i[1]] = "parked" /\ i[1] # f /\ i[1] \in Fibers
      BY <1>1, MineIs DEF Core, CoreTypes, Tables
    <3> QED
      BY <1>1, <3>1 DEF Core, Tables, Earned
  <2> QED
    BY <1>1, <2>1, <2>2 DEF Tables, Interest, Earned, TimeIsUp
<1> QED
  BY <1>5, <1>6, <1>9, <1>10 DEF Core

\* The call is over or the kernel makes it: in both cases the fiber runs on
\* and has left the tables.
LEMMA LeaveStep ==
  ASSUME Core, NEW f \in Fibers, running = f, running' = running, chan' = chan,
         parked' = parked \ Mine(f), results' = results \ Mine(f),
         ops' = ops \/ ops' = ops \ Mine(f),
         NEW p \in {"user", "kernel"}, pc' = [pc EXCEPT ![f] = p],
         NEW c, Sound(c), call' = [call EXCEPT ![f] = c], p = "user" => c = NoCall,
         p = "kernel" => exc' = exc, c.kind = "poll" => Bounded(c, exc[f]),
         NEW how \in {"none", "ready", "timeout"}, ans' = ans \/ ans' = [ans EXCEPT ![f] = how],
         exc' = exc \/ exc' = [exc EXCEPT ![f] = FALSE],
         gate' \in {1, 2} \cup {gate}, p = "user" => gate' = 1
  PROVE  Core'
<1>1. /\ \A g \in Fibers : g # f => pc'[g] = pc[g] /\ call'[g] = call[g]
      /\ pc'[f] = p /\ call'[f] = c /\ results' = {}
  BY ResultsMine DEF Core, CoreTypes
<1>2. \A g \in Fibers : g # f => exc'[g] = exc[g]
  BY DEF Core, CoreTypes
<1>3. c \in CallTypes
  BY DEF Sound
<1>4. exc' \in [Fibers -> BOOLEAN]
  BY DEF Core, CoreTypes
<1>5. ans' \in [Fibers -> {"none", "ready", "timeout"}]
  BY DEF Core, CoreTypes
<1>6. pc' \in [Fibers -> {"user", "parked", "woken", "kernel"}]
  BY DEF Core, CoreTypes
<1>7. call' \in [Fibers -> CallTypes]
  BY <1>3 DEF Core, CoreTypes
<1>8. CoreTypes'
  <2>1. parked' \subseteq Ids /\ results' \subseteq Ids /\ ops' \subseteq Ids /\ chan' \subseteq Ids
    BY DEF Core, CoreTypes
  <2> QED
    BY <1>4, <1>5, <1>6, <1>7, <2>1 DEF Core, CoreTypes
<1>9. GateFollowsFiber'
  <2>1. gate' # 0 /\ running' # "main"
    BY NotMain DEF Core, CoreTypes, GateFollowsFiber
  <2>2. ASSUME NEW g \in Fibers, running' = g, pc'[g] = "user" PROVE gate' = 1
    BY <1>1, <2>2
  <2> QED
    BY <2>1, <2>2 DEF GateFollowsFiber, Runs
<1>10. Stands(f)' /\ Waits(f)'
  <2>1. p = "user" => c.kind # "poll"
    BY NoCallSound
  <2> QED
    BY <1>1, <2>1 DEF Stands, Waits, Bounded
<1>11. \A g \in Fibers : (Stands(g) /\ Waits(g))'
  <2>1. \A i \in Ids : i \notin Mine(f) => (i \in parked' <=> i \in parked)
                                        /\ (i \in ops' <=> i \in ops)
    OBVIOUS
  <2>2. \A g \in Fibers : g # f => (Stands(g) /\ Waits(g))'
    BY <1>1, <1>2, <2>1, OthersKept
  <2> QED
    BY <1>10, <2>2
<1>12. Tables'
  <2>1. \A i \in parked' : pc'[i[1]] \in {"parked", "woken"} /\ i[2] \in call'[i[1]].on \cup {Timer}
    <3> TAKE i \in parked'
    <3>1. i \in parked /\ i[1] # f /\ i[1] \in Fibers
      BY MineIs DEF Core, CoreTypes
    <3> QED
      BY <1>1, <3>1 DEF Core, Tables, Interest
  <2>2. \A i \in chan' : pc'[i[1]] = "parked" /\ (i[2] = Timer => TimeIsUp(call'[i[1]]))
    <3> TAKE i \in chan'
    <3>1. i \in chan /\ pc[i[1]] = "parked" /\ i[1] # f /\ i[1] \in Fibers
      BY MineIs DEF Core, CoreTypes, Tables, Stands
    <3> QED
      BY <1>1, <3>1 DEF Core, Tables, Earned
  <2> QED
    BY <1>1, <2>1, <2>2 DEF Tables, Interest, Earned, TimeIsUp
<1> QED
  BY <1>8, <1>9, <1>11, <1>12 DEF Core

\* The loop resumes a suspended fiber with a completion, or throws into it.
LEMMA WakeStep ==
  ASSUME Core, NEW f \in Fibers, NEW i \in parked, i[1] = f, running = "main",
         running' = f, gate' = 1, pc' = [pc EXCEPT ![f] = "woken"],
         call' = call, ans' = ans, ops' = ops,
         parked' = parked \ {i}, chan' = chan \ Mine(f),
         \/ i \in chan /\ results' = results \cup {i} /\ exc' = exc
         \/ results' = results /\ exc' = [exc EXCEPT ![f] = TRUE]
  PROVE  Core'
<1>1. results = {} /\ \A g \in Fibers : pc[g] \notin {"woken", "kernel"}
  <2>1. \A g \in Fibers : pc[g] \notin {"woken", "kernel"}
    BY NotMain DEF Core, Stands
  <2>2. ASSUME NEW j \in results PROVE FALSE
    <3>1. j[1] \in Fibers
      BY MineIs DEF Core, CoreTypes
    <3>2. pc[j[1]] = "woken"
      BY DEF Core, Tables
    <3> QED
      BY <2>1, <3>1, <3>2
  <2> QED
    BY <2>1, <2>2
<1>2. pc[f] = "parked" /\ Interest(i) /\ i \in Ids
  BY <1>1 DEF Core, CoreTypes, Tables
<1>3. pc'[f] = "woken" /\ \A g \in Fibers : g # f => pc'[g] = pc[g]
  BY DEF Core, CoreTypes
<1>4. \A g \in Fibers : g # f => exc'[g] = exc[g]
  BY DEF Core, CoreTypes
<1>5. exc' \in [Fibers -> BOOLEAN]
  BY DEF Core, CoreTypes
<1>6. CoreTypes'
  <2>1. parked' \subseteq Ids /\ results' \subseteq Ids /\ ops' \subseteq Ids /\ chan' \subseteq Ids
    BY <1>2 DEF Core, CoreTypes
  <2>2. pc' \in [Fibers -> {"user", "parked", "woken", "kernel"}]
    BY DEF Core, CoreTypes
  <2> QED
    BY <1>5, <2>1, <2>2 DEF Core, CoreTypes
<1>7. GateFollowsFiber'
  BY NotMain DEF GateFollowsFiber, Runs
<1>8. \A g \in Fibers : Stands(g)'
  <2> TAKE g \in Fibers
  <2>1. Stands(g)
    BY DEF Core
  <2>2. CASE g = f
    BY <1>2, <1>3, <2>1, <2>2 DEF Stands, Bounded
  <2>3. CASE g # f
    BY <1>1, <1>3, <1>4, <2>1, <2>3 DEF Stands
  <2> QED
    BY <2>2, <2>3
<1>9. \A g \in Fibers : Waits(g)'
  <2> TAKE g \in Fibers
  <2>1. Waits(g)
    BY DEF Core
  <2>2. CASE g = f
    <3>1. exc' = [exc EXCEPT ![f] = TRUE] => exc'[f]
      BY DEF Core, CoreTypes
    <3> QED
      BY <1>3, <2>2, <3>1 DEF Waits
  <2>3. CASE g # f
    <3>1. \A j \in Ids : j[1] = g => j \notin Mine(f) /\ j # i
      BY <2>3, MineIs
    <3> QED
      BY <1>1, <1>3, <2>1, <2>3, <3>1 DEF Waits, Core, CoreTypes
  <2> QED
    BY <2>2, <2>3
<1>10. Tables'
  <2>1. \A j \in parked' : (pc[j[1]] \in {"parked", "woken"} /\ Interest(j))'
    <3> TAKE j \in parked'
    <3>1. j \in parked /\ j[1] \in Fibers
      BY MineIs DEF Core, CoreTypes
    <3> QED
      BY <1>3, <3>1 DEF Core, Tables, Interest
  <2>2. \A j \in chan' : (pc[j[1]] = "parked" /\ Earned(j))'
    <3> TAKE j \in chan'
    <3>1. j \in chan /\ j[1] \in Fibers /\ j[1] # f
      BY MineIs DEF Core, CoreTypes
    <3> QED
      BY <1>3, <3>1 DEF Core, Tables, Earned, TimeIsUp
  <2>3. \A j \in results' : j = i /\ Earned(i)
    BY <1>1 DEF Core, Tables
  <2>4. \A j \in results' : (running = j[1] /\ pc[j[1]] = "woken" /\ Interest(j) /\ Earned(j))'
    BY <1>2, <1>3, <2>3 DEF Interest, Earned, TimeIsUp
  <2> QED
    BY <2>1, <2>2, <2>4 DEF Tables
<1> QED
  BY <1>6, <1>7, <1>8, <1>9, <1>10 DEF Core

\* A fiber takes the thread from the loop, or gives it back.
LEMMA SwitchStep ==
  ASSUME Core, NEW f \in Fibers, pc[f] = "user",
         UNCHANGED <<pc, call, exc, table, reactor>>,
         \/ running = "main" /\ running' = f /\ gate' = 1 /\ ans' = ans
         \/ running = f /\ running' = "main" /\ gate' = 0 /\ ans' = [ans EXCEPT ![f] = "none"]
  PROVE  Core'
<1> USE DEF table, reactor
<1>1. results = {} /\ \A g \in Fibers : pc[g] \notin {"woken", "kernel"}
  <2>1. \A g \in Fibers : pc[g] \notin {"woken", "kernel"}
    BY NotMain DEF Core, Stands
  <2>2. \A i \in results : i[1] \in Fibers /\ pc[i[1]] = "woken"
    BY MineIs DEF Core, CoreTypes, Tables
  <2> QED
    BY <2>1, <2>2
<1>2. CoreTypes'
  BY DEF Core, CoreTypes
<1>3. GateFollowsFiber'
  BY NotMain DEF GateFollowsFiber, Runs
<1>4. \A g \in Fibers : Stands(g)'
  BY <1>1, NotMain DEF Core, Stands
<1>5. \A g \in Fibers : Waits(g)'
  BY DEF Core, Waits
<1>6. Tables'
  BY <1>1 DEF Core, Tables, Interest, Earned, TimeIsUp
<1> QED
  BY <1>2, <1>3, <1>4, <1>5, <1>6 DEF Core

LEMMA OpStep ==
  ASSUME Core, NEW i \in Ids, OpCompletes(i)
  PROVE  Core'
<1> USE DEF OpCompletes, thread, fiber, table
<1>1. CoreTypes'
  BY DEF Core, CoreTypes
<1>2. GateFollowsFiber'
  BY DEF Core, GateFollowsFiber, Runs
<1>3. \A g \in Fibers : Stands(g)'
  BY DEF Core, Stands
<1>4. \A g \in Fibers : Waits(g)'
  BY DEF Core, Waits
<1>5. Earned(i) /\ pc[i[1]] = "parked"
  BY DEF Earned
<1>6. Tables'
  BY <1>5 DEF Core, Tables, Interest, Earned, TimeIsUp
<1> QED
  BY <1>1, <1>2, <1>3, <1>4, <1>6 DEF Core

LEMMA TickStep == Core /\ Tick => Core'
<1> SUFFICES ASSUME Core, Tick PROVE Core'
  OBVIOUS
<1> USE DEF thread, table, reactor
<1>1. UNCHANGED <<running, gate, pc, exc, ans, parked, results, ops, chan>>
  BY DEF Tick
<1>2. \A g \in Fibers : /\ Sound(call[g])' /\ call'[g].on = call[g].on
                        /\ call'[g].kind = call[g].kind
                        /\ call'[g].us = call[g].us /\ call'[g].due = call[g].due
                        /\ (TimeIsUp(call[g]) => TimeIsUp(call'[g]))
                        /\ call[g] = NoCall => call'[g] = NoCall
  <2> TAKE g \in Fibers
  <2>0. Sound(call[g])
    BY DEF Core, Stands
  <2>1. CASE call[g].waited < call[g].due
    <3>1. call'[g] = [call[g] EXCEPT !.waited = @ + 1]
      BY <2>1 DEF Tick, Core, CoreTypes
    <3>2. call[g] # NoCall
      BY <2>1 DEF NoCall, Call
    <3>3. ~TimeIsUp(call[g])
      <4>1. call[g].waited \in Int /\ call[g].due \in Int
        BY <2>0, Waiting DEF Sound, CallTypes
      <4> QED
        BY <2>1, <4>1 DEF TimeIsUp
    <3> QED
      BY <2>0, <2>1, <3>1, <3>2, <3>3, TickSound
  <2>2. CASE ~(call[g].waited < call[g].due)
    <3>1. call'[g] = call[g]
      BY <2>2 DEF Tick, Core, CoreTypes
    <3> QED
      BY <2>0, <3>1
  <2> QED
    BY <2>1, <2>2
<1>3. call' \in [Fibers -> CallTypes]
  <2>1. \A g \in Fibers : call'[g] \in CallTypes
    BY <1>2 DEF Sound
  <2>2. call' = [g \in Fibers |-> call'[g]]
    BY DEF Tick
  <2> QED
    BY <2>1, <2>2
<1>4. CoreTypes'
  BY <1>1, <1>3 DEF Core, CoreTypes
<1>5. GateFollowsFiber'
  BY <1>1 DEF Core, GateFollowsFiber, Runs
<1>6. \A g \in Fibers : Stands(g)'
  BY <1>1, <1>2 DEF Core, Stands, Bounded
<1>7. \A g \in Fibers : Waits(g)'
  BY <1>1 DEF Core, Waits
<1>8. Tables'
  <2>1. \A i \in parked \cup chan \cup results : i[1] \in Fibers
    BY DEF Core, CoreTypes, Ids
  <2>2. \A i \in parked \cup chan \cup results :
          (Interest(i) => Interest(i)') /\ (Earned(i) => Earned(i)')
    BY <1>2, <2>1 DEF Interest, Earned
  <2> QED
    BY <1>1, <2>2 DEF Core, Tables
<1> QED
  BY <1>4, <1>5, <1>6, <1>7, <1>8 DEF Core

-----------------------------------------------------------------------------
(* Every action keeps it.                                                  *)

LEMMA FirstPark ==
  ASSUME Core, NEW f \in Fibers, Runs(f), NEW c, Sound(c), Bounded(c, FALSE),
         NEW b \in BOOLEAN, Park(f, c, b)
  PROVE  Core'
<1>1. running = f /\ pc[f] = "user"
  BY DEF Runs
<1>2. CASE b \/ Submit(f, c) = {}
  <2>1. parked' = parked \ Mine(f) /\ results' = results \ Mine(f) /\ ops' = ops /\ chan' = chan
    BY <1>1, <1>2, QuietTables DEF Park, table, reactor
  <2> QED
    BY <1>1, <1>2, <2>1, LeaveStep DEF Park, Block, Bounded
<1>3. CASE ~(b \/ Submit(f, c) = {})
  BY <1>1, <1>3, SuspendStep DEF Park
<1> QED
  BY <1>2, <1>3

LEMMA RealStep ==
  ASSUME Core, NEW f \in Fibers, running = f, NEW c, Sound(c), Real(f, c), chan' = chan,
         c.kind = "poll" => Bounded(c, exc[f]),
         parked' = parked \ Mine(f), results' = results \ Mine(f),
         ops' = ops \/ ops' = ops \ Mine(f)
  PROVE  Core'
<1>1. ASSUME NEW how \in {"none", "ready", "timeout"}, Return(f, how) PROVE Core'
  BY <1>1, NoCallSound, LeaveStep DEF Return, LeaveHandler
<1>2. ASSUME Block(f, c), gate' = gate PROVE Core'
  BY <1>2, LeaveStep DEF Block
<1> QED
  BY <1>1, <1>2 DEF Real

LEMMA ForwardedStep ==
  ASSUME Core, NEW f \in Fibers, Runs(f), NEW c, Sound(c), Bounded(c, FALSE), Forwarded(f, c)
  PROVE  Core'
<1>1. running = f /\ pc[f] = "user"
  BY DEF Runs
<1>2. parked' = parked \ Mine(f) /\ results' = results \ Mine(f) /\ ops' = ops /\ chan' = chan
  BY <1>1, QuietTables DEF Forwarded, table, reactor
<1> QED
  BY <1>1, <1>2, RealStep DEF Forwarded, Bounded

\* The calls the handlers start are sound.
Startable(c) == Sound(c) /\ Bounded(c, FALSE)

LEMMA MsTyped ==
  ASSUME NEW ms \in 0 .. MaxInt
  PROVE  /\ Us(ms) = ms * UsPerMs /\ Us(ms) \in 0 .. MaxULong
         /\ ms * UnitsPerMs = Us(ms) * NsPerUs
         /\ ms * UnitsPerMs \in 0 .. MaxULong * NsPerUs
<1>1. ms \in Nat /\ MaxInt \in Nat /\ ms <= MaxInt
  BY ParkConstants
<1>2. Us(ms) = ms * UsPerMs
  BY <1>1 DEF Us
<1>3. ms * UsPerMs <= MaxInt * UsPerMs /\ ms * UsPerMs \in Nat
  BY <1>1, Units, TimesMonotonic
<1>4. ms * UnitsPerMs <= MaxInt * UnitsPerMs /\ ms * UnitsPerMs \in Nat
  BY <1>1, Units, TimesMonotonic
<1>5. MaxInt * UsPerMs <= MaxULong /\ MaxULong \in Nat /\ MaxInt * UsPerMs \in Nat
  BY <1>1, Units, ParkConstants
<1>6. Us(ms) \in 0 .. MaxULong
  BY <1>2, <1>3, <1>5
<1>7. ms * UnitsPerMs = Us(ms) * NsPerUs
  BY <1>1, <1>2, Units
<1>8. ms * UnitsPerMs \in 0 .. MaxULong * NsPerUs
  BY <1>4, Units
<1> QED
  BY <1>2, <1>6, <1>7, <1>8

\* The calls the handlers start are sound.
LEMMA ForeverSound ==
  ASSUME NEW kind \in {"io", "wait", "connect", "poll", "select"}, NEW on \in SUBSET Fds
  PROVE  Startable(Call(kind, on, Forever, Forever))
<1>1. /\ Forever \in -1 .. MaxULong /\ Forever \in -1 .. MaxULong * NsPerUs
      /\ kind \in Kinds /\ ~(Forever >= 0)
  BY Units, Waiting DEF Forever, Kinds
<1> QED
  BY <1>1, CallSound DEF Startable

\* With a timeout in milliseconds.
LEMMA TimedSound ==
  ASSUME NEW kind \in {"poll", "io"}, NEW on \in SUBSET Fds, NEW ms \in 0 .. MaxInt,
         NEW asked \in 0 .. MaxInt * UnitsPerMs, asked <= ms * UnitsPerMs
  PROVE  Startable(Call(kind, on, Us(ms), asked))
<1>1. Us(ms) \in 0 .. MaxULong /\ ms * UnitsPerMs = Us(ms) * NsPerUs
  BY MsTyped
<1>2. MaxInt * UnitsPerMs <= MaxULong * NsPerUs /\ MaxInt * UnitsPerMs \in Nat /\ MaxULong * NsPerUs \in Nat
  BY Units
<1>3. asked \in -1 .. MaxULong * NsPerUs /\ Us(ms) \in -1 .. MaxULong /\ kind \in Kinds /\ asked >= 0
  BY <1>1, <1>2, Waiting DEF Kinds
<1>4. asked <= Us(ms) * NsPerUs
  BY <1>1
<1> QED
  BY <1>3, <1>4, CallSound DEF Startable

LEMMA IoSound ==
  ASSUME NEW fd \in Fds
  PROVE  LET timeout == sock_timeout_ms(fd)
             c == IF timeout = 0 THEN Call("io", {fd}, Forever, Forever)
                  ELSE Call("io", {fd}, Us(timeout), timeout * UnitsPerMs)
         IN  Startable(c)
<1>1. sock_timeout_ms(fd) \in 0 .. MaxInt /\ MaxInt \in Nat
  BY ParkConstants DEF sock_timeout_ms
<1>2. /\ sock_timeout_ms(fd) * UnitsPerMs <= MaxInt * UnitsPerMs
      /\ sock_timeout_ms(fd) * UnitsPerMs \in Nat /\ MaxInt * UnitsPerMs \in Nat
  BY <1>1, Units, TimesMonotonic
<1>3. sock_timeout_ms(fd) * UnitsPerMs \in 0 .. MaxInt * UnitsPerMs
  BY <1>2
<1>4. {fd} \in SUBSET Fds
  OBVIOUS
<1>5. Startable(Call("io", {fd}, Forever, Forever))
  BY <1>4, ForeverSound
<1>6. Startable(Call("io", {fd}, Us(sock_timeout_ms(fd)), sock_timeout_ms(fd) * UnitsPerMs))
  BY <1>1, <1>2, <1>3, <1>4, TimedSound
<1> QED
  BY <1>5, <1>6

LEMMA SelectSound ==
  ASSUME NEW on \in SUBSET Fds, NEW ms \in 0 .. MaxInt
  PROVE  Startable(Call("select", on, Us(ms), Forever))
<1>1. /\ Us(ms) \in -1 .. MaxULong /\ Forever \in -1 .. MaxULong * NsPerUs /\ "select" \in Kinds
  BY MsTyped, Units, Waiting DEF Forever, Kinds
<1> QED
  BY <1>1, CallSound DEF Startable

LEMMA SleepSound ==
  ASSUME NEW us \in 0 .. MaxULong, NEW asked \in 0 .. MaxULong * NsPerUs, asked <= (us + 1) * NsPerUs
  PROVE  Startable(Call("sleep", {}, us, asked))
<1>1. /\ us \in -1 .. MaxULong /\ asked \in -1 .. MaxULong * NsPerUs /\ asked >= 0
      /\ "sleep" \in Kinds /\ {} \in SUBSET Fds
  BY Units, Waiting DEF Kinds
<1> QED
  BY <1>1, CallSound DEF Startable

LEMMA FlockSound ==
  ASSUME NEW us \in 1 .. FlockMax
  PROVE  LET c == Call("flock", {}, us, Forever)
         IN  Startable(c) /\ \A f : Submit(f, c) # {}
<1> DEFINE c == Call("flock", {}, us, Forever)
<1>1. us \in -1 .. MaxULong /\ Forever \in -1 .. MaxULong * NsPerUs /\ "flock" \in Kinds
  BY ParkConstants, Units DEF Forever, Kinds
<1>2. {} \in SUBSET Fds
  OBVIOUS
<1>3. Startable(c) /\ c.us = us
  <2>1. ASSUME NEW kind \in {"flock"} PROVE Startable(Call(kind, {}, us, Forever))
    <3>1. kind \in Kinds /\ kind \notin {"sleep", "poll", "io"}
      BY <1>1
    <3> QED
      BY <1>1, <1>2, <3>1, CallSound DEF Startable
  <2> QED
    BY <2>1 DEF Call
<1>4. us >= 0
  BY ParkConstants
<1> HIDE DEF c
<1>5. \A f : <<f, Timer>> \in Submit(f, c)
  BY <1>3, <1>4 DEF Submit
<1> QED
  BY <1>3, <1>5 DEF c

LEMMA IoCallStep ==
  ASSUME Core, NEW f \in Fibers, NEW fd \in Fds, NEW listed \in BOOLEAN, IoCall(f, fd, listed)
  PROVE  Core'
<1> DEFINE timeout == sock_timeout_ms(fd)
           c == IF timeout = 0 THEN Call("io", {fd}, Forever, Forever)
                ELSE Call("io", {fd}, Us(timeout), timeout * UnitsPerMs)
<1>1. Sound(c) /\ Bounded(c, FALSE)
  BY IoSound DEF Startable
<1>2. Runs(f) /\ ((\E b \in BOOLEAN : Park(f, c, b)) \/ Forwarded(f, c))
  BY DEF IoCall, Calls, ParkOrBlock
<1> HIDE DEF c
<1> QED
  BY <1>1, <1>2, FirstPark, ForwardedStep

LEMMA PollCallStep ==
  ASSUME Core, NEW f \in Fibers, NEW kind, NEW on, NEW ms, NEW asked, NEW listed \in BOOLEAN,
         Startable(Call(kind, on, Us(ms), asked)),
         PollCall(f, kind, on, ms, asked, listed)
  PROVE  Core'
<1> DEFINE c == Call(kind, on, Us(ms), asked)
<1>1. Runs(f) /\ ((\E b \in BOOLEAN : Park(f, c, b)) \/ Forwarded(f, c))
  BY DEF PollCall, Calls, ParkOrBlock
<1> HIDE DEF c
<1>2. Sound(c) /\ Bounded(c, FALSE)
  BY DEF c, Startable
<1> QED
  BY <1>1, <1>2, FirstPark, ForwardedStep

\* The handlers up to their first suspension.
LEMMA CallsStep ==
  ASSUME Core, NEW f \in Fibers,
         \/ DataCall(f) \/ MessageCall(f) \/ VectorCall(f) \/ WaitPid(f) \/ Poll(f)
         \/ PPoll(f) \/ Select(f) \/ USleep(f) \/ Sleep(f) \/ NanoSleep(f) \/ Connect(f) \/ Flock(f) \/ Unlock(f)
  PROVE  Core'
<1>0. /\ Connected \cup Pollable \subseteq Fds /\ Polled \subseteq SUBSET Fds
      /\ Seconds \subseteq Nat /\ SubSeconds \subseteq 0 .. MaxULong /\ SubSeconds \subseteq Nat
      /\ 0 \in Nat
      /\ FlockFirst \in 1 .. FlockMax
  BY ParkConstants
<1>1. CASE DataCall(f) \/ MessageCall(f) \/ VectorCall(f)
  BY <1>0, <1>1, IoCallStep DEF DataCall, MessageCall, VectorCall
<1>2. CASE WaitPid(f)
  <2>1. PICK pidfd \in Pollable, listed \in BOOLEAN :
          LET c == Call("wait", {pidfd}, Forever, Forever) IN
          /\ Runs(f)
          /\ (\E b \in BOOLEAN : Park(f, c, b)) \/ Forwarded(f, c)
    BY <1>2 DEF WaitPid, Calls, ParkOrBlock
  <2> DEFINE c == Call("wait", {pidfd}, Forever, Forever)
  <2>2. Sound(c) /\ Bounded(c, FALSE)
    BY <1>0, ForeverSound DEF Startable
  <2> HIDE DEF c
  <2>3. Runs(f) /\ ((\E b \in BOOLEAN : Park(f, c, b)) \/ Forwarded(f, c))
    BY <2>1 DEF c
  <2> QED
    BY <2>2, <2>3, FirstPark, ForwardedStep
<1>3. CASE Poll(f)
  <2>1. PICK on \in Polled, ms \in {Forever} \cup {milliseconds_ceil(s, 0) : s \in Seconds},
             listed \in BOOLEAN :
          PollCall(f, "poll", on, ms, IF ms = Forever THEN Forever ELSE ms * UnitsPerMs, listed)
    BY <1>3 DEF Poll
  <2>2. CASE ms = Forever
    <3>1. Us(Forever) = Forever
      BY DEF Us, Forever
    <3> QED
      BY <1>0, <2>1, <2>2, <3>1, ForeverSound, PollCallStep
  <2>3. ASSUME NEW s \in Seconds, ms = milliseconds_ceil(s, 0) PROVE Core'
    <3>1. s \in Nat /\ on \in SUBSET Fds
      BY <1>0
    <3>2. ms \in 0 .. MaxInt
      BY <1>0, <2>3, <3>1, CeilCovers
    <3>3. ms # Forever /\ ms \in Nat /\ ms <= MaxInt /\ MaxInt \in Nat
      BY <3>2, ParkConstants DEF Forever
    <3>4. /\ ms * UnitsPerMs <= MaxInt * UnitsPerMs /\ ms * UnitsPerMs \in Nat
          /\ MaxInt * UnitsPerMs \in Nat
      BY <3>3, Units, TimesMonotonic
    <3>5. ms * UnitsPerMs \in 0 .. MaxInt * UnitsPerMs
      BY <3>4
    <3>6. Startable(Call("poll", on, Us(ms), ms * UnitsPerMs))
      BY <3>1, <3>2, <3>4, <3>5, TimedSound
    <3>7. PollCall(f, "poll", on, ms, ms * UnitsPerMs, listed)
      BY <2>1, <3>3
    <3> QED
      BY <3>6, <3>7, PollCallStep
  <2> QED
    BY <2>1, <2>2, <2>3
<1>4. CASE PPoll(f)
  <2>1. PICK on \in Polled, s \in Seconds, sub \in SubSeconds, listed \in BOOLEAN :
          PollCall(f, "poll", on, milliseconds_ceil(s, sub), Asked(s, sub, MaxInt * UnitsPerMs), listed)
    BY <1>4 DEF PPoll
  <2>2. on \in SUBSET Fds /\ s \in Nat /\ sub \in Nat
    BY <1>0
  <2>3. Startable(Call("poll", on, Us(milliseconds_ceil(s, sub)), Asked(s, sub, MaxInt * UnitsPerMs)))
    BY <2>2, CeilCovers, TimedSound
  <2> QED
    BY <2>1, <2>3, PollCallStep
<1>5. CASE Select(f)
  <2>1. PICK on \in Polled, s \in Seconds, sub \in SubSeconds, null \in BOOLEAN, listed \in BOOLEAN :
          PollCall(f, "select", on, IF null THEN Forever ELSE milliseconds_ceil(s, sub), Forever, listed)
    BY <1>5 DEF Select
  <2>2. on \in SUBSET Fds /\ s \in Nat /\ sub \in Nat
    BY <1>0
  <2>3. CASE null
    <3>1. Us(Forever) = Forever
      BY DEF Us, Forever
    <3> QED
      BY <2>1, <2>2, <2>3, <3>1, ForeverSound, PollCallStep
  <2>4. CASE ~null
    <3>1. Startable(Call("select", on, Us(milliseconds_ceil(s, sub)), Forever))
      BY <2>2, CeilCovers, SelectSound
    <3> QED
      BY <2>1, <2>4, <3>1, PollCallStep
  <2> QED
    BY <2>3, <2>4
<1>6. ASSUME NEW c, Sound(c), Bounded(c, FALSE), Runs(f),
             (\E b \in BOOLEAN : Park(f, c, b)) \/ (Block(f, c) /\ UNCHANGED <<gate, table, reactor>>)
      PROVE  Core'
  <2>1. CASE Block(f, c) /\ UNCHANGED <<gate, table, reactor>>
    <3>1. running = f /\ pc[f] = "user"
      BY <1>6 DEF Runs
    <3>2. parked' = parked \ Mine(f) /\ results' = results \ Mine(f) /\ ops' = ops /\ chan' = chan
      BY <2>1, <3>1, QuietTables DEF table, reactor
    <3> QED
      BY <1>6, <2>1, <3>1, <3>2, LeaveStep DEF Block, Bounded
  <2> QED
    BY <1>6, <2>1, FirstPark
<1>8. ASSUME NEW how \in {"none", "ready", "timeout"}, Runs(f), Return(f, how),
             UNCHANGED <<table, reactor>>
      PROVE  Core'
  <2>1. running = f /\ pc[f] = "user"
    BY <1>8 DEF Runs
  <2>2. parked' = parked \ Mine(f) /\ results' = results \ Mine(f) /\ ops' = ops /\ chan' = chan
    BY <1>8, <2>1, QuietTables DEF table, reactor
  <2> QED
    BY <1>8, <2>1, <2>2, NoCallSound, LeaveStep DEF Return, LeaveHandler
<1>7. CASE USleep(f) \/ Sleep(f) \/ NanoSleep(f)
  <2>1. ASSUME NEW us \in 0 .. MaxULong, NEW asked \in 0 .. MaxULong * NsPerUs,
               asked <= (us + 1) * NsPerUs, NEW listed \in BOOLEAN, SleepCall(f, us, asked, listed)
        PROVE  Core'
    <3> DEFINE c == Call("sleep", {}, us, asked)
    <3>1. Sound(c) /\ Bounded(c, FALSE)
      BY <2>1, SleepSound DEF Startable
    <3>2. /\ Runs(f)
          /\ (\E b \in BOOLEAN : Park(f, c, b)) \/ (Block(f, c) /\ UNCHANGED <<gate, table, reactor>>)
      BY <2>1 DEF SleepCall, Calls, ParkOrBlock
    <3> HIDE DEF c
    <3> QED
      BY <1>6, <3>1, <3>2
  <2>2. CASE USleep(f)
    <3>1. PICK us \in SubSeconds, listed \in BOOLEAN : SleepCall(f, us, us * NsPerUs, listed)
      BY <2>2 DEF USleep
    <3>2. us \in 0 .. MaxULong /\ us \in Nat /\ us <= MaxULong /\ MaxULong \in Nat /\ us + 1 \in Nat
          /\ us <= us + 1 /\ NsPerUs \in Nat
      BY <1>0, Units, Waiting
    <3>3. us * NsPerUs <= MaxULong * NsPerUs /\ us * NsPerUs \in Nat
      BY <3>2, TimesMonotonic
    <3>4. us * NsPerUs <= (us + 1) * NsPerUs
      BY <3>2, TimesMonotonic
    <3>5. us * NsPerUs \in 0 .. MaxULong * NsPerUs
      BY <3>3, Units
    <3> QED
      BY <2>1, <3>1, <3>2, <3>4, <3>5
  <2>3. CASE Sleep(f)
    <3>1. PICK s \in Seconds, listed \in BOOLEAN :
            SleepCall(f, microseconds_of(s, 0), Asked(s, 0, MaxULong * NsPerUs), listed)
      BY <2>3 DEF Sleep
    <3>2. s \in Nat
      BY <1>0
    <3> QED
      BY <1>0, <2>1, <3>1, <3>2, SleepCovers
  <2>4. CASE NanoSleep(f)
    <3>1. PICK s \in Seconds, sub \in SubSeconds, listed \in BOOLEAN :
            \/ SleepCall(f, microseconds_of(s, sub), Asked(s, sub, MaxULong * NsPerUs), listed)
            \/ Runs(f) /\ Return(f, "ready") /\ UNCHANGED <<table, reactor>>
      BY <2>4 DEF NanoSleep, Calls
    <3>2. s \in Nat /\ sub \in Nat
      BY <1>0
    <3>3. CASE SleepCall(f, microseconds_of(s, sub), Asked(s, sub, MaxULong * NsPerUs), listed)
      BY <2>1, <3>2, <3>3, SleepCovers
    <3> QED
      BY <1>8, <3>1, <3>3
  <2> QED
    BY <1>7, <2>2, <2>3, <2>4
<1>9. CASE Connect(f)
  <2>1. PICK fd \in Fds :
          LET c == Call("connect", {fd}, Forever, Forever) IN
          /\ Runs(f)
          /\ \/ \E b \in BOOLEAN : Park(f, c, b)
             \/ Return(f, "ready") /\ UNCHANGED <<table, reactor>>
    BY <1>9 DEF Connect, Calls
  <2> DEFINE c == Call("connect", {fd}, Forever, Forever)
  <2>2. Sound(c) /\ Bounded(c, FALSE)
    BY ForeverSound DEF Startable
  <2> HIDE DEF c
  <2>3. /\ Runs(f)
        /\ (\E b \in BOOLEAN : Park(f, c, b)) \/ (Return(f, "ready") /\ UNCHANGED <<table, reactor>>)
    BY <2>1 DEF c
  <2> QED
    BY <1>8, <2>2, <2>3, FirstPark
<1>10. CASE Flock(f)
  <2> DEFINE c == Call("flock", {}, FlockFirst, Forever)
  <2>1. Sound(c) /\ Bounded(c, FALSE)
    BY <1>0, FlockSound DEF Startable
  <2>2. /\ Runs(f)
        /\ \/ Return(f, "ready") /\ UNCHANGED <<table, reactor>>
           \/ \E b \in BOOLEAN : Park(f, c, b)
           \/ Block(f, c) /\ UNCHANGED <<gate, table, reactor>>
    BY <1>10 DEF Flock, Calls, ParkOrBlock
  <2> HIDE DEF c
  <2> QED
    BY <1>6, <1>8, <2>1, <2>2
<1>11. CASE Unlock(f)
  <2>1. UNCHANGED <<running, gate, pc, call, exc, ans, parked, results, ops, chan>>
    BY <1>11 DEF Unlock, thread, fiber, table, reactor
  <2> QED
    BY <2>1 DEF Core, CoreTypes, GateFollowsFiber, Runs, Stands, Waits, Tables, Interest, Earned,
                TimeIsUp
<1> QED
  BY <1>1, <1>2, <1>3, <1>4, <1>5, <1>7, <1>9, <1>10, <1>11

\* After the suspension.
LEMMA WokenStep ==
  ASSUME Core, NEW f \in Fibers, Woken(f)
  PROVE  Core'
<1>1. running = f /\ pc[f] = "woken" /\ Sound(call[f]) /\ Bounded(call[f], FALSE)
  BY DEF Woken, PollWoken, SelectWoken, IoWoken, WaitWoken, SleepWoken, ConnectWoken,
         FlockWoken, Wakes, Core, Stands
<1>2. ASSUME Finish(f)
      PROVE  /\ parked' = parked \ Mine(f) /\ results' = results \ Mine(f)
             /\ ops' = ops \ Mine(f) /\ chan' = chan
  BY <1>2 DEF Finish, Unparked, Taken
<1>3. ASSUME Finish(f), NEW how \in {"none", "ready", "timeout"}, Return(f, how) PROVE Core'
  BY <1>1, <1>2, <1>3, NoCallSound, LeaveStep DEF Return, LeaveHandler
<1>4. ASSUME Finish(f), NEW c, Sound(c), Real(f, c), c.kind = "poll" => Bounded(c, exc[f])
      PROVE  Core'
  BY <1>1, <1>2, <1>4, RealStep
<1>5. ASSUME Finish(f), NEW c, Sound(c), Block(f, c), gate' = gate, c.kind # "poll"
      PROVE  Core'
  BY <1>1, <1>2, <1>5, LeaveStep DEF Block
<1>6. CASE PollWoken(f)
  <2>1. CASE /\ ~(call[f].us >= 0 /\ Left(call[f]) <= 0) /\ ~ByTimer(f) /\ ~Unwound(f)
             /\ Suspend(f, Again(call[f]))
    <3>1. PICK i \in results : i[1] = f
      BY <1>1, <2>1 DEF Core, Waits, Unwound
    <3>2. i[2] # Timer /\ i[2] \in call[f].on
      <4>1. i = <<f, i[2]>> /\ i[2] \in call[f].on \cup {Timer}
        BY <3>1 DEF Core, CoreTypes, Ids, Tables, Interest
      <4> QED
        BY <2>1, <4>1 DEF ByTimer
    <3>3. Sound(Again(call[f])) /\ Bounded(Again(call[f]), FALSE) /\ Again(call[f]).on = call[f].on
      BY <1>1, <2>1, AgainSound
    <3>4. <<f, i[2]>> \in Submit(f, Again(call[f]))
      BY <3>2, <3>3 DEF Submit
    <3> QED
      BY <1>1, <2>1, <3>3, <3>4, SuspendStep
  <2>2. CASE Unwound(f) /\ Real(f, Afresh(call[f])) /\ Finish(f)
    <3>1. Sound(Afresh(call[f])) /\ Bounded(Afresh(call[f]), TRUE)
      BY <1>1, AfreshSound
    <3>2. exc[f] = TRUE
      BY <2>2 DEF Unwound, Core, CoreTypes
    <3> QED
      BY <1>4, <2>2, <3>1, <3>2
  <2>3. CASE PollAnswers(f)
    BY <1>3, <2>3 DEF PollAnswers
  <2> QED
    BY <1>6, <2>1, <2>2, <2>3 DEF PollWoken
<1>7. CASE SelectWoken(f) \/ IoWoken(f)
  <2>1. call[f].kind # "poll" /\ Finish(f)
    BY <1>7 DEF SelectWoken, IoWoken, Wakes
  <2>2. Sound(Afresh(call[f])) /\ Afresh(call[f]).kind # "poll"
    BY <1>1, <2>1, AfreshSound
  <2>3. (\E how \in {"none", "ready", "timeout"} : Return(f, how)) \/ Real(f, Afresh(call[f]))
    BY <1>7 DEF SelectWoken, IoWoken
  <2> QED
    BY <1>3, <1>4, <2>1, <2>2, <2>3
<1>8. CASE WaitWoken(f)
  BY <1>1, <1>4, <1>8 DEF WaitWoken, Wakes
<1>9. CASE SleepWoken(f)
  <2>1. Sound(Afresh(call[f])) /\ Afresh(call[f]).kind # "poll" /\ Finish(f)
    BY <1>1, <1>9, AfreshSound DEF SleepWoken, Wakes
  <2> QED
    BY <1>3, <1>5, <1>9, <2>1 DEF SleepWoken
<1>10. CASE ConnectWoken(f)
  BY <1>1, <1>3, <1>5, <1>10 DEF ConnectWoken, Wakes
<1>11. CASE FlockWoken(f)
  <2> DEFINE c == Call("flock", {}, Backoff(call[f].us), Forever)
  <2>1. Backoff(call[f].us) \in 1 .. FlockMax
    <3>1. call[f].us \in 1 .. FlockMax /\ FlockMax \in Nat
      BY <1>1, <1>11, ParkConstants DEF FlockWoken, Wakes, Sound
    <3> QED
      BY <3>1 DEF Backoff, Lesser
  <2>2. Sound(c) /\ Bounded(c, FALSE) /\ Submit(f, c) # {}
    BY <2>1, FlockSound DEF Startable
  <2>3. CASE Suspend(f, c)
    BY <1>1, <2>2, <2>3, SuspendStep
  <2> HIDE DEF c
  <2>4. \/ Finish(f) /\ Return(f, "ready")
        \/ Suspend(f, c)
        \/ Finish(f) /\ Block(f, call[f]) /\ gate' = gate /\ call[f].kind = "flock"
    BY <1>11 DEF FlockWoken, Wakes, c
  <2> QED
    BY <1>1, <1>3, <1>5, <2>3, <2>4
<1> QED
  BY <1>6, <1>7, <1>8, <1>9, <1>10, <1>11 DEF Woken

LEMMA CoreUnchanged ==
  ASSUME Core, UNCHANGED <<running, gate, pc, call, exc, ans, parked, results, ops, chan>>
  PROVE  Core'
BY DEF Core, CoreTypes, GateFollowsFiber, Runs, Stands, Waits, Tables, Interest, Earned, TimeIsUp

LEMMA DeliverStep == Core /\ Deliver => Core'
<1> SUFFICES ASSUME Core, Deliver PROVE Core'
  OBVIOUS
<1>1. PICK i \in chan :
        /\ running = "main"
        /\ IF i \in parked
           THEN resume_parked(i[1], i) /\ chan' = chan \ Mine(i[1])
           ELSE UNCHANGED <<thread, fiber, table>> /\ chan' = chan \ {i}
        /\ UNCHANGED <<ops, kernel>>
  BY DEF Deliver
<1>2. i[1] \in Fibers
  BY DEF Core, CoreTypes, Ids
<1>3. CASE i \in parked
  <2>1. i[1] # "main"
    BY <1>2, NotMain
  <2> QED
    BY <1>1, <1>2, <1>3, <2>1, WakeStep DEF resume_parked, on_switch
<1>4. CASE i \notin parked
  <2>1. /\ UNCHANGED <<running, gate, pc, call, exc, ans, parked, results, ops>>
        /\ chan' = chan \ {i}
    BY <1>1, <1>4 DEF thread, fiber, table
  <2>2. CoreTypes' /\ GateFollowsFiber'
    BY <2>1 DEF Core, CoreTypes, GateFollowsFiber, Runs
  <2>3. \A f \in Fibers : Stands(f)' /\ Waits(f)'
    BY <1>4, <2>1 DEF Core, Stands, Waits
  <2>4. Tables'
    BY <2>1 DEF Core, Tables, Interest, Earned, TimeIsUp
  <2> QED
    BY <2>2, <2>3, <2>4 DEF Core
<1> QED
  BY <1>3, <1>4

LEMMA CoreStep == Core /\ [Next]_vars => Core'
<1> SUFFICES ASSUME Core, [Next]_vars PROVE Core'
  OBVIOUS
<1>1. ASSUME NEW f \in Fibers, cancel_parked_any(f) PROVE Core'
  <2>1. PICK i \in parked \cap Mine(f) : parked' = parked \ {i}
    BY <1>1 DEF cancel_parked_any
  <2>2. i[1] = f /\ f # "main"
    BY <2>1, MineIs, NotMain DEF Core, CoreTypes
  <2> QED
    BY <1>1, <2>1, <2>2, WakeStep DEF cancel_parked_any, on_switch
<1>2. ASSUME NEW f \in Fibers, SwitchTo(f) \/ Yield(f) PROVE Core'
  <2>1. f # "main"
    BY NotMain
  <2> QED
    BY <1>2, <2>1, SwitchStep DEF SwitchTo, Yield, Runs, on_switch, fiber
<1>3. ASSUME NEW f \in Fibers, KernelReturns(f) PROVE Core'
  <2>1. running = f /\ pc[f] = "kernel"
    BY <1>3 DEF KernelReturns, Core, Stands
  <2>2. parked' = parked \ Mine(f) /\ results' = results \ Mine(f) /\ ops' = ops /\ chan' = chan
    BY <1>3, <2>1, QuietTables DEF KernelReturns, table, reactor
  <2>3. PICK how \in {"ready", "timeout"} : Return(f, how)
    BY <1>3 DEF KernelReturns
  <2> QED
    BY <2>1, <2>2, <2>3, NoCallSound, LeaveStep DEF Return, LeaveHandler
<1>4. ASSUME NEW fd \in Fds, Readiness(fd) PROVE Core'
  BY <1>4, CoreUnchanged DEF Readiness, thread, fiber, table, reactor
<1>5. CASE UNCHANGED vars
  BY <1>5, CoreUnchanged DEF vars, thread, fiber, table, reactor
<1> QED
  BY <1>1, <1>2, <1>3, <1>4, <1>5, CallsStep, WokenStep, DeliverStep, OpStep, TickStep DEF Next

\* The invariant holds in every reachable state.
LEMMA CoreCorrect == Spec => []Core
BY InitCore, CoreStep, PTL DEF Spec

(***************************************************************************)
(* Nothing parks outside a fiber: through every resume, return, exception  *)
(* and nested handler the gate is 0 exactly while {main} runs, and 1 again *)
(* when PHP code of a fiber runs.                                          *)
(***************************************************************************)
THEOREM GateAlwaysFollows == Spec => []GateFollowsFiber
<1>1. Core => GateFollowsFiber
  BY DEF Core
<1> QED
  BY <1>1, CoreCorrect, PTL

-----------------------------------------------------------------------------
(* The descriptors.                                                        *)

KernelInv ==
  /\ ready \subseteq Fds /\ nonblock \subseteq Fds /\ holder \in Fibers \cup {Nobody}
  /\ FlagRestored

\* A step of f leaves every other fiber where it is.
Alone(f) == \A g \in Fibers : g # f => pc'[g] = pc[g] /\ call'[g] = call[g]

LEMMA FlagKept ==
  ASSUME FlagRestored, NEW f \in Fibers, Alone(f), nonblock' \subseteq nonblock,
         pc[f] \in {"user", "kernel"} \/ call[f].kind # "connect"
  PROVE  FlagRestored'
BY DEF FlagRestored, Alone

LEMMA ParkFrame ==
  ASSUME Core, NEW f \in Fibers, NEW c, NEW b, Park(f, c, b)
  PROVE  Alone(f)
BY DEF Core, CoreTypes, Park, Suspend, Block, Alone

LEMMA ReturnFrame ==
  ASSUME Core, NEW f \in Fibers, NEW how, Return(f, how)
  PROVE  Alone(f) /\ call'[f] = NoCall /\ ans'[f] = how
BY DEF Core, CoreTypes, Return, Alone

LEMMA BlockFrame ==
  ASSUME Core, NEW f \in Fibers, NEW c, Block(f, c)
  PROVE  Alone(f) /\ call'[f] = c /\ ans'[f] = "none"
BY DEF Core, CoreTypes, Block, Alone

LEMMA RealFrame ==
  ASSUME Core, KernelInv, NEW f \in Fibers, NEW c, Real(f, c)
  PROVE  Alone(f) /\ nonblock' = nonblock /\ holder' = holder /\ ready' \subseteq Fds
<1>1. Alone(f)
  BY ReturnFrame, BlockFrame DEF Real
<1>2. nonblock' = nonblock /\ holder' = holder /\ ready' \subseteq ready
  BY DEF Real, kernel
<1> QED
  BY <1>1, <1>2 DEF KernelInv

\* What a call leaves of the descriptors; only a connect that parks sets a
\* flag, and the descriptor is in its call.
LEMMA CallsFrame ==
  ASSUME Core, KernelInv, NEW f \in Fibers,
         \/ DataCall(f) \/ MessageCall(f) \/ VectorCall(f) \/ WaitPid(f) \/ Poll(f)
         \/ PPoll(f) \/ Select(f) \/ USleep(f) \/ Sleep(f) \/ NanoSleep(f) \/ Flock(f) \/ Unlock(f)
  PROVE  /\ Alone(f) /\ pc[f] = "user" /\ nonblock' = nonblock
         /\ ready' \subseteq Fds /\ holder' \in Fibers \cup {Nobody}
<1>0. ready \subseteq Fds /\ holder \in Fibers \cup {Nobody}
  BY DEF KernelInv
<1>2. ASSUME NEW c, (ParkOrBlock(f, c) /\ UNCHANGED kernel) \/ Forwarded(f, c)
      PROVE  Alone(f) /\ nonblock' = nonblock /\ holder' = holder /\ ready' \subseteq Fds
  <2>1. CASE ParkOrBlock(f, c) /\ UNCHANGED kernel
    BY <1>0, <2>1, ParkFrame DEF ParkOrBlock, kernel
  <2>2. CASE Forwarded(f, c)
    BY <2>2, RealFrame DEF Forwarded
  <2> QED
    BY <1>2, <2>1, <2>2
<1>3. ASSUME NEW fd, NEW listed, IoCall(f, fd, listed)
      PROVE  Alone(f) /\ pc[f] = "user" /\ nonblock' = nonblock /\ holder' = holder /\ ready' \subseteq Fds
  BY <1>2, <1>3 DEF IoCall, Calls, Runs
<1>4. ASSUME NEW kind, NEW on, NEW ms, NEW asked, NEW listed, PollCall(f, kind, on, ms, asked, listed)
      PROVE  Alone(f) /\ pc[f] = "user" /\ nonblock' = nonblock /\ holder' = holder /\ ready' \subseteq Fds
  BY <1>2, <1>4 DEF PollCall, Calls, Runs
<1>5. CASE DataCall(f) \/ MessageCall(f) \/ VectorCall(f)
  BY <1>0, <1>3, <1>5 DEF DataCall, MessageCall, VectorCall
<1>6. CASE WaitPid(f)
  BY <1>0, <1>2, <1>6 DEF WaitPid, Calls, Runs
<1>7. CASE Poll(f) \/ PPoll(f) \/ Select(f)
  BY <1>0, <1>4, <1>7 DEF Poll, PPoll, Select
<1>8. CASE USleep(f) \/ Sleep(f) \/ NanoSleep(f)
  <2>1. PICK c : ParkOrBlock(f, c) \/ Block(f, c) \/ Return(f, "ready")
    BY <1>8 DEF USleep, Sleep, NanoSleep, SleepCall
  <2>2. Alone(f)
    BY <2>1, ParkFrame, BlockFrame, ReturnFrame DEF ParkOrBlock
  <2>3. UNCHANGED kernel /\ pc[f] = "user"
    BY <1>8 DEF USleep, Sleep, NanoSleep, SleepCall, Calls, Runs
  <2> QED
    BY <1>0, <2>2, <2>3 DEF kernel
<1>9. CASE Flock(f)
  <2>1. PICK c : ParkOrBlock(f, c) \/ Block(f, c) \/ Return(f, "ready")
    BY <1>9 DEF Flock
  <2>2. Alone(f)
    BY <2>1, ParkFrame, BlockFrame, ReturnFrame DEF ParkOrBlock
  <2>3. holder' \in {holder, f} /\ UNCHANGED <<ready, nonblock>> /\ pc[f] = "user"
    BY <1>9 DEF Flock, Calls, Runs
  <2> QED
    BY <1>0, <2>2, <2>3
<1>10. CASE Unlock(f)
  BY <1>0, <1>10 DEF Unlock, Alone, fiber, Runs
<1> QED
  BY <1>5, <1>6, <1>7, <1>8, <1>9, <1>10

LEMMA WokenFrame ==
  ASSUME Core, KernelInv, NEW f \in Fibers, Woken(f)
  PROVE  /\ Alone(f) /\ pc[f] = "woken" /\ ready' \subseteq Fds /\ holder' \in Fibers \cup {Nobody}
         /\ \/ nonblock' = nonblock /\ call[f].kind # "connect"
            \/ nonblock' = nonblock \ call[f].on
<1>0. ready \subseteq Fds /\ holder \in Fibers \cup {Nobody}
  BY DEF KernelInv
<1>1. pc[f] = "woken"
  BY DEF Woken, PollWoken, SelectWoken, IoWoken, WaitWoken, SleepWoken, ConnectWoken,
         FlockWoken, Wakes
<1>2. ASSUME NEW c, Suspend(f, c) PROVE Alone(f)
  BY <1>2 DEF Suspend, Alone, Core, CoreTypes
<1>3. CASE PollWoken(f)
  BY <1>0, <1>1, <1>2, <1>3, ReturnFrame, RealFrame DEF PollWoken, PollAnswers, Wakes, kernel
<1>4. CASE SelectWoken(f) \/ IoWoken(f) \/ WaitWoken(f)
  BY <1>0, <1>1, <1>4, ReturnFrame, RealFrame DEF SelectWoken, IoWoken, WaitWoken, Wakes, kernel
<1>5. CASE SleepWoken(f)
  BY <1>0, <1>1, <1>5, ReturnFrame, BlockFrame DEF SleepWoken, Wakes, kernel
<1>6. CASE ConnectWoken(f)
  BY <1>0, <1>1, <1>6, ReturnFrame, BlockFrame DEF ConnectWoken
<1>7. CASE FlockWoken(f)
  <2>1. Alone(f)
    BY <1>2, <1>7, ReturnFrame, BlockFrame DEF FlockWoken
  <2>2. holder' \in {holder, f} /\ UNCHANGED <<ready, nonblock>> /\ call[f].kind = "flock"
    BY <1>7 DEF FlockWoken, Wakes
  <2> QED
    BY <1>0, <1>1, <2>1, <2>2
<1> QED
  BY <1>3, <1>4, <1>5, <1>6, <1>7 DEF Woken

LEMMA KernelStep == Core /\ KernelInv /\ [Next]_vars => KernelInv'
<1> SUFFICES ASSUME Core, KernelInv, [Next]_vars PROVE KernelInv'
  OBVIOUS
<1>0. ready \subseteq Fds /\ holder \in Fibers \cup {Nobody} /\ nonblock \subseteq Fds /\ FlagRestored
  BY DEF KernelInv
<1>1. ASSUME NEW f \in Fibers,
             \/ DataCall(f) \/ MessageCall(f) \/ VectorCall(f) \/ WaitPid(f) \/ Poll(f)
             \/ PPoll(f) \/ Select(f) \/ USleep(f) \/ Sleep(f) \/ NanoSleep(f) \/ Flock(f) \/ Unlock(f)
      PROVE  KernelInv'
  BY <1>0, <1>1, CallsFrame, FlagKept DEF KernelInv
<1>2. ASSUME NEW f \in Fibers, Connect(f) PROVE KernelInv'
  <2>1. PICK fd \in Fds :
          LET c == Call("connect", {fd}, Forever, Forever) IN
          /\ pc[f] = "user" /\ UNCHANGED <<ready, holder>>
          /\ \/ /\ Park(f, c, FALSE) /\ nonblock' = nonblock \cup {fd}
             \/ Park(f, c, TRUE) /\ nonblock' = nonblock
             \/ Return(f, "ready") /\ nonblock' = nonblock
    BY <1>2 DEF Connect, Calls, Runs, kernel
  <2> DEFINE c == Call("connect", {fd}, Forever, Forever)
  <2>2. CASE Park(f, c, FALSE) /\ nonblock' = nonblock \cup {fd}
    <3>1. <<f, fd>> \in Submit(f, c) /\ c.kind = "connect" /\ c.on = {fd}
      BY DEF Submit, Call
    <3>2. Suspend(f, c)
      BY <2>2, <3>1 DEF Park
    <3>3. pc'[f] = "parked" /\ call'[f] = c
      BY <3>2 DEF Suspend, Core, CoreTypes
    <3>4. Alone(f)
      BY <2>2, ParkFrame
    <3> HIDE DEF c
    <3>5. FlagRestored'
      BY <1>0, <2>1, <2>2, <3>1, <3>3, <3>4 DEF FlagRestored, Alone
    <3> QED
      BY <1>0, <2>1, <2>2, <3>5 DEF KernelInv
  <2>3. CASE nonblock' = nonblock /\ (Park(f, c, TRUE) \/ Return(f, "ready"))
    BY <1>0, <2>1, <2>3, ParkFrame, ReturnFrame, FlagKept DEF KernelInv
  <2> QED
    BY <2>1, <2>2, <2>3
<1>3. ASSUME NEW f \in Fibers, Woken(f) PROVE KernelInv'
  <2>1. /\ Alone(f) /\ pc[f] = "woken" /\ ready' \subseteq Fds /\ holder' \in Fibers \cup {Nobody}
        /\ \/ nonblock' = nonblock /\ call[f].kind # "connect"
           \/ nonblock' = nonblock \ call[f].on
    BY <1>3, WokenFrame
  <2>2. CASE nonblock' = nonblock /\ call[f].kind # "connect"
    BY <1>0, <2>1, <2>2, FlagKept DEF KernelInv
  <2>3. CASE nonblock' = nonblock \ call[f].on
    <3>1. FlagRestored'
      BY <1>0, <2>1, <2>3 DEF FlagRestored, Alone
    <3> QED
      BY <1>0, <2>1, <2>3, <3>1 DEF KernelInv
  <2> QED
    BY <2>1, <2>2, <2>3
<1>4. ASSUME NEW f \in Fibers, KernelReturns(f) PROVE KernelInv'
  <2>1. Alone(f) /\ pc[f] = "kernel" /\ holder' \in {holder, f} /\ UNCHANGED <<ready, nonblock>>
    BY <1>4, ReturnFrame DEF KernelReturns
  <2> QED
    BY <1>0, <2>1, FlagKept DEF KernelInv
<1>5. ASSUME UNCHANGED <<nonblock, holder>>, ready' \subseteq Fds,
             \A g \in Fibers : /\ call'[g].kind = call[g].kind /\ call'[g].on = call[g].on
                               /\ pc[g] \in {"parked", "woken"} => pc'[g] \in {"parked", "woken"}
      PROVE  KernelInv'
  BY <1>0, <1>5 DEF KernelInv, FlagRestored
<1>6. ASSUME NEW f \in Fibers, cancel_parked_any(f) \/ SwitchTo(f) \/ Yield(f) PROVE KernelInv'
  BY <1>0, <1>5, <1>6 DEF cancel_parked_any, SwitchTo, Yield, fiber, kernel, Core, CoreTypes
<1>7. CASE Deliver
  BY <1>0, <1>5, <1>7 DEF Deliver, resume_parked, fiber, kernel, Core, CoreTypes
<1>8. ASSUME NEW i \in Ids, OpCompletes(i) PROVE KernelInv'
  BY <1>0, <1>5, <1>8 DEF OpCompletes, fiber, kernel
<1>9. ASSUME NEW fd \in Fds, Readiness(fd) PROVE KernelInv'
  BY <1>0, <1>5, <1>9 DEF Readiness, fiber
<1>10. CASE Tick
  <2>1. \A g \in Fibers : call'[g].kind = call[g].kind /\ call'[g].on = call[g].on
    BY <1>10 DEF Tick, Core, CoreTypes, CallTypes
  <2> QED
    BY <1>0, <1>5, <1>10, <2>1 DEF Tick, kernel
<1>11. CASE UNCHANGED vars
  BY <1>0, <1>5, <1>11 DEF vars, fiber, kernel
<1> QED
  BY <1>1, <1>2, <1>3, <1>4, <1>6, <1>7, <1>8, <1>9, <1>10, <1>11 DEF Next

LEMMA KernelCorrect == Spec => []KernelInv
<1>1. Init => KernelInv
  BY DEF Init, KernelInv, FlagRestored
<1> QED
  BY <1>1, InitCore, CoreStep, KernelStep, PTL DEF Spec

(***************************************************************************)
(* A fiber in PARKED is in the await that registered it, one that is       *)
(* suspended has an op or a completion that will resume it, and RESULTS    *)
(* holds nothing but the outcome the running fiber was resumed with, for   *)
(* any number of fibers and descriptors and any order of completions,      *)
(* cancellations and wake-ups for nothing.                                 *)
(***************************************************************************)
THEOREM ParkedAlwaysWoken == Spec => []ParkedIsSuspended
<1>1. Core /\ KernelInv => ParkedIsSuspended
  <2> SUFFICES ASSUME Core, KernelInv PROVE ParkedIsSuspended
    OBVIOUS
  <2>1. TypeOK
    BY DEF Core, CoreTypes, CallTypes, KernelInv, TypeOK
  <2>2. ASSUME NEW f \in Fibers, pc[f] = "parked"
        PROVE  parked \cap Mine(f) \cap (ops \cup chan) # {}
    BY <2>2, MineIs DEF Core, CoreTypes, Waits
  <2> QED
    BY <2>1, <2>2 DEF Core, Tables, Interest, ParkedIsSuspended
<1> QED
  BY <1>1, CoreCorrect, KernelCorrect, PTL

(***************************************************************************)
(* A socket is left in the mode its library put it in: the flag a connect  *)
(* sets comes off on every way out of the park, an exception included.     *)
(***************************************************************************)
THEOREM FlagAlwaysRestored == Spec => []FlagRestored
<1>1. KernelInv => FlagRestored
  BY DEF KernelInv
<1> QED
  BY <1>1, KernelCorrect, PTL

-----------------------------------------------------------------------------
(* The timeouts.                                                           *)

\* It has waited for the whole of the timeout it runs on.
HasWaited(c) == c.us >= 0 /\ c.us <= c.waited

\* Then it has waited for what its caller asked.
LEMMA UpCovers ==
  ASSUME NEW c, Sound(c), HasWaited(c), c.kind \in {"poll", "io", "sleep"}
  PROVE  c.asked >= 0 /\ (c.waited + IF c.kind = "sleep" THEN 1 ELSE 0) * NsPerUs >= c.asked
<1>1. /\ c.us \in Nat /\ c.waited \in Nat /\ c.asked \in Int /\ c.us <= c.waited
      /\ c.us + 1 \in Nat /\ c.waited + 1 \in Nat /\ c.us + 1 <= c.waited + 1 /\ NsPerUs \in Nat
  BY Waiting, Units DEF Sound, CallTypes, HasWaited
<1>2. /\ c.us * NsPerUs <= c.waited * NsPerUs /\ c.us * NsPerUs \in Nat
      /\ c.waited * NsPerUs \in Nat
  BY <1>1, TimesMonotonic, TimesNat
<1>3. /\ (c.us + 1) * NsPerUs <= (c.waited + 1) * NsPerUs /\ (c.us + 1) * NsPerUs \in Nat
      /\ (c.waited + 1) * NsPerUs \in Nat
  BY <1>1, TimesMonotonic, TimesNat
<1>4. Covers(c)
  BY DEF Sound
<1>5. CASE c.kind = "sleep"
  <2>1. c.asked >= 0 /\ c.asked <= (c.us + 1) * NsPerUs
    BY <1>4, <1>5 DEF Covers, HasWaited
  <2> QED
    BY <1>1, <1>3, <1>5, <2>1
<1>6. CASE c.kind \in {"poll", "io"}
  <2>1. c.asked >= 0 /\ c.asked <= c.us * NsPerUs
    BY <1>4, <1>6 DEF Covers, HasWaited
  <2>2. c.kind # "sleep" /\ c.waited + 0 = c.waited
    BY <1>1, <1>6
  <2> QED
    BY <1>1, <1>2, <2>1, <2>2
<1> QED
  BY <1>5, <1>6

LEMMA UpHasWaited ==
  ASSUME NEW c, Sound(c), TimeIsUp(c)
  PROVE  HasWaited(c)
BY Waiting DEF Sound, CallTypes, TimeIsUp, HasWaited

\* The timer won, so the time is up.
LEMMA TimerIsEarned ==
  ASSUME Core, NEW f \in Fibers, ByTimer(f)
  PROVE  HasWaited(call[f])
<1>1. TimeIsUp(call[f])
  BY DEF ByTimer, Core, Tables, Earned
<1> QED
  BY <1>1, UpHasWaited DEF Core, Stands

\* Less than a whole millisecond is left.
LEMMA LeftOver ==
  ASSUME NEW c, Sound(c), c.us >= 0, Left(c) <= 0
  PROVE  HasWaited(c)
<1>1. c.waited \in Nat /\ c.us \in Nat /\ UsPerMs \in Nat \ {0}
  BY Waiting DEF Sound, CallTypes
<1>2. /\ (c.waited \div UsPerMs) * UsPerMs <= c.waited /\ (c.waited \div UsPerMs) \in Nat
  BY <1>1, DivCeil
<1>3. (c.waited \div UsPerMs) * UsPerMs \in Nat
  BY <1>1, <1>2, TimesNat
<1>4. Left(c) = c.us - (c.waited \div UsPerMs) * UsPerMs
  BY <1>1 DEF Left
<1> QED
  BY <1>1, <1>2, <1>3, <1>4 DEF HasWaited

TimesOut(f) ==
  call[f].kind \in {"poll", "io", "sleep"} /\ call'[f].kind = "none" /\ ans'[f] = "timeout"

\* Only a call whose time is up times out.
LEMMA TimeoutStep ==
  ASSUME Core, [Next]_vars, NEW f \in Fibers, TimesOut(f)
  PROVE  HasWaited(call[f])
<1>0. /\ call[f].kind \in {"poll", "io", "sleep"} /\ call'[f].kind # call[f].kind
      /\ ans'[f] = "timeout" /\ call'[f].kind = "none"
  BY DEF TimesOut
<1>1. ASSUME NEW g \in Fibers, g # f, Alone(g) PROVE FALSE
  BY <1>0, <1>1 DEF Alone
<1>2. pc[f] # "user"
  BY <1>0, NoCallSound DEF Core, Stands
<1>3. ASSUME NEW how, Return(f, how), how # "timeout" PROVE FALSE
  BY <1>0, <1>3, ReturnFrame
<1>4. ASSUME NEW c, Block(f, c), c.kind = call[f].kind PROVE FALSE
  BY <1>0, <1>4, BlockFrame
<1>5. ASSUME NEW g \in Fibers,
             \/ DataCall(g) \/ MessageCall(g) \/ VectorCall(g) \/ WaitPid(g) \/ Poll(g)
             \/ PPoll(g) \/ Select(g) \/ USleep(g) \/ Sleep(g) \/ NanoSleep(g) \/ Connect(g) \/ Flock(g) \/ Unlock(g)
      PROVE  FALSE
  <2>0. g # f
    BY <1>2, <1>5 DEF DataCall, MessageCall, VectorCall, IoCall, WaitPid, Poll, PPoll, Select,
                      PollCall, USleep, Sleep, NanoSleep, SleepCall, Connect, Flock, Unlock, Calls, Runs
  <2>1. ASSUME NEW c, ParkOrBlock(g, c) \/ Forwarded(g, c) \/ Block(g, c) PROVE FALSE
    <3>1. CASE Forwarded(g, c)
      BY <1>1, <2>0, <3>1, ReturnFrame, BlockFrame DEF Forwarded, Real
    <3> QED
      BY <1>1, <2>0, <2>1, <3>1, ParkFrame, BlockFrame DEF ParkOrBlock
  <2>2. ASSUME NEW how, Return(g, how) PROVE FALSE
    BY <1>1, <2>0, <2>2, ReturnFrame
  <2>3. CASE DataCall(g) \/ MessageCall(g) \/ VectorCall(g)
    BY <2>1, <2>3 DEF DataCall, MessageCall, VectorCall, IoCall
  <2>4. CASE WaitPid(g)
    BY <2>1, <2>4 DEF WaitPid
  <2>5. CASE Poll(g) \/ PPoll(g) \/ Select(g)
    BY <2>1, <2>5 DEF Poll, PPoll, Select, PollCall
  <2>6. CASE USleep(g) \/ Sleep(g) \/ NanoSleep(g)
    BY <2>1, <2>2, <2>6 DEF USleep, Sleep, NanoSleep, SleepCall
  <2>7. CASE Connect(g)
    BY <2>1, <2>2, <2>7 DEF Connect, ParkOrBlock
  <2>8. CASE Flock(g)
    BY <2>1, <2>2, <2>8 DEF Flock
  <2>9. CASE Unlock(g)
    BY <1>0, <2>9 DEF Unlock, fiber
  <2> QED
    BY <1>5, <2>3, <2>4, <2>5, <2>6, <2>7, <2>8, <2>9
<1>6. ASSUME NEW g \in Fibers, Woken(g), g # f PROVE FALSE
  <2>1. ASSUME NEW c, Real(g, c) \/ Block(g, c) \/ Suspend(g, c) PROVE Alone(g)
    BY <2>1, ReturnFrame, BlockFrame DEF Real, Suspend, Alone, Core, CoreTypes
  <2>2. Alone(g)
    BY <1>6, <2>1, ReturnFrame DEF Woken, PollWoken, PollAnswers, SelectWoken, IoWoken, WaitWoken, SleepWoken,
                                   ConnectWoken, FlockWoken
  <2> QED
    BY <1>1, <1>6, <2>2
<1>7. ASSUME Woken(f) PROVE HasWaited(call[f])
  <2>0. pc[f] = "woken" /\ Bounded(call[f], FALSE) /\ Sound(call[f])
    BY <1>7 DEF Woken, PollWoken, SelectWoken, IoWoken, WaitWoken, SleepWoken, ConnectWoken,
                FlockWoken, Wakes, Core, Stands
  <2>1. CASE PollWoken(f)
    <3>0. call[f].kind = "poll"
      BY <2>1 DEF PollWoken, Wakes
    <3>1. CASE Real(f, Afresh(call[f]))
      <4>1. Afresh(call[f]).kind = "poll"
        BY <2>0, <3>0, AfreshSound
      <4>2. ~Block(f, Afresh(call[f]))
        BY <1>4, <3>0, <4>1
      <4>3. TimeIsUp(Afresh(call[f]))
        BY <1>3, <3>1, <4>1, <4>2 DEF Real, AnswersNow
      <4> QED
        BY <2>0, <4>3, AfreshSound DEF HasWaited
    <3>2. CASE /\ ByTimer(f) \/ ready_now(call[f].on) \/ (call[f].us >= 0 /\ Left(call[f]) <= 0)
               /\ PollAnswers(f)
      <4>1. ~ready_now(call[f].on)
        BY <1>3, <3>2 DEF PollAnswers
      <4>2. CASE call[f].us >= 0 /\ Left(call[f]) <= 0
        BY <2>0, <4>2, LeftOver
      <4> QED
        BY <3>2, <4>1, <4>2, TimerIsEarned
    <3>3. ~Suspend(f, Again(call[f]))
      BY <1>0 DEF Suspend, Core, CoreTypes
    <3> QED
      BY <2>1, <3>1, <3>2, <3>3 DEF PollWoken
  <2>2. CASE IoWoken(f)
    <3>1. Afresh(call[f]).kind = "io"
      BY <2>0, <2>2, AfreshSound DEF IoWoken, Wakes
    <3>2. ~Real(f, Afresh(call[f]))
      BY <1>3, <1>4, <2>2, <3>1 DEF Real, IoWoken, Wakes
    <3> QED
      BY <2>2, <3>2, TimerIsEarned DEF IoWoken
  <2>3. CASE SleepWoken(f)
    <3>1. Afresh(call[f]).kind = call[f].kind /\ call[f].on = {}
      BY <2>0, <2>3, AfreshSound DEF SleepWoken, Wakes, Sound
    <3>2. ~exc[f]
      BY <1>4, <2>3, <3>1 DEF SleepWoken, Unwound
    <3>3. PICK i \in results : i[1] = f
      BY <2>0, <3>2 DEF Core, Waits
    <3>4. i[2] = Timer /\ Earned(i)
      BY <3>1, <3>3 DEF Core, Tables, Interest
    <3> QED
      BY <2>0, <3>3, <3>4, UpHasWaited DEF Earned
  <2> QED
    BY <1>0, <1>7, <2>1, <2>2, <2>3 DEF Woken, SelectWoken, WaitWoken, ConnectWoken, FlockWoken, Wakes
<1>8. ASSUME NEW g \in Fibers, KernelReturns(g) PROVE HasWaited(call[f])
  <2>1. g = f
    BY <1>1, <1>8, ReturnFrame DEF KernelReturns
  <2>2. TimeIsUp(call[f])
    BY <1>3, <1>8, <2>1 DEF KernelReturns
  <2> QED
    BY <2>2, UpHasWaited DEF Core, Stands
<1>9. ASSUME NEW g \in Fibers, cancel_parked_any(g) \/ SwitchTo(g) \/ Yield(g) PROVE FALSE
  BY <1>0, <1>9 DEF cancel_parked_any, SwitchTo, Yield, fiber
<1>10. CASE Deliver
  BY <1>0, <1>10 DEF Deliver, resume_parked, fiber
<1>11. ASSUME NEW i \in Ids, OpCompletes(i) PROVE FALSE
  BY <1>0, <1>11 DEF OpCompletes, fiber
<1>12. ASSUME NEW fd \in Fds, Readiness(fd) PROVE FALSE
  BY <1>0, <1>12 DEF Readiness, fiber
<1>13. CASE Tick
  BY <1>0, <1>13 DEF Tick, Core, CoreTypes, CallTypes
<1>14. CASE UNCHANGED vars
  BY <1>0, <1>14 DEF vars, fiber
<1> QED
  BY <1>5, <1>6, <1>7, <1>8, <1>9, <1>10, <1>11, <1>12, <1>13, <1>14 DEF Next

(***************************************************************************)
(* poll, a timed read and a sleep report a timeout only after the whole of *)
(* it, to the microsecond for a sleep, whatever woke them in between and   *)
(* however the conversion saturates; a poll outlasts its timeout by less   *)
(* than a millisecond, and only one whose park was cut makes it twice.     *)
(***************************************************************************)
THEOREM TimeoutsAreHonest == Spec => HonestTimeout
<1> DEFINE Honest(f) ==
      LET c == call[f]
          d == call'[f]
      IN
      /\ c.kind \in {"poll", "io", "sleep"} /\ d.kind = "none" /\ ans'[f] = "timeout"
           => /\ c.asked >= 0
              /\ (c.waited + IF c.kind = "sleep" THEN 1 ELSE 0) * NsPerUs >= c.asked
      /\ d.kind = "poll" /\ d.us >= 0
           => \/ d.waited < d.us + UsPerMs
              \/ exc'[f] /\ d.waited < 2 * d.us + UsPerMs
<1>1. ASSUME Core, [Next]_vars, NEW f \in Fibers PROVE Honest(f)
  <2>1. TimesOut(f) =>
          /\ call[f].asked >= 0
          /\ (call[f].waited + IF call[f].kind = "sleep" THEN 1 ELSE 0) * NsPerUs >= call[f].asked
    <3> HAVE TimesOut(f)
    <3>1. HasWaited(call[f]) /\ Sound(call[f])
      BY <1>1, TimeoutStep DEF Core, Stands
    <3> QED
      BY <3>1, UpCovers DEF TimesOut
  <2>2. Stands(f)'
    BY <1>1, CoreStep DEF Core
  <2>3. Sound(call'[f]) /\ (call'[f].kind = "poll" => Bounded(call'[f], exc'[f]))
    BY <2>2 DEF Stands, Sound, Covers, Bounded
  <2>4. /\ call'[f].waited \in Int /\ call'[f].us \in Int /\ call'[f].due \in Int
        /\ UsPerMs \in Nat \ {0}
    BY <2>3, Waiting DEF Sound, CallTypes
  <2>5. call'[f].waited <= call'[f].due \/ call'[f].waited = 0
    BY <2>3 DEF Sound
  <2>6. ASSUME call'[f].kind = "poll", call'[f].us >= 0
        PROVE  \/ call'[f].waited < call'[f].us + UsPerMs
               \/ exc'[f] /\ call'[f].waited < 2 * call'[f].us + UsPerMs
    BY <2>3, <2>4, <2>5, <2>6 DEF Bounded
  <2> QED
    BY <2>1, <2>6 DEF TimesOut
<1>2. Core /\ [Next]_vars => [\A f \in Fibers : Honest(f)]_vars
  BY <1>1
<1>3. HonestTimeout <=> [][\A f \in Fibers : Honest(f)]_vars
  BY DEF HonestTimeout
<1> QED
  BY <1>2, <1>3, CoreCorrect, PTL DEF Spec

=============================================================================
