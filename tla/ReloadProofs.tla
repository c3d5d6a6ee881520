---------------------------- MODULE ReloadProofs ----------------------------
(***************************************************************************)
(* Proofs about Reload for any number of threads, any width of the reload  *)
(* token, any files, any restart budget and any number of saves, SIGHUPs   *)
(* and crashes.                                                            *)
(***************************************************************************)
EXTENDS Reload, FiniteSetTheorems, TLAPS

-----------------------------------------------------------------------------
(* Types.                                                                  *)

LEMMA InitTypeOK == Init => TypeOK
<1> SUFFICES ASSUME Init PROVE TypeOK
  OBVIOUS
<1>1. scheduled \in BOOLEAN
  BY DEF Init
<1>2. woken \in [Threads -> BOOLEAN]
  BY DEF Init
<1> QED
  BY <1>1, <1>2, ReloadAssumption DEF Init, TypeOK, Phases

\* What each group of actions of Reload may touch keeps its type.
LEMMA NextTypeOK == TypeOK /\ [Next]_vars => TypeOK'
<1> USE ReloadAssumption DEF TypeOK, Phases
<1> SUFFICES ASSUME TypeOK, [Next]_vars PROVE TypeOK'
  OBVIOUS
<1>1. ASSUME NEW f \in Files, Save(f) PROVE TypeOK'
  BY <1>1 DEF Save, settling, slots, token
<1>2. CASE request
  BY <1>2 DEF request, files, settling, slots, token, AllWoken
<1>3. ASSUME NEW f \in Files, Notice(f) PROVE TypeOK'
  <2>1. last' \in 0..2
    BY <1>3 DEF Notice, now_ms
  <2> QED
    BY <1>3, <2>1 DEF Notice, slots, token
<1>4. CASE Waker
  <2> USE DEF files, slots, token
  <2>1. CASE Arm
    BY <2>1 DEF Arm, schedule_wake
  <2>2. CASE WakerRead
    BY <2>2 DEF WakerRead
  <2>3. CASE WakerSwap
    BY <2>3 DEF WakerSwap
  <2>4. CASE WakerBump
    BY <2>4 DEF WakerBump
  <2>5. CASE WakerWake
    BY <2>5 DEF WakerWake, AllWoken
  <2>6. CASE WakerRelease
    <3>1. scheduled' \in BOOLEAN
      BY <2>6 DEF WakerRelease
    <3> QED
      BY <2>6, <3>1 DEF WakerRelease
  <2>7. CASE Recheck
    <3>1. scheduled' \in BOOLEAN
      BY <2>7 DEF Recheck, schedule_wake
    <3>2. rechecking' \in Nat
      BY <2>7 DEF Recheck
    <3> QED
      BY <2>7, <3>1, <3>2 DEF Recheck, schedule_wake
  <2> QED
    BY <1>4, <2>1, <2>2, <2>3, <2>4, <2>5, <2>6, <2>7 DEF Waker
<1>5. ASSUME NEW t \in Threads, NEW f \in Files, Include(t, f) PROVE TypeOK'
  BY <1>5 DEF Include, settling, slots, token
<1>6. ASSUME NEW t \in Threads, Script(t) PROVE TypeOK'
  <2>1. CASE boot(t)
    BY <2>1 DEF boot, WokenByBoot, files, settling
  <2>2. CASE watchLoadedFiles(t)
    <3>1. phase' \in [Threads -> Phases]
      BY <2>2 DEF watchLoadedFiles
    <3> QED
      BY <2>2, <3>1 DEF watchLoadedFiles, settling, token
  <2>3. CASE Drained(t)
    BY <2>3 DEF Drained, gone, settling, token
  <2> QED
    BY <1>6, <2>1, <2>2, <2>3 DEF Script
<1>7. ASSUME NEW t \in Threads, Turn(t) PROVE TypeOK'
  <2>1. reloading' \in 0..Parallel
    BY <1>7 DEF Turn, TokenFree
  <2> QED
    BY <1>7, <2>1 DEF Turn, files, settling
<1>8. ASSUME NEW t \in Threads, Crash(t) PROVE TypeOK'
  BY <1>8 DEF Crash, gone, settling, token
<1>9. ASSUME NEW t \in Threads, Slot(t) PROVE TypeOK'
  <2> USE DEF files, settling, token
  <2>1. CASE Spawn(t)
    BY <2>1 DEF Spawn
  <2>2. CASE Record(t)
    BY <2>2 DEF Record
  <2>3. CASE Supervise(t)
    <3>1. restarts' \in 0..Budget
      BY <2>3 DEF Supervise, respawn
    <3>2. UNCHANGED <<files, settling, generation, token, watchGeneration, recorded,
                      overtaken, woken, troubles>>
      BY <2>3 DEF Supervise
    <3>3. /\ phase' \in [Threads -> Phases] /\ spawnGeneration' \in [Threads -> Nat]
          /\ asked' \subseteq Threads /\ late' \subseteq Threads
      BY <2>3 DEF Supervise, respawn
    <3> QED
      BY <3>1, <3>2, <3>3
  <2>4. CASE Retry(t)
    BY <2>4 DEF Retry, respawn
  <2> QED
    BY <1>9, <2>1, <2>2, <2>3, <2>4 DEF Slot
<1>10. CASE UNCHANGED vars
  BY <1>10 DEF vars, files, settling, slots, token
<1> QED
  BY <1>1, <1>2, <1>3, <1>4, <1>5, <1>6, <1>7, <1>8, <1>9, <1>10 DEF Next, Watcher

\* Every variable of Reload keeps its type and every counter its bound; in
\* particular RELOADING never passes the width of the token, and the
\* supervisor never pays for more restarts than a minute allows.
THEOREM TypeCorrect == Spec => []TypeOK
BY InitTypeOK, NextTypeOK, PTL DEF Spec

-----------------------------------------------------------------------------
(* The settle task.                                                        *)

\* WAKE_SCHEDULED is only held by a task that is there to release it.
FlagHasTask == scheduled => waker # "none"

ArmedInv == FlagHasTask /\ SaveArmed

LEMMA NextArmed == TypeOK /\ ArmedInv /\ [Next]_vars => ArmedInv'
<1> USE DEF ArmedInv, FlagHasTask, SaveArmed
<1> SUFFICES ASSUME TypeOK, ArmedInv, [Next]_vars PROVE ArmedInv'
  OBVIOUS
<1>1. ASSUME NEW f \in Files, Notice(f) PROVE ArmedInv'
  BY <1>1 DEF Notice
<1>2. CASE Waker
  \* arming leaves a task, whichever of the two branches it takes
  <2>1. ASSUME schedule_wake PROVE waker' # "none"
    BY <2>1 DEF schedule_wake
  <2>2. CASE Arm
    BY <2>1, <2>2 DEF Arm
  <2>3. CASE WakerRead
    BY <2>3 DEF WakerRead
  <2>4. CASE WakerSwap
    BY <2>4 DEF WakerSwap
  <2>5. CASE WakerBump
    BY <2>5 DEF WakerBump
  <2>6. CASE WakerWake
    BY <2>6 DEF WakerWake
  <2>7. CASE WakerRelease
    BY <2>7 DEF WakerRelease, TypeOK
  <2>8. CASE Recheck
    BY <2>1, <2>8 DEF Recheck
  <2> QED
    BY <1>2, <2>2, <2>3, <2>4, <2>5, <2>6, <2>7, <2>8 DEF Waker
<1>3. CASE UNCHANGED settling
  BY <1>3 DEF settling
<1>4. ASSUME ~Watcher, ~Waker PROVE UNCHANGED settling
  BY <1>4 DEF Next, Save, request, Include, Script, boot, watchLoadedFiles, Drained, Turn,
              Crash, Slot, Spawn, Record, Supervise, Retry, vars
<1> QED
  BY <1>1, <1>2, <1>3, <1>4 DEF Watcher

\* However the event of a save, the end of one settle task and the start of
\* the next interleave, a save not yet counted has a task that will look at
\* it: storing, sleeping and swapping, or looking again after the release.
THEOREM SaveAlwaysArmed == Spec => []SaveArmed
<1>1. Init => ArmedInv
  BY DEF Init, ArmedInv, FlagHasTask, SaveArmed
<1>2. ArmedInv => SaveArmed
  BY DEF ArmedInv
<1> QED
  BY <1>1, <1>2, NextArmed, TypeCorrect, PTL DEF Spec

-----------------------------------------------------------------------------
(* The reload token.                                                       *)

\* Every thread that is away either holds a token or lost its own to a boot
\* that returned one too many.
AwayInv == IsFiniteSet(away) /\ Cardinality(away) <= reloading + gifts

LEMMA NextAway == TypeOK /\ AwayInv /\ [Next]_vars => AwayInv'
<1> SUFFICES ASSUME TypeOK, AwayInv, [Next]_vars PROVE AwayInv'
  OBVIOUS
<1> USE DEF AwayInv
<1>0. Cardinality(away) \in Nat
  BY FS_CardinalityType
<1>1. ASSUME NEW t \in Threads, boot(t) PROVE AwayInv'
  <2>1. away' = away \ {t}
    BY <1>1 DEF boot
  <2>2. IsFiniteSet(away')
    BY <2>1, FS_RemoveElement
  <2>3. CASE t \in away
    \* it returns its own token, or finds that somebody returned it already
    <3>1. Cardinality(away') = Cardinality(away) - 1 /\ gifts' = gifts
      BY <1>1, <2>1, <2>3, FS_RemoveElement DEF boot
    <3>2. reloading' = IF reloading = 0 THEN 0 ELSE reloading - 1
      BY <1>1 DEF boot
    <3> QED
      BY <1>0, <2>2, <3>1, <3>2 DEF TypeOK
  <2>4. CASE t \notin away
    \* it returns one of somebody else's
    <3>1. away' = away
      BY <2>1, <2>4
    <3>2. /\ reloading' = IF reloading = 0 THEN 0 ELSE reloading - 1
          /\ gifts' = IF reloading > 0 THEN gifts + 1 ELSE gifts
      BY <1>1, <2>4 DEF boot
    <3> QED
      BY <1>0, <2>2, <3>1, <3>2 DEF TypeOK
  <2> QED
    BY <2>3, <2>4
<1>2. ASSUME NEW t \in Threads, Turn(t) PROVE AwayInv'
  <2>1. CASE Stale(t) /\ TokenFree
    <3>1. away' = away \cup {t} /\ reloading' = reloading + 1 /\ gifts' = gifts
      BY <1>2, <2>1 DEF Turn
    <3>2. IsFiniteSet(away') /\ Cardinality(away') <= Cardinality(away) + 1
      BY <1>0, <3>1, FS_AddElement
    <3>3. Cardinality(away') \in Nat
      BY <3>2, FS_CardinalityType
    <3> QED
      BY <1>0, <3>1, <3>2, <3>3 DEF TypeOK
  <2>2. CASE ~(Stale(t) /\ TokenFree)
    BY <1>2, <2>2 DEF Turn
  <2> QED
    BY <2>1, <2>2
<1>3. CASE UNCHANGED token
  BY <1>3 DEF token
<1>4. ASSUME \A t \in Threads : ~boot(t) /\ ~Turn(t) PROVE UNCHANGED token
  BY <1>4 DEF Next, Save, request, Watcher, Notice, Waker, Arm, WakerRead, WakerSwap,
              WakerBump, WakerWake, WakerRelease, Recheck, Include, Script,
              watchLoadedFiles, Drained, Crash, Slot, Spawn, Record, Supervise, Retry, vars
<1> QED
  BY <1>1, <1>2, <1>3, <1>4

\* From the first spawn on, and whatever crashes: no more threads are between
\* taking the token and booting again than its width allows, and one for
\* every boot that returned a token it had not taken; the state keeps its
\* types.
THEOREM AwayWithinToken == Spec => []OneAway
<1>1. Init => AwayInv
  BY FS_EmptySet DEF Init, AwayInv
<1>2. TypeOK /\ AwayInv => OneAway
  BY ReloadAssumption, FS_CardinalityType DEF AwayInv, OneAway, TypeOK
<1> QED
  BY <1>1, <1>2, NextAway, TypeCorrect, PTL DEF Spec

-----------------------------------------------------------------------------
(* Telling a reload from a crash.                                          *)

\* Its boot's generation, and what its slot recorded, are behind a thread
\* that stops for a reload, unless the slot was recorded late.
Behind(t) ==
  /\ spawnGeneration[t] <= generation /\ watchGeneration[t] <= generation
  /\ phase[t] = "ended" => watchGeneration[t] = 0
  /\ phase[t] = "paused" => t \in recorded
  /\ phase[t] = "stopping" => watchGeneration[t] < generation
  /\ t \in asked => phase[t] \in {"ended", "paused"} /\ 0 < generation
  /\ t \in recorded \ late =>
       /\ phase[t] \in {"booted", "serving"} => spawnGeneration[t] <= watchGeneration[t]
       /\ phase[t] = "stopping" => spawnGeneration[t] < generation
       /\ t \in asked => spawnGeneration[t] < generation

BehindInv == \A t \in Threads : Behind(t)

LEMMA NextBehind == TypeOK /\ BehindInv /\ [Next]_vars => BehindInv'
<1> SUFFICES ASSUME TypeOK, BehindInv, [Next]_vars PROVE BehindInv'
  OBVIOUS
<1> DEFINE slotState == <<phase, asked, late, recorded, spawnGeneration, watchGeneration>>
<1> USE DEF BehindInv, Behind
<1>1. CASE (\E f \in Files : Save(f)) \/ request \/ Watcher \/ Waker \/ UNCHANGED vars
  <2>1. UNCHANGED slotState
    BY <1>1 DEF Save, request, Watcher, Notice, Waker, Arm, WakerRead, WakerSwap,
                WakerBump, WakerWake, WakerRelease, Recheck, vars, slots
  <2>2. generation' \in {generation, generation + 1}
    BY <1>1 DEF Save, request, Watcher, Notice, Waker, Arm, WakerRead, WakerSwap,
                WakerBump, WakerWake, WakerRelease, Recheck, vars, slots
  <2> QED
    BY <2>1, <2>2 DEF TypeOK
<1>2. ASSUME NEW t \in Threads, NEW f \in Files, Include(t, f) PROVE BehindInv'
  BY <1>2 DEF Include, slots
<1>3. ASSUME NEW t \in Threads, Script(t) PROVE BehindInv'
  <2>1. CASE boot(t)
    BY <2>1 DEF boot, TypeOK
  <2>2. CASE watchLoadedFiles(t)
    BY <2>2 DEF watchLoadedFiles, TypeOK
  <2>3. CASE Drained(t)
    BY <2>3 DEF Drained, gone, TypeOK
  <2> QED
    BY <1>3, <2>1, <2>2, <2>3 DEF Script
<1>4. ASSUME NEW t \in Threads, Turn(t) PROVE BehindInv'
  BY <1>4 DEF Turn, Stale, TypeOK
<1>5. ASSUME NEW t \in Threads, Crash(t) PROVE BehindInv'
  BY <1>5 DEF Crash, gone, TypeOK
<1>6. ASSUME NEW t \in Threads, Slot(t) PROVE BehindInv'
  <2>1. CASE Spawn(t)
    BY <2>1 DEF Spawn, TypeOK
  <2>2. CASE Record(t)
    BY <2>2 DEF Record, TypeOK
  <2>3. CASE respawn(t) /\ UNCHANGED <<generation, watchGeneration, recorded>>
    BY <2>3 DEF respawn, TypeOK
  <2>4. CASE /\ phase[t] = "ended" /\ recorded = Threads
             /\ phase' = [phase EXCEPT ![t] = "paused"]
             /\ UNCHANGED <<generation, watchGeneration, spawnGeneration, asked, late,
                            recorded>>
    BY <2>4 DEF TypeOK
  <2> QED
    BY <1>6, <2>1, <2>2, <2>3, <2>4 DEF Slot, Supervise, Retry
<1> QED
  BY <1>1, <1>2, <1>3, <1>4, <1>5, <1>6 DEF Next

\* The supervisor never takes a script that ended for a reload for a crash:
\* its slot is behind the generation when it ends and until it is respawned,
\* unless the slot was recorded when the generation had already moved past
\* the thread's boot.
THEOREM ReloadNeverPaid == Spec => []ReloadIsFree
<1>1. Init => BehindInv
  BY DEF Init, BehindInv, Behind
<1>2. TypeOK /\ BehindInv => ReloadIsFree
  BY DEF BehindInv, Behind, ReloadIsFree, ended_for_reload, TypeOK
<1> QED
  BY <1>1, <1>2, NextBehind, TypeCorrect, PTL DEF Spec
=============================================================================
