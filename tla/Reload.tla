------------------------------- MODULE Reload -------------------------------
(***************************************************************************)
(* Development reload inside one process: crates/ignis/src/watch.rs (the   *)
(* file watcher's settle task, the generation and the reload token), the   *)
(* thread supervisor of main.rs, and the turn of Loop.php that reads the   *)
(* generation.  A save of a file some thread has reported is counted by    *)
(* the watcher's thread; a waker task waits for quiet and moves the        *)
(* generation; every PHP thread that booted with an older one asks for the *)
(* token, drains, ends and is respawned.                                   *)
(*                                                                         *)
(* Requests and the drain are left out: a thread turns when it is woken or *)
(* whenever a request comes, and may include one more file at any time.    *)
(***************************************************************************)
EXTENDS Naturals, FiniteSets

CONSTANTS
  Threads,      \* the supervised PHP threads
  Files,        \* the files a script may include
  Parallel,     \* IGNIS_WATCH_RELOAD_PARALLEL
  Budget,       \* restarts a minute
  MaxTroubles   \* bound: saves, SIGHUPs and scripts that die, together

ASSUME ReloadAssumption ==
  /\ Parallel \in Nat \ {0} /\ Budget \in Nat /\ MaxTroubles \in Nat

VARIABLES
  loaded,       \* get_included_files() of each thread
  old,          \* auxiliary: the files of a thread that were saved since it loaded them
  watched,      \* State.files: the files any thread has reported
  events,       \* files with an event the watcher's callback has yet to see
  last,         \* LAST_EVENT: the time of the event not yet counted, 0 for none
  handler,      \* the watcher's callback: "idle", or "stored" and not armed
  scheduled,    \* WAKE_SCHEDULED
  waker,        \* the settle task
  seen,         \* the value of LAST_EVENT it read, 0 while it holds none
  rechecking,   \* finished tasks that have yet to look once more
  generation,   \* GENERATION
  reloading,    \* RELOADING
  phase,        \* each thread's script
  watchGeneration,  \* Loop::$watchGeneration of each thread
  spawnGeneration,  \* Worker.generation of each slot
  recorded,     \* the slots whose Worker is in the supervisor's list
  woken,        \* a completion waits for the thread
  restarts,     \* restarts_this_minute
  away,         \* auxiliary: took the token and has not booted since
  gifts,        \* auxiliary: boots that returned a token they had not taken
  asked,        \* auxiliary: ended because it was asked to reload
  late,         \* auxiliary: recorded after the generation had left its boot behind
  overtaken,    \* auxiliary: booted with a generation that counts saves it had not loaded
  missed,       \* auxiliary: loaded a file before a save nobody counted
  troubles      \* saves, SIGHUPs and crashes so far

files    == <<loaded, old, watched, events, missed>>
settling == <<last, handler, scheduled, waker, seen, rechecking>>
token    == <<reloading, away, gifts>>
slots    == <<phase, watchGeneration, spawnGeneration, recorded, asked, late, overtaken>>
vars == <<files, settling, generation, token, slots, woken, restarts, troubles>>

\* Nothing has been spawned yet.
Init ==
  /\ loaded = [t \in Threads |-> {}] /\ old = [t \in Threads |-> {}]
  /\ watched = {} /\ events = {} /\ missed = {}
  /\ last = 0 /\ handler = "idle" /\ scheduled = FALSE
  /\ waker = "none" /\ seen = 0 /\ rechecking = 0
  /\ generation = 0 /\ reloading = 0 /\ away = {} /\ gifts = 0
  /\ phase = [t \in Threads |-> "absent"]
  /\ watchGeneration = [t \in Threads |-> 0]
  /\ spawnGeneration = [t \in Threads |-> 0]
  /\ recorded = {} /\ asked = {} /\ late = {} /\ overtaken = {}
  /\ woken = [t \in Threads |-> FALSE]
  /\ restarts = 0
  /\ troubles = 0

-----------------------------------------------------------------------------
(* watch.rs: from a save to the next generation.                           *)

\* Somebody saves f.  Its directory is watched when f is, and may be for the
\* sake of another file.
Save(f) ==
  /\ troubles < MaxTroubles
  /\ troubles' = troubles + 1
  /\ old' = [t \in Threads |-> IF f \in loaded[t] THEN old[t] \cup {f} ELSE old[t]]
  /\ \/ /\ events' = events \cup {f}
        /\ UNCHANGED missed
     \/ /\ f \notin watched
        /\ missed' = missed \cup {t \in Threads : f \in loaded[t]}
        /\ UNCHANGED events
  /\ UNCHANGED <<loaded, watched, settling, generation, token, slots, woken, restarts>>

\* Times are only compared for equality: a time the settle task has not read.
now_ms == IF seen = 1 THEN 2 ELSE 1

\* The callback stores the time of an event on a file of the watched set and
\* goes on to arm a waker; any other event it drops.
Notice(f) ==
  /\ f \in events /\ handler = "idle"
  /\ events' = events \ {f}
  /\ \/ /\ f \in watched
        /\ last' = now_ms
        /\ handler' = "stored"
        /\ UNCHANGED missed
     \/ /\ f \notin watched
        /\ missed' = missed \cup {t \in Threads : f \in old[t]}
        /\ UNCHANGED <<last, handler>>
  /\ UNCHANGED <<loaded, old, watched, scheduled, waker, seen, rechecking, generation,
                 token, slots, woken, restarts, troubles>>

\* One waker task at a time.
schedule_wake ==
  IF scheduled THEN UNCHANGED <<scheduled, waker>>
  ELSE scheduled' = TRUE /\ waker' = "sleep"

Arm ==
  /\ handler = "stored"
  /\ handler' = "idle"
  /\ schedule_wake
  /\ UNCHANGED <<files, last, seen, rechecking, generation, token, slots, woken,
                 restarts, troubles>>

\* It was quiet long enough, or there is nothing to wait for.
WakerRead ==
  /\ waker = "sleep"
  /\ seen' = last
  /\ waker' = IF last = 0 THEN "release" ELSE "swap"
  /\ UNCHANGED <<files, last, handler, scheduled, rechecking, generation, token,
                 slots, woken, restarts, troubles>>

\* The compare-and-swap: an event since the read starts the wait again.
WakerSwap ==
  /\ waker = "swap"
  /\ last' = IF last = seen THEN 0 ELSE last
  /\ waker' = IF last = seen THEN "bump" ELSE "sleep"
  /\ seen' = 0
  /\ UNCHANGED <<files, handler, scheduled, rechecking, generation, token,
                 slots, woken, restarts, troubles>>

WakerBump ==
  /\ waker = "bump"
  /\ generation' = generation + 1
  /\ waker' = "wake"
  /\ UNCHANGED <<files, last, handler, scheduled, seen, rechecking, token, slots,
                 woken, restarts, troubles>>

\* http::wake_all() reaches the threads in dispatch.
InDispatch(t) == phase[t] \in {"booted", "serving"}

AllWoken == [t \in Threads |-> woken[t] \/ InDispatch(t)]

WakerWake ==
  /\ waker = "wake"
  /\ woken' = AllWoken
  /\ waker' = "release"
  /\ UNCHANGED <<files, last, handler, scheduled, seen, rechecking, generation,
                 token, slots, restarts, troubles>>

\* Mutant: the flag is released and nobody looks again.
WakerReleaseOnly ==
  /\ waker = "release"
  /\ scheduled' = FALSE
  /\ waker' = "none"
  /\ UNCHANGED <<files, last, handler, seen, rechecking, generation, token, slots,
                 woken, restarts, troubles>>

\* Released first, looked at again afterwards.
WakerRelease ==
  /\ waker = "release"
  /\ scheduled' = FALSE
  /\ waker' = "none"
  /\ rechecking' = rechecking + 1
  /\ UNCHANGED <<files, last, handler, seen, generation, token, slots, woken,
                 restarts, troubles>>

Recheck ==
  /\ rechecking > 0
  /\ rechecking' = rechecking - 1
  /\ IF last = 0 THEN UNCHANGED <<scheduled, waker>> ELSE schedule_wake
  /\ UNCHANGED <<files, last, handler, seen, generation, token, slots, woken,
                 restarts, troubles>>

\* watch::request(), for SIGHUP.
request ==
  /\ troubles < MaxTroubles
  /\ troubles' = troubles + 1
  /\ generation' = generation + 1
  /\ woken' = AllWoken
  /\ UNCHANGED <<files, settling, token, slots, restarts>>

-----------------------------------------------------------------------------
(* A PHP thread.                                                           *)

\* The script includes one more file: while it starts, or lazily, in a
\* handler.
Include(t, f) ==
  /\ phase[t] \in {"starting", "booted", "serving", "stopping"}
  /\ f \notin loaded[t]
  /\ loaded' = [loaded EXCEPT ![t] = @ \cup {f}]
  /\ UNCHANGED <<old, watched, events, missed, settling, generation, token, slots, woken,
                 restarts, troubles>>

\* Mutant: the token is returned and nobody is woken.
WokenByNobody(t) == [woken EXCEPT ![t] = TRUE]

\* end_reload() wakes the others once there has been a change.
WokenByBoot(t) ==
  [u \in Threads |-> \/ u = t
                     \/ woken[u]
                     \/ generation > 0 /\ InDispatch(u)]

\* An event is on its way that will still move the generation.
SaveOnItsWay == last # 0 \/ waker = "bump" \/ events \cap watched # {}

\* ignis_serve() and boot(): in dispatch, the generation read, end_reload(),
\* which every boot calls, whether or not the thread was away for a reload.
boot(t) ==
  /\ phase[t] = "starting"
  /\ phase' = [phase EXCEPT ![t] = "booted"]
  /\ watchGeneration' = [watchGeneration EXCEPT ![t] = generation]
  /\ overtaken' = IF old[t] # {} /\ ~SaveOnItsWay
                  THEN overtaken \cup {t} ELSE overtaken
  /\ reloading' = IF reloading = 0 THEN 0 ELSE reloading - 1
  /\ gifts' = IF t \notin away /\ reloading > 0 THEN gifts + 1 ELSE gifts
  /\ away' = away \ {t}
  /\ woken' = WokenByBoot(t)
  /\ UNCHANGED <<files, settling, generation, spawnGeneration, recorded, asked, late,
                 restarts, troubles>>

\* watchLoadedFiles(): last thing of boot(), and when a request is released.
\* Its first turn comes at once.
watchLoadedFiles(t) ==
  /\ phase[t] \in {"booted", "serving", "stopping"}
  /\ phase' = [phase EXCEPT ![t] = IF @ = "booted" THEN "serving" ELSE @]
  /\ watched' = watched \cup loaded[t]
  /\ UNCHANGED <<loaded, old, events, missed, settling, generation, token,
                 watchGeneration, spawnGeneration, recorded, asked, late, overtaken,
                 woken, restarts, troubles>>

\* Mutant: a thread also reloads for the generation it booted with.
StaleOrEqual(t) == generation >= watchGeneration[t]

Stale(t) == generation > watchGeneration[t]

\* Mutant: one worker more.
TokenFreeOneMore == reloading <= Parallel

TokenFree == reloading < Parallel

\* One turn of runUntil(): stop for a reload, or sleep again.
Turn(t) ==
  /\ phase[t] = "serving"
  /\ woken' = [woken EXCEPT ![t] = FALSE]
  /\ IF Stale(t) /\ TokenFree
     THEN /\ reloading' = reloading + 1
          /\ phase' = [phase EXCEPT ![t] = "stopping"]
          /\ away' = away \cup {t}
     ELSE UNCHANGED <<reloading, phase, away>>
  /\ UNCHANGED <<files, settling, generation, gifts, watchGeneration, spawnGeneration,
                 recorded, asked, late, overtaken, restarts, troubles>>

\* The script is over and its engine with it.
gone(t) ==
  /\ phase' = [phase EXCEPT ![t] = "ended"]
  /\ loaded' = [loaded EXCEPT ![t] = {}]
  /\ old' = [old EXCEPT ![t] = {}]
  /\ missed' = missed \ {t}
  /\ overtaken' = overtaken \ {t}
  /\ watchGeneration' = [watchGeneration EXCEPT ![t] = 0]
  /\ woken' = [woken EXCEPT ![t] = FALSE]

\* Everything in flight is finished and the script returns.
Drained(t) ==
  /\ phase[t] = "stopping"
  /\ gone(t)
  /\ asked' = asked \cup {t}
  /\ UNCHANGED <<watched, events, settling, generation, token, spawnGeneration,
                 recorded, late, restarts, troubles>>

\* A fatal error, also of a file saved half-way.
Crash(t) ==
  /\ phase[t] \in {"starting", "booted", "serving", "stopping"}
  /\ troubles < MaxTroubles
  /\ troubles' = troubles + 1
  /\ gone(t)
  /\ UNCHANGED <<watched, events, settling, generation, token, spawnGeneration,
                 recorded, asked, late, restarts>>

-----------------------------------------------------------------------------
(* supervise_workers().                                                    *)

\* The first threads: Worker::spawn() starts one, then reads the generation
\* for its slot, then turns to the next.
Spawn(t) ==
  /\ phase[t] = "absent"
  /\ \A u \in Threads : phase[u] # "absent" => u \in recorded
  /\ phase' = [phase EXCEPT ![t] = "starting"]
  /\ UNCHANGED <<files, settling, generation, token, watchGeneration, spawnGeneration,
                 recorded, asked, late, overtaken, woken, restarts, troubles>>

\* The thread has been running meanwhile, and may have stopped for a reload.
Record(t) ==
  /\ phase[t] # "absent" /\ t \notin recorded
  /\ spawnGeneration' = [spawnGeneration EXCEPT ![t] = generation]
  /\ recorded' = recorded \cup {t}
  /\ late' = IF phase[t] # "starting" /\ generation > watchGeneration[t]
             THEN late \cup {t} ELSE late
  /\ UNCHANGED <<files, settling, generation, token, phase, watchGeneration, asked,
                 overtaken, woken, restarts, troubles>>

ended_for_reload(t) == generation > spawnGeneration[t]

respawn(t) ==
  /\ phase' = [phase EXCEPT ![t] = "starting"]
  /\ spawnGeneration' = [spawnGeneration EXCEPT ![t] = generation]
  /\ asked' = asked \ {t}
  /\ late' = late \ {t}

\* A script ended: a reload is free, a crash is paid for or waits.
Supervise(t) ==
  /\ phase[t] = "ended" /\ recorded = Threads
  /\ \E spent \in {restarts, 0} :      \* the minute may be over
       \/ /\ ended_for_reload(t)
          /\ respawn(t)
          /\ restarts' = spent
       \/ /\ ~ended_for_reload(t) /\ spent < Budget
          /\ respawn(t)
          /\ restarts' = spent + 1
       \/ /\ ~ended_for_reload(t) /\ spent >= Budget
          /\ phase' = [phase EXCEPT ![t] = "paused"]
          /\ restarts' = spent
          /\ UNCHANGED <<spawnGeneration, asked, late>>
  /\ UNCHANGED <<files, settling, generation, token, watchGeneration, recorded,
                 overtaken, woken, troubles>>

Retry(t) ==
  /\ phase[t] = "paused"
  /\ respawn(t)
  /\ UNCHANGED <<files, settling, generation, token, watchGeneration, recorded,
                 overtaken, woken, restarts, troubles>>

-----------------------------------------------------------------------------
Watcher == \E f \in Files : Notice(f)

Waker ==
  \/ Arm \/ WakerRead \/ WakerSwap \/ WakerBump \/ WakerWake \/ WakerRelease \/ Recheck

Script(t) == boot(t) \/ watchLoadedFiles(t) \/ Drained(t)

Slot(t) == Spawn(t) \/ Record(t) \/ Supervise(t) \/ Retry(t)

Next ==
  \/ (\E f \in Files : Save(f)) \/ request \/ Watcher \/ Waker
  \/ \E t \in Threads : \/ (\E f \in Files : Include(t, f))
                        \/ Script(t) \/ Turn(t) \/ Crash(t) \/ Slot(t)

Spec == Init /\ [][Next]_vars

\* The watcher's thread runs its callbacks; the settle task and the
\* supervisor poll on timers; a script boots; a drain ends (StopEnds of
\* Loop); a woken thread takes a turn.  Nobody has to save, include, send or
\* finish a request, or crash.
Fairness ==
  /\ WF_vars(Watcher) /\ WF_vars(Waker)
  /\ \A t \in Threads :
       /\ WF_vars(boot(t)) /\ WF_vars(phase[t] = "booted" /\ watchLoadedFiles(t))
       /\ WF_vars(Drained(t)) /\ WF_vars(Slot(t)) /\ WF_vars(woken[t] /\ Turn(t))

FairSpec == Spec /\ Fairness

-----------------------------------------------------------------------------
Phases == {"absent", "starting", "booted", "serving", "stopping", "ended", "paused"}

TypeOK ==
  /\ loaded \in [Threads -> SUBSET Files] /\ old \in [Threads -> SUBSET Files]
  /\ watched \subseteq Files /\ events \subseteq Files
  /\ last \in 0..2 /\ seen \in 0..2
  /\ handler \in {"idle", "stored"} /\ scheduled \in BOOLEAN
  /\ waker \in {"none", "sleep", "swap", "bump", "wake", "release"}
  /\ rechecking \in Nat /\ generation \in Nat
  /\ reloading \in 0..Parallel /\ gifts \in Nat
  /\ phase \in [Threads -> Phases]
  /\ watchGeneration \in [Threads -> Nat] /\ spawnGeneration \in [Threads -> Nat]
  /\ woken \in [Threads -> BOOLEAN]
  /\ restarts \in 0..Budget
  /\ recorded \subseteq Threads /\ away \subseteq Threads /\ asked \subseteq Threads
  /\ late \subseteq Threads /\ overtaken \subseteq Threads /\ missed \subseteq Threads
  /\ troubles \in 0..MaxTroubles

(***************************************************************************)
(* SaveArmed: a save the generation does not count yet always has a task   *)
(* that will look at it, however the event, the end of one task and the    *)
(* start of the next interleave.                                           *)
(***************************************************************************)
SaveArmed == last # 0 => handler = "stored" \/ waker # "none" \/ rechecking > 0

(***************************************************************************)
(* OneAway: "Workers currently away reloading.  One at a time, so the      *)
(* front door always has somewhere to send a request".  What the token     *)
(* really bounds: the threads that took it and have not booted since are   *)
(* at most the limit, and one more for every boot that returned a token    *)
(* its thread had not taken (a first boot, or one after a crash, while     *)
(* another thread was away).  The state has its types.                     *)
(***************************************************************************)
OneAway == TypeOK /\ Cardinality(away) <= Parallel + gifts

(***************************************************************************)
(* ReloadIsFree: a script that ended because it was asked to reload is     *)
(* told apart from a crash, so a save never spends the restart budget.     *)
(* The exception is a first thread so much faster than Worker::spawn()     *)
(* that the generation had already left its boot behind when its slot      *)
(* recorded it.                                                            *)
(***************************************************************************)
ReloadIsFree ==
  \A t \in asked \ late : phase[t] = "ended" /\ t \in recorded => ended_for_reload(t)

(***************************************************************************)
(* FreshCode: once saving stops, every thread ends up serving the code     *)
(* that is on disk ("every thread reloads exactly once per change,         *)
(* including the ones that were busy when it happened").  Two exceptions:  *)
(* a script that started so slowly that a save settled between its         *)
(* including the file and its reading the generation, and a file saved     *)
(* between its inclusion and the watchLoadedFiles() that reports it, of    *)
(* which the watcher saw or kept no event.                                 *)
(***************************************************************************)
FreshCode ==
  <>[](\A t \in Threads :
         phase[t] = "serving" /\ (old[t] = {} \/ t \in overtaken \cup missed))
=============================================================================
