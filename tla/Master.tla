------------------------------- MODULE Master -------------------------------
(***************************************************************************)
(* crates/ignis/src/workers.rs: the master of `--workers N`.  It forks the *)
(* workers, then loops: reap what ended and respawn it, retry the slots    *)
(* that wait out a crash loop, act on one signal, check whether to leave.  *)
(* Workers boot, serve, die and drain on their own; an operator signals    *)
(* the master at any time.  Time is left out: a pause, a minute or a       *)
(* deadline may be over whenever the code looks.                           *)
(***************************************************************************)
EXTENDS Naturals, Sequences, FiniteSets, Retain

CONSTANTS
  Count,       \* --workers
  Respawn,     \* whether a worker that ends comes back
  Budget,      \* RESTARTS_PER_MINUTE
  ForkFails,   \* whether fork(2) may fail
  MaxDeaths,   \* bound: workers that end on their own
  MaxHups,     \* bound: SIGHUPs sent to the master
  MaxTerms     \* bound: SIGTERMs and SIGINTs sent to the master

Slots == 1..Count

\* Every fork is the first of a slot, follows a death or is a reload's.
Pids == 1..(Count + MaxDeaths + Count * MaxHups)

ASSUME MasterAssumption ==
  /\ Count \in Nat \ {0} /\ Budget \in Nat
  /\ Respawn \in BOOLEAN /\ ForkFails \in BOOLEAN
  /\ MaxDeaths \in Nat /\ MaxHups \in Nat /\ MaxTerms \in Nat

VARIABLES
  pc,             \* where the master is
  cursor,         \* the index of the for loop it is in
  children,       \* Vec<Child>
  restarts,       \* restarts_this_minute
  pending,        \* PENDING_SIGNAL
  shutdown,       \* shutdown_deadline.is_some()
  late,           \* whether that deadline has passed
  proc,           \* the worker processes
  nextPid,
  deaths, hups, terms,
  forkFailed      \* auxiliary: whether fork has failed

loop    == <<pc, cursor>>
counts  == <<deaths, hups, terms>>
vars == <<loop, children, restarts, pending, shutdown, late, proc, nextPid,
          counts, forkFailed>>

Alive == {"booting", "up", "draining"}

Child(slot, pid) == [slot |-> slot, pid |-> pid, paused |-> FALSE]

Init ==
  /\ pc = "fork" /\ cursor = 1 /\ children = <<>> /\ restarts = 0
  /\ pending = "none" /\ shutdown = FALSE /\ late = FALSE
  /\ proc = [p \in Pids |-> "none"] /\ nextPid = 1
  /\ deaths = 0 /\ hups = 0 /\ terms = 0
  /\ forkFailed = FALSE

\* spawn(): fork succeeds.  `before` is what the step did to the processes.
Forked(before) ==
  /\ nextPid \in Pids
  /\ proc' = [before EXCEPT ![nextPid] = "booting"]
  /\ nextPid' = nextPid + 1
  /\ UNCHANGED forkFailed

ForkFailed(before) ==
  /\ ForkFails
  /\ proc' = before
  /\ forkFailed' = TRUE
  /\ UNCHANGED nextPid

\* kill(2) with SIGTERM.  A worker that has just been forked still has the
\* master's handler, which only remembers the signal in a copy nobody reads.
SentTerm(pids, swallowed) ==
  [p \in Pids |-> IF p \in pids \ swallowed /\ proc[p] \in {"booting", "up"}
                  THEN "draining" ELSE proc[p]]

Booting(pids) == {p \in pids : proc[p] = "booting"}

PidsOf(s) == {s[k].pid : k \in DOMAIN s}

Removed(s, k) == SubSeq(s, 1, k - 1) \o SubSeq(s, k + 1, Len(s))

-----------------------------------------------------------------------------
\* run(): fork the slots in turn; a failure ends the master.
Fork ==
  /\ pc = "fork"
  /\ IF cursor > Count
     THEN /\ pc' = "reap"
          /\ UNCHANGED <<cursor, children, proc, nextPid, forkFailed>>
     ELSE \/ /\ Forked(proc)
             /\ children' = Append(children, Child(cursor, nextPid))
             /\ cursor' = cursor + 1
             /\ UNCHANGED pc
          \/ /\ ForkFailed(proc)
             /\ pc' = "done"
             /\ UNCHANGED <<cursor, children>>
  /\ UNCHANGED <<restarts, pending, shutdown, late, counts>>

\* Mutant: an exhausted budget drops the slot.
PausedDropped(k) == Removed(children, k)

\* The child whose budget ran out keeps its slot, and its pid.
Paused(k) == Append(Removed(children, k), [children[k] EXCEPT !.paused = TRUE])

StaysDead == shutdown \/ ~Respawn

BudgetSpent(spent) == spent >= Budget

\* reap_one() and what supervise() does with it.  The minute may be over.
Reap ==
  /\ pc = "reap"
  /\ \E p \in Pids :
       /\ proc[p] = "dead"
       /\ LET after == [proc EXCEPT ![p] = "reaped"]
              index == {k \in DOMAIN children : children[k].pid = p}
          IN  \/ /\ index = {}
                 /\ proc' = after
                 /\ UNCHANGED <<children, restarts, nextPid, forkFailed>>
              \/ /\ StaysDead
                 /\ \E k \in index : children' = Removed(children, k)
                 /\ proc' = after
                 /\ UNCHANGED <<restarts, nextPid, forkFailed>>
              \/ /\ ~StaysDead
                 /\ \E k \in index, spent \in {restarts, 0} :
                      \/ /\ BudgetSpent(spent)
                         /\ children' = Paused(k)
                         /\ restarts' = spent
                         /\ proc' = after
                         /\ UNCHANGED <<nextPid, forkFailed>>
                      \/ /\ ~BudgetSpent(spent)
                         /\ restarts' = spent + 1
                         /\ \/ /\ Forked(after)
                               /\ children' = Append(Removed(children, k),
                                                     Child(children[k].slot, nextPid))
                            \/ /\ ForkFailed(after)
                               /\ children' = Removed(children, k)
  /\ UNCHANGED <<loop, pending, shutdown, late, counts>>

ReapedAll ==
  /\ pc = "reap"
  /\ \A p \in Pids : proc[p] # "dead"
  /\ pc' = "retry" /\ cursor' = 1
  /\ UNCHANGED <<children, restarts, pending, shutdown, late, proc, nextPid,
                 counts, forkFailed>>

\* retry_paused_slots(), one child at a time.
RetryPausedSlots ==
  /\ pc = "retry"
  /\ IF cursor > Len(children)
     THEN /\ pc' = "signal"
          /\ UNCHANGED <<cursor, children, proc, nextPid, forkFailed>>
     ELSE /\ cursor' = cursor + 1
          /\ UNCHANGED pc
          /\ \/ UNCHANGED <<children, proc, nextPid, forkFailed>>   \* not paused, or not due
             \/ /\ children[cursor].paused
                /\ Forked(proc)
                /\ children' = [children EXCEPT ![cursor] = Child(@.slot, nextPid)]
             \/ /\ children[cursor].paused
                /\ ForkFailed(proc)
                /\ UNCHANGED children
  /\ UNCHANGED <<restarts, pending, shutdown, late, counts>>

\* The match on PENDING_SIGNAL.
NoSignal ==
  /\ pc = "signal" /\ pending = "none"
  /\ pc' = "check"
  /\ UNCHANGED <<cursor, children, restarts, pending, shutdown, late, proc,
                 nextPid, counts, forkFailed>>

BeginReload ==
  /\ pc = "signal" /\ pending = "HUP"
  /\ pending' = "none"
  /\ pc' = "reload" /\ cursor' = 1
  /\ UNCHANGED <<children, restarts, shutdown, late, proc, nextPid, counts,
                 forkFailed>>

forward ==
  /\ pc = "signal" /\ pending = "TERM"
  /\ pending' = "none"
  /\ shutdown' = TRUE
  /\ pc' = "check"
  /\ \E swallowed \in SUBSET Booting(PidsOf(children)) :
       proc' = SentTerm(PidsOf(children), swallowed)
  /\ UNCHANGED <<cursor, children, restarts, late, nextPid, counts, forkFailed>>

\* reload_one_at_a_time(): the kill, and the end of the for loop.
Reload ==
  /\ pc = "reload"
  /\ IF cursor > Len(children)
     THEN /\ pc' = "check"
          /\ UNCHANGED proc
     ELSE /\ pc' = "wait"
          /\ LET p == children[cursor].pid
             IN  \E swallowed \in SUBSET Booting({p}) : proc' = SentTerm({p}, swallowed)
  /\ UNCHANGED <<cursor, children, restarts, pending, shutdown, late, nextPid, counts,
                 forkFailed>>

\* Mutant: the reload does not wait for the worker it asked to drain.
WaitForNothing(p) == proc

\* wait_for(): reaped, or killed at the deadline and reaped then.  A pid
\* that is already reaped takes the whole deadline.
WaitFor(p) == [proc EXCEPT ![p] = "reaped"]

\* wait_for() returned; spawn() replaces the child in place, or fails and
\* leaves it as it was.
ReloadSpawn ==
  /\ pc = "wait"
  /\ pc' = "reload" /\ cursor' = cursor + 1
  /\ LET after == WaitFor(children[cursor].pid)
     IN  \/ /\ Forked(after)
            /\ children' = [children EXCEPT ![cursor] = Child(@.slot, nextPid)]
         \/ /\ ForkFailed(after)
            /\ UNCHANGED children
  /\ UNCHANGED <<restarts, pending, shutdown, late, counts>>

\* Mutant: the deadline is never looked at.
OverdueNever == FALSE

Overdue == shutdown /\ late

\* The end of the round: nobody left, too late, or on to the next one.
Check ==
  /\ pc = "check"
  /\ pc' = IF children = <<>> \/ Overdue THEN "done" ELSE "reap"
  /\ proc' = IF children # <<>> /\ Overdue
             THEN [p \in Pids |-> IF p \in PidsOf(children) /\ proc[p] \in Alive
                                  THEN "dead" ELSE proc[p]]
             ELSE proc
  /\ UNCHANGED <<cursor, children, restarts, pending, shutdown, late, nextPid,
                 counts, forkFailed>>

-----------------------------------------------------------------------------
(* The workers, the clock and the operator.                                *)

masterKeeps == <<loop, children, restarts, shutdown, nextPid, forkFailed>>

Boots(p) ==
  /\ proc[p] = "booting"
  /\ proc' = [proc EXCEPT ![p] = "up"]
  /\ UNCHANGED <<masterKeeps, pending, late, counts>>

\* A crash, a fatal, or a script that simply ends.
Dies(p) ==
  /\ proc[p] \in {"booting", "up"} /\ deaths < MaxDeaths
  /\ deaths' = deaths + 1
  /\ proc' = [proc EXCEPT ![p] = "dead"]
  /\ UNCHANGED <<masterKeeps, pending, late, hups, terms>>

Drains(p) ==
  /\ proc[p] = "draining"
  /\ proc' = [proc EXCEPT ![p] = "dead"]
  /\ UNCHANGED <<masterKeeps, pending, late, counts>>

DeadlinePasses ==
  /\ shutdown /\ ~late
  /\ late' = TRUE
  /\ UNCHANGED <<masterKeeps, pending, proc, counts>>

\* remember_signal(): the last one wins.
Hup ==
  /\ pc # "done" /\ hups < MaxHups
  /\ hups' = hups + 1
  /\ pending' = "HUP"
  /\ UNCHANGED <<masterKeeps, late, proc, deaths, terms>>

Term ==
  /\ pc # "done" /\ terms < MaxTerms
  /\ terms' = terms + 1
  /\ pending' = "TERM"
  /\ UNCHANGED <<masterKeeps, late, proc, deaths, hups>>

-----------------------------------------------------------------------------
Supervise ==
  \/ Fork \/ Reap \/ ReapedAll \/ RetryPausedSlots
  \/ NoSignal \/ BeginReload \/ forward \/ Reload \/ ReloadSpawn \/ Check

Worker(p) == Boots(p) \/ Dies(p) \/ Drains(p)

Next == Supervise \/ (\E p \in Pids : Worker(p)) \/ DeadlinePasses \/ Hup \/ Term

Spec == Init /\ [][Next]_vars

\* The master's loop has only bounded waits; the shutdown deadline comes.
\* No worker has to boot, and none has to drain: wait_for() and the deadline
\* are there for the ones that do not.
FairSpec == Spec /\ WF_vars(Supervise) /\ WF_vars(DeadlinePasses)

-----------------------------------------------------------------------------
TypeOK ==
  /\ pc \in {"fork", "reap", "retry", "signal", "reload", "wait", "check", "done"}
  /\ cursor \in Nat
  /\ children \in Seq([slot: Slots, pid: Pids, paused: BOOLEAN])
  /\ restarts \in 0..Budget
  /\ pending \in {"none", "HUP", "TERM"}
  /\ shutdown \in BOOLEAN /\ late \in BOOLEAN
  /\ proc \in [Pids -> Alive \cup {"none", "dead", "reaped"}]
  /\ nextPid \in 1..(Count + MaxDeaths + Count * MaxHups + 1)
  /\ deaths \in 0..MaxDeaths /\ hups \in 0..MaxHups /\ terms \in 0..MaxTerms
  /\ forkFailed \in BOOLEAN

(***************************************************************************)
(* NoStray: beside the types of the state,                                 *)
(* every worker process that has not been reaped is the process            *)
(* of exactly one child, and no slot has two children: a stray worker      *)
(* would accept connections that no signal ever reaches again.  The other  *)
(* way round, a child that is not paused has a process to signal, as long  *)
(* as fork never failed.                                                   *)
(***************************************************************************)
NoStray ==
  /\ TypeOK
  /\ pc # "done" =>
    /\ \A p \in Pids :
         proc[p] \in Alive \cup {"dead"} =>
           Cardinality({k \in DOMAIN children : children[k].pid = p}) = 1
    /\ \A j, k \in DOMAIN children : children[j].slot = children[k].slot => j = k
    /\ \A k \in DOMAIN children :
         ~children[k].paused /\ ~forkFailed => proc[children[k].pid] # "reaped"

(***************************************************************************)
(* SlotsKept: until it is told to stop, a respawning master whose forks    *)
(* succeed keeps every slot: "a worker that ends comes back (a crash loop  *)
(* is paused, never dropped)".                                             *)
(***************************************************************************)
SlotsKept ==
  Respawn /\ ~shutdown /\ ~forkFailed /\ pc \notin {"fork", "done"} =>
    {children[k].slot : k \in DOMAIN children} = Slots

(***************************************************************************)
(* OneAtATime: a rolling reload has at most one worker away draining.      *)
(***************************************************************************)
OneAtATime == ~shutdown => Cardinality({p \in Pids : proc[p] = "draining"}) <= 1

(***************************************************************************)
(* ShutdownEnds: once a shutdown has begun the master leaves, whatever its *)
(* workers do with their SIGTERM, also when a reload is asked for          *)
(* meanwhile and forks fresh workers.                                      *)
(***************************************************************************)
ShutdownEnds == shutdown ~> (pc = "done")
=============================================================================
