------------------------------- MODULE Reactor -------------------------------
(***************************************************************************)
(* crates/ignis/src/reactor.rs: the bridge between one PHP thread and the  *)
(* tokio runtime.  The PHP thread submits ops over one channel and polls a *)
(* completion channel; a dispatcher task, one task per timer or watch, and *)
(* the HTTP side (any thread) produce the completions.                     *)
(*                                                                         *)
(* Threads that interleave: the PHP thread (Submit, Poll), the dispatcher  *)
(* (Dispatch, Cancel), every spawned task (Task) and the tokio threads     *)
(* that deliver and cancel requests (Produce).  A step is what one thread  *)
(* does between two accesses to state another one can see: the channels,   *)
(* the locked map of cancellable tasks, a task's `completed` flag and the  *)
(* `inflight` counter.                                                     *)
(***************************************************************************)
EXTENDS Naturals, Sequences, FiniteSets

CONSTANTS
  MaxId,        \* bound on the ids handed out; next_id is a u64 in the code
  MaxServers    \* bound on the calls of ignis_serve(); 0 is a plain script

ASSUME BoundsAssumption == MaxId \in Nat /\ MaxServers \in Nat

Ids == 1..MaxId

\* Op: a Sleep of zero microseconds has an arm of its own in the dispatcher.
OpKinds == {"Sleep0", "Sleep", "Watch", "Custom", "CancelWatch"}

\* Outcome, with the payloads left out; "Custom" stands for Json, Failed and
\* Blob, which only a Custom op produces.
Outcomes == {"Slept", "Ready", "Error", "Custom", "Request", "Cancelled"}

Completions == [id: Ids, outcome: Outcomes]
Submissions == [id: Ids, op: OpKinds, target: Ids \cup {0}]

Idle == [pc |-> "recv", id |-> 0, target |-> 0]

DispatcherStates ==
  {Idle} \cup [pc: {"insert", "confirm"}, id: Ids, target: {0}]
         \cup [pc: {"claim"}, id: Ids, target: Ids]

TaskStates == {"none", "waiting", "woken", "unlisted", "claimed", "aborted",
               "custom", "finished"}

VARIABLES
  next_id,      \* the next completion id
  inflight,     \* submitted or delivered, and not yet consumed by poll
  servers,      \* number of listening servers
  to_tokio,     \* channel of submitted ops, PHP thread -> dispatcher
  done,         \* channel of completions, any thread -> PHP thread
  answers,      \* request ids that still owe an answer (the keys of the map)
  dispatcher,   \* control of the dispatcher task
  task,         \* control of the task spawned for an op
  cancellable,  \* keys of cancellable_tasks_by_op
  completed,    \* the claim shared by an op's task and its cancellation
  producing,    \* completions counted in inflight and not yet sent
  php,          \* control of the PHP thread in poll
  batch,        \* what poll has drained and not yet subtracted
  owed          \* auxiliary: submitted ops whose completion is not yet sent

vars == <<next_id, inflight, servers, to_tokio, done, answers, dispatcher,
          task, cancellable, completed, producing, php, batch, owed>>

channels   == <<to_tokio, done, owed>>
counters   == <<next_id, inflight>>
tasks      == <<task, cancellable, completed>>
phpThread  == <<php, batch>>
httpSide   == <<servers, answers, producing>>

Init ==
  /\ next_id = 1
  /\ inflight = 0
  /\ servers = 0
  /\ to_tokio = <<>>
  /\ done = <<>>
  /\ answers = {}
  /\ dispatcher = Idle
  /\ task = [i \in Ids |-> "none"]
  /\ cancellable = {}
  /\ completed = [i \in Ids |-> FALSE]
  /\ producing = {}
  /\ php = "run"
  /\ batch = <<>>
  /\ owed = {}

-----------------------------------------------------------------------------
(* The PHP thread submits.                                                 *)

\* submit(): reserve an id, count it, send the op.  The send cannot fail
\* while a script runs: the runtime is shut down after the last one ended.
submit(op, target) ==
  /\ php = "run"
  /\ next_id \in Ids
  /\ next_id' = next_id + 1
  /\ inflight' = inflight + 1
  /\ to_tokio' = Append(to_tokio, [id |-> next_id, op |-> op, target |-> target])
  /\ owed' = owed \cup {next_id}
  /\ UNCHANGED <<done, dispatcher, tasks, phpThread, httpSide>>

SubmitOp == \E op \in OpKinds \ {"CancelWatch"} : submit(op, 0)

\* ignis_cancel() and park.rs name an op they were given earlier, which may
\* have completed long ago.
SubmitCancel == \E target \in 1..(next_id - 1) : submit("CancelWatch", target)

\* ignis_watch() on a descriptor that is ready now: reserve_op() and
\* complete() back to back on the PHP thread.
WatchReadyNow ==
  /\ php = "run"
  /\ next_id \in Ids
  /\ next_id' = next_id + 1
  /\ inflight' = inflight + 1
  /\ done' = Append(done, [id |-> next_id, outcome |-> "Ready"])
  /\ UNCHANGED <<to_tokio, owed, dispatcher, tasks, phpThread, httpSide>>

\* server_started(): from here on poll blocks even with nothing in flight.
server_started ==
  /\ php = "run"
  /\ servers < MaxServers
  /\ servers' = servers + 1
  /\ UNCHANGED <<counters, channels, dispatcher, tasks, phpThread, answers,
                 producing>>

-----------------------------------------------------------------------------
(* The dispatcher task.                                                    *)

\* A completion for the op `id`: every op owes exactly one.
announce(id, outcome) ==
  /\ done' = Append(done, [id |-> id, outcome |-> outcome])
  /\ owed' = owed \ {id}

Receives(op) ==
  /\ dispatcher = Idle
  /\ to_tokio # <<>>
  /\ Head(to_tokio).op = op
  /\ to_tokio' = Tail(to_tokio)

DispatchSleep0 ==
  /\ Receives("Sleep0")
  /\ announce(Head(to_tokio).id, "Slept")
  /\ UNCHANGED <<counters, dispatcher, tasks, phpThread, httpSide>>

\* tokio::spawn() first, the insertion into the map afterwards: the task may
\* run on another worker before it is listed.
DispatchSpawn ==
  \E op \in {"Sleep", "Watch"} :
    /\ Receives(op)
    /\ dispatcher' = [pc |-> "insert", id |-> Head(to_tokio).id, target |-> 0]
    /\ task' = [task EXCEPT ![Head(to_tokio).id] = "waiting"]
    /\ UNCHANGED <<counters, done, owed, cancellable, completed, phpThread,
                   httpSide>>

DispatchInsert ==
  /\ dispatcher.pc = "insert"
  /\ cancellable' = cancellable \cup {dispatcher.id}
  /\ dispatcher' = Idle
  /\ UNCHANGED <<counters, channels, task, completed, phpThread, httpSide>>

DispatchCustom ==
  /\ Receives("Custom")
  /\ task' = [task EXCEPT ![Head(to_tokio).id] = "custom"]
  /\ UNCHANGED <<counters, done, owed, dispatcher, cancellable, completed,
                 phpThread, httpSide>>

\* The lookup of the target.  The guard of the map lives to the end of the
\* `if let`, so the lock is held until CancelClaim.  abort() ends a task that
\* is still at its await; one that is past it runs on.
CancelTake ==
  /\ Receives("CancelWatch")
  /\ LET id == Head(to_tokio).id
         target == Head(to_tokio).target
     IN  IF target \in cancellable
         THEN /\ cancellable' = cancellable \ {target}
              /\ task' = IF task[target] = "waiting"
                         THEN [task EXCEPT ![target] = "aborted"]
                         ELSE task
              /\ dispatcher' = [pc |-> "claim", id |-> id, target |-> target]
         ELSE /\ dispatcher' = [pc |-> "confirm", id |-> id, target |-> 0]
              /\ UNCHANGED <<cancellable, task>>
  /\ UNCHANGED <<counters, done, owed, completed, phpThread, httpSide>>

\* Mutant: the cancellation announces the target without the swap.
CancelClaimNoSwap ==
  /\ dispatcher.pc = "claim"
  /\ announce(dispatcher.target, "Error")
  /\ dispatcher' = [dispatcher EXCEPT !.pc = "confirm", !.target = 0]
  /\ UNCHANGED <<counters, to_tokio, tasks, phpThread, httpSide>>

\* Mutant: the cancellation aborts the task and leaves the target unannounced.
CancelClaimSilent ==
  /\ dispatcher.pc = "claim"
  /\ dispatcher' = [dispatcher EXCEPT !.pc = "confirm", !.target = 0]
  /\ UNCHANGED <<counters, channels, tasks, phpThread, httpSide>>

\* Whoever wins the swap announces the target.
CancelClaim ==
  /\ dispatcher.pc = "claim"
  /\ IF completed[dispatcher.target]
     THEN UNCHANGED <<done, owed, completed>>
     ELSE /\ completed' = [completed EXCEPT ![dispatcher.target] = TRUE]
          /\ announce(dispatcher.target, "Error")
  /\ dispatcher' = [dispatcher EXCEPT !.pc = "confirm", !.target = 0]
  /\ UNCHANGED <<counters, to_tokio, task, cancellable, phpThread, httpSide>>

\* Mutant: the confirmation goes out under the target's id.
CancelConfirmUnderTarget ==
  /\ dispatcher.pc = "confirm"
  /\ announce(dispatcher.target, "Error")
  /\ dispatcher' = Idle
  /\ UNCHANGED <<counters, to_tokio, tasks, phpThread, httpSide>>

\* The cancellation is an op of its own and completes too.
CancelConfirm ==
  /\ dispatcher.pc = "confirm"
  /\ announce(dispatcher.id, "Error")
  /\ dispatcher' = Idle
  /\ UNCHANGED <<counters, to_tokio, tasks, phpThread, httpSide>>

-----------------------------------------------------------------------------
(* The task of a Sleep or a Watch, and of a Custom future.                 *)

\* The timer fires, the descriptor is ready, or the watch fails.
TaskWake(id) ==
  /\ task[id] = "waiting"
  /\ task' = [task EXCEPT ![id] = "woken"]
  /\ UNCHANGED <<counters, channels, dispatcher, cancellable, completed,
                 phpThread, httpSide>>

\* Takes itself off the map, under the lock the dispatcher may hold.
TaskUnlist(id) ==
  /\ task[id] = "woken"
  /\ dispatcher.pc # "claim"
  /\ task' = [task EXCEPT ![id] = "unlisted"]
  /\ cancellable' = cancellable \ {id}
  /\ UNCHANGED <<counters, channels, dispatcher, completed, phpThread,
                 httpSide>>

\* Mutant: the task sends without asking who won.
TaskClaimNoSwap(id) ==
  /\ task[id] = "unlisted"
  /\ task' = [task EXCEPT ![id] = "claimed"]
  /\ completed' = [completed EXCEPT ![id] = TRUE]
  /\ UNCHANGED <<counters, channels, dispatcher, cancellable, phpThread,
                 httpSide>>

TaskClaim(id) ==
  /\ task[id] = "unlisted"
  /\ task' = [task EXCEPT ![id] = IF completed[id] THEN "finished" ELSE "claimed"]
  /\ completed' = [completed EXCEPT ![id] = TRUE]
  /\ UNCHANGED <<counters, channels, dispatcher, cancellable, phpThread,
                 httpSide>>

TaskSend(id) ==
  /\ task[id] = "claimed"
  /\ task' = [task EXCEPT ![id] = "finished"]
  /\ \E outcome \in {"Slept", "Ready", "Error"} : announce(id, outcome)
  /\ UNCHANGED <<counters, to_tokio, dispatcher, cancellable, completed,
                 phpThread, httpSide>>

\* A Custom future has no cancellation: it completes on its own or never.
CustomSend(id) ==
  /\ task[id] = "custom"
  /\ task' = [task EXCEPT ![id] = "finished"]
  /\ announce(id, "Custom")
  /\ UNCHANGED <<counters, to_tokio, dispatcher, cancellable, completed,
                 phpThread, httpSide>>

-----------------------------------------------------------------------------
(* Any thread produces a completion nobody submitted.                      *)

\* inject(), from wake_all() over the threads that serve: count, then send.
Inject ==
  /\ servers > 0
  /\ next_id \in Ids
  /\ next_id' = next_id + 1
  /\ inflight' = inflight + 1
  /\ producing' = producing \cup {[id |-> next_id, outcome |-> "Ready"]}
  /\ UNCHANGED <<channels, dispatcher, tasks, phpThread, servers, answers>>

\* deliver_request_with_id() and deliver_stream_request(): the entry in
\* `answers`, the count, then the send.
deliver_request ==
  /\ servers > 0
  /\ next_id \in Ids
  /\ next_id' = next_id + 1
  /\ inflight' = inflight + 1
  /\ answers' = answers \cup {next_id}
  /\ producing' = producing \cup {[id |-> next_id, outcome |-> "Request"]}
  /\ UNCHANGED <<channels, dispatcher, tasks, phpThread, servers>>

\* cancel_request(): the guard that calls it exists only once the delivery
\* has returned.  An id that is no longer owed is left alone.
cancel_request(id) ==
  /\ [id |-> id, outcome |-> "Request"] \notin producing
  /\ id \in answers
  /\ answers' = answers \ {id}
  /\ inflight' = inflight + 1
  /\ producing' = producing \cup {[id |-> id, outcome |-> "Cancelled"]}
  /\ UNCHANGED <<next_id, channels, dispatcher, tasks, phpThread, servers>>

\* The send that follows the count.
Produce ==
  \E c \in producing :
    /\ producing' = producing \ {c}
    /\ done' = Append(done, c)
    /\ UNCHANGED <<counters, to_tokio, owed, dispatcher, tasks, phpThread,
                   servers, answers>>

\* respond(), respond_end(), stream_end(): the PHP thread settles the id.
respond(id) ==
  /\ php = "run"
  /\ id \in answers
  /\ answers' = answers \ {id}
  /\ UNCHANGED <<counters, channels, dispatcher, tasks, phpThread, servers,
                 producing>>

-----------------------------------------------------------------------------
(* The PHP thread polls.                                                   *)

\* With nothing in flight and no server poll returns at once, changing
\* nothing; otherwise it waits for the first completion.
PollEnter ==
  /\ php = "run"
  /\ inflight > 0 \/ servers > 0
  /\ php' = "blocked"
  /\ UNCHANGED <<counters, channels, dispatcher, tasks, batch, httpSide>>

\* The first completion and everything else that is ready.  The receiver is
\* alone on the channel, so the drain is one step: the last try_recv.
PollDrain ==
  /\ php = "blocked"
  /\ done # <<>>
  /\ batch' = done
  /\ done' = <<>>
  /\ php' = "drained"
  /\ UNCHANGED <<counters, to_tokio, owed, dispatcher, tasks, httpSide>>

saturating_sub(n, k) == IF k <= n THEN n - k ELSE 0

\* Mutant: one is subtracted for the whole batch.
PollCountOne ==
  /\ php = "drained"
  /\ inflight' = saturating_sub(inflight, 1)
  /\ batch' = <<>>
  /\ php' = "run"
  /\ UNCHANGED <<next_id, channels, dispatcher, tasks, httpSide>>

PollCount ==
  /\ php = "drained"
  /\ inflight' = saturating_sub(inflight, Len(batch))
  /\ batch' = <<>>
  /\ php' = "run"
  /\ UNCHANGED <<next_id, channels, dispatcher, tasks, httpSide>>

\* poll(Some(t)): the timeout passes first.
PollTimeout ==
  /\ php = "blocked"
  /\ done = <<>>
  /\ php' = "run"
  /\ UNCHANGED <<counters, channels, dispatcher, tasks, batch, httpSide>>

-----------------------------------------------------------------------------
Submit == SubmitOp \/ SubmitCancel \/ WatchReadyNow \/ server_started

Dispatch ==
  \/ DispatchSleep0 \/ DispatchSpawn \/ DispatchInsert \/ DispatchCustom
  \/ CancelTake \/ CancelClaim \/ CancelConfirm

Task(id) ==
  \/ TaskWake(id) \/ TaskUnlist(id) \/ TaskClaim(id) \/ TaskSend(id)
  \/ CustomSend(id)

Http ==
  \/ Inject \/ deliver_request \/ Produce
  \/ \E id \in Ids : cancel_request(id) \/ respond(id)

Poll == PollEnter \/ PollDrain \/ PollCount \/ PollTimeout

Next == Submit \/ Dispatch \/ (\E id \in Ids : Task(id)) \/ Http \/ Poll

Spec == Init /\ [][Next]_vars

\* The runtime keeps scheduling the dispatcher and the tasks that can run; a
\* producer that has counted sends; the PHP loop comes back to poll.  Nothing
\* makes a descriptor ready, a custom future complete or a client leave.
Fairness ==
  /\ WF_vars(Dispatch)
  /\ \A id \in Ids : WF_vars(TaskUnlist(id) \/ TaskClaim(id) \/ TaskSend(id))
  /\ WF_vars(Produce)
  /\ WF_vars(PollEnter) /\ WF_vars(PollDrain) /\ WF_vars(PollCount)

FairSpec == Spec /\ Fairness

-----------------------------------------------------------------------------
TypeOK ==
  /\ next_id \in 1..(MaxId + 1)
  /\ inflight \in Nat
  /\ servers \in 0..MaxServers
  /\ to_tokio \in Seq(Submissions)
  /\ done \in Seq(Completions)
  /\ answers \subseteq Ids
  /\ dispatcher \in DispatcherStates
  /\ task \in [Ids -> TaskStates]
  /\ cancellable \subseteq Ids
  /\ completed \in [Ids -> BOOLEAN]
  /\ producing \subseteq Completions
  /\ php \in {"run", "blocked", "drained"}
  /\ batch \in Seq(Completions)
  /\ owed \subseteq Ids

(***************************************************************************)
(* InflightExact: `inflight` is exactly what PHP has yet to consume: the   *)
(* ops whose completion is not sent, the completions counted and not sent, *)
(* and the ones in the channel or in poll's hands.  A second completion    *)
(* for one submission (a cancel racing the timer it calls off) would drive *)
(* the counter below the truth, and saturating_sub would hide it: poll     *)
(* would return empty, or a graceful drain end, with work outstanding.     *)
(***************************************************************************)
InflightExact ==
  inflight = Cardinality(owed) + Cardinality(producing) + Len(done) + Len(batch)

(***************************************************************************)
(* BlockedHasSource: a PHP thread asleep in poll with no server listening  *)
(* has a completion coming: one in the channel, one counted and about to   *)
(* be sent, or an op some task, the dispatcher or its queue still holds.   *)
(* "A userland loop can never deadlock on an empty reactor".               *)
(***************************************************************************)
Held(id) ==
  \/ \E k \in DOMAIN to_tokio : to_tokio[k].id = id
  \/ dispatcher.pc \in {"claim", "confirm"} /\ id \in {dispatcher.id, dispatcher.target}
  \/ task[id] \in {"waiting", "woken", "unlisted", "claimed", "custom"}

BlockedHasSource ==
  php = "blocked" /\ servers = 0 =>
    \/ done # <<>>
    \/ producing # {}
    \/ \E id \in owed : Held(id)

(***************************************************************************)
(* ImplementsBoard: every step of the reactor is a step of OpBoard or one  *)
(* the board cannot see: no interleaving of the dispatcher, a task and the *)
(* cancellation of that task completes an op twice, completes one that was *)
(* never submitted, reorders completions or miscounts them.                *)
(***************************************************************************)
idsOf(completions) == [k \in DOMAIN completions |-> completions[k].id]

Board == INSTANCE OpBoard WITH
  used     <- 1..(next_id - 1),
  open     <- owed \cup {c.id : c \in producing},
  unread   <- idsOf(batch \o done)

ImplementsBoard == Board!BoardSpec

(***************************************************************************)
(* OneOwner: the inductive invariant behind InflightExact.  An op that is  *)
(* owed has exactly one place that will announce it: the queue, the        *)
(* dispatcher, or its task; a task and a cancellation that both hold it    *)
(* share a `completed` flag that is still down only while it is owed.      *)
(***************************************************************************)
Spawned(id) ==
  \/ task[id] \in {"waiting", "woken", "unlisted", "claimed", "aborted"}
  \/ task[id] = "finished" /\ completed[id]

QueueOwns ==
  /\ \A k \in DOMAIN to_tokio :
       /\ to_tokio[k].id \in owed
       /\ task[to_tokio[k].id] = "none"
       /\ to_tokio[k].op = "CancelWatch" => to_tokio[k].target # 0
  /\ \A j, k \in DOMAIN to_tokio : to_tokio[j].id = to_tokio[k].id => j = k

DispatcherOwns ==
  /\ dispatcher.pc = "insert" => Spawned(dispatcher.id)
  /\ dispatcher.pc \in {"claim", "confirm"} =>
       /\ dispatcher.id \in owed
       /\ task[dispatcher.id] = "none"
       /\ \A k \in DOMAIN to_tokio : to_tokio[k].id # dispatcher.id
  /\ dispatcher.pc = "claim" => Spawned(dispatcher.target)

TaskOwns ==
  \A id \in Ids :
    /\ Spawned(id) /\ ~completed[id] => id \in owed
    /\ task[id] = "claimed" => completed[id] /\ id \in owed
    /\ task[id] = "custom" => id \in owed
    /\ task[id] = "none" => ~completed[id]
    /\ id \in cancellable => Spawned(id)

ProducersOwn ==
  \A c \in producing :
    /\ c.id < next_id
    /\ c.id \notin owed
    /\ c.id \in answers => c.outcome = "Request"
    /\ \A d \in producing : c.id = d.id => c = d

FreshIds ==
  /\ \A id \in owed \cup answers : id < next_id
  /\ \A id \in answers : id \notin owed
  /\ \A id \in Ids : id >= next_id => task[id] = "none"

OneOwner ==
  QueueOwns /\ DispatcherOwns /\ TaskOwns /\ ProducersOwn /\ FreshIds

(***************************************************************************)
(* CancelSettlesTarget: once a cancellation is queued, the timer or watch  *)
(* it names stops being owed, whatever its descriptor does, so the fiber   *)
(* or the drain that waits for it is let go.  (A Custom future cannot be   *)
(* called off.)  It fails if abort() and the claim can each leave the      *)
(* announcement to the other.                                              *)
(***************************************************************************)
CancelQueuedFor(id) ==
  \E k \in DOMAIN to_tokio :
    to_tokio[k].op = "CancelWatch" /\ to_tokio[k].target = id

CancelSettlesTarget ==
  \A id \in Ids :
    CancelQueuedFor(id) ~> (id \notin owed \/ task[id] = "custom")

(***************************************************************************)
(* CompletionsReachPhp: a completion in the channel is always consumed by  *)
(* the PHP thread that keeps polling.  A counter that runs low makes poll  *)
(* return at once and leaves the completion where it is.                   *)
(***************************************************************************)
CompletionsReachPhp == (done # <<>>) ~> (done = <<>>)

=============================================================================
