-------------------------------- MODULE Loop --------------------------------
(***************************************************************************)
(* php/packages/runtime/src/Loop.php, with Future.php and the request key  *)
(* of Scope.php: the event loop of one PHP thread that serves requests.    *)
(* One thread, so at most one fiber runs; it runs until it suspends, and   *)
(* control goes back to whatever resumed it: the loop's turn, or the walk  *)
(* of a cancellation over a request's fibers.  What interleaves is the     *)
(* order of completions, the fibers' own choices (sleep, spawn, await, set *)
(* a deadline, return) and clients that leave.                             *)
(*                                                                         *)
(* The reactor is the one OpBoard describes: an op completes once, in      *)
(* order.  Op ids and request ids, one space in the code, are two here.    *)
(***************************************************************************)
EXTENDS Naturals, Sequences, FiniteSets, Retain

CONSTANTS
  MaxRequest,      \* bound: requests the front door delivers
  MaxOp,           \* bound: sleeps and deadlines submitted
  MaxFuture,       \* bound: child fibers spawned
  FiberBudget,     \* IGNIS_FIBER_BUDGET, 0 = unlimited
  QueueDepth,      \* IGNIS_QUEUE_DEPTH, 0 = unlimited
  Exempt,          \* requests whose path is in IGNIS_BUDGET_EXEMPT
  Streaming        \* whether handlers return a StreamedResponse too

Requests == 1..MaxRequest
Ops      == 1..MaxOp
Futures  == 1..MaxFuture
Fibers   == 1..(MaxRequest + MaxFuture)

ASSUME LoopAssumption ==
  /\ MaxRequest \in Nat /\ MaxOp \in Nat /\ MaxFuture \in Nat
  /\ FiberBudget \in Nat /\ QueueDepth \in Nat
  /\ Exempt \subseteq Requests
  /\ Streaming \in BOOLEAN

VARIABLES
  turn,             \* where runUntil() is
  events,           \* what is left of ignis_poll()'s array in dispatchEvents()
  walk,             \* what is left of cancelRequest()
  running,          \* Fiber::getCurrent(), 0 on the main stack
  at,               \* where each fiber is suspended
  job,              \* the Job each fiber holds
  scope,            \* Scope::get('ignis.request') of each fiber
  pending, ready, idle,
  waiting, parkedOn,
  requestFibers, children,
  deadlineOf,       \* with its inverse $deadlines, always written together
  settled, waiters, \* Future::$done and Future::$waiters
  requestQueue, queued, queueCancelled, inflightRequests,
  stopping,
  longTimers,       \* auxiliary: the ops submitted by deadline()
  orphanTimers,     \* auxiliary: those of a request already released
  nextOp, nextFuture,
  outstanding,      \* ops in flight
  callingOff,       \* ops a submitted ignis_cancel() names
  channel,          \* completions ignis_poll() has not returned
  owes,             \* requests the reactor still owes an answer
  fate              \* auxiliary: what became of each request

control  == <<turn, events, walk>>
fibers   == <<at, job, scope>>
pool     == <<pending, ready, idle>>
parks    == <<waiting, parkedOn>>
maps     == <<requestFibers, children, deadlineOf>>
futures  == <<settled, waiters, nextFuture>>
admission == <<requestQueue, queued, queueCancelled, inflightRequests>>
winding  == <<stopping, longTimers, orphanTimers>>
reactor  == <<nextOp, outstanding, callingOff, channel>>
requests == <<owes, fate>>

vars == <<control, running, fibers, pool, parks, maps, futures, admission,
          winding, reactor, requests>>

\* A Job: the request it handles (0 for a child), the request spawn() put it
\* down to, its Future, and three things user code knows: whose work it is,
\* whether it descends from a child spawned without a request key, and which
\* futures it may await.  `stage` is how far a handler has come.
NoJob == [handles |-> 0, requestId |-> 0, future |-> 0, owner |-> 0,
          keyless |-> FALSE, mine |-> {}, stage |-> "none"]

Handler(r) == [handles |-> r, requestId |-> 0, future |-> 0, owner |-> r,
               keyless |-> FALSE, mine |-> {}, stage |-> "handler"]

NoWalk == [requestId |-> 0, left |-> <<>>]

Event(kind, id) == [kind |-> kind, id |-> id]

Init ==
  /\ turn = "start" /\ events = <<>> /\ walk = NoWalk /\ running = 0
  /\ at = [f \in Fibers |-> "absent"]
  /\ job = [f \in Fibers |-> NoJob]
  /\ scope = [f \in Fibers |-> 0]
  /\ pending = <<>> /\ ready = <<>> /\ idle = <<>>
  /\ waiting = [o \in Ops |-> 0] /\ parkedOn = [f \in Fibers |-> 0]
  /\ requestFibers = [r \in Requests |-> 0]
  /\ children = [r \in Requests |-> <<>>]
  /\ deadlineOf = [r \in Requests |-> 0]
  /\ settled = {} /\ waiters = [j \in Futures |-> <<>>] /\ nextFuture = 1
  /\ requestQueue = <<>> /\ queued = {} /\ queueCancelled = {}
  /\ inflightRequests = 0
  /\ stopping = FALSE /\ longTimers = {} /\ orphanTimers = {}
  /\ nextOp = 1 /\ outstanding = {} /\ callingOff = {} /\ channel = <<>>
  /\ owes = {} /\ fate = [r \in Requests |-> "unsent"]

Without(s, x) == Retain(s, {k \in DOMAIN s : s[k] # x})
Reverse(s)    == [k \in 1..Len(s) |-> s[Len(s) + 1 - k]]

-----------------------------------------------------------------------------
(* Spawning.                                                               *)

NewFiber == CHOOSE f \in Fibers : at[f] = "absent"

\* spawn() takes the most recently parked pool fiber, or creates one.
SpawnTarget == IF idle # <<>> THEN idle[Len(idle)] ELSE NewFiber

spawnOnto(f) ==
  IF idle # <<>>
  THEN /\ ready' = Append(ready, f)
       /\ idle' = SubSeq(idle, 1, Len(idle) - 1)
       /\ UNCHANGED <<pending, at>>
  ELSE /\ pending' = Append(pending, f)
       /\ at' = [at EXCEPT ![f] = "created"]
       /\ UNCHANGED <<ready, idle>>

\* admitRequest(): the spawn happens on the main stack or on a fiber whose
\* scope was just cleared, so the handler is put down to no request.
admitRequest(r) ==
  /\ inflightRequests' = inflightRequests + 1
  /\ spawnOnto(SpawnTarget)
  /\ job' = [job EXCEPT ![SpawnTarget] = Handler(r)]
  /\ fate' = [fate EXCEPT ![r] = "admitted"]

-----------------------------------------------------------------------------
(* The loop's turn, on the main stack.                                     *)

OnMain == running = 0 /\ walk = NoWalk

\* A fiber gets the thread: it starts its job, or goes on after its await.
\* A handler begins with enterRequest(); a child put down to a request sets
\* the request key; any other job finds whatever key the fiber had.
giveThread(f) ==
  /\ running' = f
  /\ at' = [at EXCEPT ![f] = "run"]
  /\ IF at[f] \in {"created", "idle"}
     THEN /\ requestFibers' = IF job[f].handles = 0 THEN requestFibers
                              ELSE [requestFibers EXCEPT ![job[f].handles] = f]
          /\ scope' = [scope EXCEPT ![f] =
                         IF job[f].handles # 0 THEN job[f].handles
                         ELSE IF job[f].requestId # 0 THEN job[f].requestId ELSE @]
     ELSE UNCHANGED <<requestFibers, scope>>

\* startPending(): batch by batch until none is left, which is first in,
\* first out.
startPending ==
  /\ OnMain /\ turn = "start"
  /\ IF pending = <<>>
     THEN /\ turn' = "ready"
          /\ UNCHANGED <<running, at, scope, pending, requestFibers>>
     ELSE /\ pending' = Tail(pending)
          /\ giveThread(Head(pending))
          /\ UNCHANGED turn
  /\ UNCHANGED <<events, walk, job, ready, idle, parks, children, deadlineOf,
                 futures, admission, winding, reactor, requests>>

\* resumeReady(), and back to the top if that created fibers.
resumeReady ==
  /\ OnMain /\ turn = "ready"
  /\ IF ready = <<>>
     THEN /\ turn' = IF pending # <<>> THEN "start" ELSE "wind"
          /\ UNCHANGED <<running, at, scope, ready, requestFibers>>
     ELSE /\ ready' = Tail(ready)
          /\ giveThread(Head(ready))
          /\ UNCHANGED turn
  /\ UNCHANGED <<events, walk, job, pending, idle, parks, children, deadlineOf,
                 futures, admission, winding, reactor, requests>>

\* Mutant: what ignis_poll() has not delivered yet is not counted.
NothingOutstanding == outstanding = {} /\ callingOff = {}

\* ignis_inflight() = 0 (Reactor's InflightExact).
NothingInFlight == outstanding = {} /\ callingOff = {} /\ channel = <<>>

\* The watcher's generation moved and this thread may reload.
BeginReload ==
  /\ OnMain /\ turn = "wind" /\ ~stopping
  /\ stopping' = TRUE
  /\ UNCHANGED <<control, running, fibers, pool, parks, maps, futures, admission,
                 longTimers, orphanTimers, reactor, requests>>

\* windingDown(): stop when everything is finished.  It leaves dispatch too,
\* which does not keep requests away: see RequestArrives.
WindDown ==
  /\ OnMain /\ turn = "wind"
  /\ turn' = IF /\ stopping /\ NothingInFlight /\ inflightRequests = 0
                /\ \A o \in Ops : waiting[o] = 0
                /\ ready = <<>> /\ pending = <<>>
             THEN "stopped" ELSE "poll"
  /\ UNCHANGED <<events, walk, running, fibers, pool, parks, maps, futures,
                 admission, winding, reactor, requests>>

\* ignis_poll(): an array keyed by id.  An error completion with no fiber
\* parked in C is dropped; a cancellation drained together with its request
\* takes the request's place.
Overwritten(e) ==
  e.kind = "request" /\ Event("cancel", e.id) \in Elements(channel)

ignis_poll ==
  /\ OnMain /\ turn = "poll" /\ channel # <<>>
  /\ events' = Retain(channel, {k \in DOMAIN channel :
                                channel[k].kind # "error" /\ ~Overwritten(channel[k])})
  /\ channel' = <<>>
  /\ fate' = [r \in Requests |->
                IF Event("request", r) \in Elements(channel) /\ Overwritten(Event("request", r))
                THEN "overwritten" ELSE fate[r]]
  /\ turn' = "dispatch"
  /\ UNCHANGED <<walk, running, fibers, pool, parks, maps, futures, admission,
                 winding, nextOp, outstanding, callingOff, owes>>

-----------------------------------------------------------------------------
(* dispatchEvents(), one event at a time.                                  *)

Dispatching(kind) ==
  /\ OnMain /\ turn = "dispatch" /\ events # <<>> /\ Head(events).kind = kind
  /\ events' = Tail(events)

\* Mutant: one request too many.
OverBudgetByOne(r) ==
  FiberBudget > 0 /\ inflightRequests > FiberBudget /\ r \notin Exempt

\* dispatchRequest() and queueRequest(): admit, queue, or shed.
OverBudget(r) ==
  FiberBudget > 0 /\ inflightRequests >= FiberBudget /\ r \notin Exempt

dispatchRequest ==
  /\ Dispatching("request")
  /\ LET r == Head(events).id
     IN  \/ /\ ~OverBudget(r)
            /\ admitRequest(r)
            /\ UNCHANGED <<requestQueue, queued, owes>>
         \/ /\ OverBudget(r)
            /\ QueueDepth > 0 /\ Len(requestQueue) >= QueueDepth
            /\ owes' = owes \ {r}
            /\ fate' = [fate EXCEPT ![r] = "rejected"]
            /\ UNCHANGED <<requestQueue, queued, inflightRequests, pool, at, job>>
         \/ /\ OverBudget(r)
            /\ ~(QueueDepth > 0 /\ Len(requestQueue) >= QueueDepth)
            /\ requestQueue' = Append(requestQueue, r)
            /\ queued' = queued \cup {r}
            /\ fate' = [fate EXCEPT ![r] = "queued"]
            /\ UNCHANGED <<owes, inflightRequests, pool, at, job>>
  /\ UNCHANGED <<turn, walk, running, scope, parks, maps, futures,
                 queueCancelled, winding, reactor>>

\* Mutant: a cancel is remembered for any id.
cancelRequestRemembered(r) ==
  /\ queueCancelled' = queueCancelled \cup {r}
  /\ walk' = [requestId |-> r,
              left |-> Reverse(children[r]) \o
                       (IF requestFibers[r] = 0 THEN <<>> ELSE <<requestFibers[r]>>)]

\* cancelRequest(): a queued request is marked; otherwise the children in
\* reverse order of spawning, then the request's own fiber.
cancelRequest(r) ==
  /\ queueCancelled' = IF r \in queued THEN queueCancelled \cup {r} ELSE queueCancelled
  /\ walk' = [requestId |-> r,
              left |-> Reverse(children[r]) \o
                       (IF requestFibers[r] = 0 THEN <<>> ELSE <<requestFibers[r]>>)]

DispatchCancel ==
  /\ Dispatching("cancel")
  /\ cancelRequest(Head(events).id)
  /\ UNCHANGED <<turn, running, fibers, pool, parks, maps, futures, requestQueue,
                 queued, inflightRequests, winding, reactor, requests>>

ArmedBy(o) == {r \in Requests : deadlineOf[r] = o}

\* A timer that is some request's deadline.
DispatchDeadline ==
  /\ Dispatching("op")
  /\ \E r \in ArmedBy(Head(events).id) :
       /\ deadlineOf' = [deadlineOf EXCEPT ![r] = 0]
       /\ cancelRequest(r)
  /\ UNCHANGED <<turn, running, fibers, pool, parks, requestFibers, children,
                 futures, requestQueue, queued, inflightRequests, winding, reactor,
                 requests>>

\* A completion some fiber waits for, or nobody does any more.
DispatchCompletion ==
  /\ Dispatching("op")
  /\ ArmedBy(Head(events).id) = {}
  /\ LET o == Head(events).id
         f == waiting[o]
     IN  IF f = 0 THEN UNCHANGED <<waiting, parkedOn, running, at>>
         ELSE /\ waiting' = [waiting EXCEPT ![o] = 0]
              /\ parkedOn' = [parkedOn EXCEPT ![f] = 0]
              /\ running' = f
              /\ at' = [at EXCEPT ![f] = "run"]
  /\ UNCHANGED <<turn, walk, job, scope, pool, maps, futures, admission, winding,
                 reactor, requests>>

EndOfBatch ==
  /\ OnMain /\ turn = "dispatch" /\ events = <<>>
  /\ turn' = "start"
  /\ UNCHANGED <<events, walk, running, fibers, pool, parks, maps, futures,
                 admission, winding, reactor, requests>>

\* Mutant: the op still names the fiber that was thrown out of it.
throwIntoKeepsOp ==
  /\ running = 0 /\ walk # NoWalk /\ walk.left # <<>>
  /\ walk' = [walk EXCEPT !.left = Tail(@)]
  /\ LET f == Head(walk.left)
     IN  IF parkedOn[f] = 0
         THEN UNCHANGED <<parkedOn, running, at>>
         ELSE /\ parkedOn' = [parkedOn EXCEPT ![f] = 0]
              /\ running' = f
              /\ at' = [at EXCEPT ![f] = "run"]
  /\ UNCHANGED <<turn, events, job, scope, pool, waiting, maps, futures, admission,
                 winding, reactor, requests>>

\* throwInto(): only a fiber parked on an op is found.  One that has not
\* started, sits in the pool or awaits a Future is left alone.
throwInto ==
  /\ running = 0 /\ walk # NoWalk /\ walk.left # <<>>
  /\ walk' = [walk EXCEPT !.left = Tail(@)]
  /\ LET f == Head(walk.left)
         o == parkedOn[f]
     IN  IF o = 0
         THEN UNCHANGED <<waiting, parkedOn, running, at>>
         ELSE /\ waiting' = [waiting EXCEPT ![o] = 0]
              /\ parkedOn' = [parkedOn EXCEPT ![f] = 0]
              /\ running' = f
              /\ at' = [at EXCEPT ![f] = "run"]
  /\ UNCHANGED <<turn, events, job, scope, pool, maps, futures, admission,
                 winding, reactor, requests>>

EndOfWalk ==
  /\ running = 0 /\ walk # NoWalk /\ walk.left = <<>>
  /\ walk' = NoWalk
  /\ UNCHANGED <<turn, events, running, fibers, pool, parks, maps, futures,
                 admission, winding, reactor, requests>>

-----------------------------------------------------------------------------
(* The running fiber: user code, which may do any of this any number of    *)
(* times, also while a cancellation unwinds it.                            *)

InUserCode(f) == running = f /\ job[f].stage \in {"handler", "stream", "child"}

\* Ignis\sleep(), or a chunk the client is slow to take: awaitOp().
awaitOp(f) ==
  /\ InUserCode(f) /\ nextOp \in Ops
  /\ nextOp' = nextOp + 1
  /\ outstanding' = outstanding \cup {nextOp}
  /\ waiting' = [waiting EXCEPT ![nextOp] = f]
  /\ parkedOn' = [parkedOn EXCEPT ![f] = nextOp]
  /\ at' = [at EXCEPT ![f] = "op"]
  /\ running' = 0
  /\ UNCHANGED <<control, job, scope, pool, maps, futures, admission, winding,
                 callingOff, channel, requests>>

\* The job of a child: put down to the request of the fiber's scope.
ChildOf(f) == [handles |-> 0, requestId |-> scope[f], future |-> nextFuture,
               owner |-> job[f].owner, keyless |-> job[f].keyless \/ scope[f] = 0,
               mine |-> {}, stage |-> "child"]

\* Ignis\async().
spawn(f) ==
  /\ InUserCode(f) /\ nextFuture \in Futures
  /\ LET g == SpawnTarget
     IN  /\ spawnOnto(g)
         /\ job' = [job EXCEPT ![g] = ChildOf(f), ![f].mine = @ \cup {nextFuture}]
         /\ children' = IF scope[f] = 0 THEN children
                        ELSE [children EXCEPT ![scope[f]] = Append(Without(@, g), g)]
  /\ nextFuture' = nextFuture + 1
  /\ UNCHANGED <<control, running, scope, parks, requestFibers, deadlineOf, settled,
                 waiters, admission, winding, reactor, requests>>

\* Future::await() on a future that is not settled yet.  A fiber awaits the
\* futures it spawned; handing one to another fiber is left out.
await(f) ==
  /\ InUserCode(f)
  /\ \E j \in job[f].mine \ settled :
       waiters' = [waiters EXCEPT ![j] = Append(@, f)]
  /\ at' = [at EXCEPT ![f] = "future"]
  /\ running' = 0
  /\ UNCHANGED <<control, job, scope, pool, parks, maps, settled, nextFuture,
                 admission, winding, reactor, requests>>

\* disarmDeadline(): the map first, then ignis_cancel().
disarmed(r) == IF deadlineOf[r] = 0 THEN {} ELSE {deadlineOf[r]}

\* Ignis\deadline(): one timer per request, the last one armed.
deadline(f) ==
  /\ InUserCode(f) /\ scope[f] # 0 /\ nextOp \in Ops
  /\ nextOp' = nextOp + 1
  /\ outstanding' = outstanding \cup {nextOp}
  /\ callingOff' = callingOff \cup disarmed(scope[f])
  /\ deadlineOf' = [deadlineOf EXCEPT ![scope[f]] = nextOp]
  /\ longTimers' = longTimers \cup {nextOp}
  /\ orphanTimers' = orphanTimers \cup (IF requestFibers[scope[f]] = 0 THEN {nextOp} ELSE {})
  /\ UNCHANGED <<control, running, fibers, pool, parks, requestFibers, children,
                 futures, admission, stopping, channel, requests>>

\* Ignis\stop().
stop(f) ==
  /\ InUserCode(f) /\ ~stopping
  /\ stopping' = TRUE
  /\ UNCHANGED <<control, running, fibers, pool, parks, maps, futures, admission,
                 longTimers, orphanTimers, reactor, requests>>

-----------------------------------------------------------------------------
(* The end of a job.                                                       *)

\* The handler returned a StreamedResponse: leaveRequestScope(), then
\* produce() runs user code that is still this request's.
produce(f) ==
  /\ Streaming /\ InUserCode(f) /\ job[f].stage = "handler"
  /\ scope' = [scope EXCEPT ![f] = 0]
  /\ job' = [job EXCEPT ![f].stage = "stream"]
  /\ UNCHANGED <<control, running, at, pool, parks, maps, futures, admission,
                 winding, reactor, requests>>

\* Mutant: the deadline stays armed.
forgetRequestArmed(r) ==
  /\ requestFibers' = [requestFibers EXCEPT ![r] = 0]
  /\ children' = [children EXCEPT ![r] = <<>>]
  /\ UNCHANGED <<callingOff, deadlineOf>>

\* What releaseRequest() does to the maps, disarmDeadline() first.
forgetRequest(r) ==
  /\ callingOff' = callingOff \cup disarmed(r)
  /\ deadlineOf' = [deadlineOf EXCEPT ![r] = 0]
  /\ requestFibers' = [requestFibers EXCEPT ![r] = 0]
  /\ children' = [children EXCEPT ![r] = <<>>]

\* answer() and releaseRequest(), up to its drainQueue().
releaseRequest(f) ==
  /\ InUserCode(f) /\ job[f].stage \in {"handler", "stream"}
  /\ LET r == job[f].handles
     IN  /\ owes' = owes \ {r}
         /\ forgetRequest(r)
         /\ fate' = [fate EXCEPT ![r] = "released"]
  /\ scope' = [scope EXCEPT ![f] = 0]
  /\ inflightRequests' = inflightRequests - 1
  /\ job' = [job EXCEPT ![f].stage = "drain"]
  /\ UNCHANGED <<control, running, at, pool, parks, futures, requestQueue, queued,
                 queueCancelled, winding, nextOp, outstanding, channel>>

Draining(f) == running = f /\ job[f].stage = "drain"

\* Mutant: a slot is left over.
RoomForQueuedEarly ==
  requestQueue # <<>> /\ (FiberBudget <= 0 \/ inflightRequests + 1 < FiberBudget)

RoomForQueued ==
  requestQueue # <<>> /\ (FiberBudget <= 0 \/ inflightRequests < FiberBudget)

\* One round of drainQueue(), on the fiber that released its request.
drainQueue(f) ==
  /\ Draining(f) /\ RoomForQueued
  /\ LET r == Head(requestQueue)
     IN  /\ queued' = queued \ {r}
         /\ queueCancelled' = queueCancelled \ {r}
         /\ IF r \in queueCancelled
            THEN /\ fate' = [fate EXCEPT ![r] = "dropped"]
                 /\ UNCHANGED <<inflightRequests, pool, at, job>>
            ELSE admitRequest(r)
  /\ requestQueue' = Tail(requestQueue)
  /\ UNCHANGED <<control, running, scope, parks, maps, futures, winding, reactor,
                 owes>>

\* The rest of poolBody(): settle the future, forget the child, back to the
\* pool.  A handler's future is nobody's, and it is nobody's child.
settle(j) ==
  IF j = 0 THEN UNCHANGED <<settled, waiters, ready>>
  ELSE /\ settled' = settled \cup {j}
       /\ ready' = ready \o waiters[j]
       /\ waiters' = [waiters EXCEPT ![j] = <<>>]

\* Mutant: the finished child stays in its request's list.
forgetChildNever(r, f) == children

forgetChild(r, f) ==
  IF r = 0 THEN children ELSE [children EXCEPT ![r] = Without(@, f)]

poolBody(f) ==
  /\ \/ InUserCode(f) /\ job[f].stage = "child"
     \/ Draining(f) /\ ~RoomForQueued
  /\ settle(job[f].future)
  /\ children' = forgetChild(job[f].requestId, f)
  /\ idle' = Append(idle, f)
  /\ at' = [at EXCEPT ![f] = "idle"]
  /\ job' = [job EXCEPT ![f] = NoJob]
  /\ running' = 0
  /\ UNCHANGED <<control, scope, pending, parks, requestFibers, deadlineOf,
                 nextFuture, admission, winding, reactor, requests>>

-----------------------------------------------------------------------------
(* The reactor and the front door, at any time.                            *)

reactorSees == <<control, running, fibers, pool, parks, maps, futures, admission,
                 winding, nextOp>>

OpCompletes(o) ==
  /\ o \in outstanding
  /\ outstanding' = outstanding \ {o}
  /\ channel' = Append(channel, Event("op", o))
  /\ UNCHANGED <<reactorSees, callingOff, requests>>

\* The cancellation completes, and the op too unless it already has.
OpCalledOff(o) ==
  /\ o \in callingOff
  /\ callingOff' = callingOff \ {o}
  /\ outstanding' = outstanding \ {o}
  /\ channel' = channel \o (IF o \in outstanding
                            THEN <<Event("error", o), Event("error", o)>>
                            ELSE <<Event("error", o)>>)
  /\ UNCHANGED <<reactorSees, requests>>

\* Also after the thread left dispatch, for a request the front door had
\* picked it for before the body was read.
RequestArrives(r) ==
  /\ turn # "stopped" /\ fate[r] = "unsent"
  /\ \A q \in 1..(r - 1) : fate[q] # "unsent"
  /\ fate' = [fate EXCEPT ![r] = "sent"]
  /\ owes' = owes \cup {r}
  /\ channel' = Append(channel, Event("request", r))
  /\ UNCHANGED <<reactorSees, outstanding, callingOff>>

ClientLeaves(r) ==
  /\ r \in owes
  /\ owes' = owes \ {r}
  /\ channel' = Append(channel, Event("cancel", r))
  /\ UNCHANGED <<reactorSees, outstanding, callingOff, fate>>

-----------------------------------------------------------------------------
Turn ==
  \/ startPending \/ resumeReady \/ WindDown \/ ignis_poll
  \/ dispatchRequest \/ DispatchCancel \/ DispatchDeadline \/ DispatchCompletion
  \/ EndOfBatch \/ throwInto \/ EndOfWalk

FiberStep(f) ==
  \/ awaitOp(f) \/ spawn(f) \/ await(f) \/ deadline(f) \/ stop(f)
  \/ produce(f) \/ releaseRequest(f) \/ drainQueue(f) \/ poolBody(f)

Environment ==
  \/ BeginReload
  \/ \E o \in Ops : OpCompletes(o) \/ OpCalledOff(o)
  \/ \E r \in Requests : RequestArrives(r) \/ ClientLeaves(r)

Next == Turn \/ (\E f \in Fibers : FiberStep(f)) \/ Environment

Spec == Init /\ [][Next]_vars

(***************************************************************************)
(* Scheduling assumed of PHP and of the reactor: the loop and the fiber    *)
(* that runs go on; a sleep and a cancellation complete.  Nothing makes a  *)
(* deadline fire soon (it may be hours away), a client leave or anyone     *)
(* stop the server.                                                        *)
(***************************************************************************)
Fairness ==
  /\ WF_vars(Turn)
  /\ WF_vars(\E f \in Fibers : FiberStep(f))
  /\ \A o \in Ops : WF_vars(o \notin longTimers /\ OpCompletes(o)) /\ WF_vars(OpCalledOff(o))

FairSpec == Spec /\ Fairness

-----------------------------------------------------------------------------
Places == {"absent", "created", "idle", "op", "future", "run"}
Stages == {"none", "handler", "stream", "drain", "child"}
Kinds  == {"op", "request", "cancel", "error"}
Fates  == {"unsent", "sent", "overwritten", "queued", "rejected", "dropped",
           "admitted", "released"}

Jobs ==
  [handles: Requests \cup {0}, requestId: Requests \cup {0},
   future: Futures \cup {0}, owner: Requests \cup {0}, keyless: BOOLEAN,
   mine: SUBSET Futures, stage: Stages]

Walks ==
  [requestId: Requests \cup {0}, left: Seq(Fibers)]

Events == [kind: Kinds, id: Nat]

TypeOK ==
  /\ turn \in {"start", "ready", "wind", "poll", "dispatch", "stopped"}
  /\ events \in Seq(Events) /\ walk \in Walks
  /\ running \in Fibers \cup {0}
  /\ at \in [Fibers -> Places] /\ job \in [Fibers -> Jobs]
  /\ scope \in [Fibers -> Requests \cup {0}]
  /\ pending \in Seq(Fibers) /\ ready \in Seq(Fibers) /\ idle \in Seq(Fibers)
  /\ waiting \in [Ops -> Fibers \cup {0}]
  /\ parkedOn \in [Fibers -> Ops \cup {0}]
  /\ requestFibers \in [Requests -> Fibers \cup {0}]
  /\ children \in [Requests -> Seq(Fibers)]
  /\ deadlineOf \in [Requests -> Ops \cup {0}]
  /\ settled \subseteq Futures /\ waiters \in [Futures -> Seq(Fibers)]
  /\ requestQueue \in Seq(Requests) /\ queued \subseteq Requests
  /\ queueCancelled \subseteq Requests /\ inflightRequests \in Nat
  /\ stopping \in BOOLEAN /\ longTimers \subseteq Ops
  /\ orphanTimers \subseteq Ops
  /\ nextOp \in 1..(MaxOp + 1) /\ nextFuture \in 1..(MaxFuture + 1)
  /\ outstanding \subseteq Ops /\ callingOff \subseteq Ops
  /\ channel \in Seq(Events) /\ owes \subseteq Requests
  /\ fate \in [Requests -> Fates]

Times(f, s) == Cardinality({k \in DOMAIN s : s[k] = f})

Wakers(f) ==
  (IF running = f THEN 1 ELSE 0)
    + Times(f, pending) + Times(f, ready) + Times(f, idle)
    + Cardinality({o \in Ops : waiting[o] = f})
    + Cardinality({j \in Futures : f \in Elements(waiters[j])})

(***************************************************************************)
(* OneWakeSource: beside the types of the state,                           *)
(* every fiber that exists is held by exactly one place                    *)
(* that will resume it: the stack, one of the three lists, one op or one   *)
(* future.  With none it hangs for ever; with two the second one resumes a *)
(* fiber that has moved on (another request's job, or FiberError).         *)
(***************************************************************************)
OneWakeSource ==
  /\ TypeOK
  /\ \A f \in Fibers : Wakers(f) = IF at[f] = "absent" THEN 0 ELSE 1

AdmittedNow == {r \in Requests : fate[r] = "admitted"}

(***************************************************************************)
(* BudgetHeld: $inflightRequests is the number of admitted requests not    *)
(* yet released (releaseRequest runs once per admission however the fiber  *)
(* unwinds), and those that count against the budget never exceed it.      *)
(***************************************************************************)
BudgetHeld ==
  /\ inflightRequests = Cardinality(AdmittedNow)
  /\ FiberBudget > 0 => Cardinality(AdmittedNow \ Exempt) <= FiberBudget

(***************************************************************************)
(* QueueServed: a request waits in the queue only while the budget is      *)
(* used up (or a fiber is busy draining it); the queue and its index       *)
(* agree; a cancel is remembered only for a request still queued; the      *)
(* queue stays within its depth.                                           *)
(***************************************************************************)
QueueServed ==
  /\ requestQueue # <<>> =>
       inflightRequests >= FiberBudget \/ \E f \in Fibers : Draining(f)
  /\ queued = Elements(requestQueue)
  /\ queueCancelled \subseteq queued
  /\ QueueDepth > 0 => Len(requestQueue) <= QueueDepth

(***************************************************************************)
(* NoOvertaking: a request that counts against the budget is not admitted  *)
(* while an earlier one, whose client still waits, is in the queue.        *)
(***************************************************************************)
NoOvertaking ==
  \A q, r \in Requests :
    /\ q < r /\ r \notin Exempt
    /\ fate[q] = "queued" /\ q \notin queueCancelled
    => fate[r] \notin {"admitted", "released"}

(***************************************************************************)
(* CancelStaysInRequest: a cancellation or a deadline of a request is      *)
(* thrown only into the fiber that handles it or into one that still does  *)
(* the job spawned under its key, never into whatever runs there now ("a   *)
(* disconnect on request A then threw CancelledException into whatever     *)
(* request B was doing on the same fiber").  That job is this request's    *)
(* work too, unless it descends from a child spawned without a key, which  *)
(* goes by the key it finds on its fiber.                                  *)
(***************************************************************************)
CancelStaysInRequest ==
  [][walk # NoWalk /\ running = 0 /\ running' # 0 =>
       LET j == job[running']
       IN  /\ walk.requestId \in {j.handles, j.requestId}
           /\ j.keyless \/ j.owner = walk.requestId]_vars

(***************************************************************************)
(* StopLosesNothing: when a winding-down loop ends, no request it was      *)
(* given is still on its way, queued or running, and no fiber is left in   *)
(* the middle of a job.                                                    *)
(***************************************************************************)
StopLosesNothing ==
  turn = "stopped" =>
    /\ \A r \in Requests : fate[r] \notin {"sent", "queued", "admitted"}
    /\ \A f \in Fibers : at[f] \in {"absent", "idle"}

(***************************************************************************)
(* RequestsEnd: every request the loop is given is finished: released,     *)
(* refused, or dropped because its client had left.                        *)
(***************************************************************************)
RequestsEnd ==
  \A r \in Requests :
    (fate[r] = "sent") ~> (fate[r] \in {"overwritten", "rejected", "dropped", "released"})

(***************************************************************************)
(* StopEnds: a loop asked to stop gets there, also when handlers armed     *)
(* deadlines that would fire much later (unless an orphan set one).        *)
(***************************************************************************)
StopEnds == stopping ~> (turn = "stopped" \/ orphanTimers # {})
=============================================================================
