# ignis: a TLA+ model of the runtime

ignis embeds PHP in a Rust process: tokio threads accept HTTP and gRPC, PHP
threads run fibers over a reactor, a master keeps worker processes alive. This
directory models the parts where threads, fibers, processes, clients and signals
meet, checks them with TLC on small instances, and proves with TLAPS, for every
instance, the reactor's refinement and the safety properties of every component.

Paths are relative to the repository. Every definition that models code is
listed with its lines in `PROJECT.json` ("map"); hazards, findings and mutants
are there too.

## The system

| Component | State | Operations | Talks to |
|---|---|---|---|
| Reactor (`crates/ignis/src/reactor.rs`), one per PHP thread | two channels, the map of cancellable tasks, `inflight`, the `answers` map | submit, cancel, inject, deliver, cancel_request, respond*, poll | tokio tasks, the front door, the PHP functions |
| PHP functions (`php/module.rs`) | none of their own | `ignis_submit_*`, `ignis_watch`, `ignis_cancel`, `ignis_poll`, `ignis_respond*`, `ignis_grpc_*` | reactor, Loop.php |
| Userland scheduler (`php/packages/runtime/src/Loop.php`, `Future.php`, `Scope.php`) | fibers by list (pending, ready, idle), by op, by future; requests, children, deadlines, queue | spawn, await, dispatch, admission, cancel, deadline, release, stop | `ignis_poll`, user handlers |
| Front door (`http.rs`, server half of `grpc.rs`) | registry of reactors, connection permits, stop flags, one task per request | accept, pick, read body, deliver, stream, cancel on drop, register, leave, unregister, drain | reactor, signal handler |
| Development reload (`watch.rs`) | watched files, last event, settle task, generation, reload token | report files, notice, settle, bump, wake, take and give back the token | Loop.php's turn, supervisor |
| Thread supervisor (`main.rs`) | worker threads, restart budget | spawn, classify an end, respawn, pause | watch.rs, front door |
| Process master (`workers.rs`) | children, restart budget, one pending signal, shutdown deadline | fork, reap, retry, reload one at a time, forward, kill | kernel, operator |
| C parks and fd waits (`php/wait.rs`, `php/park.rs`) | the gate, parked fibers and stored outcomes by op, `O_NONBLOCK` of a socket that connects | the interposed libc calls, resume, cancel | reactor, `ignis_poll`, kernel |
| Output (`php/output.rs`, `Output.php`, the stream half of `Loop.php`) | captures and the bound stream of each fiber context | echo, capture, flush, bind, write, unbind, reset, destroy | reactor's stream queues, engine |
| Superglobals, scoped objects, request bodies (`php/superglobals.rs`, `scoped.rs`, `post.rs`) | values per fiber context, one set of them installed in the engine | switch, isolate, allocate, seal, clear, free, enter, leave | engine, Loop.php |
| Temporal bridge, Revolt driver, classic runner, Symfony runtime | adapters over the loop | poll, schedule | external SDKs |

What is hard here. One op has several possible announcers (its task, the
canceller, a producer) that share only a flag and a counter. One batch of
completions is applied in order while every event may move the fibers the next
one is about. A fiber object outlives its request in a pool. A reactor is chosen
before, and used after, an await. Flags are tested before a notification is
subscribed to. Per-request state is keyed by the address of a fiber context, which
outlives the fiber, and a call that was cut short falls back to one that holds the
thread. Threads and processes die, or are asked to leave, between any two
of these steps.

What makes each part correct: the reactor completes every op once and counts
exactly; the scheduler resumes every fiber from one place, keeps cancellations
within a request, holds its budget and loses nothing when it stops; the front
door leaves no client waiting on nobody; the reload loses no save it
could see, and takes no more threads away than its token and the boots that returned one
allow; the master keeps its slots, tracks every process and ends; a
parked call resumes its fiber once and never reports a time that has not passed; the
bytes, superglobals, properties and body of a request are seen by nobody else.

## Modules

| Module | Models | Runs |
|---|---|---|
| `OpBoard` | abstract: what the reactor promises PHP | through `reactor` |
| `Reactor` | ops, tasks, claims, cancellation, poll | `reactor` |
| `ReactorProofs` | theorems about `Reactor` | TLAPS |
| `Retain` | `Vec::retain` and `array_filter`; used by `Loop` and `FrontDoor` (`Master` uses `Elements`) | through theirs |
| `Loop` | the scheduler of one PHP thread, on the reactor OpBoard describes | `loop`, `loop_admission` |
| `LoopProofs` | theorems about `Loop` | TLAPS |
| `FrontDoor` | a request between connection and PHP thread, the `answers` map, thread ends, drain | `front_door`, `front_door_hang` |
| `FrontDoorProofs` | theorems about `FrontDoor` | TLAPS |
| `Reload` | watcher, settle task, token, thread supervisor | `reload` |
| `ReloadProofs` | theorems about `Reload` | TLAPS |
| `Master` | `--workers N` | `master` |
| `MasterProofs` | theorems about `Master` | TLAPS |
| `Park` (`MCPark`) | blocking libc calls of fibers, turned into reactor ops | `park`, `park_flock` |
| `ParkProofs` | theorems about `Park` | TLAPS |
| `Output` (`MCOutput`) | echo, captures and streamed bodies of pooled fibers | `output` |
| `OutputProofs` | theorems about `Output` | TLAPS |
| `Scope` (`MCScope`) | superglobals, scoped objects and request bodies across switches | `scope`, `scope_child` |
| `ScopeProofs` | theorems about `Scope` | TLAPS |

Definitions keep the name of the function they model (`submit`, `dispatchRequest`,
`respond_start`, `schedule_wake`, ...). A function that another thread can observe
half way is split at those points: the dispatcher's spawn-then-insert and
claim-then-confirm, a task's unlist, claim and send, `poll`'s enter, drain and
count, `schedule_wake`'s read, swap, bump, wake and release,
`shutdown_signalled`'s flag and subscription, `unregister`'s two halves. What runs
on one PHP thread between two suspensions is one step.

**Reactor.** `to_tokio` and `done` are the channels, `dispatcher` and `task` the
program counters, `cancellable` the locked map, `completed` the shared flag,
`producing` what another thread has counted and not sent yet. `owed` is auxiliary:
the ops whose completion has not been sent. Payloads are left out.

**Loop.** `turn` is where `runUntil()` is, `events` the rest of the batch, `walk`
the rest of a cancellation, `at` and `job` each fiber's place and work. Handlers are
arbitrary: at each point user code may sleep, spawn, await what it spawned, set a
deadline, stop the loop or return, streamed or not. Op ids and request ids, one space in the code, are
two in the model; `channel` holds completions in order; the array keyed by id that
`ignis_poll()` builds is modelled, overwriting included. `fate`, `longTimers` and
`orphanTimers` are auxiliary, and so are `owner`, `keyless` and `mine` of a job:
whose work it really is, whether it descends from a child spawned without a request
key, and which futures it may await.

**FrontDoor.** `conn` is the hyper task of a request, `answers`, `reply`, `frames`,
`failure` the channels between it and PHP, `sending` a chunk op that waits for room
and lives on tokio, so that it survives its PHP thread. Connections are a count of
permits held; over HTTP/2 several requests share one, so a request is not tied to
its connection, and one that breaks drops its requests one by one first. A client
leaves in two steps, because the connection's future drops its fields one after the
other: first the oneshot receiver, then the guard that cancels (`conn = "dropping"` in
between). Handlers call the answering functions in any order `Loop.php` lets them. One
returns when it has answered or was called off, and also when its answer was refused or
there was none (`php = "unanswered"`). `got` and `unheard` are auxiliary: what the client
has, and whose stream began between the two drops.
The answer of health and metrics routes needs no reactor and changes no state.

**Reload.** The program starts before its first thread is spawned. `loaded` is what each
thread included, `watched` what the threads have reported so far, `events` what the
watcher's callback has yet to see: a file may be saved after its inclusion and before it is
watched. `last` is the unsettled event, `waker` and `rechecking` the settle tasks,
`reloading` the token, `recorded` the slots whose generation the supervisor has read, which
it does after the thread has started. Requests are left out: a thread turns when woken or
whenever it likes, and may include one more file at any time. `old` (files of a thread saved
since it loaded them), `away`, `gifts`, `asked`, `late`, `overtaken` and `missed` are
auxiliary.

**Master.** `pc` and `cursor` follow `supervise()`'s round, `proc` is what the kernel
knows of each process. Time is left out: a pause, a minute or a deadline may be over
whenever the code looks. A worker that has just been forked may swallow its SIGTERM,
because it still has the master's handler.

**Park.** A call is one step up to its suspension (`DataCall`, `Poll`, `Select`,
`Connect`, ...) and one from its wake-up (`PollWoken`, `IoWoken`, ...), because nothing
else of the thread runs in between. `gate` is the thread's counter, `parked` and
`results` the two tables of `wait.rs`, `ops` and `chan` the reactor's side of them.
One tick is a microsecond. `call` holds the timeout the call runs on and the caller's own
in nanoseconds (`us`, `asked`), what the last park was for (`left`), the time waited and the
deadline, so that the two conversions are part of what is checked: `milliseconds_ceil`, which
rounds up and saturates, and `microseconds_of`, which truncates. A poll whose park was cut
makes the real call with `left` again.
Readiness comes and goes as it likes: a watch may fire for data somebody else takes.
The policy that decides which libraries park is a choice. `pc = "kernel"` is the thread
held by the real call. Regular files, error returns of the system calls and the
remainder `nanosleep` writes back are left out. A call that finds nothing it could
submit a wait for makes the real, blocking call (`park.rs:584`), and so does the model.

**Output.** `sinks` and `bound` are keyed by the address of a fiber context; `phase`
follows `Loop::produce` and `endStream`. A streamed byte is its writer and its number,
so order and completeness can be stated. `slow` are the sends that found the queue full:
each is a task of its own, which joins the queue's waiters, `line`, only once it is
polled. The waiters are served in their order, and a `try_send` finds no room while
there are any. A send whose fiber was interrupted or died goes on without it
(`Disowned`).

**Scope.** `globals` is the symbol table with `VIEW`, `BASE` and the slots of the
contexts, `objects` the live scoped objects with the values in their slots and the rows
of every scope, `bodies`, `content_type` and `request_method` what `post.rs` keeps: the first per
fiber, the other two one for the thread. Each switch applies
both observers in one step. A pooled fiber
serves one job after another; a raw fiber, which user code starts itself, dies and
leaves its address. Values are who wrote them, and for a property also which of the
objects that used the handle. A fiber without a
slot writes into the world it runs in, its starter's or the loop's. `expected` (what each
context, the loop included, last put into its arrays), `newest` (the fiber whose content type
is installed, until any request enters or leaves), `wrote`, `stained` and `orphaned` are
auxiliary. The four arrays move together, so one stands for them.

## Runs

All bounds are constants in the `.cfg`; names starting with `Max` are bounds of the
model, except `MaxConnections`, `MaxInt`, `MaxLong` and `MaxULong`; the rest are the code's own
parameters.

- **reactor** (3 ids, 1 server). `InflightExact`, `OneOwner`, `BlockedHasSource`,
  the refinement `ImplementsBoard`, and under fairness `CancelSettlesTarget` and
  `CompletionsReachPhp`. Three ids are a target, its cancel and
  one op or request more: a claim involves two parties, so a fourth id adds no new race.
- **loop** (2 requests, 2 ops, 1 child, streams). `OneWakeSource`,
  `StopLosesNothing`, `CancelStaysInRequest`. Two requests are
  needed for a pooled fiber to meet another request, two ops for a sleep and a
  deadline, one child for a family to walk.
- **loop_admission** (3 requests, one exempt, budget 1, queue 1). `BudgetHeld`,
  `QueueServed`, `NoOvertaking`, and under fairness `RequestsEnd` and `StopEnds`. Enough
  for one running, one queued, one exempt or refused.
- **master** (2 slots, budget 1, 2 deaths, 2 SIGHUPs, 2 SIGTERMs, forks may fail).
  `NoStray`, `SlotsKept`, `OneAtATime`, `ShutdownEnds`. Two deaths exhaust the
  budget; two SIGHUPs allow one during the shutdown another SIGTERM began.
- **reload** (2 threads from their first spawn on, one file, any two saves, SIGHUPs or
  crashes, token of 1, a restart budget of 1). `SaveArmed`, `OneAway`, `ReloadIsFree`,
  `FreshCode`. Two saves are needed for one to arrive while the first settles, two threads
  for one to lose the token or to be given another's; one file is enough for it to be loaded
  and not yet watched, on either thread. A second crash in a minute exceeds the budget.
- **front_door** (2 threads, an HTTP request and a gRPC call that may share the
  one connection, chunk queue of 1). `LeaverIsTold`, `CutOnlyByDeath`, `DrainHonest`, `OneLateAccept`,
  `NeverStranded`. Clients may leave at any point, the one between receiver and guard
  included, and answers may be refused. Threads are incarnations: two allow a death with a survivor. A
  queue of one makes a chunk wait after a single unread one, and a limit of one
  connection makes the next one refused.

- **park** (2 fibers, a pipe, a connected socket with a timeout, one that connects, one
  that listens).
  One fiber makes every call but reads, the other reads and locks: two are needed for
  one to hold the lock the other waits for, and for the gate to pass between handlers.
  Of the timeouts, 3 units of a second's part are one and a half microseconds, which a poll
  rounds up to a millisecond and a nanosleep truncates; 6 are more than the model's second,
  which nanosleep refuses; 9 seconds saturate the model's c_int and its u64. `ParkedIsSuspended`, `GateFollowsFiber`, `FlagRestored`,
  `HonestTimeout`.
- **output** (2 addresses, 2 requests of up to 3 bytes, frames of 2, a queue of 1).
  `OwnBytesOnly`, `InOrder`, `AnsweredInFull`.
  Three bytes are a full frame and a tail, and a queue of one makes the second frame
  wait; two addresses allow a fiber to be reused while another streams.
- **scope** (3 addresses, 2 requests, a child, a raw fiber, one handle used twice).
  `OwnSuperglobals`, `KeepsOwnProperty`, `PooledIsClean`, `NoDeadProperty`,
  `BodyIsOwn`. Three addresses hold two requests and a fiber one of
  them started; with fewer addresses than jobs every run reuses some. Addresses and
  requests are symmetric: no definition tells one from another.

Three runs state what a comment says and show that the code does otherwise:

- **front_door_hang**: `NobodyHangs`. A request delivered after its thread was
  unregistered waits for ever. `NeverStranded` excepts exactly these.
- **park_flock**: `HolderCanRelease`. A fiber whose wait for a lock is cancelled calls
  the blocking `flock`, and holds the thread of the fiber that has the lock.
- **scope_child**: `NextRequestIsClean`. What a child or a raw fiber wrote to a scoped
  object stays under its address, where the next request reads it. `PooledIsClean`
  excepts exactly these addresses (`stained`).

In Loop, FrontDoor, Reload, Master, Park, Output and Scope the type invariant `TypeOK`
is the first conjunct of the invariant the others lean on.

Each property of a passing run has a mutant in `PROJECT.json`: the definition
changed the way a plausible bug would, which the run then catches.

Deadlock checking is off in every configuration, because each system may stop: a
script ends, a loop or a master leaves, a process exits, and clients need not come.
What must not stop is stated as liveness or as an invariant (`BlockedHasSource`,
`StopLosesNothing`, `NeverStranded`, `ParkedIsSuspended`).

### Fairness

Weak fairness is assumed only of what a scheduler runs once it is ready.

- Reactor: the dispatcher, tasks that have their outcome, producers that have
  counted, and a PHP thread that keeps polling. Not of a timer or a descriptor
  becoming ready, nor of new work.
- Loop: the loop's turn, the running fiber (a handler that never suspends would
  block its thread, which the watchdog reports), ops other than timers marked
  long, and cancellations.
- Reload: the watcher's callback, the settle task, a script that boots and reports what it
  loaded, a drain that ends (`StopEnds` of Loop), the supervisor, a thread with a completion
  waiting. Not of a thread turning unwoken, nor of a request being released, so a file that
  was included lazily may stay unwatched.
- Master: its loop and the passing of the deadline. Not of workers: they may
  ignore a SIGTERM for ever.
- FrontDoor, Park, Output and Scope state no liveness: clients, readiness and user code
  owe nothing. What must not get stuck there is an invariant (`NeverStranded`,
  `ParkedIsSuspended`, `AnsweredInFull`).

## Proofs

Every theorem holds for every value of the constants that satisfies the assumption of
its module, and so without the bounds of the runs. The assumptions say what kind of
thing a constant is (a natural number, a set of requests), and in these cases more:

| Assumption | What it adds | Why |
|---|---|---|
| `BoundsAssumption` (Reactor) | nothing | |
| `LoopAssumption` | nothing: budget and queue depth may be 0 | 0 means unlimited in `Loop.php` |
| `ReloadAssumption` | `Parallel` is not 0 | `reload_parallel` keeps positive limits only (`watch.rs:198`) |
| `MasterAssumption` | `Count` is not 0 | `--workers` is at least 1 (`main.rs:179`) |
| `FrontDoorAssumption` | `StreamChunks` is not 0 | the queue has room for at least one (`reactor.rs:430`) |
| `ParkConstants` | the units of time are not 0; a `c_int` of milliseconds fits an i64 of nanoseconds and a u64 of microseconds; a second's part is at most a u64; `SO_RCVTIMEO` set means at least 1 ms; the first pause of `flock` is not above the last | 1000 each; 2^31 * 10^6 < 2^63; `sock_timeout_ms` rounds up and 0 is none; the two pauses are constants of the code |
| `OutputConstants` | a frame has at least one byte, a queue room for at least one frame; the address and request of nobody is neither | a threshold of 0 and one of 1 send the same frames; `reactor.rs:430`; a `None` in the code |
| `ScopeConstants` | {main}, the null context, row zero and constructor values are nobody's address or request | they are distinct in the code |

Loop and FrontDoor filter lists. `RetainKeeps`, at the beginning of `LoopProofs`, says that
what is left is a sequence of the elements kept, in the order they had; `FrontDoorProofs`
has the part of it about which elements are left.

**Reactor** (`TypeOK`, `OneOwner`, `InflightExact`, `BlockedHasSource`,
`ImplementsBoard`). `InflightExact` alone is not inductive: whether a step may remove an
op from `owed` depends on who else still holds it. `OneOwner` says that, in five parts:
`QueueOwns` (a submission in the queue is owed, untasked and listed once),
`DispatcherOwns` (so is the one in the dispatcher's hands, and what it inserts or
claims was spawned), `TaskOwns` (a spawned task whose flag is down is owed; the flag
goes up once; only spawned tasks are listed), `ProducersOwn` (what a producer has
counted is owed by nobody else) and `FreshIds`. It is inductive relative to
`TypeOK`; the counter follows from it and from `Counted`, which adds that `owed` and
`producing` are finite. `BlockedHasSource` needs the converse of ownership: everything
owed is `Attended`, in somebody's hands and, if its flag is up, in those of the task
about to send; and poll blocks only for a `Reason` that lasts. The refinement uses all:
the abstract `open` is what is owed or being produced, `unread` is `batch \o done`, and
every action maps to one step of the board or to none.

**Loop** (`OneWakeSource`, `BudgetHeld`, `QueueServed`, `NoOvertaking`,
`CancelStaysInRequest`, `StopLosesNothing`). One invariant, `LoopInv`, carries them all
(`LoopInvariance`), because the lists refer to each other. `Held` ties the place of a
fiber to the lists that name it, from both sides; `Room` is why a spawn finds a fiber;
`Order` says that requests are queued, batched and in the channel in the order of their
ids, each in one of the three, which is what lets `NoOvertaking` compare a request with
the queue; `Handlers` that an admitted request has one fiber, which makes the counter
of `BudgetHeld` exact; `Keys` that the maps a cancellation walks, and the rest of a walk
under way, name only fibers that still do this request's work; `Awaits` that a child
waits only for futures made after its own. The last makes `StopLosesNothing` true when
fibers wait for each other: of the futures somebody waits for, take the latest; its child
is suspended, has no op left, and so waits for a later one. This is where the model's
user code is narrower than PHP: a fiber awaits the futures it spawned. Two fibers that
hand each other their futures and await them deadlock by themselves.

**FrontDoor** (`LeaverIsTold`, `CutOnlyByDeath`, `NeverStranded`, `DrainHonest`,
`OneLateAccept`). `Life` follows one request: before its delivery it left no trace,
until its end it has a thread, its entry in `answers` goes with its oneshot, an entry is
owed by a handler that has not returned on a thread not gone, and who waits without an
entry was answered, has lost its thread or was abandoned by its handler. `Told` is its part
about leaving: until the guard is dropped the entry is still there to be cancelled, unless
PHP finished, lost its thread or began its stream in between. `ListedInv` says who is in the registry and
`LateInv` where the accept loop is once a connection slipped in. `PickIsLeastLoaded` is
about `pick` alone: from any start of its ring it finds a registered thread with the
fewest pending requests.

**Reload** (`SaveArmed`, `OneAway`, `ReloadIsFree`). `FlagHasTask`: the flag that keeps a
second settle task from starting is up only while a first one is there to take it down.
`AwayInv`: the token and the boots that returned one together cover every thread that is
away, which holds from the first spawn on and whatever crashes. `BehindInv`: a recorded
thread that stops for a reload is behind the generation its slot remembers, and is still when
the supervisor looks, unless the slot was recorded late.

**Master** (`NoStray`, `SlotsKept`, `OneAtATime`). `KidsInv`: where the loops' cursor is
within the list of children, which another step may have shortened; slots and pids of
the children are distinct and older than the next fork; a process not reaped has a child
and the reverse; before a shutdown only the worker the reload waits for drains.

**Park** (`ParkedIsSuspended`, `GateFollowsFiber`, `FlagRestored`, `HonestTimeout`).
Two lemmas on the conversions first: what `milliseconds_ceil` makes of a timeout is never less
than what was asked for, whatever saturates (`CeilCovers`), and what `microseconds_of` makes of
one is short by less than a microsecond (`SleepCovers`). `Core` then says of each fiber where it stands
(`Stands`), what will wake it (`Waits`), that its deadline covers the
caller's timeout, also where a cut park starts the wait again (`Sound`, with `AfreshSound` and
`AgainSound`), and that the completion of a timer is one whose time is
up (`Earned`).

**Scope** (`OwnSuperglobals`, `KeepsOwnProperty`, `PooledIsClean`, `NoDeadProperty`,
`BodyIsOwn`). `World` and `OwnArray` say where a context's array is, in the symbol table
or in its slot, that the base world is in the other place and still is what the loop, or a
fiber without a slot, last put there. `Bodies` ties the thread's content type and method to a
body that is there. `HandleInv` and `FiberInv`
are about what a scope sees of a handle, or will once it runs (`View`): the running
scope has no row of its own, so a switch moves values but changes nobody's view
(`Follows`).

**Output** (`OwnBytesOnly`, `InOrder`, `AnsweredInFull`). `AddressOK` says of a fiber that
it has a stream bound exactly while it produces one, its own request's, and that its
captures and pending bytes are that request's; a fiber without a job has nothing, which is
what `capture_reset` and the destroy hook are for. The order of a body is about a
concatenation of any number of frames, which the prover cannot fold over. `Chained`
describes it without: a frame of the queue holds consecutive bytes, and it starts after the
last byte of the one before (`Before`), the first after the body. `OneSend` is the sentence
of `module.rs:549`: at most one send of a request is awaited, its frame continues the
chain, and nothing is pending behind it. `Progress` then follows the fiber: while it
produces, the pending bytes continue the chain up to what was written; while it waits, the
awaited frame does; once the body ended nothing is left (`AllSent`). Neither order nor
completeness is inductive without the other: that a frame continues the chain needs that
none was dropped before it. Both are claimed only of requests whose wait was not cut, and
completeness only while the client is there.

Only model-checked is liveness, because fairness and ENABLED are outside the prover:
`CancelSettlesTarget`, `CompletionsReachPhp`, `RequestsEnd`, `StopEnds`, `FreshCode`,
`ShutdownEnds`. The runs also evaluate every inductive invariant's consequences on their
instances; `OutputInv` itself was checked by TLC on the instance of `output` before it was
proved.

## Known divergences without a run

Met while modelling; the models do what the code does, and the properties name the
exception.

- A task that ends before the dispatcher inserts it stays in the map for the life of
  the reactor (`reactor.rs:239`), though the map is of tasks that "can still" be
  called off (`reactor.rs:194`). Harmless: its flag is up.
- A request and its cancellation drained by one `ignis_poll()` share an array key
  (`php/module.rs:248`), so the loop never sees the request; `reactor.rs:388` says
  "a second completion on the same id, not a replacement for the first".
- `attributedToRequest()` sets the request id in a child's scope and nothing clears
  it when the child returns to the pool (`Loop.php:238`). A streamed producer has no
  request id any more (`Loop.php:832`); a child it spawns, put on such a fiber, finds the
  id of the old request, and its own children are listed under that (`Loop.php:200`). A
  disconnect of the old request is then thrown into the streaming request's work, what
  the comment at `Loop.php:152` says no longer happens. TLC finds it with 2 requests, 3
  ops and 3 children, in 41 steps; `CancelStaysInRequest` excepts `keyless` jobs.
- A child that outlives its request can arm a deadline after `releaseRequest()`
  disarmed it (`Loop.php:1043`); it then holds a graceful stop (`orphanTimers`).
- A paused slot keeps a pid that was reaped and is signalled (`workers.rs:91`),
  against "a pid this process forked and has not reaped" (`workers.rs:155`).
- A SIGHUP during the shutdown forks workers that the deadline kills without their
  ever having been asked to drain (`workers.rs:107`).
- The rolling reload goes on when the fresh worker is forked, not when it accepts
  (`workers.rs:146`), against "the listener is never without a worker".
- A fork that fails on a respawn drops the slot (`workers.rs:99`), against "paused,
  never dropped" (`forkFailed`).
- Every boot gives back a reload token, also the first one of a thread (`main.rs:392`,
  `Loop.php:323`) and a crash's respawn, which took none (`watch.rs:206`): two threads may
  then be away, against "one at a time". `OneAway` counts these boots (`gifts`).
- A file saved after a thread included it and before `watchLoadedFiles()` reported it is
  dropped by the watcher (`watch.rs:89`; `Loop.php:325`, `577`, `889`): the thread keeps the
  old code (`missed`).
- `Worker::spawn()` reads the generation after it started the thread (`main.rs:459`). If the
  thread boots and a change settles first, its reload is taken for a crash (`late`).
- An answer that begins to stream between the drop of the client's receiver and that of its
  guard takes the id away (`reactor.rs:434`), the guard finds nothing to cancel, and PHP is
  not told that the client left (`unheard`).
- A whole answer below 400 on a gRPC id is refused (`reactor.rs:412`), which `Loop.php:786`
  and `865` log before they release the request; nobody answers it then, as `Loop.php:773`
  says of every refused answer. The client waits until it gives up (`unanswered`).
- A script that loads before a change and takes its first turn after the generation
  moved never reloads (`Loop.php:320`; `overtaken`).
- `drain()` counts registered reactors only (`http.rs:166`): what a reloading thread
  still owes, and bodies still being read, are cut by the exit.
- A deadline dispatched in one batch after a completion that made the handler spawn and
  await a child reaches no fiber (`Loop.php:991`), against "the request fiber and its
  children get DeadlineExceededException" (`Loop.php:1035`).
- A SIGHUP overwrites a SIGTERM nobody looked at yet (`workers.rs:218`), against
  `docs/reference/cli.md:77`; `ShutdownEnds` starts from a SIGTERM that was noticed.
- A deadline thrown while the last chunk waits leaves `endStream()` before
  `ignis_respond_end()` (`Loop.php:938`); the body stays open until its sender goes.
- A gRPC call whose thread dies ends with OK (`grpc.rs:93`, `reactor.rs:461`).
- `select` answers "timed out" on a readiness the kernel then denies (`park.rs:802`),
  which the comment in `poll_impl` calls "a lie" (`park.rs:674`). `HonestTimeout`
  leaves select out.
- `accept` asks `would_block`, which says no for a listening socket, so it never parks
  (`park.rs:297`).
- A park that was cut short, or could not switch, leaves its watches armed
  (`park.rs:589`), against "the ones that did not win are cancelled immediately after".
- A poll whose park is cancelled blocks for the time that was left before the park
  (`park.rs:658`, `692`), up to its whole timeout once more; `HonestTimeout` bounds it by
  twice the timeout and the millisecond that rounding adds.
- `nanosleep` truncates to microseconds (`park.rs:619`), so it may be short by less than one.
- A capture inside a producer captures nothing, because `ub_write` looks at the bound
  stream first (`output.rs:131`).
- After a wait for room was cut, a later chunk may be sent before the one that waits
  (`module.rs:549`; `InOrder` excepts `cut`).
- Content type and length are one per thread (`post.rs:59`): a handler that awaits finds
  another request's or none, against "Per fiber" (`post.rs:15`). `BodyIsOwn` claims them only
  until another request enters or any leaves, and the body itself always. `leave()` nulls the
  content type and leaves the request method pointing into the dropped body, against the
  comment at `post.rs:83`.
- A fiber without a slot writes into the world it was started in (`superglobals.rs:200`): a
  child of the loop changes the superglobals every later fiber starts from.
- A child on a pooled fiber that served a request sees that request's superglobals
  (`superglobals.rs:180`): nothing clears the slot.
- If the owner of the installed view dies in a switch to a fiber without a slot, the
  loop keeps the dead view (`superglobals.rs:231`), against "next switch to main restores
  BASE" (`orphaned`).
- A scope that only ran between an object's allocation and its seal keeps the row it was
  given then (`scoped.rs:204`), against "inherits from until it writes".

## Not modelled

- Input streams, chaos, background tasks, the key-value part of `Scope.php`: read-only
  views, fault injection, or state of one fiber only.
- Which libraries and symbols park, and how the interposed symbols find each other
  (`park.rs`, `csrc/park.c`): tables read at start. In the model the policy is a choice.
- The gRPC client, `CoreSource`, the Revolt driver and the classic runner: planned below.
- Engine start-up and FFI (`php/embed.rs`, `tsrm.rs`, `zval.rs`, `ignis-sys`):
  bindings without state a model could tell apart.
- Configuration, metrics, HTTP message classes: parsing and rendering.
- The Temporal bridge's SDK side, the Symfony adapters, the PHPStan rule.

`PROJECT.json` ("components") gives the reason for each.

## Plan

1. `CoreSource`, the gRPC client and the Revolt driver, as clients of the reactor. One
   thing to look at there: `zif_shutdown` of `temporal.rs` forgets the worker as soon as
   the shutdown was asked for.
2. Composition: Loop over the reactor's board with parks; FrontDoor over Loop.
