-------------------------------- MODULE Park --------------------------------
(***************************************************************************)
(* The universal park of one PHP thread (php/park.rs over php/wait.rs): a  *)
(* blocking libc call made inside a fiber is turned into reactor ops and a *)
(* suspension, and the loop's ignis_poll resumes the fiber when the first  *)
(* of them completes.  When the call cannot park, or when its park is cut  *)
(* short by a cancellation, the real call is made and holds the thread.    *)
(*                                                                         *)
(* Every call is one step up to its suspension and one step from its       *)
(* wake-up: nothing else of the thread runs in between.  Descriptors, the  *)
(* clock and the reactor's tasks move on their own.  A fiber is in one     *)
(* await at a time and watches a descriptor once, so <<fiber, descriptor>> *)
(* or <<fiber, Timer>> stands for an op id; the code never reuses an id,   *)
(* and a completion that arrives after its fiber was resumed finds nobody, *)
(* so the model drops it there.                                            *)
(* One tick is a microsecond.                                              *)
(***************************************************************************)
EXTENDS Integers, FiniteSets

CONSTANTS
    Fibers,      \* the fibers of the thread
    Fds,         \* the descriptors they use, none of them a regular file
    Pollable,    \* those that are pipes or anonymous inodes (a pidfd is one)
    Listening,   \* sockets with SO_ACCEPTCONN
    Connected,   \* sockets with a peer
    Bound,       \* datagram sockets with a local address
    Timed,       \* sockets with SO_RCVTIMEO/SO_SNDTIMEO set, to SockTimeout
    SockTimeout,                     \* in milliseconds
    Seconds, SubSeconds,             \* the timeouts a caller may ask for
    MsPerSecond, UsPerMs, NsPerUs,   \* 1000 each in the code
    MaxInt, MaxLong, MaxULong,       \* c_int::MAX, i64::MAX and u64::MAX
    FlockFirst, FlockMax,            \* back-off of flock, in ticks
    Polled,                          \* the sets of descriptors polled together
    Makes                            \* bound: the kinds of call of each fiber

\* The unit of a timespec's second part.
UnitsPerMs == UsPerMs * NsPerUs

ASSUME ParkConstants ==
    /\ Pollable \subseteq Fds /\ Listening \subseteq Fds /\ Connected \subseteq Fds
    /\ Bound \subseteq Fds /\ Timed \subseteq Fds
    /\ Seconds \subseteq Nat /\ SubSeconds \subseteq 0 .. MaxULong
    /\ SockTimeout \in 1 .. MaxInt
    /\ MsPerSecond \in Nat \ {0} /\ UsPerMs \in Nat \ {0} /\ NsPerUs \in Nat \ {0}
    /\ MaxInt \in Nat \ {0} /\ MaxLong \in Nat /\ MaxULong \in Nat
    /\ MaxInt * UnitsPerMs <= MaxLong /\ MaxInt * UsPerMs <= MaxULong
    /\ FlockMax \in 1 .. MaxULong /\ FlockFirst \in 1 .. FlockMax
    /\ Polled \subseteq SUBSET Fds
    /\ "main" \notin Fibers /\ "nobody" \notin Fibers /\ "timer" \notin Fds

VARIABLES
    running,   \* the fiber that runs, or "main"
    gate,      \* PARK: 0 no fiber, 1 in a fiber, 2 in a handler
    pc,        \* "user", "parked", "woken" or "kernel" (the thread is held)
    call,      \* the interposed call a fiber is in
    exc,       \* EG(exception) is set on its stack
    ans,       \* how its last call ended, until it waits or gives the thread back
    parked,    \* PARKED: the op ids a fiber is parked on
    results,   \* RESULTS: op ids whose outcome is stored
    ops,       \* the reactor's tasks that somebody waits for
    chan,      \* completions on their way to ignis_poll, in any order
    ready,     \* descriptors a poll would report now
    nonblock,  \* descriptors with O_NONBLOCK
    holder     \* the fiber that holds the file lock

thread == <<running, gate>>
fiber == <<pc, call, exc, ans>>
table == <<parked, results>>
reactor == <<ops, chan>>
kernel == <<ready, nonblock, holder>>
vars == <<thread, fiber, table, reactor, kernel>>

Nobody == "nobody"
Timer == "timer"
Forever == -1
Ids == Fibers \X (Fds \cup {Timer})
Mine(f) == {f} \X (Fds \cup {Timer})

Kinds == {"none", "io", "wait", "poll", "select", "sleep", "flock", "connect"}

\* us is the timeout it runs on; asked is the caller's own, in nanoseconds, of
\* the calls that are held to it; left is what its last park was for.
Call(kind, on, us, asked) ==
    [kind |-> kind, on |-> on, us |-> us, asked |-> asked, left |-> us, waited |-> 0, due |-> us]

NoCall == Call("none", {}, 0, 0)

Lesser(a, b) == IF a < b THEN a ELSE b

\* A timeout made twice, and a millisecond that rounding may add to a poll.
LongestWait == 2 * MaxULong + UsPerMs

TypeOK ==
    /\ running \in Fibers \cup {"main"}
    /\ gate \in 0 .. 2
    /\ pc \in [Fibers -> {"user", "parked", "woken", "kernel"}]
    /\ call \in [Fibers -> [kind : Kinds, on : SUBSET Fds, us : -1 .. MaxULong,
                            asked : -1 .. MaxULong * NsPerUs, left : -1 .. MaxULong,
                            waited : 0 .. LongestWait, due : -1 .. LongestWait]]
    /\ exc \in [Fibers -> BOOLEAN]
    /\ ans \in [Fibers -> {"none", "ready", "timeout"}]
    /\ parked \subseteq Ids
    /\ results \subseteq Ids
    /\ ops \subseteq Ids
    /\ chan \subseteq Ids
    /\ ready \subseteq Fds
    /\ nonblock \subseteq Fds
    /\ holder \in Fibers \cup {Nobody}

Init ==
    /\ running = "main" /\ gate = 0
    /\ pc = [f \in Fibers |-> "user"]
    /\ call = [f \in Fibers |-> NoCall]
    /\ exc = [f \in Fibers |-> FALSE]
    /\ ans = [f \in Fibers |-> "none"]
    /\ parked = {} /\ results = {}
    /\ ops = {} /\ chan = {}
    /\ ready = {} /\ nonblock = {}
    /\ holder = Nobody

-----------------------------------------------------------------------------
(* Arithmetic of the timeouts.                                             *)

saturating(x) == Lesser(x, MaxLong)

\* Saturates before the clamp; rounds a remainder up.
milliseconds_ceil(seconds, sub) ==
    LET whole == saturating(seconds * MsPerSecond)
        remainder == saturating(sub + UnitsPerMs - 1) \div UnitsPerMs
    IN  Lesser(saturating(whole + remainder), MaxInt)

\* microseconds_of: saturates too, and drops what is less than a microsecond.
microseconds_of(seconds, sub) ==
    LET whole == Lesser(seconds * (MsPerSecond * UsPerMs), MaxULong)
    IN  Lesser(whole + sub \div NsPerUs, MaxULong)

\* ... and None otherwise: the kernel's EINVAL.
IsSubSecond(sub) == sub < MsPerSecond * UnitsPerMs

\* What the caller asked for, in nanoseconds and as far as it can be said.
Asked(seconds, sub, most) == Lesser((seconds * MsPerSecond) * UnitsPerMs + sub, most)

sock_timeout_ms(fd) == IF fd \in Timed THEN SockTimeout ELSE 0

-----------------------------------------------------------------------------
(* The gate, and what may park.                                            *)

on_switchIntoFiberOnly(to) ==
    /\ running' = to
    /\ gate' = IF to = "main" THEN gate ELSE 1

on_switch(to) ==
    /\ running' = to
    /\ gate' = IF to = "main" THEN 0 ELSE 1

\* InHandler is dropped when the handler returns.
LeaveHandler == gate' = 1 /\ UNCHANGED running

\* listed: the policy names the caller's library and symbol, and neither a
\* flag nor a signal mask says that the call is the kernel's.
may_park(listed) == gate = 1 /\ listed

would_block(fd) ==
    /\ fd \notin nonblock
    /\ \/ fd \in Pollable
       \/ /\ fd \notin Listening
          /\ fd \in Connected \cup Bound

ready_now(on) == on \cap ready # {}

-----------------------------------------------------------------------------
(* await_op and await_any: suspend on a set of ops, and what follows.      *)

\* One watch per interest, the timeout as a timer in the same race.
Submit(f, c) == {f} \X (c.on \cup (IF c.us >= 0 THEN {Timer} ELSE {}))

\* Register and suspend; the resumer is the loop.
Suspend(f, c) ==
    /\ ops' = (ops \ Mine(f)) \cup Submit(f, c)
    /\ parked' = (parked \ Mine(f)) \cup Submit(f, c)
    /\ results' = results \ Mine(f)
    /\ pc' = [pc EXCEPT ![f] = "parked"]
    /\ call' = [call EXCEPT ![f] = c]
    /\ ans' = [ans EXCEPT ![f] = "none"]
    /\ on_switch("main")
    /\ UNCHANGED <<exc, chan>>

Return(f, how) ==
    /\ pc' = [pc EXCEPT ![f] = "user"]
    /\ call' = [call EXCEPT ![f] = NoCall]
    /\ exc' = [exc EXCEPT ![f] = FALSE]
    /\ ans' = [ans EXCEPT ![f] = how]
    /\ LeaveHandler

\* The real call: it holds the thread.
Block(f, c) ==
    /\ pc' = [pc EXCEPT ![f] = "kernel"]
    /\ call' = [call EXCEPT ![f] = c]
    /\ ans' = [ans EXCEPT ![f] = "none"]
    /\ UNCHANGED <<running, exc>>

\* A first park.  A fiber that may not switch leaves the watches it has just
\* submitted behind and makes the real call; so does one with nothing to wait
\* for, a poll without an interest and without a timeout.
Park(f, c, switch_blocked) ==
    IF switch_blocked \/ Submit(f, c) = {}
    THEN /\ Block(f, c) /\ gate' = 2
         /\ UNCHANGED <<table, reactor>>
    ELSE Suspend(f, c)

\* Milliseconds of a poll; negative for ever.
Us(ms) == IF ms < 0 THEN Forever ELSE ms * UsPerMs

\* The real call after a park: it is given the timeout of that park once more.
Afresh(c) == [c EXCEPT !.due = IF c.us < 0 THEN Forever ELSE c.waited + c.left]

Runs(f) == running = f /\ pc[f] = "user"

Calls(f, kind) == Runs(f) /\ kind \in Makes[f]

TimeIsUp(c) == c.due >= 0 /\ c.waited >= c.due

\* A data call on a socket that is not connected is an error at once; an
\* accept on a listening one waits.
AnswersNow(c) ==
    \/ ready_now(c.on)
    \/ TimeIsUp(c)
    \/ c.kind = "io" /\ \A fd \in c.on : fd \in nonblock \/ (~would_block(fd) /\ fd \notin Listening)

\* The kernel's own read or poll on a fiber's descriptors: an answer now,
\* with the data or without it, or a thread that is held.
Real(f, c) ==
    \/ /\ AnswersNow(c)
       /\ Return(f, IF c.kind \in {"poll", "select"} /\ ~ready_now(c.on) THEN "timeout" ELSE "ready")
       /\ ready' \in {ready, IF c.kind = "io" THEN ready \ c.on ELSE ready}
       /\ UNCHANGED <<nonblock, holder>>
    \/ /\ ~AnswersNow(c)
       /\ Block(f, c)
       /\ UNCHANGED <<gate, kernel>>

Forwarded(f, c) == Real(f, c) /\ UNCHANGED <<table, reactor>>

ParkOrBlock(f, c) == \E b \in BOOLEAN : Park(f, c, b)

-----------------------------------------------------------------------------
(* The handlers, up to their first suspension.                             *)

\* The shape of every data call.  MSG_DONTWAIT, like O_NONBLOCK, makes it a
\* question and not a wait.
IoCall(f, fd, listed) ==
    LET timeout == sock_timeout_ms(fd)
        c == IF timeout = 0 THEN Call("io", {fd}, Forever, Forever)
             ELSE Call("io", {fd}, Us(timeout), timeout * UnitsPerMs)
    IN  /\ Calls(f, "io")
        /\ IF may_park(listed) /\ would_block(fd) /\ ~ready_now({fd})
           THEN ParkOrBlock(f, c) /\ UNCHANGED kernel
           ELSE Forwarded(f, c)

\* read, write, recv, send, recvfrom, sendto.
DataCall(f) == \E fd \in Fds, listed \in BOOLEAN : IoCall(f, fd, listed)

\* accept4, recvmsg and sendmsg; accept too asks would_block.
MessageCall(f) ==
    \E fd \in Fds \ Pollable, listed \in BOOLEAN : IoCall(f, fd, listed)

\* readv and writev.
VectorCall(f) == \E fd \in Connected \cup Pollable, listed \in BOOLEAN : IoCall(f, fd, listed)

\* waitpid of a named child: a pidfd is readable once the child is dead.  The
\* answer of the park is not looked at.
WaitPid(f) ==
    \E pidfd \in Pollable, listed \in BOOLEAN :
        LET c == Call("wait", {pidfd}, Forever, Forever) IN
        /\ Calls(f, "wait")
        /\ IF may_park(listed)
           THEN ParkOrBlock(f, c) /\ UNCHANGED kernel
           ELSE Forwarded(f, c)

PollCall(f, kind, on, ms, asked, listed) ==
    LET c == Call(kind, on, Us(ms), asked) IN
    /\ Calls(f, kind)
    /\ IF may_park(listed) /\ ms # 0 /\ ~ready_now(on)
       THEN ParkOrBlock(f, c) /\ UNCHANGED kernel
       ELSE Forwarded(f, c)

\* poll, __poll_chk: milliseconds, negative for ever.
Poll(f) ==
    \E on \in Polled, ms \in {Forever} \cup {milliseconds_ceil(s, 0) : s \in Seconds}, listed \in BOOLEAN :
        PollCall(f, "poll", on, ms, IF ms = Forever THEN Forever ELSE ms * UnitsPerMs, listed)

\* ppoll without a signal mask: a timespec.
PPoll(f) ==
    \E on \in Polled, s \in Seconds, sub \in SubSeconds, listed \in BOOLEAN :
        PollCall(f, "poll", on, milliseconds_ceil(s, sub), Asked(s, sub, MaxInt * UnitsPerMs), listed)

\* select: a timeval or none; an fd wanted for exceptions only is forwarded.
Select(f) ==
    \E on \in Polled, s \in Seconds, sub \in SubSeconds, null, listed \in BOOLEAN :
        PollCall(f, "select", on, IF null THEN Forever ELSE milliseconds_ceil(s, sub), Forever, listed)

SleepCall(f, us, asked, listed) ==
    LET c == Call("sleep", {}, us, asked) IN
    /\ Calls(f, "sleep")
    /\ IF may_park(listed)
       THEN ParkOrBlock(f, c)
       ELSE Block(f, c) /\ UNCHANGED <<gate, table, reactor>>
    /\ UNCHANGED kernel

USleep(f) ==
    \E us \in SubSeconds, listed \in BOOLEAN : SleepCall(f, us, us * NsPerUs, listed)

Sleep(f) ==
    \E s \in Seconds, listed \in BOOLEAN :
        SleepCall(f, microseconds_of(s, 0), Asked(s, 0, MaxULong * NsPerUs), listed)

NanoSleep(f) ==
    \E s \in Seconds, sub \in SubSeconds, listed \in BOOLEAN :
        IF IsSubSecond(sub)
        THEN SleepCall(f, microseconds_of(s, sub), Asked(s, sub, MaxULong * NsPerUs), listed)
        ELSE Calls(f, "sleep") /\ Return(f, "ready") /\ UNCHANGED <<table, reactor, kernel>>

\* connect on a blocking socket: O_NONBLOCK for as long as it is under way.
Connect(f) ==
    \E fd \in Fds \ (Pollable \cup Listening \cup Connected), inprogress, listed \in BOOLEAN :
        LET c == Call("connect", {fd}, Forever, Forever) IN
        /\ Calls(f, "connect")
        /\ IF may_park(listed) /\ fd \notin nonblock /\ inprogress
           THEN \/ Park(f, c, FALSE) /\ nonblock' = nonblock \cup {fd} /\ UNCHANGED <<ready, holder>>
                \/ Park(f, c, TRUE) /\ UNCHANGED kernel
           ELSE Return(f, "ready") /\ UNCHANGED <<table, reactor, kernel>>

\* The lock is free, or it is this fiber's own.
LockFree(f) == holder \in {Nobody, f}

\* flock: LOCK_NB first, then a timer and another try.
Flock(f) ==
    \E listed \in BOOLEAN :
        LET c == Call("flock", {}, FlockFirst, Forever) IN
        /\ Calls(f, "flock")
        /\ UNCHANGED <<ready, nonblock>>
        /\ IF LockFree(f)
           THEN Return(f, "ready") /\ holder' = f /\ UNCHANGED <<table, reactor>>
           ELSE /\ IF may_park(listed)
                   THEN ParkOrBlock(f, c)
                   ELSE Block(f, c) /\ UNCHANGED <<gate, table, reactor>>
                /\ UNCHANGED holder

Unlock(f) ==
    /\ Runs(f) /\ holder = f
    /\ holder' = Nobody
    /\ UNCHANGED <<thread, fiber, table, reactor, ready, nonblock>>

-----------------------------------------------------------------------------
(* The loop: ignis_poll delivers, PHP runs fibers, a request is cancelled. *)

\* resume_parked: the outcome is stored and the fiber resumed, once.
resume_parked(f, i) ==
    /\ parked' = parked \ {i}
    /\ results' = results \cup {i}
    /\ pc' = [pc EXCEPT ![f] = "woken"]
    /\ on_switch(f)
    /\ UNCHANGED <<call, exc, ans>>

\* A completion nobody is parked on goes to userland, which does not know it.
Deliver ==
    \E i \in chan :
        /\ running = "main"
        /\ IF i \in parked
           THEN resume_parked(i[1], i) /\ chan' = chan \ Mine(i[1])
           ELSE UNCHANGED <<thread, fiber, table>> /\ chan' = chan \ {i}
        /\ UNCHANGED <<ops, kernel>>

\* zif_ignis_cancel_parked_any: one of the fiber's ids is taken out, and the
\* exception is thrown at the suspension point.
cancel_parked_any(f) ==
    /\ running = "main"
    /\ \E i \in parked \cap Mine(f) : parked' = parked \ {i}
    /\ exc' = [exc EXCEPT ![f] = TRUE]
    /\ pc' = [pc EXCEPT ![f] = "woken"]
    /\ chan' = chan \ Mine(f)
    /\ on_switch(f)
    /\ UNCHANGED <<call, ans, results, ops, kernel>>

SwitchTo(f) ==
    /\ running = "main" /\ pc[f] = "user"
    /\ on_switch(f)
    /\ UNCHANGED <<fiber, table, reactor, kernel>>

Yield(f) ==
    /\ Runs(f)
    /\ ans' = [ans EXCEPT ![f] = "none"]
    /\ on_switch("main")
    /\ UNCHANGED <<pc, call, exc, table, reactor, kernel>>

-----------------------------------------------------------------------------
(* After the suspension: the tail of await_any and of the handler.         *)

UnparkedWinnerOnly(f) == parked

\* await_any takes every id of its own out of PARKED, whichever woke it.
Unparked(f) == parked \ Mine(f)

\* The outcome is taken out, by a wake into an unwind too.
Taken(f) == results \ Mine(f)

ByTimer(f) == <<f, Timer>> \in results

\* None: the park was cut short.
Unwound(f) == exc[f]

Wakes(f, kind) == running = f /\ pc[f] = "woken" /\ call[f].kind = kind

\* park_pollfds calls off the ops that did not win.  It does not come to that
\* when the park was cut short; what they announce then finds nobody.
Finish(f) ==
    /\ parked' = Unparked(f)
    /\ results' = Taken(f)
    /\ ops' = ops \ Mine(f)
    /\ UNCHANGED chan

\* poll_impl's remaining: the caller's own timeout less whole milliseconds.
Left(c) == IF c.us < 0 THEN Forever ELSE c.us - (c.waited \div UsPerMs) * UsPerMs

\* What a poll that was woken for nothing parks for.
Again(c) == [c EXCEPT !.left = Left(c), !.due = IF c.us < 0 THEN Forever ELSE c.waited + Left(c)]

PollAnswers(f) ==
    /\ Return(f, IF ready_now(call[f].on) THEN "ready" ELSE "timeout")
    /\ Finish(f)
    /\ UNCHANGED kernel

PollWokenTrusting(f) ==
    /\ Wakes(f, "poll")
    /\ \/ ~Unwound(f) /\ PollAnswers(f)
       \/ Unwound(f) /\ Real(f, Afresh(call[f])) /\ Finish(f)

\* poll_impl: a readiness that the kernel denies parks again; one that could
\* not park is a real poll for what was left before the park.
PollWoken(f) ==
    LET timeIsOver == call[f].us >= 0 /\ Left(call[f]) <= 0 IN
    /\ Wakes(f, "poll")
    /\ \/ Unwound(f) /\ Real(f, Afresh(call[f])) /\ Finish(f)
       \/ /\ ~Unwound(f)
          /\ ByTimer(f) \/ ready_now(call[f].on) \/ timeIsOver
          /\ PollAnswers(f)
       \/ /\ ~Unwound(f) /\ ~ByTimer(f) /\ ~ready_now(call[f].on) /\ ~timeIsOver
          /\ Suspend(f, Again(call[f]))
          /\ UNCHANGED kernel

\* select answers whatever a zero-timeout select says, whoever woke it.
SelectWoken(f) ==
    /\ Wakes(f, "select")
    /\ Finish(f)
    /\ \/ ~Unwound(f) /\ Return(f, IF ready_now(call[f].on) THEN "ready" ELSE "timeout") /\ UNCHANGED kernel
       \/ Unwound(f) /\ Real(f, Afresh(call[f]))

\* EAGAIN if the socket's own timeout won; otherwise the real call.
IoWoken(f) ==
    /\ Wakes(f, "io")
    /\ Finish(f)
    /\ \/ ~Unwound(f) /\ ByTimer(f) /\ Return(f, "timeout") /\ UNCHANGED kernel
       \/ (Unwound(f) \/ ~ByTimer(f)) /\ Real(f, Afresh(call[f]))

WaitWoken(f) ==
    /\ Wakes(f, "wait")
    /\ Finish(f)
    /\ Real(f, call[f])

SleepWoken(f) ==
    /\ Wakes(f, "sleep")
    /\ Finish(f)
    /\ \/ ~Unwound(f) /\ Return(f, "timeout")
       \/ Unwound(f) /\ Block(f, Afresh(call[f])) /\ UNCHANGED gate
    /\ UNCHANGED kernel

ConnectWokenUnwinding(f) ==
    /\ Wakes(f, "connect")
    /\ Finish(f)
    /\ nonblock' = IF Unwound(f) THEN nonblock ELSE nonblock \ call[f].on
    /\ \/ ~Unwound(f) /\ Return(f, "ready")
       \/ Unwound(f) /\ Block(f, call[f]) /\ UNCHANGED gate
    /\ UNCHANGED <<ready, holder>>

\* The flag goes off whatever became of the park; without one, a blocking poll.
ConnectWoken(f) ==
    /\ Wakes(f, "connect")
    /\ Finish(f)
    /\ nonblock' = nonblock \ call[f].on
    /\ \/ ~Unwound(f) /\ Return(f, "ready")
       \/ Unwound(f) /\ Block(f, call[f]) /\ UNCHANGED gate
    /\ UNCHANGED <<ready, holder>>

Backoff(us) == Lesser(2 * us, FlockMax)

\* Another try, with twice the back-off; a park that was cut short is a
\* blocking flock.
FlockWoken(f) ==
    /\ Wakes(f, "flock")
    /\ UNCHANGED <<ready, nonblock>>
    /\ \/ ~Unwound(f) /\ LockFree(f) /\ Return(f, "ready") /\ Finish(f) /\ holder' = f
       \/ /\ ~Unwound(f) /\ ~LockFree(f)
          /\ Suspend(f, Call("flock", {}, Backoff(call[f].us), Forever))
          /\ UNCHANGED holder
       \/ Unwound(f) /\ Block(f, call[f]) /\ Finish(f) /\ UNCHANGED <<gate, holder>>

-----------------------------------------------------------------------------
(* The kernel, the reactor's tasks and the clock.                          *)

\* A call that holds the thread ends: the lock is free, a descriptor is ready
\* or the time is up.
KernelReturns(f) ==
    /\ pc[f] = "kernel"
    /\ UNCHANGED <<table, reactor, ready, nonblock>>
    /\ \/ call[f].kind = "flock" /\ LockFree(f) /\ Return(f, "ready") /\ holder' = f
       \/ /\ call[f].kind # "flock" /\ ready_now(call[f].on)
          /\ Return(f, "ready") /\ UNCHANGED holder
       \/ /\ call[f].kind # "flock" /\ TimeIsUp(call[f])
          /\ Return(f, "timeout") /\ UNCHANGED holder

\* A timer fires, or a watched descriptor is ready.  What completes once the
\* fiber was resumed is of no consequence.
OpCompletes(i) ==
    /\ i \in ops /\ pc[i[1]] = "parked"
    /\ IF i[2] = Timer THEN TimeIsUp(call[i[1]]) ELSE i[2] \in ready
    /\ ops' = ops \ {i}
    /\ chan' = chan \cup {i}
    /\ UNCHANGED <<thread, fiber, table, kernel>>

\* A descriptor becomes ready, or somebody else takes what there was.
Readiness(fd) ==
    /\ ready' = IF fd \in ready THEN ready \ {fd} ELSE ready \cup {fd}
    /\ UNCHANGED <<thread, fiber, table, reactor, nonblock, holder>>

Tick ==
    /\ \E f \in Fibers : call[f].waited < call[f].due
    /\ call' = [f \in Fibers |-> IF call[f].waited < call[f].due
                                 THEN [call[f] EXCEPT !.waited = @ + 1] ELSE call[f]]
    /\ UNCHANGED <<thread, pc, exc, ans, table, reactor, kernel>>

Woken(f) ==
    \/ PollWoken(f)
    \/ SelectWoken(f)
    \/ IoWoken(f)
    \/ WaitWoken(f)
    \/ SleepWoken(f)
    \/ ConnectWoken(f)
    \/ FlockWoken(f)

Next ==
    \/ \E f \in Fibers :
        \/ DataCall(f)
        \/ MessageCall(f)
        \/ VectorCall(f)
        \/ WaitPid(f)
        \/ Poll(f)
        \/ PPoll(f)
        \/ Select(f)
        \/ USleep(f)
        \/ Sleep(f)
        \/ NanoSleep(f)
        \/ Connect(f)
        \/ Flock(f)
        \/ Unlock(f)
        \/ Woken(f)
        \/ cancel_parked_any(f)
        \/ SwitchTo(f)
        \/ Yield(f)
        \/ KernelReturns(f)
    \/ Deliver
    \/ \E i \in Ids : OpCompletes(i)
    \/ \E fd \in Fds : Readiness(fd)
    \/ Tick

Spec == Init /\ [][Next]_vars

-----------------------------------------------------------------------------
(* Properties.                                                             *)

\* PARKED names a fiber under an op id only while that fiber is in the await
\* that submitted the op (wait.rs:128-130: the pointer is "resumable exactly
\* once"), and a suspended fiber always has an op that is still armed or a
\* completion on its way.  RESULTS holds nothing but the outcome of the fiber
\* that is being resumed with it (wait.rs:27-30: a cancellation used to leave
\* "one entry per cancelled park behind for the life of the thread").
ParkedIsSuspended ==
    /\ TypeOK
    /\ \A i \in parked : pc[i[1]] \in {"parked", "woken"} /\ i[2] \in call[i[1]].on \cup {Timer}
    /\ \A f \in Fibers : pc[f] = "parked" => parked \cap Mine(f) \cap (ops \cup chan) # {}
    /\ \A i \in results : running = i[1] /\ pc[i[1]] = "woken"

\* Nothing parks outside a fiber: the gate is 0 exactly in {main}, whatever
\* was resumed, returned or cut short, and it is 1 again when a handler is
\* left (park.rs:185-199).
GateFollowsFiber ==
    /\ gate = 0 <=> running = "main"
    /\ \A f \in Fibers : Runs(f) => gate = 1

\* A socket is left in the mode its library put it in: O_NONBLOCK is on only
\* while a connect on it is suspended (park.rs:830-840).
FlagRestored ==
    \A fd \in nonblock : \E f \in Fibers : call[f].kind = "connect" /\ fd \in call[f].on /\ pc[f] \in {"parked", "woken"}

\* poll, a timed read and a sleep report that the time is up only after the
\* caller's whole timeout (park.rs:674-678), however often a readiness that
\* the kernel denies woke them and wherever the conversion saturates, and one
\* without a timeout never does; only a nanosleep may be short, by less than a
\* microsecond (park.rs:619).  Nor does a poll outlast its timeout by a whole
\* millisecond (park.rs:658-666), unless a cancellation cuts its park: it then
\* blocks for what was left before the park, at most its timeout once more.
HonestTimeout ==
    [][\A f \in Fibers :
         LET c == call[f]
             d == call'[f]
         IN
         /\ c.kind \in {"poll", "io", "sleep"} /\ d.kind = "none" /\ ans'[f] = "timeout"
              => /\ c.asked >= 0
                 /\ (c.waited + IF c.kind = "sleep" THEN 1 ELSE 0) * NsPerUs >= c.asked
         /\ d.kind = "poll" /\ d.us >= 0
              => \/ d.waited < d.us + UsPerMs
                 \/ exc'[f] /\ d.waited < 2 * d.us + UsPerMs]_vars

\* "The thread keeps serving, which is what lets the holder reach its own
\* release" (park.rs:1007-1008): no wait for a lock that another
\* fiber of this thread holds takes the thread, once it was parked.
HolderCanRelease ==
    \A f \in Fibers : pc[f] = "kernel" /\ call[f].kind = "flock" /\ exc[f] => holder \notin Fibers

=============================================================================
