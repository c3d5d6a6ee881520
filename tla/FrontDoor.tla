----------------------------- MODULE FrontDoor -----------------------------
(***************************************************************************)
(* crates/ignis/src/http.rs and grpc.rs with the answers map of reactor.rs *)
(* and the answering functions of php/module.rs: what becomes of a request *)
(* between its connection and its PHP thread.  One hyper task per request  *)
(* picks a reactor, reads the body, delivers and waits; the thread answers *)
(* whole, in chunks or as a gRPC stream; clients leave, threads leave      *)
(* dispatch or die, and a drain ends the process.                          *)
(*                                                                         *)
(* A thread's scheduling is Loop's; here a handler calls the answering     *)
(* functions in any order, and returns when Loop.php would let it.         *)
(***************************************************************************)
EXTENDS Naturals, Sequences, FiniteSets, Retain

CONSTANTS
  MaxReactor,      \* bound: PHP threads started, incarnations included
  MaxRequest,      \* bound: requests
  Grpc,            \* the requests that are gRPC calls
  StreamChunks,    \* IGNIS_STREAM_CHUNKS; also the bound on unread messages
  MaxConnections   \* IGNIS_MAX_CONNECTIONS

Reactors == 1..MaxReactor
Requests == 1..MaxRequest

ASSUME FrontDoorAssumption ==
  /\ MaxReactor \in Nat /\ MaxRequest \in Nat /\ Grpc \subseteq Requests
  /\ StreamChunks \in Nat \ {0} /\ MaxConnections \in Nat

VARIABLES
  registry, next,      \* Registry
  thread,              \* where each PHP thread is
  conn,                \* where the task of each request is
  to,                  \* the reactor it picked
  got,                 \* an answer, whole or cut, or nothing and its client left
  conns,               \* open connections
  answers,             \* Reactor::answers
  reply,               \* the oneshot of a whole-body answer
  frames, failure,     \* a body's channel: messages, and a final status
  sending,             \* a chunk op that holds a sender and waits for room
  php,                 \* how far PHP is with each request
  cancelled,           \* Outcome::Cancelled was sent for it
  accept,              \* where accept_loop() is
  drain,               \* where drain() is
  stop,                \* LISTENER_STOP
  timedOut,
  lateAccepts,         \* auxiliary: connections accepted after the stop
  finished,            \* auxiliary: requests whose answer PHP completed
  unheard,             \* auxiliary: began to stream between the two steps of a leave
  orphans              \* auxiliary: delivered to a thread that was gone

listener == <<accept, drain, stop, timedOut, lateAccepts>>
dispatch == <<registry, next>>
channels == <<reply, frames, failure, sending>>
client   == <<conn, to, got, conns>>
vars == <<dispatch, thread, client, answers, channels, php, cancelled, listener,
          finished, unheard, orphans>>

Init ==
  /\ registry = <<>> /\ next = 0
  /\ thread = [r \in Reactors |-> "absent"]
  /\ conn = [q \in Requests |-> "unsent"]
  /\ to = [q \in Requests |-> 0]
  /\ got = [q \in Requests |-> "nothing"]
  /\ conns = 0
  /\ answers = [q \in Requests |-> "none"]
  /\ reply = [q \in Requests |-> "open"]
  /\ frames = [q \in Requests |-> 0] /\ failure = [q \in Requests |-> FALSE]
  /\ sending = [q \in Requests |-> FALSE]
  /\ php = [q \in Requests |-> "none"]
  /\ cancelled = {}
  /\ accept = "check" /\ drain = "off" /\ stop = FALSE /\ timedOut = FALSE
  /\ lateAccepts = 0 /\ finished = {} /\ unheard = {} /\ orphans = {}

Set(f, q, v) == [f EXCEPT ![q] = v]

\* Until drain() returns and the process exits.
Up == drain # "exited"

-----------------------------------------------------------------------------
(* Reactor::answers.                                                       *)

\* Mutant: streamed answers are kept elsewhere and not counted.
pending_requestsWhole(r) ==
  Cardinality({q \in Requests : to[q] = r /\ answers[q] \in {"Whole", "Grpc"}})

pending_requests(r) == Cardinality({q \in Requests : to[q] = r /\ answers[q] # "none"})

\* The body's last sender is gone.
SenderGone(q) == answers[q] \notin {"Streaming", "Grpc"} /\ ~sending[q]

\* deliver_request_with_id(), deliver_stream_request().  The reactor holds
\* both ends of its channel, so the send cannot fail.
deliver(q) ==
  /\ answers' = Set(answers, q, IF q \in Grpc THEN "Grpc" ELSE "Whole")
  /\ php' = Set(php, q, "queued")

\* cancel_request().
cancel_request(q) ==
  /\ answers' = Set(answers, q, "none")
  /\ cancelled' = IF answers[q] = "none" THEN cancelled ELSE cancelled \cup {q}

-----------------------------------------------------------------------------
(* The listener and the connections.                                       *)

\* Registry::pick(): from `next` round the ring, the first of the least
\* loaded.
pick ==
  LET n       == Len(registry)
      ring    == [k \in 1..n |-> registry[((next + k - 1) % n) + 1]]
      load(k) == pending_requests(ring[k])
  IN  ring[CHOOSE k \in 1..n :
             /\ \A j \in 1..n : load(k) <= load(j)
             /\ \A j \in 1..(k - 1) : load(k) < load(j)]

Active == {q \in Requests : conn[q] \in {"reading", "awaiting", "body", "dropping"}}

\* Of the semaphore; a connection holds one for its whole life.
Permits == MaxConnections - conns

\* Mutant: only the notification is waited for.
ListenerStopIgnored == accept' = "subscribe"

\* shutdown_signalled(): the flag first, then the notification.
ListenerStop == accept' = IF stop THEN "gone" ELSE "subscribe"

AcceptCheck ==
  /\ Up /\ accept = "check"
  /\ ListenerStop
  /\ UNCHANGED <<dispatch, thread, client, answers, channels, php, cancelled,
                 drain, stop, timedOut, lateAccepts, finished, unheard, orphans>>

AcceptSubscribe ==
  /\ Up /\ accept = "subscribe"
  /\ accept' = "waiting"
  /\ UNCHANGED <<dispatch, thread, client, answers, channels, php, cancelled,
                 drain, stop, timedOut, lateAccepts, finished, unheard, orphans>>

\* A connection gets a permit, or is refused and closed at once.
Accept ==
  /\ Up /\ accept = "waiting"
  /\ accept' = "check"
  /\ lateAccepts' = IF stop THEN lateAccepts + 1 ELSE lateAccepts
  /\ conns' = IF Permits > 0 THEN conns + 1 ELSE conns
  /\ UNCHANGED <<dispatch, thread, conn, to, got, answers, channels, php, cancelled,
                 drain, stop, timedOut, finished, unheard, orphans>>

\* serve_connection()'s service: a reactor is picked with the headers of a
\* request, of which HTTP/2 has several at a time on one connection.
Serve(q) ==
  /\ Up /\ conns > 0
  /\ conn[q] = "unsent" /\ \A p \in 1..(q - 1) : conn[p] # "unsent"
  /\ \/ /\ registry = <<>>
        /\ conn' = Set(conn, q, "over")
        /\ got' = Set(got, q, "answer")
        /\ UNCHANGED <<to, next>>
     \/ /\ registry # <<>>
        /\ conn' = Set(conn, q, "reading")
        /\ to' = Set(to, q, pick)
        /\ next' = next + 1
        /\ UNCHANGED got
  /\ UNCHANGED <<registry, thread, conns, answers, channels, php, cancelled, listener,
                 finished, unheard, orphans>>

\* The idle timer, the header timer, or the peer.  A connection that breaks
\* with requests on it drops them first, one by one (ClientLeaves).
ConnectionCloses ==
  /\ Up /\ conns > IF Active = {} THEN 0 ELSE 1
  /\ conns' = conns - 1
  /\ UNCHANGED <<dispatch, thread, conn, to, got, answers, channels, php,
                 cancelled, listener, finished, unheard, orphans>>

\* The task drops its ends of the channels and whatever is in them.
Dropped(q) ==
  /\ reply' = Set(reply, q, "open")
  /\ frames' = Set(frames, q, 0) /\ failure' = Set(failure, q, FALSE)
  /\ UNCHANGED sending

Over(q) ==
  /\ conn' = Set(conn, q, "over")
  /\ got' = Set(got, q, "answer")
  /\ Dropped(q)
  /\ UNCHANGED <<to, conns>>

\* collect_body() failed.
BodyRefused(q) ==
  /\ Up /\ conn[q] = "reading" /\ q \notin Grpc
  /\ Over(q)
  /\ UNCHANGED <<dispatch, thread, answers, php, cancelled, listener, finished,
                 unheard, orphans>>

\* The rest of handle() and PhpGrpc::call(), up to the wait for the answer.
Deliver(q) ==
  /\ Up /\ conn[q] = "reading"
  /\ deliver(q)
  /\ conn' = Set(conn, q, IF q \in Grpc THEN "body" ELSE "awaiting")
  /\ orphans' = IF thread[to[q]] = "gone" THEN orphans \cup {q} ELSE orphans
  /\ UNCHANGED <<dispatch, thread, to, got, conns, channels, cancelled,
                 listener, finished, unheard>>

TakeReply(q) ==
  /\ Up /\ conn[q] = "awaiting" /\ reply[q] # "open"
  /\ \/ reply[q] \in {"full", "dropped"} /\ Over(q)
     \/ /\ reply[q] = "head"
        /\ conn' = Set(conn, q, "body")
        /\ UNCHANGED <<to, got, conns, channels>>
  /\ UNCHANGED <<dispatch, thread, answers, php, cancelled, listener, finished,
                 unheard, orphans>>

\* ChannelBody::poll_frame(), PhpStream::poll_next().
PollFrame(q) ==
  /\ Up /\ conn[q] = "body" /\ frames[q] > 0
  /\ frames' = Set(frames, q, frames[q] - 1)
  /\ UNCHANGED <<dispatch, thread, client, answers, reply, failure, sending, php,
                 cancelled, listener, finished, unheard, orphans>>

PollEnd(q) ==
  /\ Up /\ conn[q] = "body" /\ frames[q] = 0
  /\ failure[q] \/ SenderGone(q)
  /\ Over(q)
  /\ UNCHANGED <<dispatch, thread, answers, php, cancelled, listener, finished,
                 unheard, orphans>>

\* Mutant: the guard is disarmed when the headers go out.
GuardArmedForHead(q) == conn[q] = "awaiting" \/ (conn[q] = "body" /\ q \in Grpc)

\* CancelOnDrop and PhpStream::done: a body keeps its guard to its end.
GuardArmed(q) == conn[q] \in {"awaiting", "body"}

\* hyper drops the future or the body.  A gRPC stream cancels and then drops
\* its receiver; over HTTP the receiver goes first, in handle()'s future as
\* in ChannelBody, and the guard after it.
ClientLeaves(q) ==
  /\ Up /\ conn[q] \in {"reading", "awaiting", "body"}
  /\ got' = Set(got, q, "left")
  /\ Dropped(q)
  /\ IF q \notin Grpc /\ GuardArmed(q)
     THEN conn' = Set(conn, q, "dropping") /\ UNCHANGED <<answers, cancelled>>
     ELSE /\ conn' = Set(conn, q, "over")
          /\ IF GuardArmed(q) THEN cancel_request(q) ELSE UNCHANGED <<answers, cancelled>>
  /\ UNCHANGED <<dispatch, thread, to, conns, php, listener, finished, unheard, orphans>>

\* CancelOnDrop::drop().
GuardDrops(q) ==
  /\ Up /\ conn[q] = "dropping"
  /\ conn' = Set(conn, q, "over")
  /\ cancel_request(q)
  /\ UNCHANGED <<dispatch, thread, to, got, conns, channels, php, listener, finished,
                 unheard, orphans>>

\* The receiving end of the answer is still there.
Listening(q) == conn[q] \in {"awaiting", "body"}

-----------------------------------------------------------------------------
(* The PHP thread.                                                         *)

Alive(r) == thread[r] \in {"serving", "leaving"}

Running(q) == php[q] = "running" /\ Alive(to[q]) /\ ~sending[q]

fromPhp == <<dispatch, thread, client, cancelled, listener, orphans>>

\* ignis_poll() returns the request, or a cancellation in its place.
Receive(q) ==
  /\ Up /\ php[q] = "queued" /\ Alive(to[q])
  /\ php' = Set(php, q, "running")
  /\ UNCHANGED <<fromPhp, answers, channels, finished, unheard>>

\* stream_end(): a status other than OK is a last message.
stream_end(q, ok) ==
  /\ answers' = Set(answers, q, "none")
  /\ failure' = Set(failure, q, ~ok /\ Listening(q))
  /\ finished' = finished \cup {q}

\* ignis_respond() taken: a status of 400 or more ends a gRPC call, and any
\* status a request nobody has begun to answer.
respond(q) ==
  /\ Up /\ Running(q)
  /\ \/ /\ answers[q] = "Grpc"
        /\ stream_end(q, FALSE)
        /\ UNCHANGED <<reply, frames, sending>>
     \/ /\ answers[q] = "Whole"
        /\ answers' = Set(answers, q, "none")
        /\ reply' = IF Listening(q) THEN Set(reply, q, "full") ELSE reply
        /\ finished' = finished \cup {q}
        /\ UNCHANGED <<frames, failure, sending>>
  /\ UNCHANGED <<fromPhp, php, unheard>>

\* Mutant: taken, and then looked at.
take_answerFirst(q, expected) == Set(answers, q, "none")

\* take_answer(): in the state the caller expects, or not at all.
take_answer(q, expected) ==
  IF answers[q] = expected THEN Set(answers, q, "none") ELSE answers

\* ... and refused for one that streams, or a call and a status below 400.
RespondRefused(q) ==
  /\ Up /\ Running(q) /\ answers[q] \in {"Streaming", "Grpc"}
  /\ answers' = take_answer(q, "Whole")
  /\ UNCHANGED <<fromPhp, channels, php, finished, unheard>>

\* respond_start(): when the receiver is gone already the entry stays removed.
respond_start(q) ==
  /\ Up /\ Running(q) /\ answers[q] = "Whole"
  /\ \/ /\ Listening(q)
        /\ answers' = Set(answers, q, "Streaming")
        /\ reply' = Set(reply, q, "head")
        /\ UNCHANGED unheard
     \/ /\ ~Listening(q)
        /\ answers' = Set(answers, q, "none")
        /\ unheard' = unheard \cup {q}
        /\ UNCHANGED reply
  /\ UNCHANGED <<fromPhp, frames, failure, sending, php, finished>>

\* send_chunk() with room in the channel, or with none; stream_send().
send_chunk(q) ==
  /\ Up /\ Running(q) /\ Listening(q)
  /\ \/ /\ answers[q] \in {"Streaming", "Grpc"} /\ frames[q] < StreamChunks
        /\ frames' = Set(frames, q, frames[q] + 1)
        /\ UNCHANGED sending
     \/ /\ answers[q] = "Streaming" /\ frames[q] = StreamChunks
        /\ sending' = Set(sending, q, TRUE)
        /\ UNCHANGED frames
  /\ UNCHANGED <<fromPhp, answers, reply, failure, php, finished, unheard>>

\* The Custom op: there is room, or the receiver is gone.  It needs no PHP.
ChunkSent(q) ==
  /\ Up /\ sending[q]
  /\ \/ ~Listening(q) /\ UNCHANGED frames
     \/ Listening(q) /\ frames[q] < StreamChunks
        /\ frames' = Set(frames, q, frames[q] + 1)
  /\ sending' = Set(sending, q, FALSE)
  /\ UNCHANGED <<fromPhp, answers, reply, failure, php, finished, unheard>>

respond_end(q) ==
  /\ Up /\ Running(q) /\ answers[q] = "Streaming"
  /\ answers' = Set(answers, q, "none")
  /\ finished' = finished \cup {q}
  /\ UNCHANGED <<fromPhp, channels, php, unheard>>

ignis_grpc_end(q) ==
  /\ Up /\ Running(q) /\ answers[q] = "Grpc"
  /\ \E ok \in BOOLEAN : stream_end(q, ok)
  /\ UNCHANGED <<fromPhp, reply, frames, sending, php, unheard>>

\* Loop.php releases the request: answered or called off; or still owed,
\* when the answer it returned was refused, which is only logged, or when it
\* returned null and no other channel had answered.
Return(q) ==
  /\ Up /\ php[q] = "running" /\ Alive(to[q])
  /\ \/ answers[q] = "none" /\ php' = Set(php, q, "done")
     \/ answers[q] # "none" /\ ~sending[q] /\ php' = Set(php, q, "unanswered")
  /\ UNCHANGED <<fromPhp, answers, channels, finished, unheard>>

\* The deadline fires while endStream() awaits its last chunk: the exception
\* passes ignis_respond_end(), and the 500 that is tried instead is refused.
TailInterrupted(q) ==
  /\ Up /\ php[q] = "running" /\ Alive(to[q])
  /\ answers[q] = "Streaming" /\ sending[q]
  /\ php' = Set(php, q, "interrupted")
  /\ UNCHANGED <<fromPhp, answers, channels, finished, unheard>>

-----------------------------------------------------------------------------
(* Threads come and go.                                                    *)

threadsKeep == <<client, php, cancelled, listener, finished, unheard, orphans>>

Unlisted(r) == Retain(registry, {k \in DOMAIN registry : registry[k] # r})

\* start(): the first or another thread serves.
start(r) ==
  /\ Up /\ thread[r] = "absent" /\ \A s \in 1..(r - 1) : thread[s] # "absent"
  /\ thread' = Set(thread, r, "serving")
  /\ registry' = Append(registry, r)
  /\ UNCHANGED <<threadsKeep, next, answers, channels>>

leave_dispatch(r) ==
  /\ Up /\ thread[r] = "serving"
  /\ thread' = Set(thread, r, "leaving")
  /\ registry' = Unlisted(r)
  /\ UNCHANGED <<threadsKeep, next, answers, channels>>

\* The script of a thread that left ends when it has nothing left to do
\* (Loop's StopLosesNothing); a fatal ends any script.
ScriptEnds(r) ==
  /\ Up /\ thread[r] = "leaving"
  /\ \A q \in Requests : to[q] = r => php[q] \notin {"queued", "running"}
  /\ thread' = Set(thread, r, "ended")
  /\ UNCHANGED <<threadsKeep, dispatch, answers, channels>>

Dies(r) ==
  /\ Up /\ Alive(r)
  /\ thread' = Set(thread, r, "ended")
  /\ UNCHANGED <<threadsKeep, dispatch, answers, channels>>

\* unregister(): out of the registry, then fail_pending().
unregister(r) ==
  /\ Up /\ thread[r] = "ended"
  /\ thread' = Set(thread, r, "unlisted")
  /\ registry' = Unlisted(r)
  /\ UNCHANGED <<threadsKeep, next, answers, channels>>

\* Mutant: only the answers nobody has begun are failed.
fail_pendingWhole(r) ==
  LET owed == {q \in Requests : to[q] = r /\ answers[q] = "Whole"}
  IN  /\ Up /\ thread[r] = "unlisted"
      /\ thread' = Set(thread, r, "gone")
      /\ answers' = [q \in Requests |-> IF q \in owed THEN "none" ELSE answers[q]]
      /\ reply' = [q \in Requests |-> IF q \in owed THEN "dropped" ELSE reply[q]]
      /\ UNCHANGED <<threadsKeep, dispatch, frames, failure, sending>>

fail_pending(r) ==
  /\ Up /\ thread[r] = "unlisted"
  /\ thread' = Set(thread, r, "gone")
  /\ answers' = [q \in Requests |-> IF to[q] = r THEN "none" ELSE answers[q]]
  /\ reply' = [q \in Requests |-> IF to[q] = r /\ answers[q] = "Whole"
                                  THEN "dropped" ELSE reply[q]]
  /\ UNCHANGED <<threadsKeep, dispatch, frames, failure, sending>>

-----------------------------------------------------------------------------
(* drain().                                                                *)

drainKeeps == <<dispatch, thread, client, answers, channels, php, cancelled,
                lateAccepts, finished, unheard, orphans>>

\* SHUTTING_DOWN and the delay only change what health answers.
DrainStops ==
  /\ drain = "off"
  /\ stop' = TRUE
  /\ drain' = "notify"
  /\ UNCHANGED <<drainKeeps, accept, timedOut>>

\* notify_waiters() reaches only who waits already.
DrainNotifies ==
  /\ drain = "notify"
  /\ accept' = IF accept = "waiting" THEN "gone" ELSE accept
  /\ drain' = "counting"
  /\ UNCHANGED <<drainKeeps, stop, timedOut>>

\* totals().pending over the registry; then the process exits, its listener
\* with it.
DrainCounts ==
  /\ drain = "counting"
  /\ \A r \in Elements(registry) : pending_requests(r) = 0
  /\ drain' = "exited" /\ accept' = "gone"
  /\ UNCHANGED <<drainKeeps, stop, timedOut>>

DrainTimesOut ==
  /\ drain = "counting"
  /\ drain' = "exited" /\ accept' = "gone" /\ timedOut' = TRUE
  /\ UNCHANGED <<drainKeeps, stop>>

-----------------------------------------------------------------------------
Hyper(q) ==
  \/ Deliver(q) \/ TakeReply(q) \/ PollFrame(q) \/ PollEnd(q) \/ ChunkSent(q)
  \/ GuardDrops(q)

Handler(q) ==
  \/ Receive(q) \/ respond(q) \/ RespondRefused(q) \/ respond_start(q)
  \/ send_chunk(q) \/ respond_end(q) \/ ignis_grpc_end(q)
  \/ Return(q) \/ TailInterrupted(q)

Client(q) == Serve(q) \/ BodyRefused(q) \/ ClientLeaves(q)

Thread(r) == start(r) \/ leave_dispatch(r) \/ ScriptEnds(r) \/ Dies(r)
             \/ unregister(r) \/ fail_pending(r)

Listener ==
  \/ AcceptCheck \/ AcceptSubscribe \/ Accept \/ ConnectionCloses
  \/ DrainStops \/ DrainNotifies \/ DrainCounts \/ DrainTimesOut

Next ==
  \/ \E q \in Requests : Hyper(q) \/ Handler(q) \/ Client(q)
  \/ \E r \in Reactors : Thread(r)
  \/ Listener

Spec == Init /\ [][Next]_vars

-----------------------------------------------------------------------------
TypeOK ==
  /\ registry \in Seq(Reactors) /\ next \in Nat
  /\ thread \in [Reactors -> {"absent", "serving", "leaving", "ended", "unlisted", "gone"}]
  /\ conn \in [Requests -> {"unsent", "reading", "awaiting", "body", "dropping", "over"}]
  /\ to \in [Requests -> Reactors \cup {0}]
  /\ got \in [Requests -> {"nothing", "answer", "left"}]
  /\ conns \in 0..MaxConnections
  /\ answers \in [Requests -> {"none", "Whole", "Streaming", "Grpc"}]
  /\ reply \in [Requests -> {"open", "full", "head", "dropped"}]
  /\ frames \in [Requests -> 0..StreamChunks]
  /\ failure \in [Requests -> BOOLEAN] /\ sending \in [Requests -> BOOLEAN]
  /\ php \in [Requests -> {"none", "queued", "running", "done", "interrupted", "unanswered"}]
  /\ cancelled \subseteq Requests /\ finished \subseteq Requests
  /\ unheard \subseteq Requests /\ orphans \subseteq Requests
  /\ accept \in {"check", "subscribe", "waiting", "gone"}
  /\ drain \in {"off", "notify", "counting", "exited"}
  /\ stop \in BOOLEAN /\ timedOut \in BOOLEAN /\ lateAccepts \in Nat

(***************************************************************************)
(* LeaverIsTold: beside the types of the state,                            *)
(* once the connection of a client that left is gone PHP owes it nothing,  *)
(* and a handler that had not completed the answer has been told: nobody   *)
(* goes on producing a body for a closed connection (R-STREAM-CANCEL).     *)
(* The exception is an answer that begins to stream just between the drop  *)
(* of the receiver and that of the guard, which then finds nothing to      *)
(* cancel.  PHP is never told so of an answer it completed.                *)
(***************************************************************************)
LeaverIsTold ==
  /\ TypeOK
  /\ \A q \in Requests :
       got[q] = "left" /\ conn[q] # "dropping" =>
         /\ answers[q] = "none"
         /\ php[q] \in {"queued", "running"} =>
              q \in cancelled \cup finished \cup unheard \/ thread[to[q]] = "gone"
  /\ cancelled \cap finished = {}

(***************************************************************************)
(* CutOnlyByDeath: a body ends for its client only because PHP ended it or *)
(* because the thread that produced it is over; no call PHP makes on a     *)
(* request that streams cuts it short.                                     *)
(***************************************************************************)
CutOnlyByDeath ==
  \A q \in Requests :
    conn[q] = "body" /\ SenderGone(q) => q \in finished \/ thread[to[q]] = "gone"

(***************************************************************************)
(* DrainHonest: a drain that did not time out leaves no request of a       *)
(* thread in dispatch half answered, streams and calls included (V-75).    *)
(***************************************************************************)
DrainHonest ==
  drain = "exited" /\ ~timedOut =>
    \A q \in Requests :
      conn[q] \in {"awaiting", "body"} /\ to[q] \in Elements(registry) => q \in finished

(***************************************************************************)
(* OneLateAccept: the notification of the stop may be lost between the     *)
(* flag and the subscription; the accept loop then takes one connection    *)
(* more and no other.                                                      *)
(***************************************************************************)
OneLateAccept == lateAccepts <= 1

CanRead(q) ==
  \/ conn[q] = "awaiting" /\ reply[q] # "open"
  \/ conn[q] = "body" /\ (frames[q] > 0 \/ failure[q] \/ SenderGone(q))

\* A chunk is on its way, the handler has it, or unregister() will come to it.
WillBeWritten(q) ==
  \/ sending[q]
  \/ /\ answers[q] # "none"
     /\ \/ Alive(to[q]) /\ php[q] \in {"queued", "running"}
        \/ thread[to[q]] \in {"ended", "unlisted"}

\* The two ways a handler leaves an answer owed on a thread that goes on: a
\* deadline in its last chunk, and a release without an answer that was taken.
Abandoned(q) == php[q] \in {"interrupted", "unanswered"}

(***************************************************************************)
(* NeverStranded: whoever waits for an answer has something to read or     *)
(* somebody who will write it: a handler that has not returned, or a       *)
(* thread whose end is about to fail what it owes.  The exceptions are     *)
(* requests delivered to a thread already gone, a stream whose last chunk  *)
(* was interrupted by a deadline, and a request whose handler returned     *)
(* with every answer refused or none given ("a refused answer is a request *)
(* nobody will ever answer").                                              *)
(***************************************************************************)
NeverStranded ==
  \A q \in Requests :
    Listening(q) /\ q \notin orphans /\ ~Abandoned(q) => CanRead(q) \/ WillBeWritten(q)

(***************************************************************************)
(* NobodyHangs: a client waits only while somebody will answer: "the       *)
(* requests it still had in flight fail fast with a 500 instead of hanging *)
(* until the client gives up".                                             *)
(***************************************************************************)
NobodyHangs ==
  \A q \in Requests : Listening(q) /\ ~Abandoned(q) => CanRead(q) \/ WillBeWritten(q)
=============================================================================
