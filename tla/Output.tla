------------------------------- MODULE Output -------------------------------
(***************************************************************************)
(* Output of the fibers of one PHP thread (php/output.rs): where the bytes *)
(* of an echo go, and how a streamed response is opened, fed and ended     *)
(* (Loop::produce, Loop::endStream, send_chunk of php/module.rs).          *)
(*                                                                         *)
(* SINKS and BOUND are keyed by the address of a fiber's context.  An      *)
(* address outlives its fiber: a pooled fiber runs one request after       *)
(* another, and a fiber that dies gives its address to the next one.  The  *)
(* n-th byte that request r writes into its stream is <<r, n>>; of a       *)
(* captured byte only the writer is kept.  The queue to the socket, the    *)
(* sends that wait for room in it and the client move on their own.        *)
(***************************************************************************)
EXTENDS Naturals, Sequences, Functions

CONSTANTS
    Addresses,     \* of fiber contexts
    Requests,
    FrameBytes,    \* IGNIS_STREAM_FRAME_BYTES
    Chunks,        \* IGNIS_STREAM_CHUNKS, the room of a queue to a socket
    MaxBytes,      \* bound: bytes a request streams
    MaxCaptures,   \* bound: nested captures
    MaxCaptured    \* bound: bytes of one capture

ASSUME OutputConstants ==
    /\ FrameBytes \in Nat \ {0} /\ Chunks \in Nat \ {0}
    /\ MaxBytes \in Nat /\ MaxCaptures \in Nat /\ MaxCaptured \in Nat
    /\ "nobody" \notin Addresses \cup Requests

VARIABLES
    job,      \* the request a fiber runs
    phase,    \* how far it is with it
    sinks,    \* SINKS: the stack of captures of each fiber
    bound,    \* BOUND: the stream a fiber's output is the body of
    wrote,    \* bytes each request has streamed so far
    resp,     \* "none", "streaming", "ended" or "answered"
    gone,     \* requests whose client has left
    queue,    \* frames on their way to the socket
    slow,     \* sends that found the queue full, their tasks not polled yet
    line,     \* sends that were polled and wait in line for room
    body,     \* what the client has received
    cut,      \* requests whose wait for room was cut by an exception
    over      \* requests that were released, or whose fiber died

fibers == <<job, phase>>
buffers == <<sinks, bound>>
sends == <<slow, line>>
wire == <<queue, sends, body>>
vars == <<fibers, buffers, wrote, resp, gone, wire, cut, over>>

Nobody == "nobody"
BoundTo(id) == [id |-> id, pending |-> <<>>, started |-> FALSE]
Unbound == BoundTo(Nobody)
Bytes == Requests \X (1 .. MaxBytes)
Sends == [frame : Seq(Bytes), for : Addresses \cup {Nobody}]

TypeOK ==
    /\ job \in [Addresses -> Requests \cup {Nobody}]
    /\ phase \in [Addresses -> {"idle", "handler", "produce", "await", "tail", "release"}]
    /\ sinks \in [Addresses -> Seq(Seq(Requests))]
    /\ bound \in [Addresses -> [id : Requests \cup {Nobody}, pending : Seq(Bytes), started : BOOLEAN]]
    /\ wrote \in [Requests -> 0 .. MaxBytes]
    /\ resp \in [Requests -> {"none", "streaming", "ended", "answered"}]
    /\ gone \subseteq Requests /\ cut \subseteq Requests /\ over \subseteq Requests
    /\ queue \in [Requests -> Seq(Seq(Bytes))] /\ \A r \in Requests : Len(queue[r]) <= Chunks
    /\ slow \in [Requests -> SUBSET Sends] /\ line \in [Requests -> Seq(Sends)]
    /\ body \in [Requests -> Seq(Bytes)]

Init ==
    /\ job = [a \in Addresses |-> Nobody]
    /\ phase = [a \in Addresses |-> "idle"]
    /\ sinks = [a \in Addresses |-> <<>>]
    /\ bound = [a \in Addresses |-> Unbound]
    /\ wrote = [r \in Requests |-> 0]
    /\ resp = [r \in Requests |-> "none"]
    /\ gone = {} /\ cut = {} /\ over = {}
    /\ queue = [r \in Requests |-> <<>>]
    /\ slow = [r \in Requests |-> {}]
    /\ line = [r \in Requests |-> <<>>]
    /\ body = [r \in Requests |-> <<>>]

-----------------------------------------------------------------------------
(* Frames.                                                                 *)

\* A queue gives its room to the sends that already wait for it.
Room(r) == Len(queue[r]) < Chunks /\ line[r] = <<>>

\* respond_start: the answer is taken from the map, unless the client left.
Opens(r) == resp[r] = "none" /\ r \notin gone

PushForgetful(b, frame) ==
    [started |-> b.started \/ Opens(b.id),
     sent |-> (b.started \/ Opens(b.id)) /\ b.id \notin gone /\ Room(b.id),
     back |-> <<>>]

\* Bound::push: opens the response with its first byte and tries to send;
\* what did not fit comes back, what nobody will read does not.
Push(b, frame) ==
    LET started == b.started \/ Opens(b.id)
        sent == started /\ b.id \notin gone /\ Room(b.id)
    IN  [started |-> started, sent |-> sent,
         back |-> IF started /\ b.id \notin gone /\ ~sent THEN frame ELSE <<>>]

\* The effect of a push on the response and its queue.
Pushed(b, frame) ==
    /\ resp' = IF ~b.started /\ Opens(b.id) THEN [resp EXCEPT ![b.id] = "streaming"] ELSE resp
    /\ queue' = IF Push(b, frame).sent THEN [queue EXCEPT ![b.id] = Append(@, frame)] ELSE queue

\* What the binding becomes: the leftover is pending again.
Rebound(b, frame) == [b EXCEPT !.started = Push(b, frame).started, !.pending = Push(b, frame).back]

Live(a) == phase[a] \in {"handler", "produce"}

Writes(a) == Live(a) /\ wrote[job[a]] < MaxBytes

NextByte(a) == <<<<job[a], wrote[job[a]] + 1>>>>

-----------------------------------------------------------------------------
(* What a handler or a producer calls.                                     *)

\* ub_write, bound to a response: a frame goes out at the threshold.
EchoBound(a) ==
    LET b == bound[a]
        frame == b.pending \o NextByte(a)
    IN  /\ Writes(a) /\ b.id # Nobody
        /\ wrote' = [wrote EXCEPT ![job[a]] = @ + 1]
        /\ IF Len(frame) >= FrameBytes
           THEN Pushed(b, frame) /\ bound' = [bound EXCEPT ![a] = Rebound(b, frame)]
           ELSE bound' = [bound EXCEPT ![a].pending = frame] /\ UNCHANGED <<resp, queue>>
        /\ UNCHANGED <<fibers, sinks, gone, sends, body, cut, over>>

\* ub_write into the innermost capture.  Without one the bytes are stdout's.
EchoCaptured(a) ==
    /\ Live(a) /\ bound[a].id = Nobody
    /\ sinks[a] # <<>> /\ Len(sinks[a][Len(sinks[a])]) < MaxCaptured
    /\ sinks' = [sinks EXCEPT ![a][Len(sinks[a])] = Append(@, job[a])]
    /\ UNCHANGED <<fibers, bound, wrote, resp, gone, wire, cut, over>>

\* flush()
Flush(a) ==
    LET b == bound[a] IN
    /\ Live(a) /\ b.id # Nobody /\ b.pending # <<>>
    /\ Pushed(b, b.pending)
    /\ bound' = [bound EXCEPT ![a] = Rebound(b, b.pending)]
    /\ UNCHANGED <<fibers, sinks, wrote, gone, sends, body, cut, over>>

\* send_chunk on a full queue: an op that waits for room.
Submit(a, r, frame) == slow[r] \cup {[frame |-> frame, for |-> a]}

WriteFrameAlone(a) == NextByte(a)

\* What zif_stream_write tries to send.
WriteFrame(a) == bound[a].pending \o NextByte(a)

\* ignis_stream_write and the await of the op it returns.  What was echoed
\* before goes first.  (A try_send of the leftover finds the queue as push
\* left it.)
StreamWrite(a) ==
    LET b == bound[a]
        frame == WriteFrame(a)
        p == Push(b, frame)
    IN  /\ phase[a] = "produce" /\ Writes(a) /\ b.id # Nobody
        /\ wrote' = [wrote EXCEPT ![job[a]] = @ + 1]
        /\ Pushed(b, frame)
        /\ bound' = [bound EXCEPT ![a] = [b EXCEPT !.started = p.started, !.pending = <<>>]]
        /\ IF p.back = <<>>
           THEN UNCHANGED <<phase, slow>>
           ELSE /\ slow' = [slow EXCEPT ![b.id] = Submit(a, b.id, p.back)]
                /\ phase' = [phase EXCEPT ![a] = "await"]
        /\ UNCHANGED <<job, sinks, gone, line, body, cut, over>>

capture_start(a) ==
    /\ Live(a) /\ Len(sinks[a]) < MaxCaptures
    /\ sinks' = [sinks EXCEPT ![a] = Append(@, <<>>)]
    /\ UNCHANGED <<fibers, bound, wrote, resp, gone, wire, cut, over>>

capture_take(a) ==
    /\ Live(a) /\ sinks[a] # <<>>
    /\ sinks' = [sinks EXCEPT ![a] = SubSeq(@, 1, Len(@) - 1)]
    /\ UNCHANGED <<fibers, bound, wrote, resp, gone, wire, cut, over>>

-----------------------------------------------------------------------------
(* The life of a request on a fiber.                                       *)

\* A request takes a fiber of the pool.
Start(a, r) ==
    /\ phase[a] = "idle" /\ r \notin over /\ \A b \in Addresses : job[b] # r
    /\ job' = [job EXCEPT ![a] = r]
    /\ phase' = [phase EXCEPT ![a] = "handler"]
    /\ UNCHANGED <<buffers, wrote, resp, gone, wire, cut, over>>

\* respond: refused for an answer that is taken.
Answered(r) == IF Opens(r) THEN [resp EXCEPT ![r] = "answered"] ELSE resp

\* The handler returned a plain response, or threw.
Answer(a) ==
    /\ phase[a] = "handler"
    /\ resp' = Answered(job[a])
    /\ phase' = [phase EXCEPT ![a] = "release"]
    /\ UNCHANGED <<job, buffers, wrote, gone, wire, cut, over>>

\* The handler returned a StreamedResponse: ignis_stream_bind.
stream_bind(a) ==
    /\ phase[a] = "handler"
    /\ bound' = [bound EXCEPT ![a] = BoundTo(job[a])]
    /\ phase' = [phase EXCEPT ![a] = "produce"]
    /\ UNCHANGED <<job, sinks, wrote, resp, gone, wire, cut, over>>

\* ignis_stream_unbind: pushes what is pending; the tail is what did not fit.
Unbind(b) ==
    IF b.pending = <<>> THEN [started |-> b.started, sent |-> FALSE, back |-> <<>>]
                        ELSE Push(b, b.pending)

\* The producer is done or has thrown.  Nothing written and nothing promised:
\* a 204, or the 500 of a failure.  Otherwise the tail is sent, and awaited
\* if there is no room, before the body is ended.
Produced(a) ==
    LET b == bound[a]
        u == Unbind(b)
    IN  /\ phase[a] = "produce" /\ b.id # Nobody
        /\ bound' = [bound EXCEPT ![a] = Unbound]
        /\ queue' = IF u.sent THEN [queue EXCEPT ![b.id] = Append(@, b.pending)] ELSE queue
        /\ IF ~u.started
           THEN resp' = Answered(b.id) /\ phase' = [phase EXCEPT ![a] = "release"] /\ UNCHANGED slow
           ELSE IF u.back = <<>>
           THEN /\ resp' = [resp EXCEPT ![b.id] = "ended"]
                /\ phase' = [phase EXCEPT ![a] = "release"]
                /\ UNCHANGED slow
           ELSE /\ resp' = [resp EXCEPT ![b.id] = "streaming"]
                /\ slow' = [slow EXCEPT ![b.id] = Submit(a, b.id, u.back)]
                /\ phase' = [phase EXCEPT ![a] = "tail"]
        /\ UNCHANGED <<job, sinks, wrote, gone, line, body, cut, over>>

\* The op is done.
Waits(a) == \E r \in Requests : \E s \in slow[r] \cup Range(line[r]) : s.for = a

ResumeProducer(a) ==
    /\ phase[a] = "await" /\ ~Waits(a)
    /\ phase' = [phase EXCEPT ![a] = "produce"]
    /\ UNCHANGED <<job, buffers, wrote, resp, gone, wire, cut, over>>

EndStream(a) ==
    /\ phase[a] = "tail" /\ ~Waits(a)
    /\ resp' = [resp EXCEPT ![job[a]] = "ended"]
    /\ phase' = [phase EXCEPT ![a] = "release"]
    /\ UNCHANGED <<job, buffers, wrote, gone, wire, cut, over>>

\* The sends of a fiber go on without it.
Disowned(a) ==
    LET Orphan(s) == IF s.for = a THEN [s EXCEPT !.for = Nobody] ELSE s
    IN  /\ slow' = [r \in Requests |-> {Orphan(s) : s \in slow[r]}]
        /\ line' = [r \in Requests |-> [n \in DOMAIN line[r] |-> Orphan(line[r][n])]]

\* A deadline or a cancellation thrown at the wait for room.  A producer may
\* catch it; endStream() does not, and passes the end of the body by.
CutWait(a) ==
    /\ phase[a] \in {"await", "tail"}
    /\ phase' = [phase EXCEPT ![a] = IF @ = "await" THEN "produce" ELSE "release"]
    /\ Disowned(a)
    /\ cut' = cut \cup {job[a]}
    /\ UNCHANGED <<job, buffers, wrote, resp, gone, queue, body, over>>

\* ignis_capture_reset
capture_reset(a) == bound' = [bound EXCEPT ![a] = Unbound] /\ sinks' = [sinks EXCEPT ![a] = <<>>]

\* releaseRequest(): the fiber goes back to the pool.
Release(a) ==
    /\ phase[a] = "release"
    /\ capture_reset(a)
    /\ over' = over \cup {job[a]}
    /\ job' = [job EXCEPT ![a] = Nobody]
    /\ phase' = [phase EXCEPT ![a] = "idle"]
    /\ UNCHANGED <<wrote, resp, gone, wire, cut>>

on_fiber_destroySinks(a) == sinks' = [sinks EXCEPT ![a] = <<>>] /\ UNCHANGED bound

on_fiber_destroy(a) == sinks' = [sinks EXCEPT ![a] = <<>>] /\ bound' = [bound EXCEPT ![a] = Unbound]

\* A fiber dies in the middle of its request: a fatal, or an unwound
\* cancellation.  Its address is free for the next one.
Die(a) ==
    /\ phase[a] # "idle"
    /\ on_fiber_destroy(a)
    /\ over' = over \cup {job[a]}
    /\ cut' = cut \cup {job[a]}
    /\ Disowned(a)
    /\ job' = [job EXCEPT ![a] = Nobody]
    /\ phase' = [phase EXCEPT ![a] = "idle"]
    /\ UNCHANGED <<wrote, resp, gone, queue, body>>

-----------------------------------------------------------------------------
(* The socket.                                                             *)

\* The task of a slow send is polled: the frame goes into the queue, or the
\* task joins the line of those that wait for room.
SlowSend(r, s) ==
    /\ r \notin gone
    /\ slow' = [slow EXCEPT ![r] = @ \ {s}]
    /\ IF Room(r)
       THEN queue' = [queue EXCEPT ![r] = Append(@, s.frame)] /\ UNCHANGED line
       ELSE line' = [line EXCEPT ![r] = Append(@, s)] /\ UNCHANGED queue
    /\ UNCHANGED <<fibers, buffers, wrote, resp, gone, body, cut, over>>

\* Room that was made goes to the first in the line.
SlowAdmitted(r) ==
    /\ line[r] # <<>> /\ r \notin gone /\ Len(queue[r]) < Chunks
    /\ queue' = [queue EXCEPT ![r] = Append(@, Head(line[r]).frame)]
    /\ line' = [line EXCEPT ![r] = Tail(@)]
    /\ UNCHANGED <<fibers, buffers, wrote, resp, gone, slow, body, cut, over>>

\* An error, because the client has left.
SlowFail(r) ==
    /\ r \in gone /\ slow[r] \cup Range(line[r]) # {}
    /\ slow' = [slow EXCEPT ![r] = {}]
    /\ line' = [line EXCEPT ![r] = <<>>]
    /\ UNCHANGED <<fibers, buffers, wrote, resp, gone, queue, body, cut, over>>

Receive(r) ==
    /\ queue[r] # <<>>
    /\ body' = [body EXCEPT ![r] = @ \o Head(queue[r])]
    /\ queue' = [queue EXCEPT ![r] = Tail(@)]
    /\ UNCHANGED <<fibers, buffers, wrote, resp, gone, sends, cut, over>>

Leave(r) ==
    /\ r \notin gone
    /\ gone' = gone \cup {r}
    /\ queue' = [queue EXCEPT ![r] = <<>>]
    /\ UNCHANGED <<fibers, buffers, wrote, resp, sends, body, cut, over>>

Next ==
    \/ \E a \in Addresses :
        \/ EchoBound(a)
        \/ EchoCaptured(a)
        \/ Flush(a)
        \/ StreamWrite(a)
        \/ capture_start(a)
        \/ capture_take(a)
        \/ \E r \in Requests : Start(a, r)
        \/ Answer(a)
        \/ stream_bind(a)
        \/ Produced(a)
        \/ ResumeProducer(a)
        \/ EndStream(a)
        \/ CutWait(a)
        \/ Release(a)
        \/ Die(a)
    \/ \E r \in Requests : \E s \in slow[r] : SlowSend(r, s)
    \/ \E r \in Requests : SlowAdmitted(r)
    \/ \E r \in Requests : SlowFail(r)
    \/ \E r \in Requests : Receive(r)
    \/ \E r \in Requests : Leave(r)

Spec == Init /\ [][Next]_vars

-----------------------------------------------------------------------------
(* Properties.                                                             *)

\* The bytes the client of r has, or that are on their way there.
OnTheWay(r) ==
    UNION ({Range(body[r])} \cup {Range(f) : f \in Range(queue[r])}
           \cup {Range(s.frame) : s \in slow[r] \cup Range(line[r])})

\* "One request's bytes must not end up in another's answer" (output.rs:5):
\* whatever was sent, queued or is pending for a response was written by its
\* own request, after fibers were pooled, died and left their address behind;
\* so was what its captures hold, and a fiber without a job has none
\* (output.rs:368-370).
OwnBytesOnly ==
    /\ TypeOK
    /\ \A r \in Requests : \A c \in OnTheWay(r) : c[1] = r
    /\ \A a \in Addresses : bound[a].id # Nobody =>
        bound[a].id = job[a] /\ \A c \in Range(bound[a].pending) : c[1] = job[a]
    /\ \A a \in Addresses : \A n \in 1 .. Len(sinks[a]) :
        job[a] # Nobody /\ \A k \in 1 .. Len(sinks[a][n]) : sinks[a][n][k] = job[a]

\* The client reads the bytes in the order they were written, without a gap,
\* whichever of echo, flush() and ignis_stream_write sent them, as long as no
\* wait for room was cut short (module.rs:549: "Ordering is safe because a
\* slow-path write is awaited before the next one starts").
InOrder ==
    \A r \in Requests \ cut : \A n \in 1 .. Len(body[r]) : body[r][n] = <<r, n>>

\* No request is released without an answer: a response that was not opened
\* is still a 204 or a 500, and one that was opened is ended (Loop.php:923);
\* and a body that was ended has, on the client's side or on its way there,
\* all that its producer wrote (output.rs:337-339), unless the client left.
AnsweredInFull ==
    /\ \A r \in over \ (gone \cup cut) : resp[r] \in {"ended", "answered"}
    /\ \A r \in Requests \ (gone \cup cut) :
        resp[r] = "ended" => \A n \in 1 .. wrote[r] : <<r, n>> \in OnTheWay(r)

=============================================================================
