------------------------------- MODULE Scope --------------------------------
(***************************************************************************)
(* What the fibers of one PHP thread see of per-request state: the         *)
(* superglobals (php/superglobals.rs), the properties of scoped objects    *)
(* (php/scoped.rs) and the body the SAPI hands out (php/post.rs).  All     *)
(* three are keyed by the address of a fiber context, which outlives the   *)
(* job the fiber runs: pooled fibers run one job after another, and the    *)
(* address of a dead fiber is given to the next.                           *)
(*                                                                         *)
(* One thread runs one context at a time, so whatever happens between two  *)
(* switches is a step of the context in `now`.  The loop on {main} starts  *)
(* and resumes pooled fibers; a fiber may itself start a raw fiber, which  *)
(* returns to it.  The four arrays are treated alike and never mixed, so   *)
(* one stands for all; so does one property for an object's properties.    *)
(***************************************************************************)
EXTENDS Naturals

CONSTANTS
    Addresses,     \* of fiber contexts
    Requests,
    Handles,       \* of scoped objects
    BodyBytes,     \* length of a request body
    Block,         \* what the engine asks read_post for at a time
    MaxWrites,     \* bound: writes to superglobals
    MaxObjects,    \* bound: objects that use one handle in turn
    MaxSpawns      \* bound: child fibers, and raw fibers

ASSUME ScopeConstants ==
    /\ BodyBytes \in Nat /\ Block \in Nat \ {0}
    /\ MaxWrites \in Nat /\ MaxObjects \in Nat /\ MaxSpawns \in Nat
    /\ {"main", "null"} \cap Addresses = {}
    /\ {"main", "null", "default", "constructor"} \cap Requests = {}

Main == "main"
Null == "null"
Scopes == Addresses \cup {Main}

VARIABLES
    now,       \* the running context
    job,       \* what the fiber at each address is for
    resumer,   \* the fiber a raw fiber returns to
    spawned,   \* child and raw fibers started so far
    begun,     \* requests that were given a fiber
    globals,   \* the symbol table, VIEW, BASE and the contexts' slots
    objects,   \* scoped objects: LIVE, their property slots and TABLES
    builder,   \* the fiber that has yet to seal an object
    made,      \* objects that have used each handle
    content_type,    \* SG(request_info): the body its content_type points into,
    request_method,  \* and the one its request_method points or pointed into
    bodies,    \* BODIES
    newest,    \* auxiliary: the fiber that entered last, if its request has a content
               \* type, until any request leaves
    expected,  \* auxiliary: what was last put in each isolated fiber's superglobals,
               \* and in the base world's
    writes,    \* writes to superglobals so far
    wrote,     \* auxiliary: objects each scope has written to in its present job
    stained,   \* auxiliary: addresses a job left without clearing what it wrote
    orphaned   \* auxiliary: a view lost its owner while it was installed

schedule == <<now, job, resumer, spawned, begun>>
request == <<content_type, request_method, bodies, newest>>
vars == <<schedule, globals, objects, builder, made, request, expected, writes, wrote, stained, orphaned>>

NoFiber == [req |-> Null, role |-> "none"]
Idle == [req |-> Null, role |-> "idle"]
Job(r, role) == [req |-> r, role |-> role]
NoBody == [of |-> Null, read |-> 0]

\* What an array or a property holds: who wrote it, and which writing it was.
Arrays == [by : Requests \cup {Main}, role : {"main", "handler", "raw"}, n : Nat]
BaseArray == [by |-> Main, role |-> "main", n |-> 0]
NoArray == [by |-> Null, role |-> "none", n |-> 0]
UndefArray == [by |-> Null, role |-> "undef", n |-> 0]
Properties == ({"default", "constructor"} \cup Requests) \X (1 .. MaxObjects)
NoRow == <<"no row", 0>>
Undef == <<"undef", 0>>

Globals ==
    [table : Arrays, view : Addresses \cup {Null}, base : Arrays \cup {NoArray},
     slot : [Addresses -> Arrays \cup {NoArray, UndefArray}]]
Objects ==
    [live : [Handles -> 0 .. MaxObjects], slots : [Handles -> Properties \cup {Undef}],
     rows : [Scopes -> [Handles -> Properties \cup {Undef, NoRow}]]]

TypeOK ==
    /\ now \in Scopes
    /\ job \in [Addresses -> [req : Requests \cup {Null},
                              role : {"none", "idle", "entering", "handler", "child", "raw"}]]
    /\ resumer \in [Addresses -> Addresses \cup {Null}]
    /\ spawned \in [{"child", "raw"} -> 0 .. MaxSpawns]
    /\ begun \subseteq Requests
    /\ globals \in Globals
    /\ objects \in Objects
    /\ builder \in [Handles -> Addresses \cup {Null}]
    /\ made \in [Handles -> 0 .. MaxObjects]
    /\ content_type \in Requests \cup {Null}
    /\ request_method \in Requests \cup {Null}
    /\ bodies \in [Addresses -> [of : Requests \cup {Null}, read : 0 .. BodyBytes]]
    /\ newest \in Addresses \cup {Null}
    /\ expected \in [Scopes -> Arrays \cup {NoArray}]
    /\ writes \in 0 .. MaxWrites
    /\ wrote \in [Addresses -> SUBSET Handles]
    /\ stained \subseteq Addresses
    /\ orphaned \in BOOLEAN

Init ==
    /\ now = Main
    /\ job = [a \in Addresses |-> NoFiber]
    /\ resumer = [a \in Addresses |-> Null]
    /\ spawned = [role \in {"child", "raw"} |-> 0]
    /\ begun = {}
    /\ globals = [table |-> BaseArray, view |-> Null, base |-> NoArray, slot |-> [a \in Addresses |-> NoArray]]
    /\ objects = [live |-> [h \in Handles |-> 0], slots |-> [h \in Handles |-> Undef],
                  rows |-> [s \in Scopes |-> [h \in Handles |-> NoRow]]]
    /\ builder = [h \in Handles |-> Null]
    /\ made = [h \in Handles |-> 0]
    /\ content_type = Null
    /\ request_method = Null
    /\ bodies = [a \in Addresses |-> NoBody]
    /\ newest = Null
    /\ expected = [s \in Scopes |-> IF s = Main THEN BaseArray ELSE NoArray]
    /\ writes = 0
    /\ wrote = [a \in Addresses |-> {}]
    /\ stained = {}
    /\ orphaned = FALSE

-----------------------------------------------------------------------------
(* Superglobals.                                                           *)

save_current_viewInBase(g) == [g EXCEPT !.base = g.table]

\* The installed view goes back to its owner, or to the base world.
save_current_view(g) ==
    IF g.view = Null THEN [g EXCEPT !.base = g.table]
                     ELSE [g EXCEPT !.slot[g.view] = g.table]

\* An entry without a value leaves the installed one in place.
install(g, value) == IF value \in {NoArray, UndefArray} THEN g ELSE [g EXCEPT !.table = value]

\* Only the first call of a fiber makes it an owner; {main} never is one.
isolate_current(g, a) ==
    IF g.slot[a] # NoArray THEN g
    ELSE [save_current_view(g) EXCEPT !.slot[a] = UndefArray, !.view = a]

set_superglobals(g, a, value) == install(isolate_current(g, a), value)

\* A context that never isolated itself inherits the view that is installed.
globals_on_switch(g, to) ==
    IF to = Main
    THEN IF g.view = Null THEN g
         ELSE LET saved == save_current_view(g)
              IN  [install(saved, saved.base) EXCEPT !.view = Null]
    ELSE IF g.slot[to] = NoArray \/ g.view = to THEN g
         ELSE [install(save_current_view(g), g.slot[to]) EXCEPT !.view = to]

\* The dying owner of the installed view leaves the view without one.
globals_on_destroy(g, a) ==
    [g EXCEPT !.slot[a] = NoArray, !.view = IF g.view = a THEN Null ELSE g.view]

-----------------------------------------------------------------------------
(* Scoped objects.  The rows of {main} are row zero.                       *)

Live(o) == {h \in Handles : o.live[h] # 0}

RowZero(o, h) == IF o.rows[Main][h] = NoRow THEN Undef ELSE o.rows[Main][h]

allocate(o, h, n) == [o EXCEPT !.live[h] = n, !.slots[h] = <<"default", n>>]

seal(o, h) == [o EXCEPT !.rows[Main][h] = o.slots[h]]

objects_on_switchInherit(o, from, to) ==
    LET kept == [o EXCEPT !.rows[from] = [h \in Handles |-> IF h \in Live(o) THEN o.slots[h] ELSE @[h]]]
    IN  [kept EXCEPT !.slots = [h \in Handles |-> IF h \in Live(o) THEN RowZero(kept, h) ELSE @[h]]]

\* Every live object's slots move from the leaving scope's row to the
\* entering one's; a scope without a row inherits row zero.
objects_on_switch(o, from, to) ==
    LET kept == [o EXCEPT !.rows[from] = [h \in Handles |-> IF h \in Live(o) THEN o.slots[h] ELSE @[h]]]
        entering(h) == IF o.rows[to][h] = NoRow THEN RowZero(kept, h) ELSE o.rows[to][h]
    IN  [kept EXCEPT !.slots = [h \in Handles |-> IF h \in Live(o) THEN entering(h) ELSE @[h]],
                     !.rows[to] = [h \in Handles |-> IF h \in Live(o) THEN NoRow ELSE @[h]]]

rows_clearTablesOnly(o, a) == [o EXCEPT !.rows[a] = [h \in Handles |-> NoRow]]

\* The rows go, and the slots go back to row zero: the next switch would
\* otherwise save them under the same key again.
rows_clear(o, a) ==
    [o EXCEPT !.slots = [h \in Handles |-> IF h \in Live(o) THEN RowZero(o, h) ELSE @[h]],
              !.rows[a] = [h \in Handles |-> NoRow]]

free_objTableOnly(o, h) == [o EXCEPT !.live[h] = 0, !.slots[h] = Undef]

\* A handle is used again, so every scope's row of it goes.
free_obj(o, h) ==
    [o EXCEPT !.live[h] = 0, !.slots[h] = Undef,
              !.rows = [s \in Scopes |-> [@[s] EXCEPT ![h] = NoRow]]]

-----------------------------------------------------------------------------
(* The request body.                                                       *)

\* The key of a fiber's body.
current(a) == a

\* The fiber's body is kept under its address, and SG(request_info), one for
\* the thread, points into it.  A request may come without a content type.
enter(a, r) ==
    /\ \/ content_type' = r /\ newest' = a
       \/ content_type' = Null /\ newest' = Null
    /\ request_method' = r
    /\ bodies' = [bodies EXCEPT ![current(a)] = [of |-> r, read |-> 0]]

leaveEveryone(a) ==
    /\ content_type' = Null
    /\ bodies' = [b \in Addresses |-> NoBody]
    /\ newest' = Null
    /\ UNCHANGED request_method

\* Whoever leaves unhooks the content type, whosever it is; request_method
\* stays, and may point into the body that goes.
leave(a) ==
    /\ content_type' = Null
    /\ bodies' = [bodies EXCEPT ![current(a)] = NoBody]
    /\ newest' = Null
    /\ UNCHANGED request_method

\* What one call of read_post answers.
Taken(body) == IF BodyBytes - body.read < Block THEN BodyBytes - body.read ELSE Block

-----------------------------------------------------------------------------
(* Switches.                                                               *)

\* The observer runs before the stack is switched.
Switch(from, to) ==
    /\ now' = to
    /\ objects' = objects_on_switch(objects, from, to)
    /\ globals' = globals_on_switch(globals, to)

Unseen == <<builder, made, request, expected, writes, orphaned>>

\* Loop::startPending and resumeReady hand a job to a new or an idle fiber.
Begin(a, r, role) ==
    /\ now = Main
    /\ job[a] \in {NoFiber, Idle}
    /\ job' = [job EXCEPT ![a] = Job(r, role)]
    /\ wrote' = [wrote EXCEPT ![a] = {}]
    /\ Switch(Main, a)
    /\ UNCHANGED <<resumer, stained, Unseen>>

BeginRequest(a, r) ==
    /\ r \notin begun
    /\ begun' = begun \cup {r}
    /\ Begin(a, r, "entering")
    /\ UNCHANGED spawned

BeginChild(a, r) ==
    /\ \E b \in Addresses : job[b].req = r /\ job[b].role # "entering"
    /\ spawned["child"] < MaxSpawns
    /\ spawned' = [spawned EXCEPT !["child"] = @ + 1]
    /\ Begin(a, r, "child")
    /\ UNCHANGED begun

Resume(a) ==
    /\ now = Main
    /\ job[a].role \in {"handler", "child"}
    /\ Switch(Main, a)
    /\ UNCHANGED <<job, resumer, spawned, begun, wrote, stained, Unseen>>

\* User code runs in a handler, a child or a raw fiber.
Runs(a) == now = a /\ job[a].role \in {"handler", "child", "raw"}

Suspend(a) ==
    /\ Runs(a)
    /\ Switch(a, IF job[a].role = "raw" THEN resumer[a] ELSE Main)
    /\ UNCHANGED <<job, resumer, spawned, begun, wrote, stained, Unseen>>

\* A fiber that user code makes and starts by itself.
StartRaw(a, c) ==
    /\ Runs(a) /\ job[a].role # "raw"
    /\ job[c] = NoFiber
    /\ spawned["raw"] < MaxSpawns
    /\ spawned' = [spawned EXCEPT !["raw"] = @ + 1]
    /\ job' = [job EXCEPT ![c] = Job(job[a].req, "raw")]
    /\ resumer' = [resumer EXCEPT ![c] = a]
    /\ wrote' = [wrote EXCEPT ![c] = {}]
    /\ Switch(a, c)
    /\ UNCHANGED <<begun, stained, Unseen>>

ResumeRaw(a, c) ==
    /\ Runs(a) /\ job[c].role = "raw" /\ resumer[c] = a
    /\ Switch(a, c)
    /\ UNCHANGED <<job, resumer, spawned, begun, wrote, stained, Unseen>>

\* A job that ends without rows_clear leaves what it wrote under its address.
Left(a) == IF wrote[a] = {} THEN stained ELSE stained \cup {a}

\* A job returns after its raw fibers and its constructors have.
Returns(a) == (\A c \in Addresses : resumer[c] # a) /\ \A h \in Handles : builder[h] # a

\* The last switch out of a fiber, and then the destroy hook.
EndRaw(c) ==
    /\ Runs(c) /\ job[c].role = "raw" /\ Returns(c)
    /\ now' = resumer[c]
    /\ objects' = objects_on_switch(objects, c, resumer[c])
    /\ LET switched == globals_on_switch(globals, resumer[c])
       IN  /\ globals' = globals_on_destroy(switched, c)
           /\ orphaned' = (orphaned \/ switched.view = c)
    /\ job' = [job EXCEPT ![c] = NoFiber]
    /\ resumer' = [resumer EXCEPT ![c] = Null]
    /\ expected' = [expected EXCEPT ![c] = NoArray]
    /\ wrote' = [wrote EXCEPT ![c] = {}]
    /\ stained' = Left(c)
    /\ UNCHANGED <<spawned, begun, builder, made, request, writes>>

\* Loop::poolBody: a child's job ends and its fiber goes back to the pool.
EndChild(a) ==
    /\ Runs(a) /\ job[a].role = "child" /\ Returns(a)
    /\ Switch(a, Main)
    /\ job' = [job EXCEPT ![a] = Idle]
    /\ wrote' = [wrote EXCEPT ![a] = {}]
    /\ stained' = Left(a)
    /\ UNCHANGED <<resumer, spawned, begun, Unseen>>

-----------------------------------------------------------------------------
(* What a request does.                                                    *)

\* Loop::enterRequest, the first thing a request's fiber does.
enterRequest(a) ==
    LET value == [by |-> job[a].req, role |-> "handler", n |-> 0]
    IN  /\ now = a /\ job[a].role = "entering"
        /\ job' = [job EXCEPT ![a].role = "handler"]
        /\ globals' = set_superglobals(globals, a, value)
        /\ expected' = [expected EXCEPT ![a] = value]
        /\ enter(a, job[a].req)
        /\ UNCHANGED <<now, resumer, spawned, begun, objects, builder, made, writes, wrote, stained, orphaned>>

\* Loop::releaseRequest; the fiber then waits for its next job.
releaseRequest(a) ==
    /\ Runs(a) /\ job[a].role = "handler" /\ Returns(a)
    /\ objects' = objects_on_switch(rows_clear(objects, a), a, Main)
    /\ leave(a)
    /\ now' = Main
    /\ globals' = globals_on_switch(globals, Main)
    /\ job' = [job EXCEPT ![a] = Idle]
    /\ wrote' = [wrote EXCEPT ![a] = {}]
    /\ stained' = stained \ {a}
    /\ UNCHANGED <<resumer, spawned, begun, builder, made, expected, writes, orphaned>>

Unswitched == <<schedule, stained, orphaned>>
Undisturbed == <<Unswitched, writes>>

\* A raw fiber may ask for superglobals of its own.
SetSuperglobals(c) ==
    LET value == [by |-> job[c].req, role |-> "raw", n |-> 0]
    IN  /\ Runs(c) /\ job[c].role = "raw"
        /\ globals' = set_superglobals(globals, c, value)
        /\ expected' = [expected EXCEPT ![c] = value]
        /\ UNCHANGED <<Undisturbed, objects, builder, made, request, wrote>>

\* Whose array a fiber writes: its own, or that of the world it runs in.
WorldOf(a) ==
    IF globals.slot[a] # NoArray THEN a
    ELSE IF globals.view = Null THEN Main ELSE globals.view

\* User code assigns to an element of the array it finds, in place.
WriteSuperglobal(a) ==
    /\ Runs(a)
    /\ writes < MaxWrites
    /\ writes' = writes + 1
    /\ globals' = [globals EXCEPT !.table.n = @ + 1]
    /\ expected' = [expected EXCEPT ![WorldOf(a)].n = @ + 1]
    /\ UNCHANGED <<Unswitched, objects, builder, made, request, wrote>>

\* Scope::create: allocated, then constructed, which may suspend, then sealed.
Allocate(a, h) ==
    /\ Runs(a) /\ objects.live[h] = 0 /\ made[h] < MaxObjects
    /\ made' = [made EXCEPT ![h] = @ + 1]
    /\ objects' = allocate(objects, h, made[h] + 1)
    /\ builder' = [builder EXCEPT ![h] = a]
    /\ UNCHANGED <<Undisturbed, globals, request, expected, wrote>>

Construct(a, h) ==
    /\ Runs(a) /\ builder[h] = a /\ objects.slots[h] = <<"default", made[h]>>
    /\ objects' = [objects EXCEPT !.slots[h] = <<"constructor", made[h]>>]
    /\ UNCHANGED <<Undisturbed, globals, builder, made, request, expected, wrote>>

Seal(a, h) ==
    /\ Runs(a) /\ builder[h] = a
    /\ objects' = seal(objects, h)
    /\ builder' = [builder EXCEPT ![h] = Null]
    /\ UNCHANGED <<Undisturbed, globals, made, request, expected, wrote>>

WriteProperty(a, h) ==
    /\ Runs(a) /\ objects.live[h] # 0 /\ builder[h] = Null
    /\ objects' = [objects EXCEPT !.slots[h] = <<job[a].req, made[h]>>]
    /\ wrote' = [wrote EXCEPT ![a] = @ \cup {h}]
    /\ UNCHANGED <<Undisturbed, globals, builder, made, request, expected>>

\* The last reference goes; a constructor that throws drops the only one.
Free(a, h) ==
    /\ Runs(a) /\ objects.live[h] # 0 /\ builder[h] \in {Null, a}
    /\ objects' = free_obj(objects, h)
    /\ builder' = [builder EXCEPT ![h] = Null]
    /\ wrote' = [b \in Addresses |-> wrote[b] \ {h}]
    /\ UNCHANGED <<Undisturbed, globals, made, request, expected>>

\* request_parse_body() throws if there is no content type; otherwise it asks
\* until it is answered less than it asked for.
read_post(a) ==
    /\ Runs(a) /\ content_type # Null
    /\ bodies[current(a)] # NoBody
    /\ Taken(bodies[current(a)]) # 0
    /\ bodies' = [bodies EXCEPT ![current(a)].read = @ + Taken(bodies[current(a)])]
    /\ UNCHANGED <<Undisturbed, globals, objects, builder, made, content_type, request_method, newest,
                   expected, wrote>>

Next ==
    \/ \E a \in Addresses, r \in Requests : BeginRequest(a, r)
    \/ \E a \in Addresses, r \in Requests : BeginChild(a, r)
    \/ \E a \in Addresses : Resume(a)
    \/ \E a \in Addresses : Suspend(a)
    \/ \E a, c \in Addresses : StartRaw(a, c)
    \/ \E a, c \in Addresses : ResumeRaw(a, c)
    \/ \E c \in Addresses : EndRaw(c)
    \/ \E a \in Addresses : EndChild(a)
    \/ \E a \in Addresses : enterRequest(a)
    \/ \E a \in Addresses : releaseRequest(a)
    \/ \E c \in Addresses : SetSuperglobals(c)
    \/ \E a \in Addresses : WriteSuperglobal(a)
    \/ \E a \in Addresses, h \in Handles : Allocate(a, h)
    \/ \E a \in Addresses, h \in Handles : Construct(a, h)
    \/ \E a \in Addresses, h \in Handles : Seal(a, h)
    \/ \E a \in Addresses, h \in Handles : WriteProperty(a, h)
    \/ \E a \in Addresses, h \in Handles : Free(a, h)
    \/ \E a \in Addresses : read_post(a)

Spec == Init /\ [][Next]_vars

-----------------------------------------------------------------------------
(* Properties.                                                             *)

SeesOwn ==
    now # Main /\ expected[now] # NoArray /\ job[now].role \in {"handler", "raw"}
        => globals.table = expected[now]

BaseKept ==
    /\ expected[Main].by = Main
    /\ now = Main /\ ~orphaned => globals.table = expected[Main]

\* on_switch: a request's fiber, and a raw fiber that asked for superglobals
\* of its own, find in $_SERVER and friends exactly what they left there,
\* whatever ran in between and whichever context they are resumed from, and
\* no request's arrays ever take the place of the loop's own.  A fiber
\* without a slot writes into the world it runs in, its starter's or the
\* loop's, and what it wrote stays there.  Excepted: after the owner of the
\* installed view died, because then nothing puts the base world back.
OwnSuperglobals == TypeOK /\ SeesOwn /\ BaseKept

\* scoped::on_switch: what a job wrote into a scoped object it still finds
\* after any number of switches, writes of other fibers, and seals.
KeepsOwnProperty ==
    now # Main => \A h \in wrote[now] : objects.slots[h] = <<job[now].req, made[h]>>

Private(s) == {h \in Handles : objects.slots[h] \in Requests \X (1 .. MaxObjects)
                                /\ (s = Main \/ objects.slots[h][1] # job[s].req)}

\* rows_clear: no fiber, pooled or not, reads a value another request wrote
\* into a scoped object.  Excepted: a fiber at an address where a child or a
\* raw fiber wrote, because nothing clears after those.
PooledIsClean == now \notin stained => Private(now) = {}

\* rows_clear: "a pooled fiber's next request must not read the previous
\* one's values".
NextRequestIsClean == now # Main /\ job[now].role = "handler" => Private(now) = {}

\* free_obj: handles are reused, and a scoped object never shows a property
\* of the object that had its handle before, in whatever scope.
NoDeadProperty ==
    \A h \in Live(objects) :
        objects.slots[h] # Undef => objects.slots[h][2] = made[h]

\* enter and leave: a handler that awaits before it parses is still given its
\* own body, however many requests entered and left meanwhile.  The content
\* type and the method it is parsed by, one for the thread, are its own as
\* long as no other request enters and none leaves.  After that there is no
\* content type, or that of the last request to enter, whose method is then
\* installed too and whose body is still there; request_method alone may be
\* left pointing into a body that is gone.
BodyIsOwn ==
    /\ now # Main /\ job[now].role = "handler" => bodies[current(now)].of = job[now].req
    /\ newest # Null => content_type = job[newest].req /\ request_method = job[newest].req
    /\ content_type # Null => /\ request_method = content_type
                              /\ \E a \in Addresses : bodies[a].of = content_type

=============================================================================
