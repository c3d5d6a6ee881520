---------------------------- MODULE ScopeProofs -----------------------------
(***************************************************************************)
(* Scope.tla for any fibers, requests, objects and bodies: superglobals    *)
(* and scoped properties stay with the job that wrote them, a handle that  *)
(* is used again shows nothing of its former object, and a handler reads   *)
(* its own body.                                                           *)
(***************************************************************************)
EXTENDS Scope, TLAPS

-----------------------------------------------------------------------------
(* The invariants.  Those of the objects take what they are about as       *)
(* arguments: one lemma then serves every action that switches.            *)

Jobs == [Addresses -> [req : Requests \cup {Null},
                       role : {"none", "idle", "entering", "handler", "child", "raw"}]]

\* Whoever works does so for a request, and a raw fiber returns to another.
Schedule ==
  \A a \in Addresses :
    /\ job[a].role \in {"none", "idle"} => wrote[a] = {}
    /\ job[a].role \notin {"none", "idle"} => job[a].req \in Requests
    /\ job[a].role = "raw" => resumer[a] \in Addresses \ {a}

\* An owner's array is what it put there: in the symbol table while its view
\* is installed, and in its slot otherwise.
OwnArray(g, e, a) ==
  /\ e[a] = NoArray <=> g.slot[a] = NoArray
  /\ g.slot[a] # NoArray /\ g.view # a => g.slot[a] = e[a]
  /\ g.view = a => g.slot[a] # NoArray /\ g.table = e[a]

\* The base world is in the symbol table or put aside; the context that runs
\* has its own view if it owns one, and {main} has none.
World(g, e, n, lost) ==
  /\ e[Main] \in Arrays /\ e[Main].by = Main
  /\ n = Main => g.view = Null
  /\ n # Main => g.slot[n] = NoArray \/ g.view = n
  /\ ~lost => IF g.view = Null THEN g.table = e[Main] ELSE g.base = e[Main]

GlobalsInv(g, e, n, lost) == World(g, e, n, lost) /\ \A a \in Addresses : OwnArray(g, e, a)

Written(v) == v \in Requests \X (1 .. MaxObjects)

\* What scope s sees of an object, or will once it runs.
View(o, n, s, h) == IF s = n THEN o.slots[h] ELSE o.rows[s][h]

\* The running scope has no row, a free handle has no values at all, and what
\* any scope sees was written to the object that now has the handle.  Only a
\* fiber sees what a request wrote, and only once the object is sealed; what
\* it wrote itself it still sees.
HandleInv(o, n, b, m, w, h) ==
  /\ o.live[h] \in {0, m[h]}
  /\ o.rows[n][h] = NoRow
  /\ o.live[h] = 0 => /\ b[h] = Null
                      /\ \A a \in Addresses : h \notin w[a]
                      /\ o.slots[h] = Undef
                      /\ \A s \in Scopes : o.rows[s][h] = NoRow
  /\ \A s \in Scopes : /\ View(o, n, s, h) \notin {Undef, NoRow} => View(o, n, s, h)[2] = m[h]
                       /\ Written(View(o, n, s, h)) => s # Main /\ b[h] = Null

\* A fiber sees its job's own values, and no others if no job has left any
\* at its address.
FiberInv(o, n, m, j, w, st, a, h) ==
  /\ h \in w[a] => o.live[h] # 0 /\ View(o, n, a, h) = <<j[a].req, m[h]>> /\ j[a].req \in Requests
  /\ a \notin st /\ Written(View(o, n, a, h)) => h \in w[a]

ObjectsInv(o, n, b, m, j, w, st) ==
  \A h \in Handles :
    /\ HandleInv(o, n, b, m, w, h)
    /\ \A a \in Addresses : FiberInv(o, n, m, j, w, st, a, h)

\* A handler's body is its own, and content_type is that of the handler that
\* entered last, with whose method it was installed.
Bodies ==
  /\ \A a \in Addresses : job[a].role = "handler" => bodies[a].of = job[a].req
  /\ content_type # Null => newest # Null
  /\ newest # Null => /\ job[newest].role = "handler"
                      /\ content_type = job[newest].req /\ request_method = job[newest].req

ScopeInv ==
  /\ TypeOK
  /\ Schedule
  /\ GlobalsInv(globals, expected, now, orphaned)
  /\ ObjectsInv(objects, now, builder, made, job, wrote, stained)
  /\ Bodies

-----------------------------------------------------------------------------
(* Values that are told apart.                                             *)

LEMMA Names ==
  /\ Main \notin Addresses /\ Null \notin Addresses /\ Main # Null
  /\ Null \notin Requests /\ Main \notin Requests
  /\ "default" \notin Requests /\ "constructor" \notin Requests
BY ScopeConstants DEF Main, Null

LEMMA InScopes == Main \in Scopes /\ Addresses \subseteq Scopes
BY DEF Scopes

LEMMA ArrayNames ==
  /\ NoArray \notin Arrays /\ UndefArray \notin Arrays /\ BaseArray \in Arrays
  /\ NoArray # UndefArray /\ BaseArray.by = Main
BY Names DEF NoArray, UndefArray, BaseArray, Arrays, Null, Main

LEMMA PropertyNames ==
  /\ NoRow \notin Properties /\ Undef \notin Properties /\ NoRow # Undef
  /\ ~Written(NoRow) /\ ~Written(Undef)
  /\ \A n \in Nat : ~Written(<<"default", n>>) /\ ~Written(<<"constructor", n>>)
<1>1. \A A, B : \A x, y : <<x, y>> \in A \X B <=> x \in A /\ y \in B
  OBVIOUS
<1>2. 0 \notin 1 .. MaxObjects
  BY ScopeConstants
<1>3. NoRow \notin Properties /\ Undef \notin Properties /\ ~Written(NoRow) /\ ~Written(Undef)
  BY <1>1, <1>2 DEF NoRow, Undef, Properties, Written
<1>4. NoRow # Undef
  BY DEF NoRow, Undef
<1>5. \A n \in Nat : ~Written(<<"default", n>>) /\ ~Written(<<"constructor", n>>)
  BY <1>1, Names DEF Written
<1> QED
  BY <1>3, <1>4, <1>5

-----------------------------------------------------------------------------
(* What the operators on the objects do to each handle.                    *)

LEMMA ObjectFields ==
  ASSUME NEW o \in Objects
  PROVE  /\ o.live \in [Handles -> 0 .. MaxObjects]
         /\ o.slots \in [Handles -> Properties \cup {Undef}]
         /\ o.rows \in [Scopes -> [Handles -> Properties \cup {Undef, NoRow}]]
         /\ o = [live |-> o.live, slots |-> o.slots, rows |-> o.rows]
BY DEF Objects

LEMMA PutRow ==
  ASSUME NEW o \in Objects, NEW s \in Scopes, NEW row
  PROVE  [o EXCEPT !.rows[s] = row]
           = [live |-> o.live, slots |-> o.slots, rows |-> [o.rows EXCEPT ![s] = row]]
BY DEF Objects

LEMMA SwitchFields ==
  ASSUME NEW o \in Objects, NEW from \in Scopes, NEW to \in Scopes, from # to
  PROVE  /\ objects_on_switch(o, from, to) \in Objects
         /\ objects_on_switch(o, from, to).live = o.live
         /\ \A h \in Handles : o.live[h] = 0 =>
              /\ objects_on_switch(o, from, to).slots[h] = o.slots[h]
              /\ \A s \in Scopes : objects_on_switch(o, from, to).rows[s][h] = o.rows[s][h]
         /\ \A h \in Handles : o.live[h] # 0 =>
              /\ objects_on_switch(o, from, to).slots[h] =
                   IF o.rows[to][h] # NoRow THEN o.rows[to][h]
                   ELSE IF from = Main THEN o.slots[h]
                   ELSE RowZero(o, h)
              /\ objects_on_switch(o, from, to).rows[from][h] = o.slots[h]
              /\ objects_on_switch(o, from, to).rows[to][h] = NoRow
              /\ \A s \in Scopes \ {from, to} :
                   objects_on_switch(o, from, to).rows[s][h] = o.rows[s][h]
<1> DEFINE left == [h \in Handles |-> IF h \in Live(o) THEN o.slots[h] ELSE o.rows[from][h]]
           kept == [o EXCEPT !.rows[from] = left]
           entering(h) == IF o.rows[to][h] = NoRow THEN RowZero(kept, h) ELSE o.rows[to][h]
           slots == [h \in Handles |-> IF h \in Live(o) THEN entering(h) ELSE kept.slots[h]]
           row == [h \in Handles |-> IF h \in Live(o) THEN NoRow ELSE kept.rows[to][h]]
           n == objects_on_switch(o, from, to)
<1>1. Main \in Scopes
  BY DEF Scopes
<1>2. kept = [live |-> o.live, slots |-> o.slots, rows |-> [o.rows EXCEPT ![from] = left]]
  <2> HIDE DEF left
  <2> QED
    BY PutRow
<1>3. n = [kept EXCEPT !.slots = slots, !.rows[to] = row]
  BY DEF objects_on_switch
<1>4. /\ kept.slots = o.slots
      /\ kept.rows = [o.rows EXCEPT ![from] = left]
  <2> HIDE DEF left
  <2> QED
    BY <1>2
<1>5. \A h \in Handles : /\ left[h] = IF o.live[h] # 0 THEN o.slots[h] ELSE o.rows[from][h]
                         /\ row[h] = IF o.live[h] # 0 THEN NoRow ELSE kept.rows[to][h]
                         /\ slots[h] = IF o.live[h] # 0 THEN entering(h) ELSE o.slots[h]
  BY <1>4 DEF Live
<1>6. left \in [Handles -> Properties \cup {Undef, NoRow}]
  BY ObjectFields
<1> HIDE DEF left
<1>7. kept.rows \in [Scopes -> [Handles -> Properties \cup {Undef, NoRow}]]
  BY <1>4, <1>6, ObjectFields
<1>8. n = [live |-> o.live, slots |-> slots, rows |-> [kept.rows EXCEPT ![to] = row]]
  <2>1. kept \in Objects /\ kept.live = o.live
    BY <1>2, <1>4, <1>7, ObjectFields DEF Objects
  <2> HIDE DEF kept, slots, row, n
  <2>2. [kept EXCEPT !.slots = slots, !.rows[to] = row]
          = [live |-> kept.live, slots |-> slots, rows |-> [kept.rows EXCEPT ![to] = row]]
    <3> DEFINE p == [live |-> kept.live, slots |-> slots, rows |-> kept.rows]
    <3>1. [kept EXCEPT !.slots = slots] = p
      BY <2>1 DEF Objects
    <3>2. [p EXCEPT !.rows[to] = row]
            = [live |-> kept.live, slots |-> slots, rows |-> [kept.rows EXCEPT ![to] = row]]
      OBVIOUS
    <3> QED
      BY <3>1, <3>2
  <2> QED
    BY <1>3, <2>1, <2>2
<1>9. /\ kept.rows[to] = o.rows[to] /\ kept.rows[from] = left
      /\ \A s \in Scopes \ {from} : kept.rows[s] = o.rows[s]
  BY <1>4, ObjectFields
<1>10. \A h \in Handles : RowZero(kept, h) =
          IF from = Main THEN IF left[h] = NoRow THEN Undef ELSE left[h] ELSE RowZero(o, h)
  BY <1>1, <1>9 DEF RowZero
<1>11. /\ slots \in [Handles -> Properties \cup {Undef}]
       /\ row \in [Handles -> Properties \cup {Undef, NoRow}]
  <2>1. \A h \in Handles : RowZero(kept, h) \in Properties \cup {Undef}
    BY <1>1, <1>7 DEF RowZero
  <2> HIDE DEF kept
  <2>2. \A h \in Handles : entering(h) \in Properties \cup {Undef}
    BY <2>1, ObjectFields
  <2> HIDE DEF entering
  <2> QED
    BY <1>4, <1>7, <2>2, ObjectFields
<1> HIDE DEF kept
<1>12. n \in Objects
  <2> HIDE DEF slots, row, n
  <2> QED
    BY <1>8, <1>7, <1>11, ObjectFields DEF Objects
<1>13. ASSUME NEW h \in Handles, o.live[h] # 0
       PROVE  slots[h] = IF o.rows[to][h] # NoRow THEN o.rows[to][h]
                         ELSE IF from = Main THEN o.slots[h]
                         ELSE RowZero(o, h)
  <2>1. o.slots[h] # NoRow
    BY ObjectFields, PropertyNames
  <2> QED
    BY <1>5, <1>10, <1>13, <2>1
<1> HIDE DEF slots, row, n
<1>14. n.live = o.live /\ n.slots = slots /\ n.rows = [kept.rows EXCEPT ![to] = row]
  BY <1>8
<1>15. n.rows[to] = row /\ \A s \in Scopes \ {to} : n.rows[s] = kept.rows[s]
  BY <1>7, <1>14
<1>16. ASSUME NEW h \in Handles, o.live[h] = 0
       PROVE  n.slots[h] = o.slots[h] /\ \A s \in Scopes : n.rows[s][h] = o.rows[s][h]
  BY <1>5, <1>9, <1>14, <1>15, <1>16
<1>17. ASSUME NEW h \in Handles, o.live[h] # 0
       PROVE  /\ n.rows[from][h] = o.slots[h]
              /\ n.rows[to][h] = NoRow
              /\ \A s \in Scopes \ {from, to} : n.rows[s][h] = o.rows[s][h]
  BY <1>5, <1>9, <1>14, <1>15, <1>17
<1> QED
  BY <1>12, <1>13, <1>14, <1>16, <1>17 DEF n

-----------------------------------------------------------------------------
(* A switch keeps the objects' invariant.                                  *)

\* A scope sees what it saw, or row zero in place of nothing or, if it has
\* written nothing since, of anything.
Follows(o, n, p, q, w, s, h) ==
  \/ View(p, q, s, h) = View(o, n, s, h)
  \/ /\ View(p, q, s, h) \in {Undef, View(o, n, Main, h)}
     /\ View(o, n, s, h) = NoRow \/ (s \in Addresses /\ h \notin w[s])

\* An address keeps its job, or the job ends: then what it wrote stays as a
\* stain, unless it was nothing.
Proceeds(j, w, st, j2, w2, st2, a) ==
  /\ a \in st => a \in st2
  /\ \/ j2[a].req = j[a].req /\ w2[a] = w[a]
     \/ w2[a] = {} /\ (a \in st2 \/ w[a] = {})

LEMMA FollowsKeeps ==
  ASSUME NEW o, NEW n \in Scopes, NEW p, NEW q \in Scopes, NEW b, NEW m, NEW j, NEW w, NEW st,
         NEW j2, NEW w2, NEW st2, NEW h,
         HandleInv(o, n, b, m, w, h),
         \A a \in Addresses : FiberInv(o, n, m, j, w, st, a, h),
         p.live[h] = o.live[h], p.rows[q][h] = NoRow,
         o.live[h] = 0 => p.slots[h] = Undef /\ \A s \in Scopes : p.rows[s][h] = NoRow,
         o.live[h] # 0 => \A s \in Scopes : Follows(o, n, p, q, w2, s, h),
         \A a \in Addresses : Proceeds(j, w, st, j2, w2, st2, a)
  PROVE  /\ HandleInv(p, q, b, m, w2, h)
         /\ \A a \in Addresses : FiberInv(p, q, m, j2, w2, st2, a, h)
<1>1. Main \in Scopes /\ Addresses \subseteq Scopes /\ Main \notin Addresses
  BY Names DEF Scopes
<1>2. ~Written(View(o, n, Main, h)) /\ ~Written(Undef) /\ ~Written(NoRow) /\ NoRow # Undef
  BY <1>1, PropertyNames DEF HandleInv
<1>3. \A r, k : k # 0 => <<r, k>> # NoRow
  BY DEF NoRow
<1>4. HandleInv(p, q, b, m, w2, h)
  <2>1. o.live[h] = 0 => \A a \in Addresses : h \notin w2[a]
    BY DEF HandleInv, Proceeds
  <2>2. ASSUME NEW s \in Scopes
        PROVE  /\ View(p, q, s, h) \notin {Undef, NoRow} => View(p, q, s, h)[2] = m[h]
               /\ Written(View(p, q, s, h)) => s # Main /\ b[h] = Null
    <3>1. CASE o.live[h] = 0
      BY <1>2, <3>1 DEF View
    <3>2. CASE o.live[h] # 0
      BY <1>1, <1>2, <3>2 DEF Follows, HandleInv
    <3> QED
      BY <3>1, <3>2
  <2> QED
    BY <2>1, <2>2 DEF HandleInv
<1>5. ASSUME NEW a \in Addresses
      PROVE  FiberInv(p, q, m, j2, w2, st2, a, h)
  <2>1. CASE o.live[h] = 0
    BY <1>1, <1>2, <1>4, <2>1 DEF FiberInv, HandleInv, View
  <2>2. CASE o.live[h] # 0
    <3>1. m[h] # 0
      BY <2>2 DEF HandleInv
    <3>2. Follows(o, n, p, q, w2, a, h) /\ FiberInv(o, n, m, j, w, st, a, h) /\ Proceeds(j, w, st, j2, w2, st2, a)
      BY <1>1, <2>2
    <3>3. h \in w2[a] => View(p, q, a, h) = <<j2[a].req, m[h]>> /\ j2[a].req \in Requests
      BY <1>3, <3>1, <3>2 DEF FiberInv, Follows, Proceeds
    <3>4. a \notin st2 /\ Written(View(p, q, a, h)) => h \in w2[a]
      BY <1>2, <3>2 DEF FiberInv, Follows, Proceeds
    <3> QED
      BY <2>2, <3>3, <3>4 DEF FiberInv
  <2> QED
    BY <2>1, <2>2
<1> QED
  BY <1>4, <1>5

LEMMA SwitchKeeps ==
  ASSUME NEW o \in Objects, NEW from \in Scopes, NEW to \in Scopes, from # to,
         NEW b, NEW m, NEW j, NEW w, NEW st, NEW j2, NEW w2, NEW st2,
         ObjectsInv(o, from, b, m, j, w, st),
         \A a \in Addresses : Proceeds(j, w, st, j2, w2, st2, a)
  PROVE  ObjectsInv(objects_on_switch(o, from, to), to, b, m, j2, w2, st2)
<1> DEFINE p == objects_on_switch(o, from, to)
<1> SUFFICES ASSUME NEW h \in Handles
             PROVE  /\ HandleInv(p, to, b, m, w2, h)
                    /\ \A a \in Addresses : FiberInv(p, to, m, j2, w2, st2, a, h)
  BY DEF ObjectsInv
<1>1. HandleInv(o, from, b, m, w, h) /\ \A a \in Addresses : FiberInv(o, from, m, j, w, st, a, h)
  BY DEF ObjectsInv
<1>2. Main \in Scopes
  BY DEF Scopes
<1>3. /\ p.live[h] = o.live[h]
      /\ o.live[h] = 0 => p.slots[h] = o.slots[h] /\ \A s \in Scopes : p.rows[s][h] = o.rows[s][h]
      /\ o.live[h] # 0 =>
           /\ p.slots[h] = IF o.rows[to][h] # NoRow THEN o.rows[to][h]
                           ELSE IF from = Main THEN o.slots[h]
                           ELSE RowZero(o, h)
           /\ p.rows[from][h] = o.slots[h]
           /\ p.rows[to][h] = NoRow
           /\ \A s \in Scopes \ {from, to} : p.rows[s][h] = o.rows[s][h]
  BY SwitchFields
<1> HIDE DEF p
<1>4. ASSUME o.live[h] # 0, NEW s \in Scopes
      PROVE  Follows(o, from, p, to, w2, s, h)
  <2>1. CASE s = to
    BY <1>2, <1>3, <1>4, <2>1 DEF Follows, View, RowZero
  <2>2. CASE s # to
    BY <1>3, <1>4, <2>2 DEF Follows, View
  <2> QED
    BY <2>1, <2>2
<1>5. p.rows[to][h] = NoRow
  BY <1>1, <1>3 DEF HandleInv
<1>6. o.live[h] = 0 => p.slots[h] = Undef /\ \A s \in Scopes : p.rows[s][h] = NoRow
  BY <1>1, <1>3 DEF HandleInv
<1> QED
  BY <1>1, <1>3, <1>4, <1>5, <1>6, FollowsKeeps, SMTT(30)

LEMMA ClearFields ==
  ASSUME NEW o \in Objects, NEW a \in Addresses
  PROVE  /\ rows_clear(o, a) \in Objects
         /\ rows_clear(o, a).live = o.live
         /\ \A h \in Handles :
              /\ rows_clear(o, a).slots[h] = IF o.live[h] # 0 THEN RowZero(o, h) ELSE o.slots[h]
              /\ rows_clear(o, a).rows[a][h] = NoRow
              /\ \A s \in Scopes \ {a} : rows_clear(o, a).rows[s][h] = o.rows[s][h]
<1> DEFINE slots == [h \in Handles |-> IF h \in Live(o) THEN RowZero(o, h) ELSE o.slots[h]]
           row == [h \in Handles |-> NoRow]
           p == [live |-> o.live, slots |-> slots, rows |-> o.rows]
           c == rows_clear(o, a)
<1>1. c = [o EXCEPT !.slots = slots, !.rows[a] = row]
  BY DEF rows_clear
<1>2. a \in Scopes /\ Main \in Scopes
  BY DEF Scopes
<1>3. \A h \in Handles : slots[h] = IF o.live[h] # 0 THEN RowZero(o, h) ELSE o.slots[h]
  BY DEF Live
<1>4. slots \in [Handles -> Properties \cup {Undef}]
  BY <1>2, ObjectFields DEF RowZero
<1>5. row \in [Handles -> Properties \cup {Undef, NoRow}] /\ \A h \in Handles : row[h] = NoRow
  OBVIOUS
<1> HIDE DEF slots, row, c
<1>6. [o EXCEPT !.slots = slots] = p
  BY DEF Objects
<1>7. [p EXCEPT !.rows[a] = row] = [live |-> o.live, slots |-> slots, rows |-> [o.rows EXCEPT ![a] = row]]
  OBVIOUS
<1>8. c = [live |-> o.live, slots |-> slots, rows |-> [o.rows EXCEPT ![a] = row]]
  BY <1>1, <1>6, <1>7
<1>9. c \in Objects
  BY <1>4, <1>5, <1>8, ObjectFields DEF Objects
<1>10. c.live = o.live /\ c.slots = slots /\ c.rows[a] = row /\ \A s \in Scopes \ {a} : c.rows[s] = o.rows[s]
  BY <1>2, <1>8, ObjectFields
<1> QED
  BY <1>3, <1>5, <1>9, <1>10 DEF c

\* rows_clear forgets what the running job wrote, wherever it is kept.
LEMMA ClearKeeps ==
  ASSUME NEW o \in Objects, NEW a \in Addresses, NEW b, NEW m, NEW j, NEW st,
         NEW w \in [Addresses -> SUBSET Handles],
         ObjectsInv(o, a, b, m, j, w, st)
  PROVE  ObjectsInv(rows_clear(o, a), a, b, m, j, [w EXCEPT ![a] = {}], st \ {a})
<1> DEFINE p == rows_clear(o, a)
           w2 == [w EXCEPT ![a] = {}]
           st2 == st \cup {a}
<1> SUFFICES ASSUME NEW h \in Handles
             PROVE  /\ HandleInv(p, a, b, m, w2, h)
                    /\ \A c \in Addresses : FiberInv(p, a, m, j, w2, st \ {a}, c, h)
  BY DEF ObjectsInv
<1>1. HandleInv(o, a, b, m, w, h) /\ \A c \in Addresses : FiberInv(o, a, m, j, w, st, c, h)
  BY DEF ObjectsInv
<1>2. a \in Scopes /\ Main \in Scopes /\ a # Main /\ w2[a] = {} /\ \A c \in Addresses \ {a} : w2[c] = w[c]
  BY Names DEF Scopes
<1>3. /\ p.live[h] = o.live[h]
      /\ p.slots[h] = IF o.live[h] # 0 THEN RowZero(o, h) ELSE o.slots[h]
      /\ p.rows[a][h] = NoRow
      /\ \A s \in Scopes \ {a} : p.rows[s][h] = o.rows[s][h]
  BY ClearFields
<1> HIDE DEF p, w2
<1>4. \A c \in Addresses : Proceeds(j, w, st, j, w2, st2, c)
  BY <1>2 DEF Proceeds
<1> HIDE DEF st2
<1>5. ASSUME o.live[h] # 0, NEW s \in Scopes
      PROVE  Follows(o, a, p, a, w2, s, h)
  <2>1. CASE s = a
    BY <1>2, <1>3, <1>5, <2>1 DEF Follows, View, RowZero
  <2>2. CASE s # a
    BY <1>3, <2>2 DEF Follows, View
  <2> QED
    BY <2>1, <2>2
<1>6. o.live[h] = 0 => p.slots[h] = Undef /\ \A s \in Scopes : p.rows[s][h] = NoRow
  BY <1>1, <1>3 DEF HandleInv
<1>7. /\ HandleInv(p, a, b, m, w2, h)
      /\ \A c \in Addresses : FiberInv(p, a, m, j, w2, st2, c, h)
  BY <1>1, <1>2, <1>3, <1>4, <1>5, <1>6, FollowsKeeps, SMTT(30)
<1>8. ~Written(View(p, a, a, h))
  BY <1>1, <1>2, <1>3, PropertyNames DEF View, RowZero, HandleInv
<1>9. ASSUME NEW c \in Addresses
      PROVE  FiberInv(p, a, m, j, w2, st \ {a}, c, h)
  <2>1. FiberInv(p, a, m, j, w2, st2, c, h)
    BY <1>7
  <2> QED
    BY <1>8, <2>1 DEF FiberInv, st2
<1> QED
  BY <1>7, <1>9

-----------------------------------------------------------------------------
(* What a switch does to the superglobals.                                 *)

LEMMA GlobalsFields ==
  ASSUME NEW g \in Globals
  PROVE  /\ g.table \in Arrays /\ g.view \in Addresses \cup {Null}
         /\ g.base \in Arrays \cup {NoArray}
         /\ g.slot \in [Addresses -> Arrays \cup {NoArray, UndefArray}]
         /\ g = [table |-> g.table, view |-> g.view, base |-> g.base, slot |-> g.slot]
BY DEF Globals

\* Saving keeps every owner's array, also of the view that is about to go.
LEMMA SaveKeeps ==
  ASSUME NEW g \in Globals, NEW e \in [Scopes -> Arrays \cup {NoArray}], NEW n,
         NEW lost \in BOOLEAN, GlobalsInv(g, e, n, lost)
  PROVE  /\ save_current_view(g) \in Globals
         /\ save_current_view(g).table = g.table
         /\ save_current_view(g).view = g.view
         /\ \A a \in Addresses :
              /\ save_current_view(g).slot[a] = NoArray <=> g.slot[a] = NoArray
              /\ g.slot[a] # NoArray => save_current_view(g).slot[a] = e[a] /\ e[a] \in Arrays
              /\ g.view # a => save_current_view(g).slot[a] = g.slot[a]
         /\ save_current_view(g).base = IF g.view = Null THEN g.table ELSE g.base
         /\ ~lost => save_current_view(g).base = e[Main]
<1>1. CASE g.view = Null
  <2>1. save_current_view(g) = [table |-> g.table, view |-> g.view, base |-> g.table, slot |-> g.slot]
    BY <1>1, GlobalsFields DEF save_current_view
  <2>2. save_current_view(g) \in Globals
    BY <2>1, GlobalsFields DEF Globals
  <2> QED
    BY <1>1, <2>1, <2>2, Names, InScopes, ArrayNames DEF GlobalsInv, World, OwnArray
<1>2. CASE g.view # Null
  <2>1. g.view \in Addresses /\ g.table = e[g.view] /\ g.slot[g.view] # NoArray /\ e[g.view] \in Arrays
    BY <1>2, GlobalsFields, InScopes, ArrayNames DEF GlobalsInv, OwnArray
  <2>2. save_current_view(g) = [table |-> g.table, view |-> g.view, base |-> g.base,
                                slot |-> [g.slot EXCEPT ![g.view] = g.table]]
    BY <1>2, <2>1, GlobalsFields DEF save_current_view
  <2>3. [g.slot EXCEPT ![g.view] = g.table] \in [Addresses -> Arrays \cup {NoArray, UndefArray}]
    BY <2>1, GlobalsFields
  <2>4. save_current_view(g) \in Globals
    BY <2>2, <2>3, GlobalsFields DEF Globals
  <2>5. ASSUME NEW a \in Addresses
        PROVE  /\ save_current_view(g).slot[a] = NoArray <=> g.slot[a] = NoArray
               /\ g.slot[a] # NoArray => save_current_view(g).slot[a] = e[a] /\ e[a] \in Arrays
               /\ g.view # a => save_current_view(g).slot[a] = g.slot[a]
    BY <2>1, <2>2, InScopes, ArrayNames, GlobalsFields DEF GlobalsInv, OwnArray
  <2> QED
    BY <1>2, <2>2, <2>4, <2>5 DEF GlobalsInv, World
<1> QED
  BY <1>1, <1>2

LEMMA InstallFields ==
  ASSUME NEW g \in Globals, NEW v \in Arrays \cup {NoArray, UndefArray}
  PROVE  /\ install(g, v) \in Globals
         /\ install(g, v).table = IF v \in {NoArray, UndefArray} THEN g.table ELSE v
         /\ install(g, v).view = g.view /\ install(g, v).base = g.base /\ install(g, v).slot = g.slot
<1>1. CASE v \in {NoArray, UndefArray}
  BY <1>1 DEF install
<1>2. CASE v \notin {NoArray, UndefArray}
  <2>1. install(g, v) = [table |-> v, view |-> g.view, base |-> g.base, slot |-> g.slot]
    BY <1>2, GlobalsFields DEF install
  <2>2. install(g, v) \in Globals
    BY <1>2, <2>1, GlobalsFields DEF Globals
  <2> QED
    BY <1>2, <2>1, <2>2
<1> QED
  BY <1>1, <1>2

LEMMA PutView ==
  ASSUME NEW g \in Globals, NEW v \in Addresses \cup {Null}
  PROVE  /\ [g EXCEPT !.view = v] \in Globals
         /\ [g EXCEPT !.view = v].table = g.table /\ [g EXCEPT !.view = v].view = v
         /\ [g EXCEPT !.view = v].base = g.base /\ [g EXCEPT !.view = v].slot = g.slot
BY DEF Globals

\* on_switch installs the entering context's view or keeps the one it
\* inherits, and the leaving owner's array is put aside.
LEMMA GlobalsSwitchKeeps ==
  ASSUME NEW g \in Globals, NEW e \in [Scopes -> Arrays \cup {NoArray}], NEW n,
         NEW lost \in BOOLEAN, NEW to \in Scopes, GlobalsInv(g, e, n, lost)
  PROVE  /\ globals_on_switch(g, to) \in Globals
         /\ GlobalsInv(globals_on_switch(g, to), e, to, lost)
<1> DEFINE s == save_current_view(g)
           p == globals_on_switch(g, to)
<1>1. CASE \/ to = Main /\ g.view = Null
           \/ to # Main /\ (g.slot[to] = NoArray \/ g.view = to)
  <2>1. p = g
    BY <1>1 DEF globals_on_switch
  <2> QED
    BY <1>1, <2>1 DEF GlobalsInv, World
<1>2. CASE to = Main /\ g.view # Null
  <2> DEFINE i == install(s, s.base)
  <2>1. p = [i EXCEPT !.view = Null]
    BY <1>2 DEF globals_on_switch
  <2>2. s \in Globals /\ s.base \in Arrays \cup {NoArray, UndefArray} /\ (~lost => s.base = e[Main])
    BY SaveKeeps, GlobalsFields
  <2>3. i \in Globals /\ i.slot = s.slot /\ (~lost => i.table = e[Main])
    <3> HIDE DEF s
    <3> QED
      BY <2>2, InstallFields, ArrayNames DEF GlobalsInv, World
  <2>4. p \in Globals /\ p.view = Null /\ p.slot = s.slot /\ p.table = i.table
    <3> HIDE DEF s, i, p
    <3> QED
      BY <2>1, <2>3, PutView
  <2>5. ASSUME NEW a \in Addresses PROVE OwnArray(p, e, a)
    <3>1. /\ s.slot[a] = NoArray <=> g.slot[a] = NoArray
          /\ g.slot[a] # NoArray => s.slot[a] = e[a]
          /\ e[a] = NoArray <=> g.slot[a] = NoArray
      BY SaveKeeps DEF GlobalsInv, OwnArray
    <3> HIDE DEF s, p, i
    <3> QED
      BY <2>4, <3>1, Names DEF OwnArray
  <2> HIDE DEF s, p, i
  <2> QED
    BY <1>2, <2>3, <2>4, <2>5 DEF GlobalsInv, World, p
<1>3. CASE to # Main /\ g.slot[to] # NoArray /\ g.view # to
  <2> DEFINE i == install(s, g.slot[to])
  <2>1. p = [i EXCEPT !.view = to]
    BY <1>3 DEF globals_on_switch
  <2>2. /\ to \in Addresses /\ g.slot[to] = e[to] /\ g.slot[to] \in Arrays
        /\ g.slot[to] \in Arrays \cup {NoArray, UndefArray}
    BY <1>3 DEF Scopes, GlobalsInv, OwnArray
  <2>3. s \in Globals /\ (~lost => s.base = e[Main])
    BY SaveKeeps
  <2>4. i \in Globals /\ i.slot = s.slot /\ i.base = s.base /\ i.table = e[to]
    <3> HIDE DEF s
    <3> QED
      BY <2>2, <2>3, InstallFields, ArrayNames
  <2>5. p \in Globals /\ p.view = to /\ p.slot = s.slot /\ p.table = e[to] /\ p.base = s.base
    <3> HIDE DEF s, i, p
    <3> QED
      BY <2>1, <2>2, <2>4, PutView
  <2>6. ASSUME NEW a \in Addresses PROVE OwnArray(p, e, a)
    <3>1. /\ s.slot[a] = NoArray <=> g.slot[a] = NoArray
          /\ g.slot[a] # NoArray => s.slot[a] = e[a]
          /\ e[a] = NoArray <=> g.slot[a] = NoArray
      BY SaveKeeps DEF GlobalsInv, OwnArray
    <3> HIDE DEF s, p, i
    <3> QED
      BY <1>3, <2>5, <3>1 DEF OwnArray
  <2> HIDE DEF s, p, i
  <2> QED
    BY <1>3, <2>2, <2>3, <2>5, <2>6, Names DEF GlobalsInv, World, p
<1> QED
  BY <1>1, <1>2, <1>3

\* Whoever sets its superglobals owns the view from then on, and the view it
\* had inherited goes back to its owner.
LEMMA SetKeeps ==
  ASSUME NEW g \in Globals, NEW e \in [Scopes -> Arrays \cup {NoArray}],
         NEW lost \in BOOLEAN, NEW a \in Addresses, NEW v \in Arrays, GlobalsInv(g, e, a, lost)
  PROVE  /\ set_superglobals(g, a, v) \in Globals
         /\ GlobalsInv(set_superglobals(g, a, v), [e EXCEPT ![a] = v], a, lost)
<1> DEFINE i == isolate_current(g, a)
           s == save_current_view(g)
           p == set_superglobals(g, a, v)
           f == [e EXCEPT ![a] = v]
<1>1. p = install(i, v)
  BY DEF set_superglobals
<1>2. a # Main /\ a # Null /\ v # NoArray /\ v \notin {NoArray, UndefArray}
  BY Names, ArrayNames
<1>3. f[a] = v /\ f[Main] = e[Main] /\ \A c \in Addresses \ {a} : f[c] = e[c]
  BY InScopes, Names
<1> HIDE DEF p, f
<1>4. CASE g.slot[a] # NoArray
  <2>1. i = g /\ g.view = a
    BY <1>2, <1>4 DEF isolate_current, GlobalsInv, World
  <2>2. p \in Globals /\ p.table = v /\ p.view = a /\ p.base = g.base /\ p.slot = g.slot
    BY <1>1, <1>2, <2>1, InstallFields
  <2>3. ASSUME NEW c \in Addresses PROVE OwnArray(p, f, c)
    BY <1>2, <1>3, <1>4, <2>1, <2>2 DEF GlobalsInv, OwnArray
  <2>4. World(p, f, a, lost)
    BY <1>2, <1>3, <2>1, <2>2 DEF GlobalsInv, World
  <2> QED
    BY <2>2, <2>3, <2>4 DEF GlobalsInv, p, f
<1>5. CASE g.slot[a] = NoArray
  <2>1. i = [s EXCEPT !.slot[a] = UndefArray, !.view = a]
    BY <1>5 DEF isolate_current
  <2>2. /\ s \in Globals /\ (~lost => s.base = e[Main])
        /\ \A c \in Addresses : /\ s.slot[c] = NoArray <=> g.slot[c] = NoArray
                                /\ g.slot[c] # NoArray => s.slot[c] = e[c]
    <3> HIDE DEF i
    <3>1. s \in Globals /\ (~lost => s.base = e[Main])
      BY SaveKeeps
    <3>2. ASSUME NEW c \in Addresses
          PROVE  /\ s.slot[c] = NoArray <=> g.slot[c] = NoArray
                 /\ g.slot[c] # NoArray => s.slot[c] = e[c]
      BY SaveKeeps
    <3> QED
      BY <3>1, <3>2
  <2> HIDE DEF s
  <2>3. i = [table |-> s.table, view |-> a, base |-> s.base, slot |-> [s.slot EXCEPT ![a] = UndefArray]]
    <3> HIDE DEF i
    <3>1. s = [table |-> s.table, view |-> s.view, base |-> s.base, slot |-> s.slot]
      BY <2>2, GlobalsFields
    <3> DEFINE u == [s.slot EXCEPT ![a] = UndefArray]
    <3>2. [s EXCEPT !.slot[a] = UndefArray] = [table |-> s.table, view |-> s.view, base |-> s.base, slot |-> u]
      BY <3>1
    <3>3. i = [[s EXCEPT !.slot[a] = UndefArray] EXCEPT !.view = a]
      BY <2>1
    <3> HIDE DEF u
    <3> QED
      BY <3>2, <3>3 DEF u
  <2>4. i \in Globals
    BY <2>2, <2>3, GlobalsFields DEF Globals
  <2>5. i.view = a /\ i.base = s.base /\ i.slot[a] = UndefArray /\ \A c \in Addresses \ {a} : i.slot[c] = s.slot[c]
    BY <2>2, <2>3, GlobalsFields
  <2> HIDE DEF i
  <2>6. p \in Globals /\ p.table = v /\ p.view = a /\ p.base = s.base /\ p.slot = i.slot
    BY <1>1, <1>2, <2>4, <2>5, InstallFields
  <2>7. ASSUME NEW c \in Addresses PROVE OwnArray(p, f, c)
    <3>1. CASE c = a
      BY <1>2, <1>3, <2>5, <2>6, <3>1, ArrayNames DEF OwnArray
    <3>2. CASE c # a
      <4>1. OwnArray(g, e, c) /\ f[c] = e[c] /\ p.slot[c] = s.slot[c] /\ p.view # c
        BY <1>3, <2>5, <2>6, <3>2 DEF GlobalsInv
      <4> QED
        BY <2>2, <4>1 DEF OwnArray
    <3> QED
      BY <3>1, <3>2
  <2>8. World(p, f, a, lost)
    <3>1. f[Main] \in Arrays /\ f[Main].by = Main
      BY <1>3 DEF GlobalsInv, World
    <3> QED
      BY <1>2, <1>3, <2>2, <2>6, <3>1 DEF World
  <2> QED
    BY <2>6, <2>7, <2>8 DEF GlobalsInv, p, f
<1> QED
  BY <1>4, <1>5

\* A dead fiber owns nothing; if its view was the installed one, that view
\* is now the base world's and the base world is lost.
LEMMA DestroyKeeps ==
  ASSUME NEW g \in Globals, NEW e \in [Scopes -> Arrays \cup {NoArray}],
         NEW lost \in BOOLEAN, NEW c \in Addresses, NEW n \in Addresses, n # c,
         GlobalsInv(g, e, n, lost)
  PROVE  /\ globals_on_destroy(g, c) \in Globals
         /\ GlobalsInv(globals_on_destroy(g, c), [e EXCEPT ![c] = NoArray], n, lost \/ g.view = c)
<1> DEFINE p == globals_on_destroy(g, c)
           f == [e EXCEPT ![c] = NoArray]
<1>1. p = [table |-> g.table, view |-> IF g.view = c THEN Null ELSE g.view, base |-> g.base,
           slot |-> [g.slot EXCEPT ![c] = NoArray]]
  <2> DEFINE v == IF g.view = c THEN Null ELSE g.view
             s == [g.slot EXCEPT ![c] = NoArray]
  <2>1. [g EXCEPT !.slot[c] = NoArray] = [table |-> g.table, view |-> g.view, base |-> g.base, slot |-> s]
    BY GlobalsFields
  <2>2. p = [[g EXCEPT !.slot[c] = NoArray] EXCEPT !.view = v]
    BY DEF globals_on_destroy
  <2> HIDE DEF v, s, p
  <2> QED
    BY <2>1, <2>2 DEF v, s
<1>2. p \in Globals
  BY <1>1, GlobalsFields DEF Globals
<1>3. /\ p.table = g.table /\ p.view = IF g.view = c THEN Null ELSE g.view
      /\ p.base = g.base /\ p.slot[c] = NoArray /\ \A a \in Addresses \ {c} : p.slot[a] = g.slot[a]
  BY <1>1, GlobalsFields
<1>4. f[c] = NoArray /\ f[Main] = e[Main] /\ \A a \in Addresses \ {c} : f[a] = e[a]
  BY InScopes, Names
<1> HIDE DEF p, f
<1>5. ASSUME NEW a \in Addresses PROVE OwnArray(p, f, a)
  BY <1>3, <1>4, Names DEF GlobalsInv, OwnArray
<1>6. World(p, f, n, lost \/ g.view = c)
  BY <1>3, <1>4, Names DEF GlobalsInv, World
<1> QED
  BY <1>2, <1>5, <1>6 DEF GlobalsInv, p, f

-----------------------------------------------------------------------------
(* What user code does to an object leaves the others alone.               *)

\* Only handle h differs.
ElsewhereSame(o, p, b, b2, m, m2, w, w2, h) ==
  \A k \in Handles \ {h} :
    /\ p.live[k] = o.live[k] /\ p.slots[k] = o.slots[k]
    /\ \A s \in Scopes : p.rows[s][k] = o.rows[s][k]
    /\ b2[k] = b[k] /\ m2[k] = m[k]
    /\ \A a \in Addresses : k \in w2[a] <=> k \in w[a]

LEMMA OneHandle ==
  ASSUME NEW o, NEW p, NEW n \in Scopes, NEW b, NEW b2, NEW m, NEW m2, NEW j,
         NEW w, NEW w2, NEW st, NEW h \in Handles,
         ObjectsInv(o, n, b, m, j, w, st),
         ElsewhereSame(o, p, b, b2, m, m2, w, w2, h),
         HandleInv(p, n, b2, m2, w2, h),
         \A a \in Addresses : FiberInv(p, n, m2, j, w2, st, a, h)
  PROVE  ObjectsInv(p, n, b2, m2, j, w2, st)
<1> SUFFICES ASSUME NEW k \in Handles, k # h
             PROVE  /\ HandleInv(p, n, b2, m2, w2, k)
                    /\ \A a \in Addresses : FiberInv(p, n, m2, j, w2, st, a, k)
  BY DEF ObjectsInv
<1>1. HandleInv(o, n, b, m, w, k) /\ \A a \in Addresses : FiberInv(o, n, m, j, w, st, a, k)
  BY DEF ObjectsInv
<1>2. /\ p.live[k] = o.live[k] /\ p.slots[k] = o.slots[k]
      /\ \A s \in Scopes : p.rows[s][k] = o.rows[s][k]
      /\ b2[k] = b[k] /\ m2[k] = m[k]
      /\ \A a \in Addresses : k \in w2[a] <=> k \in w[a]
  BY DEF ElsewhereSame
<1>3. \A s \in Scopes : View(p, n, s, k) = View(o, n, s, k)
  BY <1>2 DEF View
<1>4. HandleInv(p, n, b2, m2, w2, k)
  BY <1>1, <1>2, <1>3 DEF HandleInv
<1>5. \A a \in Addresses : FiberInv(p, n, m2, j, w2, st, a, k)
  <2>1. Addresses \subseteq Scopes
    BY DEF Scopes
  <2> QED
    BY <1>1, <1>2, <1>3, <2>1 DEF FiberInv
<1> QED
  BY <1>4, <1>5

LEMMA PutSlot ==
  ASSUME NEW o \in Objects, NEW h \in Handles, NEW v \in Properties \cup {Undef}
  PROVE  /\ [o EXCEPT !.slots[h] = v] \in Objects
         /\ [o EXCEPT !.slots[h] = v].live = o.live
         /\ [o EXCEPT !.slots[h] = v].rows = o.rows
         /\ [o EXCEPT !.slots[h] = v].slots[h] = v
         /\ \A k \in Handles \ {h} : [o EXCEPT !.slots[h] = v].slots[k] = o.slots[k]
<1> DEFINE p == [o EXCEPT !.slots[h] = v]
<1>1. p = [live |-> o.live, slots |-> [o.slots EXCEPT ![h] = v], rows |-> o.rows]
  BY ObjectFields
<1>2. [o.slots EXCEPT ![h] = v] \in [Handles -> Properties \cup {Undef}]
  BY ObjectFields
<1>3. p \in Objects
  BY <1>1, <1>2, ObjectFields DEF Objects
<1> QED
  BY <1>1, <1>3, ObjectFields

\* A handle's former object has left nothing to inherit.
LEMMA AllocateKeeps ==
  ASSUME ScopeInv, NEW a \in Addresses, NEW h \in Handles, Allocate(a, h)
  PROVE  objects' \in Objects /\ ObjectsInv(objects', now, builder', made', job, wrote, stained)
<1> DEFINE m == made[h] + 1
           o == objects
           p == objects'
<1>1. /\ o \in Objects /\ now \in Scopes /\ now = a /\ a # Main /\ Main \in Scopes /\ Addresses \subseteq Scopes
      /\ made \in [Handles -> 0 .. MaxObjects] /\ m \in 1 .. MaxObjects /\ m # 0
      /\ builder \in [Handles -> Addresses \cup {Null}]
  BY Names, ScopeConstants DEF ScopeInv, TypeOK, Allocate, Runs, Scopes
<1>2. <<"default", m>> \in Properties /\ ~Written(<<"default", m>>) /\ <<"default", m>>[2] = m
  <2>1. m \in Nat /\ m \in 1 .. MaxObjects
    BY <1>1, ScopeConstants
  <2> HIDE DEF m
  <2>2. <<"default", m>> \in Properties
    BY <2>1 DEF Properties
  <2>3. ~Written(<<"default", m>>)
    BY <2>1, PropertyNames
  <2>4. <<"default", m>>[2] = m
    OBVIOUS
  <2> QED
    BY <2>2, <2>3, <2>4
<1> DEFINE d == <<"default", m>>
<1> HIDE DEF d
<1>3. p = [o EXCEPT !.live[h] = m, !.slots[h] = d] /\ made' = [made EXCEPT ![h] = m] /\ builder' = [builder EXCEPT ![h] = a]
  BY DEF Allocate, allocate, d
<1>4. d \in Properties /\ ~Written(d) /\ d[2] = m
  BY <1>2 DEF d
<1> HIDE DEF m, p
<1>5. p = [live |-> [o.live EXCEPT ![h] = m], slots |-> [o.slots EXCEPT ![h] = d], rows |-> o.rows]
  <2> DEFINE q == [live |-> [o.live EXCEPT ![h] = m], slots |-> o.slots, rows |-> o.rows]
  <2>1. [o EXCEPT !.live[h] = m] = q
    BY <1>1, ObjectFields
  <2>2. [q EXCEPT !.slots[h] = d] = [live |-> [o.live EXCEPT ![h] = m], slots |-> [o.slots EXCEPT ![h] = d], rows |-> o.rows]
    OBVIOUS
  <2> QED
    BY <1>3, <2>1, <2>2
<1>6. p \in Objects
  <2>1. [o.live EXCEPT ![h] = m] \in [Handles -> 0 .. MaxObjects]
    BY <1>1, ObjectFields DEF m
  <2>2. [o.slots EXCEPT ![h] = d] \in [Handles -> Properties \cup {Undef}]
    BY <1>1, <1>4, ObjectFields
  <2> QED
    BY <1>1, <1>5, <2>1, <2>2, ObjectFields DEF Objects
<1>7. /\ p.live[h] = m /\ p.slots[h] = d /\ p.rows = o.rows /\ made'[h] = m /\ builder'[h] = a
      /\ \A k \in Handles \ {h} : /\ p.live[k] = o.live[k] /\ p.slots[k] = o.slots[k]
                                  /\ made'[k] = made[k] /\ builder'[k] = builder[k]
  BY <1>1, <1>3, <1>5, ObjectFields
<1>8. ObjectsInv(o, now, builder, made, job, wrote, stained)
  BY DEF ScopeInv
<1>9. /\ o.live[h] = 0 /\ \A s \in Scopes : o.rows[s][h] = NoRow
      /\ \A c \in Addresses : h \notin wrote[c]
  BY <1>8 DEF ObjectsInv, HandleInv, Allocate
<1>10. \A s \in Scopes : View(p, now, s, h) \in {d, NoRow}
  BY <1>7, <1>9 DEF View
<1>11. HandleInv(p, now, builder', made', wrote, h)
  BY <1>1, <1>4, <1>7, <1>9, <1>10, PropertyNames DEF HandleInv
<1>12. ASSUME NEW c \in Addresses PROVE FiberInv(p, now, made', job, wrote, stained, c, h)
  BY <1>1, <1>4, <1>9, <1>10, PropertyNames DEF FiberInv
<1>13. ElsewhereSame(o, p, builder, builder', made, made', wrote, wrote, h)
  BY <1>7 DEF ElsewhereSame
<1> QED
  BY <1>1, <1>6, <1>8, <1>11, <1>12, <1>13, OneHandle DEF p

\* A value put into the running scope's view of a live object.
LEMMA PutKeeps ==
  ASSUME ScopeInv, NEW a \in Addresses, NEW h \in Handles, NEW v \in Properties, NEW w,
         now = a, objects.live[h] # 0, v[2] = made[h],
         objects' = [objects EXCEPT !.slots[h] = v],
         \A k \in Handles \ {h}, c \in Addresses : k \in w[c] <=> k \in wrote[c],
         \A c \in Addresses \ {a} : h \in w[c] <=> h \in wrote[c],
         \/ ~Written(v) /\ h \notin w[a]
         \/ /\ builder[h] = Null /\ v = <<job[a].req, made[h]>> /\ job[a].req \in Requests
            /\ h \in w[a]
  PROVE  objects' \in Objects /\ ObjectsInv(objects', now, builder, made, job, w, stained)
<1> DEFINE o == objects
           p == objects'
<1>1. o \in Objects /\ now \in Scopes /\ a # Main /\ Main \in Scopes /\ Addresses \subseteq Scopes
  BY Names DEF ScopeInv, TypeOK, Scopes
<1>2. ObjectsInv(o, now, builder, made, job, wrote, stained)
  BY DEF ScopeInv
<1>3. HandleInv(o, now, builder, made, wrote, h) /\ \A c \in Addresses : FiberInv(o, now, made, job, wrote, stained, c, h)
  BY <1>2 DEF ObjectsInv
<1>4. /\ p \in Objects /\ p.live = o.live /\ p.rows = o.rows /\ p.slots[h] = v
      /\ \A k \in Handles \ {h} : p.slots[k] = o.slots[k]
  BY <1>1, PutSlot
<1> HIDE DEF p
<1>5. View(p, now, a, h) = v /\ \A s \in Scopes \ {a} : View(p, now, s, h) = View(o, now, s, h)
  BY <1>4 DEF View
<1>6. HandleInv(p, now, builder, made, w, h)
  BY <1>1, <1>3, <1>4, <1>5 DEF HandleInv
<1>7. ASSUME NEW c \in Addresses PROVE FiberInv(p, now, made, job, w, stained, c, h)
  BY <1>1, <1>3, <1>4, <1>5 DEF FiberInv
<1>8. ElsewhereSame(o, p, builder, builder, made, made, wrote, w, h)
  BY <1>4 DEF ElsewhereSame
<1> QED
  BY <1>1, <1>2, <1>4, <1>6, <1>7, <1>8, OneHandle DEF p

\* Row zero is taken from the constructor's view, where no request has
\* written yet.
LEMMA SealKeeps ==
  ASSUME ScopeInv, NEW a \in Addresses, NEW h \in Handles, Seal(a, h)
  PROVE  objects' \in Objects /\ ObjectsInv(objects', now, builder', made, job, wrote, stained)
<1> DEFINE o == objects
           p == objects'
           row == [o.rows[Main] EXCEPT ![h] = o.slots[h]]
<1>1. /\ o \in Objects /\ now \in Scopes /\ now = a /\ a # Main /\ Main \in Scopes /\ Addresses \subseteq Scopes
      /\ builder \in [Handles -> Addresses \cup {Null}] /\ Null \notin Addresses
      /\ builder[h] = a
  BY Names DEF ScopeInv, TypeOK, Seal, Runs, Scopes
<1>2. ObjectsInv(o, now, builder, made, job, wrote, stained)
  BY DEF ScopeInv
<1>3. HandleInv(o, now, builder, made, wrote, h) /\ \A c \in Addresses : FiberInv(o, now, made, job, wrote, stained, c, h)
  BY <1>2 DEF ObjectsInv
<1>4. p = [o EXCEPT !.rows[Main] = row]
  BY DEF Seal, seal
<1>5. row \in [Handles -> Properties \cup {Undef, NoRow}]
  BY <1>1, ObjectFields
<1>6. row[h] = o.slots[h] /\ \A k \in Handles \ {h} : row[k] = o.rows[Main][k]
  BY <1>1, ObjectFields
<1> HIDE DEF row
<1>7. p = [live |-> o.live, slots |-> o.slots, rows |-> [o.rows EXCEPT ![Main] = row]]
  BY <1>1, <1>4, PutRow
<1> HIDE DEF p
<1>8. p \in Objects
  BY <1>1, <1>5, <1>7, ObjectFields DEF Objects
<1>9. p.live = o.live /\ p.slots = o.slots /\ p.rows[Main] = row /\ \A s \in Scopes \ {Main} : p.rows[s] = o.rows[s]
  BY <1>1, <1>7, ObjectFields
<1>10. builder'[h] = Null /\ \A k \in Handles \ {h} : builder'[k] = builder[k]
  BY <1>1 DEF Seal
<1>11. /\ View(p, now, Main, h) = View(o, now, a, h)
       /\ \A s \in Scopes \ {Main} : View(p, now, s, h) = View(o, now, s, h)
  BY <1>1, <1>6, <1>9 DEF View
<1>12. builder[h] # Null /\ o.live[h] # 0 /\ p.rows[now][h] = NoRow
  BY <1>1, <1>3, <1>9 DEF HandleInv
<1>13. HandleInv(p, now, builder', made, wrote, h)
  BY <1>1, <1>3, <1>9, <1>10, <1>11, <1>12 DEF HandleInv
<1>14. ASSUME NEW c \in Addresses PROVE FiberInv(p, now, made, job, wrote, stained, c, h)
  BY <1>1, <1>3, <1>9, <1>11, Names DEF FiberInv
<1>15. ElsewhereSame(o, p, builder, builder', made, made, wrote, wrote, h)
  BY <1>6, <1>9, <1>10 DEF ElsewhereSame
<1> QED
  BY <1>1, <1>2, <1>8, <1>13, <1>14, <1>15, OneHandle DEF p

\* A free handle is blank in every scope.
LEMMA FreeKeeps ==
  ASSUME ScopeInv, NEW a \in Addresses, NEW h \in Handles, Free(a, h)
  PROVE  objects' \in Objects /\ ObjectsInv(objects', now, builder', made, job, wrote', stained)
<1> DEFINE o == objects
           p == objects'
           rows == [s \in Scopes |-> [o.rows[s] EXCEPT ![h] = NoRow]]
<1>1. /\ o \in Objects /\ now \in Scopes /\ Main \in Scopes /\ Addresses \subseteq Scopes
      /\ builder \in [Handles -> Addresses \cup {Null}]
      /\ wrote \in [Addresses -> SUBSET Handles]
  BY DEF ScopeInv, TypeOK, Scopes
<1>2. ObjectsInv(o, now, builder, made, job, wrote, stained)
  BY DEF ScopeInv
<1>3. p = [o EXCEPT !.live[h] = 0, !.slots[h] = Undef, !.rows = rows]
  BY DEF Free, free_obj
<1>4. rows \in [Scopes -> [Handles -> Properties \cup {Undef, NoRow}]]
  BY <1>1, ObjectFields
<1>5. \A s \in Scopes : rows[s][h] = NoRow /\ \A k \in Handles \ {h} : rows[s][k] = o.rows[s][k]
  BY <1>1, ObjectFields
<1> HIDE DEF rows
<1>6. p = [live |-> [o.live EXCEPT ![h] = 0], slots |-> [o.slots EXCEPT ![h] = Undef], rows |-> rows]
  <2> DEFINE q == [live |-> [o.live EXCEPT ![h] = 0], slots |-> o.slots, rows |-> o.rows]
             r == [live |-> [o.live EXCEPT ![h] = 0], slots |-> [o.slots EXCEPT ![h] = Undef], rows |-> o.rows]
  <2>1. [o EXCEPT !.live[h] = 0] = q
    BY <1>1, ObjectFields
  <2>2. [q EXCEPT !.slots[h] = Undef] = r
    OBVIOUS
  <2>3. [r EXCEPT !.rows = rows] = [live |-> [o.live EXCEPT ![h] = 0], slots |-> [o.slots EXCEPT ![h] = Undef], rows |-> rows]
    OBVIOUS
  <2> QED
    BY <1>3, <2>1, <2>2, <2>3
<1> HIDE DEF p
<1>7. p \in Objects
  <2>1. [o.live EXCEPT ![h] = 0] \in [Handles -> 0 .. MaxObjects]
    BY <1>1, ObjectFields, ScopeConstants
  <2>2. [o.slots EXCEPT ![h] = Undef] \in [Handles -> Properties \cup {Undef}]
    BY <1>1, ObjectFields
  <2> QED
    BY <1>4, <1>6, <2>1, <2>2 DEF Objects
<1>8. /\ p.live[h] = 0 /\ p.slots[h] = Undef /\ p.rows = rows
      /\ \A k \in Handles \ {h} : p.live[k] = o.live[k] /\ p.slots[k] = o.slots[k]
  BY <1>1, <1>6, ObjectFields
<1>9. /\ builder'[h] = Null /\ \A k \in Handles \ {h} : builder'[k] = builder[k]
      /\ \A c \in Addresses : wrote'[c] = wrote[c] \ {h}
  BY <1>1 DEF Free
<1>10. \A s \in Scopes : View(p, now, s, h) \in {Undef, NoRow}
  BY <1>5, <1>8 DEF View
<1>11. HandleInv(p, now, builder', made, wrote', h)
  BY <1>1, <1>5, <1>8, <1>9, <1>10, PropertyNames DEF HandleInv
<1>12. ASSUME NEW c \in Addresses PROVE FiberInv(p, now, made, job, wrote', stained, c, h)
  BY <1>1, <1>9, <1>10, PropertyNames DEF FiberInv
<1>13. ElsewhereSame(o, p, builder, builder', made, made, wrote, wrote', h)
  BY <1>5, <1>8, <1>9 DEF ElsewhereSame
<1> QED
  BY <1>1, <1>2, <1>7, <1>11, <1>12, <1>13, OneHandle DEF p

-----------------------------------------------------------------------------
(* The actions.                                                            *)

\* What is left to show of a step once the superglobals and the objects are
\* taken care of.
Rest ==
  /\ now \in Scopes
  /\ job \in Jobs
  /\ resumer \in [Addresses -> Addresses \cup {Null}]
  /\ spawned \in [{"child", "raw"} -> 0 .. MaxSpawns]
  /\ begun \subseteq Requests
  /\ builder \in [Handles -> Addresses \cup {Null}]
  /\ made \in [Handles -> 0 .. MaxObjects]
  /\ content_type \in Requests \cup {Null}
  /\ request_method \in Requests \cup {Null}
  /\ newest \in Addresses \cup {Null}
  /\ bodies \in [Addresses -> [of : Requests \cup {Null}, read : 0 .. BodyBytes]]
  /\ expected \in [Scopes -> Arrays \cup {NoArray}]
  /\ writes \in 0 .. MaxWrites
  /\ wrote \in [Addresses -> SUBSET Handles]
  /\ stained \subseteq Addresses
  /\ orphaned \in BOOLEAN

LEMMA Together ==
  ASSUME Rest', Schedule', Bodies', globals' \in Globals, objects' \in Objects,
         GlobalsInv(globals', expected', now', orphaned'),
         ObjectsInv(objects', now', builder', made', job', wrote', stained')
  PROVE  ScopeInv'
BY DEF ScopeInv, TypeOK, Rest, Jobs

LEMMA RestHolds ==
  ASSUME ScopeInv
  PROVE  Rest
BY DEF ScopeInv, TypeOK, Rest, Jobs

\* A job that is no handler's begins or ends without touching the bodies.
LEMMA BodiesKept ==
  ASSUME Rest, Bodies, UNCHANGED <<content_type, request_method, newest, bodies>>,
         \A c \in Addresses : \/ job'[c] = job[c]
                              \/ job[c].role # "handler" /\ job'[c].role # "handler"
  PROVE  Bodies'
<1>1. newest \in Addresses \cup {Null}
  BY DEF Rest
<1> QED
  BY <1>1 DEF Bodies

\* Any switch between two jobs, or at the begin or the end of one.
LEMMA SwitchStep ==
  ASSUME ScopeInv, NEW to \in Scopes, now # to, Switch(now, to),
         UNCHANGED <<builder, made, expected, orphaned>>,
         \A a \in Addresses : Proceeds(job, wrote, stained, job', wrote', stained', a)
  PROVE  /\ globals' \in Globals /\ objects' \in Objects
         /\ GlobalsInv(globals', expected', now', orphaned')
         /\ ObjectsInv(objects', now', builder', made', job', wrote', stained')
<1>1. /\ now \in Scopes /\ globals \in Globals /\ objects \in Objects
      /\ expected \in [Scopes -> Arrays \cup {NoArray}] /\ orphaned \in BOOLEAN
      /\ GlobalsInv(globals, expected, now, orphaned)
      /\ ObjectsInv(objects, now, builder, made, job, wrote, stained)
  BY DEF ScopeInv, TypeOK
<1>2. now' = to /\ objects' = objects_on_switch(objects, now, to) /\ globals' = globals_on_switch(globals, to)
  BY DEF Switch
<1>3. globals' \in Globals /\ GlobalsInv(globals', expected, to, orphaned)
  BY <1>1, <1>2, GlobalsSwitchKeeps
<1>4. objects' \in Objects /\ ObjectsInv(objects', to, builder, made, job', wrote', stained')
  BY <1>1, <1>2, SwitchFields, SwitchKeeps
<1> QED
  BY <1>2, <1>3, <1>4

LEMMA BeginStep ==
  ASSUME ScopeInv, NEW a \in Addresses, NEW r \in Requests, NEW role \in {"entering", "child"},
         Begin(a, r, role),
         begun' \subseteq Requests, spawned' \in [{"child", "raw"} -> 0 .. MaxSpawns]
  PROVE  ScopeInv'
<1>1. Rest /\ Schedule /\ Bodies
  BY RestHolds DEF ScopeInv
<1>2. /\ now = Main /\ a \in Scopes /\ a # Main /\ Switch(now, a)
      /\ job[a] \in {NoFiber, Idle} /\ wrote[a] = {}
      /\ job' = [job EXCEPT ![a] = Job(r, role)] /\ wrote' = [wrote EXCEPT ![a] = {}]
      /\ now' = a /\ UNCHANGED <<resumer, stained, builder, made, content_type, request_method, newest, bodies, expected, writes, orphaned>>
  BY <1>1, Names DEF Begin, Scopes, Schedule, NoFiber, Idle, Unseen, request, Switch
<1>3. job'[a] = [req |-> r, role |-> role] /\ \A c \in Addresses \ {a} : job'[c] = job[c]
  BY <1>1, <1>2 DEF Job, Rest, Jobs
<1>4. \A c \in Addresses : wrote'[c] = IF c = a THEN {} ELSE wrote[c]
  BY <1>1, <1>2 DEF Rest
<1>5. \A c \in Addresses : Proceeds(job, wrote, stained, job', wrote', stained', c)
  BY <1>2, <1>3, <1>4 DEF Proceeds
<1>6. /\ globals' \in Globals /\ objects' \in Objects
      /\ GlobalsInv(globals', expected', now', orphaned')
      /\ ObjectsInv(objects', now', builder', made', job', wrote', stained')
  BY <1>2, <1>5, SwitchStep
<1>7. Rest'
  <2>1. job' \in Jobs
    BY <1>1, <1>2 DEF Rest, Jobs, Job
  <2> QED
    BY <1>1, <1>2, <2>1 DEF Rest
<1>8. Schedule'
  BY <1>1, <1>2, <1>3, <1>4 DEF Schedule
<1>9. Bodies'
  <2>1. UNCHANGED <<content_type, request_method, newest, bodies>>
    BY <1>2
  <2>2. \A k \in Addresses : \/ job'[k] = job[k]
                             \/ job[k].role # "handler" /\ job'[k].role # "handler"
    BY <1>2, <1>3 DEF NoFiber, Idle
  <2> QED
    BY <1>1, <2>1, <2>2, BodiesKept, Zenon
<1> QED
  BY <1>6, <1>7, <1>8, <1>9, Together

\* Resume, Suspend and ResumeRaw: nothing but the switch.
LEMMA PlainSwitchStep ==
  ASSUME ScopeInv, NEW to \in Scopes, now # to, Switch(now, to),
         UNCHANGED <<job, resumer, spawned, begun, wrote, stained, Unseen>>
  PROVE  ScopeInv'
<1>1. Rest /\ Schedule /\ Bodies
  BY RestHolds DEF ScopeInv
<1>2. now' = to /\ UNCHANGED <<builder, made, content_type, request_method, newest, bodies, expected, writes, orphaned>>
  BY DEF Switch, Unseen, request
<1>3. \A c \in Addresses : Proceeds(job, wrote, stained, job', wrote', stained', c)
  BY DEF Proceeds
<1>4. /\ globals' \in Globals /\ objects' \in Objects
      /\ GlobalsInv(globals', expected', now', orphaned')
      /\ ObjectsInv(objects', now', builder', made', job', wrote', stained')
  BY <1>2, <1>3, SwitchStep
<1>5. Rest' /\ Schedule' /\ Bodies'
  BY <1>1, <1>2 DEF Rest, Schedule, Bodies
<1> QED
  BY <1>4, <1>5, Together

LEMMA StartRawStep ==
  ASSUME ScopeInv, NEW a \in Addresses, NEW c \in Addresses, StartRaw(a, c)
  PROVE  ScopeInv'
<1>1. Rest /\ Schedule /\ Bodies
  BY RestHolds DEF ScopeInv
<1>2. /\ now = a /\ c # a /\ c \in Scopes /\ Switch(now, c) /\ job[a].req \in Requests
      /\ job[c] = NoFiber /\ wrote[c] = {}
      /\ job' = [job EXCEPT ![c] = Job(job[a].req, "raw")] /\ wrote' = [wrote EXCEPT ![c] = {}]
      /\ resumer' = [resumer EXCEPT ![c] = a]
      /\ now' = c /\ UNCHANGED <<begun, stained, builder, made, content_type, request_method, newest, bodies, expected, writes, orphaned>>
  BY <1>1 DEF StartRaw, Runs, Scopes, Schedule, NoFiber, Unseen, request, Switch
<1>3. job'[c] = [req |-> job[a].req, role |-> "raw"] /\ \A d \in Addresses \ {c} : job'[d] = job[d]
  BY <1>1, <1>2 DEF Job, Rest, Jobs
<1>4. \A d \in Addresses : /\ wrote'[d] = IF d = c THEN {} ELSE wrote[d]
                           /\ resumer'[d] = IF d = c THEN a ELSE resumer[d]
  BY <1>1, <1>2 DEF Rest
<1>5. \A d \in Addresses : Proceeds(job, wrote, stained, job', wrote', stained', d)
  BY <1>2, <1>3, <1>4 DEF Proceeds
<1>6. /\ globals' \in Globals /\ objects' \in Objects
      /\ GlobalsInv(globals', expected', now', orphaned')
      /\ ObjectsInv(objects', now', builder', made', job', wrote', stained')
  BY <1>2, <1>5, SwitchStep
<1>7. Rest'
  <2>1. job' \in Jobs
    BY <1>1, <1>2 DEF Rest, Jobs, Job
  <2>2. spawned' \in [{"child", "raw"} -> 0 .. MaxSpawns]
    BY <1>1, ScopeConstants DEF StartRaw, Rest
  <2> QED
    BY <1>1, <1>2, <2>1, <2>2 DEF Rest
<1>8. Schedule'
  BY <1>1, <1>2, <1>3, <1>4 DEF Schedule
<1>9. Bodies'
  <2>1. UNCHANGED <<content_type, request_method, newest, bodies>>
    BY <1>2
  <2>2. \A k \in Addresses : \/ job'[k] = job[k]
                             \/ job[k].role # "handler" /\ job'[k].role # "handler"
    BY <1>2, <1>3 DEF NoFiber, Idle
  <2> QED
    BY <1>1, <2>1, <2>2, BodiesKept, Zenon
<1> QED
  BY <1>6, <1>7, <1>8, <1>9, Together

LEMMA EndChildStep ==
  ASSUME ScopeInv, NEW a \in Addresses, EndChild(a)
  PROVE  ScopeInv'
<1>1. Rest /\ Schedule /\ Bodies
  BY RestHolds DEF ScopeInv
<1>2. /\ now = a /\ a # Main /\ Main \in Scopes /\ Switch(now, Main)
      /\ job' = [job EXCEPT ![a] = Idle] /\ wrote' = [wrote EXCEPT ![a] = {}] /\ stained' = Left(a)
      /\ now' = Main
      /\ UNCHANGED <<resumer, spawned, begun, builder, made, content_type, request_method, newest, bodies, expected, writes, orphaned>>
  BY Names DEF EndChild, Runs, Scopes, Unseen, request, Switch
<1>3. job'[a] = Idle /\ \A d \in Addresses \ {a} : job'[d] = job[d]
  BY <1>1, <1>2 DEF Rest, Jobs
<1>4. \A d \in Addresses : wrote'[d] = IF d = a THEN {} ELSE wrote[d]
  BY <1>1, <1>2 DEF Rest
<1>5. \A d \in Addresses : Proceeds(job, wrote, stained, job', wrote', stained', d)
  BY <1>2, <1>3, <1>4 DEF Proceeds, Left
<1>6. /\ globals' \in Globals /\ objects' \in Objects
      /\ GlobalsInv(globals', expected', now', orphaned')
      /\ ObjectsInv(objects', now', builder', made', job', wrote', stained')
  BY <1>2, <1>5, SwitchStep
<1>7. Rest'
  <2>1. job' \in Jobs
    BY <1>1, <1>2 DEF Rest, Jobs, Idle
  <2> QED
    BY <1>1, <1>2, <2>1 DEF Rest, Left
<1>8. Schedule'
  BY <1>1, <1>2, <1>3, <1>4 DEF Schedule, Idle
<1>9. Bodies'
  <2>1. UNCHANGED <<content_type, request_method, newest, bodies>>
    BY <1>2
  <2>2. \A k \in Addresses : \/ job'[k] = job[k]
                             \/ job[k].role # "handler" /\ job'[k].role # "handler"
    BY <1>2, <1>3 DEF EndChild, Idle
  <2> QED
    BY <1>1, <2>1, <2>2, BodiesKept, Zenon
<1> QED
  BY <1>6, <1>7, <1>8, <1>9, Together

LEMMA EndRawStep ==
  ASSUME ScopeInv, NEW c \in Addresses, EndRaw(c)
  PROVE  ScopeInv'
<1> DEFINE to == resumer[c]
           g == globals_on_switch(globals, to)
<1>1. Rest /\ Schedule /\ Bodies
  BY RestHolds DEF ScopeInv
<1>2. /\ now = c /\ to # c /\ to \in Addresses /\ to \in Scopes /\ now \in Scopes
      /\ now' = to /\ objects' = objects_on_switch(objects, c, to)
      /\ globals' = globals_on_destroy(g, c) /\ orphaned' = (orphaned \/ g.view = c)
      /\ job' = [job EXCEPT ![c] = NoFiber] /\ wrote' = [wrote EXCEPT ![c] = {}] /\ stained' = Left(c)
      /\ resumer' = [resumer EXCEPT ![c] = Null] /\ expected' = [expected EXCEPT ![c] = NoArray]
      /\ UNCHANGED <<spawned, begun, builder, made, content_type, request_method, newest, bodies, writes>>
  BY <1>1 DEF EndRaw, Runs, Scopes, request, Schedule
<1> HIDE DEF to
<1>3. job'[c] = NoFiber /\ \A d \in Addresses \ {c} : job'[d] = job[d]
  BY <1>1, <1>2 DEF Rest, Jobs
<1>4. \A d \in Addresses : /\ wrote'[d] = IF d = c THEN {} ELSE wrote[d]
                           /\ resumer'[d] = IF d = c THEN Null ELSE resumer[d]
  BY <1>1, <1>2 DEF Rest
<1>5. \A d \in Addresses : Proceeds(job, wrote, stained, job', wrote', stained', d)
  BY <1>2, <1>3, <1>4 DEF Proceeds, Left
<1>6. /\ globals \in Globals /\ objects \in Objects
      /\ expected \in [Scopes -> Arrays \cup {NoArray}] /\ orphaned \in BOOLEAN
      /\ GlobalsInv(globals, expected, now, orphaned)
      /\ ObjectsInv(objects, now, builder, made, job, wrote, stained)
  BY DEF ScopeInv, TypeOK
<1>7. objects' \in Objects /\ ObjectsInv(objects', now', builder', made', job', wrote', stained')
  BY <1>2, <1>5, <1>6, SwitchFields, SwitchKeeps
<1>8. globals' \in Globals /\ GlobalsInv(globals', expected', now', orphaned')
  <2>1. g \in Globals /\ GlobalsInv(g, expected, to, orphaned)
    BY <1>2, <1>6, GlobalsSwitchKeeps
  <2> HIDE DEF g
  <2> QED
    BY <1>2, <1>6, <2>1, DestroyKeeps
<1>9. Rest'
  <2>1. job' \in Jobs
    BY <1>1, <1>2 DEF Rest, Jobs, NoFiber
  <2>2. orphaned' \in BOOLEAN
    BY <1>2
  <2> QED
    BY <1>1, <1>2, <2>1, <2>2 DEF Rest, Left
<1>10. Schedule'
  BY <1>1, <1>2, <1>3, <1>4 DEF Schedule, NoFiber
<1>11. Bodies'
  <2>1. UNCHANGED <<content_type, request_method, newest, bodies>>
    BY <1>2
  <2>2. \A k \in Addresses : \/ job'[k] = job[k]
                             \/ job[k].role # "handler" /\ job'[k].role # "handler"
    BY <1>2, <1>3 DEF EndRaw, NoFiber
  <2> QED
    BY <1>1, <2>1, <2>2, BodiesKept, Zenon
<1> QED
  BY <1>7, <1>8, <1>9, <1>10, <1>11, Together

LEMMA ArrayOf ==
  ASSUME NEW r \in Requests, NEW role \in {"handler", "raw"}
  PROVE  [by |-> r, role |-> role, n |-> 0] \in Arrays
BY DEF Arrays

LEMMA EnterStep ==
  ASSUME ScopeInv, NEW a \in Addresses, enterRequest(a)
  PROVE  ScopeInv'
<1> DEFINE value == [by |-> job[a].req, role |-> "handler", n |-> 0]
<1>1. Rest /\ Schedule /\ Bodies
  BY RestHolds DEF ScopeInv
<1>2. /\ now = a /\ job[a].role = "entering" /\ job[a].req \in Requests
      /\ job' = [job EXCEPT ![a].role = "handler"]
      /\ globals' = set_superglobals(globals, a, value)
      /\ expected' = [expected EXCEPT ![a] = value]
      /\ \/ content_type' = job[a].req /\ newest' = a
         \/ content_type' = Null /\ newest' = Null
      /\ request_method' = job[a].req
      /\ bodies' = [bodies EXCEPT ![a] = [of |-> job[a].req, read |-> 0]]
      /\ UNCHANGED <<now, resumer, spawned, begun, objects, builder, made, writes, wrote, stained, orphaned>>
  BY <1>1 DEF enterRequest, Schedule, enter, current
<1>3. value \in Arrays
  BY <1>2, ArrayOf
<1> HIDE DEF value
<1>4. globals' \in Globals /\ GlobalsInv(globals', expected', now', orphaned')
  <2>1. /\ globals \in Globals /\ expected \in [Scopes -> Arrays \cup {NoArray}] /\ orphaned \in BOOLEAN
        /\ GlobalsInv(globals, expected, now, orphaned)
    BY DEF ScopeInv, TypeOK
  <2> QED
    BY <1>2, <1>3, <2>1, SetKeeps
<1>5. /\ job'[a].req = job[a].req /\ job'[a].role = "handler"
      /\ \A d \in Addresses \ {a} : job'[d] = job[d]
  BY <1>1, <1>2 DEF Rest, Jobs
<1>6. objects' \in Objects /\ ObjectsInv(objects', now', builder', made', job', wrote', stained')
  <2>1. \A d \in Addresses : job'[d].req = job[d].req
    BY <1>5
  <2> QED
    BY <1>2, <2>1 DEF ScopeInv, TypeOK, ObjectsInv, FiberInv
<1>7. Rest'
  <2>1. job' \in Jobs
    BY <1>1, <1>2 DEF Rest, Jobs
  <2>2. bodies' \in [Addresses -> [of : Requests \cup {Null}, read : 0 .. BodyBytes]]
    BY <1>1, <1>2, ScopeConstants DEF Rest
  <2> QED
    BY <1>1, <1>2, <1>3, <2>1, <2>2 DEF Rest
<1>8. Schedule'
  BY <1>1, <1>2, <1>5 DEF Schedule
<1>9. Bodies'
  <2>1. bodies'[a].of = job[a].req /\ \A d \in Addresses \ {a} : bodies'[d] = bodies[d]
    BY <1>1, <1>2 DEF Rest
  <2> QED
    BY <1>1, <1>2, <1>5, <2>1, Names DEF Bodies
<1> QED
  BY <1>4, <1>6, <1>7, <1>8, <1>9, Together

LEMMA ReleaseStep ==
  ASSUME ScopeInv, NEW a \in Addresses, releaseRequest(a)
  PROVE  ScopeInv'
<1> DEFINE cleared == rows_clear(objects, a)
           w == [wrote EXCEPT ![a] = {}]
           st == stained \ {a}
<1>1. Rest /\ Schedule /\ Bodies
  BY RestHolds DEF ScopeInv
<1>2. /\ now = a /\ a # Main /\ a \in Scopes /\ Main \in Scopes /\ now' = Main
      /\ objects' = objects_on_switch(cleared, a, Main)
      /\ globals' = globals_on_switch(globals, Main)
      /\ content_type' = Null /\ newest' = Null /\ request_method' = request_method
      /\ bodies' = [bodies EXCEPT ![a] = NoBody]
      /\ job' = [job EXCEPT ![a] = Idle] /\ wrote' = w /\ stained' = st
      /\ UNCHANGED <<resumer, spawned, begun, builder, made, expected, writes, orphaned>>
  BY Names DEF releaseRequest, Runs, Scopes, leave, current
<1>3. /\ globals \in Globals /\ objects \in Objects
      /\ expected \in [Scopes -> Arrays \cup {NoArray}] /\ orphaned \in BOOLEAN
      /\ wrote \in [Addresses -> SUBSET Handles]
      /\ GlobalsInv(globals, expected, now, orphaned)
      /\ ObjectsInv(objects, a, builder, made, job, wrote, stained)
  BY <1>2 DEF ScopeInv, TypeOK
<1>4. job'[a] = Idle /\ \A d \in Addresses \ {a} : job'[d] = job[d]
  BY <1>1, <1>2 DEF Rest, Jobs
<1>5. \A d \in Addresses : w[d] = IF d = a THEN {} ELSE wrote[d]
  BY <1>3
<1>6. globals' \in Globals /\ GlobalsInv(globals', expected', now', orphaned')
  BY <1>2, <1>3, GlobalsSwitchKeeps
<1>7. objects' \in Objects /\ ObjectsInv(objects', now', builder', made', job', wrote', stained')
  <2>1. cleared \in Objects
    BY <1>3, ClearFields
  <2>2. ObjectsInv(cleared, a, builder, made, job, w, st)
    BY <1>3, ClearKeeps
  <2> HIDE DEF cleared, w, st
  <2>3. \A d \in Addresses : Proceeds(job, w, st, job', w, st, d)
    BY <1>4, <1>5 DEF Proceeds
  <2> QED
    BY <1>2, <2>1, <2>2, <2>3, SwitchFields, SwitchKeeps
<1>8. Rest'
  <2>1. job' \in Jobs
    BY <1>1, <1>2 DEF Rest, Jobs, Idle
  <2>2. bodies' \in [Addresses -> [of : Requests \cup {Null}, read : 0 .. BodyBytes]]
    BY <1>1, <1>2, ScopeConstants DEF Rest, NoBody
  <2> QED
    BY <1>1, <1>2, <2>1, <2>2 DEF Rest
<1>9. Schedule'
  BY <1>1, <1>2, <1>4, <1>5 DEF Schedule, Idle
<1>10. Bodies'
  <2>1. \A d \in Addresses \ {a} : bodies'[d] = bodies[d]
    BY <1>1, <1>2 DEF Rest
  <2> QED
    BY <1>1, <1>2, <1>4, <2>1 DEF Bodies, Idle
<1> QED
  BY <1>6, <1>7, <1>8, <1>9, <1>10, Together

LEMMA SetSuperglobalsStep ==
  ASSUME ScopeInv, NEW c \in Addresses, SetSuperglobals(c)
  PROVE  ScopeInv'
<1> DEFINE value == [by |-> job[c].req, role |-> "raw", n |-> 0]
<1>1. Rest /\ Schedule /\ Bodies
  BY RestHolds DEF ScopeInv
<1>2. /\ now = c /\ job[c].req \in Requests
      /\ globals' = set_superglobals(globals, c, value)
      /\ expected' = [expected EXCEPT ![c] = value]
      /\ UNCHANGED <<now, job, resumer, spawned, begun, objects, builder, made, content_type, request_method, newest, bodies,
                     writes, wrote, stained, orphaned>>
  BY <1>1 DEF SetSuperglobals, Runs, Schedule, Undisturbed, Unswitched, schedule, request
<1>3. value \in Arrays
  BY <1>2, ArrayOf
<1> HIDE DEF value
<1>4. globals' \in Globals /\ GlobalsInv(globals', expected', now', orphaned')
  <2>1. /\ globals \in Globals /\ expected \in [Scopes -> Arrays \cup {NoArray}] /\ orphaned \in BOOLEAN
        /\ GlobalsInv(globals, expected, now, orphaned)
    BY DEF ScopeInv, TypeOK
  <2> QED
    BY <1>2, <1>3, <2>1, SetKeeps
<1>5. objects' \in Objects /\ ObjectsInv(objects', now', builder', made', job', wrote', stained')
  BY <1>2 DEF ScopeInv, TypeOK
<1>6. Rest' /\ Schedule' /\ Bodies'
  BY <1>1, <1>2, <1>3 DEF Rest, Schedule, Bodies
<1> QED
  BY <1>4, <1>5, <1>6, Together

\* The array that is written is that of the owner of the installed view, or
\* the base world's.
LEMMA WriteSuperglobalStep ==
  ASSUME ScopeInv, NEW a \in Addresses, WriteSuperglobal(a)
  PROVE  ScopeInv'
<1> DEFINE v == WorldOf(a)
<1>1. Rest /\ Schedule /\ Bodies
  BY RestHolds DEF ScopeInv
<1>2. /\ now = a /\ writes' = writes + 1 /\ writes < MaxWrites
      /\ globals' = [globals EXCEPT !.table.n = @ + 1]
      /\ expected' = [expected EXCEPT ![v].n = @ + 1]
      /\ UNCHANGED <<now, job, resumer, spawned, begun, objects, builder, made, content_type, request_method,
                     newest, bodies, wrote, stained, orphaned>>
  BY DEF WriteSuperglobal, Runs, Unswitched, schedule, request
<1>3. /\ globals' \in Globals /\ expected' \in [Scopes -> Arrays \cup {NoArray}]
      /\ GlobalsInv(globals', expected', now', orphaned')
  <2>1. /\ globals \in Globals /\ expected \in [Scopes -> Arrays \cup {NoArray}] /\ orphaned \in BOOLEAN
        /\ GlobalsInv(globals, expected, a, orphaned)
    BY <1>2 DEF ScopeInv, TypeOK
  <2>2. (globals.view = Null => v = Main) /\ (globals.view # Null => v = globals.view)
    BY <1>2, <2>1, Names DEF WorldOf, GlobalsInv, World
  <2>3. v \in Scopes
    BY <2>1, <2>2, GlobalsFields DEF Scopes
  <2>4. expected[v] \in Arrays
    BY <2>1, <2>2, GlobalsFields, InScopes, ArrayNames DEF GlobalsInv, World, OwnArray
  <2> HIDE DEF v
  <2> DEFINE x == [globals.table EXCEPT !.n = @ + 1]
             y == [expected[v] EXCEPT !.n = @ + 1]
  <2>5. x \in Arrays /\ y \in Arrays /\ y.by = expected[v].by /\ (globals.table = expected[v] => x = y)
    BY <2>1, <2>4, GlobalsFields DEF Arrays
  <2>6. globals' = [globals EXCEPT !.table = x] /\ expected' = [expected EXCEPT ![v] = y]
    BY <1>2
  <2> HIDE DEF x, y
  <2>7. globals' = [table |-> x, view |-> globals.view, base |-> globals.base, slot |-> globals.slot]
    BY <2>1, <2>6, GlobalsFields
  <2>8. /\ globals'.view = globals.view /\ globals'.slot = globals.slot
        /\ globals'.base = globals.base /\ globals'.table = x
    BY <2>7
  <2>9. expected'[v] = y /\ \A s \in Scopes \ {v} : expected'[s] = expected[s]
    BY <2>1, <2>3, <2>6
  <2>10. globals' \in Globals /\ expected' \in [Scopes -> Arrays \cup {NoArray}]
    BY <2>1, <2>5, <2>6, <2>7, GlobalsFields DEF Globals
  <2>11. ASSUME NEW c \in Addresses PROVE OwnArray(globals', expected', c)
    <3>1. OwnArray(globals, expected, c) /\ c # Main /\ c # Null /\ c \in Scopes
      BY <2>1, Names, InScopes DEF GlobalsInv
    <3>2. CASE c = v
      <4>1. globals.view = c /\ expected'[c] = globals'.table /\ expected'[c] \in Arrays
        BY <2>2, <2>5, <2>8, <2>9, <3>1, <3>2 DEF OwnArray
      <4> QED
        BY <2>8, <3>1, <4>1, ArrayNames DEF OwnArray
    <3>3. CASE c # v
      BY <2>2, <2>8, <2>9, <3>1, <3>3 DEF OwnArray
    <3> QED
      BY <3>2, <3>3
  <2>12. World(globals', expected', a, orphaned)
    <3>1. World(globals, expected, a, orphaned)
      BY <2>1 DEF GlobalsInv
    <3>2. CASE globals.view = Null
      BY <2>2, <2>5, <2>8, <2>9, <3>1, <3>2 DEF World
    <3>3. CASE globals.view # Null
      <4>1. expected'[Main] = expected[Main]
        BY <2>1, <2>2, <2>9, <3>3, GlobalsFields, InScopes, Names
      <4> QED
        BY <2>8, <3>1, <3>3, <4>1 DEF World
    <3> QED
      BY <3>2, <3>3
  <2> QED
    BY <1>2, <2>10, <2>11, <2>12 DEF GlobalsInv
<1>4. objects' \in Objects /\ ObjectsInv(objects', now', builder', made', job', wrote', stained')
  BY <1>2 DEF ScopeInv, TypeOK
<1>5. writes' \in 0 .. MaxWrites
  BY <1>1, <1>2, ScopeConstants DEF Rest
<1>6. Rest' /\ Schedule' /\ Bodies'
  BY <1>1, <1>2, <1>3, <1>5 DEF Rest, Schedule, Bodies
<1> QED
  BY <1>3, <1>4, <1>6, Together

\* Allocate, Construct, Seal, WriteProperty and Free: the running job stays,
\* and so do the superglobals and the bodies.
LEMMA ObjectStep ==
  ASSUME ScopeInv, UNCHANGED <<Undisturbed, globals, request, expected>>,
         objects' \in Objects,
         ObjectsInv(objects', now, builder', made', job, wrote', stained),
         builder' \in [Handles -> Addresses \cup {Null}], made' \in [Handles -> 0 .. MaxObjects],
         wrote' \in [Addresses -> SUBSET Handles],
         \A a \in Addresses : wrote'[a] = {} \/ job[a].role \notin {"none", "idle"}
  PROVE  ScopeInv'
<1>1. Rest /\ Schedule /\ Bodies
  BY RestHolds DEF ScopeInv
<1>2. UNCHANGED <<now, job, resumer, spawned, begun, stained, orphaned, writes, content_type, request_method, newest, bodies>>
  BY DEF Undisturbed, Unswitched, schedule, request
<1>3. globals' \in Globals /\ GlobalsInv(globals', expected', now', orphaned')
  BY <1>2 DEF ScopeInv, TypeOK
<1>4. Rest' /\ Schedule' /\ Bodies'
  BY <1>1, <1>2 DEF Rest, Schedule, Bodies
<1> QED
  BY <1>2, <1>3, <1>4, Together

LEMMA ObjectsStep ==
  ASSUME ScopeInv, NEW a \in Addresses, NEW h \in Handles,
         Allocate(a, h) \/ Construct(a, h) \/ Seal(a, h) \/ WriteProperty(a, h) \/ Free(a, h)
  PROVE  ScopeInv'
<1>1. Rest /\ Schedule
  BY RestHolds DEF ScopeInv
<1>2. \A c \in Addresses : wrote[c] = {} \/ job[c].role \notin {"none", "idle"}
  BY <1>1 DEF Schedule
<1>3. CASE Allocate(a, h)
  <2>1. made' \in [Handles -> 0 .. MaxObjects] /\ builder' \in [Handles -> Addresses \cup {Null}]
    BY <1>1, <1>3, ScopeConstants DEF Allocate, Rest
  <2>2. wrote' = wrote /\ UNCHANGED <<Undisturbed, globals, request, expected>>
    BY <1>3 DEF Allocate
  <2> QED
    BY <1>1, <1>2, <1>3, <2>1, <2>2, AllocateKeeps, ObjectStep DEF Rest
<1>4. CASE Construct(a, h)
  <2> DEFINE v == <<"constructor", made[h]>>
  <2>1. /\ now = a /\ builder[h] = a /\ objects' = [objects EXCEPT !.slots[h] = v]
        /\ UNCHANGED <<Undisturbed, globals, builder, made, request, expected, wrote>>
    BY <1>4 DEF Construct, Runs
  <2>2. HandleInv(objects, now, builder, made, wrote, h) /\ FiberInv(objects, now, made, job, wrote, stained, a, h)
    BY DEF ScopeInv, ObjectsInv
  <2>3. objects.live[h] # 0 /\ made[h] = objects.live[h] /\ made[h] \in 1 .. MaxObjects /\ made[h] \in Nat
    BY <1>1, <2>1, <2>2, Names, ScopeConstants DEF HandleInv, Rest
  <2>4. h \notin wrote[a]
    <3>1. objects.slots[h] = <<"default", made[h]>> /\ View(objects, now, a, h) = objects.slots[h]
      BY <1>4, <2>1 DEF Construct, View
    <3> QED
      BY <2>2, <3>1, Names DEF FiberInv
  <2>5. v \in Properties /\ ~Written(v) /\ v[2] = made[h]
    <3>1. v \in Properties
      BY <2>3 DEF Properties
    <3>2. ~Written(v)
      BY <2>3, PropertyNames
    <3> QED
      BY <3>1, <3>2
  <2> HIDE DEF v
  <2>6. objects' \in Objects /\ ObjectsInv(objects', now, builder, made, job, wrote, stained)
    BY <2>1, <2>3, <2>4, <2>5, PutKeeps
  <2> QED
    BY <1>1, <1>2, <2>1, <2>6, ObjectStep DEF Rest
<1>5. CASE Seal(a, h)
  <2>1. builder' \in [Handles -> Addresses \cup {Null}]
    BY <1>1, <1>5 DEF Seal, Rest
  <2>2. wrote' = wrote /\ made' = made /\ UNCHANGED <<Undisturbed, globals, request, expected>>
    BY <1>5 DEF Seal
  <2> QED
    BY <1>1, <1>2, <1>5, <2>1, <2>2, SealKeeps, ObjectStep DEF Rest
<1>6. CASE WriteProperty(a, h)
  <2> DEFINE v == <<job[a].req, made[h]>>
  <2>1. /\ now = a /\ job[a].role \notin {"none", "idle"} /\ objects.live[h] # 0 /\ builder[h] = Null
        /\ objects' = [objects EXCEPT !.slots[h] = v] /\ wrote' = [wrote EXCEPT ![a] = @ \cup {h}]
        /\ UNCHANGED <<Undisturbed, globals, builder, made, request, expected>>
    BY <1>6 DEF WriteProperty, Runs
  <2>2. HandleInv(objects, now, builder, made, wrote, h)
    BY DEF ScopeInv, ObjectsInv
  <2>3. made[h] \in 1 .. MaxObjects /\ job[a].req \in Requests
    BY <1>1, <2>1, <2>2, ScopeConstants DEF HandleInv, Rest, Schedule
  <2>4. v \in Properties /\ v[2] = made[h]
    BY <2>3 DEF Properties
  <2>5. wrote' \in [Addresses -> SUBSET Handles] /\ \A c \in Addresses : wrote'[c] = IF c = a THEN wrote[c] \cup {h} ELSE wrote[c]
    BY <1>1, <2>1 DEF Rest
  <2>6. objects' \in Objects /\ ObjectsInv(objects', now, builder, made, job, wrote', stained)
    <3>1. v = <<job[a].req, made[h]>>
      OBVIOUS
    <3> HIDE DEF v
    <3>2. h \in wrote'[a]
      BY <2>5
    <3>3. /\ \A k \in Handles \ {h}, c \in Addresses : k \in wrote'[c] <=> k \in wrote[c]
          /\ \A c \in Addresses \ {a} : h \in wrote'[c] <=> h \in wrote[c]
      BY <2>5
    <3> QED
      BY <2>1, <2>3, <2>4, <3>1, <3>2, <3>3, PutKeeps
  <2> QED
    BY <1>1, <1>2, <2>1, <2>5, <2>6, ObjectStep DEF Rest
<1>7. CASE Free(a, h)
  <2>1. builder' \in [Handles -> Addresses \cup {Null}]
    BY <1>1, <1>7 DEF Free, Rest
  <2>2. made' = made /\ UNCHANGED <<Undisturbed, globals, request, expected>> /\ wrote' = [c \in Addresses |-> wrote[c] \ {h}]
    BY <1>7 DEF Free
  <2>3. wrote' \in [Addresses -> SUBSET Handles]
    BY <1>1, <2>2 DEF Rest
  <2>4. \A c \in Addresses : wrote'[c] = {} \/ job[c].role \notin {"none", "idle"}
    BY <1>2, <2>2
  <2> QED
    BY <1>1, <1>7, <2>1, <2>2, <2>3, <2>4, FreeKeeps, ObjectStep DEF Rest
<1> QED
  BY <1>3, <1>4, <1>5, <1>6, <1>7

LEMMA ReadPostStep ==
  ASSUME ScopeInv, NEW a \in Addresses, read_post(a)
  PROVE  ScopeInv'
<1>1. Rest /\ Schedule /\ Bodies
  BY RestHolds DEF ScopeInv
<1>2. /\ bodies' = [bodies EXCEPT ![a].read = @ + Taken(bodies[a])]
      /\ UNCHANGED <<now, job, resumer, spawned, begun, globals, objects, builder, made, content_type,
                     request_method, newest, expected, writes, wrote, stained, orphaned>>
  BY DEF read_post, current, Undisturbed, Unswitched, schedule
<1>3. bodies[a] \in [of : Requests \cup {Null}, read : 0 .. BodyBytes]
  BY <1>1 DEF Rest
<1>4. bodies[a].read + Taken(bodies[a]) \in 0 .. BodyBytes
  BY <1>3, ScopeConstants DEF Taken
<1>5. bodies' \in [Addresses -> [of : Requests \cup {Null}, read : 0 .. BodyBytes]]
  BY <1>1, <1>2, <1>4 DEF Rest
<1>6. \A c \in Addresses : bodies'[c].of = bodies[c].of
  BY <1>1, <1>2, <1>3 DEF Rest
<1>7. Rest' /\ Schedule'
  BY <1>1, <1>2, <1>5 DEF Rest, Schedule
<1>8. Bodies'
  BY <1>1, <1>2, <1>6 DEF Bodies
<1>9. /\ globals' \in Globals /\ objects' \in Objects
      /\ GlobalsInv(globals', expected', now', orphaned')
      /\ ObjectsInv(objects', now', builder', made', job', wrote', stained')
  BY <1>2 DEF ScopeInv, TypeOK
<1> QED
  BY <1>7, <1>8, <1>9, Together

-----------------------------------------------------------------------------
(* The theorems.                                                           *)

LEMMA InitInv == Init => ScopeInv
<1> SUFFICES ASSUME Init PROVE ScopeInv
  OBVIOUS
<1> USE DEF Init
<1>1. Main \in Scopes /\ Main \notin Addresses
  BY Names DEF Scopes
<1>2. globals \in Globals /\ GlobalsInv(globals, expected, now, orphaned)
  <2>1. globals \in Globals
    BY ArrayNames DEF Globals
  <2>2. expected[Main] = BaseArray /\ \A a \in Addresses : expected[a] = NoArray
    BY <1>1, InScopes
  <2> QED
    BY <2>1, <2>2, Names, ArrayNames DEF GlobalsInv, World, OwnArray
<1>3. objects \in Objects
  <2>1. /\ [h \in Handles |-> 0] \in [Handles -> 0 .. MaxObjects]
        /\ [h \in Handles |-> Undef] \in [Handles -> Properties \cup {Undef}]
        /\ [s \in Scopes |-> [h \in Handles |-> NoRow]] \in [Scopes -> [Handles -> Properties \cup {Undef, NoRow}]]
    BY ScopeConstants
  <2> QED
    BY <2>1 DEF Objects
<1>4. ObjectsInv(objects, now, builder, made, job, wrote, stained)
  <2> SUFFICES ASSUME NEW h \in Handles
               PROVE  /\ HandleInv(objects, now, builder, made, wrote, h)
                      /\ \A a \in Addresses : FiberInv(objects, now, made, job, wrote, stained, a, h)
    BY DEF ObjectsInv
  <2>1. /\ objects.live[h] = 0 /\ objects.slots[h] = Undef /\ \A s \in Scopes : objects.rows[s][h] = NoRow
        /\ builder[h] = Null /\ \A a \in Addresses : wrote[a] = {}
    OBVIOUS
  <2>2. \A s \in Scopes : View(objects, now, s, h) \in {Undef, NoRow}
    BY <2>1 DEF View
  <2>3. now \in Scopes /\ Addresses \subseteq Scopes
    BY <1>1 DEF Scopes
  <2> QED
    BY <2>1, <2>2, <2>3, PropertyNames DEF HandleInv, FiberInv
<1>5. Schedule /\ Bodies
  BY DEF Schedule, Bodies, NoFiber
<1>6. TypeOK
  <2>1. bodies \in [Addresses -> [of : Requests \cup {Null}, read : 0 .. BodyBytes]]
    BY ScopeConstants DEF NoBody
  <2>2. job \in [Addresses -> [req : Requests \cup {Null},
                               role : {"none", "idle", "entering", "handler", "child", "raw"}]]
    BY DEF NoFiber
  <2>3. /\ spawned \in [{"child", "raw"} -> 0 .. MaxSpawns] /\ made \in [Handles -> 0 .. MaxObjects]
        /\ writes \in 0 .. MaxWrites
    BY ScopeConstants
  <2> QED
    BY <1>1, <1>2, <1>3, <2>1, <2>2, <2>3, ArrayNames DEF TypeOK
<1> QED
  BY <1>2, <1>4, <1>5, <1>6 DEF ScopeInv

LEMMA StepInv == ScopeInv /\ [Next]_vars => ScopeInv'
<1> SUFFICES ASSUME ScopeInv, [Next]_vars PROVE ScopeInv'
  OBVIOUS
<1>1. Rest /\ Schedule /\ Main \in Scopes /\ Addresses \subseteq Scopes /\ Main \notin Addresses
  BY RestHolds, Names DEF ScopeInv, Scopes
<1>2. CASE UNCHANGED vars
  <2>1. Rest' /\ Schedule' /\ Bodies'
    BY <1>1, <1>2 DEF ScopeInv, Rest, Schedule, Bodies, vars, schedule, request
  <2>2. /\ globals' \in Globals /\ objects' \in Objects
        /\ GlobalsInv(globals', expected', now', orphaned')
        /\ ObjectsInv(objects', now', builder', made', job', wrote', stained')
    BY <1>2 DEF ScopeInv, TypeOK, vars, schedule, request
  <2> QED
    BY <2>1, <2>2, Together
<1>3. ASSUME NEW a \in Addresses, NEW r \in Requests, BeginRequest(a, r)
      PROVE  ScopeInv'
  <2>1. begun' \subseteq Requests /\ spawned' \in [{"child", "raw"} -> 0 .. MaxSpawns] /\ Begin(a, r, "entering")
    BY <1>1, <1>3 DEF BeginRequest, Rest
  <2> QED
    BY <2>1, BeginStep
<1>4. ASSUME NEW a \in Addresses, NEW r \in Requests, BeginChild(a, r)
      PROVE  ScopeInv'
  <2>1. begun' \subseteq Requests /\ Begin(a, r, "child")
    BY <1>1, <1>4 DEF BeginChild, Rest
  <2>2. spawned' \in [{"child", "raw"} -> 0 .. MaxSpawns]
    BY <1>1, <1>4, ScopeConstants DEF BeginChild, Rest
  <2> QED
    BY <2>1, <2>2, BeginStep
<1>5. ASSUME NEW a \in Addresses, Resume(a)
      PROVE  ScopeInv'
  BY <1>1, <1>5, PlainSwitchStep DEF Resume
<1>6. ASSUME NEW a \in Addresses, Suspend(a)
      PROVE  ScopeInv'
  <2> DEFINE to == IF job[a].role = "raw" THEN resumer[a] ELSE Main
  <2>1. to \in Scopes /\ now # to /\ Switch(now, to)
    BY <1>1, <1>6 DEF Suspend, Runs, Schedule
  <2> HIDE DEF to
  <2> QED
    BY <1>6, <2>1, PlainSwitchStep DEF Suspend
<1>7. ASSUME NEW a \in Addresses, NEW c \in Addresses, StartRaw(a, c)
      PROVE  ScopeInv'
  BY <1>7, StartRawStep
<1>8. ASSUME NEW a \in Addresses, NEW c \in Addresses, ResumeRaw(a, c)
      PROVE  ScopeInv'
  <2>1. c \in Scopes /\ now # c /\ Switch(now, c)
    BY <1>1, <1>8 DEF ResumeRaw, Runs, Schedule
  <2> QED
    BY <1>8, <2>1, PlainSwitchStep DEF ResumeRaw
<1>9. ASSUME NEW c \in Addresses, EndRaw(c)
      PROVE  ScopeInv'
  BY <1>9, EndRawStep
<1>10. ASSUME NEW a \in Addresses, EndChild(a) \/ enterRequest(a) \/ releaseRequest(a)
       PROVE  ScopeInv'
  BY <1>10, EndChildStep, EnterStep, ReleaseStep
<1>11. ASSUME NEW a \in Addresses, SetSuperglobals(a) \/ WriteSuperglobal(a)
       PROVE  ScopeInv'
  BY <1>11, SetSuperglobalsStep, WriteSuperglobalStep
<1>12. ASSUME NEW a \in Addresses, NEW h \in Handles,
              Allocate(a, h) \/ Construct(a, h) \/ Seal(a, h) \/ WriteProperty(a, h) \/ Free(a, h)
       PROVE  ScopeInv'
  BY <1>12, ObjectsStep
<1>13. ASSUME NEW a \in Addresses, read_post(a)
       PROVE  ScopeInv'
  BY <1>13, ReadPostStep
<1> QED
  BY <1>2, <1>3, <1>4, <1>5, <1>6, <1>7, <1>8, <1>9, <1>10, <1>11, <1>12, <1>13 DEF Next

LEMMA Invariance == Spec => []ScopeInv
BY InitInv, StepInv, PTL DEF Spec

\* superglobals.rs on_switch: whichever contexts run in between, a fiber with
\* superglobals of its own finds them as it, or a fiber without a slot that
\* ran under its view, left them, and the loop sees the base world, with what
\* such fibers wrote there, unless the owner of the installed view died.
THEOREM SuperglobalsStayOwn == Spec => []OwnSuperglobals
<1>1. ScopeInv => OwnSuperglobals
  <2> SUFFICES ASSUME ScopeInv PROVE SeesOwn /\ BaseKept
    BY DEF ScopeInv, OwnSuperglobals
  <2>1. GlobalsInv(globals, expected, now, orphaned) /\ now \in Scopes
    BY DEF ScopeInv, TypeOK
  <2>2. SeesOwn
    <3> SUFFICES ASSUME now # Main, expected[now] # NoArray PROVE globals.table = expected[now]
      BY DEF SeesOwn
    <3>1. now \in Addresses
      BY <2>1 DEF Scopes
    <3> QED
      BY <2>1, <3>1 DEF GlobalsInv, World, OwnArray
  <2>3. BaseKept
    BY <2>1 DEF BaseKept, GlobalsInv, World
  <2> QED
    BY <2>2, <2>3
<1> QED
  BY <1>1, Invariance, PTL

\* scoped.rs on_switch and seal: a job finds what it wrote into a scoped
\* object, whoever else ran, wrote, or finished a constructor meanwhile.
THEOREM OwnPropertyKept == Spec => []KeepsOwnProperty
<1>1. ScopeInv => KeepsOwnProperty
  <2> SUFFICES ASSUME ScopeInv, now # Main, NEW h \in wrote[now]
               PROVE  objects.slots[h] = <<job[now].req, made[h]>>
    BY DEF KeepsOwnProperty
  <2>1. now \in Addresses /\ h \in Handles
    BY DEF ScopeInv, TypeOK, Scopes
  <2>2. FiberInv(objects, now, made, job, wrote, stained, now, h)
    BY <2>1 DEF ScopeInv, ObjectsInv
  <2> QED
    BY <2>2 DEF FiberInv, View
<1> QED
  BY <1>1, Invariance, PTL

\* scoped.rs rows_clear: no fiber reads what another request wrote into a
\* scoped object, except at an address where a child or a raw fiber wrote.
THEOREM PoolStaysClean == Spec => []PooledIsClean
<1>1. ScopeInv => PooledIsClean
  <2> SUFFICES ASSUME ScopeInv, now \notin stained, NEW h \in Handles, Written(objects.slots[h])
               PROVE  now # Main /\ objects.slots[h][1] = job[now].req
    BY DEF PooledIsClean, Private, Written
  <2>1. now \in Scopes
    BY DEF ScopeInv, TypeOK
  <2>2. HandleInv(objects, now, builder, made, wrote, h) /\ View(objects, now, now, h) = objects.slots[h]
    BY DEF ScopeInv, ObjectsInv, View
  <2>3. now # Main /\ now \in Addresses
    BY <2>1, <2>2 DEF HandleInv, Scopes
  <2>4. FiberInv(objects, now, made, job, wrote, stained, now, h)
    BY <2>3 DEF ScopeInv, ObjectsInv
  <2>5. objects.slots[h] = <<job[now].req, made[h]>>
    BY <2>2, <2>4 DEF FiberInv
  <2> QED
    BY <2>3, <2>5
<1> QED
  BY <1>1, Invariance, PTL

\* scoped.rs free_obj: a handle that is used again shows no property of the
\* object that had it before, in whichever scope the code runs.
THEOREM NothingOfTheDead == Spec => []NoDeadProperty
<1>1. ScopeInv => NoDeadProperty
  <2> SUFFICES ASSUME ScopeInv, NEW h \in Handles, objects.slots[h] # Undef
               PROVE  objects.slots[h][2] = made[h]
    BY DEF NoDeadProperty, Live
  <2>1. objects \in Objects /\ now \in Scopes
    BY DEF ScopeInv, TypeOK
  <2>2. HandleInv(objects, now, builder, made, wrote, h) /\ View(objects, now, now, h) = objects.slots[h]
    BY DEF ScopeInv, ObjectsInv, View
  <2>3. objects.slots[h] # NoRow
    BY <2>1, ObjectFields, PropertyNames
  <2> QED
    BY <2>1, <2>2, <2>3 DEF HandleInv
<1> QED
  BY <1>1, Invariance, PTL

\* post.rs enter and leave: a handler is given its own body however many others
\* came and went, and its own content type and method until another request
\* enters or any leaves; content_type never points into a body that is gone,
\* and never goes with the method of another request.
THEOREM BodyStaysOwn == Spec => []BodyIsOwn
<1>1. ScopeInv => BodyIsOwn
  BY DEF ScopeInv, TypeOK, Scopes, Bodies, BodyIsOwn, current
<1> QED
  BY <1>1, Invariance, PTL
=============================================================================
