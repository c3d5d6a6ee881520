------------------------------- MODULE OpBoard -------------------------------
(***************************************************************************)
(* What the reactor promises the PHP thread, with no dispatcher, tasks,    *)
(* claims or channels in sight.  A board of open ids: an op is opened once *)
(* and completed once; a request may be opened again, for its cancellation *)
(* ("a second completion on the same id").  Completions are consumed in    *)
(* the order they were made, and `inflight` counts exactly what is open or *)
(* not consumed.                                                           *)
(***************************************************************************)
EXTENDS Naturals, Sequences, FiniteSets

CONSTANT Ids

VARIABLES
  used,         \* ids ever handed out
  open,         \* ids whose completion is still to come
  unread,       \* completed ids, in order, not consumed yet
  inflight      \* what ignis_inflight() reports

boardVars == <<used, open, unread, inflight>>

BoardInit ==
  /\ used = {}
  /\ open = {}
  /\ unread = <<>>
  /\ inflight = 0

\* An op is submitted, or a request or a wake-up is on its way.
Open(id) ==
  /\ id \notin used
  /\ used' = used \cup {id}
  /\ open' = open \cup {id}
  /\ inflight' = inflight + 1
  /\ UNCHANGED unread

\* The client of a request PHP was handed goes away.
Reopen(id) ==
  /\ id \in used \ open
  /\ open' = open \cup {id}
  /\ inflight' = inflight + 1
  /\ UNCHANGED <<used, unread>>

Complete(id) ==
  /\ id \in open
  /\ open' = open \ {id}
  /\ unread' = Append(unread, id)
  /\ UNCHANGED <<used, inflight>>

\* A watch on a descriptor that is ready already.
OpenCompleted(id) ==
  /\ id \notin used
  /\ used' = used \cup {id}
  /\ unread' = Append(unread, id)
  /\ inflight' = inflight + 1
  /\ UNCHANGED open

\* One poll's worth is consumed.
Consume ==
  \E k \in 1..Len(unread) :
    /\ unread' = SubSeq(unread, k + 1, Len(unread))
    /\ inflight' = inflight - k
    /\ UNCHANGED <<used, open>>

BoardNext ==
  \/ \E id \in Ids : Open(id) \/ Reopen(id) \/ Complete(id) \/ OpenCompleted(id)
  \/ Consume

BoardSpec == BoardInit /\ [][BoardNext]_boardVars
=============================================================================
