--------------------------- MODULE ReactorProofs ---------------------------
(***************************************************************************)
(* Reactor.tla for every MaxId and MaxServers: the type invariant, the     *)
(* ownership invariant OneOwner, the exactness of `inflight`, that a       *)
(* blocked poll has a completion coming, and that the reactor implements   *)
(* OpBoard.                                                                *)
(***************************************************************************)
EXTENDS Reactor, FiniteSetTheorems, TLAPS

USE BoundsAssumption

LEMMA TypeInit == Init => TypeOK
BY DEF Init, TypeOK, Ids, DispatcherStates, TaskStates, Idle

\* What the dispatcher takes off its queue is a submission.
LEMMA HeadSubmission ==
  ASSUME TypeOK, to_tokio # <<>>
  PROVE  /\ Head(to_tokio).id \in Ids
         /\ Head(to_tokio).op \in OpKinds
         /\ Head(to_tokio).target \in Ids \cup {0}
         /\ Tail(to_tokio) \in Seq(Submissions)
<1>1. Head(to_tokio) \in Submissions /\ Tail(to_tokio) \in Seq(Submissions)
  BY DEF TypeOK
<1> QED
  BY <1>1 DEF Submissions

\* An announced id and outcome make a completion in the channel.
LEMMA AnnounceTyped ==
  ASSUME TypeOK, NEW id \in Ids, NEW outcome \in Outcomes, announce(id, outcome)
  PROVE  done' \in Seq(Completions) /\ owed' \subseteq Ids
<1>1. [id |-> id, outcome |-> outcome] \in Completions
  BY DEF Completions
<1> QED
  BY <1>1 DEF announce, TypeOK

\* Every action keeps every variable in its type.
LEMMA TypeStep == TypeOK /\ [Next]_vars => TypeOK'
<1> SUFFICES ASSUME TypeOK, [Next]_vars PROVE TypeOK'
  OBVIOUS
<1> USE DEF channels, counters, tasks, phpThread, httpSide
<1>0. {"Slept", "Ready", "Error", "Custom", "Request", "Cancelled"} \subseteq Outcomes
  BY DEF Outcomes
<1>1. ASSUME NEW op \in OpKinds, NEW target \in Ids \cup {0}, submit(op, target)
      PROVE  TypeOK'
  <2>1. [id |-> next_id, op |-> op, target |-> target] \in Submissions
    BY <1>1 DEF submit, Submissions
  <2> QED
    BY <1>1, <2>1 DEF submit, TypeOK, Ids
<1>2. CASE SubmitOp \/ SubmitCancel
  BY <1>1, <1>2, SMTT(30) DEF SubmitOp, SubmitCancel, OpKinds, TypeOK, Ids
<1>3. CASE WatchReadyNow
  <2>1. [id |-> next_id, outcome |-> "Ready"] \in Completions
    BY <1>0, <1>3 DEF WatchReadyNow, Completions
  <2> QED
    BY <1>3, <2>1 DEF WatchReadyNow, TypeOK, Ids
<1>4. CASE server_started
  BY <1>4 DEF server_started, TypeOK
<1>5. CASE DispatchSleep0
  <2>1. /\ to_tokio' \in Seq(Submissions)
        /\ done' \in Seq(Completions) /\ owed' \subseteq Ids
    BY <1>0, <1>5, HeadSubmission, AnnounceTyped DEF DispatchSleep0, Receives
  <2> QED
    BY <1>5, <2>1 DEF DispatchSleep0, TypeOK
<1>6. CASE DispatchSpawn
  <2>1. /\ to_tokio' \in Seq(Submissions)
        /\ Head(to_tokio).id \in Ids
    BY <1>6, HeadSubmission DEF DispatchSpawn, Receives
  <2> QED
    BY <1>6, <2>1 DEF DispatchSpawn, TypeOK, DispatcherStates, TaskStates
<1>7. CASE DispatchInsert
  BY <1>7 DEF DispatchInsert, TypeOK, DispatcherStates, Idle
<1>8. CASE DispatchCustom
  <2>1. /\ to_tokio' \in Seq(Submissions)
        /\ Head(to_tokio).id \in Ids
    BY <1>8, HeadSubmission DEF DispatchCustom, Receives
  <2> QED
    BY <1>8, <2>1 DEF DispatchCustom, TypeOK, TaskStates
<1>9. CASE CancelTake
  <2>1. /\ to_tokio' \in Seq(Submissions)
        /\ Head(to_tokio).id \in Ids
    BY <1>9, HeadSubmission DEF CancelTake, Receives
  <2> QED
    BY <1>9, <2>1 DEF CancelTake, TypeOK, DispatcherStates, TaskStates
<1>10. CASE CancelClaim
  <2>1. dispatcher.target \in Ids /\ dispatcher.id \in Ids
    BY <1>10 DEF CancelClaim, TypeOK, DispatcherStates, Idle
  <2>2. dispatcher' \in DispatcherStates
    BY <1>10, <2>1 DEF CancelClaim, TypeOK, DispatcherStates, Idle
  <2>3. CASE completed[dispatcher.target]
    BY <1>10, <2>2, <2>3 DEF CancelClaim, TypeOK
  <2>4. CASE ~completed[dispatcher.target]
    BY <1>0, <1>10, <2>1, <2>2, <2>4, AnnounceTyped DEF CancelClaim, TypeOK
  <2> QED
    BY <2>3, <2>4
<1>11. CASE CancelConfirm
  <2>1. dispatcher.id \in Ids
    BY <1>11 DEF CancelConfirm, TypeOK, DispatcherStates, Idle
  <2>2. done' \in Seq(Completions) /\ owed' \subseteq Ids
    BY <1>0, <1>11, <2>1, AnnounceTyped DEF CancelConfirm
  <2> QED
    BY <1>11, <2>2 DEF CancelConfirm, TypeOK, DispatcherStates
<1>12. ASSUME NEW id \in Ids, Task(id) PROVE TypeOK'
  <2>1. CASE TaskWake(id) \/ TaskUnlist(id) \/ TaskClaim(id)
    BY <2>1 DEF TaskWake, TaskUnlist, TaskClaim, TypeOK, TaskStates
  <2>2. CASE TaskSend(id)
    BY <1>0, <2>2, AnnounceTyped DEF TaskSend, TypeOK, TaskStates
  <2>3. CASE CustomSend(id)
    BY <1>0, <2>3, AnnounceTyped DEF CustomSend, TypeOK, TaskStates
  <2> QED
    BY <1>12, <2>1, <2>2, <2>3 DEF Task
<1>13. CASE Inject
  <2>1. [id |-> next_id, outcome |-> "Ready"] \in Completions
    BY <1>0, <1>13 DEF Inject, Completions
  <2> QED
    BY <1>13, <2>1 DEF Inject, TypeOK, Ids
<1>14. CASE deliver_request
  <2>1. [id |-> next_id, outcome |-> "Request"] \in Completions
    BY <1>0, <1>14 DEF deliver_request, Completions
  <2> QED
    BY <1>14, <2>1 DEF deliver_request, TypeOK, Ids
<1>15. CASE Produce
  BY <1>15 DEF Produce, TypeOK
<1>16. ASSUME NEW id \in Ids, cancel_request(id) PROVE TypeOK'
  <2>1. [id |-> id, outcome |-> "Cancelled"] \in Completions
    BY <1>0, <1>16 DEF Completions
  <2> QED
    BY <1>16, <2>1 DEF cancel_request, TypeOK
<1>17. ASSUME NEW id \in Ids, respond(id) PROVE TypeOK'
  BY <1>17 DEF respond, TypeOK
<1>18. CASE Poll
  <2>1. CASE PollCount
    <3>1. inflight' \in Nat
      BY <2>1 DEF PollCount, saturating_sub, TypeOK
    <3> QED
      BY <2>1, <3>1 DEF PollCount, TypeOK
  <2>2. CASE PollEnter
    BY <2>2 DEF PollEnter, TypeOK
  <2>3. CASE PollDrain
    BY <2>3 DEF PollDrain, TypeOK
  <2>4. CASE PollTimeout
    BY <2>4 DEF PollTimeout, TypeOK
  <2> QED
    BY <1>18, <2>1, <2>2, <2>3, <2>4 DEF Poll
<1>19. CASE UNCHANGED vars
  BY <1>19 DEF vars, TypeOK
<1> QED
  BY <1>2, <1>3, <1>4, <1>5, <1>6, <1>7, <1>8, <1>9, <1>10, <1>11, <1>12,
     <1>13, <1>14, <1>15, <1>16, <1>17, <1>18, <1>19
     DEF Next, Submit, Dispatch, Http

(***************************************************************************)
(* Type correctness: every state the reactor reaches has its type, for     *)
(* every bound on the ids.                                                 *)
(***************************************************************************)
THEOREM TypeCorrect == Spec => []TypeOK
BY TypeInit, TypeStep, PTL DEF Spec

-----------------------------------------------------------------------------
(* OneOwner is inductive, given the types.                                 *)

LEMMA OwnerInit == Init => OneOwner
BY DEF Init, OneOwner, QueueOwns, DispatcherOwns, TaskOwns, ProducersOwn,
       FreshIds, Spawned, Idle, Ids

\* The queue after a receive and after a send, element by element.
LEMMA TailFacts ==
  ASSUME TypeOK, to_tokio # <<>>
  PROVE  /\ 1 \in DOMAIN to_tokio
         /\ Head(to_tokio) = to_tokio[1]
         /\ \A k \in DOMAIN Tail(to_tokio) :
              /\ k + 1 \in DOMAIN to_tokio
              /\ k + 1 # 1
              /\ Tail(to_tokio)[k] = to_tokio[k + 1]
         /\ \A k \in DOMAIN Tail(to_tokio) : k \in Nat
BY DEF TypeOK

LEMMA AppendFacts ==
  ASSUME NEW S, NEW s \in Seq(S), NEW x
  PROVE  \A k \in DOMAIN Append(s, x) :
           \/ k \in DOMAIN s /\ Append(s, x)[k] = s[k]
           \/ k = Len(s) + 1 /\ k \notin DOMAIN s /\ Append(s, x)[k] = x
OBVIOUS

LEMMA OwnerStep == TypeOK /\ OneOwner /\ [Next]_vars => OneOwner'
<1> SUFFICES ASSUME TypeOK, OneOwner, [Next]_vars PROVE OneOwner'
  OBVIOUS
<1> USE DEF channels, counters, tasks, phpThread, httpSide, OneOwner
<1>ids. \A c \in producing : c.id \in Ids /\ c.outcome \in Outcomes
  BY DEF TypeOK, Completions
<1>tok. \A k \in DOMAIN to_tokio : to_tokio[k].id \in Ids
  <2>1. \A k \in DOMAIN to_tokio : to_tokio[k] \in Submissions
    BY DEF TypeOK
  <2> QED
    BY <2>1 DEF Submissions
<1>1. ASSUME NEW op \in OpKinds, NEW target \in Ids \cup {0}, submit(op, target),
             op = "CancelWatch" => target # 0
      PROVE  OneOwner'
  <2> DEFINE new == [id |-> next_id, op |-> op, target |-> target]
  <2>a. \A k \in DOMAIN to_tokio' :
          \/ k \in DOMAIN to_tokio /\ to_tokio'[k] = to_tokio[k]
          \/ k = Len(to_tokio) + 1 /\ k \notin DOMAIN to_tokio /\ to_tokio'[k] = new
    BY <1>1, AppendFacts DEF submit, TypeOK
  <2>b. /\ next_id \in Ids /\ next_id \notin owed
        /\ task[next_id] = "none" /\ task' = task
        /\ owed' = owed \cup {next_id} /\ dispatcher' = dispatcher
        /\ completed' = completed
    BY <1>1 DEF submit, FreshIds, TypeOK, Ids
  <2>c. new.id = next_id /\ (new.op = "CancelWatch" => new.target # 0)
    BY <1>1
  <2> HIDE DEF new
  <2>1. QueueOwns'
    BY <2>a, <2>b, <2>c DEF QueueOwns
  <2>2. DispatcherOwns'
    BY <2>a, <2>b, <2>c DEF DispatcherOwns, Spawned
  <2>3. TaskOwns'
    BY <1>1, AppendFacts
       DEF submit, TaskOwns, QueueOwns, DispatcherOwns, FreshIds, Spawned,
           Ids, TypeOK
  <2>4. ProducersOwn'
    BY <1>1, <1>ids DEF submit, ProducersOwn, FreshIds, Ids, TypeOK
  <2>5. FreshIds'
    BY <1>1, AppendFacts DEF submit, FreshIds, QueueOwns, Ids, TypeOK
  <2> QED
    BY <2>1, <2>2, <2>3, <2>4, <2>5
<1>2. CASE WatchReadyNow
  <2>1. QueueOwns'
    BY <1>2, <1>tok DEF WatchReadyNow, QueueOwns, TypeOK
  <2>2. DispatcherOwns'
    BY <1>2
       DEF WatchReadyNow, DispatcherOwns, QueueOwns, TaskOwns, Spawned,
           DispatcherStates, Idle, TypeOK
  <2>3. TaskOwns'
    BY <1>2
       DEF WatchReadyNow, TaskOwns, QueueOwns, DispatcherOwns, FreshIds,
           Spawned, Ids, TypeOK
  <2>4. ProducersOwn'
    BY <1>2, <1>ids DEF WatchReadyNow, ProducersOwn, FreshIds, Ids, TypeOK
  <2>5. FreshIds'
    BY <1>2 DEF WatchReadyNow, FreshIds, QueueOwns, Ids, TypeOK
  <2> QED
    BY <2>1, <2>2, <2>3, <2>4, <2>5
<1>3. CASE DispatchSleep0
  <2>1. QueueOwns'
    BY <1>3, TailFacts, HeadSubmission, <1>tok, SMTT(30)
       DEF DispatchSleep0, Receives, announce, QueueOwns, TypeOK
  <2>2. DispatcherOwns'
    BY <1>3, TailFacts, HeadSubmission
       DEF DispatchSleep0, Receives, announce, DispatcherOwns, QueueOwns,
           TaskOwns, Spawned, DispatcherStates, Idle, TypeOK
  <2>3. TaskOwns'
    BY <1>3, TailFacts, HeadSubmission
       DEF DispatchSleep0, Receives, announce, TaskOwns, QueueOwns,
           DispatcherOwns, FreshIds, Spawned, Ids, TypeOK
  <2>4. ProducersOwn'
    BY <1>3, <1>ids
       DEF DispatchSleep0, Receives, announce, ProducersOwn, FreshIds, Ids,
           TypeOK
  <2>5. FreshIds'
    BY <1>3, TailFacts, HeadSubmission
       DEF DispatchSleep0, Receives, announce, FreshIds, QueueOwns, Ids, TypeOK
  <2> QED
    BY <2>1, <2>2, <2>3, <2>4, <2>5
<1>4. CASE DispatchSpawn
  <2>1. QueueOwns'
    BY <1>4, TailFacts, HeadSubmission, <1>tok, SMTT(30)
       DEF DispatchSpawn, Receives, QueueOwns, TypeOK
  <2>2. DispatcherOwns'
    BY <1>4, TailFacts, HeadSubmission
       DEF DispatchSpawn, Receives, DispatcherOwns, QueueOwns, TaskOwns,
           Spawned, DispatcherStates, Idle, TypeOK
  <2>3. TaskOwns'
    BY <1>4, TailFacts, HeadSubmission
       DEF DispatchSpawn, Receives, TaskOwns, QueueOwns, DispatcherOwns,
           FreshIds, Spawned, Ids, TypeOK
  <2>4. ProducersOwn'
    BY <1>4, <1>ids
       DEF DispatchSpawn, Receives, ProducersOwn, FreshIds, Ids, TypeOK
  <2>5. FreshIds'
    BY <1>4, TailFacts, HeadSubmission
       DEF DispatchSpawn, Receives, FreshIds, QueueOwns, Ids, TypeOK
  <2> QED
    BY <2>1, <2>2, <2>3, <2>4, <2>5
<1>5. CASE DispatchInsert
  <2>1. QueueOwns'
    BY <1>5, <1>tok DEF DispatchInsert, QueueOwns, TypeOK
  <2>2. DispatcherOwns'
    BY <1>5
       DEF DispatchInsert, DispatcherOwns, QueueOwns, TaskOwns, Spawned,
           DispatcherStates, Idle, TypeOK
  <2>3. TaskOwns'
    BY <1>5
       DEF DispatchInsert, TaskOwns, QueueOwns, DispatcherOwns, FreshIds,
           Spawned, Ids, TypeOK
  <2>4. ProducersOwn'
    BY <1>5, <1>ids DEF DispatchInsert, ProducersOwn, FreshIds, Ids, TypeOK
  <2>5. FreshIds'
    BY <1>5 DEF DispatchInsert, FreshIds, QueueOwns, Ids, TypeOK
  <2> QED
    BY <2>1, <2>2, <2>3, <2>4, <2>5
<1>6. CASE DispatchCustom
  <2>1. QueueOwns'
    <3>1. /\ to_tokio' = Tail(to_tokio) /\ owed' = owed
          /\ task' = [task EXCEPT ![to_tokio[1].id] = "custom"]
      BY <1>6, TailFacts DEF DispatchCustom, Receives
    <3>2. \A k \in DOMAIN to_tokio' :
            /\ k + 1 \in DOMAIN to_tokio
            /\ to_tokio'[k] = to_tokio[k + 1]
            /\ to_tokio[k + 1].id # to_tokio[1].id
      BY <1>6, <3>1, TailFacts DEF DispatchCustom, Receives, QueueOwns
    <3>3. \A k \in DOMAIN to_tokio' : k \in Nat
      BY <1>6, <3>1, TailFacts DEF DispatchCustom, Receives
    <3> QED
      BY <3>1, <3>2, <3>3, <1>tok DEF QueueOwns, TypeOK
  <2>2. DispatcherOwns'
    BY <1>6, TailFacts, HeadSubmission
       DEF DispatchCustom, Receives, DispatcherOwns, QueueOwns, TaskOwns,
           Spawned, DispatcherStates, Idle, TypeOK
  <2>3. TaskOwns'
    BY <1>6, TailFacts, HeadSubmission
       DEF DispatchCustom, Receives, TaskOwns, QueueOwns, DispatcherOwns,
           FreshIds, Spawned, Ids, TypeOK
  <2>4. ProducersOwn'
    BY <1>6, <1>ids
       DEF DispatchCustom, Receives, ProducersOwn, FreshIds, Ids, TypeOK
  <2>5. FreshIds'
    BY <1>6, TailFacts, HeadSubmission
       DEF DispatchCustom, Receives, FreshIds, QueueOwns, Ids, TypeOK
  <2> QED
    BY <2>1, <2>2, <2>3, <2>4, <2>5
<1>7. CASE CancelTake
  <2>1. QueueOwns'
    BY <1>7, TailFacts, HeadSubmission, <1>tok, SMTT(30)
       DEF CancelTake, Receives, QueueOwns, TypeOK
  <2>2. DispatcherOwns'
    BY <1>7, TailFacts, HeadSubmission
       DEF CancelTake, Receives, DispatcherOwns, QueueOwns, TaskOwns,
           Spawned, DispatcherStates, Idle, TypeOK
  <2>3. TaskOwns'
    BY <1>7, TailFacts, HeadSubmission, SMTT(30)
       DEF CancelTake, Receives, TaskOwns, QueueOwns, DispatcherOwns,
           FreshIds, Spawned, Ids, TypeOK
  <2>4. ProducersOwn'
    BY <1>7, <1>ids
       DEF CancelTake, Receives, ProducersOwn, FreshIds, Ids, TypeOK
  <2>5. FreshIds'
    BY <1>7, TailFacts, HeadSubmission
       DEF CancelTake, Receives, FreshIds, QueueOwns, Ids, TypeOK
  <2> QED
    BY <2>1, <2>2, <2>3, <2>4, <2>5
<1>8. CASE CancelClaim
  <2>1. QueueOwns'
    BY <1>8, <1>tok
       DEF CancelClaim, announce, QueueOwns, DispatcherOwns, Spawned, TypeOK
  <2>2. DispatcherOwns'
    BY <1>8
       DEF CancelClaim, announce, DispatcherOwns, QueueOwns, TaskOwns,
           Spawned, DispatcherStates, Idle, TypeOK
  <2>3. TaskOwns'
    BY <1>8
       DEF CancelClaim, announce, TaskOwns, QueueOwns, DispatcherOwns,
           FreshIds, Spawned, Ids, TypeOK
  <2>4. ProducersOwn'
    BY <1>8, <1>ids
       DEF CancelClaim, announce, ProducersOwn, FreshIds, Ids, TypeOK
  <2>5. FreshIds'
    BY <1>8 DEF CancelClaim, announce, FreshIds, QueueOwns, Ids, TypeOK
  <2> QED
    BY <2>1, <2>2, <2>3, <2>4, <2>5
<1>9. CASE CancelConfirm
  <2>1. QueueOwns'
    BY <1>9, <1>tok
       DEF CancelConfirm, announce, QueueOwns, DispatcherOwns, TypeOK
  <2>2. DispatcherOwns'
    BY <1>9
       DEF CancelConfirm, announce, DispatcherOwns, QueueOwns, TaskOwns,
           Spawned, DispatcherStates, Idle, TypeOK
  <2>3. TaskOwns'
    BY <1>9
       DEF CancelConfirm, announce, TaskOwns, QueueOwns, DispatcherOwns,
           FreshIds, Spawned, Ids, TypeOK
  <2>4. ProducersOwn'
    BY <1>9, <1>ids
       DEF CancelConfirm, announce, ProducersOwn, FreshIds, Ids, TypeOK
  <2>5. FreshIds'
    BY <1>9 DEF CancelConfirm, announce, FreshIds, QueueOwns, Ids, TypeOK
  <2> QED
    BY <2>1, <2>2, <2>3, <2>4, <2>5
<1>10. ASSUME NEW id \in Ids, TaskWake(id) \/ TaskUnlist(id) \/ TaskClaim(id)
       PROVE  OneOwner'
  <2>1. QueueOwns'
    BY <1>10, <1>tok DEF TaskWake, TaskUnlist, TaskClaim, QueueOwns, TypeOK
  <2>2. DispatcherOwns'
    BY <1>10
       DEF TaskWake, TaskUnlist, TaskClaim, DispatcherOwns, QueueOwns,
           TaskOwns, Spawned, DispatcherStates, Idle, TypeOK
  <2>3. TaskOwns'
    BY <1>10
       DEF TaskWake, TaskUnlist, TaskClaim, TaskOwns, QueueOwns,
           DispatcherOwns, FreshIds, Spawned, Ids, TypeOK
  <2>4. ProducersOwn'
    BY <1>10, <1>ids
       DEF TaskWake, TaskUnlist, TaskClaim, ProducersOwn, FreshIds, Ids, TypeOK
  <2>5. FreshIds'
    <3>1. task[id] # "none" /\ (\A i \in Ids \ {id} : task'[i] = task[i])
      BY <1>10 DEF TaskWake, TaskUnlist, TaskClaim, TypeOK
    <3> QED
      BY <1>10, <3>1 DEF TaskWake, TaskUnlist, TaskClaim, FreshIds
  <2> QED
    BY <2>1, <2>2, <2>3, <2>4, <2>5
<1>11. ASSUME NEW id \in Ids, TaskSend(id) PROVE OneOwner'
  <2>1. QueueOwns'
    BY <1>11, <1>tok DEF TaskSend, announce, QueueOwns, TypeOK
  <2>2. DispatcherOwns'
    BY <1>11
       DEF TaskSend, announce, DispatcherOwns, QueueOwns, TaskOwns, Spawned,
           DispatcherStates, Idle, TypeOK
  <2>3. TaskOwns'
    BY <1>11
       DEF TaskSend, announce, TaskOwns, QueueOwns, DispatcherOwns,
           FreshIds, Spawned, Ids, TypeOK
  <2>4. ProducersOwn'
    BY <1>11, <1>ids
       DEF TaskSend, announce, ProducersOwn, FreshIds, Ids, TypeOK
  <2>5. FreshIds'
    BY <1>11 DEF TaskSend, announce, FreshIds, QueueOwns, Ids, TypeOK
  <2> QED
    BY <2>1, <2>2, <2>3, <2>4, <2>5
<1>12. ASSUME NEW id \in Ids, CustomSend(id) PROVE OneOwner'
  <2>1. QueueOwns'
    BY <1>12, <1>tok DEF CustomSend, announce, QueueOwns, TypeOK
  <2>2. DispatcherOwns'
    BY <1>12
       DEF CustomSend, announce, DispatcherOwns, QueueOwns, TaskOwns,
           Spawned, DispatcherStates, Idle, TypeOK
  <2>3. TaskOwns'
    BY <1>12
       DEF CustomSend, announce, TaskOwns, QueueOwns, DispatcherOwns,
           FreshIds, Spawned, Ids, TypeOK
  <2>4. ProducersOwn'
    BY <1>12, <1>ids
       DEF CustomSend, announce, ProducersOwn, FreshIds, Ids, TypeOK
  <2>5. FreshIds'
    BY <1>12 DEF CustomSend, announce, FreshIds, QueueOwns, Ids, TypeOK
  <2> QED
    BY <2>1, <2>2, <2>3, <2>4, <2>5
<1>13. CASE Inject
  <2>1. QueueOwns'
    BY <1>13, <1>tok DEF Inject, QueueOwns, TypeOK
  <2>2. DispatcherOwns'
    BY <1>13
       DEF Inject, DispatcherOwns, QueueOwns, TaskOwns, Spawned,
           DispatcherStates, Idle, TypeOK
  <2>3. TaskOwns'
    BY <1>13
       DEF Inject, TaskOwns, QueueOwns, DispatcherOwns, FreshIds, Spawned,
           Ids, TypeOK
  <2>4. ProducersOwn'
    BY <1>13, <1>ids DEF Inject, ProducersOwn, FreshIds, Ids, TypeOK
  <2>5. FreshIds'
    BY <1>13 DEF Inject, FreshIds, QueueOwns, Ids, TypeOK
  <2> QED
    BY <2>1, <2>2, <2>3, <2>4, <2>5
<1>14. CASE deliver_request
  <2>1. QueueOwns'
    BY <1>14, <1>tok DEF deliver_request, QueueOwns, TypeOK
  <2>2. DispatcherOwns'
    BY <1>14
       DEF deliver_request, DispatcherOwns, QueueOwns, TaskOwns, Spawned,
           DispatcherStates, Idle, TypeOK
  <2>3. TaskOwns'
    BY <1>14
       DEF deliver_request, TaskOwns, QueueOwns, DispatcherOwns, FreshIds,
           Spawned, Ids, TypeOK
  <2>4. ProducersOwn'
    BY <1>14, <1>ids DEF deliver_request, ProducersOwn, FreshIds, Ids, TypeOK
  <2>5. FreshIds'
    BY <1>14 DEF deliver_request, FreshIds, QueueOwns, Ids, TypeOK
  <2> QED
    BY <2>1, <2>2, <2>3, <2>4, <2>5
<1>15. CASE Produce
  <2>1. QueueOwns'
    BY <1>15, <1>tok DEF Produce, QueueOwns, TypeOK
  <2>2. DispatcherOwns'
    BY <1>15
       DEF Produce, DispatcherOwns, QueueOwns, TaskOwns, Spawned,
           DispatcherStates, Idle, TypeOK
  <2>3. TaskOwns'
    BY <1>15
       DEF Produce, TaskOwns, QueueOwns, DispatcherOwns, FreshIds, Spawned,
           Ids, TypeOK
  <2>4. ProducersOwn'
    BY <1>15, <1>ids DEF Produce, ProducersOwn, FreshIds, Ids, TypeOK
  <2>5. FreshIds'
    BY <1>15 DEF Produce, FreshIds, QueueOwns, Ids, TypeOK
  <2> QED
    BY <2>1, <2>2, <2>3, <2>4, <2>5
<1>16. ASSUME NEW id \in Ids, cancel_request(id) PROVE OneOwner'
  <2>1. QueueOwns'
    BY <1>16, <1>tok DEF cancel_request, QueueOwns, TypeOK
  <2>2. DispatcherOwns'
    BY <1>16
       DEF cancel_request, DispatcherOwns, QueueOwns, TaskOwns, Spawned,
           DispatcherStates, Idle, TypeOK
  <2>3. TaskOwns'
    BY <1>16
       DEF cancel_request, TaskOwns, QueueOwns, DispatcherOwns, FreshIds,
           Spawned, Ids, TypeOK
  <2>4. ProducersOwn'
    <3> DEFINE new == [id |-> id, outcome |-> "Cancelled"]
    <3>1. /\ producing' = producing \cup {new} /\ answers' = answers \ {id}
          /\ next_id' = next_id /\ owed' = owed /\ id \in answers
      BY <1>16 DEF cancel_request
    <3>2. \A c \in producing : c.id # id
      <4>1. \A c \in producing : c = [id |-> c.id, outcome |-> c.outcome]
        BY DEF TypeOK, Completions
      <4> QED
        BY <1>16, <4>1 DEF cancel_request, ProducersOwn
    <3>3. new.id = id
      OBVIOUS
    <3> HIDE DEF new
    <3> QED
      BY <3>1, <3>2, <3>3 DEF ProducersOwn, FreshIds
  <2>5. FreshIds'
    BY <1>16 DEF cancel_request, FreshIds, QueueOwns, Ids, TypeOK
  <2> QED
    BY <2>1, <2>2, <2>3, <2>4, <2>5
<1>17. ASSUME NEW id \in Ids, respond(id) PROVE OneOwner'
  <2>1. QueueOwns'
    BY <1>17, <1>tok DEF respond, QueueOwns, TypeOK
  <2>2. DispatcherOwns'
    BY <1>17
       DEF respond, DispatcherOwns, QueueOwns, TaskOwns, Spawned,
           DispatcherStates, Idle, TypeOK
  <2>3. TaskOwns'
    BY <1>17
       DEF respond, TaskOwns, QueueOwns, DispatcherOwns, FreshIds, Spawned,
           Ids, TypeOK
  <2>4. ProducersOwn'
    BY <1>17, <1>ids DEF respond, ProducersOwn, FreshIds, Ids, TypeOK
  <2>5. FreshIds'
    BY <1>17 DEF respond, FreshIds, QueueOwns, Ids, TypeOK
  <2> QED
    BY <2>1, <2>2, <2>3, <2>4, <2>5
<1>18. CASE server_started \/ Poll \/ UNCHANGED vars
  BY <1>18 DEF server_started, Poll, PollEnter, PollDrain, PollCount, PollTimeout,
               vars, QueueOwns, DispatcherOwns, TaskOwns, ProducersOwn, FreshIds,
               Spawned
<1>19. CASE SubmitOp \/ SubmitCancel
  BY <1>1, <1>19 DEF SubmitOp, SubmitCancel, OpKinds, TypeOK, Ids
<1> QED
  BY <1>2, <1>3, <1>4, <1>5, <1>6, <1>7, <1>8, <1>9, <1>10, <1>11, <1>12,
     <1>13, <1>14, <1>15, <1>16, <1>17, <1>18, <1>19
     DEF Next, Submit, Dispatch, Task, Http

(***************************************************************************)
(* One owner per op: an op that is owed has exactly one place that will    *)
(* announce it, however the dispatcher, its task and a cancellation        *)
(* interleave.                                                             *)
(***************************************************************************)
THEOREM OwnersCorrect == Spec => []OneOwner
BY TypeInit, TypeStep, OwnerInit, OwnerStep, PTL DEF Spec

-----------------------------------------------------------------------------
(* The count.                                                              *)

\* InflightExact with what its induction needs: the sets it counts are
\* finite, and poll holds a batch only between its drain and its subtraction.
Counted ==
  /\ IsFiniteSet(owed)
  /\ IsFiniteSet(producing)
  /\ php # "drained" => batch = <<>>
  /\ InflightExact

LEMMA CountedInit == Init => Counted
BY FS_EmptySet DEF Init, Counted, InflightExact

\* An announcement moves one unit from `owed` to the channel.
LEMMA AnnounceCounted ==
  ASSUME TypeOK, Counted, NEW id \in owed, NEW outcome, announce(id, outcome),
         inflight' = inflight, producing' = producing, batch' = batch, php' = php
  PROVE  Counted'
<1>1. IsFiniteSet(owed') /\ Cardinality(owed') = Cardinality(owed) - 1
  BY FS_RemoveElement DEF Counted, announce
<1>2. Len(done') = Len(done) + 1
  BY DEF announce, TypeOK
<1>3. /\ Cardinality(owed) \in Nat /\ Cardinality(producing) \in Nat
      /\ Len(done) \in Nat /\ Len(batch) \in Nat
  BY FS_CardinalityType DEF Counted, TypeOK
<1> QED
  BY <1>1, <1>2, <1>3 DEF Counted, InflightExact

LEMMA CountedStep == TypeOK /\ OneOwner /\ Counted /\ [Next]_vars => Counted'
<1> SUFFICES ASSUME TypeOK, OneOwner, Counted, [Next]_vars PROVE Counted'
  OBVIOUS
<1> USE DEF channels, counters, tasks, phpThread, httpSide
<1>0. /\ Cardinality(owed) \in Nat /\ Cardinality(producing) \in Nat
      /\ Len(done) \in Nat /\ Len(batch) \in Nat /\ inflight \in Nat
  BY FS_CardinalityType DEF Counted, TypeOK
<1>1. CASE SubmitOp \/ SubmitCancel
  <2>0. next_id \notin owed
    BY DEF OneOwner, FreshIds, TypeOK
  <2>1. /\ owed' = owed \cup {next_id}
        /\ inflight' = inflight + 1 /\ producing' = producing
        /\ done' = done /\ batch' = batch /\ php' = php
    BY <1>1 DEF SubmitOp, SubmitCancel, submit
  <2>2. IsFiniteSet(owed') /\ Cardinality(owed') = Cardinality(owed) + 1
    BY <2>0, <2>1, FS_AddElement DEF Counted
  <2> QED
    BY <1>0, <2>1, <2>2 DEF Counted, InflightExact
<1>2. CASE WatchReadyNow
  <2>1. Len(done') = Len(done) + 1
    BY <1>2 DEF WatchReadyNow, TypeOK
  <2> QED
    BY <1>0, <1>2, <2>1 DEF WatchReadyNow, Counted, InflightExact
<1>3. CASE DispatchSleep0
  <2>1. Head(to_tokio).id \in owed
    BY <1>3, TailFacts DEF DispatchSleep0, Receives, OneOwner, QueueOwns
  <2> QED
    BY <1>3, <2>1, AnnounceCounted DEF DispatchSleep0
<1>4. CASE CancelClaim
  <2>1. CASE completed[dispatcher.target]
    BY <1>4, <2>1 DEF CancelClaim, Counted, InflightExact
  <2>2. CASE ~completed[dispatcher.target]
    <3>1. dispatcher.target \in Ids /\ Spawned(dispatcher.target)
      BY <1>4 DEF CancelClaim, OneOwner, DispatcherOwns, TypeOK, DispatcherStates, Idle
    <3>2. dispatcher.target \in owed
      BY <2>2, <3>1 DEF OneOwner, TaskOwns
    <3> QED
      BY <1>4, <2>2, <3>2, AnnounceCounted DEF CancelClaim
  <2> QED
    BY <2>1, <2>2
<1>5. CASE CancelConfirm
  <2>1. dispatcher.id \in owed
    BY <1>5 DEF CancelConfirm, OneOwner, DispatcherOwns
  <2> QED
    BY <1>5, <2>1, AnnounceCounted DEF CancelConfirm
<1>6. ASSUME NEW id \in Ids, TaskSend(id) PROVE Counted'
  <2>1. id \in owed
    BY <1>6 DEF TaskSend, OneOwner, TaskOwns
  <2> QED
    BY <1>6, <2>1, AnnounceCounted DEF TaskSend
<1>7. ASSUME NEW id \in Ids, CustomSend(id) PROVE Counted'
  <2>1. id \in owed
    BY <1>7 DEF CustomSend, OneOwner, TaskOwns
  <2> QED
    BY <1>7, <2>1, AnnounceCounted DEF CustomSend
<1>8. ASSUME NEW c, c \notin producing, producing' = producing \cup {c},
             inflight' = inflight + 1, owed' = owed, done' = done,
             batch' = batch, php' = php
      PROVE  Counted'
  <2>1. /\ IsFiniteSet(producing')
        /\ Cardinality(producing') = Cardinality(producing) + 1
    BY <1>8, FS_AddElement DEF Counted
  <2> QED
    BY <1>0, <1>8, <2>1 DEF Counted, InflightExact
<1>9. CASE Inject
  <2>1. [id |-> next_id, outcome |-> "Ready"] \notin producing
    BY DEF OneOwner, ProducersOwn, TypeOK
  <2> QED
    BY <1>8, <1>9, <2>1 DEF Inject
<1>10. CASE deliver_request
  <2>1. [id |-> next_id, outcome |-> "Request"] \notin producing
    BY DEF OneOwner, ProducersOwn, TypeOK
  <2> QED
    BY <1>8, <1>10, <2>1 DEF deliver_request
<1>11. ASSUME NEW id \in Ids, cancel_request(id) PROVE Counted'
  <2>1. [id |-> id, outcome |-> "Cancelled"] \notin producing
    BY <1>11 DEF cancel_request, OneOwner, ProducersOwn
  <2> QED
    BY <1>8, <1>11, <2>1 DEF cancel_request
<1>12. CASE Produce
  <2>1. PICK c \in producing : producing' = producing \ {c} /\ done' = Append(done, c)
    BY <1>12 DEF Produce
  <2>2. /\ IsFiniteSet(producing')
        /\ Cardinality(producing') = Cardinality(producing) - 1
    BY <2>1, FS_RemoveElement DEF Counted
  <2>3. Len(done') = Len(done) + 1
    BY <2>1 DEF TypeOK
  <2> QED
    BY <1>0, <1>12, <2>2, <2>3 DEF Produce, Counted, InflightExact
<1>13. CASE PollDrain
  BY <1>0, <1>13 DEF PollDrain, Counted, InflightExact
<1>14. CASE PollCount
  <2>1. inflight' = inflight - Len(batch) /\ batch' = <<>>
    BY <1>0, <1>14 DEF PollCount, saturating_sub, Counted, InflightExact
  <2>2. Len(batch') = 0
    BY <2>1
  <2> QED
    BY <1>0, <1>14, <2>1, <2>2 DEF PollCount, Counted, InflightExact
<1>15. CASE PollEnter \/ PollTimeout
  BY <1>15 DEF PollEnter, PollTimeout, Counted, InflightExact
<1>16. CASE \/ server_started \/ DispatchSpawn \/ DispatchInsert \/ DispatchCustom
            \/ CancelTake \/ UNCHANGED vars
  BY <1>16 DEF server_started, DispatchSpawn, DispatchInsert, DispatchCustom,
               CancelTake, vars, Counted, InflightExact
<1>17. ASSUME NEW id \in Ids,
              TaskWake(id) \/ TaskUnlist(id) \/ TaskClaim(id) \/ respond(id)
       PROVE  Counted'
  BY <1>17 DEF TaskWake, TaskUnlist, TaskClaim, respond, Counted, InflightExact
<1> QED
  BY <1>1, <1>2, <1>3, <1>4, <1>5, <1>6, <1>7, <1>9, <1>10, <1>11, <1>12, <1>13,
     <1>14, <1>15, <1>16, <1>17
     DEF Next, Submit, Dispatch, Task, Http, Poll

(***************************************************************************)
(* The counter is exact: inflight is what PHP has yet to consume, for any  *)
(* number of ops, requests and interleavings, so poll never returns early  *)
(* on a low count nor blocks for ever on a high one.                       *)
(***************************************************************************)
THEOREM InflightCorrect == Spec => []InflightExact
<1>1. Counted => InflightExact
  BY DEF Counted
<1> QED
  BY <1>1, TypeInit, TypeStep, OwnerInit, OwnerStep, CountedInit, CountedStep, PTL
     DEF Spec

-----------------------------------------------------------------------------
(* A blocked poll has something coming.                                    *)

\* The converse of OneOwner: what is owed is in somebody's hands, and if its
\* flag is up the hands are those of the task that is about to send.
Attended(id) == Held(id) /\ (completed[id] => task[id] = "claimed")

AllAttended == \A id \in owed : Attended(id)

\* poll blocks for a reason, and the reason does not go away while it does.
Reason == php = "blocked" => inflight > 0 \/ servers > 0

LEMMA AttendedStep ==
  TypeOK /\ OneOwner /\ AllAttended /\ [Next]_vars => AllAttended'
<1> SUFFICES ASSUME TypeOK, OneOwner, AllAttended, [Next]_vars,
                    NEW id \in owed'
             PROVE  Attended(id)'
  BY DEF AllAttended
<1> USE DEF channels, counters, tasks, phpThread, httpSide
<1>0. id \in Ids /\ owed \subseteq Ids
  BY TypeStep DEF TypeOK
<1>1. ASSUME NEW op \in OpKinds, NEW target \in Ids \cup {0}, submit(op, target)
      PROVE  Attended(id)'
  <2>1. /\ \A k \in DOMAIN to_tokio : k \in DOMAIN to_tokio' /\ to_tokio'[k] = to_tokio[k]
        /\ Len(to_tokio) + 1 \in DOMAIN to_tokio'
        /\ to_tokio'[Len(to_tokio) + 1].id = next_id
    BY <1>1 DEF submit, TypeOK
  <2>2. task[next_id] = "none" /\ ~completed[next_id]
    BY <1>1 DEF submit, OneOwner, FreshIds, TaskOwns, TypeOK, Ids
  <2> QED
    BY <1>1, <2>1, <2>2 DEF submit, AllAttended, Attended, Held
<1>2. ASSUME to_tokio # <<>>, to_tokio' = Tail(to_tokio), dispatcher.pc = "recv",
             completed' = completed, id \in owed,
             id # Head(to_tokio).id =>
               \/ task'[id] = task[id]
               \/ /\ task[id] = "waiting" /\ task'[id] = "aborted"
                  /\ dispatcher'.pc = "claim" /\ dispatcher'.target = id,
             id = Head(to_tokio).id =>
               \/ task'[id] \in {"waiting", "custom"}
               \/ dispatcher'.pc \in {"claim", "confirm"} /\ dispatcher'.id = id
      PROVE  Attended(id)'
  <2>1. \A k \in DOMAIN to_tokio :
          k # 1 => k - 1 \in DOMAIN to_tokio' /\ to_tokio'[k - 1] = to_tokio[k]
    BY <1>2 DEF TypeOK
  <2>2. Head(to_tokio) = to_tokio[1]
    BY <1>2, TailFacts
  <2>3. id = Head(to_tokio).id => ~completed[id]
    BY <1>0, <1>2, <2>2, TailFacts DEF OneOwner, QueueOwns, TaskOwns
  <2>4. CASE id = Head(to_tokio).id
    <3>1. Held(id)'
      BY <1>2, <2>4 DEF Held
    <3> QED
      BY <1>2, <2>3, <2>4, <3>1 DEF Attended
  <2>5. CASE id # Head(to_tokio).id
    <3>1. Held(id) /\ (completed[id] => task[id] = "claimed")
      BY <1>2 DEF AllAttended, Attended
    <3>2. (\E k \in DOMAIN to_tokio : to_tokio[k].id = id) => Held(id)'
      BY <2>1, <2>2, <2>5 DEF Held
    <3>3. task[id] \in {"waiting", "woken", "unlisted", "claimed", "custom"} => Held(id)'
      BY <1>2, <2>5 DEF Held
    <3>4. Held(id)'
      BY <1>2, <3>1, <3>2, <3>3 DEF Held
    <3>5. completed'[id] => task'[id] = "claimed"
      BY <1>2, <2>5, <3>1
    <3> QED
      BY <3>4, <3>5 DEF Attended
  <2> QED
    BY <2>4, <2>5
<1>3. CASE DispatchSleep0
  <2>1. id # Head(to_tokio).id /\ id \in owed
    BY <1>3 DEF DispatchSleep0, announce
  <2> QED
    BY <1>2, <1>3, <2>1 DEF DispatchSleep0, Receives, Idle
<1>4. CASE DispatchSpawn
  <2>1. PICK op \in {"Sleep", "Watch"} :
          /\ Receives(op)
          /\ task' = [task EXCEPT ![Head(to_tokio).id] = "waiting"]
    BY <1>4 DEF DispatchSpawn
  <2>2. id = Head(to_tokio).id => task'[id] = "waiting"
    BY <1>0, <2>1 DEF TypeOK
  <2> QED
    BY <1>2, <1>4, <2>1, <2>2 DEF DispatchSpawn, Receives, Idle, TypeOK
<1>5. CASE DispatchCustom
  <2>2. id = Head(to_tokio).id => task'[id] = "custom"
    BY <1>0, <1>5 DEF DispatchCustom, TypeOK
  <2> QED
    BY <1>2, <1>5, <2>2 DEF DispatchCustom, Receives, Idle, TypeOK
<1>6. CASE CancelTake
  <2> DEFINE target == Head(to_tokio).target
  <2>1. id = Head(to_tokio).id =>
          dispatcher'.pc \in {"claim", "confirm"} /\ dispatcher'.id = id
    BY <1>6 DEF CancelTake
  <2>2. \/ task'[id] = task[id]
        \/ /\ task[id] = "waiting" /\ task'[id] = "aborted"
           /\ dispatcher'.pc = "claim" /\ dispatcher'.target = id
    BY <1>0, <1>6 DEF CancelTake, TypeOK
  <2> QED
    BY <1>2, <1>6, <2>1, <2>2 DEF CancelTake, Receives, Idle
<1>7. CASE CancelClaim
  <2>1. /\ dispatcher.pc = "claim" /\ dispatcher'.pc = "confirm"
        /\ dispatcher'.id = dispatcher.id
        /\ dispatcher.target \in Ids
    BY <1>7 DEF CancelClaim, TypeOK, DispatcherStates, Idle
  <2>2. id \in owed /\ task' = task /\ to_tokio' = to_tokio
    BY <1>7 DEF CancelClaim, announce
  <2>3. id = dispatcher.target => completed[id] /\ completed'[id]
    BY <1>7 DEF CancelClaim, announce
  <2>4. id # dispatcher.target => completed'[id] = completed[id]
    <3>1. completed \in [Ids -> BOOLEAN]
      BY DEF TypeOK
    <3>2. \/ completed' = completed
          \/ completed' = [completed EXCEPT ![dispatcher.target] = TRUE]
      BY <1>7 DEF CancelClaim
    <3> QED
      BY <1>0, <3>1, <3>2
  <2>5. Held(id) /\ (completed[id] => task[id] = "claimed")
    BY <2>2 DEF AllAttended, Attended
  <2>6. CASE id = dispatcher.target
    BY <2>2, <2>3, <2>5, <2>6 DEF Attended, Held
  <2>7. CASE id # dispatcher.target
    BY <2>1, <2>2, <2>4, <2>5, <2>7 DEF Attended, Held
  <2> QED
    BY <2>6, <2>7
<1>8. CASE DispatchInsert \/ CancelConfirm
  <2>1. id \in owed /\ (CancelConfirm => id # dispatcher.id)
    BY <1>8 DEF DispatchInsert, CancelConfirm, announce
  <2>2. dispatcher.pc = "confirm" => dispatcher.target \notin Ids
    BY DEF TypeOK, DispatcherStates, Idle, Ids
  <2> QED
    BY <1>0, <1>8, <2>1, <2>2
       DEF DispatchInsert, CancelConfirm, announce, Idle, AllAttended, Attended, Held
<1>9. ASSUME NEW t \in Ids, TaskWake(t) \/ TaskUnlist(t)
      PROVE  Attended(id)'
  BY <1>0, <1>9 DEF TaskWake, TaskUnlist, AllAttended, Attended, Held, TypeOK
<1>10. ASSUME NEW t \in Ids, TaskClaim(t)
       PROVE  Attended(id)'
  BY <1>0, <1>10 DEF TaskClaim, AllAttended, Attended, Held, TypeOK
<1>11. ASSUME NEW t \in Ids, TaskSend(t) \/ CustomSend(t)
       PROVE  Attended(id)'
  <2>1. id # t /\ id \in owed /\ task'[id] = task[id]
    BY <1>0, <1>11 DEF TaskSend, CustomSend, announce, TypeOK
  <2> QED
    BY <1>11, <2>1 DEF TaskSend, CustomSend, AllAttended, Attended, Held
<1>12. CASE \/ WatchReadyNow \/ server_started \/ Http \/ Poll \/ UNCHANGED vars
  <2>1. id \in owed /\ UNCHANGED <<to_tokio, dispatcher, task, completed>>
    BY <1>12 DEF WatchReadyNow, server_started, Http, Inject, deliver_request,
                 cancel_request, respond, Produce, Poll, PollEnter, PollDrain,
                 PollCount, PollTimeout, vars
  <2> QED
    BY <2>1 DEF AllAttended, Attended, Held
<1>13. CASE SubmitOp \/ SubmitCancel
  BY <1>1, <1>13 DEF SubmitOp, SubmitCancel, OpKinds, Ids, TypeOK
<1> QED
  BY <1>3, <1>4, <1>5, <1>6, <1>7, <1>8, <1>9, <1>10, <1>11, <1>12, <1>13
     DEF Next, Submit, Dispatch, Task

LEMMA ReasonStep == TypeOK /\ Reason /\ [Next]_vars => Reason'
<1> SUFFICES ASSUME TypeOK, Reason, [Next]_vars PROVE Reason'
  OBVIOUS
<1> USE DEF channels, counters, tasks, phpThread, httpSide, Reason
<1>1. CASE Submit \/ Http
  <2>1. php' = php /\ inflight' \in {inflight, inflight + 1} /\ servers' \in {servers, servers + 1}
    BY <1>1 DEF Submit, SubmitOp, SubmitCancel, submit, WatchReadyNow, server_started,
                Http, Inject, deliver_request, cancel_request, respond, Produce
  <2> QED
    BY <2>1 DEF TypeOK
<1>2. CASE Dispatch \/ UNCHANGED vars
  BY <1>2 DEF Dispatch, DispatchSleep0, DispatchSpawn, DispatchInsert, DispatchCustom,
              CancelTake, CancelClaim, CancelConfirm, vars
<1>3. ASSUME NEW id \in Ids, Task(id) PROVE Reason'
  BY <1>3 DEF Task, TaskWake, TaskUnlist, TaskClaim, TaskSend, CustomSend
<1>4. CASE Poll
  BY <1>4 DEF Poll, PollEnter, PollDrain, PollCount, PollTimeout
<1> QED
  BY <1>1, <1>2, <1>3, <1>4 DEF Next

(***************************************************************************)
(* A poll with no server that sleeps is woken: a completion is in the      *)
(* channel, counted and about to be sent, or owed by an op that the queue, *)
(* the dispatcher or a live task still holds.  No order of an abort, a     *)
(* wake-up and the two swaps of `completed` leaves an op to nobody.        *)
(***************************************************************************)
THEOREM PollIsWoken == Spec => []BlockedHasSource
<1>1. Init => AllAttended /\ Reason
  BY DEF Init, AllAttended, Reason
<1>2. TypeOK /\ Counted /\ AllAttended /\ Reason => BlockedHasSource
  <2> SUFFICES ASSUME TypeOK, Counted, AllAttended, Reason,
                      php = "blocked", servers = 0, done = <<>>, producing = {}
               PROVE  \E id \in owed : Held(id)
    BY DEF BlockedHasSource
  <2>1. Cardinality(producing) = 0 /\ Len(done) = 0 /\ Len(batch) = 0
    BY FS_EmptySet DEF Counted
  <2>2. Cardinality(owed) \in Nat /\ (owed = {} => Cardinality(owed) = 0)
    BY FS_CardinalityType, FS_EmptySet DEF Counted
  <2>3. owed # {}
    BY <2>1, <2>2 DEF Counted, InflightExact, Reason, TypeOK
  <2> QED
    BY <2>3 DEF AllAttended, Attended
<1> QED
  BY <1>1, <1>2, TypeInit, TypeStep, OwnerInit, OwnerStep, CountedInit, CountedStep,
     AttendedStep, ReasonStep, PTL
     DEF Spec

-----------------------------------------------------------------------------
(* The refinement.                                                         *)

\* What the board sees of the channel and of poll's batch.
LEMMA UnreadAppend ==
  ASSUME TypeOK, NEW c, done' = Append(done, c), batch' = batch
  PROVE  idsOf(batch' \o done') = Append(idsOf(batch \o done), c.id)
BY DEF idsOf, TypeOK

LEMMA BoardInitial == Init => Board!BoardInit
BY DEF Init, Board!BoardInit, idsOf

\* The set of ids the board sees as open, named to keep the steps short.
OpenIds == owed \cup {c.id : c \in producing}

\* An announcement by the op's owner is the board's Complete.
LEMMA AnnounceCompletes ==
  ASSUME TypeOK, OneOwner, NEW id \in owed, NEW outcome, announce(id, outcome),
         UNCHANGED <<next_id, inflight, producing, batch>>
  PROVE  Board!Complete(id)
<1>1. idsOf(batch' \o done') = Append(idsOf(batch \o done), id)
  <2>1. [id |-> id, outcome |-> outcome].id = id
    OBVIOUS
  <2> QED
    BY <2>1, UnreadAppend DEF announce
<1>2. OpenIds' = OpenIds \ {id}
  BY DEF OpenIds, announce, OneOwner, ProducersOwn
<1> QED
  BY <1>1, <1>2 DEF Board!Complete, OpenIds

\* A completion counted for a fresh id is the board's Open.
LEMMA CountOpens ==
  ASSUME TypeOK, OneOwner, next_id \in Ids, next_id' = next_id + 1,
         inflight' = inflight + 1, OpenIds' = OpenIds \cup {next_id},
         UNCHANGED <<done, batch>>
  PROVE  Board!Open(next_id)
<1>1. next_id \notin 1..(next_id - 1) /\ 1..(next_id' - 1) = 1..(next_id - 1) \cup {next_id}
  BY DEF TypeOK
<1> QED
  BY <1>1 DEF Board!Open, OpenIds

\* Every step of the reactor is a step of the board, or one it cannot see.
LEMMA BoardStep ==
  TypeOK /\ OneOwner /\ Counted /\ [Next]_vars => [Board!BoardNext]_(Board!boardVars)
<1> SUFFICES ASSUME TypeOK, OneOwner, Counted, [Next]_vars
             PROVE  Board!BoardNext \/ UNCHANGED Board!boardVars
  OBVIOUS
<1> USE DEF channels, counters, tasks, phpThread, httpSide
<1>0. owed \subseteq Ids
  BY DEF TypeOK
<1>a. ASSUME NEW id \in owed, Board!Complete(id) PROVE Board!BoardNext
  BY <1>0, <1>a DEF Board!BoardNext
<1>b. ASSUME next_id \in Ids, Board!Open(next_id) PROVE Board!BoardNext
  BY <1>b DEF Board!BoardNext, Board!Open
<1>1. CASE SubmitOp \/ SubmitCancel
  <2>1. /\ next_id \in Ids /\ next_id' = next_id + 1 /\ inflight' = inflight + 1
        /\ OpenIds' = OpenIds \cup {next_id} /\ UNCHANGED <<done, batch>>
    BY <1>1 DEF SubmitOp, SubmitCancel, submit, OpenIds
  <2> QED
    BY <1>b, <2>1, CountOpens
<1>2. CASE WatchReadyNow
  <2>1. next_id \notin 1..(next_id - 1) /\ 1..(next_id' - 1) = 1..(next_id - 1) \cup {next_id}
    BY <1>2 DEF WatchReadyNow, TypeOK
  <2>2. idsOf(batch' \o done') = Append(idsOf(batch \o done), next_id)
    <3>1. [id |-> next_id, outcome |-> "Ready"].id = next_id
      OBVIOUS
    <3> QED
      BY <1>2, <3>1, UnreadAppend DEF WatchReadyNow
  <2>3. Board!OpenCompleted(next_id)
    BY <1>2, <2>1, <2>2 DEF WatchReadyNow, Board!OpenCompleted
  <2> QED
    BY <1>2, <2>3 DEF WatchReadyNow, Board!BoardNext
<1>3. CASE DispatchSleep0
  <2>1. Head(to_tokio).id \in owed
    BY <1>3, TailFacts DEF DispatchSleep0, Receives, OneOwner, QueueOwns
  <2> QED
    BY <1>3, <1>a, <2>1, AnnounceCompletes DEF DispatchSleep0
<1>4. CASE CancelClaim
  <2>1. CASE completed[dispatcher.target]
    BY <1>4, <2>1 DEF CancelClaim, Board!boardVars
  <2>2. CASE ~completed[dispatcher.target]
    <3>1. dispatcher.target \in Ids /\ Spawned(dispatcher.target)
      BY <1>4 DEF CancelClaim, OneOwner, DispatcherOwns, TypeOK, DispatcherStates, Idle
    <3>2. dispatcher.target \in owed
      BY <2>2, <3>1 DEF OneOwner, TaskOwns
    <3> QED
      BY <1>4, <1>a, <2>2, <3>2, AnnounceCompletes DEF CancelClaim
  <2> QED
    BY <2>1, <2>2
<1>5. CASE CancelConfirm
  <2>1. dispatcher.id \in owed
    BY <1>5 DEF CancelConfirm, OneOwner, DispatcherOwns
  <2> QED
    BY <1>5, <1>a, <2>1, AnnounceCompletes DEF CancelConfirm
<1>6. ASSUME NEW id \in Ids, TaskSend(id) \/ CustomSend(id) PROVE Board!BoardNext
  <2>1. id \in owed
    BY <1>6 DEF TaskSend, CustomSend, OneOwner, TaskOwns
  <2>2. PICK outcome : announce(id, outcome)
    BY <1>6 DEF TaskSend, CustomSend
  <2>3. UNCHANGED <<next_id, inflight, producing, batch>>
    BY <1>6 DEF TaskSend, CustomSend
  <2> QED
    BY <1>a, <2>1, <2>2, <2>3, AnnounceCompletes
<1>7. CASE Inject \/ deliver_request
  <2>1. /\ next_id \in Ids /\ next_id' = next_id + 1 /\ inflight' = inflight + 1
        /\ UNCHANGED <<done, batch, owed>>
    BY <1>7 DEF Inject, deliver_request
  <2>2. \E c : producing' = producing \cup {c} /\ c.id = next_id
    <3>1. CASE Inject
      <4> WITNESS [id |-> next_id, outcome |-> "Ready"]
      <4> QED
        BY <3>1 DEF Inject
    <3>2. CASE deliver_request
      <4> WITNESS [id |-> next_id, outcome |-> "Request"]
      <4> QED
        BY <3>2 DEF deliver_request
    <3> QED
      BY <1>7, <3>1, <3>2
  <2>3. OpenIds' = OpenIds \cup {next_id}
    BY <2>1, <2>2 DEF OpenIds
  <2> QED
    BY <1>b, <2>1, <2>3, CountOpens
<1>8. ASSUME NEW id \in Ids, cancel_request(id) PROVE Board!BoardNext
  <2>1. /\ next_id' = next_id /\ inflight' = inflight + 1 /\ id \in answers
        /\ UNCHANGED <<done, batch, owed>>
        /\ producing' = producing \cup {[id |-> id, outcome |-> "Cancelled"]}
    BY <1>8 DEF cancel_request
  <2>2. \A c \in producing : c.id # id
    <3>1. \A c \in producing : c = [id |-> c.id, outcome |-> c.outcome]
      BY DEF TypeOK, Completions
    <3> QED
      BY <1>8, <3>1 DEF cancel_request, OneOwner, ProducersOwn
  <2>3. id \in 1..(next_id - 1) /\ id \notin OpenIds
    BY <2>1, <2>2 DEF OpenIds, OneOwner, FreshIds, TypeOK, Ids
  <2>4. OpenIds' = OpenIds \cup {id}
    <3> DEFINE new == [id |-> id, outcome |-> "Cancelled"]
    <3>1. new.id = id
      OBVIOUS
    <3>2. producing' = producing \cup {new} /\ owed' = owed
      BY <2>1
    <3> HIDE DEF new
    <3> QED
      BY <3>1, <3>2 DEF OpenIds
  <2>5. Board!Reopen(id)
    BY <2>1, <2>3, <2>4 DEF Board!Reopen, OpenIds
  <2> QED
    BY <2>5 DEF Board!BoardNext
<1>9. CASE Produce
  <2>1. PICK c \in producing : producing' = producing \ {c} /\ done' = Append(done, c)
    BY <1>9 DEF Produce
  <2>2. UNCHANGED <<next_id, inflight, owed, batch>>
    BY <1>9 DEF Produce
  <2>3. idsOf(batch' \o done') = Append(idsOf(batch \o done), c.id)
    BY <2>1, <2>2, UnreadAppend
  <2>4. OpenIds' = OpenIds \ {c.id} /\ c.id \in OpenIds
    BY <2>1, <2>2 DEF OpenIds, OneOwner, ProducersOwn
  <2>5. Board!Complete(c.id)
    BY <2>2, <2>3, <2>4 DEF Board!Complete, OpenIds
  <2>6. c.id \in Ids
    BY DEF TypeOK, Completions
  <2> QED
    BY <2>5, <2>6 DEF Board!BoardNext
<1>10. CASE PollDrain
  <2>1. batch = <<>>
    BY <1>10 DEF PollDrain, Counted
  <2>2. batch' \o done' = batch \o done
    BY <1>10, <2>1 DEF PollDrain, TypeOK
  <2> QED
    BY <1>10, <2>2 DEF PollDrain, Board!boardVars
<1>11. CASE PollCount
  <2> DEFINE k == Len(batch)
             unread == idsOf(batch \o done)
  <2>1. inflight' = inflight - k /\ batch' = <<>> /\ k \in Nat
    <3>1. /\ Cardinality(owed) \in Nat /\ Cardinality(producing) \in Nat
          /\ Len(done) \in Nat /\ Len(batch) \in Nat /\ inflight \in Nat
      BY FS_CardinalityType DEF Counted, TypeOK
    <3> QED
      BY <1>11, <3>1 DEF PollCount, saturating_sub, Counted, InflightExact
  <2>2. UNCHANGED <<next_id, done, owed, producing>>
    BY <1>11 DEF PollCount
  <2>3. idsOf(batch' \o done') = SubSeq(unread, k + 1, Len(unread)) /\ k <= Len(unread)
    BY <2>1, <2>2 DEF idsOf, TypeOK
  <2>4. CASE k = 0
    BY <2>1, <2>2, <2>4 DEF Board!boardVars, TypeOK
  <2>5. CASE k # 0
    <3>1. k \in 1..Len(unread)
      BY <2>1, <2>3, <2>5 DEF TypeOK, idsOf
    <3>2. Board!Consume
      BY <2>1, <2>2, <2>3, <3>1 DEF Board!Consume
    <3> QED
      BY <3>2 DEF Board!BoardNext
  <2> QED
    BY <2>4, <2>5
<1>12. CASE PollEnter \/ PollTimeout \/ server_started \/ DispatchSpawn
            \/ DispatchInsert \/ DispatchCustom \/ CancelTake \/ UNCHANGED vars
  BY <1>12 DEF PollEnter, PollTimeout, server_started, DispatchSpawn, DispatchInsert,
               DispatchCustom, CancelTake, vars, Board!boardVars
<1>13. ASSUME NEW id \in Ids,
              TaskWake(id) \/ TaskUnlist(id) \/ TaskClaim(id) \/ respond(id)
       PROVE  UNCHANGED Board!boardVars
  BY <1>13 DEF TaskWake, TaskUnlist, TaskClaim, respond, Board!boardVars
<1> QED
  BY <1>1, <1>2, <1>3, <1>4, <1>5, <1>6, <1>7, <1>8, <1>9, <1>10, <1>11, <1>12, <1>13
     DEF Next, Submit, Dispatch, Task, Http, Poll

(***************************************************************************)
(* The reactor implements the board: every op is completed exactly once,   *)
(* consumed in order and counted, for any number of ops.                   *)
(***************************************************************************)
THEOREM Implements == Spec => ImplementsBoard
BY TypeInit, TypeStep, OwnerInit, OwnerStep, CountedInit, CountedStep,
   BoardInitial, BoardStep, PTL DEF Spec, ImplementsBoard, Board!BoardSpec
=============================================================================
