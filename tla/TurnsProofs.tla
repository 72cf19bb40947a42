----------------------------- MODULE TurnsProofs ----------------------------
(***************************************************************************)
(* What the turns of a conversation stand on, for every instance of the    *)
(* two models.                                                             *)
(*                                                                         *)
(* Dispatcher: every message is handled once, one turn of a conversation   *)
(* at a time, for any number of messages, conversations and pool threads,  *)
(* with or without a shutdown.                                             *)
(*                                                                         *)
(* SessionStore: what those turns and others write to the transcript stays *)
(* there, and a call keeps its result.  The argument says what the copy a  *)
(* turn works on has in common with the row it will save it over (Copied,  *)
(* OthersAppend), until a transaction overwrites what it had not read.     *)
(***************************************************************************)
EXTENDS Dispatcher, SessionStore, SequenceTheorems, FiniteSetTheorems,
        WellFoundedInduction, TLAPS

\* The empty item is a batch.
LEMMA NoBatchType == NoBatch \in Batch
BY DEF NoBatch, Batch

\* Pending.merge returns a batch.
LEMMA MergeType ==
    ASSUME NEW b \in Batch, NEW other \in Batch
    PROVE  Merge(b, other) \in Batch
BY DEF Merge, Batch

\* A conversation and a batch make a task, and a task is made of them.
LEMMA TaskType ==
    /\ \A k \in Conversations, b \in Batch : TaskFor(k, b) \in Task
    /\ \A t \in Task : t.conv \in Conversations /\ t.batch \in Batch
BY DEF TaskFor, Task

\* Replacing the batch of a task gives a task of the same conversation.
LEMMA TaskBatchType ==
    ASSUME NEW t \in Task, NEW b \in Batch
    PROVE  /\ [t EXCEPT !.batch = b] \in Task
           /\ [t EXCEPT !.batch = b].conv = t.conv
BY DEF Task

\* `submit` keeps what it changes well typed.
LEMMA SubmitType ==
    ASSUME TypeOK, NEW k \in Conversations, NEW b \in Batch, Submit(k, b)
    PROVE  /\ pending' \in [Conversations -> Batch]
           /\ inflight' \in Nat
           /\ timer' \in [Conversations -> {"none", "armed", "fired"}]
<1>1. Merge(pending[k], b) \in Batch
  BY MergeType DEF TypeOK
<1>2. QED
  BY <1>1 DEF Submit, TypeOK

\* Each user of a conversation's lock is counted.
LEMMA UsersFinite ==
    \A k \in Conversations :
        IsFiniteSet(Users(k)) /\ Cardinality(Users(k)) \in Nat
BY ConstantsAssumption, FS_Subset, FS_CardinalityType DEF Users

-----------------------------------------------------------------------------
(* Type correctness.                                                       *)

\* The steps of webhook threads.
LEMMA WebhookTypes ==
    ASSUME TypeOK, NEW m \in Messages, WebhookStep(m)
    PROVE  TypeOK'
<1>k. ConvOf[m] \in Conversations
  BY ConstantsAssumption
<1>u. Uncount(ConvOf[m]) => incoming' \in [Conversations -> Nat]
  BY <1>k DEF Uncount, TypeOK
<1>1. CASE Announce(m)
  <2>1. ingest' \in [Messages -> IngestStates]
    BY <1>1 DEF Announce, TypeOK, IngestStates
  <2>2. incoming' \in [Conversations -> Nat]
    BY <1>1, <1>k, SMTT(30) DEF Announce, TypeOK
  <2>3. QED
    BY <1>1, <2>1, <2>2 DEF Announce, TypeOK, timerVars, poolVars, lockVars, history
<1>2. CASE Ready(m)
  BY <1>2, <1>k, <1>u DEF Ready, TypeOK, IngestStates, timerVars, poolVars, lockVars, history
<1>3. CASE SubmitMessage(m)
  <2>1. [msgs |-> {m}, sup |-> 0] \in Batch
    BY DEF Batch
  <2>2. Submit(ConvOf[m], [msgs |-> {m}, sup |-> 0])
    BY <1>3 DEF SubmitMessage
  <2>3. QED
    BY <1>3, <1>k, <2>1, <2>2, SubmitType
    DEF SubmitMessage, TypeOK, IngestStates, poolVars, lockVars, history
<1>4. CASE Decline(m)
  BY <1>4, <1>k, <1>u DEF Decline, TypeOK, IngestStates, timerVars, poolVars, lockVars, history
<1>5. CASE SettleFlush(m)
  <2>1. reviving' \in SUBSET Task /\ carry' \in [Conversations -> Batch]
    <3> DEFINE k == ConvOf[m]
    <3>1. CASE CarryIsDue(k)
      <4>1. TaskFor(k, carry[k]) \in Task
        BY <1>k, TaskType DEF TypeOK
      <4>2. /\ reviving' = reviving \cup {TaskFor(k, carry[k])}
            /\ carry' = [carry EXCEPT ![k] = NoBatch]
        BY <1>5, <3>1 DEF SettleFlush
      <4>3. QED
        BY <4>1, <4>2, NoBatchType DEF TypeOK
    <3>2. CASE ~CarryIsDue(k)
      BY <1>5, <3>2 DEF SettleFlush, TypeOK
    <3>3. QED
      BY <3>1, <3>2
  <2>2. ingest' \in [Messages -> IngestStates]
    BY <1>5 DEF SettleFlush, TypeOK, IngestStates
  <2>3. QED
    BY <1>5, <2>1, <2>2 DEF SettleFlush, TypeOK, IngestStates, timerVars, poolVars, lockVars, history
<1>6. QED
  BY <1>1, <1>2, <1>3, <1>4, <1>5 DEF WebhookStep

\* The steps of timer threads.
LEMMA TimerTypes ==
    ASSUME TypeOK, NEW k \in Conversations, TimerStep(k)
    PROVE  TypeOK'
<1>1. CASE Fire(k)
  BY <1>1 DEF Fire, TypeOK, webhookVars, poolVars, lockVars, history
<1>2. CASE FireLoose(k)
  BY <1>2, SMTT(30) DEF FireLoose, TypeOK, webhookVars, poolVars, lockVars, history
<1>3. CASE HoldExpires(k)
  BY <1>3 DEF HoldExpires, TypeOK, webhookVars, timerVars, poolVars, lockVars, history
<1>4. CASE HoldBatch(k)
  <2>1. loose' \in [Conversations -> Nat] /\ firing' \in [Conversations -> Nat]
    BY <1>4 DEF HoldBatch, LoseEntry, TypeOK
  <2>2. QED
    BY <1>4, <2>1, SMTT(30) DEF HoldBatch, TypeOK, webhookVars, poolVars, lockVars, history
<1>5. CASE ReleaseBatch(k)
  <2>1. handing' \in SUBSET Task /\ inflight' \in Nat
    BY <1>5, TaskType DEF ReleaseBatch, TypeOK
  <2>2. pending' \in [Conversations -> Batch] /\ aged' \in [Conversations -> BOOLEAN]
    BY <1>5, NoBatchType DEF ReleaseBatch, TypeOK
  <2>3. QED
    BY <1>5, <2>1, <2>2, SMTT(30) DEF ReleaseBatch, LoseEntry, TypeOK, webhookVars, poolVars, lockVars, history
<1>6. QED
  BY <1>1, <1>2, <1>3, <1>4, <1>5 DEF TimerStep

\* A thread that is not idle runs a task.
LEMMA BusyHasTask ==
    ASSUME TypeOK, TasksMatchThreads, NEW w \in Workers, pc[w] # "idle"
    PROVE  task[w] \in Task /\ task[w].conv \in Conversations /\ task[w].batch \in Batch
BY TaskType DEF TypeOK, TasksMatchThreads

\* A thread that uses its conversation's lock is counted among its users.
LEMMA UserIsCounted ==
    ASSUME LocksMatchThreads, NEW w \in Workers, pc[w] \in UsingLock,
           task[w].conv \in Conversations
    PROVE  lockUsers[task[w].conv] \in Nat \ {0}
<1> DEFINE k == task[w].conv
<1>1. w \in Users(k)
  BY DEF Users
<1>2. Cardinality(Users(k)) # 0
  BY <1>1, UsersFinite, FS_EmptySet
<1>3. QED
  BY <1>2, UsersFinite DEF LocksMatchThreads

\* The steps of the pool's threads.
LEMMA WorkerTypes ==
    ASSUME IInv, NEW w \in Workers, WorkerStep(w)
    PROVE  TypeOK'
<1> USE DEF IInv
<1>pc. \A from \in PCs, to \in PCs : Goto(w, from, to) => pc' \in [Workers -> PCs]
  BY DEF Goto, TypeOK
<1>busy. pc[w] # "idle" =>
           task[w] \in Task /\ task[w].conv \in Conversations /\ task[w].batch \in Batch
  BY BusyHasTask
<1>1. CASE Start(w)
  <2>1. Head(queue) \in Task /\ Tail(queue) \in Seq(Task)
    BY <1>1 DEF Start, TypeOK
  <2>2. pc' \in [Workers -> PCs]
    BY <1>1, <1>pc DEF Start, PCs
  <2>3. QED
    BY <1>1, <2>1, <2>2 DEF Start, TypeOK, webhookVars, timerVars, lockVars, history
<1>2. CASE GetLock(w)
  <2>1. pc' \in [Workers -> PCs] /\ task[w].conv \in Conversations
    BY <1>2, <1>pc, <1>busy DEF GetLock, PCs, Goto
  <2>2. /\ lockOf' \in [Conversations -> Locks \cup {NoLock}]
        /\ lockRef' \in [Workers -> Locks \cup {NoLock}]
    BY <1>2, <2>1 DEF GetLock, TypeOK
  <2>3. lockUsers' \in [Conversations -> Nat]
    BY <1>2, <2>1 DEF GetLock, TypeOK
  <2>4. QED
    BY <1>2, <2>1, <2>2, <2>3 DEF GetLock, TypeOK, webhookVars, timerVars, history
<1>3. CASE Acquire(w)
  <2>1. pc' \in [Workers -> PCs] /\ lockRef[w] \in Locks
    BY <1>3, <1>pc DEF Acquire, PCs, Goto, LocksMatchThreads, UsingLock
  <2>2. QED
    BY <1>3, <2>1 DEF Acquire, TypeOK, webhookVars, timerVars, history
<1>4. CASE TakeCarry(w)
  <2>1. pc' \in [Workers -> PCs] /\ task[w] \in Task
    BY <1>4, <1>pc, <1>busy DEF TakeCarry, PCs, Goto
  <2> DEFINE k == task[w].conv
             b == IF carry[k] = NoBatch THEN task[w].batch ELSE Merge(carry[k], task[w].batch)
  <2>2. b \in Batch
    BY <2>1, MergeType, TaskType DEF TypeOK
  <2>3. task' = [task EXCEPT ![w] = [task[w] EXCEPT !.batch = b]]
    BY <1>4 DEF TakeCarry
  <2>4. task' \in [Workers -> Task \cup {NoTask}] /\ carry' \in [Conversations -> Batch]
    <3>1. carry' \in [Conversations -> Batch]
      BY <1>4, NoBatchType DEF TakeCarry, TypeOK
    <3> HIDE DEF b
    <3>2. [task[w] EXCEPT !.batch = b] \in Task
      BY <2>1, <2>2, TaskBatchType
    <3>3. QED
      BY <2>3, <3>1, <3>2 DEF TypeOK
  <2>5. QED
    BY <1>4, <2>1, <2>4 DEF TakeCarry, TypeOK, webhookVars, timerVars, lockVars, history
<1>5. CASE Answer(w)
  <2>1. pc' \in [Workers -> PCs] /\ task[w] \in Task /\ task[w].batch \in Batch
    BY <1>5, <1>pc, <1>busy DEF Answer, PCs, Goto
  <2>2. task' \in [Workers -> Task \cup {NoTask}]
    BY <1>5, <2>1, TaskBatchType, NoBatchType DEF Answer, TypeOK
  <2>3. handled' \in SUBSET Messages
    BY <1>5, <2>1 DEF Answer, TypeOK, Batch
  <2>4. QED
    BY <1>5, <2>1, <2>2, <2>3 DEF Answer, TypeOK, webhookVars, timerVars, lockVars
<1>6. CASE SeeNewer(w)
  <2>1. pc' \in [Workers -> PCs]
    BY <1>6, <1>pc DEF SeeNewer, PCs
  <2>2. QED
    BY <1>6, <2>1 DEF SeeNewer, TypeOK, webhookVars, timerVars, lockVars, history
<1>7. CASE GiveWay(w)
  <2> DEFINE k == task[w].conv
             b == [task[w].batch EXCEPT !.sup = @ + 1]
  <2>1. pc' \in [Workers -> PCs] /\ task[w] \in Task /\ task[w].batch \in Batch /\ k \in Conversations
    BY <1>7, <1>pc, <1>busy DEF GiveWay, PCs, Goto
  <2>2. b \in Batch
    BY <2>1 DEF Batch
  <2>3. carry' \in [Conversations -> Batch]
    <3> HIDE DEF b
    <3>1. carry' = [carry EXCEPT ![k] = IF @ = NoBatch THEN b ELSE Merge(@, b)]
      BY <1>7 DEF GiveWay, b
    <3>2. QED
      BY <2>1, <2>2, <3>1, MergeType DEF TypeOK
  <2>4. task' \in [Workers -> Task \cup {NoTask}]
    BY <1>7, <2>1, TaskBatchType, NoBatchType DEF GiveWay, TypeOK
  <2>5. gaveWay' \in [Messages -> Nat]
    BY <1>7 DEF GiveWay, TypeOK
  <2>6. QED
    BY <1>7, <2>1, <2>3, <2>4, <2>5 DEF GiveWay, TypeOK, webhookVars, timerVars, lockVars
<1>8. CASE LeaveLock(w)
  <2>1. pc' \in [Workers -> PCs] /\ pc[w] \in UsingLock /\ task[w].conv \in Conversations
    BY <1>8, <1>pc, <1>busy DEF LeaveLock, PCs, Goto, UsingLock
  <2>2. lockUsers[task[w].conv] - 1 \in Nat
    BY <2>1, UserIsCounted
  <2>3. lockUsers' \in [Conversations -> Nat]
    BY <1>8, <2>1, <2>2 DEF LeaveLock, TypeOK
  <2>4. lockOf' \in [Conversations -> Locks \cup {NoLock}]
    BY <1>8, <2>1 DEF LeaveLock, TypeOK
  <2>5. QED
    BY <1>8, <2>1, <2>3, <2>4 DEF LeaveLock, TypeOK, webhookVars, timerVars, history
<1>9. CASE Unlock(w)
  <2>1. pc' \in [Workers -> PCs]
    BY <1>9, <1>pc DEF Unlock, PCs
  <2>2. QED
    BY <1>9, <2>1 DEF Unlock, TypeOK, webhookVars, timerVars, history
<1>10. CASE FlushCarry(w)
  <2>1. task[w] \in Task /\ task[w].conv \in Conversations
    BY <1>10, <1>busy DEF FlushCarry
  <2>2. pc' \in [Workers -> PCs]
    BY <1>10, <1>pc DEF FlushCarry, PCs
  <2>3. task' \in [Workers -> Task \cup {NoTask}] /\ carry' \in [Conversations -> Batch]
    <3> DEFINE k == task[w].conv
    <3>1. CASE CarryIsDue(k)
      <4>1. carry[k] \in Batch
        BY <2>1 DEF TypeOK
      <4>2. [task[w] EXCEPT !.batch = carry[k]] \in Task
        BY <2>1, <4>1, TaskBatchType
      <4>3. task' = [task EXCEPT ![w] = [task[w] EXCEPT !.batch = carry[k]]]
        BY <1>10, <3>1 DEF FlushCarry
      <4>4. carry' = [carry EXCEPT ![k] = NoBatch]
        BY <1>10, <3>1 DEF FlushCarry
      <4>5. QED
        BY <4>2, <4>3, <4>4, NoBatchType DEF TypeOK
    <3>2. CASE ~CarryIsDue(k)
      BY <1>10, <3>2 DEF FlushCarry, TypeOK
    <3>3. QED
      BY <3>1, <3>2
  <2>4. QED
    BY <1>10, <2>2, <2>3 DEF FlushCarry, TypeOK, webhookVars, timerVars, lockVars, history
<1>11. CASE Resubmit(w)
  <2>1. pc' \in [Workers -> PCs] /\ task[w] \in Task
    BY <1>11, <1>pc, <1>busy DEF Resubmit, PCs, Goto
  <2>2. task' \in [Workers -> Task \cup {NoTask}]
    BY <1>11, <2>1, TaskBatchType, NoBatchType DEF Resubmit, TypeOK
  <2>3. QED
    BY <1>11, <2>1, <2>2, SubmitType, TaskType
    DEF Resubmit, TypeOK, webhookVars, lockVars, history
<1>12. CASE MarkDone(w)
  <2>1. pc' \in [Workers -> PCs]
    BY <1>12, <1>pc DEF MarkDone, PCs
  <2>2. inflight' \in Nat /\ task' \in [Workers -> Task \cup {NoTask}]
    BY <1>12 DEF MarkDone, TypeOK
  <2>3. QED
    BY <1>12, <2>1, <2>2 DEF MarkDone, TypeOK, webhookVars, timerVars, lockVars, history
<1>13. QED
  BY <1>1, <1>2, <1>3, <1>4, <1>5, <1>6, <1>7, <1>8, <1>9, <1>10, <1>11, <1>12 DEF WorkerStep

\* The steps of shutdown.
LEMMA ShutdownTypes ==
    ASSUME TypeOK, Shutdown
    PROVE  TypeOK'
<1>1. CASE ShutdownCancel
  BY <1>1 DEF ShutdownCancel, TypeOK, webhookVars, poolVars, lockVars, history
<1>2. CASE ShutdownDrain
  <2>1. \A k \in Conversations : TaskFor(k, pending[k]) \in Task
    BY TaskType DEF TypeOK
  <2>2. draining' \in SUBSET Task
    BY <1>2, <2>1 DEF ShutdownDrain
  <2>3. QED
    BY <1>2, <2>2, NoBatchType
    DEF ShutdownDrain, TypeOK, webhookVars, timerVars, poolVars, lockVars, history
<1>3. CASE ShutdownPool
  BY <1>3 DEF ShutdownPool, TypeOK, webhookVars, timerVars, poolVars, lockVars, history
<1>4. ASSUME NEW t \in draining, ShutdownSubmit(t) PROVE TypeOK'
  BY <1>4 DEF ShutdownSubmit, TypeOK, webhookVars, timerVars, poolVars, lockVars, history
<1>5. QED
  BY <1>1, <1>2, <1>3, <1>4 DEF Shutdown

\* Every step keeps every variable well typed.
LEMMA StepTypes == IInv /\ [Next]_vars => TypeOK'
<1> SUFFICES ASSUME IInv, [Next]_vars PROVE TypeOK'
  OBVIOUS
<1> USE DEF IInv
<1>1. ASSUME NEW m \in Messages, WebhookStep(m) PROVE TypeOK'
  BY <1>1, WebhookTypes
<1>2. ASSUME NEW t \in reviving, Revive(t) PROVE TypeOK'
  <2>1. t.conv \in Conversations /\ t.batch \in Batch
    BY TaskType DEF TypeOK
  <2>2. Submit(t.conv, t.batch)
    BY <1>2 DEF Revive
  <2>3. QED
    BY <1>2, <2>1, <2>2, SubmitType DEF Revive, TypeOK, poolVars, lockVars, history
<1>3. ASSUME NEW k \in Conversations, TimerStep(k) PROVE TypeOK'
  BY <1>3, TimerTypes
<1>4. ASSUME NEW t \in handing, HandToPool(t) PROVE TypeOK'
  BY <1>4 DEF HandToPool, TypeOK, webhookVars, timerVars, poolVars, lockVars, history
<1>5. ASSUME NEW w \in Workers, WorkerStep(w) PROVE TypeOK'
  BY <1>5, WorkerTypes
<1>6. CASE Shutdown
  BY <1>6, ShutdownTypes
<1>7. CASE UNCHANGED vars
  BY <1>7 DEF vars, TypeOK
<1>8. QED
  BY <1>1, <1>2, <1>3, <1>4, <1>5, <1>6, <1>7 DEF Next

-----------------------------------------------------------------------------
(* Threads and their tasks.                                                *)

threadVars == <<pc, task, lockRef, lockOf, lockUsers, held>>

\* Webhook threads, timer threads and shutdown leave the pool's threads and
\* the conversations' locks alone.
LEMMA OnlyWorkersMoveThreads ==
    [Next]_vars => (\E w \in Workers : WorkerStep(w)) \/ UNCHANGED threadVars
<1> SUFFICES ASSUME [Next]_vars PROVE (\E w \in Workers : WorkerStep(w)) \/ UNCHANGED threadVars
  OBVIOUS
<1> USE DEF threadVars, poolVars, lockVars
<1>1. ASSUME NEW m \in Messages, WebhookStep(m) PROVE UNCHANGED threadVars
  BY <1>1 DEF WebhookStep, Announce, Ready, SubmitMessage, Decline, SettleFlush
<1>2. ASSUME NEW t \in reviving, Revive(t) PROVE UNCHANGED threadVars
  BY <1>2 DEF Revive
<1>3. ASSUME NEW k \in Conversations, TimerStep(k) PROVE UNCHANGED threadVars
  BY <1>3 DEF TimerStep, Fire, FireLoose, HoldExpires, HoldBatch, ReleaseBatch
<1>4. ASSUME NEW t \in handing, HandToPool(t) PROVE UNCHANGED threadVars
  BY <1>4 DEF HandToPool
<1>5. CASE Shutdown
  BY <1>5 DEF Shutdown, ShutdownCancel, ShutdownDrain, ShutdownPool, ShutdownSubmit
<1>6. CASE UNCHANGED vars
  BY <1>6 DEF vars
<1>7. QED
  BY <1>1, <1>2, <1>3, <1>4, <1>5, <1>6 DEF Next

BatchStep(w) == TakeCarry(w) \/ Answer(w) \/ GiveWay(w) \/ FlushCarry(w) \/ Resubmit(w)

\* A step that changes what a thread has in hand changes neither its
\* conversation nor any other thread's task.
LEMMA BatchStepKeepsConv ==
    ASSUME IInv, NEW w \in Workers, BatchStep(w)
    PROVE  /\ \A v \in Workers \ {w} : task'[v] = task[v]
           /\ task'[w] \in Task
           /\ task'[w].conv = task[w].conv
           /\ task[w] \in Task
<1>1. task[w] \in Task
  BY BusyHasTask DEF IInv, BatchStep, TakeCarry, Answer, GiveWay, FlushCarry, Resubmit, Goto
<1>2. TypeOK'
  BY WorkerTypes DEF BatchStep, WorkerStep
<1> DEFINE Kept == /\ \A v \in Workers \ {w} : task'[v] = task[v]
                   /\ task'[w].conv = task[w].conv
                   /\ task'[w] # NoTask
<1>3. ASSUME NEW b \in Batch, task' = [task EXCEPT ![w] = [task[w] EXCEPT !.batch = b]]
      PROVE  Kept
  <2>1. task'[w] = [task[w] EXCEPT !.batch = b]
    BY <1>3 DEF IInv, TypeOK
  <2>2. task'[w].conv = task[w].conv /\ task'[w].conv \in Conversations
    BY <1>1, <2>1 DEF Task
  <2>3. task'[w] # NoTask
    BY <1>1, <2>1, TaskBatchType, ConstantsAssumption
  <2>4. QED
    BY <1>3, <2>2, <2>3 DEF IInv, TypeOK
<1>4. Kept
  <2>1. CASE TakeCarry(w)
    <3> DEFINE k == task[w].conv
               b == IF carry[k] = NoBatch THEN task[w].batch ELSE Merge(carry[k], task[w].batch)
    <3>1. task' = [task EXCEPT ![w] = [task[w] EXCEPT !.batch = b]]
      BY <2>1 DEF TakeCarry
    <3>2. b \in Batch
      BY <1>1, TaskType, MergeType DEF IInv, TypeOK
    <3> HIDE DEF b
    <3>3. QED
      BY <1>3, <3>1, <3>2
  <2>2. CASE Answer(w) \/ GiveWay(w) \/ Resubmit(w)
    <3>1. task' = [task EXCEPT ![w] = [task[w] EXCEPT !.batch = NoBatch]]
      BY <2>2 DEF Answer, GiveWay, Resubmit
    <3>2. QED
      BY <1>3, <3>1, NoBatchType
  <2>3. CASE FlushCarry(w)
    <3>1. CASE CarryIsDue(task[w].conv)
      <4>1. task' = [task EXCEPT ![w] = [task[w] EXCEPT !.batch = carry[task[w].conv]]]
        BY <2>3, <3>1 DEF FlushCarry
      <4>2. carry[task[w].conv] \in Batch
        BY <1>1, TaskType DEF IInv, TypeOK
      <4>3. QED
        BY <1>3, <4>1, <4>2
    <3>2. CASE ~CarryIsDue(task[w].conv)
      BY <1>1, <2>3, <3>2, ConstantsAssumption DEF FlushCarry
    <3>3. QED
      BY <3>1, <3>2
  <2>4. QED
    BY <2>1, <2>2, <2>3 DEF BatchStep
<1>5. QED
  BY <1>1, <1>2, <1>4 DEF TypeOK

\* A thread has a task exactly from Start to MarkDone.
LEMMA StepTasks == IInv /\ [Next]_vars => TasksMatchThreads'
<1> SUFFICES ASSUME IInv, [Next]_vars PROVE TasksMatchThreads'
  OBVIOUS
<1>1. ASSUME NEW w \in Workers, WorkerStep(w) PROVE TasksMatchThreads'
  <2>1. CASE Start(w)
    <3>1. Head(queue) \in Task
      BY <2>1 DEF Start, IInv, TypeOK
    <3>2. QED
      BY <2>1, <3>1, ConstantsAssumption DEF Start, Goto, IInv, TypeOK, TasksMatchThreads
  <2>2. CASE MarkDone(w)
    BY <2>2 DEF MarkDone, Goto, IInv, TypeOK, TasksMatchThreads
  <2>3. CASE GetLock(w) \/ Acquire(w) \/ SeeNewer(w) \/ LeaveLock(w) \/ Unlock(w)
    BY <2>3 DEF GetLock, Acquire, SeeNewer, LeaveLock, Unlock, Goto, IInv, TypeOK, TasksMatchThreads
  <2>4. CASE BatchStep(w)
    <3>1. \E from, to \in PCs \ {"idle"} : Goto(w, from, to)
      BY <2>4 DEF BatchStep, TakeCarry, Answer, GiveWay, FlushCarry, Resubmit, Goto, PCs
    <3>2. QED
      BY <2>4, <3>1, BatchStepKeepsConv, ConstantsAssumption DEF Goto, IInv, TypeOK, TasksMatchThreads
  <2>5. QED
    BY <1>1, <2>1, <2>2, <2>3, <2>4 DEF WorkerStep, BatchStep
<1>2. CASE UNCHANGED threadVars
  BY <1>2 DEF threadVars, IInv, TasksMatchThreads
<1>3. QED
  BY <1>1, <1>2, OnlyWorkersMoveThreads

-----------------------------------------------------------------------------
(* Threads and the locks of conversations.                                 *)

\* A step of w that neither starts nor ends its use of a conversation's lock,
\* takes no lock object, and keeps the conversation of a lock in use.
LEMMA SameUsers ==
    ASSUME IInv, NEW w \in Workers, NEW to \in PCs,
           pc' = [pc EXCEPT ![w] = to],
           UNCHANGED <<lockRef, lockOf, lockUsers, held>>,
           pc[w] \in UsingLock <=> to \in UsingLock,
           to \in HoldingLock => pc[w] \in HoldingLock,
           \A v \in Workers \ {w} : task'[v] = task[v],
           to \in UsingLock => task'[w].conv = task[w].conv
    PROVE  LocksMatchThreads'
<1> USE DEF IInv, TypeOK, LocksMatchThreads
<1>1. \A v \in Workers : v # w => pc'[v] = pc[v]
  OBVIOUS
<1>2. pc'[w] = to
  OBVIOUS
<1>3. \A v \in Workers : pc'[v] \in UsingLock =>
          pc[v] \in UsingLock /\ task'[v].conv = task[v].conv
  BY <1>1, <1>2
<1>4. \A v \in Workers : pc[v] \in UsingLock => pc'[v] \in UsingLock
  BY <1>1, <1>2
<1>5. \A v \in Workers : pc'[v] \in HoldingLock => pc[v] \in HoldingLock
  BY <1>1, <1>2
<1>6. \A k \in Conversations : Users(k)' = Users(k)
  BY <1>3, <1>4 DEF Users
<1>7. \A k \in Conversations : lockUsers'[k] = Cardinality(Users(k)')
  BY <1>6
<1>8. /\ \A v \in Workers : pc'[v] \in UsingLock =>
            lockRef'[v] \in Locks /\ lockRef'[v] = lockOf'[task'[v].conv]
      /\ \A v \in Workers : pc'[v] \in HoldingLock => lockRef'[v] \in held'
      /\ \A u, v \in Workers :
            pc'[u] \in HoldingLock /\ pc'[v] \in HoldingLock /\ lockRef'[u] = lockRef'[v] => u = v
  BY <1>3, <1>5
<1>9. LocksForgotten'
  BY DEF LocksForgotten
<1>10. QED
  BY <1>7, <1>8, <1>9

\* Taking one of the counted users away, or adding a new one.
LEMMA UsersCount ==
    ASSUME NEW k \in Conversations, NEW w \in Workers
    PROVE  /\ w \in Users(k) => /\ Cardinality(Users(k) \ {w}) = Cardinality(Users(k)) - 1
                                /\ Cardinality(Users(k)) = 1 => Users(k) = {w}
           /\ w \notin Users(k) => Cardinality(Users(k) \cup {w}) = Cardinality(Users(k)) + 1
<1>1. IsFiniteSet(Users(k)) /\ Cardinality(Users(k)) \in Nat
  BY UsersFinite
<1>2. ASSUME w \in Users(k)
      PROVE  /\ Cardinality(Users(k) \ {w}) = Cardinality(Users(k)) - 1
             /\ IsFiniteSet(Users(k) \ {w})
  BY <1>1, <1>2, FS_RemoveElement
<1>3. ASSUME w \in Users(k), Cardinality(Users(k)) = 1
      PROVE  Users(k) = {w}
  <2>1. Users(k) \ {w} = {}
    BY <1>2, <1>3, FS_EmptySet
  <2>2. QED
    BY <1>3, <2>1
<1>4. ASSUME w \notin Users(k)
      PROVE  Cardinality(Users(k) \cup {w}) = Cardinality(Users(k)) + 1
  BY <1>1, <1>4, FS_AddElement
<1>5. QED
  BY <1>2, <1>3, <1>4

\* _conversation_lock: the new user finds the object every other user has.
LEMMA GetLockKeepsLocks ==
    ASSUME IInv, NEW w \in Workers, GetLock(w)
    PROVE  LocksMatchThreads'
<1> USE DEF IInv, TypeOK
<1>0. task[w].conv \in Conversations
  BY BusyHasTask DEF GetLock, Goto
<1>k. PICK k \in Conversations : k = task[w].conv
  BY <1>0
<1>1. /\ pc[w] = "queued"
      /\ pc' = [pc EXCEPT ![w] = "waiting"]
      /\ lockUsers' = [lockUsers EXCEPT ![k] = @ + 1]
      /\ task' = task /\ held' = held
  BY <1>k DEF GetLock, Goto
<1>3. PICK l \in Locks : /\ lockOf[k] # NoLock => l = lockOf[k]
                         /\ lockOf' = [lockOf EXCEPT ![k] = l]
                         /\ lockRef' = [lockRef EXCEPT ![w] = l]
  BY <1>k DEF GetLock
<1>4. l # NoLock
  BY ConstantsAssumption
<1>5. Users(k)' = Users(k) \cup {w} /\ w \notin Users(k)
  BY <1>1, <1>k DEF Users, UsingLock
<1>6. \A j \in Conversations \ {k} : Users(j)' = Users(j)
  BY <1>1, <1>k DEF Users, UsingLock
<1>7. \A j \in Conversations : lockUsers'[j] = Cardinality(Users(j)')
  <2>1. lockUsers'[k] = Cardinality(Users(k)')
    <3>1. Cardinality(Users(k) \cup {w}) = Cardinality(Users(k)) + 1
      BY <1>5, UsersCount
    <3>2. lockUsers'[k] = lockUsers[k] + 1 /\ lockUsers[k] = Cardinality(Users(k))
      BY <1>1 DEF LocksMatchThreads
    <3>3. QED
      BY <1>5, <3>1, <3>2
  <2>2. \A j \in Conversations \ {k} : lockUsers'[j] = Cardinality(Users(j)')
    BY <1>1, <1>k, <1>6 DEF LocksMatchThreads
  <2>3. QED
    BY <2>1, <2>2
<1>8. \A v \in Workers : pc'[v] \in UsingLock =>
          lockRef'[v] \in Locks /\ lockRef'[v] = lockOf'[task'[v].conv]
  <2> SUFFICES ASSUME NEW v \in Workers, pc'[v] \in UsingLock
               PROVE  lockRef'[v] \in Locks /\ lockRef'[v] = lockOf'[task'[v].conv]
    OBVIOUS
  <2>1. CASE v = w
    BY <1>1, <1>k, <1>3, <2>1
  <2>2. CASE v # w
    <3>1. pc[v] \in UsingLock /\ lockRef'[v] = lockRef[v] /\ task'[v] = task[v]
      BY <1>1, <1>3, <2>2
    <3>2. lockRef[v] \in Locks /\ lockRef[v] = lockOf[task[v].conv]
      BY <3>1 DEF LocksMatchThreads
    <3>3. CASE task[v].conv = k
      BY <1>k, <1>3, <3>1, <3>2, <3>3, ConstantsAssumption
    <3>4. CASE task[v].conv # k
      BY <1>3, <3>1, <3>2, <3>4
    <3>5. QED
      BY <3>3, <3>4
  <2>3. QED
    BY <2>1, <2>2
<1>9. \A v \in Workers : pc'[v] \in HoldingLock =>
          v # w /\ pc[v] \in HoldingLock /\ lockRef'[v] = lockRef[v]
  BY <1>1, <1>3 DEF HoldingLock
<1>10. LocksForgotten'
  BY <1>1, <1>k, <1>3, <1>4 DEF LocksForgotten, LocksMatchThreads
<1>11. QED
  BY <1>1, <1>7, <1>8, <1>9, <1>10 DEF LocksMatchThreads

\* `with lock:` an object nobody holds gets one holder.
LEMMA AcquireKeepsLocks ==
    ASSUME IInv, NEW w \in Workers, Acquire(w)
    PROVE  LocksMatchThreads'
<1> USE DEF IInv, TypeOK
<1>1. /\ pc[w] = "waiting"
      /\ pc' = [pc EXCEPT ![w] = "taking"]
      /\ lockRef[w] \notin held /\ held' = held \cup {lockRef[w]}
      /\ UNCHANGED <<task, lockRef, lockOf, lockUsers>>
  BY DEF Acquire, Goto
<1>2. \A k \in Conversations : Users(k)' = Users(k)
  BY <1>1 DEF Users, UsingLock
<1>3. \A v \in Workers : pc'[v] \in UsingLock => pc[v] \in UsingLock
  BY <1>1 DEF UsingLock
<1>4. \A v \in Workers : pc'[v] \in HoldingLock => v = w \/ pc[v] \in HoldingLock
  BY <1>1
<1>5. \A v \in Workers : pc[v] \in HoldingLock => lockRef[v] # lockRef[w]
  BY <1>1 DEF LocksMatchThreads
<1>6. /\ \A v \in Workers : pc'[v] \in HoldingLock => lockRef'[v] \in held'
      /\ \A u, v \in Workers :
            pc'[u] \in HoldingLock /\ pc'[v] \in HoldingLock /\ lockRef'[u] = lockRef'[v] => u = v
  BY <1>1, <1>4, <1>5 DEF LocksMatchThreads
<1>7. \A k \in Conversations : lockUsers'[k] = Cardinality(Users(k)')
  BY <1>1, <1>2 DEF LocksMatchThreads
<1>8. LocksForgotten'
  BY <1>1 DEF LocksForgotten, LocksMatchThreads
<1>9. QED
  BY <1>1, <1>3, <1>6, <1>7, <1>8 DEF LocksMatchThreads

\* _release_conversation_lock: the entry goes only with its last user.
LEMMA LeaveLockKeepsLocks ==
    ASSUME IInv, NEW w \in Workers, LeaveLock(w)
    PROVE  LocksMatchThreads'
<1> USE DEF IInv, TypeOK
<1>0. task[w].conv \in Conversations
  BY BusyHasTask DEF LeaveLock, Goto
<1>k. PICK k \in Conversations : k = task[w].conv
  BY <1>0
<1>1. /\ pc[w] = "leaving"
      /\ pc' = [pc EXCEPT ![w] = "unlocking"]
      /\ lockUsers' = [lockUsers EXCEPT ![k] = lockUsers[k] - 1]
      /\ lockOf' = [lockOf EXCEPT ![k] =
                      IF lockUsers[k] - 1 = 0 /\ lockOf[k] = lockRef[w] THEN NoLock ELSE lockOf[k]]
      /\ UNCHANGED <<task, lockRef, held>>
  BY <1>k DEF LeaveLock, Goto
<1>3. w \in Users(k) /\ lockOf[k] = lockRef[w]
  BY <1>1, <1>k DEF Users, UsingLock, LocksMatchThreads
<1>4. Users(k)' = Users(k) \ {w}
  BY <1>1, <1>k DEF Users, UsingLock
<1>5. \A j \in Conversations \ {k} : Users(j)' = Users(j)
  BY <1>1, <1>k DEF Users, UsingLock
<1>6. lockUsers[k] = Cardinality(Users(k)) /\ lockUsers[k] \in Nat \ {0}
  BY <1>1, <1>k, UserIsCounted DEF UsingLock, LocksMatchThreads
<1>7. \A j \in Conversations : lockUsers'[j] = Cardinality(Users(j)')
  <2>1. lockUsers'[k] = Cardinality(Users(k)')
    <3>1. Cardinality(Users(k) \ {w}) = Cardinality(Users(k)) - 1
      BY <1>3, UsersCount
    <3>2. lockUsers'[k] = lockUsers[k] - 1
      BY <1>1
    <3>3. QED
      BY <1>4, <1>6, <3>1, <3>2
  <2>2. \A j \in Conversations \ {k} : lockUsers'[j] = Cardinality(Users(j)')
    BY <1>1, <1>k, <1>5 DEF LocksMatchThreads
  <2>3. QED
    BY <2>1, <2>2
<1>8. \A v \in Workers : pc'[v] \in UsingLock =>
          lockRef'[v] \in Locks /\ lockRef'[v] = lockOf'[task'[v].conv]
  <2> SUFFICES ASSUME NEW v \in Workers, pc'[v] \in UsingLock
               PROVE  lockRef'[v] \in Locks /\ lockRef'[v] = lockOf'[task'[v].conv]
    OBVIOUS
  <2>1. v # w /\ pc[v] \in UsingLock
    BY <1>1 DEF UsingLock
  <2>2. lockRef[v] \in Locks /\ lockRef[v] = lockOf[task[v].conv]
    BY <2>1 DEF LocksMatchThreads
  <2>3. lockOf'[task[v].conv] = lockOf[task[v].conv]
    <3>1. CASE task[v].conv # k
      BY <1>1, <3>1
    <3>2. CASE task[v].conv = k
      <4>1. v \in Users(k)
        BY <2>1, <3>2 DEF Users
      <4>2. Cardinality(Users(k)) = 1 => Users(k) = {w}
        BY <1>3, UsersCount
      <4>3. lockUsers[k] # 1
        BY <1>6, <2>1, <4>1, <4>2
      <4>4. QED
        BY <1>1, <1>6, <3>2, <4>3
    <3>3. QED
      BY <3>1, <3>2
  <2>4. QED
    BY <1>1, <2>2, <2>3
<1>9. \A v \in Workers : pc'[v] \in HoldingLock => pc[v] \in HoldingLock
  BY <1>1 DEF HoldingLock
<1>10. LocksForgotten'
  BY <1>1, <1>k, <1>3, <1>6 DEF LocksForgotten, LocksMatchThreads
<1>11. QED
  BY <1>1, <1>7, <1>8, <1>9, <1>10 DEF LocksMatchThreads

\* The end of `with lock:` frees the one object this thread held.
LEMMA UnlockKeepsLocks ==
    ASSUME IInv, NEW w \in Workers, Unlock(w)
    PROVE  LocksMatchThreads'
<1> USE DEF IInv, TypeOK
<1>1. /\ pc[w] = "unlocking"
      /\ pc' = [pc EXCEPT ![w] = "flushing"]
      /\ held' = held \ {lockRef[w]}
      /\ lockRef' = [lockRef EXCEPT ![w] = NoLock]
      /\ UNCHANGED <<task, lockOf, lockUsers>>
  BY DEF Unlock, Goto
<1>2. \A k \in Conversations : Users(k)' = Users(k)
  BY <1>1 DEF Users, UsingLock
<1>3. \A v \in Workers : pc'[v] \in UsingLock \cup HoldingLock =>
          v # w /\ pc'[v] = pc[v] /\ lockRef'[v] = lockRef[v]
  BY <1>1 DEF UsingLock, HoldingLock
<1>4. \A v \in Workers : pc'[v] \in HoldingLock => lockRef[v] # lockRef[w]
  BY <1>1, <1>3 DEF LocksMatchThreads, HoldingLock
<1>5. \A k \in Conversations : lockUsers'[k] = Cardinality(Users(k)')
  BY <1>1, <1>2 DEF LocksMatchThreads
<1>6. LocksForgotten'
  BY <1>1 DEF LocksForgotten, LocksMatchThreads
<1>7. QED
  BY <1>1, <1>3, <1>4, <1>5, <1>6 DEF LocksMatchThreads

-----------------------------------------------------------------------------
(* The theorems.                                                           *)

\* Every step keeps the locks and the threads that use them in agreement.
LEMMA StepLocks == IInv /\ [Next]_vars => LocksMatchThreads'
<1> SUFFICES ASSUME IInv, [Next]_vars PROVE LocksMatchThreads'
  OBVIOUS
<1>1. ASSUME NEW w \in Workers, WorkerStep(w) PROVE LocksMatchThreads'
  <2> USE DEF UsingLock, HoldingLock, PCs
  <2>1. CASE GetLock(w)
    BY <2>1, GetLockKeepsLocks
  <2>2. CASE Acquire(w)
    BY <2>2, AcquireKeepsLocks
  <2>3. CASE LeaveLock(w)
    BY <2>3, LeaveLockKeepsLocks
  <2>4. CASE Unlock(w)
    BY <2>4, UnlockKeepsLocks
  <2>5. CASE Start(w)
    <3>1. \A v \in Workers \ {w} : task'[v] = task[v]
      BY <2>5 DEF Start, IInv, TypeOK
    <3>2. QED
      BY <2>5, <3>1, SameUsers DEF Start, Goto, lockVars
  <2>6. CASE MarkDone(w)
    <3>1. \A v \in Workers \ {w} : task'[v] = task[v]
      BY <2>6 DEF MarkDone, IInv, TypeOK
    <3>2. QED
      BY <2>6, <3>1, SameUsers DEF MarkDone, Goto, lockVars
  <2>7. CASE SeeNewer(w)
    BY <2>7, SameUsers DEF SeeNewer, Goto, lockVars
  <2>8. CASE TakeCarry(w)
    BY <2>8, SameUsers, BatchStepKeepsConv DEF BatchStep, TakeCarry, Goto, lockVars
  <2>9. CASE Answer(w)
    BY <2>9, SameUsers, BatchStepKeepsConv DEF BatchStep, Answer, Goto, lockVars
  <2>10. CASE GiveWay(w)
    BY <2>10, SameUsers, BatchStepKeepsConv DEF BatchStep, GiveWay, Goto, lockVars
  <2>11. CASE FlushCarry(w)
    BY <2>11, SameUsers, BatchStepKeepsConv DEF BatchStep, FlushCarry, Goto, lockVars
  <2>12. CASE Resubmit(w)
    BY <2>12, SameUsers, BatchStepKeepsConv DEF BatchStep, Resubmit, Goto, lockVars
  <2>13. QED
    BY <1>1, <2>1, <2>2, <2>3, <2>4, <2>5, <2>6, <2>7, <2>8, <2>9, <2>10, <2>11, <2>12
    DEF WorkerStep
<1>2. CASE UNCHANGED threadVars
  <2>1. \A k \in Conversations : Users(k)' = Users(k)
    BY <1>2 DEF threadVars, Users
  <2>2. QED
    BY <1>2, <2>1 DEF threadVars, IInv, LocksMatchThreads, LocksForgotten
<1>3. QED
  BY <1>1, <1>2, OnlyWorkersMoveThreads

\* The invariant holds of the dispatcher __init__ leaves.
LEMMA InitInvariant == Init => IInv
<1> SUFFICES ASSUME Init PROVE IInv
  OBVIOUS
<1>1. TypeOK
  BY NoBatchType DEF Init, TypeOK, IngestStates, PCs
<1>2. TasksMatchThreads
  BY DEF Init, TasksMatchThreads
<1>3. \A k \in Conversations : Users(k) = {}
  BY DEF Init, Users, UsingLock
<1>4. \A k \in Conversations : lockUsers[k] = Cardinality(Users(k))
  BY <1>3, FS_EmptySet DEF Init
<1>5. LocksMatchThreads
  BY <1>4 DEF Init, LocksMatchThreads, LocksForgotten, UsingLock, HoldingLock
<1>6. QED
  BY <1>1, <1>2, <1>5 DEF IInv

\* The inductive invariant: types, and locks in agreement with their users.
THEOREM InductiveInvariant == Spec => []IInv
<1>1. IInv /\ [Next]_vars => IInv'
  BY StepTypes, StepTasks, StepLocks DEF IInv
<1>2. QED
  BY InitInvariant, <1>1, PTL DEF Spec

\* The dispatcher's variables always have their types.
THEOREM TypeCorrect == Spec => []TypeOK
<1>1. IInv => TypeOK
  BY DEF IInv
<1>2. QED
  BY <1>1, InductiveInvariant, PTL

\* "One conversation is answered one message at a time" (_conversation_locks),
\* whatever the number of customers, messages and pool threads.
THEOREM OneTurn == Spec => []OneTurnPerConversation
<1>1. IInv => OneTurnPerConversation
  <2> SUFFICES ASSUME IInv, NEW v \in Workers, NEW w \in Workers,
                      InTurn(v), InTurn(w), task[v].conv = task[w].conv
               PROVE  v = w
    BY DEF OneTurnPerConversation
  <2>1. /\ pc[v] \in UsingLock /\ pc[v] \in HoldingLock
        /\ pc[w] \in UsingLock /\ pc[w] \in HoldingLock
    BY DEF InTurn, UsingLock, HoldingLock
  <2>2. lockRef[v] = lockRef[w]
    BY <2>1 DEF IInv, LocksMatchThreads
  <2>3. QED
    BY <2>1, <2>2 DEF IInv, LocksMatchThreads
<1>2. QED
  BY <1>1, InductiveInvariant, PTL

\* _conversation_locks holds a lock exactly for the conversations some thread
\* is answering or waiting to answer (_release_conversation_lock).
THEOREM LocksDoNotLeak == Spec => []LocksForgotten
<1>1. IInv => LocksForgotten
  BY DEF IInv, LocksMatchThreads
<1>2. QED
  BY <1>1, InductiveInvariant, PTL

-----------------------------------------------------------------------------
(* Where messages are.                                                     *)

\* A batch of conversation k with something in it; or nothing.
Full(k, b) == b.msgs # {} /\ \A m \in b.msgs : ConvOf[m] = k
FullOrNone(k, b) == b = NoBatch \/ Full(k, b)

HandsFull == {"queued", "waiting", "taking", "running", "yielding", "resubmitting"}
HandsEmpty == {"leaving", "unlocking", "flushing", "finishing"}

\* Batches hold the messages of their conversation, and a thread that has
\* answered its batch, or given it back, has none.
BatchesFull ==
    /\ \A k \in Conversations : FullOrNone(k, pending[k]) /\ FullOrNone(k, carry[k])
    /\ \A t \in reviving \cup handing \cup draining : Full(t.conv, t.batch)
    /\ \A i \in DOMAIN queue : Full(queue[i].conv, queue[i].batch)
    /\ \A w \in Workers : /\ pc[w] \in HandsFull => Full(task[w].conv, task[w].batch)
                          /\ pc[w] \in HandsEmpty => task[w].batch = NoBatch
    /\ phase # "draining" => draining = {}

\* Message m is in place x of the kind `tag`: Places, one by one.
At(m, tag, x) ==
    \/ tag = "pending" /\ x \in Conversations /\ m \in pending[x].msgs
    \/ tag = "carry" /\ x \in Conversations /\ m \in carry[x].msgs
    \/ tag = "reviving" /\ x \in reviving /\ m \in x.batch.msgs
    \/ tag = "handing" /\ x \in handing /\ m \in x.batch.msgs
    \/ tag = "draining" /\ x \in draining /\ m \in x.batch.msgs
    \/ tag = "queue" /\ x \in DOMAIN queue /\ m \in queue[x].batch.msgs
    \/ tag = "worker" /\ x \in Workers /\ task[x] # NoTask /\ m \in task[x].batch.msgs
    \/ tag = "handled" /\ x = m /\ m \in handled

Somewhere(m) == \E tag, x : At(m, tag, x)
OncePlaced(m) ==
    /\ \A s, x, t, y : At(m, s, x) /\ At(m, t, y) => s = t /\ x = y
    /\ ingest[m] # "submitted" => ~Somewhere(m)
    /\ ingest[m] = "submitted" /\ phase # "closed" => Somewhere(m)

\* The inductive invariant of NeitherLostNorTwice and of the refinement.
PInv == IInv /\ BatchesFull /\ (\A m \in Messages : OncePlaced(m)) /\ CarryHasTaker

\* Merging keeps the conversation, and something merged in stays.
LEMMA MergeFull ==
    ASSUME NEW k \in Conversations, NEW b \in Batch, NEW other \in Batch,
           FullOrNone(k, b), FullOrNone(k, other), Full(k, b) \/ Full(k, other)
    PROVE  /\ Full(k, Merge(b, other)) /\ Merge(b, other) # NoBatch
           /\ Merge(b, other).msgs = b.msgs \cup other.msgs
BY DEF FullOrNone, Full, Merge, NoBatch, Batch

LEMMA FullFacts ==
    /\ NoBatch.msgs = {} /\ \A k : ~Full(k, NoBatch) /\ FullOrNone(k, NoBatch)
    /\ \A k, b : Full(k, b) => FullOrNone(k, b) /\ b # NoBatch
    /\ \A k, b : FullOrNone(k, b) /\ b # NoBatch => Full(k, b)
    /\ \A k, b : TaskFor(k, b).conv = k /\ TaskFor(k, b).batch = b
BY DEF NoBatch, Full, FullOrNone, TaskFor

\* `submit` puts the messages of a batch into the open one of its conversation.
LEMMA SubmitPlaces ==
    ASSUME TypeOK, BatchesFull, NEW k \in Conversations, NEW b \in Batch, Full(k, b), Submit(k, b)
    PROVE  /\ \A j \in Conversations : FullOrNone(j, pending'[j])
           /\ \A j \in Conversations : j # k => pending'[j] = pending[j]
           /\ pending'[k].msgs = pending[k].msgs \cup b.msgs
           /\ pending'[k] # NoBatch
<1>1. pending[k] \in Batch /\ FullOrNone(k, pending[k]) /\ FullOrNone(k, b)
  BY FullFacts DEF TypeOK, BatchesFull
<1>2. pending'[k] = Merge(pending[k], b) /\ \A j \in Conversations : j # k => pending'[j] = pending[j]
  BY DEF Submit, TypeOK
<1>3. /\ Full(k, Merge(pending[k], b)) /\ Merge(pending[k], b) # NoBatch
      /\ Merge(pending[k], b).msgs = pending[k].msgs \cup b.msgs
  BY <1>1, MergeFull
<1>4. \A j \in Conversations : FullOrNone(j, pending'[j])
  BY <1>2, <1>3, FullFacts DEF BatchesFull
<1>5. QED
  BY <1>2, <1>3, <1>4

LEMMA WebhookBatches ==
    ASSUME TypeOK, BatchesFull, NEW m \in Messages, WebhookStep(m)
    PROVE  BatchesFull'
<1> USE DEF timerVars, poolVars, lockVars, history, webhookVars
<1>k. ConvOf[m] \in Conversations
  BY ConstantsAssumption
<1>1. CASE Announce(m) \/ Ready(m) \/ Decline(m)
  BY <1>1 DEF Announce, Ready, Decline, BatchesFull
<1>2. CASE SubmitMessage(m)
  <2> DEFINE b == [msgs |-> {m}, sup |-> 0]
  <2>1. b \in Batch /\ Full(ConvOf[m], b) /\ Submit(ConvOf[m], b)
    BY <1>2 DEF SubmitMessage, Batch, Full
  <2> HIDE DEF b
  <2>2. \A j \in Conversations : FullOrNone(j, pending'[j])
    BY <1>k, <2>1, SubmitPlaces
  <2>3. QED
    BY <1>2, <2>2 DEF SubmitMessage, BatchesFull
<1>3. CASE SettleFlush(m)
  <2>1. CASE CarryIsDue(ConvOf[m])
    <3> DEFINE k == ConvOf[m]
    <3>1. /\ reviving' = reviving \cup {TaskFor(k, carry[k])}
          /\ carry' = [carry EXCEPT ![k] = NoBatch]
          /\ UNCHANGED <<pending, handing, draining, queue, pc, task, phase>>
      BY <1>3, <2>1 DEF SettleFlush
    <3>2. Full(k, carry[k])
      BY <1>k, <2>1, FullFacts DEF CarryIsDue, BatchesFull
    <3>3. \A j \in Conversations : FullOrNone(j, carry'[j])
      BY <3>1, FullFacts DEF TypeOK, BatchesFull
    <3>4. \A t \in reviving' \cup handing' \cup draining' : Full(t.conv, t.batch)
      BY <3>1, <3>2, FullFacts DEF BatchesFull
    <3>5. QED
      BY <3>1, <3>3, <3>4 DEF BatchesFull
  <2>2. CASE ~CarryIsDue(ConvOf[m])
    BY <1>3, <2>2 DEF SettleFlush, BatchesFull
  <2>3. QED
    BY <2>1, <2>2
<1>4. QED
  BY <1>1, <1>2, <1>3 DEF WebhookStep

LEMMA TimerBatches ==
    ASSUME TypeOK, BatchesFull, NEW k \in Conversations, TimerStep(k)
    PROVE  BatchesFull'
<1> USE DEF timerVars, poolVars, lockVars, history, webhookVars
<1>1. CASE Fire(k) \/ FireLoose(k) \/ HoldExpires(k) \/ HoldBatch(k)
  BY <1>1 DEF Fire, FireLoose, HoldExpires, HoldBatch, BatchesFull
<1>2. CASE ReleaseBatch(k)
  <2>1. /\ pending' = [pending EXCEPT ![k] = NoBatch]
        /\ UNCHANGED <<carry, reviving, draining, queue, pc, task, phase>>
        /\ pending[k] # NoBatch => handing' = handing \cup {TaskFor(k, pending[k])}
        /\ pending[k] = NoBatch => handing' = handing
    BY <1>2 DEF ReleaseBatch
  <2>2. \A j \in Conversations : FullOrNone(j, pending'[j])
    BY <2>1, FullFacts DEF TypeOK, BatchesFull
  <2>3. \A t \in reviving' \cup handing' \cup draining' : Full(t.conv, t.batch)
    BY <2>1, FullFacts DEF BatchesFull
  <2>4. QED
    BY <2>1, <2>2, <2>3 DEF BatchesFull
<1>3. QED
  BY <1>1, <1>2 DEF TimerStep

\* A task at the end of the queue.
LEMMA AppendFacts ==
    ASSUME TypeOK, NEW t \in Task
    PROVE  /\ DOMAIN Append(queue, t) = DOMAIN queue \cup {Len(queue) + 1}
           /\ \A i \in DOMAIN queue : Append(queue, t)[i] = queue[i]
           /\ Append(queue, t)[Len(queue) + 1] = t
           /\ Len(queue) + 1 \notin DOMAIN queue
BY DEF TypeOK

\* The first task of the queue, and the rest.
LEMMA TailFacts ==
    ASSUME TypeOK, queue # <<>>
    PROVE  /\ 1 \in DOMAIN queue /\ Head(queue) = queue[1] /\ Head(queue) \in Task
           /\ \A i \in DOMAIN Tail(queue) :
                i + 1 \in DOMAIN queue /\ i + 1 # 1 /\ Tail(queue)[i] = queue[i + 1]
           /\ \A i \in DOMAIN queue : i # 1 => \E j \in DOMAIN Tail(queue) : j + 1 = i
<1>1. /\ Len(queue) \in Nat /\ Len(queue) >= 1 /\ DOMAIN queue = 1 .. Len(queue)
      /\ Tail(queue) \in Seq(Task) /\ Len(Tail(queue)) = Len(queue) - 1
      /\ DOMAIN Tail(queue) = 1 .. (Len(queue) - 1)
      /\ \A i \in 1 .. (Len(queue) - 1) : Tail(queue)[i] = queue[i + 1]
      /\ Head(queue) = queue[1] /\ Head(queue) \in Task
  BY DEF TypeOK
<1>2. \A i \in DOMAIN queue : i # 1 => i - 1 \in DOMAIN Tail(queue) /\ (i - 1) + 1 = i
  BY <1>1
<1>3. QED
  BY <1>1, <1>2

LEMMA HandoverBatches ==
    ASSUME TypeOK, BatchesFull,
           \/ \E t \in reviving : Revive(t)
           \/ \E t \in handing : HandToPool(t)
           \/ Shutdown
    PROVE  BatchesFull'
<1> USE DEF timerVars, poolVars, lockVars, history, webhookVars
<1>1. ASSUME NEW t \in reviving, Revive(t)
      PROVE  BatchesFull'
  <2>1. Full(t.conv, t.batch) /\ t.conv \in Conversations /\ t.batch \in Batch
    BY TaskType DEF BatchesFull, TypeOK
  <2>2. \A j \in Conversations : FullOrNone(j, pending'[j])
    BY <1>1, <2>1, SubmitPlaces DEF Revive
  <2>3. QED
    BY <1>1, <2>2 DEF Revive, BatchesFull
<1>2. ASSUME NEW t \in handing \cup draining,
             queue' = Append(queue, t), UNCHANGED <<pending, carry, reviving, pc, task, phase>>,
             handing' \subseteq handing, draining' \subseteq draining
      PROVE  BatchesFull'
  <2>1. t \in Task /\ Full(t.conv, t.batch)
    BY DEF TypeOK, BatchesFull
  <2>2. \A i \in DOMAIN queue' : Full(queue'[i].conv, queue'[i].batch)
    BY <1>2, <2>1, AppendFacts DEF BatchesFull
  <2>3. QED
    BY <1>2, <2>2 DEF BatchesFull
<1>3. ASSUME NEW t \in handing, HandToPool(t)
      PROVE  BatchesFull'
  <2>1. CASE phase = "closed"
    BY <1>3, <2>1 DEF HandToPool, BatchesFull
  <2>2. CASE phase # "closed"
    BY <1>2, <1>3, <2>2 DEF HandToPool
  <2>3. QED
    BY <2>1, <2>2
<1>4. ASSUME NEW t \in draining, ShutdownSubmit(t)
      PROVE  BatchesFull'
  BY <1>2, <1>4 DEF ShutdownSubmit
<1>5. CASE ShutdownCancel \/ ShutdownPool
  BY <1>5 DEF ShutdownCancel, ShutdownPool, BatchesFull
<1>6. CASE ShutdownDrain
  <2>1. /\ pending' = [k \in Conversations |-> NoBatch] /\ phase' = "draining"
        /\ UNCHANGED <<carry, reviving, handing, queue, pc, task>>
        /\ draining' = {TaskFor(k, pending[k]) : k \in {c \in Conversations : pending[c] # NoBatch}}
    BY <1>6 DEF ShutdownDrain
  <2>2. \A t \in draining' : Full(t.conv, t.batch)
    BY <2>1, FullFacts DEF BatchesFull
  <2>3. \A j \in Conversations : FullOrNone(j, pending'[j])
    BY <2>1, FullFacts
  <2>4. QED
    BY <2>1, <2>2, <2>3 DEF BatchesFull
<1>7. QED
  BY <1>1, <1>3, <1>4, <1>5, <1>6 DEF Shutdown

\* What thread w has in hand becomes b, at a new step of its run.
Takes(w, to, b) ==
    /\ pc' = [pc EXCEPT ![w] = to]
    /\ task' = [task EXCEPT ![w] = [task[w] EXCEPT !.batch = b]]

LEMMA TakesFacts ==
    ASSUME IInv, NEW w \in Workers, NEW to, NEW b \in Batch, pc[w] # "idle", Takes(w, to, b)
    PROVE  /\ pc'[w] = to /\ task'[w].batch = b /\ task'[w].conv = task[w].conv
           /\ task'[w] # NoTask /\ task[w] # NoTask
           /\ \A v \in Workers : v # w => pc'[v] = pc[v] /\ task'[v] = task[v]
<1>1. task[w] \in Task
  BY BusyHasTask DEF IInv
<1>2. /\ pc'[w] = to /\ task'[w] = [task[w] EXCEPT !.batch = b]
      /\ \A v \in Workers : v # w => pc'[v] = pc[v] /\ task'[v] = task[v]
  BY DEF Takes, IInv, TypeOK
<1>3. [task[w] EXCEPT !.batch = b] \in Task /\ [task[w] EXCEPT !.batch = b].conv = task[w].conv
      /\ [task[w] EXCEPT !.batch = b].batch = b
  BY <1>1, TaskBatchType DEF Task
<1>4. QED
  BY <1>1, <1>2, <1>3, ConstantsAssumption

\* What a thread that gives way carries over.
LEMMA GiveWayCarry ==
    ASSUME IInv, BatchesFull, NEW w \in Workers, GiveWay(w)
    PROVE  LET k == task[w].conv IN
           /\ k \in Conversations /\ Full(k, task[w].batch)
           /\ \A j \in Conversations : j # k => carry'[j] = carry[j]
           /\ Full(k, carry'[k]) /\ carry'[k].msgs = carry[k].msgs \cup task[w].batch.msgs
<1> DEFINE k == task[w].conv
           b == [task[w].batch EXCEPT !.sup = @ + 1]
<1>1. k \in Conversations /\ task[w].batch \in Batch /\ Full(k, task[w].batch)
  BY BusyHasTask DEF IInv, GiveWay, Goto, BatchesFull, HandsFull
<1>2. b \in Batch /\ b.msgs = task[w].batch.msgs /\ Full(k, b)
  BY <1>1 DEF Batch, Full
<1>3. carry' = [carry EXCEPT ![k] = IF carry[k] = NoBatch THEN b ELSE Merge(carry[k], b)]
  BY DEF GiveWay
<1> HIDE DEF k, b
<1>4. carry[k] \in Batch /\ FullOrNone(k, carry[k]) /\ FullOrNone(k, b)
  BY <1>1, <1>2, FullFacts DEF IInv, TypeOK, BatchesFull
<1>5. Full(k, carry'[k]) /\ carry'[k].msgs = carry[k].msgs \cup b.msgs
  <2>1. CASE carry[k] = NoBatch
    BY <1>1, <1>2, <1>3, <2>1, FullFacts DEF IInv, TypeOK
  <2>2. CASE carry[k] # NoBatch
    BY <1>1, <1>2, <1>3, <1>4, <2>2, MergeFull DEF IInv, TypeOK
  <2>3. QED
    BY <2>1, <2>2
<1>6. \A j \in Conversations : j # k => carry'[j] = carry[j]
  BY <1>3 DEF IInv, TypeOK
<1>7. QED
  BY <1>1, <1>2, <1>5, <1>6 DEF k

\* What a thread that takes the carried batch has in hand.
LEMMA TakeCarryHands ==
    ASSUME IInv, BatchesFull, NEW w \in Workers, TakeCarry(w)
    PROVE  LET k == task[w].conv IN
           /\ k \in Conversations /\ Full(k, task'[w].batch) /\ task'[w].conv = k
           /\ task'[w].batch.msgs = carry[k].msgs \cup task[w].batch.msgs
           /\ task'[w] # NoTask /\ task[w] # NoTask /\ pc'[w] = "running"
           /\ \A v \in Workers : v # w => pc'[v] = pc[v] /\ task'[v] = task[v]
           /\ carry'[k] = NoBatch /\ \A j \in Conversations : j # k => carry'[j] = carry[j]
<1> DEFINE k == task[w].conv
           b == IF carry[k] = NoBatch THEN task[w].batch ELSE Merge(carry[k], task[w].batch)
<1>1. /\ k \in Conversations /\ task[w].batch \in Batch /\ Full(k, task[w].batch)
      /\ pc[w] # "idle"
  BY BusyHasTask DEF IInv, TakeCarry, Goto, BatchesFull, HandsFull
<1>2. carry' = [carry EXCEPT ![k] = NoBatch] /\ Takes(w, "running", b)
  BY DEF TakeCarry, Goto, Takes
<1>3. carry[k] \in Batch /\ FullOrNone(k, carry[k]) /\ FullOrNone(k, task[w].batch)
  BY <1>1, FullFacts DEF IInv, TypeOK, BatchesFull
<1>4. b \in Batch /\ Full(k, b) /\ b.msgs = carry[k].msgs \cup task[w].batch.msgs
  <2>1. CASE carry[k] = NoBatch
    BY <1>1, <2>1, FullFacts
  <2>2. CASE carry[k] # NoBatch
    BY <1>1, <1>3, <2>2, MergeFull, MergeType
  <2>3. QED
    BY <2>1, <2>2
<1>5. carry'[k] = NoBatch /\ \A j \in Conversations : j # k => carry'[j] = carry[j]
  BY <1>1, <1>2 DEF IInv, TypeOK
<1> HIDE DEF b
<1>6. /\ pc'[w] = "running" /\ task'[w].batch = b /\ task'[w].conv = k
      /\ task'[w] # NoTask /\ task[w] # NoTask
      /\ \A v \in Workers : v # w => pc'[v] = pc[v] /\ task'[v] = task[v]
  BY <1>1, <1>2, <1>4, TakesFacts
<1>7. QED
  BY <1>1, <1>4, <1>5, <1>6

\* What a thread has in hand when it flushes the carried batch.
LEMMA FlushHands ==
    ASSUME IInv, BatchesFull, NEW w \in Workers, FlushCarry(w), CarryIsDue(task[w].conv)
    PROVE  LET k == task[w].conv IN
           /\ k \in Conversations /\ Full(k, carry[k]) /\ task'[w].conv = k
           /\ task'[w].batch = carry[k] /\ task[w].batch = NoBatch
           /\ task'[w] # NoTask /\ task[w] # NoTask /\ pc'[w] = "resubmitting"
           /\ \A v \in Workers : v # w => pc'[v] = pc[v] /\ task'[v] = task[v]
           /\ carry'[k] = NoBatch /\ \A j \in Conversations : j # k => carry'[j] = carry[j]
<1> DEFINE k == task[w].conv
<1>1. k \in Conversations /\ task[w].batch = NoBatch /\ pc[w] # "idle"
  BY BusyHasTask DEF IInv, FlushCarry, BatchesFull, HandsEmpty
<1>2. carry' = [carry EXCEPT ![k] = NoBatch] /\ Takes(w, "resubmitting", carry[k])
  BY DEF FlushCarry, Goto, Takes
<1>3. carry[k] \in Batch /\ Full(k, carry[k])
  BY <1>1, FullFacts DEF IInv, TypeOK, BatchesFull, CarryIsDue
<1>4. carry'[k] = NoBatch /\ \A j \in Conversations : j # k => carry'[j] = carry[j]
  BY <1>1, <1>2 DEF IInv, TypeOK
<1>5. /\ pc'[w] = "resubmitting" /\ task'[w].batch = carry[k] /\ task'[w].conv = k
      /\ task'[w] # NoTask /\ task[w] # NoTask
      /\ \A v \in Workers : v # w => pc'[v] = pc[v] /\ task'[v] = task[v]
  BY <1>1, <1>2, <1>3, TakesFacts
<1>6. QED
  BY <1>1, <1>3, <1>4, <1>5

\* Answering, giving way and resubmitting leave a thread's hands empty.
LEMMA EmptyHands ==
    ASSUME IInv, BatchesFull, NEW w \in Workers, Answer(w) \/ GiveWay(w) \/ Resubmit(w)
    PROVE  LET k == task[w].conv IN
           /\ k \in Conversations /\ Full(k, task[w].batch) /\ task[w].batch \in Batch
           /\ task'[w].batch = NoBatch /\ task'[w].conv = k
           /\ task'[w] # NoTask /\ task[w] # NoTask
           /\ pc'[w] = IF Resubmit(w) THEN "finishing" ELSE "leaving"
           /\ pc[w] \in HandsFull
           /\ \A v \in Workers : v # w => pc'[v] = pc[v] /\ task'[v] = task[v]
<1> DEFINE k == task[w].conv
           to == IF Resubmit(w) THEN "finishing" ELSE "leaving"
<1>1. /\ k \in Conversations /\ task[w].batch \in Batch /\ Full(k, task[w].batch)
      /\ pc[w] \in HandsFull /\ pc[w] # "idle"
  BY BusyHasTask DEF IInv, Answer, GiveWay, Resubmit, Goto, BatchesFull, HandsFull
<1>2. Takes(w, to, NoBatch)
  BY DEF Answer, GiveWay, Resubmit, Goto, Takes
<1> HIDE DEF to
<1>3. /\ pc'[w] = to /\ task'[w].batch = NoBatch /\ task'[w].conv = k
      /\ task'[w] # NoTask /\ task[w] # NoTask
      /\ \A v \in Workers : v # w => pc'[v] = pc[v] /\ task'[v] = task[v]
  BY <1>1, <1>2, TakesFacts, NoBatchType
<1>4. QED
  BY <1>1, <1>3 DEF to

LEMMA WorkerBatches ==
    ASSUME IInv, BatchesFull, NEW w \in Workers, WorkerStep(w)
    PROVE  BatchesFull'
<1> USE DEF timerVars, poolVars, lockVars, history, webhookVars, HandsFull, HandsEmpty
<1>t. TypeOK
  BY DEF IInv
<1>1. CASE Start(w)
  <2>1. /\ queue # <<>> /\ queue' = Tail(queue) /\ pc'[w] = "queued" /\ task'[w] = Head(queue)
        /\ \A v \in Workers : v # w => pc'[v] = pc[v] /\ task'[v] = task[v]
        /\ UNCHANGED <<pending, carry, reviving, handing, draining, phase>>
    BY <1>1, <1>t DEF Start, Goto, TypeOK
  <2>2. Full(task'[w].conv, task'[w].batch)
    BY <1>t, <2>1, TailFacts DEF BatchesFull
  <2>3. \A i \in DOMAIN queue' : Full(queue'[i].conv, queue'[i].batch)
    BY <1>t, <2>1, TailFacts DEF BatchesFull
  <2>4. \A v \in Workers : /\ pc'[v] \in HandsFull => Full(task'[v].conv, task'[v].batch)
                           /\ pc'[v] \in HandsEmpty => task'[v].batch = NoBatch
    BY <2>1, <2>2 DEF BatchesFull
  <2>5. QED
    BY <2>1, <2>3, <2>4 DEF BatchesFull
<1>2. CASE GetLock(w) \/ Acquire(w) \/ SeeNewer(w) \/ LeaveLock(w) \/ Unlock(w)
  <2>1. /\ UNCHANGED <<pending, carry, reviving, handing, draining, phase, queue, task>>
        /\ \A v \in Workers : /\ pc'[v] \in HandsFull => pc[v] \in HandsFull
                              /\ pc'[v] \in HandsEmpty => pc[v] \in HandsEmpty
    BY <1>2, <1>t DEF GetLock, Acquire, SeeNewer, LeaveLock, Unlock, Goto, TypeOK
  <2>2. QED
    BY <2>1 DEF BatchesFull
<1>3. CASE TakeCarry(w)
  <2>1. UNCHANGED <<pending, reviving, handing, draining, phase, queue>>
    BY <1>3 DEF TakeCarry
  <2>2. \A j \in Conversations : FullOrNone(j, carry'[j])
    BY <1>3, TakeCarryHands, FullFacts DEF BatchesFull
  <2>3. \A v \in Workers : /\ pc'[v] \in HandsFull => Full(task'[v].conv, task'[v].batch)
                           /\ pc'[v] \in HandsEmpty => task'[v].batch = NoBatch
    BY <1>3, TakeCarryHands DEF BatchesFull
  <2>4. QED
    BY <2>1, <2>2, <2>3 DEF BatchesFull
<1>4. CASE Answer(w) \/ GiveWay(w) \/ Resubmit(w)
  <2>1. UNCHANGED <<reviving, handing, draining, phase, queue>>
    BY <1>4 DEF Answer, GiveWay, Resubmit
  <2>2. \A j \in Conversations : FullOrNone(j, carry'[j])
    <3>1. CASE GiveWay(w)
      BY <3>1, GiveWayCarry, FullFacts DEF BatchesFull
    <3>2. CASE ~GiveWay(w)
      BY <1>4, <3>2 DEF Answer, Resubmit, BatchesFull
    <3>3. QED
      BY <3>1, <3>2
  <2>3. \A j \in Conversations : FullOrNone(j, pending'[j])
    <3>1. CASE Resubmit(w)
      <4>1. Submit(task[w].conv, task[w].batch)
        BY <3>1 DEF Resubmit
      <4>2. task[w].conv \in Conversations /\ Full(task[w].conv, task[w].batch) /\ task[w].batch \in Batch
        BY <3>1, EmptyHands
      <4>3. QED
        BY <1>t, <4>1, <4>2, SubmitPlaces
    <3>2. CASE ~Resubmit(w)
      BY <1>4, <3>2 DEF Answer, GiveWay, BatchesFull
    <3>3. QED
      BY <3>1, <3>2
  <2>4. \A v \in Workers : /\ pc'[v] \in HandsFull => Full(task'[v].conv, task'[v].batch)
                           /\ pc'[v] \in HandsEmpty => task'[v].batch = NoBatch
    BY <1>4, EmptyHands DEF BatchesFull
  <2>5. QED
    BY <2>1, <2>2, <2>3, <2>4 DEF BatchesFull
<1>5. CASE FlushCarry(w)
  <2>1. UNCHANGED <<pending, reviving, handing, draining, phase, queue>>
    BY <1>5 DEF FlushCarry
  <2>2. CASE CarryIsDue(task[w].conv)
    <3>1. \A j \in Conversations : FullOrNone(j, carry'[j])
      BY <1>5, <2>2, FlushHands, FullFacts DEF BatchesFull
    <3>2. \A v \in Workers : /\ pc'[v] \in HandsFull => Full(task'[v].conv, task'[v].batch)
                             /\ pc'[v] \in HandsEmpty => task'[v].batch = NoBatch
      BY <1>5, <2>2, FlushHands DEF BatchesFull
    <3>3. QED
      BY <2>1, <3>1, <3>2 DEF BatchesFull
  <2>3. CASE ~CarryIsDue(task[w].conv)
    <3>1. /\ UNCHANGED <<carry, task>> /\ pc[w] = "flushing" /\ pc'[w] = "finishing"
          /\ \A v \in Workers : v # w => pc'[v] = pc[v]
      BY <1>5, <1>t, <2>3 DEF FlushCarry, Goto, TypeOK
    <3>2. QED
      BY <2>1, <3>1 DEF BatchesFull
  <2>4. QED
    BY <2>2, <2>3
<1>6. CASE MarkDone(w)
  <2>1. /\ UNCHANGED <<pending, carry, reviving, handing, draining, phase, queue>>
        /\ pc'[w] = "idle" /\ \A v \in Workers : v # w => pc'[v] = pc[v] /\ task'[v] = task[v]
    BY <1>6, <1>t DEF MarkDone, Goto, TypeOK
  <2>2. QED
    BY <2>1 DEF BatchesFull
<1>7. QED
  BY <1>1, <1>2, <1>3, <1>4, <1>5, <1>6 DEF WorkerStep

LEMMA StepBatches ==
    ASSUME IInv, BatchesFull, [Next]_vars
    PROVE  BatchesFull'
<1>1. CASE UNCHANGED vars
  BY <1>1 DEF vars, BatchesFull
<1>2. QED
  BY <1>1, WebhookBatches, TimerBatches, HandoverBatches, WorkerBatches DEF Next, IInv

-----------------------------------------------------------------------------
(* A message is in one place.                                              *)

\* If m is in place a of kind s, it goes to place b of kind t; nothing else
\* of it moves.
Moves(m, s, a, t, b) ==
    /\ \A tag, x : At(m, tag, x)' => (At(m, tag, x) /\ ~(tag = s /\ x = a)) \/ (tag = t /\ x = b)
    /\ At(m, t, b)' => At(m, s, a) \/ At(m, t, b)
    /\ \A tag, x : At(m, tag, x) => At(m, tag, x)' \/ (tag = s /\ x = a /\ At(m, t, b)')

SameStanding(m) ==
    /\ ingest'[m] = "submitted" <=> ingest[m] = "submitted"
    /\ phase' # "closed" => phase # "closed"

LEMMA MovedOnce ==
    ASSUME NEW m, OncePlaced(m), SameStanding(m), NEW s, NEW a, NEW t, NEW b, Moves(m, s, a, t, b)
    PROVE  OncePlaced(m)'
<1>1. \A r, x, q, y : At(m, r, x)' /\ At(m, q, y)' => r = q /\ x = y
  BY DEF Moves, OncePlaced
<1>2. Somewhere(m)' <=> Somewhere(m)
  BY DEF Moves, Somewhere
<1>3. QED
  BY <1>1, <1>2 DEF OncePlaced, SameStanding

\* Nothing moves.
LEMMA QuietOnce ==
    ASSUME NEW m, OncePlaced(m), SameStanding(m),
           UNCHANGED <<pending, carry, reviving, handing, draining, queue, task, handled>>
    PROVE  OncePlaced(m)'
<1>1. \A tag, x : At(m, tag, x)' <=> At(m, tag, x)
  BY DEF At
<1>2. QED
  BY <1>1 DEF OncePlaced, SameStanding, Somewhere

LEMMA SubmitMessageOnce ==
    ASSUME IInv, BatchesFull, NEW n \in Messages, SubmitMessage(n), NEW m \in Messages, OncePlaced(m)
    PROVE  OncePlaced(m)'
<1> DEFINE k == ConvOf[n]
           b == [msgs |-> {n}, sup |-> 0]
<1>1. k \in Conversations
  BY ConstantsAssumption
<1>2. b \in Batch /\ Full(k, b) /\ Submit(k, b) /\ b.msgs = {n}
  BY DEF SubmitMessage, Batch, Full
<1> HIDE DEF b
<1>3. /\ \A j \in Conversations : j # k => pending'[j] = pending[j]
      /\ pending'[k].msgs = pending[k].msgs \cup {n}
  BY <1>1, <1>2, SubmitPlaces DEF IInv
<1>4. /\ UNCHANGED <<carry, reviving, handing, draining, queue, task, handled, phase>>
      /\ ingest[n] = "submitting" /\ ingest'[n] = "submitted"
      /\ m # n => ingest'[m] = ingest[m]
  BY DEF SubmitMessage, poolVars, history, IInv, TypeOK
<1>5. \A tag, x : At(m, tag, x)' <=> At(m, tag, x) \/ (m = n /\ tag = "pending" /\ x = k)
  BY <1>1, <1>3, <1>4 DEF At
<1>6. CASE m = n
  <2>1. ~Somewhere(m)
    BY <1>4, <1>6 DEF OncePlaced
  <2>2. QED
    BY <1>4, <1>5, <1>6, <2>1 DEF OncePlaced, Somewhere
<1>7. CASE m # n
  BY <1>4, <1>5, <1>7 DEF OncePlaced, Somewhere
<1>8. QED
  BY <1>6, <1>7

\* From the carried batches to a webhook thread, and from there back.
LEMMA SettleFlushOnce ==
    ASSUME IInv, NEW n \in Messages, SettleFlush(n), NEW m \in Messages, OncePlaced(m)
    PROVE  OncePlaced(m)'
<1> DEFINE k == ConvOf[n]
<1>1. /\ UNCHANGED <<pending, handing, draining, queue, task, handled, phase>>
      /\ SameStanding(m) /\ k \in Conversations
  BY ConstantsAssumption DEF SettleFlush, poolVars, history, SameStanding, IInv, TypeOK
<1>2. CASE CarryIsDue(k)
  <2>1. PICK t : t = TaskFor(k, carry[k])
    OBVIOUS
  <2>2. /\ reviving' = reviving \cup {t} /\ carry' = [carry EXCEPT ![k] = NoBatch]
        /\ t.batch = carry[k]
    BY <1>2, <2>1, FullFacts DEF SettleFlush
  <2>3. /\ carry'[k].msgs = {} /\ \A j \in Conversations : j # k => carry'[j] = carry[j]
        /\ t.batch.msgs = carry[k].msgs
    BY <1>1, <2>2, FullFacts DEF IInv, TypeOK
  <2>4. Moves(m, "carry", k, "reviving", t)
    BY <1>1, <2>2, <2>3 DEF Moves, At
  <2>5. QED
    BY <1>1, <2>4, MovedOnce
<1>3. CASE ~CarryIsDue(k)
  BY <1>1, <1>3, QuietOnce DEF SettleFlush
<1>4. QED
  BY <1>2, <1>3

LEMMA ReviveOnce ==
    ASSUME IInv, BatchesFull, NEW t \in reviving, Revive(t), NEW m \in Messages, OncePlaced(m)
    PROVE  OncePlaced(m)'
<1>1. /\ t.conv \in Conversations /\ t.batch \in Batch /\ Full(t.conv, t.batch)
      /\ Submit(t.conv, t.batch) /\ reviving' = reviving \ {t}
      /\ UNCHANGED <<ingest, carry, handing, draining, queue, task, handled, phase>>
  BY TaskType DEF IInv, TypeOK, BatchesFull, Revive, poolVars, history
<1>2. /\ \A j \in Conversations : j # t.conv => pending'[j] = pending[j]
      /\ pending'[t.conv].msgs = pending[t.conv].msgs \cup t.batch.msgs
  BY <1>1, SubmitPlaces DEF IInv
<1>3. PICK k \in Conversations : k = t.conv
  BY <1>1
<1>4. Moves(m, "reviving", t, "pending", k)
  BY <1>1, <1>2, <1>3 DEF Moves, At
<1>5. QED
  BY <1>1, <1>4, MovedOnce DEF SameStanding

LEMMA ReleaseOnce ==
    ASSUME IInv, NEW k \in Conversations, ReleaseBatch(k), NEW m \in Messages, OncePlaced(m)
    PROVE  OncePlaced(m)'
<1>1. UNCHANGED <<ingest, carry, reviving, draining, queue, task, handled, phase>>
  BY DEF ReleaseBatch, webhookVars, poolVars, history
<1>2. CASE pending[k] # NoBatch
  <2>1. PICK t : t = TaskFor(k, pending[k])
    OBVIOUS
  <2>2. /\ handing' = handing \cup {t} /\ pending' = [pending EXCEPT ![k] = NoBatch]
        /\ t.batch = pending[k]
    BY <1>2, <2>1, FullFacts DEF ReleaseBatch
  <2>3. /\ pending'[k].msgs = {} /\ \A j \in Conversations : j # k => pending'[j] = pending[j]
        /\ t.batch.msgs = pending[k].msgs
    BY <2>2, FullFacts DEF IInv, TypeOK
  <2>4. Moves(m, "pending", k, "handing", t)
    BY <1>1, <2>2, <2>3 DEF Moves, At
  <2>5. QED
    BY <1>1, <2>4, MovedOnce DEF SameStanding
<1>3. CASE pending[k] = NoBatch
  <2>1. handing' = handing /\ pending' = pending
    BY <1>3 DEF ReleaseBatch, IInv, TypeOK
  <2>2. QED
    BY <1>1, <2>1, QuietOnce DEF SameStanding
<1>4. QED
  BY <1>2, <1>3

\* A timer's batch is queued; after the pool is closed it is gone.
LEMMA HandToPoolOnce ==
    ASSUME IInv, NEW t \in handing, HandToPool(t), NEW m \in Messages, OncePlaced(m)
    PROVE  OncePlaced(m)'
<1>1. /\ handing' = handing \ {t} /\ t \in Task
      /\ UNCHANGED <<ingest, pending, carry, reviving, draining, task, handled, phase>>
  BY DEF HandToPool, webhookVars, poolVars, history, IInv, TypeOK
<1>2. CASE phase = "closed"
  <2>1. queue' = queue
    BY <1>2 DEF HandToPool
  <2>2. \A tag, x : At(m, tag, x)' => At(m, tag, x)
    BY <1>1, <2>1 DEF At
  <2>3. QED
    BY <1>1, <1>2, <2>2 DEF OncePlaced, Somewhere
<1>3. CASE phase # "closed"
  <2>1. PICK i : i = Len(queue) + 1
    OBVIOUS
  <2>2. /\ queue' = Append(queue, t) /\ DOMAIN queue' = DOMAIN queue \cup {i}
        /\ i \notin DOMAIN queue /\ queue'[i] = t /\ \A j \in DOMAIN queue : queue'[j] = queue[j]
    BY <1>1, <1>3, <2>1, AppendFacts DEF HandToPool, IInv
  <2>3. Moves(m, "handing", t, "queue", i)
    BY <1>1, <2>2 DEF Moves, At
  <2>4. QED
    BY <1>1, <2>3, MovedOnce DEF SameStanding
<1>4. QED
  BY <1>2, <1>3

LEMMA ShutdownOnce ==
    ASSUME IInv, BatchesFull, Shutdown, NEW m \in Messages, OncePlaced(m)
    PROVE  OncePlaced(m)'
<1> USE DEF webhookVars, poolVars, history
<1>1. CASE ShutdownCancel \/ ShutdownPool
  BY <1>1, QuietOnce DEF ShutdownCancel, ShutdownPool, SameStanding
<1>2. CASE ShutdownDrain
  <2>1. /\ pending' = [k \in Conversations |-> NoBatch] /\ phase = "cancelled" /\ phase' = "draining"
        /\ draining' = {TaskFor(k, pending[k]) : k \in {c \in Conversations : pending[c] # NoBatch}}
        /\ UNCHANGED <<ingest, carry, reviving, handing, queue, task, handled>>
    BY <1>2 DEF ShutdownDrain
  <2>2. draining = {}
    BY <2>1 DEF BatchesFull
  <2>3. ASSUME NEW tag, NEW x, At(m, tag, x)'
        PROVE  \/ tag # "draining" /\ tag # "pending" /\ At(m, tag, x)
               \/ tag = "draining" /\ \E k \in Conversations : x = TaskFor(k, pending[k]) /\ At(m, "pending", k)
    <3>1. tag # "pending"
      BY <2>1, <2>3, FullFacts DEF At
    <3>2. CASE tag # "draining"
      BY <2>1, <2>3, <3>1, <3>2 DEF At
    <3>3. CASE tag = "draining"
      <4>1. x \in draining' /\ m \in x.batch.msgs
        BY <2>3, <3>3 DEF At
      <4>2. PICK k \in Conversations : x = TaskFor(k, pending[k])
        BY <2>1, <4>1
      <4>3. m \in pending[k].msgs
        BY <4>1, <4>2, FullFacts
      <4>4. QED
        BY <3>3, <4>2, <4>3 DEF At
    <3>4. QED
      BY <3>1, <3>2, <3>3
  <2>4. ASSUME NEW tag, NEW x, At(m, tag, x)
        PROVE  Somewhere(m)'
    <3>1. CASE tag = "pending"
      <4>1. /\ x \in Conversations /\ m \in pending[x].msgs
        BY <2>4, <3>1 DEF At
      <4>2. TaskFor(x, pending[x]) \in draining'
        BY <2>1, <4>1, FullFacts
      <4>3. PICK t \in draining' : t = TaskFor(x, pending[x])
        BY <4>2
      <4>4. m \in t.batch.msgs
        BY <4>1, <4>3, FullFacts
      <4>5. At(m, "draining", t)'
        BY <4>3, <4>4 DEF At
      <4>6. QED
        BY <4>5 DEF Somewhere
    <3>2. CASE tag # "pending"
      <4>1. tag # "draining"
        BY <2>2, <2>4 DEF At
      <4>2. At(m, tag, x)'
        BY <2>1, <2>4, <3>2, <4>1 DEF At
      <4>3. QED
        BY <4>2 DEF Somewhere
    <3>3. QED
      BY <3>1, <3>2
  <2>5. \A s, x, t, y : At(m, s, x)' /\ At(m, t, y)' => s = t /\ x = y
    BY <2>3 DEF OncePlaced
  <2>6. Somewhere(m)' <=> Somewhere(m)
    BY <2>3, <2>4 DEF Somewhere
  <2>7. QED
    BY <2>1, <2>5, <2>6 DEF OncePlaced
<1>3. ASSUME NEW t \in draining, ShutdownSubmit(t)
      PROVE  OncePlaced(m)'
  <2>1. /\ draining' = draining \ {t} /\ t \in Task /\ queue' = Append(queue, t)
        /\ UNCHANGED <<ingest, pending, carry, reviving, handing, task, handled, phase>>
    BY <1>3 DEF ShutdownSubmit, IInv, TypeOK
  <2>2. PICK i : i = Len(queue) + 1
    OBVIOUS
  <2>3. /\ DOMAIN queue' = DOMAIN queue \cup {i}
        /\ i \notin DOMAIN queue /\ queue'[i] = t /\ \A j \in DOMAIN queue : queue'[j] = queue[j]
    BY <2>1, <2>2, AppendFacts DEF IInv
  <2>4. Moves(m, "draining", t, "queue", i)
    BY <2>1, <2>3 DEF Moves, At
  <2>5. QED
    BY <2>1, <2>4, MovedOnce DEF SameStanding
<1>4. QED
  BY <1>1, <1>2, <1>3 DEF Shutdown

\* A thread takes the first task of the queue; the others move up.
LEMMA StartOnce ==
    ASSUME IInv, NEW w \in Workers, Start(w), NEW m \in Messages, OncePlaced(m)
    PROVE  OncePlaced(m)'
<1>1. /\ queue # <<>> /\ queue' = Tail(queue) /\ task[w] = NoTask /\ task'[w] = Head(queue)
      /\ \A v \in Workers : v # w => task'[v] = task[v]
      /\ UNCHANGED <<ingest, pending, carry, reviving, handing, draining, handled, phase>>
  BY DEF Start, Goto, IInv, TypeOK, TasksMatchThreads, webhookVars, history
<1>2. /\ 1 \in DOMAIN queue /\ task'[w] = queue[1] /\ task'[w] # NoTask
      /\ \A i \in DOMAIN queue' :
            i + 1 \in DOMAIN queue /\ i + 1 # 1 /\ queue'[i] = queue[i + 1]
      /\ \A i \in DOMAIN queue : i # 1 => \E j \in DOMAIN queue' : j + 1 = i
  BY <1>1, TailFacts, ConstantsAssumption DEF IInv
<1>3. DOMAIN queue \subseteq Nat /\ DOMAIN queue' \subseteq Nat
  <2>1. queue \in Seq(Task) /\ queue' \in Seq(Task)
    BY <1>1 DEF IInv, TypeOK
  <2>2. QED
    BY <2>1
\* Where a message that is in a place now was before.
<1> DEFINE CameFrom(tag, x, s, y) ==
             \/ tag = "queue" /\ x \in DOMAIN queue' /\ s = "queue" /\ y = x + 1
             \/ tag = "worker" /\ x = w /\ s = "queue" /\ y = 1
             \/ tag # "queue" /\ ~(tag = "worker" /\ x = w) /\ s = tag /\ y = x
<1>4. ASSUME NEW tag, NEW x, At(m, tag, x)'
      PROVE  \E s, y : CameFrom(tag, x, s, y) /\ At(m, s, y)
  <2>1. CASE tag = "queue"
    <3>1. x \in DOMAIN queue' /\ m \in queue'[x].batch.msgs
      BY <1>4, <2>1 DEF At
    <3>2. At(m, "queue", x + 1)
      BY <1>2, <3>1 DEF At
    <3>3. QED
      BY <2>1, <3>1, <3>2
  <2>2. CASE tag = "worker" /\ x = w
    <3>1. m \in queue[1].batch.msgs
      BY <1>2, <1>4, <2>2 DEF At
    <3>2. At(m, "queue", 1)
      BY <1>2, <3>1 DEF At
    <3>3. QED
      BY <2>2, <3>2
  <2>3. CASE tag # "queue" /\ ~(tag = "worker" /\ x = w)
    <3>1. At(m, tag, x)
      BY <1>1, <1>4, <2>3 DEF At
    <3>2. QED
      BY <2>3, <3>1
  <2>4. QED
    BY <2>1, <2>2, <2>3
<1>5. \A tag, x, s, y, t, z : CameFrom(tag, x, s, y) /\ CameFrom(t, z, s, y) => tag = t /\ x = z
  <2>1. \A i, j \in DOMAIN queue' : i + 1 = j + 1 => i = j
    BY <1>3
  <2>2. \A i \in DOMAIN queue' : i + 1 # 1
    BY <1>2
  <2>3. QED
    BY <2>1, <2>2
<1>6. ASSUME NEW tag, NEW x, At(m, tag, x)
      PROVE  Somewhere(m)'
  <2>1. CASE tag = "queue" /\ x = 1
    <3>1. At(m, "worker", w)'
      BY <1>2, <1>6, <2>1 DEF At
    <3>2. QED
      BY <3>1 DEF Somewhere
  <2>2. CASE tag = "queue" /\ x # 1
    <3>1. x \in DOMAIN queue /\ m \in queue[x].batch.msgs
      BY <1>6, <2>2 DEF At
    <3>2. PICK j \in DOMAIN queue' : j + 1 = x
      BY <1>2, <2>2, <3>1
    <3>3. m \in queue'[j].batch.msgs
      BY <1>2, <3>1, <3>2
    <3>4. At(m, "queue", j)'
      BY <3>2, <3>3 DEF At
    <3>5. QED
      BY <3>4 DEF Somewhere
  <2>3. CASE tag # "queue"
    <3>1. ~(tag = "worker" /\ x = w)
      BY <1>1, <1>6 DEF At
    <3>2. At(m, tag, x)'
      BY <1>1, <1>6, <2>3, <3>1 DEF At
    <3>3. QED
      BY <3>2 DEF Somewhere
  <2>4. QED
    BY <2>1, <2>2, <2>3
<1> HIDE DEF CameFrom
<1>7. \A s, x, t, y : At(m, s, x)' /\ At(m, t, y)' => s = t /\ x = y
  <2> SUFFICES ASSUME NEW s, NEW x, NEW t, NEW y, At(m, s, x)', At(m, t, y)'
               PROVE  s = t /\ x = y
    OBVIOUS
  <2>1. PICK s1, x1 : CameFrom(s, x, s1, x1) /\ At(m, s1, x1)
    BY <1>4
  <2>2. PICK t1, y1 : CameFrom(t, y, t1, y1) /\ At(m, t1, y1)
    BY <1>4
  <2>3. s1 = t1 /\ x1 = y1
    BY <2>1, <2>2 DEF OncePlaced
  <2>4. QED
    BY <1>5, <2>1, <2>2, <2>3
<1>8. Somewhere(m)' <=> Somewhere(m)
  <2>1. Somewhere(m)' => Somewhere(m)
    BY <1>4 DEF Somewhere
  <2>2. QED
    BY <1>6, <2>1 DEF Somewhere
<1>9. QED
  BY <1>1, <1>7, <1>8 DEF OncePlaced

LEMMA WorkerOnce ==
    ASSUME IInv, BatchesFull, NEW w \in Workers, WorkerStep(w), NEW m \in Messages, OncePlaced(m)
    PROVE  OncePlaced(m)'
<1> USE DEF webhookVars, poolVars, history
<1>1. CASE Start(w)
  BY <1>1, StartOnce
<1>2. CASE GetLock(w) \/ Acquire(w) \/ SeeNewer(w) \/ LeaveLock(w) \/ Unlock(w)
  BY <1>2, QuietOnce DEF GetLock, Acquire, SeeNewer, LeaveLock, Unlock, SameStanding
<1>k. PICK k : k = task[w].conv
  OBVIOUS
<1>3. CASE TakeCarry(w)
  <2>1. UNCHANGED <<ingest, pending, reviving, handing, draining, queue, handled, phase>>
    BY <1>3 DEF TakeCarry
  <2>2. /\ k \in Conversations /\ task'[w] # NoTask /\ task[w] # NoTask
        /\ task'[w].batch.msgs = carry[k].msgs \cup task[w].batch.msgs
        /\ \A v \in Workers : v # w => task'[v] = task[v]
        /\ carry'[k].msgs = {} /\ \A j \in Conversations : j # k => carry'[j] = carry[j]
    BY <1>3, <1>k, TakeCarryHands, FullFacts
  <2>3. Moves(m, "carry", k, "worker", w)
    BY <2>1, <2>2 DEF Moves, At
  <2>4. QED
    BY <2>1, <2>3, MovedOnce DEF SameStanding
<1>4. CASE Answer(w)
  <2>1. /\ UNCHANGED <<ingest, pending, carry, reviving, handing, draining, queue, phase>>
        /\ handled' = handled \cup task[w].batch.msgs
    BY <1>4 DEF Answer
  <2>2. /\ task'[w].batch.msgs = {} /\ task[w] # NoTask /\ \A v \in Workers : v # w => task'[v] = task[v]
    BY <1>4, EmptyHands, FullFacts
  <2>3. Moves(m, "worker", w, "handled", m)
    BY <2>1, <2>2 DEF Moves, At
  <2>4. QED
    BY <2>1, <2>3, MovedOnce DEF SameStanding
<1>5. CASE GiveWay(w)
  <2>1. UNCHANGED <<ingest, pending, reviving, handing, draining, queue, handled, phase>>
    BY <1>5 DEF GiveWay
  <2>2. /\ task'[w].batch.msgs = {} /\ task[w] # NoTask /\ \A v \in Workers : v # w => task'[v] = task[v]
    BY <1>5, EmptyHands, FullFacts
  <2>3. /\ k \in Conversations /\ carry'[k].msgs = carry[k].msgs \cup task[w].batch.msgs
        /\ \A j \in Conversations : j # k => carry'[j] = carry[j]
    BY <1>5, <1>k, GiveWayCarry
  <2>4. Moves(m, "worker", w, "carry", k)
    BY <2>1, <2>2, <2>3 DEF Moves, At
  <2>5. QED
    BY <2>1, <2>4, MovedOnce DEF SameStanding
<1>6. CASE FlushCarry(w)
  <2>1. UNCHANGED <<ingest, pending, reviving, handing, draining, queue, handled, phase>>
    BY <1>6 DEF FlushCarry
  <2>2. CASE CarryIsDue(k)
    <3>1. /\ k \in Conversations /\ task'[w] # NoTask /\ task[w] # NoTask
          /\ task'[w].batch.msgs = carry[k].msgs /\ task[w].batch.msgs = {}
          /\ \A v \in Workers : v # w => task'[v] = task[v]
          /\ carry'[k].msgs = {} /\ \A j \in Conversations : j # k => carry'[j] = carry[j]
      BY <1>6, <1>k, <2>2, FlushHands, FullFacts
    <3>2. Moves(m, "carry", k, "worker", w)
      BY <2>1, <3>1 DEF Moves, At
    <3>3. QED
      BY <2>1, <3>2, MovedOnce DEF SameStanding
  <2>3. CASE ~CarryIsDue(k)
    BY <1>6, <1>k, <2>1, <2>3, QuietOnce DEF FlushCarry, SameStanding
  <2>4. QED
    BY <2>2, <2>3
<1>7. CASE Resubmit(w)
  <2>1. UNCHANGED <<ingest, carry, reviving, handing, draining, queue, handled, phase>>
    BY <1>7 DEF Resubmit
  <2>2. /\ task'[w].batch.msgs = {} /\ task[w] # NoTask /\ \A v \in Workers : v # w => task'[v] = task[v]
        /\ k \in Conversations /\ Full(k, task[w].batch) /\ task[w].batch \in Batch
    BY <1>7, <1>k, EmptyHands, FullFacts
  <2>3. Submit(k, task[w].batch)
    BY <1>7, <1>k DEF Resubmit
  <2>4. /\ \A j \in Conversations : j # k => pending'[j] = pending[j]
        /\ pending'[k].msgs = pending[k].msgs \cup task[w].batch.msgs
    BY <2>2, <2>3, SubmitPlaces DEF IInv
  <2>5. Moves(m, "worker", w, "pending", k)
    BY <2>1, <2>2, <2>4 DEF Moves, At
  <2>6. QED
    BY <2>1, <2>5, MovedOnce DEF SameStanding
<1>8. CASE MarkDone(w)
  <2>1. /\ UNCHANGED <<ingest, pending, carry, reviving, handing, draining, queue, handled, phase>>
        /\ task'[w] = NoTask /\ \A v \in Workers : v # w => task'[v] = task[v]
        /\ pc[w] = "finishing"
    BY <1>8 DEF MarkDone, Goto, IInv, TypeOK
  <2>2. task[w].batch.msgs = {}
    BY <2>1, FullFacts DEF BatchesFull, HandsEmpty
  <2>3. \A tag, x : At(m, tag, x)' <=> At(m, tag, x)
    BY <2>1, <2>2 DEF At
  <2>4. QED
    BY <2>1, <2>3 DEF OncePlaced, Somewhere
<1>9. QED
  BY <1>1, <1>2, <1>3, <1>4, <1>5, <1>6, <1>7, <1>8 DEF WorkerStep

\* Every step leaves every message where it is, or puts it in one other place.
LEMMA StepOnce ==
    ASSUME IInv, BatchesFull, [Next]_vars, NEW m \in Messages, OncePlaced(m)
    PROVE  OncePlaced(m)'
<1> USE DEF webhookVars, poolVars, timerVars, history
<1>1. ASSUME NEW n \in Messages, WebhookStep(n) PROVE OncePlaced(m)'
  <2>1. CASE Announce(n) \/ Ready(n) \/ Decline(n)
    <3>1. SameStanding(m)
      BY <2>1 DEF Announce, Ready, Decline, SameStanding, IInv, TypeOK
    <3>2. QED
      BY <2>1, <3>1, QuietOnce DEF Announce, Ready, Decline
  <2>2. QED
    BY <1>1, <2>1, SubmitMessageOnce, SettleFlushOnce DEF WebhookStep
<1>2. ASSUME NEW k \in Conversations, TimerStep(k) PROVE OncePlaced(m)'
  <2>1. CASE Fire(k) \/ FireLoose(k) \/ HoldExpires(k) \/ HoldBatch(k)
    BY <2>1, QuietOnce DEF Fire, FireLoose, HoldExpires, HoldBatch, SameStanding
  <2>2. QED
    BY <1>2, <2>1, ReleaseOnce DEF TimerStep
<1>3. CASE UNCHANGED vars
  BY <1>3, QuietOnce DEF vars, SameStanding
<1>4. QED
  BY <1>1, <1>2, <1>3, ReviveOnce, HandToPoolOnce, WorkerOnce, ShutdownOnce DEF Next

-----------------------------------------------------------------------------
(* A carried batch has a taker.                                            *)

\* What is under way in conversation k: CarryHasTaker, one by one.
Arriving(k) ==
    \/ incoming[k] > 0
    \/ \E m \in Messages : ConvOf[m] = k /\ ingest[m] \in {"submitting", "settling"}
Waiting(k) ==
    \/ pending[k] # NoBatch
    \/ \E t \in handing \cup reviving \cup draining : t.conv = k
    \/ \E i \in DOMAIN queue : queue[i].conv = k
Turning(w, k) == pc[w] \notin {"idle", "resubmitting", "finishing"} /\ task[w].conv = k
Taken(k) == Arriving(k) \/ Waiting(k) \/ \E w \in Workers : Turning(w, k)

LEMMA TakerIs ==
    CarryHasTaker <=> \A k \in Conversations : carry[k] # NoBatch /\ phase # "closed" => Taken(k)
BY DEF CarryHasTaker, Taken, Arriving, Waiting, Turning

\* A carried batch that is not due has a taker other than the webhook threads
\* that are done and the threads that flush.
LEMMA NotDueIsTaken ==
    ASSUME IInv, NEW k \in Conversations, carry[k] # NoBatch, ~CarryIsDue(k)
    PROVE  incoming[k] > 0 \/ pending[k] # NoBatch \/ \E v \in Workers : pc[v] \in UsingLock /\ task[v].conv = k
<1>1. incoming[k] \in Nat /\ (incoming[k] # 0 \/ pending[k] # NoBatch \/ lockUsers[k] # 0)
  BY DEF IInv, TypeOK, CarryIsDue
<1>2. lockUsers[k] # 0 => Users(k) # {}
  BY FS_EmptySet DEF IInv, LocksMatchThreads
<1>3. Users(k) # {} => \E v \in Workers : pc[v] \in UsingLock /\ task[v].conv = k
  BY DEF Users
<1>4. QED
  BY <1>1, <1>2, <1>3

\* What the pool's threads leave alone.
LEMMA TurningKeeps ==
    ASSUME UNCHANGED <<pc, task>>, NEW k
    PROVE  (\E w \in Workers : Turning(w, k)) => (\E w \in Workers : Turning(w, k))'
BY DEF Turning

LEMMA WebhookTaken ==
    ASSUME IInv, BatchesFull, CarryHasTaker, NEW m \in Messages, WebhookStep(m),
           NEW k \in Conversations, carry'[k] # NoBatch, phase' # "closed"
    PROVE  Taken(k)'
<1> USE DEF webhookVars, timerVars, poolVars, lockVars, history
<1>c. ConvOf[m] \in Conversations
  BY ConstantsAssumption
<1>1. CASE Announce(m)
  <2>1. Taken(k)
    BY <1>1, TakerIs DEF Announce
  <2>2. Waiting(k)' <=> Waiting(k)
    BY <1>1 DEF Announce, Waiting
  <2>3. Arriving(k) => Arriving(k)'
    BY <1>1, <1>c DEF Announce, Arriving, IInv, TypeOK
  <2>4. QED
    BY <1>1, <2>1, <2>2, <2>3, TurningKeeps DEF Taken, Announce
<1>2. CASE Ready(m) \/ Decline(m)
  <2>1. Taken(k) /\ UNCHANGED <<pc, task>>
    BY <1>2, TakerIs DEF Ready, Decline
  <2>2. Waiting(k)' <=> Waiting(k)
    BY <1>2 DEF Ready, Decline, Waiting
  <2>3. Arriving(k) => Arriving(k)'
    <3>1. /\ ingest'[m] \in {"submitting", "settling"} /\ ingest[m] = "ingesting"
          /\ \A n \in Messages : n # m => ingest'[n] = ingest[n]
          /\ \A j \in Conversations : j # ConvOf[m] => incoming'[j] = incoming[j]
      BY <1>2, <1>c DEF Ready, Decline, Uncount, IInv, TypeOK
    <3>2. QED
      BY <3>1 DEF Arriving
  <2>4. QED
    BY <2>1, <2>2, <2>3, TurningKeeps DEF Taken
<1>3. CASE SubmitMessage(m)
  <2>1. /\ Taken(k) /\ UNCHANGED <<pc, task, incoming, handing, reviving, draining, queue>>
        /\ \A n \in Messages : n # m => ingest'[n] = ingest[n]
    BY <1>3, TakerIs DEF SubmitMessage, IInv, TypeOK
  <2>2. /\ pending'[ConvOf[m]] # NoBatch
        /\ \A j \in Conversations : j # ConvOf[m] => pending'[j] = pending[j]
    <3>1. /\ [msgs |-> {m}, sup |-> 0] \in Batch /\ Full(ConvOf[m], [msgs |-> {m}, sup |-> 0])
          /\ Submit(ConvOf[m], [msgs |-> {m}, sup |-> 0])
      BY <1>3 DEF SubmitMessage, Batch, Full
    <3>2. QED
      BY <1>c, <3>1, SubmitPlaces DEF IInv
  <2>3. CASE k = ConvOf[m]
    BY <2>2, <2>3 DEF Taken, Waiting
  <2>4. CASE k # ConvOf[m]
    <3>1. (Arriving(k) => Arriving(k)') /\ (Waiting(k) => Waiting(k)')
      BY <2>1, <2>2, <2>4 DEF Arriving, Waiting
    <3>2. QED
      BY <2>1, <3>1, TurningKeeps DEF Taken
  <2>5. QED
    BY <2>3, <2>4
<1>4. CASE SettleFlush(m)
  <2>1. /\ UNCHANGED <<pc, task, incoming, pending, handing, draining, queue, phase>>
        /\ \A n \in Messages : n # m => ingest'[n] = ingest[n]
        /\ reviving \subseteq reviving'
    BY <1>4 DEF SettleFlush, IInv, TypeOK
  <2>2. carry[k] # NoBatch /\ (k = ConvOf[m] => ~CarryIsDue(k))
    BY <1>4, <1>c DEF SettleFlush, IInv, TypeOK
  <2>3. CASE k = ConvOf[m]
    <3>1. incoming[k] > 0 \/ pending[k] # NoBatch \/ \E v \in Workers : pc[v] \in UsingLock /\ task[v].conv = k
      BY <2>2, <2>3, NotDueIsTaken
    <3>2. QED
      BY <2>1, <3>1 DEF Taken, Arriving, Waiting, Turning, UsingLock
  <2>4. CASE k # ConvOf[m]
    <3>1. Taken(k)
      BY <2>1, <2>2, TakerIs
    <3>2. (Arriving(k) => Arriving(k)') /\ (Waiting(k) => Waiting(k)')
      BY <2>1, <2>4 DEF Arriving, Waiting
    <3>3. QED
      BY <2>1, <3>1, <3>2, TurningKeeps DEF Taken
  <2>5. QED
    BY <2>3, <2>4
<1>5. QED
  BY <1>1, <1>2, <1>3, <1>4 DEF WebhookStep

\* Batches change hands between webhook threads, timers, shutdown and the pool.
LEMMA HandoverTaken ==
    ASSUME IInv, BatchesFull, CarryHasTaker,
           \/ \E t \in reviving : Revive(t)
           \/ \E j \in Conversations : TimerStep(j)
           \/ \E t \in handing : HandToPool(t)
           \/ Shutdown,
           NEW k \in Conversations, carry'[k] # NoBatch, phase' # "closed"
    PROVE  Taken(k)'
<1> USE DEF webhookVars, timerVars, poolVars, lockVars, history
<1>1. ASSUME UNCHANGED <<pc, task, incoming, ingest, carry>>, phase # "closed",
             Waiting(k) => Waiting(k)'
      PROVE  Taken(k)'
  <2>1. Taken(k)
    BY <1>1, TakerIs
  <2>2. Arriving(k) => Arriving(k)'
    BY <1>1 DEF Arriving
  <2>3. QED
    BY <1>1, <2>1, <2>2, TurningKeeps DEF Taken
<1>2. ASSUME NEW t \in reviving, Revive(t)
      PROVE  Taken(k)'
  <2>1. /\ t.conv \in Conversations /\ t.batch \in Batch /\ Full(t.conv, t.batch)
        /\ Submit(t.conv, t.batch) /\ reviving' = reviving \ {t}
        /\ UNCHANGED <<pc, task, incoming, ingest, carry, handing, draining, queue, phase>>
    BY <1>2, TaskType DEF IInv, TypeOK, BatchesFull, Revive
  <2>2. /\ pending'[t.conv] # NoBatch
        /\ \A j \in Conversations : j # t.conv => pending'[j] = pending[j]
    BY <2>1, SubmitPlaces DEF IInv
  <2>3. Waiting(k) => Waiting(k)'
    BY <2>1, <2>2 DEF Waiting
  <2>4. QED
    BY <1>1, <2>1, <2>3
<1>3. ASSUME NEW j \in Conversations, TimerStep(j)
      PROVE  Taken(k)'
  <2>1. UNCHANGED <<pc, task, incoming, ingest, carry, phase, queue, reviving, draining>>
    BY <1>3 DEF TimerStep, Fire, FireLoose, HoldExpires, HoldBatch, ReleaseBatch
  <2>2. CASE Fire(j) \/ FireLoose(j) \/ HoldExpires(j) \/ HoldBatch(j)
    <3>1. UNCHANGED <<pending, handing>>
      BY <2>2 DEF Fire, FireLoose, HoldExpires, HoldBatch
    <3>2. Waiting(k) => Waiting(k)'
      BY <2>1, <3>1 DEF Waiting
    <3>3. QED
      BY <1>1, <2>1, <3>2
  <2>3. CASE ReleaseBatch(j)
    <3>1. /\ \A i \in Conversations : i # j => pending'[i] = pending[i]
          /\ handing \subseteq handing'
          /\ pending[j] # NoBatch => TaskFor(j, pending[j]) \in handing'
      BY <2>3 DEF ReleaseBatch, IInv, TypeOK
    <3>2. pending[j] # NoBatch => \E t \in handing' : t.conv = j
      BY <3>1, FullFacts
    <3>3. Waiting(k) => Waiting(k)'
      BY <2>1, <3>1, <3>2 DEF Waiting
    <3>4. QED
      BY <1>1, <2>1, <3>3
  <2>4. QED
    BY <1>3, <2>2, <2>3 DEF TimerStep
<1>4. ASSUME NEW t \in handing \cup draining, queue' = Append(queue, t), phase # "closed",
             handing \ {t} \subseteq handing', draining \ {t} \subseteq draining',
             UNCHANGED <<pc, task, incoming, ingest, carry, pending, reviving>>
      PROVE  Taken(k)'
  <2>1. t \in Task
    BY DEF IInv, TypeOK
  <2>2. /\ \E i \in DOMAIN queue' : queue'[i] = t
        /\ \A i \in DOMAIN queue : i \in DOMAIN queue' /\ queue'[i] = queue[i]
    BY <1>4, <2>1, AppendFacts DEF IInv
  <2>3. Waiting(k) => Waiting(k)'
    BY <1>4, <2>2 DEF Waiting
  <2>4. QED
    BY <1>1, <1>4, <2>3
<1>5. ASSUME NEW t \in handing, HandToPool(t)
      PROVE  Taken(k)'
  BY <1>4, <1>5 DEF HandToPool
<1>6. CASE Shutdown
  <2>1. ASSUME NEW t \in draining, ShutdownSubmit(t)
        PROVE  Taken(k)'
    <3>1. phase # "closed"
      BY <2>1 DEF BatchesFull
    <3>2. QED
      BY <1>4, <2>1, <3>1 DEF ShutdownSubmit
  <2>2. CASE ShutdownCancel
    <3>1. Waiting(k) => Waiting(k)'
      BY <2>2 DEF ShutdownCancel, Waiting
    <3>2. QED
      BY <1>1, <2>2, <3>1 DEF ShutdownCancel
  <2>3. CASE ShutdownPool
    BY <2>3 DEF ShutdownPool
  <2>4. CASE ShutdownDrain
    <3>1. draining = {} /\ (pending[k] # NoBatch => TaskFor(k, pending[k]) \in draining')
      BY <2>4 DEF ShutdownDrain, BatchesFull
    <3>2. pending[k] # NoBatch => \E t \in draining' : t.conv = k
      BY <3>1, FullFacts
    <3>3. UNCHANGED <<pc, task, incoming, ingest, carry, handing, reviving, queue>> /\ phase # "closed"
      BY <2>4 DEF ShutdownDrain
    <3>4. Waiting(k) => Waiting(k)'
      BY <3>1, <3>2, <3>3 DEF Waiting
    <3>5. QED
      BY <1>1, <3>3, <3>4
  <2>5. QED
    BY <1>6, <2>1, <2>2, <2>3, <2>4 DEF Shutdown
<1>7. QED
  BY <1>2, <1>3, <1>5, <1>6

LEMMA WorkerTaken ==
    ASSUME IInv, BatchesFull, CarryHasTaker, NEW w \in Workers, WorkerStep(w),
           NEW k \in Conversations, carry'[k] # NoBatch, phase' # "closed"
    PROVE  Taken(k)'
<1> USE DEF webhookVars, timerVars, poolVars, lockVars, history
<1>1. UNCHANGED <<incoming, ingest, handing, reviving, draining, phase>>
  BY DEF WorkerStep, Start, GetLock, Acquire, TakeCarry, Answer, SeeNewer, GiveWay, LeaveLock,
     Unlock, FlushCarry, Resubmit, MarkDone
<1>2. Arriving(k)' <=> Arriving(k)
  BY <1>1 DEF Arriving
\* A step that leaves the carried batch of k, and keeps w's part in it.
<1>3. ASSUME carry'[k] = carry[k], Waiting(k) => Taken(k)',
             Turning(w, k) => Taken(k)',
             \A v \in Workers : v # w => pc'[v] = pc[v] /\ task'[v] = task[v]
      PROVE  Taken(k)'
  <2>1. Taken(k)
    BY <1>1, <1>3, TakerIs
  <2>2. \A v \in Workers : v # w /\ Turning(v, k) => Turning(v, k)'
    BY <1>3 DEF Turning
  <2>3. QED
    BY <1>2, <1>3, <2>1, <2>2 DEF Taken
<1>4. ASSUME UNCHANGED <<pending, queue>>
      PROVE  Waiting(k) => Waiting(k)'
  BY <1>1, <1>4 DEF Waiting
<1>5. CASE Start(w)
  <2>1. /\ queue # <<>> /\ queue' = Tail(queue) /\ pc[w] = "idle"
        /\ pc'[w] = "queued" /\ task'[w] = Head(queue)
        /\ \A v \in Workers : v # w => pc'[v] = pc[v] /\ task'[v] = task[v]
        /\ UNCHANGED <<pending, carry>>
    BY <1>5 DEF Start, Goto, IInv, TypeOK
  <2>2. ASSUME NEW i \in DOMAIN queue, queue[i].conv = k
        PROVE  Taken(k)'
    <3>1. CASE i = 1
      <4>1. task'[w].conv = k
        BY <2>1, <2>2, <3>1, TailFacts DEF IInv
      <4>2. QED
        BY <2>1, <4>1 DEF Taken, Turning
    <3>2. CASE i # 1
      <4>1. PICK j \in DOMAIN queue' : queue'[j] = queue[i]
        BY <2>1, <3>2, TailFacts DEF IInv
      <4>2. QED
        BY <2>2, <4>1 DEF Taken, Waiting
    <3>3. QED
      BY <3>1, <3>2
  <2>3. Waiting(k) => Taken(k)'
    BY <1>1, <2>1, <2>2 DEF Waiting, Taken
  <2>4. ~Turning(w, k)
    BY <2>1 DEF Turning
  <2>5. QED
    BY <1>3, <2>1, <2>3, <2>4
<1>6. CASE GetLock(w) \/ Acquire(w) \/ SeeNewer(w) \/ LeaveLock(w) \/ Unlock(w)
  <2>1. /\ UNCHANGED <<pending, carry, queue, task>>
        /\ pc'[w] \notin {"idle", "resubmitting", "finishing"}
        /\ \A v \in Workers : v # w => pc'[v] = pc[v]
    BY <1>6 DEF GetLock, Acquire, SeeNewer, LeaveLock, Unlock, Goto, IInv, TypeOK
  <2>2. Turning(w, k) => Turning(w, k)'
    BY <2>1 DEF Turning
  <2>3. QED
    BY <1>3, <1>4, <2>1, <2>2 DEF Taken
<1>7. CASE TakeCarry(w)
  <2>1. /\ pc'[w] = "running" /\ task'[w].conv = task[w].conv
        /\ \A v \in Workers : v # w => pc'[v] = pc[v] /\ task'[v] = task[v]
        /\ carry'[k] = carry[k]
    BY <1>7, TakeCarryHands
  <2>2. Turning(w, k) => Turning(w, k)'
    BY <2>1 DEF Turning
  <2>3. UNCHANGED <<pending, queue>>
    BY <1>7 DEF TakeCarry
  <2>4. QED
    BY <1>3, <1>4, <2>1, <2>2, <2>3 DEF Taken
<1>8. CASE Answer(w)
  <2>1. /\ pc'[w] = "leaving" /\ task'[w].conv = task[w].conv
        /\ \A v \in Workers : v # w => pc'[v] = pc[v] /\ task'[v] = task[v]
    BY <1>8, EmptyHands DEF Answer, Resubmit, Goto
  <2>2. Turning(w, k) => Turning(w, k)'
    BY <2>1 DEF Turning
  <2>3. UNCHANGED <<pending, queue, carry>>
    BY <1>8 DEF Answer
  <2>4. QED
    BY <1>3, <1>4, <2>1, <2>2, <2>3 DEF Taken
<1>9. CASE GiveWay(w)
  <2>1. /\ pc'[w] = "leaving" /\ task'[w].conv = task[w].conv
        /\ \A v \in Workers : v # w => pc'[v] = pc[v] /\ task'[v] = task[v]
    BY <1>9, EmptyHands DEF GiveWay, Resubmit, Goto
  <2>2. CASE k = task[w].conv
    BY <2>1, <2>2 DEF Taken, Turning
  <2>3. CASE k # task[w].conv
    <3>1. carry'[k] = carry[k] /\ ~Turning(w, k)
      BY <1>9, <2>3, GiveWayCarry DEF Turning
    <3>2. UNCHANGED <<pending, queue>>
      BY <1>9 DEF GiveWay
    <3>3. QED
      BY <1>3, <1>4, <2>1, <3>1, <3>2 DEF Taken
  <2>4. QED
    BY <2>2, <2>3
<1>10. CASE FlushCarry(w)
  <2>1. UNCHANGED <<pending, queue>> /\ pc[w] = "flushing"
    BY <1>10 DEF FlushCarry
  <2>2. CASE CarryIsDue(task[w].conv)
    <3>1. /\ carry'[task[w].conv] = NoBatch /\ carry'[k] = carry[k]
          /\ \A v \in Workers : v # w => pc'[v] = pc[v] /\ task'[v] = task[v]
      BY <1>10, <2>2, FlushHands
    <3>2. ~Turning(w, k)
      BY <3>1 DEF Turning
    <3>3. QED
      BY <1>3, <1>4, <2>1, <3>1, <3>2 DEF Taken
  <2>3. CASE ~CarryIsDue(task[w].conv)
    <3>1. /\ UNCHANGED <<task, carry>> /\ \A v \in Workers : v # w => pc'[v] = pc[v]
      BY <1>10, <2>3 DEF FlushCarry, Goto, IInv, TypeOK
    <3>2. Turning(w, k) => Taken(k)'
      <4> SUFFICES ASSUME Turning(w, k) PROVE Taken(k)'
        OBVIOUS
      <4>1. carry[k] # NoBatch /\ ~CarryIsDue(k)
        BY <2>3, <3>1 DEF Turning
      <4>2. incoming[k] > 0 \/ pending[k] # NoBatch \/ \E v \in Workers : pc[v] \in UsingLock /\ task[v].conv = k
        BY <4>1, NotDueIsTaken
      <4>3. \A v \in Workers : pc[v] \in UsingLock /\ task[v].conv = k => Turning(v, k)'
        BY <2>1, <3>1 DEF UsingLock, Turning
      <4>4. QED
        BY <1>1, <2>1, <4>2, <4>3 DEF Taken, Arriving, Waiting
    <3>3. QED
      BY <1>3, <1>4, <2>1, <3>1, <3>2 DEF Taken
  <2>4. QED
    BY <2>2, <2>3
<1>11. CASE Resubmit(w)
  <2>1. /\ task[w].conv \in Conversations /\ Full(task[w].conv, task[w].batch) /\ task[w].batch \in Batch
        /\ \A v \in Workers : v # w => pc'[v] = pc[v] /\ task'[v] = task[v]
    BY <1>11, EmptyHands
  <2>2. /\ Submit(task[w].conv, task[w].batch) /\ UNCHANGED <<carry, queue>> /\ pc[w] = "resubmitting"
    BY <1>11 DEF Resubmit, Goto
  <2>3. /\ pending'[task[w].conv] # NoBatch
        /\ \A j \in Conversations : j # task[w].conv => pending'[j] = pending[j]
    BY <2>1, <2>2, SubmitPlaces DEF IInv
  <2>4. Waiting(k) => Waiting(k)'
    BY <1>1, <2>2, <2>3 DEF Waiting
  <2>5. ~Turning(w, k)
    BY <2>2 DEF Turning
  <2>6. QED
    BY <1>3, <2>1, <2>2, <2>4, <2>5 DEF Taken
<1>12. CASE MarkDone(w)
  <2>1. /\ UNCHANGED <<pending, carry, queue>> /\ pc[w] = "finishing"
        /\ \A v \in Workers : v # w => pc'[v] = pc[v] /\ task'[v] = task[v]
    BY <1>12 DEF MarkDone, Goto, IInv, TypeOK
  <2>2. ~Turning(w, k)
    BY <2>1 DEF Turning
  <2>3. QED
    BY <1>3, <1>4, <2>1, <2>2 DEF Taken
<1>13. QED
  BY <1>5, <1>6, <1>7, <1>8, <1>9, <1>10, <1>11, <1>12 DEF WorkerStep

LEMMA StepTaken ==
    ASSUME IInv, BatchesFull, CarryHasTaker, [Next]_vars
    PROVE  CarryHasTaker'
<1>1. CASE UNCHANGED vars
  BY <1>1 DEF vars, CarryHasTaker
<1>2. CASE Next /\ ~UNCHANGED vars
  <2>1. \A k \in Conversations : carry'[k] # NoBatch /\ phase' # "closed" => Taken(k)'
    BY <1>2, WebhookTaken, HandoverTaken, WorkerTaken DEF Next
  <2>2. QED
    BY <2>1 DEF CarryHasTaker, Taken, Arriving, Waiting, Turning
<1>3. QED
  BY <1>1, <1>2

-----------------------------------------------------------------------------
(* What follows from the places of messages.                               *)

\* The dispatcher __init__ leaves has no message anywhere.
LEMMA InitPlaces == Init => PInv
<1> SUFFICES ASSUME Init PROVE PInv
  OBVIOUS
<1>1. IInv
  BY InitInvariant
<1>2. BatchesFull
  BY FullFacts DEF Init, BatchesFull, HandsFull, HandsEmpty
<1>3. ASSUME NEW m \in Messages PROVE OncePlaced(m)
  <2>1. \A tag, x : ~At(m, tag, x)
    BY FullFacts DEF Init, At
  <2>2. ingest[m] = "new"
    BY DEF Init
  <2>3. QED
    BY <2>1, <2>2 DEF OncePlaced, Somewhere
<1>4. CarryHasTaker
  BY DEF Init, CarryHasTaker
<1>5. QED
  BY <1>1, <1>2, <1>3, <1>4 DEF PInv

\* The second inductive invariant: a message is in one buffer, task or carried
\* batch at a time, and a carried batch has a task or timer that will take it.
THEOREM PlacesInvariant == Spec => []PInv
<1>1. PInv /\ [Next]_vars => PInv'
  <2> SUFFICES ASSUME PInv, [Next]_vars PROVE PInv'
    OBVIOUS
  <2>1. IInv' /\ BatchesFull' /\ CarryHasTaker'
    BY StepTypes, StepTasks, StepLocks, StepBatches, StepTaken DEF PInv, IInv
  <2>2. \A m \in Messages : OncePlaced(m)'
    BY StepOnce DEF PInv
  <2>3. QED
    BY <2>1, <2>2 DEF PInv
<1>2. QED
  BY InitPlaces, <1>1, PTL DEF Spec

\* The places of a message, by At.
LEMMA PlacesAre ==
    ASSUME NEW m
    PROVE  /\ \A p \in Places(m) : \E tag, x : At(m, tag, x) /\
                 p = <<tag, IF tag \in {"reviving", "handing", "draining"} THEN x.batch ELSE x>>
           /\ \A tag, x : At(m, tag, x) => Places(m) # {}
<1>1. ASSUME NEW p \in Places(m)
      PROVE  \E tag, x : At(m, tag, x) /\
                 p = <<tag, IF tag \in {"reviving", "handing", "draining"} THEN x.batch ELSE x>>
  <2>1. CASE \E k \in Conversations : m \in pending[k].msgs /\ p = <<"pending", k>>
    BY <2>1 DEF At
  <2>2. CASE \E k \in Conversations : m \in carry[k].msgs /\ p = <<"carry", k>>
    BY <2>2 DEF At
  <2>3. CASE \E t \in reviving : m \in t.batch.msgs /\ p = <<"reviving", t.batch>>
    BY <2>3 DEF At
  <2>4. CASE \E t \in handing : m \in t.batch.msgs /\ p = <<"handing", t.batch>>
    BY <2>4 DEF At
  <2>5. CASE \E t \in draining : m \in t.batch.msgs /\ p = <<"draining", t.batch>>
    BY <2>5 DEF At
  <2>6. CASE \E i \in DOMAIN queue : m \in queue[i].batch.msgs /\ p = <<"queue", i>>
    BY <2>6 DEF At
  <2>7. CASE \E w \in Workers : task[w] # NoTask /\ m \in task[w].batch.msgs /\ p = <<"worker", w>>
    BY <2>7 DEF At
  <2>8. CASE m \in handled /\ p = <<"handled", m>>
    BY <2>8 DEF At
  <2>9. QED
    BY <1>1, <2>1, <2>2, <2>3, <2>4, <2>5, <2>6, <2>7, <2>8 DEF Places
<1>2. ASSUME NEW tag, NEW x, At(m, tag, x)
      PROVE  Places(m) # {}
  <2>1. CASE tag = "pending"
    BY <1>2, <2>1 DEF At, Places
  <2>2. CASE tag = "carry"
    BY <1>2, <2>2 DEF At, Places
  <2>3. CASE tag = "reviving"
    BY <1>2, <2>3 DEF At, Places
  <2>4. CASE tag = "handing"
    BY <1>2, <2>4 DEF At, Places
  <2>5. CASE tag = "draining"
    BY <1>2, <2>5 DEF At, Places
  <2>6. CASE tag = "queue"
    BY <1>2, <2>6 DEF At, Places
  <2>7. CASE tag = "worker"
    BY <1>2, <2>7 DEF At, Places
  <2>8. CASE tag = "handled"
    BY <1>2, <2>8 DEF At, Places
  <2>9. QED
    BY <1>2, <2>1, <2>2, <2>3, <2>4, <2>5, <2>6, <2>7, <2>8 DEF At
<1>3. QED
  BY <1>1, <1>2

\* No message is lost and none is answered twice (submit, _release, _take_carry,
\* _flush_carry, supersede, shutdown): from its submission on a message is in one
\* place, for any number of messages, customers and threads.
THEOREM InOnePlace == Spec => []NeitherLostNorTwice
<1>1. PInv => NeitherLostNorTwice
  <2> SUFFICES ASSUME PInv, NEW m \in Messages
               PROVE  /\ ingest[m] # "submitted" => Places(m) = {}
                      /\ ingest[m] = "submitted" => Cardinality(Places(m)) <= 1
                      /\ ingest[m] = "submitted" /\ phase # "closed" => Places(m) # {}
    BY DEF NeitherLostNorTwice
  <2>1. OncePlaced(m)
    BY DEF PInv
  <2>2. \A p, q \in Places(m) : p = q
    BY <2>1, PlacesAre DEF OncePlaced
  <2>3. Cardinality(Places(m)) <= 1
    <3>1. CASE Places(m) = {}
      BY <3>1, FS_EmptySet
    <3>2. CASE Places(m) # {}
      <4>1. PICK p : Places(m) = {p}
        BY <2>2, <3>2
      <4>2. QED
        BY <4>1, FS_Singleton
    <3>3. QED
      BY <3>1, <3>2
  <2>4. (ingest[m] # "submitted" => Places(m) = {})
    <3>1. (\E p : p \in Places(m)) => Somewhere(m)
      BY PlacesAre DEF Somewhere
    <3>2. QED
      BY <2>1, <3>1 DEF OncePlaced
  <2>5. ingest[m] = "submitted" /\ phase # "closed" => Places(m) # {}
    BY <2>1, PlacesAre DEF OncePlaced, Somewhere
  <2>6. QED
    BY <2>3, <2>4, <2>5
<1>2. QED
  BY <1>1, PlacesInvariant, PTL

\* A carried batch is never forgotten (_flush_carry, settle): as long as the pool
\* takes tasks, something is under way that will take it.
THEOREM CarryIsTaken == Spec => []CarryHasTaker
<1>1. PInv => CarryHasTaker
  BY DEF PInv
<1>2. QED
  BY <1>1, PlacesInvariant, PTL

-----------------------------------------------------------------------------
(* The dispatcher implements ConversationTurns.                            *)

\* Message m is in the hands of a handler.
InHand(m) == \E w \in Workers : pc[w] \in {"running", "yielding"} /\ m \in task[w].batch.msgs

Status(m) ==
    IF m \in handled THEN "answered"
    ELSE IF InHand(m) THEN "inTurn"
    ELSE IF ingest[m] = "submitted" THEN "owed"
    ELSE IF ingest[m] = "declined" THEN "declined"
    ELSE "unsent"

LEMMA StatusIs ==
    /\ turnStatus = [m \in Messages |-> Status(m)]
    /\ \A m \in Messages : turnStatus[m] = Status(m)
BY DEF turnStatus, Status, InHand

\* What is in a handler's hands.
LEMMA HandFacts ==
    ASSUME PInv, NEW w \in Workers, pc[w] \in {"running", "yielding"}
    PROVE  /\ task[w].conv \in Conversations /\ task[w].batch.msgs # {}
           /\ task[w].batch.msgs \subseteq Messages
           /\ \A m \in task[w].batch.msgs :
                /\ ConvOf[m] = task[w].conv /\ m \notin handled /\ ingest[m] = "submitted"
<1>1. /\ task[w] \in Task /\ task[w].conv \in Conversations /\ task[w].batch \in Batch
      /\ task[w] # NoTask
  BY BusyHasTask, ConstantsAssumption DEF PInv, IInv
<1>2. task[w].batch.msgs \subseteq Messages
  BY <1>1 DEF Batch
<1>3. Full(task[w].conv, task[w].batch)
  BY DEF PInv, BatchesFull, HandsFull
<1>4. ASSUME NEW m \in task[w].batch.msgs
      PROVE  m \notin handled /\ ingest[m] = "submitted"
  <2>1. OncePlaced(m)
    BY <1>2 DEF PInv
  <2>2. At(m, "worker", w) /\ (m \in handled => At(m, "handled", m))
    BY <1>1, <1>4 DEF At
  <2>3. ingest[m] = "submitted"
    BY <2>1, <2>2 DEF OncePlaced, Somewhere
  <2>4. m \notin handled
    BY <2>1, <2>2 DEF OncePlaced
  <2>5. QED
    BY <2>3, <2>4
<1>5. QED
  BY <1>1, <1>2, <1>3, <1>4 DEF Full

\* The turn of a conversation is what the one thread inside it has in hand.
LEMMA TurnOf ==
    ASSUME PInv, NEW w \in Workers, InTurn(w)
    PROVE  Turns!InTurn(task[w].conv) =
               IF pc[w] \in {"running", "yielding"} THEN task[w].batch.msgs ELSE {}
<1> DEFINE k == task[w].conv
<1>1. ASSUME NEW v \in Workers, pc[v] \in {"running", "yielding"}, task[v].conv = k
      PROVE  v = w
  <2>1. InTurn(v) /\ pc[v] \in UsingLock /\ pc[v] \in HoldingLock
    BY <1>1 DEF InTurn, UsingLock, HoldingLock
  <2>2. pc[w] \in UsingLock /\ pc[w] \in HoldingLock
    BY DEF InTurn, UsingLock, HoldingLock
  <2>3. lockRef[v] = lockRef[w]
    BY <1>1, <2>1, <2>2 DEF PInv, IInv, LocksMatchThreads
  <2>4. QED
    BY <2>1, <2>2, <2>3 DEF PInv, IInv, LocksMatchThreads
<1>2. ASSUME NEW m \in Messages, ConvOf[m] = k, turnStatus[m] = "inTurn"
      PROVE  pc[w] \in {"running", "yielding"} /\ m \in task[w].batch.msgs
  <2>1. InHand(m)
    BY <1>2, StatusIs DEF Status
  <2>2. PICK v \in Workers : pc[v] \in {"running", "yielding"} /\ m \in task[v].batch.msgs
    BY <2>1 DEF InHand
  <2>3. task[v].conv = k
    BY <1>2, <2>2, HandFacts
  <2>4. QED
    BY <1>1, <2>2, <2>3
<1>3. ASSUME pc[w] \in {"running", "yielding"}, NEW m \in task[w].batch.msgs
      PROVE  m \in Messages /\ ConvOf[m] = k /\ turnStatus[m] = "inTurn"
  <2>1. m \in Messages /\ ConvOf[m] = k /\ m \notin handled
    BY <1>3, HandFacts
  <2>2. InHand(m)
    BY <1>3 DEF InHand
  <2>3. QED
    BY <2>1, <2>2, StatusIs DEF Status
<1>4. QED
  BY <1>2, <1>3 DEF Turns!InTurn

\* No message changes its standing.
LEMMA SameStatus ==
    ASSUME \A m \in Messages : Status(m)' = Status(m)
    PROVE  UNCHANGED turnStatus
<1>1. turnStatus' = [m \in Messages |-> Status(m)']
  BY DEF turnStatus, Status, InHand
<1>2. QED
  BY <1>1, StatusIs

LEMMA StatusNext ==
    /\ turnStatus' = [m \in Messages |-> Status(m)']
    /\ \A m \in Messages : turnStatus'[m] = Status(m)'
BY DEF turnStatus, Status, InHand

\* Webhook threads accept messages, or turn them down.
LEMMA WebhookTurns ==
    ASSUME PInv, NEW n \in Messages, WebhookStep(n)
    PROVE  [Turns!Next]_turnStatus
<1> USE DEF poolVars, history
<1>1. /\ UNCHANGED <<pc, task, handled>> /\ ingest'[n] \in IngestStates
      /\ \A m \in Messages : m # n => ingest'[m] = ingest[m]
  BY DEF WebhookStep, Announce, Ready, SubmitMessage, Decline, SettleFlush, PInv, IInv, TypeOK,
     IngestStates
<1>2. \A m \in Messages : (InHand(m)' <=> InHand(m)) /\ (m # n => Status(m)' = Status(m))
  BY <1>1 DEF Status, InHand
<1>3. CASE Announce(n) \/ Ready(n) \/ Decline(n)
  <2>1. /\ ingest[n] \notin {"submitted", "declined"} /\ ingest'[n] \notin {"submitted", "declined"}
    BY <1>3 DEF Announce, Ready, Decline, PInv, IInv, TypeOK
  <2>2. Status(n)' = Status(n)
    BY <1>1, <1>2, <2>1 DEF Status
  <2>3. QED
    BY <1>2, <2>2, SameStatus
<1>4. CASE SubmitMessage(n) \/ SettleFlush(n)
  <2>1. /\ ingest[n] \notin {"submitted", "declined"} /\ ingest'[n] \in {"submitted", "declined"}
    BY <1>4 DEF SubmitMessage, SettleFlush, PInv, IInv, TypeOK
  <2>2. ~InHand(n) /\ n \notin handled
    <3>1. OncePlaced(n) /\ ~Somewhere(n)
      BY <2>1 DEF PInv, OncePlaced
    <3>2. \A w \in Workers : pc[w] \in {"running", "yielding"} => task[w] # NoTask
      BY DEF PInv, IInv, TasksMatchThreads
    <3>3. QED
      BY <3>1, <3>2 DEF Somewhere, At, InHand
  <2>3. Status(n) = "unsent" /\ Status(n)' \in {"owed", "declined"}
    BY <1>1, <1>2, <2>1, <2>2 DEF Status
  <2>4. turnStatus' = [turnStatus EXCEPT ![n] = Status(n)']
    BY <1>2, StatusIs, StatusNext
  <2>5. Turns!Accept(n)
    BY <2>3, <2>4, StatusIs DEF Turns!Accept
  <2>6. QED
    BY <2>5 DEF Turns!Next
<1>5. QED
  BY <1>3, <1>4 DEF WebhookStep

\* Timers, batches that change hands and shutdown show nothing.
LEMMA HandoverTurns ==
    ASSUME \/ \E t \in reviving : Revive(t)
           \/ \E k \in Conversations : TimerStep(k)
           \/ \E t \in handing : HandToPool(t)
           \/ Shutdown
           \/ UNCHANGED vars
    PROVE  UNCHANGED turnStatus
<1>1. UNCHANGED <<pc, task, handled, ingest>>
  BY DEF Revive, TimerStep, Fire, FireLoose, HoldExpires, HoldBatch, ReleaseBatch, HandToPool,
     Shutdown, ShutdownCancel, ShutdownDrain, ShutdownSubmit, ShutdownPool, vars,
     webhookVars, poolVars, history
<1>2. QED
  BY <1>1 DEF turnStatus

\* The pool's threads begin turns and end them.
LEMMA WorkerTurns ==
    ASSUME PInv, NEW w \in Workers, WorkerStep(w)
    PROVE  [Turns!Next]_turnStatus
<1> USE DEF webhookVars, history
<1>0. IInv /\ BatchesFull
  BY DEF PInv
<1>1. ASSUME UNCHANGED <<handled, ingest>>,
             \A v \in Workers : v # w => pc'[v] = pc[v] /\ task'[v] = task[v],
             \/ pc[w] \notin {"running", "yielding"} /\ pc'[w] \notin {"running", "yielding"}
             \/ pc[w] \in {"running", "yielding"} /\ pc'[w] \in {"running", "yielding"} /\ task'[w] = task[w]
      PROVE  UNCHANGED turnStatus
  <2>1. \A m \in Messages : InHand(m)' <=> InHand(m)
    BY <1>1 DEF InHand
  <2>2. QED
    BY <1>1, <2>1, SameStatus DEF Status
<1>2. CASE Start(w) \/ GetLock(w) \/ Acquire(w) \/ SeeNewer(w) \/ LeaveLock(w) \/ Unlock(w) \/ MarkDone(w)
  <2>1. UNCHANGED <<handled, ingest>>
    BY <1>2 DEF Start, GetLock, Acquire, SeeNewer, LeaveLock, Unlock, MarkDone
  <2>2. \A v \in Workers : v # w => pc'[v] = pc[v] /\ task'[v] = task[v]
    BY <1>0, <1>2 DEF Start, GetLock, Acquire, SeeNewer, LeaveLock, Unlock, MarkDone, Goto, IInv, TypeOK
  <2>3. \/ pc[w] \notin {"running", "yielding"} /\ pc'[w] \notin {"running", "yielding"}
        \/ pc[w] \in {"running", "yielding"} /\ pc'[w] \in {"running", "yielding"} /\ task'[w] = task[w]
    BY <1>0, <1>2 DEF Start, GetLock, Acquire, SeeNewer, LeaveLock, Unlock, MarkDone, Goto, IInv, TypeOK
  <2>4. QED
    BY <1>1, <2>1, <2>2, <2>3
<1>3. CASE FlushCarry(w)
  <2>1. UNCHANGED <<handled, ingest>> /\ pc[w] = "flushing"
    BY <1>3 DEF FlushCarry
  <2>2. CASE CarryIsDue(task[w].conv)
    BY <1>0, <1>1, <1>3, <2>1, <2>2, FlushHands
  <2>3. CASE ~CarryIsDue(task[w].conv)
    <3>1. /\ pc'[w] = "finishing" /\ task' = task
          /\ \A v \in Workers : v # w => pc'[v] = pc[v]
      BY <1>0, <1>3, <2>3 DEF FlushCarry, Goto, IInv, TypeOK
    <3>2. QED
      BY <1>1, <2>1, <3>1
  <2>4. QED
    BY <2>2, <2>3
<1>4. CASE Resubmit(w)
  <2>1. UNCHANGED <<handled, ingest>> /\ pc[w] = "resubmitting" /\ pc'[w] = "finishing"
    BY <1>0, <1>4 DEF Resubmit, Goto, IInv, TypeOK
  <2>2. QED
    BY <1>0, <1>1, <1>4, <2>1, EmptyHands
<1>5. CASE TakeCarry(w)
  <2> DEFINE k == task[w].conv
             S == task'[w].batch.msgs
  <2>1. /\ pc[w] = "taking" /\ InTurn(w) /\ UNCHANGED <<handled, ingest>>
    BY <1>5 DEF TakeCarry, Goto, InTurn
  <2>2. /\ k \in Conversations /\ Full(k, task'[w].batch) /\ S = carry[k].msgs \cup task[w].batch.msgs
        /\ task[w] # NoTask /\ pc'[w] = "running"
        /\ \A v \in Workers : v # w => pc'[v] = pc[v] /\ task'[v] = task[v]
    BY <1>0, <1>5, TakeCarryHands
  <2>3. carry[k] \in Batch /\ task[w].batch \in Batch
    BY <1>0, <2>1, <2>2, BusyHasTask DEF IInv, TypeOK
  <2>4. S # {} /\ S \subseteq Messages /\ \A m \in S : ConvOf[m] = k
    BY <2>2, <2>3 DEF Full, Batch
  <2>5. Turns!InTurn(k) = {}
    BY <2>1, TurnOf
  <2>6. ASSUME NEW m \in S PROVE Status(m) = "owed"
    <3>1. OncePlaced(m) /\ (At(m, "carry", k) \/ At(m, "worker", w))
      BY <2>2, <2>4 DEF PInv, At
    <3>2. ingest[m] = "submitted" /\ m \notin handled
      BY <3>1, ZenonT(60) DEF OncePlaced, Somewhere, At
    <3>3. ~InHand(m)
      <4> SUFFICES ASSUME NEW v \in Workers, pc[v] \in {"running", "yielding"}, m \in task[v].batch.msgs
                   PROVE  FALSE
        BY DEF InHand
      <4>1. task[v] # NoTask /\ v # w
        BY <2>1 DEF PInv, IInv, TasksMatchThreads
      <4>2. At(m, "worker", v)
        BY <4>1 DEF At
      <4>3. QED
        BY <3>1, <4>1, <4>2 DEF OncePlaced
    <3>4. QED
      BY <3>2, <3>3 DEF Status
  <2>7. \A m \in Messages : InHand(m)' <=> InHand(m) \/ m \in S
    BY <2>1, <2>2 DEF InHand
  <2>8. \A m \in Messages : Status(m)' = IF m \in S THEN "inTurn" ELSE Status(m)
    <3>1. \A m \in S : m \notin handled
      <4>1. \A m \in S : Status(m) # "answered"
        BY <2>6
      <4>2. QED
        BY <4>1 DEF Status
    <3>2. QED
      BY <2>1, <2>7, <3>1 DEF Status
  <2> HIDE DEF S
  <2>9. turnStatus' = [m \in Messages |-> IF m \in S THEN "inTurn" ELSE turnStatus[m]]
    BY <2>8, StatusIs, StatusNext
  <2>10. \A m \in S : ConvOf[m] = k /\ turnStatus[m] = "owed"
    BY <2>4, <2>6, StatusIs
  <2>11. Turns!BeginTurn(k, S)
    BY <2>4, <2>5, <2>9, <2>10 DEF Turns!BeginTurn
  <2>12. QED
    BY <2>2, <2>4, <2>11 DEF Turns!Next
<1>6. CASE Answer(w) \/ GiveWay(w)
  <2> DEFINE k == task[w].conv
             S == task[w].batch.msgs
             to == IF Answer(w) THEN "answered" ELSE "owed"
  <2>1. /\ pc[w] \in {"running", "yielding"} /\ InTurn(w) /\ ingest' = ingest
        /\ pc[w] = "running" <=> Answer(w)
        /\ handled' = IF Answer(w) THEN handled \cup S ELSE handled
    BY <1>6 DEF Answer, GiveWay, Goto, InTurn
  <2>2. /\ k \in Conversations /\ S # {} /\ S \subseteq Messages
        /\ \A m \in S : ConvOf[m] = k /\ m \notin handled /\ ingest[m] = "submitted"
    BY <2>1, HandFacts
  <2>3. /\ pc'[w] = "leaving" /\ \A v \in Workers : v # w => pc'[v] = pc[v] /\ task'[v] = task[v]
    <3>1. ~Resubmit(w)
      BY <2>1 DEF Resubmit, Goto
    <3>2. QED
      BY <1>0, <1>6, <3>1, EmptyHands
  <2>4. Turns!InTurn(k) = S
    BY <2>1, TurnOf
  <2>5. ASSUME NEW m \in Messages
        PROVE  InHand(m)' <=> InHand(m) /\ m \notin S
    <3>1. ASSUME NEW v \in Workers, v # w, pc[v] \in {"running", "yielding"}, m \in task[v].batch.msgs
          PROVE  m \notin S
      <4>1. task[v] # NoTask /\ task[w] # NoTask
        BY <2>1, <3>1 DEF PInv, IInv, TasksMatchThreads
      <4>2. At(m, "worker", v) /\ (m \in S => At(m, "worker", w))
        BY <3>1, <4>1 DEF At
      <4>3. OncePlaced(m)
        BY DEF PInv
      <4>4. QED
        BY <3>1, <4>2, <4>3 DEF OncePlaced
    <3>2. QED
      BY <2>1, <2>3, <3>1 DEF InHand
  <2>6. \A m \in S : InHand(m)
    BY <2>1 DEF InHand
  <2>7. \A m \in Messages : Status(m)' = IF m \in S THEN to ELSE Status(m)
    BY <2>1, <2>2, <2>5, <2>6 DEF Status
  <2> HIDE DEF S, to
  <2>8. turnStatus' = [m \in Messages |-> IF m \in S THEN to ELSE turnStatus[m]]
    BY <2>7, StatusIs, StatusNext
  <2>9. to \in {"answered", "owed"}
    BY DEF to
  <2>10. Turns!EndTurn(k)
    BY <2>2, <2>4, <2>8, <2>9 DEF Turns!EndTurn
  <2>11. QED
    BY <2>2, <2>10 DEF Turns!Next
<1>7. QED
  BY <1>2, <1>3, <1>4, <1>5, <1>6 DEF WorkerStep

\* Threads, timers, carried batches and locks add up to turns that answer all
\* their messages or give them back, one turn of a conversation at a time
\* (dispatcher.py): the dispatcher implements ConversationTurns.
THEOREM RefinesTurns == Spec => ImplementsTurns
<1>1. Init => Turns!Init
  <2> SUFFICES ASSUME Init PROVE turnStatus = [m \in Messages |-> "unsent"]
    BY DEF Turns!Init
  <2>1. \A m \in Messages : Status(m) = "unsent"
    BY DEF Init, Status, InHand
  <2>2. QED
    BY <2>1, StatusIs
<1>2. PInv /\ [Next]_vars => [Turns!Next]_turnStatus
  BY WebhookTurns, HandoverTurns, WorkerTurns DEF Next
<1>3. QED
  BY <1>1, <1>2, PlacesInvariant, PTL DEF Spec, ImplementsTurns, Turns!Spec

-----------------------------------------------------------------------------
(* The transcript: sets of places, and pieces of a list.                    *)

\* A set of numbers that is not empty has a least one, and one that is bounded a greatest.
LEMMA LeastPlace ==
    ASSUME NEW K \in SUBSET Nat, K # {}
    PROVE  Min(K) \in K /\ \A i \in K : Min(K) <= i
<1>1. IsWellFoundedOn(OpToRel(<, Nat), Nat)
  BY NatLessThanWellFounded
<1>2. PICK k \in K : \A i \in Nat : <<i, k>> \in OpToRel(<, Nat) => ~(i \in K)
  BY <1>1, WFMin
<1>3. \A i \in Nat : i < k => <<i, k>> \in OpToRel(<, Nat)
  BY DEF OpToRel
<1>5. \A i \in K : ~(i < k)
  BY <1>2, <1>3
<1>6. \A i \in K : k <= i
  BY <1>5
<1>4. QED
  BY <1>6 DEF Min

LEMMA GreatestPlace ==
    ASSUME NEW n \in Nat, NEW K \in SUBSET 1..n, K # {}
    PROVE  Max(K) \in K /\ \A i \in K : i <= Max(K)
<1> DEFINE down == {n - i : i \in K}
<1>1. down \in SUBSET Nat /\ down # {}
  <2>1. \A i \in K : n - i \in Nat
    OBVIOUS
  <2>2. PICK i \in K : TRUE
    OBVIOUS
  <2>3. n - i \in down
    OBVIOUS
  <2>4. QED
    BY <2>1, <2>3
<1>2. PICK k \in K : \A i \in K : n - k <= n - i
  <2>1. Min(down) \in down /\ \A j \in down : Min(down) <= j
    BY <1>1, LeastPlace
  <2>2. PICK k \in K : Min(down) = n - k
    BY <2>1
  <2>3. QED
    BY <2>1, <2>2
<1>3. \A i \in K : i <= k
  BY <1>2
<1>4. QED
  BY <1>3 DEF Max

LEMMA FromFacts ==
    ASSUME NEW S, NEW s \in Seq(S), NEW d \in 0..Len(s)
    PROVE  /\ From(s, d + 1) \in Seq(S)
           /\ Len(From(s, d + 1)) = Len(s) - d
           /\ \A i \in 1..(Len(s) - d) : From(s, d + 1)[i] = s[i + d]
BY DEF From

\* What is kept of a sequence is in its order, whole, and what was side by side stays so.
LEMMA Ranks ==
    ASSUME NEW n \in Nat, NEW K \in SUBSET 1..n
    PROVE  /\ IsFiniteSet(K) /\ Cardinality(K) \in Nat
           /\ \A i \in K : Cardinality({k \in K : k <= i}) \in 1..Cardinality(K)
           /\ \A i, j \in K : i < j => Cardinality({k \in K : k <= i}) < Cardinality({k \in K : k <= j})
           /\ \A m \in 1..Cardinality(K) : \E i \in K : Cardinality({k \in K : k <= i}) = m
<1> DEFINE upto(i) == {k \in K : k <= i}
           rank == [i \in K |-> Cardinality(upto(i))]
<1>1. IsFiniteSet(K) /\ Cardinality(K) \in Nat
  <2>1. IsFiniteSet(1..n)
    BY FS_Interval
  <2>2. IsFiniteSet(K)
    BY <2>1, FS_Subset
  <2>3. QED
    BY <2>2, FS_CardinalityType
<1>2. ASSUME NEW i \in K PROVE Cardinality(upto(i)) \in 1..Cardinality(K)
  <2>1. IsFiniteSet(upto(i)) /\ Cardinality(upto(i)) <= Cardinality(K)
    BY <1>1, FS_Subset
  <2>2. upto(i) # {}
    OBVIOUS
  <2>3. Cardinality(upto(i)) \in Nat /\ Cardinality(upto(i)) # 0
    BY <2>1, <2>2, FS_CardinalityType, FS_EmptySet
  <2>4. QED
    BY <1>1, <2>1, <2>3
<1>3. ASSUME NEW i \in K, NEW j \in K, i < j PROVE Cardinality(upto(i)) < Cardinality(upto(j))
  <2>1. IsFiniteSet(upto(j)) /\ upto(i) \in SUBSET upto(j)
    <3>1. upto(j) \in SUBSET K
      OBVIOUS
    <3>2. upto(i) \in SUBSET upto(j)
      <4>1. K \subseteq Nat
        OBVIOUS
      <4>2. \A k \in K : k <= i => k <= j
        BY <1>3, <4>1
      <4>3. QED
        BY <4>2
    <3>3. QED
      BY <1>1, <3>1, <3>2, FS_Subset
  <2>2. j \in upto(j) /\ j \notin upto(i)
    BY <1>3
  <2>3. Cardinality(upto(i)) <= Cardinality(upto(j)) /\ Cardinality(upto(i)) # Cardinality(upto(j))
    BY <2>1, <2>2, FS_Subset
  <2>4. QED
    BY <1>2, <2>3
<1>4. rank \in Injection(K, 1..Cardinality(K))
  <2>1. rank \in [K -> 1..Cardinality(K)]
    BY <1>2
  <2>2. \A i, j \in K : i # j => i < j \/ j < i
    OBVIOUS
  <2>3. \A i, j \in K : rank[i] = rank[j] => i = j
    BY <1>2, <1>3, <2>2
  <2>4. QED
    BY <2>1, <2>3 DEF Injection, IsInjective
<1>5. rank \in Surjection(K, 1..Cardinality(K))
  <2>1. IsFiniteSet(1..Cardinality(K)) /\ Cardinality(1..Cardinality(K)) = Cardinality(K)
    BY <1>1, FS_Interval
  <2>2. QED
    BY <1>4, <2>1, FS_Injection
<1>6. \A m \in 1..Cardinality(K) : \E i \in K : rank[i] = m
  BY <1>5 DEF Surjection
<1>7. QED
  BY <1>1, <1>2, <1>3, <1>6

LEMMA SubsequenceFacts ==
    ASSUME NEW S, NEW s \in Seq(S), NEW K \in SUBSET DOMAIN s
    PROVE  /\ Cardinality(K) \in Nat
           /\ Subsequence(s, K) \in Seq(S)
           /\ Len(Subsequence(s, K)) = Cardinality(K)
           /\ \E e \in [1..Cardinality(K) -> K] :
                /\ \A m, n \in 1..Cardinality(K) : m < n => e[m] < e[n]
                /\ \A i \in K : \E n \in 1..Cardinality(K) : e[n] = i
                /\ \A n \in 1..Cardinality(K) : Subsequence(s, K)[n] = s[e[n]]
<1> DEFINE rank(i) == Cardinality({k \in K : k <= i})
           c == Cardinality(K)
           e == [n \in 1..c |-> CHOOSE i \in K : rank(i) = n]
<1>1. K \in SUBSET 1..Len(s) /\ Len(s) \in Nat
  OBVIOUS
<1>2. /\ c \in Nat
      /\ \A i \in K : rank(i) \in 1..c
      /\ \A i, j \in K : i < j => rank(i) < rank(j)
      /\ \A m \in 1..c : \E i \in K : rank(i) = m
  BY <1>1, Ranks
<1> HIDE DEF rank, c
<1>3. \A n \in 1..c : e[n] \in K /\ rank(e[n]) = n
  BY <1>2
<1>4. ASSUME NEW i \in K, NEW j \in K, rank(i) < rank(j) PROVE i < j
  <2>1. i \in Nat /\ j \in Nat /\ rank(i) \in Nat /\ rank(j) \in Nat
    BY <1>1, <1>2
  <2>2. CASE j < i
    BY <1>2, <1>4, <2>1, <2>2, SMTT(60)
  <2>3. QED
    BY <1>4, <2>1, <2>2
<1>5. ASSUME NEW i \in K, NEW j \in K, rank(i) = rank(j) PROVE i = j
  <2>1. i \in Nat /\ j \in Nat /\ rank(i) \in Nat /\ rank(j) \in Nat
    BY <1>1, <1>2
  <2>2. ~(i < j) /\ ~(j < i)
    BY <1>2, <1>5, <2>1, SMTT(60)
  <2>3. QED
    BY <2>1, <2>2
<1>6. \A m, n \in 1..c : m < n => e[m] < e[n]
  BY <1>3, <1>4
<1>7. \A i \in K : \E n \in 1..c : e[n] = i
  BY <1>2, <1>3, <1>5
<1>8. Subsequence(s, K) = [n \in 1..c |-> s[e[n]]]
  BY DEF Subsequence, rank, c
<1>9. \A n \in 1..c : s[e[n]] \in S
  BY <1>1, <1>3
<1>10. Subsequence(s, K) \in Seq(S) /\ Len(Subsequence(s, K)) = c
  BY <1>2, <1>8, <1>9
<1>11. e \in [1..c -> K]
  BY <1>3
<1>12. QED
  BY <1>2, <1>6, <1>7, <1>8, <1>10, <1>11 DEF c

LEMMA SubsequenceOfAll ==
    ASSUME NEW S, NEW s \in Seq(S)
    PROVE  Subsequence(s, DOMAIN s) = s
<1>1. DOMAIN s = 1..Len(s) /\ Len(s) \in Nat
  OBVIOUS
<1>2. Cardinality(DOMAIN s) = Len(s)
  <2>1. Cardinality(1..Len(s)) = IF 1 > Len(s) THEN 0 ELSE Len(s) - 1 + 1
    BY <1>1, FS_Interval
  <2>2. QED
    BY <1>1, <2>1
<1>3. ASSUME NEW i \in DOMAIN s PROVE Cardinality({k \in DOMAIN s : k <= i}) = i
  <2>1. {k \in DOMAIN s : k <= i} = 1..i
    BY <1>1
  <2>2. QED
    <3>1. i \in Int /\ i >= 1
      BY <1>1
    <3>2. Cardinality(1..i) = IF 1 > i THEN 0 ELSE i - 1 + 1
      BY <3>1, FS_Interval
    <3>3. Cardinality(1..i) = i
      BY <3>1, <3>2
    <3>4. QED
      BY <2>1, <3>3, Zenon
<1>4. \A n \in DOMAIN s : (CHOOSE i \in DOMAIN s : Cardinality({k \in DOMAIN s : k <= i}) = n) = n
  BY <1>3
<1> DEFINE place(n) == CHOOSE i \in DOMAIN s : Cardinality({k \in DOMAIN s : k <= i}) = n
<1>5. Subsequence(s, DOMAIN s) = [n \in 1..Len(s) |-> s[place(n)]]
  BY <1>2 DEF Subsequence
<1> HIDE DEF place
<1>6. \A n \in 1..Len(s) : s[place(n)] = s[n]
  BY <1>1, <1>4 DEF place
<1>7. QED
  BY <1>1, <1>5, <1>6

\* A copy made on arrival is of a message.
Arrived(s) == \A i \in DOMAIN s : s[i].provisional => s[i].of # {}

\* A list has m, or a message of the same speaker that covers it.
Holds(s, m) == \E i \in DOMAIN s : s[i].role = m.role /\ m.of \subseteq s[i].of

-----------------------------------------------------------------------------
(* trim, and pairs.                                                        *)

LEMMA TrimFacts ==
    ASSUME NEW s \in Seq(Message), NEW cap \in Nat \ {0}
    PROVE  \E d \in 0..Len(s) :
             /\ Trim(s, cap) = From(s, d + 1)
             /\ d = 0 \/ d = Len(s) \/ s[d + 1].role = "user"
             /\ \/ Len(s) - d <= cap
                \/ \A i \in DOMAIN s : i > d + 1 => s[i].role # "user"
<1> DEFINE users == {i \in DOMAIN s : s[i].role = "user"}
           tail == {i \in users : i > Len(s) - cap}
<1>1. Len(s) \in Nat /\ DOMAIN s = 1..Len(s) /\ users \in SUBSET (1..Len(s)) /\ tail \in SUBSET Nat
  OBVIOUS
<1>2. CASE Len(s) <= cap
  <2>1. Trim(s, cap) = s /\ From(s, 0 + 1) = s
    BY <1>1, <1>2 DEF Trim, From
  <2>2. QED
    BY <1>1, <1>2, <2>1
<1>3. CASE ~(Len(s) <= cap) /\ tail # {}
  <2>1. Min(tail) \in tail
    BY <1>1, <1>3, LeastPlace
  <2>2. PICK d : d = Min(tail) - 1
    OBVIOUS
  <2>3. d \in 0..Len(s) /\ d + 1 = Min(tail) /\ Len(s) - d <= cap /\ s[d + 1].role = "user"
    BY <1>1, <2>1, <2>2
  <2>4. Trim(s, cap) = From(s, d + 1)
    BY <1>3, <2>3 DEF Trim
  <2>5. QED
    BY <2>3, <2>4
<1>4. CASE ~(Len(s) <= cap) /\ tail = {} /\ users # {}
  <2>1. Max(users) \in users /\ \A i \in users : i <= Max(users)
    BY <1>1, <1>4, GreatestPlace
  <2>2. PICK d : d = Max(users) - 1
    OBVIOUS
  <2>3. d \in 0..Len(s) /\ d + 1 = Max(users) /\ s[d + 1].role = "user"
    BY <1>1, <2>1, <2>2
  <2>4. Trim(s, cap) = From(s, d + 1)
    BY <1>4, <2>3 DEF Trim
  <2>5. ASSUME NEW i \in DOMAIN s, i > d + 1 PROVE s[i].role # "user"
    <3>1. i \in Nat /\ ~(i <= Max(users))
      BY <1>1, <2>3, <2>5
    <3>2. i \notin users
      BY <2>1, <3>1
    <3>3. QED
      BY <3>2
  <2>6. QED
    BY <2>3, <2>4, <2>5
<1>5. CASE ~(Len(s) <= cap) /\ tail = {} /\ users = {}
  <2>1. Trim(s, cap) = <<>> /\ From(s, Len(s) + 1) = <<>>
    BY <1>1, <1>5 DEF Trim, From
  <2>2. \A i \in DOMAIN s : s[i].role # "user"
    BY <1>5
  <2>3. Len(s) \in 0..Len(s)
    BY <1>1
  <2>4. QED
    BY <2>1, <2>2, <2>3
<1>6. QED
  BY <1>2, <1>3, <1>4, <1>5

\* A piece that starts where nothing is cut has its pairs whole.
LEMMA PairedFrom ==
    ASSUME NEW s \in Seq(Message), Paired(s), NEW d \in 0..Len(s),
           d = 0 \/ d = Len(s) \/ s[d + 1].role = "user"
    PROVE  Paired(From(s, d + 1))
<1>1. PICK t : t = From(s, d + 1)
  OBVIOUS
<1>2. /\ t \in Seq(Message) /\ Len(t) = Len(s) - d
      /\ \A i \in 1..(Len(s) - d) : t[i] = s[i + d]
  BY <1>1, FromFacts
<1>3. Len(s) \in Nat /\ d \in Nat /\ d <= Len(s) /\ DOMAIN s = 1..Len(s) /\ DOMAIN t = 1..(Len(s) - d)
  BY <1>2
<1>n. Len(s) \in Nat /\ d \in Nat /\ d <= Len(s)
  BY <1>3
<1>4. ASSUME NEW i \in DOMAIN t, t[i].role = "results"
      PROVE  i > 1 /\ t[i - 1] = Say("call", t[i].of)
  <2>0. i \in 1..(Len(s) - d)
    BY <1>3
  <2>1. i \in Nat /\ t[i] = s[i + d] /\ i + d \in DOMAIN s
    BY <1>2, <1>3, <2>0
  <2>2. i + d > 1 /\ s[i + d - 1] = Say("call", s[i + d].of)
    BY <1>4, <2>1 DEF Paired
  <2>3. i # 1
    <3>1. CASE i = 1
      <4>1. d # Len(s) /\ d # 0 /\ i + d = d + 1
        BY <1>n, <2>0, <2>2, <3>1
      <4>2. s[d + 1].role = "results"
        BY <1>4, <2>1, <4>1
      <4>3. QED
        BY <4>1, <4>2
    <3>2. QED
      BY <3>1, Zenon
  <2>4. i > 1 /\ i - 1 \in 1..(Len(s) - d) /\ (i - 1) + d = i + d - 1
    BY <1>n, <2>0, <2>3
  <2>5. t[i - 1] = s[i + d - 1]
    BY <1>2, <2>4
  <2>6. QED
    BY <2>1, <2>2, <2>4, <2>5, SMTT(60)
<1>5. ASSUME NEW i \in DOMAIN t, t[i].role = "call"
      PROVE  i < Len(t) /\ t[i + 1] = Say("results", t[i].of)
  <2>0. i \in 1..(Len(s) - d)
    BY <1>3
  <2>1. i \in Nat /\ t[i] = s[i + d] /\ i + d \in DOMAIN s
    BY <1>2, <1>3, <2>0
  <2>2. i + d < Len(s) /\ s[i + d + 1] = Say("results", s[i + d].of)
    BY <1>5, <2>1 DEF Paired
  <2>3. i < Len(s) - d /\ i + 1 \in 1..(Len(s) - d) /\ (i + 1) + d = i + d + 1
    BY <1>n, <2>0, <2>2, SMTT(60)
  <2>4. t[i + 1] = s[i + d + 1]
    <3>1. t[i + 1] = s[(i + 1) + d]
      BY <1>2, <2>3
    <3>2. QED
      BY <2>3, <3>1, Zenon
  <2>5. QED
    BY <1>2, <2>1, <2>2, <2>3, <2>4
<1>6. QED
  BY <1>1, <1>4, <1>5 DEF Paired

\* Two pieces that are whole make a whole one.
LEMMA PairedConcat ==
    ASSUME NEW s \in Seq(Message), NEW t \in Seq(Message), Paired(s), Paired(t)
    PROVE  Paired(s \o t)
<1>1. PICK u : u = s \o t
  OBVIOUS
<1>2. /\ Len(s) \in Nat /\ Len(t) \in Nat /\ DOMAIN s = 1..Len(s) /\ DOMAIN t = 1..Len(t)
      /\ Len(u) = Len(s) + Len(t) /\ DOMAIN u = 1..(Len(s) + Len(t))
      /\ \A i \in 1..Len(s) : u[i] = s[i]
      /\ \A i \in 1..Len(t) : u[Len(s) + i] = t[i]
  BY <1>1
<1>3. ASSUME NEW i \in DOMAIN u, u[i].role = "results"
      PROVE  i > 1 /\ u[i - 1] = Say("call", u[i].of)
  <2>1. CASE i <= Len(s)
    <3>1. i \in DOMAIN s /\ u[i] = s[i]
      BY <1>2, <2>1
    <3>2. i > 1 /\ s[i - 1] = Say("call", s[i].of)
      BY <1>3, <3>1 DEF Paired
    <3>3. i - 1 \in 1..Len(s)
      BY <1>2, <3>1, <3>2
    <3>4. QED
      BY <1>2, <3>1, <3>2, <3>3
  <2>2. CASE i > Len(s)
    <3>1. PICK j \in 1..Len(t) : i = Len(s) + j
      <4>1. i - Len(s) \in 1..Len(t) /\ i = Len(s) + (i - Len(s))
        BY <1>2, <2>2
      <4>2. QED
        BY <4>1
    <3>2. j > 1 /\ t[j - 1] = Say("call", t[j].of)
      BY <1>2, <1>3, <3>1 DEF Paired
    <3> j \in Nat /\ Len(s) \in Nat /\ Len(t) \in Nat
      BY <1>2
    <3>3. j - 1 \in 1..Len(t) /\ i - 1 = Len(s) + (j - 1) /\ i > 1
      BY <3>1, <3>2
    <3>4. QED
      BY <1>2, <3>1, <3>2, <3>3
  <2>3. QED
    BY <1>2, <2>1, <2>2
<1>4. ASSUME NEW i \in DOMAIN u, u[i].role = "call"
      PROVE  i < Len(u) /\ u[i + 1] = Say("results", u[i].of)
  <2>1. CASE i <= Len(s)
    <3>1. i \in DOMAIN s /\ u[i] = s[i]
      BY <1>2, <2>1
    <3>2. i < Len(s) /\ s[i + 1] = Say("results", s[i].of)
      BY <1>4, <3>1 DEF Paired
    <3>3. i + 1 \in 1..Len(s) /\ i < Len(u)
      BY <1>2, <3>1, <3>2
    <3>4. QED
      BY <1>2, <3>1, <3>2, <3>3
  <2>2. CASE i > Len(s)
    <3>1. PICK j \in 1..Len(t) : i = Len(s) + j
      <4>1. i - Len(s) \in 1..Len(t) /\ i = Len(s) + (i - Len(s))
        BY <1>2, <2>2
      <4>2. QED
        BY <4>1
    <3>2. j < Len(t) /\ t[j + 1] = Say("results", t[j].of)
      BY <1>2, <1>4, <3>1 DEF Paired
    <3>3. j + 1 \in 1..Len(t) /\ i + 1 = Len(s) + (j + 1) /\ i < Len(u)
      BY <1>2, <3>1, <3>2
    <3>4. QED
      BY <1>2, <3>1, <3>2, <3>3
  <2>3. QED
    BY <1>2, <2>1, <2>2
<1>5. QED
  BY <1>1, <1>3, <1>4 DEF Paired

\* Messages without tools in them are paired.
LEMMA PairedPlain ==
    ASSUME NEW s \in Seq(Message), \A i \in DOMAIN s : s[i].role \notin {"call", "results"}
    PROVE  Paired(s)
BY DEF Paired

\* Leaving out messages of the customer separates no pair.
LEMMA PairedSubsequence ==
    ASSUME NEW s \in Seq(Message), Paired(s), NEW K \in SUBSET DOMAIN s,
           \A i \in DOMAIN s \ K : s[i].role = "user"
    PROVE  Paired(Subsequence(s, K))
<1>1. PICK c, t : c = Cardinality(K) /\ t = Subsequence(s, K)
  OBVIOUS
<1>2. /\ c \in Nat /\ t \in Seq(Message) /\ Len(t) = c
      /\ \E e \in [1..c -> K] :
           /\ \A m, n \in 1..c : m < n => e[m] < e[n]
           /\ \A i \in K : \E n \in 1..c : e[n] = i
           /\ \A n \in 1..c : t[n] = s[e[n]]
  BY <1>1, SubsequenceFacts, SMTT(60)
<1>3. PICK e \in [1..c -> K] :
        /\ \A m, n \in 1..c : m < n => e[m] < e[n]
        /\ \A i \in K : \E n \in 1..c : e[n] = i
        /\ \A n \in 1..c : t[n] = s[e[n]]
  BY <1>2
<1>4. Len(s) \in Nat /\ DOMAIN s = 1..Len(s) /\ DOMAIN t = 1..c /\ \A n \in 1..c : e[n] \in 1..Len(s)
  <2>1. DOMAIN s = 1..Len(s) /\ K \subseteq 1..Len(s)
    OBVIOUS
  <2>2. \A n \in 1..c : e[n] \in K
    BY <1>3
  <2>3. \A n \in 1..c : e[n] \in 1..Len(s)
    BY <2>1, <2>2, Zenon
  <2>4. QED
    BY <1>2, <2>1, <2>3
<1>5. ASSUME NEW m \in 1..c, NEW n \in 1..c, e[n] = e[m] + 1
      PROVE  n = m + 1
  <2>1. m < n
    <3>1. m = n \/ n < m \/ m < n
      BY <1>2
    <3>2. ~(n < m)
      BY <1>3, <1>4, <1>5
    <3>3. QED
      BY <1>4, <1>5, <3>1, <3>2
  <2> m \in Nat /\ n \in Nat /\ c \in Nat
    BY <1>2
  <2>2. CASE m + 1 < n
    <3>1. m + 1 \in 1..c
      BY <1>2, <2>2
    <3>2. e[m] < e[m + 1] /\ e[m + 1] < e[n]
      BY <1>3, <2>2, <3>1
    <3>3. QED
      BY <1>4, <1>5, <3>1, <3>2
  <2>3. QED
    BY <2>1, <2>2
<1>6. ASSUME NEW i \in DOMAIN t, t[i].role = "results"
      PROVE  i > 1 /\ t[i - 1] = Say("call", t[i].of)
  <2>1. e[i] > 1 /\ s[e[i] - 1] = Say("call", s[e[i]].of) /\ t[i] = s[e[i]]
    BY <1>3, <1>4, <1>6 DEF Paired
  <2>2. s[e[i] - 1].role = "call"
    BY <2>1 DEF Say
  <2>3. e[i] - 1 \in K
    BY <1>4, <2>1, <2>2
  <2>4. PICK n \in 1..c : e[n] = e[i] - 1
    BY <1>3, <2>3
  <2>5. i = n + 1
    BY <1>4, <1>5, <2>4
  <2>6. i > 1 /\ i - 1 = n
    BY <1>2, <2>5
  <2>7. QED
    BY <1>3, <2>1, <2>4, <2>6
<1>7. ASSUME NEW i \in DOMAIN t, t[i].role = "call"
      PROVE  i < Len(t) /\ t[i + 1] = Say("results", t[i].of)
  <2>1. e[i] < Len(s) /\ s[e[i] + 1] = Say("results", s[e[i]].of) /\ t[i] = s[e[i]]
    BY <1>3, <1>4, <1>7 DEF Paired
  <2>2. s[e[i] + 1].role = "results"
    BY <2>1 DEF Say
  <2>3. e[i] + 1 \in K
    BY <1>4, <2>1, <2>2
  <2>4. PICK n \in 1..c : e[n] = e[i] + 1
    BY <1>3, <2>3
  <2>5. n = i + 1
    BY <1>4, <1>5, <2>4
  <2>6. i < Len(t) /\ i + 1 = n
    BY <1>2, <1>4, <2>4, <2>5
  <2>7. QED
    BY <1>3, <2>1, <2>4, <2>6
<1>8. QED
  BY <1>1, <1>6, <1>7 DEF Paired

-----------------------------------------------------------------------------
(* Lists put together and cut.                                             *)

LEMMA PrefixFacts ==
    ASSUME NEW S, NEW s \in Seq(S), NEW n \in 0..Len(s)
    PROVE  /\ SubSeq(s, 1, n) \in Seq(S)
           /\ Len(SubSeq(s, 1, n)) = n
           /\ \A i \in 1..n : SubSeq(s, 1, n)[i] = s[i]
  OBVIOUS

LEMMA ConcatFacts ==
    ASSUME NEW S, NEW s \in Seq(S), NEW t \in Seq(S)
    PROVE  /\ s \o t \in Seq(S) /\ Len(s) \in Nat /\ Len(t) \in Nat
           /\ DOMAIN s = 1..Len(s) /\ DOMAIN t = 1..Len(t) /\ DOMAIN (s \o t) = 1..(Len(s) + Len(t))
           /\ Len(s \o t) = Len(s) + Len(t)
           /\ \A i \in 1..Len(s) : (s \o t)[i] = s[i]
           /\ \A i \in 1..Len(t) : (s \o t)[Len(s) + i] = t[i]
           /\ \A i \in 1..(Len(s) + Len(t)) :
                i \in 1..Len(s) \/ \E j \in 1..Len(t) : i = Len(s) + j
<1>1. ASSUME NEW i \in 1..(Len(s) + Len(t)), i \notin 1..Len(s)
      PROVE  \E j \in 1..Len(t) : i = Len(s) + j
  <2>1. Len(s) \in Nat /\ Len(t) \in Nat
    OBVIOUS
  <2>2. i - Len(s) \in 1..Len(t) /\ i = Len(s) + (i - Len(s))
    BY <1>1, <2>1
  <2>3. QED
    BY <2>2
<1>2. QED
  BY <1>1

\* A sequence of one.
LEMMA OneMessage ==
    ASSUME NEW S, NEW m \in S
    PROVE  <<m>> \in Seq(S) /\ Len(<<m>>) = 1 /\ DOMAIN <<m>> = {1} /\ <<m>>[1] = m
  OBVIOUS

LEMMA FromFrom ==
    ASSUME NEW S, NEW s \in Seq(S), NEW d \in 0..Len(s), NEW e \in 0..(Len(s) - d)
    PROVE  From(From(s, d + 1), e + 1) = From(s, d + e + 1)
<1>1. Len(s) \in Nat /\ d \in Nat /\ e \in Nat /\ d + e \in 0..Len(s)
  OBVIOUS
<1>2. PICK t : t = From(s, d + 1)
  OBVIOUS
<1>3. t \in Seq(S) /\ Len(t) = Len(s) - d /\ \A i \in 1..(Len(s) - d) : t[i] = s[i + d]
  BY <1>2, FromFacts
<1>4. PICK u : u = From(t, e + 1)
  OBVIOUS
<1>5. u \in Seq(S) /\ Len(u) = Len(s) - d - e /\ \A i \in 1..(Len(s) - d - e) : u[i] = t[i + e]
  <2>1. e \in 0..Len(t)
    BY <1>3
  <2>2. u \in Seq(S) /\ Len(u) = Len(t) - e /\ \A i \in 1..(Len(t) - e) : u[i] = t[i + e]
    BY <1>3, <1>4, <2>1, FromFacts
  <2>3. QED
    BY <1>3, <2>2
<1>6. PICK v : v = From(s, d + e + 1)
  OBVIOUS
<1>7. v \in Seq(S) /\ Len(v) = Len(s) - (d + e) /\ \A i \in 1..(Len(s) - (d + e)) : v[i] = s[i + (d + e)]
  BY <1>1, <1>6, FromFacts
<1>8. ASSUME NEW i \in 1..(Len(s) - d - e) PROVE u[i] = v[i]
  <2>1. i + e \in 1..(Len(s) - d) /\ i \in 1..(Len(s) - (d + e)) /\ (i + e) + d = i + (d + e)
    BY <1>1
  <2>2. u[i] = t[i + e] /\ t[i + e] = s[(i + e) + d] /\ v[i] = s[i + (d + e)]
    BY <1>3, <1>5, <1>7, <2>1
  <2>3. QED
    BY <2>1, <2>2
<1>9. Len(u) = Len(v) /\ Len(s) - d - e = Len(u)
  BY <1>1, <1>5, <1>7
<1>10. u = v
  <2>1. u \in Seq(S) /\ v \in Seq(S) /\ Len(u) = Len(v)
    BY <1>5, <1>7, <1>9
  <2>2. \A i \in 1..Len(u) : u[i] = v[i]
    BY <1>8, <1>9
  <2>3. QED
    BY <2>1, <2>2
<1>11. QED
  BY <1>2, <1>4, <1>6, <1>10

\* A history cut in two and put together again.
LEMMA CutAndJoined ==
    ASSUME NEW S, NEW s \in Seq(S), NEW d \in 0..Len(s)
    PROVE  SubSeq(s, 1, d) \o From(s, d + 1) = s
<1>1. 1 \in 1..Len(s) + 1 /\ d \in (1 - 1)..Len(s) /\ Len(s) \in d..Len(s)
  OBVIOUS
<1>2. SubSeq(s, 1, d) \o SubSeq(s, d + 1, Len(s)) = SubSeq(s, 1, Len(s))
  BY <1>1, ConcatAdjacentSubSeq
<1>3. QED
  BY <1>2, SubSeqFull DEF From

-----------------------------------------------------------------------------
(* Copies made on arrival, and what drop_provisional leaves of a list.     *)

LEMMA ArrivedFrom ==
    ASSUME NEW s \in Seq(Message), Arrived(s), NEW d \in 0..Len(s)
    PROVE  Arrived(From(s, d + 1))
<1>1. PICK t : t = From(s, d + 1)
  OBVIOUS
<1>2. t \in Seq(Message) /\ Len(t) = Len(s) - d /\ \A i \in 1..(Len(s) - d) : t[i] = s[i + d]
  BY <1>1, FromFacts
<1>3. ASSUME NEW i \in 1..(Len(s) - d) PROVE i + d \in DOMAIN s
  OBVIOUS
<1>4. DOMAIN t = 1..(Len(s) - d)
  BY <1>2
<1>5. QED
  BY <1>1, <1>2, <1>3, <1>4 DEF Arrived

LEMMA ArrivedPrefix ==
    ASSUME NEW s \in Seq(Message), Arrived(s), NEW n \in 0..Len(s)
    PROVE  Arrived(SubSeq(s, 1, n))
<1>1. PICK p : p = SubSeq(s, 1, n)
  OBVIOUS
<1>2. p \in Seq(Message) /\ Len(p) = n /\ \A i \in 1..n : p[i] = s[i]
  BY <1>1, PrefixFacts
<1>3. DOMAIN p = 1..n
  BY <1>2
<1>4. \A i \in 1..n : i \in DOMAIN s
  OBVIOUS
<1>5. Arrived(p)
  BY <1>2, <1>3, <1>4 DEF Arrived
<1>6. QED
  BY <1>1, <1>5

LEMMA ArrivedConcat ==
    ASSUME NEW s \in Seq(Message), NEW t \in Seq(Message), Arrived(s), Arrived(t)
    PROVE  Arrived(s \o t)
<1>1. PICK u : u = s \o t
  OBVIOUS
<1>2. /\ DOMAIN s = 1..Len(s) /\ DOMAIN t = 1..Len(t) /\ DOMAIN u = 1..(Len(s) + Len(t))
      /\ \A i \in 1..Len(s) : u[i] = s[i]
      /\ \A i \in 1..Len(t) : u[Len(s) + i] = t[i]
      /\ \A i \in 1..(Len(s) + Len(t)) : i \in 1..Len(s) \/ \E j \in 1..Len(t) : i = Len(s) + j
  BY <1>1, ConcatFacts
<1>3. ASSUME NEW i \in DOMAIN u, u[i].provisional PROVE u[i].of # {}
  <2>1. CASE i \in 1..Len(s)
    BY <1>2, <1>3, <2>1 DEF Arrived
  <2>2. ASSUME NEW j \in 1..Len(t), i = Len(s) + j PROVE u[i].of # {}
    BY <1>2, <1>3, <2>2, ZenonT(60) DEF Arrived
  <2>3. QED
    BY <1>2, <2>1, <2>2
<1>4. QED
  BY <1>1, <1>3 DEF Arrived

LEMMA ArrivedSubsequence ==
    ASSUME NEW s \in Seq(Message), Arrived(s), NEW K \in SUBSET DOMAIN s
    PROVE  Arrived(Subsequence(s, K))
<1>1. PICK c, t : c = Cardinality(K) /\ t = Subsequence(s, K)
  OBVIOUS
<1>2. /\ c \in Nat /\ t \in Seq(Message) /\ Len(t) = c
      /\ \E e \in [1..c -> K] : \A n \in 1..c : t[n] = s[e[n]]
  BY <1>1, SubsequenceFacts
<1>3. PICK e \in [1..c -> K] : \A n \in 1..c : t[n] = s[e[n]]
  BY <1>2
<1>4. DOMAIN t = 1..c /\ \A n \in 1..c : e[n] \in DOMAIN s
  BY <1>2
<1>5. QED
  BY <1>1, <1>3, <1>4 DEF Arrived

\* drop_provisional keeps what it does not drop, and drops copies of what it is told.
LEMMA DropFacts ==
    ASSUME NEW s \in Seq(Message), NEW ids
    PROVE  /\ DropProvisional(s, ids) \in Seq(Message)
           /\ Arrived(s) => Arrived(DropProvisional(s, ids))
           /\ Paired(s) => Paired(DropProvisional(s, ids))
           /\ \A i \in DOMAIN s : \/ Holds(DropProvisional(s, ids), s[i])
                                  \/ s[i].role = "user" /\ s[i].of \subseteq ids
<1> DEFINE K == {i \in DOMAIN s : ~(s[i].role = "user" /\ s[i].provisional /\ s[i].of \subseteq ids)}
<1>1. PICK c, t : c = Cardinality(K) /\ t = Subsequence(s, K)
  OBVIOUS
<1>2. t = DropProvisional(s, ids)
  BY <1>1 DEF DropProvisional
<1>3. K \in SUBSET DOMAIN s
  OBVIOUS
<1>4. \A i \in DOMAIN s \ K : s[i].role = "user" /\ s[i].of \subseteq ids
  OBVIOUS
<1> HIDE DEF K
<1>5. /\ c \in Nat /\ t \in Seq(Message) /\ Len(t) = c
      /\ \E e \in [1..c -> K] : 
           /\ \A i \in K : \E n \in 1..c : e[n] = i
           /\ \A n \in 1..c : t[n] = s[e[n]]
  BY <1>1, <1>3, SubsequenceFacts
<1>6. PICK e \in [1..c -> K] :
        /\ \A i \in K : \E n \in 1..c : e[n] = i
        /\ \A n \in 1..c : t[n] = s[e[n]]
  BY <1>5
<1>7. ASSUME NEW i \in K PROVE Holds(t, s[i])
  <2>1. PICK n \in 1..c : e[n] = i
    BY <1>6
  <2>2. t[n] = s[i]
    BY <1>6, <2>1
  <2>3. DOMAIN t = 1..c
    BY <1>5
  <2>4. QED
    BY <2>2, <2>3 DEF Holds
<1>8. Paired(s) => Paired(t)
  BY <1>1, <1>3, <1>4, PairedSubsequence
<1>9. Arrived(s) => Arrived(t)
  BY <1>1, <1>3, ArrivedSubsequence
<1>10. QED
  BY <1>2, <1>4, <1>5, <1>7, <1>8, <1>9

LEMMA DropNothing ==
    ASSUME NEW s \in Seq(Message), Arrived(s)
    PROVE  DropProvisional(s, {}) = s
<1>1. {i \in DOMAIN s : ~(s[i].role = "user" /\ s[i].provisional /\ s[i].of \subseteq {})} = DOMAIN s
  BY DEF Arrived
<1>2. DropProvisional(s, {}) = Subsequence(s, DOMAIN s)
  BY <1>1 DEF DropProvisional
<1>3. QED
  BY <1>2, SubsequenceOfAll

-----------------------------------------------------------------------------
(* What a list holds.                                                      *)

LEMMA HoldsIts ==
    ASSUME NEW s, NEW i \in DOMAIN s
    PROVE  Holds(s, s[i])
BY DEF Holds

LEMMA HoldsOn ==
    ASSUME NEW s, NEW t, NEW m, Holds(s, m), \A i \in DOMAIN s : Holds(t, s[i])
    PROVE  Holds(t, m)
<1>1. PICK i \in DOMAIN s : s[i].role = m.role /\ m.of \subseteq s[i].of
  BY DEF Holds
<1>2. PICK j \in DOMAIN t : t[j].role = s[i].role /\ s[i].of \subseteq t[j].of
  BY DEF Holds
<1>3. QED
  BY <1>1, <1>2 DEF Holds

LEMMA HoldsConcat ==
    ASSUME NEW s \in Seq(Message), NEW t \in Seq(Message), NEW m, Holds(s, m) \/ Holds(t, m)
    PROVE  Holds(s \o t, m)
<1>1. PICK u : u = s \o t
  OBVIOUS
<1>2. /\ DOMAIN s = 1..Len(s) /\ DOMAIN t = 1..Len(t) /\ DOMAIN u = 1..(Len(s) + Len(t))
      /\ Len(s) \in Nat /\ Len(t) \in Nat
      /\ \A i \in 1..Len(s) : u[i] = s[i]
      /\ \A i \in 1..Len(t) : u[Len(s) + i] = t[i]
  BY <1>1, ConcatFacts
<1>3. \A i \in DOMAIN s : i \in DOMAIN u /\ u[i] = s[i]
  BY <1>2
<1>4. \A i \in DOMAIN t : Len(s) + i \in DOMAIN u /\ u[Len(s) + i] = t[i]
  BY <1>2
<1>5. Holds(u, m)
  BY <1>3, <1>4 DEF Holds
<1>6. QED
  BY <1>1, <1>5

-----------------------------------------------------------------------------
(* What trim, load and _save leave.                                        *)

LEMMA FromConcat ==
    ASSUME NEW S, NEW p \in Seq(S), NEW s \in Seq(S), NEW d \in 0..Len(s)
    PROVE  From(p \o s, Len(p) + d + 1) = From(s, d + 1)
<1>1. PICK u : u = p \o s
  OBVIOUS
<1>2. /\ u \in Seq(S) /\ Len(p) \in Nat /\ Len(s) \in Nat /\ Len(u) = Len(p) + Len(s)
      /\ \A i \in 1..Len(s) : u[Len(p) + i] = s[i]
  BY <1>1, ConcatFacts
<1>n. d \in Nat /\ d <= Len(s) /\ Len(p) + d \in 0..Len(u)
  BY <1>2
<1>3. PICK v, w : v = From(u, (Len(p) + d) + 1) /\ w = From(s, d + 1)
  OBVIOUS
<1>4. /\ v \in Seq(S) /\ Len(v) = Len(u) - (Len(p) + d)
      /\ \A i \in 1..(Len(u) - (Len(p) + d)) : v[i] = u[i + (Len(p) + d)]
  BY <1>2, <1>3, <1>n, FromFacts
<1>5. w \in Seq(S) /\ Len(w) = Len(s) - d /\ \A i \in 1..(Len(s) - d) : w[i] = s[i + d]
  BY <1>3, FromFacts
<1>6. Len(v) = Len(s) - d /\ Len(u) - (Len(p) + d) = Len(s) - d
  BY <1>2, <1>4, <1>n
<1>7. ASSUME NEW i \in 1..(Len(s) - d) PROVE v[i] = w[i]
  <2>1. i + d \in 1..Len(s) /\ i + (Len(p) + d) = Len(p) + (i + d)
    BY <1>2, <1>n
  <2>2. v[i] = u[i + (Len(p) + d)]
    BY <1>4, <1>6
  <2>3. QED
    BY <1>2, <1>5, <2>1, <2>2
<1>8. v = w
  <2>1. Len(v) = Len(w) /\ \A i \in 1..Len(v) : v[i] = w[i]
    BY <1>5, <1>6, <1>7
  <2>2. QED
    BY <1>4, <1>5, <2>1, SeqEqual
<1>9. QED
  BY <1>1, <1>3, <1>8

LEMMA TrimKeeps ==
    ASSUME NEW s \in Seq(Message), NEW cap \in Nat \ {0}
    PROVE  /\ Trim(s, cap) \in Seq(Message)
           /\ Paired(s) => Paired(Trim(s, cap))
<1>1. PICK d \in 0..Len(s) :
        /\ Trim(s, cap) = From(s, d + 1)
        /\ d = 0 \/ d = Len(s) \/ s[d + 1].role = "user"
  BY TrimFacts
<1>2. Trim(s, cap) \in Seq(Message)
  BY <1>1, FromFacts
<1>3. Paired(s) => Paired(Trim(s, cap))
  BY <1>1, PairedFrom
<1>4. QED
  BY <1>2, <1>3

LEMMA OpenedFacts ==
    ASSUME NEW r \in Row, r.start <= Len(r.history)
    PROVE  /\ Opened(r) \in Row /\ Opened(r).history = r.history
           /\ r.start <= Opened(r).start /\ Opened(r).start <= Len(r.history)
           /\ Live(Opened(r)) \in Seq(Message)
           /\ Paired(Live(r)) => Paired(Live(Opened(r)))
<1>1. r.history \in Seq(Message) /\ r.start \in 0..Len(r.history) /\ r.expired \in BOOLEAN
  BY DEF Row
<1>2. PICK s : s = Live(r)
  OBVIOUS
<1>3. s \in Seq(Message) /\ Len(s) = Len(r.history) - r.start /\ s = From(r.history, r.start + 1)
  BY <1>1, <1>2, FromFacts DEF Live
<1>n. Len(s) \in Nat
  BY <1>3
<1>4. CASE ~r.expired
  <2>1. Opened(r) = r
    BY <1>4 DEF Opened
  <2>2. r.start <= r.start /\ r.start <= Len(r.history)
    BY <1>1
  <2>3. Live(Opened(r)) = s
    BY <1>2, <2>1
  <2>4. QED
    BY <1>2, <1>3, <2>1, <2>2, <2>3
<1>5. CASE r.expired
  <2>1. ExpiryCarry \in Nat \ {0}
    BY SessionAssumption
  <2>2. PICK d \in 0..Len(s) : Trim(s, ExpiryCarry) = From(s, d + 1)
    BY <1>3, <2>1, TrimFacts
  <2>3. Len(Trim(s, ExpiryCarry)) = Len(s) - d
    BY <1>3, <2>2, FromFacts
  <2>4. PICK o : o = Opened(r)
    OBVIOUS
  <2>5. /\ o.history = r.history /\ o.start = Len(r.history) - Len(Trim(s, ExpiryCarry)) /\ o.expired = FALSE
        /\ o = [history |-> o.history, start |-> o.start, expired |-> FALSE]
    BY <1>2, <1>5, <2>4 DEF Opened, Row
  <2>6. o.start = r.start + d /\ o.start \in Nat /\ r.start <= o.start /\ o.start <= Len(r.history)
    <3>1. Len(r.history) \in Nat /\ r.start \in Nat /\ r.start <= Len(r.history) /\ d \in Nat /\ d <= Len(s)
      BY <1>1, <1>n
    <3>2. o.start = Len(r.history) - (Len(s) - d) /\ Len(s) = Len(r.history) - r.start
      BY <1>3, <2>3, <2>5
    <3>3. QED
      BY <3>1, <3>2
  <2>7. o \in Row
    BY <1>1, <2>5, <2>6 DEF Row
  <2>8. Live(o) = Trim(s, ExpiryCarry)
    <3>1. d \in 0..(Len(r.history) - r.start)
      BY <1>3
    <3>2. From(From(r.history, r.start + 1), d + 1) = From(r.history, r.start + d + 1)
      BY <1>1, <3>1, FromFrom
    <3>3. Live(o) = From(r.history, r.start + d + 1)
      BY <2>5, <2>6 DEF Live
    <3>4. QED
      BY <1>3, <2>2, <3>2, <3>3
  <2>9. /\ Trim(s, ExpiryCarry) \in Seq(Message)
        /\ Paired(s) => Paired(Trim(s, ExpiryCarry))
    BY <1>3, <2>1, TrimKeeps
  <2>10. QED
    BY <1>2, <2>4, <2>5, <2>6, <2>7, <2>8, <2>9
<1>6. QED
  BY <1>1, <1>4, <1>5

LEMMA SaveFacts ==
    ASSUME NEW r \in Row, r.start <= Len(r.history), NEW s \in Seq(Message)
    PROVE  /\ Save(r, s) \in Row /\ Save(r, s).start <= Len(Save(r, s).history)
           /\ Untruncated(r, s) \in Seq(Message)
           /\ Len(Untruncated(r, s)) = r.start + Len(s)
           /\ \E c \in 0..Len(Untruncated(r, s)) : Save(r, s).history = From(Untruncated(r, s), c + 1)
           /\ ~OverCap(Untruncated(r, s)) =>
                /\ Save(r, s).history = Untruncated(r, s)
                /\ r.start <= Save(r, s).start
           /\ ~OverCap(Untruncated(r, s)) \/ Len(Trim(s, HistoryCap)) <= ArchiveCap =>
                Live(Save(r, s)) = Trim(s, HistoryCap)
<1>1. r.history \in Seq(Message) /\ r.start \in 0..Len(r.history) /\ Len(r.history) \in Nat
  BY DEF Row
<1>2. ArchiveCap \in Nat /\ HistoryCap \in Nat \ {0}
  BY SessionAssumption
<1>3. PICK p, full : p = SubSeq(r.history, 1, r.start) /\ full = p \o s
  OBVIOUS
<1>4. p \in Seq(Message) /\ Len(p) = r.start
  BY <1>1, <1>3, PrefixFacts
<1>5. full \in Seq(Message) /\ Len(full) = r.start + Len(s) /\ full = Untruncated(r, s) /\ Len(s) \in Nat
  BY <1>3, <1>4, ConcatFacts DEF Untruncated
<1>6. PICK d \in 0..Len(s) : Trim(s, HistoryCap) = From(s, d + 1)
  BY <1>2, TrimFacts
<1>7. Len(Trim(s, HistoryCap)) = Len(s) - d
  BY <1>6, FromFacts
<1>8. PICK c : c = IF OverCap(full) THEN Len(full) - ArchiveCap ELSE 0
  OBVIOUS
<1>9. c \in 0..Len(full) /\ (OverCap(full) => Len(full) - c = ArchiveCap)
  BY <1>2, <1>5, <1>8 DEF OverCap
<1>10. PICK kept : kept = From(full, c + 1)
  OBVIOUS
<1>11. kept \in Seq(Message) /\ Len(kept) = Len(full) - c
  BY <1>5, <1>9, <1>10, FromFacts
<1>12. ~OverCap(full) => kept = full
  BY <1>5, <1>8, <1>10 DEF From
<1>13. kept = IF OverCap(full) THEN LastN(full, ArchiveCap) ELSE full
  BY <1>8, <1>10, <1>12 DEF LastN
<1>14. PICK live, a : live = Len(s) - d /\ a = Save(r, s)
  OBVIOUS
<1>15. a = [history |-> kept, start |-> IF Len(kept) > live THEN Len(kept) - live ELSE 0, expired |-> FALSE]
  BY <1>5, <1>7, <1>13, <1>14 DEF Save
<1>16. live \in Nat /\ Len(kept) \in Nat /\ Len(full) \in Nat /\ c \in Nat /\ d \in Nat /\ live + d = Len(s)
  BY <1>5, <1>9, <1>11, <1>14
<1>17. a \in Row /\ a.start <= Len(a.history) /\ a.history = kept
  BY <1>11, <1>15, <1>16 DEF Row
<1>18. ASSUME ~OverCap(full) \/ live <= ArchiveCap
       PROVE  Live(a) = Trim(s, HistoryCap)
  <2>1. live <= Len(kept)
    BY <1>1, <1>5, <1>8, <1>9, <1>11, <1>16, <1>18
  <2>2. a.start = Len(kept) - live /\ a.start \in 0..(Len(full) - c) /\ c + a.start = r.start + d
    <3>1. a.start = Len(kept) - live
      BY <1>15, <1>16, <2>1
    <3>2. r.start \in Nat /\ Len(kept) = Len(full) - c /\ Len(full) = r.start + Len(s)
      BY <1>1, <1>5, <1>11
    <3>3. c + a.start = r.start + d
      <4>1. live \in Nat /\ Len(kept) \in Nat /\ c \in Nat /\ d \in Nat /\ Len(s) = live + d /\ Len(s) \in Nat
        BY <1>5, <1>16
      <4>2. c + (Len(kept) - live) = r.start + d
        BY <3>2, <4>1, SMTT(60)
      <4>3. QED
        BY <3>1, <4>2
    <3>4. a.start \in 0..Len(kept)
      BY <1>16, <2>1, <3>1
    <3>5. QED
      BY <3>1, <3>2, <3>3, <3>4
  <2>3. Live(a) = From(From(full, c + 1), a.start + 1)
    BY <1>10, <1>17 DEF Live
  <2>4. From(From(full, c + 1), a.start + 1) = From(full, c + a.start + 1)
    BY <1>5, <1>9, <2>2, FromFrom
  <2>5. From(p \o s, Len(p) + d + 1) = From(s, d + 1)
    BY <1>4, FromConcat
  <2>6. QED
    BY <1>3, <1>4, <1>6, <2>2, <2>3, <2>4, <2>5
<1>19. ~OverCap(full) => r.start <= a.start
  <2>1. ASSUME ~OverCap(full) PROVE r.start <= a.start
    <3>1. Len(kept) = r.start + Len(s)
      BY <1>5, <1>12, <2>1
    <3>2. a.start >= Len(kept) - live
      BY <1>15, <1>16
    <3>3. QED
      BY <1>1, <1>16, <1>17, <3>1, <3>2 DEF Row
  <2>2. QED
    BY <2>1
<1>20. QED
  BY <1>5, <1>7, <1>9, <1>10, <1>12, <1>14, <1>17, <1>18, <1>19

-----------------------------------------------------------------------------
(* append: what is written to a row that holds h.                          *)

\* The context with m, and the whole list, before either is cut.
Context(r, m, ids) == DropProvisional(Live(Opened(r)), ids) \o <<m>>
Whole(r, m, ids) == Untruncated(Opened(r), Context(r, m, ids))

LEMMA AppendToFacts ==
    ASSUME NEW r \in Row, r.start <= Len(r.history), NEW m \in Message, NEW ids
    PROVE  /\ AppendTo(r, <<m>>, ids) \in Row
           /\ AppendTo(r, <<m>>, ids).start <= Len(AppendTo(r, <<m>>, ids).history)
           /\ Context(r, m, ids) \in Seq(Message) /\ Whole(r, m, ids) \in Seq(Message)
           /\ \E c \in 0..Len(Whole(r, m, ids)) :
                AppendTo(r, <<m>>, ids).history = From(Whole(r, m, ids), c + 1)
           /\ ~OverCap(Whole(r, m, ids)) =>
                /\ AppendTo(r, <<m>>, ids).history = Whole(r, m, ids)
                /\ r.start <= AppendTo(r, <<m>>, ids).start
           /\ ~OverCap(Whole(r, m, ids)) \/ Len(Trim(Context(r, m, ids), HistoryCap)) <= ArchiveCap =>
                Live(AppendTo(r, <<m>>, ids)) = Trim(Context(r, m, ids), HistoryCap)
<1>1. PICK o, s, full, a : /\ o = Opened(r) /\ s = Context(r, m, ids) /\ full = Whole(r, m, ids)
                           /\ a = AppendTo(r, <<m>>, ids)
  OBVIOUS
<1>2. /\ o \in Row /\ o.history = r.history /\ r.start <= o.start /\ o.start <= Len(o.history)
      /\ Live(o) \in Seq(Message)
  BY <1>1, OpenedFacts
<1>3. DropProvisional(Live(o), ids) \in Seq(Message)
  BY <1>2, DropFacts
<1>4. s \in Seq(Message)
  BY <1>1, <1>3 DEF Context
<1>5. a = Save(o, s) /\ full = Untruncated(o, s)
  BY <1>1 DEF AppendTo, Context, Whole
<1>6. /\ a \in Row /\ a.start <= Len(a.history)
      /\ full \in Seq(Message)
      /\ \E c \in 0..Len(full) : a.history = From(full, c + 1)
      /\ ~OverCap(full) => a.history = full /\ o.start <= a.start
      /\ ~OverCap(full) \/ Len(Trim(s, HistoryCap)) <= ArchiveCap =>
           Live(a) = Trim(s, HistoryCap)
  <2>1. o.start <= Len(o.history)
    BY <1>2
  <2>2. /\ Save(o, s) \in Row /\ Save(o, s).start <= Len(Save(o, s).history)
        /\ Untruncated(o, s) \in Seq(Message)
        /\ \E c \in 0..Len(Untruncated(o, s)) : Save(o, s).history = From(Untruncated(o, s), c + 1)
        /\ ~OverCap(Untruncated(o, s)) => Save(o, s).history = Untruncated(o, s) /\ o.start <= Save(o, s).start
        /\ ~OverCap(Untruncated(o, s)) \/ Len(Trim(s, HistoryCap)) <= ArchiveCap =>
             Live(Save(o, s)) = Trim(s, HistoryCap)
    BY <1>2, <1>4, <2>1, SaveFacts
  <2>3. QED
    BY <1>5, <2>2
<1>7. ~OverCap(full) => r.start <= a.start
  <2>1. r.start \in Nat /\ o.start \in Nat /\ a.start \in Nat
    BY <1>2, <1>6 DEF Row
  <2>2. QED
    BY <1>2, <1>6, <2>1
<1>8. QED
  BY <1>1, <1>4, <1>6, <1>7

\* What the list holds before the cap.
LEMMA AppendHolds ==
    ASSUME NEW r \in Row, r.start <= Len(r.history), NEW m \in Message, NEW ids,
           NEW full, full = Whole(r, m, ids)
    PROVE  /\ Arrived(r.history) /\ (m.provisional => m.of # {}) => Arrived(full)
           /\ Holds(full, m)
           /\ \A i \in DOMAIN r.history : \/ Holds(full, r.history[i])
                                          \/ r.history[i].role = "user" /\ r.history[i].of \subseteq ids
           /\ Arrived(r.history) /\ ids = {} => full = r.history \o <<m>>
<1>1. PICK o : o = Opened(r)
  OBVIOUS
<1>2. /\ o \in Row /\ o.history = r.history /\ o.start <= Len(r.history)
      /\ Live(o) \in Seq(Message)
  BY <1>1, OpenedFacts
<1>3. r.history \in Seq(Message) /\ o.start \in 0..Len(r.history)
  BY <1>2 DEF Row
<1>4. PICK p, t, k : p = SubSeq(r.history, 1, o.start) /\ t = Live(o) /\ k = DropProvisional(t, ids)
  OBVIOUS
<1>5. p \in Seq(Message) /\ t \in Seq(Message) /\ t = From(r.history, o.start + 1)
  <2>1. p \in Seq(Message)
    BY <1>3, <1>4, PrefixFacts
  <2>2. QED
    BY <1>2, <1>4, <2>1 DEF Live
<1>6. k \in Seq(Message) /\ (Arrived(t) => Arrived(k))
      /\ \A i \in DOMAIN t : Holds(k, t[i]) \/ (t[i].role = "user" /\ t[i].of \subseteq ids)
  <2>1. /\ DropProvisional(t, ids) \in Seq(Message)
        /\ Arrived(t) => Arrived(DropProvisional(t, ids))
        /\ \A i \in DOMAIN t : \/ Holds(DropProvisional(t, ids), t[i])
                               \/ t[i].role = "user" /\ t[i].of \subseteq ids
    BY <1>5, DropFacts
  <2>2. k = DropProvisional(t, ids)
    BY <1>4
  <2>3. QED
    BY <2>1, <2>2
<1>7. <<m>> \in Seq(Message) /\ Holds(<<m>>, m) /\ ((m.provisional => m.of # {}) => Arrived(<<m>>))
  BY DEF Holds, Arrived
<1>8. k \o <<m>> \in Seq(Message) /\ full = p \o (k \o <<m>>)
  BY <1>1, <1>2, <1>4, <1>6, <1>7 DEF Untruncated, Context, Whole
<1>9. p \o t = r.history
  BY <1>3, <1>4, <1>5, CutAndJoined
<1>10. ASSUME Arrived(r.history), m.provisional => m.of # {} PROVE Arrived(full)
  <2>1. Arrived(p) /\ Arrived(k)
    BY <1>3, <1>4, <1>5, <1>6, <1>10, ArrivedPrefix, ArrivedFrom
  <2>2. Arrived(k \o <<m>>)
    BY <1>6, <1>7, <1>10, <2>1, ArrivedConcat
  <2>3. QED
    BY <1>5, <1>8, <2>1, <2>2, ArrivedConcat
<1>11. \A x : Holds(p, x) \/ Holds(k, x) \/ Holds(<<m>>, x) => Holds(full, x)
  BY <1>5, <1>6, <1>7, <1>8, HoldsConcat
<1>12. ASSUME NEW i \in DOMAIN r.history
       PROVE  Holds(full, r.history[i]) \/ (r.history[i].role = "user" /\ r.history[i].of \subseteq ids)
  <2>1. PICK x : x = r.history[i]
    OBVIOUS
  <2>2. CASE i <= o.start
    <3>1. i \in DOMAIN p /\ p[i] = x
      <4>1. Len(p) = o.start /\ \A j \in 1..o.start : p[j] = r.history[j]
        BY <1>3, <1>4, PrefixFacts
      <4>2. i \in 1..o.start /\ DOMAIN p = 1..o.start
        BY <1>3, <1>5, <2>2, <4>1
      <4>3. QED
        BY <2>1, <4>1, <4>2
    <3>2. Holds(p, x)
      BY <3>1, HoldsIts
    <3>3. QED
      BY <1>11, <2>1, <3>2
  <2>3. CASE o.start < i
    <3>1. i - o.start \in DOMAIN t /\ t[i - o.start] = x
      <4>1. Len(t) = Len(r.history) - o.start /\ \A j \in 1..(Len(r.history) - o.start) : t[j] = r.history[j + o.start]
        BY <1>3, <1>5, FromFacts
      <4>2. o.start \in Nat /\ Len(r.history) \in Nat /\ i \in 1..Len(r.history)
        BY <1>3
      <4>3. i - o.start \in 1..(Len(r.history) - o.start) /\ (i - o.start) + o.start = i
        BY <2>3, <4>2
      <4>4. DOMAIN t = 1..(Len(r.history) - o.start)
        BY <1>5, <4>1
      <4>5. QED
        BY <2>1, <4>1, <4>3, <4>4
    <3>2. Holds(k, x) \/ (x.role = "user" /\ x.of \subseteq ids)
      BY <1>6, <3>1
    <3>3. Holds(full, x) \/ (x.role = "user" /\ x.of \subseteq ids)
      BY <1>11, <3>2
    <3>4. QED
      BY <2>1, <3>3
  <2>4. QED
    BY <1>3, <2>2, <2>3
<1>13. ASSUME Arrived(r.history), ids = {} PROVE full = r.history \o <<m>>
  <2>1. Arrived(t)
    BY <1>3, <1>5, <1>13, ArrivedFrom
  <2>2. k = t
    BY <1>4, <1>5, <1>13, <2>1, DropNothing
  <2>3. p \o (t \o <<m>>) = (p \o t) \o <<m>>
    BY <1>5, <1>7, ConcatAssociative
  <2>4. QED
    BY <1>8, <1>9, <2>2, <2>3
<1>14. QED
  BY <1>7, <1>10, <1>11, <1>12, <1>13

\* The pairs of a row stay whole when a message without tools is appended, while
\* the archive has room for what the model is sent.
LEMMA AppendPairs ==
    ASSUME NEW r \in Row, r.start <= Len(r.history), NEW m \in Message, NEW ids,
           NEW a, a = AppendTo(r, <<m>>, ids),
           Paired(Live(r)), m.role \notin {"call", "results"},
           ~OverCap(Trim(Context(r, m, ids), HistoryCap))
    PROVE  Paired(Live(a))
<1>1. PICK t, k, s, full : /\ t = Live(Opened(r)) /\ k = DropProvisional(t, ids)
                           /\ s = Context(r, m, ids) /\ full = Whole(r, m, ids)
  OBVIOUS
<1>2. t \in Seq(Message) /\ Paired(t)
  BY <1>1, OpenedFacts
<1>3. k \in Seq(Message) /\ Paired(k)
  BY <1>1, <1>2, DropFacts
<1>4. <<m>> \in Seq(Message) /\ Paired(<<m>>)
  <2>1. <<m>> \in Seq(Message) /\ \A i \in DOMAIN <<m>> : <<m>>[i].role \notin {"call", "results"}
    OBVIOUS
  <2>2. QED
    BY <2>1, PairedPlain
<1>5. s \in Seq(Message) /\ Paired(s)
  <2>1. k \o <<m>> \in Seq(Message)
    BY <1>3, <1>4
  <2>2. Paired(k \o <<m>>)
    BY <1>3, <1>4, PairedConcat
  <2>3. QED
    BY <1>1, <2>1, <2>2 DEF Context
<1>6. PICK x : x = Trim(s, HistoryCap)
  OBVIOUS
<1>7. HistoryCap \in Nat \ {0} /\ ArchiveCap \in Nat
  BY SessionAssumption
<1>8. x \in Seq(Message) /\ Paired(x)
  BY <1>5, <1>6, <1>7, TrimKeeps
<1>9. ~OverCap(full) \/ Len(x) <= ArchiveCap
  <2>1. ~OverCap(x) /\ Len(x) \in Nat
    BY <1>1, <1>6, <1>8
  <2>2. QED
    BY <1>7, <2>1 DEF OverCap
<1>10. Live(a) = x
  <2>1. ~OverCap(full) \/ Len(Trim(s, HistoryCap)) <= ArchiveCap => Live(a) = Trim(s, HistoryCap)
    BY <1>1, AppendToFacts
  <2>2. QED
    BY <1>6, <1>9, <2>1
<1>11. QED
  BY <1>8, <1>10

-----------------------------------------------------------------------------
(* _merge_interleaved.                                                     *)

\* What is folded in.
Extra(s, stored, since) == {i \in DOMAIN stored : i > since /\ stored[i] \notin Range(s)}

FoldedInAt(s, stored, since, cut) ==
    /\ cut \in 0..Len(s)
    /\ cut = Len(s) \/ (cut + 1 = Len(s) /\ s[cut + 1].role \in {"reply", "push"})
    /\ MergeInterleaved(s, stored, since) =
         (SubSeq(s, 1, cut) \o Subsequence(stored, Extra(s, stored, since))) \o From(s, cut + 1)

LEMMA MergeForm ==
    ASSUME NEW s \in Seq(Message), NEW stored \in Seq(Message), NEW since
    PROVE  \E cut : FoldedInAt(s, stored, since, cut)
<1>1. PICK x, cut : /\ x = Subsequence(stored, Extra(s, stored, since))
                    /\ cut = IF s # <<>> /\ s[Len(s)].role \in {"reply", "push"} THEN Len(s) - 1 ELSE Len(s)
  OBVIOUS
<1>2. /\ cut \in 0..Len(s)
      /\ cut = Len(s) \/ (cut + 1 = Len(s) /\ s[cut + 1].role \in {"reply", "push"})
  <2>1. CASE s # <<>> /\ s[Len(s)].role \in {"reply", "push"}
    <3>1. cut = Len(s) - 1 /\ Len(s) \in Nat /\ Len(s) # 0
      BY <1>1, <2>1
    <3>2. cut \in 0..Len(s) /\ cut + 1 = Len(s)
      BY <3>1
    <3>3. QED
      BY <2>1, <3>2
  <2>2. CASE ~(s # <<>> /\ s[Len(s)].role \in {"reply", "push"})
    BY <1>1, <2>2
  <2>3. QED
    BY <2>1, <2>2
<1>3. x \in Seq(Message)
  <2>1. Extra(s, stored, since) \in SUBSET DOMAIN stored
    BY DEF Extra
  <2>2. QED
    BY <1>1, <2>1, SubsequenceFacts
<1>4. MergeInterleaved(s, stored, since) =
        IF x = <<>> THEN s ELSE (SubSeq(s, 1, cut) \o x) \o From(s, cut + 1)
  BY <1>1 DEF MergeInterleaved, Extra
<1>5. CASE x = <<>>
  <2>1. SubSeq(s, 1, cut) \in Seq(Message)
    BY <1>2, PrefixFacts
  <2>2. SubSeq(s, 1, cut) \o x = SubSeq(s, 1, cut)
    BY <1>5, <2>1, ConcatEmptySeq
  <2>3. SubSeq(s, 1, cut) \o From(s, cut + 1) = s
    BY <1>2, CutAndJoined, SMTT(60)
  <2>4. QED
    BY <1>1, <1>2, <1>4, <1>5, <2>2, <2>3 DEF FoldedInAt
<1>6. CASE x # <<>>
  BY <1>1, <1>2, <1>4, <1>6 DEF FoldedInAt
<1>7. QED
  BY <1>5, <1>6

\* Nothing of the turn's and nothing that was written since it read the row is left out.
LEMMA MergeKeeps ==
    ASSUME NEW s \in Seq(Message), NEW stored \in Seq(Message), NEW since
    PROVE  /\ MergeInterleaved(s, stored, since) \in Seq(Message)
           /\ Arrived(s) /\ Arrived(stored) => Arrived(MergeInterleaved(s, stored, since))
           /\ \A i \in DOMAIN s : Holds(MergeInterleaved(s, stored, since), s[i])
           /\ \A i \in DOMAIN stored : i > since => Holds(MergeInterleaved(s, stored, since), stored[i])
<1>0. PICK cut : FoldedInAt(s, stored, since, cut)
  BY MergeForm
<1>1. /\ cut \in 0..Len(s)
      /\ MergeInterleaved(s, stored, since) =
           (SubSeq(s, 1, cut) \o Subsequence(stored, Extra(s, stored, since))) \o From(s, cut + 1)
  BY <1>0 DEF FoldedInAt
<1>2. PICK K, x, p, q, u :
        /\ K = Extra(s, stored, since) /\ x = Subsequence(stored, K)
        /\ p = SubSeq(s, 1, cut) /\ q = From(s, cut + 1) /\ u = MergeInterleaved(s, stored, since)
  OBVIOUS
<1>3. K \in SUBSET DOMAIN stored
  BY <1>2 DEF Extra
<1>4. p \in Seq(Message) /\ q \in Seq(Message) /\ p \o q = s
  BY <1>1, <1>2, PrefixFacts, FromFacts, CutAndJoined
<1>5. x \in Seq(Message) /\ (Arrived(stored) => Arrived(x))
  BY <1>2, <1>3, SubsequenceFacts, ArrivedSubsequence
<1>6. u = (p \o x) \o q /\ p \o x \in Seq(Message) /\ u \in Seq(Message)
  BY <1>1, <1>2, <1>4, <1>5
<1>7. ASSUME Arrived(s), Arrived(stored) PROVE Arrived(u)
  <2>1. Arrived(p) /\ Arrived(q)
    BY <1>1, <1>2, <1>7, ArrivedPrefix, ArrivedFrom
  <2>2. Arrived(p \o x)
    BY <1>4, <1>5, <1>7, <2>1, ArrivedConcat
  <2>3. QED
    BY <1>4, <1>6, <2>1, <2>2, ArrivedConcat
<1>8. \A m : Holds(p, m) \/ Holds(x, m) \/ Holds(q, m) => Holds(u, m)
  BY <1>4, <1>5, <1>6, HoldsConcat
<1>9. ASSUME NEW i \in DOMAIN s PROVE Holds(u, s[i])
  <2>1. /\ DOMAIN p = 1..Len(p) /\ DOMAIN q = 1..Len(q) /\ DOMAIN s = 1..(Len(p) + Len(q))
        /\ \A j \in 1..Len(p) : s[j] = p[j]
        /\ \A j \in 1..Len(q) : s[Len(p) + j] = q[j]
        /\ \A j \in 1..(Len(p) + Len(q)) : j \in 1..Len(p) \/ \E n \in 1..Len(q) : j = Len(p) + n
    <3>1. /\ DOMAIN p = 1..Len(p) /\ DOMAIN q = 1..Len(q) /\ DOMAIN (p \o q) = 1..(Len(p) + Len(q))
          /\ \A j \in 1..Len(p) : (p \o q)[j] = p[j]
          /\ \A j \in 1..Len(q) : (p \o q)[Len(p) + j] = q[j]
          /\ \A j \in 1..(Len(p) + Len(q)) : j \in 1..Len(p) \/ \E n \in 1..Len(q) : j = Len(p) + n
      BY <1>4, ConcatFacts
    <3>2. QED
      BY <1>4, <3>1
  <2>2. CASE i \in 1..Len(p)
    <3>1. Holds(p, p[i])
      BY <2>1, <2>2, HoldsIts
    <3>2. QED
      BY <1>8, <2>1, <2>2, <3>1
  <2>3. ASSUME NEW n \in 1..Len(q), i = Len(p) + n PROVE Holds(u, s[i])
    <3>1. Holds(q, q[n])
      BY <2>1, HoldsIts
    <3>2. QED
      BY <1>8, <2>1, <2>3, <3>1
  <2>4. QED
    BY <2>1, <2>2, <2>3
<1>10. ASSUME NEW i \in DOMAIN stored, i > since PROVE Holds(u, stored[i])
  <2>1. CASE stored[i] \in Range(s)
    <3>1. PICK j \in DOMAIN s : s[j] = stored[i]
      BY <2>1 DEF Range
    <3>2. QED
      BY <1>9, <3>1
  <2>2. CASE stored[i] \notin Range(s)
    <3>1. i \in K
      BY <1>2, <1>10, <2>2 DEF Extra
    <3>2. Cardinality(K) \in Nat /\ Len(x) = Cardinality(K)
      BY <1>2, <1>3, SubsequenceFacts
    <3>a. \E e \in [1..Cardinality(K) -> K] :
             /\ \A k \in K : \E n \in 1..Cardinality(K) : e[n] = k
             /\ \A n \in 1..Cardinality(K) : Subsequence(stored, K)[n] = stored[e[n]]
      BY <1>3, SubsequenceFacts, ZenonT(60)
    <3>3. PICK n \in 1..Cardinality(K) : x[n] = stored[i]
      BY <1>2, <3>1, <3>a
    <3>4. n \in DOMAIN x
      BY <1>5, <3>2
    <3>5. Holds(x, stored[i])
      BY <3>3, <3>4, HoldsIts
    <3>6. QED
      BY <1>8, <3>5
  <2>3. QED
    BY <2>1, <2>2
<1>11. QED
  BY <1>2, <1>6, <1>7, <1>9, <1>10

\* A list cut where the next message is no result has its pairs whole.
LEMMA PairedPrefix ==
    ASSUME NEW s \in Seq(Message), Paired(s), NEW n \in 0..Len(s),
           n = Len(s) \/ s[n + 1].role # "results"
    PROVE  Paired(SubSeq(s, 1, n))
<1>1. PICK p : p = SubSeq(s, 1, n)
  OBVIOUS
<1>2. p \in Seq(Message) /\ Len(p) = n /\ \A i \in 1..n : p[i] = s[i]
  BY <1>1, PrefixFacts
<1>3. DOMAIN p = 1..n /\ DOMAIN s = 1..Len(s) /\ Len(s) \in Nat /\ n \in Nat /\ n <= Len(s)
  BY <1>2
<1>n. Len(s) \in Nat /\ n \in Nat /\ n <= Len(s)
  BY <1>3
<1>4. ASSUME NEW i \in 1..n, p[i].role = "results"
      PROVE  i > 1 /\ p[i - 1] = Say("call", p[i].of)
  <2>1. p[i] = s[i] /\ i \in DOMAIN s
    <3>1. p[i] = s[i]
      BY <1>2
    <3>2. i \in 1..Len(s)
      BY <1>n
    <3>3. i \in DOMAIN s
      BY <3>2
    <3>4. QED
      BY <3>1, <3>3
  <2>2. i > 1 /\ s[i - 1] = Say("call", s[i].of)
    BY <1>4, <2>1 DEF Paired
  <2>3. i - 1 \in 1..n
    BY <1>n, <2>2
  <2>4. QED
    BY <1>2, <2>1, <2>2, <2>3
<1>5. ASSUME NEW i \in 1..n, p[i].role = "call"
      PROVE  i < n /\ p[i + 1] = Say("results", p[i].of)
  <2>1. p[i] = s[i] /\ i \in DOMAIN s
    BY <1>2, <1>3
  <2>2. i < Len(s) /\ s[i + 1] = Say("results", s[i].of)
    BY <1>5, <2>1 DEF Paired
  <2>3. s[i + 1].role = "results"
    BY <2>2 DEF Say
  <2>4. i # n
    BY <2>2, <2>3
  <2>5. i < n /\ i + 1 \in 1..n
    BY <1>n, <2>4
  <2>6. QED
    BY <1>2, <2>1, <2>2, <2>5
<1>6. QED
  BY <1>1, <1>2, <1>3, <1>4, <1>5, ZenonT(60) DEF Paired

LEMMA SubsequenceFrom ==
    ASSUME NEW S, NEW s \in Seq(S), NEW K \in SUBSET DOMAIN s
    PROVE  \A n \in DOMAIN Subsequence(s, K) : \E i \in K : Subsequence(s, K)[n] = s[i]
<1>1. PICK c, x : c = Cardinality(K) /\ x = Subsequence(s, K)
  OBVIOUS
<1>2. /\ c \in Nat /\ x \in Seq(S) /\ Len(x) = c
      /\ \E e \in [1..c -> K] :
           /\ \A m, n \in 1..c : m < n => e[m] < e[n]
           /\ \A i \in K : \E n \in 1..c : e[n] = i
           /\ \A n \in 1..c : x[n] = s[e[n]]
  BY <1>1, SubsequenceFacts
<1>3. PICK e \in [1..c -> K] : \A n \in 1..c : x[n] = s[e[n]]
  BY <1>2
<1>4. DOMAIN x = 1..c
  BY <1>2
<1>5. QED
  BY <1>1, <1>3, <1>4

LEMMA MergePairs ==
    ASSUME NEW s \in Seq(Message), NEW stored \in Seq(Message), NEW since, Paired(s),
           \A i \in DOMAIN stored : i > since => stored[i].role \in {"user", "push"}
    PROVE  Paired(MergeInterleaved(s, stored, since))
<1>0. PICK cut : FoldedInAt(s, stored, since, cut)
  BY MergeForm
<1>1. /\ cut \in 0..Len(s)
      /\ cut = Len(s) \/ (cut + 1 = Len(s) /\ s[cut + 1].role \in {"reply", "push"})
      /\ MergeInterleaved(s, stored, since) =
           (SubSeq(s, 1, cut) \o Subsequence(stored, Extra(s, stored, since))) \o From(s, cut + 1)
  BY <1>0 DEF FoldedInAt
<1>2. PICK K, x, p, q :
        /\ K = Extra(s, stored, since) /\ x = Subsequence(stored, K)
        /\ p = SubSeq(s, 1, cut) /\ q = From(s, cut + 1)
  OBVIOUS
<1>3. K \in SUBSET DOMAIN stored
  BY <1>2 DEF Extra
<1>a. \A i \in K : stored[i].role \in {"user", "push"}
  BY <1>2 DEF Extra
<1>4. x \in Seq(Message) /\ Paired(x)
  <2>1. x \in Seq(Message)
    BY <1>2, <1>3, SubsequenceFacts
  <2>2. \A n \in DOMAIN x : \E i \in K : x[n] = stored[i]
    BY <1>2, <1>3, SubsequenceFrom
  <2>3. \A n \in DOMAIN x : x[n].role \notin {"call", "results"}
    BY <1>a, <2>2
  <2>4. QED
    BY <2>1, <2>3, PairedPlain
<1>5. p \in Seq(Message) /\ Paired(p)
  <2>1. cut = Len(s) \/ s[cut + 1].role # "results"
    BY <1>1
  <2>2. QED
    BY <1>1, <1>2, <2>1, PrefixFacts, PairedPrefix
<1>6. q \in Seq(Message) /\ Paired(q)
  <2>1. q \in Seq(Message) /\ Len(q) = Len(s) - cut /\ \A i \in 1..(Len(s) - cut) : q[i] = s[i + cut]
    BY <1>1, <1>2, FromFacts
  <2>2. \A i \in DOMAIN q : q[i].role \notin {"call", "results"}
    <3>1. CASE cut = Len(s)
      BY <2>1, <3>1
    <3>2. CASE cut + 1 = Len(s) /\ s[cut + 1].role \in {"reply", "push"}
      <4>1. Len(s) - cut = 1 /\ 1 + cut = cut + 1
        BY <1>1, <3>2
      <4>b. Len(q) = 1
        BY <2>1, <4>1
      <4>2. q[1] = s[cut + 1]
        BY <2>1, <4>1
      <4>a. DOMAIN q = 1..1
        <5>1. DOMAIN q = 1..Len(q)
          BY <2>1
        <5>2. QED
          BY <4>b, <5>1
      <4>3. QED
        BY <3>2, <4>2, <4>a
    <3>3. QED
      BY <1>1, <3>1, <3>2
  <2>3. QED
    BY <2>1, <2>2, PairedPlain
<1>7. p \o x \in Seq(Message) /\ Paired(p \o x)
  <2>1. p \o x \in Seq(Message)
    BY <1>4, <1>5
  <2>2. QED
    BY <1>4, <1>5, <2>1, PairedConcat
<1>8. Paired((p \o x) \o q)
  BY <1>6, <1>7, PairedConcat
<1>9. QED
  BY <1>1, <1>2, <1>8

\* What is appended to a list, whose oldest messages the cap may drop.
LEMMA AppendRoles ==
    ASSUME NEW h \in Seq(Message), NEW m \in Message, NEW since \in Nat, NEW c \in 0..(Len(h) + 1),
           NEW k, k = From(h \o <<m>>, c + 1)
    PROVE  \A i \in DOMAIN k : i > since =>
             k[i].role = m.role \/ \E j \in DOMAIN h : j > since /\ k[i].role = h[j].role
<1>1. PICK full : full = h \o <<m>>
  OBVIOUS
<1>2. /\ full \in Seq(Message) /\ Len(h) \in Nat
      /\ DOMAIN h = 1..Len(h) /\ DOMAIN full = 1..(Len(h) + 1) /\ Len(full) = Len(h) + 1
      /\ \A i \in 1..Len(h) : full[i] = h[i]
      /\ full[Len(h) + 1] = m
  BY <1>1
<1>n. Len(h) \in Nat /\ c \in Nat /\ c <= Len(h) + 1 /\ c \in 0..Len(full)
  BY <1>2
<1>3. k \in Seq(Message) /\ Len(k) = Len(full) - c /\ \A i \in 1..(Len(full) - c) : k[i] = full[i + c]
  BY <1>1, <1>2, <1>n, FromFacts, ZenonT(60)
<1>4. DOMAIN k = 1..(Len(h) + 1 - c)
  BY <1>2, <1>3
<1>5. ASSUME NEW i \in DOMAIN k, i > since
      PROVE  /\ i + c \in 1..(Len(h) + 1) /\ i + c > since /\ k[i] = full[i + c] /\ i \in Nat
             /\ i + c = Len(h) + 1 \/ i + c \in 1..Len(h)
  <2>1. i \in 1..(Len(h) + 1 - c)
    BY <1>4
  <2>2. i \in Nat /\ i + c \in 1..(Len(h) + 1) /\ i + c > since /\ (i + c = Len(h) + 1 \/ i + c \in 1..Len(h))
    BY <1>5, <1>n, <2>1
  <2>3. k[i] = full[i + c]
    BY <1>2, <1>3, <2>1
  <2>4. QED
    BY <2>2, <2>3
<1>6. ASSUME NEW i \in DOMAIN k, i > since
      PROVE  k[i].role = m.role \/ \E j \in DOMAIN h : j > since /\ k[i].role = h[j].role
  <2>1. CASE i + c = Len(h) + 1
    BY <1>2, <1>5, <1>6, <2>1
  <2>2. CASE i + c \in 1..Len(h)
    BY <1>2, <1>5, <1>6, <2>2
  <2>3. QED
    BY <1>5, <1>6, <2>1, <2>2
<1>7. QED
  BY <1>6

-----------------------------------------------------------------------------
(* Type correctness of the transcript.                                     *)

\* Whoever has read the row has one whose context starts inside its history.
ReadsSound == \A w \in Writers : reads[w] # NoRow => reads[w].start <= Len(reads[w].history)

TypeInv == SessionTypeOK /\ ReadsSound

LEMMA SayType ==
    ASSUME NEW role \in Roles, NEW of \in SUBSET (Inbound \cup Pushes)
    PROVE  /\ Say(role, of) \in Message /\ Say(role, of).role = role /\ Say(role, of).of = of
           /\ Say(role, of).provisional = FALSE
BY DEF Say, Message

LEMMA OnArrivalType ==
    ASSUME NEW i \in Inbound
    PROVE  OnArrival(i) \in Message /\ OnArrival(i).role = "user" /\ OnArrival(i).of = {i}
<1>1. "user" \in Roles /\ {i} \in SUBSET (Inbound \cup Pushes)
  BY DEF Roles
<1>2. Say("user", {i}) \in Message /\ Say("user", {i}).role = "user" /\ Say("user", {i}).of = {i}
  BY <1>1, SayType
<1>3. QED
  BY <1>2 DEF OnArrival, Message

LEMMA NoRowType == NoRow \in Row
BY DEF NoRow, Row

LEMMA LiveType ==
    ASSUME NEW r \in Row, r.start <= Len(r.history)
    PROVE  /\ Live(r) \in Seq(Message)
           /\ r.history \in Seq(Message) /\ r.start \in 0..Len(r.history)
<1>1. r.history \in Seq(Message) /\ r.start \in 0..Len(r.history)
  BY DEF Row
<1>2. QED
  BY <1>1, FromFacts DEF Live

LEMMA SelectTypes ==
    ASSUME TypeInv, NEW w \in Writers, Select(w)
    PROVE  reads' \in [Writers -> Row] /\ ReadsSound'
<1>1. reads \in [Writers -> Row] /\ row \in Row /\ row.start <= Len(row.history)
  BY DEF TypeInv, SessionTypeOK
<1>2. reads' = [reads EXCEPT ![w] = row]
  BY DEF Select
<1>3. \A v \in Writers : reads'[v] = row \/ reads'[v] = reads[v]
  BY <1>1, <1>2
<1>4. ReadsSound'
  BY <1>1, <1>3 DEF TypeInv, ReadsSound, Writers
<1>5. QED
  BY <1>1, <1>2, <1>4

LEMMA ReleaseTypes ==
    ASSUME TypeInv, NEW w \in Writers, reads' = [reads EXCEPT ![w] = NoRow]
    PROVE  reads' \in [Writers -> Row] /\ ReadsSound'
<1>1. reads \in [Writers -> Row]
  BY DEF TypeInv, SessionTypeOK
<1>2. \A v \in Writers : reads'[v] = NoRow \/ reads'[v] = reads[v]
  BY <1>1
<1>3. ReadsSound'
  BY <1>2 DEF TypeInv, ReadsSound, Writers
<1>4. QED
  BY <1>1, <1>3, NoRowType

LEMMA AppendedTypes ==
    ASSUME TypeInv, NEW w \in Writers, NEW m \in Message, NEW ids, Appended(w, <<m>>, ids)
    PROVE  /\ row' \in Row /\ row'.start <= Len(row'.history)
           /\ reads' \in [Writers -> Row] /\ ReadsSound'
           /\ capped' \in BOOLEAN /\ clipped' \in BOOLEAN /\ raced' \in BOOLEAN
           /\ reads[w] # NoRow
<1>1. /\ reads[w] # NoRow /\ row' = AppendTo(reads[w], <<m>>, ids)
      /\ reads' = [reads EXCEPT ![w] = NoRow]
      /\ capped' \in BOOLEAN /\ clipped' \in BOOLEAN /\ raced' \in BOOLEAN
  BY DEF Appended, Update, OverCap, TypeInv, SessionTypeOK
<1>2. reads[w] \in Row /\ reads[w].start <= Len(reads[w].history)
  BY <1>1 DEF TypeInv, SessionTypeOK, ReadsSound
<1>3. /\ AppendTo(reads[w], <<m>>, ids) \in Row
      /\ AppendTo(reads[w], <<m>>, ids).start <= Len(AppendTo(reads[w], <<m>>, ids).history)
  BY <1>2, AppendToFacts
<1>4. reads' \in [Writers -> Row] /\ ReadsSound'
  BY <1>1, ReleaseTypes
<1>5. QED
  BY <1>1, <1>3, <1>4

\* What a turn adds is whole.
LEMMA OutcomesFacts ==
    ASSUME NEW b \in SUBSET Inbound, NEW added \in Outcomes(b)
    PROVE  added \in Seq(Message) /\ Len(added) <= 3 /\ Paired(added) /\ Arrived(added)
<1>1. PICK call, results, reply : call = Say("call", b) /\ results = Say("results", b) /\ reply = Say("reply", b)
  OBVIOUS
<1>2. /\ call \in Message /\ call.role = "call" /\ call.of = b /\ call.provisional = FALSE
      /\ results \in Message /\ results.role = "results" /\ results.of = b /\ results.provisional = FALSE
      /\ reply \in Message /\ reply.role = "reply" /\ reply.of = b /\ reply.provisional = FALSE
  <2>1. b \in SUBSET (Inbound \cup Pushes) /\ "call" \in Roles /\ "results" \in Roles /\ "reply" \in Roles
    BY DEF Roles
  <2>2. QED
    BY <1>1, <2>1, SayType, ZenonT(60)
<1>3. \/ added = <<>> \/ added = <<reply>>
      \/ added = <<call, results>> \/ added = <<call, results, reply>>
  <2>1. added \in {<<call, results>>} \cup {before \o after : before \in {<<>>, <<call, results>>}, after \in {<<>>, <<reply>>}}
    BY <1>1 DEF Outcomes
  <2>2. QED
    BY <1>2, <2>1
<1>4. CASE added = <<>>
  BY <1>4 DEF Paired, Arrived
<1>5. CASE added = <<reply>>
  <2>1. added \in Seq(Message) /\ Len(added) = 1 /\ DOMAIN added = {1} /\ added[1] = reply
    BY <1>2, <1>5
  <2>2. QED
    BY <1>2, <2>1 DEF Paired, Arrived
<1>6. CASE added = <<call, results>>
  <2>1. added \in Seq(Message) /\ Len(added) = 2 /\ DOMAIN added = {1, 2} /\ added[1] = call /\ added[2] = results
    BY <1>2, <1>6
  <2>2. QED
    BY <1>1, <1>2, <2>1 DEF Paired, Arrived
<1>7. CASE added = <<call, results, reply>>
  <2>1. /\ added \in Seq(Message) /\ Len(added) = 3 /\ DOMAIN added = {1, 2, 3}
        /\ added[1] = call /\ added[2] = results /\ added[3] = reply
    BY <1>2, <1>7
  <2>2. QED
    BY <1>1, <1>2, <2>1 DEF Paired, Arrived
<1>8. QED
  BY <1>3, <1>4, <1>5, <1>6, <1>7

LEMMA BeginTypes ==
    ASSUME TypeInv, NEW b \in SUBSET Inbound, NEW tries \in 0..1, Begin(b, tries)
    PROVE  /\ turn' \in [step : {"idle", "composing", "ordering", "saving", "storing", "retrying"},
                         batch : SUBSET Inbound, base : Nat, history : Seq(Message),
                         ordered : BOOLEAN, tries : 0..1]
           /\ turn'.step = "composing" /\ turn'.batch = b /\ turn'.base = Len(row.history)
           /\ turn'.history = DropProvisional(Live(row), b \cap recorded) \o <<Say("user", b)>>
           /\ meanwhile' = {}
<1>1. row \in Row /\ row.start <= Len(row.history)
  BY DEF TypeInv, SessionTypeOK
<1>2. Live(row) \in Seq(Message) /\ row.history \in Seq(Message)
  BY <1>1, LiveType
<1>3. PICK k, m : k = DropProvisional(Live(row), b \cap recorded) /\ m = Say("user", b)
  OBVIOUS
<1>4. k \in Seq(Message) /\ m \in Message
  <2>1. k \in Seq(Message)
    BY <1>2, <1>3, DropFacts
  <2>2. "user" \in Roles /\ b \in SUBSET (Inbound \cup Pushes)
    BY DEF Roles
  <2>3. QED
    BY <1>3, <2>1, <2>2, SayType
<1>5. turn' = [step |-> "composing", batch |-> b, base |-> Len(row.history), history |-> Append(k, m),
               ordered |-> FALSE, tries |-> tries]
  BY <1>3 DEF Begin, NoTurn
<1>6. Append(k, m) = k \o <<m>> /\ Append(k, m) \in Seq(Message) /\ Len(row.history) \in Nat
  BY <1>2, <1>4, AppendIsConcat
<1>7. meanwhile' = {}
  BY DEF Begin
<1>8. turn' \in [step : {"idle", "composing", "ordering", "saving", "storing", "retrying"},
                batch : SUBSET Inbound, base : Nat, history : Seq(Message),
                ordered : BOOLEAN, tries : 0..1]
  BY <1>5, <1>6
<1>9. /\ turn'.step = "composing" /\ turn'.batch = b /\ turn'.base = Len(row.history)
      /\ turn'.history = k \o <<m>>
  BY <1>5, <1>6
<1>10. QED
  BY <1>3, <1>7, <1>8, <1>9

TurnType == [step : {"idle", "composing", "ordering", "saving", "storing", "retrying"},
             batch : SUBSET Inbound, base : Nat, history : Seq(Message),
             ordered : BOOLEAN, tries : 0..1]

LEMMA WriterNames == /\ "turn" \in Writers
                     /\ \A i \in Inbound : i \in Writers
                     /\ \A p \in Pushes : p \in Writers
BY DEF Writers

LEMMA NoTurnType == NoTurn \in TurnType
<1>1. <<>> \in Seq(Message) /\ {} \in SUBSET Inbound
  OBVIOUS
<1>2. QED
  BY <1>1 DEF NoTurn, TurnType

LEMMA TypesInit == SessionInit => TypeInv
<1> SUFFICES ASSUME SessionInit PROVE TypeInv
  OBVIOUS
<1>1. <<>> \in Seq(Message) /\ Len(<<>>) = 0
  OBVIOUS
<1>2. row \in Row /\ row.start <= Len(row.history)
  BY <1>1 DEF SessionInit, Row
<1>3. reads \in [Writers -> Row] /\ ReadsSound
  BY NoRowType DEF SessionInit, ReadsSound
<1>4. turn \in TurnType
  BY NoTurnType DEF SessionInit
<1>5. MaxIdle \in Nat
  BY SessionAssumption
<1>6. idled \in 0..MaxIdle
  BY <1>5 DEF SessionInit
<1>7. inbound \in [Inbound -> {"new", "arriving", "waiting", "answered", "given up"}]
  BY DEF SessionInit
<1>8. recorded \subseteq Inbound /\ pushed \subseteq Pushes /\ said \subseteq Message /\ meanwhile \subseteq said
      /\ capped \in BOOLEAN /\ clipped \in BOOLEAN /\ raced \in BOOLEAN
  BY DEF SessionInit
<1>9. QED
  BY <1>2, <1>3, <1>4, <1>6, <1>7, <1>8 DEF TypeInv, SessionTypeOK, TurnType

LEMMA ArrivalTypes ==
    ASSUME TypeInv, NEW i \in Inbound, ReadOnArrival(i) \/ RecordInbound(i) \/ RecordInboundFails(i)
    PROVE  TypeInv'
<1>1. i \in Writers
  BY WriterNames
<1>2. CASE ReadOnArrival(i)
  <2>1. reads' \in [Writers -> Row] /\ ReadsSound'
    BY <1>1, <1>2, SelectTypes DEF ReadOnArrival
  <2>2. inbound' \in [Inbound -> {"new", "arriving", "waiting", "answered", "given up"}]
    BY <1>2 DEF ReadOnArrival, TypeInv, SessionTypeOK
  <2>3. QED
    BY <1>2, <2>1, <2>2 DEF ReadOnArrival, TypeInv, SessionTypeOK
<1>3. CASE RecordInbound(i)
  <2>1. OnArrival(i) \in Message
    BY OnArrivalType
  <2>2. /\ row' \in Row /\ row'.start <= Len(row'.history)
        /\ reads' \in [Writers -> Row] /\ ReadsSound'
        /\ capped' \in BOOLEAN /\ clipped' \in BOOLEAN /\ raced' \in BOOLEAN
    BY <1>1, <1>3, <2>1, AppendedTypes DEF RecordInbound
  <2>3. Say("user", {i}) \in Message
    <3>1. "user" \in Roles /\ {i} \in SUBSET (Inbound \cup Pushes)
      BY DEF Roles
    <3>2. QED
      BY <3>1, SayType
  <2>4. inbound' \in [Inbound -> {"new", "arriving", "waiting", "answered", "given up"}]
    BY <1>3 DEF RecordInbound, TypeInv, SessionTypeOK
  <2>5. said' \subseteq Message /\ meanwhile' \subseteq said' /\ recorded' \subseteq Inbound
    BY <1>3, <2>3 DEF RecordInbound, Heard, TypeInv, SessionTypeOK
  <2>6. QED
    BY <1>3, <2>2, <2>4, <2>5 DEF RecordInbound, TypeInv, SessionTypeOK
<1>4. CASE RecordInboundFails(i)
  <2>1. reads' \in [Writers -> Row] /\ ReadsSound'
    BY <1>1, <1>4, ReleaseTypes DEF RecordInboundFails, Unwritten
  <2>2. inbound' \in [Inbound -> {"new", "arriving", "waiting", "answered", "given up"}]
    BY <1>4 DEF RecordInboundFails, TypeInv, SessionTypeOK
  <2>3. QED
    BY <1>4, <2>1, <2>2 DEF RecordInboundFails, Unwritten, TypeInv, SessionTypeOK
<1>5. QED
  BY <1>2, <1>3, <1>4

LEMMA PushTypes ==
    ASSUME TypeInv, NEW p \in Pushes, ReadForPush(p) \/ RecordPush(p)
    PROVE  TypeInv'
<1>1. p \in Writers
  BY WriterNames
<1>2. CASE ReadForPush(p)
  <2>1. reads' \in [Writers -> Row] /\ ReadsSound'
    BY <1>1, <1>2, SelectTypes DEF ReadForPush
  <2>2. QED
    BY <1>2, <2>1 DEF ReadForPush, TypeInv, SessionTypeOK
<1>3. CASE RecordPush(p)
  <2>1. Say("push", {p}) \in Message
    <3>1. "push" \in Roles /\ {p} \in SUBSET (Inbound \cup Pushes)
      BY DEF Roles
    <3>2. QED
      BY <3>1, SayType
  <2>2. /\ row' \in Row /\ row'.start <= Len(row'.history)
        /\ reads' \in [Writers -> Row] /\ ReadsSound'
        /\ capped' \in BOOLEAN /\ clipped' \in BOOLEAN /\ raced' \in BOOLEAN
    BY <1>1, <1>3, <2>1, AppendedTypes DEF RecordPush
  <2>3. said' \subseteq Message /\ meanwhile' \subseteq said' /\ pushed' \subseteq Pushes
    BY <1>3, <2>1 DEF RecordPush, Heard, TypeInv, SessionTypeOK
  <2>4. QED
    BY <1>3, <2>2, <2>3 DEF RecordPush, TypeInv, SessionTypeOK
<1>4. QED
  BY <1>2, <1>3

LEMMA BeginningTypes ==
    ASSUME TypeInv, RetryTurn \/ \E b \in SUBSET Inbound : BeginTurn(b)
    PROVE  TypeInv'
<1>1. PICK b \in SUBSET Inbound, tries \in 0..1 :
        /\ Begin(b, tries)
        /\ UNCHANGED <<row, idled, inbound, recorded, pushed, reads, said, capped, clipped, raced>>
  <2>1. turn.batch \in SUBSET Inbound /\ 0 \in 0..1 /\ 1 \in 0..1
    <3>1. turn \in TurnType
      BY DEF TypeInv, SessionTypeOK, TurnType
    <3>2. QED
      BY <3>1 DEF TurnType
  <2>2. QED
    BY <2>1 DEF RetryTurn, BeginTurn
<1>2. turn' \in TurnType /\ meanwhile' = {}
  BY <1>1, BeginTypes DEF TurnType
<1>3. ReadsSound'
  BY <1>1 DEF TypeInv, ReadsSound
<1>4. QED
  BY <1>1, <1>2, <1>3 DEF TypeInv, SessionTypeOK, TurnType

\* The steps that read the row for the turn.
LEMMA TurnReads ==
    ASSUME TypeInv,
           \/ ReadForConfirmation
           \/ \E added \in Outcomes(turn.batch) : ReadForSave(added)
           \/ \E b \in SUBSET Inbound : ReadWhilePaused(b)
    PROVE  TypeInv'
<1>0. turn \in TurnType
  BY DEF TypeInv, SessionTypeOK, TurnType
<1>1. /\ Select("turn")
      /\ UNCHANGED <<row, idled, inbound, recorded, pushed, said, meanwhile, capped, clipped, raced>>
  BY DEF ReadForConfirmation, ReadForSave, ReadWhilePaused
<1>2. reads' \in [Writers -> Row] /\ ReadsSound'
  BY <1>1, SelectTypes, WriterNames
<1>3. turn' \in TurnType
  <2>1. CASE ReadForConfirmation
    BY <1>0, <2>1 DEF ReadForConfirmation, TurnType
  <2>2. ASSUME NEW added \in Outcomes(turn.batch), ReadForSave(added) PROVE turn' \in TurnType
    <3>1. turn.batch \in SUBSET Inbound /\ turn.history \in Seq(Message)
      BY <1>0 DEF TurnType
    <3>2. added \in Seq(Message)
      BY <2>2, <3>1, OutcomesFacts
    <3>3. turn.history \o added \in Seq(Message)
      BY <3>1, <3>2
    <3>4. turn' = [turn EXCEPT !.step = "saving", !.history = turn.history \o added]
      BY <1>0, <2>2 DEF ReadForSave, TurnType
    <3>5. QED
      BY <1>0, <3>3, <3>4 DEF TurnType
  <2>3. ASSUME NEW b \in SUBSET Inbound, ReadWhilePaused(b) PROVE turn' \in TurnType
    BY <2>3, NoTurnType DEF ReadWhilePaused, TurnType
  <2>4. QED
    BY <2>1, <2>2, <2>3
<1>4. QED
  BY <1>1, <1>2, <1>3 DEF TypeInv, SessionTypeOK, TurnType

\* The steps that write it, but for the save of a turn.
LEMMA TurnAppends ==
    ASSUME TypeInv, RecordConfirmation \/ StoreWhilePaused
    PROVE  TypeInv'
<1>0. turn \in TurnType /\ turn.batch \in SUBSET Inbound
  BY DEF TypeInv, SessionTypeOK, TurnType
<1>1. Say("push", turn.batch) \in Message /\ Say("user", turn.batch) \in Message
  <2>1. "push" \in Roles /\ "user" \in Roles /\ turn.batch \in SUBSET (Inbound \cup Pushes)
    BY <1>0 DEF Roles
  <2>2. QED
    BY <2>1, SayType
<1>2. CASE RecordConfirmation
  <2>1. /\ row' \in Row /\ row'.start <= Len(row'.history)
        /\ reads' \in [Writers -> Row] /\ ReadsSound'
        /\ capped' \in BOOLEAN /\ clipped' \in BOOLEAN /\ raced' \in BOOLEAN
    BY <1>1, <1>2, WriterNames, AppendedTypes DEF RecordConfirmation
  <2>2. turn' \in TurnType
    BY <1>0, <1>2 DEF RecordConfirmation, TurnType
  <2>3. said' \subseteq Message /\ meanwhile' \subseteq said'
    BY <1>1, <1>2 DEF RecordConfirmation, Heard, TypeInv, SessionTypeOK
  <2>4. UNCHANGED <<idled, inbound, recorded, pushed>>
    BY <1>2 DEF RecordConfirmation
  <2>5. QED
    BY <2>1, <2>2, <2>3, <2>4 DEF TypeInv, SessionTypeOK, TurnType
<1>3. CASE StoreWhilePaused
  <2>1. /\ row' \in Row /\ row'.start <= Len(row'.history)
        /\ reads' \in [Writers -> Row] /\ ReadsSound'
        /\ capped' \in BOOLEAN /\ clipped' \in BOOLEAN /\ raced' \in BOOLEAN
    BY <1>1, <1>3, WriterNames, AppendedTypes DEF StoreWhilePaused
  <2>2. turn' \in TurnType
    BY <1>3, NoTurnType DEF StoreWhilePaused
  <2>3. said' \subseteq Message /\ meanwhile' \subseteq said'
    BY <1>1, <1>3 DEF StoreWhilePaused, TypeInv, SessionTypeOK
  <2>4. inbound' \in [Inbound -> {"new", "arriving", "waiting", "answered", "given up"}]
    BY <1>3 DEF StoreWhilePaused, Answered, TypeInv, SessionTypeOK
  <2>5. UNCHANGED <<idled, recorded, pushed>>
    BY <1>3 DEF StoreWhilePaused
  <2>6. QED
    BY <2>1, <2>2, <2>3, <2>4, <2>5 DEF TypeInv, SessionTypeOK, TurnType
<1>4. QED
  BY <1>2, <1>3

LEMMA SaveTurnTypes ==
    ASSUME TypeInv, SaveTurn
    PROVE  TypeInv'
<1>1. PICK r, merged : r = reads["turn"] /\ merged = MergeInterleaved(turn.history, r.history, turn.base)
  OBVIOUS
<1>2. /\ reads["turn"] # NoRow /\ row' = Save(r, merged)
      /\ reads' = [reads EXCEPT !["turn"] = NoRow]
      /\ capped' \in BOOLEAN /\ clipped' \in BOOLEAN /\ raced' \in BOOLEAN
  BY <1>1 DEF SaveTurn, Update, OverCap, TypeInv, SessionTypeOK
<1>3. r \in Row /\ r.start <= Len(r.history) /\ turn.history \in Seq(Message)
  BY <1>1, <1>2, WriterNames DEF TypeInv, SessionTypeOK, ReadsSound
<1>4. merged \in Seq(Message)
  BY <1>1, <1>3, LiveType, MergeKeeps
<1>5. row' \in Row /\ row'.start <= Len(row'.history)
  BY <1>2, <1>3, <1>4, SaveFacts
<1>6. reads' \in [Writers -> Row] /\ ReadsSound'
  BY <1>2, ReleaseTypes, WriterNames
<1>7. said' \subseteq Message /\ meanwhile' \subseteq said'
  <2>1. Range(turn.history) \subseteq Message
    BY <1>3 DEF Range
  <2>2. QED
    BY <2>1 DEF SaveTurn, TypeInv, SessionTypeOK
<1>8. inbound' \in [Inbound -> {"new", "arriving", "waiting", "answered", "given up"}]
  BY DEF SaveTurn, Answered, TypeInv, SessionTypeOK
<1>9. turn' \in TurnType /\ UNCHANGED <<idled, recorded, pushed>>
  BY NoTurnType DEF SaveTurn
<1>10. QED
  BY <1>2, <1>5, <1>6, <1>7, <1>8, <1>9 DEF TypeInv, SessionTypeOK, TurnType

LEMMA OtherTypes ==
    ASSUME TypeInv, Superseded \/ Crash \/ Expire \/ UNCHANGED sessionVars
    PROVE  TypeInv'
<1>0. turn \in TurnType
  BY DEF TypeInv, SessionTypeOK, TurnType
<1>1. CASE Superseded
  <2>1. turn' \in TurnType
    BY <1>1, NoTurnType DEF Superseded
  <2>2. UNCHANGED <<row, idled, inbound, recorded, pushed, reads, said, meanwhile, capped, clipped, raced>>
    BY <1>1 DEF Superseded
  <2>3. QED
    BY <2>1, <2>2 DEF TypeInv, SessionTypeOK, ReadsSound, TurnType
<1>2. CASE Crash
  <2>1. turn' \in TurnType
    <3>1. turn.batch \in SUBSET Inbound
      BY <1>0 DEF TurnType
    <3>2. [NoTurn EXCEPT !.step = "retrying", !.batch = turn.batch] \in TurnType
      BY <3>1, NoTurnType DEF TurnType
    <3>3. QED
      BY <1>2, <3>2, NoTurnType DEF Crash
  <2>2. inbound' \in [Inbound -> {"new", "arriving", "waiting", "answered", "given up"}]
    BY <1>2 DEF Crash, TypeInv, SessionTypeOK
  <2>3. reads' \in [Writers -> Row] /\ ReadsSound'
    BY <1>2, ReleaseTypes, WriterNames DEF Crash, Unwritten
  <2>4. UNCHANGED <<row, capped, clipped, raced, idled, recorded, pushed, said, meanwhile>>
    BY <1>2 DEF Crash, Unwritten
  <2>5. QED
    BY <2>1, <2>2, <2>3, <2>4 DEF TypeInv, SessionTypeOK, TurnType
<1>3. CASE Expire
  <2>1. row' \in Row /\ row'.start <= Len(row'.history)
    BY <1>3 DEF Expire, TypeInv, SessionTypeOK, Row
  <2>2. idled' \in 0..MaxIdle
    <3>1. idled \in 0..MaxIdle /\ idled < MaxIdle /\ idled' = idled + 1
      BY <1>3 DEF Expire, TypeInv, SessionTypeOK
    <3>2. MaxIdle \in Nat
      BY SessionAssumption
    <3>3. QED
      BY <3>1, <3>2
  <2>3. UNCHANGED <<inbound, recorded, pushed, reads, turn, said, meanwhile, capped, clipped, raced>>
    BY <1>3 DEF Expire
  <2>4. QED
    BY <2>1, <2>2, <2>3 DEF TypeInv, SessionTypeOK, ReadsSound
<1>4. CASE UNCHANGED sessionVars
  BY <1>4 DEF sessionVars, TypeInv, SessionTypeOK, ReadsSound
<1>5. QED
  BY <1>1, <1>2, <1>3, <1>4

LEMMA TypesStep == TypeInv /\ [SessionNext]_sessionVars => TypeInv'
<1> SUFFICES ASSUME TypeInv, [SessionNext]_sessionVars PROVE TypeInv'
  OBVIOUS
<1>1. CASE \E i \in Inbound : ReadOnArrival(i) \/ RecordInbound(i) \/ RecordInboundFails(i)
  BY <1>1, ArrivalTypes
<1>2. CASE \E p \in Pushes : ReadForPush(p) \/ RecordPush(p)
  BY <1>2, PushTypes
<1>3. CASE TurnStep
  BY <1>3, BeginningTypes, TurnReads, TurnAppends, SaveTurnTypes, OtherTypes DEF TurnStep
<1>4. CASE Expire \/ UNCHANGED sessionVars
  BY <1>4, OtherTypes
<1>5. QED
  BY <1>1, <1>2, <1>3, <1>4 DEF SessionNext

\* Every variable of the transcript has its type, and a context starts inside its
\* history, whatever transactions overlap and whatever the caps are.
THEOREM SessionTypes == SessionSpec => []SessionTypeOK
<1>1. TypeInv => SessionTypeOK
  BY DEF TypeInv
<1>2. QED
  BY <1>1, TypesInit, TypesStep, PTL DEF SessionSpec

-----------------------------------------------------------------------------
(* Nothing that was said is lost.                                          *)

\* The turn has read the row and has not saved.
Running == turn.step \in {"composing", "ordering", "saving"}

Arrivals == Arrived(row.history) /\ (Running => Arrived(turn.history))

\* The turn's copy has what the row had when it was read.
Copied ==
    Running /\ ~capped =>
        /\ turn.base <= Len(row.history)
        /\ \A i \in DOMAIN row.history :
             row.start < i /\ i <= turn.base => Holds(turn.history, row.history[i])

Kept == Arrivals /\ Copied /\ NothingLost

\* Until a writer has overwritten what it had not read.
KeepInv == ~raced => Kept

\* What an append leaves of the row.
LEMMA AppendedKeeps ==
    ASSUME TypeInv, Kept, ~raced, ~raced', NEW w \in Writers, NEW m \in Message, NEW ids,
           Appended(w, <<m>>, ids),
           m.provisional => m.of # {}
    PROVE  /\ row.history \in Seq(Message) /\ row'.history \in Seq(Message)
           /\ row' = AppendTo(row, <<m>>, ids)
           /\ Arrived(row'.history)
           /\ ids = {} => \E c \in 0..(Len(row.history) + 1) : row'.history = From(row.history \o <<m>>, c + 1)
           /\ ~capped' => /\ ~capped /\ row.start <= row'.start
                          /\ Holds(row'.history, m)
                          /\ ids = {} => row'.history = row.history \o <<m>>
                          /\ \A i \in DOMAIN row.history :
                               \/ Holds(row'.history, row.history[i])
                               \/ row.history[i].role = "user" /\ row.history[i].of \subseteq ids
<1>1. /\ reads[w] # NoRow /\ row' = AppendTo(reads[w], <<m>>, ids)
      /\ reads' = [reads EXCEPT ![w] = NoRow]
      /\ capped' = (capped \/ OverCap(Whole(reads[w], m, ids)))
      /\ raced' = (raced \/ reads[w] # row)
  BY DEF Appended, Update, Whole, Context
<1>2. reads[w] = row
  BY <1>1
<1>3. row \in Row /\ row.start <= Len(row.history) /\ Arrived(row.history)
  BY DEF TypeInv, SessionTypeOK, Kept, Arrivals
<1>4. PICK full, a : full = Whole(row, m, ids) /\ a = AppendTo(row, <<m>>, ids)
  OBVIOUS
<1>5. /\ a \in Row /\ full \in Seq(Message)
      /\ \E c \in 0..Len(full) : a.history = From(full, c + 1)
      /\ ~OverCap(full) => a.history = full /\ row.start <= a.start
  BY <1>3, <1>4, AppendToFacts
<1>6. /\ Arrived(full) /\ Holds(full, m)
      /\ \A i \in DOMAIN row.history : \/ Holds(full, row.history[i])
                                       \/ row.history[i].role = "user" /\ row.history[i].of \subseteq ids
      /\ ids = {} => full = row.history \o <<m>>
  BY <1>3, <1>4, AppendHolds
<1>7. row' = a /\ (~capped' => ~capped /\ ~OverCap(full))
  BY <1>1, <1>2, <1>4
<1>8. Arrived(a.history)
  BY <1>5, <1>6, ArrivedFrom
<1>9. row.history \in Seq(Message) /\ a.history \in Seq(Message)
  BY <1>3, <1>5 DEF Row
<1>10. ids = {} => \E c \in 0..(Len(row.history) + 1) : a.history = From(row.history \o <<m>>, c + 1)
  <2>1. ASSUME ids = {} PROVE \E c \in 0..(Len(row.history) + 1) : a.history = From(row.history \o <<m>>, c + 1)
    <3>1. full = row.history \o <<m>> /\ Len(row.history \o <<m>>) = Len(row.history) + 1
      BY <1>6, <1>9, <2>1
    <3>2. QED
      BY <1>5, <3>1
  <2>2. QED
    BY <2>1
<1>11. QED
  BY <1>2, <1>4, <1>5, <1>6, <1>7, <1>8, <1>9, <1>10

\* A message that covers the copies it takes the place of leaves all that was held.
LEMMA AppendedHolds ==
    ASSUME TypeInv, Kept, ~raced, ~raced', NEW w \in Writers, NEW m \in Message, NEW ids,
           Appended(w, <<m>>, ids),
           m.provisional => m.of # {}, ids = {} \/ (m.role = "user" /\ ids \subseteq m.of),
           NEW x, x.role = m.role, x.of \subseteq m.of, said' = said \cup {x}
    PROVE  NothingLost'
<1>1. /\ row.history \in Seq(Message) /\ row'.history \in Seq(Message)
      /\ ~capped' => /\ ~capped
                     /\ Holds(row'.history, m)
                     /\ ids = {} => row'.history = row.history \o <<m>>
                     /\ \A i \in DOMAIN row.history :
                          \/ Holds(row'.history, row.history[i])
                          \/ row.history[i].role = "user" /\ row.history[i].of \subseteq ids
  BY AppendedKeeps
<1>2. ASSUME ~capped', NEW i \in DOMAIN row.history PROVE Holds(row'.history, row.history[i])
  <2>1. CASE ids = {}
    <3>1. <<m>> \in Seq(Message) /\ Holds(row.history, row.history[i])
      BY HoldsIts
    <3>2. QED
      BY <1>1, <1>2, <2>1, <3>1, HoldsConcat
  <2>2. CASE m.role = "user" /\ ids \subseteq m.of
    <3>1. Holds(row'.history, m)
      BY <1>1, <1>2
    <3>2. row.history[i].role = "user" /\ row.history[i].of \subseteq ids => Holds(row'.history, row.history[i])
      <4>1. PICK j \in DOMAIN row'.history : row'.history[j].role = m.role /\ m.of \subseteq row'.history[j].of
        BY <3>1 DEF Holds
      <4>2. QED
        BY <2>2, <4>1 DEF Holds
    <3>3. QED
      BY <1>1, <1>2, <3>2
  <2>3. QED
    BY <2>1, <2>2
<1>3. ASSUME ~capped', NEW y \in said' PROVE Holds(row'.history, y)
  <2>1. CASE y \in said
    <3>1. Holds(row.history, y)
      BY <1>1, <1>3, <2>1 DEF Kept, NothingLost, Stored, Holds
    <3>2. \A i \in DOMAIN row.history : Holds(row'.history, row.history[i])
      BY <1>2, <1>3
    <3>3. QED
      BY <3>1, <3>2, HoldsOn
  <2>2. CASE y = x
    <3>1. PICK j \in DOMAIN row'.history : row'.history[j].role = m.role /\ m.of \subseteq row'.history[j].of
      BY <1>1, <1>3 DEF Holds
    <3>2. QED
      BY <2>2, <3>1 DEF Holds
  <2>3. QED
    BY <1>3, <2>1, <2>2
<1>4. QED
  BY <1>3 DEF NothingLost, Stored, Holds

LEMMA AppendedCopied ==
    ASSUME TypeInv, Kept, ~raced, ~raced', NEW w \in Writers, NEW m \in Message, Appended(w, <<m>>, {}),
           m.provisional => m.of # {}, Running' => Running,
           turn'.base = turn.base, turn'.history = turn.history
    PROVE  Arrivals' /\ Copied'
<1>1. /\ row.history \in Seq(Message) /\ Arrived(row'.history)
      /\ ~capped' => ~capped /\ row.start <= row'.start /\ row'.history = row.history \o <<m>>
  BY AppendedKeeps
<1>2. Arrivals'
  BY <1>1 DEF Kept, Arrivals
<1>3. /\ row \in Row /\ row' \in Row /\ turn.base \in Nat
  <2>1. row' \in Row
    BY AppendedTypes
  <2>2. row \in Row /\ turn \in TurnType
    BY DEF TypeInv, SessionTypeOK, TurnType
  <2>3. QED
    BY <2>1, <2>2 DEF TurnType
<1>4. row.start \in Nat /\ row'.start \in Nat
  BY <1>3 DEF Row
<1>5. ASSUME Running', ~capped'
      PROVE  /\ turn'.base <= Len(row'.history)
             /\ \A i \in DOMAIN row'.history :
                  row'.start < i /\ i <= turn'.base => Holds(turn'.history, row'.history[i])
  <2>1. /\ row'.history \in Seq(Message)
        /\ Len(row.history) \in Nat /\ Len(row'.history) = Len(row.history) + 1
        /\ DOMAIN row.history = 1..Len(row.history) /\ DOMAIN row'.history = 1..(Len(row.history) + 1)
        /\ \A i \in 1..Len(row.history) : row'.history[i] = row.history[i]
    BY <1>1, <1>5, SMTT(60)
  <2>2. /\ turn.base <= Len(row.history)
        /\ \A i \in DOMAIN row.history :
             row.start < i /\ i <= turn.base => Holds(turn.history, row.history[i])
    BY <1>1, <1>5 DEF Kept, Copied
  <2>3. turn'.base <= Len(row'.history)
    BY <1>3, <2>1, <2>2
  <2>4. ASSUME NEW i \in DOMAIN row'.history, row'.start < i, i <= turn'.base
        PROVE  Holds(turn'.history, row'.history[i])
    <3>1. i \in 1..Len(row.history) /\ row.start < i /\ i <= turn.base
      BY <1>1, <1>3, <1>4, <1>5, <2>1, <2>2, <2>4
    <3>2. QED
      BY <2>1, <2>2, <3>1
  <2>5. QED
    BY <2>3, <2>4
<1>6. QED
  BY <1>2, <1>5 DEF Copied

LEMMA KeepInit == SessionInit => Kept
<1> SUFFICES ASSUME SessionInit PROVE Kept
  OBVIOUS
<1>1. Arrivals /\ Copied
  BY DEF SessionInit, Arrivals, Copied, Arrived, Running, NoTurn
<1>2. NothingLost
  BY DEF SessionInit, NothingLost
<1>3. QED
  BY <1>1, <1>2 DEF Kept

\* Nothing is written and nothing is added.
LEMMA NothingWritten ==
    ASSUME Kept, ~raced, Running' => Running,
           turn'.base = turn.base, turn'.history = turn.history,
           row' = row, said' = said, capped' = capped
    PROVE  Kept'
<1>1. Arrivals'
  BY DEF Kept, Arrivals
<1>2. Copied'
  BY DEF Kept, Copied
<1>3. NothingLost'
  BY DEF Kept, NothingLost, Stored
<1>4. QED
  BY <1>1, <1>2, <1>3 DEF Kept

\* The same of a step that ends with no copy of the row.
LEMMA NotRunning ==
    ASSUME Kept, ~raced, ~Running', row'.history = row.history, said' = said, capped' = capped
    PROVE  Kept'
<1>1. Arrivals' /\ Copied'
  BY DEF Kept, Arrivals, Copied
<1>2. NothingLost'
  BY DEF Kept, NothingLost, Stored
<1>3. QED
  BY <1>1, <1>2 DEF Kept

LEMMA ArrivalKeeps ==
    ASSUME TypeInv, Kept, ~raced, ~raced', NEW i \in Inbound,
           ReadOnArrival(i) \/ RecordInbound(i) \/ RecordInboundFails(i)
    PROVE  Kept'
<1>1. i \in Writers
  BY WriterNames
<1>2. CASE ReadOnArrival(i)
  BY <1>2, NothingWritten DEF ReadOnArrival, Running
<1>3. CASE RecordInbound(i)
  <2>1. PICK m, x : m = OnArrival(i) /\ x = Say("user", {i})
    OBVIOUS
  <2>2. m \in Message /\ m.role = "user" /\ m.of = {i} /\ x.role = "user" /\ x.of = {i}
    BY <2>1, OnArrivalType DEF Say
  <2>3. Appended(i, <<m>>, {}) /\ said' = said \cup {x} /\ turn' = turn
    BY <1>3, <2>1 DEF RecordInbound, Heard
  <2>5. NothingLost'
    BY <1>1, <2>2, <2>3, AppendedHolds
  <2>6. Running' => Running
    BY <2>3 DEF Running
  <2>7. Arrivals' /\ Copied'
    BY <1>1, <2>2, <2>3, <2>6, AppendedCopied
  <2>8. QED
    BY <2>5, <2>7 DEF Kept
<1>4. CASE RecordInboundFails(i)
  BY <1>4, NothingWritten DEF RecordInboundFails, Unwritten, Running
<1>5. QED
  BY <1>2, <1>3, <1>4

LEMMA PushKeeps ==
    ASSUME TypeInv, Kept, ~raced, ~raced', NEW p \in Pushes, ReadForPush(p) \/ RecordPush(p)
    PROVE  Kept'
<1>1. p \in Writers
  BY WriterNames
<1>2. CASE ReadForPush(p)
  BY <1>2, NothingWritten DEF ReadForPush, Running
<1>3. CASE RecordPush(p)
  <2>1. PICK m : m = Say("push", {p})
    OBVIOUS
  <2>2. m \in Message /\ m.provisional = FALSE
    <3>1. "push" \in Roles /\ {p} \in SUBSET (Inbound \cup Pushes)
      BY DEF Roles
    <3>2. QED
      BY <2>1, <3>1, SayType
  <2>3. Appended(p, <<m>>, {}) /\ said' = said \cup {m} /\ turn' = turn
    BY <1>3, <2>1 DEF RecordPush, Heard
  <2>5. NothingLost'
    BY <1>1, <2>2, <2>3, AppendedHolds
  <2>6. Running' => Running
    BY <2>3 DEF Running
  <2>7. Arrivals' /\ Copied'
    BY <1>1, <2>2, <2>3, <2>6, AppendedCopied
  <2>8. QED
    BY <2>5, <2>7 DEF Kept
<1>4. QED
  BY <1>2, <1>3

\* run_turn's copy has every message of the context, the copies it drops in the
\* customer's message as the turn stores it.
LEMMA BeginKeeps ==
    ASSUME TypeInv, Kept, ~raced, ~raced', NEW b \in SUBSET Inbound, NEW tries \in 0..1, Begin(b, tries),
           UNCHANGED <<row, idled, inbound, recorded, pushed, reads, said, capped, clipped, raced>>
    PROVE  Kept'
<1>1. /\ turn'.base = Len(row.history)
      /\ turn'.history = DropProvisional(Live(row), b \cap recorded) \o <<Say("user", b)>>
  BY BeginTypes
<1>2. row \in Row /\ row.start <= Len(row.history) /\ Arrived(row.history)
  BY DEF TypeInv, SessionTypeOK, Kept, Arrivals
<1>3. row.history \in Seq(Message) /\ row.start \in 0..Len(row.history)
  BY <1>2, LiveType
<1>4. PICK t, k, m : /\ t = Live(row) /\ k = DropProvisional(t, b \cap recorded) /\ m = Say("user", b)
  OBVIOUS
<1>5. /\ t \in Seq(Message) /\ Len(t) = Len(row.history) - row.start
      /\ \A i \in 1..(Len(row.history) - row.start) : t[i] = row.history[i + row.start]
      /\ Arrived(t)
  BY <1>2, <1>3, <1>4, FromFacts, ArrivedFrom DEF Live
<1>6. /\ k \in Seq(Message) /\ Arrived(k)
      /\ \A i \in DOMAIN t : Holds(k, t[i]) \/ (t[i].role = "user" /\ t[i].of \subseteq b \cap recorded)
  <2>1. /\ DropProvisional(t, b \cap recorded) \in Seq(Message)
        /\ Arrived(t) => Arrived(DropProvisional(t, b \cap recorded))
        /\ \A i \in DOMAIN t : \/ Holds(DropProvisional(t, b \cap recorded), t[i])
                               \/ t[i].role = "user" /\ t[i].of \subseteq b \cap recorded
    BY <1>5, DropFacts
  <2>2. QED
    BY <1>4, <1>5, <2>1
<1>7. /\ m \in Message /\ m.role = "user" /\ m.of = b /\ m.provisional = FALSE
      /\ <<m>> \in Seq(Message) /\ DOMAIN <<m>> = {1} /\ <<m>>[1] = m
  <2>1. "user" \in Roles /\ b \in SUBSET (Inbound \cup Pushes)
    BY DEF Roles
  <2>2. m \in Message /\ m.role = "user" /\ m.of = b /\ m.provisional = FALSE
    BY <1>4, <2>1, SayType
  <2>3. QED
    BY <2>2
<1>8. turn'.history = k \o <<m>>
  BY <1>1, <1>4
<1>9. Arrived(<<m>>)
  BY <1>7 DEF Arrived
<1>10. Arrived(turn'.history)
  BY <1>6, <1>7, <1>8, <1>9, ArrivedConcat
<1>11. ASSUME NEW i \in DOMAIN row.history, row.start < i
       PROVE  Holds(turn'.history, row.history[i])
  <2>1. i - row.start \in DOMAIN t /\ t[i - row.start] = row.history[i]
    <3>1. Len(row.history) \in Nat /\ row.start \in Nat /\ i \in 1..Len(row.history)
      BY <1>3
    <3>2. i - row.start \in 1..(Len(row.history) - row.start) /\ (i - row.start) + row.start = i
      BY <1>11, <3>1
    <3>3. DOMAIN t = 1..(Len(row.history) - row.start)
      BY <1>5
    <3>4. QED
      BY <1>5, <3>2, <3>3
  <2>2. PICK y : y = row.history[i]
    OBVIOUS
  <2>3. Holds(k, y) \/ (y.role = "user" /\ y.of \subseteq b)
    BY <1>6, <2>1, <2>2
  <2>4. Holds(k, y) \/ Holds(<<m>>, y)
    BY <1>7, <2>3 DEF Holds
  <2>5. QED
    BY <1>6, <1>7, <1>8, <2>2, <2>4, HoldsConcat
<1>12. Arrivals'
  BY <1>2, <1>10 DEF Arrivals
<1>13. Copied'
  <2>1. Len(row.history) <= Len(row.history)
    BY <1>3
  <2>2. QED
    BY <1>1, <1>11, <2>1 DEF Copied
<1>14. NothingLost'
  BY DEF Kept, NothingLost, Stored
<1>15. QED
  BY <1>12, <1>13, <1>14 DEF Kept

LEMMA TurnReadKeeps ==
    ASSUME TypeInv, Kept, ~raced, ~raced',
           \/ ReadForConfirmation
           \/ \E added \in Outcomes(turn.batch) : ReadForSave(added)
           \/ \E b \in SUBSET Inbound : ReadWhilePaused(b)
    PROVE  Kept'
<1>0. turn \in TurnType
  BY DEF TypeInv, SessionTypeOK, TurnType
<1>1. /\ Select("turn")
      /\ UNCHANGED <<row, idled, inbound, recorded, pushed, said, meanwhile, capped, clipped, raced>>
  BY DEF ReadForConfirmation, ReadForSave, ReadWhilePaused
<1>3. CASE ReadForConfirmation
  <2>1. Running /\ turn'.base = turn.base /\ turn'.history = turn.history
    BY <1>0, <1>3 DEF ReadForConfirmation, TurnType, Running
  <2>2. QED
    BY <1>1, <2>1, NothingWritten
<1>4. ASSUME NEW added \in Outcomes(turn.batch), ReadForSave(added) PROVE Kept'
  <2>1. /\ Running /\ turn'.base = turn.base /\ turn'.history = turn.history \o added
        /\ turn.batch \in SUBSET Inbound /\ turn.history \in Seq(Message)
    BY <1>0, <1>4 DEF ReadForSave, TurnType, Running
  <2>2. added \in Seq(Message) /\ Arrived(added)
    BY <2>1, OutcomesFacts
  <2>3. Arrived(turn'.history)
    BY <2>1, <2>2, ArrivedConcat DEF Kept, Arrivals
  <2>4. Arrivals'
    BY <1>1, <2>3 DEF Kept, Arrivals
  <2>5. \A m : Holds(turn.history, m) => Holds(turn'.history, m)
    BY <2>1, <2>2, HoldsConcat
  <2>6. Copied'
    BY <1>1, <2>1, <2>5 DEF Kept, Copied
  <2>7. NothingLost'
    BY <1>1 DEF Kept, NothingLost, Stored
  <2>8. QED
    BY <2>4, <2>6, <2>7 DEF Kept
<1>5. ASSUME NEW b \in SUBSET Inbound, ReadWhilePaused(b) PROVE Kept'
  <2>1. ~Running'
    BY <1>5 DEF ReadWhilePaused, Running, NoTurn
  <2>2. QED
    BY <1>1, <2>1, NotRunning
<1>6. QED
  BY <1>3, <1>4, <1>5

LEMMA TurnAppendKeeps ==
    ASSUME TypeInv, Kept, ~raced, ~raced', RecordConfirmation \/ StoreWhilePaused
    PROVE  Kept'
<1>0. turn \in TurnType /\ turn.batch \in SUBSET Inbound
  BY DEF TypeInv, SessionTypeOK, TurnType
<1>1. CASE RecordConfirmation
  <2>1. PICK m : m = Say("push", turn.batch)
    OBVIOUS
  <2>2. m \in Message /\ m.provisional = FALSE
    <3>1. "push" \in Roles /\ turn.batch \in SUBSET (Inbound \cup Pushes)
      BY <1>0 DEF Roles
    <3>2. QED
      BY <2>1, <3>1, SayType, ZenonT(60)
  <2>3. Appended("turn", <<m>>, {}) /\ said' = said \cup {m}
    BY <1>1, <2>1 DEF RecordConfirmation, Heard
  <2>5. NothingLost'
    BY <2>2, <2>3, AppendedHolds, WriterNames
  <2>6. Running /\ turn'.base = turn.base /\ turn'.history = turn.history
    BY <1>0, <1>1 DEF RecordConfirmation, TurnType, Running
  <2>7. Arrivals' /\ Copied'
    BY <2>2, <2>3, <2>6, AppendedCopied, WriterNames
  <2>8. QED
    BY <2>5, <2>7 DEF Kept
<1>2. CASE StoreWhilePaused
  <2>1. PICK m, ids : m = Say("user", turn.batch) /\ ids = turn.batch \cap recorded
    OBVIOUS
  <2>2. m \in Message /\ m.provisional = FALSE /\ m.role = "user" /\ m.of = turn.batch /\ ids \subseteq m.of
    <3>1. "user" \in Roles /\ turn.batch \in SUBSET (Inbound \cup Pushes)
      BY <1>0 DEF Roles
    <3>2. QED
      BY <2>1, <3>1, SayType, ZenonT(60)
  <2>3. Appended("turn", <<m>>, ids) /\ said' = said \cup {m} /\ turn' = NoTurn
    BY <1>2, <2>1 DEF StoreWhilePaused
  <2>4. Arrived(row'.history)
    BY <2>2, <2>3, AppendedKeeps, WriterNames
  <2>5. NothingLost'
    BY <2>2, <2>3, AppendedHolds, WriterNames
  <2>6. Arrivals' /\ Copied'
    BY <2>3, <2>4 DEF Arrivals, Copied, Running, NoTurn
  <2>7. QED
    BY <2>4, <2>5, <2>6 DEF Kept
<1>3. QED
  BY <1>1, <1>2

\* A turn's save loses nothing: what it wrote is in what it saves, what was written
\* since it read the row is folded in, and its copy has the rest.
LEMMA SaveTurnKeeps ==
    ASSUME TypeInv, Kept, ~raced, ~raced', SaveTurn
    PROVE  Kept'
<1>0. turn \in TurnType
  BY DEF TypeInv, SessionTypeOK, TurnType
<1>2. reads["turn"] = row
  BY DEF SaveTurn, Update
<1>3. PICK h, s, merged, full :
        /\ h = row.history /\ s = turn.history
        /\ merged = MergeInterleaved(s, h, turn.base) /\ full = Untruncated(row, merged)
  OBVIOUS
<1>4. /\ row' = Save(row, merged) /\ capped' = (capped \/ OverCap(full))
      /\ said' = said \cup {m \in Range(s) : m.of = turn.batch} /\ ~Running' /\ Running
  BY <1>2, <1>3 DEF SaveTurn, Update, Running, NoTurn
<1>5. /\ row \in Row /\ row.start <= Len(row.history) /\ s \in Seq(Message) /\ turn.base \in Nat
      /\ Arrived(h) /\ Arrived(s)
  BY <1>0, <1>3, <1>4 DEF TypeInv, SessionTypeOK, TurnType, Kept, Arrivals
<1>6. h \in Seq(Message) /\ row.start \in 0..Len(h)
  BY <1>3, <1>5, LiveType
<1>7. /\ merged \in Seq(Message) /\ Arrived(merged)
      /\ \A i \in DOMAIN s : Holds(merged, s[i])
      /\ \A i \in DOMAIN h : i > turn.base => Holds(merged, h[i])
  BY <1>3, <1>5, <1>6, MergeKeeps
<1>8. PICK p : p = SubSeq(h, 1, row.start)
  OBVIOUS
<1>9. p \in Seq(Message) /\ Len(p) = row.start /\ (\A i \in 1..row.start : p[i] = h[i]) /\ Arrived(p)
  BY <1>5, <1>6, <1>8, PrefixFacts, ArrivedPrefix
<1>10. full = p \o merged /\ full \in Seq(Message) /\ Arrived(full)
  <2>1. full = p \o merged
    BY <1>3, <1>8 DEF Untruncated
  <2>2. Arrived(p \o merged)
    BY <1>7, <1>9, ArrivedConcat
  <2>3. QED
    BY <1>7, <1>9, <2>1, <2>2
<1>11. PICK a : a = Save(row, merged)
  OBVIOUS
<1>12. /\ \E c \in 0..Len(full) : a.history = From(full, c + 1)
       /\ ~OverCap(full) => a.history = full
  BY <1>3, <1>5, <1>7, <1>11, SaveFacts
<1>13. Arrived(row'.history)
  <2>1. Arrived(a.history)
    BY <1>10, <1>12, ArrivedFrom
  <2>2. QED
    BY <1>4, <1>11, <2>1
<1>14. \A m : Holds(p, m) \/ Holds(merged, m) => Holds(full, m)
  BY <1>7, <1>9, <1>10, HoldsConcat
<1>15. ASSUME ~capped, NEW i \in DOMAIN h PROVE Holds(full, h[i])
  <2>1. CASE i <= row.start
    <3>1. i \in 1..row.start /\ DOMAIN p = 1..row.start
      BY <1>6, <1>9, <2>1
    <3>2. Holds(p, p[i])
      BY <3>1, HoldsIts
    <3>3. QED
      BY <1>9, <1>14, <3>1, <3>2
  <2>2. CASE row.start < i /\ i <= turn.base
    <3>1. Holds(s, h[i])
      BY <1>3, <1>4, <1>15, <2>2 DEF Kept, Copied
    <3>2. Holds(merged, h[i])
      BY <1>7, <3>1, HoldsOn
    <3>3. QED
      BY <1>14, <3>2
  <2>3. CASE i > turn.base
    BY <1>7, <1>14, <2>3
  <2>4. QED
    BY <1>5, <1>6, <2>1, <2>2, <2>3
<1>16. ASSUME ~capped', NEW y \in said' PROVE Holds(row'.history, y)
  <2>1. row'.history = full /\ ~capped
    BY <1>4, <1>11, <1>12, <1>16
  <2>2. CASE y \in said
    <3>1. Holds(h, y)
      BY <1>3, <2>1, <2>2 DEF Kept, NothingLost, Stored, Holds
    <3>2. \A i \in DOMAIN h : Holds(full, h[i])
      BY <1>15, <2>1
    <3>3. Holds(full, y)
      BY <3>1, <3>2, HoldsOn
    <3>4. QED
      BY <2>1, <3>3
  <2>3. CASE y \in Range(s)
    <3>1. PICK i \in DOMAIN s : y = s[i]
      BY <2>3 DEF Range
    <3>2. Holds(merged, y)
      BY <1>7, <3>1
    <3>3. QED
      BY <1>14, <2>1, <3>2
  <2>4. QED
    BY <1>4, <1>16, <2>2, <2>3
<1>17. NothingLost'
  BY <1>16 DEF NothingLost, Stored, Holds
<1>18. Arrivals' /\ Copied'
  BY <1>4, <1>13 DEF Arrivals, Copied
<1>19. QED
  BY <1>17, <1>18 DEF Kept

LEMMA OthersKeep ==
    ASSUME TypeInv, Kept, ~raced, ~raced', Superseded \/ Crash \/ Expire \/ UNCHANGED sessionVars
    PROVE  Kept'
<1>1. CASE Superseded
  <2>1. ~Running' /\ row' = row /\ said' = said /\ capped' = capped
    BY <1>1 DEF Superseded, Running, NoTurn
  <2>2. QED
    BY <2>1, NotRunning
<1>2. CASE Crash
  <2>2. ~Running' /\ row' = row /\ said' = said /\ capped' = capped
    <3>1. \/ turn' = NoTurn
          \/ turn' = [step |-> "retrying", batch |-> turn.batch, base |-> 0, history |-> <<>>,
                      ordered |-> FALSE, tries |-> 0]
      BY <1>2 DEF Crash, NoTurn
    <3>2. turn'.step \in {"idle", "retrying"}
      BY <3>1 DEF NoTurn
    <3>3. QED
      BY <1>2, <3>2 DEF Crash, Unwritten, Running
  <2>3. QED
    BY <2>2, NotRunning
<1>3. CASE Expire
  <2>1. row'.history = row.history
    BY <1>3 DEF Expire, TypeInv, SessionTypeOK, Row
  <2>2. ~Running' /\ said' = said /\ capped' = capped
    BY <1>3 DEF Expire, Running
  <2>3. QED
    BY <2>1, <2>2, NotRunning
<1>4. CASE UNCHANGED sessionVars
  <2>1. Running' => Running
    BY <1>4 DEF sessionVars, Running
  <2>2. QED
    BY <1>4, <2>1, NothingWritten DEF sessionVars
<1>5. QED
  BY <1>1, <1>2, <1>3, <1>4

\* A write over what was not read is not forgotten.
LEMMA RacedStays == raced /\ [SessionNext]_sessionVars => raced'
BY DEF SessionNext, sessionVars, ReadOnArrival, RecordInbound, RecordInboundFails, ReadForPush,
       RecordPush, TurnStep, BeginTurn, RetryTurn, ReadWhilePaused, Superseded, Crash,
       ReadForConfirmation, RecordConfirmation, ReadForSave, SaveTurn, StoreWhilePaused, Expire,
       Appended, Update, Unwritten

LEMMA KeepStep ==
    ASSUME TypeInv, KeepInv, [SessionNext]_sessionVars
    PROVE  KeepInv'
<1> SUFFICES ASSUME ~raced' PROVE Kept'
  BY DEF KeepInv
<1>0. Kept /\ ~raced
  BY RacedStays DEF KeepInv
<1>1. CASE \E i \in Inbound : ReadOnArrival(i) \/ RecordInbound(i) \/ RecordInboundFails(i)
  BY <1>0, <1>1, ArrivalKeeps
<1>2. CASE \E p \in Pushes : ReadForPush(p) \/ RecordPush(p)
  BY <1>0, <1>2, PushKeeps
<1>3. CASE TurnStep
  <2>1. ASSUME RetryTurn \/ \E b \in SUBSET Inbound : BeginTurn(b) PROVE Kept'
    <3>1. turn.batch \in SUBSET Inbound /\ 0 \in 0..1 /\ 1 \in 0..1
      <4>1. turn \in TurnType
        BY DEF TypeInv, SessionTypeOK, TurnType
      <4>2. QED
        BY <4>1 DEF TurnType
    <3>2. QED
      BY <1>0, <2>1, <3>1, BeginKeeps DEF RetryTurn, BeginTurn
  <2>2. QED
    BY <1>0, <1>3, <2>1, TurnReadKeeps, TurnAppendKeeps, SaveTurnKeeps, OthersKeep DEF TurnStep
<1>4. CASE Expire \/ UNCHANGED sessionVars
  BY <1>0, <1>4, OthersKeep
<1>5. QED
  BY <1>1, <1>2, <1>3, <1>4 DEF SessionNext

\* Nothing that was said is lost (_save, _merge_interleaved, drop_provisional): until
\* the archive cap first drops a message, whatever a committed transaction has added is
\* in the transcript, although a turn saves a copy as old as the turn and transactions
\* overlap as they like -- until one has overwritten what it had not read.
THEOREM NothingIsLost == SessionSpec => []NothingLost
<1>1. KeepInv => NothingLost
  BY DEF KeepInv, Kept, NothingLost
<1>2. TypeInv /\ KeepInv /\ [SessionNext]_sessionVars => (TypeInv /\ KeepInv)'
  BY KeepStep, TypesStep
<1>3. SessionInit => TypeInv /\ KeepInv
  BY TypesInit, KeepInit DEF KeepInv
<1>4. QED
  BY <1>1, <1>2, <1>3, PTL DEF SessionSpec

-----------------------------------------------------------------------------
(* A call and its result stay together.                                    *)

\* In the turn's copy, in what others append while it runs, and in the row's context.
CopyPaired == Running => Paired(turn.history)
OthersAppend ==
    Running => \A i \in DOMAIN row.history : i > turn.base => row.history[i].role \in {"user", "push"}
RowPaired == Paired(Live(row))

Pairs == CopyPaired /\ OthersAppend /\ RowPaired

\* Until a write over an unread row, or a cap that cuts the context itself.
PairInv == ~clipped /\ ~raced => Pairs

LEMMA PairsInit == SessionInit => Pairs
<1> SUFFICES ASSUME SessionInit PROVE Pairs
  OBVIOUS
<1>1. row.history = <<>> /\ row.start = 0 /\ turn.step = "idle"
  BY DEF SessionInit, NoTurn
<1>2. Live(row) = <<>>
  BY <1>1 DEF Live, From
<1>3. Paired(<<>>)
  BY DEF Paired
<1>4. RowPaired
  BY <1>2, <1>3 DEF RowPaired
<1>5. QED
  BY <1>1, <1>4 DEF Pairs, CopyPaired, OthersAppend, Running

\* A step that leaves the row and the turn's copy as they are, or ends the turn.
LEMMA PairsUntouched ==
    ASSUME Pairs, row'.history = row.history, row'.start = row.start,
           Running' => Running /\ turn'.base = turn.base /\ turn'.history = turn.history
    PROVE  Pairs'
<1>1. Live(row') = Live(row)
  BY DEF Live
<1>2. QED
  BY <1>1 DEF Pairs, CopyPaired, OthersAppend, RowPaired

LEMMA AppendedPairs ==
    ASSUME TypeInv, Kept, Pairs, ~raced, ~raced', ~clipped',
           NEW w \in Writers, NEW m \in Message, NEW ids, Appended(w, <<m>>, ids),
           m.provisional => m.of # {}, m.role \in {"user", "push"},
           ids = {} \/ ~Running',
           Running' => Running /\ turn'.base = turn.base /\ turn'.history = turn.history
    PROVE  Pairs'
<1>1. /\ row.history \in Seq(Message) /\ row' = AppendTo(row, <<m>>, ids)
      /\ ids = {} => \E c \in 0..(Len(row.history) + 1) : row'.history = From(row.history \o <<m>>, c + 1)
  BY AppendedKeeps
<1>2. row \in Row /\ row.start <= Len(row.history) /\ Paired(Live(row)) /\ turn \in TurnType
  BY DEF TypeInv, SessionTypeOK, Pairs, RowPaired, TurnType
<1>3. ~OverCap(Trim(Context(row, m, ids), HistoryCap))
  <2>1. /\ raced' = (raced \/ reads[w] # row)
        /\ clipped' = (clipped \/ OverCap(Trim(Context(reads[w], m, ids), HistoryCap)))
    BY DEF Appended, Update, Context
  <2>2. QED
    BY <2>1
<1>4. PICK a : a = AppendTo(row, <<m>>, ids)
  OBVIOUS
<1>5. Paired(Live(a))
  <2>1. m.role \notin {"call", "results"}
    OBVIOUS
  <2>2. QED
    BY <1>2, <1>3, <1>4, <2>1, AppendPairs
<1>6. RowPaired'
  BY <1>1, <1>4, <1>5 DEF RowPaired
<1>7. ASSUME Running'
      PROVE  \A i \in DOMAIN row'.history : i > turn'.base => row'.history[i].role \in {"user", "push"}
  <2>1. ids = {} /\ Running /\ turn'.base = turn.base /\ turn.base \in Nat
    BY <1>2, <1>7 DEF TurnType
  <2>2. PICK c \in 0..(Len(row.history) + 1) : row'.history = From(row.history \o <<m>>, c + 1)
    BY <1>1, <2>1
  <2>3. PICK h, k, since : h = row.history /\ k = row'.history /\ since = turn.base
    OBVIOUS
  <2>4. h \in Seq(Message) /\ since \in Nat /\ c \in 0..(Len(h) + 1) /\ k = From(h \o <<m>>, c + 1)
    BY <1>1, <2>1, <2>2, <2>3
  <2>5. \A i \in DOMAIN k : i > since =>
          k[i].role = m.role \/ \E j \in DOMAIN h : j > since /\ k[i].role = h[j].role
    BY <2>4, AppendRoles, SMTT(60)
  <2>6. \A j \in DOMAIN h : j > since => h[j].role \in {"user", "push"}
    BY <2>1, <2>3 DEF Pairs, OthersAppend
  <2>7. \A i \in DOMAIN k : i > since => k[i].role \in {"user", "push"}
    BY <2>5, <2>6
  <2>8. QED
    BY <2>1, <2>3, <2>7
<1>8. OthersAppend'
  BY <1>7 DEF OthersAppend
<1>9. CopyPaired'
  BY DEF Pairs, CopyPaired
<1>10. QED
  BY <1>6, <1>8, <1>9 DEF Pairs

LEMMA ArrivalPairs ==
    ASSUME TypeInv, Kept, Pairs, ~raced, ~raced', ~clipped', NEW i \in Inbound,
           ReadOnArrival(i) \/ RecordInbound(i) \/ RecordInboundFails(i)
    PROVE  Pairs'
<1>1. i \in Writers
  BY WriterNames
<1>2. CASE ReadOnArrival(i)
  BY <1>2, PairsUntouched DEF ReadOnArrival, Running
<1>3. CASE RecordInbound(i)
  <2>1. PICK m : m = OnArrival(i)
    OBVIOUS
  <2>2. m \in Message /\ m.role = "user" /\ m.of = {i}
    BY <2>1, OnArrivalType
  <2>3. Appended(i, <<m>>, {}) /\ turn' = turn
    BY <1>3, <2>1 DEF RecordInbound
  <2>4. QED
    BY <1>1, <2>2, <2>3, AppendedPairs DEF Running
<1>4. CASE RecordInboundFails(i)
  BY <1>4, PairsUntouched DEF RecordInboundFails, Unwritten, Running
<1>5. QED
  BY <1>2, <1>3, <1>4

LEMMA PushPairs ==
    ASSUME TypeInv, Kept, Pairs, ~raced, ~raced', ~clipped', NEW p \in Pushes,
           ReadForPush(p) \/ RecordPush(p)
    PROVE  Pairs'
<1>1. p \in Writers
  BY WriterNames
<1>2. CASE ReadForPush(p)
  BY <1>2, PairsUntouched DEF ReadForPush, Running
<1>3. CASE RecordPush(p)
  <2>1. PICK m : m = Say("push", {p})
    OBVIOUS
  <2>2. m \in Message /\ m.provisional = FALSE /\ m.role = "push"
    <3>1. "push" \in Roles /\ {p} \in SUBSET (Inbound \cup Pushes)
      BY DEF Roles
    <3>2. QED
      BY <2>1, <3>1, SayType
  <2>3. Appended(p, <<m>>, {}) /\ turn' = turn
    BY <1>3, <2>1 DEF RecordPush
  <2>4. QED
    BY <1>1, <2>2, <2>3, AppendedPairs DEF Running
<1>4. QED
  BY <1>2, <1>3

\* The copy a turn begins with ends with the customer's message, and nobody has
\* written since.
LEMMA BeginPairs ==
    ASSUME TypeInv, Pairs, NEW b \in SUBSET Inbound, NEW tries \in 0..1,
           Begin(b, tries), row' = row
    PROVE  Pairs'
<1>1. /\ turn'.base = Len(row.history)
      /\ turn'.history = DropProvisional(Live(row), b \cap recorded) \o <<Say("user", b)>>
  BY BeginTypes
<1>2. row \in Row /\ row.start <= Len(row.history) /\ Paired(Live(row))
  BY DEF TypeInv, SessionTypeOK, Pairs, RowPaired
<1>3. PICK k, m : k = DropProvisional(Live(row), b \cap recorded) /\ m = Say("user", b)
  OBVIOUS
<1>4. k \in Seq(Message) /\ Paired(k)
  BY <1>2, <1>3, LiveType, DropFacts
<1>5. m \in Message /\ m.role = "user"
  <2>1. "user" \in Roles /\ b \in SUBSET (Inbound \cup Pushes)
    BY DEF Roles
  <2>2. QED
    BY <1>3, <2>1, SayType
<1>6. /\ <<m>> \in Seq(Message) /\ Len(<<m>>) = 1 /\ DOMAIN <<m>> = {1} /\ <<m>>[1] = m
  BY <1>5, OneMessage
<1>7. Paired(<<m>>)
  BY <1>5, <1>6, PairedPlain
<1>8. Paired(k \o <<m>>)
  BY <1>4, <1>6, <1>7, PairedConcat
<1>9. CopyPaired'
  BY <1>1, <1>3, <1>8 DEF CopyPaired
<1>10. OthersAppend'
  <2>1. row.history \in Seq(Message) /\ Len(row.history) \in Nat
    BY <1>2, LiveType
  <2>2. \A i \in DOMAIN row.history : ~(i > Len(row.history))
    BY <2>1
  <2>3. QED
    BY <1>1, <2>2 DEF OthersAppend
<1>11. RowPaired'
  BY DEF Pairs, RowPaired
<1>12. QED
  BY <1>9, <1>10, <1>11 DEF Pairs

LEMMA TurnReadPairs ==
    ASSUME TypeInv, Pairs,
           \/ ReadForConfirmation
           \/ \E added \in Outcomes(turn.batch) : ReadForSave(added)
           \/ \E b \in SUBSET Inbound : ReadWhilePaused(b)
    PROVE  Pairs'
<1>0. turn \in TurnType
  BY DEF TypeInv, SessionTypeOK, TurnType
<1>1. row' = row
  BY DEF ReadForConfirmation, ReadForSave, ReadWhilePaused
<1>2. CASE ReadForConfirmation
  <2>1. Running /\ turn'.base = turn.base /\ turn'.history = turn.history
    BY <1>0, <1>2 DEF ReadForConfirmation, TurnType, Running
  <2>2. QED
    BY <1>1, <2>1, PairsUntouched
<1>3. ASSUME NEW added \in Outcomes(turn.batch), ReadForSave(added) PROVE Pairs'
  <2>1. /\ Running /\ turn'.base = turn.base /\ turn'.history = turn.history \o added
        /\ turn.batch \in SUBSET Inbound /\ turn.history \in Seq(Message)
    BY <1>0, <1>3 DEF ReadForSave, TurnType, Running
  <2>2. added \in Seq(Message) /\ Paired(added)
    BY <2>1, OutcomesFacts
  <2>3. Paired(turn.history)
    BY <2>1 DEF Pairs, CopyPaired
  <2>4. CopyPaired'
    BY <2>1, <2>2, <2>3, PairedConcat DEF CopyPaired
  <2>5. OthersAppend' /\ RowPaired'
    BY <1>1, <2>1 DEF Pairs, OthersAppend, RowPaired
  <2>6. QED
    BY <2>4, <2>5 DEF Pairs
<1>4. ASSUME NEW b \in SUBSET Inbound, ReadWhilePaused(b) PROVE Pairs'
  <2>1. ~Running'
    BY <1>4 DEF ReadWhilePaused, Running, NoTurn
  <2>2. QED
    BY <1>1, <2>1, PairsUntouched
<1>5. QED
  BY <1>2, <1>3, <1>4

LEMMA TurnAppendPairs ==
    ASSUME TypeInv, Kept, Pairs, ~raced, ~raced', ~clipped', RecordConfirmation \/ StoreWhilePaused
    PROVE  Pairs'
<1>0. turn \in TurnType /\ turn.batch \in SUBSET Inbound /\ "turn" \in Writers
  BY WriterNames DEF TypeInv, SessionTypeOK, TurnType
<1>1. CASE RecordConfirmation
  <2>1. PICK m : m = Say("push", turn.batch)
    OBVIOUS
  <2>2. m \in Message /\ m.provisional = FALSE /\ m.role = "push"
    <3>1. "push" \in Roles /\ turn.batch \in SUBSET (Inbound \cup Pushes)
      BY <1>0 DEF Roles
    <3>2. QED
      BY <2>1, <3>1, SayType, ZenonT(60)
  <2>3. Appended("turn", <<m>>, {})
    BY <1>1, <2>1 DEF RecordConfirmation
  <2>4. Running /\ turn'.base = turn.base /\ turn'.history = turn.history
    BY <1>0, <1>1 DEF RecordConfirmation, TurnType, Running
  <2>5. QED
    BY <1>0, <2>2, <2>3, <2>4, AppendedPairs
<1>2. CASE StoreWhilePaused
  <2>1. PICK m, ids : m = Say("user", turn.batch) /\ ids = turn.batch \cap recorded
    OBVIOUS
  <2>2. m \in Message /\ m.provisional = FALSE /\ m.role = "user"
    <3>1. "user" \in Roles /\ turn.batch \in SUBSET (Inbound \cup Pushes)
      BY <1>0 DEF Roles
    <3>2. QED
      BY <2>1, <3>1, SayType
  <2>3. Appended("turn", <<m>>, ids) /\ turn' = NoTurn
    BY <1>2, <2>1 DEF StoreWhilePaused
  <2>4. ~Running'
    BY <2>3 DEF NoTurn, Running
  <2>5. QED
    BY <1>0, <2>2, <2>3, <2>4, AppendedPairs
<1>3. QED
  BY <1>1, <1>2

\* A turn's save cuts no pair: what others have written is folded in ahead of the
\* reply, and the cap leaves the context as `trim` made it.
LEMMA SaveTurnPairs ==
    ASSUME TypeInv, Pairs, ~raced, ~raced', ~clipped', SaveTurn
    PROVE  Pairs'
<1>0. turn \in TurnType
  BY DEF TypeInv, SessionTypeOK, TurnType
<1>1. reads["turn"] = row
  BY DEF SaveTurn, Update
<1>2. PICK h, s, merged :
        h = row.history /\ s = turn.history /\ merged = MergeInterleaved(s, h, turn.base)
  OBVIOUS
<1>3. /\ row' = Save(row, merged) /\ turn'.step = "idle" /\ turn.step = "saving"
      /\ ~OverCap(Trim(merged, HistoryCap))
  BY <1>1, <1>2 DEF SaveTurn, Update, NoTurn
<1>4. CopyPaired' /\ OthersAppend'
  BY <1>3 DEF CopyPaired, OthersAppend, Running
<1>5. /\ row \in Row /\ row.start <= Len(row.history)
      /\ h \in Seq(Message) /\ s \in Seq(Message) /\ turn.base \in Nat
  BY <1>0, <1>2, LiveType DEF TypeInv, SessionTypeOK, TurnType
<1>6. /\ Paired(s)
      /\ \A i \in DOMAIN h : i > turn.base => h[i].role \in {"user", "push"}
  BY <1>2, <1>3 DEF Pairs, CopyPaired, OthersAppend, Running
<1>7. merged \in Seq(Message) /\ Paired(merged)
  BY <1>2, <1>5, <1>6, MergeKeeps, MergePairs
<1>8. HistoryCap \in Nat \ {0} /\ ArchiveCap \in Nat
  BY SessionAssumption
<1>9. PICK t : t = Trim(merged, HistoryCap)
  OBVIOUS
<1>10. t \in Seq(Message) /\ Paired(t)
  BY <1>7, <1>8, <1>9, TrimKeeps
<1>11. ~OverCap(Untruncated(row, merged)) \/ Len(t) <= ArchiveCap
  <2>1. ~OverCap(t) /\ Len(t) \in Nat
    BY <1>3, <1>9, <1>10
  <2>2. QED
    BY <1>8, <2>1 DEF OverCap
<1>12. Live(Save(row, merged)) = t
  BY <1>5, <1>7, <1>9, <1>11, SaveFacts
<1>13. RowPaired'
  BY <1>3, <1>10, <1>12 DEF RowPaired
<1>14. QED
  BY <1>4, <1>13 DEF Pairs

LEMMA OthersPair ==
    ASSUME TypeInv, Pairs, Superseded \/ Crash \/ Expire \/ UNCHANGED sessionVars
    PROVE  Pairs'
<1>1. CASE Superseded
  BY <1>1, PairsUntouched DEF Superseded, Running, NoTurn
<1>2. CASE Crash
  <2>1. row' = row
    BY <1>2 DEF Crash, Unwritten
  <2>2. \/ turn' = NoTurn
        \/ turn' = [step |-> "retrying", batch |-> turn.batch, base |-> 0, history |-> <<>>,
                    ordered |-> FALSE, tries |-> 0]
    BY <1>2 DEF Crash, NoTurn
  <2>3. ~Running'
    BY <2>2 DEF Running, NoTurn
  <2>4. QED
    BY <2>1, <2>3, PairsUntouched
<1>3. CASE Expire
  <2>1. row'.history = row.history /\ row'.start = row.start /\ ~Running'
    BY <1>3 DEF Expire, TypeInv, SessionTypeOK, Row, Running
  <2>2. QED
    BY <2>1, PairsUntouched
<1>4. CASE UNCHANGED sessionVars
  BY <1>4, PairsUntouched DEF sessionVars, Running
<1>5. QED
  BY <1>1, <1>2, <1>3, <1>4

LEMMA ClippedStays == clipped /\ [SessionNext]_sessionVars => clipped'
BY DEF SessionNext, sessionVars, ReadOnArrival, RecordInbound, RecordInboundFails, ReadForPush,
       RecordPush, TurnStep, BeginTurn, RetryTurn, ReadWhilePaused, Superseded, Crash,
       ReadForConfirmation, RecordConfirmation, ReadForSave, SaveTurn, StoreWhilePaused, Expire,
       Appended, Update, Unwritten

LEMMA PairsStep ==
    ASSUME TypeInv, KeepInv, PairInv, [SessionNext]_sessionVars
    PROVE  PairInv'
<1> SUFFICES ASSUME ~raced', ~clipped' PROVE Pairs'
  BY DEF PairInv
<1>0. Kept /\ Pairs /\ ~raced /\ turn \in TurnType
  BY RacedStays, ClippedStays DEF KeepInv, PairInv, TypeInv, SessionTypeOK, TurnType
<1>1. CASE \E i \in Inbound : ReadOnArrival(i) \/ RecordInbound(i) \/ RecordInboundFails(i)
  BY <1>0, <1>1, ArrivalPairs
<1>2. CASE \E p \in Pushes : ReadForPush(p) \/ RecordPush(p)
  BY <1>0, <1>2, PushPairs
<1>3. CASE TurnStep
  <2>1. ASSUME RetryTurn \/ \E b \in SUBSET Inbound : BeginTurn(b) PROVE Pairs'
    <3>1. turn.batch \in SUBSET Inbound /\ 0 \in 0..1 /\ 1 \in 0..1
      BY <1>0 DEF TurnType
    <3>2. QED
      BY <1>0, <2>1, <3>1, BeginPairs DEF RetryTurn, BeginTurn
  <2>2. QED
    BY <1>0, <1>3, <2>1, TurnReadPairs, TurnAppendPairs, SaveTurnPairs, OthersPair DEF TurnStep
<1>4. CASE Expire \/ UNCHANGED sessionVars
  BY <1>0, <1>4, OthersPair
<1>5. QED
  BY <1>1, <1>2, <1>3, <1>4 DEF SessionNext

\* The model is never sent a call without its result or a result without its call
\* (trim, carry_over, _merge_interleaved, the archive cap), whatever transactions
\* overlap -- until one has overwritten what it had not read, or the archive cap has
\* cut the context itself.
THEOREM PairsKept == SessionSpec => []PairsStayTogether
<1>1. PairInv => PairsStayTogether
  BY DEF PairInv, Pairs, CopyPaired, RowPaired, Running, PairsStayTogether
<1>2. TypeInv /\ KeepInv /\ PairInv /\ [SessionNext]_sessionVars => (TypeInv /\ KeepInv /\ PairInv)'
  BY TypesStep, KeepStep, PairsStep
<1>3. SessionInit => TypeInv /\ KeepInv /\ PairInv
  BY TypesInit, KeepInit, PairsInit DEF KeepInv, PairInv
<1>4. QED
  BY <1>1, <1>2, <1>3, PTL DEF SessionSpec
=============================================================================
