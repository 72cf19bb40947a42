----------------------------- MODULE Dispatcher -----------------------------
(***************************************************************************)
(* The message dispatcher (assistant/dispatcher.py): webhook threads hand  *)
(* it messages, it collects those of one conversation into a batch until   *)
(* a debounce timer fires, and runs the handler on the batch on a worker   *)
(* of a bounded pool, one turn of a conversation at a time.  A turn that   *)
(* sees something newer gives way: its batch is carried into the next turn.*)
(*                                                                         *)
(* An action is one region the code runs under `self._lock`, or one step   *)
(* outside it that another thread can observe.  Time is abstracted: a      *)
(* timer that is armed may fire at any moment, so every window length that *)
(* `_wait_for` can return is covered.  Production runs with a positive     *)
(* debounce, so the inline path of `submit` is not modelled.               *)
(***************************************************************************)
EXTENDS Naturals, Sequences, FiniteSets

CONSTANTS
    Messages,       \* inbound platform messages, each delivered and claimed once
    Conversations,  \* the dispatcher's keys (external ids)
    ConvOf,         \* which conversation a message belongs to
    Workers,        \* threads of `_pool` (settings.message_workers)
    Locks,          \* identities of threading.Lock objects
    NoLock,         \* absence of a lock object
    NoTask,         \* what an idle worker holds
    MaxSupersedes,  \* MAX_SUPERSEDES
    Deploys         \* whether the process is shut down in this run

Batch == [msgs : SUBSET Messages, sup : Nat]
Task  == [conv : Conversations, batch : Batch]

ASSUME ConstantsAssumption ==
    /\ ConvOf \in [Messages -> Conversations]
    /\ IsFiniteSet(Workers)
    /\ NoLock \notin Locks
    /\ NoTask \notin Task
    /\ MaxSupersedes \in Nat
    /\ Deploys \in BOOLEAN

VARIABLES
    ingest,     \* message -> where the webhook thread that accepted it stands
    reviving,   \* batches a webhook thread popped from `_carry`, not yet submitted
    incoming,   \* `_incoming`: announced and not settled, per conversation
    pending,    \* `_pending`: the open batch of a conversation
    aged,       \* the open batch is older than _MEDIA_HOLD_SECONDS
    carry,      \* `_carry`: the superseded batch of a conversation
    timer,      \* the entry of `_timers`: none, armed, or fired already
    loose,      \* armed timers that `_timers` no longer refers to
    firing,     \* timer threads inside `_release`, waiting for `_lock`
    handing,    \* batches taken by `_release`, before its `_pool.submit`
    queue,      \* the pool's work queue
    pc,         \* worker -> the step of `_run_and_release` it is at
    task,       \* worker -> the (key, item) it runs
    lockRef,    \* worker -> the lock object `_conversation_lock` gave it
    lockOf,     \* `_conversation_locks`
    lockUsers,  \* `_lock_users`
    held,       \* the lock objects some thread holds
    inflight,   \* `_inflight`; `_idle` is set exactly when it is 0
    phase,      \* how far `shutdown` has come
    draining,   \* batches `shutdown` took from `_pending`, not yet submitted
    handled,    \* history: messages the handler has answered (or apologised for)
    gaveWay     \* history: how often a message's turn was superseded

webhookVars == <<ingest, reviving, incoming>>
timerVars   == <<timer, loose, firing>>
poolVars    == <<pc, task, lockRef>>
lockVars    == <<lockOf, lockUsers, held>>
history     == <<handled, gaveWay>>
vars == <<ingest, reviving, incoming, pending, aged, carry, timer, loose, firing,
          handing, queue, pc, task, lockRef, lockOf, lockUsers, held, inflight,
          phase, draining, handled, gaveWay>>

NoBatch == [msgs |-> {}, sup |-> 0]
TaskFor(k, b) == [conv |-> k, batch |-> b]

\* Pending.merge: the messages of both; `extras.update` lets the argument's
\* "superseded" count, when it has one, replace the receiver's.
Merge(b, other) ==
    [msgs |-> b.msgs \cup other.msgs,
     sup  |-> IF other.sup > 0 THEN other.sup ELSE b.sup]

IngestStates == {"new", "ingesting", "submitting", "settling", "submitted", "declined"}
PCs == {"idle", "queued", "waiting", "taking", "running", "yielding", "leaving",
        "unlocking", "flushing", "resubmitting", "finishing"}

Init ==
    /\ ingest = [m \in Messages |-> "new"]
    /\ reviving = {}
    /\ incoming = [k \in Conversations |-> 0]
    /\ pending = [k \in Conversations |-> NoBatch]
    /\ aged = [k \in Conversations |-> FALSE]
    /\ carry = [k \in Conversations |-> NoBatch]
    /\ timer = [k \in Conversations |-> "none"]
    /\ loose = [k \in Conversations |-> 0]
    /\ firing = [k \in Conversations |-> 0]
    /\ handing = {}
    /\ queue = <<>>
    /\ pc = [w \in Workers |-> "idle"]
    /\ task = [w \in Workers |-> NoTask]
    /\ lockRef = [w \in Workers |-> NoLock]
    /\ lockOf = [k \in Conversations |-> NoLock]
    /\ lockUsers = [k \in Conversations |-> 0]
    /\ held = {}
    /\ inflight = 0
    /\ phase = "open"
    /\ draining = {}
    /\ handled = {}
    /\ gaveWay = [m \in Messages |-> 0]

-----------------------------------------------------------------------------
(* Submission.                                                             *)

\* submit(key, item), the region under `_lock`: open a batch or merge into the
\* open one, cancel the timer `_timers` knows, arm a new one.  Cancelling a
\* timer that has fired already has no effect on its thread.
Submit(k, b) ==
    /\ pending' = [pending EXCEPT ![k] = Merge(@, b)]
    /\ inflight' = IF pending[k] = NoBatch THEN inflight + 1 ELSE inflight
    /\ timer' = [timer EXCEPT ![k] = "armed"]

\* has_newer(key)
HasNewer(k) ==
    \/ incoming[k] > 0
    \/ pending[k] # NoBatch
    \/ lockUsers[k] > 1

\* The condition under which _flush_carry(key) pops the carried batch.
CarryIsDue(k) ==
    /\ carry[k] # NoBatch
    /\ incoming[k] = 0
    /\ pending[k] = NoBatch
    /\ lockUsers[k] = 0

\* _uncount(key)
Uncount(k) == incoming' = [incoming EXCEPT ![k] = IF @ > 0 THEN @ - 1 ELSE 0]

-----------------------------------------------------------------------------
(* Webhook threads: _accept and _ingest of the channel adapter.            *)

\* The message is claimed and announced; its media download begins.
Announce(m) ==
    /\ phase = "open"
    /\ ingest[m] = "new"
    /\ ingest' = [ingest EXCEPT ![m] = "ingesting"]
    /\ incoming' = [incoming EXCEPT ![ConvOf[m]] = @ + 1]
    /\ UNCHANGED <<reviving, pending, aged, carry, timerVars, handing, queue, poolVars,
                   lockVars, inflight, phase, draining, history>>

\* settle_and_submit, its first half: the message stops being "incoming".
Ready(m) ==
    /\ ingest[m] = "ingesting"
    /\ ingest' = [ingest EXCEPT ![m] = "submitting"]
    /\ Uncount(ConvOf[m])
    /\ UNCHANGED <<reviving, pending, aged, carry, timerVars, handing, queue, poolVars,
                   lockVars, inflight, phase, draining, history>>

\* settle_and_submit, its second half.
SubmitMessage(m) ==
    /\ ingest[m] = "submitting"
    /\ ingest' = [ingest EXCEPT ![m] = "submitted"]
    /\ Submit(ConvOf[m], [msgs |-> {m}, sup |-> 0])
    /\ UNCHANGED <<reviving, incoming, aged, carry, loose, firing, handing, queue, poolVars,
                   lockVars, phase, draining, history>>

\* settle, its first half: an unsupported type, or an error while ingesting.
Decline(m) ==
    /\ ingest[m] = "ingesting"
    /\ ingest' = [ingest EXCEPT ![m] = "settling"]
    /\ Uncount(ConvOf[m])
    /\ UNCHANGED <<reviving, pending, aged, carry, timerVars, handing, queue, poolVars,
                   lockVars, inflight, phase, draining, history>>

\* Mutant of SettleFlush: settle only uncounts.
SettleWithoutFlush(m) ==
    /\ ingest[m] = "settling"
    /\ ingest' = [ingest EXCEPT ![m] = "declined"]
    /\ UNCHANGED <<reviving, carry, incoming, pending, aged, timerVars, handing, queue, poolVars,
                   lockVars, inflight, phase, draining, history>>

\* settle, its second half: _flush_carry, up to the `submit` after it.
SettleFlush(m) ==
    LET k == ConvOf[m] IN
    /\ ingest[m] = "settling"
    /\ ingest' = [ingest EXCEPT ![m] = "declined"]
    /\ IF CarryIsDue(k)
         THEN /\ reviving' = reviving \cup {TaskFor(k, carry[k])}
              /\ carry' = [carry EXCEPT ![k] = NoBatch]
         ELSE UNCHANGED <<reviving, carry>>
    /\ UNCHANGED <<incoming, pending, aged, timerVars, handing, queue, poolVars, lockVars,
                   inflight, phase, draining, history>>

\* The `submit` at the end of a webhook thread's _flush_carry.
Revive(t) ==
    /\ t \in reviving
    /\ reviving' = reviving \ {t}
    /\ Submit(t.conv, t.batch)
    /\ UNCHANGED <<ingest, incoming, aged, carry, loose, firing, handing, queue, poolVars,
                   lockVars, phase, draining, history>>

-----------------------------------------------------------------------------
(* Timer threads.                                                          *)

\* The timer in `_timers` fires: its thread enters _release and waits there for
\* `_lock`.  Until some thread removes it the entry stays, and can no longer be
\* cancelled to any effect.
Fire(k) ==
    /\ timer[k] = "armed"
    /\ timer' = [timer EXCEPT ![k] = "fired"]
    /\ firing' = [firing EXCEPT ![k] = @ + 1]
    /\ UNCHANGED <<webhookVars, pending, aged, carry, loose, handing, queue, poolVars,
                   lockVars, inflight, phase, draining, history>>

\* A timer whose entry was overwritten or popped by another one's _release.
FireLoose(k) ==
    /\ loose[k] > 0
    /\ loose' = [loose EXCEPT ![k] = @ - 1]
    /\ firing' = [firing EXCEPT ![k] = @ + 1]
    /\ UNCHANGED <<webhookVars, pending, aged, carry, timer, handing, queue, poolVars,
                   lockVars, inflight, phase, draining, history>>

\* The open batch becomes older than _MEDIA_HOLD_SECONDS.
HoldExpires(k) ==
    /\ pending[k] # NoBatch
    /\ ~aged[k]
    /\ aged' = [aged EXCEPT ![k] = TRUE]
    /\ UNCHANGED <<webhookVars, pending, carry, timerVars, handing, queue, poolVars,
                   lockVars, inflight, phase, draining, history>>

MustHold(k) == pending[k] # NoBatch /\ incoming[k] > 0 /\ ~aged[k]

\* The armed timer of `_timers`, if any, is forgotten without being cancelled.
LoseEntry(k) == loose' = [loose EXCEPT ![k] = IF timer[k] = "armed" THEN @ + 1 ELSE @]

\* _release while a message is being ingested: look again shortly.
HoldBatch(k) ==
    /\ firing[k] > 0
    /\ MustHold(k)
    /\ firing' = [firing EXCEPT ![k] = @ - 1]
    /\ LoseEntry(k)
    /\ timer' = [timer EXCEPT ![k] = "armed"]
    /\ UNCHANGED <<webhookVars, pending, aged, carry, handing, queue, poolVars, lockVars,
                   inflight, phase, draining, history>>

\* _release takes the batch; `_pool.submit` comes after the lock is released.
\* The item of a timer that finds nothing is None, and only its busy count is
\* given back (_mark_done).
ReleaseBatch(k) ==
    /\ firing[k] > 0
    /\ ~MustHold(k)
    /\ firing' = [firing EXCEPT ![k] = @ - 1]
    /\ LoseEntry(k)
    /\ timer' = [timer EXCEPT ![k] = "none"]
    /\ IF pending[k] # NoBatch
         THEN /\ handing' = handing \cup {TaskFor(k, pending[k])}
              /\ UNCHANGED inflight
         ELSE /\ inflight' = IF inflight > 0 THEN inflight - 1 ELSE 0
              /\ UNCHANGED handing
    /\ pending' = [pending EXCEPT ![k] = NoBatch]
    /\ aged' = [aged EXCEPT ![k] = FALSE]
    /\ UNCHANGED <<webhookVars, carry, queue, poolVars, lockVars, phase, draining, history>>

\* `_pool.submit` of a timer thread.  After `_pool.shutdown` it raises, the
\* exception ends the timer thread, and the batch is gone.
HandToPool(t) ==
    /\ t \in handing
    /\ handing' = handing \ {t}
    /\ queue' = IF phase = "closed" THEN queue ELSE Append(queue, t)
    /\ UNCHANGED <<webhookVars, pending, aged, carry, timerVars, poolVars, lockVars,
                   inflight, phase, draining, history>>

-----------------------------------------------------------------------------
(* Pool threads: _run_and_release and _run.                                *)

Goto(w, from, to) == pc[w] = from /\ pc' = [pc EXCEPT ![w] = to]

\* A free thread of the pool takes the oldest task.
Start(w) ==
    /\ queue # <<>>
    /\ Goto(w, "idle", "queued")
    /\ task' = [task EXCEPT ![w] = Head(queue)]
    /\ queue' = Tail(queue)
    /\ UNCHANGED <<webhookVars, pending, aged, carry, timerVars, handing, lockRef,
                   lockVars, inflight, phase, draining, history>>

\* _conversation_lock(key): the conversation's lock object, made if there is
\* none, and one more user of it.
GetLock(w) ==
    LET k == task[w].conv IN
    /\ Goto(w, "queued", "waiting")
    /\ \E l \in Locks :
         /\ IF lockOf[k] = NoLock
              THEN l \notin {lockRef[v] : v \in Workers}
              ELSE l = lockOf[k]
         /\ lockOf' = [lockOf EXCEPT ![k] = l]
         /\ lockRef' = [lockRef EXCEPT ![w] = l]
    /\ lockUsers' = [lockUsers EXCEPT ![k] = @ + 1]
    /\ UNCHANGED <<webhookVars, pending, aged, carry, timerVars, handing, queue, task, held,
                   inflight, phase, draining, history>>

\* Mutant of Acquire: the handler runs without the conversation's lock.
AcquireUnlocked(w) ==
    /\ Goto(w, "waiting", "taking")
    /\ held' = held \cup {lockRef[w]}
    /\ UNCHANGED <<webhookVars, pending, aged, carry, timerVars, handing, queue, task, lockRef,
                   lockOf, lockUsers, inflight, phase, draining, history>>

\* `with lock:`
Acquire(w) ==
    /\ Goto(w, "waiting", "taking")
    /\ lockRef[w] \notin held
    /\ held' = held \cup {lockRef[w]}
    /\ UNCHANGED <<webhookVars, pending, aged, carry, timerVars, handing, queue, task, lockRef,
                   lockOf, lockUsers, inflight, phase, draining, history>>

\* Mutant of TakeCarry: the carried batch is read and not removed.
PeekCarry(w) ==
    LET k == task[w].conv IN
    /\ Goto(w, "taking", "running")
    /\ task' = [task EXCEPT ![w].batch = IF carry[k] = NoBatch THEN @ ELSE Merge(carry[k], @)]
    /\ UNCHANGED <<webhookVars, pending, aged, carry, timerVars, handing, queue, lockRef,
                   lockVars, inflight, phase, draining, history>>

\* _take_carry(key, item)
TakeCarry(w) ==
    LET k == task[w].conv IN
    /\ Goto(w, "taking", "running")
    /\ task' = [task EXCEPT ![w].batch = IF carry[k] = NoBatch THEN @ ELSE Merge(carry[k], @)]
    /\ carry' = [carry EXCEPT ![k] = NoBatch]
    /\ UNCHANGED <<webhookVars, pending, aged, timerVars, handing, queue, lockRef, lockVars,
                   inflight, phase, draining, history>>

\* The handler returns, or raises and is logged: its answer (or apology) went
\* out and the batch needs no further turn.
Answer(w) ==
    /\ Goto(w, "running", "leaving")
    /\ handled' = handled \cup task[w].batch.msgs
    /\ task' = [task EXCEPT ![w].batch = NoBatch]
    /\ UNCHANGED <<webhookVars, pending, aged, carry, timerVars, handing, queue, lockRef,
                   lockVars, inflight, phase, draining, gaveWay>>

\* Inside the handler, the reply composed: `superseded()` (_superseded_check of
\* the adapter) finds something newer, and the reply is dropped unsent.
SeeNewer(w) ==
    /\ Goto(w, "running", "yielding")
    /\ task[w].batch.sup < MaxSupersedes
    /\ HasNewer(task[w].conv)
    /\ UNCHANGED <<webhookVars, pending, aged, carry, timerVars, handing, queue, task, lockRef,
                   lockVars, inflight, phase, draining, history>>

\* supersede(key, item)
GiveWay(w) ==
    LET k == task[w].conv
        b == [task[w].batch EXCEPT !.sup = @ + 1]
    IN
    /\ Goto(w, "yielding", "leaving")
    /\ carry' = [carry EXCEPT ![k] = IF @ = NoBatch THEN b ELSE Merge(@, b)]
    /\ gaveWay' = [m \in Messages |-> IF m \in b.msgs THEN gaveWay[m] + 1 ELSE gaveWay[m]]
    /\ task' = [task EXCEPT ![w].batch = NoBatch]
    /\ UNCHANGED <<webhookVars, pending, aged, timerVars, handing, queue, lockRef, lockVars,
                   inflight, phase, draining, handled>>

\* Mutant of LeaveLock: the entry is deleted after every run, not refcounted.
LeaveAndForget(w) ==
    LET k == task[w].conv IN
    /\ Goto(w, "leaving", "unlocking")
    /\ lockUsers' = [lockUsers EXCEPT ![k] = @ - 1]
    /\ lockOf' = [lockOf EXCEPT ![k] = NoLock]
    /\ UNCHANGED <<webhookVars, pending, aged, carry, timerVars, handing, queue, task, lockRef,
                   held, inflight, phase, draining, history>>

\* _release_conversation_lock(key, lock): forget the lock once nobody uses it.
LeaveLock(w) ==
    LET k == task[w].conv
        left == lockUsers[k] - 1
    IN
    /\ Goto(w, "leaving", "unlocking")
    /\ lockUsers' = [lockUsers EXCEPT ![k] = left]
    /\ lockOf' = [lockOf EXCEPT ![k] =
                    IF left = 0 /\ @ = lockRef[w] THEN NoLock ELSE @]
    /\ UNCHANGED <<webhookVars, pending, aged, carry, timerVars, handing, queue, task, lockRef,
                   held, inflight, phase, draining, history>>

\* The end of `with lock:`
Unlock(w) ==
    /\ Goto(w, "unlocking", "flushing")
    /\ held' = held \ {lockRef[w]}
    /\ lockRef' = [lockRef EXCEPT ![w] = NoLock]
    /\ UNCHANGED <<webhookVars, pending, aged, carry, timerVars, handing, queue, task, lockOf,
                   lockUsers, inflight, phase, draining, history>>

\* Mutant of FlushCarry: _run ends without flushing.
EndWithoutFlush(w) ==
    /\ Goto(w, "flushing", "finishing")
    /\ UNCHANGED <<webhookVars, pending, aged, carry, timerVars, handing, queue, task, lockRef,
                   lockVars, inflight, phase, draining, history>>

\* _flush_carry(key) at the end of _run, up to the `submit` after it.
FlushCarry(w) ==
    LET k == task[w].conv IN
    /\ pc[w] = "flushing"
    /\ IF CarryIsDue(k)
         THEN /\ Goto(w, "flushing", "resubmitting")
              /\ task' = [task EXCEPT ![w].batch = carry[k]]
              /\ carry' = [carry EXCEPT ![k] = NoBatch]
         ELSE /\ Goto(w, "flushing", "finishing")
              /\ UNCHANGED <<task, carry>>
    /\ UNCHANGED <<webhookVars, pending, aged, timerVars, handing, queue, lockRef, lockVars,
                   inflight, phase, draining, history>>

\* The `submit` at the end of that _flush_carry.
Resubmit(w) ==
    /\ Goto(w, "resubmitting", "finishing")
    /\ Submit(task[w].conv, task[w].batch)
    /\ task' = [task EXCEPT ![w].batch = NoBatch]
    /\ UNCHANGED <<webhookVars, aged, carry, loose, firing, handing, queue, lockRef, lockVars,
                   phase, draining, history>>

\* _run_and_release's `finally`: _mark_done, and the thread is free again.
MarkDone(w) ==
    /\ Goto(w, "finishing", "idle")
    /\ inflight' = IF inflight > 0 THEN inflight - 1 ELSE 0
    /\ task' = [task EXCEPT ![w] = NoTask]
    /\ UNCHANGED <<webhookVars, pending, aged, carry, timerVars, handing, queue, lockRef,
                   lockVars, phase, draining, history>>

-----------------------------------------------------------------------------
(* shutdown(wait=True), called by app.py's lifespan once uvicorn has let    *)
(* every webhook request finish.                                           *)

\* Forget and cancel every timer in `_timers`.
ShutdownCancel ==
    /\ Deploys
    /\ phase = "open"
    /\ \A m \in Messages : ingest[m] \in {"new", "submitted", "declined"}
    /\ reviving = {}
    /\ phase' = "cancelled"
    /\ timer' = [k \in Conversations |-> "none"]
    /\ UNCHANGED <<webhookVars, pending, aged, carry, loose, firing, handing, queue, poolVars,
                   lockVars, inflight, draining, history>>

\* Take every open batch from `_pending`.
ShutdownDrain ==
    /\ phase = "cancelled"
    /\ phase' = "draining"
    /\ draining' = {TaskFor(k, pending[k]) : k \in {c \in Conversations : pending[c] # NoBatch}}
    /\ pending' = [k \in Conversations |-> NoBatch]
    /\ aged' = [k \in Conversations |-> FALSE]
    /\ UNCHANGED <<webhookVars, carry, timerVars, handing, queue, poolVars, lockVars,
                   inflight, history>>

\* `_pool.submit` of one of them.
ShutdownSubmit(t) ==
    /\ t \in draining
    /\ draining' = draining \ {t}
    /\ queue' = Append(queue, t)
    /\ UNCHANGED <<webhookVars, pending, aged, carry, timerVars, handing, poolVars, lockVars,
                   inflight, phase, history>>

\* `_pool.shutdown`: no new task is accepted; those queued still run.
ShutdownPool ==
    /\ phase = "draining"
    /\ draining = {}
    /\ phase' = "closed"
    /\ UNCHANGED <<webhookVars, pending, aged, carry, timerVars, handing, queue, poolVars,
                   lockVars, inflight, draining, history>>

\* With wait=True the call returns when every task has run; then the process
\* ends, and with it the daemon timers and everything still buffered.
Drained == phase = "closed" /\ queue = <<>> /\ \A w \in Workers : pc[w] = "idle"

-----------------------------------------------------------------------------

WorkerStep(w) ==
    \/ Start(w) \/ GetLock(w) \/ Acquire(w) \/ TakeCarry(w) \/ Answer(w) \/ SeeNewer(w)
    \/ GiveWay(w) \/ LeaveLock(w) \/ Unlock(w) \/ FlushCarry(w) \/ Resubmit(w) \/ MarkDone(w)

TimerStep(k) ==
    \/ Fire(k) \/ FireLoose(k) \/ HoldExpires(k) \/ HoldBatch(k) \/ ReleaseBatch(k)

WebhookStep(m) ==
    \/ Announce(m) \/ Ready(m) \/ SubmitMessage(m) \/ Decline(m) \/ SettleFlush(m)

Shutdown ==
    \/ ShutdownCancel \/ ShutdownDrain \/ ShutdownPool
    \/ \E t \in draining : ShutdownSubmit(t)

\* Every message that was announced has been answered or declined, and every
\* thread is done: where the dispatcher of a living process may rest.
Rest ==
    /\ \A m \in Messages : ingest[m] \in {"new", "declined"} \/ m \in handled
    /\ \A w \in Workers : pc[w] = "idle"
    /\ queue = <<>> /\ handing = {} /\ reviving = {}

Next ==
    \/ \E m \in Messages : WebhookStep(m)
    \/ \E t \in reviving : Revive(t)
    \/ \E k \in Conversations : TimerStep(k)
    \/ \E t \in handing : HandToPool(t)
    \/ \E w \in Workers : WorkerStep(w)
    \/ Shutdown
    \/ (Rest \/ Drained) /\ UNCHANGED vars

Spec == Init /\ [][Next]_vars
-----------------------------------------------------------------------------
(* Properties.                                                             *)

\* Every variable has its type; in particular no count goes below 0.
TypeOK ==
    /\ ingest \in [Messages -> IngestStates]
    /\ reviving \in SUBSET Task
    /\ incoming \in [Conversations -> Nat]
    /\ pending \in [Conversations -> Batch]
    /\ aged \in [Conversations -> BOOLEAN]
    /\ carry \in [Conversations -> Batch]
    /\ timer \in [Conversations -> {"none", "armed", "fired"}]
    /\ loose \in [Conversations -> Nat]
    /\ firing \in [Conversations -> Nat]
    /\ handing \in SUBSET Task
    /\ queue \in Seq(Task)
    /\ pc \in [Workers -> PCs]
    /\ task \in [Workers -> Task \cup {NoTask}]
    /\ lockRef \in [Workers -> Locks \cup {NoLock}]
    /\ lockOf \in [Conversations -> Locks \cup {NoLock}]
    /\ lockUsers \in [Conversations -> Nat]
    /\ held \in SUBSET Locks
    /\ inflight \in Nat
    /\ phase \in {"open", "cancelled", "draining", "closed"}
    /\ draining \in SUBSET Task
    /\ handled \in SUBSET Messages
    /\ gaveWay \in [Messages -> Nat]

InTurn(w) == pc[w] \in {"taking", "running", "yielding", "leaving"}

\* One conversation is answered one message at a time: no two threads are
\* between taking and leaving the lock of the same conversation, although its
\* lock object is forgotten and made anew all the time.
OneTurnPerConversation ==
    \A v, w \in Workers :
        InTurn(v) /\ InTurn(w) /\ task[v].conv = task[w].conv => v = w

\* The lock of a conversation is remembered exactly as long as some thread
\* uses it, so the dict does not grow with the number of customers.
LocksForgotten ==
    \A k \in Conversations : lockOf[k] = NoLock <=> lockUsers[k] = 0

\* The places a submitted message can be in.
Places(m) ==
    {<<"pending", k>> : k \in {c \in Conversations : m \in pending[c].msgs}} \cup
    {<<"carry", k>>   : k \in {c \in Conversations : m \in carry[c].msgs}} \cup
    {<<"reviving", t.batch>> : t \in {u \in reviving : m \in u.batch.msgs}} \cup
    {<<"handing", t.batch>>  : t \in {u \in handing : m \in u.batch.msgs}} \cup
    {<<"draining", t.batch>> : t \in {u \in draining : m \in u.batch.msgs}} \cup
    {<<"queue", i>>   : i \in {j \in DOMAIN queue : m \in queue[j].batch.msgs}} \cup
    {<<"worker", w>>  : w \in {v \in Workers : task[v] # NoTask /\ m \in task[v].batch.msgs}} \cup
    {<<"handled", h>> : h \in handled \cap {m}}

\* No message is lost and none is answered twice: from its submission on, a
\* message is in exactly one place, for every order in which timers, turns,
\* downloads, carried batches and a shutdown interleave -- and in at most one
\* once the pool no longer takes tasks.
NeitherLostNorTwice ==
    \A m \in Messages :
        /\ ingest[m] # "submitted" => Places(m) = {}
        /\ ingest[m] = "submitted" => Cardinality(Places(m)) <= 1
        /\ ingest[m] = "submitted" /\ phase # "closed" => Places(m) # {}

\* A batch gives way at most MAX_SUPERSEDES times, however it is carried,
\* merged and resubmitted: "a customer sending a message every few seconds
\* must still get replies".
GivesWayBoundedly == \A m \in Messages : gaveWay[m] <= MaxSupersedes

\* A carried batch is never forgotten: as long as the pool takes tasks,
\* something is under way in its conversation that will take it or flush it.
CarryHasTaker ==
    \A k \in Conversations : carry[k] # NoBatch /\ phase # "closed" =>
        \/ incoming[k] > 0
        \/ pending[k] # NoBatch
        \/ \E m \in Messages : ConvOf[m] = k /\ ingest[m] \in {"submitting", "settling"}
        \/ \E t \in handing \cup reviving \cup draining : t.conv = k
        \/ \E i \in DOMAIN queue : queue[i].conv = k
        \/ \E w \in Workers : /\ pc[w] \notin {"idle", "resubmitting", "finishing"}
                              /\ task[w].conv = k

\* `_idle` is never left clear: when nothing is buffered, queued or running, no
\* busy count is outstanding, so wait_idle does not block for ever.
NothingLeftCounted ==
    (/\ \A k \in Conversations : pending[k] = NoBatch
     /\ Rest) => inflight = 0

\* _flush_carry: a carried batch "is answered on its own -- never dropped".
\* When shutdown has returned, every message whose turn gave way is answered.
CarriedNeverDropped ==
    Drained => \A m \in Messages : gaveWay[m] > 0 => m \in handled

\* Every message handed to the dispatcher is answered in the end.
EveryMessageAnswered ==
    \A m \in Messages : ingest[m] = "submitted" ~> m \in handled

-----------------------------------------------------------------------------
(* Why OneTurnPerConversation holds: the inductive invariant of             *)
(* TurnsProofs.                                                            *)

UsingLock   == {"waiting", "taking", "running", "yielding", "leaving"}
HoldingLock == {"taking", "running", "yielding", "leaving", "unlocking"}

\* The threads _lock_users counts.
Users(k) == {w \in Workers : pc[w] \in UsingLock /\ task[w].conv = k}

\* A thread has a task exactly when it is not idle.
TasksMatchThreads == \A w \in Workers : pc[w] = "idle" <=> task[w] = NoTask

\* Every thread that uses a conversation's lock refers to the object the dict
\* has for it, no object has two holders, and the count is the number of users.
LocksMatchThreads ==
    /\ \A w \in Workers : pc[w] \in UsingLock =>
          lockRef[w] \in Locks /\ lockRef[w] = lockOf[task[w].conv]
    /\ \A w \in Workers : pc[w] \in HoldingLock => lockRef[w] \in held
    /\ \A v, w \in Workers :
          pc[v] \in HoldingLock /\ pc[w] \in HoldingLock /\ lockRef[v] = lockRef[w] => v = w
    /\ \A k \in Conversations : lockUsers[k] = Cardinality(Users(k))
    /\ LocksForgotten

IInv == TypeOK /\ TasksMatchThreads /\ LocksMatchThreads

-----------------------------------------------------------------------------
(* Fairness: every thread that can take a step eventually takes it.  The   *)
(* operating system schedules pool, timer and webhook threads, a handler   *)
(* returns (its calls have timeouts), and a media download ends.           *)

Fairness ==
    /\ \A m \in Messages :
         /\ WF_vars(Ready(m) \/ Decline(m))
         /\ WF_vars(SubmitMessage(m) \/ SettleFlush(m))
    /\ WF_vars(\E t \in reviving : Revive(t))
    /\ WF_vars(\E t \in handing : HandToPool(t))
    /\ \A k \in Conversations :
         /\ WF_vars(Fire(k))
         /\ WF_vars(FireLoose(k))
         /\ WF_vars(HoldExpires(k))
         /\ WF_vars(HoldBatch(k) \/ ReleaseBatch(k))
    /\ \A w \in Workers : WF_vars(WorkerStep(w))

FairSpec == Spec /\ Fairness

-----------------------------------------------------------------------------
(* The promise: Dispatcher implements ConversationTurns.                   *)

\* What the shop owes a message, read off where the dispatcher has it.
turnStatus ==
    [m \in Messages |->
        IF m \in handled THEN "answered"
        ELSE IF \E w \in Workers : /\ pc[w] \in {"running", "yielding"}
                                   /\ m \in task[w].batch.msgs THEN "inTurn"
        ELSE IF ingest[m] = "submitted" THEN "owed"
        ELSE IF ingest[m] = "declined" THEN "declined"
        ELSE "unsent"]

Turns == INSTANCE ConversationTurns WITH status <- turnStatus

\* Every behaviour of the dispatcher is one of ConversationTurns: threads, timers,
\* carried batches and locks add up to turns that answer all their messages or
\* give them back, one turn of a conversation at a time.
ImplementsTurns == Turns!Spec
=============================================================================
