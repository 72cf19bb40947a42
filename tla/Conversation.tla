---------------------------- MODULE Conversation ----------------------------
(***************************************************************************)
(* One customer's conversation, from the delivery of a message to its      *)
(* answer, with the handoff to staff: the webhook of an adapter            *)
(* (assistant/channels/), the claims and the turn around the model         *)
(* (assistant/runtime.py, turn_retry.py), taking a conversation back       *)
(* (assistant/recovery.py) and the dashboard's buttons (dashboard/web.py). *)
(*                                                                         *)
(* The dispatcher is taken at its word (ConversationTurns): messages wait, *)
(* one turn at a time takes those that wait, and it answers them or gives  *)
(* them back.  A turn is one transaction; the reply leaves after its       *)
(* commit.  Rows are read without a lock; an UPDATE of the identity or of  *)
(* a handoff holds the row until its transaction ends, which for a turn    *)
(* that took the conversation back is the whole turn.  SQLAlchemy writes   *)
(* an attribute only if its value changes.  What the transcript says is    *)
(* SessionStore's matter.                                                  *)
(***************************************************************************)
EXTENDS Integers, Sequences, FiniteSets, FiniteSetsExt

CONSTANTS
    Messages,       \* ids the platform gives to what the customer sends
    Unsupported,    \* those the bot cannot open: stickers, videos
    Staff,
    Faults,         \* what may go wrong
    MaxCopies,      \* bound: message -> deliveries of it
    MaxHandoffs,    \* bound: the bot hands over only below it
    MaxClicks,      \* bound: what staff do
    MaxRestarts     \* bound: ends of the process

AllFaults == {"accept_fails", "turn_crashes", "send_fails"}

ASSUME ConversationAssumption ==
    /\ Unsupported \subseteq Messages
    /\ Faults \subseteq AllFaults
    /\ MaxCopies \in [Messages -> Nat] /\ MaxHandoffs \in Nat /\ MaxClicks \in Nat /\ MaxRestarts \in Nat

VARIABLES
    \* committed
    claims,     \* webhook_events
    paused,     \* ChannelIdentity.paused_until_staff_reply
    handoffs,   \* the conversation's handoff items, oldest first
    \* in memory
    intake,     \* message -> the webhook request that has it in hand
    waiting,    \* handed to the dispatcher and in no turn
    turn,       \* the running turn
    desk,       \* member of staff -> the request they wait for
    \* external
    copies,     \* message -> deliveries so far
    clicks, restarts,
    \* history, read by properties alone
    answers,    \* message -> replies and apologies the customer got for it
    given,      \* message -> claims given back
    settled,    \* messages that were dealt with
    cut,        \* messages in hand when the process ended, or a send raised
    custody,    \* staff have the conversation: its returns when they opened it
    releases    \* how often staff handed it back

claimVars == <<claims, copies, given>>
custodyVars == <<custody, releases>>
askVars   == <<paused, handoffs, custodyVars>>
endVars   == <<answers, settled, cut>>
vars == <<claims, paused, handoffs, intake, waiting, turn, desk, copies,
          clicks, restarts, answers, given, settled, cut, custody, releases>>

\* `stamp`: auto_resume_after_abandonment; `resumed`: auto_resumed_at is set;
\* `heard`: a line by staff is in the transcript since it was raised.
Handoff == [open : BOOLEAN, stamp : BOOLEAN, resumed : BOOLEAN, heard : BOOLEAN]
Out == [at |-> "out"]
Idle == [at |-> "idle"]
Nobody == -1

Init ==
    /\ claims = {}
    /\ paused = FALSE /\ handoffs = <<>>
    /\ intake = [m \in Messages |-> Out]
    /\ waiting = {} /\ turn = Idle
    /\ desk = [s \in Staff |-> Idle]
    /\ copies = [m \in Messages |-> 0]
    /\ clicks = 0 /\ restarts = 0
    /\ answers = [m \in Messages |-> 0]
    /\ given = [m \in Messages |-> 0]
    /\ settled = {} /\ cut = {}
    /\ custody = Nobody /\ releases = 0

\* The turn has updated the identity and not committed yet.
HoldsIdentity == turn.at = "model" /\ turn.resumed

\* The handoffs the bot took back.
Resumed == {i \in DOMAIN handoffs : handoffs[i].resumed}

\* How often the bot got the conversation back, of itself or from staff.
Returns == Cardinality(Resumed) + releases

-----------------------------------------------------------------------------
(* The webhook: `inbound`, `_accept`, `_ingest`.                           *)

\* Mutant of Deliver: the claim is not looked at.
DeliverAgain(m) ==
    /\ copies[m] < MaxCopies[m]
    /\ intake[m] = Out
    /\ copies' = [copies EXCEPT ![m] = @ + 1]
    /\ claims' = claims \cup {m}
    /\ intake' = [intake EXCEPT ![m] = [at |-> "claimed"]]
    /\ UNCHANGED <<askVars, waiting, turn, desk, clicks, restarts, given, endVars>>

\* A delivery; platforms repeat them.  The claim is a transaction of its own.
Deliver(m) ==
    /\ copies[m] < MaxCopies[m]
    /\ copies' = [copies EXCEPT ![m] = @ + 1]
    /\ claims' = claims \cup {m}
    /\ intake' = IF m \in claims THEN intake ELSE [intake EXCEPT ![m] = [at |-> "claimed"]]
    /\ UNCHANGED <<askVars, waiting, turn, desk, clicks, restarts, given, endVars>>

\* Stored (RecordInbound of SessionStore) and handed to the dispatcher.
Submit(m) ==
    /\ intake[m].at = "claimed"
    /\ m \notin Unsupported
    /\ intake' = [intake EXCEPT ![m] = Out]
    /\ waiting' = waiting \cup {m}
    /\ UNCHANGED <<claimVars, askVars, turn, desk, clicks, restarts, endVars>>

\* A handoff as `raise_handoff` queues it.
Raised(stamp) == [open |-> TRUE, stamp |-> stamp, resumed |-> FALSE, heard |-> FALSE]

\* `raise_handoff` for a message the bot cannot open: `pause` reads the identity ...
ReadForHandoff(m) ==
    /\ intake[m].at = "claimed"
    /\ m \in Unsupported
    /\ intake' = [intake EXCEPT ![m] = [at |-> "pausing", paused |-> paused]]
    /\ UNCHANGED <<claimVars, askVars, waiting, turn, desk, clicks, restarts, endVars>>

\* ... and updates it, once no turn holds it; the customer is told that a person
\* will answer.
RaiseHandoff(m) ==
    /\ intake[m].at = "pausing"
    /\ ~HoldsIdentity
    /\ handoffs' = Append(handoffs, Raised(TRUE))
    /\ paused' = (paused \/ ~intake[m].paused)
    /\ intake' = [intake EXCEPT ![m] = Out]
    /\ settled' = settled \cup {m}
    /\ answers' = [answers EXCEPT ![m] = @ + 1]
    /\ UNCHANGED <<claimVars, custodyVars, waiting, turn, desk, clicks, restarts, cut>>

\* `_accept` raises: the claim is given back, and the webhook answers 200.
AcceptFails(m) ==
    /\ "accept_fails" \in Faults
    /\ intake[m].at # "out"
    /\ intake' = [intake EXCEPT ![m] = Out]
    /\ claims' = claims \ {m}
    /\ given' = [given EXCEPT ![m] = @ + 1]
    /\ UNCHANGED <<copies, askVars, waiting, turn, desk, clicks, restarts, endVars>>

-----------------------------------------------------------------------------
(* The turn: `_deliver_turn`, `call_with_retry`, `_handle`.                *)

\* `resumable_handoff`: the newest handoff, if it is open, was raised over a message,
\* is stamped still, and no member of staff has written since.
Resumable ==
    /\ handoffs # <<>>
    /\ LET item == handoffs[Len(handoffs)] IN item.open /\ item.stamp /\ ~item.heard

\* What `_handle` makes of a conversation as it reads it.  Ten minutes after the
\* handoff it is not resumed any more.
Readings ==
    IF ~paused THEN {"model"}
    ELSE IF Resumable THEN {"resuming", "keep"}
    ELSE {"keep"}

BeginTurn ==
    /\ turn = Idle
    /\ waiting # {}
    /\ waiting' = {}
    /\ \E at \in Readings :
         turn' = [at |-> at, ms |-> waiting, attempt |-> 1,
                    resumed |-> FALSE, item |-> Len(handoffs)]
    /\ UNCHANGED <<claimVars, askVars, intake, desk, clicks, restarts, endVars>>

\* Mutant of RetryTurn: every crash counts as the first.
RetryForever ==
    /\ turn.at = "retry"
    /\ \E at \in Readings : turn' = [turn EXCEPT !.at = at, !.resumed = FALSE,
                                                       !.item = Len(handoffs)]
    /\ UNCHANGED <<claimVars, askVars, intake, waiting, desk, clicks, restarts, endVars>>

\* The turn as a whole, once more, thirty seconds after it crashed.
RetryTurn ==
    /\ turn.at = "retry"
    /\ \E at \in Readings :
         turn' = [turn EXCEPT !.at = at, !.attempt = 2, !.resumed = FALSE,
                             !.item = Len(handoffs)]
    /\ UNCHANGED <<claimVars, askVars, intake, waiting, desk, clicks, restarts, endVars>>

\* `take_back` and `unpause`: the rows are updated, and held until the turn commits.
TakeBack ==
    /\ turn.at = "resuming"
    /\ turn' = [turn EXCEPT !.at = "model", !.resumed = TRUE]
    /\ UNCHANGED <<claimVars, askVars, intake, waiting, desk, clicks, restarts, endVars>>

\* The handoffs and the pause flag once the turn has committed.  The handoff is the
\* one it read, the newest then.
TakenBack ==
    IF turn.resumed
    THEN [handoffs EXCEPT ![turn.item].stamp = FALSE, ![turn.item].resumed = TRUE]
    ELSE handoffs

PausedAfter == paused /\ ~turn.resumed

\* A reply is composed and stored: COMMIT.
Compose ==
    /\ turn.at = "model"
    /\ handoffs' = TakenBack
    /\ paused' = PausedAfter
    /\ turn' = [turn EXCEPT !.at = "composed"]
    /\ UNCHANGED <<claimVars, custodyVars, intake, waiting, desk, clicks, restarts, endVars>>

\* `request_human`, or media nobody can read: queued and paused, with the shop's
\* own sentence as the reply.  Only `unclear` may be taken back.
HandOver ==
    /\ turn.at = "model"
    /\ Len(handoffs) < MaxHandoffs
    /\ \E stamp \in BOOLEAN : handoffs' = Append(TakenBack, Raised(stamp))
    /\ paused' = TRUE
    /\ turn' = [turn EXCEPT !.at = "composed"]
    /\ UNCHANGED <<claimVars, custodyVars, intake, waiting, desk, clicks, restarts, endVars>>

\* Mutant of GiveWay: the batch is forgotten.
GiveUpBatch ==
    /\ turn.at = "model"
    /\ waiting # {} \/ \E m \in Messages \ Unsupported : intake[m] # Out
    /\ handoffs' = TakenBack
    /\ paused' = PausedAfter
    /\ turn' = Idle
    /\ UNCHANGED <<claimVars, custodyVars, intake, waiting, desk, clicks, restarts, endVars>>

\* Something newer has been announced or waits: nothing is sent, and the batch goes
\* to the next turn.  A conversation taken back stays so.
GiveWay ==
    /\ turn.at = "model"
    /\ waiting # {} \/ \E m \in Messages \ Unsupported : intake[m] # Out
    /\ handoffs' = TakenBack
    /\ paused' = PausedAfter
    /\ waiting' = waiting \cup turn.ms
    /\ turn' = Idle
    /\ UNCHANGED <<claimVars, custodyVars, intake, desk, clicks, restarts, endVars>>

\* The conversation is with a person: the messages are stored for them.
StoreForStaff ==
    /\ turn.at = "keep"
    /\ settled' = settled \cup turn.ms
    /\ turn' = Idle
    /\ UNCHANGED <<claimVars, askVars, intake, waiting, desk, clicks, restarts, answers, cut>>

\* The transaction rolls back.  The first time the turn is run again; the second
\* time the claims are given back.
Crash ==
    /\ "turn_crashes" \in Faults
    /\ turn.at \in {"model", "keep", "resuming"}
    /\ IF turn.attempt = 1
       THEN turn' = [turn EXCEPT !.at = "retry"] /\ UNCHANGED <<claims, given>>
       ELSE /\ turn' = [turn EXCEPT !.at = "sorry"]
            /\ claims' = claims \ turn.ms
            /\ given' = [m \in Messages |-> IF m \in turn.ms THEN given[m] + 1 ELSE given[m]]
    /\ UNCHANGED <<copies, askVars, intake, waiting, desk, clicks, restarts, endVars>>

AnswerAll == [m \in Messages |-> IF m \in turn.ms THEN answers[m] + 1 ELSE answers[m]]

\* The apology, and an alert for staff.
Apologise ==
    /\ turn.at = "sorry"
    /\ answers' = AnswerAll
    /\ settled' = settled \cup turn.ms
    /\ turn' = Idle
    /\ UNCHANGED <<claimVars, askVars, intake, waiting, desk, clicks, restarts, cut>>

\* The reply leaves; or the platform refuses it, which raises an alert.
Send ==
    /\ turn.at = "composed"
    /\ \/ answers' = AnswerAll
       \/ "send_fails" \in Faults /\ UNCHANGED answers
    /\ settled' = settled \cup turn.ms
    /\ turn' = Idle
    /\ UNCHANGED <<claimVars, askVars, intake, waiting, desk, clicks, restarts, cut>>

\* What follows the commit raises (the flag is read in a transaction): the
\* dispatcher logs it, and the stored reply is never sent.
SendRaises ==
    /\ "send_fails" \in Faults
    /\ turn.at = "composed"
    /\ cut' = cut \cup turn.ms
    /\ turn' = Idle
    /\ UNCHANGED <<claimVars, askVars, intake, waiting, desk, clicks, restarts,
                   answers, settled>>

-----------------------------------------------------------------------------
(* The dashboard.                                                          *)

\* `_open_handoffs` is keyed by conversation: of several open items, the oldest.
OpenHandoff ==
    LET open == {i \in DOMAIN handoffs : handoffs[i].open}
    IN  IF open = {} THEN 0 ELSE Min(open)

\* A request reads what it needs.  Reply and release are refused if not paused.
Click(s, op) ==
    /\ desk[s] = Idle
    /\ clicks < MaxClicks
    /\ clicks' = clicks + 1
    /\ op # "takeover" => paused
    /\ desk' = [desk EXCEPT ![s] = [at |-> op, paused |-> paused, item |-> OpenHandoff,
                                    returns |-> Returns]]
    /\ UNCHANGED <<claimVars, askVars, intake, waiting, turn, restarts, endVars>>

\* `pause` waits for the row, and then the stamp of the open handoff is cleared.
Takeover(s) ==
    /\ desk[s].at = "takeover"
    /\ ~HoldsIdentity
    /\ paused' = (paused \/ ~desk[s].paused)
    /\ handoffs' = IF OpenHandoff = 0 THEN handoffs
                   ELSE [handoffs EXCEPT ![OpenHandoff].stamp = FALSE]
    /\ custody' = desk[s].returns
    /\ desk' = [desk EXCEPT ![s] = Idle]
    /\ UNCHANGED <<claimVars, releases, intake, waiting, turn, clicks, restarts, endVars>>

\* Mutant of Reply: replying releases.
ReplyReleases(s) ==
    /\ desk[s].at = "reply"
    /\ ~HoldsIdentity
    /\ handoffs' = [i \in DOMAIN handoffs |->
                      [handoffs[i] EXCEPT !.heard = TRUE, !.open = @ /\ i # desk[s].item]]
    /\ paused' = FALSE
    /\ custody' = desk[s].returns
    /\ desk' = [desk EXCEPT ![s] = Idle]
    /\ UNCHANGED <<claimVars, releases, intake, waiting, turn, clicks, restarts, endVars>>

\* The text is sent and stored, and the handoff that was read is resolved; the
\* conversation stays paused.
Reply(s) ==
    LET item == desk[s].item
    IN  /\ desk[s].at = "reply"
        /\ HoldsIdentity => item # turn.item
        /\ handoffs' = [i \in DOMAIN handoffs |->
                          [handoffs[i] EXCEPT !.heard = TRUE, !.open = @ /\ i # item]]
        /\ custody' = desk[s].returns
        /\ desk' = [desk EXCEPT ![s] = Idle]
        /\ UNCHANGED <<claimVars, paused, releases, intake, waiting, turn, clicks, restarts,
                       endVars>>

\* Mutant of Release: the handoff is resolved, the pause stays.
ReleaseStillPaused(s) ==
    LET item == desk[s].item
    IN  /\ desk[s].at = "release"
        /\ ~HoldsIdentity
        /\ handoffs' = IF item = 0 THEN handoffs ELSE [handoffs EXCEPT ![item].open = FALSE]
        /\ custody' = Nobody
        /\ releases' = releases + 1
        /\ desk' = [desk EXCEPT ![s] = Idle]
        /\ UNCHANGED <<claimVars, paused, intake, waiting, turn, clicks, restarts, endVars>>

\* The handoff is resolved, with a closing line if nobody had answered, and the
\* bot has the conversation again.
Release(s) ==
    LET item == desk[s].item
    IN  /\ desk[s].at = "release"
        /\ ~HoldsIdentity
        /\ handoffs' = IF item = 0 THEN handoffs ELSE [handoffs EXCEPT ![item].open = FALSE]
        /\ paused' = FALSE
        /\ custody' = Nobody
        /\ releases' = releases + 1
        /\ desk' = [desk EXCEPT ![s] = Idle]
        /\ UNCHANGED <<claimVars, intake, waiting, turn, clicks, restarts, endVars>>

-----------------------------------------------------------------------------
\* A deploy or a crash: what is in memory is gone, open transactions roll back.
Restart ==
    /\ restarts < MaxRestarts
    /\ restarts' = restarts + 1
    /\ cut' = cut \cup waiting \cup {m \in Messages : intake[m] # Out}
                \cup (IF turn = Idle THEN {} ELSE turn.ms)
    /\ intake' = [m \in Messages |-> Out]
    /\ waiting' = {} /\ turn' = Idle
    /\ desk' = [s \in Staff |-> Idle]
    /\ UNCHANGED <<claimVars, askVars, clicks, answers, settled>>

Requests == \E m \in Messages :
    Submit(m) \/ ReadForHandoff(m) \/ RaiseHandoff(m)

Turns ==
    \/ BeginTurn \/ RetryTurn \/ TakeBack \/ Compose \/ HandOver \/ GiveWay
    \/ StoreForStaff \/ Apologise \/ Send

Desks == \E s \in Staff : Takeover(s) \/ Reply(s) \/ Release(s)

Next ==
    \/ \E m \in Messages : Deliver(m) \/ AcceptFails(m)
    \/ Requests \/ Turns \/ Crash \/ SendRaises
    \/ \E s \in Staff, op \in {"takeover", "reply", "release"} : Click(s, op)
    \/ Desks \/ Restart

Spec == Init /\ [][Next]_vars

\* Requests, the worker that has the turn and the dashboard's requests go on; nothing
\* makes customers, platforms or staff do anything.
FairSpec == Spec /\ WF_vars(Requests) /\ WF_vars(Turns) /\ WF_vars(Desks)

-----------------------------------------------------------------------------
Intake == {Out} \cup [at : {"claimed"}] \cup [at : {"pausing"}, paused : BOOLEAN]

Turn == [at : {"model", "resuming", "keep", "retry", "sorry", "composed"},
         ms : {S \in SUBSET (Messages \ Unsupported) : S # {}}, attempt : 1..2,
         resumed : BOOLEAN, item : Nat]

Request == [at : {"takeover", "reply", "release"}, paused : BOOLEAN,
            item : Nat, returns : Nat]

\* Every variable has its type; what is pointed at is there.
TypeOK ==
    /\ claims \subseteq Messages
    /\ paused \in BOOLEAN /\ handoffs \in Seq(Handoff)
    /\ intake \in [Messages -> Intake]
    /\ waiting \subseteq Messages \ Unsupported
    /\ turn \in Turn \cup {Idle}
    /\ turn # Idle => turn.item \in 0..Len(handoffs)
    /\ desk \in [Staff -> Request \cup {Idle}]
    /\ \A s \in Staff : desk[s] # Idle => desk[s].item \in 0..Len(handoffs)
    /\ copies \in [Messages -> Nat]
    /\ clicks \in Nat /\ restarts \in Nat
    /\ answers \in [Messages -> Nat] /\ given \in [Messages -> Nat]
    /\ settled \subseteq Messages /\ cut \subseteq Messages
    /\ custody \in Nat \cup {Nobody} /\ releases \in Nat

\* Messages somebody has in hand.
InHand == waiting \cup {m \in Messages : intake[m] # Out}
            \cup (IF turn = Idle THEN {} ELSE turn.ms)

\* A claim suppresses every later delivery, so a claimed message is in somebody's
\* hand until it has been answered, stored for staff or apologised for; only the end
\* of the process, or an exception between commit and send, cuts one off.
NoClaimForgotten == claims \subseteq InHand \cup settled \cup cut

\* However often a message is delivered and a turn is run again, the customer hears
\* once about it for each claim: again only after the claim was given back.
HeardOncePerClaim == \A m \in Messages : answers[m] <= 1 + given[m]

\* A paused conversation waits for a person who can know of it: there is an open
\* handoff in the queue, or staff have taken it.
PausedIsSeen == paused => custody # Nobody \/ \E i \in DOMAIN handoffs : handoffs[i].open

\* What staff took over or answered goes back to the bot by a release; the one other
\* way is a handoff the bot itself took back since they opened it.
StaffKeepIt == custody # Nobody /\ ~paused => Returns > custody

\* "A takeover that ends on its own is not a takeover" (dashboard/web.py).
TakeoverHolds == custody # Nobody => paused

\* Unless the process ends or a send raises, nothing stays in hand for ever: again and
\* again everything claimed has been dealt with, or its claim was given back.
EveryClaimSettled == []<>(claims \subseteq settled \cup cut)
=============================================================================
