--------------------------- MODULE SilenceNudges ---------------------------
(***************************************************************************)
(* The follow-ups to a customer who went silent                            *)
(* (assistant/silence_nudges.py), polled by domain/services/scheduler.py   *)
(* in every instance of the program: two of them during a deploy.          *)
(*                                                                         *)
(* One customer.  All that is decided lies in one row of `silence_nudges`, *)
(* read and written under PostgreSQL's READ COMMITTED: a statement sees    *)
(* what is committed, an UPDATE waits for whoever holds the row and is     *)
(* decided on what they left.  An attribute set on the ORM object is       *)
(* written whatever the row says by then.                                  *)
(***************************************************************************)
EXTENDS Naturals

CONSTANTS
    Pollers,        \* instances of the program, one scheduler thread each
    NoPoller,
    First,          \* ticks of silence before nudge #1 (NUDGE_FIRST_MINUTES)
    Second,         \* ... before nudge #2 (NUDGE_SECOND_HOURS)
    LastCall,       \* ... after which #2 is too close to the window's edge
    Window,         \* ... after which Meta takes no free text
    MaxMessages,    \* bound: messages of the customer
    MaxRestarts     \* bound: ends of an instance

ASSUME NudgeAssumption ==
    /\ First \in Nat \ {0} /\ Second \in Nat /\ LastCall \in Nat /\ Window \in Nat
    /\ First <= Second /\ Second < LastCall /\ LastCall < Window
    /\ MaxMessages \in Nat /\ MaxRestarts \in Nat
    /\ NoPoller \notin Pollers

VARIABLES
    \* committed: the conversation
    seen,       \* which message was the customer's last; it names the silence
    tone,       \* "stop" if it asked us to; "over" if it, an order or staff ended it
    lastBy,     \* whose the last word is
    cart,       \* there is something in the cart
    paused,
    \* committed: the row
    row,
    \* of the instances
    work,       \* poller -> what it is doing
    holder,     \* the poller with an uncommitted write of the row
    \* external
    age,        \* ticks since the customer's last message, up to Window
    polled,     \* the pollers that began a poll since the last message or tick
    quiet,      \* it is night in Cairo
    restarts,
    \* history, read by properties alone
    nudged      \* <<silence, step>> -> nudges sent

talkVars == <<seen, tone, lastBy, cart, paused>>
timeVars == <<age, polled, quiet>>
vars == <<seen, tone, lastBy, cart, paused, row, work, holder, age, polled, quiet,
          restarts, nudged>>

Steps == {"first", "second"}
Silences == 1..MaxMessages
Idle == [at |-> "idle"]

\* No row yet, or the one `_arm` makes for silence a.
Blank(a) == [anchor |-> a, first |-> "none", second |-> "none", optedOut |-> FALSE]

Init ==
    /\ seen = 0 /\ tone = "open" /\ lastBy = "bot"
    /\ cart = FALSE /\ paused = FALSE
    /\ row = Blank(0)
    /\ work = [p \in Pollers |-> Idle] /\ holder = NoPoller
    /\ age = 0 /\ polled = {} /\ quiet = FALSE
    /\ restarts = 0
    /\ nudged = [k \in Silences \X Steps |-> 0]

-----------------------------------------------------------------------------
(* The conversation, and time.                                             *)

\* `get_or_create` on a message: last_seen_at is the silence's anchor.
CustomerWrites ==
    /\ seen < MaxMessages
    /\ seen' = seen + 1 /\ lastBy' = "customer"
    /\ tone' \in {"open", "over", "stop"}
    /\ age' = 0 /\ polled' = {}
    /\ UNCHANGED <<cart, paused, row, work, holder, quiet, restarts, nudged>>

\* An order, or an answer of staff.
Over == IF tone = "open" THEN "over" ELSE tone

\* A turn; it may fill the cart, place an order or hand over.
BotAnswers ==
    /\ lastBy = "customer" /\ ~paused
    /\ lastBy' = "bot"
    /\ cart' \in BOOLEAN /\ paused' \in BOOLEAN /\ tone' \in {tone, Over}
    /\ polled' = {}
    /\ UNCHANGED <<seen, row, work, holder, age, quiet, restarts, nudged>>

\* A status update, or a member of staff, has the last word.
OthersSpeak ==
    /\ seen > 0
    /\ lastBy' = "other" /\ tone' \in {tone, Over}
    /\ UNCHANGED <<seen, cart, paused, row, work, holder, timeVars, restarts, nudged>>

\* The takeover and release buttons.
StaffClick ==
    /\ seen > 0
    /\ paused' = ~paused
    /\ UNCHANGED <<seen, tone, lastBy, cart, row, work, holder, timeVars, restarts, nudged>>

\* The first transaction of `_handle`, which has no call to anyone in it.
InTransaction == {"looked", "insert", "rearm", "armed"}

\* Many minutes, in which some instance polls (NUDGE_POLL_SECONDS is far shorter) and
\* any such transaction ends; a night is one tick.
Tick ==
    /\ seen > 0 /\ age < Window /\ polled # {}
    /\ \A p \in Pollers : work[p].at \notin InTransaction
    /\ age' = age + 1 /\ polled' = {}
    /\ quiet' \in IF quiet THEN {FALSE} ELSE BOOLEAN
    /\ UNCHANGED <<talkVars, row, work, holder, restarts, nudged>>

-----------------------------------------------------------------------------
(* `_handle`, first transaction: `_arm`, `_plan`, `_claim`.                 *)

\* A candidate of `check_silences`; its identity is read.  Of an instance's polls
\* after a message or a tick, one.
Look(p) ==
    /\ work[p].at = "idle" /\ p \notin polled
    /\ seen > 0 /\ age < Window
    /\ work' = [work EXCEPT ![p] = [at |-> "looked", silence |-> seen, age |-> age,
                                    paused |-> paused]]
    /\ polled' = polled \cup {p}
    /\ UNCHANGED <<talkVars, row, holder, age, quiet, restarts, nudged>>

\* The row as p goes on with it.
With(p, at, r) ==
    [at |-> at, silence |-> work[p].silence, age |-> work[p].age, paused |-> work[p].paused,
     row |-> r]

\* Mutant of Read: only the first silence of a customer is armed.
ReadUnarmed(p) ==
    /\ work[p].at = "looked"
    /\ work' = [work EXCEPT ![p] = With(p, IF row.anchor = 0 THEN "insert" ELSE "armed", row)]
    /\ UNCHANGED <<talkVars, row, holder, timeVars, restarts, nudged>>

\* `_arm`: the row is read; it may have to be inserted, or armed again.
Read(p) ==
    /\ work[p].at = "looked"
    /\ work' = [work EXCEPT ![p] = With(p,
            IF row.anchor = 0 THEN "insert"
            ELSE IF row.anchor < work[p].silence THEN "rearm" ELSE "armed", row)]
    /\ UNCHANGED <<talkVars, row, holder, timeVars, restarts, nudged>>

\* The first instance inserts the row; another finds it there.
Insert(p) ==
    /\ work[p].at = "insert" /\ holder = NoPoller
    /\ IF row.anchor = 0
        THEN /\ holder' = p
             /\ work' = [work EXCEPT ![p] = With(p, "armed", Blank(work[p].silence))]
        ELSE /\ work' = [work EXCEPT ![p] = With(p, "armed", row)]
             /\ UNCHANGED holder
    /\ UNCHANGED <<talkVars, row, timeVars, restarts, nudged>>

\* Mutant of Rearmed: what was asked in an earlier silence is forgotten.
RearmedAfresh(r, a) == Blank(a)

\* The customer wrote again: both steps are open once more.
Rearmed(r, a) == [r EXCEPT !.anchor = a, !.first = "none", !.second = "none"]

\* Conditional on the anchor that was read; else the row is read again.
Rearm(p) ==
    /\ work[p].at = "rearm" /\ holder = NoPoller
    /\ IF row.anchor = work[p].row.anchor
        THEN /\ holder' = p
             /\ work' = [work EXCEPT ![p] = With(p, "armed", Rearmed(row, work[p].silence))]
        ELSE /\ work' = [work EXCEPT ![p] =
                    IF row.anchor < work[p].silence THEN Idle ELSE With(p, "armed", row)]
             /\ UNCHANGED holder
    /\ UNCHANGED <<talkVars, row, timeVars, restarts, nudged>>

\* `_hard_skip`: this silence gets no nudge at all.
HardSkip(w) == w.row.optedOut \/ w.paused \/ tone # "open"

\* ... and is one that asks for no more, ever.
AsksToStop(w) == ~w.row.optedOut /\ ~w.paused /\ tone = "stop"

\* What `_plan` decides: which step, and what to do about it.
Plan(w) ==
    LET nothing == [step |-> "none", do |-> "none"]
        verdict(step, do) == [step |-> step, do |-> do]
    IN
    IF \/ w.row.first # "none" /\ w.row.second # "none"
       \/ w.age < First
       \/ lastBy = "customer"
    THEN nothing
    ELSE IF HardSkip(w) THEN verdict(IF w.row.first = "none" THEN "first" ELSE "second", "hush")
    ELSE IF w.row.first = "none"
    THEN verdict("first", IF w.age >= Second \/ lastBy # "bot" \/ quiet THEN "skip" ELSE "send")
    ELSE IF w.age < Second THEN nothing
    ELSE IF ~cart \/ w.age >= LastCall THEN verdict("second", "skip")
    ELSE IF ~quiet THEN verdict("second", "send")
    ELSE IF w.age + 1 < LastCall THEN nothing ELSE verdict("second", "skip")

\* `_claim`: an UPDATE of a step nobody has decided.
Claimed(r, step, state) == IF r[step] = "none" THEN [r EXCEPT ![step] = state] ELSE r

\* A whole silence is given up: attributes set on the object p has read.
Hushed(r, w) ==
    [r EXCEPT !.optedOut = @ \/ AsksToStop(w),
              !.second = IF w.row.first = "none" /\ w.row.second = "none" THEN "skipped" ELSE @]

\* The row as p's transaction sees it.
Current(p) == IF holder = p THEN work[p].row ELSE row

\* Mutant of Decide: the UPDATE's rowcount is not looked at.
DecideUnclaimed(p) ==
    /\ work[p].at = "armed" /\ holder \in {NoPoller, p}
    /\ LET w == work[p] plan == Plan(w) r == Current(p) IN
        /\ row' = CASE plan.do = "none" -> r
                    [] plan.do = "hush" -> Claimed(Hushed(r, w), plan.step, "skipped")
                    [] plan.do = "skip" -> Claimed(r, plan.step, "skipped")
                    [] plan.do = "send" -> Claimed(r, plan.step, "sending")
        /\ work' = [work EXCEPT ![p] =
             IF plan.do = "send" THEN [at |-> "wording", silence |-> w.silence, step |-> plan.step]
             ELSE Idle]
    /\ holder' = NoPoller
    /\ UNCHANGED <<talkVars, timeVars, restarts, nudged>>

\* Plan, claim and commit.  The claim of a step to send is p's only if the
\* UPDATE found it open.
Decide(p) ==
    /\ work[p].at = "armed" /\ holder \in {NoPoller, p}
    /\ LET w == work[p] plan == Plan(w) r == Current(p) IN
        /\ row' = CASE plan.do = "none" -> r
                    [] plan.do = "hush" -> Claimed(Hushed(r, w), plan.step, "skipped")
                    [] plan.do = "skip" -> Claimed(r, plan.step, "skipped")
                    [] plan.do = "send" -> Claimed(r, plan.step, "sending")
        /\ work' = [work EXCEPT ![p] =
             IF plan.do = "send" /\ r[plan.step] = "none"
             THEN [at |-> "wording", silence |-> w.silence, step |-> plan.step] ELSE Idle]
    /\ holder' = NoPoller
    /\ UNCHANGED <<talkVars, timeVars, restarts, nudged>>

-----------------------------------------------------------------------------
(* `_handle`, second transaction.                                          *)

\* The wording is a model call, outside any transaction; then p looks again.
Look2(p) ==
    /\ work[p].at = "wording"
    /\ work' = [work EXCEPT ![p].at = IF seen > work[p].silence \/ paused THEN "returned" ELSE "due"]
    /\ UNCHANGED <<talkVars, row, holder, timeVars, restarts, nudged>>

\* `send_nudge`: only inside the window, and Meta may refuse it.
SendNudge(p) ==
    /\ work[p].at = "due"
    /\ \/ /\ age < Window
          /\ nudged' = [nudged EXCEPT ![<<work[p].silence, work[p].step>>] = @ + 1]
          /\ work' = [work EXCEPT ![p].at = "sent"]
       \/ work' = [work EXCEPT ![p].at = "failed"] /\ UNCHANGED nudged
    /\ UNCHANGED <<talkVars, row, holder, timeVars, restarts>>

\* The state is written, whatever the row says by then.
Settle(p) ==
    /\ work[p].at \in {"returned", "sent", "failed"} /\ holder = NoPoller
    /\ row' = [row EXCEPT ![work[p].step] = IF work[p].at = "returned" THEN "skipped" ELSE work[p].at]
    /\ work' = [work EXCEPT ![p] = Idle]
    /\ UNCHANGED <<talkVars, holder, timeVars, restarts, nudged>>

\* An instance ends; a transaction of its is rolled back.
Restart(p) ==
    /\ restarts < MaxRestarts /\ work[p] # Idle
    /\ restarts' = restarts + 1
    /\ work' = [work EXCEPT ![p] = Idle]
    /\ holder' = IF holder = p THEN NoPoller ELSE holder
    /\ polled' = polled \ {p}
    /\ UNCHANGED <<talkVars, row, age, quiet, nudged>>

-----------------------------------------------------------------------------
Poll(p) ==
    \/ Look(p) \/ Read(p) \/ Insert(p) \/ Rearm(p) \/ Decide(p)
    \/ Look2(p) \/ SendNudge(p) \/ Settle(p)

Next ==
    \/ CustomerWrites \/ BotAnswers \/ OthersSpeak \/ StaffClick \/ Tick
    \/ \E p \in Pollers : Poll(p) \/ Restart(p)

Spec == Init /\ [][Next]_vars

-----------------------------------------------------------------------------
States == {"none", "sending", "sent", "failed", "skipped"}
Row == [anchor : 0..MaxMessages, first : States, second : States, optedOut : BOOLEAN]
\* Looking; with the row it has read; with a step it has claimed.
Work ==
    {Idle}
    \cup [at : {"looked"}, silence : Silences, age : 0..Window, paused : BOOLEAN]
    \cup [at : {"insert", "rearm", "armed"}, silence : Silences, age : 0..Window,
          paused : BOOLEAN, row : Row]
    \cup [at : {"wording", "due", "returned", "sent", "failed"}, silence : Silences,
          step : Steps]

\* Every variable has its type, and an uncommitted write is held by who made it.
TypeOK ==
    /\ seen \in 0..MaxMessages /\ age \in 0..Window /\ restarts \in Nat
    /\ lastBy \in {"customer", "bot", "other"} /\ tone \in {"open", "over", "stop"}
    /\ cart \in BOOLEAN /\ paused \in BOOLEAN /\ quiet \in BOOLEAN
    /\ polled \subseteq Pollers
    /\ row \in Row
    /\ nudged \in [Silences \X Steps -> Nat]
    /\ work \in [Pollers -> Work]
    /\ \A p \in Pollers : work[p] # Idle => work[p].silence <= seen
    /\ holder \in Pollers \cup {NoPoller}
    /\ holder # NoPoller => work[holder].at = "armed"

\* "Two pollers racing the same identity send one message at most", and an
\* instance that is restarted does not repeat it: one nudge per step and silence.
NudgedOncePerStep == \A a \in Silences, step \in Steps : nudged[<<a, step>>] <= 1

\* Once the row says that the customer asked us to stop it goes on saying so, and
\* no nudge goes out about the silence they are in, whatever a poller had read.
StopIsForGood ==
    [][row.optedOut =>
        /\ row'.optedOut
        /\ \A step \in Steps : seen > 0 => nudged'[<<seen, step>>] = nudged[<<seen, step>>]]_vars

\* A silence after the bot's word that is due is decided by the polls before time
\* goes on: pollers racing for it, or ending in it, never leave it to nobody.
SilenceIsDecided ==
    [][age' > age /\ lastBy = "bot" /\ age >= First => row.anchor = seen /\ row.first # "none"]_vars
=============================================================================
