------------------------------- MODULE Outbox -------------------------------
(***************************************************************************)
(* What a unit of work says to the outside: the hooks of common/events.py, *)
(* `session_scope` (domain/db.py) that runs them, the messages the shop    *)
(* starts (domain/services/notifications.py) and the mails to its owner    *)
(* (alert_email.py).                                                       *)
(*                                                                         *)
(* A message is written down in the transaction and sent by a hook after   *)
(* its commit; what Meta made of it is written by a job after the session  *)
(* is closed.  SQLAlchemy 2.0 dispatches `after_commit` when a savepoint   *)
(* is released, and `after_rollback` when one is rolled back, as well as   *)
(* for the transaction: the model does both.                               *)
(***************************************************************************)
EXTENDS Naturals, Sequences, FiniteSets, SequencesExt

CONSTANTS
    Units,          \* units of work: a turn, a webhook, a dashboard request
    Notices,        \* what they have to say; each says its own once
    By,             \* notice -> its unit
    MayBe,          \* notice -> the kinds it may turn out to be
    Subject,        \* notice -> what an alert about it is about (subject_key)
    MaxSavepoints,  \* bound: unit -> savepoints it opens
    MaxRestarts     \* bound: ends of the process

\* A new order; a change of its status; what staff decided about a request; a
\* size that is back in stock; and "alert": only a queue item that is mailed.
Kinds == {"confirmation", "push", "resolution", "restock", "alert"}

ASSUME OutboxAssumption ==
    /\ By \in [Notices -> Units] /\ MayBe \in [Notices -> SUBSET Kinds]
    /\ DOMAIN Subject = Notices
    /\ MaxSavepoints \in [Units -> Nat] /\ MaxRestarts \in Nat

VARIABLES
    \* of a unit of work
    phase,      \* how far it is
    staged,     \* rows written in its open transaction
    kept,       \* what of them the savepoint began with
    hooks,      \* session.info["after_commit_hooks"]
    firing,     \* hooks taken off that list and not run yet
    jobs,       \* session.info["after_close_hooks"]
    savepoints, \* opened so far
    \* committed
    rows,       \* transcript lines and queue items
    \* of the mail threads, and of the rate limit in memory
    mailing, cooling,
    \* external
    accepted, refused,  \* notices the platform took, and did not take
    mailed,     \* alerts the owner has got
    restarts,
    \* history, read by properties alone
    said,       \* notice -> the kind its unit made of it
    early,      \* sent or mailed on the release of a savepoint
    unmailed,   \* alerts a log line says were not mailed
    forgotten   \* notices whose hook or correction did not run

unitVars == <<phase, staged, kept, hooks, firing, jobs, savepoints, said>>
mailVars == <<mailing, cooling, mailed, unmailed>>
sentVars == <<accepted, refused>>
vars == <<phase, staged, kept, hooks, firing, jobs, savepoints, rows, mailing, cooling,
          accepted, refused, mailed, restarts, said, early, unmailed, forgotten>>

\* A line that reads as sent, one marked undelivered, a queue item.
Rows == [of : Notices, as : {"sent", "failed", "alert"}]
Hooks == [do : {"send", "mail"}, of : Notices]

Line(n, shown) == [of |-> n, as |-> shown]
Alert(n) == [of |-> n, as |-> "alert"]
Send(n) == [do |-> "send", of |-> n]
Mail(n) == [do |-> "mail", of |-> n]

Init ==
    /\ phase = [u \in Units |-> "new"]
    /\ staged = [u \in Units |-> {}] /\ kept = [u \in Units |-> {}]
    /\ hooks = [u \in Units |-> <<>>] /\ firing = [u \in Units |-> <<>>]
    /\ jobs = [u \in Units |-> <<>>]
    /\ savepoints = [u \in Units |-> 0]
    /\ rows = {}
    /\ mailing = {} /\ cooling = {}
    /\ accepted = {} /\ refused = {} /\ mailed = {}
    /\ restarts = 0
    /\ said = [n \in Notices |-> "nothing"]
    /\ early = {} /\ unmailed = {} /\ forgotten = {}

InTransaction(u) == phase[u] \in {"open", "nested"}

About(queue) == {queue[i].of : i \in DOMAIN queue}

-----------------------------------------------------------------------------
(* The transaction.                                                        *)

Begin(u) ==
    /\ phase[u] = "new"
    /\ phase' = [phase EXCEPT ![u] = "open"]
    /\ UNCHANGED <<staged, kept, hooks, firing, jobs, savepoints, rows, mailVars,
                   sentVars, restarts, said, early, forgotten>>

\* Rows and hooks of one notice, in the open transaction.
Write(u, n, kind, written, queued) ==
    /\ InTransaction(u)
    /\ By[n] = u /\ kind \in MayBe[n] /\ said[n] = "nothing"
    /\ said' = [said EXCEPT ![n] = kind]
    /\ staged' = [staged EXCEPT ![u] = @ \cup written]
    /\ hooks' = [hooks EXCEPT ![u] = @ \o queued]
    /\ UNCHANGED <<phase, kept, firing, jobs, savepoints, rows, mailVars, sentVars,
                   restarts, early, forgotten>>

\* `order_confirmed`: within seconds of the customer's own words.  Its alert is
\* one of those that are not mailed.
SayConfirmation(u, n) == Write(u, n, "confirmation", {Line(n, "sent")}, <<Send(n)>>)

\* Outside the window with no template the line is written as undelivered and
\* an alert is raised; the hook of the plan finds nothing to send.
Unreachable(u, n, kind) == Write(u, n, kind, {Line(n, "failed"), Alert(n)}, <<Mail(n)>>)

\* `cancel`, `advance_status`.
SayPush(u, n) ==
    \/ Write(u, n, "push", {Line(n, "sent")}, <<Send(n)>>)
    \/ Unreachable(u, n, "push")

\* `_tell_the_customer`, on a decision in the dashboard's queue.
SayResolution(u, n) ==
    \/ Write(u, n, "resolution", {Line(n, "sent")}, <<Send(n)>>)
    \/ Unreachable(u, n, "resolution")

\* `check_back_in_stock` marks the entry of the waitlist and tells the customer:
\* `send_proactive` sends at once, inside the transaction, and writes down what
\* became of it.  Outside the window with no template nothing is tried, which is
\* as good as a refusal.
SayRestock(u, n) ==
    /\ InTransaction(u)
    /\ By[n] = u /\ "restock" \in MayBe[n] /\ said[n] = "nothing"
    /\ said' = [said EXCEPT ![n] = "restock"]
    /\ \/ /\ accepted' = accepted \cup {n} /\ UNCHANGED refused
          /\ staged' = [staged EXCEPT ![u] = @ \cup {Line(n, "sent")}]
          /\ UNCHANGED hooks
       \/ /\ refused' = refused \cup {n} /\ UNCHANGED accepted
          /\ staged' = [staged EXCEPT ![u] = @ \cup {Line(n, "failed"), Alert(n)}]
          /\ hooks' = [hooks EXCEPT ![u] = Append(@, Mail(n))]
    /\ UNCHANGED <<phase, kept, firing, jobs, savepoints, rows, mailVars, restarts,
                   early, forgotten>>

\* `enqueue` and `notify`.
SayAlert(u, n) == Write(u, n, "alert", {Alert(n)}, <<Mail(n)>>)

\* `begin_nested`: place_order, modify_quantity, _add_variant, apply_swap.
OpenSavepoint(u) ==
    /\ phase[u] = "open"
    /\ savepoints[u] < MaxSavepoints[u]
    /\ phase' = [phase EXCEPT ![u] = "nested"]
    /\ kept' = [kept EXCEPT ![u] = staged[u]]
    /\ savepoints' = [savepoints EXCEPT ![u] = @ + 1]
    /\ UNCHANGED <<staged, hooks, firing, jobs, rows, mailVars, sentVars, restarts,
                   said, early, forgotten>>

\* `nested.commit()`: `_run_after_commit` fires everything queued so far.
ReleaseSavepoint(u) ==
    /\ phase[u] = "nested"
    /\ phase' = [phase EXCEPT ![u] = "released"]
    /\ firing' = [firing EXCEPT ![u] = hooks[u]]
    /\ hooks' = [hooks EXCEPT ![u] = <<>>]
    /\ early' = early \cup About(hooks[u])
    /\ kept' = [kept EXCEPT ![u] = {}]
    /\ UNCHANGED <<staged, jobs, savepoints, rows, mailVars, sentVars, restarts,
                   said, forgotten>>

\* `nested.rollback()`: `_drop_after_rollback` drops everything queued so far,
\* for rows that were there before the savepoint as well.
RollBackToSavepoint(u) ==
    /\ phase[u] = "nested"
    /\ phase' = [phase EXCEPT ![u] = "open"]
    /\ staged' = [staged EXCEPT ![u] = kept[u]]
    /\ hooks' = [hooks EXCEPT ![u] = <<>>]
    /\ forgotten' = forgotten \cup About(hooks[u])
    /\ kept' = [kept EXCEPT ![u] = {}]
    /\ UNCHANGED <<firing, jobs, savepoints, rows, mailVars, sentVars, restarts,
                   said, early>>

\* Mutant of Commit: the hooks run ahead of the commit, which may fail.
CommitAfterHooks(u) ==
    /\ phase[u] = "open"
    /\ phase' = [phase EXCEPT ![u] = IF hooks[u] = <<>> THEN "committed" ELSE "released"]
    /\ rows' = IF hooks[u] = <<>> THEN rows \cup staged[u] ELSE rows
    /\ firing' = [firing EXCEPT ![u] = hooks[u]]
    /\ hooks' = [hooks EXCEPT ![u] = <<>>]
    /\ staged' = IF hooks[u] = <<>> THEN [staged EXCEPT ![u] = {}] ELSE staged
    /\ UNCHANGED <<kept, jobs, savepoints, mailVars, sentVars, restarts, said, early, forgotten>>

Commit(u) ==
    /\ phase[u] = "open"
    /\ phase' = [phase EXCEPT ![u] = "committed"]
    /\ rows' = rows \cup staged[u]
    /\ staged' = [staged EXCEPT ![u] = {}]
    /\ firing' = [firing EXCEPT ![u] = hooks[u]]
    /\ hooks' = [hooks EXCEPT ![u] = <<>>]
    /\ UNCHANGED <<kept, jobs, savepoints, mailVars, sentVars, restarts, said, early, forgotten>>

\* The body of `session_scope` raises, or its commit does.
RollBack(u) ==
    /\ InTransaction(u)
    /\ phase' = [phase EXCEPT ![u] = "closing"]
    /\ staged' = [staged EXCEPT ![u] = {}]
    /\ hooks' = [hooks EXCEPT ![u] = <<>>]
    /\ kept' = [kept EXCEPT ![u] = {}]
    /\ UNCHANGED <<firing, jobs, savepoints, rows, mailVars, sentVars, restarts,
                   said, early, forgotten>>

-----------------------------------------------------------------------------
(* The hooks and the jobs.                                                 *)

\* The next hook sends a message of this kind, and Meta takes it.
Accepted(u, n, kind) ==
    /\ firing[u] # <<>> /\ Head(firing[u]) = Send(n) /\ said[n] = kind
    /\ firing' = [firing EXCEPT ![u] = Tail(@)]
    /\ accepted' = accepted \cup {n}
    /\ UNCHANGED <<phase, staged, kept, hooks, jobs, savepoints, rows, mailVars, refused,
                   restarts, said, early, forgotten>>

\* Meta refuses it; `followUp` is what is queued for after the close.
Refused(u, n, kind, followUp) ==
    /\ firing[u] # <<>> /\ Head(firing[u]) = Send(n) /\ said[n] = kind
    /\ firing' = [firing EXCEPT ![u] = Tail(@)]
    /\ refused' = refused \cup {n}
    /\ jobs' = [jobs EXCEPT ![u] = @ \o followUp]
    /\ UNCHANGED <<phase, staged, kept, hooks, savepoints, rows, mailVars, accepted,
                   restarts, said, early, forgotten>>

\* `_deliver_confirmation`: free-form, then the approved template if there is one.
DeliverConfirmation(u, n) ==
    Accepted(u, n, "confirmation") \/ Refused(u, n, "confirmation", <<n>>)

\* Mutant of DeliverPush: a refusal is not followed up.
DeliverAndForget(u, n) == Accepted(u, n, "push") \/ Refused(u, n, "push", <<>>)

\* `deliver_status_push`.
DeliverPush(u, n) == Accepted(u, n, "push") \/ Refused(u, n, "push", <<n>>)

\* `deliver_request_resolution`: what became of it is not looked at.
DeliverResolution(u, n) == Accepted(u, n, "resolution") \/ Refused(u, n, "resolution", <<>>)

\* `_hook` of `notify`: a thread of its own (`_spawn`).
MailHook(u, n) ==
    /\ firing[u] # <<>> /\ Head(firing[u]) = Mail(n)
    /\ firing' = [firing EXCEPT ![u] = Tail(@)]
    /\ mailing' = mailing \cup {n}
    /\ UNCHANGED <<phase, staged, kept, hooks, jobs, savepoints, rows, cooling, mailed,
                   unmailed, sentVars, restarts, said, early, forgotten>>

\* Back in the unit after a release; or its session is closed.
HooksRan(u) ==
    /\ phase[u] \in {"released", "committed"} /\ firing[u] = <<>>
    /\ phase' = [phase EXCEPT ![u] = IF @ = "released" THEN "open" ELSE "closing"]
    /\ UNCHANGED <<staged, kept, hooks, firing, jobs, savepoints, rows, mailVars, sentVars,
                   restarts, said, early, forgotten>>

\* The newest line with this text is marked undelivered, or written so if it
\* is not there.
MarkUndelivered(n) == (rows \ {Line(n, "sent")}) \cup {Line(n, "failed")}

\* In a transaction of its own; the alert's mail goes out with its commit.
Correct(u, kind) ==
    /\ phase[u] = "closing" /\ jobs[u] # <<>>
    /\ LET n == Head(jobs[u]) IN
        /\ said[n] = kind
        /\ rows' = MarkUndelivered(n) \cup {Alert(n)}
        /\ mailing' = mailing \cup {n}
    /\ jobs' = [jobs EXCEPT ![u] = Tail(@)]
    /\ UNCHANGED <<phase, staged, kept, hooks, firing, savepoints, cooling, mailed, unmailed,
                   sentVars, restarts, said, early, forgotten>>

PushFailed(u) == Correct(u, "push")

ConfirmationFailed(u) == Correct(u, "confirmation")

\* The job raises: logged, and the next one runs (`run_after_close`).
CorrectFails(u) ==
    /\ phase[u] = "closing" /\ jobs[u] # <<>>
    /\ jobs' = [jobs EXCEPT ![u] = Tail(@)]
    /\ forgotten' = forgotten \cup {Head(jobs[u])}
    /\ UNCHANGED <<phase, staged, kept, hooks, firing, savepoints, rows, mailVars, sentVars,
                   restarts, said, early>>

\* Mutant of Close: what was queued for after it is not run.
CloseAndGo(u) ==
    /\ phase[u] = "closing"
    /\ phase' = [phase EXCEPT ![u] = "done"]
    /\ UNCHANGED <<staged, kept, hooks, firing, jobs, savepoints, rows, mailVars, sentVars,
                   restarts, said, early, forgotten>>

Close(u) ==
    /\ phase[u] = "closing" /\ jobs[u] = <<>>
    /\ phase' = [phase EXCEPT ![u] = "done"]
    /\ UNCHANGED <<staged, kept, hooks, firing, jobs, savepoints, rows, mailVars, sentVars,
                   restarts, said, early, forgotten>>

-----------------------------------------------------------------------------
(* The mail threads, and the end of the process.                           *)

\* Mutant of SendMail: a mail that is held back leaves no trace.
SendMailQuietly(n) ==
    /\ n \in mailing
    /\ mailing' = mailing \ {n}
    /\ cooling' = cooling \cup {Subject[n]}
    /\ mailed' = IF Subject[n] \in cooling THEN mailed ELSE mailed \cup {n}
    /\ UNCHANGED <<unitVars, rows, unmailed, sentVars, restarts, early, forgotten>>

\* `_send`: `_allowed` marks the subject before the mailer is asked.
SendMail(n) ==
    /\ n \in mailing
    /\ mailing' = mailing \ {n}
    /\ cooling' = cooling \cup {Subject[n]}
    /\ \/ Subject[n] \notin cooling /\ mailed' = mailed \cup {n} /\ UNCHANGED unmailed
       \/ unmailed' = unmailed \cup {n} /\ UNCHANGED mailed
    /\ UNCHANGED <<unitVars, rows, sentVars, restarts, early, forgotten>>

\* The cooldown of a subject has run out.
CoolDown(subject) ==
    /\ subject \in cooling
    /\ cooling' = cooling \ {subject}
    /\ UNCHANGED <<unitVars, rows, mailing, mailed, unmailed, sentVars, restarts, early, forgotten>>

\* Open transactions are rolled back; what was queued in memory is gone.
Restart ==
    /\ restarts < MaxRestarts
    /\ restarts' = restarts + 1
    /\ forgotten' = forgotten \cup mailing
        \cup UNION {About(firing[u]) \cup Range(jobs[u]) : u \in Units}
    /\ phase' = [u \in Units |-> IF phase[u] = "new" THEN "new" ELSE "done"]
    /\ staged' = [u \in Units |-> {}] /\ kept' = [u \in Units |-> {}]
    /\ hooks' = [u \in Units |-> <<>>] /\ firing' = [u \in Units |-> <<>>]
    /\ jobs' = [u \in Units |-> <<>>]
    /\ mailing' = {} /\ cooling' = {}
    /\ UNCHANGED <<savepoints, rows, mailed, unmailed, sentVars, said, early>>

-----------------------------------------------------------------------------
Finish(u) ==
    \/ \E n \in Notices :
        \/ DeliverConfirmation(u, n) \/ DeliverPush(u, n) \/ DeliverResolution(u, n)
        \/ MailHook(u, n)
    \/ HooksRan(u) \/ PushFailed(u) \/ ConfirmationFailed(u) \/ CorrectFails(u) \/ Close(u)

Work(u) ==
    \/ Begin(u) \/ OpenSavepoint(u) \/ ReleaseSavepoint(u) \/ RollBackToSavepoint(u)
    \/ Commit(u) \/ RollBack(u)
    \/ \E n \in Notices :
        \/ SayConfirmation(u, n) \/ SayPush(u, n) \/ SayResolution(u, n)
        \/ SayRestock(u, n) \/ SayAlert(u, n)
    \/ Finish(u)

Next ==
    \/ \E u \in Units : Work(u)
    \/ \E n \in Notices : SendMail(n) \/ CoolDown(Subject[n])
    \/ Restart

Spec == Init /\ [][Next]_vars

\* Transactions end, `session_scope` runs what is left, threads are scheduled.
FairSpec ==
    /\ Spec
    /\ \A u \in Units : WF_vars(Work(u))
    /\ \A n \in Notices : WF_vars(SendMail(n))

-----------------------------------------------------------------------------
Phases == {"new", "open", "nested", "released", "committed", "closing", "done"}

\* Every variable has its type; and hooks run only between their release, or
\* commit, and what the unit does next.
TypeOK ==
    /\ phase \in [Units -> Phases]
    /\ staged \in [Units -> SUBSET Rows] /\ kept \in [Units -> SUBSET Rows]
    /\ hooks \in [Units -> Seq(Hooks)] /\ firing \in [Units -> Seq(Hooks)]
    /\ jobs \in [Units -> Seq(Notices)]
    /\ savepoints \in [Units -> Nat] /\ restarts \in Nat
    /\ rows \subseteq Rows
    /\ said \in [Notices -> Kinds \cup {"nothing"}]
    /\ \A set \in {mailing, mailed, accepted, refused, early, unmailed, forgotten} :
        set \subseteq Notices
    /\ cooling \subseteq {Subject[n] : n \in Notices}
    /\ \A u \in Units : firing[u] # <<>> => phase[u] \in {"released", "committed"}

\* Still to be sent, or its failure still to be written down.
UnderWay(n) == n \in About(hooks[By[n]]) \cup About(firing[By[n]]) \cup Range(jobs[By[n]])

\* The dashboard shows a message as sent only if Meta has taken it, or that is
\* about to be settled -- but for what staff decided, whose refusal nobody looks
\* at, and for messages whose hook or correction never ran.
ShownAsSentOrKnown ==
    \A n \in Notices : Line(n, "sent") \in rows =>
        \/ n \in accepted \cup forgotten
        \/ UnderWay(n)
        \/ said[n] = "resolution" /\ n \in refused

\* A queue item that is committed is mailed, or the log says why it was not, or
\* that is under way; none is lost but to a savepoint that was rolled back, or
\* to the end of the process.
AlertsTravel ==
    \A n \in Notices : Alert(n) \in rows =>
        n \in mailed \cup unmailed \cup mailing \cup forgotten \/ UnderWay(n)

\* "An outbound message must never describe a database write that later rolled
\* back": so it is, but for what left on the release of a savepoint, and for the
\* back-in-stock message, which leaves before the mark that it has is committed.
OnlyWhatWasWritten ==
    \A n \in accepted \cup refused \cup mailed :
        \/ n \in early \/ \E row \in rows : row.of = n
        \/ said[n] = "restock" /\ n \notin mailed

\* Whatever is committed as sent is accepted or shown as failed in the end, or
\* known to be lost.
NoticesSettle ==
    \A n \in Notices :
        Line(n, "sent") \in rows
            ~> \/ n \in accepted \cup forgotten \/ Line(n, "failed") \in rows
               \/ said[n] = "resolution" /\ n \in refused
=============================================================================
