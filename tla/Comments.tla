------------------------------ MODULE Comments ------------------------------
(***************************************************************************)
(* Comments under the shop's Instagram posts:                              *)
(* assistant/channels/instagram.py, `_accept_comment` and what it calls.   *)
(*                                                                         *)
(* A comment is claimed, counted, written down, and answered: in public,   *)
(* by a private reply that opens a conversation, or by a queue item for    *)
(* staff.  Each of these is a transaction or a call of its own, an         *)
(* exception in any of them gives the claim back, and Meta delivers again. *)
(*                                                                         *)
(* One instance handles a comment at a time (`inbound` never awaits while  *)
(* it does); a deploy has two for a while.  Everything happens within the  *)
(* rolling hour of the limits.                                             *)
(***************************************************************************)
EXTENDS Naturals, FiniteSets

CONSTANTS
    Comments, People,
    Commenter,      \* comment -> who wrote it
    Under,          \* comment -> the comment it is a reply to, or None
    Says,           \* comment -> what its text amounts to
    Instances,      \* processes that serve the webhook
    FloodLimit,     \* settings.instagram_faq_rate_limit
    DmLimit,        \* settings.instagram_comment_rate_limit
    MaxDeliveries,  \* bound: deliveries of the webhook
    MaxFaults,      \* bound: exceptions and crashes
    None

\* Emoji and the like; a question of comment_faq.py; anything else.
Texts == {"short", "faq", "words"}

\* The twelve categories by what `_ACTIONS` does with them: the five product
\* questions and other; order_status and complaint; positive and tag_friend.
Categories == {"question", "problem", "warm", "negative", "spam"}

\* Where a handler can be, and what it has in its hands there.
Steps == {"claim", "count", "write", "classify", "route", "public", "mark public",
          "private", "mark private", "seed"}
Hand == [of : Comments, step : Steps, category : Categories \cup {None, "short"},
         spent : Nat, dm : BOOLEAN]

\* An InstagramCommentReply.
Row == [faq : BOOLEAN, public : BOOLEAN, private : BOOLEAN,
        category : Categories \cup {None, "short", "unavailable"}]

ASSUME CommentsAssumption ==
    /\ None \notin Hand \cup Row \cup Comments
    /\ Commenter \in [Comments -> People]
    /\ Under \in [Comments -> Comments \cup {None}]
    /\ Says \in [Comments -> Texts]
    /\ {FloodLimit, DmLimit, MaxDeliveries, MaxFaults} \subseteq Nat
    /\ IsFiniteSet(Comments)

VARIABLES
    aloud, dms, \* instagram_public_reply_enabled, instagram_comments_dm_enabled
    claims,     \* `igc:` ids in webhook_events
    row,        \* comment -> its InstagramCommentReply, or None
    alerts,     \* comments with a queue item
    seeded,     \* comments whose conversation has been opened in the transcript
    at,         \* instance -> the comment in its hands and the step it is at, or None
    \* external: Instagram
    published,  \* comment -> public replies under it
    private,    \* comment -> private replies to it
    deliveries, faults,
    \* history, read by properties alone
    dropped,    \* too old, in others' threads, or one of too many FAQ questions
    failed,     \* handled up to an exception, a crash or a refused call
    pointing    \* comments whose public reply points to a direct message

dbVars == <<claims, row, alerts, seeded>>
metaVars == <<published, private>>
boundVars == <<aloud, dms, deliveries, faults>>
histVars == <<dropped, failed, pointing>>
vars == <<aloud, dms, claims, row, alerts, seeded, at, published, private,
          deliveries, faults, dropped, failed, pointing>>

\* What `_ACTIONS` allows a category.
PublicLine(category) == category # "spam"
OpensDm(category) == category \in {"question", "problem", "short"}
PublicWithoutDm(category) == category \in {"problem", "short"}
AlertsStaff(category) == category \in {"problem", "negative", "spam"}

Init ==
    /\ aloud \in BOOLEAN /\ dms \in BOOLEAN
    /\ claims = {} /\ alerts = {} /\ seeded = {}
    /\ row = [c \in Comments |-> None]
    /\ at = [i \in Instances |-> None]
    /\ published = [c \in Comments |-> 0] /\ private = [c \in Comments |-> 0]
    /\ deliveries = 0 /\ faults = 0
    /\ dropped = {} /\ failed = {} /\ pointing = {}

-----------------------------------------------------------------------------
Handles(i, step) == at[i] # None /\ at[i].step = step

Go(i, hand) == at' = [at EXCEPT ![i] = hand]
GoTo(i, step) == at' = [at EXCEPT ![i].step = step]
Done(i) == at' = [at EXCEPT ![i] = None]

\* Which budget a comment spends: with public replies off, a question of the
\* FAQ falls through to the direct message.
AnsweredByFaq(c) == Says[c] = "faq" /\ aloud

RowsOf(person) == {c \in Comments : Commenter[c] = person /\ row[c] # None}

\* `recent` and `recent_dms` of the rolling hour.
Recent(c) == Cardinality({r \in RowsOf(Commenter[c]) : row[r].faq = AnsweredByFaq(c)})
RecentDms(c) == Cardinality({r \in RowsOf(Commenter[c]) : row[r].private})

-----------------------------------------------------------------------------
(* Ingest: the filter chain of `_accept_comment`.                          *)

\* The webhook delivers a comment, for the first time or again.
Deliver(i, c) ==
    /\ at[i] = None
    /\ deliveries < MaxDeliveries
    /\ deliveries' = deliveries + 1
    /\ Go(i, [of |-> c, step |-> "claim", category |-> None, spent |-> 0, dm |-> FALSE])
    /\ UNCHANGED <<dbVars, metaVars, aloud, dms, faults, histVars>>

\* Steps 3 and 4: a reply in somebody else's thread is dropped; `claim_message`.
Claim(i) ==
    /\ Handles(i, "claim")
    /\ LET c == at[i].of IN
        \/ /\ Under[c] # None /\ row[Under[c]] = None
           /\ dropped' = dropped \cup {c}
           /\ Done(i) /\ UNCHANGED claims
        \/ /\ Under[c] # None => row[Under[c]] # None
           /\ c \in claims
           /\ Done(i) /\ UNCHANGED <<claims, dropped>>
        \/ /\ Under[c] # None => row[Under[c]] # None
           /\ c \notin claims
           /\ claims' = claims \cup {c}
           /\ GoTo(i, "count") /\ UNCHANGED dropped
    /\ UNCHANGED <<row, alerts, seeded, metaVars, boundVars, failed, pointing>>

\* Step 5: older than instagram_comment_max_age_hours.
TooOld(i) ==
    /\ Handles(i, "count")
    /\ dropped' = dropped \cup {at[i].of}
    /\ Done(i)
    /\ UNCHANGED <<dbVars, metaVars, boundVars, failed, pointing>>

\* Step 8: the flood guard, over rows of the same kind; only the flood that is
\* not of FAQ questions is worth an alert.
Flood(i) ==
    /\ Handles(i, "count")
    /\ LET c == at[i].of IN
        /\ Recent(c) >= FloodLimit
        /\ \/ AnsweredByFaq(c) /\ dropped' = dropped \cup {c} /\ UNCHANGED alerts
           \/ ~AnsweredByFaq(c) /\ alerts' = alerts \cup {c} /\ UNCHANGED dropped
    /\ Done(i)
    /\ UNCHANGED <<claims, row, seeded, metaVars, boundVars, failed, pointing>>

\* The rest of that transaction reads: is there a row, and how many direct
\* messages has the commenter had.
Count(i) ==
    /\ Handles(i, "count")
    /\ LET c == at[i].of IN
        /\ Recent(c) < FloodLimit
        /\ IF row[c] # None THEN Done(i)
           ELSE Go(i, [at[i] EXCEPT !.step = "write", !.spent = RecentDms(c)])
    /\ UNCHANGED <<dbVars, metaVars, boundVars, histVars>>

AfterRow(c) ==
    CASE AnsweredByFaq(c)  -> "public"
      [] Says[c] = "short" -> "route"
      [] OTHER             -> "classify"

\* Mutant of WriteRow: the row is merged, and a second handler goes on as well.
WriteRowOver(i) ==
    /\ Handles(i, "write")
    /\ LET c == at[i].of IN
        /\ row' = [row EXCEPT ![c] = [faq |-> AnsweredByFaq(c), public |-> FALSE,
                                      private |-> FALSE, category |-> None]]
        /\ Go(i, [at[i] EXCEPT !.step = AfterRow(c),
                                !.category = IF Says[c] = "short" THEN "short" ELSE None])
    /\ UNCHANGED <<claims, alerts, seeded, metaVars, boundVars, histVars>>

\* The row is committed before anything is sent.  When another delivery was
\* quicker the primary key refuses it: an exception, see Raise.
WriteRow(i) ==
    /\ Handles(i, "write")
    /\ LET c == at[i].of IN
        /\ row[c] = None
        /\ row' = [row EXCEPT ![c] = [faq |-> AnsweredByFaq(c), public |-> FALSE,
                                      private |-> FALSE, category |-> None]]
        /\ Go(i, [at[i] EXCEPT !.step = AfterRow(c),
                                !.category = IF Says[c] = "short" THEN "short" ELSE None])
    /\ UNCHANGED <<claims, alerts, seeded, metaVars, boundVars, histVars>>

\* `item` in `inbound`: the exception is logged and `_release_item_claims` gives
\* the claim back, whoever holds it.
GiveUp(i) ==
    /\ claims' = claims \ {at[i].of}
    /\ Done(i)
    /\ UNCHANGED <<row, alerts, seeded, metaVars, aloud, dms, deliveries, dropped, pointing>>

RowTaken(i) ==
    /\ Handles(i, "write")
    /\ row[at[i].of] # None
    /\ GiveUp(i)
    /\ UNCHANGED <<faults, failed>>

-----------------------------------------------------------------------------
(* Step 10 and 11: classify, alert, and decide on the replies.             *)

\* An outage answers nobody; its alert is for staff.
Classify(i) ==
    /\ Handles(i, "classify")
    /\ LET c == at[i].of IN
        \/ \E category \in Categories :
            /\ row' = [row EXCEPT ![c].category = category]
            /\ Go(i, [at[i] EXCEPT !.step = "route", !.category = category])
            /\ UNCHANGED alerts
        \/ /\ alerts' = alerts \cup {c}
           /\ row' = [row EXCEPT ![c].category = "unavailable"]
           /\ Done(i)
    /\ UNCHANGED <<claims, seeded, metaVars, boundVars, histVars>>

Withheld(i) == OpensDm(at[i].category) /\ dms /\ at[i].spent >= DmLimit

\* Where the decision leads: the public line, the private reply, or nowhere.
Decided(i, withheld) ==
    LET category == at[i].category
        dm == OpensDm(category) /\ dms /\ ~withheld
        line == PublicLine(category) /\ aloud
    IN  IF (withheld /\ ~PublicWithoutDm(category)) \/ (~dm /\ ~line) THEN None
        ELSE [at[i] EXCEPT !.step = IF line THEN "public" ELSE "private", !.dm = dm]

RouteBy(i, withheld, alerted) ==
    /\ Handles(i, "route")
    /\ alerts' = IF alerted THEN alerts \cup {at[i].of} ELSE alerts
    /\ row' = [row EXCEPT ![at[i].of].category = at[i].category]
    /\ Go(i, Decided(i, withheld))
    /\ UNCHANGED <<claims, seeded, metaVars, boundVars, histVars>>

\* Mutant of Route: a direct message that is withheld leaves no queue item.
RouteQuietly(i) == RouteBy(i, Withheld(i), AlertsStaff(at[i].category))

\* Mutant of Route: the public line goes out for a message that is withheld.
RouteLineFirst(i) ==
    /\ Handles(i, "route")
    /\ alerts' = IF AlertsStaff(at[i].category) \/ Withheld(i)
                 THEN alerts \cup {at[i].of} ELSE alerts
    /\ row' = [row EXCEPT ![at[i].of].category = at[i].category]
    /\ Go(i, LET dm == OpensDm(at[i].category) /\ dms /\ ~Withheld(i)
                 line == PublicLine(at[i].category) /\ aloud
             IN  IF ~dm /\ ~line THEN None
                 ELSE [at[i] EXCEPT !.step = IF line THEN "public" ELSE "private", !.dm = dm])
    /\ UNCHANGED <<claims, seeded, metaVars, boundVars, histVars>>

\* The category's alert, and the budget of direct messages, whose own alert
\* says that one is withheld.
Route(i) == RouteBy(i, Withheld(i), AlertsStaff(at[i].category) \/ Withheld(i))

-----------------------------------------------------------------------------
(* The replies: `reply_to_comment`, then `_dm_handoff`.                    *)

AfterPublic(i) == IF at[i].dm THEN [at[i] EXCEPT !.step = "private"] ELSE None

\* The banks of the categories that open a conversation point to it: "we have
\* sent you a message", at least in one of their lines.
Points(i) == at[i].category # None /\ OpensDm(at[i].category)

PublicReply(i) ==
    /\ Handles(i, "public")
    /\ LET c == at[i].of IN
        /\ published' = [published EXCEPT ![c] = @ + 1]
        /\ pointing' = IF Points(i) THEN pointing \cup {c} ELSE pointing
        \* A reply that is lost on the way reads as refused.
        /\ \/ GoTo(i, "mark public") /\ UNCHANGED failed
           \/ Go(i, AfterPublic(i)) /\ failed' = failed \cup {c}
    /\ UNCHANGED <<dbVars, private, boundVars, dropped>>

PublicRefused(i) ==
    /\ Handles(i, "public")
    /\ failed' = failed \cup {at[i].of}
    /\ Go(i, AfterPublic(i))
    /\ UNCHANGED <<dbVars, metaVars, boundVars, dropped, pointing>>

MarkPublic(i) ==
    /\ Handles(i, "mark public")
    /\ row' = [row EXCEPT ![at[i].of].public = TRUE]
    /\ Go(i, AfterPublic(i))
    /\ UNCHANGED <<claims, alerts, seeded, metaVars, boundVars, histVars>>

\* `send_private_reply` looks at the row once more.
PrivateReply(i) ==
    /\ Handles(i, "private")
    /\ LET c == at[i].of IN
        /\ ~row[c].private
        /\ private' = [private EXCEPT ![c] = @ + 1]
        /\ \/ GoTo(i, "mark private") /\ UNCHANGED failed
           \/ Done(i) /\ failed' = failed \cup {c}
    /\ UNCHANGED <<dbVars, published, boundVars, dropped, pointing>>

PrivateRefused(i) ==
    /\ Handles(i, "private")
    /\ failed' = failed \cup {at[i].of}
    /\ Done(i)
    /\ UNCHANGED <<dbVars, metaVars, boundVars, dropped, pointing>>

\* Without the recipient's id in Meta's answer there is nothing to seed.
MarkPrivate(i) ==
    /\ Handles(i, "mark private")
    /\ row' = [row EXCEPT ![at[i].of].private = TRUE]
    /\ GoTo(i, "seed") \/ Done(i)
    /\ UNCHANGED <<claims, alerts, seeded, metaVars, boundVars, histVars>>

\* The comment and the opener become the beginning of the conversation.
Seed(i) ==
    /\ Handles(i, "seed")
    /\ seeded' = seeded \cup {at[i].of}
    /\ Done(i)
    /\ UNCHANGED <<claims, row, alerts, metaVars, boundVars, histVars>>

-----------------------------------------------------------------------------
(* Faults.                                                                 *)

\* Any step may raise: each reads or writes the database.
Raise(i) ==
    /\ at[i] # None
    /\ faults < MaxFaults /\ faults' = faults + 1
    /\ failed' = failed \cup {at[i].of}
    /\ GiveUp(i)

\* The process ends; the claim stays.
Crash(i) ==
    /\ at[i] # None
    /\ faults < MaxFaults /\ faults' = faults + 1
    /\ failed' = failed \cup {at[i].of}
    /\ Done(i)
    /\ UNCHANGED <<dbVars, metaVars, aloud, dms, deliveries, dropped, pointing>>

Next ==
    \E i \in Instances :
        \/ \E c \in Comments : Deliver(i, c)
        \/ Claim(i) \/ TooOld(i) \/ Flood(i) \/ Count(i) \/ WriteRow(i) \/ RowTaken(i)
        \/ Classify(i) \/ Route(i)
        \/ PublicReply(i) \/ PublicRefused(i) \/ MarkPublic(i)
        \/ PrivateReply(i) \/ PrivateRefused(i) \/ MarkPrivate(i) \/ Seed(i)
        \/ Raise(i) \/ Crash(i)

Spec == Init /\ [][Next]_vars

-----------------------------------------------------------------------------
\* Every variable has its type; what is in hand past the row has one.
TypeOK ==
    /\ aloud \in BOOLEAN /\ dms \in BOOLEAN
    /\ \A set \in {claims, alerts, seeded, dropped, failed, pointing} : set \subseteq Comments
    /\ row \in [Comments -> Row \cup {None}]
    /\ at \in [Instances -> Hand \cup {None}]
    /\ published \in [Comments -> Nat] /\ private \in [Comments -> Nat]
    /\ deliveries \in 0 .. MaxDeliveries /\ faults \in 0 .. MaxFaults
    /\ \A i \in Instances :
        at[i] # None /\ at[i].step \notin {"claim", "count", "write"} => row[at[i].of] # None

InHand(c) == \E i \in Instances : at[i] # None /\ at[i].of = c

\* A comment gets at most one public and one private reply, whatever is
\* delivered again, given back, or handled by two instances at once.
OneReplyEach == \A c \in Comments : published[c] <= 1 /\ private[c] <= 1

\* Something is said to a comment like this one under these settings.
Answerable(c) == aloud \/ (dms /\ row[c] # None /\ OpensDm(row[c].category))

\* "The one thing this surface must never do is receive a real comment from a
\* real person and answer it with nothing": a comment that is claimed and no
\* longer in anybody's hands is answered, or staff have a queue item, or it was
\* dropped for a reason that is logged, or its handling failed.
NobodyIgnored ==
    \A c \in claims :
        \/ InHand(c)
        \/ published[c] > 0 \/ private[c] > 0
        \/ c \in alerts \cup dropped \cup failed
        \/ ~Answerable(c)

\* The private reply is in somebody's hands still.
DmComes(c) == \E i \in Instances : at[i] # None /\ at[i].of = c /\ at[i].dm

\* "A public `check your DMs' whose DM never comes is the broken promise this
\* surface must never publish."  As the code has it: but when the private reply
\* fails, when direct messages are switched off, and for the categories whose
\* line goes out alone when somebody is over the limit.
PromisesKeptOrKnown ==
    \A c \in pointing :
        \/ private[c] > 0 \/ DmComes(c)
        \/ c \in failed \/ ~dms
        \/ PublicWithoutDm(row[c].category) /\ c \in alerts

\* The same without the exceptions, which does not hold.
PromisesKept == \A c \in pointing : private[c] > 0 \/ DmComes(c)

\* A person's inbox gets no more direct messages than the limit, but for one
\* that another instance sends at the same time and those whose mark was lost.
DmsWithinLimit ==
    \A p \in People :
        LET written == {c \in Comments : Commenter[c] = p /\ private[c] > 0}
        IN  Cardinality(written \ failed) < DmLimit + Cardinality(Instances)
=============================================================================
