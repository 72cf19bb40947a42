--------------------------- MODULE ReplyDelivery ---------------------------
(***************************************************************************)
(* What becomes of a reply once the turn has composed it: `_deliver_turn`  *)
(* of the channel adapters, the platform's client with its cache of media  *)
(* ids, and the notes the session store makes afterwards on the line the   *)
(* turn stored -- the ids it went out as, the pictures that were refused,  *)
(* the receipts.  The next turn reads them to decide which pictures the    *)
(* customer has been shown.                                                *)
(*                                                                         *)
(* One conversation.  Its turns follow each other (Dispatcher); messages   *)
(* the shop starts and Meta's webhooks come at any time.  A turn works on  *)
(* a copy of the lines, and what was added to the row meanwhile is folded  *)
(* back in; every other read and write of the row is one transaction       *)
(* (SessionStore has the overlaps).  The row's user messages are left out. *)
(***************************************************************************)
EXTENDS Integers, Sequences, FiniteSets, FiniteSetsExt, SequencesExt

CONSTANTS
    Pictures,       \* what the turns may attach
    OnDisk,         \* the pictures this process uploads; Meta fetches the others by their URL
    UploadsRace,    \* two conversations may store the id of one picture at once (PostgreSQL)
    Statuses,       \* what Meta may report
    MaxReplies,     \* bound: turns
    MaxPushes,      \* bound: messages the shop starts
    MaxReports,     \* bound: webhooks about messages sent
    MaxMishaps      \* bound: calls refused or not heard, transactions that fail, restarts

ASSUME DeliveryAssumption ==
    /\ IsFiniteSet(Pictures) /\ OnDisk \subseteq Pictures
    /\ Pictures \cap {"words", "picker", "instead"} = {}     \* the other parts of a reply
    /\ UploadsRace \in BOOLEAN
    /\ Statuses \subseteq {"sent", "delivered", "read", "failed"}
    /\ {MaxReplies, MaxPushes, MaxReports, MaxMishaps} \subseteq Nat

VARIABLES
    lines,        \* the assistant's lines of SessionRow.history
    job,        \* the worker that has the conversation
    push,       \* the thread that sends what the shop starts
    media,      \* WhatsAppMedia: picture -> what is known of its id
    alerts,     \* the lines an alert about a failed send was queued for
    meta,       \* external: id -> the line and the part that Meta accepted
    reports,    \* external: <<id, status>>, the webhooks that found their line
    written,    \* lines written, each with words of its own
    mishaps,
    refused,    \* history: <<line, part>> the client took for not delivered
    unnoted     \* history: lines whose bookkeeping broke off

deliveryVars ==
    <<lines, job, push, media, alerts, meta, reports, written, mishaps, refused, unnoted>>

\* RECEIPT_ORDER, behind no receipt at all.
Receipts == <<"none", "sent", "delivered", "read">>
\* quoting.find: the newest line with the id a customer's reply points at; and
\* the picture it points at, when the id is one picture's of several.
HoldersOf(id) == {i \in DOMAIN lines : id \in lines[i].mids}
Quoted(id) == lines[Max(HoldersOf(id))]
QuotedPictures(id) == {l[2] : l \in {k \in Quoted(id).labels : k[1] = id}}

ReceiptRank(r) == CHOOSE i \in DOMAIN Receipts : Receipts[i] = r
Beyond(s, r) == ReceiptRank(s) > ReceiptRank(r)

Line(kind, attached) ==
    [kind |-> kind, key |-> written + 1, mids |-> {}, labels |-> {}, attachments |-> attached,
     missing |-> {}, failed |-> FALSE, receipt |-> "none"]

NoJob == [at |-> "idle", copy |-> <<>>, since |-> 0, key |-> 0,
          parts |-> <<>>, heard |-> {}, lost |-> {}, again |-> FALSE, absent |-> FALSE]

NoPush == [at |-> "idle", key |-> 0, id |-> 0, ok |-> FALSE]

DeliveryTypeOK ==
    /\ lines \in Seq([kind : {"reply", "push"}, key : 1 .. written, mids : SUBSET (DOMAIN meta),
                    labels : SUBSET ((DOMAIN meta) \X Pictures), attachments : SUBSET Pictures,
                    missing : SUBSET Pictures, failed : BOOLEAN, receipt : Range(Receipts)])
    /\ DOMAIN media = OnDisk
    /\ alerts \subseteq 0 .. written
    /\ unnoted \subseteq 0 .. written

DeliveryInit ==
    /\ lines = <<>>
    /\ job = NoJob
    /\ push = NoPush
    /\ media \in [OnDisk -> {[known |-> "none", live |-> FALSE], [known |-> "fresh", live |-> TRUE]}]
    /\ alerts = {}
    /\ meta = <<>>
    /\ reports = {}
    /\ written = 0 /\ mishaps = 0
    /\ refused = {}
    /\ unnoted = {}

Mishap == mishaps < MaxMishaps /\ mishaps' = mishaps + 1
NoMishap == UNCHANGED mishaps

AtJob(here) == job.at = here

-----------------------------------------------------------------------------
(* The turn, as far as its pictures go.                                      *)

\* _sent_images without photo_claims.undelivered.
Undelivered(some) == UNION {some[i].missing : i \in DOMAIN some}
Shown(some) == (UNION {some[i].attachments : i \in DOMAIN some}) \ Undelivered(some)

BeginReply ==
    /\ AtJob("idle")
    /\ Cardinality({i \in DOMAIN lines : lines[i].kind = "reply"}) < MaxReplies
    /\ job' = [NoJob EXCEPT !.at = "composing", !.copy = lines, !.since = Len(lines)]
    /\ UNCHANGED <<lines, push, media, alerts, meta, reports, written, mishaps, refused, unnoted>>

\* A picture that counts as shown goes out again only when it was asked for.
MayAttach(pictures, asked) == asked \/ pictures \cap Shown(job.copy) = {}

\* The turn's copy, what was written meanwhile, the reply: _merge_interleaved.
Rewritten(line) == job.copy \o SubSeq(lines, job.since + 1, Len(lines)) \o <<line>>

\* The words, a picker that may follow them, the pictures.
PartsOf(pictures, picker) ==
    <<"words">> \o (IF picker THEN <<"picker">> ELSE <<>>) \o SetToSeq(pictures)

EndReply(pictures, picker, asked) ==
    /\ AtJob("composing")
    /\ MayAttach(pictures, asked)
    /\ lines' = Rewritten(Line("reply", pictures))
    /\ written' = written + 1
    /\ job' = [job EXCEPT !.at = "sending", !.copy = <<>>, !.since = 0, !.key = written + 1,
                          !.parts = PartsOf(pictures, picker)]
    /\ UNCHANGED <<push, media, alerts, meta, reports, mishaps, refused, unnoted>>

\* Twice: the apology is sent, stored nowhere, and its answer not looked at.
TurnCrashes ==
    /\ AtJob("composing") /\ Mishap
    /\ \/ meta' = Append(meta, [key |-> 0, part |-> "words"])
       \/ UNCHANGED meta
    /\ alerts' = alerts \cup {0}
    /\ job' = NoJob
    /\ UNCHANGED <<lines, push, media, reports, written, refused, unnoted>>

-----------------------------------------------------------------------------
(* The send, one part after another.                                         *)

NextPart == Head(job.parts)

\* A picker that does not go is replaced by words, a picture is given up.
PartLost ==
    /\ job' = [job EXCEPT
          !.at = "sending", !.again = FALSE,
          !.parts = IF NextPart = "picker" THEN <<"instead">> \o Tail(@) ELSE Tail(@),
          !.lost = IF NextPart = "picker" THEN @ ELSE @ \cup {NextPart}]
    /\ refused' = IF NextPart = "picker" THEN refused ELSE refused \cup {<<job.key, NextPart>>}

PartAccepted(heard) ==
    /\ meta' = Append(meta, [key |-> job.key, part |-> NextPart])
    /\ job' = [job EXCEPT !.at = "sending", !.again = FALSE, !.parts = Tail(@),
                          !.heard = IF heard THEN @ \cup {Len(meta) + 1} ELSE @]
    /\ UNCHANGED refused

\* _post: accepted; accepted with a body that cannot be read; accepted, and the
\* answer lost; refused.
Post ==
    \/ PartAccepted(TRUE) /\ NoMishap
    \/ PartAccepted(FALSE) /\ Mishap
    \/ PartLost /\ meta' = Append(meta, [key |-> job.key, part |-> NextPart]) /\ Mishap
    \/ PartLost /\ UNCHANGED meta /\ Mishap

SendPart ==
    /\ AtJob("sending") /\ job.parts # <<>>
    /\ NextPart \notin OnDisk
    /\ Post
    /\ UNCHANGED <<lines, push, media, alerts, reports, written, unnoted>>

\* media_id_for: an id that is old enough to be refused is not tried.
SendUploaded ==
    /\ AtJob("sending") /\ job.parts # <<>> /\ NextPart \in OnDisk
    /\ \/ /\ media[NextPart].known # "fresh"
          /\ job' = [job EXCEPT !.at = "uploading"]
          /\ UNCHANGED <<meta, refused, mishaps>>
       \/ /\ media[NextPart] = [known |-> "fresh", live |-> TRUE]
          /\ Post
       \/ /\ media[NextPart] = [known |-> "fresh", live |-> FALSE]   \* _media_id_refused
          /\ job' = [job EXCEPT !.at = "uploading", !.again = TRUE]
          /\ UNCHANGED <<meta, refused, mishaps>>
    /\ UNCHANGED <<lines, push, media, alerts, reports, written, unnoted>>

Upload ==
    /\ AtJob("uploading")
    /\ \/ /\ NoMishap
          /\ job' = [job EXCEPT !.at = "storing", !.absent = media[NextPart].known = "none"]
          /\ UNCHANGED refused
       \/ Mishap /\ PartLost
    /\ UNCHANGED <<lines, push, media, alerts, meta, reports, written, unnoted>>

Died ==
    /\ job' = NoJob
    /\ unnoted' = unnoted \cup {job.key}

\* The id is stored and the picture sent under it.  An insert that meets another
\* conversation's raises, past _deliver_turn's own guards.
StoreId ==
    /\ AtJob("storing")
    /\ IF job.absent /\ media[NextPart].known # "none"
       THEN Died /\ UNCHANGED <<media, meta, refused, mishaps>>
       ELSE /\ media' = [media EXCEPT ![NextPart] = [known |-> "fresh", live |-> TRUE]]
            /\ Post
            /\ UNCHANGED unnoted
    /\ UNCHANGED <<lines, push, alerts, reports, written>>

\* The same code, for another conversation.
StoredElsewhere(p) ==
    /\ media[p].known = "none"
    /\ AtJob("sending") \/ (AtJob("storing") /\ UploadsRace)
    /\ job.parts # <<>> /\ NextPart = p
    /\ media' = [media EXCEPT ![p] = [known |-> "fresh", live |-> TRUE]]
    /\ UNCHANGED <<lines, job, push, alerts, meta, reports, written, mishaps, refused, unnoted>>

\* external: after 25 days the id is not trusted, after 30 Meta drops the file,
\* and it may do so before.  Nobody looks before the picture is to be sent.
MediaAges(p) ==
    /\ AtJob("sending") /\ job.parts # <<>> /\ NextPart = p
    /\ \/ /\ media[p].known = "fresh"
          /\ media' = [media EXCEPT ![p].known = "stale"]
       \/ /\ media[p].live
          /\ media' = [media EXCEPT ![p].live = FALSE]
    /\ UNCHANGED <<lines, job, push, alerts, meta, reports, written, mishaps, refused, unnoted>>

-----------------------------------------------------------------------------
(* What is written down after the send.                                      *)

Sent == AtJob("sending") /\ job.parts = <<>>

AlertOwed(lost) == lost # {}

\* _flag_delivery_failures is not guarded: when it raises, nothing else is noted.
FlagFailures ==
    /\ Sent
    /\ \/ /\ NoMishap
          /\ alerts' = IF AlertOwed(job.lost) THEN alerts \cup {job.key} ELSE alerts
          /\ job' = [job EXCEPT !.at = "stamping"]
          /\ UNCHANGED unnoted
       \/ AlertOwed(job.lost) /\ Mishap /\ Died /\ UNCHANGED alerts
    /\ UNCHANGED <<lines, push, media, meta, reports, written, refused>>

LabelsOf(ids) == {<<m, meta[m].part>> : m \in {n \in ids : meta[n].part \in Pictures}}

\* attach_outbound_ids: on the newest line, whatever it is by now.
StampIds ==
    /\ AtJob("stamping")
    /\ \/ /\ NoMishap
          /\ lines' = IF job.heard = {} THEN lines
                    ELSE [lines EXCEPT ![Len(lines)].mids = @ \cup job.heard,
                                     ![Len(lines)].labels = @ \cup LabelsOf(job.heard)]
       \/ job.heard # {} /\ Mishap /\ UNCHANGED lines
    /\ job' = [job EXCEPT !.at = "noting"]
    /\ UNCHANGED <<push, media, alerts, meta, reports, written, refused, unnoted>>

\* Mutant of Noted: the refused pictures are taken off the list and no more.
NotedHereOnly(lost) == [lines EXCEPT ![Len(lines)].attachments = @ \ lost]

\* record_undelivered_attachments, on the newest line as well.
Noted(lost) ==
    [lines EXCEPT ![Len(lines)].attachments = @ \ lost, ![Len(lines)].missing = @ \cup lost]

NoteUndelivered ==
    LET lost == job.lost \cap Pictures IN
    /\ AtJob("noting")
    /\ \/ /\ NoMishap
          /\ lines' = IF lost = {} THEN lines ELSE Noted(lost)
          /\ UNCHANGED unnoted
       \/ /\ lost # {} /\ Mishap
          /\ unnoted' = unnoted \cup {job.key}
          /\ UNCHANGED lines
    /\ job' = NoJob
    /\ UNCHANGED <<push, media, alerts, meta, reports, written, refused>>

\* The process ends; the rows and Meta stay.
DeliveryRestarts ==
    /\ ~AtJob("idle") \/ push.at # "idle"
    /\ Mishap
    /\ unnoted' = unnoted \cup ({job.key, push.key} \ {0})
    /\ job' = NoJob
    /\ push' = NoPush
    /\ UNCHANGED <<lines, media, alerts, meta, reports, written, refused>>

-----------------------------------------------------------------------------
(* What the shop starts: recorded, sent after the commit, noted by its words. *)

StartPush ==
    /\ push.at = "idle"
    /\ Cardinality({i \in DOMAIN lines : lines[i].kind = "push"}) < MaxPushes
    /\ lines' = Append(lines, Line("push", {}))
    /\ written' = written + 1
    /\ push' = [NoPush EXCEPT !.at = "recorded", !.key = written + 1]
    /\ UNCHANGED <<job, media, alerts, meta, reports, mishaps, refused, unnoted>>

SendPush ==
    /\ push.at = "recorded"
    /\ \/ /\ NoMishap
          /\ meta' = Append(meta, [key |-> push.key, part |-> "words"])
          /\ push' = [push EXCEPT !.at = "sent", !.ok = TRUE, !.id = Len(meta) + 1]
       \/ /\ Mishap
          /\ meta' = Append(meta, [key |-> push.key, part |-> "words"]) \/ UNCHANGED meta
          /\ push' = [push EXCEPT !.at = "sent"]
    /\ UNCHANGED <<lines, job, media, alerts, reports, written, refused, unnoted>>

\* Mutant of LineOf: the newest line, as for a reply.
NewestLine(key) == {i \in DOMAIN lines : i = Len(lines) /\ key = key}

\* attach_ids_to_text and mark_undelivered look for the newest line of these
\* words; a line that is not there is written again only to say it failed.
LineOf(key) == {i \in DOMAIN lines : lines[i].key = key}

NotePush ==
    /\ push.at = "sent"
    /\ \/ /\ NoMishap
          /\ lines' = [i \in DOMAIN lines |->
                        IF i \notin LineOf(push.key) THEN lines[i]
                        ELSE IF push.ok THEN [lines[i] EXCEPT !.mids = @ \cup {push.id}]
                        ELSE [lines[i] EXCEPT !.failed = TRUE]]
       \/ Mishap /\ UNCHANGED lines
    /\ push' = NoPush
    /\ UNCHANGED <<job, media, alerts, meta, reports, written, refused, unnoted>>

-----------------------------------------------------------------------------
(* external: Meta reports, in any order and more than once.                  *)

\* record_receipt: the newest line with that id, never backwards.
Receipted(id, status) ==
    [lines EXCEPT ![Max(HoldersOf(id))] =
        IF status = "failed" THEN [@ EXCEPT !.failed = TRUE]
        ELSE IF Beyond(status, @.receipt) THEN [@ EXCEPT !.receipt = status]
        ELSE @]

\* A report that finds no line is forgotten.
ReportArrives(id, status) ==
    /\ HoldersOf(id) # {}
    /\ Cardinality(reports \cup {<<id, status>>}) <= MaxReports
    /\ reports' = reports \cup {<<id, status>>}
    /\ lines' = Receipted(id, status)
    /\ UNCHANGED <<job, push, media, alerts, meta, written, mishaps, refused, unnoted>>

DeliveryNext ==
    \/ BeginReply \/ TurnCrashes
    \/ \E pictures \in SUBSET Pictures, picker, asked \in BOOLEAN :
          EndReply(pictures, picker, asked)
    \/ SendPart \/ SendUploaded \/ Upload \/ StoreId
    \/ FlagFailures \/ StampIds \/ NoteUndelivered
    \/ \E p \in OnDisk : StoredElsewhere(p) \/ MediaAges(p)
    \/ StartPush \/ SendPush \/ NotePush
    \/ \E id \in DOMAIN meta, status \in Statuses : ReportArrives(id, status)
    \/ DeliveryRestarts

DeliverySpec == DeliveryInit /\ [][DeliveryNext]_deliveryVars

-----------------------------------------------------------------------------

Accepted(p) == \E id \in DOMAIN meta : meta[id].part = p

\* The parts of a line that Meta took.
IdsOf(key) == {id \in DOMAIN meta : meta[id].key = key}

BrokeOff(p) == \E i \in DOMAIN lines : p \in lines[i].attachments /\ lines[i].key \in unnoted

\* A picture counts as shown only if Meta took it -- or is on its way, or the
\* note about it was lost with its transaction: the one picture a customer asks
\* for is never the one the bot refuses to send again, also when another message
\* has become the newest line and carries the note.
ShownWasSent ==
    \A p \in Shown(lines) : Accepted(p) \/ BrokeOff(p) \/ p \in Range(job.parts) \cup job.lost

\* Once the worker has left, every part the client took for not delivered has
\* an alert, unless its bookkeeping broke off.
RefusalsReachStaff ==
    \A r \in refused : r[1] \in alerts \cup unnoted \/ r[1] = job.key

\* A quote, a tick and a failure are read off the message the id went out as --
\* but a reply's ids stand on a message of the shop's that was written while the
\* reply was being sent.  A quoted picture is the picture that was sent, even
\* there; and a message shown as read had a part of it read.
IdsNameTheirMessage ==
    /\ \A id \in {m \in DOMAIN meta : HoldersOf(m) # {}} :
          /\ \/ Quoted(id).key = meta[id].key
             \/ Quoted(id).kind = "push" /\ meta[id].key < Quoted(id).key
          /\ QuotedPictures(id) = {meta[id].part} \cap Pictures
    /\ \A i \in DOMAIN lines : lines[i].receipt # "none" =>
          \E id \in lines[i].mids : <<id, lines[i].receipt>> \in reports

\* A picture the customer has is not sent again uninvited.  It does not hold:
\* one that was refused once counts as not shown for the rest of the
\* conversation, however often it has arrived since.
NotShownTwice ==
    AtJob("composing") =>
        \A i \in DOMAIN job.copy : \A l \in job.copy[i].labels : ~MayAttach({l[2]}, FALSE)

\* What staff were told of a message stays told.  It does not hold: a turn
\* writes the lines it read back over the receipts of the meantime.
ReceiptsStay ==
    [][\A i \in DOMAIN lines : \A k \in DOMAIN lines' :
          lines'[k].key = lines[i].key => ~Beyond(lines[i].receipt, lines'[k].receipt)]_deliveryVars
=============================================================================
