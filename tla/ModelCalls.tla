----------------------------- MODULE ModelCalls -----------------------------
(***************************************************************************)
(* The calls to the model, and what a turn makes of their answers: the     *)
(* customer's voice notes and photos are read before anything is composed, *)
(* each hop is posted to the vendor of the moment, failures are tried      *)
(* again or apologised for, and an answer that ran into the completion     *)
(* ceiling is asked for again.                                             *)
(*                                                                         *)
(* One conversation.  The vendors (external) answer, are busy, refuse or   *)
(* break off as they like; a deploy may change the vendor between turns.   *)
(***************************************************************************)
EXTENDS Integers, Sequences, FiniteSets

CONSTANTS
    BusyRetries,        \* gemini._RETRY_LIMIT
    TruncationRetries,  \* agent._TRUNCATION_RETRY_LIMIT
    HopCap,             \* settings.tool_loop_cap
    Window,             \* bound: the model's messages that are still in the context
    MostMedia,          \* bound: voice notes and photos of a message
    MaxTurns            \* bound

ASSUME CallsAssumption ==
    /\ {BusyRetries, TruncationRetries, HopCap, Window, MostMedia, MaxTurns} \subseteq Nat

Real == {"openrouter", "gemini"}
\* What becomes of a note: its words, half of them, nothing intelligible, or no answer at all.
NoteFates == {"words", "cut", "noise", "refused"}
\* A photo: a product of the list, one it is not sure of, something else, nothing, half, no answer.
PhotoFates == {"match", "unsure", "no garment", "empty", "cut", "refused"}
CommentFates == {"known", "unknown", "no category", "cut", "refused"}
AtMost(S, n) == UNION {[1..k -> S] : k \in 0..n}

VARIABLES
    config,     \* settings: the vendor (rehearsal when it cannot be built), and whether LLM_MODEL names a model
    context,    \* the model's messages: whether they broke off, and how often they were asked for again
    calling,    \* the turn
    reply,      \* how the last turn ended
    verdict     \* the comment that was classified last: what the classifier left, and what it was filed under

callsVars == <<config, context, calling, reply, verdict>>

Opened(phase, nth, words, notes, photos) ==
    [phase |-> phase, nth |-> nth, words |-> words, notes |-> notes, photos |-> photos,
     listened |-> 0, looked |-> 0, heard |-> {}, seen |-> <<>>,
     hops |-> 0, short |-> 0, attempt |-> 1, busy |-> 0, resolved |-> FALSE, forced |-> FALSE]
Quiet(nth) == Opened("idle", nth, FALSE, <<>>, <<>>)
NoReply == [how |-> "none", cut |-> FALSE, blank |-> FALSE, short |-> 0, attempt |-> 1, kind |-> "none"]

NoVerdict == [of |-> "none", as |-> "none"]

CallsInit ==
    /\ config \in [vendor : Real, named : BOOLEAN]
    /\ context = <<>> /\ calling = Quiet(0) /\ reply = NoReply
    /\ verdict = NoVerdict

At(phase) == calling.phase = phase
IsReal == config.vendor \in Real
\* GeminiProvider.auto_resolve.
AutoResolve == config.vendor = "gemini" /\ ~config.named

\* The provider of a turn is built anew, and looks its model up at its first call.
NeedsModel == AutoResolve /\ ~calling.resolved
\* A note or a photo does so too, unless there is a model for them alone (_media_model).
AfterMedia == IF NeedsModel THEN BOOLEAN ELSE {calling.resolved}

\* A deploy with other settings; without a key, get_provider falls back to the rehearsal.
Deploy ==
    /\ At("idle")
    /\ config' \in [vendor : Real \cup {"rehearsal"}, named : BOOLEAN]
    /\ UNCHANGED <<context, calling, reply, verdict>>

EndTurn(how, cut, kind) ==
    /\ calling' = Quiet(calling.nth)
    /\ reply' = [how |-> how, cut |-> cut, blank |-> FALSE, short |-> calling.short,
                 attempt |-> calling.attempt, kind |-> kind]

-----------------------------------------------------------------------------
(* What the customer sent, turned into something the model can read. *)

\* handle_message, with whatever the batch holds.
Receive ==
    /\ At("idle") /\ calling.nth < MaxTurns
    /\ \E words \in BOOLEAN, notes \in AtMost(NoteFates, MostMedia), photos \in AtMost(PhotoFates, MostMedia) :
         /\ Len(notes) + Len(photos) <= MostMedia
         /\ calling' = Opened("listening", calling.nth + 1, words, notes, photos)
    /\ reply' = NoReply /\ verdict' = NoVerdict
    /\ UNCHANGED <<config, context>>

\* transcribe: a transcript that hit the ceiling counts as none.
Transcribed(fate) == IsReal /\ fate = "words"

\* transcribe_voice for one note after the other; with none heard a person takes over.
Listen ==
    /\ At("listening")
    /\ IF calling.listened < Len(calling.notes)
       THEN LET n == calling.listened + 1
            IN /\ \E found \in AfterMedia :
                     calling' = [calling EXCEPT !.listened = n, !.resolved = found,
                              !.heard = IF Transcribed(calling.notes[n]) THEN @ \cup {n} ELSE @]
               /\ UNCHANGED reply
       ELSE IF calling.notes # <<>> /\ calling.heard = {}
       THEN EndTurn("handed over", FALSE, "voice_received")
       ELSE calling' = [calling EXCEPT !.phase = "looking"] /\ UNCHANGED reply
    /\ UNCHANGED <<config, context, verdict>>

\* inspect_image and matched_product: a reading, or none; an empty answer is a reading.
ReadingOf(fate) ==
    CASE fate = "match" -> {"product"}
      [] fate \in {"unsure", "empty"} -> {"unknown garment"}
      [] fate = "no garment" -> {"no garment"}
      [] OTHER -> {}
Readings(fate) == IF IsReal THEN ReadingOf(fate) ELSE {}

\* read_photo for one photo after the other; what could not be read is left out.
Look ==
    /\ At("looking")
    /\ IF calling.looked < Len(calling.photos)
       THEN LET n == calling.looked + 1
                read == Readings(calling.photos[n])
            IN /\ \E found \in AfterMedia :
                     calling' = [calling EXCEPT !.looked = n, !.resolved = found,
                              !.seen = IF read = {} THEN @ ELSE Append(@, [photo |-> n, as |-> CHOOSE r \in read : TRUE])]
               /\ UNCHANGED reply
       ELSE IF calling.photos # <<>> /\ calling.seen = <<>>
       THEN EndTurn("handed over", FALSE, "image_received")
       ELSE IF ~calling.words /\ calling.notes = <<>> /\ calling.photos = <<>>
       THEN EndTurn("nothing to answer", FALSE, "none")
       ELSE calling' = [calling EXCEPT !.phase = "hop"] /\ UNCHANGED reply
    /\ UNCHANGED <<config, context, verdict>>

-----------------------------------------------------------------------------
(* One hop, and the vendor's ways to fail. *)

\* The loop of run_turn goes round, or is at its cap.
StartHop ==
    /\ At("hop")
    /\ IF calling.hops >= HopCap
       THEN EndTurn("cap", FALSE, "loop_cap")
       ELSE /\ calling' = [calling EXCEPT !.phase = "asking", !.hops = @ + 1,
                           !.attempt = 1, !.busy = 0, !.forced = FALSE]
            /\ UNCHANGED reply
    /\ UNCHANGED <<config, context, verdict>>

\* _generate_with_retry: one more attempt thirty seconds later, but not for a rejected key.
Fail(kind) ==
    IF calling.attempt = 1 /\ kind # "auth"
    THEN /\ calling' = [calling EXCEPT !.phase = "asking", !.attempt = 2, !.busy = 0, !.forced = FALSE]
         /\ UNCHANGED reply
    ELSE EndTurn("apology", FALSE, kind)

\* resolve_model: the list of models is read, or the call fails.
ResolveModel ==
    /\ At("asking") /\ NeedsModel
    /\ \/ calling' = [calling EXCEPT !.resolved = TRUE] /\ UNCHANGED reply
       \/ \E kind \in {"provider_error", "auth"} : Fail(kind)
    /\ UNCHANGED <<config, context, verdict>>

\* _post_with_retry waits a vendor out that is briefly out of capacity; a model that is gone is
\* looked up again, when it was not configured by name; the rest is mapped to a kind.
Refusal(status) ==
    IF config.vendor = "gemini" /\ status = "busy" /\ calling.busy < BusyRetries
    THEN calling' = [calling EXCEPT !.busy = @ + 1] /\ UNCHANGED reply
    ELSE IF AutoResolve /\ status = "gone" /\ ~calling.forced
    THEN \/ calling' = [calling EXCEPT !.forced = TRUE, !.busy = 0] /\ UNCHANGED reply
         \/ \E kind \in {"provider_error", "auth"} : Fail(kind)
    ELSE Fail(CASE status = "limited" -> "rate_limit"
                [] status = "denied" -> "auth"
                [] status = "garbled" -> "provider_crash"
                [] OTHER -> "provider_error")

Post == At("asking") /\ ~NeedsModel

PostRefused ==
    /\ Post /\ IsReal
    /\ \E status \in {"busy", "gone", "limited", "denied", "network", "garbled"} : Refusal(status)
    /\ UNCHANGED <<config, context, verdict>>

-----------------------------------------------------------------------------
(* What the turn makes of an answer. *)

Noted(s) == IF Len(s) > Window THEN SubSeq(s, Len(s) - Window + 1, Len(s)) ELSE s
MessageOf(cut) == [cut |-> cut, short |-> calling.short]

AskShorter ==
    /\ calling.short < TruncationRetries
    /\ calling' = [calling EXCEPT !.phase = "hop", !.short = @ + 1]
    /\ UNCHANGED <<context, reply>>

\* Mutant of AnswerInWords: a reply that broke off goes out when the retries are used up.
AnswerInWordsAnyway(cut, blank) ==
    IF cut /\ ~blank /\ calling.short < TruncationRetries THEN AskShorter
    ELSE /\ calling' = Quiet(calling.nth)
         /\ context' = Noted(Append(context, MessageOf(cut)))
         /\ reply' = [how |-> "said", cut |-> cut, blank |-> blank,
                      short |-> calling.short, attempt |-> calling.attempt, kind |-> "none"]
\* A reply in words: one that broke off is asked for again, then a fixed sentence is sent.
AnswerInWords(cut, blank) ==
    IF cut /\ ~blank
    THEN \/ AskShorter
         \/ /\ calling.short >= TruncationRetries
            /\ EndTurn("fixed sentence", TRUE, "truncated")
            /\ context' = Noted(Append(context, MessageOf(FALSE)))
    ELSE /\ calling' = Quiet(calling.nth)
         /\ context' = Noted(Append(context, MessageOf(FALSE)))
         /\ reply' = [how |-> IF blank THEN "apology" ELSE "said", cut |-> cut, blank |-> blank,
                      short |-> calling.short, attempt |-> calling.attempt, kind |-> "none"]

\* Tool calls: those of a hop that broke off are asked for again, and run once the retries are
\* used up.
AnswerWithCalls(cut) ==
    \/ cut /\ AskShorter
    \/ /\ ~cut \/ calling.short >= TruncationRetries
       /\ context' = Noted(Append(context, MessageOf(cut)))
       /\ calling' = [calling EXCEPT !.phase = "hop"]
       /\ UNCHANGED reply

PostAnswered ==
    /\ Post
    /\ \E cut \in (IF IsReal THEN BOOLEAN ELSE {FALSE}) :
         \/ \E blank \in BOOLEAN : AnswerInWords(cut, blank)
         \/ AnswerWithCalls(cut)
    /\ UNCHANGED <<config, verdict>>

-----------------------------------------------------------------------------
(* A comment: one call, and an answer or none. *)

\* classification_from, and the guard on the ceiling before it.
FiledUnder(fate) ==
    CASE ~IsReal -> "unavailable"
      [] fate = "known" -> "its category"
      [] fate = "unknown" -> "other"
      [] OTHER -> "unavailable"

ClassifyComment ==
    /\ At("idle")
    /\ \E fate \in CommentFates : verdict' = [of |-> fate, as |-> FiledUnder(fate)]
    /\ UNCHANGED <<config, context, calling, reply>>

CallsNext ==
    \/ Deploy \/ Receive \/ Listen \/ Look
    \/ StartHop \/ ResolveModel \/ PostRefused \/ PostAnswered
    \/ ClassifyComment

CallsSpec == CallsInit /\ [][CallsNext]_callsVars

-----------------------------------------------------------------------------
(* Properties. *)

Vendors == Real \cup {"rehearsal"}
Spoken == [cut : BOOLEAN, short : 0..TruncationRetries]
Readable == {"product", "unknown garment", "no garment"}
Callings ==
    [phase : {"idle", "listening", "looking", "hop", "asking"}, nth : 0..MaxTurns,
     words : BOOLEAN, notes : Seq(NoteFates), photos : Seq(PhotoFates),
     listened : Nat, looked : Nat, heard : SUBSET Nat,
     seen : Seq([photo : Nat, as : Readable]),
     hops : 0..HopCap, short : 0..TruncationRetries, attempt : {1, 2}, busy : 0..BusyRetries,
     resolved : BOOLEAN, forced : BOOLEAN]

\* The type invariant: hops, attempts, waits and repeated questions keep their limits, over
\* a whole turn and whatever the vendor does.
CallsTypeOK ==
    /\ config \in [vendor : Vendors, named : BOOLEAN]
    /\ context \in Seq(Spoken)
    /\ calling \in Callings

\* What broke off at the completion ceiling is never taken for the whole: no half sentence is
\* sent, no half transcript is answered, no half classification is filed, and the tool calls of
\* a half-written hop run only when asking again has been tried to the end
\* (agent.py:966-971, 1437-1446, openrouter.py:711-735, 972-985).
CutNeverPasses ==
    /\ reply.how = "said" => ~reply.cut
    /\ \A n \in calling.heard : calling.notes[n] = "words"
    /\ verdict.of \in {"cut", "no category"} => verdict.as = "unavailable"
    /\ \A i \in DOMAIN context : context[i].cut => context[i].short = TruncationRetries

\* A message whose voice notes, or whose photos, could none of them be read goes to a person;
\* the model never answers it.
HeardOrHandedOver ==
    calling.phase \in {"hop", "asking"} =>
        /\ calling.notes # <<>> => calling.heard # {}
        /\ calling.photos # <<>> => calling.seen # <<>>

\* Does not hold: a note or a photo that could not be read is left out beside one that could,
\* and nobody is told (runtime.py:438-443, 480-484).
NothingLeftOut ==
    calling.phase \in {"hop", "asking"} =>
        /\ calling.heard = DOMAIN calling.notes
        /\ Len(calling.seen) = Len(calling.photos)

\* Does not hold: the numbers the model reads beside the photos count those that could be
\* read, and the customer's "the second one" is another (runtime.py:527-534).
PhotosNumberedAsSent ==
    Len(calling.seen) > 1 => \A i \in DOMAIN calling.seen : calling.seen[i].photo = i

\* Does not hold: an answer that broke off before its first word is not asked for again
\* (agent.py:961, 1021-1029).
CutIsAskedAgain == reply.cut => reply.short = TruncationRetries

\* Does not hold: an empty answer about a photo is read as a garment the shop does not have.
EmptyIsNoReading == \A i \in DOMAIN calling.seen : calling.photos[calling.seen[i].photo] # "empty"
=============================================================================
