---------------------------- MODULE SessionStore ----------------------------
(***************************************************************************)
(* The transcript of one conversation (assistant/session.py): one row with *)
(* the whole history as a JSON list and the place where the model's        *)
(* context starts.  Webhook threads append the customer's messages as they *)
(* arrive, a turn works on a copy for as long as the model takes and saves *)
(* it over the row, and the shop's own messages -- order updates, nudges,  *)
(* staff -- are appended at any moment.  Every writer reads the row,       *)
(* changes the list and writes all of it back.                             *)
(*                                                                         *)
(* PostgreSQL runs these transactions at READ COMMITTED and nothing locks  *)
(* the row before it is read, so an action is one SELECT, or one UPDATE    *)
(* with the COMMIT that follows it (`append` reads the row twice in a row, *)
(* here once).  The dispatcher admits one turn of a conversation at a      *)
(* time.  The row exists: the conversation has been opened before.         *)
(***************************************************************************)
EXTENDS Integers, Sequences, FiniteSets, FiniteSetsExt, Functions

CONSTANTS
    Inbound,        \* the customer's messages, one delivery each
    Pushes,         \* messages the shop starts: order updates, nudges, staff
    HistoryCap,     \* settings.history_cap
    ExpiryCarry,    \* settings.session_expiry_carry
    ArchiveCap,     \* settings.session_archive_cap
    MaxIdle         \* bound: how often the conversation goes idle

ASSUME SessionAssumption ==
    /\ IsFiniteSet(Inbound) /\ IsFiniteSet(Pushes)
    /\ Inbound \cap Pushes = {} /\ "turn" \notin Inbound \cup Pushes
    /\ HistoryCap \in Nat \ {0} /\ ExpiryCarry \in Nat \ {0}
    /\ ArchiveCap \in Nat /\ MaxIdle \in Nat

VARIABLES
    row,        \* the SessionRow: history, context_start, whether it has expired
    idled,      \* how often it has expired
    inbound,    \* where a customer's message stands
    recorded,   \* `recorded_ids`: the messages stored on their arrival
    pushed,     \* the pushes recorded
    reads,      \* writer -> the row its transaction has read, NoRow without one
    turn,       \* the conversation's turn
    said,       \* history: what committed transactions have added
    meanwhile,  \* history: of it, what others added since the turn read the row
    capped,     \* history: whether the archive cap has dropped a message
    clipped,    \* history: whether it has dropped one of the context itself
    raced       \* history: whether a writer has overwritten what it had not read

sessionVars == <<row, idled, inbound, recorded, pushed, reads, turn, said, meanwhile,
                 capped, clipped, raced>>

\* A stored message: who speaks, of which messages it is the copy or the answer,
\* and whether it is the copy made on arrival.
Roles == {"user", "reply", "call", "results", "push"}
Message == [role : Roles, of : SUBSET (Inbound \cup Pushes), provisional : BOOLEAN]
Row == [history : Seq(Message), start : Nat, expired : BOOLEAN]

NoRow == [history |-> <<>>, start |-> 1, expired |-> FALSE]     \* no row is like this

Say(role, of) == [role |-> role, of |-> of, provisional |-> FALSE]
OnArrival(i) == [Say("user", {i}) EXCEPT !.provisional = TRUE]

-----------------------------------------------------------------------------
(* The functions of session.py.                                            *)

From(s, i) == SubSeq(s, i, Len(s))
LastN(s, n) == From(s, Len(s) - n + 1)

\* What s says at the places in K, in its order.
Subsequence(s, K) ==
    [n \in 1..Cardinality(K) |-> s[CHOOSE i \in K : Cardinality({j \in K : j <= i}) = n]]

\* Mutant of Trim: the last `cap` messages, wherever that cuts.
TrimAnywhere(s, cap) == IF Len(s) <= cap THEN s ELSE LastN(s, cap)

\* trim(history, cap): cut at a user message, the first of the last `cap`
\* messages or else the last there is.
Trim(s, cap) ==
    LET users == {i \in DOMAIN s : s[i].role = "user"}
        tail  == {i \in users : i > Len(s) - cap}
    IN  IF Len(s) <= cap THEN s
        ELSE IF tail # {} THEN From(s, Min(tail))
        ELSE IF users # {} THEN From(s, Max(users))
        ELSE <<>>

\* The part of a row the model is sent.
Live(r) == From(r.history, r.start + 1)

\* load: an expired row's context starts anew, from the last exchange
\* (carry_over).  A conversation that has expired keeps its archive.
Opened(r) ==
    IF r.expired
      THEN [r EXCEPT !.start = Len(r.history) - Len(Trim(Live(r), ExpiryCarry)),
                     !.expired = FALSE]
      ELSE r

\* Mutant of DropProvisional: the copies made on arrival stay.
KeepProvisional(s, ids) == s

\* drop_provisional
DropProvisional(s, ids) ==
    Subsequence(s, {i \in DOMAIN s : ~(s[i].role = "user" /\ s[i].provisional /\ s[i].of \subseteq ids)})

\* Mutant of MergeInterleaved: a save without `merge_since`.
MergeNothing(s, stored, since) == s

\* _merge_interleaved: what was written to the row since the turn read it goes
\* in ahead of the turn's reply.
MergeInterleaved(s, stored, since) ==
    LET extra == Subsequence(stored, {i \in DOMAIN stored : i > since /\ stored[i] \notin Range(s)})
        cut   == IF s # <<>> /\ s[Len(s)].role \in {"reply", "push"} THEN Len(s) - 1 ELSE Len(s)
    IN  IF extra = <<>> THEN s ELSE SubSeq(s, 1, cut) \o extra \o From(s, cut + 1)

\* The list _save writes, before the cap: the archive of the row as it is read,
\* what `trim` drops, and the context.
Untruncated(r, s) == SubSeq(r.history, 1, r.start) \o s

OverCap(full) == ArchiveCap > 0 /\ Len(full) > ArchiveCap

\* _save(history) over the row r.  `context_start` below 0 is read as 0 (_start).
Save(r, s) ==
    LET full == Untruncated(r, s)
        kept == IF OverCap(full) THEN LastN(full, ArchiveCap) ELSE full
        live == Len(Trim(s, HistoryCap))
    IN  [history |-> kept,
         start   |-> IF Len(kept) > live THEN Len(kept) - live ELSE 0,
         expired |-> FALSE]

\* append(*messages, recorded_ids)
AppendTo(r, msgs, ids) ==
    Save(Opened(r), DropProvisional(Live(Opened(r)), ids) \o msgs)

-----------------------------------------------------------------------------
(* Transactions.                                                           *)

NoTurn == [step |-> "idle", batch |-> {}, base |-> 0, history |-> <<>>, ordered |-> FALSE,
           tries |-> 0]

Writers == Inbound \cup Pushes \cup {"turn"}

SessionInit ==
    /\ row = [history |-> <<>>, start |-> 0, expired |-> FALSE]
    /\ idled = 0
    /\ inbound = [i \in Inbound |-> "new"]
    /\ recorded = {}
    /\ pushed = {}
    /\ reads = [w \in Writers |-> NoRow]
    /\ turn = NoTurn
    /\ said = {}
    /\ meanwhile = {}
    /\ capped = FALSE /\ clipped = FALSE /\ raced = FALSE

\* A transaction reads the row, whoever else has it.
Select(w) ==
    /\ reads[w] = NoRow
    /\ reads' = [reads EXCEPT ![w] = row]

\* It writes r, made of this context and, before the cap, `full`, whatever others
\* have committed since it read the row, and commits.
Update(w, r, context, full) ==
    /\ reads[w] # NoRow
    /\ row' = r
    /\ reads' = [reads EXCEPT ![w] = NoRow]
    /\ capped' = (capped \/ OverCap(full))
    /\ clipped' = (clipped \/ OverCap(Trim(context, HistoryCap)))
    /\ raced' = (raced \/ reads[w] # row)

\* It ends without having written.
Unwritten(w) ==
    /\ reads' = [reads EXCEPT ![w] = NoRow]
    /\ UNCHANGED <<row, capped, clipped, raced>>

\* What a writer other than the turn's save has added.
Heard(m) == said' = said \cup {m} /\ meanwhile' = meanwhile \cup {m}

Appended(w, msgs, ids) ==
    LET r == Opened(reads[w])
        context == DropProvisional(Live(r), ids) \o msgs
    IN  Update(w, AppendTo(reads[w], msgs, ids), context, Untruncated(r, context))

-----------------------------------------------------------------------------
(* Webhook threads: record_inbound, on the arrival of a message.           *)

ReadOnArrival(i) ==
    /\ inbound[i] = "new"
    /\ inbound' = [inbound EXCEPT ![i] = "arriving"]
    /\ Select(i)
    /\ UNCHANGED <<row, idled, recorded, pushed, turn, said, meanwhile, capped, clipped, raced>>

RecordInbound(i) ==
    /\ inbound[i] = "arriving"
    /\ inbound' = [inbound EXCEPT ![i] = "waiting"]
    /\ Appended(i, <<OnArrival(i)>>, {})
    /\ recorded' = recorded \cup {i}
    /\ Heard(Say("user", {i}))
    /\ UNCHANGED <<idled, pushed, turn>>

\* "Never raises": the turn runs, with no copy to fold in.  (On an expired row the
\* turn would then hold the row's lock from its `load` on: not modelled.)
RecordInboundFails(i) ==
    /\ inbound[i] = "arriving"
    /\ ~row.expired
    /\ inbound' = [inbound EXCEPT ![i] = "waiting"]
    /\ Unwritten(i)
    /\ UNCHANGED <<idled, recorded, pushed, turn, said, meanwhile>>

-----------------------------------------------------------------------------
(* Messages the shop starts: record_outbound, staff_reply.                 *)

ReadForPush(p) ==
    /\ p \notin pushed
    /\ Select(p)
    /\ UNCHANGED <<row, idled, inbound, recorded, pushed, turn, said, meanwhile, capped, clipped, raced>>

RecordPush(p) ==
    /\ Appended(p, <<Say("push", {p})>>, {})
    /\ pushed' = pushed \cup {p}
    /\ Heard(Say("push", {p}))
    /\ UNCHANGED <<idled, inbound, recorded, turn>>

-----------------------------------------------------------------------------
(* The turn: handle_message and run_turn on the batch the dispatcher hands  *)
(* over, and what the adapter does after it.                               *)

Unanswered == {i \in Inbound : inbound[i] = "waiting"}
Answered(b) == [i \in Inbound |-> IF i \in b THEN "answered" ELSE inbound[i]]

\* run_turn begins: the bookmark, the copy of the context without the copies made
\* on arrival, and the customer's message as the turn stores it.
Begin(b, tries) ==
    /\ turn' = [NoTurn EXCEPT !.step = "composing", !.batch = b, !.tries = tries,
                 !.base = Len(row.history),
                 !.history = Append(DropProvisional(Live(row), b \cap recorded), Say("user", b))]
    /\ meanwhile' = {}

BeginTurn(b) ==
    /\ turn.step = "idle"
    /\ b # {} /\ b \subseteq Unanswered
    /\ Begin(b, 0)
    /\ UNCHANGED <<row, idled, inbound, recorded, pushed, reads, said, capped, clipped, raced>>

\* The one retry of a turn that crashed (turn_retry.call_with_retry).
RetryTurn ==
    /\ turn.step = "retrying"
    /\ Begin(turn.batch, 1)
    /\ UNCHANGED <<row, idled, inbound, recorded, pushed, reads, said, capped, clipped, raced>>

\* confirm_order: the confirmation is recorded in the turn's own session, and
\* committed with the order while the turn goes on.  Bound: one order.
ReadForConfirmation ==
    /\ turn.step = "composing"
    /\ \A m \in said : m.role = "push" => m.of \subseteq Pushes
    /\ turn' = [turn EXCEPT !.step = "ordering"]
    /\ Select("turn")
    /\ UNCHANGED <<row, idled, inbound, recorded, pushed, said, meanwhile, capped, clipped, raced>>

RecordConfirmation ==
    LET confirmation == Say("push", turn.batch) IN
    /\ turn.step = "ordering"
    /\ Appended("turn", <<confirmation>>, {})
    /\ turn' = [turn EXCEPT !.step = "composing", !.ordered = TRUE]
    /\ Heard(confirmation)
    /\ UNCHANGED <<idled, inbound, recorded, pushed>>

\* A newer message is there and no tool has written anything: nothing is saved.
Superseded ==
    /\ turn.step = "composing"
    /\ ~turn.ordered
    /\ \E i \in Inbound \ turn.batch : inbound[i] \in {"arriving", "waiting"}
    /\ turn' = NoTurn
    /\ UNCHANGED <<row, idled, inbound, recorded, pushed, reads, said, meanwhile, capped, clipped, raced>>

\* What a turn adds to its history: tool calls or none, and then the reply, or
\* nothing when the provider has failed.  After an order there is the call and no
\* reply: the confirmation has answered the customer.
Outcomes(b) ==
    LET called == <<Say("call", b), Say("results", b)>>
    IN  IF turn.ordered THEN {called}
        ELSE {before \o after : before \in {<<>>, called}, after \in {<<>>, <<Say("reply", b)>>}}

\* save(merge_since), its SELECT.
ReadForSave(added) ==
    /\ turn.step = "composing"
    /\ turn' = [turn EXCEPT !.step = "saving", !.history = @ \o added]
    /\ Select("turn")
    /\ UNCHANGED <<row, idled, inbound, recorded, pushed, said, meanwhile, capped, clipped, raced>>

\* save(merge_since), its UPDATE, and the turn's COMMIT.
SaveTurn ==
    LET r == reads["turn"]
        merged == MergeInterleaved(turn.history, r.history, turn.base)
    IN  /\ turn.step = "saving"
        /\ Update("turn", Save(r, merged), merged, Untruncated(r, merged))
        /\ said' = said \cup {m \in Range(turn.history) : m.of = turn.batch}
        /\ inbound' = Answered(turn.batch)
        /\ turn' = NoTurn
        /\ UNCHANGED <<idled, recorded, pushed, meanwhile>>

\* A paused conversation: the message is stored for staff, and nothing answers.
ReadWhilePaused(b) ==
    /\ turn.step = "idle"
    /\ b # {} /\ b \subseteq Unanswered
    /\ turn' = [NoTurn EXCEPT !.step = "storing", !.batch = b]
    /\ Select("turn")
    /\ UNCHANGED <<row, idled, inbound, recorded, pushed, said, meanwhile, capped, clipped, raced>>

StoreWhilePaused ==
    LET m == Say("user", turn.batch) IN
    /\ turn.step = "storing"
    /\ Appended("turn", <<m>>, turn.batch \cap recorded)
    /\ said' = said \cup {m}
    /\ inbound' = Answered(turn.batch)
    /\ turn' = NoTurn
    /\ UNCHANGED <<idled, recorded, pushed, meanwhile>>

\* The turn raises and its transaction is rolled back; it is tried once more, and
\* then given up: what arrived is left in the transcript as it arrived.
Crash ==
    /\ turn.step \in {"composing", "ordering", "saving", "storing"}
    /\ Unwritten("turn")
    /\ IF turn.tries = 0
         THEN /\ turn' = [NoTurn EXCEPT !.step = "retrying", !.batch = turn.batch]
              /\ UNCHANGED inbound
         ELSE /\ turn' = NoTurn
              /\ inbound' = [i \in Inbound |-> IF i \in turn.batch THEN "given up" ELSE inbound[i]]
    /\ UNCHANGED <<idled, recorded, pushed, said, meanwhile>>

-----------------------------------------------------------------------------

\* SESSION_EXPIRY_HOURS pass without a message.
Expire ==
    /\ idled < MaxIdle
    /\ row.history # <<>> /\ ~row.expired
    /\ turn.step = "idle" /\ Unanswered = {}
    /\ \A w \in Writers : reads[w] = NoRow
    /\ row' = [row EXCEPT !.expired = TRUE]
    /\ idled' = idled + 1
    /\ UNCHANGED <<inbound, recorded, pushed, reads, turn, said, meanwhile, capped, clipped, raced>>

TurnStep ==
    \/ \E b \in SUBSET Inbound : BeginTurn(b) \/ ReadWhilePaused(b)
    \/ RetryTurn \/ Superseded \/ Crash
    \/ ReadForConfirmation \/ RecordConfirmation
    \/ \E added \in Outcomes(turn.batch) : ReadForSave(added)
    \/ SaveTurn \/ StoreWhilePaused

SessionNext ==
    \/ \E i \in Inbound : ReadOnArrival(i) \/ RecordInbound(i) \/ RecordInboundFails(i)
    \/ \E p \in Pushes : ReadForPush(p) \/ RecordPush(p)
    \/ TurnStep
    \/ Expire

SessionSpec == SessionInit /\ [][SessionNext]_sessionVars

-----------------------------------------------------------------------------
(* Properties.                                                             *)

\* Every variable has its type; the context starts inside the history.
SessionTypeOK ==
    /\ row \in Row /\ row.start <= Len(row.history)
    /\ idled \in 0..MaxIdle
    /\ inbound \in [Inbound -> {"new", "arriving", "waiting", "answered", "given up"}]
    /\ recorded \subseteq Inbound
    /\ pushed \subseteq Pushes
    /\ reads \in [Writers -> Row]
    /\ turn \in [step : {"idle", "composing", "ordering", "saving", "storing", "retrying"},
                batch : SUBSET Inbound, base : Nat, history : Seq(Message),
                ordered : BOOLEAN, tries : 0..1]
    /\ said \subseteq Message /\ meanwhile \subseteq said
    /\ capped \in BOOLEAN /\ clipped \in BOOLEAN /\ raced \in BOOLEAN

\* "Cutting between a tool call and its result leaves the history malformed and
\* providers reject the entire request": whatever was trimmed, archived, carried
\* over or folded in, what the model is sent has the call right before every result
\* and the result right after every call.  A cap below the context cuts it anywhere,
\* and after a write over an unread row a turn's bookmark no longer says what is new.
Paired(s) ==
    /\ \A i \in DOMAIN s : s[i].role = "results" => i > 1 /\ s[i - 1] = Say("call", s[i].of)
    /\ \A i \in DOMAIN s : s[i].role = "call" => i < Len(s) /\ s[i + 1] = Say("results", s[i].of)

PairsStayTogether ==
    ~clipped /\ ~raced => Paired(Live(row)) /\ (turn.step = "composing" => Paired(turn.history))

\* What the model is sent says nothing twice: a message of the customer is there
\* as it arrived or as a turn stored it, never both, and no reply, call or push is
\* repeated, whoever wrote in the middle of a turn.
ContextSaysNothingTwice ==
    LET context == Live(row) IN
    ~raced => \A i, j \in DOMAIN context :
        i # j /\ context[i].role = context[j].role => context[i].of \cap context[j].of = {}

Stored(m) ==
    \E i \in DOMAIN row.history : row.history[i].role = m.role /\ m.of \subseteq row.history[i].of

\* Nothing that was said is lost, although a turn saves a copy of the history as
\* old as the turn: while the archive has room, every message recorded on arrival,
\* every push and everything a committed turn has added is in the transcript --
\* unless a writer committed between another's SELECT and its UPDATE, the only way
\* to lose a message.
NothingLost == ~capped /\ ~raced => \A m \in said : Stored(m)

\* "folded back in rather than overwritten", whatever transactions overlap.
NothingOverwritten == ~capped => \A m \in said : Stored(m)

\* "anything written to the row since then is folded back in rather than
\* overwritten": what others have added while a turn ran is still there, also when
\* the archive is full -- the cap drops the oldest messages.
FoldedBackIn == ~raced => \A m \in meanwhile : Stored(m)
=============================================================================
