---------------------------- MODULE OutboxProofs ----------------------------
(***************************************************************************)
(* Proofs about Outbox, for any units, notices, savepoints and restarts:   *)
(* what is shown as sent was sent or is known not to be, a committed queue *)
(* item is mailed or known not to be, and nothing is said of a write that  *)
(* was rolled back, but for what the model names.                          *)
(***************************************************************************)
EXTENDS Outbox, SequenceTheorems, TLAPS

Open == {"open", "nested", "released"}
Ended == {"committed", "closing", "done"}

\* What a unit has queued, as sets; its rows, committed or not.
Queued(u) == Range(hooks[u]) \cup Range(firing[u])
AllRows(u) == rows \cup staged[u] \cup kept[u]
Written(n) == \E r \in rows : r.of = n

\* Hooks and uncommitted rows are those of a transaction.
Placed(u) ==
    /\ hooks[u] # <<>> => InTransaction(u)
    /\ staged[u] # {} => phase[u] \in Open
    /\ kept[u] # {} => phase[u] = "nested"

\* A unit queues and writes its own notices.
Owns(u) ==
    /\ \A hook \in Queued(u) : By[hook.of] = u
    /\ \A n \in Range(jobs[u]) : By[n] = u
    /\ \A r \in staged[u] \cup kept[u] : By[r.of] = u

\* Nothing of a unit is committed before its end.
CommitsLast(u) == \A r \in rows : By[r.of] = u => phase[u] \in Ended

\* A hook is queued together with a row; what fires is committed, or early.
HooksHaveRows(u) == \A hook \in Range(hooks[u]) : \E r \in staged[u] : r.of = hook.of
FiresWritten(u) == \A hook \in Range(firing[u]) : hook.of \in early \/ Written(hook.of)

\* Why a line reads as sent, and where the mail of a queue item is.
SentKnown(u) ==
    \A n \in Notices : By[n] = u /\ Line(n, "sent") \in AllRows(u) =>
        \/ n \in accepted \cup forgotten
        \/ Send(n) \in Queued(u) \/ n \in Range(jobs[u])
        \/ said[n] = "resolution" /\ n \in refused
AlertsKnown(u) ==
    \A n \in Notices : By[n] = u /\ Alert(n) \in AllRows(u) =>
        n \in mailed \cup unmailed \cup mailing \cup forgotten \/ Mail(n) \in Queued(u)

UnitInv(u) ==
    /\ Placed(u) /\ Owns(u) /\ CommitsLast(u) /\ HooksHaveRows(u) /\ FiresWritten(u)
    /\ SentKnown(u) /\ AlertsKnown(u)

MailsWritten == \A n \in mailing : n \in early \/ Written(n)

\* The inductive invariant.
IInv == TypeOK /\ (\A u \in Units : UnitInv(u)) /\ MailsWritten /\ OnlyWhatWasWritten

-----------------------------------------------------------------------------
(* Rows, hooks and queues.                                                 *)

LEMMA RowFacts ==
    ASSUME NEW n \in Notices
    PROVE  /\ Line(n, "sent") \in Rows /\ Line(n, "failed") \in Rows /\ Alert(n) \in Rows
           /\ Line(n, "sent").of = n /\ Line(n, "failed").of = n /\ Alert(n).of = n
           /\ \A m \in Notices :
                /\ Line(n, "sent") # Alert(m) /\ Line(n, "sent") # Line(m, "failed")
                /\ Alert(n) # Line(m, "failed")
                /\ Line(n, "sent") = Line(m, "sent") => n = m
                /\ Alert(n) = Alert(m) => n = m
BY DEF Line, Alert, Rows

LEMMA HookFacts ==
    ASSUME NEW n \in Notices
    PROVE  /\ Send(n) \in Hooks /\ Mail(n) \in Hooks
           /\ Send(n).of = n /\ Mail(n).of = n
           /\ \A m \in Notices :
                /\ Send(n) # Mail(m)
                /\ Send(n) = Send(m) => n = m
                /\ Mail(n) = Mail(m) => n = m
BY DEF Send, Mail, Hooks

LEMMA QueueFacts ==
    ASSUME NEW S, NEW s \in Seq(S)
    PROVE  /\ Range(s) \subseteq S
           /\ s = <<>> => Range(s) = {}
           /\ s # <<>> => /\ Head(s) \in S /\ Tail(s) \in Seq(S)
                          /\ Range(s) = {Head(s)} \cup Range(Tail(s))
           /\ \A x \in S : Append(s, x) \in Seq(S) /\ Range(Append(s, x)) = Range(s) \cup {x}
           /\ \A x \in S : s \o <<x>> \in Seq(S) /\ Range(s \o <<x>>) = Range(s) \cup {x}
           /\ s \o <<>> = s
<1>1. Range(s) \subseteq S
  BY DEF Range
<1>2. s = <<>> => Range(s) = {}
  BY DEF Range
<1>3. ASSUME s # <<>>
      PROVE  /\ Head(s) \in S /\ Tail(s) \in Seq(S)
             /\ Range(s) = {Head(s)} \cup Range(Tail(s))
  <2>1. Head(s) \in S /\ Tail(s) \in Seq(S) /\ Len(Tail(s)) = Len(s) - 1 /\ Len(s) \in Nat \ {0}
    BY <1>3, HeadTailProperties, LenProperties, EmptySeq
  <2>2. \A i \in 1 .. Len(Tail(s)) : Tail(s)[i] = s[i + 1]
    BY <1>3, HeadTailProperties
  <2>3. Head(s) = s[1]
    BY <1>3
  <2>4. Range(s) = {s[i] : i \in 1 .. Len(s)} /\ Range(Tail(s)) = {Tail(s)[i] : i \in 1 .. Len(Tail(s))}
    BY <2>1, RangeEquality
  <2>5. ASSUME NEW x \in Range(s) PROVE x \in {Head(s)} \cup Range(Tail(s))
    <3>1. PICK i \in 1 .. Len(s) : x = s[i]
      BY <2>4
    <3>2. CASE i = 1
      BY <2>3, <3>1, <3>2
    <3>3. CASE i # 1
      <4>1. i - 1 \in 1 .. Len(Tail(s)) /\ (i - 1) + 1 = i
        BY <2>1, <3>3
      <4>2. Tail(s)[i - 1] = s[i]
        BY <2>2, <4>1
      <4>3. QED
        BY <2>4, <3>1, <4>1, <4>2
    <3>4. QED
      BY <3>2, <3>3
  <2>6. ASSUME NEW x \in {Head(s)} \cup Range(Tail(s)) PROVE x \in Range(s)
    <3>1. CASE x = Head(s)
      BY <2>1, <2>3, <2>4, <3>1
    <3>2. CASE x \in Range(Tail(s))
      <4>1. PICK i \in 1 .. Len(Tail(s)) : x = Tail(s)[i]
        BY <2>4, <3>2
      <4>2. i + 1 \in 1 .. Len(s) /\ x = s[i + 1]
        BY <2>1, <2>2, <4>1
      <4>3. QED
        BY <2>4, <4>2
    <3>3. QED
      BY <3>1, <3>2
  <2>7. QED
    BY <2>1, <2>5, <2>6
<1>4. ASSUME NEW x \in S
      PROVE  s \o <<x>> \in Seq(S) /\ Range(s \o <<x>>) = Range(s) \cup {x}
  <2>1. <<x>> \in Seq(S) /\ Range(<<x>>) = {x}
    BY DEF Range
  <2>2. QED
    BY <2>1, RangeConcatenation, ConcatProperties
<1>5. ASSUME NEW x \in S
      PROVE  Append(s, x) \in Seq(S) /\ Range(Append(s, x)) = Range(s) \cup {x}
  <2>1. Append(s, x) = s \o <<x>>
    BY AppendIsConcat
  <2>2. QED
    BY <1>4, <1>5, <2>1
<1>6. s \o <<>> = s
  BY ConcatEmptySeq
<1>7. QED
  BY <1>1, <1>2, <1>3, <1>4, <1>5, <1>6

\* About, by what is in the queue.
LEMMA AboutIs ==
    ASSUME NEW s \in Seq(Hooks)
    PROVE  About(s) = {hook.of : hook \in Range(s)}
BY DEF About, Range

-----------------------------------------------------------------------------
(* Types.                                                                  *)

\* What a step of unit u leaves to the others, and the sets that only grow.
UnitStep(u) ==
    /\ \E p \in Phases : phase' = [phase EXCEPT ![u] = p]
    /\ \E S \in SUBSET Rows : staged' = [staged EXCEPT ![u] = S]
    /\ \E S \in SUBSET Rows : kept' = [kept EXCEPT ![u] = S]
    /\ \E q \in Seq(Hooks) : hooks' = [hooks EXCEPT ![u] = q]
    /\ \E q \in Seq(Hooks) : firing' = [firing EXCEPT ![u] = q]
    /\ \E q \in Seq(Notices) : jobs' = [jobs EXCEPT ![u] = q]

LEMMA UnitTypes ==
    ASSUME TypeOK, NEW u \in Units, UnitStep(u),
           firing'[u] # <<>> => phase'[u] \in {"released", "committed"},
           savepoints' \in [Units -> Nat], restarts' \in Nat, rows' \subseteq Rows,
           said' \in [Notices -> Kinds \cup {"nothing"}],
           mailing' \subseteq Notices, mailed' \subseteq Notices, accepted' \subseteq Notices,
           refused' \subseteq Notices, early' \subseteq Notices, unmailed' \subseteq Notices,
           forgotten' \subseteq Notices, UNCHANGED cooling
    PROVE  TypeOK'
<1>1. phase' \in [Units -> Phases] /\ \A v \in Units : v # u => phase'[v] = phase[v]
  BY DEF TypeOK, UnitStep
<1>2. staged' \in [Units -> SUBSET Rows] /\ kept' \in [Units -> SUBSET Rows]
  BY DEF TypeOK, UnitStep
<1>3. hooks' \in [Units -> Seq(Hooks)] /\ jobs' \in [Units -> Seq(Notices)]
  BY DEF TypeOK, UnitStep
<1>4. firing' \in [Units -> Seq(Hooks)] /\ \A v \in Units : v # u => firing'[v] = firing[v]
  BY DEF TypeOK, UnitStep
<1>5. \A set \in {mailing', mailed', accepted', refused', early', unmailed', forgotten'} :
        set \subseteq Notices
  OBVIOUS
<1>6. \A v \in Units : firing'[v] # <<>> => phase'[v] \in {"released", "committed"}
  BY <1>1, <1>4 DEF TypeOK
<1>7. QED
  BY <1>1, <1>2, <1>3, <1>4, <1>5, <1>6 DEF TypeOK

\* The parts of the type, one by one.
LEMMA Parts ==
    ASSUME TypeOK
    PROVE  /\ mailing \subseteq Notices /\ mailed \subseteq Notices /\ accepted \subseteq Notices
           /\ refused \subseteq Notices /\ early \subseteq Notices /\ unmailed \subseteq Notices
           /\ forgotten \subseteq Notices /\ rows \subseteq Rows
           /\ savepoints \in [Units -> Nat] /\ restarts \in Nat
           /\ said \in [Notices -> Kinds \cup {"nothing"}]
           /\ \A u \in Units :
                /\ phase[u] \in Phases /\ staged[u] \subseteq Rows /\ kept[u] \subseteq Rows
                /\ hooks[u] \in Seq(Hooks) /\ firing[u] \in Seq(Hooks)
                /\ jobs[u] \in Seq(Notices)
                /\ firing[u] # <<>> => phase[u] \in {"released", "committed"}
           /\ phase \in [Units -> Phases] /\ staged \in [Units -> SUBSET Rows]
           /\ kept \in [Units -> SUBSET Rows] /\ hooks \in [Units -> Seq(Hooks)]
           /\ firing \in [Units -> Seq(Hooks)] /\ jobs \in [Units -> Seq(Notices)]
BY DEF TypeOK

\* What stays the same for a unit that does not move.
Keeps(v) ==
    /\ phase'[v] = phase[v] /\ staged'[v] = staged[v] /\ kept'[v] = kept[v]
    /\ hooks'[v] = hooks[v] /\ firing'[v] = firing[v] /\ jobs'[v] = jobs[v]
    /\ \A r \in rows' : r \in rows \/ By[r.of] # v
    /\ \A n \in Notices : By[n] = v => said'[n] = said[n]
Grows ==
    /\ \A n \in Notices : Written(n) => Written(n)'
    /\ accepted \subseteq accepted' /\ refused \subseteq refused'
    /\ forgotten \subseteq forgotten' /\ early \subseteq early'
    /\ mailed \cup unmailed \cup mailing \subseteq mailed' \cup unmailed' \cup mailing' \cup forgotten'

LEMMA OthersKeep ==
    ASSUME TypeOK, NEW v \in Units, UnitInv(v), Keeps(v), Grows
    PROVE  UnitInv(v)'
<1>1. Queued(v)' = Queued(v)
  BY DEF Queued, Keeps
<1>2. ASSUME NEW r, By[r.of] = v, r \in AllRows(v)'
      PROVE  r \in AllRows(v)
  BY <1>2 DEF AllRows, Keeps
<1>3. Placed(v)' /\ Owns(v)' /\ CommitsLast(v)' /\ HooksHaveRows(v)'
  BY <1>1 DEF UnitInv, Keeps, Placed, Owns, CommitsLast, HooksHaveRows, InTransaction
<1>4. FiresWritten(v)'
  <2>1. \A hook \in Range(firing[v]) : hook.of \in Notices
    <3>1. Range(firing[v]) \subseteq Hooks
      BY QueueFacts, Parts
    <3>2. QED
      BY <3>1 DEF Hooks
  <2>2. QED
    BY <2>1 DEF UnitInv, Keeps, Grows, FiresWritten
<1>5. SentKnown(v)'
  BY <1>1, <1>2, RowFacts DEF UnitInv, Keeps, Grows, SentKnown
<1>6. AlertsKnown(v)'
  BY <1>1, <1>2, RowFacts DEF UnitInv, Keeps, Grows, AlertsKnown
<1>7. QED
  BY <1>3, <1>4, <1>5, <1>6 DEF UnitInv

\* The units but one.
LEMMA AllUnits ==
    ASSUME IInv, NEW u \in Units, UnitStep(u), Grows,
           \A r \in rows' : r \in rows \/ By[r.of] = u,
           \A n \in Notices : By[n] # u => said'[n] = said[n],
           UnitInv(u)'
    PROVE  \A v \in Units : UnitInv(v)'
<1> SUFFICES ASSUME NEW v \in Units, v # u PROVE UnitInv(v)'
  OBVIOUS
<1>1. /\ phase'[v] = phase[v] /\ staged'[v] = staged[v] /\ kept'[v] = kept[v]
      /\ hooks'[v] = hooks[v] /\ firing'[v] = firing[v] /\ jobs'[v] = jobs[v]
  BY DEF IInv, TypeOK, UnitStep
<1>2. Keeps(v)
  BY <1>1 DEF Keeps
<1>3. QED
  BY <1>2, OthersKeep DEF IInv

-----------------------------------------------------------------------------
(* Steps that send and commit nothing.                                     *)

\* What nobody outside the unit sees.
Unseen ==
    /\ UNCHANGED <<rows, accepted, refused, mailed, mailing, unmailed, cooling, restarts>>
    /\ early \subseteq early' /\ forgotten \subseteq forgotten'
    /\ \A n \in Notices : said[n] # "nothing" => said'[n] = said[n]

LEMMA UnseenGlobals ==
    ASSUME IInv, Unseen
    PROVE  Grows /\ MailsWritten' /\ OnlyWhatWasWritten'
<1>1. Grows
  BY DEF Unseen, Grows, Written
<1>2. MailsWritten'
  BY DEF IInv, Unseen, MailsWritten, Written
<1>3. OnlyWhatWasWritten'
  <2>1. accepted \cup refused \cup mailed \subseteq Notices
    BY Parts DEF IInv
  <2>2. QED
    BY <2>1 DEF IInv, Unseen, OnlyWhatWasWritten
<1>4. QED
  BY <1>1, <1>2, <1>3

LEMMA UnseenStep ==
    ASSUME IInv, NEW u \in Units, UnitStep(u), Unseen,
           firing'[u] # <<>> => phase'[u] \in {"released", "committed"},
           savepoints' \in [Units -> Nat], said' \in [Notices -> Kinds \cup {"nothing"}],
           early' \subseteq Notices, forgotten' \subseteq Notices,
           \A n \in Notices : By[n] # u => said'[n] = said[n],
           UnitInv(u)'
    PROVE  IInv'
<1>1. Grows /\ MailsWritten' /\ OnlyWhatWasWritten'
  BY UnseenGlobals
<1>2. TypeOK'
  BY Parts, UnitTypes DEF IInv, Unseen
<1>3. \A v \in Units : UnitInv(v)'
  BY <1>1, AllUnits DEF Unseen
<1>4. QED
  BY <1>1, <1>2, <1>3 DEF IInv

\* The phase alone, or with what the unit has counted.
LEMMA PhaseStep ==
    ASSUME IInv, NEW u \in Units, NEW p \in Phases, phase' = [phase EXCEPT ![u] = p],
           UNCHANGED <<staged, hooks, firing, jobs, rows, accepted, refused, mailed, mailing,
                       unmailed, cooling, restarts, said, early, forgotten>>,
           kept' = kept \/ (kept' = [kept EXCEPT ![u] = staged[u]] /\ p = "nested"),
           savepoints' \in [Units -> Nat],
           firing[u] # <<>> => p \in {"released", "committed"},
           hooks[u] # <<>> => p \in {"open", "nested"},
           staged[u] # {} => p \in Open, kept[u] # {} => p = "nested",
           phase[u] \in Ended => p \in Ended
    PROVE  IInv'
<1>1. UnitStep(u) /\ phase'[u] = p
  <2>1. /\ staged' = [staged EXCEPT ![u] = staged[u]] /\ staged[u] \in SUBSET Rows
        /\ hooks' = [hooks EXCEPT ![u] = hooks[u]] /\ hooks[u] \in Seq(Hooks)
        /\ firing' = [firing EXCEPT ![u] = firing[u]] /\ firing[u] \in Seq(Hooks)
        /\ jobs' = [jobs EXCEPT ![u] = jobs[u]] /\ jobs[u] \in Seq(Notices)
    BY Parts DEF IInv
  <2>2. \E S \in SUBSET Rows : kept' = [kept EXCEPT ![u] = S]
    <3>1. CASE kept' = kept
      <4>1. kept' = [kept EXCEPT ![u] = kept[u]] /\ kept[u] \in SUBSET Rows
        BY <3>1, Parts DEF IInv
      <4>2. QED
        BY <4>1
    <3>2. CASE kept' = [kept EXCEPT ![u] = staged[u]]
      BY <2>1, <3>2
    <3>3. QED
      BY <3>1, <3>2
  <2>3. phase'[u] = p
    BY Parts DEF IInv
  <2>4. QED
    BY <2>1, <2>2, <2>3 DEF UnitStep
<1>2. Unseen
  BY DEF Unseen
<1>3. kept'[u] = kept[u] \/ (kept'[u] = staged[u] /\ p = "nested")
  BY Parts DEF IInv
<1>4. AllRows(u)' \subseteq AllRows(u) /\ Queued(u)' = Queued(u)
  BY <1>3 DEF AllRows, Queued
<1>5. UnitInv(u)'
  <2>1. Placed(u)'
    BY <1>1, <1>3 DEF IInv, UnitInv, Placed, InTransaction
  <2>2. Owns(u)' /\ CommitsLast(u)' /\ HooksHaveRows(u)' /\ FiresWritten(u)'
    BY <1>1, <1>3, <1>4 DEF IInv, UnitInv, Owns, CommitsLast, HooksHaveRows, FiresWritten, Written
  <2>3. SentKnown(u)' /\ AlertsKnown(u)'
    BY <1>4 DEF IInv, UnitInv, SentKnown, AlertsKnown
  <2>4. QED
    BY <2>1, <2>2, <2>3 DEF UnitInv
<1>6. QED
  BY <1>1, <1>2, <1>5, Parts, UnseenStep DEF IInv

LEMMA PhaseSteps ==
    ASSUME IInv, NEW u \in Units, Begin(u) \/ OpenSavepoint(u) \/ HooksRan(u) \/ Close(u)
    PROVE  IInv'
<1>1. /\ phase[u] \in Phases /\ savepoints \in [Units -> Nat]
      /\ hooks[u] # <<>> => phase[u] \in {"open", "nested"}
      /\ staged[u] # {} => phase[u] \in Open
      /\ kept[u] # {} => phase[u] = "nested"
      /\ firing[u] # <<>> => phase[u] \in {"released", "committed"}
  BY Parts DEF IInv, UnitInv, Placed, InTransaction
<1>2. CASE Begin(u)
  BY <1>1, <1>2, PhaseStep DEF Begin, mailVars, sentVars, Phases, Open, Ended
<1>3. CASE OpenSavepoint(u)
  <2>1. savepoints' \in [Units -> Nat]
    BY <1>1, <1>3 DEF OpenSavepoint
  <2>2. QED
    BY <1>1, <1>3, <2>1, PhaseStep DEF OpenSavepoint, mailVars, sentVars, Phases, Open, Ended
<1>4. CASE HooksRan(u)
  <2> DEFINE p == IF phase[u] = "released" THEN "open" ELSE "closing"
  <2>1. phase' = [phase EXCEPT ![u] = p] /\ p \in Phases
    BY <1>4 DEF HooksRan, Phases
  <2>2. QED
    BY <1>1, <1>4, <2>1, PhaseStep DEF HooksRan, mailVars, sentVars, Open, Ended
<1>5. CASE Close(u)
  BY <1>1, <1>5, PhaseStep DEF Close, mailVars, sentVars, Phases, Open, Ended
<1>6. QED
  BY <1>2, <1>3, <1>4, <1>5

\* The functions of a unit, changed at the unit alone.
Goes(u, p, S, K, H, F, J) ==
    /\ phase' = [phase EXCEPT ![u] = p] \/ (phase' = phase /\ p = phase[u])
    /\ staged' = [staged EXCEPT ![u] = S] \/ (staged' = staged /\ S = staged[u])
    /\ kept' = [kept EXCEPT ![u] = K] \/ (kept' = kept /\ K = kept[u])
    /\ hooks' = [hooks EXCEPT ![u] = H] \/ (hooks' = hooks /\ H = hooks[u])
    /\ firing' = [firing EXCEPT ![u] = F] \/ (firing' = firing /\ F = firing[u])
    /\ jobs' = [jobs EXCEPT ![u] = J] \/ (jobs' = jobs /\ J = jobs[u])

Went(u, p, S, K, H, F, J) ==
    /\ phase'[u] = p /\ staged'[u] = S /\ kept'[u] = K
    /\ hooks'[u] = H /\ firing'[u] = F /\ jobs'[u] = J

LEMMA StepOf ==
    ASSUME TypeOK, NEW u \in Units, NEW p \in Phases,
           NEW S \in SUBSET Rows, NEW K \in SUBSET Rows,
           NEW H \in Seq(Hooks), NEW F \in Seq(Hooks), NEW J \in Seq(Notices),
           Goes(u, p, S, K, H, F, J)
    PROVE  UnitStep(u) /\ Went(u, p, S, K, H, F, J)
<1> USE DEF Goes
<1>1. phase' = [phase EXCEPT ![u] = p] /\ phase'[u] = p
  BY Parts
<1>2. staged' = [staged EXCEPT ![u] = S] /\ staged'[u] = S
  BY Parts
<1>3. kept' = [kept EXCEPT ![u] = K] /\ kept'[u] = K
  BY Parts
<1>4. hooks' = [hooks EXCEPT ![u] = H] /\ hooks'[u] = H
  BY Parts
<1>5. firing' = [firing EXCEPT ![u] = F] /\ firing'[u] = F
  BY Parts
<1>6. jobs' = [jobs EXCEPT ![u] = J] /\ jobs'[u] = J
  BY Parts
<1>7. QED
  BY <1>1, <1>2, <1>3, <1>4, <1>5, <1>6 DEF UnitStep, Went

LEMMA NoQueue ==
    <<>> \in Seq(Hooks) /\ <<>> \in Seq(Notices) /\ Range(<<>>) = {}
BY DEF Range

\* The notices hooks are about.
LEMMA AboutType ==
    ASSUME IInv, NEW u \in Units
    PROVE  /\ About(hooks[u]) \subseteq Notices /\ About(firing[u]) \subseteq Notices
           /\ Range(jobs[u]) \subseteq Notices
           /\ \A hook \in Range(hooks[u]) : hook.of \in About(hooks[u])
           /\ \A hook \in Range(firing[u]) : hook.of \in About(firing[u])
           /\ Range(hooks[u]) \subseteq Hooks /\ Range(firing[u]) \subseteq Hooks
<1>1. hooks[u] \in Seq(Hooks) /\ firing[u] \in Seq(Hooks) /\ jobs[u] \in Seq(Notices)
  BY Parts DEF IInv
<1>2. /\ Range(hooks[u]) \subseteq Hooks /\ Range(firing[u]) \subseteq Hooks
      /\ Range(jobs[u]) \subseteq Notices
  BY <1>1, QueueFacts
<1>3. /\ About(hooks[u]) = {hook.of : hook \in Range(hooks[u])}
      /\ About(firing[u]) = {hook.of : hook \in Range(firing[u])}
  BY <1>1, AboutIs
<1>4. \A hook \in Hooks : hook.of \in Notices
  BY DEF Hooks
<1>5. QED
  BY <1>2, <1>3, <1>4

LEMMA ReleaseInvariant ==
    ASSUME IInv, NEW u \in Units, ReleaseSavepoint(u)
    PROVE  IInv'
<1>1. /\ phase[u] = "nested" /\ phase' = [phase EXCEPT ![u] = "released"]
      /\ firing' = [firing EXCEPT ![u] = hooks[u]] /\ hooks' = [hooks EXCEPT ![u] = <<>>]
      /\ early' = early \cup About(hooks[u]) /\ kept' = [kept EXCEPT ![u] = {}]
      /\ UNCHANGED <<staged, jobs, savepoints, rows, mailVars, sentVars, restarts, said, forgotten>>
  BY DEF ReleaseSavepoint
<1>2. UNCHANGED <<accepted, refused, mailed, mailing, unmailed, cooling>>
  BY <1>1 DEF mailVars, sentVars
<1>3. hooks[u] \in Seq(Hooks) /\ jobs[u] \in Seq(Notices) /\ staged[u] \in SUBSET Rows
  BY Parts DEF IInv
<1>4. /\ UnitStep(u) /\ phase'[u] = "released" /\ staged'[u] = staged[u] /\ kept'[u] = {}
      /\ hooks'[u] = <<>> /\ firing'[u] = hooks[u] /\ jobs'[u] = jobs[u]
  <2>1. "released" \in Phases /\ {} \in SUBSET Rows
    BY DEF Phases
  <2>2. Goes(u, "released", staged[u], {}, <<>>, hooks[u], jobs[u])
    BY <1>1 DEF Goes
  <2>3. QED
    <3>1. TypeOK /\ <<>> \in Seq(Hooks)
      BY NoQueue DEF IInv
    <3>2. UnitStep(u) /\ Went(u, "released", staged[u], {}, <<>>, hooks[u], jobs[u])
      BY <1>3, <2>1, <2>2, <3>1, StepOf
    <3>3. QED
      BY <3>2 DEF Went
<1>5. firing[u] = <<>>
  BY <1>1, Parts DEF IInv
<1>6. /\ Range(hooks[u])' = {} /\ Range(firing[u])' = Range(hooks[u])
      /\ Range(firing[u]) = {} /\ Queued(u)' = Queued(u)
  BY <1>4, <1>5, NoQueue DEF Queued
<1>7. AllRows(u)' \subseteq AllRows(u)
  BY <1>1, <1>4 DEF AllRows
<1>8. UnitInv(u)'
  <2>1. Placed(u)' /\ Owns(u)' /\ HooksHaveRows(u)'
    BY <1>1, <1>4, <1>6 DEF IInv, UnitInv, Placed, Owns, HooksHaveRows, Open
  <2>2. CommitsLast(u)'
    BY <1>1 DEF IInv, UnitInv, CommitsLast, Ended
  <2>3. FiresWritten(u)'
    BY <1>1, <1>6, AboutType DEF FiresWritten
  <2>4. SentKnown(u)' /\ AlertsKnown(u)'
    BY <1>1, <1>2, <1>4, <1>6, <1>7 DEF IInv, UnitInv, SentKnown, AlertsKnown
  <2>5. QED
    BY <2>1, <2>2, <2>3, <2>4 DEF UnitInv
<1>9. Unseen
  BY <1>1, <1>2 DEF Unseen
<1>10. QED
  BY <1>1, <1>4, <1>8, <1>9, Parts, AboutType, UnseenStep DEF IInv

\* Back to the savepoint, or the whole transaction.
LEMMA RollBackInvariant ==
    ASSUME IInv, NEW u \in Units, RollBackToSavepoint(u) \/ RollBack(u)
    PROVE  IInv'
<1> DEFINE p == IF RollBack(u) THEN "closing" ELSE "open"
           S == IF RollBack(u) THEN {} ELSE kept[u]
<1>1. /\ InTransaction(u) /\ phase[u] \in {"open", "nested"}
      /\ hooks' = [hooks EXCEPT ![u] = <<>>] /\ kept' = [kept EXCEPT ![u] = {}]
      /\ UNCHANGED <<firing, jobs, savepoints, rows, mailVars, sentVars, restarts, said, early>>
  BY DEF RollBackToSavepoint, RollBack, InTransaction
<1>2. UNCHANGED <<accepted, refused, mailed, mailing, unmailed, cooling>>
  BY <1>1 DEF mailVars, sentVars
<1>3. /\ firing[u] \in Seq(Hooks) /\ jobs[u] \in Seq(Notices) /\ kept[u] \in SUBSET Rows
      /\ S \in SUBSET Rows /\ p \in Phases /\ firing[u] = <<>>
  BY <1>1, Parts DEF IInv, Phases
<1>4. phase' = [phase EXCEPT ![u] = p] /\ staged' = [staged EXCEPT ![u] = S]
  BY DEF RollBackToSavepoint, RollBack
<1>5. /\ forgotten \subseteq forgotten' /\ forgotten' \subseteq Notices
      /\ ~RollBack(u) => About(hooks[u]) \subseteq forgotten'
  BY Parts, AboutType DEF IInv, RollBackToSavepoint, RollBack
<1> HIDE DEF p, S
<1>6. /\ UnitStep(u) /\ phase'[u] = p /\ staged'[u] = S /\ kept'[u] = {}
      /\ hooks'[u] = <<>> /\ firing'[u] = firing[u] /\ jobs'[u] = jobs[u]
  <2>1. Goes(u, p, S, {}, <<>>, firing[u], jobs[u])
    BY <1>1, <1>4 DEF Goes
  <2>2. {} \in SUBSET Rows
    OBVIOUS
  <2>3. QED
    <3>1. TypeOK /\ <<>> \in Seq(Hooks)
      BY NoQueue DEF IInv
    <3>2. UnitStep(u) /\ Went(u, p, S, {}, <<>>, firing[u], jobs[u])
      BY <1>3, <2>1, <2>2, <3>1, StepOf
    <3>3. QED
      BY <3>2 DEF Went
<1>7. Range(hooks[u])' = {} /\ Queued(u)' = {} /\ Queued(u) = Range(hooks[u])
  BY <1>3, <1>6, NoQueue DEF Queued
<1>8. S \subseteq kept[u] /\ AllRows(u)' \subseteq AllRows(u)
  BY <1>1, <1>6 DEF AllRows, S
<1>9. \A r \in rows : By[r.of] # u
  BY <1>1 DEF IInv, UnitInv, CommitsLast, Ended
<1>10. RollBack(u) => AllRows(u)' = rows
  BY <1>1, <1>6 DEF AllRows, S
<1>11. UnitInv(u)'
  <2>1. Placed(u)' /\ Owns(u)' /\ HooksHaveRows(u)'
    BY <1>6, <1>7, <1>8 DEF IInv, UnitInv, Placed, Owns, HooksHaveRows, Open, p, S
  <2>2. CommitsLast(u)' /\ FiresWritten(u)'
    BY <1>1, <1>6, <1>9 DEF IInv, UnitInv, CommitsLast, FiresWritten, Written
  <2>3. SentKnown(u)'
    <3>1. CASE RollBack(u)
      BY <1>9, <1>10, <3>1, RowFacts DEF SentKnown
    <3>2. CASE ~RollBack(u)
      <4>1. \A n \in Notices : Send(n) \in Queued(u) => n \in forgotten'
        BY <1>5, <1>7, <3>2, AboutType, HookFacts
      <4>2. QED
        BY <1>1, <1>2, <1>5, <1>6, <1>8, <4>1 DEF IInv, UnitInv, SentKnown
    <3>3. QED
      BY <3>1, <3>2
  <2>4. AlertsKnown(u)'
    <3>1. CASE RollBack(u)
      BY <1>9, <1>10, <3>1, RowFacts DEF AlertsKnown
    <3>2. CASE ~RollBack(u)
      <4>1. \A n \in Notices : Mail(n) \in Queued(u) => n \in forgotten'
        BY <1>5, <1>7, <3>2, AboutType, HookFacts
      <4>2. QED
        BY <1>2, <1>5, <1>8, <4>1 DEF IInv, UnitInv, AlertsKnown
    <3>3. QED
      BY <3>1, <3>2
  <2>5. QED
    BY <2>1, <2>2, <2>3, <2>4 DEF UnitInv
<1>12. Unseen
  BY <1>1, <1>2, <1>5 DEF Unseen
<1>13. QED
  BY <1>1, <1>3, <1>5, <1>6, <1>11, <1>12, Parts, UnseenStep DEF IInv

\* A notice is written down, with its hook.
LEMMA WriteInvariant ==
    ASSUME IInv, NEW u \in Units, NEW n \in Notices, NEW kind \in Kinds,
           NEW W \in SUBSET Rows, NEW hook \in Hooks, Write(u, n, kind, W, <<hook>>),
           hook.of = n, W # {}, \A r \in W : r.of = n,
           Line(n, "sent") \in W => hook = Send(n), Alert(n) \in W => hook = Mail(n)
    PROVE  IInv'
<1> DEFINE S == staged[u] \cup W
           H == hooks[u] \o <<hook>>
<1>1. /\ InTransaction(u) /\ By[n] = u /\ said[n] = "nothing"
      /\ said' = [said EXCEPT ![n] = kind]
      /\ staged' = [staged EXCEPT ![u] = S] /\ hooks' = [hooks EXCEPT ![u] = H]
      /\ UNCHANGED <<phase, kept, firing, jobs, savepoints, rows, mailVars, sentVars, restarts,
                     early, forgotten>>
  BY DEF Write
<1>2. UNCHANGED <<accepted, refused, mailed, mailing, unmailed, cooling>>
  BY <1>1 DEF mailVars, sentVars
<1>3. /\ TypeOK /\ phase[u] \in Phases /\ kept[u] \in SUBSET Rows /\ S \in SUBSET Rows
      /\ hooks[u] \in Seq(Hooks) /\ firing[u] \in Seq(Hooks) /\ jobs[u] \in Seq(Notices)
      /\ firing[u] # <<>> => phase[u] \in {"released", "committed"}
  BY Parts DEF IInv
<1>4. H \in Seq(Hooks) /\ Range(H) = Range(hooks[u]) \cup {hook}
  BY <1>3, QueueFacts
<1> HIDE DEF S, H
<1>5. UnitStep(u) /\ Went(u, phase[u], S, kept[u], H, firing[u], jobs[u])
  <2>1. Goes(u, phase[u], S, kept[u], H, firing[u], jobs[u])
    BY <1>1 DEF Goes
  <2>2. QED
    BY <1>3, <1>4, <2>1, StepOf
<1>6. /\ phase'[u] = phase[u] /\ staged'[u] = S /\ kept'[u] = kept[u]
      /\ hooks'[u] = H /\ firing'[u] = firing[u] /\ jobs'[u] = jobs[u]
  BY <1>5 DEF Went
<1>7. Queued(u)' = Queued(u) \cup {hook} /\ AllRows(u)' = AllRows(u) \cup W
  BY <1>1, <1>4, <1>6 DEF Queued, AllRows, S
<1>8. /\ said' \in [Notices -> Kinds \cup {"nothing"}]
      /\ \A m \in Notices : m # n => said'[m] = said[m]
  BY <1>1, Parts DEF IInv
<1>9. UnitInv(u)'
  <2>1. Placed(u)'
    BY <1>1, <1>6 DEF IInv, UnitInv, Placed, InTransaction, Open
  <2>2. Owns(u)' /\ HooksHaveRows(u)'
    BY <1>1, <1>4, <1>6, <1>7 DEF IInv, UnitInv, Owns, HooksHaveRows, S
  <2>3. CommitsLast(u)' /\ FiresWritten(u)'
    BY <1>1, <1>6 DEF IInv, UnitInv, CommitsLast, FiresWritten, Written
  <2>4. SentKnown(u)'
    BY <1>1, <1>2, <1>6, <1>7, <1>8, RowFacts DEF IInv, UnitInv, SentKnown
  <2>5. AlertsKnown(u)'
    BY <1>1, <1>2, <1>7, RowFacts DEF IInv, UnitInv, AlertsKnown
  <2>6. QED
    BY <2>1, <2>2, <2>3, <2>4, <2>5 DEF UnitInv
<1>10. Unseen
  BY <1>1, <1>2, <1>8 DEF Unseen
<1>11. \A m \in Notices : By[m] # u => said'[m] = said[m]
  BY <1>1, <1>8
<1>12. QED
  BY <1>1, <1>3, <1>5, <1>6, <1>8, <1>9, <1>10, <1>11, Parts, UnseenStep DEF IInv

LEMMA SayInvariant ==
    ASSUME IInv, NEW u \in Units, NEW n \in Notices,
           \/ SayConfirmation(u, n) \/ SayPush(u, n) \/ SayResolution(u, n) \/ SayAlert(u, n)
    PROVE  IInv'
<1>1. /\ {"confirmation", "push", "resolution", "alert"} \subseteq Kinds
      /\ {Line(n, "sent")} \in SUBSET Rows /\ {Line(n, "failed"), Alert(n)} \in SUBSET Rows
      /\ {Alert(n)} \in SUBSET Rows
      /\ Line(n, "sent") \notin {Line(n, "failed"), Alert(n)} /\ Alert(n) # Line(n, "sent")
  BY RowFacts DEF Kinds
<1>2. /\ Send(n) \in Hooks /\ Mail(n) \in Hooks /\ Send(n).of = n /\ Mail(n).of = n
      /\ Line(n, "sent").of = n /\ Line(n, "failed").of = n /\ Alert(n).of = n
  BY HookFacts, RowFacts
<1>3. ASSUME NEW kind \in Kinds, Write(u, n, kind, {Line(n, "sent")}, <<Send(n)>>)
      PROVE  IInv'
  BY <1>1, <1>2, <1>3, WriteInvariant
<1>4. ASSUME NEW kind \in Kinds, Unreachable(u, n, kind)
      PROVE  IInv'
  BY <1>1, <1>2, <1>4, WriteInvariant DEF Unreachable
<1>5. CASE SayAlert(u, n)
  BY <1>1, <1>2, <1>5, WriteInvariant DEF SayAlert
<1>6. QED
  BY <1>1, <1>3, <1>4, <1>5 DEF SayConfirmation, SayPush, SayResolution

LEMMA CorrectFailsInvariant ==
    ASSUME IInv, NEW u \in Units, CorrectFails(u)
    PROVE  IInv'
<1> DEFINE J == Tail(jobs[u])
<1>1. /\ phase[u] = "closing" /\ jobs[u] # <<>>
      /\ jobs' = [jobs EXCEPT ![u] = J]
      /\ forgotten' = forgotten \cup {Head(jobs[u])}
      /\ UNCHANGED <<phase, staged, kept, hooks, firing, savepoints, rows, mailVars, sentVars,
                     restarts, said, early>>
  BY DEF CorrectFails
<1>2. UNCHANGED <<accepted, refused, mailed, mailing, unmailed, cooling>>
  BY <1>1 DEF mailVars, sentVars
<1>3. /\ TypeOK /\ phase[u] \in Phases /\ kept[u] \in SUBSET Rows /\ staged[u] \in SUBSET Rows
      /\ hooks[u] \in Seq(Hooks) /\ firing[u] \in Seq(Hooks) /\ jobs[u] \in Seq(Notices)
      /\ firing[u] # <<>> => phase[u] \in {"released", "committed"}
  BY Parts DEF IInv
<1>4. /\ J \in Seq(Notices) /\ Head(jobs[u]) \in Notices
      /\ Range(jobs[u]) = {Head(jobs[u])} \cup Range(J)
  BY <1>1, <1>3, QueueFacts
<1> HIDE DEF J
<1>5. UnitStep(u) /\ Went(u, phase[u], staged[u], kept[u], hooks[u], firing[u], J)
  <2>1. Goes(u, phase[u], staged[u], kept[u], hooks[u], firing[u], J)
    BY <1>1 DEF Goes
  <2>2. QED
    BY <1>3, <1>4, <2>1, StepOf
<1>6. /\ phase'[u] = phase[u] /\ staged'[u] = staged[u] /\ kept'[u] = kept[u]
      /\ hooks'[u] = hooks[u] /\ firing'[u] = firing[u] /\ jobs'[u] = J
  BY <1>5 DEF Went
<1>7. Queued(u)' = Queued(u) /\ AllRows(u)' = AllRows(u)
  BY <1>1, <1>6 DEF Queued, AllRows
<1>8. UnitInv(u)'
  <2>1. Placed(u)' /\ Owns(u)' /\ HooksHaveRows(u)' /\ CommitsLast(u)' /\ FiresWritten(u)'
    BY <1>1, <1>4, <1>6, <1>7 DEF IInv, UnitInv, Placed, InTransaction, Owns, HooksHaveRows,
       CommitsLast, FiresWritten, Written
  <2>2. SentKnown(u)' /\ AlertsKnown(u)'
    BY <1>1, <1>2, <1>4, <1>6, <1>7 DEF IInv, UnitInv, SentKnown, AlertsKnown
  <2>3. QED
    BY <2>1, <2>2 DEF UnitInv
<1>9. Unseen
  BY <1>1, <1>2 DEF Unseen
<1>10. early' \subseteq Notices /\ forgotten' \subseteq Notices
  BY <1>1, <1>4, Parts DEF IInv
<1>11. QED
  BY <1>1, <1>3, <1>5, <1>6, <1>8, <1>9, <1>10, Parts, UnseenStep DEF IInv

-----------------------------------------------------------------------------
(* Steps that commit, send or mail.                                        *)

\* A step of unit u that shows, with what it has to keep.
LEMMA SeenStep ==
    ASSUME IInv, NEW u \in Units, UnitStep(u), Grows, UnitInv(u)', MailsWritten',
           OnlyWhatWasWritten', UNCHANGED <<cooling, savepoints, restarts, early, forgotten>>,
           firing'[u] # <<>> => phase'[u] \in {"released", "committed"},
           said' \in [Notices -> Kinds \cup {"nothing"}],
           rows' \subseteq Rows, mailing' \subseteq Notices, mailed' \subseteq Notices,
           accepted' \subseteq Notices, refused' \subseteq Notices, unmailed' \subseteq Notices,
           \A r \in rows' : r \in rows \/ By[r.of] = u,
           \A n \in Notices : By[n] # u => said'[n] = said[n]
    PROVE  IInv'
<1>1. TypeOK'
  BY Parts, UnitTypes DEF IInv
<1>2. \A v \in Units : UnitInv(v)'
  BY AllUnits
<1>3. QED
  BY <1>1, <1>2 DEF IInv

LEMMA CommitInvariant ==
    ASSUME IInv, NEW u \in Units, Commit(u)
    PROVE  IInv'
<1>1. /\ phase[u] = "open" /\ phase' = [phase EXCEPT ![u] = "committed"]
      /\ rows' = rows \cup staged[u] /\ staged' = [staged EXCEPT ![u] = {}]
      /\ firing' = [firing EXCEPT ![u] = hooks[u]] /\ hooks' = [hooks EXCEPT ![u] = <<>>]
      /\ UNCHANGED <<kept, jobs, savepoints, mailVars, sentVars, restarts, said, early, forgotten>>
  BY DEF Commit
<1>2. UNCHANGED <<accepted, refused, mailed, mailing, unmailed, cooling>>
  BY <1>1 DEF mailVars, sentVars
<1>3. /\ TypeOK /\ kept[u] \in SUBSET Rows /\ staged[u] \subseteq Rows
      /\ hooks[u] \in Seq(Hooks) /\ jobs[u] \in Seq(Notices) /\ firing[u] = <<>>
      /\ "committed" \in Phases /\ {} \in SUBSET Rows /\ <<>> \in Seq(Hooks)
  BY <1>1, Parts, NoQueue DEF IInv, Phases
<1>4. UnitStep(u) /\ Went(u, "committed", {}, kept[u], <<>>, hooks[u], jobs[u])
  <2>1. Goes(u, "committed", {}, kept[u], <<>>, hooks[u], jobs[u])
    BY <1>1 DEF Goes
  <2>2. QED
    BY <1>3, <2>1, StepOf
<1>5. /\ phase'[u] = "committed" /\ staged'[u] = {} /\ kept'[u] = kept[u]
      /\ hooks'[u] = <<>> /\ firing'[u] = hooks[u] /\ jobs'[u] = jobs[u]
  BY <1>4 DEF Went
<1>6. /\ Range(hooks[u])' = {} /\ Range(firing[u])' = Range(hooks[u])
      /\ Queued(u)' = Queued(u)
  BY <1>3, <1>5, NoQueue DEF Queued
<1>7. AllRows(u)' = AllRows(u)
  BY <1>1, <1>5 DEF AllRows
<1>8. \A n : Written(n) => Written(n)'
  BY <1>1 DEF Written
<1>9. Grows
  BY <1>1, <1>2, <1>8 DEF Grows
<1>10. UnitInv(u)'
  <2>1. Placed(u)'
    BY <1>1, <1>5 DEF IInv, UnitInv, Placed
  <2>2. Owns(u)' /\ HooksHaveRows(u)' /\ CommitsLast(u)'
    BY <1>5, <1>6 DEF IInv, UnitInv, Owns, HooksHaveRows, CommitsLast, Ended
  <2>3. FiresWritten(u)'
    BY <1>1, <1>6 DEF IInv, UnitInv, HooksHaveRows, FiresWritten, Written
  <2>4. SentKnown(u)' /\ AlertsKnown(u)'
    BY <1>1, <1>2, <1>5, <1>6, <1>7 DEF IInv, UnitInv, SentKnown, AlertsKnown
  <2>5. QED
    BY <2>1, <2>2, <2>3, <2>4 DEF UnitInv
<1>11. MailsWritten' /\ OnlyWhatWasWritten'
  <2>1. MailsWritten'
    BY <1>1, <1>2, <1>8 DEF IInv, MailsWritten
  <2>2. OnlyWhatWasWritten'
    BY <1>1, <1>2, <1>8 DEF IInv, OnlyWhatWasWritten
  <2>3. QED
    BY <2>1, <2>2
<1>12. rows' \subseteq Rows /\ \A r \in rows' : r \in rows \/ By[r.of] = u
  BY <1>1, <1>3, Parts DEF IInv, UnitInv, Owns
<1>13. QED
  BY <1>1, <1>2, <1>4, <1>5, <1>9, <1>10, <1>11, <1>12, Parts, SeenStep DEF IInv

\* Sent at once, inside the transaction.
LEMMA RestockInvariant ==
    ASSUME IInv, NEW u \in Units, NEW n \in Notices, SayRestock(u, n)
    PROVE  IInv'
<1>1. /\ InTransaction(u) /\ By[n] = u /\ said[n] = "nothing"
      /\ said' = [said EXCEPT ![n] = "restock"]
      /\ UNCHANGED <<phase, kept, firing, jobs, savepoints, rows, mailVars, restarts,
                     early, forgotten>>
      /\ accepted \subseteq accepted' /\ refused \subseteq refused'
      /\ accepted' \cup refused' = accepted \cup refused \cup {n}
  BY DEF SayRestock
<1>2. UNCHANGED <<mailed, mailing, unmailed, cooling>>
  BY <1>1 DEF mailVars
<1>3. /\ TypeOK /\ phase[u] \in Phases /\ kept[u] \in SUBSET Rows /\ staged[u] \in SUBSET Rows
      /\ hooks[u] \in Seq(Hooks) /\ firing[u] \in Seq(Hooks) /\ jobs[u] \in Seq(Notices)
      /\ firing[u] # <<>> => phase[u] \in {"released", "committed"}
  BY Parts DEF IInv
<1>4. PICK W \in SUBSET Rows, H \in Seq(Hooks) :
        /\ staged' = [staged EXCEPT ![u] = staged[u] \cup W]
        /\ hooks' = [hooks EXCEPT ![u] = H] \/ (hooks' = hooks /\ H = hooks[u])
        /\ Range(hooks[u]) \subseteq Range(H) /\ Range(H) \subseteq Range(hooks[u]) \cup {Mail(n)}
        /\ W # {} /\ \A r \in W : r.of = n
        /\ Line(n, "sent") \in W => n \in accepted'
        /\ Alert(n) \in W => Mail(n) \in Range(H)
  <2>1. CASE accepted' = accepted \cup {n} /\ staged' = [staged EXCEPT ![u] = @ \cup {Line(n, "sent")}]
             /\ hooks' = hooks
    <3>1. {Line(n, "sent")} \in SUBSET Rows /\ Line(n, "sent").of = n /\ Alert(n) # Line(n, "sent")
      BY RowFacts
    <3>2. QED
      BY <1>3, <2>1, <3>1
  <2>2. CASE /\ staged' = [staged EXCEPT ![u] = @ \cup {Line(n, "failed"), Alert(n)}]
             /\ hooks' = [hooks EXCEPT ![u] = Append(@, Mail(n))]
    <3>1. /\ {Line(n, "failed"), Alert(n)} \in SUBSET Rows /\ Line(n, "failed").of = n
          /\ Alert(n).of = n /\ Line(n, "sent") \notin {Line(n, "failed"), Alert(n)}
      BY RowFacts
    <3>2. /\ Append(hooks[u], Mail(n)) \in Seq(Hooks)
          /\ Range(Append(hooks[u], Mail(n))) = Range(hooks[u]) \cup {Mail(n)}
      BY <1>3, HookFacts, QueueFacts
    <3>3. QED
      BY <2>2, <3>1, <3>2
  <2>3. QED
    BY <2>1, <2>2 DEF SayRestock
<1> DEFINE S == staged[u] \cup W
<1>5. S \in SUBSET Rows /\ staged' = [staged EXCEPT ![u] = S]
  BY <1>3, <1>4
<1> HIDE DEF S
<1>6. UnitStep(u) /\ Went(u, phase[u], S, kept[u], H, firing[u], jobs[u])
  <2>1. Goes(u, phase[u], S, kept[u], H, firing[u], jobs[u])
    BY <1>1, <1>4, <1>5 DEF Goes
  <2>2. QED
    BY <1>3, <1>4, <1>5, <2>1, StepOf
<1>7. /\ phase'[u] = phase[u] /\ staged'[u] = S /\ kept'[u] = kept[u]
      /\ hooks'[u] = H /\ firing'[u] = firing[u] /\ jobs'[u] = jobs[u]
  BY <1>6 DEF Went
<1>8. /\ Queued(u) \subseteq Queued(u)' /\ Queued(u)' \subseteq Queued(u) \cup {Mail(n)}
      /\ Range(H) \subseteq Queued(u)'
      /\ AllRows(u)' = AllRows(u) \cup W /\ Mail(n).of = n
  BY <1>1, <1>4, <1>7, HookFacts DEF Queued, AllRows, S
<1>9. /\ said' \in [Notices -> Kinds \cup {"nothing"}] /\ said'[n] = "restock"
      /\ \A m \in Notices : m # n => said'[m] = said[m]
  BY <1>1, Parts DEF IInv, Kinds
<1>10. UnitInv(u)'
  <2>1. Placed(u)'
    BY <1>1, <1>7 DEF IInv, UnitInv, Placed, InTransaction, Open
  <2>2. Owns(u)' /\ HooksHaveRows(u)'
    BY <1>1, <1>4, <1>7, <1>8 DEF IInv, UnitInv, Owns, HooksHaveRows, S
  <2>3. CommitsLast(u)' /\ FiresWritten(u)'
    BY <1>1, <1>7 DEF IInv, UnitInv, CommitsLast, FiresWritten, Written
  <2>4. SentKnown(u)'
    BY <1>1, <1>4, <1>7, <1>8, <1>9, RowFacts DEF IInv, UnitInv, SentKnown
  <2>5. AlertsKnown(u)'
    BY <1>1, <1>2, <1>4, <1>8, RowFacts DEF IInv, UnitInv, AlertsKnown
  <2>6. QED
    BY <2>1, <2>2, <2>3, <2>4, <2>5 DEF UnitInv
<1>11. Grows
  BY <1>1, <1>2 DEF Grows, Written
<1>12. MailsWritten' /\ OnlyWhatWasWritten'
  <2>1. MailsWritten'
    BY <1>1, <1>2 DEF IInv, MailsWritten, Written
  <2>2. accepted' \cup refused' \cup mailed' \subseteq Notices
    BY <1>1, <1>2, Parts DEF IInv
  <2>3. OnlyWhatWasWritten'
    BY <1>1, <1>2, <1>9, <2>2 DEF IInv, OnlyWhatWasWritten
  <2>4. QED
    BY <2>1, <2>3
<1>13. accepted' \subseteq Notices /\ refused' \subseteq Notices
  BY <1>1, Parts DEF IInv
<1>14. \A m \in Notices : By[m] # u => said'[m] = said[m]
  BY <1>1, <1>9
<1>15. firing'[u] # <<>> => phase'[u] \in {"released", "committed"}
  BY <1>3, <1>7
<1>16. rows' = rows
  BY <1>1
<1>17. QED
  BY <1>1, <1>2, <1>6, <1>9, <1>10, <1>11, <1>12, <1>13, <1>14, <1>15, <1>16, Parts, SeenStep DEF IInv

\* The next hook is a send; Meta takes the message, or its refusal is followed up,
\* or nobody looks at it.
LEMMA DeliverInvariant ==
    ASSUME IInv, NEW u \in Units, NEW n \in Notices,
           DeliverConfirmation(u, n) \/ DeliverPush(u, n) \/ DeliverResolution(u, n)
    PROVE  IInv'
<1> DEFINE F == Tail(firing[u])
<1>1. PICK J \in {jobs[u], jobs[u] \o <<n>>} :
        /\ firing[u] # <<>> /\ Head(firing[u]) = Send(n)
        /\ firing' = [firing EXCEPT ![u] = F]
        /\ jobs' = [jobs EXCEPT ![u] = J] \/ (jobs' = jobs /\ J = jobs[u])
        /\ accepted \subseteq accepted' /\ refused \subseteq refused'
        /\ accepted' \cup refused' = accepted \cup refused \cup {n}
        /\ \/ n \in accepted' \/ J = jobs[u] \o <<n>>
           \/ said[n] = "resolution" /\ n \in refused'
        /\ UNCHANGED <<phase, staged, kept, hooks, savepoints, rows, mailVars, restarts, said,
                       early, forgotten>>
  <2>1. ASSUME NEW kind, Accepted(u, n, kind)
        PROVE  /\ firing[u] # <<>> /\ Head(firing[u]) = Send(n)
               /\ firing' = [firing EXCEPT ![u] = F]
               /\ jobs' = jobs /\ accepted' = accepted \cup {n} /\ refused' = refused
               /\ UNCHANGED <<phase, staged, kept, hooks, savepoints, rows, mailVars, restarts,
                              said, early, forgotten>>
    BY <2>1 DEF Accepted
  <2>2. ASSUME NEW kind, NEW q, Refused(u, n, kind, q)
        PROVE  /\ firing[u] # <<>> /\ Head(firing[u]) = Send(n) /\ said[n] = kind
               /\ firing' = [firing EXCEPT ![u] = F]
               /\ jobs' = [jobs EXCEPT ![u] = jobs[u] \o q]
               /\ accepted' = accepted /\ refused' = refused \cup {n}
               /\ UNCHANGED <<phase, staged, kept, hooks, savepoints, rows, mailVars, restarts,
                              said, early, forgotten>>
    BY <2>2 DEF Refused
  <2>3. jobs[u] \o <<>> = jobs[u]
    BY Parts, QueueFacts DEF IInv
  <2> HIDE DEF F
  <2>4. CASE Accepted(u, n, "confirmation") \/ Accepted(u, n, "push") \/ Accepted(u, n, "resolution")
    BY <2>1, <2>4
  <2>5. CASE Refused(u, n, "confirmation", <<n>>) \/ Refused(u, n, "push", <<n>>)
    BY <2>2, <2>5
  <2>6. CASE Refused(u, n, "resolution", <<>>)
    BY <2>2, <2>3, <2>6
  <2>7. QED
    BY <2>4, <2>5, <2>6 DEF DeliverConfirmation, DeliverPush, DeliverResolution
<1>2. UNCHANGED <<mailed, mailing, unmailed, cooling>>
  BY <1>1 DEF mailVars
<1>3. /\ TypeOK /\ phase[u] \in Phases /\ kept[u] \in SUBSET Rows /\ staged[u] \in SUBSET Rows
      /\ hooks[u] \in Seq(Hooks) /\ firing[u] \in Seq(Hooks) /\ jobs[u] \in Seq(Notices)
      /\ firing[u] # <<>> => phase[u] \in {"released", "committed"}
  BY Parts DEF IInv
<1>4. F \in Seq(Hooks) /\ Range(firing[u]) = {Send(n)} \cup Range(F)
  BY <1>1, <1>3, QueueFacts
<1>5. J \in Seq(Notices) /\ Range(jobs[u]) \subseteq Range(J) /\ Range(J) \subseteq Range(jobs[u]) \cup {n}
      /\ (J = jobs[u] \o <<n>> => n \in Range(J))
  <2>1. /\ jobs[u] \o <<n>> \in Seq(Notices)
        /\ Range(jobs[u] \o <<n>>) = Range(jobs[u]) \cup {n}
    BY <1>3, QueueFacts
  <2>2. QED
    BY <1>1, <1>3, <2>1
<1> HIDE DEF F
<1>6. UnitStep(u) /\ Went(u, phase[u], staged[u], kept[u], hooks[u], F, J)
  <2>1. Goes(u, phase[u], staged[u], kept[u], hooks[u], F, J)
    BY <1>1 DEF Goes
  <2>2. QED
    BY <1>3, <1>4, <1>5, <2>1, StepOf
<1>7. /\ phase'[u] = phase[u] /\ staged'[u] = staged[u] /\ kept'[u] = kept[u]
      /\ hooks'[u] = hooks[u] /\ firing'[u] = F /\ jobs'[u] = J
  BY <1>6 DEF Went
<1>8. Queued(u) = Queued(u)' \cup {Send(n)} /\ AllRows(u)' = AllRows(u)
  BY <1>1, <1>4, <1>7 DEF Queued, AllRows
<1>9. By[n] = u /\ (n \in early \/ Written(n))
  BY <1>4, <1>8, HookFacts DEF IInv, UnitInv, Owns, FiresWritten
<1>10. UnitInv(u)'
  <2>1. Placed(u)' /\ Owns(u)' /\ HooksHaveRows(u)' /\ CommitsLast(u)'
    BY <1>1, <1>5, <1>7, <1>8, <1>9 DEF IInv, UnitInv, Placed, InTransaction, Owns, HooksHaveRows,
       CommitsLast
  <2>2. FiresWritten(u)'
    BY <1>1, <1>4, <1>7 DEF IInv, UnitInv, FiresWritten, Written
  <2>3. SentKnown(u)'
    <3> SUFFICES ASSUME NEW m \in Notices, By[m] = u, Line(m, "sent") \in AllRows(u)'
                 PROVE  \/ m \in accepted' \cup forgotten'
                        \/ Send(m) \in Queued(u)' \/ m \in Range(jobs'[u])
                        \/ said'[m] = "resolution" /\ m \in refused'
      BY DEF SentKnown
    <3>1. CASE m = n
      BY <1>1, <1>5, <1>7, <3>1
    <3>2. CASE m # n
      <4>1. Send(m) # Send(n)
        BY <3>2, HookFacts
      <4>2. QED
        BY <1>1, <1>5, <1>7, <1>8, <4>1 DEF IInv, UnitInv, SentKnown
    <3>3. QED
      BY <3>1, <3>2
  <2>4. AlertsKnown(u)'
    BY <1>1, <1>2, <1>8, HookFacts DEF IInv, UnitInv, AlertsKnown
  <2>5. QED
    BY <2>1, <2>2, <2>3, <2>4 DEF UnitInv
<1>11. Grows
  BY <1>1, <1>2 DEF Grows, Written
<1>12. MailsWritten' /\ OnlyWhatWasWritten'
  <2>1. MailsWritten'
    BY <1>1, <1>2 DEF IInv, MailsWritten, Written
  <2>2. OnlyWhatWasWritten'
    BY <1>1, <1>2, <1>9 DEF IInv, OnlyWhatWasWritten, Written
  <2>3. QED
    BY <2>1, <2>2
<1>13. accepted' \subseteq Notices /\ refused' \subseteq Notices
  BY <1>1, Parts DEF IInv
<1>14. firing'[u] # <<>> => phase'[u] \in {"released", "committed"}
  BY <1>1, <1>3, <1>7
<1>15. rows' = rows /\ said' = said
  BY <1>1
<1>16. QED
  BY <1>1, <1>2, <1>6, <1>10, <1>11, <1>12, <1>13, <1>14, <1>15, Parts, SeenStep DEF IInv

\* The next hook hands a mail to a thread of its own.
LEMMA MailHookInvariant ==
    ASSUME IInv, NEW u \in Units, NEW n \in Notices, MailHook(u, n)
    PROVE  IInv'
<1> DEFINE F == Tail(firing[u])
<1>1. /\ firing[u] # <<>> /\ Head(firing[u]) = Mail(n)
      /\ firing' = [firing EXCEPT ![u] = F] /\ mailing' = mailing \cup {n}
      /\ UNCHANGED <<phase, staged, kept, hooks, jobs, savepoints, rows, cooling, mailed,
                     unmailed, accepted, refused, restarts, said, early, forgotten>>
  BY DEF MailHook, sentVars
<1>2. /\ TypeOK /\ phase[u] \in Phases /\ kept[u] \in SUBSET Rows /\ staged[u] \in SUBSET Rows
      /\ hooks[u] \in Seq(Hooks) /\ firing[u] \in Seq(Hooks) /\ jobs[u] \in Seq(Notices)
      /\ firing[u] # <<>> => phase[u] \in {"released", "committed"}
  BY Parts DEF IInv
<1>3. F \in Seq(Hooks) /\ Range(firing[u]) = {Mail(n)} \cup Range(F)
  BY <1>1, <1>2, QueueFacts
<1> HIDE DEF F
<1>4. UnitStep(u) /\ Went(u, phase[u], staged[u], kept[u], hooks[u], F, jobs[u])
  <2>1. Goes(u, phase[u], staged[u], kept[u], hooks[u], F, jobs[u])
    BY <1>1 DEF Goes
  <2>2. QED
    BY <1>2, <1>3, <2>1, StepOf
<1>5. /\ phase'[u] = phase[u] /\ staged'[u] = staged[u] /\ kept'[u] = kept[u]
      /\ hooks'[u] = hooks[u] /\ firing'[u] = F /\ jobs'[u] = jobs[u]
  BY <1>4 DEF Went
<1>6. Queued(u) = Queued(u)' \cup {Mail(n)} /\ AllRows(u)' = AllRows(u)
  BY <1>1, <1>3, <1>5 DEF Queued, AllRows
<1>7. By[n] = u /\ (n \in early \/ Written(n))
  BY <1>3, <1>6, HookFacts DEF IInv, UnitInv, Owns, FiresWritten
<1>8. UnitInv(u)'
  <2>1. Placed(u)' /\ Owns(u)' /\ HooksHaveRows(u)' /\ CommitsLast(u)'
    BY <1>1, <1>5, <1>6 DEF IInv, UnitInv, Placed, InTransaction, Owns, HooksHaveRows, CommitsLast
  <2>2. FiresWritten(u)'
    BY <1>1, <1>3, <1>5 DEF IInv, UnitInv, FiresWritten, Written
  <2>3. SentKnown(u)'
    BY <1>1, <1>5, <1>6, HookFacts DEF IInv, UnitInv, SentKnown
  <2>4. AlertsKnown(u)'
    BY <1>1, <1>6, HookFacts DEF IInv, UnitInv, AlertsKnown
  <2>5. QED
    BY <2>1, <2>2, <2>3, <2>4 DEF UnitInv
<1>9. Grows
  BY <1>1 DEF Grows, Written
<1>10. MailsWritten' /\ OnlyWhatWasWritten'
  <2>1. MailsWritten'
    BY <1>1, <1>7 DEF IInv, MailsWritten, Written
  <2>2. OnlyWhatWasWritten'
    BY <1>1 DEF IInv, OnlyWhatWasWritten
  <2>3. QED
    BY <2>1, <2>2
<1>11. mailing' \subseteq Notices
  BY <1>1, Parts DEF IInv
<1>12. firing'[u] # <<>> => phase'[u] \in {"released", "committed"}
  BY <1>1, <1>2, <1>5
<1>13. rows' = rows /\ said' = said
  BY <1>1
<1>14. QED
  BY <1>1, <1>4, <1>8, <1>9, <1>10, <1>11, <1>12, <1>13, Parts, SeenStep DEF IInv

\* A refusal is written down.
LEMMA CorrectInvariant ==
    ASSUME IInv, NEW u \in Units, PushFailed(u) \/ ConfirmationFailed(u)
    PROVE  IInv'
<1> DEFINE J == Tail(jobs[u])
           n == Head(jobs[u])
<1>1. /\ phase[u] = "closing" /\ jobs[u] # <<>>
      /\ rows' = MarkUndelivered(n) \cup {Alert(n)} /\ mailing' = mailing \cup {n}
      /\ jobs' = [jobs EXCEPT ![u] = J]
      /\ UNCHANGED <<phase, staged, kept, hooks, firing, savepoints, cooling, mailed, unmailed,
                     accepted, refused, restarts, said, early, forgotten>>
  BY DEF PushFailed, ConfirmationFailed, Correct, sentVars
<1>2. /\ TypeOK /\ phase[u] \in Phases /\ kept[u] \in SUBSET Rows /\ staged[u] \in SUBSET Rows
      /\ hooks[u] \in Seq(Hooks) /\ firing[u] \in Seq(Hooks) /\ jobs[u] \in Seq(Notices)
      /\ firing[u] = <<>>
  BY <1>1, Parts DEF IInv
<1>3. J \in Seq(Notices) /\ n \in Notices /\ Range(jobs[u]) = {n} \cup Range(J)
  BY <1>1, <1>2, QueueFacts
<1> HIDE DEF J, n
<1>4. /\ rows' = (rows \ {Line(n, "sent")}) \cup {Line(n, "failed"), Alert(n)}
      /\ Line(n, "failed").of = n /\ Alert(n).of = n
      /\ Line(n, "failed") \in Rows /\ Alert(n) \in Rows /\ Line(n, "sent").of = n
  BY <1>1, <1>3, RowFacts DEF MarkUndelivered
<1>5. By[n] = u
  BY <1>3 DEF IInv, UnitInv, Owns
<1>6. UnitStep(u) /\ Went(u, phase[u], staged[u], kept[u], hooks[u], firing[u], J)
  <2>1. Goes(u, phase[u], staged[u], kept[u], hooks[u], firing[u], J)
    BY <1>1 DEF Goes
  <2>2. QED
    BY <1>2, <1>3, <2>1, StepOf
<1>7. /\ phase'[u] = phase[u] /\ staged'[u] = staged[u] /\ kept'[u] = kept[u]
      /\ hooks'[u] = hooks[u] /\ firing'[u] = firing[u] /\ jobs'[u] = J
  BY <1>6 DEF Went
<1>8. staged[u] = {} /\ kept[u] = {} /\ hooks[u] = <<>> /\ Queued(u)' = {}
  BY <1>1, <1>2, <1>7, NoQueue DEF IInv, UnitInv, Placed, InTransaction, Open, Queued
<1>9. AllRows(u)' = rows' /\ AllRows(u) = rows /\ Queued(u) = {}
  BY <1>2, <1>7, <1>8, NoQueue DEF AllRows, Queued
<1>10. \A m \in Notices : Written(m) => Written(m)'
  BY <1>4 DEF Written
<1>11. \E r \in rows' : r.of = n
  BY <1>4
<1>12. UnitInv(u)'
  <2>1. Placed(u)' /\ Owns(u)' /\ HooksHaveRows(u)'
    BY <1>3, <1>7, <1>8, NoQueue DEF IInv, UnitInv, Placed, Owns, HooksHaveRows
  <2>2. CommitsLast(u)'
    BY <1>1, <1>4, <1>7 DEF IInv, UnitInv, CommitsLast, Ended
  <2>3. FiresWritten(u)'
    BY <1>2, <1>7, NoQueue DEF FiresWritten
  <2>4. SentKnown(u)'
    <3> SUFFICES ASSUME NEW m \in Notices, By[m] = u, Line(m, "sent") \in rows'
                 PROVE  \/ m \in accepted \cup forgotten \/ m \in Range(J)
                        \/ said[m] = "resolution" /\ m \in refused
      BY <1>1, <1>7, <1>9 DEF SentKnown
    <3>1. Line(m, "sent") \in rows /\ m # n
      BY <1>3, <1>4, RowFacts
    <3>2. QED
      BY <1>3, <1>9, <3>1 DEF IInv, UnitInv, SentKnown
  <2>5. AlertsKnown(u)'
    BY <1>1, <1>3, <1>4, <1>9, RowFacts DEF IInv, UnitInv, AlertsKnown
  <2>6. QED
    BY <2>1, <2>2, <2>3, <2>4, <2>5 DEF UnitInv
<1>13. Grows
  BY <1>1, <1>10 DEF Grows
<1>14. MailsWritten' /\ OnlyWhatWasWritten'
  <2>1. mailing \subseteq Notices /\ accepted \cup refused \cup mailed \subseteq Notices
    BY Parts DEF IInv
  <2>2. MailsWritten'
    BY <1>1, <1>10, <1>11, <2>1 DEF IInv, MailsWritten, Written
  <2>3. \A m \in Notices : (\E r \in rows : r.of = m) => (\E r \in rows' : r.of = m)
    BY <1>10 DEF Written
  <2>4. OnlyWhatWasWritten'
    BY <1>1, <2>1, <2>3 DEF IInv, OnlyWhatWasWritten
  <2>5. QED
    BY <2>2, <2>4
<1>15. rows' \subseteq Rows /\ \A r \in rows' : r \in rows \/ By[r.of] = u
  BY <1>4, <1>5, Parts DEF IInv
<1>16. mailing' \subseteq Notices /\ firing'[u] = <<>> /\ said' = said
  BY <1>1, <1>2, <1>3, <1>7, Parts DEF IInv
<1>17. QED
  BY <1>1, <1>6, <1>12, <1>13, <1>14, <1>15, <1>16, Parts, SeenStep DEF IInv

\* The threads of the mails, and the clock of their limit: no unit moves.
LEMMA MailInvariant ==
    ASSUME IInv, NEW n \in Notices, SendMail(n) \/ CoolDown(Subject[n])
    PROVE  IInv'
<1>1. /\ UNCHANGED <<phase, staged, kept, hooks, firing, jobs, savepoints, said, rows,
                     accepted, refused, restarts, early, forgotten>>
      /\ cooling' \subseteq cooling \cup {Subject[n]}
      /\ mailing' \subseteq mailing /\ mailed \subseteq mailed' /\ unmailed \subseteq unmailed'
      /\ mailed' \subseteq mailed \cup (mailing \cap {n})
      /\ unmailed' \subseteq unmailed \cup {n}
      /\ mailing \subseteq mailed' \cup unmailed' \cup mailing'
  BY DEF SendMail, CoolDown, unitVars, sentVars
<1>2. TypeOK'
  <2>1. cooling' \subseteq {Subject[m] : m \in Notices}
    BY <1>1 DEF IInv, TypeOK
  <2>2. \A set \in {mailing', mailed', accepted', refused', early', unmailed', forgotten'} :
          set \subseteq Notices
    BY <1>1, Parts DEF IInv
  <2>3. QED
    BY <1>1, <2>1, <2>2 DEF IInv, TypeOK
<1>3. \A u \in Units : UnitInv(u)'
  <2> SUFFICES ASSUME NEW u \in Units PROVE UnitInv(u)'
    OBVIOUS
  <2>1. Keeps(u)
    BY <1>1 DEF Keeps
  <2>2. Grows
    BY <1>1 DEF Grows, Written
  <2>3. QED
    BY <2>1, <2>2, OthersKeep DEF IInv
<1>4. MailsWritten'
  BY <1>1 DEF IInv, MailsWritten, Written
<1>5. OnlyWhatWasWritten'
  BY <1>1 DEF IInv, MailsWritten, OnlyWhatWasWritten, Written
<1>6. QED
  BY <1>2, <1>3, <1>4, <1>5 DEF IInv

\* The end of the process: what was queued is gone, and known to be.
LEMMA RestartInvariant ==
    ASSUME IInv, Restart
    PROVE  IInv'
<1>1. /\ restarts' = restarts + 1
      /\ phase' = [u \in Units |-> IF phase[u] = "new" THEN "new" ELSE "done"]
      /\ staged' = [u \in Units |-> {}] /\ kept' = [u \in Units |-> {}]
      /\ hooks' = [u \in Units |-> <<>>] /\ firing' = [u \in Units |-> <<>>]
      /\ jobs' = [u \in Units |-> <<>>] /\ mailing' = {} /\ cooling' = {}
      /\ UNCHANGED <<savepoints, rows, mailed, unmailed, accepted, refused, said, early>>
  BY DEF Restart, sentVars
<1>2. forgotten' = forgotten \cup mailing
                    \cup UNION {About(firing[u]) \cup Range(jobs[u]) : u \in Units}
  BY DEF Restart
<1>3. /\ forgotten \subseteq forgotten' /\ mailing \subseteq forgotten'
      /\ \A u \in Units : About(firing[u]) \subseteq forgotten' /\ Range(jobs[u]) \subseteq forgotten'
      /\ forgotten' \subseteq Notices
  <2>1. \A u \in Units : About(firing[u]) \subseteq Notices /\ Range(jobs[u]) \subseteq Notices
    BY AboutType
  <2>2. QED
    BY <1>2, <2>1, Parts DEF IInv
<1>4. TypeOK'
  <2>1. /\ phase' \in [Units -> Phases] /\ staged' \in [Units -> SUBSET Rows]
        /\ kept' \in [Units -> SUBSET Rows] /\ hooks' \in [Units -> Seq(Hooks)]
        /\ firing' \in [Units -> Seq(Hooks)] /\ jobs' \in [Units -> Seq(Notices)]
    BY <1>1, NoQueue DEF Phases
  <2>2. /\ savepoints' \in [Units -> Nat] /\ restarts' \in Nat /\ rows' \subseteq Rows
        /\ said' \in [Notices -> Kinds \cup {"nothing"}]
    BY <1>1, Parts DEF IInv
  <2>3. \A set \in {mailing', mailed', accepted', refused', early', unmailed', forgotten'} :
          set \subseteq Notices
    BY <1>1, <1>3, Parts DEF IInv
  <2>4. \A u \in Units : firing'[u] # <<>> => phase'[u] \in {"released", "committed"}
    BY <1>1
  <2>5. QED
    BY <1>1, <2>1, <2>2, <2>3, <2>4 DEF TypeOK
<1>5. ASSUME NEW u \in Units PROVE UnitInv(u)'
  <2>1. /\ staged'[u] = {} /\ kept'[u] = {} /\ hooks'[u] = <<>> /\ firing'[u] = <<>>
        /\ jobs'[u] = <<>> /\ phase'[u] \in {"new", "done"}
        /\ phase[u] # "new" => phase'[u] = "done"
    BY <1>1
  <2>2. Queued(u)' = {} /\ AllRows(u)' = rows /\ Range(hooks'[u]) = {}
        /\ Range(firing'[u]) = {} /\ Range(jobs'[u]) = {}
    BY <1>1, <2>1, NoQueue DEF Queued, AllRows
  <2>3. Placed(u)' /\ Owns(u)' /\ HooksHaveRows(u)' /\ FiresWritten(u)'
    BY <2>1, <2>2 DEF Placed, Owns, HooksHaveRows, FiresWritten
  <2>4. CommitsLast(u)'
    BY <1>1, <2>1 DEF IInv, UnitInv, CommitsLast, Ended
  \* What a unit with committed rows has queued is firing, or a job.
  <2>5. (\E r \in rows : By[r.of] = u) => \A hook \in Queued(u) : hook.of \in forgotten'
    <3> SUFFICES ASSUME NEW r \in rows, By[r.of] = u, NEW hook \in Queued(u)
                 PROVE  hook.of \in forgotten'
      OBVIOUS
    <3>1. hooks[u] = <<>>
      BY DEF IInv, UnitInv, CommitsLast, Ended, Placed, InTransaction
    <3>2. hook \in Range(firing[u])
      BY <3>1, NoQueue DEF Queued
    <3>3. QED
      BY <1>3, <3>2, AboutType
  <2>6. SentKnown(u)'
    <3> SUFFICES ASSUME NEW m \in Notices, By[m] = u, Line(m, "sent") \in rows
                 PROVE  m \in accepted \cup forgotten' \/ (said[m] = "resolution" /\ m \in refused)
      BY <1>1, <2>2 DEF SentKnown
    <3>1. Line(m, "sent").of = m /\ Send(m).of = m /\ Line(m, "sent") \in AllRows(u)
      BY RowFacts, HookFacts DEF AllRows
    <3>2. \/ m \in accepted \cup forgotten \/ Send(m) \in Queued(u) \/ m \in Range(jobs[u])
          \/ said[m] = "resolution" /\ m \in refused
      BY <3>1 DEF IInv, UnitInv, SentKnown
    <3>3. Send(m) \in Queued(u) => m \in forgotten'
      BY <2>5, <3>1
    <3>4. QED
      BY <1>3, <3>2, <3>3
  <2>7. AlertsKnown(u)'
    <3> SUFFICES ASSUME NEW m \in Notices, By[m] = u, Alert(m) \in rows
                 PROVE  m \in mailed \cup unmailed \cup forgotten'
      BY <1>1, <2>2 DEF AlertsKnown
    <3>1. Alert(m).of = m /\ Mail(m).of = m /\ Alert(m) \in AllRows(u)
      BY RowFacts, HookFacts DEF AllRows
    <3>2. m \in mailed \cup unmailed \cup mailing \cup forgotten \/ Mail(m) \in Queued(u)
      BY <3>1 DEF IInv, UnitInv, AlertsKnown
    <3>3. Mail(m) \in Queued(u) => m \in forgotten'
      BY <2>5, <3>1
    <3>4. QED
      BY <1>3, <3>2, <3>3
  <2>8. QED
    BY <2>3, <2>4, <2>6, <2>7 DEF UnitInv
<1>6. MailsWritten' /\ OnlyWhatWasWritten'
  <2>1. MailsWritten'
    BY <1>1 DEF MailsWritten
  <2>2. OnlyWhatWasWritten'
    BY <1>1 DEF IInv, OnlyWhatWasWritten
  <2>3. QED
    BY <2>1, <2>2
<1>7. QED
  BY <1>4, <1>5, <1>6 DEF IInv

-----------------------------------------------------------------------------
(* The invariant, and what it is for.                                      *)

LEMMA InitInvariant ==
    ASSUME Init PROVE IInv
<1>1. TypeOK
  BY NoQueue DEF Init, TypeOK, Phases
<1>2. ASSUME NEW u \in Units PROVE UnitInv(u)
  <2>1. /\ staged[u] = {} /\ kept[u] = {} /\ rows = {} /\ Range(hooks[u]) = {}
        /\ Range(firing[u]) = {} /\ Range(jobs[u]) = {} /\ hooks[u] = <<>>
    BY NoQueue DEF Init
  <2>2. QED
    BY <2>1 DEF UnitInv, Placed, Owns, Queued, CommitsLast, HooksHaveRows, FiresWritten,
       SentKnown, AlertsKnown, AllRows
<1>3. MailsWritten /\ OnlyWhatWasWritten
  BY DEF Init, MailsWritten, OnlyWhatWasWritten
<1>4. QED
  BY <1>1, <1>2, <1>3 DEF IInv

LEMMA WorkInvariant ==
    ASSUME IInv, NEW u \in Units, Work(u)
    PROVE  IInv'
<1>1. CASE Begin(u) \/ OpenSavepoint(u)
  BY <1>1, PhaseSteps
<1>2. CASE ReleaseSavepoint(u)
  BY <1>2, ReleaseInvariant
<1>3. CASE RollBackToSavepoint(u) \/ RollBack(u)
  BY <1>3, RollBackInvariant
<1>4. CASE Commit(u)
  BY <1>4, CommitInvariant
<1>5. CASE \E n \in Notices :
              \/ SayConfirmation(u, n) \/ SayPush(u, n) \/ SayResolution(u, n)
              \/ SayRestock(u, n) \/ SayAlert(u, n)
  BY <1>5, SayInvariant, RestockInvariant
<1>6. CASE \E n \in Notices :
              \/ DeliverConfirmation(u, n) \/ DeliverPush(u, n) \/ DeliverResolution(u, n)
              \/ MailHook(u, n)
  BY <1>6, DeliverInvariant, MailHookInvariant
<1>7. CASE HooksRan(u) \/ Close(u)
  BY <1>7, PhaseSteps
<1>8. CASE PushFailed(u) \/ ConfirmationFailed(u)
  BY <1>8, CorrectInvariant
<1>9. CASE CorrectFails(u)
  BY <1>9, CorrectFailsInvariant
<1>10. QED
  BY <1>1, <1>2, <1>3, <1>4, <1>5, <1>6, <1>7, <1>8, <1>9 DEF Work, Finish

LEMMA NextInvariant ==
    ASSUME IInv, [Next]_vars
    PROVE  IInv'
<1>1. CASE \E u \in Units : Work(u)
  BY <1>1, WorkInvariant
<1>2. CASE \E n \in Notices : SendMail(n) \/ CoolDown(Subject[n])
  BY <1>2, MailInvariant
<1>3. CASE Restart
  BY <1>3, RestartInvariant
<1>4. CASE UNCHANGED vars
  <2>1. /\ UNCHANGED <<phase, staged, kept, hooks, firing, jobs, savepoints, rows, mailing, cooling>>
        /\ UNCHANGED <<accepted, refused, mailed, restarts, said, early, unmailed, forgotten>>
    BY <1>4 DEF vars
  <2>2. TypeOK'
    BY <2>1 DEF IInv, TypeOK
  <2>3. \A u \in Units : UnitInv(u)'
    BY <2>1 DEF IInv, UnitInv, Placed, InTransaction, Owns, Queued, CommitsLast, HooksHaveRows,
       FiresWritten, Written, SentKnown, AlertsKnown, AllRows
  <2>4. MailsWritten' /\ OnlyWhatWasWritten'
    BY <2>1 DEF IInv, MailsWritten, Written, OnlyWhatWasWritten
  <2>5. QED
    BY <2>2, <2>3, <2>4 DEF IInv
<1>5. QED
  BY <1>1, <1>2, <1>3, <1>4 DEF Next

\* The inductive invariant: a transaction, its savepoints and its hooks together
\* hold each message and each mail in one of the places the code puts it.
THEOREM Invariant == Spec => []IInv
<1>1. Init => IInv
  BY InitInvariant
<1>2. IInv /\ [Next]_vars => IInv'
  BY NextInvariant
<1>3. QED
  BY <1>1, <1>2, PTL DEF Spec

\* Every variable has its type; and hooks run only between the release of a
\* savepoint, or the commit, and what the unit does next (`_run_after_commit`).
THEOREM TypeCorrect == Spec => []TypeOK
<1>1. IInv => TypeOK
  BY DEF IInv
<1>2. QED
  BY <1>1, Invariant, PTL

\* What is under way of a notice, by its unit's queues.
LEMMA UnderWayIf ==
    ASSUME IInv, NEW n \in Notices,
           Send(n) \in Queued(By[n]) \/ Mail(n) \in Queued(By[n]) \/ n \in Range(jobs[By[n]])
    PROVE  UnderWay(n)
<1>1. By[n] \in Units
  BY OutboxAssumption
<1>2. Send(n).of = n /\ Mail(n).of = n
  BY HookFacts
<1>3. QED
  BY <1>1, <1>2, AboutType DEF UnderWay, Queued

\* The dashboard shows a message as sent only if Meta has taken it, or that is
\* about to be settled, but for what is lost with its hook and for decisions of
\* staff (notifications.py: the line is written in the transaction, the message
\* leaves after it, and a refusal is written down by a job).
THEOREM WhatIsShownWasSent == Spec => []ShownAsSentOrKnown
<1>1. IInv => ShownAsSentOrKnown
  <2> SUFFICES ASSUME IInv, NEW n \in Notices, Line(n, "sent") \in rows
               PROVE  \/ n \in accepted \cup forgotten \/ UnderWay(n)
                      \/ said[n] = "resolution" /\ n \in refused
    BY DEF ShownAsSentOrKnown
  <2>1. By[n] \in Units
    BY OutboxAssumption
  <2>2. Line(n, "sent") \in AllRows(By[n])
    BY DEF AllRows
  <2>3. QED
    BY <2>1, <2>2, UnderWayIf DEF IInv, UnitInv, SentKnown
<1>2. QED
  BY <1>1, Invariant, PTL

\* A committed queue item is mailed, or the log says why not, or its mail is
\* under way; only a rolled-back savepoint or the end of the process loses one.
THEOREM AlertsAreMailedOrKnown == Spec => []AlertsTravel
<1>1. IInv => AlertsTravel
  <2> SUFFICES ASSUME IInv, NEW n \in Notices, Alert(n) \in rows
               PROVE  n \in mailed \cup unmailed \cup mailing \cup forgotten \/ UnderWay(n)
    BY DEF AlertsTravel
  <2>1. By[n] \in Units
    BY OutboxAssumption
  <2>2. Alert(n) \in AllRows(By[n])
    BY DEF AllRows
  <2>3. QED
    BY <2>1, <2>2, UnderWayIf DEF IInv, UnitInv, AlertsKnown
<1>2. QED
  BY <1>1, Invariant, PTL

\* "An outbound message must never describe a database write that later rolled
\* back" (events.py), but for the messages that left with a savepoint and the
\* back-in-stock message.
THEOREM NothingIsSaidOfALostWrite == Spec => []OnlyWhatWasWritten
<1>1. IInv => OnlyWhatWasWritten
  BY DEF IInv
<1>2. QED
  BY <1>1, Invariant, PTL
=============================================================================
