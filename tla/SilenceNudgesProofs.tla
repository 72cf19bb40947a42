-------------------------- MODULE SilenceNudgesProofs --------------------------
(***************************************************************************)
(* Proofs about SilenceNudges, for any instances of the program, lengths   *)
(* of silence, messages and restarts.                                      *)
(***************************************************************************)
EXTENDS SilenceNudges, TLAPS

Txn(p)   == work[p].at \in InTransaction
Reads(p) == work[p].at \in {"insert", "rearm", "armed"}
Sends(p) == work[p].at \in {"wording", "due"}

-----------------------------------------------------------------------------
(* The row.                                                                *)

\* A step's state is a field of the row.
LEMMA StepFields ==
    ASSUME NEW r \in Row
    PROVE  /\ r["first"] = r.first /\ r["second"] = r.second
           /\ \A st \in Steps : r[st] \in States
           /\ r.anchor \in Nat /\ r.optedOut \in BOOLEAN
           /\ r.first \in States /\ r.second \in States
BY NudgeAssumption DEF Row, Steps, States

\* Deciding a step that was open, and nothing else.
LEMMA ClaimedRow ==
    ASSUME NEW r \in Row, NEW st \in Steps, NEW x \in States \ {"none"}
    PROVE  /\ Claimed(r, st, x) \in Row
           /\ Claimed(r, st, x).anchor = r.anchor
           /\ Claimed(r, st, x).optedOut = r.optedOut
           /\ Claimed(r, st, x)[st] # "none"
           /\ \A s \in Steps : r[s] # "none" => Claimed(r, st, x)[s] # "none"
BY DEF Claimed, Row, Steps, States

\* A silence that is given up.
LEMMA HushedRow ==
    ASSUME NEW r \in Row, NEW w
    PROVE  /\ Hushed(r, w) \in Row
           /\ Hushed(r, w).anchor = r.anchor
           /\ Hushed(r, w).optedOut <=> r.optedOut \/ AsksToStop(w)
           /\ Hushed(r, w).first = r.first
           /\ \A s \in Steps : r[s] # "none" => Hushed(r, w)[s] # "none"
<1>1. PICK stop \in BOOLEAN : stop <=> AsksToStop(w)
  <2>1. AsksToStop(w) \in BOOLEAN
    BY DEF AsksToStop
  <2>2. QED
    BY <2>1
<1>2. PICK open \in BOOLEAN : open <=> (w.row.first = "none" /\ w.row.second = "none")
  OBVIOUS
<1>3. Hushed(r, w) = [r EXCEPT !.optedOut = r.optedOut \/ AsksToStop(w),
                               !.second = IF open THEN "skipped" ELSE r.second]
  BY <1>2 DEF Hushed, Row
<1>4. (r.optedOut \/ AsksToStop(w)) \in BOOLEAN
  OBVIOUS
<1>5. QED
  BY <1>3, <1>4 DEF Row, Steps, States

-----------------------------------------------------------------------------
(* Types.                                                                  *)

\* What an instance has in hand, by what it is doing.
LEMMA WorkFields ==
    ASSUME NEW w \in Work
    PROVE  /\ w.at = "idle" <=> w = Idle
           /\ w.at \in {"idle"} \cup InTransaction
                     \cup {"wording", "due", "returned", "sent", "failed"}
           /\ w # Idle => w.silence \in Silences
           /\ w.at \in InTransaction => w.age \in 0..Window /\ w.paused \in BOOLEAN
           /\ w.at \in {"insert", "rearm", "armed"} => w.row \in Row
           /\ w.at \in {"wording", "due", "returned", "sent", "failed"} => w.step \in Steps
BY DEF Work, Idle, InTransaction

\* Going on with a row.
LEMMA WithWork ==
    ASSUME TypeOK, NEW p \in Pollers, Txn(p), NEW r \in Row,
           NEW at \in {"insert", "rearm", "armed"}
    PROVE  With(p, at, r) \in Work /\ With(p, at, r) # Idle
<1>1. work[p] \in Work /\ work[p] # Idle
  BY DEF TypeOK, Txn, InTransaction, Idle
<1>2. work[p].silence \in Silences /\ work[p].age \in 0..Window /\ work[p].paused \in BOOLEAN
  BY <1>1, WorkFields DEF Txn
<1>3. QED
  BY <1>2 DEF With, Work, Idle

\* A row to start from.
LEMMA BlankRow ==
    ASSUME NEW a \in 0..MaxMessages
    PROVE  Blank(a) \in Row
BY DEF Blank, Row, States

\* A row that is armed again for a silence.
LEMMA RearmedRow ==
    ASSUME NEW r \in Row, NEW a \in Silences
    PROVE  /\ Rearmed(r, a) \in Row
           /\ Rearmed(r, a).anchor = a
           /\ Rearmed(r, a).first = "none" /\ Rearmed(r, a).second = "none"
           /\ Rearmed(r, a).optedOut = r.optedOut
<1>1. a \in 0..MaxMessages
  BY NudgeAssumption DEF Silences
<1>2. "none" \in States
  BY DEF States
<1>3. QED
  BY <1>1, <1>2 DEF Rearmed, Row

\* An instance that is in its first transaction reads a row.
LEMMA CurrentRow ==
    ASSUME TypeOK, NEW p \in Pollers, work[p].at = "armed"
    PROVE  Current(p) \in Row /\ work[p].row \in Row
<1>1. work[p] \in Work
  BY DEF TypeOK
<1>2. work[p].row \in Row
  BY <1>1, WorkFields
<1>3. QED
  BY <1>2 DEF Current, TypeOK

\* What is planned is about a step.
LEMMA PlanType ==
    ASSUME NEW w
    PROVE  /\ Plan(w).do \in {"none", "hush", "skip", "send"}
           /\ Plan(w).do # "none" => Plan(w).step \in Steps
           /\ Plan(w).do \in {"skip", "send"} => ~HardSkip(w)
           /\ Plan(w).do = "hush" => HardSkip(w)
           /\ w.age < First => Plan(w).do = "none"
           /\ lastBy # "customer" /\ ~(w.age < First) /\ w.row.first = "none" =>
                 Plan(w).do # "none" /\ Plan(w).step = "first"
BY DEF Plan, Steps

\* Deciding writes a row, of the anchor that was there.
LEMMA DecidedRow ==
    ASSUME TypeOK, NEW p \in Pollers, Decide(p)
    PROVE  /\ row' \in Row
           /\ row'.anchor = Current(p).anchor
           /\ \A s \in Steps : Current(p)[s] # "none" => row'[s] # "none"
           /\ Plan(work[p]).do # "none" => row'[Plan(work[p]).step] # "none"
           /\ row'.optedOut <=> \/ Current(p).optedOut
                                \/ Plan(work[p]).do = "hush" /\ AsksToStop(work[p])
<1>1. PICK w : w = work[p]
  OBVIOUS
<1>2. PICK r : r = Current(p)
  OBVIOUS
<1>3. r \in Row
  BY <1>2, CurrentRow DEF Decide
<1>4. row' = CASE Plan(w).do = "none" -> r
               [] Plan(w).do = "hush" -> Claimed(Hushed(r, w), Plan(w).step, "skipped")
               [] Plan(w).do = "skip" -> Claimed(r, Plan(w).step, "skipped")
               [] Plan(w).do = "send" -> Claimed(r, Plan(w).step, "sending")
  BY <1>1, <1>2 DEF Decide
<1>5. {"skipped", "sending"} \subseteq States \ {"none"}
  BY DEF States
<1>6. CASE Plan(w).do = "none"
  BY <1>1, <1>2, <1>3, <1>4, <1>6
<1>7. CASE Plan(w).do = "hush"
  <2>1. PICK h : h = Hushed(r, w)
    OBVIOUS
  <2>2. /\ h \in Row /\ h.anchor = r.anchor /\ (h.optedOut <=> r.optedOut \/ AsksToStop(w))
        /\ \A s \in Steps : r[s] # "none" => h[s] # "none"
    BY <1>3, <2>1, HushedRow
  <2>3. row' = Claimed(h, Plan(w).step, "skipped") /\ Plan(w).step \in Steps
    BY <1>4, <1>7, <2>1, PlanType
  <2>4. /\ row' \in Row /\ row'.anchor = h.anchor /\ row'.optedOut = h.optedOut
        /\ row'[Plan(w).step] # "none"
        /\ \A s \in Steps : h[s] # "none" => row'[s] # "none"
    BY <1>5, <2>2, <2>3, ClaimedRow
  <2>5. QED
    BY <1>1, <1>2, <1>7, <2>2, <2>4
<1>8. CASE Plan(w).do \in {"skip", "send"}
  <2>1. PICK x \in {"skipped", "sending"} : row' = Claimed(r, Plan(w).step, x)
    BY <1>4, <1>8
  <2>2. Plan(w).step \in Steps
    BY <1>8, PlanType
  <2>3. /\ row' \in Row /\ row'.anchor = r.anchor /\ row'.optedOut = r.optedOut
        /\ row'[Plan(w).step] # "none"
        /\ \A s \in Steps : r[s] # "none" => row'[s] # "none"
    BY <1>3, <1>5, <2>1, <2>2, ClaimedRow
  <2>4. QED
    BY <1>1, <1>2, <1>8, <2>3
<1>9. QED
  BY <1>1, <1>6, <1>7, <1>8, PlanType

-----------------------------------------------------------------------------
(* A step of one instance.                                                 *)

\* What p has in hand becomes w; the others go on with theirs.
LEMMA SetWork ==
    ASSUME TypeOK, NEW p \in Pollers, NEW w \in Work, work' = [work EXCEPT ![p] = w]
    PROVE  /\ work' \in [Pollers -> Work]
           /\ work'[p] = w
           /\ \A q \in Pollers \ {p} : work'[q] = work[q]
BY DEF TypeOK

\* Nothing in hand.
LEMMA IdleIsWork == Idle \in Work /\ Idle.at = "idle"
BY DEF Work, Idle

\* What Decide leaves p with.
LEMMA DecideWork ==
    ASSUME TypeOK, NEW p \in Pollers, Decide(p)
    PROVE  /\ work' = [work EXCEPT ![p] = work'[p]] /\ work'[p] \in Work
           /\ \/ work'[p] = Idle
              \/ /\ Plan(work[p]).do = "send" /\ Current(p)[Plan(work[p]).step] = "none"
                 /\ work'[p] = [at |-> "wording", silence |-> work[p].silence,
                                step |-> Plan(work[p]).step]
<1>1. PICK w : w = work[p]
  OBVIOUS
<1>2. PICK r : r = Current(p)
  OBVIOUS
<1>3. PICK k : k = Plan(w)
  OBVIOUS
<1>4. PICK new : new = IF k.do = "send" /\ r[k.step] = "none"
                  THEN [at |-> "wording", silence |-> w.silence, step |-> k.step] ELSE Idle
  OBVIOUS
<1>5. work' = [work EXCEPT ![p] = new]
  BY <1>1, <1>2, <1>3, <1>4 DEF Decide
<1>6. work'[p] = new
  BY <1>5 DEF TypeOK
<1>7. w \in Work /\ w.at = "armed"
  BY <1>1 DEF TypeOK, Decide
<1>8. w.silence \in Silences
  BY <1>7, WorkFields DEF Idle
<1>9. k.do = "send" => k.step \in Steps
  BY <1>3, PlanType
<1>10. new \in Work
  BY <1>4, <1>8, <1>9, IdleIsWork DEF Work
<1>11. QED
  BY <1>1, <1>2, <1>3, <1>4, <1>5, <1>6, <1>10

\* Types are kept by what the conversation and the clock do.
LEMMA TypeOutside ==
    ASSUME TypeOK, CustomerWrites \/ BotAnswers \/ OthersSpeak \/ StaffClick \/ Tick
    PROVE  TypeOK'
<1>1. seen \in Nat /\ MaxMessages \in Nat /\ Window \in Nat /\ age \in Nat
  BY NudgeAssumption DEF TypeOK
<1>2. work' = work /\ row' = row /\ holder' = holder /\ restarts' = restarts /\ nudged' = nudged
  BY DEF CustomerWrites, BotAnswers, OthersSpeak, StaffClick, Tick
<1>3. \A p \in Pollers : work[p] # Idle => work[p].silence \in Silences
  BY WorkFields DEF TypeOK
<1>4. CASE CustomerWrites
  BY <1>1, <1>2, <1>3, <1>4 DEF TypeOK, CustomerWrites, Silences
<1>5. CASE BotAnswers
  BY <1>1, <1>2, <1>5 DEF TypeOK, BotAnswers, Over
<1>6. CASE OthersSpeak
  BY <1>1, <1>2, <1>6 DEF TypeOK, OthersSpeak, Over, timeVars
<1>7. CASE StaffClick
  BY <1>1, <1>2, <1>7 DEF TypeOK, StaffClick, timeVars
<1>8. CASE Tick
  <2>1. /\ age' \in 0..Window
        /\ quiet' \in BOOLEAN
        /\ polled' = {}
    <3>1. age < Window /\ age' = age + 1 /\ polled' = {} /\ quiet \in BOOLEAN
          /\ quiet' \in IF quiet THEN {FALSE} ELSE BOOLEAN
      BY <1>8 DEF TypeOK, Tick
    <3>2. age' \in 0..Window
      BY <1>1, <3>1
    <3>3. quiet' \in BOOLEAN
      BY <3>1
    <3>4. QED
      BY <3>1, <3>2, <3>3
  <2>2. UNCHANGED talkVars
    BY <1>8 DEF Tick
  <2>3. QED
    BY <1>2, <2>1, <2>2 DEF TypeOK, talkVars
<1>9. QED
  BY <1>4, <1>5, <1>6, <1>7, <1>8

\* Types are kept by a step of an instance.
LEMMA TypePoller ==
    ASSUME TypeOK, NEW p \in Pollers, Poll(p) \/ Restart(p)
    PROVE  /\ TypeOK'
           /\ \A q \in Pollers \ {p} : work'[q] = work[q]
           /\ work'[p] = Idle \/ (work'[p].silence = work[p].silence /\ ~Look(p)) \/ Look(p)
<1> USE DEF talkVars, timeVars
<1>1. seen \in 0..MaxMessages /\ seen \in Nat /\ MaxMessages \in Nat /\ age \in 0..Window
  BY NudgeAssumption DEF TypeOK
<1>2. work[p] \in Work /\ (work[p] # Idle => work[p].silence <= seen)
  BY DEF TypeOK
<1>3. CASE Look(p)
  <2>1. PICK w : w = [at |-> "looked", silence |-> seen, age |-> age, paused |-> paused]
    OBVIOUS
  <2>2. w \in Work /\ w.silence <= seen
    BY <1>1, <1>3, <2>1 DEF Work, Silences, Look, TypeOK
  <2>3. /\ work' \in [Pollers -> Work] /\ work'[p] = w
        /\ \A q \in Pollers \ {p} : work'[q] = work[q]
    BY <1>3, <2>1, <2>2, SetWork DEF Look
  <2>4. QED
    BY <1>3, <2>2, <2>3 DEF TypeOK, Look, Idle
<1>4. CASE Read(p)
  <2>1. PICK at \in {"insert", "rearm", "armed"} : work' = [work EXCEPT ![p] = With(p, at, row)]
    BY <1>4 DEF Read
  <2>2. With(p, at, row) \in Work
    BY <1>4, WithWork DEF Txn, InTransaction, Read, TypeOK
  <2>3. /\ work' \in [Pollers -> Work] /\ work'[p] = With(p, at, row)
        /\ \A q \in Pollers \ {p} : work'[q] = work[q]
    BY <2>1, <2>2, SetWork
  <2>4. work'[p].silence = work[p].silence
    BY <2>3 DEF With
  <2>5. work[p] # Idle /\ holder # p
    BY <1>4, NudgeAssumption DEF Read, Idle, TypeOK
  <2>6. QED
    BY <1>2, <1>4, <2>3, <2>4, <2>5 DEF TypeOK, Read
<1>5. CASE Insert(p) \/ Rearm(p)
  <2>1. work[p].silence \in Silences /\ work[p] # Idle /\ holder = NoPoller
    BY <1>2, <1>5, WorkFields DEF Insert, Rearm, Idle
  <2>2. Blank(work[p].silence) \in Row /\ Rearmed(row, work[p].silence) \in Row /\ row \in Row
    <3>1. work[p].silence \in 0..MaxMessages /\ row \in Row
      BY <2>1, NudgeAssumption DEF TypeOK, Silences
    <3>2. QED
      BY <2>1, <3>1, BlankRow, RearmedRow
  <2>3. Txn(p)
    BY <1>5 DEF Txn, InTransaction, Insert, Rearm
  <2>4. \A r \in Row : /\ With(p, "armed", r) \in Work /\ With(p, "armed", r).at = "armed"
                       /\ With(p, "armed", r).silence = work[p].silence
    BY <2>3, WithWork DEF With
  <2>5. PICK w \in Work : /\ work' = [work EXCEPT ![p] = w]
                          /\ w = Idle \/ (w.at = "armed" /\ w.silence = work[p].silence)
                          /\ holder' = p => w.at = "armed"
    <3>1. CASE Insert(p)
      BY <2>2, <2>4, <3>1, NudgeAssumption DEF Insert
    <3>2. CASE Rearm(p)
      <4>1. Idle \in Work
        BY IdleIsWork
      <4>2. CASE row.anchor = work[p].row.anchor
        BY <2>2, <2>4, <3>2, <4>2 DEF Rearm
      <4>3. CASE row.anchor # work[p].row.anchor /\ row.anchor < work[p].silence
        <5>1. work' = [work EXCEPT ![p] = Idle] /\ holder' = holder
          BY <3>2, <4>3 DEF Rearm
        <5>2. p # NoPoller
          BY NudgeAssumption
        <5>3. QED
          BY <2>1, <4>1, <5>1, <5>2
      <4>4. CASE row.anchor # work[p].row.anchor /\ ~(row.anchor < work[p].silence)
        BY <2>2, <2>4, <3>2, <4>4 DEF Rearm
      <4>5. QED
        BY <4>2, <4>3, <4>4
    <3>3. QED
      BY <1>5, <3>1, <3>2
  <2>6. /\ work' \in [Pollers -> Work] /\ work'[p] = w
        /\ \A q \in Pollers \ {p} : work'[q] = work[q]
    BY <2>5, SetWork
  <2>7. holder' \in {p, NoPoller} /\ UNCHANGED <<talkVars, row, timeVars, restarts, nudged>>
    BY <1>5, <2>1 DEF Insert, Rearm
  <2>8. QED
    BY <1>2, <2>1, <2>5, <2>6, <2>7 DEF TypeOK, Idle
<1>6. CASE Decide(p)
  <2>1. PICK w \in Work : /\ work' = [work EXCEPT ![p] = w]
                          /\ w = Idle \/ w.silence = work[p].silence
    <3>1. /\ work' = [work EXCEPT ![p] = work'[p]] /\ work'[p] \in Work
          /\ \/ work'[p] = Idle
             \/ work'[p] = [at |-> "wording", silence |-> work[p].silence,
                            step |-> Plan(work[p]).step]
      BY <1>6, DecideWork
    <3>2. work'[p] = Idle \/ work'[p].silence = work[p].silence
      BY <3>1
    <3>3. QED
      BY <3>1, <3>2
  <2>2. /\ work' \in [Pollers -> Work] /\ work'[p] = w
        /\ \A q \in Pollers \ {p} : work'[q] = work[q]
    BY <2>1, SetWork
  <2>3. work[p] # Idle /\ row' \in Row
    <3>1. row' \in Row
      BY <1>6, DecidedRow
    <3>2. work[p] # Idle
      BY <1>6 DEF Decide, Idle
    <3>3. QED
      BY <3>1, <3>2
  <2>4. holder' = NoPoller /\ UNCHANGED <<talkVars, timeVars, restarts, nudged>>
    BY <1>6 DEF Decide
  <2>5. QED
    BY <1>2, <2>1, <2>2, <2>3, <2>4 DEF TypeOK
<1>7. CASE Look2(p) \/ SendNudge(p)
  <2>1. PICK at \in {"returned", "due", "sent", "failed"} : work' = [work EXCEPT ![p].at = at]
    BY <1>7 DEF Look2, SendNudge
  <2>2. work[p].at \in {"wording", "due"}
    BY <1>7 DEF Look2, SendNudge
  <2>3. PICK w : w = [work[p] EXCEPT !.at = at]
    OBVIOUS
  <2>4. w \in Work /\ w.silence = work[p].silence /\ work[p] # Idle
    BY <1>2, <2>2, <2>3 DEF Work, Idle
  <2>5. work' = [work EXCEPT ![p] = w]
    BY <2>1, <2>3 DEF TypeOK
  <2>6. /\ work' \in [Pollers -> Work] /\ work'[p] = w
        /\ \A q \in Pollers \ {p} : work'[q] = work[q]
    BY <2>4, <2>5, SetWork
  <2>7. nudged' \in [Silences \X Steps -> Nat]
    BY <1>7 DEF Look2, SendNudge, TypeOK
  <2>8. UNCHANGED <<talkVars, row, holder, timeVars, restarts>>
    BY <1>7 DEF Look2, SendNudge
  <2>9. holder # p
    BY <2>2, NudgeAssumption DEF TypeOK
  <2>10. QED
    BY <1>2, <1>7, <2>2, <2>4, <2>6, <2>7, <2>8, <2>9 DEF TypeOK, Look
<1>8. CASE Settle(p)
  <2>1. /\ work' \in [Pollers -> Work] /\ work'[p] = Idle
        /\ \A q \in Pollers \ {p} : work'[q] = work[q]
    BY <1>8, IdleIsWork, SetWork DEF Settle
  <2>2. work[p].step \in Steps
    BY <1>2, <1>8, WorkFields DEF Settle
  <2>3. row' \in Row
    BY <1>8, <2>2 DEF Settle, TypeOK, Row, Steps, States
  <2>4. QED
    BY <1>8, <2>1, <2>3 DEF TypeOK, Settle
<1>9. CASE Restart(p)
  <2>1. /\ work' \in [Pollers -> Work] /\ work'[p] = Idle
        /\ \A q \in Pollers \ {p} : work'[q] = work[q]
    BY <1>9, IdleIsWork, SetWork DEF Restart
  <2>2. QED
    BY <1>9, <2>1 DEF TypeOK, Restart
<1>10. QED
  BY <1>3, <1>4, <1>5, <1>6, <1>7, <1>8, <1>9 DEF Poll

-----------------------------------------------------------------------------
(* The invariant: the row.                                                 *)

\* The row s was committed after r was read, or is the same.
Older(r, s) ==
    /\ r.anchor <= s.anchor
    /\ r.optedOut => s.optedOut
    /\ r.anchor = s.anchor => \A st \in Steps : r[st] # "none" => s[st] # "none"

\* What an uncommitted write holds is the row armed for p's silence; what was only
\* read is older than the row; and nobody claims a step before there is a row.
RowOf(p) ==
    /\ holder = p =>
         /\ work[p].row.anchor = work[p].silence
         /\ work[p].row.first = "none" /\ work[p].row.second = "none"
         /\ row.anchor < work[p].silence
         /\ work[p].row.optedOut = row.optedOut
    /\ Reads(p) /\ holder # p => Older(work[p].row, row)
    /\ work[p].at = "insert" => work[p].row.anchor = 0
    /\ work[p].at = "rearm" => work[p].row.anchor # 0 /\ work[p].row.anchor < work[p].silence
    /\ work[p].at = "armed" => work[p].row.anchor # 0
    /\ work[p].at \in {"wording", "due", "returned", "sent", "failed"} => row.anchor # 0

Rows ==
    /\ row.anchor <= seen
    /\ row.anchor = 0 => row = Blank(0)
    /\ \A p \in Pollers : RowOf(p)

\* The order in which rows are committed.
LEMMA OlderOrder ==
    ASSUME NEW r \in Row, NEW s \in Row, NEW u \in Row
    PROVE  /\ Older(r, r)
           /\ Older(r, s) /\ Older(s, u) => Older(r, u)
<1>1. r.anchor \in Nat /\ s.anchor \in Nat /\ u.anchor \in Nat
  BY StepFields
<1>2. QED
  BY <1>1 DEF Older

\* An instance that has read a row has one in hand.
LEMMA ReadsRow ==
    ASSUME TypeOK, NEW p \in Pollers
    PROVE  /\ Reads(p) => work[p].row \in Row
           /\ Txn(p) => work[p].silence \in Silences /\ work[p].silence \in Nat
                        /\ work[p].age \in Nat /\ work[p].age \in 0..Window
           /\ row \in Row /\ row.anchor \in Nat /\ seen \in Nat /\ age \in Nat
           /\ holder = p => work[p].at = "armed" /\ holder # NoPoller
           /\ work[p] # Idle => work[p].silence <= seen
<1>1. work[p] \in Work /\ row \in Row
  BY DEF TypeOK
<1>2. row.anchor \in Nat
  BY <1>1, StepFields
<1>3. Silences \subseteq Nat /\ 0..Window \subseteq Nat
  BY NudgeAssumption DEF Silences
<1>4. Txn(p) => work[p] # Idle
  BY DEF Txn, InTransaction, Idle
<1>5. Reads(p) => work[p].row \in Row
  BY <1>1, WorkFields DEF Reads
<1>6. Txn(p) => work[p].silence \in Silences /\ work[p].age \in 0..Window
  BY <1>1, <1>4, WorkFields DEF Txn
<1>7. holder = p => work[p].at = "armed" /\ holder # NoPoller
  BY NudgeAssumption DEF TypeOK
<1>8. seen \in Nat /\ age \in Nat
  BY <1>3, NudgeAssumption DEF TypeOK
<1>9. QED
  BY <1>1, <1>2, <1>3, <1>5, <1>6, <1>7, <1>8 DEF TypeOK

\* What the others have in hand is not disturbed by a newer row.
LEMMA OthersRow ==
    ASSUME TypeOK, TypeOK', NEW q \in Pollers, RowOf(q), work'[q] = work[q],
           holder' = q => holder = q,
           holder = q => holder' = q /\ row' = row,
           Older(row, row')
    PROVE  RowOf(q)'
<1>1. row \in Row /\ row' \in Row /\ row.anchor \in Nat /\ row'.anchor \in Nat
  BY StepFields DEF TypeOK
<1>2. Reads(q) => work[q].row \in Row
  BY ReadsRow
<1>3. Reads(q) /\ holder # q => Older(work[q].row, row')
  BY <1>1, <1>2, OlderOrder DEF RowOf
<1>4. row.anchor # 0 => row'.anchor # 0
  BY <1>1 DEF Older
<1>5. QED
  BY <1>3, <1>4 DEF RowOf, Reads

\* The row after a step is not older than the row before it.
LEMMA RowsGrow ==
    ASSUME TypeOK, TypeOK', Rows, [Next]_vars
    PROVE  Older(row, row')
<1>1. row \in Row /\ row' \in Row /\ row.anchor \in Nat /\ row'.anchor \in Nat
  BY StepFields DEF TypeOK
<1>2. CASE row' = row
  BY <1>1, <1>2, OlderOrder
<1>3. ASSUME NEW p \in Pollers, Decide(p)
      PROVE  Older(row, row')
  <2>1. CASE holder = p
    <3>1. /\ Current(p) = work[p].row /\ work[p].row.anchor = work[p].silence
          /\ row.anchor < work[p].silence /\ work[p].row.optedOut = row.optedOut
      BY <2>1 DEF Rows, RowOf, Current
    <3>2. row'.anchor = work[p].silence /\ (row.optedOut => row'.optedOut)
      BY <1>3, <3>1, DecidedRow
    <3>3. QED
      BY <1>1, <3>1, <3>2 DEF Older
  <2>2. CASE holder # p
    <3>1. Current(p) = row
      BY <2>2 DEF Current
    <3>2. /\ row'.anchor = row.anchor /\ (row.optedOut => row'.optedOut)
          /\ \A s \in Steps : row[s] # "none" => row'[s] # "none"
      BY <1>3, <3>1, DecidedRow
    <3>3. QED
      BY <1>1, <3>2 DEF Older
  <2>3. QED
    BY <2>1, <2>2
<1>4. ASSUME NEW p \in Pollers, Settle(p)
      PROVE  Older(row, row')
  <2>1. work[p].step \in Steps
    BY <1>4, WorkFields DEF Settle, TypeOK
  <2>2. PICK x \in {"skipped", "sent", "failed"} : row' = [row EXCEPT ![work[p].step] = x]
    BY <1>4 DEF Settle
  <2>3. /\ row'.anchor = row.anchor /\ row'.optedOut = row.optedOut
        /\ \A s \in Steps : row[s] # "none" => row'[s] # "none"
    BY <1>1, <2>1, <2>2 DEF Row, Steps
  <2>4. QED
    BY <1>1, <2>3 DEF Older
<1>5. QED
  BY <1>2, <1>3, <1>4 DEF Next, Poll, Restart, vars, CustomerWrites, BotAnswers, OthersSpeak,
     StaffClick, Tick, Look, Read, Insert, Rearm, Look2, SendNudge

\* The row is kept in order by every step.
LEMMA RowsStep ==
    ASSUME TypeOK, Rows, [Next]_vars
    PROVE  TypeOK' /\ Rows'
<1> USE DEF talkVars, timeVars
<1>1. TypeOK'
  <2>1. CASE UNCHANGED vars
    BY <2>1 DEF TypeOK, vars
  <2>2. CASE CustomerWrites \/ BotAnswers \/ OthersSpeak \/ StaffClick \/ Tick
    BY <2>2, TypeOutside
  <2>3. CASE \E p \in Pollers : Poll(p) \/ Restart(p)
    BY <2>3, TypePoller
  <2>4. QED
    BY <2>1, <2>2, <2>3 DEF Next
<1>2. Older(row, row')
  BY <1>1, RowsGrow
<1>3. row.anchor \in Nat /\ row'.anchor \in Nat /\ row \in Row /\ row' \in Row /\ seen \in Nat
  BY <1>1, NudgeAssumption, StepFields DEF TypeOK
<1>4. CASE UNCHANGED <<row, work, holder>> /\ seen' \in {seen, seen + 1}
  <2>1. ASSUME NEW p \in Pollers
        PROVE  RowOf(p)'
    BY <1>4 DEF Rows, RowOf, Reads, Older
  <2>2. row'.anchor <= seen'
    BY <1>3, <1>4 DEF Rows
  <2>3. row'.anchor = 0 => row' = Blank(0)
    BY <1>4 DEF Rows
  <2>4. QED
    BY <1>1, <2>1, <2>2, <2>3 DEF Rows
<1>5. ASSUME NEW p \in Pollers, Poll(p) \/ Restart(p)
      PROVE  Rows'
  <2>1. /\ \A q \in Pollers \ {p} : work'[q] = work[q]
        /\ seen' = seen
    <3>1. seen' = seen
      BY <1>5 DEF Poll, Restart, Look, Read, Insert, Rearm, Decide, Look2, SendNudge, Settle
    <3>2. QED
      BY <1>5, <3>1, TypePoller
  <2>2. /\ holder' # p => holder' \in {holder, NoPoller}
        /\ holder # NoPoller /\ holder # p => holder' = holder /\ row' = row
    BY <1>5 DEF Poll, Restart, Look, Read, Insert, Rearm, Decide, Look2, SendNudge, Settle
  <2>3. ASSUME NEW q \in Pollers \ {p}
        PROVE  RowOf(q)'
    <3>1. q \in Pollers /\ q # p /\ work'[q] = work[q] /\ RowOf(q) /\ q # NoPoller
      BY <2>1, NudgeAssumption DEF Rows
    <3>2. holder' = q => holder = q
      BY <2>2, <3>1
    <3>3. holder = q => holder' = q /\ row' = row
      BY <2>2, <3>1
    <3>4. QED
      BY <1>1, <1>2, <3>1, <3>2, <3>3, OthersRow
  <2>4. RowOf(p) /\ p # NoPoller
    BY NudgeAssumption DEF Rows
  <2>5. /\ row'.anchor <= seen /\ (row'.anchor = 0 => row' = Blank(0)) /\ RowOf(p)'
    <3>1. CASE Look(p) \/ Look2(p) \/ SendNudge(p)
      <4>1. /\ row' = row /\ holder' = holder /\ holder # p
            /\ work'[p].at \notin {"insert", "rearm", "armed"}
            /\ work'[p].at \in {"wording", "due", "returned", "sent", "failed"} => row.anchor # 0
        <5>1. row' = row /\ holder' = holder
          BY <3>1 DEF Look, Look2, SendNudge
        <5>2. work[p].at \in {"idle", "wording", "due"}
          BY <3>1 DEF Look, Look2, SendNudge
        <5>3. holder # p
          BY <2>4, <5>2 DEF TypeOK
        <5>4. \/ work'[p].at = "looked"
              \/ /\ work[p].at \in {"wording", "due"}
                 /\ work'[p].at \in {"returned", "due", "sent", "failed"}
          BY <3>1, IdleIsWork DEF Look, Look2, SendNudge, TypeOK, Work
        <5>5. QED
          BY <2>4, <5>1, <5>3, <5>4 DEF RowOf
      <4>2. QED
        BY <4>1 DEF Rows, RowOf, Reads
    <3>2. CASE Read(p)
      <4>1. PICK at \in {"insert", "rearm", "armed"} :
               /\ work' = [work EXCEPT ![p] = With(p, at, row)]
               /\ at = "insert" => row.anchor = 0
               /\ at = "rearm" => row.anchor # 0 /\ row.anchor < work[p].silence
               /\ at = "armed" => row.anchor # 0
        BY <3>2 DEF Read
      <4>2. /\ work'[p].at = at /\ work'[p].row = row /\ work'[p].silence = work[p].silence
            /\ holder' = holder /\ holder # p /\ row' = row
        BY <2>4, <3>2, <4>1 DEF With, TypeOK, Read
      <4>3. Older(row, row)
        BY <1>3, OlderOrder
      <4>4. QED
        BY <4>1, <4>2, <4>3 DEF Rows, RowOf, Reads
    <3>3. CASE Insert(p) /\ row.anchor = 0
      <4>1. work' = [work EXCEPT ![p] = With(p, "armed", Blank(work[p].silence))]
        BY <3>3 DEF Insert
      <4>2. /\ work'[p].at = "armed" /\ work'[p].row = Blank(work[p].silence)
            /\ work'[p].silence = work[p].silence
        BY <4>1 DEF With, TypeOK
      <4>3. Txn(p)
        BY <3>3 DEF Insert, Txn, InTransaction
      <4>4. work[p].silence \in Nat /\ work[p].silence # 0
        BY <4>3, ReadsRow, NudgeAssumption DEF Silences
      <4>5. row = Blank(0) /\ row' = row /\ holder' = p
        BY <3>3 DEF Rows, Insert
      <4>6. QED
        BY <1>3, <4>2, <4>4, <4>5 DEF Rows, RowOf, Reads, Blank
    <3>4. CASE Insert(p) /\ row.anchor # 0
      <4>1. work' = [work EXCEPT ![p] = With(p, "armed", row)]
        BY <3>4 DEF Insert
      <4>2. /\ work'[p].at = "armed" /\ work'[p].row = row
            /\ holder' = holder /\ holder # p /\ row' = row
        BY <2>4, <3>4, <4>1 DEF With, TypeOK, Insert
      <4>3. Older(row, row)
        BY <1>3, OlderOrder
      <4>4. QED
        BY <3>4, <4>2, <4>3 DEF Rows, RowOf, Reads
    <3>5. CASE Rearm(p) /\ row.anchor = work[p].row.anchor
      <4>1. work' = [work EXCEPT ![p] = With(p, "armed", Rearmed(row, work[p].silence))]
        BY <3>5 DEF Rearm
      <4>2. /\ work'[p].at = "armed" /\ work'[p].row = Rearmed(row, work[p].silence)
            /\ work'[p].silence = work[p].silence
        BY <4>1 DEF With, TypeOK
      <4>3. Txn(p)
        BY <3>5 DEF Rearm, Txn, InTransaction
      <4>4. work[p].silence \in Silences
        BY <4>3, ReadsRow
      <4>5. row' = row /\ holder' = p /\ row.anchor # 0 /\ row.anchor < work[p].silence
        BY <2>4, <3>5 DEF Rearm, RowOf
      <4>6. PICK r : r = Rearmed(row, work[p].silence)
        OBVIOUS
      <4>7. /\ r.anchor = work[p].silence /\ r.first = "none" /\ r.second = "none"
            /\ r.optedOut = row.optedOut
        BY <1>3, <4>4, <4>6, RearmedRow
      <4>8. work[p].silence # 0
        BY <1>3, <4>4, <4>5, NudgeAssumption DEF Silences
      <4>9. QED
        BY <4>2, <4>5, <4>6, <4>7, <4>8 DEF Rows, RowOf, Reads
    <3>6. CASE Rearm(p) /\ row.anchor # work[p].row.anchor
      <4>1. row' = row /\ holder' = holder /\ holder # p
        BY <2>4, <3>6 DEF Rearm
      <4>2. CASE row.anchor < work[p].silence
        <5>1. work'[p].at = "idle"
          BY <3>6, <4>2 DEF Rearm, TypeOK, Idle
        <5>2. QED
          BY <4>1, <5>1 DEF Rows, RowOf, Reads
      <4>3. CASE ~(row.anchor < work[p].silence)
        <5>1. work'[p].at = "armed" /\ work'[p].row = row
          BY <3>6, <4>3 DEF Rearm, TypeOK, With
        <5>2. Txn(p)
          BY <3>6 DEF Rearm, Txn, InTransaction
        <5>3. work[p].silence \in Nat /\ work[p].silence # 0
          BY <5>2, ReadsRow, NudgeAssumption DEF Silences
        <5>4. row.anchor # 0 /\ Older(row, row)
          BY <1>3, <4>3, <5>3, OlderOrder
        <5>5. QED
          BY <4>1, <5>1, <5>4 DEF Rows, RowOf, Reads
      <4>4. QED
        BY <4>2, <4>3
    <3>7. CASE Decide(p)
      <4>1. /\ Txn(p) /\ Reads(p) /\ work[p].at = "armed" /\ work[p] # Idle
        BY <3>7 DEF Decide, Txn, Reads, InTransaction, Idle
      <4>2. /\ work[p].row \in Row /\ work[p].silence \in Nat /\ work[p].silence <= seen
            /\ work[p].row.anchor \in Nat
        BY <4>1, ReadsRow, StepFields
      <4>3. work'[p].at \in {"idle", "wording"} /\ holder' = NoPoller
        <5>1. holder' = NoPoller
          BY <3>7 DEF Decide
        <5>2. work'[p].at \in {"idle", "wording"}
          <6>1. \/ work'[p] = Idle
                \/ work'[p] = [at |-> "wording", silence |-> work[p].silence,
                               step |-> Plan(work[p]).step]
            BY <3>7, DecideWork
          <6>2. QED
            BY <6>1, IdleIsWork
        <5>3. QED
          BY <5>1, <5>2
      <4>4. row'.anchor = Current(p).anchor
        BY <3>7, DecidedRow
      <4>5. Current(p).anchor <= seen /\ Current(p).anchor # 0
        <5>1. CASE holder = p
          BY <2>4, <4>1, <4>2, <5>1 DEF Current, RowOf
        <5>2. CASE holder # p
          BY <1>3, <2>4, <4>1, <4>2, <5>2 DEF Current, RowOf, Rows, Older
        <5>3. QED
          BY <5>1, <5>2
      <4>6. QED
        BY <2>4, <4>3, <4>4, <4>5 DEF RowOf, Reads
    <3>8. CASE Settle(p)
      <4>1. work[p].step \in Steps
        BY <3>8, WorkFields DEF Settle, TypeOK
      <4>2. row'.anchor = row.anchor
        BY <3>8, <4>1 DEF Settle, TypeOK, Row, Steps
      <4>3. work'[p].at = "idle" /\ holder' = NoPoller
        BY <3>8 DEF Settle, TypeOK, Idle
      <4>4. row.anchor # 0
        BY <2>4, <3>8 DEF Settle, RowOf
      <4>5. QED
        BY <2>4, <4>2, <4>3, <4>4 DEF Rows, RowOf, Reads
    <3>9. CASE Restart(p)
      <4>1. work'[p].at = "idle" /\ holder' # p /\ row' = row
        BY <2>4, <3>9 DEF Restart, TypeOK, Idle
      <4>2. QED
        BY <4>1 DEF Rows, RowOf, Reads
    <3>10. QED
      BY <1>5, <3>1, <3>2, <3>3, <3>4, <3>5, <3>6, <3>7, <3>8, <3>9 DEF Poll
  <2>6. QED
    BY <2>1, <2>3, <2>5 DEF Rows
<1>6. CASE UNCHANGED vars
  BY <1>4, <1>6 DEF vars
<1>7. CASE CustomerWrites \/ BotAnswers \/ OthersSpeak \/ StaffClick \/ Tick
  <2>1. UNCHANGED <<row, work, holder>> /\ seen' \in {seen, seen + 1}
    BY <1>7 DEF CustomerWrites, BotAnswers, OthersSpeak, StaffClick, Tick
  <2>2. QED
    BY <1>4, <2>1
<1>8. QED
  BY <1>1, <1>5, <1>6, <1>7 DEF Next

-----------------------------------------------------------------------------
(* The invariant: which silence an instance is in, and how long it was.    *)

\* An instance that has not yet decided about an earlier silence than the
\* customer's began its poll in this tick; and if the row it has, or finds in place of
\* the one it read, is of an earlier silence than its own, its poll is younger still.
TimesOf(p) ==
    /\ Txn(p) /\ work[p].silence < seen => age = 0
    /\ /\ work[p].at \in {"insert", "rearm"} /\ row.anchor # work[p].row.anchor
       /\ row.anchor < work[p].silence
       => work[p].age = 0
    /\ work[p].at = "armed" /\ work[p].row.anchor < work[p].silence => work[p].age = 0

\* One that polls about a later silence than another's is young.
Younger(p, q) == Txn(p) /\ Txn(q) /\ work[q].silence < work[p].silence => work[p].age = 0

Times ==
    /\ \A p \in Pollers : TimesOf(p)
    /\ \A p, q \in Pollers : Younger(p, q)

\* What an instance's step leaves alone.
LEMMA PollFrame ==
    ASSUME NEW p \in Pollers, Poll(p) \/ Restart(p)
    PROVE  UNCHANGED talkVars /\ age' = age /\ quiet' = quiet
BY DEF Poll, Restart, Look, Read, Insert, Rearm, Decide, Look2, SendNudge, Settle, talkVars,
   timeVars

\* An instance in its first transaction has just begun it, or goes on with it.
LEMMA TxnStep ==
    ASSUME TypeOK, NEW p \in Pollers, Poll(p) \/ Restart(p), Txn(p)'
    PROVE  \/ /\ Look(p) /\ work'[p].at = "looked" /\ work'[p].silence = seen
              /\ work'[p].age = age /\ work'[p].paused = paused
           \/ /\ Read(p) \/ Insert(p) \/ Rearm(p)
              /\ Txn(p) /\ work'[p].silence = work[p].silence
              /\ work'[p].age = work[p].age /\ work'[p].paused = work[p].paused
<1>1. CASE Look(p)
  BY <1>1 DEF Look, TypeOK
<1>2. CASE Read(p)
  BY <1>2 DEF Read, TypeOK, With, Txn, InTransaction
<1>3. CASE Insert(p)
  BY <1>3 DEF Insert, TypeOK, With, Txn, InTransaction
<1>4. CASE Rearm(p)
  <2>1. CASE work' = [work EXCEPT ![p] = Idle]
    BY <2>1, IdleIsWork DEF TypeOK, Txn, InTransaction
  <2>2. CASE work' # [work EXCEPT ![p] = Idle]
    <3>1. PICK r : work' = [work EXCEPT ![p] = With(p, "armed", r)]
      BY <1>4, <2>2 DEF Rearm
    <3>2. Txn(p)
      BY <1>4 DEF Rearm, Txn, InTransaction
    <3>3. QED
      BY <1>4, <3>1, <3>2 DEF TypeOK, With
  <2>3. QED
    BY <2>1, <2>2
<1>5. CASE Decide(p)
  <2>1. \/ work'[p] = Idle
        \/ work'[p] = [at |-> "wording", silence |-> work[p].silence,
                       step |-> Plan(work[p]).step]
    BY <1>5, DecideWork
  <2>2. QED
    BY <2>1, IdleIsWork DEF Txn, InTransaction
<1>6. CASE Look2(p) \/ SendNudge(p)
  <2>1. PICK at \in {"returned", "due", "sent", "failed"} : work' = [work EXCEPT ![p].at = at]
    BY <1>6 DEF Look2, SendNudge
  <2>2. work[p].at \in {"wording", "due"} /\ work[p] \in Work
    BY <1>6 DEF Look2, SendNudge, TypeOK
  <2>3. work'[p].at = at
    BY <2>1, <2>2 DEF TypeOK, Work, Idle
  <2>4. QED
    BY <2>3 DEF Txn, InTransaction
<1>7. CASE Settle(p) \/ Restart(p)
  BY <1>7, IdleIsWork DEF Settle, Restart, TypeOK, Txn, InTransaction
<1>8. QED
  BY <1>1, <1>2, <1>3, <1>4, <1>5, <1>6, <1>7 DEF Poll

\* The row's silence changes only when the instance that armed it commits.
LEMMA AnchorStep ==
    ASSUME TypeOK, Rows, NEW p \in Pollers, Poll(p) \/ Restart(p)
    PROVE  \/ row'.anchor = row.anchor
           \/ /\ Decide(p) /\ holder = p /\ Txn(p)
              /\ row'.anchor = work[p].silence /\ row.anchor < work[p].silence
<1>1. CASE Decide(p)
  <2>1. row'.anchor = Current(p).anchor /\ Txn(p)
    <3>1. row'.anchor = Current(p).anchor
      BY <1>1, DecidedRow
    <3>2. QED
      BY <1>1, <3>1 DEF Decide, Txn, InTransaction
  <2>2. holder = p => work[p].row.anchor = work[p].silence /\ row.anchor < work[p].silence
    BY DEF Rows, RowOf
  <2>3. QED
    BY <1>1, <2>1, <2>2 DEF Current
<1>2. CASE Settle(p)
  <2>1. work[p].step \in Steps
    BY <1>2, WorkFields DEF Settle, TypeOK
  <2>2. QED
    BY <1>2, <2>1 DEF Settle, TypeOK, Row, Steps
<1>3. CASE ~Decide(p) /\ ~Settle(p)
  BY <1>3 DEF Poll, Restart, Look, Read, Insert, Rearm, Look2, SendNudge
<1>4. QED
  BY <1>1, <1>2, <1>3

\* Times are kept by a step of an instance.
LEMMA TimesPoller ==
    ASSUME TypeOK, TypeOK', Rows, Times, NEW p \in Pollers, Poll(p) \/ Restart(p)
    PROVE  Times'
<1>1. seen' = seen /\ age' = age
  BY PollFrame DEF talkVars
<1>2. \A q \in Pollers \ {p} : work'[q] = work[q]
  BY TypePoller
<1>3. seen \in Nat /\ age \in Nat /\ row.anchor \in Nat
      /\ \A q \in Pollers : Txn(q) => work[q].silence \in Nat /\ work[q].silence <= seen
  <2>1. \A q \in Pollers : Txn(q) => work[q] # Idle
    BY IdleIsWork DEF Txn, InTransaction
  <2>2. seen \in Nat /\ age \in Nat /\ row.anchor \in Nat
    BY ReadsRow
  <2>3. QED
    BY <2>1, <2>2, ReadsRow
<1>4. ASSUME NEW q \in Pollers, Txn(q)'
      PROVE  \/ q = p /\ Look(p) /\ work'[q].silence = seen /\ work'[q].age = age
                /\ work'[q].at = "looked"
             \/ /\ Txn(q) /\ work'[q].silence = work[q].silence /\ work'[q].age = work[q].age
                /\ ~(q = p /\ Look(p))
  <2>1. CASE q = p
    <3>1. Look(p) => ~(Read(p) \/ Insert(p) \/ Rearm(p))
      BY DEF Look, Read, Insert, Rearm
    <3>2. QED
      BY <1>4, <2>1, <3>1, TxnStep
  <2>2. CASE q # p
    BY <1>2, <1>4, <2>2 DEF Txn
  <2>3. QED
    BY <2>1, <2>2
<1>5. ASSUME NEW q \in Pollers, Txn(q)', work'[q].silence < seen'
      PROVE  age' = 0
  BY <1>1, <1>3, <1>4, <1>5 DEF Times, TimesOf
<1>6. ASSUME NEW q \in Pollers, NEW s \in Pollers,
             Txn(q)', Txn(s)', work'[s].silence < work'[q].silence
      PROVE  work'[q].age = 0
  <2>1. CASE q = p /\ Look(p) /\ work'[q].silence = seen /\ work'[q].age = age
    <3>1. Txn(s) /\ work'[s].silence = work[s].silence
      BY <1>3, <1>4, <1>6, <2>1
    <3>2. QED
      BY <1>6, <2>1, <3>1 DEF Times, TimesOf
  <2>2. CASE Txn(q) /\ work'[q].silence = work[q].silence /\ work'[q].age = work[q].age
    <3>1. CASE s = p /\ Look(p) /\ work'[s].silence = seen
      BY <1>3, <1>6, <2>2, <3>1
    <3>2. CASE Txn(s) /\ work'[s].silence = work[s].silence
      BY <1>6, <2>2, <3>2 DEF Times, Younger
    <3>3. QED
      BY <1>4, <1>6, <3>1, <3>2
  <2>3. QED
    BY <1>4, <1>6, <2>1, <2>2
<1>7. ASSUME NEW q \in Pollers, row'.anchor < work'[q].silence,
             work'[q].at \in {"insert", "rearm"}, row'.anchor # work'[q].row.anchor
      PROVE  work'[q].age = 0
  <2>1. Txn(q)'
    BY <1>7 DEF Txn, InTransaction
  <2>2. /\ Txn(q) /\ work'[q].silence = work[q].silence /\ work'[q].age = work[q].age
        /\ q = p => Read(p) \/ Insert(p) \/ Rearm(p)
    BY <1>4, <1>7, <2>1, TxnStep
  <2>3. CASE q # p
    <3>1. work'[q] = work[q]
      BY <1>2, <2>3
    <3>2. CASE row'.anchor = row.anchor
      BY <1>7, <3>1, <3>2 DEF Times, TimesOf
    <3>3. CASE Txn(p) /\ row'.anchor = work[p].silence
      BY <1>7, <2>2, <3>3 DEF Times, Younger
    <3>4. QED
      BY <3>2, <3>3, AnchorStep
  <2>4. CASE q = p
    <3>1. CASE Read(p)
      BY <1>7, <2>4, <3>1 DEF Read, TypeOK, With
    <3>2. CASE Insert(p)
      BY <1>7, <2>4, <3>2 DEF Insert, TypeOK, With
    <3>3. CASE Rearm(p)
      <4>1. \/ work' = [work EXCEPT ![p] = Idle]
            \/ \E r : work' = [work EXCEPT ![p] = With(p, "armed", r)]
        BY <3>3 DEF Rearm
      <4>2. work'[p].at \in {"idle", "armed"}
        BY <4>1, IdleIsWork DEF TypeOK, With
      <4>3. QED
        BY <1>7, <2>4, <4>2
    <3>4. QED
      BY <2>2, <2>4, <3>1, <3>2, <3>3
  <2>5. QED
    BY <2>3, <2>4
<1>8. ASSUME NEW q \in Pollers, work'[q].at = "armed", work'[q].row.anchor < work'[q].silence
      PROVE  work'[q].age = 0
  <2>1. Txn(q)'
    BY <1>8 DEF Txn, InTransaction
  <2>2. /\ Txn(q) /\ work'[q].silence = work[q].silence /\ work'[q].age = work[q].age
        /\ q = p => Read(p) \/ Insert(p) \/ Rearm(p)
    BY <1>4, <1>8, <2>1, TxnStep
  <2>3. CASE q # p
    BY <1>2, <1>8, <2>3 DEF Times, TimesOf
  <2>4. CASE q = p /\ Read(p)
    <3>1. PICK at \in {"insert", "rearm", "armed"} :
             /\ work' = [work EXCEPT ![p] = With(p, at, row)]
             /\ at = "armed" => row.anchor = 0 \/ ~(row.anchor < work[p].silence)
             /\ at = "armed" => row.anchor # 0
      BY <2>4 DEF Read
    <3>2. work'[p].at = at /\ work'[p].row = row
      BY <3>1 DEF With, TypeOK
    <3>3. QED
      BY <1>8, <2>2, <2>4, <3>1, <3>2
  <2>5. CASE q = p /\ Insert(p)
    <3>1. CASE row.anchor = 0
      <4>1. work'[p].row = Blank(work[p].silence) /\ work'[p].silence = work[p].silence
        BY <2>5, <3>1 DEF Insert, TypeOK, With
      <4>2. QED
        BY <1>3, <1>8, <2>2, <2>5, <4>1 DEF Blank
    <3>2. CASE row.anchor # 0
      <4>1. work'[p].row = row /\ work[p].at = "insert"
        BY <2>5, <3>2 DEF Insert, TypeOK, With
      <4>2. work[p].row.anchor = 0
        BY <4>1 DEF Rows, RowOf
      <4>3. QED
        BY <1>8, <2>2, <2>5, <3>2, <4>1, <4>2 DEF Times, TimesOf
    <3>3. QED
      BY <3>1, <3>2
  <2>6. CASE q = p /\ Rearm(p)
    <3>1. CASE row.anchor = work[p].row.anchor
      <4>1. work'[p].row = Rearmed(row, work[p].silence)
        BY <2>6, <3>1 DEF Rearm, TypeOK, With
      <4>2. work[p].silence \in Silences /\ row \in Row
        BY <2>2, <2>6, ReadsRow
      <4>3. work'[p].row.anchor = work[p].silence
        BY <4>1, <4>2, RearmedRow
      <4>4. QED
        BY <1>3, <1>8, <2>2, <2>6, <4>3
    <3>2. CASE row.anchor # work[p].row.anchor /\ row.anchor < work[p].silence
      <4>1. work'[p].at = "idle"
        BY <2>6, <3>2, IdleIsWork DEF Rearm, TypeOK
      <4>2. QED
        BY <1>8, <2>6, <4>1
    <3>3. CASE row.anchor # work[p].row.anchor /\ ~(row.anchor < work[p].silence)
      <4>1. work'[p].row = row
        BY <2>6, <3>3 DEF Rearm, TypeOK, With
      <4>2. QED
        BY <1>8, <2>2, <2>6, <3>3, <4>1
    <3>4. QED
      BY <3>1, <3>2, <3>3
  <2>7. QED
    BY <2>2, <2>3, <2>4, <2>5, <2>6
<1>9. ASSUME NEW q \in Pollers
      PROVE  TimesOf(q)'
  BY <1>5, <1>7, <1>8 DEF TimesOf
<1>10. ASSUME NEW q \in Pollers, NEW s \in Pollers
      PROVE  Younger(q, s)'
  BY <1>6 DEF Younger
<1>11. QED
  BY <1>9, <1>10 DEF Times

\* Times are kept.
LEMMA TimesStep ==
    ASSUME TypeOK, TypeOK', Rows, Times, [Next]_vars
    PROVE  Times'
<1>1. seen \in Nat /\ age \in Nat
  BY NudgeAssumption DEF TypeOK
<1>2. ASSUME UNCHANGED <<row, work, holder>>,
             \/ seen' = seen /\ age' = age
             \/ age' = 0
             \/ seen' = seen /\ \A p \in Pollers : work[p].at \notin InTransaction
      PROVE  Times'
  <2>1. ASSUME NEW p \in Pollers
        PROVE  TimesOf(p)'
    <3>1. TimesOf(p)
      BY DEF Times
    <3>2. QED
      BY <1>2, <3>1 DEF TimesOf, Txn
  <2>2. ASSUME NEW p \in Pollers, NEW q \in Pollers
        PROVE  Younger(p, q)'
    BY <1>2 DEF Times, Younger, Txn
  <2>3. QED
    BY <2>1, <2>2 DEF Times
<1>3. CASE UNCHANGED vars
  BY <1>2, <1>3 DEF vars
<1>4. CASE CustomerWrites \/ BotAnswers \/ OthersSpeak \/ StaffClick \/ Tick
  BY <1>2, <1>4 DEF CustomerWrites, BotAnswers, OthersSpeak, StaffClick, Tick, timeVars, talkVars
<1>5. CASE \E p \in Pollers : Poll(p) \/ Restart(p)
  BY <1>5, TimesPoller
<1>6. QED
  BY <1>3, <1>4, <1>5 DEF Next

-----------------------------------------------------------------------------
(* The invariant: who is about to send what.                               *)

\* p has claimed step st of silence a, and may still come to send it.
Live(p, a, st) ==
    /\ Sends(p) /\ (work[p].at = "wording" => work[p].silence = seen)
    /\ work[p].silence = a /\ work[p].step = st

\* Nobody can claim step st of silence a any more.
Decided(a, st) == row.anchor > a \/ (row.anchor = a /\ row[st] # "none")

\* At most one may send, and only what was not sent; what is claimed or sent was decided.
OnceOf(a, st) ==
    /\ \A p \in Pollers : Live(p, a, st) => nudged[<<a, st>>] = 0 /\ Decided(a, st)
    /\ \A p, q \in Pollers : Live(p, a, st) /\ Live(q, a, st) => p = q
    /\ nudged[<<a, st>>] # 0 => nudged[<<a, st>>] = 1 /\ Decided(a, st)

Once == \A a \in Silences, st \in Steps : OnceOf(a, st)

\* What was decided stays so.
LEMMA DecidedStays ==
    ASSUME TypeOK, TypeOK', Rows, [Next]_vars, NEW a \in Silences, NEW st \in Steps,
           Decided(a, st)
    PROVE  Decided(a, st)'
<1>1. Older(row, row')
  BY RowsGrow
<1>2. row.anchor \in Nat /\ row'.anchor \in Nat /\ a \in Nat
  BY NudgeAssumption, StepFields DEF TypeOK, Silences
<1>3. QED
  BY <1>1, <1>2 DEF Decided, Older

\* An instance that may send has just claimed, or might have sent before.
LEMMA LiveStep ==
    ASSUME TypeOK, [Next]_vars, NEW p \in Pollers, NEW a \in Silences, NEW st \in Steps,
           Live(p, a, st)'
    PROVE  \/ Live(p, a, st) /\ work'[p].silence = work[p].silence
                             /\ work'[p].step = work[p].step
           \/ /\ Decide(p) /\ Plan(work[p]).do = "send" /\ Plan(work[p]).step = st
              /\ work[p].silence = a /\ seen = a /\ Current(p)[st] = "none"
<1> USE DEF talkVars, timeVars
<1>1. seen \in Nat /\ MaxMessages \in Nat /\ Silences \subseteq Nat
  BY NudgeAssumption DEF TypeOK, Silences
<1>2. work[p] \in Work /\ (work[p] # Idle => work[p].silence <= seen /\ work[p].silence \in Nat)
  BY <1>1, WorkFields DEF TypeOK
<1>3. Sends(p) => work[p] # Idle
  BY IdleIsWork DEF Sends
<1>4. CASE work' = work /\ seen' \in {seen, seen + 1}
  BY <1>1, <1>2, <1>3, <1>4 DEF Live, Sends
<1>5. ASSUME NEW q \in Pollers, Poll(q) \/ Restart(q)
      PROVE  \/ Live(p, a, st) /\ work'[p].silence = work[p].silence
                             /\ work'[p].step = work[p].step
             \/ /\ Decide(p) /\ Plan(work[p]).do = "send" /\ Plan(work[p]).step = st
                /\ work[p].silence = a /\ seen = a /\ Current(p)[st] = "none"
  <2>1. seen' = seen
    BY <1>5, PollFrame
  <2>2. CASE q # p
    <3>1. work'[p] = work[p]
      BY <1>5, <2>2, TypePoller
    <3>2. QED
      BY <2>1, <3>1 DEF Live, Sends
  <2>3. CASE q = p /\ Decide(p)
    <3>1. \/ work'[p] = Idle
          \/ /\ Plan(work[p]).do = "send" /\ Current(p)[Plan(work[p]).step] = "none"
             /\ work'[p] = [at |-> "wording", silence |-> work[p].silence,
                            step |-> Plan(work[p]).step]
      BY <2>3, DecideWork
    <3>2. work'[p] # Idle
      BY IdleIsWork DEF Live, Sends
    <3>3. QED
      BY <2>1, <2>3, <3>1, <3>2 DEF Live, Sends
  <2>4. CASE q = p /\ (Look2(p) \/ SendNudge(p))
    <3>1. PICK at \in {"returned", "due", "sent", "failed"} : work' = [work EXCEPT ![p].at = at]
      BY <2>4 DEF Look2, SendNudge
    <3>2. work[p].at \in {"wording", "due"}
      BY <2>4 DEF Look2, SendNudge
    <3>3. /\ work'[p].at = at /\ work'[p].silence = work[p].silence
          /\ work'[p].step = work[p].step
      BY <1>2, <3>1, <3>2 DEF TypeOK, Work, Idle
    <3>4. at = "due"
      BY <3>1, <3>3 DEF Live, Sends
    <3>5. Look2(p) /\ ~(seen > work[p].silence)
      <4>1. CASE SendNudge(p)
        <5>1. work'[p].at \in {"sent", "failed"}
          BY <1>2, <3>2, <4>1 DEF SendNudge, TypeOK, Work, Idle
        <5>2. QED
          BY <3>3, <3>4, <5>1
      <4>2. CASE Look2(p)
        <5>1. work'[p].at = IF seen > work[p].silence \/ paused THEN "returned" ELSE "due"
          BY <1>2, <3>2, <4>2 DEF Look2, TypeOK, Work, Idle
        <5>2. QED
          BY <3>3, <3>4, <4>2, <5>1
      <4>3. QED
        BY <2>4, <4>1, <4>2
    <3>6. work[p].silence = seen
      BY <1>1, <1>2, <1>3, <3>2, <3>5 DEF Sends
    <3>7. QED
      BY <2>1, <3>2, <3>3, <3>6 DEF Live, Sends
  <2>5. CASE q = p /\ ~Decide(p) /\ ~Look2(p) /\ ~SendNudge(p)
    <3>1. CASE Settle(p) \/ Restart(p)
      BY <3>1, IdleIsWork DEF Settle, Restart, TypeOK, Live, Sends
    <3>2. CASE Look(p) \/ Read(p) \/ Insert(p) \/ Rearm(p)
      <4>1. \/ work'[p].at \in {"looked", "insert", "rearm", "armed"}
            \/ work'[p] = Idle
        <5>1. CASE Look(p)
          BY <5>1 DEF Look, TypeOK
        <5>2. CASE Read(p)
          BY <5>2 DEF Read, TypeOK, With
        <5>3. CASE Insert(p)
          BY <5>3 DEF Insert, TypeOK, With
        <5>4. CASE Rearm(p)
          <6>1. \/ work' = [work EXCEPT ![p] = Idle]
                \/ \E r : work' = [work EXCEPT ![p] = With(p, "armed", r)]
            BY <5>4 DEF Rearm
          <6>2. QED
            BY <6>1 DEF TypeOK, With
        <5>5. QED
          BY <3>2, <5>1, <5>2, <5>3, <5>4
      <4>2. QED
        BY <4>1, IdleIsWork DEF Live, Sends
    <3>3. QED
      BY <1>5, <2>5, <3>1, <3>2 DEF Poll
  <2>6. QED
    BY <2>2, <2>3, <2>4, <2>5
<1>6. CASE UNCHANGED vars
  BY <1>4, <1>6 DEF vars
<1>7. CASE CustomerWrites \/ BotAnswers \/ OthersSpeak \/ StaffClick \/ Tick
  <2>1. work' = work /\ seen' \in {seen, seen + 1}
    BY <1>7 DEF CustomerWrites, BotAnswers, OthersSpeak, StaffClick, Tick
  <2>2. QED
    BY <1>4, <2>1
<1>8. QED
  BY <1>5, <1>6, <1>7 DEF Next

\* A claim to send is for a step of the customer's silence that nobody had decided.
LEMMA ClaimIsFirst ==
    ASSUME TypeOK, Rows, Times, NEW p \in Pollers, Decide(p), NEW st \in Steps,
           Plan(work[p]).do # "none", Plan(work[p]).step = st, work[p].silence = seen
    PROVE  /\ row'.anchor = seen /\ row'[st] # "none"
           /\ Current(p)[st] = "none" => ~Decided(seen, st)
<1>1. work[p].at = "armed" /\ Txn(p) /\ Reads(p)
  BY DEF Decide, Txn, Reads, InTransaction
<1>2. row.anchor \in Nat /\ seen \in Nat /\ row.anchor <= seen /\ work[p].age \in Nat
  BY <1>1, ReadsRow DEF Rows
<1>3. row'.anchor = Current(p).anchor /\ row'[st] # "none"
  BY DecidedRow
<1>4. CASE holder = p
  <2>1. Current(p) = work[p].row /\ work[p].row.anchor = seen /\ row.anchor < seen
    BY <1>4 DEF Current, Rows, RowOf
  <2>2. QED
    BY <1>2, <1>3, <2>1 DEF Decided
<1>5. CASE holder # p
  <2>1. Current(p) = row
    BY <1>5 DEF Current
  <2>2. row.anchor < seen => work[p].age = 0
    <3>1. work[p].row \in Row /\ Older(work[p].row, row)
      BY <1>1, <1>5, ReadsRow DEF Rows, RowOf
    <3>2. work[p].row.anchor \in Nat /\ work[p].row.anchor <= row.anchor
      BY <3>1, StepFields DEF Older
    <3>3. QED
      BY <1>1, <1>2, <3>2 DEF Times, TimesOf
  <2>3. ~(work[p].age < First)
    BY PlanType
  <2>4. row.anchor = seen
    BY <1>2, <2>2, <2>3, NudgeAssumption
  <2>5. QED
    BY <1>2, <1>3, <2>1, <2>4 DEF Decided
<1>6. QED
  BY <1>4, <1>5

\* A nudge is counted when an instance that may send it sends it.
LEMMA NudgedStep ==
    ASSUME TypeOK, [Next]_vars, NEW a \in Silences, NEW st \in Steps
    PROVE  \/ nudged'[<<a, st>>] = nudged[<<a, st>>]
           \/ \E p \in Pollers :
                /\ SendNudge(p) /\ work[p].at = "due" /\ work[p].silence = a
                /\ work[p].step = st /\ work'[p].at = "sent" /\ Live(p, a, st)
                /\ nudged'[<<a, st>>] = nudged[<<a, st>>] + 1
<1>1. CASE nudged' = nudged
  BY <1>1
<1>2. ASSUME NEW p \in Pollers, SendNudge(p), nudged' # nudged
      PROVE  \/ nudged'[<<a, st>>] = nudged[<<a, st>>]
             \/ /\ SendNudge(p) /\ work[p].at = "due" /\ work[p].silence = a
                /\ work[p].step = st /\ work'[p].at = "sent" /\ Live(p, a, st)
                /\ nudged'[<<a, st>>] = nudged[<<a, st>>] + 1
  <2>1. /\ work[p].at = "due" /\ work[p] \in Work
        /\ nudged' = [nudged EXCEPT ![<<work[p].silence, work[p].step>>] = @ + 1]
        /\ work' = [work EXCEPT ![p].at = "sent"]
    BY <1>2 DEF SendNudge, TypeOK
  <2>2. work'[p].at = "sent"
    BY <2>1 DEF TypeOK, Work, Idle
  <2>3. work[p].silence \in Silences /\ work[p].step \in Steps
    BY <2>1, WorkFields, IdleIsWork
  <2>4. CASE work[p].silence = a /\ work[p].step = st
    BY <1>2, <2>1, <2>2, <2>4 DEF TypeOK, Live, Sends
  <2>5. CASE work[p].silence # a \/ work[p].step # st
    BY <2>1, <2>3, <2>5 DEF TypeOK
  <2>6. QED
    BY <2>4, <2>5
<1>3. QED
  BY <1>1, <1>2 DEF Next, Poll, Restart, vars, CustomerWrites, BotAnswers, OthersSpeak,
     StaffClick, Tick, Look, Read, Insert, Rearm, Decide, Look2, Settle

\* Once is kept by every step.
LEMMA OnceStep ==
    ASSUME TypeOK, TypeOK', Rows, Times, Once, [Next]_vars
    PROVE  Once'
<1>1. SUFFICES ASSUME NEW a \in Silences, NEW st \in Steps
               PROVE  OnceOf(a, st)'
  BY DEF Once
<1>2. OnceOf(a, st)
  BY DEF Once
<1>3. Decided(a, st) => Decided(a, st)'
  BY DecidedStays
<1>4. nudged[<<a, st>>] \in Nat
  BY DEF TypeOK
<1>5. CASE nudged'[<<a, st>>] # nudged[<<a, st>>]
  <2>1. PICK s \in Pollers : /\ SendNudge(s) /\ work'[s].at = "sent" /\ Live(s, a, st)
                             /\ nudged'[<<a, st>>] = nudged[<<a, st>>] + 1
    BY <1>5, NudgedStep
  <2>2. nudged'[<<a, st>>] = 1 /\ Decided(a, st)'
    BY <1>2, <1>3, <2>1 DEF OnceOf
  <2>3. ASSUME NEW p \in Pollers, Live(p, a, st)'
        PROVE  FALSE
    <3>1. ~Decide(p)
      <4>1. CASE p = s
        BY <2>1, <4>1 DEF SendNudge, Decide
      <4>2. CASE p # s
        <5>1. SendNudge(s) => Poll(s)
          BY DEF Poll
        <5>2. work'[p] = work[p]
          BY <2>1, <4>2, <5>1, TypePoller
        <5>3. work[p].at \in {"wording", "due"}
          BY <2>3, <5>2 DEF Live, Sends
        <5>4. QED
          BY <5>3 DEF Decide
      <4>3. QED
        BY <4>1, <4>2
    <3>2. Live(p, a, st)
      BY <2>3, <3>1, LiveStep
    <3>3. p = s
      BY <1>2, <2>1, <3>2 DEF OnceOf
    <3>4. QED
      BY <2>1, <2>3, <3>3 DEF Live, Sends
  <2>4. QED
    BY <2>2, <2>3 DEF OnceOf
<1>6. CASE nudged'[<<a, st>>] = nudged[<<a, st>>]
  <2>1. ASSUME NEW p \in Pollers, Live(p, a, st)', ~Live(p, a, st)
        PROVE  /\ ~Decided(a, st) /\ Decided(a, st)' /\ Decide(p)
    <3>1. /\ Decide(p) /\ Plan(work[p]).do = "send" /\ Plan(work[p]).step = st
          /\ work[p].silence = a /\ seen = a /\ Current(p)[st] = "none"
      BY <2>1, LiveStep
    <3>2. row'.anchor = a /\ row'[st] # "none" /\ ~Decided(a, st)
      BY <3>1, ClaimIsFirst
    <3>3. QED
      BY <3>1, <3>2 DEF Decided
  <2>2. ASSUME NEW p \in Pollers, Live(p, a, st)'
        PROVE  nudged'[<<a, st>>] = 0 /\ Decided(a, st)'
    <3>1. CASE Live(p, a, st)
      BY <1>2, <1>3, <1>6, <3>1 DEF OnceOf
    <3>2. CASE ~Live(p, a, st)
      BY <1>2, <1>6, <2>1, <2>2, <3>2 DEF OnceOf
    <3>3. QED
      BY <3>1, <3>2
  <2>3. ASSUME NEW p \in Pollers, NEW q \in Pollers, Live(p, a, st)', Live(q, a, st)'
        PROVE  p = q
    <3>1. CASE Live(p, a, st) /\ Live(q, a, st)
      BY <1>2, <3>1 DEF OnceOf
    <3>2. CASE ~Live(p, a, st)
      <4>1. ~Decided(a, st) /\ Decide(p)
        BY <2>1, <2>3, <3>2
      <4>2. Decide(q)
        BY <1>2, <2>1, <2>3, <4>1 DEF OnceOf
      <4>3. p # q => work'[q] = work[q]
        BY <4>1, TypePoller DEF Poll
      <4>4. work[q].at = "armed" /\ work'[q].at # "armed"
        BY <2>3, <4>2 DEF Decide, Live, Sends
      <4>5. QED
        BY <4>3, <4>4
    <3>3. CASE ~Live(q, a, st)
      <4>1. ~Decided(a, st) /\ Decide(q)
        BY <2>1, <2>3, <3>3
      <4>2. Decide(p)
        BY <1>2, <2>1, <2>3, <4>1 DEF OnceOf
      <4>3. p # q => work'[p] = work[p]
        BY <4>1, TypePoller DEF Poll
      <4>4. work[p].at = "armed" /\ work'[p].at # "armed"
        BY <2>3, <4>2 DEF Decide, Live, Sends
      <4>5. QED
        BY <4>3, <4>4
    <3>4. QED
      BY <3>1, <3>2, <3>3
  <2>4. nudged'[<<a, st>>] # 0 => nudged'[<<a, st>>] = 1 /\ Decided(a, st)'
    BY <1>2, <1>3, <1>6 DEF OnceOf
  <2>5. QED
    BY <2>2, <2>3, <2>4 DEF OnceOf
<1>7. QED
  BY <1>5, <1>6

-----------------------------------------------------------------------------
(* The invariant: who asked us to stop, and what a poll leaves.            *)

\* The row says "stop" and p read it before: then the customer's last message says
\* it too.  Who may send about their silence has no such message and no such row.
StopOf(p) ==
    /\ Reads(p) /\ work[p].silence = seen /\ row.optedOut /\ ~work[p].row.optedOut
       => tone = "stop"
    /\ Sends(p) /\ work[p].silence = seen => tone # "stop" /\ ~row.optedOut

Stops == \A p \in Pollers : StopOf(p)

\* The row comes to say "stop" when an instance reads it in the last message.
LEMMA OptedStep ==
    ASSUME TypeOK, Rows, NEW p \in Pollers, Poll(p) \/ Restart(p), row'.optedOut
    PROVE  row.optedOut \/ (Decide(p) /\ Plan(work[p]).do = "hush" /\ tone = "stop")
<1>1. CASE Decide(p)
  <2>1. \/ Current(p).optedOut
        \/ Plan(work[p]).do = "hush" /\ AsksToStop(work[p])
    BY <1>1, DecidedRow
  <2>2. Current(p).optedOut => row.optedOut
    BY DEF Rows, RowOf, Current
  <2>3. QED
    BY <1>1, <2>1, <2>2 DEF AsksToStop
<1>2. CASE Settle(p)
  <2>1. work[p].step \in Steps
    BY <1>2, WorkFields DEF Settle, TypeOK
  <2>2. QED
    BY <1>2, <2>1 DEF Settle, TypeOK, Row, Steps
<1>3. CASE ~Decide(p) /\ ~Settle(p)
  BY <1>3 DEF Poll, Restart, Look, Read, Insert, Rearm, Look2, SendNudge
<1>4. QED
  BY <1>1, <1>2, <1>3

\* An instance that has come to have a row in hand knows what it says of "stop".
LEMMA ReadsStep ==
    ASSUME TypeOK, Rows, NEW p \in Pollers, Poll(p) \/ Restart(p), Reads(p)'
    PROVE  row' = row /\ (work'[p].row.optedOut <=> row.optedOut)
<1>1. Txn(p)' /\ work'[p].at # "looked"
  BY DEF Txn, Reads, InTransaction
<1>2. Read(p) \/ Insert(p) \/ Rearm(p)
  BY <1>1, TxnStep
<1>3. row' = row /\ (Txn(p) => work[p].silence \in Silences) /\ row \in Row
  BY <1>2, ReadsRow DEF Read, Insert, Rearm
<1>4. CASE Read(p)
  BY <1>3, <1>4 DEF Read, TypeOK, With
<1>5. CASE Insert(p)
  <2>1. CASE row.anchor = 0
    <3>1. work'[p].row = Blank(work[p].silence)
      BY <1>5, <2>1 DEF Insert, TypeOK, With
    <3>2. row = Blank(0)
      BY <2>1 DEF Rows
    <3>3. QED
      BY <1>3, <3>1, <3>2 DEF Blank
  <2>2. CASE row.anchor # 0
    BY <1>3, <1>5, <2>2 DEF Insert, TypeOK, With
  <2>3. QED
    BY <2>1, <2>2
<1>6. CASE Rearm(p)
  <2>1. CASE row.anchor = work[p].row.anchor
    <3>1. work'[p].row = Rearmed(row, work[p].silence)
      BY <1>6, <2>1 DEF Rearm, TypeOK, With
    <3>2. Txn(p)
      BY <1>6 DEF Rearm, Txn, InTransaction
    <3>3. work'[p].row.optedOut = row.optedOut
      BY <1>3, <3>1, <3>2, RearmedRow
    <3>4. QED
      BY <1>3, <3>3
  <2>2. CASE row.anchor # work[p].row.anchor /\ row.anchor < work[p].silence
    BY <1>6, <2>2, IdleIsWork DEF Rearm, TypeOK, Reads
  <2>3. CASE row.anchor # work[p].row.anchor /\ ~(row.anchor < work[p].silence)
    BY <1>3, <1>6, <2>3 DEF Rearm, TypeOK, With
  <2>4. QED
    BY <2>1, <2>2, <2>3
<1>7. QED
  BY <1>2, <1>4, <1>5, <1>6

\* Stops is kept by every step.
LEMMA StopsStep ==
    ASSUME TypeOK, TypeOK', Rows, Stops, [Next]_vars
    PROVE  Stops'
<1>1. seen \in Nat /\ \A p \in Pollers : work[p] # Idle => work[p].silence <= seen
                                                        /\ work[p].silence \in Nat
  <2>1. \A p \in Pollers : work[p] \in Work
    BY DEF TypeOK
  <2>2. \A p \in Pollers : work[p] # Idle => work[p].silence \in Silences
    BY <2>1, WorkFields
  <2>3. QED
    BY <2>2, NudgeAssumption DEF TypeOK, Silences
<1>2. \A p \in Pollers : Reads(p) \/ Sends(p) => work[p] # Idle
  BY IdleIsWork DEF Reads, Sends
<1>3. ASSUME UNCHANGED <<row, work>>,
             \/ seen' = seen + 1
             \/ seen' = seen /\ (tone' = "stop" <=> tone = "stop")
      PROVE  Stops'
  <2>1. ASSUME NEW p \in Pollers
        PROVE  StopOf(p)'
    <3>1. StopOf(p)
      BY DEF Stops
    <3>2. QED
      BY <1>1, <1>2, <1>3, <3>1 DEF StopOf, Reads, Sends
  <2>2. QED
    BY <2>1 DEF Stops
<1>4. ASSUME NEW p \in Pollers, Poll(p) \/ Restart(p)
      PROVE  Stops'
  <2>1. seen' = seen /\ tone' = tone
    BY <1>4, PollFrame DEF talkVars
  <2>2. row'.optedOut => row.optedOut \/ tone = "stop"
    BY <1>4, OptedStep
  <2>3. ASSUME NEW q \in Pollers, q # p
        PROVE  StopOf(q)'
    <3>1. work'[q] = work[q] /\ StopOf(q)
      BY <1>4, <2>3, TypePoller DEF Stops
    <3>2. QED
      BY <2>1, <2>2, <3>1 DEF StopOf, Reads, Sends
  <2>4. Reads(p)' => row' = row /\ (work'[p].row.optedOut <=> row.optedOut)
    BY <1>4, ReadsStep
  <2>5. ASSUME Sends(p)', work'[p].silence = seen
        PROVE  tone # "stop" /\ ~row'.optedOut
    <3>1. PICK st : st = work'[p].step
      OBVIOUS
    <3>2. PICK a : a = seen
      OBVIOUS
    <3>3. a \in Silences /\ st \in Steps
      <4>1. work'[p] \in Work /\ work'[p] # Idle
        BY <2>5, IdleIsWork DEF TypeOK, Sends
      <4>2. QED
        BY <2>5, <3>1, <3>2, <4>1, WorkFields DEF Sends
    <3>4. Live(p, a, st)'
      BY <2>1, <2>5, <3>1, <3>2 DEF Live
    <3>5. CASE Live(p, a, st)
      <4>1. tone # "stop" /\ ~row.optedOut
        BY <3>5, <3>2 DEF Stops, StopOf, Live
      <4>2. QED
        BY <2>2, <4>1
    <3>6. CASE ~Live(p, a, st)
      <4>1. /\ Decide(p) /\ Plan(work[p]).do = "send" /\ work[p].silence = seen
        BY <3>3, <3>4, <3>6, <3>2, LiveStep
      <4>2. ~HardSkip(work[p])
        BY <4>1, PlanType
      <4>3. ~work[p].row.optedOut /\ tone = "open"
        BY <4>2 DEF HardSkip
      <4>4. ~row.optedOut
        <5>1. Reads(p)
          BY <4>1 DEF Decide, Reads
        <5>2. QED
          BY <4>1, <4>3, <5>1 DEF Stops, StopOf
      <4>5. QED
        BY <2>2, <4>3, <4>4
    <3>7. QED
      BY <3>5, <3>6
  <2>6. StopOf(p)'
    BY <2>1, <2>4, <2>5 DEF StopOf
  <2>7. QED
    BY <2>3, <2>6 DEF Stops
<1>5. CASE UNCHANGED vars
  BY <1>3, <1>5 DEF vars
<1>6. CASE CustomerWrites \/ BotAnswers \/ OthersSpeak \/ StaffClick \/ Tick
  BY <1>3, <1>6 DEF CustomerWrites, BotAnswers, OthersSpeak, StaffClick, Tick, Over, talkVars
<1>7. QED
  BY <1>4, <1>5, <1>6 DEF Next

\* An instance that has polled since the customer's last message, the bot's last turn
\* and the last tick polls about this silence, or has left it decided.
PollOf(p) ==
    /\ seen > 0
    /\ Txn(p) => work[p].silence = seen /\ work[p].age = age
    /\ lastBy = "bot" /\ age >= First => Decided(seen, "first") \/ Txn(p)

Polls == \A p \in polled : PollOf(p)

\* Deciding decides the first step of a silence that is due.
LEMMA DueIsDecided ==
    ASSUME TypeOK, TypeOK', Rows, Times, NEW p \in Pollers, Decide(p), PollOf(p),
           lastBy = "bot", age >= First
    PROVE  row'.anchor = seen /\ row'.first # "none"
<1>1. /\ work[p].at = "armed" /\ Txn(p) /\ Reads(p)
      /\ work[p].silence = seen /\ work[p].age = age
  BY DEF Decide, Txn, Reads, InTransaction, PollOf
<1>2. /\ work[p].row \in Row /\ row \in Row /\ row.anchor \in Nat /\ seen \in Nat
      /\ age \in Nat /\ work[p].row.anchor \in Nat /\ row.anchor <= seen
  BY <1>1, ReadsRow, StepFields DEF Rows
<1>3. row'.first = row'["first"] /\ row.first = row["first"]
  BY <1>2, StepFields DEF TypeOK
<1>4. CASE work[p].row.first = "none"
  <2>1. Plan(work[p]).do # "none" /\ Plan(work[p]).step = "first"
    BY <1>1, <1>2, <1>4, NudgeAssumption, PlanType
  <2>2. "first" \in Steps
    BY DEF Steps
  <2>3. QED
    BY <1>1, <1>3, <2>1, <2>2, ClaimIsFirst
<1>5. CASE work[p].row.first # "none"
  <2>1. holder # p /\ Older(work[p].row, row)
    BY <1>1, <1>5 DEF Rows, RowOf
  <2>2. ~(work[p].row.anchor < seen)
    BY <1>1, <1>2, NudgeAssumption DEF Times, TimesOf
  <2>3. work[p].row.anchor = row.anchor /\ row.anchor = seen
    BY <1>2, <2>1, <2>2 DEF Older
  <2>4. row.first # "none"
    <3>1. "first" \in Steps /\ work[p].row.first = work[p].row["first"]
      BY <1>2, StepFields DEF Steps
    <3>2. QED
      BY <1>3, <1>5, <2>1, <2>3, <3>1 DEF Older
  <2>5. Current(p) = row /\ "first" \in Steps
    BY <2>1 DEF Current, Steps
  <2>6. row'.anchor = row.anchor /\ row'["first"] # "none"
    BY <1>3, <2>4, <2>5, DecidedRow
  <2>7. QED
    BY <1>3, <2>3, <2>6
<1>6. QED
  BY <1>4, <1>5

\* Polls is kept by every step.
LEMMA PollsStep ==
    ASSUME TypeOK, TypeOK', Rows, Times, Polls, [Next]_vars
    PROVE  Polls'
<1>1. polled \subseteq Pollers /\ seen \in Nat /\ age \in Nat /\ MaxMessages \in Nat
  BY NudgeAssumption DEF TypeOK
<1>2. CASE polled' = {}
  BY <1>2 DEF Polls
<1>3. CASE UNCHANGED <<row, work, seen, age, polled>> /\ lastBy' \in {lastBy, "other"}
  <2>1. ASSUME NEW p \in polled'
        PROVE  PollOf(p)'
    <3>1. PollOf(p)
      BY <1>3 DEF Polls
    <3>2. QED
      BY <1>3, <3>1 DEF PollOf, Txn, Decided
  <2>2. QED
    BY <2>1 DEF Polls
<1>4. ASSUME NEW p \in Pollers, Poll(p) \/ Restart(p)
      PROVE  Polls'
  <2>1. seen' = seen /\ age' = age /\ lastBy' = lastBy
    BY <1>4, PollFrame DEF talkVars
  <2>2. Decided(seen, "first") /\ seen > 0 => Decided(seen, "first")'
    <3>1. PICK a : a = seen
      OBVIOUS
    <3>2. "first" \in Steps /\ (seen > 0 => a \in Silences)
      BY <1>1, <3>1 DEF Steps, Silences, TypeOK
    <3>3. Decided(a, "first") /\ a \in Silences => Decided(a, "first")'
      BY <1>4, <3>2, DecidedStays DEF Next
    <3>4. QED
      BY <2>1, <3>1, <3>2, <3>3 DEF Decided
  <2>3. ASSUME NEW q \in polled', q # p
        PROVE  PollOf(q)'
    <3>1. q \in polled
      BY <1>4, <2>3 DEF Poll, Restart, Look, Read, Insert, Rearm, Decide, Look2, SendNudge,
         Settle, timeVars
    <3>2. PollOf(q) /\ work'[q] = work[q]
      BY <1>1, <1>4, <2>3, <3>1, TypePoller DEF Polls
    <3>3. QED
      BY <2>1, <2>2, <3>2 DEF PollOf, Txn
  <2>4. ASSUME p \in polled'
        PROVE  PollOf(p)'
    <3>1. CASE Look(p)
      <4>1. work'[p].at = "looked" /\ work'[p].silence = seen /\ work'[p].age = age /\ seen > 0
        BY <3>1 DEF Look, TypeOK
      <4>2. QED
        BY <2>1, <4>1 DEF PollOf, Txn, InTransaction
    <3>2. CASE ~Look(p)
      <4>1. ~Restart(p) /\ polled' = polled
        <5>1. Restart(p) => p \notin polled'
          BY DEF Restart
        <5>2. QED
          BY <1>4, <2>4, <3>2, <5>1 DEF Poll, Read, Insert, Rearm, Decide, Look2, SendNudge,
             Settle, timeVars
      <4>2. PollOf(p)
        BY <2>4, <4>1 DEF Polls
      <4>3. Txn(p)' => Txn(p) /\ work'[p].silence = work[p].silence /\ work'[p].age = work[p].age
        BY <1>4, <3>2, TxnStep
      <4>4. ASSUME lastBy = "bot", age >= First, ~Txn(p)'
            PROVE  Decided(seen, "first")'
        <5>1. CASE ~Txn(p)
          BY <2>2, <4>2, <4>4, <5>1 DEF PollOf
        <5>2. CASE Txn(p)
          <6>1. Read(p) \/ Insert(p) \/ Rearm(p) \/ Decide(p)
            BY <1>4, <3>2, <4>1, <5>2 DEF Poll, Look2, SendNudge, Settle, Txn, InTransaction
          <6>2. CASE Read(p) \/ Insert(p)
            <7>1. work'[p].at \in {"insert", "rearm", "armed"}
              BY <6>2 DEF Read, Insert, TypeOK, With
            <7>2. QED
              BY <4>4, <7>1 DEF Txn, InTransaction
          <6>3. CASE Rearm(p)
            <7>1. row.anchor # work[p].row.anchor /\ row.anchor < work[p].silence
              <8>1. ASSUME NEW r, work' = [work EXCEPT ![p] = With(p, "armed", r)]
                    PROVE  FALSE
                <9>1. work'[p].at = "armed"
                  BY <8>1 DEF TypeOK, With
                <9>2. QED
                  BY <4>4, <9>1 DEF Txn, InTransaction
              <8>2. QED
                BY <6>3, <8>1 DEF Rearm
            <7>2. work[p].age = 0
              BY <6>3, <7>1 DEF Rearm, Times, TimesOf
            <7>3. QED
              BY <4>2, <4>4, <5>2, <7>2, NudgeAssumption DEF PollOf
          <6>4. CASE Decide(p)
            <7>1. row'.anchor = seen /\ row'.first # "none"
              BY <4>2, <4>4, <6>4, DueIsDecided
            <7>2. row'.first = row'["first"]
              BY StepFields DEF TypeOK
            <7>3. QED
              BY <2>1, <7>1, <7>2 DEF Decided
          <6>5. QED
            BY <6>1, <6>2, <6>3, <6>4
        <5>3. QED
          BY <5>1, <5>2
      <4>5. QED
        BY <2>1, <4>2, <4>3, <4>4 DEF PollOf
    <3>3. QED
      BY <3>1, <3>2
  <2>5. QED
    BY <2>3, <2>4 DEF Polls
<1>5. CASE UNCHANGED vars
  BY <1>3, <1>5 DEF vars
<1>6. CASE CustomerWrites \/ BotAnswers \/ Tick
  BY <1>2, <1>6 DEF CustomerWrites, BotAnswers, Tick
<1>7. CASE OthersSpeak \/ StaffClick
  BY <1>3, <1>7 DEF OthersSpeak, StaffClick, timeVars
<1>8. QED
  BY <1>4, <1>5, <1>6, <1>7 DEF Next

-----------------------------------------------------------------------------
(* The theorems.                                                           *)

IInv == TypeOK /\ Rows /\ Times /\ Once /\ Stops /\ Polls

\* In the first state.
LEMMA InitIInv == Init => IInv
<1> SUFFICES ASSUME Init
             PROVE  IInv
  OBVIOUS
<1>1. \A p \in Pollers : work[p] = Idle
  BY DEF Init
<1>2. \A p \in Pollers : holder # p /\ ~Txn(p) /\ ~Reads(p) /\ ~Sends(p) /\ work[p].at = "idle"
  BY <1>1, IdleIsWork, NudgeAssumption DEF Init, Txn, Reads, Sends, InTransaction
<1>3. TypeOK
  <2>1. Blank(0) \in Row
    BY NudgeAssumption, BlankRow
  <2>2. work \in [Pollers -> Work]
    BY IdleIsWork DEF Init
  <2>3. row \in Row /\ nudged \in [Silences \X Steps -> Nat]
    BY <2>1 DEF Init
  <2>4. seen \in 0..MaxMessages /\ age \in 0..Window /\ restarts \in Nat
    BY NudgeAssumption DEF Init
  <2>5. /\ lastBy \in {"customer", "bot", "other"} /\ tone \in {"open", "over", "stop"}
        /\ polled \subseteq Pollers /\ holder = NoPoller
    BY DEF Init
  <2>6. quiet \in BOOLEAN /\ cart \in BOOLEAN /\ paused \in BOOLEAN
    BY DEF Init
  <2>7. QED
    BY <1>1, <2>2, <2>3, <2>4, <2>5, <2>6 DEF TypeOK
<1>4. Rows
  <2>1. \A p \in Pollers : RowOf(p)
    BY <1>2 DEF RowOf
  <2>2. row = Blank(0) /\ row.anchor <= seen
    BY DEF Init, Blank
  <2>3. QED
    BY <2>1, <2>2 DEF Rows
<1>5. Times
  BY <1>2 DEF Times, TimesOf, Younger
<1>6. Once
  BY <1>2 DEF Once, OnceOf, Live, Init
<1>7. Stops /\ Polls
  BY <1>2 DEF Stops, StopOf, Polls, Init
<1>8. QED
  BY <1>3, <1>4, <1>5, <1>6, <1>7 DEF IInv

\* Every step keeps it.
LEMMA StepIInv == IInv /\ [Next]_vars => IInv'
<1> SUFFICES ASSUME IInv, [Next]_vars
             PROVE  IInv'
  OBVIOUS
<1>1. TypeOK /\ Rows /\ Times /\ Once /\ Stops /\ Polls
  BY DEF IInv
<1>2. TypeOK' /\ Rows'
  BY <1>1, RowsStep
<1>3. Times'
  BY <1>1, <1>2, TimesStep
<1>4. Once'
  BY <1>1, <1>2, OnceStep
<1>5. Stops'
  BY <1>1, <1>2, StopsStep
<1>6. Polls'
  BY <1>1, <1>2, PollsStep
<1>7. QED
  BY <1>2, <1>3, <1>4, <1>5, <1>6 DEF IInv

\* The inductive invariant holds in every behaviour.
THEOREM Invariant == Spec => []IInv
<1>1. QED
  BY InitIInv, StepIInv, PTL DEF Spec

\* Every variable has its type, and an uncommitted write is held by who made it.
THEOREM TypeCorrect == Spec => []TypeOK
<1>1. IInv => TypeOK
  BY DEF IInv
<1>2. QED
  BY <1>1, Invariant, PTL

\* However the instances that poll a silent customer interleave, end and start again, no
\* step of a silence is sent twice.
THEOREM NudgedOnce == Spec => []NudgedOncePerStep
<1>1. IInv => NudgedOncePerStep
  <2>1. ASSUME Once, NEW a \in Silences, NEW st \in Steps
        PROVE  nudged[<<a, st>>] <= 1
    <3>1. OnceOf(a, st)
      BY <2>1 DEF Once
    <3>2. nudged[<<a, st>>] = 0 \/ nudged[<<a, st>>] = 1
      BY <3>1 DEF OnceOf
    <3>3. QED
      BY <3>2
  <2>2. QED
    BY <2>1 DEF IInv, NudgedOncePerStep
<1>2. QED
  BY <1>1, Invariant, PTL

\* "Stop" is never unwritten, and no nudge follows it in the silence it is written about.
THEOREM StopStays == Spec => StopIsForGood
<1>1. ASSUME IInv, [Next]_vars, row.optedOut
      PROVE  /\ row'.optedOut
             /\ \A step \in Steps : seen > 0 => nudged'[<<seen, step>>] = nudged[<<seen, step>>]
  <2>1. TypeOK /\ Rows /\ Stops /\ TypeOK'
    BY <1>1, StepIInv DEF IInv
  <2>2. row'.optedOut
    BY <1>1, <2>1, RowsGrow DEF Older
  <2>3. ASSUME NEW st \in Steps, seen > 0, nudged'[<<seen, st>>] # nudged[<<seen, st>>]
        PROVE  FALSE
    <3>1. PICK a : a = seen
      OBVIOUS
    <3>2. a \in Silences
      BY <2>1, <2>3, <3>1, NudgeAssumption DEF TypeOK, Silences
    <3>3. PICK p \in Pollers : Live(p, a, st)
      BY <1>1, <2>1, <2>3, <3>1, <3>2, NudgedStep
    <3>4. QED
      BY <1>1, <2>1, <3>1, <3>3 DEF Stops, StopOf, Live
  <2>4. QED
    BY <2>2, <2>3
<1>2. IInv /\ [Next]_vars =>
        [row.optedOut =>
          /\ row'.optedOut
          /\ \A step \in Steps : seen > 0 => nudged'[<<seen, step>>] = nudged[<<seen, step>>]]_vars
  BY <1>1
<1>3. QED
  BY <1>2, Invariant, PTL DEF Spec, StopIsForGood

\* Time never goes past a silence that is due with its first step undecided.
THEOREM DueSilencesDecided == Spec => SilenceIsDecided
<1>1. ASSUME IInv, [Next]_vars, age' > age, lastBy = "bot", age >= First
      PROVE  row.anchor = seen /\ row.first # "none"
  <2>1. TypeOK /\ Rows /\ Polls /\ age \in Nat
    BY <1>1, ReadsRow, NudgeAssumption DEF IInv, TypeOK
  <2>2. Tick
    <3>1. ASSUME NEW p \in Pollers, Poll(p) \/ Restart(p)
          PROVE  FALSE
      BY <1>1, <2>1, <3>1, PollFrame
    <3>2. ~CustomerWrites /\ ~BotAnswers /\ ~OthersSpeak /\ ~StaffClick /\ ~UNCHANGED vars
      BY <1>1, <2>1 DEF CustomerWrites, BotAnswers, OthersSpeak, StaffClick, vars, timeVars
    <3>3. QED
      BY <1>1, <3>1, <3>2 DEF Next
  <2>3. PICK p \in polled : work[p].at \notin InTransaction
    BY <2>1, <2>2 DEF Tick, TypeOK
  <2>4. Decided(seen, "first")
    BY <1>1, <2>1, <2>3 DEF Polls, PollOf, Txn
  <2>5. row.anchor \in Nat /\ seen \in Nat /\ row.first = row["first"] /\ row.anchor <= seen
    BY <2>1, StepFields, NudgeAssumption DEF TypeOK, Rows
  <2>6. QED
    BY <2>4, <2>5 DEF Decided
<1>2. IInv /\ [Next]_vars =>
        [age' > age /\ lastBy = "bot" /\ age >= First => row.anchor = seen /\ row.first # "none"]_vars
  BY <1>1
<1>3. QED
  BY <1>2, Invariant, PTL DEF Spec, SilenceIsDecided
=============================================================================
