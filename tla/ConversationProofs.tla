-------------------------- MODULE ConversationProofs --------------------------
(***************************************************************************)
(* Proofs about what passes between a customer and the shop.               *)
(*                                                                         *)
(* Who answers (Conversation), for any messages, staff, deliveries, clicks *)
(* and restarts, and every set of faults.                                  *)
(*                                                                         *)
(* What becomes of an answer (ReplyDelivery), for any pictures, turns,     *)
(* messages of the shop's, reports and mishaps: what is noted of a line    *)
(* afterwards is what Meta took, refused and reported of it.               *)
(***************************************************************************)
EXTENDS Conversation, ReplyDelivery, SequenceTheorems, FiniteSetTheorems, WellFoundedInduction, TLAPS

-----------------------------------------------------------------------------
(* The handoffs.                                                           *)

\* Only a running turn, request or click is anywhere.
LEMMA InProgress ==
    ASSUME TypeOK
    PROVE  /\ turn # Idle <=> turn.at # "idle"
           /\ turn # Idle => turn \in Turn
           /\ \A m \in Messages : intake[m] # Out <=> intake[m].at # "out"
           /\ \A s \in Staff : desk[s] # Idle <=> desk[s].at # "idle"
           /\ \A s \in Staff : desk[s] # Idle => desk[s] \in Request
<1>1. turn # Idle <=> turn.at # "idle"
  BY DEF TypeOK, Turn, Idle
<1>2. turn # Idle => turn \in Turn
  BY DEF TypeOK
<1>3. \A m \in Messages : intake[m] # Out <=> intake[m].at # "out"
  BY DEF TypeOK, Intake, Out
<1>4. \A s \in Staff : desk[s] # Idle <=> desk[s].at # "idle"
  <2>1. \A s \in Staff : desk[s] \in Request \cup {Idle}
    BY DEF TypeOK
  <2>2. \A r \in Request \cup {Idle} : r # Idle <=> r.at # "idle"
    BY DEF Request, Idle
  <2>3. QED
    BY <2>1, <2>2
<1>5. \A s \in Staff : desk[s] # Idle => desk[s] \in Request
  BY DEF TypeOK
<1>6. QED
  BY <1>1, <1>2, <1>3, <1>4, <1>5

\* Handoffs are changed one by one.
LEMMA HandoffsChanged ==
    ASSUME handoffs \in Seq(Handoff), NEW f \in [DOMAIN handoffs -> Handoff]
    PROVE  f \in Seq(Handoff) /\ Len(f) = Len(handoffs) /\ DOMAIN f = DOMAIN handoffs
<1>1. Len(handoffs) \in Nat /\ DOMAIN handoffs = 1..Len(handoffs)
  BY LenProperties
<1>2. f \in [1..Len(handoffs) -> Handoff]
  BY <1>1
<1>3. f \in Seq(Handoff)
  BY <1>1, <1>2, SeqDef
<1>4. DOMAIN f = 1..Len(handoffs) /\ DOMAIN f = 1..Len(f) /\ Len(f) \in Nat
  BY <1>2, <1>3, LenProperties
<1>5. Len(f) = Len(handoffs)
  BY <1>1, <1>4
<1>6. QED
  BY <1>1, <1>3, <1>4, <1>5

\* A raised handoff is the newest.
LEMMA Raising ==
    ASSUME NEW h \in Seq(Handoff), NEW stamp \in BOOLEAN
    PROVE  /\ Append(h, Raised(stamp)) \in Seq(Handoff)
           /\ Len(Append(h, Raised(stamp))) = Len(h) + 1
           /\ Len(h) \in Nat
           /\ DOMAIN h = 1..Len(h)
           /\ DOMAIN Append(h, Raised(stamp)) = DOMAIN h \cup {Len(h) + 1}
           /\ \A i \in DOMAIN h : Append(h, Raised(stamp))[i] = h[i]
           /\ Append(h, Raised(stamp))[Len(h) + 1] = Raised(stamp)
<1>1. Raised(stamp) \in Handoff
  BY DEF Raised, Handoff
<1>2. /\ Append(h, Raised(stamp)) \in Seq(Handoff)
      /\ Len(Append(h, Raised(stamp))) = Len(h) + 1
      /\ \A i \in 1..Len(h) : Append(h, Raised(stamp))[i] = h[i]
      /\ Append(h, Raised(stamp))[Len(h) + 1] = Raised(stamp)
  BY <1>1, AppendProperties
<1>3. Len(h) \in Nat /\ DOMAIN h = 1..Len(h)
  BY LenProperties
<1>4. DOMAIN Append(h, Raised(stamp)) = 1..(Len(h) + 1)
  BY <1>2, LenProperties
<1>5. QED
  BY <1>2, <1>3, <1>4

\* What a turn that commits leaves of the handoffs.
LEMMA TakingBack ==
    ASSUME TypeOK, turn \in Turn
    PROVE  /\ TakenBack \in Seq(Handoff)
           /\ Len(TakenBack) = Len(handoffs)
           /\ DOMAIN TakenBack = DOMAIN handoffs
           /\ \A i \in DOMAIN handoffs :
                /\ TakenBack[i].open = handoffs[i].open
                /\ turn.resumed /\ i = turn.item =>
                      TakenBack[i].resumed = TRUE /\ TakenBack[i].stamp = FALSE
                /\ ~turn.resumed \/ i # turn.item => TakenBack[i] = handoffs[i]
<1>1. handoffs \in [DOMAIN handoffs -> Handoff] /\ handoffs \in Seq(Handoff)
  BY LenProperties DEF TypeOK
<1>2. CASE ~turn.resumed
  BY <1>1, <1>2, HandoffsChanged DEF TakenBack
<1>3. CASE turn.resumed
  <2>1. PICK k : k = turn.item
    OBVIOUS
  <2>2. TakenBack = [handoffs EXCEPT ![k] = [handoffs[k] EXCEPT !.stamp = FALSE, !.resumed = TRUE]]
    BY <1>1, <1>3, <2>1 DEF TakenBack
  <2>3. k \in DOMAIN handoffs => [handoffs[k] EXCEPT !.stamp = FALSE, !.resumed = TRUE] \in Handoff
    BY <1>1 DEF Handoff
  <2>4. TakenBack \in [DOMAIN handoffs -> Handoff]
    BY <1>1, <2>2, <2>3
  <2>5. \A i \in DOMAIN handoffs : handoffs[i] \in Handoff
    BY <1>1
  <2>6. \A i \in DOMAIN handoffs :
           TakenBack[i] = IF i = k THEN [handoffs[i] EXCEPT !.stamp = FALSE, !.resumed = TRUE]
                          ELSE handoffs[i]
    BY <1>1, <2>2
  <2>7. \A i \in DOMAIN handoffs :
                /\ TakenBack[i].open = handoffs[i].open
                /\ i = turn.item => TakenBack[i].resumed = TRUE /\ TakenBack[i].stamp = FALSE
                /\ i # turn.item => TakenBack[i] = handoffs[i]
    BY <2>1, <2>5, <2>6 DEF Handoff
  <2>8. QED
    BY <1>1, <1>3, <2>4, <2>7, HandoffsChanged
<1>4. QED
  BY <1>2, <1>3 DEF Turn

\* Any set of natural numbers has a smallest one.
LEMMA SmallestOf ==
    ASSUME NEW S \in SUBSET Nat, S # {}
    PROVE  \E x \in S : \A y \in S : x <= y
<1>1. PICK R : R = OpToRel(<, Nat)
  OBVIOUS
<1>2. IsWellFoundedOn(R, Nat)
  BY <1>1, NatLessThanWellFounded
<1>3. PICK x \in S : \A y \in S : ~ (<<y, x>> \in R)
  BY <1>2, WFMin
<1>4. \A y \in S : ~ (y < x)
  BY <1>1, <1>3 DEF OpToRel
<1>5. QED
  BY <1>3, <1>4

\* The oldest open handoff is one of them.
LEMMA OpenIsThere ==
    ASSUME TypeOK
    PROVE  OpenHandoff \in 0..Len(handoffs) /\ (OpenHandoff # 0 => OpenHandoff \in DOMAIN handoffs)
<1> DEFINE open == {i \in DOMAIN handoffs : handoffs[i].open}
<1>1. Len(handoffs) \in Nat /\ DOMAIN handoffs = 1..Len(handoffs)
  BY LenProperties DEF TypeOK
<1>2. CASE open = {}
  BY <1>1, <1>2 DEF OpenHandoff
<1>3. CASE open # {}
  <2>1. OpenHandoff = Min(open)
    BY <1>3 DEF OpenHandoff
  <2>2. open \in SUBSET Nat
    BY <1>1
  <2>3. PICK x \in open : \A y \in open : x <= y
    BY <1>3, <2>2, SmallestOf
  <2>4. OpenHandoff \in open
    BY <2>1, <2>3 DEF Min
  <2>5. QED
    BY <1>1, <2>4
<1>4. QED
  BY <1>2, <1>3

-----------------------------------------------------------------------------
(* Types.                                                                  *)

\* What a webhook request does keeps the types.
LEMMA RequestTypes ==
    ASSUME TypeOK, NEW m \in Messages,
           Deliver(m) \/ Submit(m) \/ ReadForHandoff(m) \/ RaiseHandoff(m) \/ AcceptFails(m)
    PROVE  TypeOK'
<1>1. /\ [at |-> "claimed"] \in Intake /\ Out \in Intake
      /\ [at |-> "pausing", paused |-> paused] \in Intake
  BY DEF TypeOK, Intake
<1>2. \A x \in Intake : [intake EXCEPT ![m] = x] \in [Messages -> Intake]
  BY DEF TypeOK
<1>3. CASE Deliver(m)
  BY <1>1, <1>2, <1>3 DEF Deliver, TypeOK, askVars, custodyVars, endVars
<1>4. CASE Submit(m)
  BY <1>1, <1>2, <1>4 DEF Submit, TypeOK, claimVars, askVars, custodyVars, endVars
<1>5. CASE ReadForHandoff(m)
  BY <1>1, <1>2, <1>5 DEF ReadForHandoff, TypeOK, claimVars, askVars, custodyVars, endVars
<1>6. CASE RaiseHandoff(m)
  <2>1. PICK h : h = Append(handoffs, Raised(TRUE))
    OBVIOUS
  <2>2. h \in Seq(Handoff) /\ Len(h) = Len(handoffs) + 1 /\ Len(handoffs) \in Nat
    BY <2>1, Raising DEF TypeOK
  <2>3. intake[m] \in Intake /\ intake[m].paused \in BOOLEAN
    BY <1>6 DEF RaiseHandoff, TypeOK, Intake, Out
  <2>4. paused' \in BOOLEAN
    BY <1>6, <2>3 DEF RaiseHandoff, TypeOK
  <2>5. handoffs' = h
    BY <1>6, <2>1 DEF RaiseHandoff
  <2>6. answers' \in [Messages -> Nat] /\ settled' \subseteq Messages
    BY <1>6 DEF RaiseHandoff, TypeOK
  <2>7. /\ turn' # Idle => turn'.item \in 0..Len(handoffs')
        /\ \A s \in Staff : desk'[s] # Idle => desk'[s].item \in 0..Len(handoffs')
    BY <1>6, <2>2, <2>5 DEF RaiseHandoff, TypeOK
  <2>8. QED
    BY <1>1, <1>2, <1>6, <2>2, <2>4, <2>5, <2>6, <2>7
       DEF RaiseHandoff, TypeOK, claimVars, custodyVars
<1>7. CASE AcceptFails(m)
  BY <1>1, <1>2, <1>7 DEF AcceptFails, TypeOK, askVars, custodyVars, endVars
<1>8. QED
  BY <1>3, <1>4, <1>5, <1>6, <1>7

\* So do the steps of a turn that leave the handoffs alone.
LEMMA TurnTypes ==
    ASSUME TypeOK,
           \/ BeginTurn \/ RetryTurn \/ TakeBack
           \/ StoreForStaff \/ Apologise \/ Send \/ Crash \/ SendRaises
    PROVE  TypeOK'
<1>1. Len(handoffs) \in Nat
  BY LenProperties DEF TypeOK
<1>2. turn.at # "idle" => turn \in Turn /\ turn # Idle
  BY InProgress
<1>3. Readings \subseteq {"model", "resuming", "keep"}
  BY DEF Readings
<1>4. CASE BeginTurn
  <2>1. PICK at \in Readings :
           turn' = [at |-> at, ms |-> waiting, attempt |-> 1,
                    resumed |-> FALSE, item |-> Len(handoffs)]
    BY <1>4 DEF BeginTurn
  <2>2. at \in {"model", "resuming", "keep"}
    BY <1>3
  <2>3. waiting \in {S \in SUBSET (Messages \ Unsupported) : S # {}}
    <3>1. waiting # {}
      BY <1>4 DEF BeginTurn
    <3>2. waiting \subseteq Messages \ Unsupported
      BY DEF TypeOK
    <3>3. QED
      BY <3>1, <3>2
  <2>4. turn' \in Turn /\ turn'.item = Len(handoffs)
    BY <1>1, <2>1, <2>2, <2>3 DEF Turn
  <2>5. QED
    BY <1>1, <1>4, <2>4 DEF BeginTurn, TypeOK, claimVars, askVars, custodyVars, endVars
<1>5. CASE RetryTurn
  <2>1. turn \in Turn
    BY <1>2, <1>5 DEF RetryTurn
  <2>2. PICK at \in Readings :
           turn' = [turn EXCEPT !.at = at, !.attempt = 2, !.resumed = FALSE,
                             !.item = Len(handoffs)]
    BY <1>5 DEF RetryTurn
  <2>3. at \in {"model", "resuming", "keep"}
    BY <1>3
  <2>4. turn' \in Turn /\ turn'.item = Len(handoffs)
    <3>1. turn.ms \in {S \in SUBSET (Messages \ Unsupported) : S # {}}
      BY <2>1 DEF Turn
    <3>2. turn' = [at |-> at, ms |-> turn.ms, attempt |-> 2,
                   resumed |-> FALSE, item |-> Len(handoffs)]
      BY <2>1, <2>2 DEF Turn
    <3>3. QED
      BY <1>1, <2>3, <3>1, <3>2 DEF Turn
  <2>5. /\ UNCHANGED <<claims, copies, given, paused, handoffs, custody, releases>>
        /\ UNCHANGED <<intake, waiting, desk, clicks, restarts, answers, settled, cut>>
    BY <1>5 DEF RetryTurn, claimVars, askVars, custodyVars, endVars
  <2>6. QED
    BY <1>1, <2>4, <2>5 DEF TypeOK
<1>6. CASE TakeBack
  <2>1. turn \in Turn /\ turn # Idle
    BY <1>2, <1>6 DEF TakeBack
  <2>2. turn' \in Turn /\ turn'.item = turn.item
    BY <1>6, <2>1 DEF TakeBack, Turn
  <2>3. QED
    BY <1>6, <2>1, <2>2 DEF TakeBack, TypeOK, claimVars, askVars, custodyVars, endVars
<1>7. CASE StoreForStaff \/ Apologise \/ Send \/ SendRaises
  <2>1. turn.at # "idle"
    BY <1>7 DEF StoreForStaff, Apologise, Send, SendRaises
  <2>2. turn.ms \subseteq Messages
    BY <1>2, <2>1 DEF Turn
  <2>3. AnswerAll \in [Messages -> Nat]
    BY DEF AnswerAll, TypeOK
  <2>4. turn' = Idle /\ UNCHANGED <<claimVars, askVars, intake, waiting, desk, clicks, restarts>>
    BY <1>7 DEF StoreForStaff, Apologise, Send, SendRaises
  <2>5. answers' \in [Messages -> Nat] /\ settled' \subseteq Messages /\ cut' \subseteq Messages
    BY <1>7, <2>2, <2>3 DEF StoreForStaff, Apologise, Send, SendRaises, TypeOK
  <2>6. QED
    BY <2>4, <2>5 DEF TypeOK, claimVars, askVars, custodyVars
<1>8. CASE Crash
  <2>1. turn \in Turn /\ turn # Idle
    BY <1>2, <1>8 DEF Crash
  <2>2. turn' \in Turn /\ turn'.item = turn.item
    BY <1>8, <2>1 DEF Crash, Turn
  <2>3. claims' \subseteq Messages /\ given' \in [Messages -> Nat]
    <3>1. claims \subseteq Messages /\ given \in [Messages -> Nat]
      BY DEF TypeOK
    <3>2. CASE turn.attempt = 1
      BY <1>8, <3>1, <3>2 DEF Crash
    <3>3. CASE turn.attempt # 1
      <4>1. /\ claims' = claims \ turn.ms
            /\ given' = [m \in Messages |-> IF m \in turn.ms THEN given[m] + 1 ELSE given[m]]
        BY <1>8, <3>3 DEF Crash
      <4>2. QED
        BY <3>1, <4>1
    <3>4. QED
      BY <3>2, <3>3
  <2>4. QED
    BY <1>8, <2>1, <2>2, <2>3 DEF Crash, TypeOK, askVars, custodyVars, endVars
<1>9. QED
  BY <1>4, <1>5, <1>6, <1>7, <1>8

\* And those that commit.
LEMMA CommitTypes ==
    ASSUME TypeOK, Compose \/ HandOver \/ GiveWay
    PROVE  TypeOK'
<1>1. turn \in Turn /\ turn # Idle
  <2>1. turn.at # "idle"
    BY DEF Compose, HandOver, GiveWay
  <2>2. QED
    BY <2>1, InProgress
<1>2. PICK h : h = TakenBack
  OBVIOUS
<1>3. h \in Seq(Handoff) /\ Len(h) = Len(handoffs) /\ Len(h) \in Nat
  <2>1. h \in Seq(Handoff) /\ Len(h) = Len(handoffs)
    BY <1>1, <1>2, TakingBack
  <2>2. QED
    BY <2>1, LenProperties
<1>4. PausedAfter \in BOOLEAN
  BY <1>1 DEF PausedAfter, TypeOK, Turn
<1>5. [turn EXCEPT !.at = "composed"] \in Turn
      /\ [turn EXCEPT !.at = "composed"].item = turn.item
  BY <1>1 DEF Turn
<1>6. CASE Compose
  BY <1>1, <1>2, <1>3, <1>4, <1>5, <1>6
     DEF Compose, TypeOK, claimVars, custodyVars, endVars
<1>7. CASE HandOver
  <2>1. PICK stamp \in BOOLEAN : handoffs' = Append(h, Raised(stamp))
    BY <1>2, <1>7 DEF HandOver
  <2>2. handoffs' \in Seq(Handoff) /\ Len(handoffs') = Len(handoffs) + 1
    BY <1>3, <2>1, Raising
  <2>3. turn'.item \in 0..Len(handoffs')
    BY <1>1, <1>3, <1>5, <1>7, <2>2 DEF HandOver, TypeOK
  <2>4. \A s \in Staff : desk'[s] # Idle => desk'[s].item \in 0..Len(handoffs')
    BY <1>3, <1>7, <2>2 DEF HandOver, TypeOK
  <2>5. QED
    BY <1>5, <1>7, <2>2, <2>3, <2>4 DEF HandOver, TypeOK, claimVars, custodyVars, endVars
<1>8. CASE GiveWay
  <2>1. waiting' \subseteq Messages \ Unsupported
    BY <1>1, <1>8 DEF GiveWay, TypeOK, Turn
  <2>2. QED
    BY <1>2, <1>3, <1>4, <1>8, <2>1 DEF GiveWay, TypeOK, claimVars, custodyVars, endVars
<1>9. QED
  BY <1>6, <1>7, <1>8

\* The handoffs taken back can be counted.
LEMMA CountResumed ==
    ASSUME TypeOK
    PROVE  /\ IsFiniteSet(Resumed)
           /\ Cardinality(Resumed) \in Nat
           /\ Returns \in Nat
<1>1. Len(handoffs) \in Nat /\ DOMAIN handoffs = 1..Len(handoffs)
  BY LenProperties DEF TypeOK
<1>2. IsFiniteSet(1..Len(handoffs))
  BY <1>1, FS_Interval
<1>3. Resumed \in SUBSET (1..Len(handoffs))
  BY <1>1 DEF Resumed
<1>4. IsFiniteSet(Resumed)
  BY <1>2, <1>3, FS_Subset
<1>5. QED
  BY <1>4, FS_CardinalityType DEF Returns, TypeOK

\* What the dashboard's requests leave of the handoffs.
LEMMA DeskHandoffs ==
    ASSUME TypeOK, NEW s \in Staff, Takeover(s) \/ Reply(s) \/ Release(s)
    PROVE  /\ handoffs' \in Seq(Handoff)
           /\ Len(handoffs') = Len(handoffs)
           /\ DOMAIN handoffs' = DOMAIN handoffs
           /\ \A i \in DOMAIN handoffs :
                /\ handoffs'[i].resumed = handoffs[i].resumed
                /\ handoffs'[i].stamp => handoffs[i].stamp
<1>1. handoffs \in Seq(Handoff) /\ handoffs \in [DOMAIN handoffs -> Handoff]
  BY LenProperties DEF TypeOK
<1>2. \A i \in DOMAIN handoffs : handoffs[i] \in Handoff
  BY <1>1
<1>3. CASE Takeover(s)
  <2>1. PICK k : k = OpenHandoff
    OBVIOUS
  <2>2. CASE k = 0
    BY <1>1, <1>3, <2>1, <2>2, HandoffsChanged DEF Takeover
  <2>3. CASE k # 0
    <3>1. k \in DOMAIN handoffs
      BY <2>1, <2>3, OpenIsThere
    <3>2. [handoffs[k] EXCEPT !.stamp = FALSE] \in Handoff
      BY <1>2, <3>1 DEF Handoff
    <3>3. handoffs' = [handoffs EXCEPT ![k] = [handoffs[k] EXCEPT !.stamp = FALSE]]
      BY <1>1, <1>3, <2>1, <2>3 DEF Takeover
    <3>4. handoffs' \in [DOMAIN handoffs -> Handoff]
      BY <1>1, <3>2, <3>3
    <3>5. \A i \in DOMAIN handoffs :
              handoffs'[i] = IF i = k THEN [handoffs[i] EXCEPT !.stamp = FALSE] ELSE handoffs[i]
      BY <1>1, <3>3
    <3>6. \A i \in DOMAIN handoffs :
                /\ handoffs'[i].resumed = handoffs[i].resumed
                /\ handoffs'[i].stamp => handoffs[i].stamp
      BY <1>2, <3>5 DEF Handoff
    <3>7. QED
      BY <1>1, <3>4, <3>6, HandoffsChanged
  <2>4. QED
    BY <2>2, <2>3
<1>4. CASE Reply(s)
  <2>1. PICK k : k = desk[s].item
    OBVIOUS
  <2>2. handoffs' = [i \in DOMAIN handoffs |->
                       [handoffs[i] EXCEPT !.heard = TRUE, !.open = @ /\ i # k]]
    BY <1>4, <2>1 DEF Reply
  <2>3. \A i \in DOMAIN handoffs :
            /\ handoffs'[i] \in Handoff
            /\ handoffs'[i].resumed = handoffs[i].resumed
            /\ handoffs'[i].stamp = handoffs[i].stamp
    BY <1>2, <2>2 DEF Handoff
  <2>4. handoffs' \in [DOMAIN handoffs -> Handoff]
    BY <2>2, <2>3
  <2>5. QED
    BY <1>1, <2>3, <2>4, HandoffsChanged
<1>5. CASE Release(s)
  <2>1. PICK k : k = desk[s].item
    OBVIOUS
  <2>2. CASE k = 0
    BY <1>1, <1>5, <2>1, <2>2, HandoffsChanged DEF Release
  <2>3. CASE k # 0
    <3>1. handoffs' = [handoffs EXCEPT ![k] = [handoffs[k] EXCEPT !.open = FALSE]]
      BY <1>1, <1>5, <2>1, <2>3 DEF Release
    <3>2. \A i \in DOMAIN handoffs :
              handoffs'[i] = IF i = k THEN [handoffs[i] EXCEPT !.open = FALSE] ELSE handoffs[i]
      BY <1>1, <3>1
    <3>3. \A i \in DOMAIN handoffs :
                /\ handoffs'[i] \in Handoff
                /\ handoffs'[i].resumed = handoffs[i].resumed
                /\ handoffs'[i].stamp => handoffs[i].stamp
      BY <1>2, <3>2 DEF Handoff
    <3>4. handoffs' \in [DOMAIN handoffs -> Handoff]
      BY <1>1, <3>1, <3>3
    <3>5. QED
      BY <1>1, <3>3, <3>4, HandoffsChanged
  <2>4. QED
    BY <2>2, <2>3
<1>6. QED
  BY <1>3, <1>4, <1>5

\* Clicks, and what they come to, keep the types.
LEMMA DeskTypes ==
    ASSUME TypeOK, NEW s \in Staff,
           \/ \E op \in {"takeover", "reply", "release"} : Click(s, op)
           \/ Takeover(s) \/ Reply(s) \/ Release(s)
    PROVE  TypeOK'
<1>1. CASE \E op \in {"takeover", "reply", "release"} : Click(s, op)
  <2>1. PICK op \in {"takeover", "reply", "release"} : Click(s, op)
    BY <1>1
  <2>2. [at |-> op, paused |-> paused, item |-> OpenHandoff, returns |-> Returns] \in Request
    <3>1. OpenHandoff \in Nat
      BY OpenIsThere, LenProperties DEF TypeOK
    <3>2. QED
      BY <3>1, CountResumed DEF Request, TypeOK
  <2>3. desk' \in [Staff -> Request \cup {Idle}]
    BY <2>1, <2>2 DEF Click, TypeOK
  <2>4. \A d \in Staff : desk'[d] # Idle => desk'[d].item \in 0..Len(handoffs)
    <3>1. desk'[s].item = OpenHandoff /\ \A d \in Staff \ {s} : desk'[d] = desk[d]
      BY <2>1 DEF Click, TypeOK
    <3>2. QED
      BY <3>1, OpenIsThere DEF TypeOK
  <2>5. QED
    BY <2>1, <2>3, <2>4 DEF Click, TypeOK, claimVars, askVars, custodyVars, endVars
<1>2. CASE Takeover(s) \/ Reply(s) \/ Release(s)
  <2>1. desk[s] \in Request
    <3>1. desk[s].at # "idle"
      BY <1>2 DEF Takeover, Reply, Release
    <3>2. QED
      BY <3>1, InProgress
  <2>2. handoffs' \in Seq(Handoff) /\ Len(handoffs') = Len(handoffs)
    BY <1>2, DeskHandoffs
  <2>3. desk' = [desk EXCEPT ![s] = Idle]
    BY <1>2 DEF Takeover, Reply, Release
  <2>4. desk' \in [Staff -> Request \cup {Idle}]
        /\ \A d \in Staff : desk'[d] # Idle => desk'[d].item \in 0..Len(handoffs')
    BY <2>2, <2>3 DEF TypeOK
  <2>5. paused' \in BOOLEAN /\ custody' \in Nat \cup {Nobody} /\ releases' \in Nat
    <3>1. desk[s].paused \in BOOLEAN /\ desk[s].returns \in Nat
      BY <2>1 DEF Request
    <3>2. paused' \in BOOLEAN
      BY <1>2, <3>1 DEF Takeover, Reply, Release, TypeOK
    <3>3. custody' \in Nat \cup {Nobody}
      BY <1>2, <3>1 DEF Takeover, Reply, Release
    <3>4. releases' \in Nat
      <4>1. releases \in Nat
        BY DEF TypeOK
      <4>2. releases' = releases \/ releases' = releases + 1
        BY <1>2 DEF Takeover, Reply, Release
      <4>3. QED
        BY <4>1, <4>2
    <3>5. QED
      BY <3>2, <3>3, <3>4
  <2>6. UNCHANGED <<claimVars, intake, waiting, turn, clicks, restarts, endVars>>
    BY <1>2 DEF Takeover, Reply, Release
  <2>7. QED
    BY <2>2, <2>4, <2>5, <2>6 DEF TypeOK, claimVars, endVars
<1>3. QED
  BY <1>1, <1>2

\* A restart keeps the types.
LEMMA RestartTypes ==
    ASSUME TypeOK, Restart
    PROVE  TypeOK'
<1>1. Idle \in Request \cup {Idle} /\ Out \in Intake
  BY DEF Intake
<1>2. turn # Idle => turn.ms \subseteq Messages
  BY InProgress DEF Turn
<1>3. cut' \subseteq Messages
  BY <1>2 DEF Restart, TypeOK
<1>4. /\ intake' = [m \in Messages |-> Out] /\ waiting' = {} /\ turn' = Idle
      /\ desk' = [s \in Staff |-> Idle] /\ restarts' = restarts + 1
      /\ UNCHANGED <<claims, copies, given, paused, handoffs, custody, releases,
                     clicks, answers, settled>>
  BY DEF Restart, claimVars, askVars, custodyVars
<1>5. QED
  BY <1>1, <1>3, <1>4 DEF TypeOK

\* Every step keeps the types.
LEMMA StepTypes == TypeOK /\ [Next]_vars => TypeOK'
<1> SUFFICES ASSUME TypeOK, [Next]_vars PROVE TypeOK'
  OBVIOUS
<1>1. CASE UNCHANGED vars
  BY <1>1 DEF vars, TypeOK
<1>2. CASE Next
  BY <1>2, RequestTypes, TurnTypes, CommitTypes, DeskTypes, RestartTypes
     DEF Next, Requests, Turns, Desks
<1>3. QED
  BY <1>1, <1>2

\* Every variable keeps its type, and what a request or a turn points at stays there,
\* whatever is delivered, crashes or is clicked.
THEOREM TypeCorrect == Spec => []TypeOK
<1>1. Init => TypeOK
  <2> SUFFICES ASSUME Init PROVE TypeOK
    OBVIOUS
  <2>1. <<>> \in Seq(Handoff)
    BY EmptySeq
  <2>2. QED
    BY <2>1 DEF Init, TypeOK, Intake
<1>2. QED
  BY <1>1, StepTypes, PTL DEF Spec

-----------------------------------------------------------------------------
(* Claims.                                                                 *)

TurnHas(m) == turn # Idle /\ m \in turn.ms

\* A claimed message is in somebody's hand, dealt with, or cut off.
Kept(m) ==
    m \in claims =>
        \/ m \in waiting \/ intake[m] # Out \/ TurnHas(m)
        \/ m \in settled \/ m \in cut

\* A message is in one place at a time.  Only one that the running turn has given
\* up may be claimed again already.
OncePlaced(m) ==
    /\ intake[m] # Out => m \notin waiting
    /\ TurnHas(m) /\ turn.at # "sorry" => intake[m] = Out /\ m \notin waiting

\* The answers that are still to come for a message.
Debt(m) == (IF TurnHas(m) THEN 1 ELSE 0)
         + (IF intake[m] # Out \/ m \in waiting THEN 1 ELSE 0)

\* A claim is good for one answer, and once it is given back for none.
Owed(m) ==
    /\ m \in claims => answers[m] + Debt(m) <= 1 + given[m]
    /\ m \notin claims =>
         /\ intake[m] = Out /\ m \notin waiting
         /\ TurnHas(m) => turn.at = "sorry"
         /\ answers[m] + Debt(m) <= given[m]

MessageInv(m) == Kept(m) /\ OncePlaced(m) /\ Owed(m)

ClaimsInv == \A m \in Messages : MessageInv(m)

\* The message whose place, claim and answers stay as they are is as well off.
LEMMA Untouched ==
    ASSUME NEW m \in Messages, MessageInv(m),
           m \in claims' <=> m \in claims,
           intake'[m] = intake[m],
           m \in waiting' <=> m \in waiting,
           turn' = turn
             \/ (turn # Idle /\ turn' # Idle /\ turn'.ms = turn.ms
                  /\ (turn'.at = "sorry" <=> turn.at = "sorry")),
           answers'[m] = answers[m], given'[m] = given[m],
           settled \subseteq settled', cut \subseteq cut'
    PROVE  MessageInv(m)'
<1>1. TurnHas(m)' <=> TurnHas(m)
  BY DEF TurnHas
<1>2. TurnHas(m) => (turn'.at = "sorry" <=> turn.at = "sorry")
  BY DEF TurnHas
<1>3. Kept(m)'
  BY <1>1 DEF MessageInv, Kept
<1>4. OncePlaced(m)'
  BY <1>1, <1>2 DEF MessageInv, OncePlaced
<1>5. Debt(m)' = Debt(m)
  BY <1>1 DEF Debt
<1>6. Owed(m)'
  BY <1>1, <1>2, <1>5 DEF MessageInv, Owed
<1>7. QED
  BY <1>3, <1>4, <1>6 DEF MessageInv

\* What a request does to the messages it is not about is nothing.
LEMMA RequestOfAnother ==
    ASSUME TypeOK, ClaimsInv, NEW n \in Messages, NEW m \in Messages \ {n},
           Deliver(n) \/ Submit(n) \/ ReadForHandoff(n) \/ RaiseHandoff(n) \/ AcceptFails(n)
    PROVE  MessageInv(m)'
<1>1. /\ intake'[m] = intake[m] /\ (m \in claims' <=> m \in claims)
      /\ (m \in waiting' <=> m \in waiting) /\ turn' = turn
      /\ answers'[m] = answers[m] /\ given'[m] = given[m]
      /\ settled \subseteq settled' /\ cut \subseteq cut'
  BY DEF Deliver, Submit, ReadForHandoff, RaiseHandoff, AcceptFails, TypeOK,
         claimVars, endVars
<1>2. MessageInv(m)
  BY DEF ClaimsInv
<1>3. QED
  BY <1>1, <1>2, Untouched

\* What it does to its own message.
LEMMA RequestOfOwn ==
    ASSUME TypeOK, ClaimsInv, NEW m \in Messages,
           Deliver(m) \/ Submit(m) \/ ReadForHandoff(m) \/ RaiseHandoff(m) \/ AcceptFails(m)
    PROVE  MessageInv(m)'
<1>1. /\ Kept(m) /\ OncePlaced(m) /\ Owed(m) /\ MessageInv(m)
      /\ answers[m] \in Nat /\ given[m] \in Nat
      /\ intake \in [Messages -> Intake]
      /\ answers \in [Messages -> Nat] /\ given \in [Messages -> Nat]
  BY DEF ClaimsInv, MessageInv, TypeOK
<1>2. intake[m].at # "out" <=> intake[m] # Out
  BY InProgress
<1>3. [at |-> "claimed"] # Out
  BY DEF Out
<1>4. CASE Deliver(m)
  <2>1. /\ UNCHANGED <<waiting, turn, answers, given, settled, cut>>
        /\ m \in claims'
    BY <1>4 DEF Deliver, endVars
  <2>2. CASE m \in claims
    <3>1. intake' = intake
      BY <1>4, <2>2 DEF Deliver
    <3>2. QED
      BY <1>1, <2>1, <2>2, <3>1, Untouched
  <2>3. CASE m \notin claims
    <3>1. intake'[m] # Out
      BY <1>1, <1>3, <1>4, <2>3 DEF Deliver
    <3>2. TurnHas(m)' <=> TurnHas(m)
      BY <2>1 DEF TurnHas
    <3>3. /\ intake[m] = Out /\ m \notin waiting
          /\ TurnHas(m) => turn.at = "sorry"
          /\ answers[m] + Debt(m) <= given[m]
      BY <1>1, <2>3 DEF Owed
    <3>4. Debt(m)' = Debt(m) + 1
      BY <2>1, <3>1, <3>2, <3>3 DEF Debt
    <3>5. Debt(m) \in Nat
      BY DEF Debt
    <3>6. answers'[m] + Debt(m)' <= 1 + given'[m]
      BY <1>1, <2>1, <3>3, <3>4, <3>5
    <3>7. Kept(m)' /\ OncePlaced(m)'
      BY <2>1, <3>1, <3>2, <3>3 DEF Kept, OncePlaced
    <3>8. QED
      BY <2>1, <3>6, <3>7 DEF MessageInv, Owed
  <2>4. QED
    BY <2>2, <2>3
<1>5. CASE Submit(m) \/ ReadForHandoff(m)
  <2>1. /\ UNCHANGED <<claims, turn, answers, given, settled, cut>>
        /\ intake[m] # Out
    BY <1>2, <1>5 DEF Submit, ReadForHandoff, claimVars, endVars
  <2>2. /\ intake'[m] # Out \/ m \in waiting'
        /\ ~(intake'[m] # Out /\ m \in waiting')
    BY <1>1, <1>5, <2>1 DEF Submit, ReadForHandoff, OncePlaced, Out
  <2>3. TurnHas(m)' <=> TurnHas(m)
    BY <2>1 DEF TurnHas
  <2>4. m \in claims /\ m \in claims' /\ Debt(m)' = Debt(m)
    BY <1>1, <2>1, <2>2, <2>3 DEF Owed, Debt
  <2>5. Owed(m)'
    BY <1>1, <2>1, <2>4 DEF Owed
  <2>6. Kept(m)' /\ OncePlaced(m)'
    BY <1>1, <2>1, <2>2, <2>3 DEF Kept, OncePlaced
  <2>7. QED
    BY <2>5, <2>6 DEF MessageInv
<1>6. CASE RaiseHandoff(m)
  <2>1. /\ UNCHANGED <<claims, turn, given, waiting>>
        /\ intake[m] # Out /\ intake'[m] = Out
        /\ m \in settled' /\ answers'[m] = answers[m] + 1
    BY <1>1, <1>2, <1>6 DEF RaiseHandoff, claimVars
  <2>2. TurnHas(m)' <=> TurnHas(m)
    BY <2>1 DEF TurnHas
  <2>3. m \in claims /\ m \notin waiting
    BY <1>1, <2>1 DEF Owed, OncePlaced
  <2>4. Debt(m) = Debt(m)' + 1 /\ Debt(m)' \in Nat
    BY <2>1, <2>2, <2>3 DEF Debt
  <2>5. Owed(m)'
    BY <1>1, <2>1, <2>3, <2>4 DEF Owed
  <2>6. Kept(m)' /\ OncePlaced(m)'
    BY <1>1, <2>1, <2>2, <2>3 DEF Kept, OncePlaced
  <2>7. QED
    BY <2>5, <2>6 DEF MessageInv
<1>7. CASE AcceptFails(m)
  <2>1. /\ UNCHANGED <<turn, answers, waiting, settled, cut>>
        /\ intake[m] # Out /\ intake'[m] = Out
        /\ m \notin claims' /\ given'[m] = given[m] + 1
    BY <1>1, <1>2, <1>7 DEF AcceptFails, endVars
  <2>2. TurnHas(m)' <=> TurnHas(m)
    BY <2>1 DEF TurnHas
  <2>3. m \in claims /\ m \notin waiting /\ (TurnHas(m) => turn.at = "sorry")
    BY <1>1, <2>1 DEF Owed, OncePlaced
  <2>4. Debt(m) = Debt(m)' + 1 /\ Debt(m)' \in Nat
    BY <2>1, <2>2, <2>3 DEF Debt
  <2>5. Owed(m)'
    BY <1>1, <2>1, <2>2, <2>3, <2>4 DEF Owed
  <2>6. Kept(m)' /\ OncePlaced(m)'
    BY <2>1, <2>2, <2>3 DEF Kept, OncePlaced
  <2>7. QED
    BY <2>5, <2>6 DEF MessageInv
<1>8. QED
  BY <1>4, <1>5, <1>6, <1>7

\* The steps that end a turn: its messages are answered once at most, and put where
\* they are accounted for.
LEMMA TurnEndsOnce ==
    ASSUME TypeOK, ClaimsInv, NEW m \in Messages,
           StoreForStaff \/ Apologise \/ Send \/ SendRaises
    PROVE  MessageInv(m)'
<1>1. /\ Kept(m) /\ OncePlaced(m) /\ Owed(m)
      /\ answers[m] \in Nat /\ given[m] \in Nat
      /\ answers \in [Messages -> Nat]
  BY DEF ClaimsInv, MessageInv, TypeOK
<1>2. turn # Idle /\ turn' = Idle /\ UNCHANGED <<claims, given, intake, waiting>>
  <2>1. turn.at # "idle"
    BY DEF StoreForStaff, Apologise, Send, SendRaises
  <2>2. QED
    BY <2>1, InProgress DEF StoreForStaff, Apologise, Send, SendRaises, claimVars
<1>3. /\ settled \subseteq settled' /\ cut \subseteq cut'
      /\ m \in turn.ms => m \in settled' \/ m \in cut'
  BY DEF StoreForStaff, Apologise, Send, SendRaises
<1>4. /\ m \notin turn.ms => answers'[m] = answers[m]
      /\ m \in turn.ms => answers'[m] = answers[m] \/ answers'[m] = answers[m] + 1
  BY <1>1 DEF StoreForStaff, Apologise, Send, SendRaises, AnswerAll
<1>5. ~TurnHas(m)' /\ (TurnHas(m) <=> m \in turn.ms)
  BY <1>2 DEF TurnHas
<1>6. Kept(m)' /\ OncePlaced(m)'
  BY <1>1, <1>2, <1>3, <1>5 DEF Kept, OncePlaced
<1>7. answers'[m] + Debt(m)' <= answers[m] + Debt(m)
  BY <1>1, <1>2, <1>4, <1>5 DEF Debt
<1>8. Debt(m) \in Nat /\ Debt(m)' \in Nat /\ answers'[m] \in Nat
  BY <1>1, <1>4 DEF Debt
<1>9. Owed(m)'
  BY <1>1, <1>2, <1>5, <1>7, <1>8 DEF Owed
<1>10. QED
  BY <1>6, <1>9 DEF MessageInv

\* The other steps of a turn.
LEMMA TurnKeepsClaims ==
    ASSUME TypeOK, ClaimsInv, NEW m \in Messages,
           BeginTurn \/ RetryTurn \/ TakeBack \/ Compose \/ HandOver \/ GiveWay \/ Crash
    PROVE  MessageInv(m)'
<1>1. /\ Kept(m) /\ OncePlaced(m) /\ Owed(m) /\ MessageInv(m)
      /\ answers[m] \in Nat /\ given[m] \in Nat
      /\ given \in [Messages -> Nat]
  BY DEF ClaimsInv, MessageInv, TypeOK
<1>2. turn.at # "idle" => turn \in Turn /\ turn # Idle
  BY InProgress
<1>3. CASE BeginTurn
  <2>1. /\ turn = Idle /\ waiting' = {}
        /\ UNCHANGED <<claims, given, answers, settled, cut, intake>>
    BY <1>3 DEF BeginTurn, claimVars, endVars
  <2>2. turn' # Idle /\ turn'.ms = waiting
    BY <1>3 DEF BeginTurn, Idle
  <2>3. ~TurnHas(m) /\ (TurnHas(m)' <=> m \in waiting)
    BY <2>1, <2>2 DEF TurnHas
  <2>4. Kept(m)' /\ OncePlaced(m)'
    BY <1>1, <2>1, <2>3 DEF Kept, OncePlaced
  <2>5. Debt(m)' = Debt(m)
    BY <1>1, <2>1, <2>3 DEF Debt, OncePlaced
  <2>6. Owed(m)'
    BY <1>1, <2>1, <2>3, <2>5 DEF Owed
  <2>7. QED
    BY <2>4, <2>6 DEF MessageInv
<1>4. CASE \/ RetryTurn \/ TakeBack \/ Compose \/ HandOver
           \/ Crash /\ turn.attempt = 1
  <2>1. turn \in Turn /\ turn # Idle
    BY <1>2, <1>4 DEF RetryTurn, TakeBack, Compose, HandOver, Crash
  <2>2. turn'.ms = turn.ms /\ turn.at # "sorry" /\ turn'.at # "sorry" /\ turn'.at # "idle"
    <3>1. CASE RetryTurn
      <4>1. PICK at \in Readings :
               turn' = [turn EXCEPT !.at = at, !.attempt = 2, !.resumed = FALSE,
                             !.item = Len(handoffs)]
        BY <3>1 DEF RetryTurn
      <4>2. at # "sorry" /\ at # "idle"
        BY DEF Readings
      <4>3. QED
        BY <2>1, <3>1, <4>1, <4>2 DEF RetryTurn, Turn
    <3>2. CASE TakeBack
      BY <2>1, <3>2 DEF TakeBack, Turn
    <3>3. CASE Compose \/ HandOver
      BY <2>1, <3>3 DEF Compose, HandOver, Turn
    <3>4. CASE Crash /\ turn.attempt = 1
      BY <2>1, <3>4 DEF Crash, Turn
    <3>5. QED
      BY <1>4, <3>1, <3>2, <3>3, <3>4
  <2>3. turn' # Idle
    BY <2>2 DEF Idle
  <2>4. UNCHANGED <<claims, given, intake, waiting, answers, settled, cut>>
    BY <1>4 DEF RetryTurn, TakeBack, Compose, HandOver, Crash, claimVars, endVars
  <2>5. QED
    BY <1>1, <2>1, <2>2, <2>3, <2>4, Untouched
<1>5. CASE GiveWay
  <2>1. /\ turn # Idle /\ turn' = Idle /\ turn.at = "model"
        /\ UNCHANGED <<claims, given, answers, settled, cut, intake>>
        /\ waiting' = waiting \cup turn.ms
    BY <1>2, <1>5 DEF GiveWay, claimVars, endVars
  <2>2. ~TurnHas(m)' /\ (TurnHas(m) <=> m \in turn.ms)
    BY <2>1 DEF TurnHas
  <2>3. Kept(m)' /\ OncePlaced(m)'
    BY <1>1, <2>1, <2>2 DEF Kept, OncePlaced
  <2>4. Debt(m)' = Debt(m)
    BY <1>1, <2>1, <2>2 DEF Debt, OncePlaced
  <2>5. Owed(m)'
    BY <1>1, <2>1, <2>2, <2>4 DEF Owed
  <2>6. QED
    BY <2>3, <2>5 DEF MessageInv
<1>6. CASE Crash /\ turn.attempt # 1
  <2>1. turn \in Turn /\ turn # Idle /\ turn.at # "sorry"
    BY <1>2, <1>6 DEF Crash
  <2>2. turn' # Idle /\ turn'.ms = turn.ms /\ turn'.at = "sorry"
    BY <1>6, <2>1 DEF Crash, Turn, Idle
  <2>3. /\ claims' = claims \ turn.ms
        /\ given' = [n \in Messages |-> IF n \in turn.ms THEN given[n] + 1 ELSE given[n]]
        /\ UNCHANGED <<answers, settled, cut, intake, waiting>>
    BY <1>6 DEF Crash, endVars
  <2>4. (TurnHas(m)' <=> m \in turn.ms) /\ (TurnHas(m) <=> m \in turn.ms)
    BY <2>1, <2>2 DEF TurnHas
  <2>5. Kept(m)'
    BY <1>1, <2>3, <2>4 DEF Kept
  <2>6. OncePlaced(m)'
    BY <1>1, <2>1, <2>2, <2>3, <2>4 DEF OncePlaced
  <2>7. Debt(m)' = Debt(m) /\ Debt(m) \in Nat
    BY <2>3, <2>4 DEF Debt
  <2>8. CASE m \in turn.ms
    <3>1. m \in claims /\ m \notin claims' /\ given'[m] = given[m] + 1 /\ answers'[m] = answers[m]
      BY <1>1, <2>1, <2>3, <2>4, <2>8 DEF Owed
    <3>2. intake[m] = Out /\ m \notin waiting
      BY <1>1, <2>1, <2>4, <2>8 DEF OncePlaced
    <3>3. Owed(m)'
      BY <1>1, <2>2, <2>3, <2>7, <3>1, <3>2 DEF Owed
    <3>4. QED
      BY <2>5, <2>6, <3>3 DEF MessageInv
  <2>9. CASE m \notin turn.ms
    <3>1. (m \in claims' <=> m \in claims) /\ given'[m] = given[m] /\ answers'[m] = answers[m]
      BY <2>3, <2>9
    <3>2. Owed(m)'
      BY <1>1, <2>3, <2>4, <2>7, <2>9, <3>1 DEF Owed
    <3>3. QED
      BY <2>5, <2>6, <3>2 DEF MessageInv
  <2>10. QED
    BY <2>8, <2>9
<1>7. QED
  BY <1>3, <1>4, <1>5, <1>6

\* The end of the process cuts off what was in hand, and answers nothing.
LEMMA RestartCuts ==
    ASSUME TypeOK, ClaimsInv, NEW m \in Messages, Restart
    PROVE  MessageInv(m)'
<1>1. /\ Kept(m) /\ OncePlaced(m) /\ Owed(m)
      /\ answers[m] \in Nat /\ given[m] \in Nat
  BY DEF ClaimsInv, MessageInv, TypeOK
<1>2. /\ intake'[m] = Out /\ waiting' = {} /\ turn' = Idle
      /\ UNCHANGED <<claims, given, answers, settled>> /\ cut \subseteq cut'
      /\ m \in waiting \/ intake[m] # Out \/ TurnHas(m) => m \in cut'
  BY DEF Restart, claimVars, TurnHas
<1>3. ~TurnHas(m)'
  BY <1>2 DEF TurnHas
<1>4. Kept(m)' /\ OncePlaced(m)'
  BY <1>1, <1>2, <1>3 DEF Kept, OncePlaced
<1>5. Debt(m)' = 0 /\ Debt(m) \in Nat
  BY <1>2, <1>3 DEF Debt
<1>6. Owed(m)'
  BY <1>1, <1>2, <1>3, <1>5 DEF Owed
<1>7. QED
  BY <1>4, <1>6 DEF MessageInv

\* Every step keeps the claims in order.
LEMMA StepClaims == TypeOK /\ ClaimsInv /\ [Next]_vars => ClaimsInv'
<1> SUFFICES ASSUME TypeOK, ClaimsInv, [Next]_vars, NEW m \in Messages
             PROVE  MessageInv(m)'
  BY DEF ClaimsInv
<1>1. MessageInv(m)
  BY DEF ClaimsInv
<1>2. CASE \E n \in Messages : Deliver(n) \/ Submit(n) \/ ReadForHandoff(n)
                                \/ RaiseHandoff(n) \/ AcceptFails(n)
  BY <1>2, RequestOfAnother, RequestOfOwn
<1>3. CASE \/ \E s \in Staff, op \in {"takeover", "reply", "release"} : Click(s, op)
           \/ \E s \in Staff : Takeover(s) \/ Reply(s) \/ Release(s)
           \/ UNCHANGED vars
  <2>1. UNCHANGED <<claims, intake, waiting, turn, answers, given, settled, cut>>
    BY <1>3 DEF Click, Takeover, Reply, Release, vars, claimVars, endVars
  <2>2. QED
    BY <1>1, <2>1, Untouched
<1>4. CASE StoreForStaff \/ Apologise \/ Send \/ SendRaises
  BY <1>4, TurnEndsOnce
<1>5. CASE BeginTurn \/ RetryTurn \/ TakeBack \/ Compose \/ HandOver \/ GiveWay \/ Crash
  BY <1>5, TurnKeepsClaims
<1>6. CASE Restart
  BY <1>6, RestartCuts
<1>7. QED
  BY <1>2, <1>3, <1>4, <1>5, <1>6 DEF Next, Requests, Turns, Desks

\* Claims are in order in every state.
THEOREM ClaimsInOrder == Spec => []ClaimsInv
<1>1. Init => ClaimsInv
  <2> SUFFICES ASSUME Init, NEW m \in Messages PROVE MessageInv(m)
    BY DEF ClaimsInv
  <2>1. /\ claims = {} /\ waiting = {} /\ intake[m] = Out /\ ~TurnHas(m)
        /\ answers[m] = 0 /\ given[m] = 0
    BY DEF Init, TurnHas
  <2>2. QED
    BY <2>1 DEF MessageInv, Kept, OncePlaced, Owed, Debt
<1>2. QED
  BY <1>1, StepClaims, TypeCorrect, PTL DEF Spec

\* A claim suppresses every later delivery of its message, so the message is in
\* somebody's hand until it was answered, stored for staff or apologised for --
\* unless the process ended or a send raised, however turns crash, give way or are
\* run again.
THEOREM ClaimsAreKept == Spec => []NoClaimForgotten
<1>1. TypeOK /\ ClaimsInv => NoClaimForgotten
  <2> SUFFICES ASSUME TypeOK, ClaimsInv, NEW m \in claims
               PROVE  m \in InHand \cup settled \cup cut
    BY DEF NoClaimForgotten
  <2>1. m \in Messages
    BY DEF TypeOK
  <2>2. m \in waiting \/ intake[m] # Out \/ TurnHas(m) \/ m \in settled \/ m \in cut
    BY <2>1 DEF ClaimsInv, MessageInv, Kept
  <2>3. QED
    BY <2>1, <2>2 DEF InHand, TurnHas
<1>2. QED
  BY <1>1, TypeCorrect, ClaimsInOrder, PTL

\* However often a message is delivered and its turn is run again, the customer
\* hears about it once for each claim that was taken and not given back.
THEOREM HeardOnce == Spec => []HeardOncePerClaim
<1>1. TypeOK /\ ClaimsInv => HeardOncePerClaim
  <2> SUFFICES ASSUME TypeOK, ClaimsInv, NEW m \in Messages
               PROVE  answers[m] <= 1 + given[m]
    BY DEF HeardOncePerClaim
  <2>1. Owed(m) /\ answers[m] \in Nat /\ given[m] \in Nat /\ Debt(m) \in Nat
    BY DEF ClaimsInv, MessageInv, TypeOK, Debt
  <2>2. QED
    BY <2>1 DEF Owed
<1>2. QED
  BY <1>1, TypeCorrect, ClaimsInOrder, PTL

-----------------------------------------------------------------------------
(* Custody.                                                                *)

\* A turn that has read a handoff to take back, and has not committed.
TakesBack == turn.at = "resuming" \/ (turn.at = "model" /\ turn.resumed)

\* A handoff is taken back once: its stamp goes when it is.
StampedOnce == \A i \in DOMAIN handoffs : handoffs[i].stamp => ~handoffs[i].resumed

\* The handoff a turn takes back was not taken back before.
TakesBackNew ==
    TakesBack => turn.item \in DOMAIN handoffs /\ ~handoffs[turn.item].resumed

\* A request that found the conversation paused, and finds it released when it goes
\* on, has missed a return.
DesksKnow ==
    \A s \in Staff :
        desk[s] # Idle =>
            /\ desk[s].returns <= Returns
            /\ desk[s].at # "takeover" => desk[s].paused
            /\ desk[s].paused /\ ~paused => Returns > desk[s].returns

CustodyInv ==
    /\ StampedOnce /\ TakesBackNew /\ DesksKnow
    /\ custody # Nobody => custody <= Returns
    /\ StaffKeepIt

\* As long as nobody's flag, handoffs, custody or count change, only the turn and the
\* requests matter.
LEMMA CustodyStays ==
    ASSUME TypeOK, CustodyInv, UNCHANGED <<paused, handoffs, custody, releases, desk>>,
           TakesBackNew'
    PROVE  CustodyInv'
<1>1. Returns' = Returns
  BY DEF Returns, Resumed
<1>2. StampedOnce'
  BY DEF CustodyInv, StampedOnce
<1>3. DesksKnow'
  BY <1>1 DEF CustodyInv, DesksKnow
<1>4. (custody # Nobody => custody <= Returns)' /\ StaffKeepIt'
  BY <1>1 DEF CustodyInv, StaffKeepIt
<1>5. QED
  BY <1>2, <1>3, <1>4 DEF CustodyInv

\* The steps that leave the flag and the handoffs alone.
LEMMA QuietCustody ==
    ASSUME TypeOK, CustodyInv,
           \/ \E m \in Messages : Deliver(m) \/ Submit(m) \/ ReadForHandoff(m) \/ AcceptFails(m)
           \/ BeginTurn \/ RetryTurn \/ TakeBack \/ StoreForStaff \/ Apologise \/ Send
           \/ Crash \/ SendRaises
           \/ UNCHANGED vars
    PROVE  CustodyInv'
<1>1. UNCHANGED <<paused, handoffs, custody, releases, desk>>
  BY DEF Deliver, Submit, ReadForHandoff, AcceptFails, BeginTurn, RetryTurn, TakeBack,
         StoreForStaff, Apologise, Send, Crash, SendRaises, vars, askVars, custodyVars
<1>2. StampedOnce /\ TakesBackNew
  BY DEF CustodyInv
<1>3. handoffs \in Seq(Handoff) /\ Len(handoffs) \in Nat /\ DOMAIN handoffs = 1..Len(handoffs)
  BY LenProperties DEF TypeOK
<1>4. Resumable => /\ Len(handoffs) \in DOMAIN handoffs
                   /\ ~handoffs[Len(handoffs)].resumed
  <2> SUFFICES ASSUME Resumable PROVE Len(handoffs) \in DOMAIN handoffs
                                      /\ ~handoffs[Len(handoffs)].resumed
    OBVIOUS
  <2>1. Len(handoffs) \in DOMAIN handoffs
    BY <1>3, EmptySeq DEF Resumable
  <2>2. handoffs[Len(handoffs)].stamp
    BY DEF Resumable
  <2>3. QED
    BY <1>2, <2>1, <2>2 DEF StampedOnce
<1>5. TakesBackNew'
  <2>1. CASE turn' = turn
    BY <1>1, <1>2, <2>1 DEF TakesBackNew, TakesBack
  <2>2. CASE BeginTurn
    <3>1. PICK at \in Readings :
            turn' = [at |-> at, ms |-> waiting, attempt |-> 1,
                     resumed |-> FALSE, item |-> Len(handoffs)]
      BY <2>2 DEF BeginTurn
    <3>2. at = "resuming" => Resumable
      BY DEF Readings
    <3>3. TakesBack' => at = "resuming"
      BY <3>1 DEF TakesBack
    <3>4. QED
      BY <1>1, <1>4, <3>1, <3>2, <3>3 DEF TakesBackNew
  <2>3. CASE RetryTurn
    <3>1. turn \in Turn
      BY <2>3, InProgress DEF RetryTurn
    <3>2. PICK at \in Readings :
             turn' = [turn EXCEPT !.at = at, !.attempt = 2, !.resumed = FALSE,
                             !.item = Len(handoffs)]
      BY <2>3 DEF RetryTurn
    <3>3. turn'.at = at /\ turn'.resumed = FALSE /\ turn'.item = Len(handoffs)
      BY <3>1, <3>2 DEF Turn
    <3>4. at = "resuming" => Resumable
      BY DEF Readings
    <3>5. QED
      BY <1>1, <1>4, <3>3, <3>4 DEF TakesBackNew, TakesBack
  <2>4. CASE TakeBack
    <3>1. turn \in Turn /\ TakesBack
      BY <2>4, InProgress DEF TakeBack, TakesBack
    <3>2. turn'.item = turn.item
      BY <2>4, <3>1 DEF TakeBack, Turn
    <3>3. QED
      BY <1>1, <1>2, <3>1, <3>2 DEF TakesBackNew
  <2>5. CASE Crash
    <3>1. turn \in Turn
      BY <2>5, InProgress DEF Crash
    <3>2. turn'.at \in {"retry", "sorry"}
      BY <2>5, <3>1 DEF Crash, Turn
    <3>3. QED
      BY <3>2 DEF TakesBackNew, TakesBack
  <2>6. CASE StoreForStaff \/ Apologise \/ Send \/ SendRaises
    <3>1. turn' = Idle
      BY <2>6 DEF StoreForStaff, Apologise, Send, SendRaises
    <3>2. QED
      BY <3>1 DEF TakesBackNew, TakesBack, Idle
  <2>7. QED
    BY <2>1, <2>2, <2>3, <2>4, <2>5, <2>6
       DEF Deliver, Submit, ReadForHandoff, AcceptFails, vars
<1>6. QED
  BY <1>1, <1>5, CustodyStays

\* A commit that takes a handoff back counts as a return, and no other does.
LEMMA CommitReturns ==
    ASSUME TypeOK, CustodyInv, Compose \/ HandOver \/ GiveWay
    PROVE  /\ Returns' = IF turn.resumed THEN Returns + 1 ELSE Returns
           /\ StampedOnce'
           /\ TakesBackNew'
<1>1. turn \in Turn /\ turn # Idle /\ turn.at = "model"
  <2>1. turn.at = "model"
    BY DEF Compose, HandOver, GiveWay
  <2>2. QED
    BY <2>1, InProgress
<1>2. PICK h : h = TakenBack
  OBVIOUS
<1>3. /\ h \in Seq(Handoff) /\ Len(h) = Len(handoffs) /\ DOMAIN h = DOMAIN handoffs
      /\ DOMAIN handoffs = 1..Len(handoffs) /\ Len(handoffs) \in Nat
      /\ \A i \in DOMAIN handoffs :
           /\ turn.resumed /\ i = turn.item => h[i].resumed = TRUE /\ h[i].stamp = FALSE
           /\ ~turn.resumed \/ i # turn.item => h[i] = handoffs[i]
  BY <1>1, <1>2, TakingBack, LenProperties DEF TypeOK
<1>4. StampedOnce /\ TakesBackNew
  BY DEF CustodyInv
<1>5. turn.resumed => turn.item \in DOMAIN handoffs /\ ~handoffs[turn.item].resumed
  BY <1>1, <1>4 DEF TakesBackNew, TakesBack
<1>6. \/ handoffs' = h
      \/ \E stamp \in BOOLEAN : handoffs' = Append(h, Raised(stamp))
  BY <1>2 DEF Compose, HandOver, GiveWay
<1>7. /\ DOMAIN h \subseteq DOMAIN handoffs'
      /\ \A i \in DOMAIN h : handoffs'[i] = h[i]
      /\ \A i \in DOMAIN handoffs' : i \notin DOMAIN h => ~handoffs'[i].resumed
  <2>1. CASE handoffs' = h
    BY <2>1
  <2>2. CASE \E stamp \in BOOLEAN : handoffs' = Append(h, Raised(stamp))
    <3>1. PICK stamp \in BOOLEAN : handoffs' = Append(h, Raised(stamp))
      BY <2>2
    <3>2. /\ DOMAIN handoffs' = DOMAIN h \cup {Len(h) + 1}
          /\ \A i \in DOMAIN h : handoffs'[i] = h[i]
          /\ handoffs'[Len(h) + 1] = Raised(stamp)
      BY <1>3, <3>1, Raising
    <3>3. Raised(stamp).resumed = FALSE
      BY DEF Raised
    <3>4. QED
      BY <3>2, <3>3
  <2>3. QED
    BY <1>6, <2>1, <2>2
<1>8. StampedOnce'
  <2> SUFFICES ASSUME NEW i \in DOMAIN handoffs', handoffs'[i].stamp
               PROVE  ~handoffs'[i].resumed
    BY DEF StampedOnce
  <2>1. CASE i \notin DOMAIN h
    BY <1>7, <2>1
  <2>2. CASE i \in DOMAIN h
    <3>1. h[i].stamp /\ handoffs'[i] = h[i]
      BY <1>7, <2>2
    <3>2. CASE turn.resumed /\ i = turn.item
      BY <1>3, <2>2, <3>1, <3>2
    <3>3. CASE ~(turn.resumed /\ i = turn.item)
      <4>1. h[i] = handoffs[i]
        BY <1>3, <2>2, <3>3
      <4>2. QED
        BY <1>3, <1>4, <2>2, <3>1, <4>1 DEF StampedOnce
    <3>4. QED
      BY <3>2, <3>3
  <2>3. QED
    BY <2>1, <2>2
<1>9. TakesBackNew'
  <2>1. turn'.at \in {"composed", "idle"}
    BY <1>1 DEF Compose, HandOver, GiveWay, Turn, Idle
  <2>2. QED
    BY <2>1 DEF TakesBackNew, TakesBack
<1>10. Resumed' = IF turn.resumed THEN Resumed \cup {turn.item} ELSE Resumed
  <2>1. \A i : i \in Resumed' <=> i \in DOMAIN h /\ h[i].resumed
    BY <1>7 DEF Resumed
  <2>2. CASE ~turn.resumed
    BY <1>3, <2>1, <2>2 DEF Resumed
  <2>3. CASE turn.resumed
    <3>1. \A i : i \in Resumed' <=> i \in Resumed \/ i = turn.item
      BY <1>3, <1>5, <2>1, <2>3 DEF Resumed
    <3>2. QED
      BY <2>3, <3>1
  <2>4. QED
    BY <1>1, <2>2, <2>3 DEF Turn
<1>11. releases' = releases /\ releases \in Nat
  BY DEF Compose, HandOver, GiveWay, custodyVars, TypeOK
<1>12. CASE turn.resumed
  <2>1. PICK R : R = Resumed
    OBVIOUS
  <2>2. PICK i : i = turn.item
    OBVIOUS
  <2>3. IsFiniteSet(R) /\ Cardinality(R) \in Nat /\ i \notin R
    BY <1>5, <1>12, <2>1, <2>2, CountResumed DEF Resumed
  <2>4. Cardinality(R \cup {i}) = Cardinality(R) + 1
    BY <2>3, FS_AddElement
  <2>5. Resumed' = R \cup {i}
    BY <1>10, <1>12, <2>1, <2>2
  <2>6. Returns' = Returns + 1
    BY <1>11, <2>1, <2>3, <2>4, <2>5 DEF Returns
  <2>7. QED
    BY <1>8, <1>9, <1>12, <2>6
<1>13. CASE ~turn.resumed
  <2>1. Returns' = Returns
    BY <1>10, <1>11, <1>13 DEF Returns
  <2>2. QED
    BY <1>8, <1>9, <1>13, <2>1
<1>14. QED
  BY <1>12, <1>13

\* So commits respect custody.
LEMMA CommitCustody ==
    ASSUME TypeOK, CustodyInv, Compose \/ HandOver \/ GiveWay
    PROVE  CustodyInv'
<1>1. /\ Returns' = IF turn.resumed THEN Returns + 1 ELSE Returns
      /\ StampedOnce' /\ TakesBackNew'
  BY CommitReturns
<1>2. Returns \in Nat /\ turn \in Turn
  <2>1. turn.at # "idle"
    BY DEF Compose, HandOver, GiveWay
  <2>2. QED
    BY <2>1, CountResumed, InProgress
<1>3. /\ custody' = custody /\ desk' = desk
      /\ ~paused' => ~paused \/ turn.resumed
  BY DEF Compose, HandOver, GiveWay, PausedAfter, custodyVars
<1>4. /\ DesksKnow /\ StaffKeepIt /\ (custody # Nobody => custody <= Returns)
      /\ custody \in Nat \cup {Nobody}
  BY DEF CustodyInv, TypeOK
<1>5. (custody # Nobody => custody <= Returns)'
  <2>1. custody # Nobody => custody \in Nat
    BY <1>4
  <2>2. QED
    BY <1>1, <1>2, <1>3, <1>4, <2>1
<1>6. StaffKeepIt'
  <2>1. custody # Nobody => custody \in Nat
    BY <1>4
  <2>2. QED
    BY <1>1, <1>2, <1>3, <1>4, <2>1 DEF StaffKeepIt
<1>7. DesksKnow'
  <2> SUFFICES ASSUME NEW s \in Staff, desk[s] # Idle
               PROVE  /\ desk[s].returns <= Returns'
                      /\ desk[s].at # "takeover" => desk[s].paused
                      /\ desk[s].paused /\ ~paused' => Returns' > desk[s].returns
    BY <1>3 DEF DesksKnow
  <2>1. desk[s].returns \in Nat
    BY InProgress DEF Request
  <2>2. QED
    BY <1>1, <1>2, <1>3, <1>4, <2>1 DEF DesksKnow
<1>8. QED
  BY <1>1, <1>5, <1>6, <1>7 DEF CustodyInv

\* A handoff that is raised is not taken back yet.
LEMMA RaiseCustody ==
    ASSUME TypeOK, CustodyInv, NEW m \in Messages, RaiseHandoff(m)
    PROVE  CustodyInv'
<1>1. PICK h : h = Append(handoffs, Raised(TRUE))
  OBVIOUS
<1>2. /\ handoffs' = h
      /\ paused => paused'
      /\ UNCHANGED <<custody, releases, desk, turn>>
  BY <1>1 DEF RaiseHandoff, custodyVars
<1>3. /\ DOMAIN h = DOMAIN handoffs \cup {Len(handoffs) + 1}
      /\ \A i \in DOMAIN handoffs : h[i] = handoffs[i]
      /\ ~h[Len(handoffs) + 1].resumed
  <2>1. Raised(TRUE).resumed = FALSE
    BY DEF Raised
  <2>2. QED
    BY <1>1, <2>1, Raising DEF TypeOK
<1>4. Len(handoffs) + 1 \notin DOMAIN handoffs
  BY LenProperties DEF TypeOK
<1>5. Resumed' = Resumed
  BY <1>2, <1>3, <1>4 DEF Resumed
<1>6. Returns' = Returns
  BY <1>2, <1>5 DEF Returns
<1>7. StampedOnce' /\ TakesBackNew'
  BY <1>2, <1>3 DEF CustodyInv, StampedOnce, TakesBackNew, TakesBack
<1>8. DesksKnow'
  BY <1>2, <1>6 DEF CustodyInv, DesksKnow
<1>9. (custody # Nobody => custody <= Returns)' /\ StaffKeepIt'
  BY <1>2, <1>6 DEF CustodyInv, StaffKeepIt
<1>10. QED
  BY <1>7, <1>8, <1>9 DEF CustodyInv

\* Nor does anything staff do take one back; a release counts as a return.
LEMMA DeskCustody ==
    ASSUME TypeOK, CustodyInv, NEW s \in Staff, Takeover(s) \/ Reply(s) \/ Release(s)
    PROVE  CustodyInv'
<1>1. /\ DOMAIN handoffs' = DOMAIN handoffs
      /\ \A i \in DOMAIN handoffs :
            /\ handoffs'[i].resumed = handoffs[i].resumed
            /\ handoffs'[i].stamp => handoffs[i].stamp
  BY DeskHandoffs
<1>2. Resumed' = Resumed
  BY <1>1 DEF Resumed
<1>3. turn' = turn /\ desk' = [desk EXCEPT ![s] = Idle]
  BY DEF Takeover, Reply, Release
<1>4. StampedOnce' /\ TakesBackNew'
  BY <1>1, <1>3 DEF CustodyInv, StampedOnce, TakesBackNew, TakesBack
<1>5. desk[s] # Idle /\ desk[s] \in Request /\ desk \in [Staff -> Request \cup {Idle}]
  <2>1. desk[s].at # "idle"
    BY DEF Takeover, Reply, Release
  <2>2. QED
    BY <2>1, InProgress DEF TypeOK
<1>6. /\ Cardinality(Resumed) \in Nat /\ releases \in Nat /\ Returns \in Nat
      /\ desk[s].returns \in Nat /\ desk[s].returns # Nobody
  BY <1>5, CountResumed DEF TypeOK, Request, Nobody
<1>7. /\ desk[s].returns <= Returns
      /\ desk[s].at # "takeover" => desk[s].paused
      /\ desk[s].paused /\ ~paused => Returns > desk[s].returns
  BY <1>5 DEF CustodyInv, DesksKnow
<1>8. \A d \in Staff \ {s} : desk'[d] = desk[d]
  BY <1>3, <1>5
<1>9. desk'[s] = Idle
  BY <1>3, <1>5
<1>10. CASE Takeover(s) \/ Reply(s)
  <2>1. /\ releases' = releases /\ custody' = desk[s].returns
        /\ paused => paused'
        /\ ~paused' => desk[s].paused
    <3>1. CASE Takeover(s)
      <4>1. paused' = (paused \/ ~desk[s].paused) /\ releases' = releases
            /\ custody' = desk[s].returns
        BY <3>1 DEF Takeover
      <4>2. QED
        BY <4>1
    <3>2. CASE Reply(s)
      BY <1>7, <3>2 DEF Reply
    <3>3. QED
      BY <1>10, <3>1, <3>2
  <2>2. Returns' = Returns
    BY <1>2, <2>1 DEF Returns
  <2>3. (custody # Nobody => custody <= Returns)' /\ StaffKeepIt'
    BY <1>7, <2>1, <2>2 DEF StaffKeepIt
  <2>4. DesksKnow'
    BY <1>8, <1>9, <2>1, <2>2 DEF CustodyInv, DesksKnow
  <2>5. QED
    BY <1>4, <2>3, <2>4 DEF CustodyInv
<1>11. CASE Release(s)
  <2>1. /\ releases' = releases + 1 /\ custody' = Nobody /\ paused' = FALSE
    BY <1>11 DEF Release
  <2>2. Returns' = Returns + 1
    BY <1>2, <1>6, <2>1 DEF Returns
  <2>3. (custody # Nobody => custody <= Returns)' /\ StaffKeepIt'
    BY <2>1 DEF StaffKeepIt
  <2>4. DesksKnow'
    <3> SUFFICES ASSUME NEW d \in Staff \ {s}, desk[d] # Idle
                 PROVE  /\ desk[d].returns <= Returns'
                        /\ desk[d].at # "takeover" => desk[d].paused
                        /\ Returns' > desk[d].returns
      BY <1>8, <1>9 DEF DesksKnow
    <3>1. desk[d].returns \in Nat
      BY InProgress DEF Request
    <3>2. desk[d].returns <= Returns /\ (desk[d].at # "takeover" => desk[d].paused)
      BY DEF CustodyInv, DesksKnow
    <3>3. QED
      BY <1>6, <2>2, <3>1, <3>2
  <2>5. QED
    BY <1>4, <2>3, <2>4 DEF CustodyInv
<1>12. QED
  BY <1>10, <1>11

\* A click reads how things are.
LEMMA ClickCustody ==
    ASSUME TypeOK, CustodyInv, NEW s \in Staff, NEW op \in {"takeover", "reply", "release"},
           Click(s, op)
    PROVE  CustodyInv'
<1>1. /\ UNCHANGED <<paused, handoffs, custody, releases, turn>>
      /\ desk' = [desk EXCEPT ![s] = [at |-> op, paused |-> paused, item |-> OpenHandoff,
                                      returns |-> Returns]]
      /\ op # "takeover" => paused
      /\ desk \in [Staff -> Request \cup {Idle}]
  BY DEF Click, askVars, custodyVars, TypeOK
<1>2. Returns' = Returns
  BY <1>1 DEF Returns, Resumed
<1>3. /\ desk'[s].returns = Returns /\ desk'[s].paused = paused /\ desk'[s].at = op
      /\ \A d \in Staff \ {s} : desk'[d] = desk[d]
  BY <1>1
<1>4. Returns <= Returns
  BY CountResumed
<1>5. DesksKnow'
  BY <1>1, <1>2, <1>3, <1>4 DEF CustodyInv, DesksKnow
<1>6. StampedOnce' /\ TakesBackNew'
  BY <1>1 DEF CustodyInv, StampedOnce, TakesBackNew, TakesBack
<1>7. (custody # Nobody => custody <= Returns)' /\ StaffKeepIt'
  BY <1>1, <1>2 DEF CustodyInv, StaffKeepIt
<1>8. QED
  BY <1>5, <1>6, <1>7 DEF CustodyInv

\* What is in memory is gone, and nothing else.
LEMMA RestartCustody ==
    ASSUME TypeOK, CustodyInv, Restart
    PROVE  CustodyInv'
<1>1. /\ UNCHANGED <<paused, handoffs, custody, releases>>
      /\ turn' = Idle /\ \A s \in Staff : desk'[s] = Idle
  BY DEF Restart, askVars, custodyVars
<1>2. Returns' = Returns
  BY <1>1 DEF Returns, Resumed
<1>3. StampedOnce' /\ TakesBackNew' /\ DesksKnow'
  BY <1>1 DEF CustodyInv, StampedOnce, TakesBackNew, TakesBack, DesksKnow, Idle
<1>4. (custody # Nobody => custody <= Returns)' /\ StaffKeepIt'
  BY <1>1, <1>2 DEF CustodyInv, StaffKeepIt
<1>5. QED
  BY <1>3, <1>4 DEF CustodyInv

\* What staff took over or answered stays theirs until a release, whoever's it is, or
\* until the bot takes a handoff back that was raised over a message: the pause is
\* lifted in no other way, in any interleaving of turns, stickers and clicks.
THEOREM StaffKeepTheirs == Spec => []StaffKeepIt
<1>1. Init => CustodyInv
  <2> SUFFICES ASSUME Init PROVE CustodyInv
    OBVIOUS
  <2>1. /\ DOMAIN handoffs = {} /\ turn = Idle /\ custody = Nobody
        /\ \A s \in Staff : desk[s] = Idle
    <3>1. DOMAIN <<>> = {}
      OBVIOUS
    <3>2. QED
      BY <3>1 DEF Init
  <2>2. QED
    BY <2>1 DEF CustodyInv, StampedOnce, TakesBackNew, TakesBack, DesksKnow, StaffKeepIt, Idle
<1>2. TypeOK /\ CustodyInv /\ [Next]_vars => CustodyInv'
  BY QuietCustody, CommitCustody, RaiseCustody, DeskCustody, ClickCustody, RestartCustody
     DEF Next, Requests, Turns, Desks
<1>3. CustodyInv => StaffKeepIt
  BY DEF CustodyInv
<1>4. QED
  BY <1>1, <1>2, <1>3, TypeCorrect, PTL DEF Spec

-----------------------------------------------------------------------------
(* The queue.                                                              *)

\* Nothing pauses a conversation without telling staff, and no turn takes a handoff
\* out of their queue.
LEMMA StepSeen == TypeOK /\ PausedIsSeen /\ [Next]_vars => PausedIsSeen'
<1> SUFFICES ASSUME TypeOK, PausedIsSeen, [Next]_vars PROVE PausedIsSeen'
  OBVIOUS
<1>1. CASE UNCHANGED <<paused, handoffs, custody>>
  BY <1>1 DEF PausedIsSeen
<1>2. ASSUME NEW m \in Messages, RaiseHandoff(m) PROVE PausedIsSeen'
  <2>1. PICK h : h = Append(handoffs, Raised(TRUE))
    OBVIOUS
  <2>2. Len(handoffs) + 1 \in DOMAIN h /\ h[Len(handoffs) + 1] = Raised(TRUE)
    BY <2>1, Raising DEF TypeOK
  <2>3. handoffs' = h /\ Raised(TRUE).open = TRUE
    BY <1>2, <2>1 DEF RaiseHandoff, Raised
  <2>4. QED
    BY <2>2, <2>3 DEF PausedIsSeen
<1>3. CASE Compose \/ HandOver \/ GiveWay
  <2>1. turn \in Turn
    BY <1>3, InProgress DEF Compose, HandOver, GiveWay
  <2>2. PICK h : h = TakenBack
    OBVIOUS
  <2>3. /\ h \in Seq(Handoff) /\ DOMAIN h = DOMAIN handoffs
        /\ \A i \in DOMAIN handoffs : h[i].open = handoffs[i].open
    BY <2>1, <2>2, TakingBack
  <2>4. CASE HandOver
    <3>1. PICK stamp \in BOOLEAN : handoffs' = Append(h, Raised(stamp))
      BY <2>2, <2>4 DEF HandOver
    <3>2. Len(h) + 1 \in DOMAIN handoffs' /\ handoffs'[Len(h) + 1] = Raised(stamp)
      BY <2>3, <3>1, Raising
    <3>3. Raised(stamp).open = TRUE
      BY DEF Raised
    <3>4. QED
      BY <3>2, <3>3 DEF PausedIsSeen
  <2>5. CASE Compose \/ GiveWay
    <3>1. handoffs' = h /\ custody' = custody /\ (paused' => paused)
      BY <2>2, <2>5 DEF Compose, GiveWay, PausedAfter, custodyVars
    <3>2. QED
      BY <2>3, <3>1 DEF PausedIsSeen
  <2>6. QED
    BY <1>3, <2>4, <2>5
<1>4. ASSUME NEW s \in Staff, Takeover(s) \/ Reply(s) PROVE PausedIsSeen'
  <2>1. desk[s] \in Request /\ custody' = desk[s].returns
    BY <1>4, InProgress DEF Takeover, Reply
  <2>2. custody' # Nobody
    BY <2>1 DEF Request, Nobody
  <2>3. QED
    BY <2>2 DEF PausedIsSeen
<1>5. ASSUME NEW s \in Staff, Release(s) PROVE PausedIsSeen'
  BY <1>5 DEF Release, PausedIsSeen
<1>6. CASE \/ \E m \in Messages : Deliver(m) \/ Submit(m) \/ ReadForHandoff(m) \/ AcceptFails(m)
           \/ BeginTurn \/ RetryTurn \/ TakeBack \/ StoreForStaff \/ Apologise \/ Send
           \/ Crash \/ SendRaises \/ Restart
           \/ \E s \in Staff, op \in {"takeover", "reply", "release"} : Click(s, op)
           \/ UNCHANGED vars
  <2>1. UNCHANGED <<paused, handoffs, custody>>
    BY <1>6 DEF Deliver, Submit, ReadForHandoff, AcceptFails, BeginTurn, RetryTurn, TakeBack,
       StoreForStaff, Apologise, Send, Crash, SendRaises, Restart, Click, vars, askVars,
       custodyVars
  <2>2. QED
    BY <1>1, <2>1
<1>7. QED
  BY <1>2, <1>3, <1>4, <1>5, <1>6 DEF Next, Requests, Turns, Desks

\* A conversation that is paused is in the queue, or staff have taken it: no turn, crash
\* or restart leaves a customer waiting for a person nobody told.
THEOREM PausedIsInTheQueue == Spec => []PausedIsSeen
<1>1. Init => PausedIsSeen
  BY DEF Init, PausedIsSeen
<1>2. QED
  BY <1>1, StepSeen, TypeCorrect, PTL DEF Spec

-----------------------------------------------------------------------------
(* What becomes of a reply (ReplyDelivery).                                *)

Parts == Pictures \cup {"words", "picker", "instead"}

StoredLine ==
    [kind : {"reply", "push"}, key : Nat \ {0}, mids : SUBSET Nat, labels : SUBSET (Nat \X Pictures),
     attachments : SUBSET Pictures, missing : SUBSET Pictures, failed : BOOLEAN,
     receipt : {"none", "sent", "delivered", "read"}]

Worker ==
    [at : {"idle", "composing", "sending", "uploading", "storing", "stamping", "noting"},
     copy : Seq(StoredLine), since : Nat, key : Nat, parts : Seq(Parts), heard : SUBSET Nat,
     lost : SUBSET Parts, again : BOOLEAN, absent : BOOLEAN]

Starter == [at : {"idle", "recorded", "sent"}, key : Nat, id : Nat, ok : BOOLEAN]

DeliveryTypes ==
    /\ lines \in Seq(StoredLine)
    /\ job \in Worker
    /\ push \in Starter
    /\ meta \in Seq([key : Nat, part : Parts])
    /\ reports \subseteq Nat \X Statuses
    /\ written \in Nat

Delivering == job.at \notin {"idle", "composing"}

\* The worker's own line is stored, and is the newest or under a push.
WorkerKnown ==
    /\ Delivering => /\ job.key \in 1 .. written
                     /\ lines # <<>>
                     /\ \/ lines[Len(lines)].key = job.key
                        \/ lines[Len(lines)].kind = "push" /\ job.key < lines[Len(lines)].key
                     /\ \A id \in job.heard : id \in DOMAIN meta /\ meta[id].key = job.key
    /\ ~Delivering => job.key = 0 /\ job.parts = <<>> /\ job.lost = {} /\ job.heard = {}
    /\ job.at \in {"uploading", "storing"} => job.parts # <<>>
    /\ job.at \in {"stamping", "noting"} => job.parts = <<>>

PushKnown ==
    /\ IF push.at = "idle" THEN push.key = 0 ELSE push.key \in 1 .. written
    /\ push.ok => push.id \in DOMAIN meta /\ meta[push.id] = [key |-> push.key, part |-> "words"]

\* What the turn read is what the row still says, but for ids, failures and receipts.
CopyKnown ==
    job.at = "composing" =>
        /\ Len(job.copy) = job.since /\ job.since <= Len(lines)
        /\ \A i \in 1 .. job.since : /\ job.copy[i].key = lines[i].key
                                     /\ job.copy[i].attachments = lines[i].attachments
                                     /\ job.copy[i].missing = lines[i].missing

\* Of one line, with what Meta took and reported so far.
KnownOf(line, taken, told) ==
    /\ \A id \in line.mids : /\ id \in DOMAIN taken
                             /\ \/ line.key = taken[id].key
                                \/ line.kind = "push" /\ taken[id].key < line.key
    /\ line.labels = {<<id, taken[id].part>> : id \in {n \in line.mids : taken[n].part \in Pictures}}
    /\ line.receipt # "none" => \E id \in line.mids : <<id, line.receipt>> \in told

LinesKnown ==
    /\ \A i \in DOMAIN lines : lines[i].key <= written /\ KnownOf(lines[i], meta, reports)
    /\ \A i \in DOMAIN job.copy :
          job.copy[i].key <= written /\ KnownOf(job.copy[i], meta, reports)

\* A picture on a line is with Meta, counted as not delivered, on its way, or
\* the line's bookkeeping broke off.
AllBacked ==
    \A i \in DOMAIN lines : \A p \in lines[i].attachments :
        \/ Accepted(p)
        \/ lines[i].key \in unnoted
        \/ p \in Undelivered(lines)
        \/ lines[i].key = job.key /\ p \in Range(job.parts) \cup job.lost

RefusalsFlagged ==
    \A r \in refused :
        \/ r[1] \in alerts \cup unnoted
        \/ /\ r[1] = job.key /\ job.lost # {}
           /\ job.at \in {"sending", "uploading", "storing"}

DeliveryInv ==
    /\ DeliveryTypes /\ WorkerKnown /\ PushKnown /\ CopyKnown
    /\ LinesKnown /\ AllBacked /\ RefusalsFlagged

-----------------------------------------------------------------------------
(* The operators of a delivery.                                              *)

\* The newest of some lines is one of them.
LEMMA NewestOf ==
    ASSUME NEW n \in Nat, NEW S \in SUBSET (1 .. n), S # {}
    PROVE  Max(S) \in S
<1> DEFINE below == {n - x : x \in S}
<1>1. below \in SUBSET Nat /\ below # {}
  <2>1. \A x \in S : n - x \in Nat
    OBVIOUS
  <2>2. QED
    BY <2>1
<1>2. PICK t \in below : \A y \in below : t <= y
  BY <1>1, SmallestOf
<1>3. PICK x \in S : t = n - x
  BY <1>2
<1>4. \A y \in S : x >= y
  <2> TAKE y \in S
  <2>1. n - x <= n - y
    BY <1>2, <1>3
  <2>2. x \in Nat /\ y \in Nat
    OBVIOUS
  <2> QED
    BY <2>1, <2>2
<1>5. QED
  BY <1>3, <1>4 DEF Max

\* A set made a sequence has its elements and no others.
LEMMA SequenceOfSet ==
    ASSUME NEW S, IsFiniteSet(S)
    PROVE  SetToSeq(S) \in Seq(S) /\ Range(SetToSeq(S)) = S
<1> DEFINE n == Cardinality(S)
<1>1. n \in Nat /\ ExistsBijection(1..n, S)
  BY FS_CardinalityType
<1>2. PICK b : b \in Bijection(1..n, S)
  BY <1>1 DEF ExistsBijection
<1>3. b \in [1..n -> S] /\ IsInjective(b)
  BY <1>2 DEF Bijection, Injection, IsInjective
<1>4. SetToSeq(S) \in [1..n -> S] /\ IsInjective(SetToSeq(S))
  BY <1>3 DEF SetToSeq
<1>5. SetToSeq(S) \in Injection(1..n, S)
  BY <1>4 DEF Injection, IsInjective
<1>6. Cardinality(1..n) = n /\ IsFiniteSet(1..n)
  BY <1>1, FS_Interval
<1>7. SetToSeq(S) \in Surjection(1..n, S)
  BY <1>5, <1>6, FS_Injection
<1>8. Range(SetToSeq(S)) = S
  BY <1>4, <1>7 DEF Surjection, Range
<1>9. SetToSeq(S) \in Seq(S)
  BY <1>1, <1>4, SeqDef
<1>10. QED
  BY <1>8, <1>9

\* The parts of a reply, among them each of its pictures.
LEMMA PartsOfReply ==
    ASSUME NEW pictures \in SUBSET Pictures, NEW picker \in BOOLEAN
    PROVE  /\ PartsOf(pictures, picker) \in Seq(Parts)
           /\ pictures \subseteq Range(PartsOf(pictures, picker))
<1> DEFINE s == SetToSeq(pictures)
           front == <<"words">> \o (IF picker THEN <<"picker">> ELSE <<>>)
<1>1. IsFiniteSet(pictures)
  BY DeliveryAssumption, FS_Subset
<1>2. s \in Seq(pictures) /\ Range(s) = pictures
  BY <1>1, SequenceOfSet
<1>3. s \in Seq(Parts)
  BY <1>2, SeqMonotonic DEF Parts
<1>4. front \in Seq(Parts)
  <2>1. <<"words">> \in Seq(Parts) /\ <<"picker">> \in Seq(Parts) /\ <<>> \in Seq(Parts)
    BY DEF Parts
  <2>2. (IF picker THEN <<"picker">> ELSE <<>>) \in Seq(Parts)
    BY <2>1
  <2>3. QED
    BY <2>1, <2>2, ConcatProperties
<1>5. front \o s \in Seq(Parts)
  BY <1>3, <1>4, ConcatProperties
<1>6. \A i \in 1..Len(s) : (front \o s)[Len(front) + i] = s[i] /\ Len(front) + i \in DOMAIN (front \o s)
  <2> TAKE i \in 1..Len(s)
  <2>1. Len(front) \in Nat /\ Len(s) \in Nat
    BY <1>3, <1>4, LenProperties
  <2>2. Len(front \o s) = Len(front) + Len(s) /\ DOMAIN (front \o s) = 1..Len(front \o s)
    BY <1>3, <1>4, <1>5, ConcatProperties, LenProperties
  <2>3. Len(front) + i \in 1 .. Len(front) + Len(s) /\ ~ (Len(front) + i <= Len(front))
    BY <2>1
  <2>4. (front \o s)[Len(front) + i] = s[Len(front) + i - Len(front)]
    BY <2>3, <1>3, <1>4, ConcatProperties
  <2>5. Len(front) + i - Len(front) = i
    BY <2>1
  <2> QED
    BY <2>2, <2>3, <2>4, <2>5
<1>7. pictures \subseteq Range(front \o s)
  <2> SUFFICES ASSUME NEW p \in pictures PROVE p \in Range(front \o s)
    OBVIOUS
  <2>1. PICK i \in DOMAIN s : s[i] = p
    BY <1>2 DEF Range
  <2>2. i \in 1..Len(s)
    BY <1>2, LenProperties
  <2>3. QED
    BY <1>6, <2>1, <2>2 DEF Range
<1>8. PartsOf(pictures, picker) = front \o s
  BY DEF PartsOf
<1>9. QED
  BY <1>5, <1>7, <1>8

\* The parts that are left after the first.
LEMMA PartsLeft ==
    ASSUME NEW s \in Seq(Parts), s # <<>>
    PROVE  /\ Head(s) \in Parts /\ Tail(s) \in Seq(Parts)
           /\ \A p \in Range(s) : p = Head(s) \/ p \in Range(Tail(s))
           /\ \A q \in Parts : /\ <<q>> \o Tail(s) \in Seq(Parts)
                               /\ <<q>> \o Tail(s) # <<>>
                               /\ Range(Tail(s)) \subseteq Range(<<q>> \o Tail(s))
<1>1. Head(s) \in Parts /\ Tail(s) \in Seq(Parts) /\ Len(Tail(s)) = Len(s) - 1
      /\ \A i \in 1 .. Len(Tail(s)) : Tail(s)[i] = s[i+1]
  BY HeadTailProperties
<1>2. Len(s) \in Nat \ {0} /\ DOMAIN s = 1..Len(s) /\ DOMAIN Tail(s) = 1..Len(Tail(s)) /\ Head(s) = s[1]
  BY <1>1, EmptySeq, LenProperties
<1>3. \A p \in Range(s) : p = Head(s) \/ p \in Range(Tail(s))
  <2> SUFFICES ASSUME NEW i \in DOMAIN s PROVE s[i] = Head(s) \/ s[i] \in Range(Tail(s))
    BY DEF Range
  <2>1. CASE i = 1
    BY <1>2, <2>1
  <2>2. CASE i # 1
    <3>1. i - 1 \in DOMAIN Tail(s) /\ (i - 1) + 1 = i
      BY <1>1, <1>2, <2>2
    <3>2. Tail(s)[i - 1] = s[i]
      BY <1>1, <1>2, <3>1
    <3> QED
      BY <3>1, <3>2 DEF Range
  <2> QED
    BY <2>1, <2>2
<1>4. ASSUME NEW q \in Parts
      PROVE  /\ <<q>> \o Tail(s) \in Seq(Parts)
             /\ <<q>> \o Tail(s) # <<>>
             /\ Range(Tail(s)) \subseteq Range(<<q>> \o Tail(s))
  <2>1. <<q>> \in Seq(Parts) /\ Len(<<q>>) = 1
    OBVIOUS
  <2>2. /\ <<q>> \o Tail(s) \in Seq(Parts)
        /\ Len(<<q>> \o Tail(s)) = 1 + Len(Tail(s))
        /\ \A i \in 1 .. 1 + Len(Tail(s)) :
              (<<q>> \o Tail(s))[i] = IF i <= 1 THEN <<q>>[i] ELSE Tail(s)[i - 1]
    BY <1>1, <2>1, ConcatProperties
  <2>3. DOMAIN (<<q>> \o Tail(s)) = 1 .. 1 + Len(Tail(s)) /\ Len(Tail(s)) \in Nat
    BY <1>1, <2>2, LenProperties
  <2>4. <<q>> \o Tail(s) # <<>>
    BY <2>2, <2>3, EmptySeq
  <2>5. ASSUME NEW i \in DOMAIN Tail(s)
        PROVE  Tail(s)[i] \in Range(<<q>> \o Tail(s))
    <3>1. i + 1 \in 1 .. 1 + Len(Tail(s)) /\ ~ (i + 1 <= 1) /\ (i + 1) - 1 = i
      BY <1>2, <2>3
    <3>2. (<<q>> \o Tail(s))[i + 1] = Tail(s)[i]
      BY <2>2, <3>1
    <3> QED
      BY <2>3, <3>1, <3>2 DEF Range
  <2> QED
    BY <2>2, <2>4, <2>5 DEF Range
<1>5. QED
  BY <1>1, <1>3, <1>4

Message == [key : Nat, part : Parts]

\* What Meta took stays taken.
MetaGrows ==
    /\ meta' \in Seq(Message)
    /\ \A id \in DOMAIN meta : id \in DOMAIN meta' /\ meta'[id] = meta[id]

LEMMA MetaTakes ==
    ASSUME meta \in Seq(Message), NEW m \in Message, meta' \in {meta, Append(meta, m)}
    PROVE  /\ MetaGrows
           /\ Len(meta) + 1 \in Nat
           /\ meta' = Append(meta, m) => /\ Len(meta) + 1 \in DOMAIN meta'
                                         /\ meta'[Len(meta) + 1] = m
<1>1. Len(meta) \in Nat /\ DOMAIN meta = 1..Len(meta)
  BY LenProperties
<1>2. CASE meta' = meta /\ meta' # Append(meta, m)
  <2>1. MetaGrows
    BY <1>2 DEF MetaGrows
  <2>2. Len(meta) + 1 \in Nat
    BY <1>1
  <2>3. meta' # Append(meta, m)
    BY <1>2
  <2> QED
    BY <2>1, <2>2, <2>3, Zenon
<1>3. CASE meta' = Append(meta, m)
  <2>1. /\ Append(meta, m) \in Seq(Message)
        /\ Len(Append(meta, m)) = Len(meta) + 1
        /\ \A i \in 1..Len(meta) : Append(meta, m)[i] = meta[i]
        /\ Append(meta, m)[Len(meta) + 1] = m
    BY <1>1, AppendProperties
  <2>2. DOMAIN Append(meta, m) = 1 .. Len(meta) + 1
    BY <2>1, LenProperties
  <2> QED
    BY <1>1, <1>3, <2>1, <2>2 DEF MetaGrows
<1>4. QED
  BY <1>2, <1>3

\* One part is tried: Meta has it, or it is given up, or it is followed by words.
PartTried ==
    /\ job' \in Worker
    /\ job'.at = "sending" /\ job'.key = job.key /\ job'.copy = job.copy /\ job'.since = job.since
    /\ MetaGrows
    /\ \A id \in job'.heard : \/ id \in job.heard
                              \/ id \in DOMAIN meta' /\ meta'[id].key = job.key
    /\ \A p \in Pictures : p \in Range(job.parts) \cup job.lost =>
          p \in Range(job'.parts) \cup job'.lost \/ Accepted(p)'
    /\ job.lost \subseteq job'.lost
    /\ refused' = refused \/ (refused' = refused \cup {<<job.key, NextPart>>} /\ job'.lost # {})

LEMMA Trying ==
    ASSUME DeliveryTypes, Delivering, job.parts # <<>>, Post \/ (PartLost /\ UNCHANGED meta)
    PROVE  PartTried
<1> DEFINE m == [key |-> job.key, part |-> NextPart]
<1>1. job \in Worker /\ meta \in Seq(Message) /\ job.parts \in Seq(Parts) /\ job.lost \in SUBSET Parts
      /\ job.heard \in SUBSET Nat /\ job.key \in Nat
  BY DEF DeliveryTypes, Worker, Message
<1>2. /\ NextPart \in Parts /\ Tail(job.parts) \in Seq(Parts)
      /\ \A p \in Range(job.parts) : p = NextPart \/ p \in Range(Tail(job.parts))
      /\ <<"instead">> \o Tail(job.parts) \in Seq(Parts)
      /\ Range(Tail(job.parts)) \subseteq Range(<<"instead">> \o Tail(job.parts))
  <2>1. "instead" \in Parts
    BY DEF Parts
  <2> QED
    BY <1>1, <2>1, PartsLeft DEF NextPart
<1>3. m \in Message
  BY <1>1, <1>2 DEF Message
<1>4. (PartLost \/ PartAccepted(TRUE) \/ PartAccepted(FALSE)) /\ meta' \in {meta, Append(meta, m)}
  BY DEF Post, PartAccepted
<1>5. /\ MetaGrows /\ Len(meta) + 1 \in Nat
      /\ meta' = Append(meta, m) => Len(meta) + 1 \in DOMAIN meta' /\ meta'[Len(meta) + 1] = m
  BY <1>1, <1>3, <1>4, MetaTakes
<1>6. CASE PartLost
  <2> DEFINE parts == IF NextPart = "picker" THEN <<"instead">> \o Tail(job.parts) ELSE Tail(job.parts)
             lost == IF NextPart = "picker" THEN job.lost ELSE job.lost \cup {NextPart}
  <2>1. parts \in Seq(Parts) /\ lost \in SUBSET Parts
    BY <1>1, <1>2
  <2>2. job' = [job EXCEPT !.at = "sending", !.again = FALSE, !.parts = parts, !.lost = lost]
    BY <1>6 DEF PartLost
  <2>3. /\ job' \in Worker /\ job'.at = "sending" /\ job'.key = job.key /\ job'.copy = job.copy
        /\ job'.since = job.since /\ job'.heard = job.heard /\ job'.parts = parts /\ job'.lost = lost
    <3> HIDE DEF parts, lost
    <3> QED
      BY <1>1, <2>1, <2>2 DEF Worker
  <2>4. \A p \in Pictures : p \in Range(job.parts) \cup job.lost => p \in Range(parts) \cup lost
    <3>1. "picker" \notin Pictures
      BY DeliveryAssumption
    <3> QED
      BY <1>2, <3>1
  <2>5. refused' = refused \/ (refused' = refused \cup {<<job.key, NextPart>>} /\ job'.lost # {})
    BY <1>6, <2>3 DEF PartLost
  <2>6. job.lost \subseteq lost
    OBVIOUS
  <2>7. QED
    BY <1>5, <2>3, <2>4, <2>5, <2>6 DEF PartTried
<1>7. CASE \E heard \in BOOLEAN : PartAccepted(heard)
  <2>1. PICK heard \in BOOLEAN : PartAccepted(heard)
    BY <1>7
  <2> DEFINE ids == IF heard THEN job.heard \cup {Len(meta) + 1} ELSE job.heard
  <2>2. ids \in SUBSET Nat
    BY <1>1, <1>5
  <2>3. job' = [job EXCEPT !.at = "sending", !.again = FALSE, !.parts = Tail(job.parts), !.heard = ids]
    BY <2>1 DEF PartAccepted
  <2>4. /\ job' \in Worker /\ job'.at = "sending" /\ job'.key = job.key /\ job'.copy = job.copy
        /\ job'.since = job.since /\ job'.heard = ids /\ job'.parts = Tail(job.parts)
        /\ job'.lost = job.lost
    <3> HIDE DEF ids
    <3> QED
      BY <1>1, <1>2, <2>2, <2>3 DEF Worker
  <2>5. meta' = Append(meta, m) /\ refused' = refused
    BY <2>1 DEF PartAccepted
  <2>6. Len(meta) + 1 \in DOMAIN meta' /\ meta'[Len(meta) + 1].key = job.key
        /\ meta'[Len(meta) + 1].part = NextPart
    BY <1>5, <2>5
  <2>7. \A id \in job'.heard : id \in job.heard \/ (id \in DOMAIN meta' /\ meta'[id].key = job.key)
    BY <2>4, <2>6
  <2>8. \A p \in Pictures : p \in Range(job.parts) \cup job.lost =>
          p \in Range(job'.parts) \cup job'.lost \/ Accepted(p)'
    BY <1>2, <2>4, <2>6 DEF Accepted
  <2>9. QED
    BY <1>5, <2>4, <2>5, <2>7, <2>8 DEF PartTried
<1>8. QED
  BY <1>4, <1>6, <1>7

\* Lines are changed one by one.
LEMMA SameLines ==
    ASSUME lines \in Seq(StoredLine), NEW f \in [DOMAIN lines -> StoredLine]
    PROVE  f \in Seq(StoredLine) /\ Len(f) = Len(lines) /\ DOMAIN f = DOMAIN lines
<1>1. Len(lines) \in Nat /\ DOMAIN lines = 1..Len(lines)
  BY LenProperties
<1>2. f \in Seq(StoredLine)
  BY <1>1, SeqDef
<1>3. Len(f) \in Nat /\ DOMAIN f = 1..Len(f) /\ DOMAIN f = 1..Len(lines)
  BY <1>1, <1>2, LenProperties
<1>4. QED
  BY <1>1, <1>2, <1>3

\* The newest line is changed.
LEMMA NewestChanged ==
    ASSUME lines \in Seq(StoredLine), lines # <<>>, NEW line \in StoredLine,
           NEW f, f = [lines EXCEPT ![Len(lines)] = line]
    PROVE  /\ f \in [DOMAIN lines -> StoredLine] /\ Len(lines) \in DOMAIN lines
           /\ f[Len(lines)] = line
           /\ \A i \in DOMAIN lines : i # Len(lines) => f[i] = lines[i]
<1>1. Len(lines) \in Nat \ {0} /\ DOMAIN lines = 1..Len(lines) /\ lines \in [1..Len(lines) -> StoredLine]
  BY LenProperties, EmptySeq
<1>2. QED
  BY <1>1

\* What follows the first of a sequence.
LEMMA LaterPart ==
    ASSUME NEW S, NEW s \in Seq(S), NEW a \in Nat
    PROVE  /\ SubSeq(s, a + 1, Len(s)) \in Seq(S)
           /\ Len(SubSeq(s, a + 1, Len(s))) = IF a + 1 <= Len(s) THEN Len(s) - (a + 1) + 1 ELSE 0
           /\ \A i \in 1 .. Len(s) - (a + 1) + 1 :
                 SubSeq(s, a + 1, Len(s))[i] = s[(a + 1) + i - 1]
<1>1. a + 1 \in Int /\ Len(s) \in Int
  BY LenProperties
<1>2. \A i \in a + 1 .. Len(s) : s[i] \in S
  BY ElementOfSeq, LenProperties
<1>3. /\ SubSeq(s, a + 1, Len(s)) \in Seq(S)
      /\ Len(SubSeq(s, a + 1, Len(s))) = IF a + 1 <= Len(s) THEN Len(s) - (a + 1) + 1 ELSE 0
  BY <1>1, <1>2, SubSeqProperties, Zenon
<1>4. \A i \in 1 .. Len(s) - (a + 1) + 1 : SubSeq(s, a + 1, Len(s))[i] = s[(a + 1) + i - 1]
  BY LenProperties
<1>5. QED
  BY <1>3, <1>4

\* The lines of a turn that ends: those it read, those of the meantime, its own.
RewrittenWith(all, line) ==
    /\ all \in Seq(StoredLine) /\ all # <<>> /\ all[Len(all)] = line
    /\ \A k \in DOMAIN all : \/ k \in DOMAIN job.copy /\ all[k] = job.copy[k]
                             \/ \E i \in DOMAIN lines : i > job.since /\ all[k] = lines[i]
                             \/ all[k] = line
    /\ \A i \in DOMAIN job.copy : i \in DOMAIN all /\ all[i] = job.copy[i]
    /\ \A i \in DOMAIN lines : i > job.since => \E k \in DOMAIN all : all[k] = lines[i]

LEMMA RewrittenLines ==
    ASSUME DeliveryTypes, NEW line \in StoredLine
    PROVE  RewrittenWith(Rewritten(line), line)
<1>1. PICK all : all = Rewritten(line)
  OBVIOUS
<1> DEFINE c == job.copy
           since == job.since
           new == SubSeq(lines, since + 1, Len(lines))
           front == c \o new
           n == Len(c)
           m == Len(new)
<1>2. c \in Seq(StoredLine) /\ since \in Nat /\ lines \in Seq(StoredLine)
  BY DEF DeliveryTypes, Worker
<1>3. Len(lines) \in Nat /\ DOMAIN lines = 1..Len(lines) /\ \A i \in DOMAIN lines : lines[i] \in StoredLine
  BY <1>2, LenProperties, ElementOfSeq
<1>4. /\ new \in Seq(StoredLine)
      /\ m = IF since + 1 <= Len(lines) THEN Len(lines) - (since + 1) + 1 ELSE 0
      /\ \A i \in 1 .. Len(lines) - (since + 1) + 1 : new[i] = lines[(since + 1) + i - 1]
  BY <1>2, LaterPart, Zenon
<1>5. n \in Nat /\ m \in Nat /\ DOMAIN c = 1..n /\ DOMAIN new = 1..m
  BY <1>2, <1>4, LenProperties
<1>6. /\ m = IF since < Len(lines) THEN Len(lines) - since ELSE 0
      /\ \A i \in 1 .. m : since + i \in DOMAIN lines /\ new[i] = lines[since + i]
  <2>1. m = IF since < Len(lines) THEN Len(lines) - since ELSE 0
    BY <1>2, <1>3, <1>4
  <2>2. ASSUME NEW i \in 1 .. m PROVE since + i \in DOMAIN lines /\ new[i] = lines[since + i]
    <3> DEFINE len == Len(lines)
    <3>1. len \in Nat /\ since \in Nat /\ m = IF since < len THEN len - since ELSE 0
      BY <1>2, <1>3, <2>1
    <3> HIDE DEF len, since, m
    <3>2. i \in 1 .. len - (since + 1) + 1 /\ (since + 1) + i - 1 = since + i /\ since + i \in 1..len
      BY <3>1
    <3> USE DEF len
    <3> HIDE DEF new, since
    <3> QED
      BY <1>3, <1>4, <3>2
  <2> QED
    BY <2>1, <2>2
<1> HIDE DEF c, new, since
<1>7. /\ front \in Seq(StoredLine) /\ Len(front) = n + m
      /\ \A i \in 1 .. n + m : front[i] = IF i <= n THEN c[i] ELSE new[i - n]
  BY <1>2, <1>4, ConcatProperties
<1> HIDE DEF front, n, m
<1>8. <<line>> \in Seq(StoredLine) /\ Len(<<line>>) = 1 /\ <<line>>[1] = line
  OBVIOUS
<1>9. all = front \o <<line>>
  BY <1>1 DEF Rewritten, front, c, new, since
<1>10. /\ all \in Seq(StoredLine) /\ Len(all) = n + m + 1
       /\ \A i \in 1 .. n + m + 1 : all[i] = IF i <= n + m THEN front[i] ELSE <<line>>[i - (n + m)]
  <2>1. /\ all \in Seq(StoredLine) /\ Len(all) = Len(front) + Len(<<line>>)
        /\ \A i \in 1 .. Len(front) + Len(<<line>>) :
              all[i] = IF i <= Len(front) THEN front[i] ELSE <<line>>[i - Len(front)]
    BY <1>7, <1>8, <1>9, ConcatProperties
  <2> QED
    BY <1>5, <1>7, <1>8, <2>1
<1>11. DOMAIN all = 1 .. n + m + 1
  BY <1>10, LenProperties
<1>12. \A i \in 1 .. n : all[i] = c[i]
  BY <1>5, <1>7, <1>10
<1>13. \A i \in 1 .. m : n + i \in 1 .. n + m + 1 /\ all[n + i] = new[i]
  <2> TAKE i \in 1 .. m
  <2>1. n + i \in 1 .. n + m /\ n + i \in 1 .. n + m + 1 /\ n + i <= n + m /\ ~ (n + i <= n) /\ (n + i) - n = i
    BY <1>5
  <2>2. all[n + i] = front[n + i]
    BY <1>10, <2>1
  <2>3. front[n + i] = new[(n + i) - n]
    BY <1>7, <2>1
  <2> QED
    BY <2>1, <2>2, <2>3
<1>14. n + m + 1 \in 1 .. n + m + 1 /\ all[n + m + 1] = line
  <2>1. ~ (n + m + 1 <= n + m) /\ (n + m + 1) - (n + m) = 1 /\ n + m + 1 \in 1 .. n + m + 1
    BY <1>5
  <2>2. all[n + m + 1] = <<line>>[(n + m + 1) - (n + m)]
    BY <1>10, <2>1
  <2> QED
    BY <1>8, <2>1, <2>2
<1>15. all # <<>>
  BY <1>5, <1>10, EmptySeq
<1>16. \A k \in DOMAIN all : \/ k \in DOMAIN c /\ all[k] = c[k]
                             \/ \E i \in DOMAIN lines : i > since /\ all[k] = lines[i]
                             \/ all[k] = line
  <2> TAKE k \in DOMAIN all
  <2>1. CASE k \in 1 .. n
    BY <1>5, <1>12, <2>1
  <2>2. CASE k \in n + 1 .. n + m
    <3>1. k - n \in 1 .. m /\ n + (k - n) = k
      BY <1>5, <2>2
    <3>2. all[k] = lines[since + (k - n)] /\ since + (k - n) \in DOMAIN lines
      BY <1>6, <1>13, <3>1
    <3>3. since + (k - n) > since
      BY <1>2, <1>5, <3>1
    <3> QED
      BY <3>2, <3>3
  <2>3. CASE k = n + m + 1
    BY <1>14, <2>3
  <2>4. k \in 1 .. n \/ k \in n + 1 .. n + m \/ k = n + m + 1
    BY <1>5, <1>11
  <2> QED
    BY <2>1, <2>2, <2>3, <2>4
<1>17. \A i \in DOMAIN c : i \in DOMAIN all /\ all[i] = c[i]
  BY <1>5, <1>11, <1>12
<1>18. \A i \in DOMAIN lines : i > since => \E k \in DOMAIN all : all[k] = lines[i]
  <2> SUFFICES ASSUME NEW i \in DOMAIN lines, i > since PROVE \E k \in DOMAIN all : all[k] = lines[i]
    OBVIOUS
  <2>1. i - since \in 1 .. m /\ since + (i - since) = i
    <3>1. i \in 1..Len(lines)
      BY <1>3
    <3>2. m = IF since < Len(lines) THEN Len(lines) - since ELSE 0
      BY <1>6
    <3>3. since \in Nat /\ Len(lines) \in Nat
      BY <1>2, <1>3
    <3>4. i - since \in Nat /\ i - since >= 1 /\ i - since <= m /\ m \in Nat
      BY <3>1, <3>2, <3>3
    <3> QED
      BY <3>1, <3>3, <3>4
  <2>2. n + (i - since) \in DOMAIN all /\ all[n + (i - since)] = lines[i]
    BY <1>6, <1>11, <1>13, <2>1
  <2> QED
    BY <2>2
<1>19. RewrittenWith(all, line)
  BY <1>10, <1>11, <1>14, <1>15, <1>16, <1>17, <1>18 DEF c, since, RewrittenWith
<1>20. QED
  BY <1>1, <1>19

-----------------------------------------------------------------------------
(* The invariant of the deliveries, step by step.                            *)

\* What is known of a line stays known.
LEMMA KnownStays ==
    ASSUME MetaGrows, reports \subseteq reports', NEW line, KnownOf(line, meta, reports)
    PROVE  KnownOf(line, meta', reports')
<1>1. \A id \in line.mids : id \in DOMAIN meta /\ id \in DOMAIN meta' /\ meta'[id] = meta[id]
  BY DEF KnownOf, MetaGrows
<1>2. {<<id, meta'[id].part>> : id \in {n \in line.mids : meta'[n].part \in Pictures}}
      = {<<id, meta[id].part>> : id \in {n \in line.mids : meta[n].part \in Pictures}}
  BY <1>1
<1>3. QED
  BY <1>1, <1>2 DEF KnownOf

LEMMA LinesStay ==
    ASSUME LinesKnown, MetaGrows, reports \subseteq reports', lines' = lines, written' = written,
           job'.copy \in {job.copy, <<>>}
    PROVE  LinesKnown'
<1>1. \A i \in DOMAIN lines' : lines'[i].key <= written' /\ KnownOf(lines'[i], meta', reports')
  BY KnownStays DEF LinesKnown
<1>2. \A i \in DOMAIN job'.copy :
         job'.copy[i].key <= written' /\ KnownOf(job'.copy[i], meta', reports')
  <2>1. CASE job'.copy = job.copy
    BY <2>1, KnownStays DEF LinesKnown
  <2>2. CASE job'.copy = <<>>
    BY <2>2
  <2> QED
    BY <2>1, <2>2
<1>3. QED
  BY <1>1, <1>2 DEF LinesKnown

\* A worker that left, or has not written yet, owes nothing.
LEMMA BackedStays ==
    ASSUME AllBacked, MetaGrows, unnoted \subseteq unnoted',
           lines \in Seq(StoredLine), lines' \in Seq(StoredLine),
           \A i \in DOMAIN lines' :
              \/ \E k \in DOMAIN lines : /\ lines'[i].key = lines[k].key
                                         /\ lines'[i].attachments \subseteq lines[k].attachments
              \/ lines'[i].key = job'.key /\ lines'[i].attachments \subseteq Range(job'.parts),
           \A k \in DOMAIN lines : \E i \in DOMAIN lines' : lines[k].missing \subseteq lines'[i].missing,
           \A k \in DOMAIN lines : \A p \in Pictures :
              lines[k].key = job.key /\ p \in Range(job.parts) \cup job.lost =>
                 \/ Accepted(p)'
                 \/ lines[k].key \in unnoted'
                 \/ p \in Undelivered(lines')
                 \/ lines[k].key = job'.key /\ p \in Range(job'.parts) \cup job'.lost
    PROVE  AllBacked'
<1> SUFFICES ASSUME NEW i \in DOMAIN lines', NEW p \in lines'[i].attachments
             PROVE  \/ Accepted(p)'
                    \/ lines'[i].key \in unnoted'
                    \/ p \in Undelivered(lines')
                    \/ lines'[i].key = job'.key /\ p \in Range(job'.parts) \cup job'.lost
  BY DEF AllBacked
<1>1. CASE lines'[i].key = job'.key /\ lines'[i].attachments \subseteq Range(job'.parts)
  BY <1>1
<1>2. ASSUME NEW k \in DOMAIN lines, lines'[i].key = lines[k].key,
             lines'[i].attachments \subseteq lines[k].attachments
      PROVE  \/ Accepted(p)'
             \/ lines'[i].key \in unnoted'
             \/ p \in Undelivered(lines')
             \/ lines'[i].key = job'.key /\ p \in Range(job'.parts) \cup job'.lost
  <2>1. p \in lines[k].attachments
    BY <1>2
  <2>2. p \in Pictures
    <3>1. lines[k] \in StoredLine
      BY ElementOfSeq, LenProperties
    <3> QED
      BY <2>1, <3>1 DEF StoredLine
  <2>3. CASE Accepted(p)
    BY <2>3 DEF Accepted, MetaGrows
  <2>4. CASE lines[k].key \in unnoted
    BY <1>2, <2>4
  <2>5. CASE p \in Undelivered(lines)
    <3>1. PICK j \in DOMAIN lines : p \in lines[j].missing
      BY <2>5 DEF Undelivered
    <3>2. PICK n \in DOMAIN lines' : lines[j].missing \subseteq lines'[n].missing
      OBVIOUS
    <3> QED
      BY <3>1, <3>2 DEF Undelivered
  <2>6. CASE lines[k].key = job.key /\ p \in Range(job.parts) \cup job.lost
    BY <1>2, <2>2, <2>6
  <2> QED
    BY <2>1, <2>3, <2>4, <2>5, <2>6 DEF AllBacked
<1>3. QED
  BY <1>1, <1>2

\* The same when no line was touched.
LEMMA BackedStaysHere ==
    ASSUME AllBacked, MetaGrows, unnoted \subseteq unnoted', lines \in Seq(StoredLine), lines' = lines,
           \A k \in DOMAIN lines : \A p \in Pictures :
              lines[k].key = job.key /\ p \in Range(job.parts) \cup job.lost =>
                 \/ Accepted(p)'
                 \/ job.key \in unnoted'
                 \/ lines[k].key = job'.key /\ p \in Range(job'.parts) \cup job'.lost
    PROVE  AllBacked'
<1>1. lines' \in Seq(StoredLine)
  OBVIOUS
<1>2. \A i \in DOMAIN lines' :
         \/ \E k \in DOMAIN lines : /\ lines'[i].key = lines[k].key
                                    /\ lines'[i].attachments \subseteq lines[k].attachments
         \/ lines'[i].key = job'.key /\ lines'[i].attachments \subseteq Range(job'.parts)
  OBVIOUS
<1>3. \A k \in DOMAIN lines : \E i \in DOMAIN lines' : lines[k].missing \subseteq lines'[i].missing
  OBVIOUS
<1>4. \A k \in DOMAIN lines : \A p \in Pictures :
         lines[k].key = job.key /\ p \in Range(job.parts) \cup job.lost =>
            \/ Accepted(p)'
            \/ lines[k].key \in unnoted'
            \/ p \in Undelivered(lines')
            \/ lines[k].key = job'.key /\ p \in Range(job'.parts) \cup job'.lost
  OBVIOUS
<1>5. QED
  BY <1>1, <1>2, <1>3, <1>4, BackedStays

LEMMA PushStays ==
    ASSUME PushKnown, MetaGrows, push' = push, written' \in Nat, written \in Nat, written <= written',
           push \in Starter
    PROVE  PushKnown'
<1>1. IF push.at = "idle" THEN push.key = 0 ELSE push.key \in 1 .. written'
  BY DEF PushKnown, Starter
<1>2. push.ok => push.id \in DOMAIN meta' /\ meta'[push.id] = [key |-> push.key, part |-> "words"]
  BY DEF PushKnown, MetaGrows
<1>3. QED
  BY <1>1, <1>2 DEF PushKnown

\* No line is a worker's that has none.
LEMMA KeysAreSome ==
    ASSUME DeliveryTypes
    PROVE  \A k \in DOMAIN lines : lines[k] \in StoredLine /\ lines[k].key \in Nat \ {0}
<1>1. \A k \in DOMAIN lines : lines[k] \in StoredLine
  BY ElementOfSeq, LenProperties DEF DeliveryTypes
<1>2. QED
  BY <1>1 DEF StoredLine

LEMMA NoJobIsOne == NoJob \in Worker /\ NoJob.at = "idle" /\ NoJob.key = 0 /\ NoJob.copy = <<>>
                    /\ NoJob.parts = <<>> /\ NoJob.lost = {} /\ NoJob.heard = {}
<1>1. <<>> \in Seq(StoredLine) /\ <<>> \in Seq(Parts)
  BY EmptySeq
<1>2. QED
  BY <1>1 DEF NoJob, Worker

\* The worker goes on with the same part.
PartAhead ==
    /\ job' \in Worker /\ job'.at \in {"uploading", "storing"}
    /\ job'.key = job.key /\ job'.copy = job.copy /\ job'.parts = job.parts
    /\ job'.heard = job.heard /\ job'.lost = job.lost

\* A part is sent: what was tried, a worker that goes on, or one that ends.
LEMMA SendingSteps ==
    ASSUME DeliveryInv, SendPart \/ SendUploaded \/ Upload \/ StoreId
    PROVE  /\ lines' = lines /\ push' = push /\ alerts' = alerts /\ reports' = reports /\ written' = written
           /\ job.at \in {"sending", "uploading", "storing"} /\ job.parts # <<>>
           /\ \/ PartTried /\ unnoted' = unnoted
              \/ PartAhead /\ meta' = meta /\ refused' = refused /\ unnoted' = unnoted
              \/ Died /\ meta' = meta /\ refused' = refused
<1>1. /\ lines' = lines /\ push' = push /\ alerts' = alerts /\ reports' = reports /\ written' = written
      /\ job.at \in {"sending", "uploading", "storing"}
  BY DEF SendPart, SendUploaded, Upload, StoreId, AtJob
<1>2. DeliveryTypes /\ Delivering /\ job \in Worker
  BY <1>1 DEF DeliveryInv, DeliveryTypes, Delivering
<1>3. job.parts # <<>>
  BY DEF DeliveryInv, WorkerKnown, SendPart, SendUploaded, Upload, StoreId, AtJob
<1>4. ASSUME NEW at \in {"uploading", "storing"}, NEW again \in BOOLEAN, NEW absent \in BOOLEAN,
             job' = [job EXCEPT !.at = at] \/ job' = [job EXCEPT !.at = at, !.again = again]
             \/ job' = [job EXCEPT !.at = at, !.absent = absent]
      PROVE  PartAhead
  BY <1>2, <1>4 DEF Worker, PartAhead
<1>5. \/ (Post \/ (PartLost /\ UNCHANGED meta)) /\ unnoted' = unnoted
      \/ PartAhead /\ meta' = meta /\ refused' = refused /\ unnoted' = unnoted
      \/ Died /\ meta' = meta /\ refused' = refused
  <2>1. CASE SendPart
    BY <2>1 DEF SendPart
  <2>2. CASE SendUploaded
    <3>1. CASE Post
      BY <2>2, <3>1 DEF SendUploaded
    <3>2. CASE job' = [job EXCEPT !.at = "uploading"] /\ meta' = meta /\ refused' = refused
      BY <1>4, <2>2, <3>2 DEF SendUploaded
    <3>3. CASE job' = [job EXCEPT !.at = "uploading", !.again = TRUE] /\ meta' = meta /\ refused' = refused
      BY <1>4, <2>2, <3>3 DEF SendUploaded
    <3> QED
      BY <2>2, <3>1, <3>2, <3>3 DEF SendUploaded
  <2>3. CASE Upload
    <3>1. CASE PartLost
      BY <2>3, <3>1 DEF Upload
    <3>2. CASE /\ job' = [job EXCEPT !.at = "storing", !.absent = media[NextPart].known = "none"]
               /\ refused' = refused
      <4>1. (media[NextPart].known = "none") \in BOOLEAN
        OBVIOUS
      <4>2. PartAhead
        BY <1>4, <3>2, <4>1
      <4> QED
        BY <2>3, <3>2, <4>2 DEF Upload
    <3> QED
      BY <2>3, <3>1, <3>2 DEF Upload
  <2>4. CASE StoreId
    BY <2>4 DEF StoreId
  <2> QED
    BY <2>1, <2>2, <2>3, <2>4
<1>6. ASSUME Post \/ (PartLost /\ UNCHANGED meta) PROVE PartTried
  BY <1>2, <1>3, <1>6, Trying
<1>7. QED
  BY <1>1, <1>3, <1>5, <1>6

LEMMA SendingKeeps ==
    ASSUME DeliveryInv, SendPart \/ SendUploaded \/ Upload \/ StoreId
    PROVE  DeliveryInv'
<1>1. /\ lines' = lines /\ push' = push /\ alerts' = alerts /\ reports' = reports /\ written' = written
      /\ job.at \in {"sending", "uploading", "storing"} /\ job.parts # <<>>
  BY SendingSteps
<1>2. /\ DeliveryTypes /\ WorkerKnown /\ PushKnown /\ CopyKnown
      /\ LinesKnown /\ AllBacked /\ RefusalsFlagged
  BY DEF DeliveryInv
<1>3. /\ lines \in Seq(StoredLine) /\ job \in Worker /\ push \in Starter /\ meta \in Seq(Message)
      /\ reports \subseteq Nat \X Statuses /\ written \in Nat
  BY <1>2 DEF DeliveryTypes, Message
<1>4. Delivering
  BY <1>1 DEF Delivering
<1>5. CASE PartTried /\ unnoted' = unnoted
  <2>1. DeliveryTypes'
    BY <1>1, <1>3, <1>5 DEF PartTried, DeliveryTypes, Message, MetaGrows
  <2>2. WorkerKnown'
    <3>1. /\ job.key \in 1 .. written /\ lines # <<>>
          /\ \/ lines[Len(lines)].key = job.key
             \/ lines[Len(lines)].kind = "push" /\ job.key < lines[Len(lines)].key
          /\ \A id \in job.heard : id \in DOMAIN meta /\ meta[id].key = job.key
      BY <1>2, <1>4 DEF WorkerKnown
    <3>2. \A id \in job'.heard : id \in DOMAIN meta' /\ meta'[id].key = job.key
      BY <1>5, <3>1 DEF PartTried, MetaGrows
    <3>3. job'.at = "sending" /\ job'.key = job.key
      BY <1>5 DEF PartTried
    <3> QED
      BY <1>1, <3>1, <3>2, <3>3 DEF WorkerKnown, Delivering
  <2>3. PushKnown'
    BY <1>1, <1>2, <1>3, <1>5, PushStays DEF PartTried
  <2>4. CopyKnown'
    BY <1>5 DEF PartTried, CopyKnown
  <2>5. LinesKnown'
    BY <1>1, <1>2, <1>5, LinesStay DEF PartTried
  <2>6. AllBacked'
    <3>1. \A p \in Pictures : p \in Range(job.parts) \cup job.lost =>
             p \in Range(job'.parts) \cup job'.lost \/ Accepted(p)'
      BY <1>5 DEF PartTried
    <3>2. MetaGrows /\ job'.key = job.key
      BY <1>5 DEF PartTried
    <3> QED
      BY <1>1, <1>2, <1>3, <1>5, <3>1, <3>2, BackedStaysHere
  <2>7. RefusalsFlagged'
    <3> SUFFICES ASSUME NEW r \in refused'
                 PROVE  \/ r[1] \in alerts' \cup unnoted'
                        \/ /\ r[1] = job'.key /\ job'.lost # {}
                           /\ job'.at \in {"sending", "uploading", "storing"}
      BY DEF RefusalsFlagged
    <3>1. /\ job'.at = "sending" /\ job'.key = job.key /\ job.lost \subseteq job'.lost
          /\ \/ refused' = refused
             \/ refused' = refused \cup {<<job.key, NextPart>>} /\ job'.lost # {}
      BY <1>5 DEF PartTried
    <3>2. CASE r \in refused
      BY <1>1, <1>2, <1>5, <3>1, <3>2 DEF RefusalsFlagged
    <3>3. CASE r = <<job.key, NextPart>> /\ job'.lost # {}
      BY <3>1, <3>3
    <3> QED
      BY <3>1, <3>2, <3>3
  <2>8. QED
    BY <2>1, <2>2, <2>3, <2>4, <2>5, <2>6, <2>7 DEF DeliveryInv
<1>6. ASSUME meta' = meta PROVE MetaGrows
  BY <1>3, <1>6 DEF MetaGrows
<1>7. CASE PartAhead /\ meta' = meta /\ refused' = refused /\ unnoted' = unnoted
  <2>1. /\ job' \in Worker /\ job'.at \in {"uploading", "storing"}
        /\ job'.key = job.key /\ job'.copy = job.copy /\ job'.parts = job.parts
        /\ job'.heard = job.heard /\ job'.lost = job.lost
    BY <1>7 DEF PartAhead
  <2>2. DeliveryTypes'
    BY <1>1, <1>3, <1>7, <2>1 DEF DeliveryTypes, Message
  <2>3. WorkerKnown'
    BY <1>1, <1>2, <1>4, <1>7, <2>1 DEF WorkerKnown, Delivering
  <2>4. PushKnown'
    BY <1>1, <1>2, <1>7 DEF PushKnown
  <2>5. CopyKnown'
    BY <2>1 DEF CopyKnown
  <2>6. LinesKnown'
    BY <1>1, <1>2, <1>7, <2>1 DEF LinesKnown
  <2>7. AllBacked'
    BY <1>1, <1>2, <1>7, <2>1 DEF AllBacked, Accepted
  <2>8. RefusalsFlagged'
    BY <1>1, <1>2, <1>7, <2>1 DEF RefusalsFlagged
  <2>9. QED
    BY <2>2, <2>3, <2>4, <2>5, <2>6, <2>7, <2>8 DEF DeliveryInv
<1>8. CASE Died /\ meta' = meta /\ refused' = refused
  <2>1. job' = NoJob /\ unnoted' = unnoted \cup {job.key} /\ MetaGrows
    BY <1>6, <1>8 DEF Died
  <2>2. DeliveryTypes'
    BY <1>1, <1>3, <1>8, <2>1, NoJobIsOne DEF DeliveryTypes, Message
  <2>3. WorkerKnown'
    BY <2>1, NoJobIsOne DEF WorkerKnown, Delivering
  <2>4. PushKnown'
    BY <1>1, <1>2, <1>8 DEF PushKnown
  <2>5. CopyKnown'
    BY <2>1, NoJobIsOne DEF CopyKnown
  <2>6. LinesKnown'
    BY <1>1, <1>2, <2>1, NoJobIsOne, LinesStay
  <2>7. AllBacked'
    BY <1>1, <1>2, <1>3, <2>1, BackedStaysHere
  <2>8. RefusalsFlagged'
    BY <1>1, <1>2, <1>8, <2>1 DEF RefusalsFlagged
  <2>9. QED
    BY <2>2, <2>3, <2>4, <2>5, <2>6, <2>7, <2>8 DEF DeliveryInv
<1>9. QED
  BY <1>5, <1>7, <1>8, SendingSteps

\* What the invariant says of the parts of the state.
LEMMA DeliveryState ==
    ASSUME DeliveryInv
    PROVE  /\ DeliveryTypes /\ WorkerKnown /\ PushKnown /\ CopyKnown
           /\ LinesKnown /\ AllBacked /\ RefusalsFlagged
           /\ lines \in Seq(StoredLine) /\ job \in Worker /\ push \in Starter /\ meta \in Seq(Message)
           /\ reports \subseteq Nat \X Statuses /\ written \in Nat
           /\ meta' = meta => MetaGrows
<1>1. DeliveryTypes /\ meta \in Seq(Message)
  BY DEF DeliveryInv, DeliveryTypes, Message
<1>2. meta' = meta => MetaGrows
  BY <1>1 DEF MetaGrows
<1>3. QED
  BY <1>1, <1>2 DEF DeliveryInv, DeliveryTypes

LEMMA BeginKeeps ==
    ASSUME DeliveryInv, BeginReply
    PROVE  DeliveryInv'
<1>1. /\ DeliveryTypes /\ WorkerKnown /\ PushKnown /\ CopyKnown
      /\ LinesKnown /\ AllBacked /\ RefusalsFlagged
      /\ lines \in Seq(StoredLine) /\ job \in Worker /\ push \in Starter /\ meta \in Seq(Message)
      /\ reports \subseteq Nat \X Statuses /\ written \in Nat
  BY DeliveryState
<1>2. /\ lines' = lines /\ push' = push /\ alerts' = alerts /\ reports' = reports /\ written' = written
      /\ meta' = meta /\ refused' = refused /\ unnoted' = unnoted
      /\ job.at = "idle" /\ job' = [NoJob EXCEPT !.at = "composing", !.copy = lines, !.since = Len(lines)]
  BY DEF BeginReply, AtJob
<1>3. MetaGrows
  BY <1>2, DeliveryState
<1>4. Len(lines) \in Nat /\ DOMAIN lines = 1..Len(lines)
  BY <1>1, LenProperties
<1>5. /\ job' \in Worker /\ job'.at = "composing" /\ job'.copy = lines /\ job'.since = Len(lines)
      /\ job'.key = 0 /\ job'.parts = <<>> /\ job'.lost = {} /\ job'.heard = {}
  BY <1>1, <1>2, <1>4, NoJobIsOne DEF Worker
<1>6. DeliveryTypes'
  BY <1>1, <1>2, <1>5 DEF DeliveryTypes
<1>7. WorkerKnown'
  BY <1>5 DEF WorkerKnown, Delivering
<1>8. PushKnown'
  BY <1>1, <1>2 DEF PushKnown
<1>9. CopyKnown'
  BY <1>2, <1>4, <1>5 DEF CopyKnown
<1>10. LinesKnown'
  BY <1>1, <1>2, <1>5 DEF LinesKnown
<1>11. job.key = 0 /\ job.lost = {} /\ job.parts = <<>>
  BY <1>1, <1>2 DEF WorkerKnown, Delivering
<1>12. AllBacked'
  <2>1. \A k \in DOMAIN lines : lines[k].key # job.key
    BY <1>1, <1>11, KeysAreSome
  <2> QED
    BY <1>1, <1>2, <1>3, <2>1, BackedStaysHere
<1>13. RefusalsFlagged'
  BY <1>1, <1>2, <1>11 DEF RefusalsFlagged
<1>14. QED
  BY <1>6, <1>7, <1>8, <1>9, <1>10, <1>12, <1>13 DEF DeliveryInv

LEMMA CrashKeeps ==
    ASSUME DeliveryInv, TurnCrashes
    PROVE  DeliveryInv'
<1>1. /\ DeliveryTypes /\ WorkerKnown /\ PushKnown /\ CopyKnown
      /\ LinesKnown /\ AllBacked /\ RefusalsFlagged
      /\ lines \in Seq(StoredLine) /\ job \in Worker /\ push \in Starter /\ meta \in Seq(Message)
      /\ reports \subseteq Nat \X Statuses /\ written \in Nat
  BY DeliveryState
<1> DEFINE m == [key |-> 0, part |-> "words"]
<1>2. /\ lines' = lines /\ push' = push /\ alerts' = alerts \cup {0} /\ reports' = reports
      /\ written' = written /\ refused' = refused /\ unnoted' = unnoted
      /\ job.at = "composing" /\ job' = NoJob /\ meta' \in {meta, Append(meta, m)}
  BY DEF TurnCrashes, AtJob
<1>3. MetaGrows
  <2>1. m \in Message
    BY DEF Message, Parts
  <2> QED
    BY <1>1, <1>2, <2>1, MetaTakes
<1>4. DeliveryTypes'
  BY <1>1, <1>2, <1>3, NoJobIsOne DEF DeliveryTypes, MetaGrows, Message
<1>5. WorkerKnown'
  BY <1>2, NoJobIsOne DEF WorkerKnown, Delivering
<1>6. PushKnown'
  BY <1>1, <1>2, <1>3, PushStays
<1>7. CopyKnown'
  BY <1>2, NoJobIsOne DEF CopyKnown
<1>8. LinesKnown'
  BY <1>1, <1>2, <1>3, NoJobIsOne, LinesStay
<1>9. job.key = 0 /\ job.lost = {} /\ job.parts = <<>>
  BY <1>1, <1>2 DEF WorkerKnown, Delivering
<1>10. AllBacked'
  <2>1. \A k \in DOMAIN lines : lines[k].key # job.key
    BY <1>1, <1>9, KeysAreSome
  <2> QED
    BY <1>1, <1>2, <1>3, <2>1, BackedStaysHere
<1>11. RefusalsFlagged'
  BY <1>1, <1>2, <1>9 DEF RefusalsFlagged
<1>12. QED
  BY <1>4, <1>5, <1>6, <1>7, <1>8, <1>10, <1>11 DEF DeliveryInv

LEMMA FlagKeeps ==
    ASSUME DeliveryInv, FlagFailures
    PROVE  DeliveryInv'
<1>1. /\ DeliveryTypes /\ WorkerKnown /\ PushKnown /\ CopyKnown
      /\ LinesKnown /\ AllBacked /\ RefusalsFlagged
      /\ lines \in Seq(StoredLine) /\ job \in Worker /\ push \in Starter /\ meta \in Seq(Message)
      /\ reports \subseteq Nat \X Statuses /\ written \in Nat
  BY DeliveryState
<1>2. /\ lines' = lines /\ push' = push /\ reports' = reports /\ meta' = meta
      /\ written' = written /\ refused' = refused
      /\ job.at = "sending" /\ job.parts = <<>>
  BY DEF FlagFailures, Sent, AtJob
<1>3. MetaGrows
  BY <1>2, DeliveryState
<1>4. PushKnown'
  BY <1>1, <1>2 DEF PushKnown
<1>5. CASE /\ alerts' = (IF AlertOwed(job.lost) THEN alerts \cup {job.key} ELSE alerts)
           /\ job' = [job EXCEPT !.at = "stamping"] /\ unnoted' = unnoted
  <2>1. /\ job' \in Worker /\ job'.at = "stamping" /\ job'.key = job.key /\ job'.copy = job.copy
        /\ job'.parts = job.parts /\ job'.heard = job.heard /\ job'.lost = job.lost
    BY <1>1, <1>5 DEF Worker
  <2>2. DeliveryTypes'
    BY <1>1, <1>2, <2>1 DEF DeliveryTypes
  <2>3. WorkerKnown'
    BY <1>1, <1>2, <2>1 DEF WorkerKnown, Delivering
  <2>4. CopyKnown'
    BY <2>1 DEF CopyKnown
  <2>5. LinesKnown'
    BY <1>1, <1>2, <2>1 DEF LinesKnown
  <2>6. AllBacked'
    BY <1>1, <1>2, <1>5, <2>1 DEF AllBacked, Accepted
  <2>7. RefusalsFlagged'
    BY <1>1, <1>2, <1>5, <2>1 DEF RefusalsFlagged, AlertOwed
  <2>8. QED
    BY <1>4, <2>2, <2>3, <2>4, <2>5, <2>6, <2>7 DEF DeliveryInv
<1>6. CASE Died /\ alerts' = alerts
  <2>1. job' = NoJob /\ unnoted' = unnoted \cup {job.key}
    BY <1>6 DEF Died
  <2>2. DeliveryTypes'
    BY <1>1, <1>2, <2>1, NoJobIsOne DEF DeliveryTypes
  <2>3. WorkerKnown'
    BY <2>1, NoJobIsOne DEF WorkerKnown, Delivering
  <2>4. CopyKnown'
    BY <2>1, NoJobIsOne DEF CopyKnown
  <2>5. LinesKnown'
    BY <1>1, <1>2, <1>3, <2>1, NoJobIsOne, LinesStay
  <2>6. AllBacked'
    BY <1>1, <1>2, <1>3, <2>1, BackedStaysHere
  <2>7. RefusalsFlagged'
    BY <1>1, <1>2, <1>6, <2>1 DEF RefusalsFlagged
  <2>8. QED
    BY <1>4, <2>2, <2>3, <2>4, <2>5, <2>6, <2>7 DEF DeliveryInv
<1>7. QED
  BY <1>5, <1>6 DEF FlagFailures

LEMMA RestartKeeps ==
    ASSUME DeliveryInv, DeliveryRestarts
    PROVE  DeliveryInv'
<1>1. /\ DeliveryTypes /\ WorkerKnown /\ PushKnown /\ CopyKnown
      /\ LinesKnown /\ AllBacked /\ RefusalsFlagged
      /\ lines \in Seq(StoredLine) /\ job \in Worker /\ push \in Starter /\ meta \in Seq(Message)
      /\ reports \subseteq Nat \X Statuses /\ written \in Nat
  BY DeliveryState
<1>2. /\ lines' = lines /\ push' = NoPush /\ alerts' = alerts /\ reports' = reports /\ written' = written
      /\ meta' = meta /\ refused' = refused /\ unnoted' = unnoted \cup ({job.key, push.key} \ {0})
      /\ job' = NoJob
  BY DEF DeliveryRestarts
<1>3. MetaGrows
  BY <1>2, DeliveryState
<1>4. NoPush \in Starter /\ NoPush.at = "idle" /\ NoPush.ok = FALSE /\ NoPush.key = 0
  BY DEF NoPush, Starter
<1>5. DeliveryTypes'
  BY <1>1, <1>2, <1>4, NoJobIsOne DEF DeliveryTypes
<1>6. WorkerKnown'
  BY <1>2, NoJobIsOne DEF WorkerKnown, Delivering
<1>7. PushKnown'
  BY <1>2, <1>4 DEF PushKnown
<1>8. CopyKnown'
  BY <1>2, NoJobIsOne DEF CopyKnown
<1>9. LinesKnown'
  BY <1>1, <1>2, <1>3, NoJobIsOne, LinesStay
<1>10. AllBacked'
  <2>1. \A k \in DOMAIN lines : lines[k].key = job.key => job.key \in unnoted'
    BY <1>1, <1>2, KeysAreSome
  <2> QED
    BY <1>1, <1>2, <1>3, <2>1, BackedStaysHere
<1>11. RefusalsFlagged'
  <2>1. job.lost # {} => job.key # 0
    BY <1>1 DEF WorkerKnown, Delivering
  <2> QED
    BY <1>1, <1>2, <2>1 DEF RefusalsFlagged
<1>12. QED
  BY <1>5, <1>6, <1>7, <1>8, <1>9, <1>10, <1>11 DEF DeliveryInv

LEMMA EndKeeps ==
    ASSUME DeliveryInv, NEW pictures \in SUBSET Pictures, NEW picker \in BOOLEAN, NEW asked \in BOOLEAN,
           EndReply(pictures, picker, asked)
    PROVE  DeliveryInv'
<1>1. /\ DeliveryTypes /\ WorkerKnown /\ PushKnown /\ CopyKnown
      /\ LinesKnown /\ AllBacked /\ RefusalsFlagged
      /\ lines \in Seq(StoredLine) /\ job \in Worker /\ push \in Starter /\ meta \in Seq(Message)
      /\ reports \subseteq Nat \X Statuses /\ written \in Nat
  BY DeliveryState
<1> DEFINE line == Line("reply", pictures)
<1>2. /\ push' = push /\ alerts' = alerts /\ reports' = reports /\ written' = written + 1
      /\ meta' = meta /\ refused' = refused /\ unnoted' = unnoted
      /\ job.at = "composing" /\ lines' = Rewritten(line)
      /\ job' = [job EXCEPT !.at = "sending", !.copy = <<>>, !.since = 0, !.key = written + 1,
                            !.parts = PartsOf(pictures, picker)]
  BY DEF EndReply, AtJob
<1>3. MetaGrows
  BY <1>2, DeliveryState
<1>4. /\ job.key = 0 /\ job.lost = {} /\ job.heard = {} /\ job.parts = <<>>
      /\ Len(job.copy) = job.since /\ job.since <= Len(lines)
      /\ \A i \in 1 .. job.since : /\ job.copy[i].key = lines[i].key
                                   /\ job.copy[i].attachments = lines[i].attachments
                                   /\ job.copy[i].missing = lines[i].missing
  BY <1>1, <1>2 DEF WorkerKnown, CopyKnown, Delivering
<1>5. /\ PartsOf(pictures, picker) \in Seq(Parts)
      /\ pictures \subseteq Range(PartsOf(pictures, picker))
  BY PartsOfReply
<1>6. /\ job' \in Worker /\ job'.at = "sending" /\ job'.copy = <<>> /\ job'.key = written + 1
      /\ job'.parts = PartsOf(pictures, picker) /\ job'.lost = {} /\ job'.heard = {}
  <2>1. <<>> \in Seq(StoredLine) /\ written + 1 \in Nat
    BY <1>1, EmptySeq
  <2> QED
    BY <1>1, <1>2, <1>4, <1>5, <2>1 DEF Worker
<1>7. /\ line \in StoredLine /\ line.key = written + 1 /\ line.mids = {} /\ line.labels = {}
      /\ line.attachments = pictures /\ line.receipt = "none"
  BY <1>1 DEF Line, StoredLine
<1> HIDE DEF line
<1>8. PICK all : all = lines'
  OBVIOUS
<1>9. /\ all \in Seq(StoredLine) /\ all # <<>> /\ all[Len(all)] = line
      /\ \A k \in DOMAIN all : \/ k \in DOMAIN job.copy /\ all[k] = job.copy[k]
                               \/ \E i \in DOMAIN lines : i > job.since /\ all[k] = lines[i]
                               \/ all[k] = line
      /\ \A i \in DOMAIN job.copy : i \in DOMAIN all /\ all[i] = job.copy[i]
      /\ \A i \in DOMAIN lines : i > job.since => \E k \in DOMAIN all : all[k] = lines[i]
  <2>1. all = Rewritten(line)
    BY <1>2, <1>8
  <2>2. RewrittenWith(all, line)
    BY <1>1, <1>7, <2>1, RewrittenLines
  <2> QED
    BY <2>2 DEF RewrittenWith
<1>10. /\ Len(lines) \in Nat /\ DOMAIN lines = 1..Len(lines) /\ job.since \in Nat
       /\ DOMAIN job.copy = 1..job.since
  <2>1. job.copy \in Seq(StoredLine) /\ job.since \in Nat
    BY <1>1 DEF Worker
  <2> QED
    BY <1>1, <1>4, <2>1, LenProperties
<1>11. DeliveryTypes'
  BY <1>1, <1>2, <1>6, <1>8, <1>9 DEF DeliveryTypes, Message
<1>12. WorkerKnown'
  <2>1. lines' # <<>> /\ lines'[Len(lines')].key = job'.key
    BY <1>6, <1>7, <1>8, <1>9
  <2>2. job'.key \in 1 .. written'
    BY <1>1, <1>2, <1>6
  <2> QED
    BY <1>6, <2>1, <2>2 DEF WorkerKnown, Delivering
<1>13. PushKnown'
  <2>1. written' \in Nat /\ written <= written'
    BY <1>1, <1>2
  <2> QED
    BY <1>1, <1>2, <1>3, <2>1, PushStays
<1>14. CopyKnown'
  BY <1>6 DEF CopyKnown
<1>15. LinesKnown'
  <2>1. ASSUME NEW k \in DOMAIN all
        PROVE  all[k].key <= written + 1 /\ KnownOf(all[k], meta, reports)
    <3>1. CASE k \in DOMAIN job.copy /\ all[k] = job.copy[k]
      <4>1. all[k] \in StoredLine /\ all[k].key \in Nat
        <5>1. all[k] \in StoredLine
          BY <1>9, ElementOfSeq, LenProperties
        <5> QED
          BY <5>1 DEF StoredLine
      <4>2. all[k].key <= written /\ KnownOf(all[k], meta, reports)
        BY <1>1, <3>1 DEF LinesKnown
      <4> QED
        BY <1>1, <4>1, <4>2
    <3>2. ASSUME NEW i \in DOMAIN lines, all[k] = lines[i]
          PROVE  all[k].key <= written + 1 /\ KnownOf(all[k], meta, reports)
      <4>1. all[k].key \in Nat
        BY <1>1, <3>2, KeysAreSome
      <4>2. all[k].key <= written /\ KnownOf(all[k], meta, reports)
        BY <1>1, <3>2 DEF LinesKnown
      <4> QED
        BY <1>1, <4>1, <4>2
    <3>3. CASE all[k] = line
      <4>1. KnownOf(line, meta, reports)
        BY <1>7 DEF KnownOf
      <4> QED
        BY <1>1, <1>7, <3>3, <4>1
    <3> QED
      BY <1>9, <3>1, <3>2, <3>3
  <2>2. DOMAIN job'.copy = {}
    BY <1>6
  <2> QED
    BY <1>2, <1>8, <2>1, <2>2 DEF LinesKnown
<1>16. AllBacked'
  <2>1. \A i \in DOMAIN lines' :
           \/ \E k \in DOMAIN lines : /\ lines'[i].key = lines[k].key
                                      /\ lines'[i].attachments \subseteq lines[k].attachments
           \/ lines'[i].key = job'.key /\ lines'[i].attachments \subseteq Range(job'.parts)
    <3> SUFFICES ASSUME NEW i \in DOMAIN all
                 PROVE  \/ \E k \in DOMAIN lines : /\ all[i].key = lines[k].key
                                                   /\ all[i].attachments \subseteq lines[k].attachments
                        \/ all[i].key = job'.key /\ all[i].attachments \subseteq Range(job'.parts)
      BY <1>8
    <3>1. CASE i \in DOMAIN job.copy /\ all[i] = job.copy[i]
      <4>1. i \in DOMAIN lines /\ all[i].key = lines[i].key /\ all[i].attachments = lines[i].attachments
        BY <1>4, <1>10, <3>1
      <4> QED
        BY <4>1
    <3>2. CASE \E k \in DOMAIN lines : all[i] = lines[k]
      BY <3>2
    <3>3. CASE all[i] = line
      BY <1>5, <1>6, <1>7, <3>3
    <3> QED
      BY <1>9, <3>1, <3>2, <3>3
  <2>2. \A k \in DOMAIN lines : \E i \in DOMAIN lines' : lines[k].missing \subseteq lines'[i].missing
    <3> SUFFICES ASSUME NEW k \in DOMAIN lines
                 PROVE  \E i \in DOMAIN all : lines[k].missing \subseteq all[i].missing
      BY <1>8
    <3>1. CASE k > job.since
      BY <1>9, <3>1
    <3>2. CASE k \in 1 .. job.since
      <4>1. k \in DOMAIN all /\ all[k].missing = lines[k].missing
        BY <1>4, <1>9, <1>10, <3>2
      <4> QED
        BY <4>1
    <3> QED
      BY <1>10, <3>1, <3>2
  <2>3. \A k \in DOMAIN lines : lines[k].key # job.key
    BY <1>1, <1>4, KeysAreSome
  <2>4. lines' \in Seq(StoredLine)
    BY <1>8, <1>9
  <2> QED
    BY <1>1, <1>2, <1>3, <2>1, <2>2, <2>3, <2>4, BackedStays
<1>17. RefusalsFlagged'
  BY <1>1, <1>2, <1>4 DEF RefusalsFlagged
<1>18. QED
  BY <1>11, <1>12, <1>13, <1>14, <1>15, <1>16, <1>17 DEF DeliveryInv

LEMMA StampKeeps ==
    ASSUME DeliveryInv, StampIds
    PROVE  DeliveryInv'
<1>1. /\ DeliveryTypes /\ WorkerKnown /\ PushKnown /\ CopyKnown
      /\ LinesKnown /\ AllBacked /\ RefusalsFlagged
      /\ lines \in Seq(StoredLine) /\ job \in Worker /\ push \in Starter /\ meta \in Seq(Message)
      /\ reports \subseteq Nat \X Statuses /\ written \in Nat
  BY DeliveryState
<1> DEFINE n == Len(lines)
           line == [lines[n] EXCEPT !.mids = @ \cup job.heard, !.labels = @ \cup LabelsOf(job.heard)]
<1>2. /\ push' = push /\ alerts' = alerts /\ reports' = reports /\ written' = written
      /\ meta' = meta /\ refused' = refused /\ unnoted' = unnoted
      /\ job.at = "stamping" /\ job' = [job EXCEPT !.at = "noting"]
      /\ \/ lines' = lines
         \/ lines' = [lines EXCEPT ![n].mids = @ \cup job.heard, ![n].labels = @ \cup LabelsOf(job.heard)]
  BY DEF StampIds, AtJob
<1>3. MetaGrows
  BY <1>2, DeliveryState
<1>4. /\ job' \in Worker /\ job'.at = "noting" /\ job'.key = job.key /\ job'.copy = job.copy
      /\ job'.parts = job.parts /\ job'.heard = job.heard /\ job'.lost = job.lost
  BY <1>1, <1>2 DEF Worker
<1>5. /\ job.key \in 1 .. written /\ lines # <<>> /\ job.parts = <<>>
      /\ lines[n].key = job.key \/ (lines[n].kind = "push" /\ job.key < lines[n].key)
      /\ \A id \in job.heard : id \in DOMAIN meta /\ meta[id].key = job.key
  BY <1>1, <1>2 DEF WorkerKnown, Delivering
<1>6. n \in DOMAIN lines /\ lines[n] \in StoredLine /\ DOMAIN lines = 1..n /\ n \in Nat
  BY <1>1, <1>5, EmptySeq, LenProperties, ElementOfSeq
<1>7. LabelsOf(job.heard) \subseteq Nat \X Pictures
  <2>1. job.heard \subseteq Nat
    BY <1>1 DEF Worker
  <2> QED
    BY <2>1 DEF LabelsOf
<1>8. /\ line \in StoredLine /\ line.key = lines[n].key /\ line.kind = lines[n].kind
      /\ line.attachments = lines[n].attachments /\ line.missing = lines[n].missing
      /\ line.mids = lines[n].mids \cup job.heard /\ line.receipt = lines[n].receipt
      /\ line.labels = lines[n].labels \cup LabelsOf(job.heard)
  <2>1. job.heard \subseteq Nat
    BY <1>1 DEF Worker
  <2> QED
    BY <1>6, <1>7, <2>1 DEF StoredLine
<1> HIDE DEF line
<1>9. PICK all : all = lines'
  OBVIOUS
<1>10. /\ all \in Seq(StoredLine) /\ Len(all) = n /\ DOMAIN all = DOMAIN lines
       /\ \A i \in DOMAIN lines : all[i] = lines[i] \/ (i = n /\ all[i] = line)
  <2>1. CASE lines' = lines
    BY <1>1, <1>9, <2>1
  <2>2. CASE lines' = [lines EXCEPT ![n].mids = @ \cup job.heard, ![n].labels = @ \cup LabelsOf(job.heard)]
    <3>1. all = [lines EXCEPT ![n] = line]
      BY <1>6, <1>9, <2>2 DEF line
    <3>2. /\ all \in [DOMAIN lines -> StoredLine] /\ all[n] = line
          /\ \A i \in DOMAIN lines : i # n => all[i] = lines[i]
      BY <1>1, <1>5, <1>8, <3>1, NewestChanged
    <3> QED
      BY <1>1, <3>2, SameLines
  <2> QED
    BY <1>2, <2>1, <2>2
<1>11. DeliveryTypes'
  BY <1>1, <1>2, <1>4, <1>9, <1>10 DEF DeliveryTypes, Message
<1>12. WorkerKnown'
  <2>1. all # <<>> /\ all[n].key = lines[n].key /\ all[n].kind = lines[n].kind
    BY <1>1, <1>5, <1>6, <1>8, <1>10, EmptySeq
  <2> QED
    BY <1>2, <1>4, <1>5, <1>9, <1>10, <2>1 DEF WorkerKnown, Delivering
<1>13. PushKnown'
  BY <1>1, <1>2 DEF PushKnown
<1>14. CopyKnown'
  BY <1>4 DEF CopyKnown
<1>15. LinesKnown'
  <2>1. KnownOf(line, meta, reports)
    <3>1. KnownOf(lines[n], meta, reports)
      BY <1>1, <1>6 DEF LinesKnown
    <3>2. \A id \in line.mids : /\ id \in DOMAIN meta
                                /\ \/ line.key = meta[id].key
                                   \/ line.kind = "push" /\ meta[id].key < line.key
      BY <1>5, <1>8, <3>1 DEF KnownOf
    <3>3. line.labels = {<<id, meta[id].part>> : id \in {k \in line.mids : meta[k].part \in Pictures}}
      BY <1>8, <3>1 DEF KnownOf, LabelsOf
    <3>4. line.receipt # "none" => \E id \in line.mids : <<id, line.receipt>> \in reports
      BY <1>8, <3>1 DEF KnownOf
    <3> QED
      BY <3>2, <3>3, <3>4 DEF KnownOf
  <2>2. \A i \in DOMAIN all : all[i].key <= written /\ KnownOf(all[i], meta, reports)
    BY <1>1, <1>6, <1>8, <1>10, <2>1 DEF LinesKnown
  <2> QED
    BY <1>1, <1>2, <1>4, <1>9, <2>2 DEF LinesKnown
<1>16. AllBacked'
  <2>1. \A i \in DOMAIN lines : /\ all[i].key = lines[i].key
                                /\ all[i].attachments = lines[i].attachments
                                /\ all[i].missing = lines[i].missing
    BY <1>8, <1>10
  <2>2. \A i \in DOMAIN lines' :
           \/ \E k \in DOMAIN lines : /\ lines'[i].key = lines[k].key
                                      /\ lines'[i].attachments \subseteq lines[k].attachments
           \/ lines'[i].key = job'.key /\ lines'[i].attachments \subseteq Range(job'.parts)
    BY <1>9, <1>10, <2>1
  <2>3. \A k \in DOMAIN lines : \E i \in DOMAIN lines' : lines[k].missing \subseteq lines'[i].missing
    BY <1>9, <1>10, <2>1
  <2> QED
    BY <1>1, <1>2, <1>3, <1>4, <1>9, <1>10, <2>2, <2>3, BackedStays
<1>17. RefusalsFlagged'
  BY <1>1, <1>2, <1>4 DEF RefusalsFlagged
<1>18. QED
  BY <1>11, <1>12, <1>13, <1>14, <1>15, <1>16, <1>17 DEF DeliveryInv

LEMMA NoteKeeps ==
    ASSUME DeliveryInv, NoteUndelivered
    PROVE  DeliveryInv'
<1>1. /\ DeliveryTypes /\ WorkerKnown /\ PushKnown /\ CopyKnown
      /\ LinesKnown /\ AllBacked /\ RefusalsFlagged
      /\ lines \in Seq(StoredLine) /\ job \in Worker /\ push \in Starter /\ meta \in Seq(Message)
      /\ reports \subseteq Nat \X Statuses /\ written \in Nat
  BY DeliveryState
<1> DEFINE n == Len(lines)
           lost == job.lost \cap Pictures
           line == [lines[n] EXCEPT !.attachments = @ \ lost, !.missing = @ \cup lost]
<1>2. /\ push' = push /\ alerts' = alerts /\ reports' = reports /\ written' = written
      /\ meta' = meta /\ refused' = refused /\ unnoted \subseteq unnoted'
      /\ job.at = "noting" /\ job' = NoJob
      /\ \/ lines' = lines /\ (lost = {} \/ job.key \in unnoted')
         \/ lines' = Noted(lost)
  BY DEF NoteUndelivered, AtJob
<1>3. MetaGrows
  BY <1>2, DeliveryState
<1>4. job.parts = <<>> /\ lines # <<>> /\ Range(job.parts) = {}
  <2>1. job.parts = <<>> /\ lines # <<>>
    BY <1>1, <1>2 DEF WorkerKnown, Delivering
  <2> QED
    BY <2>1 DEF Range
<1>5. n \in DOMAIN lines /\ lines[n] \in StoredLine /\ DOMAIN lines = 1..n /\ n \in Nat
  BY <1>1, <1>4, EmptySeq, LenProperties, ElementOfSeq
<1>6. /\ line \in StoredLine /\ line.key = lines[n].key /\ line.kind = lines[n].kind
      /\ line.attachments = lines[n].attachments \ lost /\ line.missing = lines[n].missing \cup lost
      /\ line.mids = lines[n].mids /\ line.receipt = lines[n].receipt
      /\ line.labels = lines[n].labels
  BY <1>5 DEF StoredLine
<1> HIDE DEF line
<1>7. PICK all : all = lines'
  OBVIOUS
<1>8. /\ all \in Seq(StoredLine) /\ DOMAIN all = DOMAIN lines
      /\ \A i \in DOMAIN lines : all[i] = lines[i] \/ (i = n /\ all[i] = line)
      /\ lines' = Noted(lost) => all[n] = line
  <2>1. CASE lines' = Noted(lost)
    <3>1. all = [lines EXCEPT ![n] = line]
      BY <1>5, <1>7, <2>1 DEF line, Noted
    <3>2. /\ all \in [DOMAIN lines -> StoredLine] /\ all[n] = line
          /\ \A i \in DOMAIN lines : i # n => all[i] = lines[i]
      BY <1>1, <1>4, <1>6, <3>1, NewestChanged
    <3> QED
      BY <1>1, <3>2, SameLines
  <2>2. CASE lines' = lines /\ lines' # Noted(lost)
    BY <1>1, <1>7, <2>2
  <2> QED
    BY <1>2, <2>1, <2>2
<1>9. DeliveryTypes'
  BY <1>1, <1>2, <1>7, <1>8, NoJobIsOne DEF DeliveryTypes, Message
<1>10. WorkerKnown'
  BY <1>2, NoJobIsOne DEF WorkerKnown, Delivering
<1>11. PushKnown'
  BY <1>1, <1>2 DEF PushKnown
<1>12. CopyKnown'
  BY <1>2, NoJobIsOne DEF CopyKnown
<1>13. LinesKnown'
  <2>1. KnownOf(line, meta, reports)
    <3>1. KnownOf(lines[n], meta, reports)
      BY <1>1, <1>5 DEF LinesKnown
    <3> QED
      BY <1>6, <3>1 DEF KnownOf
  <2>2. \A i \in DOMAIN all : all[i].key <= written /\ KnownOf(all[i], meta, reports)
    BY <1>1, <1>5, <1>6, <1>8, <2>1 DEF LinesKnown
  <2>3. DOMAIN job'.copy = {}
    BY <1>2, NoJobIsOne
  <2> QED
    BY <1>2, <1>7, <2>2, <2>3 DEF LinesKnown
<1>14. AllBacked'
  <2>1. \A i \in DOMAIN lines : /\ all[i].key = lines[i].key
                                /\ all[i].attachments \subseteq lines[i].attachments
                                /\ lines[i].missing \subseteq all[i].missing
    BY <1>6, <1>8
  <2>2. \A i \in DOMAIN lines' :
           \/ \E k \in DOMAIN lines : /\ lines'[i].key = lines[k].key
                                      /\ lines'[i].attachments \subseteq lines[k].attachments
           \/ lines'[i].key = job'.key /\ lines'[i].attachments \subseteq Range(job'.parts)
    BY <1>7, <1>8, <2>1
  <2>3. \A k \in DOMAIN lines : \E i \in DOMAIN lines' : lines[k].missing \subseteq lines'[i].missing
    BY <1>7, <1>8, <2>1
  <2>4. ASSUME NEW k \in DOMAIN lines, NEW p \in Pictures,
               lines[k].key = job.key /\ p \in Range(job.parts) \cup job.lost
        PROVE  lines[k].key \in unnoted' \/ p \in Undelivered(lines')
    <3>1. p \in lost
      BY <1>4, <2>4
    <3>2. CASE lines' = Noted(lost)
      <4>1. all[n] = line /\ n \in DOMAIN all
        BY <1>5, <1>8, <3>2
      <4>2. p \in all[n].missing
        BY <1>6, <3>1, <4>1
      <4> QED
        BY <1>7, <4>1, <4>2 DEF Undelivered
    <3>3. CASE job.key \in unnoted'
      BY <2>4, <3>3
    <3> QED
      BY <1>2, <3>1, <3>2, <3>3
  <2>5. lines' \in Seq(StoredLine)
    BY <1>7, <1>8
  <2> QED
    BY <1>1, <1>2, <1>3, <2>2, <2>3, <2>4, <2>5, BackedStays
<1>15. RefusalsFlagged'
  BY <1>1, <1>2 DEF RefusalsFlagged
<1>16. QED
  BY <1>9, <1>10, <1>11, <1>12, <1>13, <1>14, <1>15 DEF DeliveryInv

LEMMA StartPushKeeps ==
    ASSUME DeliveryInv, StartPush
    PROVE  DeliveryInv'
<1>1. /\ DeliveryTypes /\ WorkerKnown /\ PushKnown /\ CopyKnown
      /\ LinesKnown /\ AllBacked /\ RefusalsFlagged
      /\ lines \in Seq(StoredLine) /\ job \in Worker /\ push \in Starter /\ meta \in Seq(Message)
      /\ reports \subseteq Nat \X Statuses /\ written \in Nat
  BY DeliveryState
<1> DEFINE line == Line("push", {})
           n == Len(lines)
<1>2. /\ job' = job /\ alerts' = alerts /\ reports' = reports /\ written' = written + 1
      /\ meta' = meta /\ refused' = refused /\ unnoted' = unnoted
      /\ lines' = Append(lines, line)
      /\ push' = [NoPush EXCEPT !.at = "recorded", !.key = written + 1]
  BY DEF StartPush
<1>3. MetaGrows
  BY <1>2, DeliveryState
<1>4. /\ line \in StoredLine /\ line.key = written + 1 /\ line.mids = {} /\ line.labels = {}
      /\ line.attachments = {} /\ line.receipt = "none" /\ line.kind = "push"
  BY <1>1 DEF Line, StoredLine
<1> HIDE DEF line
<1>5. n \in Nat /\ DOMAIN lines = 1..n
  BY <1>1, LenProperties
<1>6. PICK all : all = lines'
  OBVIOUS
<1>7. /\ all \in Seq(StoredLine) /\ Len(all) = n + 1 /\ DOMAIN all = 1 .. n + 1
      /\ all[n + 1] = line /\ \A i \in 1..n : all[i] = lines[i]
  <2>1. /\ all \in Seq(StoredLine) /\ Len(all) = n + 1
        /\ all[n + 1] = line /\ \A i \in 1..n : all[i] = lines[i]
    BY <1>1, <1>2, <1>4, <1>6, AppendProperties
  <2> QED
    BY <2>1, LenProperties
<1>8. push' \in Starter /\ push'.at = "recorded" /\ push'.key = written + 1 /\ push'.ok = FALSE
  <2>1. written + 1 \in Nat
    BY <1>1
  <2>2. NoPush \in Starter /\ NoPush.ok = FALSE /\ NoPush.key = 0
    BY DEF NoPush, Starter
  <2> QED
    BY <1>2, <2>1, <2>2 DEF Starter
<1>9. DeliveryTypes'
  BY <1>1, <1>2, <1>6, <1>7, <1>8 DEF DeliveryTypes, Message
<1>10. WorkerKnown'
  <2>1. all # <<>> /\ all[Len(all)].key = written + 1 /\ all[Len(all)].kind = "push"
    BY <1>4, <1>5, <1>7, EmptySeq
  <2>2. Delivering => job.key \in 1 .. written + 1 /\ job.key < written + 1
    BY <1>1 DEF WorkerKnown, Worker
  <2> QED
    BY <1>1, <1>2, <1>6, <2>1, <2>2 DEF WorkerKnown, Delivering
<1>11. PushKnown'
  BY <1>1, <1>2, <1>8 DEF PushKnown
<1>12. CopyKnown'
  <2>1. job.at = "composing" => job.since <= n + 1 /\ \A i \in 1 .. job.since : i \in 1..n
    BY <1>1, <1>5 DEF CopyKnown, Worker
  <2> QED
    BY <1>1, <1>2, <1>6, <1>7, <2>1 DEF CopyKnown
<1>13. LinesKnown'
  <2>1. KnownOf(line, meta, reports)
    BY <1>4 DEF KnownOf
  <2>2. ASSUME NEW i \in DOMAIN all PROVE all[i].key <= written + 1 /\ KnownOf(all[i], meta, reports)
    <3>1. CASE i \in 1..n
      <4>1. lines[i].key \in Nat
        BY <1>1, <1>5, <3>1, KeysAreSome
      <4>2. lines[i].key <= written /\ KnownOf(lines[i], meta, reports)
        BY <1>1, <1>5, <3>1 DEF LinesKnown
      <4> QED
        BY <1>1, <1>7, <3>1, <4>1, <4>2
    <3>2. CASE i = n + 1
      BY <1>1, <1>4, <1>7, <2>1, <3>2
    <3> QED
      BY <1>5, <1>7, <3>1, <3>2
  <2>3. ASSUME NEW i \in DOMAIN job.copy
        PROVE  job.copy[i].key <= written + 1 /\ KnownOf(job.copy[i], meta, reports)
    <3>1. job.copy[i] \in StoredLine
      BY <1>1, ElementOfSeq, LenProperties DEF Worker
    <3>2. job.copy[i].key \in Nat
      BY <3>1 DEF StoredLine
    <3>3. job.copy[i].key <= written /\ KnownOf(job.copy[i], meta, reports)
      BY <1>1 DEF LinesKnown
    <3> QED
      BY <1>1, <3>2, <3>3
  <2> QED
    BY <1>2, <1>6, <2>2, <2>3 DEF LinesKnown
<1>14. AllBacked'
  <2>1. ASSUME NEW i \in DOMAIN all, NEW p \in all[i].attachments
        PROVE  i \in DOMAIN lines /\ all[i] = lines[i]
    <3>1. i # n + 1
      BY <1>4, <1>7, <2>1
    <3> QED
      BY <1>5, <1>7, <3>1
  <2>2. Undelivered(lines) \subseteq Undelivered(all)
    BY <1>5, <1>7 DEF Undelivered
  <2> QED
    BY <1>1, <1>2, <1>6, <2>1, <2>2 DEF AllBacked, Accepted
<1>15. RefusalsFlagged'
  BY <1>1, <1>2 DEF RefusalsFlagged
<1>16. QED
  BY <1>9, <1>10, <1>11, <1>12, <1>13, <1>14, <1>15 DEF DeliveryInv

LEMMA SendPushKeeps ==
    ASSUME DeliveryInv, SendPush
    PROVE  DeliveryInv'
<1>1. /\ DeliveryTypes /\ WorkerKnown /\ PushKnown /\ CopyKnown
      /\ LinesKnown /\ AllBacked /\ RefusalsFlagged
      /\ lines \in Seq(StoredLine) /\ job \in Worker /\ push \in Starter /\ meta \in Seq(Message)
      /\ reports \subseteq Nat \X Statuses /\ written \in Nat
  BY DeliveryState
<1> DEFINE m == [key |-> push.key, part |-> "words"]
<1>2. /\ lines' = lines /\ job' = job /\ alerts' = alerts /\ reports' = reports /\ written' = written
      /\ refused' = refused /\ unnoted' = unnoted /\ push.at = "recorded"
      /\ \/ /\ meta' = Append(meta, m)
            /\ push' = [push EXCEPT !.at = "sent", !.ok = TRUE, !.id = Len(meta) + 1]
         \/ /\ meta' \in {meta, Append(meta, m)}
            /\ push' = [push EXCEPT !.at = "sent"]
  BY DEF SendPush
<1>3. /\ MetaGrows /\ Len(meta) + 1 \in Nat
      /\ meta' = Append(meta, m) => Len(meta) + 1 \in DOMAIN meta' /\ meta'[Len(meta) + 1] = m
  <2>1. m \in Message
    BY <1>1 DEF Message, Parts, Starter
  <2>2. meta' \in {meta, Append(meta, m)}
    BY <1>2
  <2> QED
    BY <1>1, <2>1, <2>2, MetaTakes
<1>4. /\ push' \in Starter /\ push'.key = push.key /\ push'.at = "sent"
      /\ \/ meta' = Append(meta, m) /\ push'.id = Len(meta) + 1
         \/ push'.ok = push.ok /\ push'.id = push.id
  <2>1. CASE /\ meta' = Append(meta, m)
             /\ push' = [push EXCEPT !.at = "sent", !.ok = TRUE, !.id = Len(meta) + 1]
    BY <1>1, <1>3, <2>1 DEF Starter
  <2>2. CASE push' = [push EXCEPT !.at = "sent"]
    BY <1>1, <2>2 DEF Starter
  <2> QED
    BY <1>2, <2>1, <2>2
<1>5. DeliveryTypes'
  BY <1>1, <1>2, <1>3, <1>4 DEF DeliveryTypes, Message, MetaGrows
<1>6. WorkerKnown'
  BY <1>1, <1>2, <1>3 DEF WorkerKnown, Delivering, MetaGrows
<1>7. PushKnown'
  <2>1. push.key \in 1 .. written
    BY <1>1, <1>2 DEF PushKnown
  <2>2. CASE meta' = Append(meta, m) /\ push'.id = Len(meta) + 1
    BY <1>2, <1>3, <1>4, <2>1, <2>2 DEF PushKnown
  <2>3. CASE push'.ok = push.ok /\ push'.id = push.id
    BY <1>1, <1>2, <1>3, <1>4, <2>1, <2>3 DEF PushKnown, MetaGrows
  <2> QED
    BY <1>4, <2>2, <2>3
<1>8. CopyKnown'
  BY <1>1, <1>2 DEF CopyKnown
<1>9. LinesKnown'
  BY <1>1, <1>2, <1>3, LinesStay
<1>10. AllBacked'
  BY <1>1, <1>2, <1>3, BackedStaysHere
<1>11. RefusalsFlagged'
  BY <1>1, <1>2 DEF RefusalsFlagged
<1>12. QED
  BY <1>5, <1>6, <1>7, <1>8, <1>9, <1>10, <1>11 DEF DeliveryInv

LEMMA NotePushKeeps ==
    ASSUME DeliveryInv, NotePush
    PROVE  DeliveryInv'
<1>1. /\ DeliveryTypes /\ WorkerKnown /\ PushKnown /\ CopyKnown
      /\ LinesKnown /\ AllBacked /\ RefusalsFlagged
      /\ lines \in Seq(StoredLine) /\ job \in Worker /\ push \in Starter /\ meta \in Seq(Message)
      /\ reports \subseteq Nat \X Statuses /\ written \in Nat
  BY DeliveryState
<1>2. /\ job' = job /\ alerts' = alerts /\ reports' = reports /\ written' = written
      /\ meta' = meta /\ refused' = refused /\ unnoted' = unnoted
      /\ push.at = "sent" /\ push' = NoPush
      /\ \/ lines' = lines
         \/ lines' = [i \in DOMAIN lines |->
                        IF i \notin LineOf(push.key) THEN lines[i]
                        ELSE IF push.ok THEN [lines[i] EXCEPT !.mids = @ \cup {push.id}]
                        ELSE [lines[i] EXCEPT !.failed = TRUE]]
  BY DEF NotePush
<1>3. MetaGrows
  BY <1>2, DeliveryState
<1>4. NoPush \in Starter /\ NoPush.at = "idle" /\ NoPush.ok = FALSE /\ NoPush.key = 0
  BY DEF NoPush, Starter
<1>5. /\ DOMAIN lines = 1..Len(lines) /\ Len(lines) \in Nat
      /\ \A i \in DOMAIN lines : lines[i] \in StoredLine
  BY <1>1, LenProperties, ElementOfSeq
<1>6. push.ok => push.id \in DOMAIN meta /\ meta[push.id].key = push.key /\ meta[push.id].part \notin Pictures
  BY <1>1, DeliveryAssumption DEF PushKnown
<1>7. PICK all : all = lines'
  OBVIOUS
<1>8. ASSUME NEW i \in DOMAIN lines
      PROVE  /\ all[i] \in StoredLine /\ all[i].key = lines[i].key /\ all[i].kind = lines[i].kind
             /\ all[i].attachments = lines[i].attachments /\ all[i].missing = lines[i].missing
             /\ all[i].labels = lines[i].labels /\ all[i].receipt = lines[i].receipt
             /\ \/ all[i].mids = lines[i].mids
                \/ push.ok /\ lines[i].key = push.key /\ all[i].mids = lines[i].mids \cup {push.id}
  <2>1. CASE all[i] = lines[i]
    BY <1>5, <2>1
  <2>2. CASE /\ i \in LineOf(push.key) /\ push.ok
             /\ all[i] = [lines[i] EXCEPT !.mids = @ \cup {push.id}]
    <3>1. push.id \in Nat /\ lines[i].key = push.key
      BY <1>1, <2>2 DEF LineOf, Starter
    <3>2. PICK id \in Nat : id = push.id
      BY <3>1
    <3>3. all[i] = [lines[i] EXCEPT !.mids = @ \cup {id}]
      BY <2>2, <3>2
    <3>4. /\ all[i] \in StoredLine /\ all[i].key = lines[i].key /\ all[i].kind = lines[i].kind
          /\ all[i].attachments = lines[i].attachments /\ all[i].missing = lines[i].missing
          /\ all[i].labels = lines[i].labels /\ all[i].receipt = lines[i].receipt
          /\ all[i].mids = lines[i].mids \cup {id}
      BY <1>5, <3>3 DEF StoredLine
    <3> QED
      BY <2>2, <3>1, <3>2, <3>4
  <2>3. CASE all[i] = [lines[i] EXCEPT !.failed = TRUE]
    BY <1>5, <2>3 DEF StoredLine
  <2> QED
    BY <1>2, <1>7, <2>1, <2>2, <2>3
<1>9. all \in Seq(StoredLine) /\ Len(all) = Len(lines) /\ DOMAIN all = DOMAIN lines
  <2>1. CASE lines' = lines
    BY <1>1, <1>7, <2>1
  <2>2. CASE lines' = [i \in DOMAIN lines |->
                        IF i \notin LineOf(push.key) THEN lines[i]
                        ELSE IF push.ok THEN [lines[i] EXCEPT !.mids = @ \cup {push.id}]
                        ELSE [lines[i] EXCEPT !.failed = TRUE]]
    <3>1. all \in [DOMAIN lines -> StoredLine]
      BY <1>7, <1>8, <2>2
    <3> QED
      BY <1>1, <3>1, SameLines
  <2> QED
    BY <1>2, <2>1, <2>2
<1>10. DeliveryTypes'
  BY <1>1, <1>2, <1>4, <1>7, <1>9 DEF DeliveryTypes, Message
<1>11. WorkerKnown'
  <2>1. ASSUME lines # <<>>
        PROVE  /\ all # <<>> /\ Len(all) \in DOMAIN lines
               /\ all[Len(all)].key = lines[Len(lines)].key /\ all[Len(all)].kind = lines[Len(lines)].kind
    <3>1. Len(lines) \in DOMAIN lines
      BY <1>1, <1>5, <2>1, EmptySeq
    <3>2. all # <<>>
      BY <1>5, <1>9, <3>1, EmptySeq
    <3> QED
      BY <1>8, <1>9, <3>1, <3>2
  <2> QED
    BY <1>1, <1>2, <1>7, <2>1 DEF WorkerKnown, Delivering
<1>12. PushKnown'
  BY <1>2, <1>4 DEF PushKnown
<1>13. CopyKnown'
  <2>1. job.at = "composing" => \A i \in 1 .. job.since : i \in DOMAIN lines
    BY <1>1, <1>5 DEF CopyKnown, Worker
  <2> QED
    BY <1>1, <1>2, <1>7, <1>8, <1>9, <2>1 DEF CopyKnown
<1>14. LinesKnown'
  <2>1. ASSUME NEW i \in DOMAIN lines PROVE all[i].key <= written /\ KnownOf(all[i], meta, reports)
    <3>1. lines[i].key <= written /\ KnownOf(lines[i], meta, reports)
      BY <1>1 DEF LinesKnown
    <3>2. \A id \in all[i].mids : /\ id \in DOMAIN meta
                                  /\ \/ all[i].key = meta[id].key
                                     \/ all[i].kind = "push" /\ meta[id].key < all[i].key
      BY <1>6, <1>8, <3>1 DEF KnownOf
    <3>3. {id \in all[i].mids : meta[id].part \in Pictures} = {id \in lines[i].mids : meta[id].part \in Pictures}
      BY <1>6, <1>8
    <3>4. all[i].labels = {<<id, meta[id].part>> : id \in {n \in all[i].mids : meta[n].part \in Pictures}}
      BY <1>8, <3>1, <3>3 DEF KnownOf
    <3>5. all[i].receipt # "none" => \E id \in all[i].mids : <<id, all[i].receipt>> \in reports
      BY <1>8, <3>1 DEF KnownOf
    <3> QED
      BY <1>8, <3>1, <3>2, <3>4, <3>5 DEF KnownOf
  <2> QED
    BY <1>1, <1>2, <1>7, <1>9, <2>1 DEF LinesKnown
<1>15. AllBacked'
  <2>1. \A i \in DOMAIN lines' :
           \/ \E k \in DOMAIN lines : /\ lines'[i].key = lines[k].key
                                      /\ lines'[i].attachments \subseteq lines[k].attachments
           \/ lines'[i].key = job'.key /\ lines'[i].attachments \subseteq Range(job'.parts)
    BY <1>7, <1>8, <1>9
  <2>2. \A k \in DOMAIN lines : \E i \in DOMAIN lines' : lines[k].missing \subseteq lines'[i].missing
    BY <1>7, <1>8, <1>9
  <2> QED
    BY <1>1, <1>2, <1>3, <1>7, <1>9, <2>1, <2>2, BackedStays
<1>16. RefusalsFlagged'
  BY <1>1, <1>2 DEF RefusalsFlagged
<1>17. QED
  BY <1>10, <1>11, <1>12, <1>13, <1>14, <1>15, <1>16 DEF DeliveryInv

LEMMA ReportKeeps ==
    ASSUME DeliveryInv, NEW id \in DOMAIN meta, NEW status \in Statuses, ReportArrives(id, status)
    PROVE  DeliveryInv'
<1>1. /\ DeliveryTypes /\ WorkerKnown /\ PushKnown /\ CopyKnown
      /\ LinesKnown /\ AllBacked /\ RefusalsFlagged
      /\ lines \in Seq(StoredLine) /\ job \in Worker /\ push \in Starter /\ meta \in Seq(Message)
      /\ reports \subseteq Nat \X Statuses /\ written \in Nat
  BY DeliveryState
<1> DEFINE n == Max(HoldersOf(id))
<1>2. /\ job' = job /\ alerts' = alerts /\ reports' = reports \cup {<<id, status>>} /\ written' = written
      /\ meta' = meta /\ refused' = refused /\ unnoted' = unnoted /\ push' = push
      /\ HoldersOf(id) # {} /\ lines' = Receipted(id, status)
  BY DEF ReportArrives
<1>3. MetaGrows
  BY <1>2, DeliveryState
<1>4. /\ DOMAIN lines = 1..Len(lines) /\ Len(lines) \in Nat
      /\ \A i \in DOMAIN lines : lines[i] \in StoredLine
  BY <1>1, LenProperties, ElementOfSeq
<1>5. n \in DOMAIN lines /\ id \in lines[n].mids
  <2>1. HoldersOf(id) \in SUBSET (1..Len(lines))
    BY <1>4 DEF HoldersOf
  <2>2. n \in HoldersOf(id)
    BY <1>2, <1>4, <2>1, NewestOf
  <2> QED
    BY <2>2 DEF HoldersOf
<1> HIDE DEF n
<1>6. PICK all : all = lines'
  OBVIOUS
<1>7. all = [lines EXCEPT ![n] = IF status = "failed" THEN [@ EXCEPT !.failed = TRUE]
                                 ELSE IF Beyond(status, @.receipt) THEN [@ EXCEPT !.receipt = status]
                                 ELSE @]
  BY <1>2, <1>6 DEF n, Receipted
<1>8. DOMAIN all = DOMAIN lines /\ \A i \in DOMAIN lines : i # n => all[i] = lines[i]
  BY <1>7
<1>9. /\ all[n] \in StoredLine /\ all[n].key = lines[n].key /\ all[n].kind = lines[n].kind
      /\ all[n].attachments = lines[n].attachments /\ all[n].missing = lines[n].missing
      /\ all[n].labels = lines[n].labels /\ all[n].mids = lines[n].mids
      /\ all[n].receipt = lines[n].receipt \/ all[n].receipt = status
  <2>1. lines[n] \in StoredLine
    BY <1>4, <1>5
  <2>2. \/ all[n] = lines[n] \/ all[n] = [lines[n] EXCEPT !.failed = TRUE]
        \/ status # "failed" /\ all[n] = [lines[n] EXCEPT !.receipt = status]
    BY <1>5, <1>7
  <2>3. CASE all[n] = lines[n]
    BY <2>1, <2>3
  <2>4. CASE all[n] = [lines[n] EXCEPT !.failed = TRUE]
    BY <2>1, <2>4 DEF StoredLine
  <2>5. CASE status # "failed" /\ all[n] = [lines[n] EXCEPT !.receipt = status]
    <3>1. status \in {"sent", "delivered", "read"}
      BY <2>5, DeliveryAssumption
    <3> QED
      BY <2>1, <2>5, <3>1 DEF StoredLine
  <2> QED
    BY <2>2, <2>3, <2>4, <2>5
<1>10. all \in Seq(StoredLine) /\ Len(all) = Len(lines)
  <2>1. all \in [DOMAIN lines -> StoredLine]
    <3>1. \A i \in DOMAIN lines : all[i] \in StoredLine
      BY <1>4, <1>8, <1>9
    <3>2. all = [i \in DOMAIN lines |-> all[i]]
      BY <1>7
    <3> QED
      BY <3>1, <3>2
  <2> QED
    BY <1>1, <2>1, SameLines
<1>11. DeliveryTypes'
  <2>1. id \in Nat
    BY <1>1, LenProperties
  <2> QED
    BY <1>1, <1>2, <1>6, <1>10, <2>1 DEF DeliveryTypes, Message
<1>12. \A i \in DOMAIN lines : /\ all[i].key = lines[i].key /\ all[i].kind = lines[i].kind
                               /\ all[i].attachments = lines[i].attachments
                               /\ all[i].missing = lines[i].missing
  BY <1>8, <1>9
<1>13. WorkerKnown'
  <2>1. ASSUME lines # <<>>
        PROVE  /\ all # <<>> /\ Len(all) \in DOMAIN lines
               /\ all[Len(all)].key = lines[Len(lines)].key /\ all[Len(all)].kind = lines[Len(lines)].kind
    <3>1. Len(lines) \in DOMAIN lines
      BY <1>1, <1>4, <2>1, EmptySeq
    <3>2. all # <<>>
      BY <1>8, <3>1, EmptySeq
    <3> QED
      BY <1>10, <1>12, <3>1, <3>2
  <2> QED
    BY <1>1, <1>2, <1>6, <2>1 DEF WorkerKnown, Delivering
<1>14. PushKnown'
  BY <1>1, <1>2 DEF PushKnown
<1>15. CopyKnown'
  <2>1. job.at = "composing" => \A i \in 1 .. job.since : i \in DOMAIN lines
    BY <1>1, <1>4 DEF CopyKnown, Worker
  <2> QED
    BY <1>1, <1>2, <1>6, <1>10, <1>12, <2>1 DEF CopyKnown
<1>16. LinesKnown'
  <2>1. ASSUME NEW line, KnownOf(line, meta, reports) PROVE KnownOf(line, meta', reports')
    BY <1>2, <1>3, <2>1, KnownStays
  <2>2. KnownOf(all[n], meta', reports')
    <3>1. KnownOf(lines[n], meta, reports)
      BY <1>1, <1>5 DEF LinesKnown
    <3>2. all[n].receipt # "none" => \E k \in all[n].mids : <<k, all[n].receipt>> \in reports'
      BY <1>2, <1>5, <1>9, <3>1 DEF KnownOf
    <3> QED
      BY <1>2, <1>9, <3>1, <3>2 DEF KnownOf
  <2>3. ASSUME NEW i \in DOMAIN all PROVE all[i].key <= written /\ KnownOf(all[i], meta', reports')
    <3>1. lines[i].key <= written /\ KnownOf(lines[i], meta, reports)
      BY <1>1, <1>8 DEF LinesKnown
    <3>2. CASE i = n
      BY <1>9, <2>2, <3>1, <3>2
    <3>3. CASE i # n
      BY <1>8, <2>1, <3>1, <3>3
    <3> QED
      BY <3>2, <3>3
  <2>4. \A i \in DOMAIN job.copy : job.copy[i].key <= written /\ KnownOf(job.copy[i], meta', reports')
    BY <1>1, <2>1 DEF LinesKnown
  <2> QED
    BY <1>2, <1>6, <2>3, <2>4 DEF LinesKnown
<1>17. AllBacked'
  <2>1. \A i \in DOMAIN lines' :
           \/ \E k \in DOMAIN lines : /\ lines'[i].key = lines[k].key
                                      /\ lines'[i].attachments \subseteq lines[k].attachments
           \/ lines'[i].key = job'.key /\ lines'[i].attachments \subseteq Range(job'.parts)
    BY <1>6, <1>8, <1>12
  <2>2. \A k \in DOMAIN lines : \E i \in DOMAIN lines' : lines[k].missing \subseteq lines'[i].missing
    BY <1>6, <1>8, <1>12
  <2> QED
    BY <1>1, <1>2, <1>3, <1>6, <1>10, <2>1, <2>2, BackedStays
<1>18. RefusalsFlagged'
  BY <1>1, <1>2 DEF RefusalsFlagged
<1>19. QED
  BY <1>11, <1>13, <1>14, <1>15, <1>16, <1>17, <1>18 DEF DeliveryInv

\* What changes no more than Meta's ids of the pictures.
LEMMA QuietKeeps ==
    ASSUME DeliveryInv,
           UNCHANGED <<lines, job, push, alerts, meta, reports, written, refused, unnoted>>
    PROVE  DeliveryInv'
<1>1. DeliveryTypes' /\ WorkerKnown'
  BY DEF DeliveryInv, DeliveryTypes, WorkerKnown, Delivering
<1>2. PushKnown' /\ CopyKnown' /\ LinesKnown'
  BY DEF DeliveryInv, PushKnown, CopyKnown, LinesKnown
<1>3. AllBacked' /\ RefusalsFlagged'
  BY DEF DeliveryInv, AllBacked, Accepted, Undelivered, RefusalsFlagged
<1>4. QED
  BY <1>1, <1>2, <1>3 DEF DeliveryInv

LEMMA DeliveryStarts == DeliveryInit => DeliveryInv
<1> SUFFICES ASSUME DeliveryInit PROVE DeliveryInv
  OBVIOUS
<1>1. /\ lines = <<>> /\ job = NoJob /\ push = NoPush /\ meta = <<>> /\ reports = {} /\ written = 0
      /\ refused = {}
  BY DEF DeliveryInit
<1>2. NoPush \in Starter /\ NoPush.at = "idle" /\ NoPush.ok = FALSE /\ NoPush.key = 0
  BY DEF NoPush, Starter
<1>3. DeliveryTypes
  BY <1>1, <1>2, NoJobIsOne, EmptySeq DEF DeliveryTypes
<1>4. WorkerKnown /\ PushKnown /\ CopyKnown
  BY <1>1, <1>2, NoJobIsOne DEF WorkerKnown, PushKnown, CopyKnown, Delivering
<1>5. LinesKnown /\ AllBacked /\ RefusalsFlagged
  BY <1>1, NoJobIsOne DEF LinesKnown, AllBacked, RefusalsFlagged
<1>6. QED
  BY <1>3, <1>4, <1>5 DEF DeliveryInv

LEMMA DeliveryKeeps == DeliveryInv /\ [DeliveryNext]_deliveryVars => DeliveryInv'
<1> SUFFICES ASSUME DeliveryInv, [DeliveryNext]_deliveryVars PROVE DeliveryInv'
  OBVIOUS
<1>1. CASE BeginReply
  BY <1>1, BeginKeeps
<1>2. CASE TurnCrashes
  BY <1>2, CrashKeeps
<1>3. CASE \E pictures \in SUBSET Pictures, picker, asked \in BOOLEAN : EndReply(pictures, picker, asked)
  BY <1>3, EndKeeps
<1>4. CASE SendPart \/ SendUploaded \/ Upload \/ StoreId
  BY <1>4, SendingKeeps
<1>5. CASE FlagFailures
  BY <1>5, FlagKeeps
<1>6. CASE StampIds
  BY <1>6, StampKeeps
<1>7. CASE NoteUndelivered
  BY <1>7, NoteKeeps
<1>8. CASE \E p \in OnDisk : StoredElsewhere(p) \/ MediaAges(p)
  BY <1>8, QuietKeeps DEF StoredElsewhere, MediaAges
<1>9. CASE StartPush
  BY <1>9, StartPushKeeps
<1>10. CASE SendPush
  BY <1>10, SendPushKeeps
<1>11. CASE NotePush
  BY <1>11, NotePushKeeps
<1>12. CASE \E id \in DOMAIN meta, status \in Statuses : ReportArrives(id, status)
  BY <1>12, ReportKeeps
<1>13. CASE DeliveryRestarts
  BY <1>13, RestartKeeps
<1>14. CASE UNCHANGED deliveryVars
  BY <1>14, QuietKeeps DEF deliveryVars
<1>15. QED
  BY <1>1, <1>2, <1>3, <1>4, <1>5, <1>6, <1>7, <1>8, <1>9, <1>10, <1>11, <1>12, <1>13, <1>14
     DEF DeliveryNext

\* A delivery is told as it went: the worker's line, the ids, the pictures.
THEOREM DeliveriesInOrder == DeliverySpec => []DeliveryInv
BY DeliveryStarts, DeliveryKeeps, PTL DEF DeliverySpec

\* A picture counts as shown only if Meta took it, or it is on its way, or the
\* note about it was lost: _flag_delivery_failures and
\* record_undelivered_attachments leave no other, also when another message
\* has become the newest line.
THEOREM ShownIsBacked == DeliverySpec => []ShownWasSent
<1>1. DeliveryInv => ShownWasSent
  <2> SUFFICES ASSUME DeliveryInv, NEW p \in Shown(lines)
               PROVE  Accepted(p) \/ BrokeOff(p) \/ p \in Range(job.parts) \cup job.lost
    BY DEF ShownWasSent
  <2>1. PICK i \in DOMAIN lines : p \in lines[i].attachments
    BY DEF Shown
  <2>2. p \notin Undelivered(lines)
    BY DEF Shown
  <2>3. QED
    BY <2>1, <2>2 DEF DeliveryInv, AllBacked, BrokeOff
<1>2. QED
  BY <1>1, DeliveriesInOrder, PTL

\* An id names the message it went out as, or one of the shop's written while it
\* was being sent; the picture a customer quotes is the picture that was sent;
\* a message is shown as read only when a part of it was (quoting.find,
\* record_receipt).
THEOREM IdsAreTrue == DeliverySpec => []IdsNameTheirMessage
<1>1. DeliveryInv => IdsNameTheirMessage
  <2> SUFFICES ASSUME DeliveryInv PROVE IdsNameTheirMessage
    OBVIOUS
  <2>1. LinesKnown /\ lines \in Seq(StoredLine)
    BY DeliveryState
  <2>2. DOMAIN lines = 1..Len(lines) /\ Len(lines) \in Nat
    BY <2>1, LenProperties
  <2>3. ASSUME NEW id \in DOMAIN meta, HoldersOf(id) # {}
        PROVE  /\ \/ Quoted(id).key = meta[id].key
                  \/ Quoted(id).kind = "push" /\ meta[id].key < Quoted(id).key
               /\ QuotedPictures(id) = {meta[id].part} \cap Pictures
    <3> DEFINE n == Max(HoldersOf(id))
    <3>1. HoldersOf(id) \in SUBSET (1..Len(lines))
      BY <2>2 DEF HoldersOf
    <3>2. n \in HoldersOf(id)
      BY <2>2, <2>3, <3>1, NewestOf
    <3> HIDE DEF n
    <3>3. n \in DOMAIN lines /\ id \in lines[n].mids
      BY <3>2 DEF HoldersOf
    <3>4. KnownOf(lines[n], meta, reports)
      BY <2>1, <3>3 DEF LinesKnown
    <3>5. Quoted(id) = lines[n]
      BY DEF Quoted, n
    <3>6. Quoted(id).key = meta[id].key \/ (Quoted(id).kind = "push" /\ meta[id].key < Quoted(id).key)
      BY <3>3, <3>4, <3>5 DEF KnownOf
    <3>7. Quoted(id).labels = {<<k, meta[k].part>> : k \in {m \in lines[n].mids : meta[m].part \in Pictures}}
      BY <3>4, <3>5 DEF KnownOf
    <3>8. QuotedPictures(id) = {meta[id].part} \cap Pictures
      <4> DEFINE labels == Quoted(id).labels
      <4>1. QuotedPictures(id) = {l[2] : l \in {k \in labels : k[1] = id}}
        BY DEF QuotedPictures
      <4>2. \A l \in labels : \E k \in lines[n].mids : meta[k].part \in Pictures /\ l = <<k, meta[k].part>>
        BY <3>7
      <4>3. meta[id].part \in Pictures => <<id, meta[id].part>> \in labels
        BY <3>3, <3>7
      <4> HIDE DEF labels
      <4>4. \A p \in QuotedPictures(id) : p = meta[id].part /\ p \in Pictures
        BY <4>1, <4>2
      <4>5. meta[id].part \in Pictures => meta[id].part \in QuotedPictures(id)
        <5>1. <<id, meta[id].part>>[1] = id /\ <<id, meta[id].part>>[2] = meta[id].part
          OBVIOUS
        <5> QED
          BY <4>1, <4>3, <5>1
      <4> QED
        BY <4>4, <4>5
    <3>9. QED
      BY <3>6, <3>8
  <2>4. \A i \in DOMAIN lines : lines[i].receipt # "none" =>
          \E id \in lines[i].mids : <<id, lines[i].receipt>> \in reports
    BY <2>1 DEF LinesKnown, KnownOf
  <2>5. QED
    BY <2>3, <2>4 DEF IdsNameTheirMessage
<1>2. QED
  BY <1>1, DeliveriesInOrder, PTL

\* Every part the client took for not delivered has an alert, unless the line's
\* bookkeeping broke off (_flag_delivery_failures).
THEOREM RefusalsAreTold == DeliverySpec => []RefusalsReachStaff
<1>1. DeliveryInv => RefusalsReachStaff
  BY DEF DeliveryInv, RefusalsFlagged, RefusalsReachStaff
<1>2. QED
  BY <1>1, DeliveriesInOrder, PTL

\* The books that are kept beside the lines.
BooksBounded ==
    /\ DOMAIN media = OnDisk
    /\ alerts \subseteq 0 .. written
    /\ unnoted \subseteq 0 .. written

LEMMA BooksKeep == DeliveryInv /\ BooksBounded /\ [DeliveryNext]_deliveryVars => BooksBounded'
<1> SUFFICES ASSUME DeliveryInv, BooksBounded, [DeliveryNext]_deliveryVars PROVE BooksBounded'
  OBVIOUS
<1>1. written \in Nat /\ job.key \in 0 .. written /\ push.key \in 0 .. written
  <2>1. written \in Nat /\ WorkerKnown /\ PushKnown
    BY DeliveryState
  <2>2. job.key \in 0 .. written
    BY <2>1 DEF WorkerKnown
  <2>3. push.key \in 0 .. written
    BY <2>1 DEF PushKnown
  <2> QED
    BY <2>1, <2>2, <2>3
<1>2. ASSUME media' = media, written' \in {written, written + 1}, alerts' \subseteq alerts \cup {0, job.key},
             unnoted' \subseteq unnoted \cup {job.key}
      PROVE  BooksBounded'
  BY <1>1, <1>2 DEF BooksBounded
<1>3. CASE BeginReply \/ TurnCrashes \/ StartPush \/ SendPush \/ NotePush
  BY <1>2, <1>3 DEF BeginReply, TurnCrashes, StartPush, SendPush, NotePush
<1>4. CASE \E pictures \in SUBSET Pictures, picker, asked \in BOOLEAN : EndReply(pictures, picker, asked)
  BY <1>2, <1>4 DEF EndReply
<1>5. CASE SendPart \/ SendUploaded \/ Upload \/ StoreId
  <2>1. written' = written /\ alerts' = alerts
    BY <1>5 DEF SendPart, SendUploaded, Upload, StoreId
  <2>2. DOMAIN media' = DOMAIN media
    BY <1>5 DEF SendPart, SendUploaded, Upload, StoreId
  <2>3. unnoted' = unnoted \/ unnoted' = unnoted \cup {job.key}
    BY <1>5 DEF SendPart, SendUploaded, Upload, StoreId, Died
  <2> QED
    BY <1>1, <2>1, <2>2, <2>3 DEF BooksBounded
<1>6. CASE FlagFailures \/ StampIds \/ NoteUndelivered
  BY <1>2, <1>6 DEF FlagFailures, StampIds, NoteUndelivered, Died
<1>7. CASE \E p \in OnDisk : StoredElsewhere(p) \/ MediaAges(p)
  <2>1. DOMAIN media' = DOMAIN media /\ UNCHANGED <<alerts, written, unnoted>>
    BY <1>7 DEF StoredElsewhere, MediaAges
  <2> QED
    BY <2>1 DEF BooksBounded
<1>8. CASE \E id \in DOMAIN meta, status \in Statuses : ReportArrives(id, status)
  BY <1>2, <1>8 DEF ReportArrives
<1>9. CASE DeliveryRestarts
  <2>1. unnoted' = unnoted \cup ({job.key, push.key} \ {0}) /\ UNCHANGED <<media, alerts, written>>
    BY <1>9 DEF DeliveryRestarts
  <2> QED
    BY <1>1, <2>1 DEF BooksBounded
<1>10. CASE UNCHANGED deliveryVars
  BY <1>2, <1>10 DEF deliveryVars
<1>11. QED
  BY <1>3, <1>4, <1>5, <1>6, <1>7, <1>8, <1>9, <1>10 DEF DeliveryNext

\* A stored line, its ids and its labels are of the right kind, and the books
\* name no line that was never written.
THEOREM DeliveryTypesHold == DeliverySpec => []DeliveryTypeOK
<1>1. DeliveryInit => BooksBounded
  BY DEF DeliveryInit, BooksBounded
<1>2. DeliveryInv /\ BooksBounded => DeliveryTypeOK
  <2> SUFFICES ASSUME DeliveryInv, BooksBounded PROVE DeliveryTypeOK
    OBVIOUS
  <2>1. lines \in Seq(StoredLine) /\ LinesKnown /\ DeliveryTypes
    BY DeliveryState
  <2> DEFINE Told == [kind : {"reply", "push"}, key : 1 .. written, mids : SUBSET (DOMAIN meta),
                      labels : SUBSET ((DOMAIN meta) \X Pictures), attachments : SUBSET Pictures,
                      missing : SUBSET Pictures, failed : BOOLEAN, receipt : Range(Receipts)]
  <2>2. \A i \in DOMAIN lines : lines[i] \in Told
    <3> SUFFICES ASSUME NEW i \in DOMAIN lines PROVE lines[i] \in Told
      OBVIOUS
    <3>1. lines[i] \in StoredLine /\ lines[i].key \in Nat \ {0}
      BY <2>1, KeysAreSome
    <3>2. lines[i].key <= written /\ KnownOf(lines[i], meta, reports)
      BY <2>1 DEF LinesKnown
    <3>3. lines[i].key \in 1 .. written
      BY <2>1, <3>1, <3>2 DEF DeliveryTypes
    <3>4. lines[i].mids \subseteq DOMAIN meta
      BY <3>2 DEF KnownOf
    <3>5. lines[i].labels \subseteq (DOMAIN meta) \X Pictures
      BY <3>2, <3>4 DEF KnownOf
    <3>6. Range(Receipts) = {"none", "sent", "delivered", "read"}
      BY DEF Range, Receipts
    <3> QED
      BY <3>1, <3>3, <3>4, <3>5, <3>6 DEF StoredLine
  <2>3. lines \in Seq(Told)
    <3> HIDE DEF Told
    <3>1. lines \in [1..Len(lines) -> Told] /\ Len(lines) \in Nat
      BY <2>1, <2>2, LenProperties
    <3> QED
      BY <3>1, SeqDef
  <2>4. QED
    BY <2>3 DEF DeliveryTypeOK, BooksBounded
<1>3. QED
  BY <1>1, <1>2, BooksKeep, DeliveriesInOrder, PTL DEF DeliverySpec
=============================================================================
