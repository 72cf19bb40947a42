---------------------------- MODULE RepliesProofs ----------------------------
(***************************************************************************)
(* Proofs about what the assistant says and what stands behind it.         *)
(*                                                                         *)
(* Under the shop's posts (Comments), for any comments, people, limits and *)
(* instances: however often Meta delivers a comment and whoever fails on   *)
(* the way, it gets one reply of each kind, none is ignored, and a         *)
(* promised direct message comes or is known not to.                       *)
(*                                                                         *)
(* In one reply (ReplyPictures), for any catalogue, sentences and calls of *)
(* tools: what leaves as the model wrote it is true of what leaves.        *)
(*                                                                         *)
(* In the calls to the model (ModelCalls), for any limits and answers of   *)
(* the vendors: nothing that was cut off is taken for the whole.           *)
(***************************************************************************)
EXTENDS Comments, ReplyPictures, ModelCalls, FiniteSetTheorems, TLAPS

-----------------------------------------------------------------------------
(* Comments.                                                               *)

\* Before and after the comment's row is written.
Early == {"claim", "count", "write"}
BeforePublic == {"classify", "route", "public"}

\* The instance has written the comment's row and goes on with it.
Answering(i) == at[i] # None /\ at[i].step \notin Early
AnsweringFor(i, c) == Answering(i) /\ at[i].of = c

\* The primary key of the row lets one handler of a comment through.
OneHandler ==
    \A i, j \in Instances :
        Answering(i) /\ Answering(j) /\ at[i].of = at[j].of => i = j

\* What was replied so far, by the step somebody is at.
Fits(step, public, dm) ==
    /\ step \in BeforePublic => public = 0
    /\ step \in BeforePublic \cup {"mark public", "private"} => dm = 0
    /\ step = "mark public" => public > 0
    /\ step \in {"mark private", "seed"} => dm > 0
StepsMatchReplies ==
    \A i \in Instances : at[i] # None =>
        Fits(at[i].step, published[at[i].of], private[at[i].of])

RepliesHaveRows ==
    \A c \in Comments :
        /\ published[c] <= 1 /\ private[c] <= 1
        /\ published[c] > 0 \/ private[c] > 0 => row[c] # None
        /\ c \in pointing => published[c] > 0

\* Somebody answers it still, or it has come to its end.
Settled(c) ==
    \/ published[c] > 0 \/ private[c] > 0
    \/ c \in alerts \cup dropped \cup failed
    \/ ~Answerable(c)
RowsSettle ==
    \A c \in Comments : row[c] # None => Settled(c) \/ \E i \in Instances : AnsweringFor(i, c)
ClaimsSettle ==
    \A c \in claims : row[c] = None =>
        \/ \E i \in Instances : at[i] # None /\ at[i].of = c /\ at[i].step \in {"count", "write"}
        \/ c \in alerts \cup dropped \cup failed

\* What the decision left in the hand of who carries it out.
LineGoesAlone(c) == ~dms \/ (PublicWithoutDm(row[c].category) /\ c \in alerts)
Decisions ==
    \A i \in Instances : at[i] # None =>
        /\ at[i].step \in Early \cup {"classify", "route"} => ~at[i].dm
        /\ at[i].step = "public" /\ Points(i) /\ ~at[i].dm => LineGoesAlone(at[i].of)

IInv ==
    /\ TypeOK /\ OneHandler /\ StepsMatchReplies /\ RepliesHaveRows
    /\ RowsSettle /\ ClaimsSettle /\ Decisions /\ PromisesKeptOrKnown

-----------------------------------------------------------------------------
\* No comment, no row and no hand is None.
LEMMA HandType ==
    ASSUME TypeOK, NEW i \in Instances, at[i] # None
    PROVE  at[i] \in Hand
BY DEF TypeOK, Hand

LEMMA InitInvariant == Init => IInv
<1> SUFFICES ASSUME Init PROVE IInv
  OBVIOUS
<1>1. TypeOK
  BY CommentsAssumption DEF Init, TypeOK
<1>2. QED
  BY <1>1 DEF Init, IInv, OneHandler, StepsMatchReplies, RepliesHaveRows, RowsSettle,
     ClaimsSettle, Decisions, PromisesKeptOrKnown, Answering, AnsweringFor

\* A commenter's direct messages are finitely many.
LEMMA SpentType == ASSUME NEW c \in Comments PROVE RecentDms(c) \in Nat
<1> DEFINE S == {r \in RowsOf(Commenter[c]) : row[r].private}
<1>1. S \subseteq Comments
  BY DEF RowsOf
<1>2. IsFiniteSet(S)
  BY <1>1, CommentsAssumption, FS_Subset
<1>3. QED
  BY <1>2, FS_CardinalityType DEF RecentDms


\* Changing a field of a hand, and putting a hand back.
LEMMA HandFields ==
    ASSUME NEW h \in Hand
    PROVE  /\ \A s \in Steps : [h EXCEPT !.step = s] \in Hand
           /\ \A s \in Steps, n \in Nat : [h EXCEPT !.step = s, !.spent = n] \in Hand
           /\ \A s \in Steps, d \in BOOLEAN : [h EXCEPT !.step = s, !.dm = d] \in Hand
           /\ \A s \in Steps, k \in Categories \cup {None, "short"} :
                [h EXCEPT !.step = s, !.category = k] \in Hand
           /\ h # None
BY CommentsAssumption DEF Hand

LEMMA RowFields ==
    ASSUME NEW r \in Row
    PROVE  /\ [r EXCEPT !.public = TRUE] \in Row
           /\ [r EXCEPT !.private = TRUE] \in Row
           /\ \A k \in Categories \cup {None, "short", "unavailable"} :
                [r EXCEPT !.category = k] \in Row
           /\ r # None
BY CommentsAssumption DEF Row

LEMMA GoesTo ==
    ASSUME TypeOK, NEW i \in Instances, at[i] # None, NEW s \in Steps, GoTo(i, s)
    PROVE  /\ at' = [at EXCEPT ![i] = [at[i] EXCEPT !.step = s]]
           /\ [at[i] EXCEPT !.step = s] \in Hand
<1>1. at' = [at EXCEPT ![i] = [at[i] EXCEPT !.step = s]]
  BY DEF GoTo
<1>2. QED
  BY <1>1, HandType, HandFields

\* One instance moves, the others keep what they have.
LEMMA Moves ==
    ASSUME TypeOK, NEW i \in Instances, NEW h \in Hand \cup {None}, at' = [at EXCEPT ![i] = h]
    PROVE  /\ at' \in [Instances -> Hand \cup {None}]
           /\ at'[i] = h
           /\ \A j \in Instances : j # i => at'[j] = at[j]
BY DEF TypeOK

-----------------------------------------------------------------------------
(* Steps that answer nothing yet.                                          *)

LEMMA NoHandMoves ==
    ASSUME IInv, NEW i \in Instances, NEW h \in Hand \cup {None}, ~Answering(i),
           at' = [at EXCEPT ![i] = h],
           h # None => h.step \in Early /\ ~h.dm,
           UNCHANGED <<aloud, dms, row, published, private, pointing>>,
           alerts \subseteq alerts', dropped \subseteq dropped', failed \subseteq failed'
    PROVE  /\ OneHandler' /\ StepsMatchReplies' /\ RepliesHaveRows'
           /\ RowsSettle' /\ Decisions' /\ PromisesKeptOrKnown'
<1> USE Moves DEF IInv
<1>1. /\ at'[i] = h
      /\ \A j \in Instances : j # i => at'[j] = at[j]
  OBVIOUS
<1>2. \A j \in Instances : Answering(j)' <=> (j # i /\ Answering(j))
  BY <1>1 DEF Answering
<1>3. OneHandler'
  BY <1>1, <1>2 DEF OneHandler
<1>4. StepsMatchReplies'
  BY <1>1 DEF StepsMatchReplies, Early, BeforePublic, Fits
<1>5. RepliesHaveRows'
  BY DEF RepliesHaveRows
<1>6. RowsSettle'
  BY <1>1, <1>2 DEF RowsSettle, AnsweringFor, Settled, Answerable
<1>7. Decisions'
  BY <1>1 DEF Decisions, Early, Points, LineGoesAlone
<1>8. PromisesKeptOrKnown'
  <2>1. ~(at[i] # None /\ at[i].dm)
    BY DEF Decisions, Answering
  <2>2. \A c \in Comments : DmComes(c) => DmComes(c)'
    BY <1>1, <2>1 DEF DmComes
  <2>3. pointing \subseteq Comments
    BY DEF TypeOK
  <2>4. QED
    BY <2>2, <2>3 DEF PromisesKeptOrKnown
<1>9. QED
  BY <1>3, <1>4, <1>5, <1>6, <1>7, <1>8

\* What types take, when one instance moves.
LEMMA Typed ==
    ASSUME TypeOK, NEW i \in Instances, NEW h \in Hand \cup {None}, at' = [at EXCEPT ![i] = h],
           UNCHANGED <<aloud, dms>>,
           row' \in [Comments -> Row \cup {None}],
           \A c \in Comments : row[c] # None => row'[c] # None,
           h # None /\ h.step \notin Early => row'[h.of] # None,
           published' \in [Comments -> Nat], private' \in [Comments -> Nat],
           deliveries' \in 0 .. MaxDeliveries, faults' \in 0 .. MaxFaults,
           claims' \subseteq Comments, alerts' \subseteq Comments, seeded' \subseteq Comments,
           dropped' \subseteq Comments, failed' \subseteq Comments, pointing' \subseteq Comments
    PROVE  TypeOK'
<1>1. /\ at' \in [Instances -> Hand \cup {None}]
      /\ at'[i] = h
      /\ \A j \in Instances : j # i => at'[j] = at[j]
  BY Moves
<1>2. \A j \in Instances : at'[j] # None /\ at'[j].step \notin Early => row'[at'[j].of] # None
  <2> SUFFICES ASSUME NEW j \in Instances, at'[j] # None, at'[j].step \notin Early
               PROVE  row'[at'[j].of] # None
    OBVIOUS
  <2>1. CASE j = i
    BY <1>1, <2>1
  <2>2. CASE j # i
    <3>1. at[j].of \in Comments
      BY <1>1, <2>2, HandType DEF Hand
    <3>2. QED
      BY <1>1, <2>2, <3>1 DEF TypeOK, Early
  <2>3. QED
    BY <2>1, <2>2
<1>3. \A set \in {claims', alerts', seeded', dropped', failed', pointing'} : set \subseteq Comments
  OBVIOUS
<1>4. aloud' \in BOOLEAN /\ dms' \in BOOLEAN
  BY DEF TypeOK
<1>5. QED
  BY <1>1, <1>2, <1>3, <1>4 DEF TypeOK, Early

LEMMA DeliverInvariant ==
    ASSUME IInv, NEW i \in Instances, NEW c \in Comments, Deliver(i, c)
    PROVE  IInv'
<1> DEFINE h == [of |-> c, step |-> "claim", category |-> None, spent |-> 0, dm |-> FALSE]
<1> h \in Hand
  BY DEF Hand, Steps
<1>1. h \in Hand /\ h # None
  BY CommentsAssumption
<1>2. at' = [at EXCEPT ![i] = h] /\ at[i] = None
  BY DEF Deliver, Go
<1>3. ~Answering(i) /\ h.step \in Early /\ ~h.dm
  BY <1>2 DEF Answering, Early
<1>4. UNCHANGED <<aloud, dms, claims, row, alerts, seeded, published, private, faults,
                  dropped, failed, pointing>>
  BY DEF Deliver, dbVars, metaVars, histVars
<1>5. /\ at' \in [Instances -> Hand \cup {None}]
      /\ at'[i] = h
      /\ \A j \in Instances : j # i => at'[j] = at[j]
  BY <1>1, <1>2, Moves DEF IInv
<1> HIDE DEF h
<1>6. deliveries' \in 0 .. MaxDeliveries
  BY CommentsAssumption DEF IInv, TypeOK, Deliver
<1>7. TypeOK'
  BY <1>1, <1>2, <1>3, <1>4, <1>6, Typed DEF IInv, TypeOK
<1>8. ClaimsSettle'
  BY <1>2, <1>4, <1>5 DEF IInv, ClaimsSettle
<1>9. QED
  BY <1>1, <1>2, <1>3, <1>4, <1>7, <1>8, NoHandMoves DEF IInv

\* A hand that is not past the row lets go, and accounts for its claim.
LEMMA QuietDone ==
    ASSUME IInv, NEW i \in Instances, at[i] # None, ~Answering(i), Done(i),
           UNCHANGED <<aloud, dms, row, seeded, published, private, deliveries, pointing>>,
           claims' \subseteq claims,
           faults' \in 0 .. MaxFaults,
           alerts' \subseteq Comments, alerts \subseteq alerts',
           dropped' \subseteq Comments, dropped \subseteq dropped',
           failed' \subseteq Comments, failed \subseteq failed',
           at[i].step \in {"count", "write"} =>
            \/ at[i].of \in alerts' \cup dropped' \cup failed'
            \/ at[i].of \notin claims'
            \/ row[at[i].of] # None
    PROVE  IInv'
<1>1. at' = [at EXCEPT ![i] = None]
  BY DEF Done
<1>2. TypeOK'
  BY <1>1, Typed DEF IInv, TypeOK
<1>3. ClaimsSettle'
  <2> SUFFICES ASSUME NEW c \in claims', row[c] = None
               PROVE  \/ \E j \in Instances :
                          at'[j] # None /\ at'[j].of = c /\ at'[j].step \in {"count", "write"}
                      \/ c \in alerts' \cup dropped' \cup failed'
    BY DEF ClaimsSettle
  <2>1. CASE c \in alerts \cup dropped \cup failed
    BY <2>1
  <2>2. CASE c \notin alerts \cup dropped \cup failed
    <3>1. PICK j \in Instances : at[j] # None /\ at[j].of = c /\ at[j].step \in {"count", "write"}
      BY <2>2 DEF IInv, ClaimsSettle
    <3>2. CASE j = i
      BY <3>1, <3>2
    <3>3. CASE j # i
      BY <1>1, <3>1, <3>3, Moves DEF IInv
    <3>4. QED
      BY <3>2, <3>3
  <2>3. QED
    BY <2>1, <2>2
<1>4. QED
  BY <1>1, <1>2, <1>3, NoHandMoves DEF IInv

LEMMA ClaimInvariant ==
    ASSUME IInv, NEW i \in Instances, Claim(i)
    PROVE  IInv'
<1> DEFINE c == at[i].of
<1>1. /\ at[i] \in Hand /\ at[i] # None /\ at[i].step = "claim" /\ c \in Comments
      /\ ~Answering(i)
  BY HandType DEF IInv, Claim, Handles, Hand, Answering, Early
<1>2. UNCHANGED <<aloud, dms, row, alerts, seeded, published, private, deliveries, faults,
                  failed, pointing>>
  BY DEF Claim, metaVars, boundVars
<1>3. CASE Done(i) /\ UNCHANGED claims /\ dropped' \in {dropped, dropped \cup {c}}
  BY <1>1, <1>2, <1>3, QuietDone DEF IInv, TypeOK
<1>4. CASE claims' = claims \cup {c} /\ GoTo(i, "count") /\ UNCHANGED dropped
  <2> DEFINE h == [at[i] EXCEPT !.step = "count"]
  <2>1. at' = [at EXCEPT ![i] = h] /\ h \in Hand
    BY <1>1, <1>4, GoesTo DEF IInv, Steps
  <2>2. h # None /\ h.of = c /\ h.step = "count" /\ h.dm = at[i].dm
    BY <1>1, <2>1, CommentsAssumption DEF Hand
  <2>3. ~h.dm
    BY <1>1, <2>2 DEF IInv, Decisions, Early
  <2> HIDE DEF h
  <2>4. TypeOK'
    BY <1>1, <1>2, <1>4, <2>1, <2>2, Typed DEF IInv, TypeOK, Early
  <2>5. ClaimsSettle'
    BY <1>1, <1>2, <1>4, <2>1, <2>2, Moves DEF IInv, ClaimsSettle
  <2>6. QED
    BY <1>1, <1>2, <1>4, <2>1, <2>2, <2>3, <2>4, <2>5, NoHandMoves DEF IInv, Early
<1>5. QED
  BY <1>3, <1>4 DEF Claim

LEMMA QuietSteps ==
    ASSUME IInv, NEW i \in Instances, TooOld(i) \/ Flood(i) \/ RowTaken(i)
    PROVE  IInv'
<1>1. /\ at[i] \in Hand /\ at[i] # None /\ at[i].of \in Comments /\ ~Answering(i)
  BY HandType DEF IInv, TooOld, Flood, RowTaken, Handles, Hand, Answering, Early
<1>2. CASE TooOld(i)
  BY <1>1, <1>2, QuietDone DEF IInv, TypeOK, TooOld, dbVars, metaVars, boundVars
<1>3. CASE Flood(i)
  BY <1>1, <1>3, QuietDone DEF IInv, TypeOK, Flood, metaVars, boundVars
<1>4. CASE RowTaken(i)
  BY <1>1, <1>4, QuietDone DEF IInv, TypeOK, RowTaken, GiveUp, metaVars
<1>5. QED
  BY <1>2, <1>3, <1>4

LEMMA CountInvariant ==
    ASSUME IInv, NEW i \in Instances, Count(i)
    PROVE  IInv'
<1> DEFINE c == at[i].of
<1>1. /\ at[i] \in Hand /\ at[i] # None /\ at[i].step = "count" /\ c \in Comments
      /\ ~Answering(i)
  BY HandType DEF IInv, Count, Handles, Hand, Answering, Early
<1>2. UNCHANGED <<aloud, dms, claims, row, alerts, seeded, published, private, deliveries, faults,
                  dropped, failed, pointing>>
  BY DEF Count, dbVars, metaVars, boundVars, histVars
<1>3. CASE row[c] # None
  BY <1>1, <1>2, <1>3, QuietDone DEF IInv, TypeOK, Count
<1>4. CASE row[c] = None
  <2> DEFINE h == [at[i] EXCEPT !.step = "write", !.spent = RecentDms(c)]
  <2>1. at' = [at EXCEPT ![i] = h]
    BY <1>4 DEF Count, Go
  <2>2. h \in Hand
    BY <1>1, SpentType, HandFields DEF Steps
  <2>3. h # None /\ h.of = c /\ h.step = "write" /\ h.dm = at[i].dm
    BY <1>1, <2>2, CommentsAssumption DEF Hand
  <2>4. ~h.dm
    BY <1>1, <2>3 DEF IInv, Decisions, Early
  <2> HIDE DEF h
  <2>5. TypeOK'
    BY <1>1, <1>2, <2>1, <2>2, <2>3, Typed DEF IInv, TypeOK, Early
  <2>6. ClaimsSettle'
    BY <1>1, <1>2, <2>1, <2>2, <2>3, Moves DEF IInv, ClaimsSettle
  <2>7. QED
    BY <1>1, <1>2, <2>1, <2>2, <2>3, <2>4, <2>5, <2>6, NoHandMoves DEF IInv, Early
<1>5. QED
  BY <1>3, <1>4

-----------------------------------------------------------------------------
(* Steps of the one handler that answers.                                  *)

LEMMA Answers ==
    ASSUME IInv, NEW i \in Instances, NEW c \in Comments, at[i] # None, at[i].of = c,
           \A j \in Instances : j # i => ~AnsweringFor(j, c),
           NEW h \in Hand \cup {None}, at' = [at EXCEPT ![i] = h],
           h # None => h.of = c /\ h.step \notin Early,
           \A d \in Comments : d # c =>
            row'[d] = row[d] /\ published'[d] = published[d] /\ private'[d] = private[d],
           row'[c] # None,
           published'[c] <= 1, private'[c] <= 1,
           pointing' \subseteq pointing \cup {c}, c \in pointing' => published'[c] > 0,
           UNCHANGED <<aloud, dms>>, claims' \subseteq claims,
           alerts \subseteq alerts', dropped \subseteq dropped', failed \subseteq failed',
           h # None => Fits(h.step, published'[c], private'[c]),
           h = None => Settled(c)',
           h # None /\ h.step \in {"classify", "route"} => ~h.dm,
           h # None /\ h.step = "public" /\ Points(i)' /\ ~h.dm => LineGoesAlone(c)',
           c \in pointing' =>
            private'[c] > 0 \/ (h # None /\ h.dm) \/ c \in failed' \/ LineGoesAlone(c)'
    PROVE  /\ OneHandler' /\ StepsMatchReplies' /\ RepliesHaveRows' /\ RowsSettle'
           /\ ClaimsSettle' /\ Decisions' /\ PromisesKeptOrKnown'
<1>1. /\ at'[i] = h
      /\ \A j \in Instances : j # i => at'[j] = at[j]
  BY Moves DEF IInv
<1>2. \A j \in Instances : j # i => (Answering(j)' <=> Answering(j))
  BY <1>1 DEF Answering
<1>3. \A j \in Instances : at[j] # None => at[j].of \in Comments
  BY HandType DEF IInv, Hand
<1>4. OneHandler'
  BY <1>1, <1>2, <1>3 DEF IInv, OneHandler, AnsweringFor, Answering
<1>5. StepsMatchReplies'
  <2> SUFFICES ASSUME NEW j \in Instances, at'[j] # None
               PROVE  Fits(at'[j].step, published'[at'[j].of], private'[at'[j].of])
    BY DEF StepsMatchReplies
  <2>1. CASE j = i
    BY <1>1, <2>1
  <2>2. CASE j # i /\ at[j].of = c
    BY <1>1, <2>2 DEF AnsweringFor, Answering, Fits, Early, BeforePublic
  <2>3. CASE j # i /\ at[j].of # c
    BY <1>1, <1>3, <2>3 DEF IInv, StepsMatchReplies
  <2>4. QED
    BY <2>1, <2>2, <2>3
<1>6. RepliesHaveRows'
  BY DEF IInv, RepliesHaveRows
<1>7. RowsSettle'
  <2> SUFFICES ASSUME NEW d \in Comments, row'[d] # None
               PROVE  Settled(d)' \/ \E j \in Instances : AnsweringFor(j, d)'
    BY DEF RowsSettle
  <2>1. CASE d = c
    BY <1>1, <2>1 DEF AnsweringFor, Answering
  <2>2. CASE d # c
    <3>1. Settled(d) => Settled(d)'
      BY <2>2 DEF Settled, Answerable
    <3>2. \A j \in Instances : AnsweringFor(j, d) => AnsweringFor(j, d)'
      BY <1>1, <2>2 DEF AnsweringFor, Answering
    <3>3. QED
      BY <2>2, <3>1, <3>2 DEF IInv, RowsSettle
  <2>3. QED
    BY <2>1, <2>2
<1>8. ClaimsSettle'
  <2> SUFFICES ASSUME NEW d \in claims', row'[d] = None
               PROVE  \/ \E j \in Instances :
                          at'[j] # None /\ at'[j].of = d /\ at'[j].step \in {"count", "write"}
                      \/ d \in alerts' \cup dropped' \cup failed'
    BY DEF ClaimsSettle
  <2>1. d \in Comments /\ d # c /\ row[d] = None
    BY DEF IInv, TypeOK
  <2>2. QED
    BY <1>1, <2>1 DEF IInv, ClaimsSettle
<1>9. Decisions'
  <2> SUFFICES ASSUME NEW j \in Instances, at'[j] # None
               PROVE  /\ at'[j].step \in Early \cup {"classify", "route"} => ~at'[j].dm
                      /\ at'[j].step = "public" /\ Points(j)' /\ ~at'[j].dm
                            => LineGoesAlone(at[j].of)'
    BY DEF Decisions
  <2>1. CASE j = i
    BY <1>1, <2>1
  <2>2. CASE j # i
    <3>1. /\ at[j].step \in Early \cup {"classify", "route"} => ~at[j].dm
          /\ at[j].step = "public" /\ Points(j) /\ ~at[j].dm => LineGoesAlone(at[j].of)
      BY <1>1, <2>2 DEF IInv, Decisions
    <3>2. CASE at[j].of = c
      BY <1>1, <2>2, <3>1, <3>2 DEF AnsweringFor, Answering, Early
    <3>3. CASE at[j].of # c
      <4>1. row'[at[j].of] = row[at[j].of] /\ at'[j] = at[j]
        BY <1>1, <1>3, <2>2, <3>3
      <4>2. Points(j)' = Points(j)
        BY <4>1 DEF Points
      <4>3. LineGoesAlone(at[j].of) => LineGoesAlone(at[j].of)'
        BY <4>1 DEF LineGoesAlone
      <4>4. QED
        BY <3>1, <4>1, <4>2, <4>3
    <3>4. QED
      BY <3>2, <3>3
  <2>3. QED
    BY <2>1, <2>2
<1>10. PromisesKeptOrKnown'
  <2> SUFFICES ASSUME NEW d \in pointing'
               PROVE  private'[d] > 0 \/ DmComes(d)' \/ d \in failed' \/ LineGoesAlone(d)'
    BY DEF PromisesKeptOrKnown, LineGoesAlone
  <2>1. CASE d = c
    BY <1>1, <2>1 DEF DmComes
  <2>2. CASE d # c
    <3>1. d \in pointing /\ d \in Comments
      BY <2>2 DEF IInv, TypeOK
    <3>2. DmComes(d) => DmComes(d)'
      BY <1>1, <2>2 DEF DmComes
    <3>3. private[d] > 0 \/ DmComes(d) \/ d \in failed \/ LineGoesAlone(d)
      BY <3>1 DEF IInv, PromisesKeptOrKnown, LineGoesAlone
    <3>4. QED
      BY <2>2, <3>1, <3>2, <3>3 DEF LineGoesAlone
  <2>3. QED
    BY <2>1, <2>2
<1>11. QED
  BY <1>4, <1>5, <1>6, <1>7, <1>8, <1>9, <1>10

\* What an instance that answers may rely on.
LEMMA HasTheComment ==
    ASSUME IInv, NEW i \in Instances, Answering(i)
    PROVE  /\ at[i] \in Hand /\ at[i] # None /\ at[i].of \in Comments
           /\ \A j \in Instances : j # i => ~AnsweringFor(j, at[i].of)
           /\ row[at[i].of] \in Row /\ row[at[i].of] # None
           /\ published[at[i].of] \in Nat /\ private[at[i].of] \in Nat
           /\ published[at[i].of] <= 1 /\ private[at[i].of] <= 1
           /\ Fits(at[i].step, published[at[i].of], private[at[i].of])
<1>1. at[i] \in Hand /\ at[i] # None /\ at[i].of \in Comments
  BY HandType DEF IInv, Answering, Hand
<1>2. \A j \in Instances : j # i => ~AnsweringFor(j, at[i].of)
  BY DEF IInv, OneHandler, AnsweringFor
<1>3. row[at[i].of] # None
  BY <1>1 DEF IInv, TypeOK, Answering, Early
<1>4. /\ row[at[i].of] \in Row
      /\ published[at[i].of] \in Nat /\ private[at[i].of] \in Nat
  BY <1>1, <1>3 DEF IInv, TypeOK
<1>5. published[at[i].of] <= 1 /\ private[at[i].of] <= 1
  BY <1>1 DEF IInv, RepliesHaveRows
<1>6. QED
  BY <1>1, <1>2, <1>3, <1>4, <1>5 DEF IInv, StepsMatchReplies

LEMMA WriteRowInvariant ==
    ASSUME IInv, NEW i \in Instances, WriteRow(i)
    PROVE  IInv'
<1> DEFINE c == at[i].of
           r == [faq |-> AnsweredByFaq(c), public |-> FALSE, private |-> FALSE, category |-> None]
           k == IF Says[c] = "short" THEN "short" ELSE None
           h == [at[i] EXCEPT !.step = AfterRow(c), !.category = k]
<1>1. /\ at[i] \in Hand /\ at[i] # None /\ at[i].step = "write" /\ c \in Comments
      /\ row[c] = None
  BY HandType DEF IInv, WriteRow, Handles, Hand
<1>2. UNCHANGED <<aloud, dms, claims, alerts, seeded, published, private, deliveries, faults,
                  dropped, failed, pointing>>
  BY DEF WriteRow, metaVars, boundVars, histVars
<1>3. at' = [at EXCEPT ![i] = h] /\ row' = [row EXCEPT ![c] = r]
  BY DEF WriteRow, Go
<1>4. AfterRow(c) \in BeforePublic /\ AfterRow(c) \in Steps /\ AfterRow(c) \notin Early
  BY DEF AfterRow, BeforePublic, Steps, Early
<1>5. k \in Categories \cup {None, "short"}
  OBVIOUS
<1>6. AnsweredByFaq(c) \in BOOLEAN
  BY DEF AnsweredByFaq, IInv, TypeOK
<1>7. r \in Row /\ r # None
  <2>1. r \in Row
    BY <1>6 DEF Row
  <2>2. QED
    BY <2>1, CommentsAssumption
<1>8. h \in Hand /\ h # None
  BY <1>1, <1>4, <1>5, HandFields
<1>9. h.of = c /\ h.step = AfterRow(c) /\ h.category = k /\ h.dm = at[i].dm
  BY <1>1, <1>4, <1>5 DEF Hand
<1>10. ~h.dm
  BY <1>1, <1>9 DEF IInv, Decisions, Early
<1>11. published[c] = 0 /\ private[c] = 0 /\ c \notin pointing
  BY <1>1 DEF IInv, TypeOK, RepliesHaveRows
<1>12. \A j \in Instances : ~AnsweringFor(j, c)
  BY <1>1 DEF IInv, TypeOK, AnsweringFor, Answering, Early
<1>13. h.step = "public" => k = None
  <2>1. Says[c] = "short" => AfterRow(c) # "public"
    BY DEF AfterRow, AnsweredByFaq
  <2>2. QED
    BY <1>9, <2>1
<1>14. at'[i] = h
  BY <1>3, <1>8, Moves DEF IInv
<1>15. h.step = "public" => ~Points(i)'
  BY <1>9, <1>13, <1>14 DEF Points
<1>16. /\ row' \in [Comments -> Row \cup {None}]
       /\ row'[c] = r
       /\ \A d \in Comments : d # c => row'[d] = row[d]
  BY <1>1, <1>3, <1>7 DEF IInv, TypeOK
<1> HIDE DEF c, r, k, h
<1>17. TypeOK'
  BY <1>2, <1>3, <1>7, <1>8, <1>9, <1>16, Typed DEF IInv, TypeOK
<1>18. Fits(h.step, published'[c], private'[c])
  BY <1>2, <1>4, <1>9, <1>11 DEF Fits, BeforePublic
<1>19. at[i].of = c
  BY DEF c
<1>20. published'[c] <= 1 /\ private'[c] <= 1 /\ c \notin pointing'
  BY <1>2, <1>11
<1>21. row'[c] # None /\ h.step \notin Early
  BY <1>4, <1>7, <1>9, <1>16
<1>22. /\ OneHandler' /\ StepsMatchReplies' /\ RepliesHaveRows' /\ RowsSettle'
       /\ ClaimsSettle' /\ Decisions' /\ PromisesKeptOrKnown'
  BY <1>1, <1>2, <1>3, <1>8, <1>9, <1>10, <1>12, <1>15, <1>16, <1>18, <1>19, <1>20, <1>21, Answers
<1>23. QED
  BY <1>17, <1>22 DEF IInv

\* What a step does that takes the answering instance on, to h: one step further.
GoesOn(i, c, h) ==
    /\ at' = [at EXCEPT ![i] = h] /\ h.of = c /\ h.step \notin Early
    /\ UNCHANGED <<aloud, dms, deliveries, faults, claims, dropped, seeded>>
    /\ row' \in [Comments -> Row \cup {None}] /\ row'[c] # None
    /\ \A d \in Comments : d # c =>
        row'[d] = row[d] /\ published'[d] = published[d] /\ private'[d] = private[d]
    /\ published' \in [Comments -> Nat] /\ published'[c] <= 1
    /\ private' \in [Comments -> Nat] /\ private'[c] <= 1
    /\ pointing' \subseteq pointing \cup {c} /\ (c \in pointing' => published'[c] > 0)
    /\ alerts' \subseteq Comments /\ alerts \subseteq alerts'
    /\ failed' \subseteq Comments /\ failed \subseteq failed'
    /\ Fits(h.step, published'[c], private'[c])
    /\ h.step \in {"classify", "route"} => ~h.dm
    /\ h.step = "public" /\ h.category # None /\ OpensDm(h.category) /\ ~h.dm
            => LineGoesAlone(c)'
    /\ c \in pointing' => private'[c] > 0 \/ h.dm \/ c \in failed' \/ LineGoesAlone(c)'

\* And one with which it lets go, the comment being settled.
Ends(i, c) ==
    /\ Done(i)
    /\ UNCHANGED <<aloud, dms, deliveries, dropped>>
    /\ row' \in [Comments -> Row \cup {None}] /\ row'[c] # None
    /\ \A d \in Comments : d # c =>
        row'[d] = row[d] /\ published'[d] = published[d] /\ private'[d] = private[d]
    /\ published' \in [Comments -> Nat] /\ published'[c] <= 1
    /\ private' \in [Comments -> Nat] /\ private'[c] <= 1
    /\ pointing' \subseteq pointing \cup {c} /\ (c \in pointing' => published'[c] > 0)
    /\ claims' \subseteq claims /\ faults' \in 0 .. MaxFaults /\ seeded' \subseteq Comments
    /\ alerts' \subseteq Comments /\ alerts \subseteq alerts'
    /\ failed' \subseteq Comments /\ failed \subseteq failed'
    /\ Settled(c)'
    /\ c \in pointing' => private'[c] > 0 \/ c \in failed' \/ LineGoesAlone(c)'

LEMMA AnswerEnds ==
    ASSUME IInv, NEW i \in Instances, NEW c \in Comments, Answering(i), at[i].of = c, Ends(i, c)
    PROVE  IInv'
<1> USE DEF Ends
<1>1. at' = [at EXCEPT ![i] = None]
  BY DEF Done
<1>2. pointing' \subseteq Comments /\ claims' \subseteq Comments /\ dropped' \subseteq Comments
  BY DEF IInv, TypeOK
<1>3. TypeOK'
  BY <1>1, <1>2, Typed DEF IInv, TypeOK
<1>4. at[i] # None /\ \A j \in Instances : j # i => ~AnsweringFor(j, c)
  BY HasTheComment
<1>5. QED
  BY <1>1, <1>3, <1>4, Answers DEF IInv

\* Until it lets go, the public line's promise is in its hand.
LEMMA PromiseSoFar ==
    ASSUME IInv, NEW i \in Instances, NEW c \in Comments, Answering(i), at[i].of = c, c \in pointing
    PROVE  private[c] > 0 \/ at[i].dm \/ c \in failed \/ LineGoesAlone(c)
<1> SUFFICES ASSUME ~at[i].dm
             PROVE  private[c] > 0 \/ c \in failed \/ LineGoesAlone(c)
  OBVIOUS
<1>1. ~DmComes(c)
  BY HasTheComment DEF DmComes, AnsweringFor, Answering, IInv, Decisions, Early
<1>2. QED
  BY <1>1 DEF IInv, PromisesKeptOrKnown, LineGoesAlone

LEMMA AnswerGoesOn ==
    ASSUME IInv, NEW i \in Instances, NEW c \in Comments, Answering(i), at[i].of = c,
           NEW h \in Hand, GoesOn(i, c, h)
    PROVE  IInv'
<1> USE DEF GoesOn
<1>1. h # None
  BY CommentsAssumption
<1>2. pointing' \subseteq Comments
  BY DEF IInv, TypeOK
<1>3. TypeOK'
  BY <1>1, <1>2, Typed DEF IInv, TypeOK
<1>4. at'[i] = h
  BY Moves DEF IInv
<1>5. Points(i)' => h.category # None /\ OpensDm(h.category)
  BY <1>4 DEF Points
<1>6. h.step = "public" /\ Points(i)' /\ ~h.dm => LineGoesAlone(c)'
  BY <1>5
<1>7. at[i] # None /\ \A j \in Instances : j # i => ~AnsweringFor(j, c)
  BY HasTheComment
<1>8. c \in pointing' => private'[c] > 0 \/ (h # None /\ h.dm) \/ c \in failed' \/ LineGoesAlone(c)'
  BY <1>1
<1>9. h \in Hand \cup {None} /\ (h # None => h.of = c /\ h.step \notin Early)
  OBVIOUS
<1>10. claims' \subseteq claims /\ dropped \subseteq dropped' /\ UNCHANGED <<aloud, dms>>
  OBVIOUS
<1>11. h # None => Fits(h.step, published'[c], private'[c])
  OBVIOUS
<1>12. h = None => Settled(c)'
  BY <1>1
<1>13. h # None /\ h.step \in {"classify", "route"} => ~h.dm
  OBVIOUS
<1>14. h # None /\ h.step = "public" /\ Points(i)' /\ ~h.dm => LineGoesAlone(c)'
  BY <1>6
<1>15. /\ OneHandler' /\ StepsMatchReplies' /\ RepliesHaveRows' /\ RowsSettle'
      /\ ClaimsSettle' /\ Decisions' /\ PromisesKeptOrKnown'
  BY <1>9, <1>10, <1>11, <1>12, <1>13, <1>14, <1>7, <1>8, Answers
<1>16. QED
  BY <1>3, <1>15 DEF IInv

LEMMA ClassifyInvariant ==
    ASSUME IInv, NEW i \in Instances, NEW c \in Comments, at[i].of = c, Classify(i)
    PROVE  IInv'
<1>1. Answering(i) /\ at[i] # None /\ at[i].step = "classify"
  BY DEF Classify, Handles, Answering, Early
<1>2. at[i] \in Hand /\ row[c] \in Row /\ published[c] = 0 /\ private[c] = 0
  BY <1>1, HasTheComment DEF Fits, BeforePublic
<1>3. c \notin pointing
  BY <1>2 DEF IInv, RepliesHaveRows
<1>4. UNCHANGED <<aloud, dms, claims, seeded, published, private, deliveries, faults, dropped,
                  failed, pointing>>
  BY DEF Classify, metaVars, boundVars, histVars
<1>5. /\ alerts \subseteq Comments /\ failed \subseteq Comments /\ seeded \subseteq Comments
      /\ faults \in 0 .. MaxFaults
      /\ published \in [Comments -> Nat] /\ private \in [Comments -> Nat]
  BY DEF IInv, TypeOK
<1>6. ASSUME NEW k \in Categories \cup {"unavailable"}, row' = [row EXCEPT ![c].category = k]
      PROVE  /\ row' \in [Comments -> Row \cup {None}]
             /\ row'[c] # None
             /\ \A d \in Comments : d # c => row'[d] = row[d]
  <2>1. row' = [row EXCEPT ![c] = [row[c] EXCEPT !.category = k]]
    BY <1>6
  <2>2. [row[c] EXCEPT !.category = k] \in Row /\ [row[c] EXCEPT !.category = k] # None
    BY <1>2, RowFields
  <2>3. QED
    BY <1>2, <2>1, <2>2 DEF IInv, TypeOK
<1>7. ASSUME NEW k \in Categories, row' = [row EXCEPT ![c].category = k], UNCHANGED alerts,
             Go(i, [at[i] EXCEPT !.step = "route", !.category = k])
      PROVE  IInv'
  <2> DEFINE h == [at[i] EXCEPT !.step = "route", !.category = k]
  <2>1. at' = [at EXCEPT ![i] = h] /\ h \in Hand
    BY <1>2, <1>7, HandFields DEF Go, Steps
  <2>2. h.of = c /\ h.step = "route" /\ h.dm = at[i].dm
    BY <1>2, <2>1 DEF Hand
  <2>3. ~h.dm
    BY <1>1, <2>2 DEF IInv, Decisions
  <2>4. Fits(h.step, published'[c], private'[c]) /\ h.step \notin Early
    BY <1>2, <1>4, <2>2 DEF Fits, Early
  <2>5. c \notin pointing' /\ published'[c] <= 1 /\ private'[c] <= 1
    BY <1>2, <1>3, <1>4
  <2> HIDE DEF h
  <2>6. GoesOn(i, c, h)
    BY <1>4, <1>5, <1>6, <1>7, <2>1, <2>2, <2>3, <2>4, <2>5 DEF GoesOn
  <2>7. QED
    BY <1>1, <2>1, <2>6, AnswerGoesOn
<1>8. ASSUME alerts' = alerts \cup {c}, row' = [row EXCEPT ![c].category = "unavailable"], Done(i)
      PROVE  IInv'
  <2>1. Settled(c)'
    BY <1>8 DEF Settled
  <2>2. published'[c] <= 1 /\ private'[c] <= 1 /\ c \notin pointing'
    BY <1>2, <1>3, <1>4
  <2>3. Ends(i, c)
    BY <1>3, <1>4, <1>5, <1>6, <1>8, <2>1, <2>2 DEF Ends
  <2>4. QED
    BY <1>1, <2>3, AnswerEnds
<1>9. QED
  BY <1>7, <1>8 DEF Classify

LEMMA PublicReplyInvariant ==
    ASSUME IInv, NEW i \in Instances, NEW c \in Comments, at[i].of = c,
           PublicReply(i) \/ PublicRefused(i)
    PROVE  IInv'
<1>1. Answering(i) /\ at[i] # None /\ at[i].step = "public"
  BY DEF PublicReply, PublicRefused, Handles, Answering, Early
<1>2. /\ at[i] \in Hand /\ row[c] \in Row /\ row[c] # None
      /\ published[c] = 0 /\ private[c] = 0
  BY <1>1, HasTheComment DEF Fits, BeforePublic
<1>3. c \notin pointing
  BY <1>2 DEF IInv, RepliesHaveRows
<1>4. UNCHANGED <<aloud, dms, claims, row, alerts, seeded, private, deliveries, faults, dropped>>
  BY DEF PublicReply, PublicRefused, dbVars, metaVars, boundVars
<1>5. /\ alerts \subseteq Comments /\ seeded \subseteq Comments /\ failed \subseteq Comments
      /\ faults \in 0 .. MaxFaults
      /\ row \in [Comments -> Row \cup {None}]
      /\ published \in [Comments -> Nat] /\ private \in [Comments -> Nat]
  BY DEF IInv, TypeOK
<1>6. published' = published \/ published' = [published EXCEPT ![c] = published[c] + 1]
  BY DEF PublicReply, PublicRefused, metaVars
<1>7. /\ published' \in [Comments -> Nat] /\ published'[c] <= 1
      /\ \A d \in Comments : d # c => published'[d] = published[d]
  BY <1>2, <1>5, <1>6
<1>8. failed \subseteq failed' /\ failed' \subseteq Comments
  BY <1>5 DEF PublicReply, PublicRefused
<1>9. PublicReply(i) => published'[c] > 0
  <2>1. PublicReply(i) => published' = [published EXCEPT ![c] = published[c] + 1]
    BY DEF PublicReply
  <2>2. QED
    BY <1>2, <1>5, <2>1
<1>10. pointing' = pointing \/ (pointing' = pointing \cup {c} /\ PublicReply(i))
  BY DEF PublicReply, PublicRefused
<1>11. pointing' \subseteq pointing \cup {c} /\ (c \in pointing' => published'[c] > 0)
  BY <1>3, <1>9, <1>10
<1>12. row'[c] # None /\ private'[c] <= 1
  BY <1>2, <1>4
<1>13. c \in pointing' => at[i].dm \/ LineGoesAlone(c)'
  <2>1. c \in pointing' => Points(i)
    BY <1>3 DEF PublicReply, PublicRefused
  <2>2. Points(i) /\ ~at[i].dm => LineGoesAlone(c)
    BY <1>1 DEF IInv, Decisions
  <2>3. LineGoesAlone(c) => LineGoesAlone(c)'
    BY <1>4 DEF LineGoesAlone
  <2>4. QED
    BY <2>1, <2>2, <2>3
<1>14. ASSUME NEW s \in {"mark public", "private"}, s = "mark public" => published'[c] > 0,
             s = "private" => at[i].dm, at' = [at EXCEPT ![i] = [at[i] EXCEPT !.step = s]]
      PROVE  IInv'
  <2> DEFINE h == [at[i] EXCEPT !.step = s]
  <2>1. h \in Hand
    BY <1>2, HandFields DEF Steps
  <2>2. h.of = c /\ h.step = s /\ h.dm = at[i].dm
    BY <1>2 DEF Hand
  <2>3. Fits(h.step, published'[c], private'[c]) /\ h.step \notin Early
    <3>1. private'[c] = 0
      BY <1>2, <1>4
    <3>2. CASE s = "mark public"
      BY <1>14, <2>2, <3>1, <3>2 DEF Fits, Early, BeforePublic
    <3>3. CASE s = "private"
      BY <2>2, <3>1, <3>3 DEF Fits, Early, BeforePublic
    <3>4. QED
      BY <3>2, <3>3
  <2>4. row'[c] # None /\ private'[c] <= 1
    BY <1>12
  <2>5. at' = [at EXCEPT ![i] = h]
    BY <1>14
  <2>6. h.step \notin {"classify", "route", "public"}
    BY <2>2
  <2> HIDE DEF h
  <2>7. c \in pointing' => h.dm \/ LineGoesAlone(c)'
    BY <1>13, <2>2
  <2>8. GoesOn(i, c, h)
    BY <1>4, <1>5, <1>7, <1>8, <1>11, <2>2, <2>3, <2>4, <2>7, <2>5, <2>6 DEF GoesOn
  <2>9. QED
    BY <1>1, <2>1, <2>8, AnswerGoesOn
<1>15. ASSUME at' = [at EXCEPT ![i] = None], failed' = failed \cup {c}
      PROVE  IInv'
  <2>1. Settled(c)' /\ c \in failed'
    BY <1>15 DEF Settled
  <2>2. row'[c] # None /\ private'[c] <= 1
    BY <1>2, <1>4
  <2>3. Done(i)
    BY <1>15 DEF Done
  <2>4. Ends(i, c)
    BY <1>4, <1>5, <1>7, <1>8, <1>11, <2>1, <2>2, <2>3 DEF Ends
  <2>5. QED
    BY <1>1, <2>4, AnswerEnds
<1>16. CASE GoTo(i, "mark public") /\ PublicReply(i)
  <2>1. published'[c] > 0
    BY <1>9, <1>16
  <2>2. at' = [at EXCEPT ![i] = [at[i] EXCEPT !.step = "mark public"]]
    BY <1>16 DEF GoTo
  <2>3. QED
    BY <1>14, <2>1, <2>2
<1>17. CASE Go(i, AfterPublic(i)) /\ failed' = failed \cup {c}
  <2>1. CASE at[i].dm
    BY <1>14, <1>17, <2>1 DEF Go, AfterPublic
  <2>2. CASE ~at[i].dm
    BY <1>15, <1>17, <2>2 DEF Go, AfterPublic
  <2>3. QED
    BY <2>1, <2>2
<1>18. QED
  BY <1>16, <1>17 DEF PublicReply, PublicRefused

LEMMA MarkInvariant ==
    ASSUME IInv, NEW i \in Instances, NEW c \in Comments, at[i].of = c, MarkPublic(i)
    PROVE  IInv'
<1>1. Answering(i) /\ at[i] # None /\ at[i].step = "mark public"
  BY DEF MarkPublic, Handles, Answering, Early
<1>2. /\ at[i] \in Hand /\ row[c] \in Row
      /\ published[c] > 0 /\ published[c] <= 1 /\ private[c] = 0
  BY <1>1, HasTheComment DEF Fits
<1>3. UNCHANGED <<aloud, dms, claims, alerts, seeded, published, private, deliveries, faults,
                  dropped, failed, pointing>>
  BY DEF MarkPublic, metaVars, boundVars, histVars
<1>4. /\ alerts \subseteq Comments /\ seeded \subseteq Comments /\ failed \subseteq Comments
      /\ faults \in 0 .. MaxFaults
      /\ published \in [Comments -> Nat] /\ private \in [Comments -> Nat]
  BY DEF IInv, TypeOK
<1>5. /\ row' \in [Comments -> Row \cup {None}]
      /\ row'[c] # None /\ row'[c].category = row[c].category
      /\ \A d \in Comments : d # c => row'[d] = row[d]
  <2>1. row' = [row EXCEPT ![c] = [row[c] EXCEPT !.public = TRUE]]
    BY DEF MarkPublic
  <2>2. [row[c] EXCEPT !.public = TRUE] \in Row /\ [row[c] EXCEPT !.public = TRUE] # None
    BY <1>2, RowFields
  <2>3. [row[c] EXCEPT !.public = TRUE].category = row[c].category
    BY <1>2 DEF Row
  <2>4. QED
    BY <1>2, <2>1, <2>2, <2>3 DEF IInv, TypeOK
<1>6. c \in pointing => at[i].dm \/ c \in failed' \/ LineGoesAlone(c)'
  <2>1. c \in pointing => at[i].dm \/ c \in failed \/ LineGoesAlone(c)
    <3> SUFFICES ASSUME c \in pointing
                 PROVE  at[i].dm \/ c \in failed \/ LineGoesAlone(c)
      OBVIOUS
    <3>1. private[c] > 0 \/ at[i].dm \/ c \in failed \/ LineGoesAlone(c)
      BY <1>1, PromiseSoFar
    <3>2. QED
      BY <1>2, <3>1
  <2>2. LineGoesAlone(c) => LineGoesAlone(c)'
    BY <1>3, <1>5 DEF LineGoesAlone
  <2>3. QED
    BY <1>3, <2>1, <2>2
<1>7. published'[c] <= 1 /\ published'[c] > 0 /\ private'[c] <= 1 /\ private'[c] = 0
  BY <1>2, <1>3
<1>8. CASE at[i].dm
  <2> DEFINE h == [at[i] EXCEPT !.step = "private"]
  <2>1. at' = [at EXCEPT ![i] = h] /\ h \in Hand
    BY <1>2, <1>8, HandFields DEF MarkPublic, Go, AfterPublic, Steps
  <2>2. h.of = c /\ h.step = "private" /\ h.dm = at[i].dm
    BY <1>2 DEF Hand
  <2>3. Fits(h.step, published'[c], private'[c]) /\ h.step \notin Early
    BY <1>7, <2>2 DEF Fits, Early, BeforePublic
  <2> HIDE DEF h
  <2>4. h.dm
    BY <1>8, <2>2
  <2>5. GoesOn(i, c, h)
    BY <1>3, <1>4, <1>5, <1>7, <2>1, <2>2, <2>3, <2>4 DEF GoesOn
  <2>6. QED
    BY <1>1, <2>1, <2>5, AnswerGoesOn
<1>9. CASE ~at[i].dm
  <2>1. Done(i)
    BY <1>9 DEF MarkPublic, Go, AfterPublic, Done
  <2>2. Settled(c)'
    BY <1>7 DEF Settled
  <2>3. Ends(i, c)
    BY <1>3, <1>4, <1>5, <1>6, <1>7, <1>9, <2>1, <2>2 DEF Ends
  <2>4. QED
    BY <1>1, <2>3, AnswerEnds
<1>10. QED
  BY <1>8, <1>9

LEMMA PrivateReplyInvariant ==
    ASSUME IInv, NEW i \in Instances, NEW c \in Comments, at[i].of = c,
           PrivateReply(i) \/ PrivateRefused(i)
    PROVE  IInv'
<1>1. Answering(i) /\ at[i] # None /\ at[i].step = "private"
  BY DEF PrivateReply, PrivateRefused, Handles, Answering, Early
<1>2. /\ at[i] \in Hand /\ row[c] \in Row /\ row[c] # None
      /\ published[c] <= 1 /\ private[c] = 0
  BY <1>1, HasTheComment DEF Fits
<1>3. UNCHANGED <<aloud, dms, claims, row, alerts, seeded, published, deliveries, faults,
                  dropped, pointing>>
  BY DEF PrivateReply, PrivateRefused, dbVars, metaVars, boundVars
<1>4. /\ alerts \subseteq Comments /\ seeded \subseteq Comments /\ failed \subseteq Comments
      /\ faults \in 0 .. MaxFaults
      /\ row \in [Comments -> Row \cup {None}]
      /\ published \in [Comments -> Nat] /\ private \in [Comments -> Nat]
  BY DEF IInv, TypeOK
<1>5. c \in pointing => published[c] > 0
  BY DEF IInv, RepliesHaveRows
<1>6. private' = private \/ private' = [private EXCEPT ![c] = private[c] + 1]
  BY DEF PrivateReply, PrivateRefused, metaVars
<1>7. /\ private' \in [Comments -> Nat] /\ private'[c] <= 1
      /\ \A d \in Comments : d # c => private'[d] = private[d]
  BY <1>2, <1>4, <1>6
<1>8. PrivateReply(i) => private'[c] > 0
  <2>1. PrivateReply(i) => private' = [private EXCEPT ![c] = private[c] + 1]
    BY DEF PrivateReply
  <2>2. QED
    BY <1>2, <1>4, <2>1
<1>9. CASE Done(i) /\ failed' = failed \cup {c}
  <2>1. Settled(c)'
    BY <1>9 DEF Settled
  <2>2. published'[c] <= 1 /\ (c \in pointing' => published'[c] > 0) /\ row'[c] # None
    BY <1>2, <1>3, <1>5
  <2>3. Ends(i, c)
    BY <1>3, <1>4, <1>7, <1>9, <2>1, <2>2 DEF Ends
  <2>4. QED
    BY <1>1, <2>3, AnswerEnds
<1>10. CASE PrivateReply(i) /\ GoTo(i, "mark private") /\ UNCHANGED failed
  <2> DEFINE h == [at[i] EXCEPT !.step = "mark private"]
  <2>1. at' = [at EXCEPT ![i] = h] /\ h \in Hand
    BY <1>1, <1>10, GoesTo DEF IInv, Steps
  <2>2. h.of = c /\ h.step = "mark private"
    BY <1>2 DEF Hand
  <2>3. Fits(h.step, published'[c], private'[c]) /\ h.step \notin Early
    BY <1>8, <1>10, <2>2 DEF Fits, Early, BeforePublic
  <2>4. published'[c] <= 1 /\ (c \in pointing' => published'[c] > 0) /\ row'[c] # None
    BY <1>2, <1>3, <1>5
  <2> HIDE DEF h
  <2>5. GoesOn(i, c, h)
    BY <1>3, <1>4, <1>7, <1>8, <1>10, <2>1, <2>2, <2>3, <2>4 DEF GoesOn
  <2>6. QED
    BY <1>1, <2>1, <2>5, AnswerGoesOn
<1>11. QED
  BY <1>9, <1>10 DEF PrivateReply, PrivateRefused

LEMMA PrivateDoneInvariant ==
    ASSUME IInv, NEW i \in Instances, NEW c \in Comments, at[i].of = c,
           MarkPrivate(i) \/ Seed(i)
    PROVE  IInv'
<1>1. Answering(i) /\ at[i] # None /\ at[i].step \in {"mark private", "seed"}
  BY DEF MarkPrivate, Seed, Handles, Answering, Early
<1>2. /\ at[i] \in Hand /\ row[c] \in Row
      /\ published[c] <= 1 /\ private[c] > 0 /\ private[c] <= 1
  BY <1>1, HasTheComment DEF Fits
<1>3. UNCHANGED <<aloud, dms, claims, alerts, published, private, deliveries, faults,
                  dropped, failed, pointing>>
  BY DEF MarkPrivate, Seed, metaVars, boundVars, histVars
<1>4. /\ alerts \subseteq Comments /\ seeded' \subseteq Comments /\ failed \subseteq Comments
      /\ faults \in 0 .. MaxFaults
      /\ published \in [Comments -> Nat] /\ private \in [Comments -> Nat]
  BY DEF IInv, TypeOK, MarkPrivate, Seed
<1>5. c \in pointing => published[c] > 0
  BY DEF IInv, RepliesHaveRows
<1>6. /\ row' \in [Comments -> Row \cup {None}]
      /\ row'[c] # None
      /\ \A d \in Comments : d # c => row'[d] = row[d]
  <2>1. CASE MarkPrivate(i)
    <3>1. row' = [row EXCEPT ![c] = [row[c] EXCEPT !.private = TRUE]]
      BY <2>1 DEF MarkPrivate
    <3>2. [row[c] EXCEPT !.private = TRUE] \in Row /\ [row[c] EXCEPT !.private = TRUE] # None
      BY <1>2, RowFields
    <3>3. QED
      BY <1>2, <3>1, <3>2 DEF IInv, TypeOK
  <2>2. CASE Seed(i)
    BY <1>1, <2>2, HasTheComment DEF Seed, IInv, TypeOK
  <2>3. QED
    BY <2>1, <2>2
<1>7. /\ published'[c] <= 1 /\ private'[c] > 0 /\ private'[c] <= 1
      /\ c \in pointing' => published'[c] > 0
  BY <1>2, <1>3, <1>5
<1>8. CASE Done(i)
  <2>1. Settled(c)'
    BY <1>7 DEF Settled
  <2>2. Ends(i, c)
    BY <1>3, <1>4, <1>6, <1>7, <1>8, <2>1 DEF Ends
  <2>3. QED
    BY <1>1, <2>2, AnswerEnds
<1>9. CASE GoTo(i, "seed") /\ MarkPrivate(i)
  <2> DEFINE h == [at[i] EXCEPT !.step = "seed"]
  <2>1. at' = [at EXCEPT ![i] = h] /\ h \in Hand
    BY <1>1, <1>9, GoesTo DEF IInv, Steps
  <2>2. h.of = c /\ h.step = "seed"
    BY <1>2 DEF Hand
  <2>3. Fits(h.step, published'[c], private'[c]) /\ h.step \notin Early
    BY <1>7, <2>2 DEF Fits, Early, BeforePublic
  <2>4. UNCHANGED seeded
    BY <1>9 DEF MarkPrivate
  <2> HIDE DEF h
  <2>5. GoesOn(i, c, h)
    BY <1>3, <1>4, <1>6, <1>7, <2>1, <2>2, <2>3, <2>4 DEF GoesOn
  <2>6. QED
    BY <1>1, <2>1, <2>5, AnswerGoesOn
<1>10. QED
  BY <1>8, <1>9 DEF MarkPrivate, Seed

LEMMA FaultInvariant ==
    ASSUME IInv, NEW i \in Instances, NEW c \in Comments, at[i].of = c, Raise(i) \/ Crash(i)
    PROVE  IInv'
<1>1. /\ at[i] # None /\ Done(i) /\ failed' = failed \cup {c} /\ claims' \subseteq claims
      /\ UNCHANGED <<aloud, dms, row, alerts, seeded, published, private, deliveries, dropped,
                     pointing>>
  BY DEF Raise, Crash, GiveUp, dbVars, metaVars
<1>2. /\ alerts \subseteq Comments /\ seeded \subseteq Comments /\ failed \subseteq Comments
      /\ dropped \subseteq Comments
      /\ row \in [Comments -> Row \cup {None}]
      /\ published \in [Comments -> Nat] /\ private \in [Comments -> Nat]
  BY DEF IInv, TypeOK
<1>3. faults' \in 0 .. MaxFaults
  BY CommentsAssumption DEF Raise, Crash, IInv, TypeOK
<1>4. CASE Answering(i)
  <2>1. row'[c] # None /\ published'[c] <= 1 /\ private'[c] <= 1
    BY <1>1, <1>4, HasTheComment
  <2>2. c \in pointing' => published'[c] > 0
    BY <1>1 DEF IInv, RepliesHaveRows
  <2>3. Settled(c)'
    BY <1>1 DEF Settled
  <2>4. Ends(i, c)
    BY <1>1, <1>2, <1>3, <2>1, <2>2, <2>3 DEF Ends
  <2>5. QED
    BY <1>4, <2>4, AnswerEnds
<1>5. CASE ~Answering(i)
  <2>1. c \in failed' /\ failed \subseteq failed' /\ failed' \subseteq Comments
    BY <1>1, <1>2
  <2>2. QED
    BY <1>1, <1>2, <1>3, <1>5, <2>1, QuietDone
<1>6. QED
  BY <1>4, <1>5

LEMMA RouteInvariant ==
    ASSUME IInv, NEW i \in Instances, NEW c \in Comments, at[i].of = c, Route(i)
    PROVE  IInv'
<1> DEFINE k == at[i].category
           withheld == Withheld(i)
           dm == OpensDm(k) /\ dms /\ ~withheld
           line == PublicLine(k) /\ aloud
           quiet == (withheld /\ ~PublicWithoutDm(k)) \/ (~dm /\ ~line)
           h == [at[i] EXCEPT !.step = IF line THEN "public" ELSE "private", !.dm = dm]
<1>1. Answering(i) /\ at[i] # None /\ at[i].step = "route"
  BY DEF Route, RouteBy, Handles, Answering, Early
<1>2. /\ at[i] \in Hand /\ k \in Categories \cup {None, "short"} /\ row[c] \in Row
      /\ published[c] = 0 /\ private[c] = 0
  BY <1>1, HasTheComment DEF Fits, BeforePublic, Hand
<1>3. c \notin pointing
  BY <1>2 DEF IInv, RepliesHaveRows
<1>4. UNCHANGED <<aloud, dms, claims, seeded, published, private, deliveries, faults, dropped,
                  failed, pointing>>
  BY DEF Route, RouteBy, metaVars, boundVars, histVars
<1>5. /\ alerts \subseteq Comments /\ failed \subseteq Comments /\ seeded \subseteq Comments
      /\ faults \in 0 .. MaxFaults
      /\ published \in [Comments -> Nat] /\ private \in [Comments -> Nat]
  BY DEF IInv, TypeOK
<1>6. /\ row' \in [Comments -> Row \cup {None}]
      /\ row'[c] # None /\ row'[c].category = k
      /\ \A d \in Comments : d # c => row'[d] = row[d]
  <2>1. row' = [row EXCEPT ![c] = [row[c] EXCEPT !.category = k]]
    BY DEF Route, RouteBy
  <2>2. [row[c] EXCEPT !.category = k] \in Row /\ [row[c] EXCEPT !.category = k] # None
    BY <1>2, RowFields
  <2>3. [row[c] EXCEPT !.category = k].category = k
    BY <1>2 DEF Row
  <2>4. QED
    BY <1>2, <2>1, <2>2, <2>3 DEF IInv, TypeOK
<1>7. /\ alerts' \subseteq Comments /\ alerts \subseteq alerts'
      /\ AlertsStaff(k) \/ withheld => c \in alerts'
  BY <1>5 DEF Route, RouteBy
<1>8. published'[c] <= 1 /\ private'[c] <= 1 /\ private'[c] = 0 /\ c \notin pointing'
  BY <1>2, <1>3, <1>4
<1>9. CASE quiet
  <2>1. Done(i)
    BY <1>9 DEF Route, RouteBy, Go, Done, Decided
  <2>2. Settled(c)'
    <3>1. CASE withheld \/ AlertsStaff(k)
      BY <1>7, <3>1 DEF Settled
    <3>2. CASE ~withheld /\ ~AlertsStaff(k)
      <4>1. ~dm /\ ~line
        BY <1>9, <3>2
      <4>2. ~aloud
        BY <3>2, <4>1 DEF PublicLine, AlertsStaff
      <4>3. ~Answerable(c)'
        BY <1>4, <1>6, <3>2, <4>1, <4>2 DEF Answerable
      <4>4. QED
        BY <4>3 DEF Settled
    <3>3. QED
      BY <3>1, <3>2
  <2> HIDE DEF k, withheld, dm, line, quiet, h
  <2>3. Ends(i, c)
    BY <1>4, <1>5, <1>6, <1>7, <1>8, <2>1, <2>2 DEF Ends
  <2>4. QED
    BY <1>1, <2>3, AnswerEnds
<1>10. CASE ~quiet
  <2>1. dm \in BOOLEAN
    BY DEF IInv, TypeOK
  <2>2. at' = [at EXCEPT ![i] = h]
    BY <1>10 DEF Route, RouteBy, Go, Decided
  <2>3. h \in Hand
    BY <1>2, <2>1, HandFields DEF Steps
  <2>4. h.of = c /\ h.step \in {"public", "private"} /\ h.dm = dm /\ h.category = k
    BY <1>2 DEF Hand
  <2>5. h.step = "public" /\ OpensDm(k) /\ ~dm => LineGoesAlone(c)'
    <3>1. CASE ~withheld
      BY <1>4, <3>1 DEF LineGoesAlone
    <3>2. CASE withheld
      <4>1. PublicWithoutDm(k) /\ c \in alerts'
        BY <1>7, <1>10, <3>2
      <4>2. QED
        BY <1>6, <4>1 DEF LineGoesAlone
    <3>3. QED
      BY <3>1, <3>2
  <2> HIDE DEF k, withheld, dm, line, quiet, h
  <2>6. Fits(h.step, published'[c], private'[c]) /\ h.step \notin Early
    BY <1>2, <1>4, <2>4 DEF Fits, Early
  <2>7. h.step = "public" /\ h.category # None /\ OpensDm(h.category) /\ ~h.dm
            => LineGoesAlone(c)'
    BY <2>4, <2>5
  <2>8. GoesOn(i, c, h)
    BY <1>4, <1>5, <1>6, <1>7, <1>8, <2>2, <2>4, <2>6, <2>7 DEF GoesOn
  <2>9. QED
    BY <1>1, <2>3, <2>8, AnswerGoesOn
<1>11. QED
  BY <1>9, <1>10

-----------------------------------------------------------------------------
LEMMA NextInvariant == IInv /\ [Next]_vars => IInv'
<1> SUFFICES ASSUME IInv, [Next]_vars
             PROVE  IInv'
  OBVIOUS
<1>1. ASSUME NEW i \in Instances, NEW c \in Comments, Deliver(i, c)
      PROVE  IInv'
  BY <1>1, DeliverInvariant
<1>2. ASSUME NEW i \in Instances,
             \/ Claim(i) \/ TooOld(i) \/ Flood(i) \/ Count(i) \/ WriteRow(i) \/ RowTaken(i)
      PROVE  IInv'
  BY <1>2, ClaimInvariant, QuietSteps, CountInvariant, WriteRowInvariant
<1>3. ASSUME NEW i \in Instances,
             \/ Classify(i) \/ Route(i) \/ PublicReply(i) \/ PublicRefused(i) \/ MarkPublic(i)
             \/ PrivateReply(i) \/ PrivateRefused(i) \/ MarkPrivate(i) \/ Seed(i)
             \/ Raise(i) \/ Crash(i)
      PROVE  IInv'
  <2>1. at[i] # None
    BY <1>3 DEF Classify, Route, RouteBy, PublicReply, PublicRefused, MarkPublic, PrivateReply,
       PrivateRefused, MarkPrivate, Seed, Raise, Crash, Handles
  <2>2. PICK c \in Comments : at[i].of = c
    BY <2>1, HandType DEF IInv, Hand
  <2>3. QED
    BY <1>3, <2>2, ClassifyInvariant, RouteInvariant, PublicReplyInvariant, MarkInvariant,
       PrivateReplyInvariant, PrivateDoneInvariant, FaultInvariant
<1>4. CASE UNCHANGED vars
  <2>1. UNCHANGED <<aloud, dms, claims, row, alerts, seeded, at, published, private, deliveries,
                    faults, dropped, failed, pointing>>
    BY <1>4 DEF vars
  <2>2. TypeOK'
    BY <2>1 DEF IInv, TypeOK
  <2>3. OneHandler' /\ StepsMatchReplies' /\ RepliesHaveRows'
    BY <2>1 DEF IInv, OneHandler, StepsMatchReplies, RepliesHaveRows, Answering
  <2>4. RowsSettle' /\ ClaimsSettle'
    BY <2>1 DEF IInv, RowsSettle, ClaimsSettle, AnsweringFor, Answering, Settled, Answerable
  <2>5. Decisions' /\ PromisesKeptOrKnown'
    BY <2>1 DEF IInv, Decisions, PromisesKeptOrKnown, Points, LineGoesAlone, DmComes
  <2>6. QED
    BY <2>2, <2>3, <2>4, <2>5 DEF IInv
<1>5. QED
  BY <1>1, <1>2, <1>3, <1>4 DEF Next

LEMMA IInvIsInvariant == Spec => []IInv
BY InitInvariant, NextInvariant, PTL DEF Spec

\* Every variable keeps its type, and whoever is past the row has written one.
THEOREM TypeCorrect == Spec => []TypeOK
<1>1. IInv => TypeOK
  BY DEF IInv
<1>2. QED
  BY <1>1, IInvIsInvariant, PTL

\* `_accept_comment` answers a comment at most once in public and once in private,
\* however often Meta delivers it and however many instances handle it.
THEOREM RepliesOnce == Spec => []OneReplyEach
<1>1. IInv => OneReplyEach
  BY DEF IInv, RepliesHaveRows, OneReplyEach
<1>2. QED
  BY <1>1, IInvIsInvariant, PTL

\* A claimed comment that nobody handles any more was answered, or staff know of
\* it, or it was dropped for a logged reason, or its handling failed.
THEOREM NoneIgnored == Spec => []NobodyIgnored
<1>1. IInv => NobodyIgnored
  <2> SUFFICES ASSUME IInv, NEW c \in claims
               PROVE  \/ InHand(c)
                      \/ published[c] > 0 \/ private[c] > 0
                      \/ c \in alerts \cup dropped \cup failed
                      \/ ~Answerable(c)
    BY DEF NobodyIgnored
  <2>1. c \in Comments
    BY DEF IInv, TypeOK
  <2>2. CASE row[c] = None
    BY <2>2 DEF IInv, ClaimsSettle, InHand
  <2>3. CASE row[c] # None
    BY <2>1, <2>3 DEF IInv, RowsSettle, Settled, AnsweringFor, Answering, InHand
  <2>4. QED
    BY <2>2, <2>3
<1>2. QED
  BY <1>1, IInvIsInvariant, PTL

\* A public line that points to a direct message is followed by one, but for the
\* exceptions the code has: a failure, direct messages switched off, and the
\* categories whose line goes out alone with a queue item.
THEOREM PromisesStand == Spec => []PromisesKeptOrKnown
<1>1. IInv => PromisesKeptOrKnown
  BY DEF IInv
<1>2. QED
  BY <1>1, IInvIsInvariant, PTL

-----------------------------------------------------------------------------
(* One reply.                                                              *)

\* The parts of a turn a claim may rest on.
TurnRecord ==
    DOMAIN turn = {"phase", "nth", "wish", "before", "hops", "tries", "called", "found", "did",
                   "filed", "last"}

\* While a turn thinks, nothing of it has been sent.
NothingSentYet == turn.phase # "idle" => sent = Nothing

PicturesInv == TurnRecord /\ NothingSentYet /\ ClaimsBacked

LEMMA SomePhoto ==
    ASSUME NEW b, NEW p, PhotosOf(b, p) # 0
    PROVE  \E pic \in Photos(b) : pic[1] = p
<1>1. Cardinality({}) = 0
  BY FS_EmptySet
<1>2. {pic \in Photos(b) : pic[1] = p} # {}
  BY <1>1 DEF PhotosOf
<1>3. QED
  BY <1>2

\* A sentence no check refuses claims nothing of the pictures that is not so.
LEMMA PicturesClaimed ==
    ASSUME NEW s, NEW b, ~PictureUnbacked(s, b), "theirs" \notin turn.wish
    PROVE  /\ s.claims = "a photo" => Photos(b) # {}
           /\ s.claims = "both" => Cardinality(Photos(b)) \notin {0, 1}
           /\ s.claims = "the named" =>
                Photos(b) # {} /\ Named(s) \subseteq {pic[1] : pic \in Photos(b)}
<1>1. s.claims \in {"a photo", "both", "the named"} => Photos(b) # {}
  BY DEF PictureUnbacked
<1>2. s.claims = "both" => ~(Cardinality(Photos(b)) < 2)
  BY <1>1 DEF PictureUnbacked
<1>3. s.claims = "the named" => \A p \in Named(s) : PhotosOf(b, p) # 0
  BY <1>1 DEF PictureUnbacked
<1>4. s.claims = "the named" => Named(s) \subseteq {pic[1] : pic \in Photos(b)}
  BY <1>3, SomePhoto
<1>5. \A n : ~(n < 2) => n \notin {0, 1}
  OBVIOUS
<1>6. s.claims = "both" => Cardinality(Photos(b)) \notin {0, 1}
  BY <1>2, <1>5
<1>7. QED
  BY <1>1, <1>4, <1>6, Zenon

\* What is left of a sentence that is weighed and cut.
LEMMA CutIs ==
    ASSUME NEW s \in Sentences, NEW b
    PROVE  /\ Cut(s, b).claims \in {s.claims, "none"}
           /\ \A w \in Cut(s, b).says :
                w \in s.says \/ w \in {"its picture", "shall I show", "nothing else"}
           /\ "adding" \in s.says => "adding" \in Cut(s, b).says
           /\ "it failed" \in Cut(s, b).says => ~FailureInvented(s)
           /\ "shall I show" \in Cut(s, b).says =>
                Photos(b) = {} \/ Cut(s, b).says = {"shall I show", "nothing else"}
           /\ "its picture" \in Cut(s, b).says => b.carried # {}
<1>1. DOMAIN s = {"names", "lead", "claims", "says"} /\ "its picture" \notin s.says
  BY PicturesAssumption
<1>2. PICK f : f = CutFailure(s, b)
  OBVIOUS
<1>3. /\ f.claims \in {s.claims, "none"}
      /\ \/ f = s /\ ~FailureInvented(s)
         \/ f.says = s.says \ {"it failed"}
         \/ /\ s.says = {"it failed", "nothing else"}
            /\ \/ f.says = {"its picture"} /\ b.carried # {}
               \/ f.says = {"shall I show", "nothing else"}
      /\ DOMAIN f = {"names", "lead", "claims", "says"}
  BY <1>1, <1>2 DEF CutFailure
<1>4. PICK c : c = CutOffer(f, b)
  OBVIOUS
<1>5. /\ c.claims = f.claims
      /\ \/ c = f /\ ("shall I show" \notin f.says \/ Photos(b) = {} \/ f.says = {"shall I show", "nothing else"})
         \/ c.says = f.says \ {"shall I show"} /\ f.says # {"shall I show", "nothing else"}
  BY <1>3, <1>4 DEF CutOffer, OffersWhatItSends
<1>6. Cut(s, b) = c
  BY <1>2, <1>4 DEF Cut
<1>7. \/ f.says \subseteq s.says
      \/ f.says = {"its picture"} /\ b.carried # {}
      \/ f.says = {"shall I show", "nothing else"}
  BY <1>3
<1>8. c.says \subseteq f.says
  BY <1>5
<1>9. /\ c.claims \in {s.claims, "none"}
      /\ "its picture" \in c.says => b.carried # {}
  BY <1>1, <1>3, <1>5, <1>7, <1>8
<1>10. "adding" \in s.says => "adding" \in c.says
  <2>1. CASE f = s \/ f.says = s.says \ {"it failed"}
    BY <1>5, <2>1
  <2>2. CASE s.says = {"it failed", "nothing else"}
    BY <2>2
  <2>3. QED
    BY <1>3, <2>1, <2>2
<1>11. "it failed" \in c.says => ~FailureInvented(s)
  BY <1>3, <1>8
<1>12. "shall I show" \in c.says => Photos(b) = {} \/ c.says = {"shall I show", "nothing else"}
  BY <1>5
<1>13. \A w \in c.says : w \in s.says \/ w \in {"its picture", "shall I show", "nothing else"}
  BY <1>7, <1>8
<1>14. QED
  BY <1>6, <1>9, <1>10, <1>11, <1>12, <1>13

\* A finished sentence, cut or whole, that goes out.
LEMMA ComposeSaid ==
    ASSUME PicturesInv, NEW s, NEW b, NEW said,
           EndWith("said", b, Named(s), said.claims, said.says), ~Unsendable(s, b),
           said.claims \in {s.claims, "none"},
           \A w \in said.says : w \in s.says \/ w \in {"its picture", "shall I show", "nothing else"},
           "adding" \in s.says => "adding" \in said.says,
           "it failed" \in said.says => ~FailureInvented(s),
           "shall I show" \in said.says =>
             Photos(b) = {} \/ said.says = {"shall I show", "nothing else"},
           "its picture" \in said.says => b.carried # {}
    PROVE  ClaimsBacked'
<1>1. /\ sent' = [how |-> "said", carried |-> b.carried, names |-> Named(s), claims |-> said.claims,
                  says |-> said.says]
      /\ turn' = [turn EXCEPT !.phase = "idle", !.hops = 0, !.tries = 0, !.called = {}]
      /\ refused' = refused
  BY DEF EndWith
<1>2. turn'.wish = turn.wish /\ turn'.did = turn.did /\ turn'.filed = turn.filed
  BY <1>1 DEF PicturesInv, TurnRecord
<1>3. {pic \in sent'.carried : ~IsChart(pic)} = Photos(b)
  BY <1>1 DEF Photos
<1>4. /\ sent'.claims \in {s.claims, "none"} /\ sent'.names = Named(s) /\ sent'.says = said.says
      /\ sent'.carried = b.carried
  BY <1>1
<1>5. ~PictureUnbacked(s, b) /\ ~ActionUnbacked(s) /\ ~ChangeMismatch(s)
  BY DEF Unsendable
<1>6. "theirs" \in turn.wish \/
        /\ s.claims = "a photo" => Photos(b) # {}
        /\ s.claims = "both" => Cardinality(Photos(b)) \notin {0, 1}
        /\ s.claims = "the named" =>
             Photos(b) # {} /\ Named(s) \subseteq {pic[1] : pic \in Photos(b)}
  BY <1>5, PicturesClaimed
<1>7. /\ "added" \in said.says => "cart" \in turn.did
      /\ "handed over" \in said.says => "handoff" \in turn.did
  BY <1>5 DEF ActionUnbacked
<1>8. turn.filed = {"item_add"} => ~("swapping" \in said.says /\ "adding" \notin said.says)
  <2>1. "swapping" \in said.says => "swapping" \in s.says
    OBVIOUS
  <2>2. QED
    BY <1>5, <2>1 DEF ChangeMismatch
<1>9. "it failed" \in said.says => refused # {}
  <2>1. "it failed" \in said.says => "it failed" \in s.says
    OBVIOUS
  <2>2. QED
    BY <2>1 DEF FailureInvented
<1>10. QED
  BY <1>1, <1>2, <1>3, <1>4, <1>6, <1>7, <1>8, <1>9 DEF ClaimsBacked

\* What else ends a turn says nothing of the model's.
LEMMA OtherEnds ==
    ASSUME NEW how, how # "said", NEW b, NEW names, NEW claimed, NEW says,
           EndWith(how, b, names, claimed, says)
    PROVE  ClaimsBacked'
<1>1. sent'.how = how
  BY DEF EndWith
<1>2. QED
  BY <1>1 DEF ClaimsBacked

\* A turn that ends is the record it was, and idle.
LEMMA EndsIdle ==
    ASSUME PicturesInv, NEW how, NEW b, NEW names, NEW claimed, NEW says,
           EndWith(how, b, names, claimed, says)
    PROVE  TurnRecord' /\ NothingSentYet'
<1>1. turn' = [turn EXCEPT !.phase = "idle", !.hops = 0, !.tries = 0, !.called = {}]
  BY DEF EndWith
<1>2. TurnRecord' /\ turn'.phase = "idle"
  BY <1>1 DEF PicturesInv, TurnRecord
<1>3. QED
  BY <1>2 DEF NothingSentYet

\* While the turn thinks, nothing is sent, and no claim stands.
LEMMA ThinkingKeeps ==
    ASSUME PicturesInv, Thinking, UNCHANGED sent, TurnRecord'
    PROVE  PicturesInv'
<1>1. sent = Nothing
  BY DEF PicturesInv, NothingSentYet, Thinking
<1>2. QED
  BY <1>1 DEF PicturesInv, NothingSentYet, ClaimsBacked, Nothing

LEMMA ToolsKeepPictures ==
    ASSUME PicturesInv, NEW tool, NEW ps, NEW did, NEW filed, MayCall,
           \/ turn' = HopOf(tool, ps)
           \/ turn' = [HopOf(tool, ps) EXCEPT !.did = @ \cup did, !.filed = @ \cup filed],
           UNCHANGED sent
    PROVE  PicturesInv'
<1>1. TurnRecord'
  BY DEF PicturesInv, TurnRecord, HopOf
<1>2. QED
  BY <1>1, ThinkingKeeps DEF MayCall

LEMMA SendBackKeeps ==
    ASSUME PicturesInv, MayCall, NEW b, SendBack(b)
    PROVE  PicturesInv'
<1>1. TurnRecord' /\ UNCHANGED sent
  BY DEF PicturesInv, TurnRecord, SendBack
<1>2. QED
  BY <1>1, ThinkingKeeps DEF MayCall

LEMMA ComposeKeeps ==
    ASSUME PicturesInv, NEW s \in Sentences, Compose(s)
    PROVE  PicturesInv'
<1>1. PICK b : b = KeepChartOrPhotos(Show(basket, s), s)
  OBVIOUS
<1>2. Weighed(s).leaves = b /\ Weighed(s).seen = b
  BY <1>1 DEF Weighed
<1>3. /\ MayCall
      /\ IF Unsendable(s, b) THEN SendBack(b) \/ Replace(s, b)
         ELSE IF Cuttable(s, b) /\ turn.tries < PromiseRetries THEN SendBack(b)
         ELSE LET said == IF Cuttable(s, b) THEN Cut(s, b) ELSE s
              IN EndWith("said", b, Named(s), said.claims, said.says)
  BY <1>2 DEF Compose
<1>4. CASE SendBack(b)
  BY <1>3, <1>4, SendBackKeeps
<1>5. CASE Replace(s, b)
  <2>1. EndWith("replaced", b, Named(s), "none", {})
    BY <1>5 DEF Replace
  <2>2. QED
    BY <2>1, OtherEnds, EndsIdle DEF PicturesInv
<1>6. CASE ~Unsendable(s, b) /\ ~SendBack(b)
  <2>1. PICK said : said = IF Cuttable(s, b) THEN Cut(s, b) ELSE s
    OBVIOUS
  <2>2. EndWith("said", b, Named(s), said.claims, said.says)
    BY <1>3, <1>6, <2>1
  <2>3. /\ said.claims \in {s.claims, "none"}
        /\ \A w \in said.says : w \in s.says \/ w \in {"its picture", "shall I show", "nothing else"}
        /\ "adding" \in s.says => "adding" \in said.says
        /\ "it failed" \in said.says => ~FailureInvented(s)
        /\ "shall I show" \in said.says =>
             Photos(b) = {} \/ said.says = {"shall I show", "nothing else"}
        /\ "its picture" \in said.says => b.carried # {}
    <3>1. CASE Cuttable(s, b)
      BY <2>1, <3>1, CutIs
    <3>2. CASE ~Cuttable(s, b)
      BY <2>1, <3>2, PicturesAssumption DEF Cuttable, OffersWhatItSends
    <3>3. QED
      BY <3>1, <3>2
  <2>10. ClaimsBacked'
    BY <1>6, <2>2, <2>3, ComposeSaid
  <2>11. QED
    BY <2>2, <2>10, EndsIdle DEF PicturesInv
<1>7. QED
  BY <1>3, <1>4, <1>5, <1>6

LEMMA AskKeeps == PicturesInv /\ Ask => PicturesInv'
<1> SUFFICES ASSUME PicturesInv, Ask PROVE PicturesInv'
  OBVIOUS
<1>1. PICK wish \in Wishes :
        turn' = [phase |-> "thinking", nth |-> turn.nth + 1, wish |-> wish,
                 before |-> turn.wish \cap {"colours"}, hops |-> 0, tries |-> 0, called |-> {},
                 found |-> {}, did |-> {}, filed |-> {}, last |-> sent.says]
  BY DEF Ask
<1>2. TurnRecord' /\ sent' = Nothing
  BY <1>1 DEF Ask, TurnRecord
<1>3. QED
  BY <1>2 DEF PicturesInv, NothingSentYet, ClaimsBacked, Nothing

\* A picture that is refused makes no claim untrue.
LEMMA RefuseKeeps == PicturesInv /\ Refuse => PicturesInv'
<1> SUFFICES ASSUME PicturesInv, Refuse PROVE PicturesInv'
  OBVIOUS
<1>1. turn' = turn /\ sent' = sent
  BY DEF Refuse
<1>2. refused # {} => refused' # {}
  BY DEF Refuse
<1>3. ClaimsBacked'
  BY <1>1, <1>2 DEF PicturesInv, ClaimsBacked
<1>4. QED
  BY <1>1, <1>3 DEF PicturesInv, TurnRecord, NothingSentYet

LEMMA PicturesNextKeeps == PicturesInv /\ [PicturesNext]_picturesVars => PicturesInv'
<1> SUFFICES ASSUME PicturesInv, [PicturesNext]_picturesVars PROVE PicturesInv'
  OBVIOUS
<1>1. CASE Ask
  BY <1>1, AskKeeps
<1>2. ASSUME NEW tool, NEW did, NEW filed, Act(tool, did, filed) PROVE PicturesInv'
  BY <1>2, ToolsKeepPictures DEF Act
<1>3. CASE ActAny
  BY <1>2, <1>3 DEF ActAny
<1>4. ASSUME NEW call \in Lookups, LookUp(call[1], call[2], call[3]) PROVE PicturesInv'
  BY <1>4, ToolsKeepPictures DEF LookUp
<1>5. ASSUME NEW hits \in Searches, Search(hits) PROVE PicturesInv'
  BY <1>5, ToolsKeepPictures DEF Search
<1>6. ASSUME NEW p \in Products, SizeChart(p) PROVE PicturesInv'
  BY <1>6, ToolsKeepPictures DEF SizeChart
<1>7. ASSUME NEW s \in Sentences, Compose(s) PROVE PicturesInv'
  BY <1>7, ComposeKeeps
<1>8. CASE EndUnchecked \/ Apologise
  BY <1>8, OtherEnds, EndsIdle DEF EndUnchecked, Apologise, PicturesInv
<1>9. CASE Refuse
  BY <1>9, RefuseKeeps
<1>10. CASE UNCHANGED picturesVars
  BY <1>10 DEF picturesVars, PicturesInv, TurnRecord, NothingSentYet, ClaimsBacked
<1>11. QED
  BY <1>1, <1>3, <1>4, <1>5, <1>6, <1>7, <1>8, <1>9, <1>10 DEF PicturesNext

LEMMA PicturesInitKeeps == PicturesInit => PicturesInv
BY DEF PicturesInit, PicturesInv, TurnRecord, NothingSentYet, ClaimsBacked, Nothing

\* What leaves as the model wrote it is true of the reply as it leaves (photo_claims,
\* action_claims, order_change_claims), whatever was looked up, sent back and cut out; an
\* offer that is the whole reply leaves all the same.
THEOREM ClaimsHold == PicturesSpec => []ClaimsBacked
<1>1. PicturesInv => ClaimsBacked
  BY DEF PicturesInv
<1>2. QED
  BY <1>1, PicturesInitKeeps, PicturesNextKeeps, PTL DEF PicturesSpec

\* A basket is what it was made of, and c is b with pictures of some of the products.
IsBasket(b) == DOMAIN b = {"carried", "gallery"}
Brings(b, c, products) ==
    /\ IsBasket(c)
    /\ \A pic \in c.carried : pic \in b.carried \/ pic[1] \in products

LEMMA BringsTwice ==
    ASSUME NEW b, NEW c, NEW d, NEW P, NEW Q, Brings(b, c, P), Brings(c, d, Q)
    PROVE  Brings(b, d, P \cup Q)
BY DEF Brings

LEMMA BringsNothing ==
    ASSUME NEW b, IsBasket(b), NEW P
    PROVE  Brings(b, b, P)
BY DEF Brings

\* Whatever can be attached of a product's pictures, in whatever order: it is of the product.
LEMMA AttachUpToBrings ==
    ASSUME NEW b, IsBasket(b), NEW p, NEW lead, NEW colours, NEW n, NEW force
    PROVE  Brings(b, AttachUpTo(b, p, lead, colours, n, force), {p})
<1>1. PICK chosen : AttachUpTo(b, p, lead, colours, n, force)
                      = [b EXCEPT !.carried = @ \cup {Photo(p, c) : c \in chosen}]
  BY DEF AttachUpTo
<1>2. \A c : Photo(p, c)[1] = p
  BY DEF Photo
<1>3. QED
  BY <1>1, <1>2 DEF Brings, IsBasket

LEMMA AttachBrings ==
    ASSUME NEW b, IsBasket(b), NEW pic, NEW force
    PROVE  Brings(b, Attach(b, pic, force), {pic[1]})
BY DEF Attach, Brings, IsBasket

LEMMA GalleryBrings ==
    ASSUME NEW b, IsBasket(b), NEW p, NEW n, NEW P
    PROVE  Brings(b, AllowGallery(b, p, n), P)
BY DEF AllowGallery, Brings, IsBasket

\* The tools attach pictures of the product they looked up.
LEMMA CollectBrings ==
    ASSUME NEW b, IsBasket(b), NEW p, NEW colour
    PROVE  Brings(b, CollectMore(b, p, colour), {p}) /\ Brings(b, CollectOne(b, p, colour), {p})
<1>1. Brings(b, CollectMore(b, p, colour), {p})
  <2>1. PICK new, rest, n, opened, first, left :
          /\ opened = AllowGallery(b, p, n)
          /\ first = AttachUpTo(opened, p, colour, new, n, TRUE)
          /\ CollectMore(b, p, colour) = AttachUpTo(first, p, colour, rest, left, TRUE)
    BY DEF CollectMore
  <2>2. Brings(b, opened, {p})
    BY <2>1, GalleryBrings
  <2>3. IsBasket(opened)
    BY <2>2 DEF Brings
  <2>4. Brings(opened, first, {p})
    BY <2>1, <2>3, AttachUpToBrings
  <2>5. IsBasket(first)
    BY <2>4 DEF Brings
  <2>6. Brings(first, CollectMore(b, p, colour), {p})
    BY <2>1, <2>5, AttachUpToBrings
  <2>7. QED
    BY <2>2, <2>4, <2>6 DEF Brings
<1>2. Brings(b, CollectOne(b, p, colour), {p})
  <2>1. PICK one, again :
          \/ CollectOne(b, p, colour) = b
          \/ CollectOne(b, p, colour) = AttachUpTo(b, p, colour, one, MaxProductImages, again)
    BY DEF CollectOne
  <2>2. QED
    BY <2>1, AttachUpToBrings, BringsNothing
<1>3. QED
  BY <1>1, <1>2

LEMMA RideAlongBrings ==
    ASSUME NEW b, IsBasket(b), NEW p
    PROVE  Brings(b, RideAlong(b, p), {p})
<1>1. Chart(p)[1] = p
  BY DEF Chart
<1>2. QED
  BY <1>1, AttachBrings, BringsNothing DEF RideAlong

\* The pictures a sentence calls for are of products it names, or of the one product the
\* reply shows already.
LEMMA ShowEachBrings ==
    ASSUME NEW b, IsBasket(b), NEW s
    PROVE  Brings(b, ShowEach(b, s), Named(s))
<1>1. ASSUME NEW p PROVE Brings(b, ShowNamed(b, s, p), {p})
  BY AttachUpToBrings, BringsNothing DEF ShowNamed
<1> DEFINE gain(i) == ShowNamed(b, s, s.names[i]).carried \ b.carried
<1>2. PICK fit : /\ fit \subseteq {i \in DOMAIN s.names : s.names[i] \in seen}
                 /\ ShowEach(b, s) = [b EXCEPT !.carried = @ \cup UNION {gain(i) : i \in fit}]
  <2> DEFINE named == {i \in DOMAIN s.names : s.names[i] \in seen}
             order == [i \in named |-> i]
             gains == [i \in named |-> gain(i)]
             bring == {i \in FirstOf(named, order, MaxShowcaseProducts) : gains[i] # {}}
             first == FirstOf(bring, order, MaxShowcasePhotos - Cardinality(Photos(b)))
  <2>1. first \subseteq named
    BY DEF FirstOf
  <2>2. ShowEach(b, s) = [b EXCEPT !.carried = @ \cup UNION {gains[i] : i \in first}]
    BY DEF ShowEach
  <2> HIDE DEF first, gain
  <2>3. \A i \in first : gains[i] = gain(i)
    BY <2>1
  <2>4. {gains[i] : i \in first} = {gain(i) : i \in first}
    BY <2>3
  <2>5. QED
    BY <2>1, <2>2, <2>4
<1>3. ASSUME NEW i \in fit, NEW pic \in gain(i) PROVE pic[1] \in Named(s)
  <2>1. pic[1] = s.names[i]
    BY <1>1 DEF Brings
  <2>2. QED
    BY <1>2, <2>1 DEF Named, Range
<1>4. QED
  BY <1>2, <1>3 DEF Brings, IsBasket

LEMMA TopUpBrings ==
    ASSUME NEW b, IsBasket(b), NEW s
    PROVE  Brings(b, TopUp(b, s), {pic[1] : pic \in b.carried})
<1> DEFINE products == {pic[1] : pic \in Photos(b)}
           p == CHOOSE q \in products : TRUE
<1>1. CASE TopUp(b, s) = b
  BY <1>1, BringsNothing
<1>2. CASE TopUp(b, s) # b
  <2>1. Cardinality(products) = 1
    BY <1>2 DEF TopUp
  <2>2. products # {}
    BY <2>1, FS_EmptySet
  <2>3. p \in {pic[1] : pic \in b.carried}
    BY <2>2 DEF Photos
  <2>4. TopUp(b, s) = AttachUpTo(AllowGallery(b, p, FirstShowing), p, LeadOf(s, p), InStock[p],
                                 FirstShowing - PhotosOf(b, p), FALSE)
    BY <1>2 DEF TopUp
  <2> HIDE DEF p
  <2>5. Brings(b, AllowGallery(b, p, FirstShowing), {p})
    BY GalleryBrings
  <2>6. IsBasket(AllowGallery(b, p, FirstShowing))
    BY <2>5 DEF Brings
  <2>7. Brings(AllowGallery(b, p, FirstShowing), TopUp(b, s), {p})
    BY <2>4, <2>6, AttachUpToBrings
  <2>8. QED
    BY <2>3, <2>5, <2>7 DEF Brings
<1>3. QED
  BY <1>1, <1>2

LEMMA ShowBrings ==
    ASSUME NEW b, IsBasket(b), NEW s
    PROVE  Brings(b, Show(b, s), Named(s) \cup {pic[1] : pic \in b.carried})
<1>1. Brings(b, ShowEach(b, s), Named(s))
  BY ShowEachBrings
<1>2. Brings(ShowEach(b, s), TopUp(ShowEach(b, s), s), {pic[1] : pic \in ShowEach(b, s).carried})
  BY <1>1, TopUpBrings DEF Brings
<1>3. {pic[1] : pic \in ShowEach(b, s).carried} \subseteq Named(s) \cup {pic[1] : pic \in b.carried}
  BY <1>1 DEF Brings
<1>4. Brings(b, TopUp(ShowEach(b, s), s), Named(s) \cup {pic[1] : pic \in b.carried})
  BY <1>1, <1>2, <1>3 DEF Brings
<1>5. QED
  BY <1>4, BringsNothing DEF Show

\* The decision between the chart and the garment adds no garment, and for a question about
\* sizes that asks for no photo it leaves none.
LEMMA KeepChartAddsNone ==
    ASSUME NEW b, IsBasket(b), NEW s
    PROVE  /\ \A pic \in KeepChartOrPhotos(b, s).carried : IsChart(pic) \/ pic \in b.carried
           /\ AskedAboutSizing /\ ~AskedForPhotos
                => \A pic \in KeepChartOrPhotos(b, s).carried : IsChart(pic)
<1>1. PICK p : EnsureChart(b, s) = b \/ EnsureChart(b, s) = Attach(b, Chart(p), TRUE)
  BY DEF EnsureChart
<1>2. IsChart(Chart(p))
  BY DEF IsChart, Chart
<1>3. /\ IsBasket(EnsureChart(b, s))
      /\ \A pic \in EnsureChart(b, s).carried : IsChart(pic) \/ pic \in b.carried
  BY <1>1, <1>2 DEF Attach, IsBasket
<1>4. PICK all, charts, kept :
        /\ all = IF AskedAboutSizing /\ ~AskedForPhotos THEN EnsureChart(b, s) ELSE b
        /\ charts = {pic \in all.carried : IsChart(pic)}
        /\ kept = IF AskedForPhotos /\ (AskedAboutSizing \/ "get_size_chart" \in turn.called)
                    THEN all.carried
                  ELSE IF AskedAboutSizing \/ "get_size_chart" \in turn.called THEN charts
                  ELSE IF AskedForPhotos \/ charts = {} THEN Photos(all)
                  ELSE charts
        /\ KeepChartOrPhotos(b, s) = [all EXCEPT !.carried = kept]
  BY DEF KeepChartOrPhotos
<1>5. IsBasket(all) /\ \A pic \in all.carried : IsChart(pic) \/ pic \in b.carried
  BY <1>3, <1>4
<1>6. KeepChartOrPhotos(b, s).carried = kept
  BY <1>4, <1>5 DEF IsBasket
<1>7. kept \subseteq all.carried
  BY <1>4 DEF Photos
<1>8. AskedAboutSizing /\ ~AskedForPhotos => kept = charts
  BY <1>4
<1>9. QED
  BY <1>4, <1>5, <1>6, <1>7, <1>8

\* What the reply of a turn carries so far is of what its tools returned; between turns there
\* is none.
BasketBelongs ==
    /\ IsBasket(basket)
    /\ \A pic \in basket.carried : pic[1] \in turn.found
    /\ turn.phase = "idle" => basket.carried = {}

BelongInv == PicturesInv /\ BasketBelongs /\ PicturesBelong /\ SizingGetsNoPhoto

LEMMA BelongInitKeeps == PicturesInit => BelongInv
BY PicturesInitKeeps
   DEF PicturesInit, BelongInv, BasketBelongs, PicturesBelong, SizingGetsNoPhoto, IsBasket,
       EmptyBasket, Nothing

\* A tool that finds products ps and brings pictures of them.
LEMMA ToolBelongs ==
    ASSUME BelongInv, PicturesInv', MayCall, NEW tool, NEW ps, NEW did, NEW filed,
           \/ turn' = HopOf(tool, ps)
           \/ turn' = [HopOf(tool, ps) EXCEPT !.did = @ \cup did, !.filed = @ \cup filed],
           Brings(basket, basket', ps), UNCHANGED sent
    PROVE  BelongInv'
<1>1. TurnRecord /\ turn.phase = "thinking" /\ sent = Nothing
  BY DEF BelongInv, PicturesInv, NothingSentYet, MayCall, Thinking
<1>2. turn'.found = turn.found \cup ps /\ turn'.phase = "thinking"
  BY <1>1 DEF TurnRecord, HopOf
<1>3. BasketBelongs'
  BY <1>2 DEF BelongInv, BasketBelongs, Brings
<1>4. PicturesBelong' /\ SizingGetsNoPhoto'
  BY <1>1 DEF PicturesBelong, SizingGetsNoPhoto, Nothing
<1>5. QED
  BY <1>3, <1>4 DEF BelongInv

\* An end of the turn whose pictures belong to what it names or to what the turn found.
LEMMA EndBelongs ==
    ASSUME BelongInv, PicturesInv', NEW how, NEW b, NEW names, NEW claimed, NEW says,
           EndWith(how, b, names, claimed, says),
           \A pic \in b.carried : IsChart(pic) \/ pic[1] \in turn.found \cup names,
           how \in {"said", "replaced"} /\ AskedAboutSizing /\ ~AskedForPhotos
              => \A pic \in b.carried : IsChart(pic)
    PROVE  BelongInv'
<1>1. TurnRecord
  BY DEF BelongInv, PicturesInv
<1>2. /\ turn' = [turn EXCEPT !.phase = "idle", !.hops = 0, !.tries = 0, !.called = {}]
      /\ sent'.carried = b.carried /\ sent'.names = names /\ sent'.how = how
      /\ basket' = EmptyBasket
  BY DEF EndWith
<1>3. /\ turn'.found = turn.found /\ turn'.phase = "idle"
      /\ turn'.wish = turn.wish /\ turn'.before = turn.before
  BY <1>1, <1>2 DEF TurnRecord
<1>4. PicturesBelong'
  BY <1>2, <1>3 DEF PicturesBelong
<1>5. SizingGetsNoPhoto'
  BY <1>2, <1>3 DEF SizingGetsNoPhoto, AskedAboutSizing, AskedForPhotos, AskedForColours
<1>6. BasketBelongs'
  BY <1>2 DEF BasketBelongs, IsBasket, EmptyBasket
<1>7. QED
  BY <1>4, <1>5, <1>6 DEF BelongInv

LEMMA ComposeBelongs ==
    ASSUME BelongInv, PicturesInv', NEW s \in Sentences, Compose(s)
    PROVE  BelongInv'
<1>1. PICK b : b = KeepChartOrPhotos(Show(basket, s), s)
  OBVIOUS
<1>2. Weighed(s).leaves = b /\ Weighed(s).seen = b
  BY <1>1 DEF Weighed
<1>3. /\ MayCall
      /\ \/ SendBack(b)
         \/ \E how, claimed, says :
              how \in {"said", "replaced"} /\ EndWith(how, b, Named(s), claimed, says)
  BY <1>2 DEF Compose, Replace
<1>4. CASE SendBack(b)
  <2>1. TurnRecord /\ turn.phase = "thinking" /\ sent = Nothing
    BY <1>3 DEF BelongInv, PicturesInv, NothingSentYet, MayCall, Thinking
  <2>2. turn'.found = turn.found /\ turn'.phase = turn.phase /\ basket' = basket /\ sent' = sent
    BY <1>4, <2>1 DEF SendBack, TurnRecord
  <2>3. QED
    BY <2>1, <2>2 DEF BelongInv, BasketBelongs, PicturesBelong, SizingGetsNoPhoto, Nothing
<1>5. ASSUME NEW how \in {"said", "replaced"}, NEW claimed, NEW says,
             EndWith(how, b, Named(s), claimed, says)
      PROVE  BelongInv'
  <2>1. Brings(basket, Show(basket, s), Named(s) \cup {pic[1] : pic \in basket.carried})
    BY ShowBrings DEF BelongInv, BasketBelongs
  <2>2. \A pic \in Show(basket, s).carried : pic[1] \in turn.found \cup Named(s)
    BY <2>1 DEF Brings, BelongInv, BasketBelongs
  <2>3. /\ \A pic \in b.carried : IsChart(pic) \/ pic[1] \in turn.found \cup Named(s)
        /\ AskedAboutSizing /\ ~AskedForPhotos => \A pic \in b.carried : IsChart(pic)
    BY <1>1, <2>1, <2>2, KeepChartAddsNone DEF Brings
  <2>4. QED
    BY <1>5, <2>3, EndBelongs
<1>6. QED
  BY <1>3, <1>4, <1>5

LEMMA BelongNextKeeps == BelongInv /\ [PicturesNext]_picturesVars => BelongInv'
<1> SUFFICES ASSUME BelongInv, [PicturesNext]_picturesVars PROVE BelongInv'
  OBVIOUS
<1>1. PicturesInv'
  BY PicturesNextKeeps DEF BelongInv
<1>2. IsBasket(basket)
  BY DEF BelongInv, BasketBelongs
<1>3. CASE Ask
  <2>1. turn'.phase = "thinking" /\ sent' = Nothing /\ basket' = basket /\ turn.phase = "idle"
    BY <1>3 DEF Ask, Idle
  <2>2. QED
    BY <1>1, <2>1 DEF BelongInv, BasketBelongs, PicturesBelong, SizingGetsNoPhoto, Nothing
<1>4. ASSUME NEW tool, NEW did, NEW filed, Act(tool, did, filed) PROVE BelongInv'
  <2>1. Brings(basket, basket', {})
    BY <1>2, <1>4, BringsNothing DEF Act
  <2>2. QED
    BY <1>1, <1>4, <2>1, ToolBelongs DEF Act
<1>5. CASE ActAny
  BY <1>4, <1>5 DEF ActAny
<1>6. ASSUME NEW p, NEW colour, NEW more, LookUp(p, colour, more) PROVE BelongInv'
  <2>1. PICK pictured : /\ pictured = IF more THEN CollectMore(basket, p, colour)
                                              ELSE CollectOne(basket, p, colour)
                        /\ basket' = pictured \/ basket' = RideAlong(pictured, p)
    BY <1>6 DEF LookUp
  <2>2. Brings(basket, pictured, {p})
    BY <1>2, <2>1, CollectBrings
  <2>3. Brings(pictured, basket', {p})
    BY <2>1, <2>2, RideAlongBrings, BringsNothing DEF Brings
  <2>4. Brings(basket, basket', {p})
    BY <2>2, <2>3 DEF Brings
  <2>5. QED
    BY <1>1, <1>6, <2>4, ToolBelongs DEF LookUp
<1>7. ASSUME NEW hits, Search(hits) PROVE BelongInv'
  <2>1. PICK p : /\ p = CHOOSE q \in hits : TRUE
                 /\ \/ basket' = basket
                    \/ Cardinality(hits) = 1 /\ basket' = RideAlong(CollectOne(basket, p, NoProduct), p)
    BY <1>7 DEF Search
  <2>2. CASE basket' = basket
    BY <1>1, <1>2, <1>7, <2>2, BringsNothing, ToolBelongs DEF Search
  <2>3. CASE basket' # basket
    <3>1. hits # {}
      BY <2>1, <2>3, FS_EmptySet
    <3>2. p \in hits
      BY <2>1, <3>1
    <3>3. Brings(basket, CollectOne(basket, p, NoProduct), {p})
      BY <1>2, CollectBrings
    <3>4. IsBasket(CollectOne(basket, p, NoProduct))
      BY <3>3 DEF Brings
    <3>5. Brings(CollectOne(basket, p, NoProduct), basket', {p})
      BY <2>1, <2>3, <3>4, RideAlongBrings
    <3>6. Brings(basket, basket', hits)
      BY <3>2, <3>3, <3>5 DEF Brings
    <3>7. QED
      BY <1>1, <1>7, <3>6, ToolBelongs DEF Search
  <2>4. QED
    BY <2>2, <2>3
<1>8. ASSUME NEW p \in Products, SizeChart(p) PROVE BelongInv'
  <2>1. Brings(basket, Attach(basket, Chart(p), TRUE), {p})
    <3>1. Chart(p)[1] = p
      BY DEF Chart
    <3>2. QED
      BY <1>2, <3>1, AttachBrings
  <2>2. Brings(basket, basket', {p})
    BY <1>2, <1>8, <2>1, BringsNothing DEF SizeChart
  <2>3. QED
    BY <1>1, <1>8, <2>2, ToolBelongs DEF SizeChart
<1>9. ASSUME NEW s \in Sentences, Compose(s) PROVE BelongInv'
  BY <1>1, <1>9, ComposeBelongs
<1>10. CASE EndUnchecked
  BY <1>1, <1>10, EndBelongs DEF EndUnchecked, BelongInv, BasketBelongs
<1>11. CASE Apologise
  BY <1>1, <1>11, EndBelongs DEF Apologise, EmptyBasket
<1>12. CASE Refuse
  BY <1>1, <1>12
     DEF Refuse, BelongInv, BasketBelongs, PicturesBelong, SizingGetsNoPhoto, AskedAboutSizing,
         AskedForPhotos, AskedForColours
<1>13. CASE UNCHANGED picturesVars
  BY <1>1, <1>13
     DEF picturesVars, BelongInv, BasketBelongs, PicturesBelong, SizingGetsNoPhoto,
         AskedAboutSizing, AskedForPhotos, AskedForColours
<1>14. QED
  BY <1>3, <1>5, <1>6, <1>7, <1>8, <1>9, <1>10, <1>11, <1>12, <1>13 DEF PicturesNext

\* A garment on a reply is one that a tool of the turn returned or that the sentence which
\* leaves names, whatever the rejected sentences before it called for (base.py checkpoint,
\* restore; showcase.show).
THEOREM PicturesAreOfTheReply == PicturesSpec => []PicturesBelong
<1>1. BelongInv => PicturesBelong
  BY DEF BelongInv
<1>2. QED
  BY <1>1, BelongInitKeeps, BelongNextKeeps, PTL DEF PicturesSpec

\* A question about sizes that asks for no photo gets no garment, on the ends that pass the
\* checks (showcase.keep_chart_or_photos).
THEOREM SizesGetNoPhoto == PicturesSpec => []SizingGetsNoPhoto
<1>1. BelongInv => SizingGetsNoPhoto
  BY DEF BelongInv
<1>2. QED
  BY <1>1, BelongInitKeeps, BelongNextKeeps, PTL DEF PicturesSpec

-----------------------------------------------------------------------------
(* The calls to the model.                                                 *)

\* A message the context keeps: one that broke off was asked for again to the end.
Whole(m) == m.cut => m.short = TruncationRetries
Kept == {m \in Spoken : Whole(m)}

\* The notes that were heard came out as words; past the listening something was heard, and
\* past the looking something was seen.
GoodCalling(c) ==
    /\ c \in Callings
    /\ \A n \in c.heard : c.notes[n] = "words"
    /\ c.phase \in {"looking", "hop", "asking"} /\ c.notes # <<>> => c.heard # {}
    /\ c.phase \in {"hop", "asking"} /\ c.photos # <<>> => c.seen # <<>>

GoodReply == reply.how = "said" => ~reply.cut
GoodVerdict == verdict.of \in {"cut", "no category"} => verdict.as = "unavailable"

CallsInv ==
    /\ config \in [vendor : Vendors, named : BOOLEAN]
    /\ context \in Seq(Kept)
    /\ GoodCalling(calling) /\ GoodReply /\ GoodVerdict

LEMMA FieldTypes ==
    \A c \in Callings :
        /\ c.nth \in 0..MaxTurns /\ c.resolved \in BOOLEAN
        /\ c.listened \in Nat /\ c.looked \in Nat
        /\ c.hops \in 0..HopCap /\ c.short \in 0..TruncationRetries /\ c.attempt \in {1, 2}
        /\ c.busy \in 0..BusyRetries /\ c.seen \in Seq([photo : Nat, as : Readable])
BY DEF Callings

LEMMA SetOneField ==
    ASSUME NEW c \in Callings
    PROVE  /\ [c EXCEPT !.phase = "asking"] \in Callings
           /\ \A x \in 0..HopCap : [c EXCEPT !.hops = x] \in Callings
           /\ [c EXCEPT !.attempt = 1] \in Callings /\ [c EXCEPT !.attempt = 2] \in Callings
           /\ \A x \in 0..BusyRetries : [c EXCEPT !.busy = x] \in Callings
           /\ [c EXCEPT !.forced = FALSE] \in Callings
<1>1. [c EXCEPT !.phase = "asking"] \in Callings /\ [c EXCEPT !.forced = FALSE] \in Callings
  BY DEF Callings
<1>2. [c EXCEPT !.attempt = 1] \in Callings /\ [c EXCEPT !.attempt = 2] \in Callings
  BY DEF Callings
<1>3. \A x \in 0..HopCap : [c EXCEPT !.hops = x] \in Callings
  BY DEF Callings
<1>4. \A x \in 0..BusyRetries : [c EXCEPT !.busy = x] \in Callings
  BY DEF Callings
<1>5. QED
  BY <1>1, <1>2, <1>3, <1>4

LEMMA AppendIsSeq == \A S : \A s \in Seq(S), x \in S : Append(s, x) \in Seq(S)
OBVIOUS

LEMMA CallsNat ==
    /\ BusyRetries \in Nat /\ TruncationRetries \in Nat /\ HopCap \in Nat
    /\ Window \in Nat /\ MostMedia \in Nat /\ MaxTurns \in Nat
BY CallsAssumption

\* The end of a context whose messages are whole is one.
LEMMA NotedIsKept ==
    ASSUME NEW s \in Seq(Kept), NEW m \in Kept
    PROVE  Noted(Append(s, m)) \in Seq(Kept)
<1>1. Append(s, m) \in Seq(Kept) /\ Len(Append(s, m)) \in Nat
  OBVIOUS
<1>2. \A t \in Seq(Kept) : \A a \in 1..Len(t) : SubSeq(t, a, Len(t)) \in Seq(Kept)
  OBVIOUS
<1>3. \A t \in Seq(Kept) : SubSeq(t, Len(t) + 1, Len(t)) \in Seq(Kept)
  OBVIOUS
<1>4. PICK t : t = Append(s, m)
  OBVIOUS
<1>5. Len(t) > Window => Len(t) - Window + 1 \in 1..Len(t) \/ Len(t) - Window + 1 = Len(t) + 1
  BY <1>1, <1>4, CallsNat
<1>6. QED
  BY <1>1, <1>2, <1>3, <1>4, <1>5 DEF Noted

LEMMA KeptTyped == \A s \in Seq(Kept) : s \in Seq(Spoken)
<1>1. ASSUME NEW S, NEW T, S \subseteq T, NEW s \in Seq(S)
      PROVE  s \in Seq(T)
  <2>1. s \in [1..Len(s) -> T] /\ Len(s) \in Nat
    BY <1>1
  <2>2. QED
    BY <2>1
<1>2. Kept \subseteq Spoken
  BY DEF Kept
<1>3. QED
  BY <1>1, <1>2

LEMMA AtMostIsSeq == \A S : \A n \in Nat : AtMost(S, n) \subseteq Seq(S)
<1> SUFFICES ASSUME NEW S, NEW n \in Nat, NEW k \in 0..n, NEW f \in [1..k -> S]
             PROVE  f \in Seq(S)
  BY DEF AtMost
<1>1. k \in Nat
  OBVIOUS
<1>2. QED
  BY <1>1

\* A turn that is over, and one that opens, have nothing yet of what the last one read.
LEMMA OpenedIs ==
    ASSUME NEW phase \in {"idle", "listening"}, NEW nth \in 0..MaxTurns, NEW words \in BOOLEAN,
           NEW notes \in Seq(NoteFates), NEW photos \in Seq(PhotoFates)
    PROVE  /\ Opened(phase, nth, words, notes, photos) \in Callings
           /\ Opened(phase, nth, words, notes, photos).heard = {}
           /\ Opened(phase, nth, words, notes, photos).phase = phase
<1>1. /\ <<>> \in Seq([photo : Nat, as : Readable])
      /\ 0 \in 0..HopCap /\ 0 \in 0..TruncationRetries /\ 0 \in 0..BusyRetries
  BY CallsNat
<1>2. QED
  BY <1>1 DEF Opened, Callings

LEMMA QuietIs == CallsInv => GoodCalling(Quiet(calling.nth))
<1> SUFFICES ASSUME CallsInv PROVE GoodCalling(Quiet(calling.nth))
  OBVIOUS
<1>a. calling \in Callings
  BY DEF CallsInv, GoodCalling
<1>1. calling.nth \in 0..MaxTurns /\ <<>> \in Seq(NoteFates) /\ <<>> \in Seq(PhotoFates)
  BY <1>a, FieldTypes
<1>2. PICK c : c = Quiet(calling.nth)
  OBVIOUS
<1>3. c \in Callings /\ c.heard = {} /\ c.phase = "idle"
  BY <1>1, <1>2, OpenedIs DEF Quiet
<1>4. GoodCalling(c)
  BY <1>3 DEF GoodCalling
<1>5. QED
  BY <1>2, <1>4

\* What an end without the model's own words leaves.
LEMMA EndTurnIs ==
    ASSUME CallsInv, NEW how, how # "said", NEW cut, NEW kind, EndTurn(how, cut, kind)
    PROVE  GoodCalling(calling') /\ GoodReply'
<1>1. GoodCalling(calling')
  BY QuietIs DEF EndTurn
<1>2. reply'.how = how
  BY DEF EndTurn
<1>3. QED
  BY <1>1, <1>2 DEF GoodReply

\* Nothing but the turn and its reply moves.
LEMMA CallingKeeps ==
    ASSUME CallsInv, UNCHANGED <<config, context, verdict>>,
           GoodCalling(calling'), GoodReply'
    PROVE  CallsInv'
BY DEF CallsInv, GoodVerdict

LEMMA ReceiveInvariant == CallsInv /\ Receive => CallsInv'
<1> SUFFICES ASSUME CallsInv, Receive PROVE CallsInv'
  OBVIOUS
<1>1. PICK words \in BOOLEAN, notes \in AtMost(NoteFates, MostMedia),
           photos \in AtMost(PhotoFates, MostMedia) :
        calling' = Opened("listening", calling.nth + 1, words, notes, photos)
  BY DEF Receive
<1>2. notes \in Seq(NoteFates) /\ photos \in Seq(PhotoFates)
  BY AtMostIsSeq, CallsNat
<1>3. calling.nth + 1 \in 0..MaxTurns
  <2>1. calling.nth \in 0..MaxTurns /\ calling.nth < MaxTurns
    BY DEF Receive, CallsInv, GoodCalling, Callings
  <2>2. QED
    BY <2>1, CallsNat
<1>4. PICK c : c = Opened("listening", calling.nth + 1, words, notes, photos)
  OBVIOUS
<1>5. c \in Callings /\ c.heard = {} /\ c.phase = "listening"
  BY <1>2, <1>3, <1>4, OpenedIs
<1>6. GoodCalling(c)
  BY <1>5 DEF GoodCalling
<1>7. reply' = NoReply /\ verdict' = NoVerdict
      /\ UNCHANGED <<config, context>>
  BY DEF Receive
<1>8. GoodReply' /\ GoodVerdict'
  BY <1>7 DEF GoodReply, NoReply, GoodVerdict, NoVerdict
<1>9. GoodCalling(calling)'
  BY <1>1, <1>4, <1>6
<1>10. QED
  BY <1>7, <1>8, <1>9 DEF CallsInv

\* A turn that moves on to a phase in which nothing more is asked of it.
LEMMA ListenInvariant == CallsInv /\ Listen => CallsInv'
<1> SUFFICES ASSUME CallsInv, Listen PROVE CallsInv'
  OBVIOUS
<1>1. GoodCalling(calling) /\ calling \in Callings /\ GoodReply /\ calling.phase = "listening"
  BY DEF CallsInv, GoodCalling, Listen, At
<1>2. UNCHANGED <<config, context, verdict>>
  BY DEF Listen
<1>3. CASE calling.listened < Len(calling.notes)
  <2>1. PICK n : n = calling.listened + 1
    OBVIOUS
  <2>2. PICK found \in AfterMedia :
            calling' = [calling EXCEPT !.listened = n, !.resolved = found,
                          !.heard = IF Transcribed(calling.notes[n]) THEN @ \cup {n} ELSE @]
    BY <1>3, <2>1 DEF Listen
  <2>3. PICK heard : heard = IF Transcribed(calling.notes[n]) THEN calling.heard \cup {n}
                             ELSE calling.heard
    OBVIOUS
  <2>a. n \in Nat /\ calling.resolved \in BOOLEAN
    BY <1>1, <2>1, FieldTypes
  <2>4. found \in BOOLEAN
    BY <2>a, <2>2 DEF AfterMedia
  <2>5. heard \in SUBSET Nat /\ \A m \in heard : calling.notes[m] = "words"
    BY <1>1, <2>3, <2>a DEF Callings, GoodCalling, Transcribed
  <2>6. calling' = [calling EXCEPT !.listened = n, !.resolved = found, !.heard = heard]
    BY <1>1, <2>2, <2>3 DEF Callings
  <2>7. PICK c : c = [calling EXCEPT !.listened = n, !.resolved = found, !.heard = heard]
    OBVIOUS
  <2>8. c \in Callings /\ c.heard = heard /\ c.notes = calling.notes /\ c.phase = "listening"
    BY <1>1, <2>a, <2>4, <2>5, <2>7 DEF Callings
  <2>9. GoodCalling(c)
    BY <2>5, <2>8 DEF GoodCalling
  <2>10. reply' = reply
    BY <1>3 DEF Listen
  <2>11. QED
    BY <1>1, <1>2, <2>6, <2>7, <2>9, <2>10, CallingKeeps DEF GoodReply
<1>4. CASE ~(calling.listened < Len(calling.notes)) /\ calling.notes # <<>> /\ calling.heard = {}
  <2>1. EndTurn("handed over", FALSE, "voice_received")
    BY <1>4 DEF Listen
  <2>2. QED
    BY <1>2, <2>1, EndTurnIs, CallingKeeps
<1>5. CASE /\ ~(calling.listened < Len(calling.notes))
           /\ ~(calling.notes # <<>> /\ calling.heard = {})
  <2>1. calling' = [calling EXCEPT !.phase = "looking"] /\ reply' = reply
    BY <1>5 DEF Listen
  <2>2. PICK c : c = [calling EXCEPT !.phase = "looking"]
    OBVIOUS
  <2>3. /\ c \in Callings /\ c.heard = calling.heard /\ c.notes = calling.notes
        /\ c.phase = "looking"
    BY <1>1, <2>2 DEF Callings
  <2>4. GoodCalling(c)
    BY <1>1, <1>5, <2>3 DEF GoodCalling
  <2>5. QED
    BY <1>1, <1>2, <2>1, <2>2, <2>4, CallingKeeps DEF GoodReply
<1>6. QED
  BY <1>3, <1>4, <1>5

LEMMA LookInvariant == CallsInv /\ Look => CallsInv'
<1> SUFFICES ASSUME CallsInv, Look PROVE CallsInv'
  OBVIOUS
<1>1. GoodCalling(calling) /\ calling \in Callings /\ GoodReply /\ calling.phase = "looking"
  BY DEF CallsInv, GoodCalling, Look, At
<1>2. UNCHANGED <<config, context, verdict>>
  BY DEF Look
<1>3. CASE calling.looked < Len(calling.photos)
  <2>1. PICK n : n = calling.looked + 1
    OBVIOUS
  <2>2. PICK read : read = Readings(calling.photos[n])
    OBVIOUS
  <2>3. PICK found \in AfterMedia :
            calling' = [calling EXCEPT !.looked = n, !.resolved = found,
                          !.seen = IF read = {} THEN @
                                   ELSE Append(@, [photo |-> n, as |-> CHOOSE r \in read : TRUE])]
    BY <1>3, <2>1, <2>2 DEF Look
  <2>4. PICK r : r = CHOOSE x \in read : TRUE
    OBVIOUS
  <2>5. PICK shots : shots = IF read = {} THEN calling.seen
                           ELSE Append(calling.seen, [photo |-> n, as |-> r])
    OBVIOUS
  <2>a. calling.resolved \in BOOLEAN /\ calling.seen \in Seq([photo : Nat, as : Readable])
    BY <1>1, FieldTypes
  <2>6. n \in Nat
    BY <1>1, <2>1, FieldTypes
  <2>7. found \in BOOLEAN
    BY <2>a, <2>3 DEF AfterMedia
  <2>8. read # {} => r \in Readable
    BY <2>2, <2>4 DEF Readings, ReadingOf, Readable
  <2>9. shots \in Seq([photo : Nat, as : Readable])
    <3>1. CASE read = {}
      BY <2>a, <2>5, <3>1
    <3>2. CASE read # {}
      <4>1. [photo |-> n, as |-> r] \in [photo : Nat, as : Readable]
        BY <2>6, <2>8, <3>2
      <4>2. QED
        BY <2>a, <2>5, <3>2, <4>1, AppendIsSeq
    <3>3. QED
      BY <3>1, <3>2
  <2>10. calling' = [calling EXCEPT !.looked = n, !.resolved = found, !.seen = shots]
    BY <1>1, <2>3, <2>4, <2>5 DEF Callings
  <2>11. PICK c : c = [calling EXCEPT !.looked = n, !.resolved = found, !.seen = shots]
    OBVIOUS
  <2>12. /\ c \in Callings /\ c.heard = calling.heard /\ c.notes = calling.notes
         /\ c.phase = "looking"
    BY <1>1, <2>a, <2>6, <2>7, <2>9, <2>11 DEF Callings
  <2>13. GoodCalling(c)
    BY <1>1, <2>12 DEF GoodCalling
  <2>14. reply' = reply
    BY <1>3 DEF Look
  <2>15. QED
    BY <1>1, <1>2, <2>10, <2>11, <2>13, <2>14, CallingKeeps DEF GoodReply
<1>4. CASE \/ EndTurn("handed over", FALSE, "image_received")
           \/ EndTurn("nothing to answer", FALSE, "none")
  BY <1>2, <1>4, EndTurnIs, CallingKeeps
<1>5. CASE /\ ~(calling.photos # <<>> /\ calling.seen = <<>>)
           /\ calling' = [calling EXCEPT !.phase = "hop"] /\ reply' = reply
  <2>1. PICK c : c = [calling EXCEPT !.phase = "hop"]
    OBVIOUS
  <2>2. /\ c \in Callings /\ c.heard = calling.heard /\ c.notes = calling.notes
        /\ c.photos = calling.photos /\ c.seen = calling.seen /\ c.phase = "hop"
    BY <1>1, <2>1 DEF Callings
  <2>3. GoodCalling(c)
    BY <1>1, <1>5, <2>2 DEF GoodCalling
  <2>4. QED
    BY <1>1, <1>2, <1>5, <2>1, <2>3, CallingKeeps DEF GoodReply
<1>6. QED
  BY <1>3, <1>4, <1>5 DEF Look

-----------------------------------------------------------------------------
(* Hops: a turn whose media were read goes on with them.                   *)

\* What a hop may change of a turn.
LEMMA HopKeeps ==
    ASSUME CallsInv, calling.phase \in {"hop", "asking"}, NEW c, c \in Callings,
           c.notes = calling.notes, c.photos = calling.photos,
           c.heard = calling.heard, c.seen = calling.seen
    PROVE  GoodCalling(c)
BY DEF CallsInv, GoodCalling

LEMMA StartHopInvariant == CallsInv /\ StartHop => CallsInv'
<1> SUFFICES ASSUME CallsInv, StartHop PROVE CallsInv'
  OBVIOUS
<1>1. calling \in Callings /\ GoodReply /\ calling.phase = "hop"
  BY DEF CallsInv, GoodCalling, StartHop, At
<1>2. UNCHANGED <<config, context, verdict>>
  BY DEF StartHop
<1>3. CASE calling.hops >= HopCap
  BY <1>2, <1>3, EndTurnIs, CallingKeeps DEF StartHop
<1>4. CASE ~(calling.hops >= HopCap)
  <2>1. PICK h : h = calling.hops + 1
    OBVIOUS
  <2>2. h \in 0..HopCap /\ 0 \in 0..BusyRetries
    BY <1>1, <1>4, <2>1, FieldTypes, CallsNat
  <2>3. PICK c : c = [calling EXCEPT !.phase = "asking", !.hops = h, !.attempt = 1, !.busy = 0,
                                     !.forced = FALSE]
    OBVIOUS
  <2>4. calling' = c /\ reply' = reply
    BY <1>1, <1>4, <2>1, <2>3 DEF StartHop, Callings
  <2>5. c \in Callings
    <3>1. [calling EXCEPT !.phase = "asking"] \in Callings
      BY <1>1, SetOneField
    <3>2. [calling EXCEPT !.phase = "asking", !.hops = h] \in Callings
      BY <2>2, <3>1, SetOneField
    <3>3. [calling EXCEPT !.phase = "asking", !.hops = h, !.attempt = 1] \in Callings
      BY <3>2, SetOneField
    <3>4. [calling EXCEPT !.phase = "asking", !.hops = h, !.attempt = 1, !.busy = 0] \in Callings
      BY <2>2, <3>3, SetOneField
    <3>5. QED
      BY <2>3, <3>4, SetOneField
  <2>b. /\ c.heard = calling.heard /\ c.notes = calling.notes
        /\ c.photos = calling.photos /\ c.seen = calling.seen
    BY <1>1, <2>3 DEF Callings
  <2>6. QED
    BY <1>1, <1>2, <2>4, <2>5, <2>b, HopKeeps, CallingKeeps DEF GoodReply
<1>5. QED
  BY <1>3, <1>4

\* A failed attempt is the first, and another follows, or the turn ends with an apology.
LEMMA FailIs ==
    ASSUME CallsInv, calling.phase = "asking", NEW kind, Fail(kind)
    PROVE  GoodCalling(calling') /\ GoodReply'
<1>1. calling \in Callings /\ GoodReply
  BY DEF CallsInv, GoodCalling
<1>2. CASE EndTurn("apology", FALSE, kind)
  BY <1>2, EndTurnIs
<1>3. CASE ~EndTurn("apology", FALSE, kind)
  <2>1. PICK c : c = [calling EXCEPT !.phase = "asking", !.attempt = 2, !.busy = 0,
                                     !.forced = FALSE]
    OBVIOUS
  <2>2. calling' = c /\ reply' = reply
    BY <1>3, <2>1 DEF Fail
  <2>3. 0 \in 0..BusyRetries
    BY CallsNat
  <2>4. c \in Callings
    <3>1. [calling EXCEPT !.phase = "asking"] \in Callings
      BY <1>1, SetOneField
    <3>2. [calling EXCEPT !.phase = "asking", !.attempt = 2] \in Callings
      BY <3>1, SetOneField
    <3>3. [calling EXCEPT !.phase = "asking", !.attempt = 2, !.busy = 0] \in Callings
      BY <2>3, <3>2, SetOneField
    <3>4. QED
      BY <2>1, <3>3, SetOneField
  <2>b. /\ c.heard = calling.heard /\ c.notes = calling.notes
        /\ c.photos = calling.photos /\ c.seen = calling.seen
    BY <1>1, <2>1 DEF Callings
  <2>5. QED
    BY <1>1, <2>2, <2>4, <2>b, HopKeeps DEF GoodReply
<1>4. QED
  BY <1>2, <1>3

LEMMA ResolveModelInvariant == CallsInv /\ ResolveModel => CallsInv'
<1> SUFFICES ASSUME CallsInv, ResolveModel PROVE CallsInv'
  OBVIOUS
<1>1. calling \in Callings /\ GoodReply /\ calling.phase = "asking"
  BY DEF CallsInv, GoodCalling, ResolveModel, At
<1>2. UNCHANGED <<config, context, verdict>>
  BY DEF ResolveModel
<1>3. CASE calling' = [calling EXCEPT !.resolved = TRUE] /\ reply' = reply
  <2>1. PICK c : c = [calling EXCEPT !.resolved = TRUE]
    OBVIOUS
  <2>2. /\ c \in Callings /\ c.heard = calling.heard /\ c.notes = calling.notes
        /\ c.photos = calling.photos /\ c.seen = calling.seen
    BY <1>1, <2>1 DEF Callings
  <2>3. QED
    BY <1>1, <1>2, <1>3, <2>1, <2>2, HopKeeps, CallingKeeps DEF GoodReply
<1>4. CASE \E kind \in {"provider_error", "auth"} : Fail(kind)
  BY <1>1, <1>2, <1>4, FailIs, CallingKeeps
<1>5. QED
  BY <1>3, <1>4 DEF ResolveModel

-----------------------------------------------------------------------------
(* Requests and answers.                                                   *)

LEMMA PostRefusedInvariant == CallsInv /\ PostRefused => CallsInv'
<1> SUFFICES ASSUME CallsInv, PostRefused PROVE CallsInv'
  OBVIOUS
<1>1. calling \in Callings /\ GoodReply /\ calling.phase = "asking"
  BY DEF CallsInv, GoodCalling, PostRefused, Post, At
<1>2. UNCHANGED <<config, context, verdict>>
  BY DEF PostRefused
<1>3. PICK status : Refusal(status)
  BY DEF PostRefused
<1>4. GoodCalling(calling') /\ GoodReply'
  <2>1. CASE \E kind : Fail(kind)
    BY <1>1, <2>1, FailIs
  <2>2. CASE /\ calling.busy < BusyRetries
             /\ calling' = [calling EXCEPT !.busy = @ + 1] /\ UNCHANGED reply
    <3>1. PICK b : b = calling.busy + 1
      OBVIOUS
    <3>2. b \in 0..BusyRetries
      BY <1>1, <2>2, <3>1, FieldTypes, CallsNat
    <3>3. PICK c : c = [calling EXCEPT !.busy = b]
      OBVIOUS
    <3>4. calling' = c
      BY <1>1, <2>2, <3>1, <3>3 DEF Callings
    <3>5. /\ c \in Callings /\ c.heard = calling.heard /\ c.notes = calling.notes
          /\ c.photos = calling.photos /\ c.seen = calling.seen
      BY <1>1, <3>2, <3>3 DEF Callings
    <3>6. QED
      BY <1>1, <2>2, <3>4, <3>5, HopKeeps DEF GoodReply
  <2>3. CASE calling' = [calling EXCEPT !.forced = TRUE, !.busy = 0] /\ UNCHANGED reply
    <3>1. PICK c : c = [calling EXCEPT !.forced = TRUE, !.busy = 0]
      OBVIOUS
    <3>2. 0 \in 0..BusyRetries
      BY CallsNat
    <3>3. /\ c \in Callings /\ c.heard = calling.heard /\ c.notes = calling.notes
          /\ c.photos = calling.photos /\ c.seen = calling.seen
      BY <1>1, <3>1, <3>2 DEF Callings
    <3>4. QED
      BY <1>1, <2>3, <3>1, <3>3, HopKeeps DEF GoodReply
  <2>4. QED
    BY <1>3, <2>1, <2>2, <2>3 DEF Refusal
<1>5. QED
  BY <1>2, <1>4 DEF CallsInv, GoodVerdict

LEMMA MessageIs ==
    ASSUME CallsInv, NEW cut \in BOOLEAN,
           cut => calling.short >= TruncationRetries
    PROVE  Noted(Append(context, MessageOf(cut))) \in Seq(Kept)
<1>1. calling \in Callings /\ config.vendor \in Vendors /\ context \in Seq(Kept)
  BY DEF CallsInv, GoodCalling
<1>2. calling.short \in 0..TruncationRetries
  BY <1>1, FieldTypes
<1>3. cut => calling.short = TruncationRetries
  BY <1>2, CallsNat
<1>4. MessageOf(cut) \in Kept
  BY <1>1, <1>2, <1>3 DEF MessageOf, Kept, Spoken, Whole
<1>5. QED
  BY <1>1, <1>4, NotedIsKept

LEMMA AskShorterIs ==
    ASSUME CallsInv, calling.phase = "asking", AskShorter
    PROVE  GoodCalling(calling') /\ context' = context /\ GoodReply'
<1>1. calling \in Callings /\ GoodReply
  BY DEF CallsInv, GoodCalling
<1>2. PICK s : s = calling.short + 1
  OBVIOUS
<1>3. s \in 0..TruncationRetries
  BY <1>1, <1>2, FieldTypes, CallsNat DEF AskShorter
<1>4. PICK c : c = [calling EXCEPT !.phase = "hop", !.short = s]
  OBVIOUS
<1>5. calling' = c /\ context' = context /\ reply' = reply
  BY <1>1, <1>2, <1>4 DEF AskShorter, Callings
<1>6. /\ c \in Callings /\ c.heard = calling.heard /\ c.notes = calling.notes
      /\ c.photos = calling.photos /\ c.seen = calling.seen
  BY <1>1, <1>3, <1>4 DEF Callings
<1>7. QED
  BY <1>1, <1>5, <1>6, HopKeeps DEF GoodReply

LEMMA PostAnsweredInvariant == CallsInv /\ PostAnswered => CallsInv'
<1> SUFFICES ASSUME CallsInv, PostAnswered PROVE CallsInv'
  OBVIOUS
<1>1. calling \in Callings /\ GoodReply /\ calling.phase = "asking" /\ context \in Seq(Kept)
  BY DEF CallsInv, GoodCalling, PostAnswered, Post, At
<1>2. UNCHANGED <<config, verdict>>
  BY DEF PostAnswered
<1>3. PICK cut \in BOOLEAN :
        \/ \E blank \in BOOLEAN : AnswerInWords(cut, blank)
        \/ AnswerWithCalls(cut)
  BY DEF PostAnswered
<1>4. GoodCalling(calling') /\ context' \in Seq(Kept) /\ GoodReply'
  <2>1. CASE AskShorter
    BY <1>1, <2>1, AskShorterIs
  <2>2. ASSUME NEW blank \in BOOLEAN, AnswerInWords(cut, blank), ~AskShorter
        PROVE  GoodCalling(calling') /\ context' \in Seq(Kept) /\ GoodReply'
    <3>1. CASE cut /\ ~blank
      <4>1. /\ EndTurn("fixed sentence", TRUE, "truncated")
            /\ context' = Noted(Append(context, MessageOf(FALSE)))
        BY <2>2, <3>1 DEF AnswerInWords
      <4>2. QED
        BY <4>1, EndTurnIs, MessageIs
    <3>2. CASE ~(cut /\ ~blank)
      <4>1. /\ calling' = Quiet(calling.nth)
            /\ context' = Noted(Append(context, MessageOf(FALSE)))
            /\ reply' = [how |-> IF blank THEN "apology" ELSE "said", cut |-> cut, blank |-> blank,
                         short |-> calling.short, attempt |-> calling.attempt, kind |-> "none"]
        BY <2>2, <3>2 DEF AnswerInWords
      <4>2. reply'.how = "said" => ~reply'.cut
        BY <3>2, <4>1
      <4>3. QED
        BY <4>1, <4>2, QuietIs, MessageIs DEF GoodReply
    <3>3. QED
      BY <3>1, <3>2
  <2>3. CASE AnswerWithCalls(cut) /\ ~AskShorter
    <3>1. /\ ~cut \/ calling.short >= TruncationRetries
          /\ context' = Noted(Append(context, MessageOf(cut)))
          /\ calling' = [calling EXCEPT !.phase = "hop"] /\ reply' = reply
      BY <2>3 DEF AnswerWithCalls
    <3>2. PICK c : c = [calling EXCEPT !.phase = "hop"]
      OBVIOUS
    <3>3. /\ c \in Callings /\ c.heard = calling.heard /\ c.notes = calling.notes
          /\ c.photos = calling.photos /\ c.seen = calling.seen
      BY <1>1, <3>2 DEF Callings
    <3>4. QED
      BY <1>1, <3>1, <3>2, <3>3, HopKeeps, MessageIs DEF GoodReply
  <2>4. QED
    BY <1>3, <2>1, <2>2, <2>3
<1>5. QED
  BY <1>2, <1>4 DEF CallsInv, GoodVerdict

LEMMA ClassifyDeployInvariant == CallsInv /\ (ClassifyComment \/ Deploy) => CallsInv'
<1> SUFFICES ASSUME CallsInv, ClassifyComment \/ Deploy PROVE CallsInv'
  OBVIOUS
<1>1. CASE ClassifyComment
  <2>1. PICK fate : verdict' = [of |-> fate, as |-> FiledUnder(fate)]
    BY <1>1 DEF ClassifyComment
  <2>2. GoodVerdict'
    BY <2>1 DEF GoodVerdict, FiledUnder
  <2>3. QED
    BY <1>1, <2>2 DEF ClassifyComment, CallsInv, GoodReply
<1>2. CASE Deploy
  <2>1. config' \in [vendor : Vendors, named : BOOLEAN]
    BY <1>2 DEF Deploy, Vendors
  <2>2. QED
    BY <1>2, <2>1 DEF Deploy, CallsInv, GoodReply, GoodVerdict
<1>3. QED
  BY <1>1, <1>2

LEMMA CallsInitInvariant == CallsInit => CallsInv
<1> SUFFICES ASSUME CallsInit PROVE CallsInv
  OBVIOUS
<1>1. /\ 0 \in 0..MaxTurns /\ <<>> \in Seq(NoteFates) /\ <<>> \in Seq(PhotoFates)
      /\ <<>> \in Seq(Kept)
  BY CallsNat
<1>2. PICK c : c = Quiet(0)
  OBVIOUS
<1>3. c \in Callings /\ c.heard = {} /\ c.phase = "idle"
  BY <1>1, <1>2, OpenedIs DEF Quiet
<1>4. GoodCalling(calling)
  BY <1>2, <1>3 DEF CallsInit, GoodCalling
<1>5. GoodReply /\ GoodVerdict
  BY DEF CallsInit, NoReply, NoVerdict, GoodReply, GoodVerdict
<1>6. config \in [vendor : Vendors, named : BOOLEAN] /\ context = <<>>
  BY DEF CallsInit, Vendors
<1>7. QED
  BY <1>1, <1>4, <1>5, <1>6 DEF CallsInv

LEMMA CallsNextInvariant == CallsInv /\ [CallsNext]_callsVars => CallsInv'
<1> SUFFICES ASSUME CallsInv, [CallsNext]_callsVars PROVE CallsInv'
  OBVIOUS
<1>1. CASE CallsNext
  BY <1>1, ReceiveInvariant, ListenInvariant, LookInvariant, StartHopInvariant,
     ResolveModelInvariant, PostRefusedInvariant, PostAnsweredInvariant,
     ClassifyDeployInvariant DEF CallsNext
<1>2. CASE UNCHANGED callsVars
  BY <1>2 DEF callsVars, CallsInv, GoodCalling, GoodReply, GoodVerdict
<1>3. QED
  BY <1>1, <1>2

LEMMA CallsInvIsInvariant == CallsSpec => []CallsInv
BY CallsInitInvariant, CallsNextInvariant, PTL DEF CallsSpec

\* Hops, attempts, waits and repeated questions keep their limits over a whole turn
\* (tool_loop_cap, _generate_with_retry, _RETRY_LIMIT, _TRUNCATION_RETRY_LIMIT).
THEOREM CallsTypeCorrect == CallsSpec => []CallsTypeOK
<1>1. CallsInv => CallsTypeOK
  BY KeptTyped DEF CallsInv, CallsTypeOK, GoodCalling
<1>2. QED
  BY <1>1, CallsInvIsInvariant, PTL

\* What broke off at the completion ceiling is never taken for the whole (agent.py,
\* openrouter.py's transcribe and classify).
THEOREM NoHalfIsTakenForAWhole == CallsSpec => []CutNeverPasses
<1>1. CallsInv => CutNeverPasses
  <2> SUFFICES ASSUME CallsInv PROVE CutNeverPasses
    OBVIOUS
  <2>1. \A i \in DOMAIN context : context[i] \in Kept
    BY DEF CallsInv
  <2>2. QED
    BY <2>1 DEF CallsInv, GoodReply, GoodVerdict, GoodCalling, CutNeverPasses, Kept, Whole
<1>2. QED
  BY <1>1, CallsInvIsInvariant, PTL

\* The model never answers a message whose voice notes, or whose photos, could none of
\* them be read (runtime.py: those go to a person).
THEOREM UnreadGoToAPerson == CallsSpec => []HeardOrHandedOver
<1>1. CallsInv => HeardOrHandedOver
  BY DEF CallsInv, GoodCalling, HeardOrHandedOver
<1>2. QED
  BY <1>1, CallsInvIsInvariant, PTL
=============================================================================
