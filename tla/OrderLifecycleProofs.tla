------------------------ MODULE OrderLifecycleProofs ------------------------
(***************************************************************************)
(* Proofs about OrderLifecycle, for any orders, requests, webhooks, faults *)
(* and workers, however the transactions of an order overlap: statuses     *)
(* move as OrderStages says, what Shopify reported is on record once it    *)
(* has been handled, and the two sides of an order at rest differ only     *)
(* where that is known; the exceptions of each are the races it names.     *)
(*                                                                         *)
(* And about ShelfReservations, for any items, orders, clerks and bounds,  *)
(* and each deployment: units are neither lost nor sold twice but where    *)
(* the code gives them up.                                                 *)
(***************************************************************************)
EXTENDS OrderLifecycle, ShelfReservations, SequenceTheorems, FiniteSetTheorems, TLAPS

-----------------------------------------------------------------------------
(* The inductive invariant.                                                *)

Pressed == [by : {"staff"}, op : {"advance"}, order : Orders, topic : {"delivered"}]
Work == Jobs \cup Pressed

\* Rows, transactions and the books of the webhooks have their types.
Typed ==
    /\ rows \in [Orders -> Row]
    /\ told \in [Orders -> Seq(Stages!Statuses)]
    /\ tx \in [Workers -> {Idle} \cup [at : {"read", "called"}, job : Work, row : Row]]
    /\ claimed \subseteq Event /\ tasks \subseteq claimed

\* A webhook's transaction opens only if the row it reads is not yet where the topic
\* asks for, and whoever cancels has read a row that may be cancelled.
Ahead(job, s) == s # "Cancelled" /\ Stages!Rank(s) < Stages!Rank(TOPIC_STATUS[job.topic])

Justified(job, row) ==
    /\ job.op = "cancel" => Modifiable(row)
    /\ job.by = "shopify" /\ job.op = "advance" => Ahead(job, row.status)

ReadsJustify == \A w \in Workers : tx[w] # Idle => Justified(tx[w].job, tx[w].row)

IInv == Typed /\ ReadsJustify /\ ReportsApplied

-----------------------------------------------------------------------------
(* Stages.                                                                 *)

Reached == {"Confirmed", "Packed", "Shipped", "Delivered"}

LEMMA Ranks ==
    /\ Stages!Rank("Confirmed") = 1 /\ Stages!Rank("Packed") = 2
    /\ Stages!Rank("Shipped") = 3 /\ Stages!Rank("Delivered") = 4
<1>1. DOMAIN Stages!STATUS_SEQUENCE = {1, 2, 3, 4}
  BY DEF Stages!STATUS_SEQUENCE
<1>2. /\ Stages!STATUS_SEQUENCE[1] = "Confirmed" /\ Stages!STATUS_SEQUENCE[2] = "Packed"
      /\ Stages!STATUS_SEQUENCE[3] = "Shipped" /\ Stages!STATUS_SEQUENCE[4] = "Delivered"
  BY DEF Stages!STATUS_SEQUENCE
<1>3. QED
  BY <1>1, <1>2 DEF Stages!Rank

\* The status a webhook asks for is a stage past the first.
LEMMA TargetIs ==
    ASSUME NEW topic \in DOMAIN TOPIC_STATUS
    PROVE  /\ TOPIC_STATUS[topic] \in {"Packed", "Shipped", "Delivered"}
           /\ Stages!Rank(TOPIC_STATUS[topic]) \in 2..4
           /\ Stages!STATUS_SEQUENCE[Stages!Rank(TOPIC_STATUS[topic])] = TOPIC_STATUS[topic]
<1>1. TOPIC_STATUS[topic] \in {"Packed", "Shipped", "Delivered"}
  BY DEF TOPIC_STATUS
<1>2. QED
  BY <1>1, Ranks DEF Stages!STATUS_SEQUENCE

\* What `advance_to` walks: nothing, or every stage up to the target.
LEMMA WalkedIs ==
    ASSUME NEW s \in Reached, NEW topic \in DOMAIN TOPIC_STATUS
    PROVE  LET from == Stages!Rank(s)
               to == Stages!Rank(TOPIC_STATUS[topic])
               walked == SubSeq(Stages!STATUS_SEQUENCE, from + 1, to)
           IN  /\ from \in 1..4 /\ to \in 2..4
               /\ walked \in Seq(Stages!Statuses)
               /\ walked = <<>> <=> to <= from
<1>1. PICK from, to : from = Stages!Rank(s) /\ to = Stages!Rank(TOPIC_STATUS[topic])
  OBVIOUS
<1>2. from \in 1..4 /\ to \in 2..4
  BY <1>1, Ranks, TargetIs DEF Reached
<1>3. Stages!STATUS_SEQUENCE \in Seq(Stages!Statuses) /\ Len(Stages!STATUS_SEQUENCE) = 4
  BY DEF Stages!STATUS_SEQUENCE, Stages!Statuses
<1>4. PICK q : q = Stages!STATUS_SEQUENCE
  OBVIOUS
<1>5. \A i \in from + 1 .. to : q[i] \in Stages!Statuses
  <2>1. \A i \in 1..4 : q[i] \in Stages!Statuses
    BY <1>4 DEF Stages!STATUS_SEQUENCE, Stages!Statuses
  <2>2. QED
    BY <1>2, <2>1
<1>6. /\ SubSeq(q, from + 1, to) \in Seq(Stages!Statuses)
      /\ Len(SubSeq(q, from + 1, to)) = IF from + 1 <= to THEN to - (from + 1) + 1 ELSE 0
  <2>1. from + 1 \in Int /\ to \in Int
    BY <1>2
  <2>2. QED
    BY <1>5, <2>1, SubSeqProperties, Zenon
<1>7. SubSeq(q, from + 1, to) = <<>> <=> Len(SubSeq(q, from + 1, to)) = 0
  <2>1. \A t \in Seq(Stages!Statuses) : t = <<>> <=> Len(t) = 0
    OBVIOUS
  <2>2. QED
    BY <1>6, <2>1
<1>8. Len(SubSeq(q, from + 1, to)) = 0 <=> to <= from
  BY <1>2, <1>6
<1>9. QED
  BY <1>1, <1>2, <1>4, <1>6, <1>7, <1>8

-----------------------------------------------------------------------------
(* Work.                                                                   *)

\* What a worker may have in hand is well formed.
LEMMA WorkIs ==
    ASSUME NEW j \in Work
    PROVE  /\ j.order \in Orders
           /\ j.op \in Edits => j.line \in Variants /\ j.quantity \in Nat
           /\ j.op = "swap" => j.to \in Variants \ {j.line}
           /\ j.op = "advance" => j.topic \in DOMAIN TOPIC_STATUS
           /\ j.by = "shopify" => EventOf(j) \in Event /\ j = JobOf(EventOf(j))
<1>1. CASE j \in Requests
  BY <1>1, RequestsAssumption DEF Edits
<1>2. CASE \E e \in Event : j = JobOf(e)
  <2>1. PICK e \in Event : j = JobOf(e)
    BY <1>2
  <2>2. EventOf(j) = e
    BY <2>1 DEF EventOf, JobOf, Event
  <2>3. j.order \in Orders /\ e.topic \in DOMAIN TOPIC_STATUS \cup {"cancelled"}
    BY <2>1 DEF JobOf, Event
  <2>4. j.op \in {"cancel", "advance"} /\ (j.op = "advance" => j.topic \in DOMAIN TOPIC_STATUS)
    BY <2>1, <2>3 DEF JobOf
  <2>5. QED
    BY <2>1, <2>2, <2>3, <2>4 DEF Edits
<1>3. CASE j \in Pressed
  BY <1>3 DEF Pressed, Edits, TOPIC_STATUS
<1>4. QED
  BY <1>1, <1>2, <1>3 DEF Work, Jobs

\* A webhook as work is work, and carries its order and its topic.
LEMMA WebhookWork ==
    ASSUME NEW e \in Event
    PROVE  /\ JobOf(e) \in Work /\ JobOf(e).by = "shopify"
           /\ JobOf(e).order = e.order /\ JobOf(e).topic = e.topic
           /\ EventOf(JobOf(e)) = e
           /\ JobOf(e).op = IF e.topic = "cancelled" THEN "cancel" ELSE "advance"
BY DEF JobOf, EventOf, Event, Work, Jobs

\* No lemma below needs more of an open transaction than this.
LEMMA OpenIs ==
    ASSUME Typed, NEW w \in Workers, tx[w] # Idle
    PROVE  tx[w].job \in Work /\ tx[w].row \in Row /\ tx[w].at \in {"read", "called"}
BY DEF Typed

-----------------------------------------------------------------------------
(* What a step does to the open transactions.                              *)

\* The books a transaction does not touch.
SameBooks == UNCHANGED <<rows, told, overtaken>>

\* Nothing that was not handled to the end counts as handled.
NothingNewHandled == claimed' \ (tasks' \cup failed') \subseteq claimed \ (tasks \cup failed)

\* While rows stand and no more webhooks are handled, the reports stay applied.
LEMMA ReportsStay ==
    ASSUME ReportsApplied, SameBooks, NothingNewHandled
    PROVE  ReportsApplied'
BY DEF ReportsApplied, SameBooks, NothingNewHandled

\* A transaction that is opened reads the row as it is.
LEMMA Opens ==
    ASSUME IInv, SameBooks, UNCHANGED <<claimed, tasks, failed>>,
           NEW w \in Workers, NEW job \in Work, NEW at \in {"read", "called"},
           Opened(w, job, at),
           Justified(job, rows[job.order])
    PROVE  IInv'
<1>1. job.order \in Orders
  BY WorkIs
<1>2. PICK row : row = rows[job.order]
  OBVIOUS
<1>3. PICK t : t = [at |-> at, job |-> job, row |-> row]
  OBVIOUS
<1>4. row \in Row
  BY <1>1, <1>2 DEF IInv, Typed
<1>5. t \in [at : {"read", "called"}, job : Work, row : Row]
  BY <1>3, <1>4
<1>6. tx \in [Workers -> {Idle} \cup [at : {"read", "called"}, job : Work, row : Row]]
  BY DEF IInv, Typed
<1>7. tx[w] = Idle /\ tx' = [tx EXCEPT ![w] = t]
  BY <1>2, <1>3 DEF Opened
<1>8. Typed'
  <2>1. tx' \in [Workers -> {Idle} \cup [at : {"read", "called"}, job : Work, row : Row]]
    BY <1>5, <1>6, <1>7
  <2>2. QED
    BY <2>1 DEF IInv, Typed, SameBooks
<1>9. tx'[w] = t /\ \A x \in Workers \ {w} : tx'[x] = tx[x]
  BY <1>6, <1>7
<1>10. t.job = job /\ t.row = row
  BY <1>3
<1>13. ReadsJustify'
  BY <1>2, <1>9, <1>10 DEF IInv, ReadsJustify
<1>14. ReportsApplied'
  BY ReportsStay DEF IInv, NothingNewHandled
<1>15. QED
  BY <1>8, <1>13, <1>14 DEF IInv

\* A transaction that goes on or ends, the others and the rows standing still.
LEMMA GoesOn ==
    ASSUME IInv, SameBooks, NothingNewHandled,
           claimed' \subseteq Event, tasks' \subseteq claimed',
           NEW w \in Workers, tx[w] # Idle,
           \/ Ended(w)
           \/ tx' = [tx EXCEPT ![w].at = "called"]
    PROVE  IInv'
<1>1. tx \in [Workers -> {Idle} \cup [at : {"read", "called"}, job : Work, row : Row]]
  BY DEF IInv, Typed
<1>2. /\ tx' \in [Workers -> {Idle} \cup [at : {"read", "called"}, job : Work, row : Row]]
      /\ \A x \in Workers : tx'[x] # Idle =>
            tx[x] # Idle /\ tx'[x].job = tx[x].job /\ tx'[x].row = tx[x].row
  <2>1. CASE Ended(w)
    BY <1>1, <2>1 DEF Ended
  <2>2. CASE tx' = [tx EXCEPT ![w].at = "called"]
    <3>1. tx[w] \in [at : {"read", "called"}, job : Work, row : Row]
      BY <1>1
    <3>2. PICK t : t = [tx[w] EXCEPT !.at = "called"]
      OBVIOUS
    <3>3. /\ t \in [at : {"read", "called"}, job : Work, row : Row]
          /\ t.job = tx[w].job /\ t.row = tx[w].row
      BY <3>1, <3>2
    <3>4. tx' = [tx EXCEPT ![w] = t]
      BY <2>2, <3>2
    <3>5. QED
      BY <1>1, <3>3, <3>4
  <2>3. QED
    BY <2>1, <2>2
<1>3. Typed'
  BY <1>2 DEF IInv, Typed, SameBooks
<1>5. ReadsJustify'
  BY <1>2 DEF IInv, ReadsJustify
<1>6. ReportsApplied'
  BY ReportsStay DEF IInv
<1>7. QED
  BY <1>3, <1>5, <1>6 DEF IInv

\* No transaction opens, goes on or ends.
LEMMA Aside ==
    ASSUME IInv, SameBooks, NothingNewHandled,
           claimed' \subseteq Event, tasks' \subseteq claimed', UNCHANGED tx
    PROVE  IInv'
<1>1. ReportsApplied'
  BY ReportsStay DEF IInv
<1>2. Typed'
  BY DEF IInv, Typed, SameBooks
<1>3. ReadsJustify'
  BY DEF IInv, ReadsJustify
<1>4. QED
  BY <1>1, <1>2, <1>3 DEF IInv

-----------------------------------------------------------------------------
(* What a commit does to the status of its order: nothing, an end, or some *)
(* stages forward, from the status its transaction read.                   *)

Target(job) == TOPIC_STATUS[job.topic]

StatusStays(job, row, o) ==
    /\ rows'[o].status = rows[o].status /\ told' = told
    /\ job.op # "cancel"
    /\ job.op = "advance" =>
         \/ row.status = "Cancelled"
         \/ Stages!Rank(row.status) >= Stages!Rank(Target(job))

StatusEnds(job, row, o) ==
    /\ job.op = "cancel" /\ Modifiable(row)
    /\ rows'[o].status = "Cancelled"
    /\ told' \in {told, [told EXCEPT ![o] = Append(@, "Cancelled")]}

StatusAdvances(job, row, o) ==
    /\ job.op = "advance" /\ row.status # "Cancelled"
    /\ Stages!Rank(Target(job)) > Stages!Rank(row.status)
    /\ rows'[o].status = Target(job)
    /\ told' = [told EXCEPT ![o] = @ \o SubSeq(Stages!STATUS_SEQUENCE,
                    Stages!Rank(row.status) + 1, Stages!Rank(Target(job)))]

\* A line that is changed is a line.
LEMMA LineChanged ==
    ASSUME NEW units \in Seq(Line), NEW k
    PROVE  /\ \A n \in Nat : [units EXCEPT ![k].quantity = n] \in Seq(Line)
           /\ \A v \in Variants : [units EXCEPT ![k].item = v] \in Seq(Line)
<1>1. CASE k \in DOMAIN units
  <2>1. units[k] \in Line
    BY <1>1
  <2>2. \A n \in Nat : [units[k] EXCEPT !.quantity = n] \in Line
    BY <2>1 DEF Line
  <2>3. \A v \in Variants : [units[k] EXCEPT !.item = v] \in Line
    BY <2>1 DEF Line
  <2>4. QED
    BY <1>1, <2>2, <2>3
<1>2. CASE k \notin DOMAIN units
  <2>1. \A t : [units EXCEPT ![k] = t] = units
    BY <1>2
  <2>2. QED
    BY <2>1
<1>3. QED
  BY <1>1, <1>2

\* The least of some places is one of them.
LEMMA Least ==
    ASSUME NEW S, S \subseteq Nat, S # {}
    PROVE  Min(S) \in S
<1>1. PICK R : R = OpToRel(<, Nat)
  OBVIOUS
<1>2. IsWellFoundedOn(R, Nat)
  BY <1>1, NatLessThanWellFounded
<1>3. PICK x \in S : \A y \in S : ~ (<<y, x>> \in R)
  BY <1>2, WFMin
<1>4. \A y \in S : x =< y
  <2>1. SUFFICES ASSUME NEW y \in S, y < x PROVE FALSE
    OBVIOUS
  <2>2. <<y, x>> \in R
    BY <1>1, <2>1 DEF OpToRel
  <2>3. QED
    BY <1>3, <2>2
<1>5. QED
  BY <1>4 DEF Min

\* The line an edit means is one of the order's.
LEMMA FirstIs ==
    ASSUME NEW xs \in Seq(Line), NEW v \in Variants, On(xs, v) # {}
    PROVE  Quantity(xs, v) \in Nat
<1>1. On(xs, v) \subseteq Nat
  BY DEF On
<1>2. First(xs, v) \in On(xs, v)
  BY <1>1, Least DEF First
<1>3. xs[First(xs, v)] \in Line
  BY <1>2 DEF On
<1>4. QED
  BY <1>3 DEF Quantity, Line

\* The lines written are lines, over whatever lines there are by then.
LEMMA WrittenLinesAre ==
    ASSUME NEW job \in Work, NEW row \in Row, NEW units \in Seq(Line)
    PROVE  WrittenLines(job, row, units) \in Seq(Line)
<1>1. CASE job.op \in Edits
  <2>1. job.line \in Variants /\ job.quantity \in Nat /\ (job.op = "swap" => job.to \in Variants)
    BY <1>1, WorkIs
  <2>2. PICK k : k = First(row.lines, job.line)
    OBVIOUS
  <2>5. CASE job.op = "modify"
    BY <2>1, <2>2, <2>5, LineChanged DEF WrittenLines
  <2>6. CASE job.op = "add" /\ On(row.lines, job.line) # {}
    <3>1. PICK n : n = row.lines[k].quantity + job.quantity
      OBVIOUS
    <3>2. WrittenLines(job, row, units) = [units EXCEPT ![k].quantity = n]
      BY <2>2, <2>6, <3>1 DEF WrittenLines
    <3>3. row.lines \in Seq(Line)
      BY DEF Row
    <3>4. row.lines[k].quantity \in Nat
      BY <2>1, <2>2, <2>6, <3>3, FirstIs DEF Quantity
    <3>5. n \in Nat
      BY <2>1, <3>1, <3>4
    <3>6. QED
      BY <3>2, <3>5, LineChanged
  <2>7. CASE job.op = "add" /\ On(row.lines, job.line) = {}
    <3>1. [item |-> job.line, quantity |-> job.quantity] \in Line
      BY <2>1 DEF Line
    <3>2. QED
      BY <2>7, <3>1 DEF WrittenLines, AddLine
  <2>8. CASE job.op = "swap"
    BY <2>1, <2>2, <2>8, LineChanged DEF WrittenLines
  <2>9. QED
    BY <1>1, <2>5, <2>6, <2>7, <2>8 DEF Edits
<1>2. CASE job.op \notin Edits
  BY <1>2 DEF WrittenLines, Edits
<1>3. QED
  BY <1>1, <1>2

\* A commit writes its own order's row, and the status in one of three ways; unless it
\* leaves it, it had read the order's status, or writes over another.
LEMMA CommitWrites ==
    ASSUME IInv, NEW w \in Workers, tx[w] # Idle, Commit(w)
    PROVE  LET job == tx[w].job
               row == tx[w].row
               o == job.order
           IN  /\ o \in Orders /\ job \in Work /\ row \in Row
               /\ rows' \in [Orders -> Row]
               /\ \A p \in Orders \ {o} : rows'[p] = rows[p]
               /\ \/ StatusStays(job, row, o)
                  \/ /\ StatusEnds(job, row, o) \/ StatusAdvances(job, row, o)
                     /\ row.status = rows[o].status \/ WritesOver(w)
<1>1. PICK job : job = tx[w].job
  OBVIOUS
<1>2. PICK o : o = job.order
  OBVIOUS
<1>3. PICK row : row = tx[w].row
  OBVIOUS
<1>4. job \in Work /\ row \in Row /\ o \in Orders
  BY <1>1, <1>2, <1>3, OpenIs, WorkIs DEF IInv
<1>5. PICK now : now = rows[o].status
  OBVIOUS
<1>6. rows \in [Orders -> Row] /\ told \in [Orders -> Seq(Stages!Statuses)]
  BY DEF IInv, Typed
<1>7. now \in Stages!Statuses /\ row.status \in Stages!Statuses /\ rows[o].lines \in Seq(Line)
  BY <1>4, <1>5, <1>6 DEF Row
<1>8. job.op = "cancel" => Modifiable(row)
  BY <1>1, <1>3 DEF IInv, ReadsJustify, Justified
<1>9. PICK after : after = StatusAfter(job, row, now)
  OBVIOUS
<1>10. PICK units : units = WrittenLines(job, row, rows[o].lines)
  OBVIOUS
<1>11. rows' = [rows EXCEPT ![o] = [status |-> after, lines |-> units]]
  BY <1>1, <1>2, <1>3, <1>5, <1>9, <1>10 DEF Commit
<1>12. told' = [told EXCEPT ![o] = @ \o Pushes(job, row)] /\ tx[w].at = "called"
  BY <1>1, <1>2, <1>3 DEF Commit
<1>13. units \in Seq(Line)
  BY <1>4, <1>7, <1>10, WrittenLinesAre
<1>14. rows'[o].status = after /\ \A p \in Orders \ {o} : rows'[p] = rows[p]
  BY <1>4, <1>6, <1>11
<1>15. ASSUME Pushes(job, row) = <<>> PROVE told' = told
  <2>1. \A t \in Seq(Stages!Statuses) : t \o <<>> = t
    OBVIOUS
  <2>2. told[o] \o <<>> = told[o]
    BY <1>4, <1>6, <2>1
  <2>3. QED
    BY <1>6, <1>12, <1>15, <2>2
<1>16. CASE job.op = "cancel"
  <2>1. after = "Cancelled"
    BY <1>9, <1>16 DEF StatusAfter
  <2>2. Pushes(job, row) \in {<<>>, <<"Cancelled">>}
    BY <1>16 DEF Pushes
  <2>3. row.status = now \/ WritesOver(w)
    BY <1>1, <1>2, <1>3, <1>5, <1>12, <1>16 DEF WritesOver
  <2>4. ASSUME Pushes(job, row) = <<"Cancelled">>
        PROVE  told' = [told EXCEPT ![o] = Append(@, "Cancelled")]
    <3>1. \A t \in Seq(Stages!Statuses) : t \o <<"Cancelled">> = Append(t, "Cancelled")
      BY DEF Stages!Statuses
    <3>2. told[o] \o <<"Cancelled">> = Append(told[o], "Cancelled")
      BY <1>4, <1>6, <3>1
    <3>3. told' = [told EXCEPT ![o] = Append(@, "Cancelled")]
      BY <1>6, <1>12, <2>4, <3>2
    <3>4. QED
      BY <3>3
  <2>5. told' \in {told, [told EXCEPT ![o] = Append(@, "Cancelled")]}
    BY <1>15, <2>2, <2>4
  <2>6. StatusEnds(job, row, o)
    BY <1>8, <1>14, <1>16, <2>1, <2>5 DEF StatusEnds
  <2>7. rows' \in [Orders -> Row]
    BY <1>4, <1>6, <1>11, <1>13, <2>1 DEF Row, Stages!Statuses
  <2>8. QED
    BY <1>1, <1>2, <1>3, <1>4, <1>5, <1>14, <2>3, <2>6, <2>7
<1>17. CASE job.op = "advance"
  <2>1. job.topic \in DOMAIN TOPIC_STATUS
    BY <1>4, <1>17, WorkIs
  <2>2. Pushes(job, row) = Walked(job, row)
    BY <1>17 DEF Pushes
  <2>3. after = IF Walked(job, row) = <<>> THEN now ELSE Target(job)
    BY <1>9, <1>17 DEF StatusAfter, Target
  <2>4. Target(job) \in Stages!Statuses
    BY <2>1, TargetIs DEF Target, Stages!Statuses
  <2>5. rows' \in [Orders -> Row]
    BY <1>4, <1>6, <1>7, <1>11, <1>13, <2>3, <2>4 DEF Row
  <2>6. CASE row.status = "Cancelled"
    <3>1. Walked(job, row) = <<>>
      BY <2>6 DEF Walked
    <3>2. StatusStays(job, row, o)
      BY <1>5, <1>14, <1>15, <1>17, <2>2, <2>3, <2>6, <3>1 DEF StatusStays
    <3>3. QED
      BY <1>1, <1>2, <1>3, <1>4, <1>14, <2>5, <3>2
  <2>7. CASE row.status # "Cancelled"
    <3>1. row.status \in Reached
      BY <1>7, <2>7 DEF Reached, Stages!Statuses
    <3>2. Walked(job, row) = SubSeq(Stages!STATUS_SEQUENCE, Stages!Rank(row.status) + 1,
                                    Stages!Rank(Target(job)))
      BY <2>7 DEF Walked, Target
    <3>3. /\ Stages!Rank(row.status) \in 1..4 /\ Stages!Rank(Target(job)) \in 2..4
          /\ Walked(job, row) = <<>> <=> Stages!Rank(Target(job)) <= Stages!Rank(row.status)
      BY <2>1, <3>1, <3>2, WalkedIs DEF Target
    <3>4. CASE Walked(job, row) = <<>>
      <4>1. Stages!Rank(row.status) >= Stages!Rank(Target(job))
        BY <3>3, <3>4
      <4>2. StatusStays(job, row, o)
        BY <1>5, <1>14, <1>15, <1>17, <2>2, <2>3, <3>4, <4>1 DEF StatusStays
      <4>3. QED
        BY <1>1, <1>2, <1>3, <1>4, <1>14, <2>5, <4>2
    <3>5. CASE Walked(job, row) # <<>>
      <4>1. Stages!Rank(Target(job)) > Stages!Rank(row.status)
        BY <3>3, <3>5
      <4>2. StatusAdvances(job, row, o)
        BY <1>12, <1>14, <1>17, <2>2, <2>3, <2>7, <3>2, <3>5, <4>1 DEF StatusAdvances
      <4>3. row.status = now \/ WritesOver(w)
        BY <1>1, <1>2, <1>3, <1>5, <1>12, <1>17, <3>5 DEF WritesOver
      <4>4. QED
        BY <1>1, <1>2, <1>3, <1>4, <1>5, <1>14, <2>5, <4>2, <4>3
    <3>6. QED
      BY <3>4, <3>5
  <2>8. QED
    BY <2>6, <2>7
<1>18. CASE job.op \notin {"cancel", "advance"}
  <2>1. after = now
    BY <1>9, <1>18 DEF StatusAfter
  <2>2. Pushes(job, row) = <<>>
    BY <1>18 DEF Pushes
  <2>3. StatusStays(job, row, o)
    BY <1>5, <1>14, <1>15, <1>18, <2>1, <2>2 DEF StatusStays
  <2>4. rows' \in [Orders -> Row]
    BY <1>4, <1>6, <1>7, <1>11, <1>13, <2>1 DEF Row
  <2>5. QED
    BY <1>1, <1>2, <1>3, <1>4, <1>14, <2>3, <2>4
<1>19. QED
  BY <1>16, <1>17, <1>18

\* Ranks of the statuses an order may have, as one fact.
RanksKnown ==
    /\ Stages!Rank("Confirmed") = 1 /\ Stages!Rank("Packed") = 2
    /\ Stages!Rank("Shipped") = 3 /\ Stages!Rank("Delivered") = 4

\* Shopify's report e is what the row of its order says, or is overtaken by it.
Applied(e, now) ==
    IF e.topic = "cancelled" THEN now \in {"Cancelled", "Shipped", "Delivered"}
    ELSE now # "Cancelled" => Stages!Rank(now) >= Stages!Rank(TOPIC_STATUS[e.topic])

\* A report that is applied stays so when the status advances or ends.
LEMMA AppliedStays ==
    ASSUME NEW e \in Event, NEW now \in Stages!Statuses, NEW then \in Stages!Statuses,
           Applied(e, now),
           \/ then = now
           \/ then = "Cancelled" /\ now \in MODIFIABLE_STATUSES
           \/ now # "Cancelled" /\ then # "Cancelled" /\ Stages!Rank(then) > Stages!Rank(now)
    PROVE  Applied(e, then)
<1>1. RanksKnown
  BY Ranks DEF RanksKnown
<1>2. CASE e.topic = "cancelled"
  BY <1>1, <1>2 DEF Applied, RanksKnown, Stages!Statuses, MODIFIABLE_STATUSES
<1>3. CASE e.topic # "cancelled"
  <2>1. e.topic \in DOMAIN TOPIC_STATUS
    BY <1>3 DEF Event
  <2>2. PICK target : target = Stages!Rank(TOPIC_STATUS[e.topic])
    OBVIOUS
  <2>3. target \in 2..4
    BY <2>1, <2>2, TargetIs
  <2>4. now # "Cancelled" => Stages!Rank(now) \in 1..4
    BY <1>1 DEF RanksKnown, Stages!Statuses
  <2>5. then # "Cancelled" => Stages!Rank(then) \in 1..4
    BY <1>1 DEF RanksKnown, Stages!Statuses
  <2>6. CASE then = "Cancelled"
    BY <1>3, <2>6 DEF Applied
  <2>7. CASE then # "Cancelled"
    <3>1. now # "Cancelled" /\ Stages!Rank(then) >= Stages!Rank(now)
      BY <2>4, <2>5, <2>7
    <3>2. Stages!Rank(now) >= target
      BY <1>3, <2>2, <3>1 DEF Applied
    <3>3. Stages!Rank(then) >= target
      BY <2>3, <2>4, <2>5, <2>7, <3>1, <3>2
    <3>4. QED
      BY <1>3, <2>2, <3>3 DEF Applied
  <2>8. QED
    BY <2>6, <2>7
<1>4. QED
  BY <1>2, <1>3

\* What a commit that writes over nobody's status leaves it at, compared with before.
LEMMA CommitMonotone ==
    ASSUME IInv, NEW w \in Workers, tx[w] # Idle, Commit(w), NEW p \in Orders,
           ~WritesOver(w) \/ p # tx[w].job.order
    PROVE  /\ rows[p].status \in Stages!Statuses /\ rows'[p].status \in Stages!Statuses
           /\ \/ rows'[p].status = rows[p].status
              \/ rows'[p].status = "Cancelled" /\ rows[p].status \in MODIFIABLE_STATUSES
              \/ /\ rows[p].status # "Cancelled" /\ rows'[p].status # "Cancelled"
                 /\ Stages!Rank(rows'[p].status) > Stages!Rank(rows[p].status)
<1>1. PICK job : job = tx[w].job
  OBVIOUS
<1>2. PICK o : o = job.order
  OBVIOUS
<1>3. PICK row : row = tx[w].row
  OBVIOUS
<1>4. /\ o \in Orders /\ job \in Work /\ rows' \in [Orders -> Row]
      /\ \A q \in Orders \ {o} : rows'[q] = rows[q]
      /\ \/ StatusStays(job, row, o)
         \/ /\ StatusEnds(job, row, o) \/ StatusAdvances(job, row, o)
            /\ row.status = rows[o].status \/ WritesOver(w)
  BY <1>1, <1>2, <1>3, CommitWrites
<1>5. rows \in [Orders -> Row]
  BY DEF IInv, Typed
<1>6. rows[p].status \in Stages!Statuses /\ rows'[p].status \in Stages!Statuses
  BY <1>4, <1>5 DEF Row
<1>7. CASE p # o
  BY <1>4, <1>6, <1>7
<1>8. CASE p = o
  <2>1. CASE StatusStays(job, row, o)
    BY <1>6, <1>8, <2>1 DEF StatusStays
  <2>2. CASE StatusEnds(job, row, o) /\ row.status = rows[o].status
    BY <1>6, <1>8, <2>2 DEF StatusEnds, Modifiable
  <2>3. CASE StatusAdvances(job, row, o) /\ row.status = rows[o].status
    <3>1. job.op = "advance"
      BY <2>3 DEF StatusAdvances
    <3>2. Target(job) # "Cancelled"
      BY <1>4, <3>1, WorkIs, TargetIs DEF Target
    <3>3. QED
      BY <1>6, <1>8, <2>3, <3>2 DEF StatusAdvances
  <2>4. ~WritesOver(w)
    BY <1>1, <1>2, <1>8
  <2>5. QED
    BY <1>4, <2>1, <2>2, <2>3, <2>4
<1>9. QED
  BY <1>7, <1>8

\* A commit leaves the report it was about applied, whatever it writes over: a webhook's
\* transaction opened on a row that was not yet there.
LEMMA CommitApplies ==
    ASSUME IInv, NEW w \in Workers, tx[w] # Idle, Commit(w), tx[w].job.by = "shopify"
    PROVE  LET e == EventOf(tx[w].job)
           IN  e \in Event /\ Applied(e, rows'[e.order].status)
<1>1. PICK job : job = tx[w].job
  OBVIOUS
<1>2. PICK o : o = job.order
  OBVIOUS
<1>3. PICK row : row = tx[w].row
  OBVIOUS
<1>4. /\ o \in Orders /\ job \in Work /\ row \in Row
      /\ StatusStays(job, row, o) \/ StatusEnds(job, row, o) \/ StatusAdvances(job, row, o)
  BY <1>1, <1>2, <1>3, CommitWrites
<1>5. PICK e : e = EventOf(job)
  OBVIOUS
<1>6. e \in Event /\ job = JobOf(e)
  BY <1>1, <1>4, <1>5, WorkIs
<1>7. /\ o = e.order /\ job.topic = e.topic
      /\ job.op = IF e.topic = "cancelled" THEN "cancel" ELSE "advance"
  BY <1>2, <1>6, WebhookWork
<1>8. Justified(job, row)
  BY <1>1, <1>3 DEF IInv, ReadsJustify
<1>9. Applied(e, rows'[o].status)
  <2>1. CASE StatusStays(job, row, o)
    <3>1. job.op = "advance" /\ e.topic # "cancelled"
      BY <1>7, <2>1 DEF StatusStays
    <3>2. Ahead(job, row.status)
      BY <1>1, <1>8, <3>1 DEF Justified
    <3>3. /\ row.status # "Cancelled" /\ Stages!Rank(row.status) < Stages!Rank(Target(job))
          /\ Stages!Rank(row.status) >= Stages!Rank(Target(job))
      BY <2>1, <3>1, <3>2 DEF StatusStays, Ahead, Target
    <3>4. Stages!Rank(row.status) \in 1..4 /\ Stages!Rank(Target(job)) \in 2..4
      <4>1. row.status \in Reached
        BY <1>4, <3>3 DEF Row, Reached, Stages!Statuses
      <4>2. QED
        BY <1>4, <3>1, <4>1, WorkIs, WalkedIs DEF Target
    <3>5. QED
      BY <3>3, <3>4
  <2>2. CASE StatusEnds(job, row, o)
    BY <1>7, <2>2 DEF StatusEnds, Applied
  <2>3. CASE StatusAdvances(job, row, o)
    <3>1. e.topic # "cancelled" /\ rows'[o].status = TOPIC_STATUS[e.topic]
      BY <1>7, <2>3 DEF StatusAdvances, Target
    <3>2. Stages!Rank(TOPIC_STATUS[e.topic]) \in 2..4
      BY <1>6, <3>1, TargetIs DEF Event
    <3>3. QED
      BY <3>1, <3>2 DEF Applied
  <2>4. QED
    BY <1>4, <2>1, <2>2, <2>3
<1>10. QED
  BY <1>1, <1>5, <1>6, <1>7, <1>9

LEMMA CommitKeeps ==
    ASSUME IInv, NEW w \in Workers, Commit(w)
    PROVE  IInv'
<1>1. tx[w] # Idle
  BY DEF Commit, Idle
<1>2. PICK job : job = tx[w].job
  OBVIOUS
<1>3. PICK o : o = job.order
  OBVIOUS
<1>4. PICK row : row = tx[w].row
  OBVIOUS
<1>5. /\ o \in Orders /\ job \in Work /\ row \in Row /\ rows' \in [Orders -> Row]
      /\ StatusStays(job, row, o) \/ StatusEnds(job, row, o) \/ StatusAdvances(job, row, o)
  BY <1>1, <1>2, <1>3, <1>4, CommitWrites
<1>6. tx \in [Workers -> {Idle} \cup [at : {"read", "called"}, job : Work, row : Row]]
  BY DEF IInv, Typed
<1>7. tx' = [tx EXCEPT ![w] = Idle]
  BY DEF Commit, Ended
<1>8. /\ UNCHANGED <<claimed, failed>>
      /\ tasks' = IF job.by = "shopify" THEN tasks \ {EventOf(job)} ELSE tasks
      /\ overtaken' = IF WritesOver(w) THEN overtaken \cup {o} ELSE overtaken
  BY <1>2, <1>3 DEF Commit
<1>9. told \in [Orders -> Seq(Stages!Statuses)]
  BY DEF IInv, Typed
<1>10. told' \in [Orders -> Seq(Stages!Statuses)]
  <2>1. CASE StatusStays(job, row, o)
    BY <1>9, <2>1 DEF StatusStays
  <2>2. CASE StatusEnds(job, row, o)
    <3>1. \A t \in Seq(Stages!Statuses) : Append(t, "Cancelled") \in Seq(Stages!Statuses)
      BY DEF Stages!Statuses
    <3>2. [told EXCEPT ![o] = Append(@, "Cancelled")] \in [Orders -> Seq(Stages!Statuses)]
      BY <1>5, <1>9, <3>1
    <3>3. QED
      BY <1>9, <2>2, <3>2 DEF StatusEnds
  <2>3. CASE StatusAdvances(job, row, o)
    <3>1. job.topic \in DOMAIN TOPIC_STATUS
      BY <1>5, <2>3, WorkIs DEF StatusAdvances
    <3>2. row.status \in Reached
      BY <1>5, <2>3 DEF StatusAdvances, Row, Reached, Stages!Statuses
    <3>3. PICK more : more = SubSeq(Stages!STATUS_SEQUENCE, Stages!Rank(row.status) + 1,
                                    Stages!Rank(Target(job)))
      OBVIOUS
    <3>4. more \in Seq(Stages!Statuses)
      BY <3>1, <3>2, <3>3, WalkedIs DEF Target
    <3>5. told' = [told EXCEPT ![o] = @ \o more]
      BY <2>3, <3>3 DEF StatusAdvances
    <3>6. QED
      BY <1>5, <1>9, <3>4, <3>5
  <2>4. QED
    BY <1>5, <2>1, <2>2, <2>3
<1>11. Typed'
  <2>1. tx' \in [Workers -> {Idle} \cup [at : {"read", "called"}, job : Work, row : Row]]
    BY <1>6, <1>7
  <2>2. claimed' \subseteq Event /\ tasks' \subseteq claimed'
    BY <1>8 DEF IInv, Typed
  <2>3. QED
    BY <1>5, <1>10, <2>1, <2>2 DEF Typed
<1>12. ReadsJustify'
  BY <1>6, <1>7 DEF IInv, ReadsJustify
<1>13. ReportsApplied'
  <2>1. SUFFICES ASSUME NEW e \in claimed' \ (tasks' \cup failed'), e.order \notin overtaken'
                 PROVE  Applied(e, rows'[e.order].status)
    BY DEF ReportsApplied, Applied
  <2>2. e \in Event /\ e.order \in Orders
    BY <1>8 DEF IInv, Typed, Event
  <2>3. CASE job.by = "shopify" /\ e = EventOf(job)
    BY <1>1, <1>2, <2>3, CommitApplies
  <2>4. CASE ~(job.by = "shopify" /\ e = EventOf(job))
    <3>1. e \in claimed \ (tasks \cup failed) /\ e.order \notin overtaken
      BY <1>8, <2>1, <2>4
    <3>2. Applied(e, rows[e.order].status)
      BY <3>1 DEF IInv, ReportsApplied, Applied
    <3>3. PICK now, then : now = rows[e.order].status /\ then = rows'[e.order].status
      OBVIOUS
    <3>4. ~WritesOver(w) \/ e.order # tx[w].job.order
      BY <1>2, <1>3, <1>8, <2>1
    <3>5. /\ now \in Stages!Statuses /\ then \in Stages!Statuses
          /\ \/ then = now
             \/ then = "Cancelled" /\ now \in MODIFIABLE_STATUSES
             \/ now # "Cancelled" /\ then # "Cancelled" /\ Stages!Rank(then) > Stages!Rank(now)
      BY <1>1, <2>2, <3>3, <3>4, CommitMonotone
    <3>6. QED
      BY <2>2, <3>2, <3>3, <3>5, AppliedStays
  <2>5. QED
    BY <2>3, <2>4
<1>14. QED
  BY <1>11, <1>12, <1>13 DEF IInv

-----------------------------------------------------------------------------
(* Every step keeps the invariant.                                         *)

LEMMA BeginKeeps ==
    ASSUME IInv, NEW w \in Workers, NEW r \in Requests, Begin(w, r)
    PROVE  IInv'
<1>1. Opened(w, r, "read") /\ (r.op = "cancel" => Modifiable(rows[r.order]))
  BY DEF Begin, Accepted
<1>2. SameBooks /\ UNCHANGED <<claimed, tasks, failed>>
  BY DEF Begin, SameBooks, dbVars, outVars, hookVars
<1>3. r \in Work
  BY DEF Work, Jobs
<1>4. r.by # "shopify"
  BY RequestsAssumption
<1>5. Justified(r, rows[r.order])
  BY <1>1, <1>4 DEF Justified
<1>6. QED
  BY <1>1, <1>2, <1>3, <1>5, Opens

LEMMA MarkDeliveredKeeps ==
    ASSUME IInv, NEW w \in Workers, NEW r \in Requests, MarkDelivered(w, r)
    PROVE  IInv'
<1>1. PICK job : job = [by |-> "staff", op |-> "advance", order |-> r.order, topic |-> "delivered"]
  OBVIOUS
<1>2. job \in Work /\ job.op = "advance" /\ job.by = "staff"
  BY <1>1, RequestsAssumption DEF Work, Pressed
<1>3. SameBooks /\ UNCHANGED <<claimed, tasks, failed>>
  BY DEF MarkDelivered, SameBooks, dbVars, outVars, hookVars
<1>4. Opened(w, job, "called") \/ UNCHANGED tx
  BY <1>1 DEF MarkDelivered
<1>5. CASE Opened(w, job, "called")
  <2>1. Justified(job, rows[job.order])
    BY <1>2 DEF Justified
  <2>2. QED
    BY <1>2, <1>3, <1>5, <2>1, Opens
<1>6. CASE UNCHANGED tx
  BY <1>3, <1>6, Aside DEF IInv, Typed, NothingNewHandled
<1>7. QED
  BY <1>4, <1>5, <1>6

\* A webhook that finds nothing to do was applied when it was looked at.
LEMMA HandleKeeps ==
    ASSUME IInv, NEW w \in Workers, NEW e \in Reports, Handle(w, e)
    PROVE  IInv'
<1>1. e \in Event /\ e.order \in Orders
  BY BoundsAssumption DEF Event
<1>2. PICK job : job = JobOf(e)
  OBVIOUS
<1>3. /\ job \in Work /\ job.order = e.order /\ job.topic = e.topic
      /\ job.op = IF e.topic = "cancelled" THEN "cancel" ELSE "advance"
  BY <1>1, <1>2, WebhookWork
<1>4. SameBooks /\ UNCHANGED <<claimed, failed>>
  BY DEF Handle, SameBooks, dbVars, outVars
<1>5. PICK now : now = rows[e.order].status
  OBVIOUS
<1>6. now \in Stages!Statuses
  BY <1>1, <1>5 DEF IInv, Typed, Row
<1>7. PICK nothing : nothing = (IF now = "Cancelled" THEN TRUE
            ELSE IF job.op = "cancel" THEN ~Modifiable(rows[e.order])
            ELSE Stages!Rank(now) >= Stages!Rank(TOPIC_STATUS[e.topic]))
  OBVIOUS
<1>8. \/ nothing /\ tasks' = tasks \ {e} /\ UNCHANGED tx
      \/ ~nothing /\ Opened(w, job, "called") /\ UNCHANGED tasks
  BY <1>2, <1>5, <1>7 DEF Handle
<1>9. CASE nothing /\ tasks' = tasks \ {e} /\ UNCHANGED tx
  <2>1. Applied(e, now)
    BY <1>3, <1>5, <1>6, <1>7, <1>9 DEF Applied, Modifiable, MODIFIABLE_STATUSES, Stages!Statuses
  <2>2. rows' = rows /\ overtaken' = overtaken
    BY <1>4 DEF SameBooks
  <2>3. ReportsApplied'
    BY <1>4, <1>5, <1>9, <2>1, <2>2 DEF IInv, ReportsApplied, Applied
  <2>4. Typed'
    BY <1>4, <1>9 DEF IInv, Typed, SameBooks
  <2>5. ReadsJustify'
    BY <1>9 DEF IInv, ReadsJustify
  <2>6. QED
    BY <2>3, <2>4, <2>5 DEF IInv
<1>10. CASE ~nothing /\ Opened(w, job, "called") /\ UNCHANGED tasks
  <2>1. job.op = "cancel" => Modifiable(rows[job.order])
    BY <1>3, <1>7, <1>10
  <2>2. job.op = "advance" => Ahead(job, rows[job.order].status)
    <3>1. SUFFICES ASSUME job.op = "advance" PROVE Ahead(job, now)
      BY <1>3, <1>5
    <3>2. e.topic \in DOMAIN TOPIC_STATUS
      BY <1>1, <1>3, <3>1 DEF Event
    <3>3. now # "Cancelled" /\ ~(Stages!Rank(now) >= Stages!Rank(TOPIC_STATUS[e.topic]))
      BY <1>3, <1>7, <1>10, <3>1
    <3>4. now \in Reached
      BY <1>6, <3>3 DEF Reached, Stages!Statuses
    <3>5. Stages!Rank(now) \in 1..4 /\ Stages!Rank(TOPIC_STATUS[e.topic]) \in 2..4
      BY <3>2, <3>4, WalkedIs
    <3>6. QED
      BY <1>3, <3>3, <3>5 DEF Ahead
  <2>3. Justified(job, rows[job.order])
    BY <2>1, <2>2 DEF Justified
  <2>4. QED
    BY <1>3, <1>4, <1>10, <2>3, Opens
<1>11. QED
  BY <1>8, <1>9, <1>10

LEMMA EndsKeep ==
    ASSUME IInv, NEW w \in Workers,
           \/ EditLands(w) \/ EditRefused(w) \/ CancelCalled(w)
           \/ WriteFails(w) \/ CommitFails(w)
    PROVE  IInv'
<1>1. tx[w] # Idle
  <2>1. tx[w].at = "read" \/ tx[w].at = "called"
    BY DEF EditLands, EditRefused, CancelCalled, WriteFails, CommitFails
  <2>2. QED
    BY <2>1 DEF Idle
<1>2. SameBooks /\ claimed' = claimed
  BY DEF EditLands, EditRefused, CancelCalled, WriteFails, CommitFails, SameBooks,
         dbVars, outVars, hookVars
<1>3. Ended(w) \/ tx' = [tx EXCEPT ![w].at = "called"]
  BY DEF EditLands, EditRefused, CancelCalled, WriteFails, CommitFails
<1>4. tasks' \subseteq tasks /\ NothingNewHandled
  <2>1. CASE CommitFails(w)
    BY <2>1 DEF CommitFails, NothingNewHandled
  <2>2. CASE EditLands(w) \/ EditRefused(w) \/ CancelCalled(w) \/ WriteFails(w)
    <3>1. UNCHANGED hookVars
      BY <2>2 DEF EditLands, EditRefused, CancelCalled, WriteFails
    <3>2. QED
      BY <3>1 DEF NothingNewHandled, hookVars
  <2>3. QED
    BY <2>1, <2>2
<1>5. QED
  BY <1>1, <1>2, <1>3, <1>4, GoesOn DEF IInv, Typed

\* What happens away from the transactions.
LEMMA AsideKeeps ==
    ASSUME IInv,
           \/ \E o \in Orders : ShopMoves(o) \/ ShopCancels(o)
           \/ \E e \in Reports : Inbound(e) \/ TaskLost(e)
           \/ \E r \in Requests : Resolve(r)
    PROVE  IInv'
<1>1. SameBooks /\ UNCHANGED tx
  BY DEF ShopMoves, ShopCancels, Inbound, TaskLost, Resolve, SameBooks, dbVars, outVars
<1>2. claimed' \subseteq Event /\ tasks' \subseteq claimed' /\ NothingNewHandled
  <2>1. CASE \E e \in Reports : Inbound(e)
    BY <2>1, BoundsAssumption DEF Inbound, IInv, Typed, NothingNewHandled
  <2>2. CASE \E e \in Reports : TaskLost(e)
    BY <2>2 DEF TaskLost, IInv, Typed, NothingNewHandled
  <2>3. CASE UNCHANGED hookVars
    BY <2>3 DEF hookVars, IInv, Typed, NothingNewHandled
  <2>4. QED
    BY <2>1, <2>2, <2>3 DEF ShopMoves, ShopCancels, Resolve
<1>3. QED
  BY <1>1, <1>2, Aside

LEMMA Start ==
    ASSUME Init
    PROVE  IInv
<1>1. Typed
  <2>1. rows \in [Orders -> Row]
    BY CountsAssumption DEF Init, Row, Stages!Statuses
  <2>2. told \in [Orders -> Seq(Stages!Statuses)]
    BY DEF Init
  <2>3. QED
    BY <2>1, <2>2 DEF Init, Typed
<1>2. \A w \in Workers : tx[w] = Idle
  BY DEF Init
<1>3. ReadsJustify
  BY <1>2 DEF ReadsJustify
<1>4. ReportsApplied
  BY DEF Init, ReportsApplied
<1>5. QED
  BY <1>1, <1>3, <1>4 DEF IInv

LEMMA StepKeeps ==
    ASSUME IInv, [Next]_vars
    PROVE  IInv'
<1>1. CASE UNCHANGED vars
  <2>1. SameBooks /\ UNCHANGED <<tx, claimed, tasks, failed>>
    BY <1>1 DEF vars, SameBooks
  <2>2. QED
    BY <2>1, Aside DEF IInv, Typed, NothingNewHandled
<1>2. CASE Next
  BY <1>2, AsideKeeps, BeginKeeps, MarkDeliveredKeeps, HandleKeeps, EndsKeep, CommitKeeps DEF Next
<1>3. QED
  BY <1>1, <1>2

\* However transactions of one order overlap: whoever writes a status read a row that
\* justified it, and what was reported is on record.
THEOREM Invariant == Spec => []IInv
<1>1. IInv /\ [Next]_vars => IInv'
  BY StepKeeps
<1>2. Init => IInv
  BY Start
<1>3. QED
  BY <1>1, <1>2, PTL DEF Spec

\* What Shopify reported and was not lost is on record once it has been handled
\* (webhooks.py handle_topic and orders.py advance_to), in whatever order and
\* however often the webhooks arrived and whatever they overlapped: a stage is reached,
\* and a cancelled order is cancelled unless it had shipped, but for an order whose
\* status one transaction wrote over another's.
THEOREM ReportsAreApplied == Spec => []ReportsApplied
<1>1. IInv => ReportsApplied
  BY DEF IInv
<1>2. QED
  BY <1>1, Invariant, PTL

-----------------------------------------------------------------------------
(* Statuses move as OrderStages says.                                      *)

LEMMA CommitMoves ==
    ASSUME IInv, NEW w \in Workers, Commit(w), NEW p \in Orders
    PROVE  OrderMoves(p)
<1>1. tx[w] # Idle
  BY DEF Commit, Idle
<1>2. PICK job : job = tx[w].job
  OBVIOUS
<1>3. PICK o : o = job.order
  OBVIOUS
<1>4. PICK row : row = tx[w].row
  OBVIOUS
<1>5. /\ o \in Orders /\ job \in Work /\ row \in Row /\ rows' \in [Orders -> Row]
      /\ \A q \in Orders \ {o} : rows'[q] = rows[q]
      /\ \/ StatusStays(job, row, o)
         \/ /\ StatusEnds(job, row, o) \/ StatusAdvances(job, row, o)
            /\ row.status = rows[o].status \/ WritesOver(w)
  BY <1>1, <1>2, <1>3, <1>4, CommitWrites
<1>6. /\ told \in [Orders -> Seq(Stages!Statuses)]
      /\ \A q \in Orders : status[q] = rows[q].status /\ status'[q] = rows'[q].status
  BY DEF IInv, Typed, status
<1>7. CASE p # o
  <2>1. told'[p] = told[p]
    BY <1>5, <1>6, <1>7 DEF StatusStays, StatusEnds, StatusAdvances
  <2>2. QED
    BY <1>5, <1>6, <1>7, <2>1 DEF OrderMoves, Stages!Stays
<1>8. CASE p = o
  <2>1. CASE StatusStays(job, row, o)
    BY <1>5, <1>6, <1>8, <2>1 DEF StatusStays, OrderMoves, Stages!Stays
  <2>2. ASSUME StatusEnds(job, row, o) PROVE Stages!Cancels(o, row.status)
    <3>1. row.status \in {"Confirmed", "Packed"}
      BY <2>2 DEF StatusEnds, Modifiable, MODIFIABLE_STATUSES
    <3>2. status'[o] = "Cancelled" /\ told'[o] \in {told[o], Append(told[o], "Cancelled")}
      BY <1>5, <1>6, <2>2 DEF StatusEnds
    <3>3. QED
      BY <3>1, <3>2 DEF Stages!Cancels
  <2>3. ASSUME StatusAdvances(job, row, o) PROVE Stages!Advances(o, row.status)
    <3>1. job.topic \in DOMAIN TOPIC_STATUS
      BY <1>5, <2>3, WorkIs DEF StatusAdvances
    <3>2. PICK j : j = Stages!Rank(Target(job))
      OBVIOUS
    <3>3. j \in DOMAIN Stages!STATUS_SEQUENCE /\ Stages!STATUS_SEQUENCE[j] = Target(job)
      BY <3>1, <3>2, TargetIs DEF Target, Stages!STATUS_SEQUENCE
    <3>4. PICK more : more = SubSeq(Stages!STATUS_SEQUENCE, Stages!Rank(row.status) + 1, j)
      OBVIOUS
    <3>5. told' = [told EXCEPT ![o] = @ \o more]
      BY <2>3, <3>2, <3>4 DEF StatusAdvances
    <3>6. told'[o] = told[o] \o more
      BY <1>5, <1>6, <3>5
    <3>7. row.status # "Cancelled" /\ j > Stages!Rank(row.status) /\ status'[o] = Target(job)
      BY <1>5, <1>6, <2>3, <3>2 DEF StatusAdvances
    <3>8. QED
      BY <3>3, <3>4, <3>6, <3>7 DEF Stages!Advances
  <2>4. StatusEnds(job, row, o) => Stages!Cancels(o, row.status)
    BY <2>2
  <2>5. StatusAdvances(job, row, o) => Stages!Advances(o, row.status)
    BY <2>3
  <2>6. CASE Stages!Moves(o, row.status) /\ (row.status = rows[o].status \/ WritesOver(w))
    <3>1. CASE row.status = rows[o].status
      BY <1>5, <1>6, <1>8, <2>6, <3>1 DEF OrderMoves
    <3>2. CASE WritesOver(w)
      BY <1>2, <1>3, <1>4, <1>8, <2>6, <3>2 DEF OrderMoves
    <3>3. QED
      BY <2>6, <3>1, <3>2
  <2>7. QED
    BY <1>5, <2>1, <2>4, <2>5, <2>6 DEF Stages!Moves
<1>9. QED
  BY <1>7, <1>8

\* Only a commit writes a status or sends a push.
LEMMA OthersStandStill ==
    ASSUME [Next]_vars, \A w \in Workers : ~Commit(w)
    PROVE  UNCHANGED <<rows, told>>
<1>1. CASE UNCHANGED vars
  BY <1>1 DEF vars
<1>2. CASE \E o \in Orders : ShopMoves(o) \/ ShopCancels(o)
  BY <1>2 DEF ShopMoves, ShopCancels, dbVars, outVars
<1>3. CASE \E e \in Reports : Inbound(e) \/ TaskLost(e)
  BY <1>3 DEF Inbound, TaskLost, dbVars, outVars
<1>4. CASE \E r \in Requests : Resolve(r)
  BY <1>4 DEF Resolve, dbVars, outVars
<1>5. ASSUME NEW w \in Workers,
             \/ \E r \in Requests : Begin(w, r) \/ MarkDelivered(w, r)
             \/ \E e \in Reports : Handle(w, e)
             \/ EditLands(w) \/ EditRefused(w) \/ CancelCalled(w)
             \/ WriteFails(w) \/ CommitFails(w)
      PROVE  UNCHANGED <<rows, told>>
  BY <1>5 DEF Begin, MarkDelivered, Handle, EditLands, EditRefused, CancelCalled,
              WriteFails, CommitFails, dbVars, outVars
<1>6. QED
  BY <1>1, <1>2, <1>3, <1>4, <1>5 DEF Next

LEMMA StepMoves ==
    ASSUME IInv, [Next]_vars, NEW p \in Orders
    PROVE  OrderMoves(p)
<1>1. CASE \E w \in Workers : Commit(w)
  BY <1>1, CommitMoves
<1>2. CASE \A w \in Workers : ~Commit(w)
  <2>1. UNCHANGED <<rows, told>>
    BY <1>2, OthersStandStill
  <2>2. status'[p] = status[p] /\ told'[p] = told[p]
    BY <2>1 DEF status
  <2>3. QED
    BY <2>2 DEF OrderMoves, Stages!Stays
<1>3. QED
  BY <1>1, <1>2

\* "Statuses only ever move forward, one stage at a time" (webhooks.py): each transaction
\* (orders.py advance_status, cancel) moves the status it read, and tells the customer of
\* it, as OrderStages says; and it is the status the order has, unless another
\* transaction committed one between the read and the write.
THEOREM StatusesMove == Spec => StatusesMoveForward
<1>1. IInv /\ [Next]_vars => [\A o \in Orders : OrderMoves(o)]_vars
  BY StepMoves
<1>2. QED
  BY <1>1, Invariant, PTL DEF Spec, StatusesMoveForward

-----------------------------------------------------------------------------
(* Lines of an order that has each item once.                              *)

Once(xs) == \A v \in Variants : \A i, j \in On(xs, v) : i = j

InIt(xs, v) == IF On(xs, v) = {} THEN 0 ELSE Quantity(xs, v)

\* The same items, as many of each, and each on one line.
Same(xs, ys) == Once(xs) /\ Once(ys) /\ \A v \in Variants : InIt(xs, v) = InIt(ys, v)

LEMMA OnlyOne ==
    ASSUME NEW xs \in Seq(Line), Once(xs), NEW v \in Variants, NEW i \in On(xs, v)
    PROVE  /\ i \in DOMAIN xs /\ xs[i] \in Line /\ xs[i].item = v
           /\ xs[i].quantity \in Nat /\ xs[i].quantity > 0
           /\ On(xs, v) = {i} /\ First(xs, v) = i
           /\ InIt(xs, v) = xs[i].quantity /\ Quantity(xs, v) = xs[i].quantity
<1>1. i \in DOMAIN xs /\ xs[i].item = v /\ xs[i].quantity > 0
  BY DEF On
<1>2. xs[i] \in Line /\ i \in Int
  BY <1>1
<1>3. xs[i].quantity \in Nat
  BY <1>2 DEF Line
<1>4. On(xs, v) = {i}
  BY DEF Once
<1>5. First(xs, v) = i
  BY <1>2, <1>4 DEF First, Min
<1>6. QED
  BY <1>1, <1>2, <1>3, <1>4, <1>5 DEF InIt, Quantity

LEMMA InItIs ==
    ASSUME NEW xs \in Seq(Line), Once(xs), NEW v \in Variants
    PROVE  InIt(xs, v) \in Nat /\ (On(xs, v) = {} <=> InIt(xs, v) = 0)
<1>1. CASE On(xs, v) = {}
  BY <1>1 DEF InIt
<1>2. CASE On(xs, v) # {}
  <2>1. PICK i : i \in On(xs, v)
    BY <1>2
  <2>2. InIt(xs, v) = xs[i].quantity /\ xs[i].quantity \in Nat /\ xs[i].quantity > 0
    BY <2>1, OnlyOne
  <2>3. QED
    BY <1>2, <2>2
<1>3. QED
  BY <1>1, <1>2

\* Units are counted line by line.
LEMMA UnitsAre ==
    ASSUME NEW xs \in Seq(Line), Once(xs), NEW v \in Variants
    PROVE  Units(xs)[v] = InIt(xs, v)
<1>1. CASE On(xs, v) = {}
  <2>1. UNION {{i} \X (1 .. xs[i].quantity) : i \in On(xs, v)} = {}
    BY <1>1
  <2>2. QED
    BY <1>1, <2>1, FS_EmptySet DEF Units, InIt
<1>2. CASE On(xs, v) # {}
  <2>1. PICK k : k \in On(xs, v)
    BY <1>2
  <2>2. PICK n : n = xs[k].quantity
    OBVIOUS
  <2>3. On(xs, v) = {k} /\ n \in Nat /\ InIt(xs, v) = n
    BY <2>1, <2>2, OnlyOne
  <2>4. UNION {{i} \X (1 .. xs[i].quantity) : i \in On(xs, v)} = {k} \X (1 .. n)
    BY <2>2, <2>3
  <2>5. IsFiniteSet({k}) /\ Cardinality({k}) = 1
    BY FS_Singleton
  <2>6. IsFiniteSet(1 .. n) /\ Cardinality(1 .. n) = n
    BY <2>3, FS_Interval
  <2>7. Cardinality({k} \X (1 .. n)) = 1 * n
    BY <2>5, <2>6, FS_Product
  <2>8. Cardinality({k} \X (1 .. n)) = n
    BY <2>3, <2>7
  <2>9. Units(xs)[v] = Cardinality(UNION {{i} \X (1 .. xs[i].quantity) : i \in On(xs, v)})
    BY DEF Units
  <2>10. QED
    BY <2>3, <2>4, <2>8, <2>9
<1>3. QED
  BY <1>1, <1>2

\* A line of an item there is is set: nothing else changes.
LEMMA LineIsSet ==
    ASSUME NEW xs \in Seq(Line), Once(xs), NEW v \in Variants, NEW n \in Nat, On(xs, v) # {},
           NEW ys, ys = SetLine(xs, v, n)
    PROVE  /\ ys \in Seq(Line) /\ Once(ys)
           /\ InIt(ys, v) = n
           /\ \A u \in Variants \ {v} : InIt(ys, u) = InIt(xs, u)
<1>1. PICK i : i \in On(xs, v)
  OBVIOUS
<1>2. /\ i \in DOMAIN xs /\ xs[i] \in Line /\ xs[i].item = v
      /\ On(xs, v) = {i} /\ First(xs, v) = i
  BY <1>1, OnlyOne
<1>3. PICK t : t = [xs[i] EXCEPT !.quantity = n]
  OBVIOUS
<1>4. t \in Line /\ t.item = v /\ t.quantity = n
  BY <1>2, <1>3 DEF Line
<1>5. ys = [xs EXCEPT ![i] = t]
  BY <1>2, <1>3 DEF SetLine
<1>6. /\ ys \in Seq(Line) /\ DOMAIN ys = DOMAIN xs /\ ys[i] = t
      /\ \A j \in DOMAIN xs \ {i} : ys[j] = xs[j]
  BY <1>2, <1>4, <1>5
<1>7. ASSUME NEW u \in Variants \ {v}
      PROVE  On(ys, u) = On(xs, u) /\ i \notin On(xs, u)
  BY <1>2, <1>4, <1>6, <1>7 DEF On
<1>8. On(ys, v) = IF n > 0 THEN {i} ELSE {}
  <2>1. \A j \in On(ys, v) : j = i
    <3>1. SUFFICES ASSUME NEW j \in On(ys, v), j # i PROVE FALSE
      OBVIOUS
    <3>2. j \in On(xs, v)
      BY <1>6, <3>1 DEF On
    <3>3. QED
      BY <1>2, <3>1, <3>2
  <2>2. i \in On(ys, v) <=> n > 0
    BY <1>2, <1>4, <1>6 DEF On
  <2>3. QED
    BY <2>1, <2>2
<1>9. Once(ys)
  <2>1. SUFFICES ASSUME NEW u \in Variants, NEW j \in On(ys, u), NEW k \in On(ys, u) PROVE j = k
    BY DEF Once
  <2>2. CASE u = v
    BY <1>8, <2>1, <2>2
  <2>3. CASE u # v
    BY <1>7, <2>1, <2>3 DEF Once
  <2>4. QED
    BY <2>2, <2>3
<1>10. InIt(ys, v) = n
  <2>1. CASE n > 0
    <3>1. i \in On(ys, v)
      BY <1>8, <2>1
    <3>2. InIt(ys, v) = ys[i].quantity
      BY <1>6, <1>9, <3>1, OnlyOne
    <3>3. QED
      BY <1>4, <1>6, <3>2
  <2>2. CASE ~(n > 0)
    BY <1>8, <2>2 DEF InIt
  <2>3. QED
    BY <2>1, <2>2
<1>11. ASSUME NEW u \in Variants \ {v} PROVE InIt(ys, u) = InIt(xs, u)
  <2>1. On(ys, u) = On(xs, u) /\ i \notin On(xs, u)
    BY <1>7
  <2>2. CASE On(xs, u) = {}
    BY <2>1, <2>2 DEF InIt
  <2>3. CASE On(xs, u) # {}
    <3>1. PICK k : k \in On(xs, u)
      BY <2>3
    <3>2. InIt(xs, u) = xs[k].quantity /\ k \in DOMAIN xs
      BY <3>1, OnlyOne
    <3>3. InIt(ys, u) = ys[k].quantity
      BY <1>6, <1>9, <2>1, <3>1, OnlyOne
    <3>4. k # i
      BY <2>1, <3>1
    <3>5. QED
      BY <1>6, <3>2, <3>3, <3>4
  <2>4. QED
    BY <2>2, <2>3
<1>12. QED
  BY <1>6, <1>9, <1>10, <1>11

\* A line of an item there is not is added at the end.
LEMMA LineIsAdded ==
    ASSUME NEW xs \in Seq(Line), Once(xs), NEW v \in Variants, NEW n \in Nat, On(xs, v) = {},
           NEW ys, ys = AddLine(xs, v, n)
    PROVE  /\ ys \in Seq(Line) /\ Once(ys)
           /\ InIt(ys, v) = n
           /\ \A u \in Variants \ {v} : InIt(ys, u) = InIt(xs, u)
<1>1. PICK t : t = [item |-> v, quantity |-> n]
  OBVIOUS
<1>2. t \in Line /\ t.item = v /\ t.quantity = n
  BY <1>1 DEF Line
<1>3. PICK i : i = Len(xs) + 1
  OBVIOUS
<1>4. ys = Append(xs, t)
  BY <1>1 DEF AddLine
<1>5. /\ ys \in Seq(Line) /\ DOMAIN ys = DOMAIN xs \cup {i} /\ ys[i] = t /\ i \notin DOMAIN xs
      /\ \A j \in DOMAIN xs : ys[j] = xs[j]
  BY <1>2, <1>3, <1>4
<1>6. ASSUME NEW u \in Variants \ {v}
      PROVE  On(ys, u) = On(xs, u)
  BY <1>2, <1>5, <1>6 DEF On
<1>7. On(ys, v) = IF n > 0 THEN {i} ELSE {}
  <2>1. \A j \in On(ys, v) : j = i
    <3>1. SUFFICES ASSUME NEW j \in On(ys, v), j # i PROVE FALSE
      OBVIOUS
    <3>2. j \in On(xs, v)
      BY <1>5, <3>1 DEF On
    <3>3. QED
      BY <3>2
  <2>2. i \in On(ys, v) <=> n > 0
    BY <1>2, <1>5 DEF On
  <2>3. QED
    BY <2>1, <2>2
<1>8. Once(ys)
  <2>1. SUFFICES ASSUME NEW u \in Variants, NEW j \in On(ys, u), NEW k \in On(ys, u) PROVE j = k
    BY DEF Once
  <2>2. CASE u = v
    BY <1>7, <2>1, <2>2
  <2>3. CASE u # v
    BY <1>6, <2>1, <2>3 DEF Once
  <2>4. QED
    BY <2>2, <2>3
<1>9. InIt(ys, v) = n
  <2>1. CASE n > 0
    <3>1. i \in On(ys, v)
      BY <1>7, <2>1
    <3>2. InIt(ys, v) = ys[i].quantity
      BY <1>5, <1>8, <3>1, OnlyOne
    <3>3. QED
      BY <1>2, <1>5, <3>2
  <2>2. CASE ~(n > 0)
    BY <1>7, <2>2 DEF InIt
  <2>3. QED
    BY <2>1, <2>2
<1>10. ASSUME NEW u \in Variants \ {v} PROVE InIt(ys, u) = InIt(xs, u)
  <2>1. On(ys, u) = On(xs, u)
    BY <1>6
  <2>2. CASE On(xs, u) = {}
    BY <2>1, <2>2 DEF InIt
  <2>3. CASE On(xs, u) # {}
    <3>1. PICK k : k \in On(xs, u)
      BY <2>3
    <3>2. InIt(xs, u) = xs[k].quantity /\ k \in DOMAIN xs
      BY <3>1, OnlyOne
    <3>3. InIt(ys, u) = ys[k].quantity
      BY <1>5, <1>8, <2>1, <3>1, OnlyOne
    <3>4. QED
      BY <1>5, <3>2, <3>3
  <2>4. QED
    BY <2>2, <2>3
<1>11. QED
  BY <1>5, <1>8, <1>9, <1>10

Turned(xs, k, v) == [xs EXCEPT ![k].item = v]

\* A line of one item becomes one of an item there is not.
LEMMA LineIsTurned ==
    ASSUME NEW xs \in Seq(Line), Once(xs), NEW v \in Variants, On(xs, v) # {},
           NEW w \in Variants \ {v}, On(xs, w) = {},
           NEW n, n = First(xs, v), NEW ys, ys = Turned(xs, n, w)
    PROVE  /\ ys \in Seq(Line) /\ Once(ys)
           /\ InIt(ys, w) = InIt(xs, v) /\ InIt(ys, v) = 0
           /\ \A u \in Variants \ {v, w} : InIt(ys, u) = InIt(xs, u)
<1>1. PICK i : i \in On(xs, v)
  OBVIOUS
<1>2. /\ i \in DOMAIN xs /\ xs[i] \in Line /\ xs[i].item = v /\ xs[i].quantity > 0
      /\ On(xs, v) = {i} /\ First(xs, v) = i /\ InIt(xs, v) = xs[i].quantity
  BY <1>1, OnlyOne
<1>3. PICK t : t = [xs[i] EXCEPT !.item = w]
  OBVIOUS
<1>4. t \in Line /\ t.item = w /\ t.quantity = xs[i].quantity
  BY <1>2, <1>3 DEF Line
<1>5. PICK zs : zs = [xs EXCEPT ![i] = t]
  OBVIOUS
<1>6. ys = zs
  BY <1>2, <1>3, <1>5 DEF Turned
<1>7. /\ zs \in Seq(Line) /\ DOMAIN zs = DOMAIN xs /\ zs[i] = t
      /\ \A j \in DOMAIN xs \ {i} : zs[j] = xs[j]
  BY <1>2, <1>4, <1>5
<1>8. On(zs, w) = {i}
  <2>1. \A j \in On(zs, w) : j = i
    <3>1. SUFFICES ASSUME NEW j \in On(zs, w), j # i PROVE FALSE
      OBVIOUS
    <3>2. j \in On(xs, w)
      BY <1>7, <3>1 DEF On
    <3>3. QED
      BY <3>2
  <2>2. i \in On(zs, w)
    BY <1>2, <1>4, <1>7 DEF On
  <2>3. QED
    BY <2>1, <2>2
<1>9. On(zs, v) = {}
  <2>1. SUFFICES ASSUME NEW j \in On(zs, v) PROVE FALSE
    OBVIOUS
  <2>2. j # i
    BY <1>4, <1>7, <2>1 DEF On
  <2>3. j \in On(xs, v)
    BY <1>7, <2>1, <2>2 DEF On
  <2>4. QED
    BY <1>2, <2>2, <2>3
<1>10. ASSUME NEW u \in Variants \ {v, w}
       PROVE  On(zs, u) = On(xs, u) /\ i \notin On(xs, u)
  BY <1>2, <1>4, <1>7, <1>10 DEF On
<1>11. Once(zs)
  <2>1. SUFFICES ASSUME NEW u \in Variants, NEW j \in On(zs, u), NEW k \in On(zs, u) PROVE j = k
    BY DEF Once
  <2>2. CASE u = v \/ u = w
    BY <1>8, <1>9, <2>1, <2>2
  <2>3. CASE u # v /\ u # w
    BY <1>10, <2>1, <2>3 DEF Once
  <2>4. QED
    BY <2>2, <2>3
<1>12. InIt(zs, w) = InIt(xs, v)
  <2>1. i \in On(zs, w)
    BY <1>8
  <2>2. InIt(zs, w) = zs[i].quantity
    BY <1>7, <1>11, <2>1, OnlyOne
  <2>3. QED
    BY <1>2, <1>4, <1>7, <2>2
<1>13. InIt(zs, v) = 0
  BY <1>9 DEF InIt
<1>14. ASSUME NEW u \in Variants \ {v, w} PROVE InIt(zs, u) = InIt(xs, u)
  <2>1. On(zs, u) = On(xs, u) /\ i \notin On(xs, u)
    BY <1>10
  <2>2. CASE On(xs, u) = {}
    BY <2>1, <2>2 DEF InIt
  <2>3. CASE On(xs, u) # {}
    <3>1. PICK k : k \in On(xs, u)
      BY <2>3
    <3>2. InIt(xs, u) = xs[k].quantity /\ k \in DOMAIN xs
      BY <3>1, OnlyOne
    <3>3. InIt(zs, u) = zs[k].quantity
      BY <1>7, <1>11, <2>1, <3>1, OnlyOne
    <3>4. k # i
      BY <2>1, <3>1
    <3>5. QED
      BY <1>7, <3>2, <3>3, <3>4
  <2>4. QED
    BY <2>2, <2>3
<1>15. QED
  BY <1>6, <1>7, <1>11, <1>12, <1>13, <1>14

\* An edit leaves lines, whatever lines Shopify has.
LEMMA EditedLinesAre ==
    ASSUME NEW job \in Work, job.op \in Edits, NEW row \in Row, NEW ys \in Seq(Line),
           job.op \in {"modify", "swap"} => On(row.lines, job.line) # {}
    PROVE  EditedLines(job, row, ys) \in Seq(Line)
<1>1. /\ job.line \in Variants /\ job.quantity \in Nat
      /\ job.op = "swap" => job.to \in Variants \ {job.line}
  BY WorkIs
<1>2. \A n \in Nat : SetLine(ys, job.line, n) \in Seq(Line)
  BY LineChanged DEF SetLine
<1>3. \A zs \in Seq(Line), u \in Variants, n \in Nat : AddLine(zs, u, n) \in Seq(Line)
  BY DEF AddLine, Line
<1>4. On(row.lines, job.line) # {} => Quantity(row.lines, job.line) \in Nat
  BY <1>1, FirstIs DEF Row
<1>5. CASE job.op = "modify"
  BY <1>1, <1>2, <1>5 DEF EditedLines
<1>6. CASE job.op = "add" /\ On(row.lines, job.line) # {}
  <2>1. Quantity(row.lines, job.line) + job.quantity \in Nat
    BY <1>1, <1>4, <1>6
  <2>2. QED
    BY <1>2, <1>6, <2>1 DEF EditedLines
<1>7. CASE job.op = "add" /\ On(row.lines, job.line) = {}
  BY <1>1, <1>3, <1>7 DEF EditedLines
<1>8. CASE job.op = "swap"
  <2>1. SetLine(ys, job.line, 0) \in Seq(Line)
    BY <1>2
  <2>2. QED
    BY <1>1, <1>3, <1>4, <1>8, <2>1 DEF EditedLines
<1>9. QED
  BY <1>5, <1>6, <1>7, <1>8 DEF Edits

\* Where the two sides of an order are the same, an edit makes them the same again: the
\* row that was read and the lines on Shopify, if the edit does not double a line.
LEMMA EditAgrees ==
    ASSUME NEW job \in Work, job.op \in Edits, NEW row \in Row, NEW ys \in Seq(Line),
           Same(row.lines, ys), ~Doubles(job, row),
           job.op \in {"modify", "swap"} => On(row.lines, job.line) # {}
    PROVE  /\ EditedLines(job, row, ys) \in Seq(Line)
           /\ Same(WrittenLines(job, row, row.lines), EditedLines(job, row, ys))
<1>1. /\ job.line \in Variants /\ job.quantity \in Nat
      /\ job.op = "swap" => job.to \in Variants \ {job.line}
  BY WorkIs
<1>2. PICK xs : xs = row.lines
  OBVIOUS
<1>3. PICK v : v = job.line
  OBVIOUS
<1>4. xs \in Seq(Line) /\ v \in Variants
  BY <1>1, <1>2, <1>3 DEF Row
<1>5. /\ Once(xs) /\ Once(ys) /\ \A u \in Variants : InIt(xs, u) = InIt(ys, u)
  BY <1>2 DEF Same
<1>6. \A u \in Variants : On(xs, u) = {} <=> On(ys, u) = {}
  BY <1>4, <1>5, InItIs
<1>7. PICK q : q = InIt(xs, v)
  OBVIOUS
<1>8. On(xs, v) # {} => Quantity(xs, v) = q
  BY <1>7 DEF InIt
<1>9. q \in Nat
  BY <1>4, <1>5, <1>7, InItIs
<1>10. PICK as : as = WrittenLines(job, row, row.lines)
  OBVIOUS
<1>11. PICK bs : bs = EditedLines(job, row, ys)
  OBVIOUS
<1>12. ASSUME NEW n \in Nat, On(xs, v) # {}, as = SetLine(xs, v, n), bs = SetLine(ys, v, n)
       PROVE  bs \in Seq(Line) /\ Same(as, bs)
  <2>1. /\ Once(as) /\ InIt(as, v) = n
        /\ \A u \in Variants \ {v} : InIt(as, u) = InIt(xs, u)
    BY <1>4, <1>5, <1>12, LineIsSet
  <2>2. On(ys, v) # {}
    BY <1>4, <1>6, <1>12
  <2>3. /\ bs \in Seq(Line) /\ Once(bs) /\ InIt(bs, v) = n
        /\ \A u \in Variants \ {v} : InIt(bs, u) = InIt(ys, u)
    BY <1>4, <1>5, <1>12, <2>2, LineIsSet
  <2>4. QED
    BY <1>5, <2>1, <2>3 DEF Same
<1>13. CASE job.op = "modify"
  <2>1. as = SetLine(xs, v, job.quantity)
    BY <1>2, <1>3, <1>10, <1>13 DEF WrittenLines, SetLine
  <2>2. bs = SetLine(ys, v, job.quantity)
    BY <1>3, <1>11, <1>13 DEF EditedLines
  <2>3. On(xs, v) # {}
    BY <1>2, <1>3, <1>13
  <2>4. QED
    BY <1>1, <1>10, <1>11, <1>12, <2>1, <2>2, <2>3
<1>14. CASE job.op = "add" /\ On(xs, v) # {}
  <2>1. as = SetLine(xs, v, q + job.quantity)
    BY <1>2, <1>3, <1>8, <1>10, <1>14 DEF WrittenLines, SetLine, Quantity
  <2>2. bs = SetLine(ys, v, q + job.quantity)
    BY <1>2, <1>3, <1>8, <1>11, <1>14 DEF EditedLines
  <2>3. q + job.quantity \in Nat
    BY <1>1, <1>9
  <2>4. QED
    BY <1>10, <1>11, <1>12, <1>14, <2>1, <2>2, <2>3
<1>15. CASE job.op = "add" /\ On(xs, v) = {}
  <2>1. PICK n : n = job.quantity
    OBVIOUS
  <2>2. as = AddLine(xs, v, n)
    BY <1>2, <1>3, <1>10, <1>15, <2>1 DEF WrittenLines
  <2>3. bs = AddLine(ys, v, n)
    BY <1>2, <1>3, <1>11, <1>15, <2>1 DEF EditedLines
  <2>4. n \in Nat /\ On(xs, v) = {} /\ On(ys, v) = {}
    BY <1>1, <1>4, <1>6, <1>15, <2>1
  <2>5. /\ Once(as) /\ InIt(as, v) = n
        /\ \A u \in Variants \ {v} : InIt(as, u) = InIt(xs, u)
    BY <1>4, <1>5, <2>2, <2>4, LineIsAdded
  <2>6. /\ bs \in Seq(Line) /\ Once(bs) /\ InIt(bs, v) = n
        /\ \A u \in Variants \ {v} : InIt(bs, u) = InIt(ys, u)
    BY <1>4, <1>5, <2>3, <2>4, LineIsAdded
  <2>7. Same(as, bs)
    BY <1>5, <2>5, <2>6 DEF Same
  <2>8. QED
    BY <1>10, <1>11, <2>6, <2>7
<1>16. CASE job.op = "swap"
  <2>1. PICK w : w = job.to
    OBVIOUS
  <2>2. w \in Variants \ {v} /\ On(xs, v) # {} /\ On(xs, w) = {}
    BY <1>1, <1>2, <1>3, <1>16, <2>1 DEF Doubles
  <2>3. PICK k : k = First(xs, v)
    OBVIOUS
  <2>4. as = Turned(xs, k, w)
    BY <1>2, <1>3, <1>10, <1>16, <2>1, <2>3 DEF WrittenLines, Turned
  <2>5. /\ Once(as) /\ InIt(as, w) = q /\ InIt(as, v) = 0
        /\ \A u \in Variants \ {v, w} : InIt(as, u) = InIt(xs, u)
    BY <1>4, <1>5, <1>7, <2>2, <2>4, <2>3, LineIsTurned
  <2>6. PICK zs : zs = SetLine(ys, v, 0)
    OBVIOUS
  <2>7. On(ys, v) # {} /\ On(ys, w) = {}
    BY <1>4, <1>6, <2>2
  <2>8. /\ zs \in Seq(Line) /\ Once(zs) /\ InIt(zs, v) = 0
        /\ \A u \in Variants \ {v} : InIt(zs, u) = InIt(ys, u)
    BY <1>4, <1>5, <2>6, <2>7, LineIsSet
  <2>9. On(zs, w) = {}
    <3>1. InIt(ys, w) = 0 /\ InIt(zs, w) = InIt(ys, w)
      BY <2>2, <2>7, <2>8 DEF InIt
    <3>2. QED
      BY <2>2, <2>8, <3>1, InItIs
  <2>10. bs = AddLine(zs, w, q)
    BY <1>2, <1>3, <1>8, <1>11, <1>16, <2>1, <2>2, <2>6 DEF EditedLines
  <2>11. /\ bs \in Seq(Line) /\ Once(bs) /\ InIt(bs, w) = q
         /\ \A u \in Variants \ {w} : InIt(bs, u) = InIt(zs, u)
    BY <1>9, <2>2, <2>8, <2>9, <2>10, LineIsAdded
  <2>12. \A u \in Variants : InIt(as, u) = InIt(bs, u)
    <3>1. SUFFICES ASSUME NEW u \in Variants PROVE InIt(as, u) = InIt(bs, u)
      OBVIOUS
    <3>2. CASE u = w
      BY <2>5, <2>11, <3>2
    <3>3. CASE u = v
      BY <1>4, <2>2, <2>5, <2>8, <2>11, <3>3
    <3>4. CASE u # v /\ u # w
      BY <1>5, <2>5, <2>8, <2>11, <3>1, <3>4
    <3>5. QED
      BY <3>2, <3>3, <3>4
  <2>13. Same(as, bs)
    BY <2>5, <2>11, <2>12 DEF Same
  <2>14. QED
    BY <1>10, <1>11, <2>11, <2>13
<1>17. QED
  BY <1>13, <1>14, <1>15, <1>16 DEF Edits

\* A changed quantity that is put back is the one the row has.
LEMMA PutBackAgrees ==
    ASSUME NEW job \in Work, job.op = "modify", NEW row \in Row, NEW ys \in Seq(Line),
           Once(row.lines), Same(WrittenLines(job, row, row.lines), ys),
           On(row.lines, job.line) # {}, On(ys, job.line) # {}
    PROVE  LET back == SetLine(ys, job.line, Quantity(row.lines, job.line))
           IN  back \in Seq(Line) /\ Same(row.lines, back)
<1>1. job.line \in Variants /\ job.quantity \in Nat
  BY WorkIs DEF Edits
<1>2. PICK xs : xs = row.lines
  OBVIOUS
<1>3. PICK v : v = job.line
  OBVIOUS
<1>4. xs \in Seq(Line) /\ Once(xs) /\ v \in Variants /\ On(xs, v) # {} /\ On(ys, v) # {}
  BY <1>1, <1>2, <1>3 DEF Row
<1>5. PICK as : as = SetLine(xs, v, job.quantity)
  OBVIOUS
<1>6. as = WrittenLines(job, row, row.lines)
  BY <1>2, <1>3, <1>5 DEF WrittenLines, SetLine
<1>7. Once(ys) /\ \A u \in Variants : InIt(as, u) = InIt(ys, u)
  BY <1>6 DEF Same
<1>8. \A u \in Variants \ {v} : InIt(as, u) = InIt(xs, u)
  BY <1>1, <1>4, <1>5, LineIsSet
<1>9. PICK q : q = Quantity(xs, v)
  OBVIOUS
<1>10. q = InIt(xs, v)
  BY <1>4, <1>9 DEF InIt
<1>11. q \in Nat
  BY <1>4, <1>10, InItIs
<1>12. PICK back : back = SetLine(ys, v, q)
  OBVIOUS
<1>13. /\ back \in Seq(Line) /\ Once(back) /\ InIt(back, v) = q
       /\ \A u \in Variants \ {v} : InIt(back, u) = InIt(ys, u)
  BY <1>4, <1>7, <1>11, <1>12, LineIsSet
<1>14. Same(xs, back)
  BY <1>4, <1>7, <1>8, <1>10, <1>13 DEF Same
<1>15. QED
  BY <1>2, <1>3, <1>9, <1>12, <1>13, <1>14

-----------------------------------------------------------------------------
(* The inductive invariant of the two sides.                               *)

EditInHand(t) == t # Idle /\ t.at = "called" /\ t.job.op \in Edits

SidesTyped ==
    /\ remote \in [Orders -> [open : BOOLEAN, stage : 1..4, lines : Seq(Line)]]
    /\ copies \in [Reports -> Nat]

\* A cancellation that was reported, or that is being written or is written, happened
\* on Shopify too, or a log line says it did not.
ClosedThere ==
    /\ \A e \in Reports :
         e.topic = "cancelled" /\ (copies[e] > 0 \/ e \in claimed) => ~remote[e.order].open
    /\ \A w \in Workers : tx[w] # Idle /\ tx[w].at = "called" /\ tx[w].job.op = "cancel" =>
         ~remote[tx[w].job.order].open \/ tx[w].job.order \in named
    /\ \A o \in Orders : rows[o].status = "Cancelled" => ~remote[o].open \/ o \in named

\* Who changes a quantity or swaps has read a line of the item.
LineRead ==
    \A w \in Workers : tx[w] # Idle /\ tx[w].job.op \in {"modify", "swap"} =>
        On(tx[w].row.lines, tx[w].job.line) # {}

\* Shopify has the lines of the order, or, between its answer and the commit, those that
\* the one edit in hand is about to write over the lines it read.
Agrees(o) ==
    /\ (\A w \in Workers : EditInHand(tx[w]) => tx[w].job.order # o) =>
           Same(rows[o].lines, remote[o].lines)
    /\ \A w \in Workers : EditInHand(tx[w]) /\ tx[w].job.order = o =>
           /\ Once(rows[o].lines) /\ tx[w].row.lines = rows[o].lines
           /\ \A x \in Workers : EditInHand(tx[x]) /\ tx[x].job.order = o => x = w
           /\ Same(WrittenLines(tx[w].job, tx[w].row, tx[w].row.lines), remote[o].lines)

LinesAgree == \A o \in Orders \ (named \cup silent) : Agrees(o)

SInv == SidesTyped /\ ClosedThere /\ LineRead /\ LinesAgree

\* Orders whose lines and whose edit in hand a step leaves alone.
LeavesAlone(o) ==
    /\ rows'[o].lines = rows[o].lines /\ remote'[o].lines = remote[o].lines
    /\ \A w \in Workers :
         /\ EditInHand(tx'[w]) /\ tx'[w].job.order = o <=> EditInHand(tx[w]) /\ tx[w].job.order = o
         /\ EditInHand(tx[w]) => tx'[w] = tx[w] \/ tx[w].job.order # o

LEMMA StillAgrees ==
    ASSUME NEW o \in Orders, Agrees(o), LeavesAlone(o)
    PROVE  Agrees(o)'
<1>1. rows'[o].lines = rows[o].lines /\ remote'[o].lines = remote[o].lines
  BY DEF LeavesAlone
<1>2. ASSUME \A w \in Workers : EditInHand(tx'[w]) => tx'[w].job.order # o
      PROVE  Same(rows'[o].lines, remote'[o].lines)
  <2>1. \A w \in Workers : EditInHand(tx[w]) => tx[w].job.order # o
    BY <1>2 DEF LeavesAlone
  <2>2. Same(rows[o].lines, remote[o].lines)
    BY <2>1 DEF Agrees
  <2>3. QED
    BY <1>1, <2>2
<1>3. ASSUME NEW w \in Workers, EditInHand(tx'[w]), tx'[w].job.order = o
      PROVE  /\ Once(rows'[o].lines) /\ tx'[w].row.lines = rows'[o].lines
             /\ \A x \in Workers : EditInHand(tx'[x]) /\ tx'[x].job.order = o => x = w
             /\ Same(WrittenLines(tx'[w].job, tx'[w].row, tx'[w].row.lines), remote'[o].lines)
  <2>1. EditInHand(tx[w]) /\ tx[w].job.order = o /\ tx'[w] = tx[w]
    BY <1>3 DEF LeavesAlone
  <2>2. /\ Once(rows[o].lines) /\ tx[w].row.lines = rows[o].lines
        /\ \A x \in Workers : EditInHand(tx[x]) /\ tx[x].job.order = o => x = w
        /\ Same(WrittenLines(tx[w].job, tx[w].row, tx[w].row.lines), remote[o].lines)
    BY <2>1 DEF Agrees
  <2>3. \A x \in Workers : EditInHand(tx'[x]) /\ tx'[x].job.order = o => x = w
    BY <2>2 DEF LeavesAlone
  <2>4. QED
    BY <1>1, <2>1, <2>2, <2>3
<1>4. QED
  BY <1>2, <1>3 DEF Agrees

LEMMA LeftAlone ==
    ASSUME LinesAgree, named \subseteq named', silent \subseteq silent',
           \A o \in Orders \ (named' \cup silent') : LeavesAlone(o)
    PROVE  LinesAgree'
<1>1. SUFFICES ASSUME NEW o \in Orders \ (named' \cup silent') PROVE Agrees(o)'
  BY DEF LinesAgree
<1>2. Agrees(o) /\ LeavesAlone(o)
  BY DEF LinesAgree
<1>3. QED
  BY <1>2, StillAgrees

\* A step that closes what it cancels, on both sides.
LEMMA StaysClosed ==
    ASSUME ClosedThere, named \subseteq named',
           \A o \in Orders : ~remote[o].open => ~remote'[o].open,
           \A o \in Orders : rows'[o].status = "Cancelled" =>
               rows[o].status = "Cancelled" \/ ~remote[o].open \/ o \in named,
           \A e \in Reports : e.topic = "cancelled" /\ (copies'[e] > 0 \/ e \in claimed') =>
               copies[e] > 0 \/ e \in claimed \/ ~remote'[e.order].open,
           \A w \in Workers : tx'[w] # Idle /\ tx'[w].at = "called" /\ tx'[w].job.op = "cancel" =>
               \/ tx'[w] = tx[w]
               \/ ~remote'[tx'[w].job.order].open
               \/ tx'[w].job.order \in named',
           IInv
    PROVE  ClosedThere'
<1>1. \A e \in Reports : e.order \in Orders
  BY BoundsAssumption DEF Event
<1>2. \A w \in Workers : tx[w] # Idle => tx[w].job.order \in Orders
  BY OpenIs, WorkIs DEF IInv
<1>3. \A e \in Reports :
         e.topic = "cancelled" /\ (copies'[e] > 0 \/ e \in claimed') => ~remote'[e.order].open
  BY <1>1 DEF ClosedThere
<1>4. ASSUME NEW w \in Workers, tx'[w] # Idle, tx'[w].at = "called", tx'[w].job.op = "cancel"
      PROVE  ~remote'[tx'[w].job.order].open \/ tx'[w].job.order \in named'
  <2>1. CASE tx'[w] = tx[w]
    <3>1. ~remote[tx[w].job.order].open \/ tx[w].job.order \in named
      BY <1>4, <2>1 DEF ClosedThere
    <3>2. QED
      BY <1>2, <1>4, <2>1, <3>1
  <2>2. QED
    BY <1>4, <2>1
<1>5. \A o \in Orders : rows'[o].status = "Cancelled" => ~remote'[o].open \/ o \in named'
  BY DEF ClosedThere
<1>6. QED
  BY <1>3, <1>4, <1>5 DEF ClosedThere

\* Shopify closes an order, and reports that it did.
LEMMA ShutThere ==
    ASSUME SidesTyped, NEW o \in Orders, Closed(o)
    PROVE  /\ SidesTyped'
           /\ ~remote'[o].open
           /\ \A p \in Orders : /\ remote'[p].lines = remote[p].lines
                                /\ ~remote[p].open => ~remote'[p].open
           /\ \A e \in Reports : e.topic = "cancelled" /\ copies'[e] > 0 =>
                copies[e] > 0 \/ ~remote'[e.order].open
<1>1. remote' = [remote EXCEPT ![o].open = FALSE] /\ Sent([order |-> o, topic |-> "cancelled"])
  BY DEF Closed
<1>2. PICK r : r = [remote[o] EXCEPT !.open = FALSE]
  OBVIOUS
<1>3. remote[o] \in [open : BOOLEAN, stage : 1..4, lines : Seq(Line)]
  BY DEF SidesTyped
<1>4. r \in [open : BOOLEAN, stage : 1..4, lines : Seq(Line)] /\ ~r.open /\ r.lines = remote[o].lines
  BY <1>2, <1>3
<1>5. remote' = [remote EXCEPT ![o] = r]
  BY <1>1, <1>2
<1>6. /\ remote' \in [Orders -> [open : BOOLEAN, stage : 1..4, lines : Seq(Line)]]
      /\ remote'[o] = r /\ \A p \in Orders \ {o} : remote'[p] = remote[p]
  BY <1>4, <1>5 DEF SidesTyped
<1>7. PICK c : c = [order |-> o, topic |-> "cancelled"]
  OBVIOUS
<1>8. /\ copies' \in [Reports -> Nat]
      /\ \A e \in Reports : e # c => copies'[e] = copies[e]
  BY <1>1, <1>7, BoundsAssumption DEF Sent, SidesTyped
<1>9. c.order = o
  BY <1>7
<1>10. ASSUME NEW e \in Reports, copies'[e] > 0
       PROVE  copies[e] > 0 \/ ~remote'[e.order].open
  <2>1. CASE e = c
    BY <1>4, <1>6, <1>9, <2>1
  <2>2. CASE e # c
    BY <1>8, <1>10, <2>2
  <2>3. QED
    BY <2>1, <2>2
<1>11. QED
  BY <1>4, <1>6, <1>8, <1>10 DEF SidesTyped

\* Shopify moves an order a stage, and reports that.
LEMMA MovedThere ==
    ASSUME SidesTyped, NEW o \in Orders, NEW stage \in 1..4, NEW c, c.topic # "cancelled",
           remote' = [remote EXCEPT ![o].stage = stage], Sent(c)
    PROVE  /\ SidesTyped'
           /\ \A p \in Orders : remote'[p].lines = remote[p].lines /\ remote'[p].open = remote[p].open
           /\ \A e \in Reports : e.topic = "cancelled" => copies'[e] = copies[e]
<1>1. PICK r : r = [remote[o] EXCEPT !.stage = stage]
  OBVIOUS
<1>2. remote[o] \in [open : BOOLEAN, stage : 1..4, lines : Seq(Line)]
  BY DEF SidesTyped
<1>3. /\ r \in [open : BOOLEAN, stage : 1..4, lines : Seq(Line)]
      /\ r.open = remote[o].open /\ r.lines = remote[o].lines
  BY <1>1, <1>2
<1>4. remote' = [remote EXCEPT ![o] = r]
  BY <1>1
<1>5. /\ remote' \in [Orders -> [open : BOOLEAN, stage : 1..4, lines : Seq(Line)]]
      /\ remote'[o] = r /\ \A p \in Orders \ {o} : remote'[p] = remote[p]
  BY <1>3, <1>4 DEF SidesTyped
<1>6. /\ copies' \in [Reports -> Nat]
      /\ \A e \in Reports : e # c => copies'[e] = copies[e]
  BY BoundsAssumption DEF Sent, SidesTyped
<1>7. QED
  BY <1>3, <1>5, <1>6 DEF SidesTyped

\* What becomes of the transactions when one is opened, goes on or ends.
LEMMA DeskIs ==
    ASSUME Typed, NEW w \in Workers
    PROVE  /\ \A job, at : Opened(w, job, at) =>
                /\ tx[w] = Idle
                /\ tx'[w] = [at |-> at, job |-> job, row |-> rows[job.order]]
                /\ \A x \in Workers \ {w} : tx'[x] = tx[x]
           /\ Ended(w) => /\ tx'[w] = Idle
                          /\ \A x \in Workers \ {w} : tx'[x] = tx[x]
           /\ tx[w] # Idle /\ tx' = [tx EXCEPT ![w].at = "called"] =>
                /\ tx'[w] # Idle /\ tx'[w].at = "called"
                /\ tx'[w].job = tx[w].job /\ tx'[w].row = tx[w].row
                /\ \A x \in Workers \ {w} : tx'[x] = tx[x]
<1>1. tx \in [Workers -> {Idle} \cup [at : {"read", "called"}, job : Work, row : Row]]
  BY DEF Typed
<1>2. ASSUME NEW job, NEW at, Opened(w, job, at)
      PROVE  /\ tx[w] = Idle
             /\ tx'[w] = [at |-> at, job |-> job, row |-> rows[job.order]]
             /\ \A x \in Workers \ {w} : tx'[x] = tx[x]
  BY <1>1, <1>2 DEF Opened
<1>3. ASSUME Ended(w)
      PROVE  tx'[w] = Idle /\ \A x \in Workers \ {w} : tx'[x] = tx[x]
  BY <1>1, <1>3 DEF Ended
<1>4. ASSUME tx[w] # Idle, tx' = [tx EXCEPT ![w].at = "called"]
      PROVE  /\ tx'[w] # Idle /\ tx'[w].at = "called"
             /\ tx'[w].job = tx[w].job /\ tx'[w].row = tx[w].row
             /\ \A x \in Workers \ {w} : tx'[x] = tx[x]
  <2>1. tx[w] \in [at : {"read", "called"}, job : Work, row : Row]
    BY <1>1, <1>4
  <2>2. PICK t : t = [tx[w] EXCEPT !.at = "called"]
    OBVIOUS
  <2>3. t.at = "called" /\ t.job = tx[w].job /\ t.row = tx[w].row
    BY <2>1, <2>2
  <2>4. tx' = [tx EXCEPT ![w] = t]
    BY <1>4, <2>2
  <2>5. tx'[w] = t /\ \A x \in Workers \ {w} : tx'[x] = tx[x]
    BY <1>1, <2>4
  <2>6. t # Idle
    BY <2>3 DEF Idle
  <2>7. QED
    BY <2>3, <2>5, <2>6
<1>5. QED
  BY <1>2, <1>3, <1>4

\* A step that touches neither the open transactions nor the rows.
LEMMA AsideAgrees ==
    ASSUME IInv, SInv,
           \/ \E o \in Orders : ShopMoves(o) \/ ShopCancels(o)
           \/ \E e \in Reports : Inbound(e) \/ TaskLost(e)
           \/ \E r \in Requests : Resolve(r)
           \/ UNCHANGED vars
    PROVE  SInv'
<1>1. UNCHANGED <<tx, rows, named, silent>>
  BY DEF ShopMoves, ShopCancels, Inbound, TaskLost, Resolve, vars, dbVars
<1>2. /\ SidesTyped'
      /\ \A p \in Orders : /\ remote'[p].lines = remote[p].lines
                           /\ ~remote[p].open => ~remote'[p].open
      /\ \A e \in Reports : e.topic = "cancelled" /\ (copies'[e] > 0 \/ e \in claimed') =>
                copies[e] > 0 \/ e \in claimed \/ ~remote'[e.order].open
  <2>1. SidesTyped
    BY DEF SInv
  <2>2. CASE \E o \in Orders : ShopMoves(o)
    <3>1. PICK o \in Orders : ShopMoves(o)
      BY <2>2
    <3>2. PICK topic \in DOMAIN TOPIC_STATUS :
            /\ remote' = [remote EXCEPT ![o].stage = Stages!Rank(TOPIC_STATUS[topic])]
            /\ Sent([order |-> o, topic |-> topic])
      BY <3>1 DEF ShopMoves
    <3>3. PICK stage, c : stage = Stages!Rank(TOPIC_STATUS[topic]) /\ c = [order |-> o, topic |-> topic]
      OBVIOUS
    <3>4. stage \in 1..4 /\ c.topic # "cancelled"
      BY <3>3, TargetIs DEF TOPIC_STATUS
    <3>5. remote' = [remote EXCEPT ![o].stage = stage] /\ Sent(c)
      BY <3>2, <3>3
    <3>6. /\ SidesTyped'
          /\ \A p \in Orders : remote'[p].lines = remote[p].lines /\ remote'[p].open = remote[p].open
          /\ \A e \in Reports : e.topic = "cancelled" => copies'[e] = copies[e]
      BY <2>1, <3>4, <3>5, MovedThere
    <3>7. claimed' = claimed
      BY <3>1 DEF ShopMoves, hookVars
    <3>8. QED
      BY <3>6, <3>7
  <2>3. CASE \E o \in Orders : ShopCancels(o)
    <3>1. PICK o \in Orders : ShopCancels(o)
      BY <2>3
    <3>2. Closed(o) /\ claimed' = claimed
      BY <3>1 DEF ShopCancels, hookVars
    <3>3. QED
      BY <2>1, <3>2, ShutThere
  <2>4. CASE \E e \in Reports : Inbound(e)
    <3>1. PICK e \in Reports : Inbound(e)
      BY <2>4
    <3>2. /\ copies[e] > 0 /\ copies' = [copies EXCEPT ![e] = @ - 1]
          /\ claimed' = claimed \cup {e} /\ remote' = remote
      BY <3>1 DEF Inbound
    <3>3. copies \in [Reports -> Nat]
      BY <2>1 DEF SidesTyped
    <3>4. copies' \in [Reports -> Nat]
      BY <3>2, <3>3
    <3>5. \A f \in Reports : copies'[f] > 0 => copies[f] > 0
      BY <3>2, <3>3
    <3>6. QED
      BY <2>1, <3>2, <3>4, <3>5 DEF SidesTyped
  <2>5. CASE UNCHANGED <<remote, copies, claimed>>
    BY <2>1, <2>5 DEF SidesTyped
  <2>6. QED
    BY <2>2, <2>3, <2>4, <2>5 DEF TaskLost, Resolve, vars, shopVars, hookVars
<1>3. ClosedThere'
  BY <1>1, <1>2, StaysClosed DEF SInv
<1>4. LineRead'
  BY <1>1 DEF SInv, LineRead
<1>5. LinesAgree'
  <2>1. \A o \in Orders : LeavesAlone(o)
    BY <1>1, <1>2 DEF LeavesAlone
  <2>2. QED
    BY <1>1, <2>1, LeftAlone DEF SInv
<1>6. QED
  BY <1>2, <1>3, <1>4, <1>5 DEF SInv

\* A transaction that is opened has no edit in hand: it has read, or writes a status.
LEMMA OpeningAgrees ==
    ASSUME IInv, SInv, NEW w \in Workers, NEW job \in Work, NEW at,
           Opened(w, job, at), UNCHANGED <<rows, claimed, named, silent>>,
           at = "called" => job.op \notin Edits,
           at = "called" /\ job.op = "cancel" => ~remote[job.order].open,
           job.op \in {"modify", "swap"} => On(rows[job.order].lines, job.line) # {},
           SidesTyped',
           \A p \in Orders : remote'[p].lines = remote[p].lines /\ remote'[p].open = remote[p].open,
           \A e \in Reports : e.topic = "cancelled" => copies'[e] = copies[e]
    PROVE  SInv'
<1>1. PICK row : row = rows[job.order]
  OBVIOUS
<1>2. /\ tx[w] = Idle /\ tx'[w] = [at |-> at, job |-> job, row |-> row]
      /\ \A x \in Workers \ {w} : tx'[x] = tx[x]
  BY <1>1, DeskIs DEF IInv
<1>3. tx'[w].at = at /\ tx'[w].job = job /\ tx'[w].row = row
  BY <1>2
<1>4. job.order \in Orders
  BY WorkIs
<1>5. ~EditInHand(tx[w]) /\ ~EditInHand(tx'[w])
  BY <1>2, <1>3 DEF EditInHand
<1>6. LinesAgree'
  <2>1. \A o \in Orders : LeavesAlone(o)
    BY <1>2, <1>5 DEF LeavesAlone
  <2>2. QED
    BY <2>1, LeftAlone DEF SInv
<1>7. LineRead'
  BY <1>1, <1>2, <1>3 DEF SInv, LineRead
<1>8. ClosedThere'
  <2>1. \A x \in Workers : tx'[x] # Idle /\ tx'[x].at = "called" /\ tx'[x].job.op = "cancel" =>
          tx'[x] = tx[x] \/ ~remote'[tx'[x].job.order].open
    BY <1>2, <1>3, <1>4
  <2>2. QED
    BY <2>1, StaysClosed DEF SInv
<1>9. QED
  BY <1>6, <1>7, <1>8 DEF SInv

LEMMA BeginAgrees ==
    ASSUME IInv, SInv, NEW w \in Workers, NEW r \in Requests, Begin(w, r)
    PROVE  SInv'
<1>1. /\ Opened(w, r, "read") /\ Accepted(r, rows[r.order])
      /\ UNCHANGED <<remote, copies, rows, claimed, named, silent>>
  BY DEF Begin, shopVars, dbVars, hookVars
<1>2. r.op \in {"modify", "swap"} => On(rows[r.order].lines, r.line) # {}
  BY <1>1 DEF Accepted
<1>3. r \in Work
  BY DEF Work, Jobs
<1>4. SidesTyped'
  BY <1>1 DEF SInv, SidesTyped
<1>5. QED
  BY <1>1, <1>2, <1>3, <1>4, OpeningAgrees

LEMMA MarkDeliveredAgrees ==
    ASSUME IInv, SInv, NEW w \in Workers, NEW r \in Requests, MarkDelivered(w, r)
    PROVE  SInv'
<1>1. PICK job : job = [by |-> "staff", op |-> "advance", order |-> r.order, topic |-> "delivered"]
  OBVIOUS
<1>2. job \in Work /\ job.op = "advance" /\ r.order \in Orders
  BY <1>1, RequestsAssumption DEF Work, Pressed
<1>3. /\ Opened(w, job, "called") \/ UNCHANGED tx
      /\ UNCHANGED <<rows, claimed, named, silent>>
  BY <1>1 DEF MarkDelivered, dbVars, hookVars
<1>4. PICK stage, c : stage = Stages!Rank("Delivered") /\ c = [order |-> r.order, topic |-> "delivered"]
  OBVIOUS
<1>5. stage \in 1..4 /\ c.topic # "cancelled"
  BY <1>4, Ranks
<1>6. remote' = [remote EXCEPT ![r.order].stage = stage] /\ Sent(c)
  BY <1>4 DEF MarkDelivered
<1>7. /\ SidesTyped'
      /\ \A p \in Orders : remote'[p].lines = remote[p].lines /\ remote'[p].open = remote[p].open
      /\ \A e \in Reports : e.topic = "cancelled" => copies'[e] = copies[e]
  BY <1>2, <1>5, <1>6, MovedThere DEF SInv
<1>8. CASE Opened(w, job, "called")
  BY <1>2, <1>3, <1>7, <1>8, OpeningAgrees DEF Edits
<1>9. CASE UNCHANGED tx
  <2>1. LinesAgree'
    <3>1. \A o \in Orders : LeavesAlone(o)
      BY <1>3, <1>7, <1>9 DEF LeavesAlone
    <3>2. QED
      BY <1>3, <3>1, LeftAlone DEF SInv
  <2>2. LineRead'
    BY <1>9 DEF SInv, LineRead
  <2>3. ClosedThere'
    BY <1>3, <1>7, <1>9, StaysClosed DEF SInv
  <2>4. QED
    BY <1>7, <2>1, <2>2, <2>3 DEF SInv
<1>10. QED
  BY <1>3, <1>8, <1>9

LEMMA HandleAgrees ==
    ASSUME IInv, SInv, NEW w \in Workers, NEW e \in Reports, Handle(w, e)
    PROVE  SInv'
<1>1. e \in Event
  BY BoundsAssumption
<1>2. /\ JobOf(e) \in Work /\ JobOf(e).order = e.order
      /\ JobOf(e).op = IF e.topic = "cancelled" THEN "cancel" ELSE "advance"
  BY <1>1, WebhookWork
<1>3. /\ Opened(w, JobOf(e), "called") \/ UNCHANGED tx
      /\ UNCHANGED <<remote, copies, rows, claimed, named, silent>>
      /\ e \in tasks
  BY DEF Handle, shopVars, dbVars
<1>4. SidesTyped'
  BY <1>3 DEF SInv, SidesTyped
<1>5. CASE Opened(w, JobOf(e), "called")
  <2>1. e \in claimed
    BY <1>3 DEF IInv, Typed
  <2>2. JobOf(e).op = "cancel" => ~remote[JobOf(e).order].open
    BY <1>2, <2>1 DEF SInv, ClosedThere
  <2>3. PICK job : job = JobOf(e)
    OBVIOUS
  <2>4. /\ job \in Work /\ Opened(w, job, "called") /\ job.op \in {"cancel", "advance"}
        /\ job.op = "cancel" => ~remote[job.order].open
    BY <1>2, <1>5, <2>2, <2>3
  <2>5. QED
    BY <1>3, <1>4, <2>4, OpeningAgrees DEF Edits
<1>6. CASE UNCHANGED tx
  <2>1. LinesAgree'
    <3>1. \A o \in Orders : LeavesAlone(o)
      BY <1>3, <1>6 DEF LeavesAlone
    <3>2. QED
      BY <1>3, <3>1, LeftAlone DEF SInv
  <2>2. LineRead'
    BY <1>6 DEF SInv, LineRead
  <2>3. ClosedThere'
    BY <1>3, <1>6, StaysClosed DEF SInv
  <2>4. QED
    BY <1>4, <2>1, <2>2, <2>3 DEF SInv
<1>7. QED
  BY <1>3, <1>5, <1>6

\* A transaction that ends without having had an edit in hand, or whose order is left
\* to a person, or silently: nothing is written.
LEMMA EndingAgrees ==
    ASSUME IInv, SInv, NEW w \in Workers, tx[w] # Idle, Ended(w),
           UNCHANGED <<rows, claimed, copies>>, SidesTyped',
           named \subseteq named', silent \subseteq silent',
           EditInHand(tx[w]) => tx[w].job.order \in named' \cup silent',
           \A o \in Orders : remote'[o].open = remote[o].open,
           \A o \in Orders \ (named' \cup silent') : remote'[o].lines = remote[o].lines
    PROVE  SInv'
<1>1. tx'[w] = Idle /\ \A x \in Workers \ {w} : tx'[x] = tx[x]
  BY DeskIs DEF IInv
<1>2. LinesAgree'
  <2>1. ~EditInHand(tx'[w])
    BY <1>1 DEF EditInHand
  <2>2. \A o \in Orders \ (named' \cup silent') : LeavesAlone(o)
    BY <1>1, <2>1 DEF LeavesAlone
  <2>3. QED
    BY <2>2, LeftAlone DEF SInv
<1>3. LineRead'
  BY <1>1 DEF SInv, LineRead
<1>4. ClosedThere'
  <2>1. \A x \in Workers : tx'[x] # Idle => tx'[x] = tx[x]
    BY <1>1
  <2>2. QED
    BY <2>1, StaysClosed DEF SInv
<1>5. QED
  BY <1>2, <1>3, <1>4 DEF SInv

LEMMA EditRefusedAgrees ==
    ASSUME IInv, SInv, NEW w \in Workers, EditRefused(w)
    PROVE  SInv'
<1>1. /\ tx[w].at = "read" /\ Ended(w)
      /\ UNCHANGED <<remote, copies, rows, claimed, named, silent>>
  BY DEF EditRefused, shopVars, dbVars, hookVars
<1>2. tx[w] # Idle /\ ~EditInHand(tx[w])
  BY <1>1 DEF Idle, EditInHand
<1>3. SidesTyped'
  BY <1>1 DEF SInv, SidesTyped
<1>4. QED
  BY <1>1, <1>2, <1>3, EndingAgrees

LEMMA CommitFailsAgrees ==
    ASSUME IInv, SInv, NEW w \in Workers, CommitFails(w)
    PROVE  SInv'
<1>1. /\ tx[w].at = "called" /\ Ended(w)
      /\ silent' = IF tx[w].job.op \in Edits THEN silent \cup {tx[w].job.order} ELSE silent
      /\ UNCHANGED <<remote, copies, rows, claimed, named>>
  BY DEF CommitFails, shopVars, dbVars
<1>2. tx[w] # Idle
  BY <1>1 DEF Idle
<1>3. EditInHand(tx[w]) => tx[w].job.order \in silent'
  BY <1>1 DEF EditInHand
<1>4. SidesTyped'
  BY <1>1 DEF SInv, SidesTyped
<1>5. QED
  BY <1>1, <1>2, <1>3, <1>4, EndingAgrees

LEMMA CancelCalledAgrees ==
    ASSUME IInv, SInv, NEW w \in Workers, CancelCalled(w)
    PROVE  SInv'
<1>1. PICK o : o = tx[w].job.order
  OBVIOUS
<1>2. /\ tx[w].at = "read" /\ tx[w].job.op = "cancel" /\ tx' = [tx EXCEPT ![w].at = "called"]
      /\ UNCHANGED <<rows, claimed, silent>>
      /\ \/ Closed(o) /\ UNCHANGED named
         \/ Closed(o) /\ named' = named \cup {o}
         \/ named' = named \cup {o} /\ UNCHANGED <<remote, copies>>
  BY <1>1 DEF CancelCalled, dbVars, hookVars, shopVars
<1>3. tx[w] # Idle
  BY <1>2 DEF Idle
<1>4. o \in Orders
  BY <1>1, <1>3, OpenIs, WorkIs DEF IInv
<1>5. /\ tx'[w].job = tx[w].job /\ tx'[w].row = tx[w].row
      /\ \A x \in Workers \ {w} : tx'[x] = tx[x]
  BY <1>2, <1>3, DeskIs DEF IInv
<1>6. /\ SidesTyped' /\ (~remote'[o].open \/ o \in named')
      /\ \A p \in Orders : /\ remote'[p].lines = remote[p].lines
                           /\ ~remote[p].open => ~remote'[p].open
      /\ \A e \in Reports : e.topic = "cancelled" /\ copies'[e] > 0 =>
                copies[e] > 0 \/ ~remote'[e.order].open
  <2>1. SidesTyped
    BY DEF SInv
  <2>2. CASE Closed(o)
    BY <1>4, <2>1, <2>2, ShutThere
  <2>3. CASE named' = named \cup {o} /\ UNCHANGED <<remote, copies>>
    BY <2>1, <2>3 DEF SidesTyped
  <2>4. QED
    BY <1>2, <2>2, <2>3
<1>7. named \subseteq named'
  BY <1>2
<1>8. LinesAgree'
  <2>1. ~EditInHand(tx[w]) /\ ~EditInHand(tx'[w])
    BY <1>2, <1>5 DEF EditInHand, Edits
  <2>2. \A p \in Orders : LeavesAlone(p)
    BY <1>2, <1>5, <1>6, <2>1 DEF LeavesAlone
  <2>3. QED
    BY <1>2, <1>7, <2>2, LeftAlone DEF SInv
<1>9. LineRead'
  BY <1>3, <1>5 DEF SInv, LineRead
<1>10. ClosedThere'
  <2>1. \A x \in Workers : tx'[x] # Idle /\ tx'[x].at = "called" /\ tx'[x].job.op = "cancel" =>
          \/ tx'[x] = tx[x]
          \/ ~remote'[tx'[x].job.order].open
          \/ tx'[x].job.order \in named'
    BY <1>1, <1>5, <1>6
  <2>2. QED
    BY <1>2, <1>6, <1>7, <2>1, StaysClosed DEF SInv
<1>11. QED
  BY <1>6, <1>8, <1>9, <1>10 DEF SInv

\* Shopify commits the edit: its lines are those that are about to be written.
LEMMA EditLandsAgrees ==
    ASSUME IInv, SInv, NEW w \in Workers, EditLands(w)
    PROVE  SInv'
<1>1. PICK job : job = tx[w].job
  OBVIOUS
<1>2. PICK o : o = job.order
  OBVIOUS
<1>3. PICK row : row = tx[w].row
  OBVIOUS
<1>4. PICK ys : ys = EditedLines(job, row, remote[o].lines)
  OBVIOUS
<1>5. /\ tx[w].at = "read" /\ job.op \in Edits
      /\ remote' = [remote EXCEPT ![o].lines = ys]
      /\ UNCHANGED <<copies, rows, claimed, named>>
      /\ \/ /\ tx' = [tx EXCEPT ![w].at = "called"]
            /\ silent' = IF Doubles(job, row) \/ Crosses(w) THEN silent \cup {o} ELSE silent
         \/ /\ Ended(w)
            /\ silent' = silent \cup {o}
  BY <1>1, <1>2, <1>3, <1>4 DEF EditLands, dbVars, hookVars
<1>6. tx[w] # Idle
  BY <1>5 DEF Idle
<1>7. job \in Work /\ row \in Row /\ o \in Orders
  BY <1>1, <1>2, <1>3, <1>6, OpenIs, WorkIs DEF IInv
<1>8. remote \in [Orders -> [open : BOOLEAN, stage : 1..4, lines : Seq(Line)]]
  BY DEF SInv, SidesTyped
<1>9. remote[o] \in [open : BOOLEAN, stage : 1..4, lines : Seq(Line)] /\ remote[o].lines \in Seq(Line)
  BY <1>7, <1>8
<1>10. job.op \in {"modify", "swap"} => On(row.lines, job.line) # {}
  BY <1>1, <1>3, <1>6 DEF SInv, LineRead
<1>11. ys \in Seq(Line)
  BY <1>4, <1>5, <1>7, <1>9, <1>10, EditedLinesAre
<1>12. PICK r : r = [remote[o] EXCEPT !.lines = ys]
  OBVIOUS
<1>13. /\ r \in [open : BOOLEAN, stage : 1..4, lines : Seq(Line)]
       /\ r.open = remote[o].open /\ r.lines = ys
  BY <1>9, <1>11, <1>12
<1>14. remote' = [remote EXCEPT ![o] = r]
  BY <1>5, <1>12
<1>15. /\ remote' \in [Orders -> [open : BOOLEAN, stage : 1..4, lines : Seq(Line)]]
       /\ remote'[o] = r /\ \A p \in Orders \ {o} : remote'[p] = remote[p]
  BY <1>7, <1>8, <1>13, <1>14
<1>16. SidesTyped' /\ \A p \in Orders : remote'[p].open = remote[p].open
  BY <1>5, <1>13, <1>15 DEF SInv, SidesTyped
<1>17. silent \subseteq silent'
  BY <1>5
<1>18. CASE Ended(w) /\ silent' = silent \cup {o}
  <2>1. \A p \in Orders \ (named' \cup silent') : remote'[p].lines = remote[p].lines
    BY <1>15, <1>18
  <2>2. tx[w].job.order \in silent'
    BY <1>1, <1>2, <1>18
  <2>3. QED
    BY <1>5, <1>6, <1>16, <1>17, <1>18, <2>1, <2>2, EndingAgrees
<1>19. CASE /\ tx' = [tx EXCEPT ![w].at = "called"]
            /\ silent' = IF Doubles(job, row) \/ Crosses(w) THEN silent \cup {o} ELSE silent
  <2>1. /\ tx'[w] # Idle /\ tx'[w].at = "called"
        /\ tx'[w].job = job /\ tx'[w].row = row
        /\ \A x \in Workers \ {w} : tx'[x] = tx[x]
    BY <1>1, <1>3, <1>6, <1>19, DeskIs DEF IInv
  <2>2. ~EditInHand(tx[w])
    BY <1>5 DEF EditInHand
  <2>3. ASSUME o \notin named' \cup silent'
        PROVE  /\ row.lines = rows[o].lines
               /\ \A x \in Workers \ {w} : EditInHand(tx[x]) => tx[x].job.order # o
    <3>1. ~Crosses(w)
      BY <1>19, <2>3
    <3>2. QED
      BY <1>1, <1>2, <1>3, <3>1 DEF Crosses, EditInHand
  <2>5. ASSUME o \notin named' \cup silent'
        PROVE  Once(rows[o].lines) /\ Same(WrittenLines(job, row, row.lines), ys)
    <3>1. o \notin named \cup silent /\ ~Doubles(job, row)
      BY <1>5, <1>19, <2>5
    <3>2. \A x \in Workers : EditInHand(tx[x]) => tx[x].job.order # o
      BY <2>2, <2>3, <2>5
    <3>3. Same(row.lines, remote[o].lines)
      BY <1>7, <2>3, <2>5, <3>1, <3>2 DEF SInv, LinesAgree, Agrees
    <3>4. PICK zs : zs = remote[o].lines
      OBVIOUS
    <3>5. zs \in Seq(Line) /\ ys = EditedLines(job, row, zs) /\ Same(row.lines, zs)
      BY <1>4, <1>9, <3>3, <3>4
    <3>6. Same(WrittenLines(job, row, row.lines), ys)
      BY <1>5, <1>7, <1>10, <3>1, <3>5, EditAgrees
    <3>7. Once(rows[o].lines)
      BY <2>3, <2>5, <3>5 DEF Same
    <3>8. QED
      BY <3>6, <3>7
  <2>6. LinesAgree'
    <3>1. SUFFICES ASSUME NEW p \in Orders \ (named' \cup silent') PROVE Agrees(p)'
      BY DEF LinesAgree
    <3>2. CASE p = o
      <4>1. EditInHand(tx'[w]) /\ tx'[w].job.order = p
        BY <1>2, <1>5, <2>1, <3>2 DEF EditInHand
      <4>2. \A x \in Workers : EditInHand(tx'[x]) /\ tx'[x].job.order = p => x = w
        BY <2>1, <2>3, <3>1, <3>2
      <4>3. /\ Once(rows[o].lines) /\ row.lines = rows[o].lines
            /\ Same(WrittenLines(job, row, row.lines), ys)
        BY <2>3, <2>5, <3>1, <3>2
      <4>4. rows' = rows /\ remote'[p].lines = ys
        BY <1>5, <1>13, <1>15, <3>2
      <4>5. QED
        BY <2>1, <3>2, <4>1, <4>2, <4>3, <4>4 DEF Agrees
    <3>3. CASE p # o
      <4>1. Agrees(p)
        BY <1>5, <1>17, <3>1 DEF SInv, LinesAgree
      <4>2. LeavesAlone(p)
        BY <1>1, <1>2, <1>5, <1>15, <2>1, <3>1, <3>3 DEF LeavesAlone
      <4>3. QED
        BY <3>1, <4>1, <4>2, StillAgrees
    <3>4. QED
      BY <3>2, <3>3
  <2>7. LineRead'
    BY <1>1, <1>3, <1>10, <2>1 DEF SInv, LineRead
  <2>8. ClosedThere'
    <3>1. \A x \in Workers : tx'[x] # Idle /\ tx'[x].at = "called" /\ tx'[x].job.op = "cancel" =>
            tx'[x] = tx[x]
      BY <1>5, <2>1 DEF Edits
    <3>2. QED
      BY <1>5, <1>16, <3>1, StaysClosed DEF SInv
  <2>9. QED
    BY <1>16, <2>6, <2>7, <2>8 DEF SInv
<1>20. QED
  BY <1>5, <1>18, <1>19

LEMMA WriteFailsAgrees ==
    ASSUME IInv, SInv, NEW w \in Workers, WriteFails(w)
    PROVE  SInv'
<1>1. PICK job : job = tx[w].job
  OBVIOUS
<1>2. PICK o : o = job.order
  OBVIOUS
<1>3. PICK row : row = tx[w].row
  OBVIOUS
<1>4. PICK ys : ys = remote[o].lines
  OBVIOUS
<1>5. PICK back : back = SetLine(ys, job.line, Quantity(row.lines, job.line))
  OBVIOUS
<1>6. /\ tx[w].at = "called" /\ job.op \in Edits /\ Ended(w)
      /\ UNCHANGED <<copies, rows, claimed>>
      /\ \/ /\ job.op = "modify" /\ On(ys, job.line) # {}
            /\ remote' = [remote EXCEPT ![o].lines = back]
            /\ UNCHANGED <<named, silent>>
         \/ named' = named \cup {o} /\ UNCHANGED <<remote, silent>>
         \/ silent' = silent \cup {o} /\ UNCHANGED <<remote, named>>
  BY <1>1, <1>2, <1>3, <1>4, <1>5 DEF WriteFails, dbVars, hookVars
<1>7. tx[w] # Idle
  BY <1>6 DEF Idle
<1>8. job \in Work /\ row \in Row /\ o \in Orders
  BY <1>1, <1>2, <1>3, <1>7, OpenIs, WorkIs DEF IInv
<1>9. CASE \/ named' = named \cup {o} /\ UNCHANGED <<remote, silent>>
           \/ silent' = silent \cup {o} /\ UNCHANGED <<remote, named>>
  <2>1. SidesTyped'
    BY <1>6, <1>9 DEF SInv, SidesTyped
  <2>2. o \in named' \cup silent' /\ named \subseteq named' /\ silent \subseteq silent'
    BY <1>9
  <2>3. QED
    BY <1>1, <1>2, <1>6, <1>7, <1>9, <2>1, <2>2, EndingAgrees
<1>10. CASE /\ job.op = "modify" /\ On(ys, job.line) # {}
            /\ remote' = [remote EXCEPT ![o].lines = back]
            /\ UNCHANGED <<named, silent>>
  <2>1. remote \in [Orders -> [open : BOOLEAN, stage : 1..4, lines : Seq(Line)]]
    BY DEF SInv, SidesTyped
  <2>2. remote[o] \in [open : BOOLEAN, stage : 1..4, lines : Seq(Line)] /\ ys \in Seq(Line)
    BY <1>4, <1>8, <2>1
  <2>3. On(row.lines, job.line) # {}
    BY <1>1, <1>3, <1>7, <1>10 DEF SInv, LineRead
  <2>4. Quantity(row.lines, job.line) \in Nat
    <3>1. job.line \in Variants /\ row.lines \in Seq(Line)
      BY <1>6, <1>8, WorkIs DEF Row
    <3>2. QED
      BY <2>3, <3>1, FirstIs
  <2>5. back \in Seq(Line)
    BY <1>5, <2>2, <2>4, LineChanged DEF SetLine
  <2>6. PICK r : r = [remote[o] EXCEPT !.lines = back]
    OBVIOUS
  <2>7. /\ r \in [open : BOOLEAN, stage : 1..4, lines : Seq(Line)]
        /\ r.open = remote[o].open /\ r.lines = back
    BY <2>2, <2>5, <2>6
  <2>8. remote' = [remote EXCEPT ![o] = r]
    BY <1>10, <2>6
  <2>9. /\ remote' \in [Orders -> [open : BOOLEAN, stage : 1..4, lines : Seq(Line)]]
        /\ remote'[o] = r /\ \A p \in Orders \ {o} : remote'[p] = remote[p]
    BY <1>8, <2>1, <2>7, <2>8
  <2>10. SidesTyped' /\ \A p \in Orders : remote'[p].open = remote[p].open
    BY <1>6, <2>7, <2>9 DEF SInv, SidesTyped
  <2>11. tx'[w] = Idle /\ \A x \in Workers \ {w} : tx'[x] = tx[x]
    BY <1>6, DeskIs DEF IInv
  <2>14. ASSUME o \notin named' \cup silent' PROVE Agrees(o)'
    <3>1. Agrees(o)
      BY <1>8, <1>10, <2>14 DEF SInv, LinesAgree
    <3>2. EditInHand(tx[w])
      BY <1>1, <1>6, <1>7 DEF EditInHand
    <3>3. /\ Once(row.lines) /\ row.lines = rows[o].lines
          /\ \A x \in Workers : EditInHand(tx[x]) /\ tx[x].job.order = o => x = w
          /\ Same(WrittenLines(job, row, row.lines), ys)
      BY <1>1, <1>2, <1>3, <1>4, <3>1, <3>2 DEF Agrees
    <3>4. Same(row.lines, back)
      BY <1>5, <1>8, <1>10, <2>2, <2>3, <3>3, PutBackAgrees
    <3>5. Same(rows'[o].lines, remote'[o].lines)
      BY <1>6, <2>7, <2>9, <3>3, <3>4
    <3>6. \A x \in Workers : EditInHand(tx'[x]) => tx'[x].job.order # o
      BY <2>11, <3>3 DEF EditInHand
    <3>7. QED
      BY <3>5, <3>6 DEF Agrees
  <2>15. LinesAgree'
    <3>1. SUFFICES ASSUME NEW p \in Orders \ (named' \cup silent') PROVE Agrees(p)'
      BY DEF LinesAgree
    <3>2. CASE p = o
      BY <2>14, <3>1, <3>2
    <3>3. CASE p # o
      <4>1. Agrees(p)
        BY <1>10, <3>1 DEF SInv, LinesAgree
      <4>2. LeavesAlone(p)
        BY <1>1, <1>2, <1>6, <2>9, <2>11, <3>1, <3>3 DEF LeavesAlone, EditInHand
      <4>3. QED
        BY <3>1, <4>1, <4>2, StillAgrees
    <3>4. QED
      BY <3>2, <3>3
  <2>16. LineRead'
    BY <2>11 DEF SInv, LineRead
  <2>17. ClosedThere'
    <3>1. \A x \in Workers : tx'[x] # Idle => tx'[x] = tx[x]
      BY <2>11
    <3>2. QED
      BY <1>6, <1>10, <2>10, <3>1, StaysClosed DEF SInv
  <2>18. QED
    BY <2>10, <2>15, <2>16, <2>17 DEF SInv
<1>11. QED
  BY <1>6, <1>9, <1>10

\* The commit writes what the edit put on Shopify.
LEMMA CommitAgrees ==
    ASSUME IInv, SInv, NEW w \in Workers, Commit(w)
    PROVE  SInv'
<1>1. PICK job : job = tx[w].job
  OBVIOUS
<1>2. PICK o : o = job.order
  OBVIOUS
<1>3. PICK row : row = tx[w].row
  OBVIOUS
<1>4. PICK after : after = StatusAfter(job, row, rows[o].status)
  OBVIOUS
<1>5. PICK ls : ls = WrittenLines(job, row, rows[o].lines)
  OBVIOUS
<1>6. /\ tx[w].at = "called" /\ Ended(w)
      /\ rows' = [rows EXCEPT ![o] = [status |-> after, lines |-> ls]]
      /\ UNCHANGED <<remote, copies, claimed, named, silent>>
  BY <1>1, <1>2, <1>3, <1>4, <1>5 DEF Commit, shopVars
<1>7. tx[w] # Idle
  BY <1>6 DEF Idle
<1>8. /\ o \in Orders /\ job \in Work
      /\ \A p \in Orders \ {o} : rows'[p] = rows[p]
      /\ StatusStays(job, row, o) \/ StatusEnds(job, row, o) \/ StatusAdvances(job, row, o)
  BY <1>1, <1>2, <1>3, <1>7, CommitWrites
<1>10. rows'[o].lines = ls
  <2>1. DOMAIN rows = Orders
    BY DEF IInv, Typed
  <2>2. QED
    BY <1>6, <1>8, <2>1
<1>11. tx'[w] = Idle /\ \A x \in Workers \ {w} : tx'[x] = tx[x]
  BY <1>6, DeskIs DEF IInv
<1>13. SidesTyped'
  BY <1>6 DEF SInv, SidesTyped
<1>14. ASSUME o \notin named' \cup silent' PROVE Agrees(o)'
  <2>1. Agrees(o)
    BY <1>6, <1>8, <1>14 DEF SInv, LinesAgree
  <2>2. CASE job.op \in Edits
    <3>1. EditInHand(tx[w])
      BY <1>1, <1>6, <1>7, <2>2 DEF EditInHand
    <3>2. /\ row.lines = rows[o].lines
          /\ \A x \in Workers : EditInHand(tx[x]) /\ tx[x].job.order = o => x = w
          /\ Same(WrittenLines(job, row, row.lines), remote[o].lines)
      BY <1>1, <1>2, <1>3, <2>1, <3>1 DEF Agrees
    <3>3. Same(rows'[o].lines, remote'[o].lines)
      BY <1>5, <1>6, <1>10, <3>2
    <3>4. \A x \in Workers : EditInHand(tx'[x]) => tx'[x].job.order # o
      BY <1>11, <3>2 DEF EditInHand
    <3>5. QED
      BY <3>3, <3>4 DEF Agrees
  <2>3. CASE job.op \notin Edits
    <3>1. ls = rows[o].lines
      BY <1>5, <2>3 DEF WrittenLines, Edits
    <3>2. ~EditInHand(tx[w])
      BY <1>1, <2>3 DEF EditInHand
    <3>3. LeavesAlone(o)
      BY <1>6, <1>10, <1>11, <3>1, <3>2 DEF LeavesAlone, EditInHand
    <3>4. QED
      BY <1>8, <2>1, <3>3, StillAgrees
  <2>4. QED
    BY <2>2, <2>3
<1>15. LinesAgree'
  <2>1. SUFFICES ASSUME NEW p \in Orders \ (named' \cup silent') PROVE Agrees(p)'
    BY DEF LinesAgree
  <2>2. CASE p = o
    BY <1>14, <2>1, <2>2
  <2>3. CASE p # o
    <3>1. Agrees(p)
      BY <1>6, <2>1 DEF SInv, LinesAgree
    <3>2. LeavesAlone(p)
      BY <1>1, <1>2, <1>6, <1>8, <1>11, <2>1, <2>3 DEF LeavesAlone, EditInHand
    <3>3. QED
      BY <2>1, <3>1, <3>2, StillAgrees
  <2>4. QED
    BY <2>2, <2>3
<1>16. LineRead'
  BY <1>11 DEF SInv, LineRead
<1>17. ClosedThere'
  <2>1. \A p \in Orders : rows'[p].status = "Cancelled" =>
          rows[p].status = "Cancelled" \/ ~remote[p].open \/ p \in named
    <3>1. SUFFICES ASSUME NEW p \in Orders, rows'[p].status = "Cancelled"
                   PROVE  rows[p].status = "Cancelled" \/ ~remote[p].open \/ p \in named
      OBVIOUS
    <3>2. CASE p # o
      BY <1>8, <3>1, <3>2
    <3>3. CASE p = o /\ StatusStays(job, row, o)
      BY <3>1, <3>3 DEF StatusStays
    <3>4. CASE p = o /\ StatusEnds(job, row, o)
      BY <1>1, <1>2, <1>6, <1>7, <3>4 DEF StatusEnds, SInv, ClosedThere
    <3>5. CASE p = o /\ StatusAdvances(job, row, o)
      <4>1. rows'[o].status = Target(job) /\ job.topic \in DOMAIN TOPIC_STATUS
        BY <1>8, <3>5, WorkIs DEF StatusAdvances
      <4>2. Target(job) # "Cancelled"
        BY <4>1, TargetIs DEF Target
      <4>3. QED
        BY <3>1, <3>5, <4>1, <4>2
    <3>6. QED
      BY <1>8, <3>2, <3>3, <3>4, <3>5
  <2>2. \A x \in Workers : tx'[x] # Idle => tx'[x] = tx[x]
    BY <1>11
  <2>3. QED
    BY <1>6, <2>1, <2>2, StaysClosed DEF SInv
<1>18. QED
  BY <1>13, <1>15, <1>16, <1>17 DEF SInv

LEMMA StartAgrees ==
    ASSUME Init
    PROVE  SInv
<1>1. \A w \in Workers : tx[w] = Idle
  BY DEF Init
<1>2. SidesTyped
  BY CountsAssumption DEF Init, SidesTyped
<1>3. ClosedThere
  BY <1>1 DEF Init, ClosedThere
<1>4. LineRead
  BY <1>1 DEF LineRead
<1>5. LinesAgree
  <2>1. SUFFICES ASSUME NEW o \in Orders PROVE Agrees(o)
    BY DEF LinesAgree
  <2>2. rows[o].lines = Placed[o] /\ remote[o].lines = Placed[o]
    BY DEF Init
  <2>3. Once(Placed[o])
    BY CountsAssumption DEF Once, On
  <2>4. Same(rows[o].lines, remote[o].lines)
    BY <2>2, <2>3 DEF Same
  <2>5. QED
    BY <1>1, <2>4 DEF Agrees, EditInHand
<1>6. QED
  BY <1>2, <1>3, <1>4, <1>5 DEF SInv

LEMMA StepAgrees ==
    ASSUME IInv, SInv, [Next]_vars
    PROVE  SInv'
<1>1. CASE UNCHANGED vars
  BY <1>1, AsideAgrees
<1>2. CASE Next
  BY <1>2, AsideAgrees, BeginAgrees, MarkDeliveredAgrees, HandleAgrees, EditLandsAgrees,
     EditRefusedAgrees, CancelCalledAgrees, CommitAgrees, WriteFailsAgrees, CommitFailsAgrees
     DEF Next
<1>3. QED
  BY <1>1, <1>2

\* The order and its Shopify order agree at rest.
LEMMA AtRestAgrees ==
    ASSUME IInv, SInv
    PROVE  DisagreementsKnown
<1>1. SUFFICES ASSUME NEW o \in Orders, AtRest(o), o \notin named \cup silent
               PROVE  SidesAgree(o)
  BY DEF DisagreementsKnown
<1>2. \A w \in Workers : EditInHand(tx[w]) => tx[w].job.order # o
  BY <1>1 DEF AtRest, EditInHand
<1>3. PICK xs, ys : xs = rows[o].lines /\ ys = remote[o].lines
  OBVIOUS
<1>4. Same(xs, ys)
  BY <1>1, <1>2, <1>3 DEF SInv, LinesAgree, Agrees
<1>5. xs \in Seq(Line) /\ ys \in Seq(Line)
  <2>1. rows[o] \in Row /\ remote[o] \in [open : BOOLEAN, stage : 1..4, lines : Seq(Line)]
    BY <1>1 DEF IInv, Typed, SInv, SidesTyped
  <2>2. QED
    BY <1>3, <2>1 DEF Row
<1>6. \A v \in Variants : Units(xs)[v] = Units(ys)[v]
  BY <1>4, <1>5, UnitsAre DEF Same
<1>7. Units(xs) = Units(ys)
  BY <1>6 DEF Units
<1>8. rows[o].status = "Cancelled" => ~remote[o].open
  BY <1>1 DEF SInv, ClosedThere
<1>9. QED
  BY <1>3, <1>7, <1>8 DEF SidesAgree

\* However the transactions of an order overlap, Shopify and the shop disagree about
\* an order at rest (domain/services/orders.py over integrations/shopify/orders.py) only
\* where a log line names it, or where the code leaves none: the reply to an edit lost, an
\* added or swapped line that could not be written, an edit rolled back after its savepoint
\* was released, a swap to an item the order had, two edits that cross.
THEOREM SidesDiffer == Spec => []DisagreementsKnown
<1>1. Init => IInv /\ SInv
  BY Start, StartAgrees
<1>2. IInv /\ SInv /\ [Next]_vars => IInv' /\ SInv'
  BY StepKeeps, StepAgrees
<1>3. IInv /\ SInv => DisagreementsKnown
  BY AtRestAgrees
<1>4. QED
  BY <1>1, <1>2, <1>3, PTL DEF Spec

-----------------------------------------------------------------------------
(* Units on the shelf and on orders (ShelfReservations).                   *)

\* What is known of a row that a transaction updates; of a transaction.
RowMove == [by : Int, least : Nat, takes : Nat]

EditType ==
    [at : {"idle", "reading", "reserving", "moved", "giving", "releasing", "returning",
           "open", "committing"},
     order : OldOrders \cup {None}, view : [Pieces -> Nat], closing : BOOLEAN,
     take : Pieces \cup {None}, units : Nat, give : [Pieces -> Nat],
     item : Pieces \cup {None}, seen : Int, expected : Int, given : SUBSET Pieces,
     moves : [Pieces -> RowMove], moved : SUBSET Pieces,
     verdict : {"none", "insufficient_stock", "store_unavailable", "failed"}]

ShelfTyped ==
    /\ deployment \in Deployments
    /\ onShelf \in [Pieces -> Nat]
    /\ lines \in [OldOrders -> [Pieces -> Nat]]
    /\ closed \subseteq OldOrders
    /\ desk \in [Clerks -> EditType]
    /\ sold \in [Pieces -> Nat]
    /\ count \in {None} \cup (Pieces \X Nat)
    /\ deployment # "shopify" => count = None
    /\ strayed \subseteq Pieces \X Why

\* A transaction's own record fits together.
EditKnown(d) ==
    /\ d.at = "idle" <=> d.order = None
    /\ d.at = "idle" => /\ \A i \in Pieces : d.moves[i] = Unmoved
                        /\ d.moved = {} /\ d.closing = FALSE
    /\ d.at \in {"reading", "reserving", "moved", "returning"} => d.take # None
    /\ d.at = "reserving" => d.units <= d.seen
    /\ d.at = "releasing" => d.item \in StillToGive(d)
    /\ d.take # None /\ d.at # "open" => d.give[d.take] = 0
    /\ \A i \in Pieces : d.give[i] <= d.view[i]
    /\ \A i \in d.given : d.give[i] > 0
    /\ d.at \notin {"giving", "releasing"} => d.given = {}
    /\ d.closing => \/ /\ d.at \in {"giving", "releasing"} /\ d.take = None
                       /\ \A i \in Pieces : d.give[i] = d.view[i]
                    \/ /\ d.at \in {"open", "committing"}
                       /\ \A i \in Pieces : d.view[i] = 0

\* An order is in one transaction, and on SQLite there is one transaction.
OneEditEach ==
    /\ \A c, e \in Clerks : desk[c].order = desk[e].order /\ desk[c].order # None => c = e
    /\ \A c \in Clerks : desk[c].order \notin closed
    /\ deployment = "sqlite" =>
          \A c, e \in Clerks : desk[c].order # None /\ desk[e].order # None => c = e

\* What a transaction has done so far, against the order as it was.  At Shopify:
\* an item it has not moved is as it was, or given up.  With no Shopify: the
\* updates come to the difference; on SQLite what was read holds.
Followed(where, onHand, astray, d, line) ==
    IF where = "shopify"
    THEN /\ \A i \in Pieces \ d.moved : /\ d.view[i] <= line[i]
                                        /\ d.view[i] = line[i] \/ <<i, "logged">> \in astray
         /\ \A i \in d.given : i \in d.moved \/ <<i, "logged">> \in astray
    ELSE /\ d.at \notin {"reserving", "moved", "releasing", "returning"}
         /\ \A i \in Pieces :
              /\ d.moves[i].by = line[i] - d.view[i]
              /\ d.moves[i].takes = 0 => d.moves[i].least = d.moves[i].by
              /\ where = "sqlite" =>
                    /\ d.moves[i].takes <= 1 => d.moves[i].least <= onHand[i] + d.moves[i].by
                    /\ d.at = "giving" /\ i = d.take => d.units <= onHand[i]

DesksKnown ==
    \A c \in Clerks :
        /\ EditKnown(desk[c])
        /\ desk[c].order # None => Followed(deployment, onShelf, strayed, desk[c], lines[desk[c].order])

\* Units of i off the shelf for the order of d; at most those, as far as i can
\* still be on the order when the transaction fails.
Reserved(d, i) == IF i = d.take /\ d.at \in {"giving", "releasing", "returning"} THEN d.units ELSE 0
Given(d, i) == IF i \in d.given THEN d.give[i] ELSE 0
Held(where, d, line, i) ==
    IF where = "shopify" THEN d.view[i] - Given(d, i) + Reserved(d, i) ELSE line[i]
AtMost(where, d, line, i) ==
    IF where = "shopify" /\ i \in d.moved THEN d.view[i] - Given(d, i) + Reserved(d, i)
    ELSE IF where = "shopify" THEN line[i] + Reserved(d, i) ELSE line[i]

\* The units of i on an order that is in no transaction.
AsWritten(shut, ls, o, i) == IF o \in shut THEN 0 ELSE ls[o][i]

HeldShares(where, desks, shut, ls, h, i) ==
    \A o \in OldOrders :
        /\ \A c \in Clerks : desks[c].order = o => h[o] = Held(where, desks[c], ls[o], i)
        /\ (\A c \in Clerks : desks[c].order # o) => h[o] = AsWritten(shut, ls, o, i)

MostShares(where, desks, shut, ls, h, i) ==
    \A o \in OldOrders :
        /\ \A c \in Clerks : desks[c].order = o => h[o] = AtMost(where, desks[c], ls[o], i)
        /\ (\A c \in Clerks : desks[c].order # o) => h[o] = AsWritten(shut, ls, o, i)

\* The code gave units of i up in a way that may sell them twice.
Excused(where, astray, i) ==
    \/ \E why \in {"uncommitted", "half_undone", "overwritten", "unseen"} : <<i, why>> \in astray
    \/ where = "postgres" /\ <<i, "raced">> \in astray

\* Every unit is on the shelf, held for an order, sold by the storefront or given up.
Balanced ==
    \A i \in Pieces : \E h \in [OldOrders -> Nat] :
        /\ HeldShares(deployment, desk, closed, lines, h, i)
        /\ Strayed(i, Why) \/ onShelf[i] + Total(h) + sold[i] = Whole(i)

\* And there are not more of them than there were.
Bounded ==
    \A i \in Pieces : \E h \in [OldOrders -> Nat] :
        /\ MostShares(deployment, desk, closed, lines, h, i)
        /\ Excused(deployment, strayed, i) \/ onShelf[i] + Total(h) + sold[i] <= Whole(i)

ShelfInv == ShelfTyped /\ OneEditEach /\ DesksKnown /\ Balanced /\ Bounded

-----------------------------------------------------------------------------
(* Counting units.                                                         *)

\* n units of one thing are n.
LEMMA UnitsOfOne ==
    ASSUME NEW x, NEW n \in Nat
    PROVE  IsFiniteSet({x} \X (1 .. n)) /\ Cardinality({x} \X (1 .. n)) = n
<1>1. IsFiniteSet({x}) /\ Cardinality({x}) = 1
  BY FS_Singleton
<1>2. IsFiniteSet(1 .. n) /\ Cardinality(1 .. n) = n
  BY FS_Interval
<1>3. /\ IsFiniteSet({x} \X (1 .. n))
      /\ Cardinality({x} \X (1 .. n)) = Cardinality({x}) * Cardinality(1 .. n)
  BY <1>1, <1>2, FS_Product
<1>4. QED
  BY <1>1, <1>2, <1>3

\* Units of finitely many things are finitely many.
LEMMA UnitsFinite ==
    ASSUME NEW D, IsFiniteSet(D), NEW f \in [D -> Nat]
    PROVE  IsFiniteSet(UNION {{x} \X (1 .. f[x]) : x \in D})
<1> DEFINE A == {{x} \X (1 .. f[x]) : x \in D}
           g == [x \in D |-> {x} \X (1 .. f[x])]
<1>1. g \in Surjection(D, A)
  <2>1. g \in [D -> A] /\ \A T \in A : \E x \in D : g[x] = T
    OBVIOUS
  <2> HIDE DEF A, g
  <2>2. QED
    BY <2>1 DEF Surjection
<1>2. IsFiniteSet(A)
  <2> HIDE DEF A, g
  <2>1. PICK k \in Surjection(D, A) : TRUE
    BY <1>1
  <2>2. QED
    BY <2>1, FS_Surjection
<1>3. \A T \in A : IsFiniteSet(T)
  <2> SUFFICES ASSUME NEW x \in D PROVE IsFiniteSet({x} \X (1 .. f[x]))
    OBVIOUS
  <2>1. PICK n \in Nat : n = f[x]
    OBVIOUS
  <2>2. QED
    BY <2>1, UnitsOfOne
<1>4. QED
  <2> HIDE DEF A
  <2>1. IsFiniteSet(UNION A)
    BY <1>2, <1>3, FS_UNION
  <2>2. QED
    BY <2>1 DEF A

LEMMA TotalType ==
    ASSUME NEW D, IsFiniteSet(D), NEW f \in [D -> Nat]
    PROVE  Total(f) \in Nat
<1>1. DOMAIN f = D
  OBVIOUS
<1>2. QED
  BY <1>1, UnitsFinite, FS_CardinalityType DEF Total

\* Changing how many there are of one changes the total by the difference.
LEMMA TotalChanges ==
    ASSUME NEW D, IsFiniteSet(D), NEW f \in [D -> Nat], NEW x \in D, NEW n \in Nat
    PROVE  Total([f EXCEPT ![x] = n]) = Total(f) - f[x] + n
<1> DEFINE rest == UNION {{y} \X (1 .. f[y]) : y \in D \ {x}}
           g == [f EXCEPT ![x] = n]
<1>1. /\ g \in [D -> Nat] /\ DOMAIN f = D /\ DOMAIN g = D
      /\ g[x] = n /\ \A y \in D \ {x} : g[y] = f[y]
  OBVIOUS
<1>2. IsFiniteSet(rest)
  <2> DEFINE k == [y \in D \ {x} |-> f[y]]
  <2>1. IsFiniteSet(D \ {x})
    BY FS_RemoveElement
  <2>2. k \in [D \ {x} -> Nat]
    OBVIOUS
  <2>3. IsFiniteSet(UNION {{y} \X (1 .. k[y]) : y \in D \ {x}})
    <3> HIDE DEF k
    <3>1. QED
      BY <2>1, <2>2, UnitsFinite
  <2>4. QED
    BY <2>3
<1>3. ASSUME NEW m \in Nat
      PROVE  Cardinality(rest \cup ({x} \X (1 .. m))) = Cardinality(rest) + m
  <2>1. PICK T : T = {x} \X (1 .. m)
    OBVIOUS
  <2>2. IsFiniteSet(T) /\ Cardinality(T) = m
    BY <2>1, UnitsOfOne
  <2>3. rest \cap T = {}
    BY <2>1
  <2> HIDE DEF rest
  <2>4. Cardinality(rest \cup T) = Cardinality(rest) + Cardinality(T) - Cardinality(rest \cap T)
    BY <1>2, <2>2, FS_Union
  <2>5. Cardinality(rest \cap T) = 0 /\ Cardinality(rest) \in Nat
    BY <1>2, <2>3, FS_EmptySet, FS_CardinalityType
  <2>6. QED
    BY <2>1, <2>2, <2>4, <2>5
<1>4. UNION {{y} \X (1 .. f[y]) : y \in D} = rest \cup ({x} \X (1 .. f[x]))
  OBVIOUS
<1>5. UNION {{y} \X (1 .. g[y]) : y \in D} = rest \cup ({x} \X (1 .. n))
  <2>1. \A p : p \in UNION {{y} \X (1 .. g[y]) : y \in D}
                 <=> p \in rest \/ p \in {x} \X (1 .. n)
    BY <1>1
  <2>2. QED
    BY <2>1
<1>6. Total(f) = Cardinality(rest) + f[x]
  <2>1. Total(f) = Cardinality(UNION {{y} \X (1 .. f[y]) : y \in D})
    BY <1>1 DEF Total
  <2>2. f[x] \in Nat
    OBVIOUS
  <2> HIDE DEF rest, g
  <2>3. QED
    BY <1>3, <1>4, <2>1, <2>2
<1>7. Total(g) = Cardinality(rest) + n
  <2>1. Total(g) = Cardinality(UNION {{y} \X (1 .. g[y]) : y \in D})
    BY <1>1 DEF Total
  <2> HIDE DEF rest, g
  <2>2. QED
    BY <1>3, <1>5, <2>1
<1>8. Cardinality(rest) \in Nat
  BY <1>2, FS_CardinalityType
<1>9. QED
  <2> HIDE DEF rest
  <2>1. QED
    BY <1>6, <1>7, <1>8

-----------------------------------------------------------------------------
(* A step of one clerk.                                                    *)

HeldOf(where, d, shut, ls, o, i) ==
    IF d.order = o THEN Held(where, d, ls[o], i) ELSE AsWritten(shut, ls, o, i)

MostOf(where, d, shut, ls, o, i) ==
    IF d.order = o THEN AtMost(where, d, ls[o], i) ELSE AsWritten(shut, ls, o, i)

\* A step of c leaves its record as d, touches no order but o, and moves units only
\* between the shelf and what is held for o, or gives them up.
Evens(c, o, d) ==
    /\ \A i \in Pieces :
          \/ \E why \in Why : <<i, why>> \in strayed'
          \/ onShelf'[i] + HeldOf(deployment, d, closed', lines', o, i)
                = onShelf[i] + HeldOf(deployment, desk[c], closed, lines, o, i)
    /\ \A i \in Pieces :
          \/ Excused(deployment, strayed', i)
          \/ onShelf'[i] + MostOf(deployment, d, closed', lines', o, i)
                <= onShelf[i] + MostOf(deployment, desk[c], closed, lines, o, i)

Touches(c, o, d) ==
    /\ desk' = [desk EXCEPT ![c] = d] /\ d \in EditType
    /\ deployment' = deployment /\ sold' = sold /\ count' = count
    /\ desk[c].order \in {o, None} /\ d.order \in {o, None}
    /\ \A e \in Clerks \ {c} : desk[e].order # o
    /\ deployment = "sqlite" => \A e \in Clerks \ {c} : desk[e].order = None
    /\ o \notin closed /\ closed' \in {closed, closed \cup {o}}
    /\ lines' \in [OldOrders -> [Pieces -> Nat]]
    /\ \A p \in OldOrders \ {o} : lines'[p] = lines[p]
    /\ d.order = o => lines' = lines /\ closed' = closed
    /\ onShelf' \in [Pieces -> Nat]
    /\ strayed \subseteq strayed' /\ strayed' \subseteq Pieces \X Why
    /\ EditKnown(d)
    /\ d.order = o => Followed(deployment, onShelf', strayed', d, lines[o])

LEMMA HeldType ==
    ASSUME NEW where, NEW d \in EditType, EditKnown(d), NEW line \in [Pieces -> Nat],
           NEW i \in Pieces
    PROVE  Held(where, d, line, i) \in Nat /\ AtMost(where, d, line, i) \in Nat
<1>1. d.view[i] \in Nat /\ d.give[i] \in Nat /\ d.units \in Nat /\ line[i] \in Nat
  BY DEF EditType
<1>2. d.give[i] <= d.view[i]
  BY DEF EditKnown
<1>3. Given(d, i) \in Nat /\ Given(d, i) <= d.view[i] /\ Reserved(d, i) \in Nat
  BY <1>1, <1>2 DEF Given, Reserved
<1>4. QED
  BY <1>1, <1>3 DEF Held, AtMost

LEMMA FollowedStays ==
    ASSUME NEW where, NEW onHand, NEW later, where # "sqlite" \/ later = onHand,
           NEW astray, NEW more, astray \subseteq more, NEW d, NEW line,
           Followed(where, onHand, astray, d, line)
    PROVE  Followed(where, later, more, d, line)
BY DEF Followed

\* The books with one order's share changed.
LEMMA HeldSharesChange ==
    ASSUME ShelfTyped, NEW c \in Clerks, NEW o \in OldOrders, NEW d, Touches(c, o, d),
           NEW i \in Pieces, NEW h \in [OldOrders -> Nat],
           HeldShares(deployment, desk, closed, lines, h, i)
    PROVE  /\ h[o] = HeldOf(deployment, desk[c], closed, lines, o, i)
           /\ HeldShares(deployment', desk', closed', lines',
                 [h EXCEPT ![o] = HeldOf(deployment, d, closed', lines', o, i)], i)
<1> DEFINE n == HeldOf(deployment, d, closed', lines', o, i)
           g == [h EXCEPT ![o] = n]
<1>1. PICK desks : desks = desk'
  OBVIOUS
<1>2. PICK ls : ls = lines'
  OBVIOUS
<1>3. PICK shut : shut = closed'
  OBVIOUS
<1>4. /\ desks[c] = d /\ \A e \in Clerks \ {c} : desks[e] = desk[e]
      /\ \A e \in Clerks \ {c} : desk[e].order # o
      /\ desk[c].order \in {o, None} /\ d.order \in {o, None} /\ None \notin OldOrders
      /\ \A p \in OldOrders \ {o} : ls[p] = lines[p] /\ (p \in shut <=> p \in closed)
      /\ deployment' = deployment
  BY <1>1, <1>2, <1>3, ShelfAssumption DEF Touches, ShelfTyped
<1>5. g[o] = n /\ \A p \in OldOrders \ {o} : g[p] = h[p]
  OBVIOUS
<1>6. h[o] = HeldOf(deployment, desk[c], closed, lines, o, i)
  BY <1>4 DEF HeldShares, HeldOf
<1>7. ASSUME NEW p \in OldOrders \ {o}
      PROVE  /\ desks[c].order # p /\ desk[c].order # p
             /\ \A e \in Clerks : desks[e].order = p <=> desk[e].order = p
             /\ AsWritten(shut, ls, p, i) = AsWritten(closed, lines, p, i)
  BY <1>4 DEF AsWritten
<1>8. n = HeldOf(deployment, d, shut, ls, o, i)
  BY <1>2, <1>3
<1> HIDE DEF n
<1>9. ASSUME NEW p \in OldOrders
      PROVE  /\ \A e \in Clerks : desks[e].order = p => g[p] = Held(deployment, desks[e], ls[p], i)
             /\ (\A e \in Clerks : desks[e].order # p) => g[p] = AsWritten(shut, ls, p, i)
  <2>1. CASE p = o
    BY <1>4, <1>5, <1>8, <2>1 DEF HeldOf
  <2>2. CASE p # o
    BY <1>4, <1>5, <1>7, <2>2 DEF HeldShares
  <2>3. QED
    BY <2>1, <2>2
<1>10. HeldShares(deployment', desk', closed', lines', g, i)
  <2> HIDE DEF g
  <2>1. QED
    BY <1>1, <1>2, <1>3, <1>4, <1>9 DEF HeldShares
<1>11. QED
  BY <1>6, <1>10 DEF n

LEMMA MostSharesChange ==
    ASSUME ShelfTyped, NEW c \in Clerks, NEW o \in OldOrders, NEW d, Touches(c, o, d),
           NEW i \in Pieces, NEW h \in [OldOrders -> Nat],
           MostShares(deployment, desk, closed, lines, h, i)
    PROVE  /\ h[o] = MostOf(deployment, desk[c], closed, lines, o, i)
           /\ MostShares(deployment', desk', closed', lines',
                 [h EXCEPT ![o] = MostOf(deployment, d, closed', lines', o, i)], i)
<1> DEFINE n == MostOf(deployment, d, closed', lines', o, i)
           g == [h EXCEPT ![o] = n]
<1>1. PICK desks : desks = desk'
  OBVIOUS
<1>2. PICK ls : ls = lines'
  OBVIOUS
<1>3. PICK shut : shut = closed'
  OBVIOUS
<1>4. /\ desks[c] = d /\ \A e \in Clerks \ {c} : desks[e] = desk[e]
      /\ \A e \in Clerks \ {c} : desk[e].order # o
      /\ desk[c].order \in {o, None} /\ d.order \in {o, None} /\ None \notin OldOrders
      /\ \A p \in OldOrders \ {o} : ls[p] = lines[p] /\ (p \in shut <=> p \in closed)
      /\ deployment' = deployment
  BY <1>1, <1>2, <1>3, ShelfAssumption DEF Touches, ShelfTyped
<1>5. g[o] = n /\ \A p \in OldOrders \ {o} : g[p] = h[p]
  OBVIOUS
<1>6. h[o] = MostOf(deployment, desk[c], closed, lines, o, i)
  BY <1>4 DEF MostShares, MostOf
<1>7. ASSUME NEW p \in OldOrders \ {o}
      PROVE  /\ desks[c].order # p /\ desk[c].order # p
             /\ \A e \in Clerks : desks[e].order = p <=> desk[e].order = p
             /\ AsWritten(shut, ls, p, i) = AsWritten(closed, lines, p, i)
  BY <1>4 DEF AsWritten
<1>8. n = MostOf(deployment, d, shut, ls, o, i)
  BY <1>2, <1>3
<1> HIDE DEF n
<1>9. ASSUME NEW p \in OldOrders
      PROVE  /\ \A e \in Clerks : desks[e].order = p => g[p] = AtMost(deployment, desks[e], ls[p], i)
             /\ (\A e \in Clerks : desks[e].order # p) => g[p] = AsWritten(shut, ls, p, i)
  <2>1. CASE p = o
    BY <1>4, <1>5, <1>8, <2>1 DEF MostOf
  <2>2. CASE p # o
    BY <1>4, <1>5, <1>7, <2>2 DEF MostShares
  <2>3. QED
    BY <2>1, <2>2
<1>10. MostShares(deployment', desk', closed', lines', g, i)
  <2> HIDE DEF g
  <2>1. QED
    BY <1>1, <1>2, <1>3, <1>4, <1>9 DEF MostShares
<1>11. QED
  BY <1>6, <1>10 DEF n

\* What was known of the transactions is known after such a step.
LEMMA TouchesKnown ==
    ASSUME ShelfTyped, OneEditEach, DesksKnown, NEW c \in Clerks, NEW o \in OldOrders,
           NEW d, Touches(c, o, d)
    PROVE  ShelfTyped' /\ OneEditEach' /\ DesksKnown'
<1>1. PICK desks : desks = desk'
  OBVIOUS
<1>2. /\ desks \in [Clerks -> EditType]
      /\ desks[c] = d /\ \A e \in Clerks \ {c} : desks[e] = desk[e]
  BY <1>1 DEF Touches, ShelfTyped
<1>3. closed' \subseteq OldOrders /\ closed' \subseteq closed \cup {o}
  BY DEF Touches, ShelfTyped
<1>4. ShelfTyped'
  <2>1. desk' \in [Clerks -> EditType]
    BY <1>1, <1>2
  <2>2. QED
    BY <1>3, <2>1 DEF Touches, ShelfTyped
<1>5. /\ \A e \in Clerks \ {c} : desk[e].order # o
      /\ d.order \in {o, None} /\ None \notin OldOrders
      /\ d.order = o => closed' = closed /\ lines' = lines
      /\ o \notin closed
  BY ShelfAssumption DEF Touches
<1>6. OneEditEach'
  <2>1. \A a, e \in Clerks : desks[a].order = desks[e].order /\ desks[a].order # None => a = e
    BY <1>2, <1>5 DEF OneEditEach
  <2>2. \A e \in Clerks : desks[e].order \notin closed'
    BY <1>2, <1>3, <1>5 DEF OneEditEach
  <2>3. deployment' = "sqlite" =>
          \A a, e \in Clerks : desks[a].order # None /\ desks[e].order # None => a = e
    BY <1>2 DEF Touches
  <2>4. QED
    BY <1>1, <2>1, <2>2, <2>3 DEF OneEditEach
<1>7. ASSUME NEW e \in Clerks
      PROVE  /\ EditKnown(desks[e])
             /\ desks[e].order # None
                  => Followed(deployment, onShelf', strayed', desks[e], lines'[desks[e].order])
  <2>1. CASE e = c
    <3>1. EditKnown(d)
      BY DEF Touches
    <3>2. d.order # None => Followed(deployment, onShelf', strayed', d, lines'[d.order])
      BY <1>5 DEF Touches
    <3>3. QED
      BY <1>2, <2>1, <3>1, <3>2
  <2>2. CASE e # c
    <3>1. desks[e] = desk[e] /\ desk[e].order # o
      BY <1>2, <1>5, <2>2
    <3>2. EditKnown(desk[e])
      BY DEF DesksKnown
    <3>3. ASSUME desk[e].order # None
          PROVE  Followed(deployment, onShelf', strayed', desk[e], lines'[desk[e].order])
      <4>1. desk[e].order \in OldOrders \ {o}
        BY <3>1, <3>3 DEF ShelfTyped, EditType
      <4>2. lines'[desk[e].order] = lines[desk[e].order]
        BY <4>1 DEF Touches
      <4>3. Followed(deployment, onShelf, strayed, desk[e], lines[desk[e].order])
        BY <3>3 DEF DesksKnown
      <4>4. deployment # "sqlite" /\ strayed \subseteq strayed'
        BY <2>2, <3>3 DEF Touches
      <4>5. Followed(deployment, onShelf', strayed', desk[e], lines[desk[e].order])
        BY <4>3, <4>4, FollowedStays
      <4>6. QED
        BY <4>2, <4>5
    <3>4. QED
      BY <3>1, <3>2, <3>3
  <2>3. QED
    BY <2>1, <2>2
<1>8. DesksKnown'
  <2>1. deployment' = deployment
    BY DEF Touches
  <2>2. QED
    BY <1>1, <1>7, <2>1 DEF DesksKnown
<1>9. QED
  BY <1>4, <1>6, <1>8

LEMMA ShelfStepKeeps ==
    ASSUME ShelfInv, NEW c \in Clerks, NEW o \in OldOrders, NEW d,
           Touches(c, o, d), Evens(c, o, d)
    PROVE  ShelfInv'
<1>1. ShelfTyped /\ OneEditEach /\ DesksKnown
  BY DEF ShelfInv
<1>2. ShelfTyped' /\ OneEditEach' /\ DesksKnown'
  BY <1>1, TouchesKnown
<1>3. d \in EditType /\ EditKnown(d) /\ sold' = sold /\ deployment' = deployment
  BY DEF Touches
<1>4. IsFiniteSet(OldOrders)
  BY ShelfAssumption
<1>5. ASSUME NEW i \in Pieces
      PROVE  /\ HeldOf(deployment, d, closed', lines', o, i) \in Nat
             /\ MostOf(deployment, d, closed', lines', o, i) \in Nat
  <2>1. lines' \in [OldOrders -> [Pieces -> Nat]]
    BY DEF Touches
  <2>2. PICK line : line = lines'[o]
    OBVIOUS
  <2>3. line \in [Pieces -> Nat] /\ line[i] \in Nat
    BY <2>1, <2>2
  <2>4. Held(deployment, d, line, i) \in Nat /\ AtMost(deployment, d, line, i) \in Nat
    BY <1>3, <2>3, HeldType
  <2>5. AsWritten(closed', lines', o, i) \in Nat
    BY <2>2, <2>3 DEF AsWritten
  <2>6. QED
    BY <2>2, <2>4, <2>5 DEF HeldOf, MostOf
<1>6. ASSUME NEW i \in Pieces
      PROVE  onShelf[i] \in Nat /\ onShelf'[i] \in Nat /\ sold[i] \in Nat /\ Whole(i)' = Whole(i)
  BY <1>1, <1>2 DEF ShelfTyped, Whole
<1>7. Balanced'
  <2> SUFFICES ASSUME NEW i \in Pieces
               PROVE  (\E h \in [OldOrders -> Nat] :
                         /\ HeldShares(deployment, desk, closed, lines, h, i)
                         /\ Strayed(i, Why) \/ onShelf[i] + Total(h) + sold[i] = Whole(i))'
    BY DEF Balanced
  <2>1. PICK h \in [OldOrders -> Nat] :
            /\ HeldShares(deployment, desk, closed, lines, h, i)
            /\ Strayed(i, Why) \/ onShelf[i] + Total(h) + sold[i] = Whole(i)
    BY DEF ShelfInv, Balanced
  <2>2. PICK n \in Nat : n = HeldOf(deployment, d, closed', lines', o, i)
    BY <1>5
  <2>3. PICK g \in [OldOrders -> Nat] : g = [h EXCEPT ![o] = n]
    OBVIOUS
  <2>4. HeldShares(deployment', desk', closed', lines', g, i) /\ h[o] = HeldOf(deployment, desk[c], closed, lines, o, i)
    <3>1. /\ h[o] = HeldOf(deployment, desk[c], closed, lines, o, i)
          /\ HeldShares(deployment', desk', closed', lines',
                [h EXCEPT ![o] = HeldOf(deployment, d, closed', lines', o, i)], i)
      BY <1>1, <2>1, HeldSharesChange, Zenon
    <3>2. QED
      BY <2>2, <2>3, <3>1
  <2>5. /\ Total(g) = Total(h) - h[o] + n
        /\ Total(h) \in Nat /\ Total(g) \in Nat /\ h[o] \in Nat
    <3>1. Total([h EXCEPT ![o] = n]) = Total(h) - h[o] + n
      BY <1>4, TotalChanges, Zenon
    <3>2. Total(h) \in Nat /\ Total(g) \in Nat
      BY <1>4, TotalType, Zenon
    <3>3. QED
      BY <2>3, <3>1, <3>2
  <2>6. CASE \E why \in Why : <<i, why>> \in strayed'
    BY <2>4, <2>6 DEF Strayed
  <2>7. CASE ~ \E why \in Why : <<i, why>> \in strayed'
    <3>1. onShelf'[i] + n = onShelf[i] + h[o]
      BY <2>2, <2>4, <2>7 DEF Evens
    <3>2. ~Strayed(i, Why)
      BY <2>7 DEF Strayed, Touches
    <3>3. onShelf[i] + Total(h) + sold[i] = Whole(i)
      BY <2>1, <3>2
    <3>4. onShelf'[i] + Total(g) + sold'[i] = Whole(i)'
      BY <1>3, <1>6, <2>5, <3>1, <3>3
    <3>5. QED
      BY <2>4, <3>4
  <2>8. QED
    BY <2>6, <2>7
<1>8. Bounded'
  <2> SUFFICES ASSUME NEW i \in Pieces
               PROVE  (\E h \in [OldOrders -> Nat] :
                         /\ MostShares(deployment, desk, closed, lines, h, i)
                         /\ \/ Excused(deployment, strayed, i)
                            \/ onShelf[i] + Total(h) + sold[i] <= Whole(i))'
    BY DEF Bounded
  <2>1. PICK h \in [OldOrders -> Nat] :
            /\ MostShares(deployment, desk, closed, lines, h, i)
            /\ Excused(deployment, strayed, i) \/ onShelf[i] + Total(h) + sold[i] <= Whole(i)
    BY DEF ShelfInv, Bounded
  <2>2. PICK n \in Nat : n = MostOf(deployment, d, closed', lines', o, i)
    BY <1>5
  <2>3. PICK g \in [OldOrders -> Nat] : g = [h EXCEPT ![o] = n]
    OBVIOUS
  <2>4. MostShares(deployment', desk', closed', lines', g, i) /\ h[o] = MostOf(deployment, desk[c], closed, lines, o, i)
    <3>1. /\ h[o] = MostOf(deployment, desk[c], closed, lines, o, i)
          /\ MostShares(deployment', desk', closed', lines',
                [h EXCEPT ![o] = MostOf(deployment, d, closed', lines', o, i)], i)
      BY <1>1, <2>1, MostSharesChange, Zenon
    <3>2. QED
      BY <2>2, <2>3, <3>1
  <2>5. /\ Total(g) = Total(h) - h[o] + n
        /\ Total(h) \in Nat /\ Total(g) \in Nat /\ h[o] \in Nat
    <3>1. Total([h EXCEPT ![o] = n]) = Total(h) - h[o] + n
      BY <1>4, TotalChanges, Zenon
    <3>2. Total(h) \in Nat /\ Total(g) \in Nat
      BY <1>4, TotalType, Zenon
    <3>3. QED
      BY <2>3, <3>1, <3>2
  <2>6. CASE Excused(deployment, strayed', i)
    <3>1. Excused(deployment, strayed, i)'
      BY <1>3, <2>6
    <3>2. QED
      BY <2>4, <3>1
  <2>7. CASE ~Excused(deployment, strayed', i)
    <3>1. onShelf'[i] + n <= onShelf[i] + h[o]
      BY <2>2, <2>4, <2>7 DEF Evens
    <3>2. ~Excused(deployment, strayed, i)
      BY <2>7 DEF Excused, Touches
    <3>3. onShelf[i] + Total(h) + sold[i] <= Whole(i)
      BY <2>1, <3>2
    <3>4. Whole(i) \in Int
      <4>1. PICK f : f = [p \in OldOrders |-> OnOrder[p][i]]
        OBVIOUS
      <4>2. f \in [OldOrders -> Nat] /\ Stock[i] \in Nat
        BY <4>1, ShelfAssumption
      <4>3. QED
        BY <1>4, <4>1, <4>2, TotalType DEF Whole
    <3>5. onShelf'[i] + Total(g) + sold'[i] <= Whole(i)'
      BY <1>3, <1>6, <2>5, <3>1, <3>3, <3>4
    <3>6. QED
      BY <2>4, <3>5
  <2>8. QED
    BY <2>6, <2>7
<1>9. QED
  BY <1>2, <1>7, <1>8 DEF ShelfInv

-----------------------------------------------------------------------------
(* The steps of a transaction.                                             *)

\* What is known of a clerk who has an order open.
LEMMA OrderOpen ==
    ASSUME ShelfInv, NEW c \in Clerks, desk[c].at # "idle"
    PROVE  /\ desk[c] \in EditType /\ desk \in [Clerks -> EditType] /\ EditKnown(desk[c])
           /\ desk[c].order \in OldOrders /\ desk[c].order \notin closed
           /\ Followed(deployment, onShelf, strayed, desk[c], lines[desk[c].order])
           /\ lines[desk[c].order] \in [Pieces -> Nat]
           /\ \A e \in Clerks \ {c} : desk[e].order # desk[c].order
           /\ deployment = "sqlite" => \A e \in Clerks \ {c} : desk[e].order = None
<1>1. ShelfTyped /\ OneEditEach /\ DesksKnown
  BY DEF ShelfInv
<1>2. desk[c] \in EditType /\ desk \in [Clerks -> EditType]
  BY <1>1 DEF ShelfTyped
<1>3. EditKnown(desk[c])
  BY <1>1 DEF DesksKnown
<1>4. desk[c].order # None
  BY <1>3 DEF EditKnown
<1>5. desk[c].order \in OldOrders
  BY <1>2, <1>4 DEF EditType
<1>6. lines[desk[c].order] \in [Pieces -> Nat]
  BY <1>1, <1>5 DEF ShelfTyped
<1>7. Followed(deployment, onShelf, strayed, desk[c], lines[desk[c].order])
  BY <1>1, <1>4 DEF DesksKnown
<1>8. /\ desk[c].order \notin closed
      /\ \A e \in Clerks \ {c} : desk[e].order # desk[c].order
      /\ deployment = "sqlite" => \A e \in Clerks \ {c} : desk[e].order = None
  BY <1>1, <1>4 DEF OneEditEach
<1>9. QED
  BY <1>2, <1>3, <1>5, <1>6, <1>7, <1>8

\* A step that leaves the order open.
LEMMA WithinEdit ==
    ASSUME ShelfInv, NEW c \in Clerks, desk[c].at # "idle",
           NEW d \in EditType, d.order = desk[c].order, desk' = [desk EXCEPT ![c] = d],
           UNCHANGED <<deployment, lines, closed, sold, count>>,
           onShelf' \in [Pieces -> Nat], strayed \subseteq strayed',
           strayed' \subseteq Pieces \X Why, EditKnown(d),
           Followed(deployment, onShelf', strayed', d, lines[d.order]),
           \A i \in Pieces :
              /\ \/ \E why \in Why : <<i, why>> \in strayed'
                 \/ onShelf'[i] + Held(deployment, d, lines[d.order], i)
                       = onShelf[i] + Held(deployment, desk[c], lines[d.order], i)
              /\ \/ Excused(deployment, strayed', i)
                 \/ onShelf'[i] + AtMost(deployment, d, lines[d.order], i)
                       <= onShelf[i] + AtMost(deployment, desk[c], lines[d.order], i)
    PROVE  ShelfInv'
<1>1. PICK o \in OldOrders : o = d.order
  BY OrderOpen
<1>2. Touches(c, o, d)
  <2>1. lines \in [OldOrders -> [Pieces -> Nat]]
    BY DEF ShelfInv, ShelfTyped
  <2>2. /\ o \notin closed
        /\ \A e \in Clerks \ {c} : desk[e].order # o
        /\ deployment = "sqlite" => \A e \in Clerks \ {c} : desk[e].order = None
    BY <1>1, OrderOpen
  <2>3. QED
    BY <1>1, <2>1, <2>2 DEF Touches
<1>3. Evens(c, o, d)
  BY <1>1 DEF Evens, HeldOf, MostOf
<1>4. QED
  BY <1>2, <1>3, ShelfStepKeeps

\* e is d after a refusal.
IsRefusal(d, e) ==
    /\ e \in EditType /\ e.at = "open" /\ e.order = d.order /\ e.view = d.view
    /\ e.moved = d.moved /\ e.moves = d.moves
    /\ e.give = Nothing /\ e.given = {} /\ e.closing = FALSE

LEMMA RefusedType ==
    ASSUME NEW d \in EditType, NEW v \in {"insufficient_stock", "store_unavailable", "failed"}
    PROVE  IsRefusal(d, Refused(d, v))
<1>1. Nothing \in [Pieces -> Nat]
  BY DEF Nothing
<1>2. Refused(d, v) \in EditType
  BY <1>1 DEF Refused, EditType
<1>3. QED
  BY <1>2 DEF Refused, IsRefusal, EditType

\* An edit that was refused, before it had moved anything.
LEMMA RefusedIs ==
    ASSUME NEW d \in EditType, EditKnown(d), NEW e, IsRefusal(d, e),
           d.at \in {"reading", "reserving", "moved"}
    PROVE  /\ EditKnown(e)
           /\ \A where, onHand, astray, line :
                 Followed(where, onHand, astray, d, line) => Followed(where, onHand, astray, e, line)
           /\ \A where, line : \A i \in Pieces :
                 /\ Held(where, e, line, i) = Held(where, d, line, i)
                 /\ AtMost(where, e, line, i) = AtMost(where, d, line, i)
<1> USE DEF IsRefusal
<1>1. d.given = {} /\ d.order # None
  BY DEF EditKnown
<1>2. EditKnown(e)
  BY <1>1 DEF EditKnown, Nothing, EditType
<1>3. \A where, onHand, astray, line :
        Followed(where, onHand, astray, d, line) => Followed(where, onHand, astray, e, line)
  BY DEF Followed
<1>4. \A i \in Pieces : Given(d, i) = Given(e, i) /\ Reserved(d, i) = Reserved(e, i)
  BY <1>1 DEF Given, Reserved
<1>5. QED
  BY <1>2, <1>3, <1>4 DEF Held, AtMost

\* An edit begins: nothing has moved.
LEMMA BeginEditKeeps ==
    ASSUME ShelfInv, NEW c \in Clerks, NEW o \in OldOrders, NEW take \in Pieces \cup {None},
           NEW units \in Nat, NEW give \in [Pieces -> Nat], NEW closing \in BOOLEAN,
           BeginEdit(c, o, take, units, give, closing),
           \A i \in Pieces : give[i] <= OrderSeen(c, o)[i],
           take # None => give[take] = 0,
           closing => take = None /\ \A i \in Pieces : give[i] = OrderSeen(c, o)[i]
    PROVE  ShelfInv'
<1>1. /\ ShelfTyped /\ OneEditEach /\ DesksKnown
      /\ desk \in [Clerks -> EditType] /\ desk[c] \in EditType /\ EditKnown(desk[c])
      /\ lines \in [OldOrders -> [Pieces -> Nat]] /\ lines[o] \in [Pieces -> Nat]
      /\ None \notin OldOrders /\ None \notin Pieces
  <2>1. ShelfTyped /\ OneEditEach /\ DesksKnown
    BY DEF ShelfInv
  <2>2. desk \in [Clerks -> EditType] /\ lines \in [OldOrders -> [Pieces -> Nat]]
    BY <2>1 DEF ShelfTyped
  <2>3. QED
    BY <2>1, <2>2, ShelfAssumption DEF DesksKnown
<1>2. PICK view : view = OrderSeen(c, o)
  OBVIOUS
<1>3. view \in [Pieces -> Nat]
  BY <1>1, <1>2 DEF OrderSeen, EditType
<1>4. PICK d \in EditType :
          /\ desk' = [desk EXCEPT ![c] = d]
          /\ d.at = IF take # None THEN "reading" ELSE "giving"
          /\ d.order = o /\ d.view = view /\ d.closing = closing /\ d.take = take
          /\ d.units = units /\ d.give = give /\ d.given = {}
          /\ d.moves = desk[c].moves /\ d.moved = desk[c].moved
  <2> DEFINE d == [desk[c] EXCEPT !.at = IF take # None THEN "reading" ELSE "giving",
                    !.order = o, !.view = view, !.closing = closing,
                    !.take = take, !.units = units, !.give = give,
                    !.given = {}, !.verdict = "none"]
  <2>1. desk' = [desk EXCEPT ![c] = d]
    BY <1>1, <1>2 DEF BeginEdit
  <2>2. d \in EditType
    BY <1>1, <1>3 DEF EditType
  <2>3. /\ d.at = IF take # None THEN "reading" ELSE "giving"
        /\ d.order = o /\ d.view = view /\ d.closing = closing /\ d.take = take
        /\ d.units = units /\ d.give = give /\ d.given = {}
        /\ d.moves = desk[c].moves /\ d.moved = desk[c].moved
    BY <1>1 DEF EditType
  <2> HIDE DEF d
  <2>4. QED
    BY <2>1, <2>2, <2>3
<1>5. EditKnown(d)
  BY <1>1, <1>2, <1>4 DEF EditKnown
<1>6. \A i \in Pieces : Given(d, i) = 0 /\ Reserved(d, i) = 0
  BY <1>1, <1>4 DEF Given, Reserved
<1>7. UNCHANGED <<deployment, lines, closed, sold, count, onShelf, strayed>>
  BY DEF BeginEdit
<1>8. CASE AtStep(c, "open") /\ desk[c].order = o
  <2>1. view = desk[c].view /\ desk[c].at = "open"
    BY <1>2, <1>8 DEF AtStep, Busy, OrderSeen
  <2>2. \A i \in Pieces : Given(desk[c], i) = 0 /\ Reserved(desk[c], i) = 0
    BY <1>1, <2>1 DEF Given, Reserved, EditKnown
  <2>3. Followed(deployment, onShelf, strayed, desk[c], lines[o])
    BY <1>8, <2>1, OrderOpen
  <2>4. Followed(deployment, onShelf', strayed', d, lines[d.order])
    BY <1>1, <1>4, <1>7, <2>1, <2>3 DEF Followed
  <2>5. \A i \in Pieces :
           /\ Held(deployment, d, lines[o], i) = Held(deployment, desk[c], lines[o], i)
           /\ AtMost(deployment, d, lines[o], i) = AtMost(deployment, desk[c], lines[o], i)
    BY <1>4, <1>6, <2>1, <2>2 DEF Held, AtMost
  <2>6. \A i \in Pieces : onShelf[i] \in Nat /\ AtMost(deployment, desk[c], lines[o], i) \in Nat
    BY <1>1, HeldType DEF ShelfTyped
  <2>7. onShelf' \in [Pieces -> Nat] /\ strayed' \subseteq Pieces \X Why
    BY <1>1, <1>7 DEF ShelfTyped
  <2>8. \A i \in Pieces :
           /\ onShelf'[i] + Held(deployment, d, lines[d.order], i)
                = onShelf[i] + Held(deployment, desk[c], lines[d.order], i)
           /\ onShelf'[i] + AtMost(deployment, d, lines[d.order], i)
                <= onShelf[i] + AtMost(deployment, desk[c], lines[d.order], i)
    BY <1>4, <1>7, <2>5, <2>6
  <2>9. d.order = desk[c].order /\ strayed \subseteq strayed'
    BY <1>4, <1>7, <1>8
  <2>10. QED
    BY <1>4, <1>5, <1>7, <2>1, <2>4, <2>7, <2>8, <2>9, WithinEdit
<1>9. CASE AtStep(c, "idle") /\ MayOpen(c)
  <2>1. /\ view = lines[o] /\ desk[c].at = "idle" /\ desk[c].order = None
        /\ desk[c].moved = {} /\ \A i \in Pieces : desk[c].moves[i] = Unmoved
    BY <1>1, <1>2, <1>9 DEF AtStep, Busy, OrderSeen, EditKnown
  <2>2. Followed(deployment, onShelf', strayed', d, lines[o])
    BY <1>1, <1>3, <1>4, <1>7, <2>1 DEF Followed, Unmoved, ShelfTyped
  <2>3. o \notin closed /\ \A e \in Clerks \ {c} : desk[e].order # o
    BY DEF BeginEdit
  <2>4. deployment = "sqlite" => \A e \in Clerks \ {c} : desk[e].order = None
    BY <1>1, <1>9 DEF MayOpen, Busy, AtStep, DesksKnown, EditKnown
  <2>5. Touches(c, o, d)
    BY <1>1, <1>4, <1>5, <1>7, <2>1, <2>2, <2>3, <2>4 DEF Touches, ShelfTyped
  <2>6. \A i \in Pieces :
           /\ Held(deployment, d, lines[o], i) = lines[o][i]
           /\ AtMost(deployment, d, lines[o], i) = lines[o][i]
    BY <1>1, <1>4, <1>6, <2>1 DEF Held, AtMost
  <2>7. \A i \in Pieces :
           /\ HeldOf(deployment, d, closed', lines', o, i) = lines[o][i]
           /\ HeldOf(deployment, desk[c], closed, lines, o, i) = lines[o][i]
           /\ MostOf(deployment, d, closed', lines', o, i) = lines[o][i]
           /\ MostOf(deployment, desk[c], closed, lines, o, i) = lines[o][i]
    BY <1>1, <1>4, <1>7, <2>1, <2>3, <2>6 DEF HeldOf, MostOf, AsWritten
  <2>8. \A i \in Pieces : onShelf[i] \in Nat /\ lines[o][i] \in Nat
    BY <1>1 DEF ShelfTyped
  <2>9. Evens(c, o, d)
    BY <1>7, <2>7, <2>8 DEF Evens
  <2>10. QED
    BY <2>5, <2>9, ShelfStepKeeps
<1>10. QED
  BY <1>8, <1>9 DEF BeginEdit

LEMMA BeginningKeeps ==
    ASSUME ShelfInv, NEW c \in Clerks, NEW o \in OldOrders, NEW i \in Pieces,
           \/ PlaceLocally(c, o, i) \/ AddUnit(c, o, i) \/ LowerUnit(c, o, i)
           \/ \E j \in Pieces : SwapItems(c, o, i, j)
           \/ CancelOld(c, o)
    PROVE  ShelfInv'
<1>1. PICK view : view = OrderSeen(c, o)
  OBVIOUS
<1>2. view \in [Pieces -> Nat] /\ None \notin Pieces
  BY <1>1, ShelfAssumption DEF ShelfInv, ShelfTyped, OrderSeen, EditType
<1>3. Nothing \in [Pieces -> Nat] /\ \A j \in Pieces : Nothing[j] = 0
  BY DEF Nothing
<1>4. ASSUME NEW n \in Nat
      PROVE  /\ OneOf(i, n) \in [Pieces -> Nat] /\ OneOf(i, n)[i] = n
             /\ \A j \in Pieces : j # i => OneOf(i, n)[j] = 0
  BY DEF OneOf, Nothing
<1>5. CASE PlaceLocally(c, o, i) \/ AddUnit(c, o, i)
  <2>1. BeginEdit(c, o, i, 1, Nothing, FALSE)
    BY <1>5 DEF PlaceLocally, AddUnit
  <2>2. \A j \in Pieces : Nothing[j] <= OrderSeen(c, o)[j]
    BY <1>1, <1>2, <1>3
  <2>3. QED
    BY <1>3, <2>1, <2>2, BeginEditKeeps
<1>6. CASE LowerUnit(c, o, i)
  <2>1. BeginEdit(c, o, None, 0, OneOf(i, 1), FALSE) /\ view[i] > 0
    BY <1>1, <1>6 DEF LowerUnit
  <2>2. \A j \in Pieces : OneOf(i, 1)[j] <= OrderSeen(c, o)[j]
    BY <1>1, <1>2, <1>4, <2>1
  <2>3. OneOf(i, 1) \in [Pieces -> Nat]
    BY <1>4
  <2>4. QED
    BY <2>1, <2>2, <2>3, BeginEditKeeps
<1>7. ASSUME NEW j \in Pieces, SwapItems(c, o, i, j)
      PROVE  ShelfInv'
  <2>1. PICK n \in Nat : n = view[i]
    BY <1>2
  <2>2. BeginEdit(c, o, j, n, OneOf(i, n), FALSE) /\ i # j
    BY <1>1, <1>7, <2>1 DEF SwapItems
  <2>3. \A k \in Pieces : OneOf(i, n)[k] <= OrderSeen(c, o)[k]
    BY <1>1, <1>2, <1>4, <2>1
  <2>4. OneOf(i, n) \in [Pieces -> Nat] /\ OneOf(i, n)[j] = 0
    BY <1>4, <2>2
  <2>5. QED
    BY <2>2, <2>3, <2>4, BeginEditKeeps
<1>8. CASE CancelOld(c, o)
  <2>1. BeginEdit(c, o, None, 0, view, TRUE)
    BY <1>1, <1>8 DEF CancelOld
  <2>2. \A j \in Pieces : view[j] <= OrderSeen(c, o)[j] /\ view[j] = OrderSeen(c, o)[j]
    BY <1>1, <1>2
  <2>3. QED
    BY <1>2, <2>1, <2>2, BeginEditKeeps
<1>9. QED
  BY <1>5, <1>6, <1>7, <1>8

\* A step that changes the clerk's record alone.
LEMMA RecordOnly ==
    ASSUME ShelfInv, NEW c \in Clerks, desk[c].at # "idle",
           NEW d \in EditType, d.order = desk[c].order, desk' = [desk EXCEPT ![c] = d],
           UNCHANGED <<deployment, onShelf, lines, closed, sold, count, strayed>>,
           EditKnown(d), Followed(deployment, onShelf, strayed, d, lines[d.order]),
           \A i \in Pieces :
              /\ Held(deployment, d, lines[d.order], i) = Held(deployment, desk[c], lines[d.order], i)
              /\ AtMost(deployment, d, lines[d.order], i) <= AtMost(deployment, desk[c], lines[d.order], i)
    PROVE  ShelfInv'
<1>1. /\ ShelfTyped /\ lines[d.order] \in [Pieces -> Nat]
      /\ desk[c] \in EditType /\ EditKnown(desk[c])
  BY OrderOpen DEF ShelfInv
<1>2. \A i \in Pieces : /\ AtMost(deployment, d, lines[d.order], i) \in Nat
                        /\ AtMost(deployment, desk[c], lines[d.order], i) \in Nat
                        /\ onShelf[i] \in Nat
  BY <1>1, HeldType DEF ShelfTyped
<1>3. onShelf' \in [Pieces -> Nat] /\ strayed \subseteq strayed' /\ strayed' \subseteq Pieces \X Why
  BY <1>1 DEF ShelfTyped
<1>4. \A i \in Pieces :
         /\ onShelf'[i] + Held(deployment, d, lines[d.order], i)
              = onShelf[i] + Held(deployment, desk[c], lines[d.order], i)
         /\ onShelf'[i] + AtMost(deployment, d, lines[d.order], i)
              <= onShelf[i] + AtMost(deployment, desk[c], lines[d.order], i)
  BY <1>2
<1>5. Followed(deployment, onShelf', strayed', d, lines[d.order])
  OBVIOUS
<1>6. QED
  BY <1>3, <1>4, <1>5, WithinEdit

\* An edit is refused before it has moved anything.
LEMMA RefusalKeeps ==
    ASSUME ShelfInv, NEW c \in Clerks, desk[c].at \in {"reading", "reserving", "moved"},
           NEW d, IsRefusal(desk[c], d), desk' = [desk EXCEPT ![c] = d],
           UNCHANGED <<deployment, onShelf, lines, closed, sold, count, strayed>>
    PROVE  ShelfInv'
<1>1. /\ desk[c] \in EditType /\ EditKnown(desk[c])
      /\ lines[desk[c].order] \in [Pieces -> Nat]
      /\ Followed(deployment, onShelf, strayed, desk[c], lines[desk[c].order])
  BY OrderOpen
<1>2. d \in EditType /\ d.order = desk[c].order
  BY DEF IsRefusal
<1>3. /\ EditKnown(d) /\ Followed(deployment, onShelf, strayed, d, lines[d.order])
      /\ \A i \in Pieces :
            /\ Held(deployment, d, lines[d.order], i) = Held(deployment, desk[c], lines[d.order], i)
            /\ AtMost(deployment, d, lines[d.order], i) = AtMost(deployment, desk[c], lines[d.order], i)
  BY <1>1, <1>2, RefusedIs
<1>4. \A i \in Pieces : AtMost(deployment, d, lines[d.order], i) \in Nat
  BY <1>1, <1>2, <1>3, HeldType
<1>5. \A i \in Pieces :
         /\ Held(deployment, d, lines[d.order], i) = Held(deployment, desk[c], lines[d.order], i)
         /\ AtMost(deployment, d, lines[d.order], i) <= AtMost(deployment, desk[c], lines[d.order], i)
  BY <1>3, <1>4
<1>6. QED
  BY <1>2, <1>3, <1>5, RecordOnly

LEMMA ReadShelfKeeps ==
    ASSUME ShelfInv, NEW c \in Clerks, ReadShelf(c)
    PROVE  ShelfInv'
<1>1. desk[c].at = "reading" /\ UNCHANGED <<deployment, onShelf, lines, closed, sold, count, strayed>>
  BY DEF ReadShelf, AtStep
<1>2. /\ desk[c] \in EditType /\ desk \in [Clerks -> EditType] /\ EditKnown(desk[c])
      /\ Followed(deployment, onShelf, strayed, desk[c], lines[desk[c].order])
      /\ lines[desk[c].order] \in [Pieces -> Nat]
      /\ onShelf \in [Pieces -> Nat] /\ None \notin Pieces
  BY <1>1, OrderOpen, ShelfAssumption DEF ShelfInv, ShelfTyped
<1>3. PICK n \in Nat : n = onShelf[desk[c].take] /\ desk[c].take \in Pieces
  BY <1>1, <1>2 DEF EditKnown, EditType
<1>4. PICK read \in EditType :
          /\ read = [desk[c] EXCEPT !.seen = n]
          /\ read.at = desk[c].at /\ read.order = desk[c].order /\ read.view = desk[c].view
          /\ read.moved = desk[c].moved /\ read.moves = desk[c].moves
          /\ read.give = desk[c].give /\ read.given = desk[c].given
          /\ read.take = desk[c].take /\ read.units = desk[c].units
          /\ read.closing = desk[c].closing /\ read.seen = n
  <2> DEFINE r == [desk[c] EXCEPT !.seen = n]
  <2>1. r \in EditType
    <3>1. n \in Int
      OBVIOUS
    <3>2. QED
      BY <1>2, <3>1 DEF EditType
  <2>2. /\ r.at = desk[c].at /\ r.order = desk[c].order /\ r.view = desk[c].view
        /\ r.moved = desk[c].moved /\ r.moves = desk[c].moves
        /\ r.give = desk[c].give /\ r.given = desk[c].given
        /\ r.take = desk[c].take /\ r.units = desk[c].units
        /\ r.closing = desk[c].closing /\ r.seen = n
    BY <1>2 DEF EditType
  <2>3. QED
    BY <2>1, <2>2, Zenon
<1>5. CASE desk' = [desk EXCEPT ![c] = Refused(read, "insufficient_stock")]
  <2>1. IsRefusal(desk[c], Refused(read, "insufficient_stock"))
    BY <1>4, RefusedType DEF IsRefusal
  <2>2. QED
    BY <1>1, <1>5, <2>1, RefusalKeeps
<1>6. CASE desk' = [desk EXCEPT ![c] = Refused(desk[c], "store_unavailable")]
  <2>1. IsRefusal(desk[c], Refused(desk[c], "store_unavailable"))
    BY <1>2, RefusedType
  <2>2. QED
    BY <1>1, <1>6, <2>1, RefusalKeeps
<1>7. CASE /\ n >= desk[c].units
           /\ desk' = [desk EXCEPT ![c] =
                          [read EXCEPT !.at = IF NoShopify THEN "giving" ELSE "reserving"]]
  <2>1. PICK d \in EditType :
            /\ desk' = [desk EXCEPT ![c] = d]
            /\ d.at = IF NoShopify THEN "giving" ELSE "reserving"
            /\ d.order = desk[c].order /\ d.view = desk[c].view
            /\ d.moved = desk[c].moved /\ d.moves = desk[c].moves
            /\ d.give = desk[c].give /\ d.given = desk[c].given
            /\ d.take = desk[c].take /\ d.units = desk[c].units
            /\ d.closing = desk[c].closing /\ d.seen = n
    <3> DEFINE d == [read EXCEPT !.at = IF NoShopify THEN "giving" ELSE "reserving"]
    <3>1. d \in EditType
      BY <1>4 DEF EditType
    <3>2. /\ d.at = IF NoShopify THEN "giving" ELSE "reserving"
          /\ d.order = read.order /\ d.view = read.view
          /\ d.moved = read.moved /\ d.moves = read.moves
          /\ d.give = read.give /\ d.given = read.given
          /\ d.take = read.take /\ d.units = read.units
          /\ d.closing = read.closing /\ d.seen = read.seen
      BY <1>4 DEF EditType
    <3>3. desk' = [desk EXCEPT ![c] = d]
      BY <1>7
    <3> HIDE DEF d
    <3>4. QED
      BY <1>4, <3>1, <3>2, <3>3
  <2>2. desk[c].given = {} /\ desk[c].closing = FALSE /\ desk[c].units \in Nat
    BY <1>1, <1>2 DEF EditKnown, EditType
  <2>3. EditKnown(d)
    BY <1>1, <1>2, <1>3, <1>7, <2>1, <2>2 DEF EditKnown
  <2>4. Followed(deployment, onShelf, strayed, d, lines[d.order])
    BY <1>2, <1>3, <1>7, <2>1, <2>2 DEF Followed, NoShopify
  <2>5. ASSUME NEW i \in Pieces
        PROVE  /\ Held(deployment, d, lines[d.order], i)
                    = Held(deployment, desk[c], lines[d.order], i)
               /\ AtMost(deployment, d, lines[d.order], i)
                    = AtMost(deployment, desk[c], lines[d.order], i)
    BY <1>1, <2>1, <2>2 DEF Held, AtMost, Given, Reserved, NoShopify
  <2>6. \A i \in Pieces : AtMost(deployment, d, lines[d.order], i) \in Nat
    BY <1>2, <2>1, <2>3, HeldType
  <2>7. \A i \in Pieces :
           /\ Held(deployment, d, lines[d.order], i)
                = Held(deployment, desk[c], lines[d.order], i)
           /\ AtMost(deployment, d, lines[d.order], i)
                <= AtMost(deployment, desk[c], lines[d.order], i)
    BY <2>5, <2>6
  <2>8. QED
    BY <1>1, <2>1, <2>3, <2>4, <2>7, RecordOnly
<1>8. QED
  <2>1. desk[c].units \in Nat
    BY <1>2 DEF EditType
  <2>2. QED
    BY <1>3, <1>4, <1>5, <1>6, <1>7, <2>1 DEF ReadShelf

LEMMA RereadKeeps ==
    ASSUME ShelfInv, NEW c \in Clerks, Reread(c)
    PROVE  ShelfInv'
<1>1. desk[c].at = "moved" /\ UNCHANGED <<deployment, onShelf, lines, closed, sold, count, strayed>>
  BY DEF Reread, AtStep
<1>2. /\ desk[c] \in EditType /\ EditKnown(desk[c])
      /\ onShelf \in [Pieces -> Nat] /\ None \notin Pieces
  BY <1>1, OrderOpen, ShelfAssumption DEF ShelfInv, ShelfTyped
<1>3. PICK n \in Int : n = onShelf[desk[c].take]
  BY <1>1, <1>2 DEF EditKnown, EditType
<1>4. PICK read : read = [desk[c] EXCEPT !.seen = n]
  OBVIOUS
<1>5. read \in EditType
  BY <1>2, <1>4 DEF EditType
<1>6. /\ read.order = desk[c].order /\ read.view = desk[c].view
      /\ read.moved = desk[c].moved /\ read.moves = desk[c].moves
  BY <1>2, <1>4 DEF EditType
<1>7. desk' = [desk EXCEPT ![c] = Refused(read, "insufficient_stock")]
  BY <1>3, <1>4 DEF Reread
<1>8. IsRefusal(desk[c], Refused(read, "insufficient_stock"))
  BY <1>5, <1>6, RefusedType DEF IsRefusal
<1>9. QED
  BY <1>1, <1>7, <1>8, RefusalKeeps

LEMMA ReserveUnitsKeeps ==
    ASSUME ShelfInv, NEW c \in Clerks, ReserveUnits(c)
    PROVE  ShelfInv'
<1>1. desk[c].at = "reserving" /\ UNCHANGED <<deployment, lines, closed, sold, count>>
  BY DEF ReserveUnits, AtStep
<1>2. /\ desk[c] \in EditType /\ desk \in [Clerks -> EditType] /\ EditKnown(desk[c])
      /\ Followed(deployment, onShelf, strayed, desk[c], lines[desk[c].order])
      /\ lines[desk[c].order] \in [Pieces -> Nat]
      /\ onShelf \in [Pieces -> Nat] /\ None \notin Pieces /\ strayed \subseteq Pieces \X Why
  BY <1>1, OrderOpen, ShelfAssumption DEF ShelfInv, ShelfTyped
<1>3. PICK i \in Pieces : i = desk[c].take
  BY <1>1, <1>2 DEF EditKnown, EditType
<1>4. PICK n \in Nat : n = desk[c].units
  BY <1>2 DEF EditType
<1>5. /\ deployment = "shopify" /\ n <= desk[c].seen /\ desk[c].given = {}
      /\ desk[c].closing = FALSE /\ desk[c].give[i] = 0 /\ desk[c].seen \in Int
      /\ desk[c].order # None
  BY <1>1, <1>2, <1>3, <1>4 DEF Followed, EditKnown, EditType
<1>6. \A j \in Pieces : Given(desk[c], j) = 0 /\ Reserved(desk[c], j) = 0
  BY <1>1, <1>5 DEF Given, Reserved
<1>7. CASE /\ SetIf(i, desk[c].seen, desk[c].seen - n) /\ UNCHANGED strayed
           /\ desk' = [desk EXCEPT ![c].at = "giving", ![c].expected = desk[c].seen - n]
  <2>1. PICK m \in Int : m = desk[c].seen - n
    BY <1>5
  <2>2. PICK d : d = [desk[c] EXCEPT !.at = "giving", !.expected = m]
    OBVIOUS
  <2>3. d \in EditType
    BY <1>2, <2>1, <2>2 DEF EditType
  <2>4. /\ d.at = "giving" /\ d.order = desk[c].order /\ d.view = desk[c].view
        /\ d.moved = desk[c].moved /\ d.moves = desk[c].moves
        /\ d.give = desk[c].give /\ d.given = desk[c].given
        /\ d.take = desk[c].take /\ d.units = desk[c].units /\ d.closing = desk[c].closing
    BY <1>2, <2>2 DEF EditType
  <2>5. desk' = [desk EXCEPT ![c] = d]
    BY <1>2, <1>7, <2>1, <2>2
  <2>6. /\ onShelf[i] = onShelf'[i] + n /\ onShelf' \in [Pieces -> Nat]
        /\ \A j \in Pieces \ {i} : onShelf'[j] = onShelf[j]
    BY <1>2, <1>5, <1>7 DEF SetIf
  <2>7. EditKnown(d)
    BY <1>2, <1>3, <1>5, <2>4 DEF EditKnown
  <2>8. Followed(deployment, onShelf', strayed', d, lines[d.order])
    BY <1>2, <1>5, <1>7, <2>4 DEF Followed
  <2>9. \A j \in Pieces : Given(d, j) = 0 /\ Reserved(d, j) = IF j = i THEN n ELSE 0
    BY <1>3, <1>4, <1>5, <2>4 DEF Given, Reserved
  <2>10. \A j \in Pieces : onShelf[j] \in Nat /\ onShelf'[j] \in Nat /\ desk[c].view[j] \in Nat
                            /\ lines[d.order][j] \in Nat
    BY <1>2, <2>4, <2>6 DEF EditType
  <2>11. \A j \in Pieces :
           /\ onShelf'[j] + Held(deployment, d, lines[d.order], j)
                = onShelf[j] + Held(deployment, desk[c], lines[d.order], j)
           /\ onShelf'[j] + AtMost(deployment, d, lines[d.order], j)
                <= onShelf[j] + AtMost(deployment, desk[c], lines[d.order], j)
    BY <1>5, <1>6, <2>4, <2>6, <2>9, <2>10 DEF Held, AtMost
  <2>12. strayed \subseteq strayed' /\ strayed' \subseteq Pieces \X Why
    BY <1>2, <1>7
  <2>13. QED
    BY <1>1, <2>3, <2>4, <2>5, <2>6, <2>7, <2>8, <2>11, <2>12, WithinEdit
<1>8. CASE /\ desk' = [desk EXCEPT ![c].at = "moved"] /\ UNCHANGED <<onShelf, strayed>>
  <2>1. PICK d : d = [desk[c] EXCEPT !.at = "moved"]
    OBVIOUS
  <2>2. d \in EditType
    BY <1>2, <2>1 DEF EditType
  <2>3. /\ d.at = "moved" /\ d.order = desk[c].order /\ d.view = desk[c].view
        /\ d.moved = desk[c].moved /\ d.moves = desk[c].moves
        /\ d.give = desk[c].give /\ d.given = desk[c].given
        /\ d.take = desk[c].take /\ d.units = desk[c].units /\ d.closing = desk[c].closing
    BY <1>2, <2>1 DEF EditType
  <2>4. desk' = [desk EXCEPT ![c] = d]
    BY <1>2, <1>8, <2>1
  <2>5. EditKnown(d)
    BY <1>2, <1>3, <1>5, <2>3 DEF EditKnown
  <2>6. Followed(deployment, onShelf, strayed, d, lines[d.order])
    BY <1>2, <1>5, <2>3 DEF Followed
  <2>7. \A j \in Pieces : AtMost(deployment, d, lines[d.order], j) \in Nat
    BY <1>2, <2>2, <2>3, <2>5, HeldType
  <2>8. \A j \in Pieces :
           /\ Held(deployment, d, lines[d.order], j)
                = Held(deployment, desk[c], lines[d.order], j)
           /\ AtMost(deployment, d, lines[d.order], j)
                = AtMost(deployment, desk[c], lines[d.order], j)
    BY <1>1, <2>3 DEF Held, AtMost, Given, Reserved
  <2>9. \A j \in Pieces :
           AtMost(deployment, d, lines[d.order], j) <= AtMost(deployment, desk[c], lines[d.order], j)
    BY <2>7, <2>8
  <2>10. QED
    BY <1>1, <1>8, <2>2, <2>3, <2>4, <2>5, <2>6, <2>8, <2>9, RecordOnly
<1>9. CASE /\ desk' = [desk EXCEPT ![c] = Refused(desk[c], "store_unavailable")]
           /\ \/ UNCHANGED <<onShelf, strayed>>
              \/ /\ SetIf(i, desk[c].seen, desk[c].seen - n)
                 /\ strayed' = strayed \cup {<<i, "unheard">>}
  <2>1. PICK d : d = Refused(desk[c], "store_unavailable")
    OBVIOUS
  <2>2. IsRefusal(desk[c], d) /\ desk' = [desk EXCEPT ![c] = d]
    BY <1>2, <1>9, <2>1, RefusedType
  <2>3. CASE UNCHANGED <<onShelf, strayed>>
    BY <1>1, <2>2, <2>3, RefusalKeeps
  <2>4. CASE /\ SetIf(i, desk[c].seen, desk[c].seen - n)
             /\ strayed' = strayed \cup {<<i, "unheard">>}
    <3>1. d \in EditType /\ d.order = desk[c].order
      BY <2>2 DEF IsRefusal
    <3>2. /\ EditKnown(d) /\ Followed(deployment, onShelf, strayed, d, lines[d.order])
          /\ \A j \in Pieces :
                /\ Held(deployment, d, lines[d.order], j)
                     = Held(deployment, desk[c], lines[d.order], j)
                /\ AtMost(deployment, d, lines[d.order], j)
                     = AtMost(deployment, desk[c], lines[d.order], j)
      BY <1>1, <1>2, <2>2, <3>1, RefusedIs
    <3>3. /\ onShelf[i] = onShelf'[i] + n /\ onShelf' \in [Pieces -> Nat]
          /\ \A j \in Pieces \ {i} : onShelf'[j] = onShelf[j]
      BY <1>2, <1>5, <2>4 DEF SetIf
    <3>4. strayed \subseteq strayed' /\ strayed' \subseteq Pieces \X Why /\ <<i, "unheard">> \in strayed'
      BY <1>2, <2>4 DEF Why
    <3>5. Followed(deployment, onShelf', strayed', d, lines[d.order])
      BY <1>5, <3>2, <3>4, FollowedStays
    <3>6. \A j \in Pieces : AtMost(deployment, d, lines[d.order], j) \in Nat
      BY <1>2, <3>1, <3>2, HeldType
    <3>7. \A j \in Pieces :
             /\ \/ \E why \in Why : <<j, why>> \in strayed'
                \/ onShelf'[j] + Held(deployment, d, lines[d.order], j)
                     = onShelf[j] + Held(deployment, desk[c], lines[d.order], j)
             /\ onShelf'[j] + AtMost(deployment, d, lines[d.order], j)
                  <= onShelf[j] + AtMost(deployment, desk[c], lines[d.order], j)
      <4>1. \A j \in Pieces : onShelf[j] \in Nat /\ onShelf'[j] \in Nat /\ onShelf'[j] <= onShelf[j]
        BY <1>2, <3>3
      <4>2. \A j \in Pieces :
              onShelf'[j] + AtMost(deployment, d, lines[d.order], j)
                <= onShelf[j] + AtMost(deployment, desk[c], lines[d.order], j)
        BY <3>2, <3>6, <4>1
      <4>3. "unheard" \in Why
        BY DEF Why
      <4>4. \A j \in Pieces :
               \/ \E why \in Why : <<j, why>> \in strayed'
               \/ onShelf'[j] + Held(deployment, d, lines[d.order], j)
                    = onShelf[j] + Held(deployment, desk[c], lines[d.order], j)
        BY <3>2, <3>3, <3>4, <4>3
      <4>5. QED
        BY <4>2, <4>4
    <3>8. QED
      BY <1>1, <2>2, <3>1, <3>2, <3>3, <3>4, <3>5, <3>7, WithinEdit
  <2>5. QED
    BY <1>9, <2>3, <2>4
<1>10. QED
  BY <1>3, <1>4, <1>7, <1>8, <1>9 DEF ReserveUnits

LEMMA ReadForReleaseKeeps ==
    ASSUME ShelfInv, NEW c \in Clerks, ReadForRelease(c)
    PROVE  ShelfInv'
<1>1. /\ desk[c].at = "giving" /\ deployment = "shopify"
      /\ UNCHANGED <<deployment, onShelf, lines, closed, sold, count>>
  BY DEF ReadForRelease, AtStep, NoShopify
<1>2. /\ desk[c] \in EditType /\ desk \in [Clerks -> EditType] /\ EditKnown(desk[c])
      /\ Followed(deployment, onShelf, strayed, desk[c], lines[desk[c].order])
      /\ lines[desk[c].order] \in [Pieces -> Nat]
      /\ onShelf \in [Pieces -> Nat] /\ None \notin Pieces /\ strayed \subseteq Pieces \X Why
  BY <1>1, OrderOpen, ShelfAssumption DEF ShelfInv, ShelfTyped
<1>3. ASSUME NEW i \in Pieces, i \in StillToGive(desk[c]), UNCHANGED strayed,
             desk' = [desk EXCEPT ![c].at = "releasing", ![c].item = i, ![c].seen = onShelf[i]]
      PROVE  ShelfInv'
  <2>1. PICK n \in Int : n = onShelf[i]
    BY <1>2
  <2>2. PICK d : d = [desk[c] EXCEPT !.at = "releasing", !.item = i, !.seen = n]
    OBVIOUS
  <2>3. d \in EditType
    BY <1>2, <2>2 DEF EditType
  <2>4. /\ d.at = "releasing" /\ d.order = desk[c].order /\ d.view = desk[c].view
        /\ d.moved = desk[c].moved /\ d.moves = desk[c].moves
        /\ d.give = desk[c].give /\ d.given = desk[c].given /\ d.item = i
        /\ d.take = desk[c].take /\ d.units = desk[c].units /\ d.closing = desk[c].closing
    BY <1>2, <2>2 DEF EditType
  <2>5. desk' = [desk EXCEPT ![c] = d]
    BY <1>2, <1>3, <2>1, <2>2
  <2>6. EditKnown(d)
    BY <1>1, <1>2, <1>3, <2>4 DEF EditKnown, StillToGive
  <2>7. Followed(deployment, onShelf, strayed, d, lines[d.order])
    BY <1>1, <1>2, <2>4 DEF Followed
  <2>8. \A j \in Pieces : AtMost(deployment, d, lines[d.order], j) \in Nat
    BY <1>2, <2>3, <2>4, <2>6, HeldType
  <2>9. \A j \in Pieces :
           /\ Held(deployment, d, lines[d.order], j)
                = Held(deployment, desk[c], lines[d.order], j)
           /\ AtMost(deployment, d, lines[d.order], j)
                = AtMost(deployment, desk[c], lines[d.order], j)
    BY <1>1, <2>4 DEF Held, AtMost, Given, Reserved
  <2>10. \A j \in Pieces :
           AtMost(deployment, d, lines[d.order], j) <= AtMost(deployment, desk[c], lines[d.order], j)
    BY <2>8, <2>9
  <2>11. QED
    BY <1>1, <1>3, <2>3, <2>4, <2>5, <2>6, <2>7, <2>9, <2>10, RecordOnly
<1>4. ASSUME NEW i \in Pieces, i \in StillToGive(desk[c]),
             strayed' = strayed \cup {<<i, "logged">>},
             desk' = [desk EXCEPT ![c].given = @ \cup {i}]
      PROVE  ShelfInv'
  <2>1. PICK d : d = [desk[c] EXCEPT !.given = @ \cup {i}]
    OBVIOUS
  <2>2. d \in EditType
    BY <1>2, <2>1 DEF EditType
  <2>3. /\ d.at = "giving" /\ d.order = desk[c].order /\ d.view = desk[c].view
        /\ d.moved = desk[c].moved /\ d.moves = desk[c].moves
        /\ d.give = desk[c].give /\ d.given = desk[c].given \cup {i}
        /\ d.take = desk[c].take /\ d.units = desk[c].units /\ d.closing = desk[c].closing
    BY <1>1, <1>2, <2>1 DEF EditType
  <2>4. desk' = [desk EXCEPT ![c] = d]
    BY <1>2, <1>4, <2>1
  <2>5. desk[c].give[i] > 0
    BY <1>4 DEF StillToGive
  <2>6. EditKnown(d)
    BY <1>1, <1>2, <2>3, <2>5 DEF EditKnown
  <2>7. strayed \subseteq strayed' /\ strayed' \subseteq Pieces \X Why /\ <<i, "logged">> \in strayed'
    BY <1>2, <1>4 DEF Why
  <2>8. Followed(deployment, onShelf', strayed', d, lines[d.order])
    BY <1>1, <1>2, <2>3, <2>7 DEF Followed
  <2>9. \A j \in Pieces : /\ AtMost(deployment, d, lines[d.order], j) \in Nat
                          /\ AtMost(deployment, desk[c], lines[d.order], j) \in Nat
                          /\ onShelf[j] \in Nat
    BY <1>2, <2>2, <2>3, <2>6, HeldType
  <2>10. /\ \A j \in Pieces \ {i} : Given(d, j) = Given(desk[c], j)
         /\ \A j \in Pieces : Reserved(d, j) = Reserved(desk[c], j)
    BY <1>1, <2>3 DEF Given, Reserved
  <2>11. \A j \in Pieces \ {i} : onShelf'[j] + Held(deployment, d, lines[d.order], j)
              = onShelf[j] + Held(deployment, desk[c], lines[d.order], j)
    BY <1>1, <2>3, <2>10 DEF Held
  <2>12. \A j \in Pieces :
           AtMost(deployment, d, lines[d.order], j) <= AtMost(deployment, desk[c], lines[d.order], j)
    <3>1. \A j \in Pieces : Given(d, j) >= Given(desk[c], j)
      BY <1>2, <2>3, <2>5 DEF Given, EditType, StillToGive
    <3>2. \A j \in Pieces : /\ Given(d, j) \in Nat /\ Given(desk[c], j) \in Nat
                            /\ desk[c].view[j] \in Nat /\ Reserved(d, j) \in Nat
                            /\ lines[d.order][j] \in Nat
      BY <1>2, <2>2, <2>3 DEF Given, Reserved, EditType
    <3>3. QED
      BY <2>3, <2>10, <3>1, <3>2 DEF AtMost
  <2>13. "logged" \in Why
    BY DEF Why
  <2>14. \A j \in Pieces :
           /\ \/ \E why \in Why : <<j, why>> \in strayed'
              \/ onShelf'[j] + Held(deployment, d, lines[d.order], j)
                   = onShelf[j] + Held(deployment, desk[c], lines[d.order], j)
           /\ onShelf'[j] + AtMost(deployment, d, lines[d.order], j)
                <= onShelf[j] + AtMost(deployment, desk[c], lines[d.order], j)
    <3>1. \A j \in Pieces :
             \/ \E why \in Why : <<j, why>> \in strayed'
             \/ onShelf'[j] + Held(deployment, d, lines[d.order], j)
                  = onShelf[j] + Held(deployment, desk[c], lines[d.order], j)
      BY <2>7, <2>11, <2>13
    <3>2. \A j \in Pieces :
             onShelf'[j] + AtMost(deployment, d, lines[d.order], j)
               <= onShelf[j] + AtMost(deployment, desk[c], lines[d.order], j)
      BY <1>1, <2>9, <2>12
    <3>3. QED
      BY <3>1, <3>2
  <2>15. onShelf' \in [Pieces -> Nat]
    BY <1>1, <1>2
  <2>16. QED
    BY <1>1, <2>2, <2>3, <2>4, <2>6, <2>7, <2>8, <2>14, <2>15, WithinEdit
<1>5. QED
  BY <1>3, <1>4 DEF ReadForRelease, StillToGive

\* A return puts the units back, or it is in the log.
LEMMA ReturnIs ==
    ASSUME onShelf \in [Pieces -> Nat], strayed \subseteq Pieces \X Why,
           NEW i \in Pieces, NEW was, NEW n \in Nat, TryRelease(i, was, n)
    PROVE  /\ onShelf' \in [Pieces -> Nat]
           /\ strayed \subseteq strayed' /\ strayed' \subseteq Pieces \X Why
           /\ \A j \in Pieces \ {i} : onShelf'[j] = onShelf[j]
           /\ onShelf'[i] <= onShelf[i] + n
           /\ onShelf'[i] = onShelf[i] + n \/ <<i, "logged">> \in strayed'
<1>1. CASE SetIf(i, was, was + n) /\ UNCHANGED strayed
  BY <1>1 DEF SetIf
<1>2. CASE strayed' = strayed \cup {<<i, "logged">>} /\ (SetIf(i, was, was + n) \/ UNCHANGED onShelf)
  BY <1>2 DEF SetIf, Why
<1>3. QED
  BY <1>1, <1>2 DEF TryRelease

LEMMA ReleaseUnitsKeeps ==
    ASSUME ShelfInv, NEW c \in Clerks, ReleaseUnits(c)
    PROVE  ShelfInv'
<1>1. desk[c].at = "releasing" /\ UNCHANGED <<deployment, lines, closed, sold, count>>
  BY DEF ReleaseUnits, AtStep
<1>2. /\ desk[c] \in EditType /\ desk \in [Clerks -> EditType] /\ EditKnown(desk[c])
      /\ Followed(deployment, onShelf, strayed, desk[c], lines[desk[c].order])
      /\ lines[desk[c].order] \in [Pieces -> Nat]
      /\ onShelf \in [Pieces -> Nat] /\ None \notin Pieces /\ strayed \subseteq Pieces \X Why
  BY <1>1, OrderOpen, ShelfAssumption DEF ShelfInv, ShelfTyped
<1>3. PICK i \in Pieces : i = desk[c].item
  BY <1>1, <1>2 DEF EditKnown, StillToGive
<1>4. /\ deployment = "shopify" /\ desk[c].give[i] > 0 /\ i \notin desk[c].given
      /\ i # desk[c].take
  BY <1>1, <1>2, <1>3 DEF Followed, EditKnown, StillToGive
<1>5. PICK n \in Nat : n = desk[c].give[i]
  BY <1>2 DEF EditType
<1>6. /\ onShelf' \in [Pieces -> Nat]
      /\ strayed \subseteq strayed' /\ strayed' \subseteq Pieces \X Why
      /\ \A j \in Pieces \ {i} : onShelf'[j] = onShelf[j]
      /\ onShelf'[i] <= onShelf[i] + n
      /\ onShelf'[i] = onShelf[i] + n \/ <<i, "logged">> \in strayed'
  BY <1>2, <1>3, <1>5, ReturnIs DEF ReleaseUnits
<1>7. PICK d : d = [desk[c] EXCEPT !.at = "giving", !.given = @ \cup {i}, !.moved = @ \cup {i}]
  OBVIOUS
<1>8. d \in EditType
  BY <1>2, <1>7 DEF EditType
<1>9. /\ d.at = "giving" /\ d.order = desk[c].order /\ d.view = desk[c].view
      /\ d.moved = desk[c].moved \cup {i} /\ d.moves = desk[c].moves
      /\ d.give = desk[c].give /\ d.given = desk[c].given \cup {i}
      /\ d.take = desk[c].take /\ d.units = desk[c].units /\ d.closing = desk[c].closing
  BY <1>2, <1>7 DEF EditType
<1>10. desk' = [desk EXCEPT ![c] = d]
  BY <1>2, <1>3, <1>7 DEF ReleaseUnits
<1>11. EditKnown(d)
  BY <1>1, <1>2, <1>4, <1>9 DEF EditKnown
<1>12. Followed(deployment, onShelf', strayed', d, lines[d.order])
  BY <1>2, <1>4, <1>6, <1>9 DEF Followed
<1>13. \A j \in Pieces : /\ Given(desk[c], j) \in Nat /\ desk[c].view[j] \in Nat
                         /\ Given(desk[c], j) <= desk[c].view[j]
                         /\ Reserved(desk[c], j) \in Nat /\ lines[d.order][j] \in Nat
                         /\ onShelf[j] \in Nat /\ onShelf'[j] \in Nat
  BY <1>2, <1>6, <1>9 DEF Given, Reserved, EditType, EditKnown
<1>14. /\ \A j \in Pieces : Reserved(d, j) = Reserved(desk[c], j)
       /\ \A j \in Pieces \ {i} : Given(d, j) = Given(desk[c], j)
       /\ Given(d, i) = n /\ Given(desk[c], i) = 0 /\ Reserved(d, i) = 0
       /\ n <= desk[c].view[i]
  BY <1>1, <1>2, <1>4, <1>5, <1>9 DEF Given, Reserved, EditKnown
<1>15. i \in d.moved /\ i \notin desk[c].moved => desk[c].view[i] <= lines[d.order][i]
  BY <1>2, <1>4, <1>9 DEF Followed
<1>16. ASSUME NEW j \in Pieces
       PROVE  /\ \/ \E why \in Why : <<j, why>> \in strayed'
                 \/ onShelf'[j] + Held(deployment, d, lines[d.order], j)
                      = onShelf[j] + Held(deployment, desk[c], lines[d.order], j)
              /\ onShelf'[j] + AtMost(deployment, d, lines[d.order], j)
                   <= onShelf[j] + AtMost(deployment, desk[c], lines[d.order], j)
  <2>1. CASE j = i
    <3>1. "logged" \in Why
      BY DEF Why
    <3>2. \/ \E why \in Why : <<i, why>> \in strayed'
          \/ onShelf'[i] + Held(deployment, d, lines[d.order], i)
                = onShelf[i] + Held(deployment, desk[c], lines[d.order], i)
      BY <1>4, <1>6, <1>9, <1>13, <1>14, <3>1 DEF Held
    <3>3. onShelf'[i] + AtMost(deployment, d, lines[d.order], i)
            <= onShelf[i] + AtMost(deployment, desk[c], lines[d.order], i)
      BY <1>4, <1>6, <1>9, <1>13, <1>14, <1>15 DEF AtMost
    <3>4. QED
      BY <2>1, <3>2, <3>3
  <2>2. CASE j # i
    <3>1. onShelf'[j] = onShelf[j] /\ (j \in d.moved <=> j \in desk[c].moved)
      BY <1>6, <1>9, <2>2
    <3>2. /\ Held(deployment, d, lines[d.order], j) = Held(deployment, desk[c], lines[d.order], j)
          /\ AtMost(deployment, d, lines[d.order], j) = AtMost(deployment, desk[c], lines[d.order], j)
      BY <1>9, <1>14, <2>2, <3>1 DEF Held, AtMost
    <3>3. AtMost(deployment, d, lines[d.order], j) \in Nat
      BY <1>2, <1>8, <1>9, <1>11, HeldType
    <3>4. QED
      BY <1>13, <3>1, <3>2, <3>3
  <2>3. QED
    BY <2>1, <2>2
<1>17. QED
  BY <1>1, <1>6, <1>8, <1>9, <1>10, <1>11, <1>12, <1>16, WithinEdit

LEMMA ReturnReceiptsKeeps ==
    ASSUME ShelfInv, NEW c \in Clerks, ReturnReceipts(c)
    PROVE  ShelfInv'
<1>1. desk[c].at = "returning" /\ UNCHANGED <<deployment, lines, closed, sold, count>>
  BY DEF ReturnReceipts, AtStep
<1>2. /\ desk[c] \in EditType /\ desk \in [Clerks -> EditType] /\ EditKnown(desk[c])
      /\ Followed(deployment, onShelf, strayed, desk[c], lines[desk[c].order])
      /\ lines[desk[c].order] \in [Pieces -> Nat]
      /\ onShelf \in [Pieces -> Nat] /\ None \notin Pieces /\ strayed \subseteq Pieces \X Why
  BY <1>1, OrderOpen, ShelfAssumption DEF ShelfInv, ShelfTyped
<1>3. PICK i \in Pieces : i = desk[c].take
  BY <1>1, <1>2 DEF EditKnown, EditType
<1>4. PICK n \in Nat : n = desk[c].units
  BY <1>2 DEF EditType
<1>5. /\ deployment = "shopify" /\ desk[c].given = {} /\ desk[c].closing = FALSE
      /\ desk[c].order # None
  BY <1>1, <1>2 DEF Followed, EditKnown, EditType
<1>6. /\ onShelf' \in [Pieces -> Nat]
      /\ strayed \subseteq strayed' /\ strayed' \subseteq Pieces \X Why
      /\ \A j \in Pieces \ {i} : onShelf'[j] = onShelf[j]
      /\ onShelf'[i] <= onShelf[i] + n
      /\ onShelf'[i] = onShelf[i] + n \/ <<i, "logged">> \in strayed'
  BY <1>2, <1>3, <1>4, ReturnIs DEF ReturnReceipts
<1>7. PICK d : d = [desk[c] EXCEPT !.at = "open", !.take = None, !.expected = 0]
  OBVIOUS
<1>8. d \in EditType
  <2>1. "open" \in {"idle", "reading", "reserving", "moved", "giving", "releasing", "returning",
                     "open", "committing"} /\ 0 \in Int
    OBVIOUS
  <2>2. QED
    BY <1>2, <1>7, <2>1 DEF EditType
<1>9. /\ d.at = "open" /\ d.order = desk[c].order /\ d.view = desk[c].view
      /\ d.moved = desk[c].moved /\ d.moves = desk[c].moves
      /\ d.give = desk[c].give /\ d.given = desk[c].given
      /\ d.take = None /\ d.closing = desk[c].closing
  BY <1>2, <1>7 DEF EditType
<1>10. desk' = [desk EXCEPT ![c] = d]
  BY <1>2, <1>7 DEF ReturnReceipts
<1>11. EditKnown(d)
  BY <1>1, <1>2, <1>5, <1>9 DEF EditKnown
<1>12. Followed(deployment, onShelf', strayed', d, lines[d.order])
  BY <1>2, <1>5, <1>6, <1>9 DEF Followed
<1>13. \A j \in Pieces : /\ desk[c].view[j] \in Nat /\ lines[d.order][j] \in Nat
                         /\ onShelf[j] \in Nat /\ onShelf'[j] \in Nat
  BY <1>2, <1>6, <1>9 DEF EditType
<1>14. \A j \in Pieces : /\ Given(d, j) = 0 /\ Given(desk[c], j) = 0 /\ Reserved(d, j) = 0
                         /\ Reserved(desk[c], j) = IF j = i THEN n ELSE 0
  BY <1>1, <1>2, <1>3, <1>4, <1>5, <1>9 DEF Given, Reserved
<1>15. "logged" \in Why
  BY DEF Why
<1>16. \A j \in Pieces :
         /\ \/ \E why \in Why : <<j, why>> \in strayed'
            \/ onShelf'[j] + Held(deployment, d, lines[d.order], j)
                 = onShelf[j] + Held(deployment, desk[c], lines[d.order], j)
         /\ onShelf'[j] + AtMost(deployment, d, lines[d.order], j)
              <= onShelf[j] + AtMost(deployment, desk[c], lines[d.order], j)
  <2>1. \A j \in Pieces :
           \/ \E why \in Why : <<j, why>> \in strayed'
           \/ onShelf'[j] + Held(deployment, d, lines[d.order], j)
                = onShelf[j] + Held(deployment, desk[c], lines[d.order], j)
    BY <1>5, <1>6, <1>9, <1>13, <1>14, <1>15 DEF Held
  <2>2. \A j \in Pieces :
           onShelf'[j] + AtMost(deployment, d, lines[d.order], j)
             <= onShelf[j] + AtMost(deployment, desk[c], lines[d.order], j)
    BY <1>5, <1>6, <1>9, <1>13, <1>14 DEF AtMost
  <2>3. QED
    BY <2>1, <2>2
<1>17. QED
  BY <1>1, <1>6, <1>8, <1>9, <1>10, <1>11, <1>12, <1>16, WithinEdit

\* An edit that breaks off: what it gave back has left the order's hands.
LEMMA WriteEditFailsKeeps ==
    ASSUME ShelfInv, NEW c \in Clerks, WriteEditFails(c)
    PROVE  ShelfInv'
<1>1. /\ desk[c].at = "giving" /\ desk[c].closing = FALSE
      /\ UNCHANGED <<deployment, onShelf, lines, closed, sold, count>>
  <2>1. desk[c].at = "giving" /\ ~desk[c].closing
        /\ UNCHANGED <<deployment, onShelf, lines, closed, sold, count>>
    BY DEF WriteEditFails, AtStep
  <2>2. desk[c] \in EditType
    BY <2>1, OrderOpen
  <2>3. QED
    BY <2>1, <2>2 DEF EditType
<1>2. /\ desk[c] \in EditType /\ desk \in [Clerks -> EditType] /\ EditKnown(desk[c])
      /\ Followed(deployment, onShelf, strayed, desk[c], lines[desk[c].order])
      /\ lines[desk[c].order] \in [Pieces -> Nat]
      /\ onShelf \in [Pieces -> Nat] /\ None \notin Pieces /\ strayed \subseteq Pieces \X Why
  BY <1>1, OrderOpen, ShelfAssumption DEF ShelfInv, ShelfTyped
<1>3. PICK e : e = Refused(desk[c], "failed")
  OBVIOUS
<1>4. IsRefusal(desk[c], e) /\ e.take = desk[c].take /\ e.units = desk[c].units
  BY <1>2, <1>3, RefusedType DEF Refused, EditType
<1>5. PICK d : d = [e EXCEPT !.at = IF NoShopify \/ desk[c].take = None THEN "open" ELSE "returning"]
  OBVIOUS
<1>6. d \in EditType
  BY <1>4, <1>5 DEF IsRefusal, EditType
<1>7. /\ d.at = IF NoShopify \/ desk[c].take = None THEN "open" ELSE "returning"
      /\ d.order = desk[c].order /\ d.view = desk[c].view
      /\ d.moved = desk[c].moved /\ d.moves = desk[c].moves
      /\ d.give = Nothing /\ d.given = {}
      /\ d.take = desk[c].take /\ d.units = desk[c].units /\ d.closing = FALSE
  BY <1>4, <1>5 DEF IsRefusal, EditType
<1>8. desk' = [desk EXCEPT ![c] = d]
  BY <1>2, <1>3, <1>5 DEF WriteEditFails
<1>9. strayed' = strayed \cup {<<i, "half_undone">> : i \in desk[c].given}
  BY DEF WriteEditFails
<1>10. strayed \subseteq strayed' /\ strayed' \subseteq Pieces \X Why
  BY <1>2, <1>9 DEF Why, EditType
<1>11. desk[c].order # None
  BY <1>1, <1>2 DEF EditKnown
<1>12. EditKnown(d)
  BY <1>2, <1>7, <1>11 DEF EditKnown, Nothing, EditType
<1>13. Followed(deployment, onShelf', strayed', d, lines[d.order])
  BY <1>1, <1>2, <1>7, <1>10 DEF Followed, NoShopify
<1>14. \A j \in Pieces : Reserved(d, j) = IF deployment = "shopify" THEN Reserved(desk[c], j) ELSE 0
  BY <1>1, <1>2, <1>7 DEF Reserved, NoShopify
<1>15. \A j \in Pieces : /\ Given(d, j) = 0
                         /\ j \notin desk[c].given => Given(desk[c], j) = 0
  BY <1>7 DEF Given
<1>16. \A j \in Pieces \ desk[c].given :
         /\ Held(deployment, d, lines[d.order], j)
              = Held(deployment, desk[c], lines[d.order], j)
         /\ AtMost(deployment, d, lines[d.order], j)
              = AtMost(deployment, desk[c], lines[d.order], j)
  BY <1>7, <1>14, <1>15 DEF Held, AtMost
<1>17. \A j \in Pieces : onShelf[j] \in Nat /\ AtMost(deployment, d, lines[d.order], j) \in Nat
  BY <1>2, <1>6, <1>7, <1>12, HeldType
<1>18. \A j \in Pieces \ desk[c].given :
         /\ onShelf'[j] + Held(deployment, d, lines[d.order], j)
              = onShelf[j] + Held(deployment, desk[c], lines[d.order], j)
         /\ onShelf'[j] + AtMost(deployment, d, lines[d.order], j)
              <= onShelf[j] + AtMost(deployment, desk[c], lines[d.order], j)
  BY <1>1, <1>16, <1>17
<1>19. \A j \in desk[c].given : /\ \E why \in Why : <<j, why>> \in strayed'
                                /\ Excused(deployment, strayed', j)
  <2>1. "half_undone" \in Why
    BY DEF Why
  <2>2. QED
    BY <1>9, <2>1 DEF Excused
<1>20. \A j \in Pieces :
         /\ \/ \E why \in Why : <<j, why>> \in strayed'
            \/ onShelf'[j] + Held(deployment, d, lines[d.order], j)
                 = onShelf[j] + Held(deployment, desk[c], lines[d.order], j)
         /\ \/ Excused(deployment, strayed', j)
            \/ onShelf'[j] + AtMost(deployment, d, lines[d.order], j)
                 <= onShelf[j] + AtMost(deployment, desk[c], lines[d.order], j)
  BY <1>18, <1>19
<1>21. onShelf' \in [Pieces -> Nat]
  BY <1>1, <1>2
<1>22. QED
  BY <1>1, <1>6, <1>7, <1>8, <1>10, <1>12, <1>13, <1>20, <1>21, WithinEdit

\* What a row's updates come to after one more, for an order that had n of the item,
\* shows m of them, and has k more given back or -k more taken.
LEMMA MoveIs ==
    ASSUME NEW m \in RowMove, NEW k \in Int, NEW onHand \in Nat,
           m.takes = 0 => m.least = m.by
    PROVE  /\ Move(m, k) \in RowMove /\ Move(m, k).by = m.by + k
           /\ Move(m, k).takes = 0 => Move(m, k).least = Move(m, k).by
           /\ (m.takes <= 1 => m.least <= onHand + m.by) /\ (k < 0 => -k <= onHand)
                => (Move(m, k).takes <= 1 => Move(m, k).least <= onHand + Move(m, k).by)
<1>1. m.by \in Int /\ m.least \in Nat /\ m.takes \in Nat
  BY DEF RowMove
<1>2. /\ Move(m, k).by = m.by + k /\ Move(m, k).least = Floor(m.least, k)
      /\ Move(m, k).takes = m.takes + (IF k < 0 THEN 1 ELSE 0)
  BY DEF Move
<1>3. Floor(m.least, k) \in Nat /\ Floor(m.least, k) = IF m.least + k > 0 THEN m.least + k ELSE 0
  BY <1>1 DEF Floor
<1>4. Move(m, k) \in RowMove
  BY <1>1, <1>3 DEF Move, RowMove
<1>5. Move(m, k).takes = 0 => Move(m, k).least = Move(m, k).by
  BY <1>1, <1>2, <1>3
<1>6. ASSUME m.takes <= 1 => m.least <= onHand + m.by, k < 0 => -k <= onHand,
             Move(m, k).takes <= 1
      PROVE  Move(m, k).least <= onHand + Move(m, k).by
  BY <1>1, <1>2, <1>3, <1>6
<1>7. QED
  BY <1>2, <1>4, <1>5, <1>6

LEMMA WriteEditKeeps ==
    ASSUME ShelfInv, NEW c \in Clerks, WriteEdit(c)
    PROVE  ShelfInv'
<1>1. /\ desk[c].at = "giving" /\ (NoShopify \/ StillToGive(desk[c]) = {})
      /\ UNCHANGED <<deployment, onShelf, lines, closed, sold, count, strayed>>
  BY DEF WriteEdit, AtStep
<1>2. /\ desk[c] \in EditType /\ desk \in [Clerks -> EditType] /\ EditKnown(desk[c])
      /\ Followed(deployment, onShelf, strayed, desk[c], lines[desk[c].order])
      /\ lines[desk[c].order] \in [Pieces -> Nat]
      /\ onShelf \in [Pieces -> Nat] /\ None \notin Pieces /\ strayed \subseteq Pieces \X Why
  BY <1>1, OrderOpen, ShelfAssumption DEF ShelfInv, ShelfTyped
<1>3. PICK b : b = desk[c]
  OBVIOUS
<1>4. PICK line : line = lines[b.order]
  OBVIOUS
<1>5. \A i \in Pieces : /\ b.view[i] \in Nat /\ b.give[i] \in Nat /\ b.units \in Nat
                        /\ b.give[i] <= b.view[i] /\ line[i] \in Nat /\ onShelf[i] \in Nat
                        /\ b.moves[i] \in RowMove
                        /\ i = b.take => b.give[i] = 0
  BY <1>1, <1>2, <1>3, <1>4 DEF EditType, EditKnown
<1>6. \A i \in Pieces : Change(b, i) = b.give[i] - (IF i = b.take THEN b.units ELSE 0)
  BY DEF Change
<1>7. PICK view : view = AfterEdit(b)
  OBVIOUS
<1>8. \A i \in Pieces : view[i] = b.view[i] - b.give[i] + (IF i = b.take THEN b.units ELSE 0)
  BY <1>5, <1>6, <1>7 DEF AfterEdit
<1>9. view \in [Pieces -> Nat]
  BY <1>5, <1>7, <1>8 DEF AfterEdit
<1>10. PICK moves : moves = IF NoShopify THEN [i \in Pieces |-> Move(b.moves[i], Change(b, i))]
                            ELSE b.moves
  OBVIOUS
<1>11. moves \in [Pieces -> RowMove]
  <2>1. CASE NoShopify
    <3>1. ASSUME NEW i \in Pieces PROVE Move(b.moves[i], Change(b, i)) \in RowMove
      <4>1. /\ b.moves[i].by \in Int /\ b.moves[i].least \in Nat /\ b.moves[i].takes \in Nat
            /\ Change(b, i) \in Int
        BY <1>5, <1>6 DEF RowMove
      <4>2. Floor(b.moves[i].least, Change(b, i)) \in Nat
        BY <4>1 DEF Floor
      <4>3. QED
        BY <4>1, <4>2 DEF Move, RowMove
    <3>2. QED
      BY <1>10, <2>1, <3>1
  <2>2. CASE ~NoShopify
    BY <1>2, <1>3, <1>10, <2>2 DEF EditType
  <2>3. QED
    BY <2>1, <2>2
<1>12. PICK gone : gone = IF b.take # None THEN b.moved \cup {b.take} ELSE b.moved
  OBVIOUS
<1>13. gone \subseteq Pieces
  BY <1>2, <1>3, <1>12 DEF EditType
<1>14. PICK at : at = IF b.view = Nothing THEN "committing" ELSE "open"
  OBVIOUS
<1>15. PICK d : d = [b EXCEPT !.at = at, !.view = view, !.moves = moves, !.moved = gone,
                              !.take = None, !.units = 0, !.give = Nothing, !.item = None,
                              !.seen = 0, !.expected = 0, !.given = {}]
  OBVIOUS
<1>16. d \in EditType
  <2>1. Nothing \in [Pieces -> Nat] /\ 0 \in Int /\ 0 \in Nat
    BY DEF Nothing
  <2>2. at \in {"idle", "reading", "reserving", "moved", "giving", "releasing", "returning",
                "open", "committing"}
    BY <1>14
  <2>3. QED
    BY <1>2, <1>3, <1>9, <1>11, <1>13, <1>15, <2>1, <2>2 DEF EditType
<1>17. /\ d.at = at /\ d.order = b.order /\ d.view = view /\ d.moves = moves /\ d.moved = gone
       /\ d.take = None /\ d.give = Nothing /\ d.given = {} /\ d.closing = b.closing
  BY <1>2, <1>3, <1>15 DEF EditType
<1>18. desk' = [desk EXCEPT ![c] = d]
  BY <1>2, <1>3, <1>7, <1>10, <1>12, <1>14, <1>15 DEF WriteEdit
<1>19. b.order # None
  BY <1>1, <1>2, <1>3 DEF EditKnown
<1>20. EditKnown(d)
  <2>1. at \in {"open", "committing"} /\ \A i \in Pieces : Nothing[i] = 0
    BY <1>14 DEF Nothing
  <2>2. b.closing => \A i \in Pieces : view[i] = 0
    <3>1. b.closing => b.take = None /\ \A i \in Pieces : b.give[i] = b.view[i]
      BY <1>1, <1>2, <1>3 DEF EditKnown
    <3>2. QED
      BY <1>2, <1>5, <1>8, <3>1
  <2>3. \A i \in Pieces : view[i] >= 0
    BY <1>9
  <2>4. QED
    BY <1>9, <1>17, <1>19, <2>1, <2>2, <2>3 DEF EditKnown
<1>21. Followed(deployment, onShelf, strayed, b, line)
  BY <1>2, <1>3, <1>4
<1>22. Followed(deployment, onShelf, strayed, d, line)
  <2>1. CASE deployment = "shopify"
    <3>1. ASSUME NEW i \in Pieces \ gone
          PROVE  view[i] <= line[i] /\ (view[i] = line[i] \/ <<i, "logged">> \in strayed)
      <4>1. i \notin b.moved /\ i # b.take
        BY <1>2, <1>12, <3>1
      <4>2. b.view[i] <= line[i] /\ (b.view[i] = line[i] \/ <<i, "logged">> \in strayed)
        BY <1>21, <2>1, <4>1 DEF Followed
      <4>3. b.give[i] > 0 => i \in b.given
        BY <1>1, <1>3, <2>1, <3>1 DEF StillToGive, NoShopify
      <4>4. b.give[i] > 0 => <<i, "logged">> \in strayed
        BY <1>21, <2>1, <4>1, <4>3 DEF Followed
      <4>5. view[i] = b.view[i] - b.give[i]
        BY <1>5, <1>8, <4>1
      <4>6. QED
        BY <1>5, <4>2, <4>4, <4>5
    <3>2. QED
      BY <1>17, <2>1, <3>1 DEF Followed
  <2>2. CASE deployment # "shopify"
    <3>1. ASSUME NEW i \in Pieces
          PROVE  /\ moves[i].by = line[i] - view[i]
                 /\ moves[i].takes = 0 => moves[i].least = moves[i].by
                 /\ deployment = "sqlite" =>
                       (moves[i].takes <= 1 => moves[i].least <= onShelf[i] + moves[i].by)
      <4>1. PICK k \in Int : k = Change(b, i)
        BY <1>5, <1>6
      <4>2. PICK m \in RowMove : m = b.moves[i]
        BY <1>5
      <4>3. moves[i] = Move(m, k)
        BY <1>10, <2>2, <4>1, <4>2 DEF NoShopify
      <4>4. /\ m.by = line[i] - b.view[i]
            /\ m.takes = 0 => m.least = m.by
            /\ deployment = "sqlite" => (m.takes <= 1 => m.least <= onShelf[i] + m.by)
            /\ deployment = "sqlite" /\ i = b.take => b.units <= onShelf[i]
        BY <1>1, <1>3, <1>21, <2>2, <4>2 DEF Followed
      <4>5. k < 0 => i = b.take /\ -k = b.units
        BY <1>5, <1>6, <4>1
      <4>6. /\ Move(m, k).by = m.by + k
            /\ Move(m, k).takes = 0 => Move(m, k).least = Move(m, k).by
            /\ (m.takes <= 1 => m.least <= onShelf[i] + m.by) /\ (k < 0 => -k <= onShelf[i])
                 => (Move(m, k).takes <= 1 => Move(m, k).least <= onShelf[i] + Move(m, k).by)
        <5>1. PICK onHand \in Nat : onHand = onShelf[i]
          BY <1>5
        <5>2. QED
          BY <4>4, <5>1, MoveIs
      <4>7. m.by \in Int /\ view[i] = b.view[i] - k
        BY <1>5, <1>6, <1>8, <4>1 DEF RowMove
      <4>8. moves[i].by = line[i] - view[i]
        BY <1>5, <4>3, <4>4, <4>6, <4>7
      <4>9. QED
        BY <4>3, <4>4, <4>5, <4>6, <4>8
    <3>2. at \in {"open", "committing"}
      BY <1>14
    <3>3. QED
      BY <1>17, <2>2, <3>1, <3>2 DEF Followed
  <2>3. QED
    BY <2>1, <2>2
<1>23. ASSUME NEW i \in Pieces
       PROVE  /\ Held(deployment, d, line, i) = Held(deployment, b, line, i)
              /\ AtMost(deployment, d, line, i) <= AtMost(deployment, b, line, i)
  <2>1. CASE deployment = "shopify"
    <3>1. Given(d, i) = 0 /\ Reserved(d, i) = 0
      BY <1>2, <1>17 DEF Given, Reserved
    <3>2. Given(b, i) = b.give[i] /\ Reserved(b, i) = IF i = b.take THEN b.units ELSE 0
      BY <1>1, <1>3, <1>5, <2>1 DEF Given, Reserved, StillToGive, NoShopify
    <3>3. Held(deployment, d, line, i) = Held(deployment, b, line, i)
      BY <1>5, <1>8, <1>17, <2>1, <3>1, <3>2 DEF Held
    <3>4. i \notin b.moved => b.view[i] <= line[i]
      BY <1>21, <2>1 DEF Followed
    <3>5. i \in gone <=> i \in b.moved \/ i = b.take
      BY <1>2, <1>12
    <3>6. AtMost(deployment, d, line, i) <= AtMost(deployment, b, line, i)
      BY <1>5, <1>8, <1>17, <2>1, <3>1, <3>2, <3>4, <3>5 DEF AtMost
    <3>7. QED
      BY <3>3, <3>6
  <2>2. CASE deployment # "shopify"
    BY <1>5, <2>2 DEF Held, AtMost
  <2>3. QED
    BY <2>1, <2>2
<1>24. QED
  BY <1>1, <1>3, <1>4, <1>16, <1>17, <1>18, <1>20, <1>22, <1>23, RecordOnly

LEMMA NoEditIs ==
    /\ NoEdit \in EditType /\ EditKnown(NoEdit)
    /\ NoEdit.order = None
<1>1. Nothing \in [Pieces -> Nat] /\ \A i \in Pieces : Nothing[i] = 0
  BY DEF Nothing
<1>2. Unmoved \in RowMove
  BY DEF Unmoved, RowMove
<1>3. 0 \in Int /\ 0 \in Nat /\ FALSE \in BOOLEAN
  OBVIOUS
<1>4. [i \in Pieces |-> Unmoved] \in [Pieces -> RowMove]
  BY <1>2
<1>5. NoEdit \in EditType
  BY <1>1, <1>3, <1>4 DEF NoEdit, EditType
<1>6. /\ NoEdit.at = "idle" /\ NoEdit.order = None /\ NoEdit.closing = FALSE
      /\ NoEdit.moved = {} /\ NoEdit.given = {} /\ NoEdit.take = None
      /\ NoEdit.give = Nothing /\ NoEdit.view = Nothing
      /\ NoEdit.moves = [i \in Pieces |-> Unmoved]
  BY DEF NoEdit
<1>7. EditKnown(NoEdit)
  BY <1>1, <1>6 DEF EditKnown
<1>8. QED
  BY <1>5, <1>6, <1>7

\* A transaction that is over.
LEMMA EditEnds ==
    ASSUME ShelfInv, NEW c \in Clerks, desk[c].at # "idle", desk' = [desk EXCEPT ![c] = NoEdit],
           UNCHANGED <<deployment, sold, count>>,
           closed' \in {closed, closed \cup {desk[c].order}},
           NEW view \in [Pieces -> Nat], lines' = [lines EXCEPT ![desk[c].order] = view],
           desk[c].order \in closed' => \A i \in Pieces : view[i] = 0,
           onShelf' \in [Pieces -> Nat], strayed \subseteq strayed',
           strayed' \subseteq Pieces \X Why,
           \A i \in Pieces :
              /\ \/ \E why \in Why : <<i, why>> \in strayed'
                 \/ onShelf'[i] + view[i]
                       = onShelf[i] + Held(deployment, desk[c], lines[desk[c].order], i)
              /\ \/ Excused(deployment, strayed', i)
                 \/ onShelf'[i] + view[i]
                       <= onShelf[i] + AtMost(deployment, desk[c], lines[desk[c].order], i)
    PROVE  ShelfInv'
<1>1. PICK o \in OldOrders : o = desk[c].order
  BY OrderOpen
<1>2. PICK d \in EditType : d = NoEdit /\ EditKnown(d) /\ d.order = None
  BY NoEditIs
<1>3. None \notin OldOrders /\ lines \in [OldOrders -> [Pieces -> Nat]]
  BY ShelfAssumption DEF ShelfInv, ShelfTyped
<1>4. /\ lines' \in [OldOrders -> [Pieces -> Nat]] /\ lines'[o] = view
      /\ \A p \in OldOrders \ {o} : lines'[p] = lines[p]
  BY <1>1, <1>3
<1>5. Touches(c, o, d)
  <2>1. /\ o \notin closed
        /\ \A e \in Clerks \ {c} : desk[e].order # o
        /\ deployment = "sqlite" => \A e \in Clerks \ {c} : desk[e].order = None
    BY <1>1, OrderOpen
  <2>2. QED
    BY <1>1, <1>2, <1>3, <1>4, <2>1 DEF Touches
<1>6. ASSUME NEW i \in Pieces
      PROVE  /\ HeldOf(deployment, d, closed', lines', o, i) = view[i]
             /\ MostOf(deployment, d, closed', lines', o, i) = view[i]
             /\ HeldOf(deployment, desk[c], closed, lines, o, i)
                  = Held(deployment, desk[c], lines[o], i)
             /\ MostOf(deployment, desk[c], closed, lines, o, i)
                  = AtMost(deployment, desk[c], lines[o], i)
  <2>1. AsWritten(closed', lines', o, i) = view[i]
    BY <1>1, <1>4 DEF AsWritten
  <2>2. QED
    BY <1>1, <1>2, <1>3, <2>1 DEF HeldOf, MostOf
<1>7. Evens(c, o, d)
  BY <1>1, <1>6 DEF Evens
<1>8. QED
  BY <1>5, <1>7, ShelfStepKeeps

LEMMA CommitEditsFailsKeeps ==
    ASSUME ShelfInv, NEW c \in Clerks, CommitEditsFails(c)
    PROVE  ShelfInv'
<1>1. /\ desk[c].at \in {"open", "committing"} /\ desk' = [desk EXCEPT ![c] = NoEdit]
      /\ UNCHANGED <<deployment, onShelf, lines, closed, sold, count>>
  BY DEF CommitEditsFails, AtStep
<1>2. /\ desk[c] \in EditType /\ EditKnown(desk[c])
      /\ Followed(deployment, onShelf, strayed, desk[c], lines[desk[c].order])
      /\ desk[c].order \in OldOrders /\ desk[c].order \notin closed
      /\ lines[desk[c].order] \in [Pieces -> Nat] /\ lines \in [OldOrders -> [Pieces -> Nat]]
      /\ onShelf \in [Pieces -> Nat] /\ strayed \subseteq Pieces \X Why
  BY <1>1, OrderOpen DEF ShelfInv, ShelfTyped
<1>3. PICK line \in [Pieces -> Nat] : line = lines[desk[c].order]
  BY <1>2
<1>4. /\ strayed' = IF deployment # "shopify" THEN strayed
                    ELSE strayed \cup {<<i, "uncommitted">> : i \in desk[c].moved}
  BY DEF CommitEditsFails, NoShopify
<1>5. strayed \subseteq strayed' /\ strayed' \subseteq Pieces \X Why
  BY <1>2, <1>4 DEF Why, EditType
<1>6. \A i \in Pieces : Given(desk[c], i) = 0 /\ Reserved(desk[c], i) = 0
  BY <1>1, <1>2 DEF Given, Reserved, EditKnown
<1>7. \A i \in Pieces : onShelf'[i] = onShelf[i] /\ onShelf[i] \in Nat /\ line[i] \in Nat
                        /\ desk[c].view[i] \in Nat
  BY <1>1, <1>2 DEF EditType
<1>8. ASSUME NEW i \in Pieces
      PROVE  /\ \/ \E why \in Why : <<i, why>> \in strayed'
                \/ onShelf'[i] + line[i]
                      = onShelf[i] + Held(deployment, desk[c], lines[desk[c].order], i)
             /\ \/ Excused(deployment, strayed', i)
                \/ onShelf'[i] + line[i]
                      <= onShelf[i] + AtMost(deployment, desk[c], lines[desk[c].order], i)
  <2>1. CASE deployment = "shopify" /\ i \in desk[c].moved
    <3>1. <<i, "uncommitted">> \in strayed' /\ "uncommitted" \in Why
      BY <1>4, <2>1 DEF Why
    <3>2. QED
      BY <3>1 DEF Excused
  <2>2. CASE deployment = "shopify" /\ i \notin desk[c].moved
    <3>1. desk[c].view[i] = line[i] \/ <<i, "logged">> \in strayed'
      BY <1>2, <1>3, <1>5, <2>2 DEF Followed
    <3>2. /\ Held(deployment, desk[c], line, i) = desk[c].view[i]
          /\ AtMost(deployment, desk[c], line, i) = line[i]
      BY <1>6, <1>7, <2>2 DEF Held, AtMost
    <3>3. "logged" \in Why
      BY DEF Why
    <3>4. QED
      BY <1>3, <1>7, <3>1, <3>2, <3>3
  <2>3. CASE deployment # "shopify"
    BY <1>3, <1>7, <2>3 DEF Held, AtMost
  <2>4. QED
    BY <2>1, <2>2, <2>3
<1>9. lines' = [lines EXCEPT ![desk[c].order] = line]
  BY <1>1, <1>2, <1>3
<1>10. onShelf' \in [Pieces -> Nat]
  BY <1>1, <1>2
<1>11. QED
  BY <1>1, <1>2, <1>5, <1>8, <1>9, <1>10, EditEnds

LEMMA CommitEditsKeeps ==
    ASSUME ShelfInv, NEW c \in Clerks, CommitEdits(c)
    PROVE  ShelfInv'
<1>1. /\ desk[c].at \in {"open", "committing"} /\ desk' = [desk EXCEPT ![c] = NoEdit]
      /\ lines' = [lines EXCEPT ![desk[c].order] = desk[c].view]
      /\ closed' = IF desk[c].closing THEN closed \cup {desk[c].order} ELSE closed
      /\ UNCHANGED <<deployment, sold, count>>
  BY DEF CommitEdits, AtStep
<1>2. /\ desk[c] \in EditType /\ EditKnown(desk[c])
      /\ Followed(deployment, onShelf, strayed, desk[c], lines[desk[c].order])
      /\ desk[c].order \in OldOrders /\ desk[c].order \notin closed
      /\ lines[desk[c].order] \in [Pieces -> Nat] /\ lines \in [OldOrders -> [Pieces -> Nat]]
      /\ onShelf \in [Pieces -> Nat] /\ strayed \subseteq Pieces \X Why
      /\ deployment \in KnownDeployments
  BY <1>1, OrderOpen, ShelfAssumption DEF ShelfInv, ShelfTyped
<1>3. PICK line \in [Pieces -> Nat] : line = lines[desk[c].order]
  BY <1>2
<1>4. PICK view \in [Pieces -> Nat] : view = desk[c].view
  BY <1>2 DEF EditType
<1>5. PICK moves \in [Pieces -> RowMove] : moves = desk[c].moves
  BY <1>2 DEF EditType
<1>6. \A i \in Pieces : Given(desk[c], i) = 0 /\ Reserved(desk[c], i) = 0
  BY <1>1, <1>2 DEF Given, Reserved, EditKnown
<1>7. desk[c].order \in closed' => \A i \in Pieces : view[i] = 0
  BY <1>1, <1>2, <1>4 DEF EditKnown
<1>8. \A i \in Pieces : /\ onShelf[i] \in Nat /\ line[i] \in Nat /\ view[i] \in Nat
                        /\ moves[i].by \in Int /\ moves[i].least \in Nat /\ moves[i].takes \in Nat
  BY <1>2 DEF RowMove
<1>9. CASE deployment = "shopify"
  <2>1. onShelf' = onShelf /\ strayed' = strayed
    BY <1>9 DEF CommitEdits, NoShopify
  <2>2. ASSUME NEW i \in Pieces
        PROVE  /\ onShelf'[i] + view[i]
                     = onShelf[i] + Held(deployment, desk[c], lines[desk[c].order], i)
               /\ onShelf'[i] + view[i]
                     <= onShelf[i] + AtMost(deployment, desk[c], lines[desk[c].order], i)
    <3>1. i \notin desk[c].moved => view[i] <= line[i]
      BY <1>2, <1>3, <1>4, <1>9 DEF Followed
    <3>2. /\ Held(deployment, desk[c], line, i) = view[i]
          /\ AtMost(deployment, desk[c], line, i) = IF i \in desk[c].moved THEN view[i] ELSE line[i]
      BY <1>4, <1>6, <1>8, <1>9 DEF Held, AtMost
    <3>3. QED
      BY <1>3, <1>8, <2>1, <3>1, <3>2
  <2>3. QED
    BY <1>1, <1>2, <1>4, <1>7, <2>1, <2>2, EditEnds
<1>10. CASE deployment # "shopify"
  <2>1. onShelf' = Floors(moves) /\ strayed' = strayed \cup SoldUnheld(moves)
    BY <1>5, <1>10 DEF CommitEdits, NoShopify
  <2>2. \A i \in Pieces :
           onShelf'[i] = IF onShelf[i] + moves[i].by > moves[i].least
                         THEN onShelf[i] + moves[i].by ELSE moves[i].least
    BY <2>1 DEF Floors
  <2>3. onShelf' \in [Pieces -> Nat]
    <3>1. \A i \in Pieces : onShelf'[i] \in Nat
      BY <1>8, <2>2
    <3>2. QED
      BY <2>1, <3>1 DEF Floors
  <2>4. \A i \in Pieces : onShelf'[i] # onShelf[i] + moves[i].by =>
            <<i, IF moves[i].takes > 1 THEN "unseen" ELSE "raced">> \in strayed'
    BY <2>1 DEF SoldUnheld
  <2>5. strayed \subseteq strayed' /\ strayed' \subseteq Pieces \X Why
    BY <1>2, <2>1 DEF SoldUnheld, Why
  <2>6. ASSUME NEW i \in Pieces
        PROVE  /\ \/ \E why \in Why : <<i, why>> \in strayed'
                  \/ onShelf'[i] + view[i]
                        = onShelf[i] + Held(deployment, desk[c], lines[desk[c].order], i)
               /\ \/ Excused(deployment, strayed', i)
                  \/ onShelf'[i] + view[i]
                        <= onShelf[i] + AtMost(deployment, desk[c], lines[desk[c].order], i)
    <3>1. moves[i].by = line[i] - view[i]
      BY <1>2, <1>3, <1>4, <1>5, <1>10 DEF Followed
    <3>2. /\ Held(deployment, desk[c], line, i) = line[i]
          /\ AtMost(deployment, desk[c], line, i) = line[i]
      BY <1>10 DEF Held, AtMost
    <3>3. CASE onShelf'[i] = onShelf[i] + moves[i].by
      <4>1. onShelf'[i] + view[i] = onShelf[i] + line[i]
        BY <1>8, <3>1, <3>3
      <4>2. onShelf'[i] + view[i] <= onShelf[i] + line[i]
        BY <1>8, <4>1
      <4>3. QED
        BY <1>3, <3>2, <4>1, <4>2
    <3>4. CASE onShelf'[i] # onShelf[i] + moves[i].by
      <4>1. "unseen" \in Why /\ "raced" \in Why
        BY DEF Why
      <4>2. CASE moves[i].takes > 1
        BY <2>4, <3>4, <4>1, <4>2 DEF Excused
      <4>3. CASE ~(moves[i].takes > 1)
        <5>1. <<i, "raced">> \in strayed'
          BY <2>4, <3>4, <4>3
        <5>2. deployment # "sqlite"
          <6>1. SUFFICES ASSUME deployment = "sqlite" PROVE FALSE
            OBVIOUS
          <6>2. moves[i].takes <= 1
            BY <1>8, <4>3
          <6>3. moves[i].least <= onShelf[i] + moves[i].by
            BY <1>2, <1>5, <1>10, <6>1, <6>2 DEF Followed
          <6>4. QED
            BY <1>8, <2>2, <3>4, <6>3
        <5>3. deployment = "postgres"
          BY <1>2, <1>10, <5>2 DEF KnownDeployments
        <5>4. QED
          BY <4>1, <5>1, <5>3 DEF Excused
      <4>4. QED
        BY <4>2, <4>3
    <3>5. QED
      BY <3>3, <3>4
  <2>7. QED
    BY <1>1, <1>2, <1>4, <1>7, <2>3, <2>5, <2>6, EditEnds
<1>11. QED
  BY <1>9, <1>10

-----------------------------------------------------------------------------
(* The others at the shelf; and the specification.                         *)

\* A step that is no clerk's.
LEMMA OthersKeep ==
    ASSUME ShelfInv, UNCHANGED <<deployment, lines, closed, desk>>,
           deployment = "shopify",
           onShelf' \in [Pieces -> Nat], sold' \in [Pieces -> Nat],
           count' \in {None} \cup (Pieces \X Nat),
           strayed \subseteq strayed', strayed' \subseteq Pieces \X Why,
           \A i \in Pieces :
              \/ onShelf'[i] + sold'[i] = onShelf[i] + sold[i]
              \/ <<i, "overwritten">> \in strayed'
    PROVE  ShelfInv'
<1>1. ShelfTyped /\ OneEditEach /\ DesksKnown
  BY DEF ShelfInv
<1>2. ShelfTyped' /\ OneEditEach'
  BY <1>1 DEF ShelfTyped, OneEditEach
<1>3. DesksKnown'
  <2> SUFFICES ASSUME NEW c \in Clerks, desk[c].order # None
               PROVE  Followed(deployment, onShelf', strayed', desk[c], lines[desk[c].order])
    BY <1>1 DEF DesksKnown
  <2>1. Followed(deployment, onShelf, strayed, desk[c], lines[desk[c].order])
    BY <1>1 DEF DesksKnown
  <2>2. QED
    BY <2>1, FollowedStays
<1>4. \A i \in Pieces : /\ onShelf[i] \in Nat /\ onShelf'[i] \in Nat /\ sold[i] \in Nat
                        /\ sold'[i] \in Nat /\ Whole(i)' = Whole(i)
  BY <1>1 DEF ShelfTyped, Whole
<1>5. "overwritten" \in Why
  BY DEF Why
<1>6. IsFiniteSet(OldOrders)
  BY ShelfAssumption
<1>7. Balanced'
  <2> SUFFICES ASSUME NEW i \in Pieces
               PROVE  (\E h \in [OldOrders -> Nat] :
                         /\ HeldShares(deployment, desk, closed, lines, h, i)
                         /\ Strayed(i, Why) \/ onShelf[i] + Total(h) + sold[i] = Whole(i))'
    BY DEF Balanced
  <2>1. PICK h \in [OldOrders -> Nat] :
            /\ HeldShares(deployment, desk, closed, lines, h, i)
            /\ Strayed(i, Why) \/ onShelf[i] + Total(h) + sold[i] = Whole(i)
    BY DEF ShelfInv, Balanced
  <2>2. HeldShares(deployment', desk', closed', lines', h, i)
    BY <2>1
  <2>3. Total(h) \in Nat
    BY <1>6, TotalType, Zenon
  <2>4. CASE Strayed(i, Why) \/ <<i, "overwritten">> \in strayed'
    BY <1>5, <2>2, <2>4 DEF Strayed
  <2>5. CASE ~Strayed(i, Why) /\ <<i, "overwritten">> \notin strayed'
    <3>1. onShelf'[i] + Total(h) + sold'[i] = Whole(i)'
      BY <1>4, <2>1, <2>3, <2>5
    <3>2. QED
      BY <2>2, <3>1
  <2>6. QED
    BY <2>4, <2>5
<1>8. Bounded'
  <2> SUFFICES ASSUME NEW i \in Pieces
               PROVE  (\E h \in [OldOrders -> Nat] :
                         /\ MostShares(deployment, desk, closed, lines, h, i)
                         /\ \/ Excused(deployment, strayed, i)
                            \/ onShelf[i] + Total(h) + sold[i] <= Whole(i))'
    BY DEF Bounded
  <2>1. PICK h \in [OldOrders -> Nat] :
            /\ MostShares(deployment, desk, closed, lines, h, i)
            /\ Excused(deployment, strayed, i) \/ onShelf[i] + Total(h) + sold[i] <= Whole(i)
    BY DEF ShelfInv, Bounded
  <2>2. MostShares(deployment', desk', closed', lines', h, i)
    BY <2>1
  <2>3. Total(h) \in Nat
    BY <1>6, TotalType, Zenon
  <2>4. CASE Excused(deployment, strayed, i) \/ <<i, "overwritten">> \in strayed'
    BY <2>2, <2>4 DEF Excused
  <2>5. CASE ~Excused(deployment, strayed, i) /\ <<i, "overwritten">> \notin strayed'
    <3>1. onShelf'[i] + Total(h) + sold'[i] <= Whole(i)'
      BY <1>4, <2>1, <2>3, <2>5
    <3>2. QED
      BY <2>2, <3>1
  <2>6. QED
    BY <2>4, <2>5
<1>9. QED
  BY <1>2, <1>3, <1>7, <1>8 DEF ShelfInv

LEMMA StorefrontSellsKeeps ==
    ASSUME ShelfInv, NEW i \in Pieces, StorefrontSells(i)
    PROVE  ShelfInv'
<1>1. ShelfTyped /\ deployment = "shopify"
  BY DEF ShelfInv, StorefrontSells, NoShopify
<1>2. /\ onShelf \in [Pieces -> Nat] /\ sold \in [Pieces -> Nat] /\ strayed \subseteq Pieces \X Why
      /\ count \in {None} \cup (Pieces \X Nat)
  BY <1>1 DEF ShelfTyped
<1>3. /\ onShelf[i] > 0 /\ onShelf' = [onShelf EXCEPT ![i] = @ - 1]
      /\ sold' = [sold EXCEPT ![i] = @ + 1]
      /\ UNCHANGED <<deployment, lines, closed, desk, count, strayed>>
  BY DEF StorefrontSells
<1>4. onShelf' \in [Pieces -> Nat] /\ sold' \in [Pieces -> Nat]
  BY <1>2, <1>3
<1>5. \A j \in Pieces : onShelf'[j] + sold'[j] = onShelf[j] + sold[j]
  BY <1>2, <1>3
<1>6. QED
  BY <1>1, <1>2, <1>3, <1>4, <1>5, OthersKeep

LEMMA StaffCountKeeps ==
    ASSUME ShelfInv, NEW i \in Pieces, StaffCount(i)
    PROVE  ShelfInv'
<1>1. ShelfTyped /\ deployment = "shopify"
  BY DEF ShelfInv, StaffCount, NoShopify
<1>2. /\ onShelf \in [Pieces -> Nat] /\ sold \in [Pieces -> Nat] /\ strayed \subseteq Pieces \X Why
  BY <1>1 DEF ShelfTyped
<1>3. /\ count' = <<i, onShelf[i]>>
      /\ UNCHANGED <<deployment, onShelf, lines, closed, desk, sold, strayed>>
  BY DEF StaffCount
<1>4. count' \in {None} \cup (Pieces \X Nat)
  BY <1>2, <1>3
<1>5. QED
  BY <1>1, <1>2, <1>3, <1>4, OthersKeep

LEMMA SetQuantitiesKeeps ==
    ASSUME ShelfInv, SetQuantities
    PROVE  ShelfInv'
<1>1. ShelfTyped /\ count # None
  BY DEF ShelfInv, SetQuantities
<1>2. /\ deployment = "shopify" /\ onShelf \in [Pieces -> Nat] /\ sold \in [Pieces -> Nat]
      /\ strayed \subseteq Pieces \X Why /\ count \in Pieces \X Nat
  BY <1>1 DEF ShelfTyped
<1>3. PICK i \in Pieces, n \in Nat : i = count[1] /\ n = count[2]
  BY <1>2
<1>4. /\ onShelf' = [onShelf EXCEPT ![i] = n] /\ count' = None
      /\ strayed' = IF onShelf[i] = n THEN strayed ELSE strayed \cup {<<i, "overwritten">>}
      /\ UNCHANGED <<deployment, lines, closed, desk, sold>>
  BY <1>3 DEF SetQuantities
<1>5. strayed \subseteq strayed' /\ strayed' \subseteq Pieces \X Why
  BY <1>2, <1>4 DEF Why
<1>6. \A j \in Pieces :
         onShelf'[j] + sold'[j] = onShelf[j] + sold[j] \/ <<j, "overwritten">> \in strayed'
  BY <1>2, <1>4
<1>7. onShelf' \in [Pieces -> Nat] /\ sold' \in [Pieces -> Nat] /\ count' \in {None} \cup (Pieces \X Nat)
  BY <1>2, <1>4
<1>8. QED
  BY <1>1, <1>2, <1>4, <1>5, <1>6, <1>7, OthersKeep

LEMMA ShelfInitInv == ShelfInit => ShelfInv
<1> SUFFICES ASSUME ShelfInit PROVE ShelfInv
  OBVIOUS
<1>1. NoEdit \in EditType /\ EditKnown(NoEdit) /\ NoEdit.order = None
  BY NoEditIs
<1>2. PICK d \in EditType : d = NoEdit /\ EditKnown(d) /\ d.order = None
  BY <1>1
<1>3. /\ deployment \in Deployments /\ onShelf = Stock /\ lines = OnOrder /\ closed = {}
      /\ desk = [c \in Clerks |-> d] /\ sold = Nothing /\ count = None /\ strayed = {}
  BY <1>2 DEF ShelfInit
<1>4. /\ Stock \in [Pieces -> Nat] /\ OnOrder \in [OldOrders -> [Pieces -> Nat]]
      /\ IsFiniteSet(OldOrders) /\ None \notin OldOrders
  BY ShelfAssumption
<1>5. ShelfTyped
  BY <1>2, <1>3, <1>4 DEF ShelfTyped, Nothing
<1>6. \A c \in Clerks : desk[c] = d /\ desk[c].order = None
  BY <1>2, <1>3
<1>7. OneEditEach
  BY <1>3, <1>6 DEF OneEditEach
<1>8. DesksKnown
  BY <1>2, <1>6 DEF DesksKnown
<1>9. ASSUME NEW i \in Pieces
      PROVE  \E h \in [OldOrders -> Nat] :
                /\ HeldShares(deployment, desk, closed, lines, h, i)
                /\ MostShares(deployment, desk, closed, lines, h, i)
                /\ onShelf[i] + Total(h) + sold[i] = Whole(i)
  <2>1. PICK h \in [OldOrders -> Nat] : h = [o \in OldOrders |-> OnOrder[o][i]]
    BY <1>4
  <2>2. \A o \in OldOrders : h[o] = AsWritten(closed, lines, o, i)
    BY <1>3, <2>1 DEF AsWritten
  <2>3. HeldShares(deployment, desk, closed, lines, h, i)
    BY <1>4, <1>6, <2>2 DEF HeldShares
  <2>4. MostShares(deployment, desk, closed, lines, h, i)
    BY <1>4, <1>6, <2>2 DEF MostShares
  <2>5. Total(h) \in Nat
    BY <1>4, TotalType, Zenon
  <2>6. onShelf[i] = Stock[i] /\ Stock[i] \in Nat /\ sold[i] = 0 /\ Whole(i) = Stock[i] + Total(h)
    BY <1>3, <1>4, <2>1 DEF Whole, Nothing
  <2>7. onShelf[i] + Total(h) + sold[i] = Whole(i)
    BY <2>5, <2>6
  <2>8. QED
    BY <2>3, <2>4, <2>7
<1>10. Balanced
  BY <1>9 DEF Balanced
<1>11. Bounded
  <2> SUFFICES ASSUME NEW i \in Pieces
               PROVE  \E h \in [OldOrders -> Nat] :
                         /\ MostShares(deployment, desk, closed, lines, h, i)
                         /\ \/ Excused(deployment, strayed, i)
                            \/ onShelf[i] + Total(h) + sold[i] <= Whole(i)
    BY DEF Bounded
  <2>1. PICK h \in [OldOrders -> Nat] :
                /\ MostShares(deployment, desk, closed, lines, h, i)
                /\ onShelf[i] + Total(h) + sold[i] = Whole(i)
    BY <1>9
  <2>2. onShelf[i] + Total(h) + sold[i] \in Int
    <3>1. Total(h) \in Nat
      BY <1>4, TotalType, Zenon
    <3>2. onShelf[i] \in Nat /\ sold[i] \in Nat
      BY <1>5 DEF ShelfTyped
    <3>3. QED
      BY <3>1, <3>2
  <2>3. QED
    BY <2>1, <2>2
<1>12. QED
  BY <1>5, <1>7, <1>8, <1>10, <1>11 DEF ShelfInv

LEMMA ShelfNextInv == ShelfInv /\ [ShelfNext]_shelfVars => ShelfInv'
<1> SUFFICES ASSUME ShelfInv, [ShelfNext]_shelfVars PROVE ShelfInv'
  OBVIOUS
<1>1. ASSUME NEW c \in Clerks, ClerkStep(c) PROVE ShelfInv'
  <2>1. ASSUME NEW o \in OldOrders, NEW i \in Pieces,
               \/ PlaceLocally(c, o, i) \/ AddUnit(c, o, i) \/ LowerUnit(c, o, i)
               \/ \E j \in Pieces : SwapItems(c, o, i, j)
        PROVE  ShelfInv'
    BY <2>1, BeginningKeeps
  <2>2. ASSUME NEW o \in OldOrders, CancelOld(c, o) PROVE ShelfInv'
    <3>1. OrderSeen(c, o) # Nothing
      BY <2>2 DEF CancelOld
    <3>2. OrderSeen(c, o) \in [Pieces -> Nat]
      BY DEF ShelfInv, ShelfTyped, OrderSeen, EditType
    <3>3. PICK i \in Pieces : TRUE
      BY <3>1, <3>2 DEF Nothing
    <3>4. QED
      BY <2>2, <3>3, BeginningKeeps
  <2>3. CASE ReadShelf(c)
    BY <2>3, ReadShelfKeeps
  <2>4. CASE ReserveUnits(c)
    BY <2>4, ReserveUnitsKeeps
  <2>5. CASE Reread(c)
    BY <2>5, RereadKeeps
  <2>6. CASE ReadForRelease(c)
    BY <2>6, ReadForReleaseKeeps
  <2>7. CASE ReleaseUnits(c)
    BY <2>7, ReleaseUnitsKeeps
  <2>8. CASE WriteEdit(c)
    BY <2>8, WriteEditKeeps
  <2>9. CASE WriteEditFails(c)
    BY <2>9, WriteEditFailsKeeps
  <2>10. CASE ReturnReceipts(c)
    BY <2>10, ReturnReceiptsKeeps
  <2>11. CASE CommitEdits(c)
    BY <2>11, CommitEditsKeeps
  <2>12. CASE CommitEditsFails(c)
    BY <2>12, CommitEditsFailsKeeps
  <2>13. QED
    BY <1>1, <2>1, <2>2, <2>3, <2>4, <2>5, <2>6, <2>7, <2>8, <2>9, <2>10, <2>11, <2>12
       DEF ClerkStep
<1>2. ASSUME NEW i \in Pieces, StorefrontSells(i) PROVE ShelfInv'
  BY <1>2, StorefrontSellsKeeps
<1>3. ASSUME NEW i \in Pieces, StaffCount(i) PROVE ShelfInv'
  BY <1>3, StaffCountKeeps
<1>4. CASE SetQuantities
  BY <1>4, SetQuantitiesKeeps
<1>5. CASE UNCHANGED shelfVars
  BY <1>5 DEF shelfVars, ShelfInv, ShelfTyped, OneEditEach, DesksKnown, Balanced, Bounded,
              Strayed, Whole
<1>6. QED
  BY <1>1, <1>2, <1>3, <1>4, <1>5 DEF ShelfNext

THEOREM ShelfReached == ShelfSpec => []ShelfInv
BY ShelfInitInv, ShelfNextInv, PTL DEF ShelfSpec

\* What the orders hold when no transaction is open.
LEMMA AtRestWritten ==
    ASSUME ShelfInv, ShelfAtRest, NEW i \in Pieces, NEW h \in [OldOrders -> Nat],
           \/ HeldShares(deployment, desk, closed, lines, h, i)
           \/ MostShares(deployment, desk, closed, lines, h, i)
    PROVE  Total(h) = InOrders(i)
<1>1. \A c \in Clerks : desk[c].order = None
  BY DEF ShelfInv, DesksKnown, EditKnown, ShelfAtRest, Busy, AtStep
<1>2. \A o \in OldOrders : h[o] = IF o \in closed THEN 0 ELSE lines[o][i]
  BY <1>1, ShelfAssumption DEF HeldShares, MostShares, AsWritten
<1>3. h = [o \in OldOrders |-> IF o \in closed THEN 0 ELSE lines[o][i]]
  BY <1>2
<1>4. QED
  BY <1>3 DEF InOrders

\* Whatever the deployment and however the turns, the dashboard, the storefront
\* and the staff's counts interleave and fail: between transactions a unit is on
\* the shelf, on an order or sold, or it was given up where the code says so.
THEOREM UnitsAreSomewhere == ShelfSpec => []EveryUnitSomewhere
<1>1. ShelfInv => EveryUnitSomewhere
  <2> SUFFICES ASSUME ShelfInv, ShelfAtRest, NEW i \in Pieces
               PROVE  Strayed(i, Why) \/ onShelf[i] + InOrders(i) + sold[i] = Whole(i)
    BY DEF EveryUnitSomewhere
  <2>1. PICK h \in [OldOrders -> Nat] :
            /\ HeldShares(deployment, desk, closed, lines, h, i)
            /\ Strayed(i, Why) \/ onShelf[i] + Total(h) + sold[i] = Whole(i)
    BY DEF ShelfInv, Balanced
  <2>2. Total(h) = InOrders(i)
    BY <2>1, AtRestWritten, Zenon
  <2>3. QED
    BY <2>1, <2>2
<1>2. QED
  BY <1>1, ShelfReached, PTL

\* And orders and storefront together hold no more than there was, but after the
\* mishaps NothingSoldTwice names; on SQLite a read that raced is not one of them.
THEOREM NoUnitTwice == ShelfSpec => []NothingSoldTwice
<1>1. ShelfInv => NothingSoldTwice
  <2> SUFFICES ASSUME ShelfInv, ShelfAtRest, NEW i \in Pieces
               PROVE  \/ InOrders(i) + sold[i] <= Whole(i)
                      \/ Strayed(i, {"uncommitted", "half_undone", "overwritten", "unseen"})
                      \/ deployment = "postgres" /\ Strayed(i, {"raced"})
    BY DEF NothingSoldTwice
  <2>1. PICK h \in [OldOrders -> Nat] :
            /\ MostShares(deployment, desk, closed, lines, h, i)
            /\ Excused(deployment, strayed, i) \/ onShelf[i] + Total(h) + sold[i] <= Whole(i)
    BY DEF ShelfInv, Bounded
  <2>2. Total(h) = InOrders(i)
    BY <2>1, AtRestWritten, Zenon
  <2>3. CASE Excused(deployment, strayed, i)
    BY <2>3 DEF Excused, Strayed
  <2>4. CASE onShelf[i] + Total(h) + sold[i] <= Whole(i)
    <3>1. onShelf[i] \in Nat /\ sold[i] \in Nat
      BY DEF ShelfInv, ShelfTyped
    <3>2. Total(h) \in Nat
      BY ShelfAssumption, TotalType, Zenon
    <3>3. Whole(i) \in Int
      <4>1. PICK f : f = [o \in OldOrders |-> OnOrder[o][i]]
        OBVIOUS
      <4>2. f \in [OldOrders -> Nat] /\ Stock[i] \in Nat /\ IsFiniteSet(OldOrders)
        BY <4>1, ShelfAssumption
      <4>3. QED
        BY <4>1, <4>2, TotalType DEF Whole
    <3>4. QED
      BY <2>2, <2>4, <3>1, <3>2, <3>3
  <2>5. QED
    BY <2>1, <2>3, <2>4
<1>2. QED
  BY <1>1, ShelfReached, PTL
=============================================================================
