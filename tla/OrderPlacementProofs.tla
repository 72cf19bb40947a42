------------------------ MODULE OrderPlacementProofs ------------------------
(***************************************************************************)
(* Proofs about OrderPlacement, for any customers, carts and stock, any    *)
(* number of attempts and confirms, and every set of faults that the       *)
(* statement allows.                                                       *)
(***************************************************************************)
EXTENDS OrderPlacement, SequenceTheorems, FiniteSetTheorems, TLAPS

\* The lines a turn works on are the customer's cart, until they are ordered.
LinesInHand ==
    \A c \in Customers :
        /\ work[c].step # "idle" => work[c].lines \in Carts
        /\ work[c].step \notin {"idle", "compensate"} => work[c].lines = cart[c]

\* A sale in hand is the customer's own, open, and not given up.
SaleInHand ==
    \A c \in Customers :
        InHand(c) =>
            /\ work[c].sale \in DOMAIN remote
            /\ remote[work[c].sale] = NewSale(c)
            /\ work[c].sale \notin byHand

\* A sale in hand is not recorded, unless a COMMIT in doubt has done so.
Unrecorded ==
    \A c \in Customers :
        /\ InHand(c)
        /\ work[c].step = "compensate" => "commit_ambiguous" \notin Faults
        => \A o \in orders : o.sale # work[c].sale

\* Sales that were named to anybody exist.
NamedSalesExist == byHand \subseteq DOMAIN remote

\* Without commits in doubt, what is recorded is open and not given up.
RecordedStands ==
    "commit_ambiguous" \notin Faults =>
        \A o \in orders : remote[o.sale].status = "open" /\ o.sale \notin byHand

SalesInv == LinesInHand /\ SaleInHand /\ Unrecorded /\ OrdersMatchSales
            /\ NamedSalesExist /\ RecordedStands

\* The inductive invariant.
IInv == TypeOK /\ SalesInv

-----------------------------------------------------------------------------
(* Types.                                                                  *)

\* A cart's lines ask for a natural number of units of any variant.
LEMMA QuantityType ==
    ASSUME NEW lines \in Carts, NEW v \in Variants
    PROVE  Quantity(lines, v) \in Nat
<1> DEFINE of == {i \in DOMAIN lines : lines[i].variant = v}
<1>1. CASE of = {}
  BY <1>1 DEF Quantity
<1>2. CASE of # {}
  <2>1. PICK i : i = CHOOSE j \in of : TRUE
    OBVIOUS
  <2>2. i \in DOMAIN lines
    BY <1>2, <2>1
  <2>3. lines \in Seq(Line)
    BY CartsAssumption
  <2>4. lines[i] \in Line
    BY <2>2, <2>3, ElementOfSeq
  <2>5. Quantity(lines, v) = lines[i].quantity
    BY <1>2, <2>1 DEF Quantity
  <2>6. QED
    BY <2>4, <2>5 DEF Line
<1>3. QED
  BY <1>1, <1>2

\* What the turn of c may do to its own record.
LEMMA WorkTypes ==
    ASSUME TypeOK, NEW c \in Customers
    PROVE  /\ work[c] \in WorkType
           /\ AtRest \in WorkType
           /\ \A w \in WorkType : [work EXCEPT ![c] = w] \in [Customers -> WorkType]
<1>1. AtRest \in WorkType
  <2>1. 1 \in 1..Attempts
    BY BoundsAssumption
  <2>2. QED
    BY <2>1 DEF WorkType, AtRest, Steps
<1>2. QED
  BY <1>1 DEF TypeOK

\* So does changing any of its fields within their types.
LEMMA FieldTypes ==
    ASSUME work \in [Customers -> WorkType], NEW c \in Customers
    PROVE  /\ \A s \in Steps, n \in Nat :
                /\ [work EXCEPT ![c].step = s, ![c].sale = n] \in [Customers -> WorkType]
                /\ [work EXCEPT ![c].step = s, ![c].written = n] \in [Customers -> WorkType]
           /\ [work EXCEPT ![c].written = @ + 1] \in [Customers -> WorkType]
           /\ \A a \in 1..Attempts :
                [work EXCEPT ![c].linked = FALSE, ![c].attempt = a] \in [Customers -> WorkType]
<1>1. work[c] \in WorkType
  OBVIOUS
<1>2. ASSUME NEW s \in Steps, NEW n \in Nat
      PROVE  /\ [work[c] EXCEPT !.step = s, !.sale = n] \in WorkType
             /\ [work[c] EXCEPT !.step = s, !.written = n] \in WorkType
  BY <1>1 DEF WorkType
<1>3. [work[c] EXCEPT !.written = @ + 1] \in WorkType
  BY <1>1 DEF WorkType
<1>4. ASSUME NEW a \in 1..Attempts
      PROVE  [work[c] EXCEPT !.linked = FALSE, !.attempt = a] \in WorkType
  BY <1>1 DEF WorkType
<1>5. ASSUME NEW w \in WorkType
      PROVE  [work EXCEPT ![c] = w] \in [Customers -> WorkType]
  OBVIOUS
<1>6. ASSUME NEW s \in Steps, NEW n \in Nat
      PROVE  /\ [work EXCEPT ![c].step = s, ![c].sale = n] \in [Customers -> WorkType]
             /\ [work EXCEPT ![c].step = s, ![c].written = n] \in [Customers -> WorkType]
  <2>1. /\ [work EXCEPT ![c].step = s, ![c].sale = n]
              = [work EXCEPT ![c] = [work[c] EXCEPT !.step = s, !.sale = n]]
        /\ [work EXCEPT ![c].step = s, ![c].written = n]
              = [work EXCEPT ![c] = [work[c] EXCEPT !.step = s, !.written = n]]
    OBVIOUS
  <2>2. QED
    BY <1>2, <1>5, <2>1
<1>7. [work EXCEPT ![c].written = @ + 1] \in [Customers -> WorkType]
  <2>1. [work EXCEPT ![c].written = @ + 1]
              = [work EXCEPT ![c] = [work[c] EXCEPT !.written = @ + 1]]
    OBVIOUS
  <2>2. QED
    BY <1>3, <1>5, <2>1
<1>8. ASSUME NEW a \in 1..Attempts
      PROVE  [work EXCEPT ![c].linked = FALSE, ![c].attempt = a] \in [Customers -> WorkType]
  <2>1. [work EXCEPT ![c].linked = FALSE, ![c].attempt = a]
              = [work EXCEPT ![c] = [work[c] EXCEPT !.linked = FALSE, !.attempt = a]]
    OBVIOUS
  <2>2. QED
    BY <1>4, <1>5, <2>1
<1>9. QED
  BY <1>6, <1>7, <1>8

\* Returning keeps the types.
LEMMA ReturnTypes ==
    ASSUME TypeOK, NEW c \in Customers, NEW what \in Answers, Return(c, what)
    PROVE  work' \in [Customers -> WorkType] /\ answer' \in [Customers -> Answers]
BY WorkTypes DEF Return, TypeOK

\* Moving on keeps the type.
LEMMA GoToTypes ==
    ASSUME TypeOK, NEW c \in Customers, NEW s \in Steps, GoTo(c, s)
    PROVE  work' \in [Customers -> WorkType]
BY DEF GoTo, TypeOK, WorkType

\* The next attempt keeps the types.
LEMMA NextAttemptTypes ==
    ASSUME TypeOK, NEW c \in Customers, NextAttempt(c)
    PROVE  work' \in [Customers -> WorkType] /\ answer' \in [Customers -> Answers]
<1>1. CASE Return(c, "store_unavailable")
  BY <1>1, ReturnTypes DEF Answers
<1>2. CASE /\ work[c].attempt < Attempts
           /\ work' = [work EXCEPT ![c].attempt = @ + 1]
           /\ UNCHANGED answer
  <2>1. work[c] \in WorkType
    BY WorkTypes
  <2>2. work[c].attempt + 1 \in 1..Attempts
    BY <1>2, <2>1, BoundsAssumption DEF WorkType
  <2>3. [work[c] EXCEPT !.attempt = @ + 1] \in WorkType
    BY <2>1, <2>2 DEF WorkType
  <2>4. work' = [work EXCEPT ![c] = [work[c] EXCEPT !.attempt = @ + 1]]
    BY <1>2 DEF TypeOK
  <2>5. QED
    BY <1>2, <2>3, <2>4, WorkTypes DEF TypeOK
<1>3. QED
  BY <1>1, <1>2 DEF NextAttempt

\* Booking a sale keeps the types, and puts it at the end.
LEMMA BookTypes ==
    ASSUME TypeOK, NEW c \in Customers, work[c].lines \in Carts, Book(c)
    PROVE  /\ remote' \in Seq(RemoteOrder)
           /\ shelf' \in [Variants -> Int]
           /\ Len(remote') = Len(remote) + 1
           /\ DOMAIN remote' = DOMAIN remote \cup {Len(remote) + 1}
           /\ \A s \in DOMAIN remote : remote'[s] = remote[s]
           /\ remote'[Len(remote) + 1] = NewSale(c)
           /\ Len(remote) \in Nat
           /\ Len(remote) + 1 \notin DOMAIN remote
<1>1. NewSale(c) \in RemoteOrder
  BY DEF NewSale, RemoteOrder
<1>2. remote \in Seq(RemoteOrder) /\ remote' = Append(remote, NewSale(c))
  BY DEF TypeOK, Book
<1>3. /\ remote' \in Seq(RemoteOrder)
      /\ Len(remote') = Len(remote) + 1
      /\ \A s \in 1..Len(remote) : remote'[s] = remote[s]
      /\ remote'[Len(remote) + 1] = NewSale(c)
  BY <1>1, <1>2, AppendProperties
<1>4. /\ DOMAIN remote = 1..Len(remote)
      /\ DOMAIN remote' = 1..Len(remote')
      /\ Len(remote) \in Nat
  BY <1>2, <1>3, LenProperties
<1>5. shelf' \in [Variants -> Int]
  BY QuantityType DEF TypeOK, Book
<1>6. QED
  BY <1>3, <1>4, <1>5

\* Persisting an order keeps the types.
LEMMA PersistTypes ==
    ASSUME TypeOK, NEW c \in Customers, work[c].lines \in Carts,
           work[c].sale \in Nat \ {0}, Persist(c)
    PROVE  /\ orders' \in SUBSET OrderType
           /\ cart' \in [Customers -> Carts \cup {<<>>}]
           /\ recent' \in [Customers -> BOOLEAN]
           /\ stock' \in [Variants -> Nat]
<1>1. orders' \in SUBSET OrderType
  BY DEF Persist, TypeOK, OrderType
<1>2. cart' \in [Customers -> Carts \cup {<<>>}] /\ recent' \in [Customers -> BOOLEAN]
  BY DEF Persist, TypeOK
<1>3. ASSUME NEW v \in Variants
      PROVE  LocalDecrement(stock[v], Quantity(work[c].lines, v)) \in Nat
  BY QuantityType DEF LocalDecrement, TypeOK
<1>4. QED
  BY <1>1, <1>2, <1>3 DEF Persist

\* A sale in hand is a sale.
LEMMA SaleIsNumber ==
    ASSUME TypeOK, SaleInHand, NEW c \in Customers, InHand(c)
    PROVE  work[c].sale \in Nat \ {0} /\ work[c].sale \in 1..Len(remote)
BY LenProperties DEF TypeOK, SaleInHand

-----------------------------------------------------------------------------
(* Type correctness.                                                       *)

\* The steps of a turn that leave the shop and the database as they are.
LEMMA QuietTypes ==
    ASSUME TypeOK, NEW c \in Customers,
           \/ ReadShelf(c) \/ ShelfUnreadable(c)
           \/ CreateOutOfStock(c) \/ CreateDeclined(c) \/ CreateFails(c)
           \/ RecordSold(c) \/ WriteOrder(c) \/ WriteFails(c)
           \/ NotifyFails(c) \/ CommitRefused(c)
    PROVE  TypeOK'
<1>1. UNCHANGED <<dbVars, filled, confirms, shopVars, outVars>>
  BY DEF ReadShelf, ShelfUnreadable, CreateOutOfStock, CreateDeclined, CreateFails,
         RecordSold, WriteOrder, WriteFails, NotifyFails, CommitRefused
<1>2. work' \in [Customers -> WorkType] /\ answer' \in [Customers -> Answers]
  <2>1. CASE ReadShelf(c)
    BY <2>1, ReturnTypes, GoToTypes DEF ReadShelf, Answers, Steps, TypeOK
  <2>2. CASE ShelfUnreadable(c)
    BY <2>2, ReturnTypes DEF ShelfUnreadable, Answers
  <2>3. CASE CreateOutOfStock(c)
    BY <2>3, ReturnTypes DEF CreateOutOfStock, Answers
  <2>4. CASE CreateDeclined(c)
    <3>1. CASE work[c].linked
      <4>1. 1 \in 1..Attempts
        BY BoundsAssumption
      <4>2. work' = [work EXCEPT ![c].linked = FALSE, ![c].attempt = 1] /\ UNCHANGED answer
        BY <2>4, <3>1 DEF CreateDeclined
      <4>3. QED
        BY <4>1, <4>2, FieldTypes DEF TypeOK
    <3>2. CASE ~work[c].linked
      BY <2>4, <3>2, ReturnTypes DEF CreateDeclined, Answers
    <3>3. QED
      BY <3>1, <3>2
  <2>5. CASE CreateFails(c)
    BY <2>5, NextAttemptTypes DEF CreateFails
  <2>6. CASE RecordSold(c)
    BY <2>6, FieldTypes DEF RecordSold, TypeOK
  <2>7. CASE WriteOrder(c)
    BY <2>7, GoToTypes DEF WriteOrder, Steps, TypeOK
  <2>8. CASE WriteFails(c)
    BY <2>8, FieldTypes DEF WriteFails, TypeOK, Steps
  <2>9. CASE NotifyFails(c)
    BY <2>9, GoToTypes DEF NotifyFails, Steps, TypeOK
  <2>10. CASE CommitRefused(c)
    BY <2>10, FieldTypes DEF CommitRefused, TypeOK, Steps
  <2>11. QED
    BY <2>1, <2>2, <2>3, <2>4, <2>5, <2>6, <2>7, <2>8, <2>9, <2>10
<1>3. QED
  BY <1>1, <1>2 DEF TypeOK, dbVars, shopVars, outVars

\* The steps that book, record, tell or cancel.
LEMMA SaleTypes ==
    ASSUME TypeOK, LinesInHand, SaleInHand, NEW c \in Customers,
           \/ CreateAccepted(c) \/ CreateReplyLost(c) \/ Notify(c)
           \/ Commit(c) \/ CommitAmbiguous(c) \/ Cancel(c) \/ CancelFails(c)
    PROVE  TypeOK'
<1>1. work[c].lines \in Carts
  BY DEF LinesInHand, CreateAccepted, CreateReplyLost, Notify, Commit, CommitAmbiguous,
         Cancel, CancelFails
<1>2. CASE CreateAccepted(c)
  <2>1. work' \in [Customers -> WorkType]
    <3>1. Len(remote) + 1 \in Nat
      BY <1>1, <1>2, BookTypes DEF CreateAccepted
    <3>2. QED
      BY <1>2, <3>1, FieldTypes DEF CreateAccepted, TypeOK, Steps
  <2>2. Book(c)
    BY <1>2 DEF CreateAccepted
  <2>3. remote' \in Seq(RemoteOrder) /\ shelf' \in [Variants -> Int]
    BY <1>1, <2>2, BookTypes
  <2>4. QED
    BY <1>2, <2>1, <2>3 DEF CreateAccepted, TypeOK, dbVars, outVars
<1>3. CASE CreateReplyLost(c)
  <2>1. Book(c) /\ NextAttempt(c)
    BY <1>3 DEF CreateReplyLost
  <2>2. remote' \in Seq(RemoteOrder) /\ shelf' \in [Variants -> Int]
    BY <1>1, <2>1, BookTypes
  <2>3. work' \in [Customers -> WorkType] /\ answer' \in [Customers -> Answers]
    BY <2>1, NextAttemptTypes
  <2>4. QED
    BY <1>3, <2>2, <2>3 DEF CreateReplyLost, TypeOK, dbVars, outVars
<1>4. CASE Notify(c)
  <2>1. told' \in SUBSET (Nat \ {0})
    BY <1>4, SaleIsNumber DEF Notify, InHand, TypeOK
  <2>2. work' \in [Customers -> WorkType]
    BY <1>4, GoToTypes DEF Notify, Steps
  <2>3. QED
    BY <1>4, <2>1, <2>2 DEF Notify, TypeOK, dbVars, shopVars
<1>5. CASE Commit(c)
  <2>1. work' \in [Customers -> WorkType] /\ answer' \in [Customers -> Answers]
    BY <1>5, ReturnTypes DEF Commit, Answers
  <2>2. work[c].sale \in Nat \ {0}
    BY <1>5, SaleIsNumber DEF Commit, InHand
  <2>3. /\ orders' \in SUBSET OrderType
        /\ cart' \in [Customers -> Carts \cup {<<>>}]
        /\ recent' \in [Customers -> BOOLEAN]
        /\ stock' \in [Variants -> Nat]
    BY <1>1, <1>5, <2>2, PersistTypes DEF Commit
  <2>4. QED
    BY <1>5, <2>1, <2>3 DEF Commit, TypeOK, shopVars, outVars
<1>6. CASE CommitAmbiguous(c)
  <2>1. work' \in [Customers -> WorkType]
    BY <1>6, FieldTypes DEF CommitAmbiguous, TypeOK, Steps
  <2>2. work[c].sale \in Nat \ {0}
    BY <1>6, SaleIsNumber DEF CommitAmbiguous, InHand
  <2>3. /\ orders' \in SUBSET OrderType
        /\ cart' \in [Customers -> Carts \cup {<<>>}]
        /\ recent' \in [Customers -> BOOLEAN]
        /\ stock' \in [Variants -> Nat]
    BY <1>1, <1>6, <2>2, PersistTypes DEF CommitAmbiguous
  <2>4. QED
    BY <1>6, <2>1, <2>3 DEF CommitAmbiguous, TypeOK, shopVars, outVars
<1>7. CASE Cancel(c)
  <2>1. work' \in [Customers -> WorkType] /\ answer' \in [Customers -> Answers]
    BY <1>7, ReturnTypes DEF Cancel, Answers
  <2>2. remote' \in Seq(RemoteOrder)
    <3>1. PICK s : s = work[c].sale
      OBVIOUS
    <3>2. s \in 1..Len(remote) /\ remote \in Seq(RemoteOrder)
      BY <1>7, <3>1, SaleIsNumber DEF Cancel, InHand, TypeOK
    <3>3. [remote[s] EXCEPT !.status = "cancelling"] \in RemoteOrder
      <4>1. remote[s] \in RemoteOrder
        BY <3>2, ElementOfSeq
      <4>2. QED
        BY <4>1 DEF RemoteOrder
    <3>4. remote' = [remote EXCEPT ![s] = [remote[s] EXCEPT !.status = "cancelling"]]
      BY <1>7, <3>1, <3>2 DEF Cancel
    <3>5. QED
      BY <3>2, <3>3, <3>4, ExceptSeq
  <2>3. QED
    BY <1>7, <2>1, <2>2 DEF Cancel, TypeOK, dbVars, outVars
<1>8. CASE CancelFails(c)
  <2>1. work' \in [Customers -> WorkType] /\ answer' \in [Customers -> Answers]
    BY <1>8, ReturnTypes DEF CancelFails, Answers
  <2>2. byHand' \in SUBSET (Nat \ {0})
    BY <1>8, SaleIsNumber DEF CancelFails, InHand, TypeOK
  <2>3. QED
    BY <1>8, <2>1, <2>2 DEF CancelFails, TypeOK, dbVars, shopVars
<1>9. QED
  BY <1>2, <1>3, <1>4, <1>5, <1>6, <1>7, <1>8

\* The steps around place_order.
LEMMA CustomerTypes ==
    ASSUME TypeOK, NEW c \in Customers, CustomerStep(c)
    PROVE  TypeOK'
<1>1. CASE FillCart(c)
  BY <1>1 DEF FillCart, TypeOK, Answers, shopVars, outVars
<1>2. CASE WindowPasses(c)
  BY <1>2 DEF WindowPasses, TypeOK, shopVars, outVars
<1>3. CASE ConfirmEmpty(c)
  BY <1>3 DEF ConfirmEmpty, TypeOK, Answers, dbVars, shopVars, outVars
<1>4. CASE Confirm(c)
  <2>1. [AtRest EXCEPT !.step = "shelf", !.lines = cart[c]] \in WorkType
    BY <1>4, WorkTypes DEF TypeOK, WorkType, AtRest, Steps
  <2>2. QED
    BY <1>4, <2>1 DEF Confirm, TypeOK, dbVars, shopVars, outVars
<1>5. QED
  BY <1>1, <1>2, <1>3, <1>4 DEF CustomerStep

\* The steps of the world outside.
LEMMA WorldTypes ==
    ASSUME TypeOK,
           \/ \E v \in Variants : StorefrontSale(v)
           \/ \E s \in DOMAIN remote : Restock(s)
           \/ Restart
    PROVE  TypeOK'
<1>1. ASSUME NEW v \in Variants, StorefrontSale(v)
      PROVE  TypeOK'
  BY <1>1 DEF StorefrontSale, TypeOK, dbVars, outVars
<1>2. ASSUME NEW s \in DOMAIN remote, Restock(s)
      PROVE  TypeOK'
  <2>1. remote \in Seq(RemoteOrder) /\ s \in 1..Len(remote)
    BY <1>2, LenProperties DEF TypeOK
  <2>2. remote[s] \in RemoteOrder
    BY <2>1, ElementOfSeq
  <2>3. remote' \in Seq(RemoteOrder)
    <3>1. [remote[s] EXCEPT !.status = "cancelled"] \in RemoteOrder
      BY <2>2 DEF RemoteOrder
    <3>2. remote' = [remote EXCEPT ![s] = [remote[s] EXCEPT !.status = "cancelled"]]
      BY <1>2, <2>1 DEF Restock
    <3>3. QED
      BY <2>1, <3>1, <3>2, ExceptSeq
  <2>4. shelf' \in [Variants -> Int]
    <3>1. remote[s].lines \in Carts
      BY <2>2 DEF RemoteOrder
    <3>2. QED
      BY <1>2, <3>1, QuantityType DEF Restock, TypeOK
  <2>5. QED
    BY <1>2, <2>3, <2>4 DEF Restock, TypeOK, dbVars, outVars
<1>3. CASE Restart
  BY <1>3, WorkTypes DEF Restart, TypeOK, dbVars, shopVars, outVars
<1>4. QED
  BY <1>1, <1>2, <1>3
-----------------------------------------------------------------------------
(* Sales and orders.                                                       *)

\* A turn that books, records and gives up nothing only has to keep the sale and
\* the lines it has, if it has any.
LEMMA QuietSales ==
    ASSUME IInv, NEW c \in Customers,
           UNCHANGED <<orders, remote, byHand>>,
           \A d \in Customers \ {c} : work'[d] = work[d] /\ cart'[d] = cart[d],
           work'[c].step # "idle" => work'[c].lines \in Carts,
           work'[c].step \notin {"idle", "compensate"} => work'[c].lines = cart'[c],
           InHand(c)' => /\ InHand(c)
                         /\ work[c].step # "compensate"
                         /\ work'[c].sale = work[c].sale
                         /\ work'[c].lines = work[c].lines
    PROVE  SalesInv'
<1>1. LinesInHand'
  BY DEF IInv, SalesInv, LinesInHand
<1>2. ASSUME NEW d \in Customers, InHand(d)'
      PROVE  /\ InHand(d)
             /\ work'[d].sale = work[d].sale
             /\ work'[d].lines = work[d].lines
             /\ work[d].step = "compensate" => work'[d].step = "compensate"
  BY <1>2 DEF InHand
<1>3. SaleInHand'
  BY <1>2 DEF IInv, SalesInv, SaleInHand, NewSale
<1>4. Unrecorded'
  BY <1>2 DEF IInv, SalesInv, Unrecorded
<1>5. OrdersMatchSales' /\ NamedSalesExist' /\ RecordedStands'
  BY DEF IInv, SalesInv, OrdersMatchSales, NamedSalesExist, RecordedStands
<1>6. QED
  BY <1>1, <1>3, <1>4, <1>5 DEF SalesInv

\* Returning and trying again concern one turn, and leave it at rest or with the
\* lines and the sale it had.
LEMMA ReturnEffect ==
    ASSUME work \in [Customers -> WorkType], NEW c \in Customers, NEW what, Return(c, what)
    PROVE  /\ work'[c].step = "idle"
           /\ \A d \in Customers \ {c} : work'[d] = work[d]
BY DEF Return, AtRest

LEMMA NextAttemptEffect ==
    ASSUME work \in [Customers -> WorkType], NEW c \in Customers, NextAttempt(c)
    PROVE  /\ \/ work'[c].step = "idle"
              \/ /\ work'[c].step = work[c].step
                 /\ work'[c].lines = work[c].lines
                 /\ work'[c].sale = work[c].sale
           /\ \A d \in Customers \ {c} : work'[d] = work[d]
<1>1. CASE Return(c, "store_unavailable")
  BY <1>1, ReturnEffect
<1>2. CASE work' = [work EXCEPT ![c].attempt = @ + 1]
  BY <1>2 DEF WorkType
<1>3. QED
  BY <1>1, <1>2 DEF NextAttempt

\* What the steps of a turn that book, record and give up nothing leave of it: it
\* has a sale in hand after the step if it had one before, and the same.
LEMMA QuietEffect ==
    ASSUME IInv, NEW c \in Customers,
           \/ ReadShelf(c) \/ ShelfUnreadable(c)
           \/ CreateOutOfStock(c) \/ CreateDeclined(c) \/ CreateFails(c)
           \/ RecordSold(c) \/ WriteOrder(c) \/ WriteFails(c)
           \/ Notify(c) \/ NotifyFails(c) \/ CommitRefused(c)
    PROVE  /\ UNCHANGED <<orders, remote, byHand, cart>>
           /\ \A d \in Customers \ {c} : work'[d] = work[d]
           /\ InHand(c)' <=> InHand(c)
           /\ work[c].step \notin {"idle", "compensate"}
           /\ \/ work'[c].step = "idle"
              \/ /\ work'[c].lines = work[c].lines
                 /\ work'[c].sale = work[c].sale
<1>0. UNCHANGED <<orders, remote, byHand, cart>>
  BY DEF ReadShelf, ShelfUnreadable, CreateOutOfStock, CreateDeclined, CreateFails,
         RecordSold, WriteOrder, WriteFails, Notify, NotifyFails, CommitRefused,
         dbVars, shopVars, outVars
<1>1. work \in [Customers -> WorkType]
  BY DEF IInv, TypeOK
<1>2. CASE ReadShelf(c)
  <2>1. CASE GoTo(c, "create")
    BY <1>0, <1>1, <1>2, <2>1 DEF ReadShelf, GoTo, InHand, WorkType
  <2>2. CASE Return(c, "items_out_of_stock")
    BY <1>0, <1>1, <1>2, <2>2, ReturnEffect DEF ReadShelf, InHand
  <2>3. QED
    BY <1>2, <2>1, <2>2 DEF ReadShelf
<1>3. CASE ShelfUnreadable(c)
  BY <1>0, <1>1, <1>3, ReturnEffect DEF ShelfUnreadable, InHand
<1>4. CASE CreateOutOfStock(c)
  BY <1>0, <1>1, <1>4, ReturnEffect DEF CreateOutOfStock, InHand
<1>5. CASE CreateDeclined(c)
  <2>1. CASE work[c].linked
    BY <1>0, <1>1, <1>5, <2>1 DEF CreateDeclined, InHand, WorkType
  <2>2. CASE ~work[c].linked
    BY <1>0, <1>1, <1>5, <2>2, ReturnEffect DEF CreateDeclined, InHand
  <2>3. QED
    BY <2>1, <2>2
<1>6. CASE CreateFails(c)
  BY <1>0, <1>1, <1>6, NextAttemptEffect DEF CreateFails, InHand
<1>7. CASE RecordSold(c)
  BY <1>0, <1>1, <1>7 DEF RecordSold, InHand
<1>8. CASE WriteOrder(c)
  BY <1>0, <1>1, <1>8 DEF WriteOrder, GoTo, InHand
<1>9. CASE WriteFails(c)
  BY <1>0, <1>1, <1>9 DEF WriteFails, InHand
<1>10. CASE Notify(c)
  BY <1>0, <1>1, <1>10 DEF Notify, GoTo, InHand
<1>11. CASE NotifyFails(c)
  BY <1>0, <1>1, <1>11 DEF NotifyFails, GoTo, InHand
<1>12. CASE CommitRefused(c)
  BY <1>0, <1>1, <1>12 DEF CommitRefused, InHand
<1>13. QED
  BY <1>2, <1>3, <1>4, <1>5, <1>6, <1>7, <1>8, <1>9, <1>10, <1>11, <1>12

\* Every step of a turn that books, records and gives up nothing.
LEMMA QuietStepSales ==
    ASSUME IInv, NEW c \in Customers,
           \/ ReadShelf(c) \/ ShelfUnreadable(c)
           \/ CreateOutOfStock(c) \/ CreateDeclined(c) \/ CreateFails(c)
           \/ RecordSold(c) \/ WriteOrder(c) \/ WriteFails(c)
           \/ Notify(c) \/ NotifyFails(c) \/ CommitRefused(c)
    PROVE  SalesInv'
<1>1. /\ UNCHANGED <<orders, remote, byHand, cart>>
      /\ \A d \in Customers \ {c} : work'[d] = work[d]
      /\ InHand(c)' <=> InHand(c)
      /\ work[c].step \notin {"idle", "compensate"}
      /\ \/ work'[c].step = "idle"
         \/ /\ work'[c].lines = work[c].lines
            /\ work'[c].sale = work[c].sale
  BY QuietEffect
<1>2. work[c].lines \in Carts /\ work[c].lines = cart[c]
  BY <1>1 DEF IInv, SalesInv, LinesInHand
<1>3. work'[c].step = "idle" => ~InHand(c)'
  BY DEF InHand
<1>4. QED
  BY <1>1, <1>2, <1>3, QuietSales

\* Booking a sale leaves what is known of the others as it was.
LEMMA BookKeeps ==
    ASSUME IInv, NEW c \in Customers, work[c].lines \in Carts, Book(c),
           UNCHANGED <<orders, byHand>>
    PROVE  /\ OrdersMatchSales' /\ NamedSalesExist' /\ RecordedStands'
           /\ Len(remote) + 1 \notin byHand
           /\ \A o \in orders : o.sale # Len(remote) + 1
           /\ \A s \in DOMAIN remote : s \in DOMAIN remote' /\ remote'[s] = remote[s]
           /\ \A d \in Customers : InHand(d) => work[d].sale # Len(remote) + 1
<1>1. TypeOK /\ SaleInHand /\ OrdersMatchSales /\ NamedSalesExist /\ RecordedStands
  BY DEF IInv, SalesInv
<1>2. /\ DOMAIN remote' = DOMAIN remote \cup {Len(remote) + 1}
      /\ \A s \in DOMAIN remote : remote'[s] = remote[s]
      /\ Len(remote) + 1 \notin DOMAIN remote
  BY <1>1, BookTypes
<1>3. OrdersMatchSales' /\ NamedSalesExist'
  BY <1>1, <1>2 DEF OrdersMatchSales, NamedSalesExist
<1>4. RecordedStands'
  BY <1>1, <1>2 DEF RecordedStands, OrdersMatchSales
<1>5. QED
  BY <1>1, <1>2, <1>3, <1>4 DEF OrdersMatchSales, NamedSalesExist, SaleInHand

\* A sale is created and the turn has it in hand.
LEMMA CreateAcceptedSales ==
    ASSUME IInv, NEW c \in Customers, CreateAccepted(c)
    PROVE  SalesInv'
<1>1. /\ work \in [Customers -> WorkType]
      /\ TypeOK /\ LinesInHand /\ SaleInHand /\ Unrecorded
  BY DEF IInv, SalesInv, TypeOK
<1>2. work[c].lines \in Carts /\ work[c].lines = cart[c] /\ Book(c)
  BY <1>1 DEF CreateAccepted, LinesInHand
<1>3. UNCHANGED <<orders, byHand, cart>>
  BY DEF CreateAccepted, dbVars, outVars
<1>4. PICK s : s = Len(remote) + 1
  OBVIOUS
<1>5. /\ s \in DOMAIN remote'
      /\ remote'[s] = NewSale(c)
  BY <1>1, <1>2, <1>4, BookTypes
<1>6. /\ work'[c].step = "sell" /\ work'[c].sale = s /\ work'[c].lines = work[c].lines
      /\ \A d \in Customers \ {c} : work'[d] = work[d]
  BY <1>1, <1>4 DEF CreateAccepted, WorkType
<1>7. LinesInHand'
  BY <1>1, <1>2, <1>3, <1>6 DEF LinesInHand
<1>8. SaleInHand'
  <2>1. NewSale(c)' = NewSale(c)
    BY <1>6 DEF NewSale
  <2>2. ASSUME NEW d \in Customers \ {c}, InHand(d)'
        PROVE  /\ work'[d].sale \in DOMAIN remote'
               /\ remote'[work'[d].sale] = NewSale(d)'
               /\ work'[d].sale \notin byHand'
    <3>1. InHand(d) /\ work'[d] = work[d] /\ NewSale(d)' = NewSale(d)
      BY <1>6, <2>2 DEF InHand, NewSale
    <3>2. QED
      BY <1>1, <1>2, <1>3, <3>1, BookKeeps DEF SaleInHand
  <2>3. QED
    BY <1>2, <1>3, <1>4, <1>5, <1>6, <2>1, <2>2, BookKeeps DEF SaleInHand
<1>9. Unrecorded'
  <2>1. ASSUME NEW d \in Customers \ {c}, InHand(d)'
        PROVE  InHand(d) /\ work'[d] = work[d]
    BY <1>6, <2>1 DEF InHand
  <2>2. \A o \in orders' : o.sale # work'[c].sale
    BY <1>2, <1>3, <1>4, <1>6, BookKeeps
  <2>3. QED
    BY <1>1, <1>3, <2>1, <2>2 DEF Unrecorded
<1>10. QED
  BY <1>2, <1>3, <1>7, <1>8, <1>9, BookKeeps DEF SalesInv

\* A sale is created and nobody knows: no turn has it in hand.
LEMMA ReplyLostSales ==
    ASSUME IInv, NEW c \in Customers, CreateReplyLost(c)
    PROVE  SalesInv'
<1>1. /\ work \in [Customers -> WorkType]
      /\ TypeOK /\ LinesInHand /\ SaleInHand /\ Unrecorded
  BY DEF IInv, SalesInv, TypeOK
<1>2. work[c].lines \in Carts /\ work[c].lines = cart[c] /\ Book(c) /\ NextAttempt(c)
  BY <1>1 DEF CreateReplyLost, LinesInHand
<1>3. UNCHANGED <<orders, byHand, cart>>
  BY DEF CreateReplyLost, dbVars, outVars
<1>4. /\ work'[c].step = "idle" \/ (work'[c].step = "create" /\ work'[c].lines = work[c].lines)
      /\ \A d \in Customers \ {c} : work'[d] = work[d]
  BY <1>1, <1>2, NextAttemptEffect DEF CreateReplyLost
<1>5. LinesInHand'
  BY <1>1, <1>2, <1>3, <1>4 DEF LinesInHand
<1>6. ASSUME NEW d \in Customers, InHand(d)'
      PROVE  InHand(d) /\ work'[d] = work[d] /\ NewSale(d)' = NewSale(d)
  BY <1>4, <1>6 DEF InHand, NewSale
<1>7. SaleInHand'
  BY <1>1, <1>2, <1>3, <1>6, BookKeeps DEF SaleInHand
<1>8. Unrecorded'
  BY <1>1, <1>3, <1>6 DEF Unrecorded
<1>9. QED
  BY <1>2, <1>3, <1>5, <1>7, <1>8, BookKeeps DEF SalesInv

\* The sales that two turns have in hand are two sales.
LEMMA HandsDiffer ==
    ASSUME SaleInHand, NEW c \in Customers, NEW d \in Customers, c # d,
           InHand(c), InHand(d)
    PROVE  work[c].sale # work[d].sale
<1>1. remote[work[c].sale] = NewSale(c) /\ remote[work[d].sale] = NewSale(d)
  BY DEF SaleInHand, InHand
<1>2. NewSale(c).customer = c /\ NewSale(d).customer = d
  BY DEF NewSale
<1>3. QED
  BY <1>1, <1>2

\* The sale in hand is recorded: by the commit, and by the one that reports a
\* failure, after which the turn still has it in hand.
LEMMA CommitSales ==
    ASSUME IInv, NEW c \in Customers, Commit(c) \/ CommitAmbiguous(c)
    PROVE  SalesInv'
<1>1. /\ work \in [Customers -> WorkType]
      /\ TypeOK /\ LinesInHand /\ SaleInHand /\ Unrecorded
      /\ OrdersMatchSales /\ NamedSalesExist /\ RecordedStands
  BY DEF IInv, SalesInv, TypeOK
<1>2. /\ work[c].step = "commit" /\ InHand(c) /\ Persist(c)
      /\ UNCHANGED <<remote, byHand>>
  BY DEF Commit, CommitAmbiguous, InHand, shopVars, outVars
<1>3. /\ work[c].lines \in Carts
      /\ work[c].sale \in DOMAIN remote
      /\ remote[work[c].sale] = NewSale(c)
      /\ work[c].sale \notin byHand
      /\ \A o \in orders : o.sale # work[c].sale
  BY <1>1, <1>2 DEF LinesInHand, SaleInHand, Unrecorded
<1>4. PICK new : new = [customer |-> c, lines |-> work[c].lines, sale |-> work[c].sale]
  OBVIOUS
<1>5. orders' = orders \cup {new}
  BY <1>2, <1>4 DEF Persist
<1>6. \A d \in Customers \ {c} : cart'[d] = cart[d]
  BY <1>1, <1>2 DEF Persist, TypeOK
<1>7. /\ \A d \in Customers \ {c} : work'[d] = work[d]
      /\ \/ work'[c].step = "idle"
         \/ /\ "commit_ambiguous" \in Faults
            /\ work'[c].step = "compensate"
            /\ work'[c].lines = work[c].lines
            /\ work'[c].sale = work[c].sale
  <2>1. CASE Commit(c)
    BY <1>1, <2>1, ReturnEffect DEF Commit
  <2>2. CASE CommitAmbiguous(c)
    BY <1>1, <2>2 DEF CommitAmbiguous
  <2>3. QED
    BY <2>1, <2>2
<1>8. LinesInHand'
  BY <1>1, <1>3, <1>6, <1>7 DEF LinesInHand
<1>9. ASSUME NEW d \in Customers, InHand(d)'
      PROVE  /\ InHand(d)
             /\ work'[d].sale = work[d].sale
             /\ NewSale(d)' = NewSale(d)
  BY <1>2, <1>7, <1>9 DEF InHand, NewSale
<1>10. SaleInHand'
  BY <1>1, <1>2, <1>9 DEF SaleInHand
<1>11. Unrecorded'
  <2>1. ASSUME NEW d \in Customers, InHand(d)',
               work'[d].step = "compensate" => "commit_ambiguous" \notin Faults
        PROVE  \A o \in orders' : o.sale # work'[d].sale
    <3>1. d # c /\ InHand(d) /\ work'[d] = work[d]
      BY <1>7, <2>1 DEF InHand
    <3>2. \A o \in orders : o.sale # work[d].sale
      BY <1>1, <2>1, <3>1 DEF Unrecorded
    <3>3. new.sale # work[d].sale
      BY <1>1, <1>2, <1>4, <3>1, HandsDiffer
    <3>4. QED
      BY <1>5, <3>1, <3>2, <3>3
  <2>2. QED
    BY <2>1 DEF Unrecorded
<1>12. OrdersMatchSales'
  BY <1>1, <1>2, <1>3, <1>4, <1>5 DEF OrdersMatchSales, NewSale
<1>13. NamedSalesExist' /\ RecordedStands'
  BY <1>1, <1>2, <1>3, <1>4, <1>5 DEF NamedSalesExist, RecordedStands, NewSale
<1>14. QED
  BY <1>8, <1>10, <1>11, <1>12, <1>13 DEF SalesInv

\* The compensation gives up the sale in hand, which no order names unless a
\* commit was in doubt.
LEMMA CompensateSales ==
    ASSUME IInv, NEW c \in Customers, Cancel(c) \/ CancelFails(c)
    PROVE  SalesInv'
<1>1. /\ work \in [Customers -> WorkType]
      /\ TypeOK /\ LinesInHand /\ SaleInHand /\ Unrecorded
      /\ OrdersMatchSales /\ NamedSalesExist /\ RecordedStands
  BY DEF IInv, SalesInv, TypeOK
<1>2. /\ work[c].step = "compensate" /\ InHand(c) /\ Return(c, "order_failed")
      /\ UNCHANGED <<orders, cart>>
  BY DEF Cancel, CancelFails, InHand, dbVars
<1>3. PICK s : s = work[c].sale
  OBVIOUS
<1>4. /\ s \in DOMAIN remote
      /\ "commit_ambiguous" \notin Faults => \A o \in orders : o.sale # s
  BY <1>1, <1>2, <1>3 DEF SaleInHand, Unrecorded
<1>5. /\ work'[c].step = "idle"
      /\ \A d \in Customers \ {c} : work'[d] = work[d]
  BY <1>1, <1>2, ReturnEffect
<1>6. ASSUME NEW d \in Customers, InHand(d)'
      PROVE  /\ InHand(d) /\ work'[d] = work[d] /\ NewSale(d)' = NewSale(d)
             /\ work[d].sale # s
  <2>1. d # c /\ InHand(d) /\ work'[d] = work[d]
    BY <1>5, <1>6 DEF InHand
  <2>2. QED
    BY <1>1, <1>2, <1>3, <2>1, HandsDiffer DEF NewSale
<1>7. /\ DOMAIN remote' = DOMAIN remote
      /\ \A t \in DOMAIN remote : t # s => remote'[t] = remote[t]
      /\ remote'[s].customer = remote[s].customer
      /\ remote'[s].lines = remote[s].lines
      /\ \/ byHand' = byHand
         \/ byHand' = byHand \cup {s} /\ remote' = remote
  <2>1. CASE Cancel(c)
    <3>1. remote \in Seq(RemoteOrder) /\ remote[s] \in RemoteOrder
      BY <1>1, <1>4, ElementOfSeq, LenProperties DEF TypeOK
    <3>2. remote' = [remote EXCEPT ![s].status = "cancelling"] /\ byHand' = byHand
      BY <1>3, <2>1 DEF Cancel, outVars
    <3>3. QED
      BY <1>4, <3>1, <3>2 DEF RemoteOrder
  <2>2. CASE CancelFails(c)
    BY <1>3, <2>2 DEF CancelFails, shopVars
  <2>3. QED
    BY <2>1, <2>2
<1>8. byHand \subseteq byHand' /\ byHand' \subseteq byHand \cup {s}
  BY <1>7
<1>9. LinesInHand'
  BY <1>1, <1>2, <1>5 DEF LinesInHand
<1>10. SaleInHand'
  BY <1>1, <1>6, <1>7, <1>8 DEF SaleInHand
<1>11. Unrecorded'
  BY <1>1, <1>2, <1>6 DEF Unrecorded
<1>12. OrdersMatchSales'
  BY <1>1, <1>2, <1>4, <1>7 DEF OrdersMatchSales
<1>13. NamedSalesExist' /\ RecordedStands'
  BY <1>1, <1>2, <1>4, <1>7, <1>8 DEF NamedSalesExist, RecordedStands, OrdersMatchSales
<1>14. QED
  BY <1>9, <1>10, <1>11, <1>12, <1>13 DEF SalesInv

\* The steps around place_order: a cart is put together while no turn reads it.
LEMMA CustomerSales ==
    ASSUME IInv, NEW c \in Customers, CustomerStep(c)
    PROVE  SalesInv'
<1>1. /\ work \in [Customers -> WorkType]
      /\ cart \in [Customers -> Carts \cup {<<>>}]
      /\ LinesInHand
  BY DEF IInv, SalesInv, TypeOK
<1>2. UNCHANGED <<orders, remote, byHand>>
  BY DEF CustomerStep, FillCart, WindowPasses, ConfirmEmpty, Confirm, dbVars, shopVars, outVars
<1>3. \A d \in Customers \ {c} : work'[d] = work[d] /\ cart'[d] = cart[d]
  BY <1>1 DEF CustomerStep, FillCart, WindowPasses, ConfirmEmpty, Confirm, dbVars
<1>4. \/ work'[c].step = "idle"
      \/ work' = work /\ cart' = cart
      \/ work'[c].step = "shelf" /\ work'[c].lines \in Carts /\ work'[c].lines = cart'[c]
  <2>1. CASE FillCart(c)
    BY <2>1 DEF FillCart
  <2>2. CASE WindowPasses(c) \/ ConfirmEmpty(c)
    BY <2>2 DEF WindowPasses, ConfirmEmpty, dbVars
  <2>3. CASE Confirm(c)
    <3>1. /\ work' = [work EXCEPT ![c] = [AtRest EXCEPT !.step = "shelf", !.lines = cart[c]]]
          /\ cart[c] # <<>> /\ cart' = cart
      BY <2>3 DEF Confirm, dbVars
    <3>2. work'[c] = [AtRest EXCEPT !.step = "shelf", !.lines = cart[c]]
      BY <1>1, <3>1
    <3>3. QED
      BY <1>1, <3>1, <3>2 DEF AtRest
  <2>4. QED
    BY <2>1, <2>2, <2>3 DEF CustomerStep
<1>5. CASE work'[c].step = "idle"
  BY <1>2, <1>3, <1>5, QuietSales DEF InHand
<1>6. CASE work' = work /\ cart' = cart
  BY <1>2, <1>6 DEF IInv, SalesInv, LinesInHand, SaleInHand, Unrecorded, OrdersMatchSales,
                    NamedSalesExist, RecordedStands, InHand, NewSale
<1>7. CASE work'[c].step = "shelf" /\ work'[c].lines \in Carts /\ work'[c].lines = cart'[c]
  BY <1>2, <1>3, <1>7, QuietSales DEF InHand
<1>8. QED
  BY <1>4, <1>5, <1>6, <1>7

\* The steps of the world outside: what is cancelled is not in hand, and not
\* recorded unless a commit was in doubt.
LEMMA WorldSales ==
    ASSUME IInv,
           \/ \E v \in Variants : StorefrontSale(v)
           \/ \E s \in DOMAIN remote : Restock(s)
           \/ Restart
    PROVE  SalesInv'
<1>1. CASE \E v \in Variants : StorefrontSale(v)
  BY <1>1 DEF StorefrontSale, dbVars, outVars, IInv, SalesInv, LinesInHand, SaleInHand,
              Unrecorded, OrdersMatchSales, NamedSalesExist, RecordedStands, InHand, NewSale
<1>2. ASSUME NEW s \in DOMAIN remote, Restock(s)
      PROVE  SalesInv'
  <2>1. /\ TypeOK /\ LinesInHand /\ SaleInHand /\ Unrecorded
        /\ OrdersMatchSales /\ NamedSalesExist /\ RecordedStands
    BY DEF IInv, SalesInv
  <2>2. UNCHANGED <<work, cart, orders, byHand>>
    BY <1>2 DEF Restock, dbVars, outVars
  <2>3. /\ DOMAIN remote' = DOMAIN remote
        /\ \A t \in DOMAIN remote : t # s => remote'[t] = remote[t]
        /\ remote'[s].customer = remote[s].customer
        /\ remote'[s].lines = remote[s].lines
        /\ remote[s].status = "cancelling"
    <3>1. remote \in Seq(RemoteOrder) /\ remote[s] \in RemoteOrder
      BY <1>2, <2>1, ElementOfSeq, LenProperties DEF TypeOK
    <3>2. QED
      BY <1>2, <3>1 DEF Restock, RemoteOrder
  <2>4. ASSUME NEW d \in Customers, InHand(d)
        PROVE  work[d].sale # s
    <3>1. remote[work[d].sale] = NewSale(d)
      BY <2>1, <2>4 DEF SaleInHand
    <3>2. NewSale(d).status = "open"
      BY DEF NewSale
    <3>3. QED
      BY <2>3, <3>1, <3>2
  <2>5. LinesInHand' /\ Unrecorded' /\ NamedSalesExist'
    BY <2>1, <2>2, <2>3 DEF LinesInHand, Unrecorded, NamedSalesExist, InHand
  <2>6. SaleInHand'
    BY <2>1, <2>2, <2>3, <2>4 DEF SaleInHand, InHand, NewSale
  <2>7. OrdersMatchSales'
    BY <2>1, <2>2, <2>3 DEF OrdersMatchSales
  <2>8. RecordedStands'
    BY <2>1, <2>2, <2>3 DEF RecordedStands, OrdersMatchSales
  <2>9. QED
    BY <2>5, <2>6, <2>7, <2>8 DEF SalesInv
<1>3. CASE Restart
  <2>1. \A d \in Customers : work'[d].step = "idle"
    BY <1>3 DEF Restart, AtRest
  <2>2. UNCHANGED <<cart, orders, remote, byHand>>
    BY <1>3 DEF Restart, dbVars, shopVars, outVars
  <2>3. LinesInHand' /\ SaleInHand' /\ Unrecorded'
    BY <2>1 DEF LinesInHand, SaleInHand, Unrecorded, InHand
  <2>4. OrdersMatchSales' /\ NamedSalesExist' /\ RecordedStands'
    BY <2>2 DEF IInv, SalesInv, OrdersMatchSales, NamedSalesExist, RecordedStands
  <2>5. QED
    BY <2>3, <2>4 DEF SalesInv
<1>4. QED
  BY <1>1, <1>2, <1>3

-----------------------------------------------------------------------------
(* The theorems.                                                           *)

\* No turn runs and nothing is booked in the beginning.
LEMMA InitInvariant == Init => IInv
<1> SUFFICES ASSUME Init PROVE IInv
  OBVIOUS
<1>1. AtRest \in WorkType
  <2>1. 1 \in 1..Attempts
    BY BoundsAssumption
  <2>2. QED
    BY <2>1 DEF WorkType, AtRest, Steps
<1>2. TypeOK
  <2>1. Stock \in [Variants -> Nat] /\ Stock \in [Variants -> Int]
    BY BoundsAssumption
  <2>2. <<>> \in Seq(RemoteOrder)
    OBVIOUS
  <2>3. QED
    BY <1>1, <2>1, <2>2 DEF Init, TypeOK, Answers
<1>3. SalesInv
  BY DEF Init, SalesInv, LinesInHand, SaleInHand, Unrecorded, OrdersMatchSales,
         NamedSalesExist, RecordedStands, InHand, AtRest
<1>4. QED
  BY <1>2, <1>3 DEF IInv

\* Every step keeps the invariant.
LEMMA StepInvariant == IInv /\ [Next]_vars => IInv'
<1> SUFFICES ASSUME IInv, [Next]_vars PROVE IInv'
  OBVIOUS
<1>1. TypeOK /\ LinesInHand /\ SaleInHand
  BY DEF IInv, SalesInv
<1>2. ASSUME NEW c \in Customers, TurnStep(c)
      PROVE  IInv'
  <2>1. CASE \/ ReadShelf(c) \/ ShelfUnreadable(c)
             \/ CreateOutOfStock(c) \/ CreateDeclined(c) \/ CreateFails(c)
             \/ RecordSold(c) \/ WriteOrder(c) \/ WriteFails(c)
             \/ NotifyFails(c) \/ CommitRefused(c)
    BY <1>1, <2>1, QuietTypes, QuietStepSales DEF IInv
  <2>2. CASE CreateAccepted(c)
    BY <1>1, <2>2, SaleTypes, CreateAcceptedSales DEF IInv
  <2>3. CASE CreateReplyLost(c)
    BY <1>1, <2>3, SaleTypes, ReplyLostSales DEF IInv
  <2>4. CASE Notify(c)
    BY <1>1, <2>4, SaleTypes, QuietStepSales DEF IInv
  <2>5. CASE Commit(c) \/ CommitAmbiguous(c)
    BY <1>1, <2>5, SaleTypes, CommitSales DEF IInv
  <2>6. CASE Cancel(c) \/ CancelFails(c)
    BY <1>1, <2>6, SaleTypes, CompensateSales DEF IInv
  <2>7. QED
    BY <1>2, <2>1, <2>2, <2>3, <2>4, <2>5, <2>6 DEF TurnStep
<1>3. ASSUME NEW c \in Customers, CustomerStep(c)
      PROVE  IInv'
  BY <1>1, <1>3, CustomerTypes, CustomerSales DEF IInv
<1>4. CASE \/ \E v \in Variants : StorefrontSale(v)
           \/ \E s \in DOMAIN remote : Restock(s)
           \/ Restart
  BY <1>1, <1>4, WorldTypes, WorldSales DEF IInv
<1>5. CASE UNCHANGED vars
  <2>1. TypeOK'
    BY <1>1, <1>5 DEF vars, TypeOK
  <2>2. SalesInv'
    BY <1>5 DEF vars, IInv, SalesInv, LinesInHand, SaleInHand, Unrecorded,
                OrdersMatchSales, NamedSalesExist, RecordedStands, InHand, NewSale
  <2>3. QED
    BY <2>1, <2>2 DEF IInv
<1>6. QED
  BY <1>2, <1>3, <1>4, <1>5 DEF Next

\* The invariant holds in every state of every behaviour.
THEOREM InductiveInvariant == Spec => []IInv
BY InitInvariant, StepInvariant, PTL DEF Spec

\* Every variable keeps its type, whatever fails.
THEOREM TypeCorrect == Spec => []TypeOK
<1>1. IInv => TypeOK
  BY DEF IInv
<1>2. QED
  BY <1>1, InductiveInvariant, PTL

\* Whatever is lost, retried, refused or restarted, a recorded order of
\* `place_order` names a sale of its own customer and lines, and no other order
\* names it.
THEOREM OrdersNameTheirSales == Spec => []OrdersMatchSales
<1>1. IInv => OrdersMatchSales
  BY DEF IInv, SalesInv
<1>2. QED
  BY <1>1, InductiveInvariant, PTL

\* Unless a commit takes effect and reports a failure, the compensation of
\* `place_order` never cancels a sale that an order names.
THEOREM RecordedStaysBooked ==
    ASSUME "commit_ambiguous" \notin Faults
    PROVE  Spec => []RecordedIsBooked
<1>1. IInv => RecordedIsBooked
  BY DEF IInv, SalesInv, RecordedStands, OrdersMatchSales, RecordedIsBooked
<1>2. QED
  BY <1>1, InductiveInvariant, PTL

-----------------------------------------------------------------------------
(* place_order keeps its promise.                                          *)

\* As long as no turn takes a sale in hand or lets one go, and Shopify's orders
\* and the log stay as they are, so does what is booked.
LEMMA BookedStays ==
    ASSUME UNCHANGED <<remote, byHand>>,
           \A d \in Customers :
               /\ InHand(d)' <=> InHand(d)
               /\ InHand(d) => work'[d].sale = work[d].sale
    PROVE  Booked' = Booked
<1>1. ASSUME NEW s
      PROVE  (\E d \in Customers : InHand(d)' /\ work'[d].sale = s)
                <=> (\E d \in Customers : InHand(d) /\ work[d].sale = s)
  OBVIOUS
<1>2. QED
  BY <1>1 DEF Booked

\* A sale taken in hand is not booked yet.
LEMMA CreateIsNoBooking ==
    ASSUME IInv, NEW c \in Customers, CreateAccepted(c)
    PROVE  UNCHANGED <<cart, orders, Booked>>
<1>1. work \in [Customers -> WorkType] /\ TypeOK /\ SaleInHand
  BY DEF IInv, SalesInv, TypeOK
<1>2. work[c].lines \in Carts /\ Book(c) /\ ~InHand(c)
  BY DEF IInv, SalesInv, CreateAccepted, LinesInHand, InHand
<1>3. UNCHANGED <<orders, byHand, cart>>
  BY DEF CreateAccepted, dbVars, outVars
<1>4. PICK s : s = Len(remote) + 1
  OBVIOUS
<1>5. /\ DOMAIN remote' = DOMAIN remote \cup {s}
      /\ \A t \in DOMAIN remote : remote'[t] = remote[t]
      /\ s \notin DOMAIN remote
  BY <1>1, <1>2, <1>4, BookTypes
<1>6. /\ work'[c].step = "sell" /\ work'[c].sale = s
      /\ \A d \in Customers \ {c} : work'[d] = work[d]
  BY <1>1, <1>4 DEF CreateAccepted, WorkType
<1>7. /\ InHand(c)'
      /\ \A d \in Customers \ {c} : InHand(d)' <=> InHand(d)
  BY <1>6 DEF InHand
<1>8. ASSUME NEW t \in DOMAIN remote
      PROVE  (\E d \in Customers : InHand(d)' /\ work'[d].sale = t)
                <=> (\E d \in Customers : InHand(d) /\ work[d].sale = t)
  BY <1>2, <1>5, <1>6, <1>7
<1>9. \E d \in Customers : InHand(d)' /\ work'[d].sale = s
  BY <1>6, <1>7
<1>10. Booked' = Booked
  BY <1>3, <1>5, <1>8, <1>9 DEF Booked
<1>11. QED
  BY <1>3, <1>10

\* The commit is where the order is placed.
LEMMA CommitPlaces ==
    ASSUME IInv, NEW c \in Customers, Commit(c)
    PROVE  Promise!Place(c)
<1>1. /\ work \in [Customers -> WorkType]
      /\ LinesInHand /\ SaleInHand
  BY DEF IInv, SalesInv, TypeOK
<1>2. /\ work[c].step = "commit" /\ InHand(c) /\ Persist(c)
      /\ UNCHANGED <<remote, byHand>>
      /\ Return(c, "placed")
  BY DEF Commit, InHand, shopVars, outVars
<1>3. PICK s : s = work[c].sale
  OBVIOUS
<1>4. /\ work[c].lines = cart[c] /\ cart[c] \in Carts
      /\ s \in DOMAIN remote /\ remote[s].status = "open" /\ s \notin byHand
  <2>1. s \in DOMAIN remote /\ remote[s] = NewSale(c) /\ s \notin byHand
    BY <1>1, <1>2, <1>3 DEF SaleInHand
  <2>2. NewSale(c).status = "open"
    BY DEF NewSale
  <2>3. QED
    BY <1>1, <1>2, <2>1, <2>2 DEF LinesInHand
<1>5. cart[c] # <<>>
  BY <1>4, CartsAssumption
<1>6. /\ work'[c].step = "idle"
      /\ \A d \in Customers \ {c} : work'[d] = work[d]
  BY <1>1, <1>2, ReturnEffect
<1>7. /\ ~InHand(c)'
      /\ \A d \in Customers \ {c} : InHand(d)' <=> InHand(d)
  BY <1>6 DEF InHand
<1>8. ~\E d \in Customers : InHand(d)' /\ work'[d].sale = s
  BY <1>1, <1>2, <1>3, <1>6, <1>7, HandsDiffer
<1>9. ASSUME NEW t, t # s
      PROVE  (\E d \in Customers : InHand(d)' /\ work'[d].sale = t)
                <=> (\E d \in Customers : InHand(d) /\ work[d].sale = t)
  BY <1>3, <1>6, <1>7, <1>9
<1>10. Booked' = Booked \cup {s} /\ s \notin Booked
  <2>1. s \in Booked'
    BY <1>2, <1>4, <1>8 DEF Booked
  <2>2. s \notin Booked
    BY <1>2, <1>3 DEF Booked
  <2>3. ASSUME NEW t, t # s
        PROVE  t \in Booked' <=> t \in Booked
    BY <1>2, <1>9, <2>3 DEF Booked
  <2>4. QED
    BY <2>1, <2>2, <2>3
<1>11. /\ cart' = [cart EXCEPT ![c] = <<>>]
       /\ orders' = orders \cup {[customer |-> c, lines |-> cart[c], sale |-> s]}
  BY <1>2, <1>3, <1>4 DEF Persist
<1>12. QED
  BY <1>5, <1>10, <1>11 DEF Promise!Place

\* The compensation gives up a sale that was never booked.
LEMMA CompensateIsNoBooking ==
    ASSUME IInv, NEW c \in Customers, Cancel(c) \/ CancelFails(c)
    PROVE  UNCHANGED <<cart, orders, Booked>>
<1>1. work \in [Customers -> WorkType] /\ TypeOK /\ SaleInHand
  BY DEF IInv, SalesInv, TypeOK
<1>2. /\ work[c].step = "compensate" /\ InHand(c) /\ Return(c, "order_failed")
      /\ UNCHANGED <<orders, cart>>
  BY DEF Cancel, CancelFails, InHand, dbVars
<1>3. PICK s : s = work[c].sale
  OBVIOUS
<1>4. /\ work'[c].step = "idle"
      /\ \A d \in Customers \ {c} : work'[d] = work[d]
  BY <1>1, <1>2, ReturnEffect
<1>5. /\ ~InHand(c)'
      /\ \A d \in Customers \ {c} : InHand(d)' <=> InHand(d)
  BY <1>4 DEF InHand
<1>6. ASSUME NEW t, t # s
      PROVE  (\E d \in Customers : InHand(d)' /\ work'[d].sale = t)
                <=> (\E d \in Customers : InHand(d) /\ work[d].sale = t)
  BY <1>3, <1>4, <1>5, <1>6
<1>7. s \in DOMAIN remote /\ s \notin Booked
  BY <1>1, <1>2, <1>3 DEF SaleInHand, Booked
<1>8. CASE Cancel(c)
  <2>1. remote \in Seq(RemoteOrder) /\ remote[s] \in RemoteOrder
    BY <1>1, <1>7, ElementOfSeq, LenProperties DEF TypeOK
  <2>2. /\ DOMAIN remote' = DOMAIN remote
        /\ \A t \in DOMAIN remote : t # s => remote'[t] = remote[t]
        /\ remote'[s].status = "cancelling"
        /\ byHand' = byHand
    BY <1>3, <1>7, <1>8, <2>1 DEF Cancel, RemoteOrder, outVars
  <2>3. Booked' = Booked
    BY <1>6, <1>7, <2>2 DEF Booked
  <2>4. QED
    BY <1>2, <2>3
<1>9. CASE CancelFails(c)
  <2>1. remote' = remote /\ byHand' = byHand \cup {s}
    BY <1>3, <1>9 DEF CancelFails, shopVars
  <2>2. Booked' = Booked
    BY <1>6, <1>7, <2>1 DEF Booked
  <2>3. QED
    BY <1>2, <2>2
<1>10. QED
  BY <1>8, <1>9

\* Around place_order, only filling a cart is visible in the promise.
LEMMA CustomerPromise ==
    ASSUME IInv, NEW c \in Customers, CustomerStep(c)
    PROVE  Promise!Fill(c) \/ UNCHANGED <<cart, orders, Booked>>
<1>1. work \in [Customers -> WorkType]
  BY DEF IInv, TypeOK
<1>2. UNCHANGED <<orders, remote, byHand>>
  BY DEF CustomerStep, FillCart, WindowPasses, ConfirmEmpty, Confirm, dbVars, shopVars, outVars
<1>3. CASE FillCart(c) \/ WindowPasses(c) \/ ConfirmEmpty(c)
  <2>1. work' = work
    BY <1>3 DEF FillCart, WindowPasses, ConfirmEmpty
  <2>2. Booked' = Booked
    BY <1>2, <2>1 DEF Booked, InHand
  <2>3. CASE FillCart(c)
    BY <1>2, <2>2, <2>3 DEF FillCart, Promise!Fill
  <2>4. CASE WindowPasses(c) \/ ConfirmEmpty(c)
    BY <1>2, <2>2, <2>4 DEF WindowPasses, ConfirmEmpty, dbVars
  <2>5. QED
    BY <1>3, <2>3, <2>4
<1>4. CASE Confirm(c)
  <2>1. /\ work[c].step = "idle" /\ cart' = cart
        /\ work' = [work EXCEPT ![c] = [AtRest EXCEPT !.step = "shelf", !.lines = cart[c]]]
    BY <1>4 DEF Confirm, dbVars
  <2>2. work'[c] = [AtRest EXCEPT !.step = "shelf", !.lines = cart[c]]
    BY <1>1, <2>1
  <2>3. \A d \in Customers \ {c} : work'[d] = work[d]
    BY <1>1, <2>1
  <2>4. ~InHand(c) /\ ~InHand(c)'
    BY <2>1, <2>2 DEF InHand, AtRest
  <2>5. \A d \in Customers \ {c} : InHand(d)' <=> InHand(d)
    BY <2>3 DEF InHand
  <2>6. Booked' = Booked
    BY <1>2, <2>3, <2>4, <2>5, BookedStays
  <2>7. QED
    BY <1>2, <2>1, <2>6
<1>5. QED
  BY <1>3, <1>4 DEF CustomerStep

\* Shopify's cancellation job and the storefront are not visible in the promise.
LEMMA WorldPromise ==
    ASSUME IInv,
           \/ \E v \in Variants : StorefrontSale(v)
           \/ \E s \in DOMAIN remote : Restock(s)
    PROVE  UNCHANGED <<cart, orders, Booked>>
<1>1. CASE \E v \in Variants : StorefrontSale(v)
  <2>1. UNCHANGED <<cart, orders, work, remote, byHand>>
    BY <1>1 DEF StorefrontSale, dbVars, outVars
  <2>2. QED
    BY <2>1 DEF Booked, InHand
<1>2. ASSUME NEW s \in DOMAIN remote, Restock(s)
      PROVE  UNCHANGED <<cart, orders, Booked>>
  <2>1. UNCHANGED <<cart, orders, work, byHand>>
    BY <1>2 DEF Restock, dbVars, outVars
  <2>2. remote \in Seq(RemoteOrder) /\ remote[s] \in RemoteOrder
    BY <1>2, ElementOfSeq, LenProperties DEF IInv, TypeOK
  <2>3. /\ DOMAIN remote' = DOMAIN remote
        /\ \A t \in DOMAIN remote : t # s => remote'[t] = remote[t]
        /\ remote[s].status = "cancelling" /\ remote'[s].status = "cancelled"
    BY <1>2, <2>2 DEF Restock, RemoteOrder
  <2>4. Booked' = Booked
    BY <2>1, <2>3 DEF Booked, InHand
  <2>5. QED
    BY <2>1, <2>4
<1>3. QED
  BY <1>1, <1>2

\* Without lost replies, commits in doubt and restarts, every step is a step of
\* the promise, or not visible in it.
LEMMA StepPromise ==
    ASSUME Faults \cap {"lost_reply", "commit_ambiguous", "restart"} = {}
    PROVE  IInv /\ [Next]_vars => [Promise!Next]_(Promise!vars)
<1> SUFFICES ASSUME IInv, Next PROVE Promise!Next \/ UNCHANGED <<cart, orders, Booked>>
  <2>1. ASSUME UNCHANGED vars PROVE UNCHANGED <<cart, orders, Booked>>
    BY <2>1 DEF vars, Booked, InHand
  <2>2. QED
    BY <2>1 DEF Promise!vars
<1>1. ASSUME NEW c \in Customers, TurnStep(c)
      PROVE  Promise!Next \/ UNCHANGED <<cart, orders, Booked>>
  <2>1. CASE \/ ReadShelf(c) \/ ShelfUnreadable(c)
             \/ CreateOutOfStock(c) \/ CreateDeclined(c) \/ CreateFails(c)
             \/ RecordSold(c) \/ WriteOrder(c) \/ WriteFails(c)
             \/ Notify(c) \/ NotifyFails(c) \/ CommitRefused(c)
    <3>1. /\ UNCHANGED <<orders, remote, byHand, cart>>
          /\ \A d \in Customers \ {c} : work'[d] = work[d]
          /\ InHand(c)' <=> InHand(c)
          /\ work'[c].step = "idle" \/ work'[c].sale = work[c].sale
      BY <2>1, QuietEffect
    <3>2. \A d \in Customers \ {c} : InHand(d)' <=> InHand(d)
      BY <3>1 DEF InHand
    <3>3. work'[c].step = "idle" => ~InHand(c)'
      BY DEF InHand
    <3>4. QED
      BY <3>1, <3>2, <3>3, BookedStays
  <2>2. CASE CreateAccepted(c)
    BY <2>2, CreateIsNoBooking
  <2>3. CASE Commit(c)
    BY <2>3, CommitPlaces DEF Promise!Next
  <2>4. CASE Cancel(c) \/ CancelFails(c)
    BY <2>4, CompensateIsNoBooking
  <2>5. CASE CreateReplyLost(c) \/ CommitAmbiguous(c)
    BY <2>5 DEF CreateReplyLost, CommitAmbiguous
  <2>6. QED
    BY <1>1, <2>1, <2>2, <2>3, <2>4, <2>5 DEF TurnStep
<1>2. ASSUME NEW c \in Customers, CustomerStep(c)
      PROVE  Promise!Next \/ UNCHANGED <<cart, orders, Booked>>
  BY <1>2, CustomerPromise DEF Promise!Next
<1>3. CASE (\E v \in Variants : StorefrontSale(v)) \/ (\E s \in DOMAIN remote : Restock(s))
  BY <1>3, WorldPromise
<1>4. ~Restart
  BY DEF Restart
<1>5. QED
  BY <1>1, <1>2, <1>3, <1>4 DEF Next

\* "An order is placed or it never happened": however the steps of any number of
\* customers, carts and retries interleave, what place_order leaves behind is what
\* the promise allows -- provided that no reply to orderCreate is lost, no commit is
\* in doubt and the process does not end in the middle of it.
THEOREM PromiseKept ==
    ASSUME Faults \cap {"lost_reply", "commit_ambiguous", "restart"} = {}
    PROVE  Spec => PlacedOrNeverHappened
<1>1. Init => Promise!Init
  <2>1. ASSUME Init PROVE Booked = {}
    BY <2>1 DEF Init, Booked
  <2>2. QED
    BY <2>1 DEF Init, Promise!Init
<1>2. QED
  BY <1>1, StepPromise, InductiveInvariant, PTL DEF Spec, PlacedOrNeverHappened, Promise!Spec

\* The sales the promise counts as booked are those of recorded orders.
BookedIsRecorded == Booked \subseteq {o.sale : o \in orders}

\* Booking and recording go together in every step of the promise.
LEMMA StepBooked ==
    ASSUME BookedIsRecorded, [Promise!Next]_(Promise!vars)
    PROVE  BookedIsRecorded'
<1>1. ASSUME UNCHANGED <<cart, orders, Booked>>
      PROVE  BookedIsRecorded'
  BY <1>1 DEF BookedIsRecorded
<1>2. ASSUME NEW c \in Customers, Promise!Fill(c)
      PROVE  BookedIsRecorded'
  BY <1>2 DEF BookedIsRecorded, Promise!Fill
<1>3. ASSUME NEW c \in Customers, Promise!Place(c)
      PROVE  BookedIsRecorded'
  <2>1. PICK s : /\ orders' = orders \cup {[customer |-> c, lines |-> cart[c], sale |-> s]}
                 /\ Booked' = Booked \cup {s}
    BY <1>3 DEF Promise!Place
  <2>2. s \in {o.sale : o \in orders'}
    <3>1. PICK new : new = [customer |-> c, lines |-> cart[c], sale |-> s]
      OBVIOUS
    <3>2. new \in orders' /\ new.sale = s
      BY <2>1, <3>1
    <3>3. QED
      BY <3>2
  <2>3. {o.sale : o \in orders} \subseteq {o.sale : o \in orders'}
    BY <2>1
  <2>4. QED
    BY <2>1, <2>2, <2>3 DEF BookedIsRecorded
<1>4. QED
  BY <1>1, <1>2, <1>3 DEF Promise!Next, Promise!vars

\* "Exactly one of two states": without lost replies, commits in doubt and restarts,
\* a sale that Shopify keeps open when its place_order has returned is recorded, or a
\* person was asked to cancel it -- whatever else fails, in any interleaving.
THEOREM EverySaleSettled ==
    ASSUME Faults \cap {"lost_reply", "commit_ambiguous", "restart"} = {}
    PROVE  Spec => []EverySaleAccountedFor
<1>1. Init => BookedIsRecorded
  BY DEF Init, BookedIsRecorded, Booked
<1>2. IInv /\ BookedIsRecorded /\ [Next]_vars => BookedIsRecorded'
  BY StepPromise, StepBooked
<1>3. IInv /\ BookedIsRecorded => EverySaleAccountedFor
  <2> SUFFICES ASSUME IInv, BookedIsRecorded, NEW s \in DOMAIN remote,
                      remote[s].status = "open", work[remote[s].customer].step = "idle",
                      s \notin byHand
               PROVE  \E o \in orders : o.sale = s
    BY DEF EverySaleAccountedFor
  <2>1. ASSUME NEW c \in Customers, InHand(c), work[c].sale = s
        PROVE  FALSE
    <3>1. remote[s] = NewSale(c)
      BY <2>1 DEF IInv, SalesInv, SaleInHand
    <3>2. NewSale(c).customer = c
      BY DEF NewSale
    <3>3. QED
      BY <2>1, <3>1, <3>2 DEF InHand
  <2>2. s \in Booked
    BY <2>1 DEF Booked
  <2>3. QED
    BY <2>2 DEF BookedIsRecorded
<1>4. QED
  BY <1>1, <1>2, <1>3, InductiveInvariant, PTL DEF Spec

-----------------------------------------------------------------------------
(* A cart becomes one order.                                               *)

OrdersOf(c) == {o \in orders : o.customer = c}

\* The carts of c that are accounted for: its orders, and the one it fills.
CartsSpent(c) == Cardinality(OrdersOf(c)) + (IF cart[c] = <<>> THEN 0 ELSE 1)

\* The carts of every customer add up, and orders are countable.
CountInv ==
    /\ \A c \in Customers : IsFiniteSet(OrdersOf(c))
    /\ \A c \in Customers : CartsSpent(c) <= filled[c]

\* What a step that neither records an order nor touches a cart does to the count.
LEMMA CountStays ==
    ASSUME CountInv, UNCHANGED <<cart, orders, filled>>
    PROVE  CountInv'
BY DEF CountInv, CartsSpent, OrdersOf

\* A commit spends the cart that was there for the order it records.
LEMMA PersistCounts ==
    ASSUME IInv, CountInv, NEW c \in Customers, work[c].step = "commit",
           Persist(c), UNCHANGED filled
    PROVE  CountInv'
<1> DEFINE new == [customer |-> c, lines |-> work[c].lines, sale |-> work[c].sale]
<1>1. /\ cart \in [Customers -> Carts \cup {<<>>}]
      /\ filled \in [Customers -> Nat]
      /\ LinesInHand
  BY DEF IInv, SalesInv, TypeOK
<1>2. cart[c] \in Carts /\ cart[c] # <<>>
  BY <1>1, CartsAssumption DEF LinesInHand
<1>3. orders' = orders \cup {new} /\ cart' = [cart EXCEPT ![c] = <<>>]
  BY DEF Persist
<1>4. OrdersOf(c)' = OrdersOf(c) \cup {new}
  BY <1>3 DEF OrdersOf
<1>5. \A d \in Customers \ {c} : OrdersOf(d)' = OrdersOf(d) /\ cart'[d] = cart[d]
  BY <1>1, <1>3 DEF OrdersOf
<1>6. cart'[c] = <<>>
  BY <1>1, <1>3
<1>7. /\ IsFiniteSet(OrdersOf(c))
      /\ Cardinality(OrdersOf(c)) \in Nat
      /\ Cardinality(OrdersOf(c)) + 1 <= filled[c]
  BY <1>2, FS_CardinalityType DEF CountInv, CartsSpent
<1>8. /\ IsFiniteSet(OrdersOf(c)')
      /\ Cardinality(OrdersOf(c)') <= Cardinality(OrdersOf(c)) + 1
  <2> HIDE DEF new
  <2>1. PICK S : S = OrdersOf(c)
    OBVIOUS
  <2>2. /\ IsFiniteSet(S \cup {new})
        /\ Cardinality(S \cup {new}) =
                 IF new \in S THEN Cardinality(S) ELSE Cardinality(S) + 1
    BY <1>7, <2>1, FS_AddElement
  <2>3. QED
    BY <1>4, <1>7, <2>1, <2>2
<1>9. /\ IsFiniteSet(OrdersOf(c)') /\ CartsSpent(c)' <= filled'[c]
  <2>1. Cardinality(OrdersOf(c)') \in Nat
    BY <1>8, FS_CardinalityType
  <2>2. CartsSpent(c)' = Cardinality(OrdersOf(c)')
    BY <1>6, <2>1 DEF CartsSpent
  <2>3. filled[c] \in Nat /\ filled'[c] = filled[c]
    BY <1>1
  <2>4. QED
    BY <1>7, <1>8, <2>1, <2>2, <2>3
<1>10. \A d \in Customers \ {c} :
          IsFiniteSet(OrdersOf(d)') /\ CartsSpent(d)' <= filled'[d]
  BY <1>5 DEF CountInv, CartsSpent
<1>11. QED
  BY <1>9, <1>10 DEF CountInv

\* A cart is filled only when the last one is gone.
LEMMA FillCounts ==
    ASSUME IInv, CountInv, NEW c \in Customers, FillCart(c)
    PROVE  CountInv'
<1>1. /\ cart \in [Customers -> Carts \cup {<<>>}]
      /\ filled \in [Customers -> Nat]
  BY DEF IInv, TypeOK
<1>2. /\ cart[c] = <<>>
      /\ \A d \in Customers \ {c} : cart'[d] = cart[d] /\ filled'[d] = filled[d]
      /\ filled'[c] = filled[c] + 1
      /\ orders' = orders
  BY <1>1 DEF FillCart
<1>3. \A d \in Customers : OrdersOf(d)' = OrdersOf(d)
  BY <1>2 DEF OrdersOf
<1>4. /\ Cardinality(OrdersOf(c)) \in Nat
      /\ Cardinality(OrdersOf(c)) <= filled[c]
      /\ filled[c] \in Nat
  BY <1>1, <1>2, FS_CardinalityType DEF CountInv, CartsSpent
<1>5. CartsSpent(c)' <= Cardinality(OrdersOf(c)) + 1
  BY <1>3, <1>4 DEF CartsSpent
<1>6. CartsSpent(c)' \in Nat
  BY <1>3, <1>4 DEF CartsSpent
<1>7. CartsSpent(c)' <= filled'[c]
  BY <1>2, <1>4, <1>5, <1>6
<1>8. \A d \in Customers \ {c} : CartsSpent(d)' <= filled'[d]
  BY <1>2, <1>3 DEF CountInv, CartsSpent
<1>9. QED
  BY <1>3, <1>7, <1>8 DEF CountInv

\* However often an order is confirmed, retried, refused, committed in doubt or
\* restarted, a customer has no more orders than carts put together, and a cart that
\* became an order is gone.
THEOREM CartsBecomeOneOrder == Spec => []OneOrderPerCart
<1>1. Init => CountInv
  <2> SUFFICES ASSUME Init, NEW c \in Customers
               PROVE  IsFiniteSet(OrdersOf(c)) /\ CartsSpent(c) <= filled[c]
    BY DEF CountInv
  <2>1. OrdersOf(c) = {} /\ cart[c] = <<>> /\ filled[c] = 0
    BY DEF Init, OrdersOf
  <2>2. IsFiniteSet({}) /\ Cardinality({}) = 0
    BY FS_EmptySet
  <2>3. QED
    BY <2>1, <2>2 DEF CartsSpent
<1>2. IInv /\ CountInv /\ [Next]_vars => CountInv'
  <2> SUFFICES ASSUME IInv, CountInv, [Next]_vars PROVE CountInv'
    OBVIOUS
  <2>1. ASSUME NEW c \in Customers, TurnStep(c) PROVE CountInv'
    <3>1. CASE Commit(c) \/ CommitAmbiguous(c)
      <4>1. work[c].step = "commit" /\ Persist(c) /\ UNCHANGED filled
        BY <3>1 DEF Commit, CommitAmbiguous
      <4>2. QED
        BY <4>1, PersistCounts
    <3>2. CASE ~(Commit(c) \/ CommitAmbiguous(c))
      <4>1. UNCHANGED <<cart, orders, filled>>
        BY <2>1, <3>2 DEF TurnStep, ReadShelf, ShelfUnreadable, CreateAccepted,
           CreateOutOfStock, CreateDeclined, CreateFails, CreateReplyLost, RecordSold,
           WriteOrder, WriteFails, Notify, NotifyFails, CommitRefused, Cancel,
           CancelFails, dbVars
      <4>2. QED
        BY <4>1, CountStays
    <3>3. QED
      BY <3>1, <3>2
  <2>2. ASSUME NEW c \in Customers, CustomerStep(c) PROVE CountInv'
    <3>1. CASE FillCart(c)
      BY <3>1, FillCounts
    <3>2. CASE WindowPasses(c) \/ ConfirmEmpty(c) \/ Confirm(c)
      BY <3>2, CountStays DEF WindowPasses, ConfirmEmpty, Confirm, dbVars
    <3>3. QED
      BY <2>2, <3>1, <3>2 DEF CustomerStep
  <2>3. CASE \/ \E v \in Variants : StorefrontSale(v)
             \/ \E s \in DOMAIN remote : Restock(s)
             \/ Restart
    BY <2>3, CountStays DEF StorefrontSale, Restock, Restart, dbVars
  <2>4. CASE UNCHANGED vars
    BY <2>4, CountStays DEF vars
  <2>5. QED
    BY <2>1, <2>2, <2>3, <2>4 DEF Next
<1>3. CountInv => OneOrderPerCart
  BY DEF CountInv, CartsSpent, OrdersOf, OneOrderPerCart
<1>4. QED
  BY <1>1, <1>2, <1>3, InductiveInvariant, PTL DEF Spec

-----------------------------------------------------------------------------
(* Nothing is oversold.                                                    *)

\* The units of v that Shopify has taken off its shelf for somebody's order.
OutFor(sales, v) ==
    {p \in (DOMAIN sales) \X Nat : /\ sales[p[1]].status # "cancelled"
                                 /\ p[2] \in 1 .. Quantity(sales[p[1]].lines, v)}

PiecesOut(v) == OutFor(remote, v)

\* What is on the shelf and what is out was there at the start.
ShelfInv ==
    \A v \in Variants :
        /\ shelf[v] >= 0
        /\ IsFiniteSet(PiecesOut(v))
        /\ shelf[v] + Cardinality(PiecesOut(v)) <= Stock[v]

\* q pieces of one order are q.
LEMMA PiecesOfOne ==
    ASSUME NEW x, NEW q \in Nat
    PROVE  IsFiniteSet({x} \X (1 .. q)) /\ Cardinality({x} \X (1 .. q)) = q
<1>1. IsFiniteSet({x}) /\ Cardinality({x}) = 1
  BY FS_Singleton
<1>2. IsFiniteSet(1 .. q) /\ Cardinality(1 .. q) = q
  BY FS_Interval
<1>3. /\ IsFiniteSet({x} \X (1 .. q))
      /\ Cardinality({x} \X (1 .. q)) = Cardinality({x}) * Cardinality(1 .. q)
  BY <1>1, <1>2, FS_Product
<1>4. QED
  BY <1>1, <1>2, <1>3

\* Pieces of an order that was not among some are added to them.
LEMMA PiecesAdded ==
    ASSUME NEW S, IsFiniteSet(S), NEW x, NEW q \in Nat, \A k \in 1 .. q : <<x, k>> \notin S
    PROVE  /\ IsFiniteSet(S \cup ({x} \X (1 .. q)))
           /\ Cardinality(S \cup ({x} \X (1 .. q))) = Cardinality(S) + q
<1> PICK T : T = {x} \X (1 .. q)
  OBVIOUS
<1>1. IsFiniteSet(T) /\ Cardinality(T) = q
  BY PiecesOfOne
<1>2. S \cap T = {}
  OBVIOUS
<1>3. /\ IsFiniteSet(S \cup T)
      /\ Cardinality(S \cup T) = Cardinality(S) + Cardinality(T) - Cardinality(S \cap T)
  BY <1>1, FS_Union
<1>4. Cardinality(S \cap T) = 0 /\ Cardinality(S) \in Nat
  BY <1>2, FS_EmptySet, FS_CardinalityType
<1>5. QED
  BY <1>1, <1>3, <1>4

\* And taken from them, when all of them were there.
LEMMA PiecesTaken ==
    ASSUME NEW S, IsFiniteSet(S), NEW x, NEW q \in Nat, {x} \X (1 .. q) \subseteq S
    PROVE  /\ IsFiniteSet(S \ ({x} \X (1 .. q)))
           /\ Cardinality(S \ ({x} \X (1 .. q))) = Cardinality(S) - q
<1> PICK T : T = {x} \X (1 .. q)
  OBVIOUS
<1>1. Cardinality(T) = q
  BY PiecesOfOne
<1>2. S \cap T = T
  OBVIOUS
<1>3. IsFiniteSet(S \ T) /\ Cardinality(S \ T) = Cardinality(S) - Cardinality(S \cap T)
  BY FS_Difference
<1>4. QED
  BY <1>1, <1>2, <1>3

\* A pair, by its components.
LEMMA PairIs ==
    ASSUME NEW D, NEW p
    PROVE  p \in D \X Nat <=> p = <<p[1], p[2]>> /\ p[1] \in D /\ p[2] \in Nat
<1>1. ASSUME p \in D \X Nat PROVE p = <<p[1], p[2]>> /\ p[1] \in D /\ p[2] \in Nat
  BY <1>1
<1>2. ASSUME p = <<p[1], p[2]>>, p[1] \in D, p[2] \in Nat PROVE p \in D \X Nat
  <2>1. PICK a \in D, b \in Nat : a = p[1] /\ b = p[2]
    BY <1>2
  <2>2. <<a, b>> \in D \X Nat
    OBVIOUS
  <2>3. <<a, b>> = p
    BY <1>2, <2>1, Zenon
  <2>4. QED
    BY <2>2, <2>3
<1>3. QED
  BY <1>1, <1>2

\* What it means to be a piece, and one of an order's.
LEMMA OutIs ==
    ASSUME NEW sales, NEW v, NEW p
    PROVE  p \in OutFor(sales, v) <=>
             /\ p = <<p[1], p[2]>>
             /\ p[1] \in DOMAIN sales /\ p[2] \in Nat
             /\ sales[p[1]].status # "cancelled"
             /\ p[2] \in 1 .. Quantity(sales[p[1]].lines, v)
<1>1. p \in (DOMAIN sales) \X Nat <=> p = <<p[1], p[2]>> /\ p[1] \in DOMAIN sales /\ p[2] \in Nat
  BY PairIs
<1> DEFINE out(r) == sales[r[1]].status # "cancelled" /\ r[2] \in 1 .. Quantity(sales[r[1]].lines, v)
<1>2. OutFor(sales, v) = {r \in (DOMAIN sales) \X Nat : out(r)}
  BY DEF OutFor
<1>3. p \in OutFor(sales, v) <=> p \in (DOMAIN sales) \X Nat /\ out(p)
  <2> HIDE DEF out
  <2>1. QED
    BY <1>2
<1>4. QED
  BY <1>1, <1>3

LEMMA PieceIs ==
    ASSUME NEW x, NEW q \in Nat, NEW p
    PROVE  p \in {x} \X (1 .. q) <=> p = <<p[1], p[2]>> /\ p[1] = x /\ p[2] \in 1 .. q
OBVIOUS

\* A cart that is not short fits on the shelf.
LEMMA FitsOnTheShelf ==
    ASSUME NEW lines \in Carts, ~Short(lines), NEW v \in Variants, shelf[v] \in Nat
    PROVE  Quantity(lines, v) <= shelf[v]
<1> DEFINE of == {i \in DOMAIN lines : lines[i].variant = v}
<1>1. CASE of = {}
  BY <1>1 DEF Quantity
<1>2. CASE of # {}
  <2>1. PICK i : i = CHOOSE j \in of : TRUE
    OBVIOUS
  <2>2. i \in DOMAIN lines /\ lines[i].variant = v
    BY <1>2, <2>1
  <2>3. Quantity(lines, v) = lines[i].quantity
    BY <1>2, <2>1 DEF Quantity
  <2>4. ~(shelf[v] < lines[i].quantity)
    BY <2>2 DEF Short
  <2>5. Quantity(lines, v) \in Nat
    BY QuantityType
  <2>6. QED
    BY <2>3, <2>4, <2>5
<1>3. QED
  BY <1>1, <1>2

\* Shopify's orders keep what they are of, and are open or cancelling as before.
LEMMA PiecesStay ==
    ASSUME DOMAIN remote' = DOMAIN remote,
           \A s \in DOMAIN remote :
              /\ remote'[s].lines = remote[s].lines
              /\ (remote'[s].status = "cancelled") <=> (remote[s].status = "cancelled"),
           NEW v \in Variants
    PROVE  PiecesOut(v)' = PiecesOut(v)
<1>1. PICK after : after = remote'
  OBVIOUS
<1>2. \A p : p \in OutFor(after, v) <=> p \in OutFor(remote, v)
  BY <1>1, OutIs
<1>3. QED
  BY <1>1, <1>2 DEF PiecesOut

LEMMA ShelfStays ==
    ASSUME ShelfInv, shelf' = shelf, \A v \in Variants : PiecesOut(v)' = PiecesOut(v)
    PROVE  ShelfInv'
BY DEF ShelfInv

\* Booking a sale moves its pieces from the shelf.
LEMMA BookMoves ==
    ASSUME TypeOK, ShelfInv, NEW c \in Customers, work[c].lines \in Carts,
           ~Short(work[c].lines), Book(c)
    PROVE  ShelfInv'
<1> DEFINE new == Len(remote) + 1
<1> SUFFICES ASSUME NEW v \in Variants
             PROVE  /\ shelf'[v] >= 0
                    /\ IsFiniteSet(PiecesOut(v)')
                    /\ shelf'[v] + Cardinality(PiecesOut(v)') <= Stock[v]
  BY DEF ShelfInv
<1>1. PICK q \in Nat : q = Quantity(work[c].lines, v)
  BY QuantityType
<1>2. shelf[v] \in Nat /\ shelf'[v] = shelf[v] - q
  BY <1>1 DEF TypeOK, ShelfInv, Book
<1>3. q <= shelf[v]
  BY <1>1, <1>2, FitsOnTheShelf
<1>4. /\ DOMAIN remote' = DOMAIN remote \cup {new}
      /\ \A s \in DOMAIN remote : remote'[s] = remote[s]
      /\ remote'[new].status = "open" /\ remote'[new].lines = work[c].lines
      /\ new \notin DOMAIN remote
  <2> HIDE DEF new
  <2>1. /\ DOMAIN remote' = DOMAIN remote \cup {new}
        /\ \A s \in DOMAIN remote : remote'[s] = remote[s]
        /\ remote'[new] = NewSale(c)
        /\ new \notin DOMAIN remote
    BY BookTypes DEF new
  <2>2. NewSale(c).status = "open" /\ NewSale(c).lines = work[c].lines
    BY DEF NewSale
  <2>3. QED
    BY <2>1, <2>2
<1>5. PICK after : after = remote'
  OBVIOUS
<1>6. /\ PiecesOut(v)' = PiecesOut(v) \cup ({new} \X (1 .. q))
      /\ \A k \in 1 .. q : <<new, k>> \notin PiecesOut(v)
  <2> HIDE DEF new
  <2>1. /\ DOMAIN after = DOMAIN remote \cup {new}
        /\ \A s \in DOMAIN remote : after[s] = remote[s]
        /\ after[new].status = "open" /\ Quantity(after[new].lines, v) = q
        /\ new \notin DOMAIN remote
    BY <1>1, <1>4, <1>5
  <2>2. \A p : p \in OutFor(after, v) <=> p \in OutFor(remote, v) \/ p \in {new} \X (1 .. q)
    BY <2>1, OutIs, PieceIs
  <2>3. \A k : <<new, k>> \notin OutFor(remote, v)
    BY <2>1, OutIs
  <2>4. QED
    BY <1>5, <2>2, <2>3 DEF PiecesOut
<1>7. /\ IsFiniteSet(PiecesOut(v)')
      /\ Cardinality(PiecesOut(v)') = Cardinality(PiecesOut(v)) + q
  <2> HIDE DEF new
  <2>1. PICK S : S = PiecesOut(v)
    OBVIOUS
  <2>2. IsFiniteSet(S) /\ \A k \in 1 .. q : <<new, k>> \notin S
    BY <1>6, <2>1 DEF ShelfInv
  <2>3. /\ IsFiniteSet(S \cup ({new} \X (1 .. q)))
        /\ Cardinality(S \cup ({new} \X (1 .. q))) = Cardinality(S) + q
    BY <2>2, PiecesAdded
  <2>4. QED
    BY <1>6, <2>1, <2>3
<1>8. Cardinality(PiecesOut(v)) \in Nat /\ shelf[v] + Cardinality(PiecesOut(v)) <= Stock[v]
  BY FS_CardinalityType DEF ShelfInv
<1>9. QED
  BY <1>2, <1>3, <1>7, <1>8, BoundsAssumption

\* Putting a cancelled sale back moves them to the shelf.
LEMMA RestockMoves ==
    ASSUME TypeOK, ShelfInv, NEW s \in DOMAIN remote, Restock(s)
    PROVE  ShelfInv'
<1> SUFFICES ASSUME NEW v \in Variants
             PROVE  /\ shelf'[v] >= 0
                    /\ IsFiniteSet(PiecesOut(v)')
                    /\ shelf'[v] + Cardinality(PiecesOut(v)') <= Stock[v]
  BY DEF ShelfInv
<1>1. remote \in Seq(RemoteOrder) /\ remote[s] \in RemoteOrder
  BY ElementOfSeq DEF TypeOK
<1>2. PICK q \in Nat : q = Quantity(remote[s].lines, v)
  BY <1>1, QuantityType DEF RemoteOrder
<1>3. shelf[v] \in Nat /\ shelf'[v] = shelf[v] + q
  BY <1>2 DEF TypeOK, ShelfInv, Restock
<1>4. /\ DOMAIN remote' = DOMAIN remote
      /\ \A t \in DOMAIN remote \ {s} : remote'[t] = remote[t]
      /\ remote[s].status = "cancelling"
      /\ remote'[s].status = "cancelled"
  BY <1>1 DEF Restock, RemoteOrder
<1>5. s \in Nat
  BY <1>1, LenProperties
<1>6. PICK after : after = remote'
  OBVIOUS
<1>7. /\ {s} \X (1 .. q) \subseteq PiecesOut(v)
      /\ PiecesOut(v)' = PiecesOut(v) \ ({s} \X (1 .. q))
  <2>1. /\ DOMAIN after = DOMAIN remote
        /\ \A t \in DOMAIN remote \ {s} : after[t] = remote[t]
        /\ remote[s].status # "cancelled" /\ Quantity(remote[s].lines, v) = q
        /\ after[s].status = "cancelled"
    BY <1>2, <1>4, <1>6
  <2>2. \A p : p \in {s} \X (1 .. q) => p \in OutFor(remote, v)
    BY <1>5, <2>1, OutIs, PieceIs
  <2>3. \A p : p \in OutFor(after, v) <=> p \in OutFor(remote, v) /\ p \notin {s} \X (1 .. q)
    BY <2>1, OutIs, PieceIs
  <2>4. QED
    BY <1>6, <2>2, <2>3 DEF PiecesOut
<1>8. /\ IsFiniteSet(PiecesOut(v)')
      /\ Cardinality(PiecesOut(v)') = Cardinality(PiecesOut(v)) - q
  <2>1. PICK S : S = PiecesOut(v)
    OBVIOUS
  <2>2. IsFiniteSet(S)
    BY <2>1 DEF ShelfInv
  <2>3. QED
    BY <1>7, <2>1, <2>2, PiecesTaken
<1>9. Cardinality(PiecesOut(v)) \in Nat /\ shelf[v] + Cardinality(PiecesOut(v)) <= Stock[v]
  BY FS_CardinalityType DEF ShelfInv
<1>10. QED
  BY <1>3, <1>8, <1>9

LEMMA StepShelf == IInv /\ ShelfInv /\ [Next]_vars => ShelfInv'
<1> SUFFICES ASSUME IInv, ShelfInv, [Next]_vars PROVE ShelfInv'
  OBVIOUS
<1>1. TypeOK /\ LinesInHand /\ SaleInHand
  BY DEF IInv, SalesInv
<1>2. ASSUME UNCHANGED <<shelf, remote>> PROVE ShelfInv'
  <2>1. \A v \in Variants : PiecesOut(v)' = PiecesOut(v)
    BY <1>2 DEF PiecesOut
  <2>2. QED
    BY <1>2, <2>1, ShelfStays
<1>3. ASSUME NEW c \in Customers, TurnStep(c) PROVE ShelfInv'
  <2>1. CASE CreateAccepted(c) \/ CreateReplyLost(c)
    <3>1. work[c].step = "create" /\ ~Short(work[c].lines) /\ Book(c)
      BY <2>1 DEF CreateAccepted, CreateReplyLost
    <3>2. QED
      BY <1>1, <3>1, BookMoves DEF LinesInHand
  <2>2. CASE Cancel(c)
    <3>1. /\ work[c].sale \in DOMAIN remote
          /\ remote[work[c].sale].status = "open"
      <4>1. InHand(c)
        BY <2>2 DEF Cancel, InHand
      <4>2. NewSale(c).status = "open"
        BY DEF NewSale
      <4>3. QED
        BY <1>1, <4>1, <4>2 DEF SaleInHand
    <3>2. remote \in Seq(RemoteOrder) /\ remote[work[c].sale] \in RemoteOrder
      BY <1>1, <3>1, ElementOfSeq DEF TypeOK
    <3>3. remote' = [remote EXCEPT ![work[c].sale].status = "cancelling"] /\ shelf' = shelf
      BY <2>2 DEF Cancel
    <3>4. /\ DOMAIN remote' = DOMAIN remote
          /\ \A s \in DOMAIN remote :
                /\ remote'[s].lines = remote[s].lines
                /\ (remote'[s].status = "cancelled") <=> (remote[s].status = "cancelled")
      BY <3>1, <3>2, <3>3 DEF RemoteOrder
    <3>5. QED
      BY <3>3, <3>4, PiecesStay, ShelfStays
  <2>3. CASE ~(CreateAccepted(c) \/ CreateReplyLost(c) \/ Cancel(c))
    <3>1. UNCHANGED <<shelf, remote>>
      BY <1>3, <2>3 DEF TurnStep, ReadShelf, ShelfUnreadable, CreateOutOfStock,
         CreateDeclined, CreateFails, RecordSold, WriteOrder, WriteFails, Notify,
         NotifyFails, Commit, CommitRefused, CommitAmbiguous, CancelFails, shopVars
    <3>2. QED
      BY <1>2, <3>1
  <2>4. QED
    BY <2>1, <2>2, <2>3
<1>4. ASSUME NEW c \in Customers, CustomerStep(c) PROVE ShelfInv'
  BY <1>2, <1>4 DEF CustomerStep, FillCart, WindowPasses, ConfirmEmpty, Confirm, shopVars
<1>5. ASSUME NEW v \in Variants, StorefrontSale(v) PROVE ShelfInv'
  <2>1. \A w \in Variants : PiecesOut(w)' = PiecesOut(w)
    BY <1>5 DEF StorefrontSale, PiecesOut
  <2>2. shelf \in [Variants -> Int] /\ shelf' = [shelf EXCEPT ![v] = @ - 1] /\ shelf[v] > 0
    BY <1>1, <1>5 DEF StorefrontSale, TypeOK
  <2>3. \A w \in Variants : shelf'[w] >= 0 /\ shelf'[w] <= shelf[w] /\ shelf'[w] \in Int
    BY <2>2 DEF ShelfInv
  <2>4. \A w \in Variants : Cardinality(PiecesOut(w)) \in Nat /\ Stock[w] \in Nat
    BY FS_CardinalityType, BoundsAssumption DEF ShelfInv
  <2>5. QED
    BY <2>1, <2>2, <2>3, <2>4 DEF ShelfInv
<1>6. ASSUME NEW s \in DOMAIN remote, Restock(s) PROVE ShelfInv'
  BY <1>1, <1>6, RestockMoves
<1>7. CASE Restart \/ UNCHANGED vars
  BY <1>2, <1>7 DEF Restart, shopVars, vars
<1>8. QED
  BY <1>3, <1>4, <1>5, <1>6, <1>7 DEF Next

\* Different recorded orders stand for different pieces that are out.
LEMMA PiecesAreOut ==
    ASSUME TypeOK, OrdersMatchSales, ShelfInv, NEW S \in SUBSET orders,
           \A o \in S : remote[o.sale].status # "cancelled", NEW v \in Variants
    PROVE  /\ IsFiniteSet(UNION {Pieces(o, v) : o \in S})
           /\ Units(S, v) \in Nat
           /\ Units(S, v) <= Cardinality(PiecesOut(v))
<1> DEFINE P == UNION {Pieces(o, v) : o \in S}
           f == [p \in P |-> <<p[1].sale, p[2]>>]
<1>1. PICK Out : Out = PiecesOut(v)
  OBVIOUS
<1>2. \A p \in P : /\ p = <<p[1], p[2]>> /\ p[1] \in S
                   /\ p[2] \in 1 .. Quantity(p[1].lines, v)
  BY DEF Pieces
<1>3. \A p \in P : f[p] \in Out
  <2> SUFFICES ASSUME NEW p \in P PROVE <<p[1].sale, p[2]>> \in Out
    OBVIOUS
  <2>1. p[1] \in orders /\ p[2] \in 1 .. Quantity(p[1].lines, v)
    BY <1>2
  <2>2. p[1].sale \in DOMAIN remote /\ remote[p[1].sale].lines = p[1].lines
    BY <2>1 DEF OrdersMatchSales
  <2>3. remote[p[1].sale].status # "cancelled"
    BY <1>2
  <2>4. p[1].lines \in Carts
    BY <2>1 DEF TypeOK, OrderType
  <2>5. Quantity(p[1].lines, v) \in Nat
    BY <2>4, QuantityType
  <2>6. p[2] \in Nat
    BY <2>1, <2>5
  <2>7. QED
    BY <1>1, <2>1, <2>2, <2>3, <2>6, OutIs DEF PiecesOut
<1>4. \A p, r \in P : f[p] = f[r] => p = r
  <2> SUFFICES ASSUME NEW p \in P, NEW r \in P, f[p] = f[r] PROVE p = r
    OBVIOUS
  <2>1. p[1].sale = r[1].sale /\ p[2] = r[2]
    OBVIOUS
  <2>2. p[1] = r[1]
    BY <1>2, <2>1 DEF OrdersMatchSales
  <2>3. QED
    BY <1>2, <2>1, <2>2
<1>5. f \in Injection(P, Out)
  <2> HIDE DEF P
  <2>1. f \in [P -> Out]
    BY <1>3
  <2>2. QED
    BY <1>4, <2>1 DEF Injection, IsInjective
<1>6. IsFiniteSet(Out)
  BY <1>1 DEF ShelfInv
<1>7. IsFiniteSet(P) /\ Cardinality(P) <= Cardinality(Out)
  <2> HIDE DEF P, f
  <2>1. QED
    BY <1>5, <1>6, FS_Injection
<1>8. QED
  BY <1>1, <1>7, FS_CardinalityType DEF Units

LEMMA ShelfInvariant == Spec => []ShelfInv
<1>1. Init => ShelfInv
  <2> SUFFICES ASSUME Init, NEW v \in Variants
               PROVE  /\ shelf[v] >= 0
                      /\ IsFiniteSet(PiecesOut(v))
                      /\ shelf[v] + Cardinality(PiecesOut(v)) <= Stock[v]
    BY DEF ShelfInv
  <2>1. shelf[v] = Stock[v] /\ Stock[v] \in Nat
    BY BoundsAssumption DEF Init
  <2>2. PiecesOut(v) = {}
    <3>1. remote = <<>> /\ DOMAIN <<>> = {}
      BY DEF Init
    <3>2. QED
      BY <3>1, OutIs DEF PiecesOut
  <2>3. QED
    BY <2>1, <2>2, FS_EmptySet
<1>2. QED
  BY <1>1, StepShelf, InductiveInvariant, PTL DEF Spec

\* No shelf is ever below zero and the recorded orders that stand never exceed what
\* was there, although the shelf is checked before it is taken and any reply, commit
\* or process may be lost in between.
THEOREM NobodyIsOversold == Spec => []NeverOversold
<1>1. IInv /\ ShelfInv => NeverOversold
  <2> SUFFICES ASSUME IInv, ShelfInv, NEW v \in Variants
               PROVE  shelf[v] >= 0 /\ Units({o \in orders : remote[o.sale].status = "open"}, v) <= Stock[v]
    BY DEF NeverOversold
  <2> DEFINE S == {o \in orders : remote[o.sale].status = "open"}
  <2>1. Units(S, v) \in Nat /\ Units(S, v) <= Cardinality(PiecesOut(v))
    <3>1. S \in SUBSET orders /\ \A o \in S : remote[o.sale].status # "cancelled"
      OBVIOUS
    <3> HIDE DEF S
    <3>2. QED
      BY <3>1, PiecesAreOut DEF IInv, SalesInv
  <2>2. /\ shelf[v] >= 0 /\ shelf[v] \in Int
        /\ Cardinality(PiecesOut(v)) \in Nat
        /\ shelf[v] + Cardinality(PiecesOut(v)) <= Stock[v]
        /\ Stock[v] \in Nat
    BY FS_CardinalityType, BoundsAssumption DEF ShelfInv, IInv, TypeOK
  <2> HIDE DEF S
  <2>3. shelf[v] >= 0 /\ Units(S, v) <= Stock[v]
    BY <2>1, <2>2
  <2>4. QED
    BY <2>3 DEF S
<1>2. QED
  BY <1>1, ShelfInvariant, InductiveInvariant, PTL

\* Recorded orders are countable and fit the stock, when no COMMIT is in doubt.
BooksFit ==
    \A v \in Variants : /\ IsFiniteSet(UNION {Pieces(o, v) : o \in orders})
                        /\ Units(orders, v) \in Nat
                        /\ Units(orders, v) <= Stock[v]

LEMMA RecordedFits ==
    ASSUME "commit_ambiguous" \notin Faults, IInv, ShelfInv
    PROVE  BooksFit
<1> SUFFICES ASSUME NEW v \in Variants
             PROVE  /\ IsFiniteSet(UNION {Pieces(o, v) : o \in orders})
                    /\ Units(orders, v) \in Nat
                    /\ Units(orders, v) <= Stock[v]
  BY DEF BooksFit
<1>1. \A o \in orders : remote[o.sale].status # "cancelled"
  BY DEF IInv, SalesInv, RecordedStands
<1>2. /\ IsFiniteSet(UNION {Pieces(o, v) : o \in orders})
      /\ Units(orders, v) \in Nat
      /\ Units(orders, v) <= Cardinality(PiecesOut(v))
  BY <1>1, PiecesAreOut DEF IInv, SalesInv
<1>3. /\ shelf[v] >= 0 /\ shelf[v] \in Int
      /\ Cardinality(PiecesOut(v)) \in Nat
      /\ shelf[v] + Cardinality(PiecesOut(v)) <= Stock[v]
      /\ Stock[v] \in Nat
  BY FS_CardinalityType, BoundsAssumption DEF ShelfInv, IInv, TypeOK
<1>4. QED
  BY <1>2, <1>3

\* A commit takes off the local count what its order is of: the floor at zero
\* never bites.
LEMMA PersistBooks ==
    ASSUME IInv, BooksFit, BooksFit', BooksBalance, NEW c \in Customers,
           work[c].step = "commit", Persist(c)
    PROVE  BooksBalance'
<1> SUFFICES ASSUME NEW v \in Variants PROVE stock'[v] = Stock[v] - Units(orders', v)
  BY DEF BooksBalance
<1>1. TypeOK /\ LinesInHand /\ Unrecorded
  BY DEF IInv, SalesInv
<1>2. PICK new : new = [customer |-> c, lines |-> work[c].lines, sale |-> work[c].sale]
  OBVIOUS
<1>3. work[c].lines \in Carts
  BY <1>1 DEF LinesInHand
<1>4. PICK q \in Nat : q = Quantity(work[c].lines, v)
  BY <1>3, QuantityType
<1>5. orders' = orders \cup {new}
  BY <1>2 DEF Persist
<1>6. new \notin orders
  <2>1. \A o \in orders : o.sale # work[c].sale
    BY <1>1 DEF Unrecorded, InHand
  <2>2. QED
    BY <1>2, <2>1
<1>7. Pieces(new, v) = {new} \X (1 .. q)
  BY <1>2, <1>4 DEF Pieces
<1>8. PICK S : S = UNION {Pieces(o, v) : o \in orders}
  OBVIOUS
<1>9. UNION {Pieces(o, v) : o \in orders'} = S \cup ({new} \X (1 .. q))
  <2>1. \A p : p \in UNION {Pieces(o, v) : o \in orders'}
                 <=> (p \in UNION {Pieces(o, v) : o \in orders}) \/ p \in Pieces(new, v)
    BY <1>5
  <2>2. QED
    BY <1>7, <1>8, <2>1
<1>10. \A k \in 1 .. q : <<new, k>> \notin S
  BY <1>6, <1>8 DEF Pieces
<1>11. IsFiniteSet(S)
  BY <1>8 DEF BooksFit
<1>12. Cardinality(S \cup ({new} \X (1 .. q))) = Cardinality(S) + q
  BY <1>10, <1>11, PiecesAdded
<1>13. Units(orders', v) = Units(orders, v) + q
  BY <1>8, <1>9, <1>12 DEF Units
<1>14. /\ stock[v] \in Nat /\ Stock[v] \in Nat
       /\ stock[v] = Stock[v] - Units(orders, v)
       /\ stock'[v] = LocalDecrement(stock[v], q)
  BY <1>1, <1>4, BoundsAssumption DEF TypeOK, BooksBalance, Persist
<1>15. Units(orders', v) \in Nat /\ Units(orders', v) <= Stock[v] /\ Units(orders, v) \in Nat
  BY DEF BooksFit
<1>16. QED
  BY <1>13, <1>14, <1>15 DEF LocalDecrement

LEMMA StepBooks ==
    IInv /\ BooksFit /\ BooksFit' /\ BooksBalance /\ [Next]_vars => BooksBalance'
<1> SUFFICES ASSUME IInv, BooksFit, BooksFit', BooksBalance, [Next]_vars PROVE BooksBalance'
  OBVIOUS
<1>1. ASSUME UNCHANGED <<stock, orders>> PROVE BooksBalance'
  BY <1>1 DEF BooksBalance
<1>2. ASSUME NEW c \in Customers, TurnStep(c) PROVE BooksBalance'
  <2>1. CASE Commit(c) \/ CommitAmbiguous(c)
    BY <2>1, PersistBooks DEF Commit, CommitAmbiguous
  <2>2. CASE ~(Commit(c) \/ CommitAmbiguous(c))
    <3>1. UNCHANGED <<stock, orders>>
      BY <1>2, <2>2 DEF TurnStep, ReadShelf, ShelfUnreadable, CreateAccepted,
         CreateOutOfStock, CreateDeclined, CreateFails, CreateReplyLost, RecordSold,
         WriteOrder, WriteFails, Notify, NotifyFails, CommitRefused, Cancel,
         CancelFails, dbVars
    <3>2. QED
      BY <1>1, <3>1
  <2>3. QED
    BY <2>1, <2>2
<1>3. ASSUME NEW c \in Customers, CustomerStep(c) PROVE BooksBalance'
  BY <1>1, <1>3 DEF CustomerStep, FillCart, WindowPasses, ConfirmEmpty, Confirm, dbVars
<1>4. CASE \/ \E v \in Variants : StorefrontSale(v)
           \/ \E s \in DOMAIN remote : Restock(s)
           \/ Restart \/ UNCHANGED vars
  BY <1>1, <1>4 DEF StorefrontSale, Restock, Restart, dbVars, vars
<1>5. QED
  BY <1>2, <1>3, <1>4 DEF Next

\* The local count is what the recorded orders leave, whichever write, reply, refused
\* commit or process was lost; only a COMMIT in doubt is left out.
THEOREM LocalCountBalances ==
    ASSUME "commit_ambiguous" \notin Faults
    PROVE  Spec => []BooksBalance
<1>1. Init => BooksBalance
  <2> SUFFICES ASSUME Init, NEW v \in Variants PROVE stock[v] = Stock[v] - Units(orders, v)
    BY DEF BooksBalance
  <2>1. UNION {Pieces(o, v) : o \in orders} = {}
    BY DEF Init
  <2>2. Units(orders, v) = 0
    BY <2>1, FS_EmptySet DEF Units
  <2>3. QED
    BY <2>2, BoundsAssumption DEF Init
<1>2. IInv /\ ShelfInv => BooksFit
  BY RecordedFits
<1>3. QED
  BY <1>1, <1>2, ShelfInvariant, StepBooks, InductiveInvariant, PTL DEF Spec
=============================================================================
