----------------------------- MODULE ShopProofs ----------------------------
(***************************************************************************)
(* What the runs of Checkout and of ProductMirror check on small           *)
(* instances, for every instance.                                          *)
(*                                                                         *)
(* Checkout: the transcript shows the cart, and an order charges what was  *)
(* agreed.  A turn works on copies.  The argument says what a copy has in  *)
(* common with the committed state (GoodAttempt), and that words which     *)
(* arrived, the total last heard and the yeses that wait agree (Heard).    *)
(*                                                                         *)
(* ProductMirror: whatever the bot searches is on Shopify, or it is known  *)
(* why not.  The argument follows a SKU from the product a job has in hand *)
(* (InHand) to the rows it inserts (PutLive) and the committed variants    *)
(* (Backed), and a deletion from Shopify to the rows (LeavesBy); the row   *)
(* locks keep two transactions apart (Apart).                              *)
(***************************************************************************)
EXTENDS Checkout, ProductMirror, SequenceTheorems, FiniteSetTheorems, WellFoundedInduction,
        TLAPS

-----------------------------------------------------------------------------
(* The inductive invariant.                                                *)

\* A yes written while no reply was on its way answers the transcript's last words, if
\* these arrived and state a total.
Answered(batch) ==
    \A m \in Yeses(batch) :
        arrived /\ talk.said # None /\ m.crossed = "nothing" => m.heard = talk.said

\* While a turn runs, every new yes may cross its reply; and an order's yes came before
\* its confirmation.
AllCross(batch) == \A m \in Yeses(batch) : m.crossed # "nothing"

\* The cart a transcript shows is there, unless the call that showed it was undone.
Shows(words, n) == words.shown = n \/ words.undone

\* Words that arrived and state a total are the last the customer heard.
HeardIsSaid == arrived /\ talk.said # None => heard = talk.said

\* What an attempt's copies have in common with what is committed.
GoodAttempt(t) ==
    /\ t \in Attempts
    /\ Shows(t.talk, t.cart)
    /\ ~t.wrote => t.cart = cart
    /\ t.before = talk.said
    /\ t.arrived => arrived /\ t.talk.said = talk.said
    /\ Answered(t.batch)

\* An order that is committed, its turn not saved: where the last words of its transcript
\* have arrived, they are those of the committed one.
GoodPlacement(t) ==
    /\ t \in Placements
    /\ Shows(t.talk, cart)
    /\ t.arrived => arrived /\ t.talk.said = talk.said
    /\ AllCross(t.batch)

\* Words that wait to be sent are the transcript's last, or are not in it and state no
\* total.
GoodSending(t) ==
    /\ t \in Sendings
    /\ t.stored => ~arrived /\ t.tells = talk.said
    /\ ~t.stored => t.tells = None

GoodTurn ==
    /\ turn.at = "model" => GoodAttempt(turn)
    /\ turn.at = "placed" => GoodPlacement(turn)
    /\ turn.at = "sending" => GoodSending(turn)
    /\ turn # NoTurn => AllCross(inbox)

IInv ==
    /\ TypeOK
    /\ Shows(talk, cart)
    /\ HeardIsSaid
    /\ Answered(inbox)
    /\ GoodTurn
    /\ OrdersAreAgreed

-----------------------------------------------------------------------------
(* Totals, and what a call to the model may do to an attempt.              *)

LEMMA TimesPositive == \A n, p \in Nat \ {0} : n * p \in Nat \ {0}
OBVIOUS

\* The checkout of a cart that is not empty is a total; that of an empty one is none.
LEMMA TotalIs ==
    ASSUME NEW n \in 0..MaxQuantity, NEW p \in Prices
    PROVE  /\ Total(n, p) \in Totals
           /\ n # 0 => Total(n, p) \in Quotes /\ Total(n, p) # None
<1>1. p \in Nat \ {0} /\ n \in Nat /\ MaxQuantity \in Nat
  BY CheckoutAssumption
<1>2. CASE n = 0
  <2>1. n * p = 0
    BY <1>1, <1>2
  <2>2. QED
    BY <1>2, <2>1 DEF Total, Totals, None
<1>3. CASE n # 0
  <2>1. n \in 1..MaxQuantity /\ n \in Nat \ {0}
    BY <1>1, <1>3
  <2>2. n * p \in Nat \ {0}
    BY <1>1, <2>1, TimesPositive
  <2>3. n * p \in Quotes
    BY <2>1 DEF Quotes, Total
  <2>4. QED
    BY <2>2, <2>3 DEF Total, Totals, None
<1>4. QED
  BY <1>2, <1>3

\* A call's words and its hop leave an attempt good.
LEMMA SayingIsGood ==
    ASSUME GoodAttempt(turn), Asking, NEW t \in Saying(turn)
    PROVE  GoodAttempt(t) /\ t.cart = turn.cart /\ t.snap = turn.snap
<1>1. turn \in Attempts /\ turn.hops < LoopCap /\ LoopCap \in Nat
  BY CheckoutAssumption DEF GoodAttempt, Asking
<1>2. turn.hops + 1 \in 0..LoopCap
  BY <1>1 DEF Attempts
<1>3. Hopped(turn) \in Attempts
  BY <1>1, <1>2 DEF Attempts, Hopped
<1>4. CASE t = Hopped(turn)
  BY <1>1, <1>3, <1>4 DEF GoodAttempt, Hopped, Attempts, Shows
<1>5. ASSUME NEW said \in MayState,
             t = [Hopped(turn) EXCEPT !.talk.said = said, !.arrived = FALSE]
      PROVE  GoodAttempt(t) /\ t.cart = turn.cart /\ t.snap = turn.snap
  <2>1. turn.talk \in Transcripts
    BY <1>1 DEF Attempts
  <2>2. said \in Totals
    BY <2>1, <1>5 DEF MayState, Transcripts, Totals
  <2>3. [turn.talk EXCEPT !.said = said] \in Transcripts
    BY <2>1, <2>2 DEF Transcripts
  <2>4. t = [Hopped(turn) EXCEPT !.talk = [turn.talk EXCEPT !.said = said], !.arrived = FALSE]
    BY <1>1, <1>3, <1>5 DEF Hopped, Attempts
  <2>5. t \in Attempts
    BY <1>3, <2>3, <2>4 DEF Attempts
  <2>6. /\ t.talk.shown = turn.talk.shown /\ t.talk.undone = turn.talk.undone
        /\ t.cart = turn.cart /\ t.snap = turn.snap
    BY <1>1, <1>3, <2>1, <2>4 DEF Hopped, Attempts, Transcripts
  <2>7. t.wrote = turn.wrote /\ t.before = turn.before /\ t.batch = turn.batch /\ ~t.arrived
    BY <1>1, <1>3, <2>4 DEF Hopped, Attempts
  <2>8. QED
    BY <2>5, <2>6, <2>7 DEF GoodAttempt, Shows
<1>6. QED
  BY <1>4, <1>5 DEF Saying

\* A total a tool returned may be stated from then on.
LEMMA LearntIsGood ==
    ASSUME NEW t, GoodAttempt(t), NEW total \in Totals
    PROVE  GoodAttempt(Learnt(t, total)) /\ Learnt(t, total).cart = t.cart
<1>1. t \in Attempts /\ t.talk \in Transcripts
  BY DEF GoodAttempt, Attempts
<1>2. PICK known : known = t.talk.known \union ({total} \ {None})
  OBVIOUS
<1>3. known \in SUBSET Quotes
  BY <1>1, <1>2 DEF Transcripts, Totals
<1>4. PICK talked : talked = [t.talk EXCEPT !.known = known]
  OBVIOUS
<1>5. /\ talked \in Transcripts /\ talked.said = t.talk.said
      /\ talked.shown = t.talk.shown /\ talked.undone = t.talk.undone
  BY <1>1, <1>3, <1>4 DEF Transcripts
<1>6. Learnt(t, total) = [t EXCEPT !.talk = talked]
  BY <1>1, <1>2, <1>4 DEF Learnt, Attempts, Transcripts
<1>7. [t EXCEPT !.talk = talked] \in Attempts
  BY <1>1, <1>5 DEF Attempts
<1>8. QED
  BY <1>1, <1>5, <1>6, <1>7 DEF GoodAttempt, Attempts, Shows

\* An attempt that is good and replaces the one that runs leaves the rest as it was.
LEMMA AttemptKeeps ==
    ASSUME IInv, turn # NoTurn, NEW t, GoodAttempt(t), turn' = t,
           UNCHANGED <<inbox, gaveWay, cart, talk, written, heard, arrived, sale>>,
           faults' \in 0..MaxFaults
    PROVE  IInv'
<1>1. t \in Attempts /\ t.at = "model"
  BY DEF GoodAttempt, Attempts
<1>2. TypeOK'
  BY <1>1 DEF IInv, TypeOK
<1>3. Answered(t.batch)' /\ Answered(inbox)'
  BY DEF GoodAttempt, Answered, IInv
<1>4. GoodAttempt(turn)'
  BY DEF GoodAttempt, Answered
<1>5. GoodTurn'
  BY <1>1, <1>4 DEF GoodTurn, AllCross, IInv
<1>6. QED
  BY <1>2, <1>3, <1>5 DEF IInv, HeardIsSaid, OrdersAreAgreed

\* The yeses of two batches are those of the batch they make.
LEMMA YesesOfBoth ==
    ASSUME NEW a \in Seq(Messages), NEW b \in Seq(Messages)
    PROVE  Yeses(a \o b) = Yeses(a) \union Yeses(b)
<1>1. ASSUME NEW i \in DOMAIN (a \o b)
      PROVE  \/ i \in DOMAIN a /\ (a \o b)[i] = a[i]
             \/ i - Len(a) \in DOMAIN b /\ (a \o b)[i] = b[i - Len(a)]
  OBVIOUS
<1>2. \A i \in DOMAIN a : i \in DOMAIN (a \o b) /\ (a \o b)[i] = a[i]
  OBVIOUS
<1>3. \A i \in DOMAIN b : i + Len(a) \in DOMAIN (a \o b) /\ (a \o b)[i + Len(a)] = b[i]
  OBVIOUS
<1>4. Yeses(a \o b) \subseteq Yeses(a) \union Yeses(b)
  BY <1>1 DEF Yeses
<1>5. Yeses(a) \union Yeses(b) \subseteq Yeses(a \o b)
  BY <1>2, <1>3 DEF Yeses
<1>6. QED
  BY <1>4, <1>5

-----------------------------------------------------------------------------
(* The tools.                                                              *)

LEMMA AskingFacts ==
    ASSUME IInv, Asking
    PROVE  /\ turn # NoTurn /\ GoodAttempt(turn) /\ turn \in Attempts
           /\ Checkout \in Totals /\ CheckoutQuoted \in Totals
           /\ turn.cart # 0 => \A p \in Prices : Total(turn.cart, p) \in Quotes
<1>1. turn.at = "model" /\ GoodAttempt(turn)
  BY DEF Asking, IInv, GoodTurn
<1>2. turn \in Attempts
  BY <1>1 DEF GoodAttempt
<1>3. turn.cart \in 0..MaxQuantity /\ turn.snap \in Prices /\ turn.talk \in Transcripts
  BY <1>2 DEF Attempts
<1>4. Checkout \in Totals /\ \A p \in Prices : turn.cart # 0 => Total(turn.cart, p) \in Quotes
  BY <1>3, TotalIs DEF Checkout
<1>5. turn.talk.quote # Unasked => Head(turn.talk.quote) \in Totals
  BY <1>3 DEF Transcripts, Unasked
<1>6. CheckoutQuoted \in Totals
  BY <1>4, <1>5 DEF CheckoutQuoted
<1>7. turn # NoTurn
  BY <1>1 DEF NoTurn
<1>8. QED
  BY <1>1, <1>2, <1>4, <1>6, <1>7

LEMMA ToolsKeep ==
    ASSUME IInv, Asking, NEW t \in Saying(turn)
    PROVE  /\ GoodAttempt(t) /\ t.cart = turn.cart /\ t.snap = turn.snap
           /\ GoodAttempt([t EXCEPT !.wrote = TRUE])
           /\ GoodAttempt([t EXCEPT !.talk.quote = <<CheckoutQuoted>>])
           /\ \A n \in 0..MaxQuantity : GoodAttempt(Carried(t, n))
           /\ GoodAttempt(Undone(t))
<1>1. GoodAttempt(t) /\ t.cart = turn.cart /\ t.snap = turn.snap
  BY AskingFacts, SayingIsGood
<1>2. t \in Attempts /\ t.talk \in Transcripts
  BY <1>1 DEF GoodAttempt, Attempts
<1>3. GoodAttempt([t EXCEPT !.wrote = TRUE])
  BY <1>1, <1>2 DEF GoodAttempt, Attempts
<1>4. GoodAttempt([t EXCEPT !.talk.quote = <<CheckoutQuoted>>])
  <2>1. PICK q : q = CheckoutQuoted
    OBVIOUS
  <2>2. q \in Totals
    BY <2>1, AskingFacts
  <2>3. PICK talked : talked = [t.talk EXCEPT !.quote = <<q>>]
    OBVIOUS
  <2>4. /\ talked \in Transcripts /\ talked.said = t.talk.said
        /\ talked.shown = t.talk.shown /\ talked.undone = t.talk.undone
    BY <1>2, <2>2, <2>3 DEF Transcripts
  <2>5. [t EXCEPT !.talk.quote = <<q>>] = [t EXCEPT !.talk = talked]
    BY <1>2, <2>3 DEF Attempts, Transcripts
  <2>6. [t EXCEPT !.talk = talked] \in Attempts
    BY <1>2, <2>4 DEF Attempts
  <2>7. GoodAttempt([t EXCEPT !.talk = talked])
    BY <1>1, <1>2, <2>4, <2>6 DEF GoodAttempt, Attempts, Shows
  <2>8. QED
    BY <2>1, <2>5, <2>7
<1>5. ASSUME NEW n \in 0..MaxQuantity
      PROVE  GoodAttempt(Carried(t, n))
  <2>1. PICK talked : talked = [t.talk EXCEPT !.shown = n, !.undone = FALSE]
    OBVIOUS
  <2>2. talked \in Transcripts /\ talked.shown = n /\ talked.said = t.talk.said
    BY <1>2, <2>1 DEF Transcripts
  <2>3. Carried(t, n) = [t EXCEPT !.cart = n, !.talk = talked, !.wrote = TRUE]
    BY <1>2, <2>1 DEF Carried, Attempts, Transcripts
  <2>4. Carried(t, n) \in Attempts
    BY <1>2, <2>2, <2>3 DEF Attempts
  <2>5. /\ Carried(t, n).talk = talked /\ Carried(t, n).cart = n /\ Carried(t, n).wrote
        /\ Carried(t, n).before = t.before /\ Carried(t, n).batch = t.batch
        /\ Carried(t, n).arrived = t.arrived
    BY <1>2, <2>3 DEF Attempts
  <2>6. QED
    BY <1>1, <2>2, <2>4, <2>5 DEF GoodAttempt, Shows
<1>6. GoodAttempt(Undone(t))
  <2>1. PICK talked : talked = [t.talk EXCEPT !.undone = (t.talk.shown # cart)]
    OBVIOUS
  <2>2. /\ talked \in Transcripts /\ talked.shown = t.talk.shown
        /\ talked.said = t.talk.said /\ talked.undone = (t.talk.shown # cart)
    BY <1>2, <2>1 DEF Transcripts
  <2>3. Undone(t) = [t EXCEPT !.cart = cart, !.wrote = TRUE, !.talk = talked]
    BY <1>2, <2>1 DEF Undone, Attempts, Transcripts
  <2>4. cart \in 0..MaxQuantity
    BY DEF IInv, TypeOK
  <2>5. Undone(t) \in Attempts
    BY <1>2, <2>2, <2>3, <2>4 DEF Attempts
  <2>6. /\ Undone(t).talk = talked /\ Undone(t).cart = cart /\ Undone(t).wrote
        /\ Undone(t).before = t.before /\ Undone(t).batch = t.batch
        /\ Undone(t).arrived = t.arrived
    BY <1>2, <2>3 DEF Attempts
  <2>7. QED
    BY <1>1, <2>2, <2>5, <2>6 DEF GoodAttempt, Shows
<1>7. QED
  BY <1>1, <1>3, <1>4, <1>5, <1>6

\* What every call to a tool leaves alone.
LEMMA CallKeeps ==
    ASSUME IInv, Asking, NEW t, GoodAttempt(t), turn' = t,
           UNCHANGED <<inbox, gaveWay, cart, talk, boundVars, heard, arrived, sale>>
    PROVE  IInv'
<1>1. turn # NoTurn
  BY AskingFacts
<1>2. faults' \in 0..MaxFaults
  BY DEF boundVars, IInv, TypeOK
<1>3. UNCHANGED <<inbox, gaveWay, cart, talk, written, heard, arrived, sale>>
  BY DEF boundVars
<1>4. QED
  BY <1>1, <1>2, <1>3, AttemptKeeps

LEMMA GetShippingFeeInvariant == IInv /\ GetShippingFee => IInv'
<1> SUFFICES ASSUME IInv, GetShippingFee PROVE IInv'
  OBVIOUS
<1>1. /\ Asking
      /\ \E t \in Saying(turn) :
            turn' = Learnt([t EXCEPT !.talk.quote = <<CheckoutQuoted>>], CheckoutQuoted)
      /\ UNCHANGED <<inbox, gaveWay, cart, talk, boundVars, heard, arrived, sale>>
  BY DEF GetShippingFee, Calls
<1>2. PICK t \in Saying(turn) :
        turn' = Learnt([t EXCEPT !.talk.quote = <<CheckoutQuoted>>], CheckoutQuoted)
  BY <1>1
<1>3. GoodAttempt(Learnt([t EXCEPT !.talk.quote = <<CheckoutQuoted>>], CheckoutQuoted))
  BY <1>1, ToolsKeep, AskingFacts, LearntIsGood
<1>4. QED
  BY <1>1, <1>2, <1>3, CallKeeps

LEMMA CartInvariant ==
    IInv /\ (AddToCart \/ AddRefused \/ RemoveFromCart \/ ViewCart \/ Lookup) => IInv'
<1> SUFFICES ASSUME IInv, AddToCart \/ AddRefused \/ RemoveFromCart \/ ViewCart \/ Lookup
             PROVE  IInv'
  OBVIOUS
<1>1. Asking /\ UNCHANGED <<inbox, gaveWay, cart, talk, boundVars, heard, arrived, sale>>
  BY DEF AddToCart, AddRefused, RemoveFromCart, ViewCart, Lookup, Calls
<1>2. turn.cart \in 0..MaxQuantity /\ MaxQuantity \in Nat
  BY <1>1, AskingFacts, CheckoutAssumption DEF Attempts
<1>3. CASE AddToCart \/ RemoveFromCart \/ ViewCart
  <2>1. PICK n \in 0..MaxQuantity : \E t \in Saying(turn) : turn' = Carried(t, n)
    BY <1>2, <1>3 DEF AddToCart, RemoveFromCart, ViewCart, Calls
  <2>2. QED
    BY <1>1, <2>1, ToolsKeep, CallKeeps
<1>4. CASE AddRefused
  <2>1. \E t \in Saying(turn) : turn' = [t EXCEPT !.wrote = TRUE]
    BY <1>4 DEF AddRefused, Calls
  <2>2. QED
    BY <1>1, <2>1, ToolsKeep, CallKeeps
<1>5. CASE Lookup
  <2>1. \E t \in Saying(turn) : turn' = t
    BY <1>5 DEF Lookup, Calls
  <2>2. QED
    BY <1>1, <2>1, ToolsKeep, CallKeeps
<1>6. QED
  BY <1>3, <1>4, <1>5

LEMMA ConfirmKeeps == IInv /\ (ConfirmRefused \/ ConfirmFails) => IInv'
<1> SUFFICES ASSUME IInv, ConfirmRefused \/ ConfirmFails PROVE IInv'
  OBVIOUS
<1>1. Asking /\ UNCHANGED <<inbox, gaveWay, cart, talk, boundVars, heard, arrived, sale>>
  BY DEF ConfirmRefused, ConfirmFails, Calls
<1>2. CASE ConfirmRefused
  <2>1. PICK t \in Saying(turn) : turn' = Learnt([t EXCEPT !.wrote = TRUE], Checkout)
    BY <1>2 DEF ConfirmRefused, Calls
  <2>2. GoodAttempt(Learnt([t EXCEPT !.wrote = TRUE], Checkout))
    BY <1>1, ToolsKeep, AskingFacts, LearntIsGood
  <2>3. QED
    BY <1>1, <2>1, <2>2, CallKeeps
<1>3. CASE ConfirmFails
  <2>1. PICK t \in Saying(turn) : turn' = [t EXCEPT !.wrote = TRUE]
    BY <1>3 DEF ConfirmFails, Calls
  <2>2. QED
    BY <1>1, <2>1, ToolsKeep, CallKeeps
<1>4. QED
  BY <1>2, <1>3

LEMMA MoreFaults ==
    IInv /\ faults < MaxFaults /\ faults' = faults + 1 => faults' \in 0..MaxFaults
<1>1. IInv => faults \in 0..MaxFaults
  BY DEF IInv, TypeOK
<1>2. QED
  BY <1>1, CheckoutAssumption

\* What a failing `place_order` rolled back with its turn, the transcript shows as undone.
LEMMA RolledBackInvariant == IInv /\ ConfirmRolledBack => IInv'
<1> SUFFICES ASSUME IInv, ConfirmRolledBack PROVE IInv'
  OBVIOUS
<1>1. /\ Asking /\ faults' \in 0..MaxFaults
      /\ UNCHANGED <<inbox, gaveWay, cart, talk, written, heard, arrived, sale>>
  BY MoreFaults DEF ConfirmRolledBack
<1>2. PICK t \in Saying(turn) : turn' = Undone(t)
  BY DEF ConfirmRolledBack
<1>3. QED
  BY <1>1, <1>2, ToolsKeep, AskingFacts, AttemptKeeps

-----------------------------------------------------------------------------
(* An order.                                                               *)

\* A yes of the batch no reply crossed answered the total the order charges, if the
\* price has not moved and the words that stated it arrived.
LEMMA ChargedIsHeard ==
    ASSUME IInv, Asking, turn.cart # 0, AgreedTo(Checkout), arrived,
           NEW m \in Yeses(turn.batch), m.crossed = "nothing"
    PROVE  m.heard = Checkout
<1>1. turn.before = talk.said /\ Answered(turn.batch)
  BY AskingFacts DEF GoodAttempt
<1>2. turn.before = Checkout
  BY DEF AgreedTo
<1>3. Checkout # None
  BY AskingFacts, TotalIs DEF Checkout, Attempts
<1>4. QED
  BY <1>1, <1>2, <1>3 DEF Answered

\* The yeses of a batch that has its order are those of the batch, and cross nothing else.
LEMMA OrderedBatch ==
    ASSUME NEW a \in Seq(Messages), NEW b,
           b = [i \in DOMAIN a |-> [a[i] EXCEPT !.crossed = "an order"]]
    PROVE  b \in Seq(Messages) /\ AllCross(b)
<1>1. PICK n \in Nat : a \in [1..n -> Messages] /\ DOMAIN a = 1..n
  <2>1. a \in UNION {[1..n -> Messages] : n \in Nat}
    BY SeqDef
  <2>2. QED
    BY <2>1
<1>2. ASSUME NEW i \in DOMAIN a
      PROVE  b[i] \in Messages /\ b[i].crossed = "an order"
  <2>1. PICK m : m = a[i]
    OBVIOUS
  <2>2. m \in Messages
    BY <1>1, <1>2, <2>1
  <2>3. b[i] = [m EXCEPT !.crossed = "an order"]
    BY <1>2, <2>1
  <2>4. QED
    BY <2>2, <2>3 DEF Messages
<1>3. b \in [1..n -> Messages] /\ DOMAIN b = 1..n
  BY <1>1, <1>2
<1>4. b \in Seq(Messages)
  BY <1>3, SeqDef
<1>5. AllCross(b)
  BY <1>1, <1>2, <1>3 DEF AllCross, Yeses
<1>6. QED
  BY <1>4, <1>5

\* A transcript that ends with the confirmation.
LEMMA ConfirmedIs ==
    ASSUME NEW words \in Transcripts, NEW c \in Quotes
    PROVE  /\ Confirmed(words, c) \in Transcripts
           /\ Confirmed(words, c).said = c /\ Confirmed(words, c).shown = 0
           /\ Confirmed(words, c).known = words.known
<1>1. 0 \in 0..MaxQuantity /\ c \in Totals
  BY CheckoutAssumption DEF Totals
<1>2. QED
  BY <1>1 DEF Confirmed, Transcripts

\* An attempt whose order is committed.
LEMMA PlacedIsGood ==
    ASSUME NEW words \in Transcripts, NEW c \in Quotes, NEW a \in BOOLEAN,
           turn \in Attempts, words.shown = 0
    PROVE  /\ Placed(words, c, a) \in Placements
           /\ Placed(words, c, a).at = "placed" /\ Placed(words, c, a).arrived = a
           /\ Placed(words, c, a).talk.shown = 0
           /\ Placed(words, c, a).talk.said = words.said
           /\ AllCross(Placed(words, c, a).batch)
<1>1. PICK batch : batch = [i \in DOMAIN turn.batch |->
                               [turn.batch[i] EXCEPT !.crossed = "an order"]]
  OBVIOUS
<1>2. turn.batch \in Seq(Messages) /\ turn.tries \in 0..1
  BY DEF Attempts
<1>3. batch \in Seq(Messages) /\ AllCross(batch)
  BY <1>1, <1>2, OrderedBatch
<1>4. PICK known : known = [words EXCEPT !.known = words.known \union {c}]
  OBVIOUS
<1>5. known \in Transcripts /\ known.shown = 0 /\ known.said = words.said
  BY <1>4 DEF Transcripts
<1>6. Placed(words, c, a)
        = [at |-> "placed", tries |-> turn.tries, batch |-> batch, talk |-> known, arrived |-> a]
  BY <1>1, <1>4 DEF Placed, Transcripts
<1>7. QED
  BY <1>2, <1>3, <1>5, <1>6 DEF Placements

\* The order with its confirmation.
LEMMA ToldKeeps ==
    ASSUME IInv, turn.at = "model", NEW c \in Quotes, Told(c), cart' = 0
    PROVE  /\ talk' \in Transcripts /\ arrived' \in BOOLEAN /\ heard' \in Totals
           /\ faults' \in 0..MaxFaults
           /\ Shows(talk, cart)' /\ HeardIsSaid'
           /\ turn'.at = "placed" /\ GoodPlacement(turn)'
<1>1. turn \in Attempts /\ turn.talk \in Transcripts /\ talk \in Transcripts
  BY DEF IInv, GoodTurn, GoodAttempt, Attempts, TypeOK
<1>2. c \in Totals
  BY DEF Totals
<1>3. \/ arrived' = TRUE /\ heard' = c /\ faults' = faults
      \/ faults < MaxFaults /\ faults' = faults + 1 /\ arrived' = FALSE /\ heard' = heard
  BY DEF Told
<1>4. talk' \in Transcripts /\ talk'.said = c /\ talk'.shown = 0
  BY <1>1, ConfirmedIs DEF Told
<1>5. arrived' \in BOOLEAN /\ heard' \in Totals /\ faults' \in 0..MaxFaults
  BY <1>2, <1>3, MoreFaults DEF IInv, TypeOK
<1>6. PICK words : words = Confirmed(turn.talk, c)
  OBVIOUS
<1>7. words \in Transcripts /\ words.said = c /\ words.shown = 0
  BY <1>1, <1>6, ConfirmedIs
<1>8. turn' = Placed(words, c, arrived')
  BY <1>6 DEF Told
<1>9. PICK a \in BOOLEAN : a = arrived'
  BY <1>5
<1>10. PICK t : t = Placed(words, c, a)
  OBVIOUS
<1>11. /\ t \in Placements /\ t.at = "placed" /\ t.arrived = a
       /\ t.talk.shown = 0 /\ t.talk.said = c /\ AllCross(t.batch)
  BY <1>1, <1>7, <1>10, PlacedIsGood
<1>12. turn' = t
  BY <1>8, <1>9, <1>10
<1>13. GoodPlacement(turn)'
  BY <1>4, <1>9, <1>11, <1>12 DEF GoodPlacement, Shows, AllCross
<1>14. Shows(talk, cart)' /\ HeardIsSaid'
  BY <1>3, <1>4 DEF Shows, HeardIsSaid
<1>15. QED
  BY <1>4, <1>5, <1>11, <1>12, <1>13, <1>14

\* The order without one.
LEMMA UntoldKeeps ==
    ASSUME IInv, turn.at = "model", NEW c \in Quotes, Untold(c), cart' = 0
    PROVE  /\ talk' \in Transcripts /\ arrived' \in BOOLEAN /\ heard' \in Totals
           /\ faults' \in 0..MaxFaults
           /\ Shows(talk, cart)' /\ HeardIsSaid'
           /\ turn'.at = "placed" /\ GoodPlacement(turn)'
<1>1. /\ turn \in Attempts /\ turn.talk \in Transcripts /\ talk \in Transcripts
      /\ turn.arrived \in BOOLEAN
      /\ turn.arrived => arrived /\ turn.talk.said = talk.said
  BY DEF IInv, GoodTurn, GoodAttempt, Attempts, TypeOK
<1>2. arrived' = arrived /\ heard' = heard /\ faults < MaxFaults /\ faults' = faults + 1
  BY DEF Untold
<1>3. talk' = [talk EXCEPT !.undone = talk.shown # 0]
  BY DEF Untold
<1>4. /\ talk' \in Transcripts /\ talk'.said = talk.said
      /\ talk'.shown = 0 \/ talk'.undone
  BY <1>1, <1>3 DEF Transcripts
<1>5. arrived' \in BOOLEAN /\ heard' \in Totals /\ faults' \in 0..MaxFaults
  BY <1>2, MoreFaults DEF IInv, TypeOK
<1>6. PICK words : words = [turn.talk EXCEPT !.shown = 0, !.undone = FALSE]
  OBVIOUS
<1>7. words \in Transcripts /\ words.said = turn.talk.said /\ words.shown = 0
  <2>1. 0 \in 0..MaxQuantity
    BY CheckoutAssumption
  <2>2. QED
    BY <1>1, <1>6, <2>1 DEF Transcripts
<1>8. PICK t : t = Placed(words, c, turn.arrived)
  OBVIOUS
<1>9. /\ t \in Placements /\ t.at = "placed" /\ t.arrived = turn.arrived
      /\ t.talk.shown = 0 /\ t.talk.said = turn.talk.said /\ AllCross(t.batch)
  BY <1>1, <1>7, <1>8, PlacedIsGood
<1>10. turn' = t
  BY <1>6, <1>8 DEF Untold
<1>11. GoodPlacement(turn)'
  BY <1>1, <1>2, <1>4, <1>9, <1>10 DEF GoodPlacement, Shows, AllCross
<1>12. Shows(talk, cart)' /\ HeardIsSaid'
  BY <1>2, <1>4 DEF Shows, HeardIsSaid, IInv
<1>13. QED
  BY <1>4, <1>5, <1>9, <1>10, <1>11, <1>12

LEMMA ConfirmPlacesInvariant == IInv /\ ConfirmPlaces => IInv'
<1> SUFFICES ASSUME IInv, ConfirmPlaces PROVE IInv'
  OBVIOUS
<1>1. Asking /\ turn.cart # 0 /\ AgreedTo(Checkout)
  BY DEF ConfirmPlaces
<1>2. PICK p \in Prices : LET charged == Total(turn.cart, p)
       IN  /\ sale' = [charged |-> charged,
                       heard |-> {m.heard : m \in Yeses(turn.batch)},
                       moved |-> turn.snap # p,
                       crossed |-> \A m \in Yeses(turn.batch) : m.crossed # "nothing",
                       spent |-> \A m \in Yeses(turn.batch) : m.crossed = "an order",
                       arrived |-> arrived,
                       no |-> EndsWithNo(turn.batch)]
           /\ Told(charged) \/ Untold(charged)
  BY DEF ConfirmPlaces
<1>3. PICK c : c = Total(turn.cart, p)
  OBVIOUS
<1>4. c \in Quotes /\ c \in Totals
  BY <1>1, <1>3, AskingFacts DEF Totals
<1>5. turn \in Attempts /\ turn.talk \in Transcripts /\ turn.batch \in Seq(Messages)
  BY <1>1, AskingFacts DEF Attempts
<1>6. cart' = 0 /\ gaveWay' = gaveWay /\ inbox' = inbox /\ written' = written
  BY DEF ConfirmPlaces
<1>7. Told(c) \/ Untold(c)
  BY <1>2, <1>3
<1>8. /\ talk' \in Transcripts /\ arrived' \in BOOLEAN /\ heard' \in Totals
      /\ faults' \in 0..MaxFaults
      /\ Shows(talk, cart)' /\ HeardIsSaid'
      /\ turn'.at = "placed" /\ GoodPlacement(turn)'
  BY <1>1, <1>4, <1>6, <1>7, ToldKeeps, UntoldKeeps DEF Asking
<1>9. sale' \in Sales /\ sale'.charged = c
  <2>1. sale' = [charged |-> c, heard |-> {m.heard : m \in Yeses(turn.batch)},
                 moved |-> turn.snap # p,
                 crossed |-> \A m \in Yeses(turn.batch) : m.crossed # "nothing",
                 spent |-> \A m \in Yeses(turn.batch) : m.crossed = "an order",
                 arrived |-> arrived, no |-> EndsWithNo(turn.batch)]
    BY <1>2, <1>3
  <2>2. {m.heard : m \in Yeses(turn.batch)} \in SUBSET Totals
    <3>1. \A i \in DOMAIN turn.batch : turn.batch[i] \in Messages
      BY <1>5
    <3>2. \A m \in Yeses(turn.batch) : m \in Messages
      BY <3>1 DEF Yeses
    <3>3. QED
      BY <3>2 DEF Messages
  <2>3. EndsWithNo(turn.batch) \in BOOLEAN /\ arrived \in BOOLEAN
    BY DEF EndsWithNo, IInv, TypeOK
  <2>4. QED
    BY <2>1, <2>2, <2>3, <1>4 DEF Sales
<1>10. TypeOK'
  <2>1. 0 \in 0..MaxQuantity
    BY CheckoutAssumption
  <2>2. QED
    BY <1>6, <1>8, <1>9, <2>1 DEF IInv, TypeOK, GoodPlacement
<1>11. OrdersAreAgreed'
  <2>1. SUFFICES ASSUME ~sale'.moved, sale'.arrived, ~sale'.crossed
                 PROVE  sale'.charged \in sale'.heard
    BY DEF OrdersAreAgreed
  <2>2. turn.snap = p /\ arrived /\ ~\A m \in Yeses(turn.batch) : m.crossed # "nothing"
    BY <1>2, <2>1
  <2>3. PICK m \in Yeses(turn.batch) : m.crossed = "nothing"
    BY <2>2
  <2>4. m.heard = Checkout
    BY <1>1, <2>2, <2>3, ChargedIsHeard
  <2>5. c = Checkout
    BY <1>3, <2>2 DEF Checkout
  <2>6. sale'.heard = {n.heard : n \in Yeses(turn.batch)}
    BY <1>2
  <2>7. QED
    BY <1>9, <2>3, <2>4, <2>5, <2>6
<1>12. AllCross(inbox)
  BY <1>1, AskingFacts DEF IInv, GoodTurn
<1>13. Answered(inbox)' /\ AllCross(inbox)'
  BY <1>6, <1>12 DEF AllCross, Answered
<1>14. GoodTurn'
  BY <1>8, <1>13 DEF GoodTurn
<1>15. QED
  BY <1>8, <1>10, <1>11, <1>13, <1>14 DEF IInv

\* The turn's own transcript is saved after it.
LEMMA SavePlacedInvariant == IInv /\ SavePlaced => IInv'
<1> SUFFICES ASSUME IInv, SavePlaced PROVE IInv'
  OBVIOUS
<1>1. /\ turn.at = "placed" /\ talk' = turn.talk /\ arrived' = turn.arrived
      /\ turn' = NoTurn /\ gaveWay' = 0
      /\ UNCHANGED <<inbox, cart, boundVars, heard, sale>>
  BY DEF SavePlaced
<1>2. GoodPlacement(turn) /\ AllCross(inbox)
  BY <1>1 DEF IInv, GoodTurn, NoTurn
<1>3. TypeOK'
  <2>1. 0 \in 0..MaxSupersedes /\ turn.talk \in Transcripts /\ turn.arrived \in BOOLEAN
    BY <1>2, CheckoutAssumption DEF GoodPlacement, Placements
  <2>2. QED
    BY <1>1, <2>1 DEF IInv, TypeOK, boundVars
<1>4. Shows(talk, cart)' /\ HeardIsSaid'
  BY <1>1, <1>2 DEF IInv, GoodPlacement, Shows, HeardIsSaid
<1>5. Answered(inbox)'
  BY <1>1, <1>2 DEF Answered, AllCross
<1>6. GoodTurn'
  BY <1>1 DEF GoodTurn, NoTurn
<1>7. QED
  BY <1>1, <1>3, <1>4, <1>5, <1>6 DEF IInv, OrdersAreAgreed

-----------------------------------------------------------------------------
(* How a turn ends.                                                        *)

\* A turn that is committed, its words on their way.
LEMMA EndsKeeps ==
    ASSUME IInv, turn.at = "model", NEW saved, NEW tells \in Totals, NEW stored \in BOOLEAN,
           Ends(saved, tells, stored), faults' \in 0..MaxFaults,
           saved \in Transcripts,
           saved.shown = turn.talk.shown, saved.undone = turn.talk.undone,
           stored => tells = saved.said,
           ~stored => tells = None /\ saved.said = turn.talk.said
    PROVE  IInv'
<1>1. GoodAttempt(turn) /\ turn \in Attempts /\ turn # NoTurn
  BY DEF IInv, GoodTurn, GoodAttempt, NoTurn
<1>2. /\ cart' = turn.cart /\ talk' = saved /\ arrived' = (~stored /\ turn.arrived)
      /\ turn' = [at |-> "sending", tells |-> tells, stored |-> stored] /\ gaveWay' = 0
      /\ inbox' = inbox /\ written' = written /\ heard' = heard /\ sale' = sale
  BY DEF Ends
<1>3. turn' \in Sendings /\ turn'.at = "sending"
  BY <1>2 DEF Sendings
<1>4. TypeOK'
  <2>1. 0 \in 0..MaxSupersedes /\ arrived' \in BOOLEAN /\ turn.cart \in 0..MaxQuantity
    BY <1>1, <1>2, CheckoutAssumption DEF Attempts
  <2>2. QED
    BY <1>2, <1>3, <2>1 DEF IInv, TypeOK
<1>5. Shows(talk, cart)'
  BY <1>1, <1>2 DEF GoodAttempt, Shows
<1>6. HeardIsSaid'
  <2>1. SUFFICES ASSUME arrived', talk'.said # None
                 PROVE  heard' = talk'.said
    BY DEF HeardIsSaid
  <2>2. ~stored /\ arrived /\ saved.said = talk.said
    BY <1>1, <1>2, <2>1 DEF GoodAttempt
  <2>3. QED
    BY <1>2, <2>1, <2>2 DEF IInv, HeardIsSaid
<1>7. Answered(inbox)' /\ AllCross(inbox)'
  BY <1>1, <1>2 DEF IInv, GoodTurn, AllCross, Answered
<1>8. GoodTurn'
  <2>1. GoodSending(turn)'
    BY <1>2, <1>3 DEF GoodSending
  <2>2. QED
    BY <1>3, <1>7, <2>1 DEF GoodTurn
<1>9. QED
  BY <1>2, <1>4, <1>5, <1>6, <1>7, <1>8 DEF IInv, OrdersAreAgreed

\* Words a turn ends with, and stores.
LEMMA AnswersKeeps ==
    ASSUME IInv, turn.at = "model", NEW total \in Totals, Answers(total), UNCHANGED faults
    PROVE  IInv'
<1>1. turn.talk \in Transcripts
  BY DEF IInv, GoodTurn, GoodAttempt, Attempts
<1>2. PICK saved : saved = [turn.talk EXCEPT !.said = total]
  OBVIOUS
<1>3. /\ saved \in Transcripts /\ saved.said = total
      /\ saved.shown = turn.talk.shown /\ saved.undone = turn.talk.undone
  BY <1>1, <1>2 DEF Transcripts
<1>4. Ends(saved, total, TRUE)
  BY <1>2 DEF Answers
<1>5. faults' \in 0..MaxFaults
  BY DEF IInv, TypeOK
<1>6. QED
  BY <1>3, <1>4, <1>5, EndsKeeps

LEMMA ReplyInvariant == IInv /\ (Reply \/ Fallback \/ Exhausted) => IInv'
<1> SUFFICES ASSUME IInv, Reply \/ Fallback \/ Exhausted PROVE IInv'
  OBVIOUS
<1>1. turn.at = "model" /\ UNCHANGED faults
  BY DEF Reply, Fallback, Exhausted, Asking
<1>2. None \in Totals /\ MayState \subseteq Totals
  BY <1>1 DEF Totals, MayState, IInv, GoodTurn, GoodAttempt, Attempts, Transcripts
<1>3. \E total \in Totals : Answers(total)
  BY <1>2 DEF Reply, Fallback, Exhausted
<1>4. QED
  BY <1>1, <1>3, AnswersKeeps

LEMMA ProviderFailsInvariant == IInv /\ ProviderFails => IInv'
<1> SUFFICES ASSUME IInv, ProviderFails PROVE IInv'
  OBVIOUS
<1>1. turn.at = "model" /\ faults' \in 0..MaxFaults /\ Ends(turn.talk, None, FALSE)
  BY MoreFaults DEF ProviderFails, Asking
<1>2. turn.talk \in Transcripts /\ None \in Totals
  BY <1>1 DEF IInv, GoodTurn, GoodAttempt, Attempts, Totals
<1>3. QED
  BY <1>1, <1>2, EndsKeeps

LEMMA AgainInvariant == IInv /\ (SentBack \/ CutOff) => IInv'
<1> SUFFICES ASSUME IInv, SentBack \/ CutOff PROVE IInv'
  OBVIOUS
<1>1. Asking /\ Again
  BY DEF SentBack, CutOff
<1>2. GoodAttempt(turn) /\ turn \in Attempts /\ turn.hops < LoopCap
  BY <1>1, AskingFacts DEF Asking
<1>3. /\ turn.retries < RetryLimit /\ turn' = [Hopped(turn) EXCEPT !.retries = @ + 1]
      /\ UNCHANGED <<inbox, gaveWay, cart, talk, boundVars, heard, arrived, sale>>
  BY <1>1 DEF Again
<1>4. turn.hops + 1 \in 0..LoopCap /\ turn.retries + 1 \in 0..RetryLimit
  BY <1>2, <1>3, CheckoutAssumption DEF Attempts
<1>5. turn' = [turn EXCEPT !.hops = turn.hops + 1, !.retries = turn.retries + 1]
  BY <1>2, <1>3 DEF Hopped, Attempts
<1>6. turn' \in Attempts
  BY <1>2, <1>4, <1>5 DEF Attempts
<1>7. PICK t : t = turn'
  OBVIOUS
<1>8. t \in Attempts
  BY <1>6, <1>7
<1>9. /\ t.talk = turn.talk /\ t.cart = turn.cart /\ t.wrote = turn.wrote
      /\ t.before = turn.before /\ t.arrived = turn.arrived /\ t.batch = turn.batch
  BY <1>2, <1>5, <1>7 DEF Attempts
<1>10. GoodAttempt(t)
  BY <1>2, <1>8, <1>9 DEF GoodAttempt
<1>11. QED
  BY <1>1, <1>3, <1>7, <1>10, CallKeeps

\* A batch that was dropped is the next turn's: nothing was written, nothing was said.
LEMMA DropInvariant == IInv /\ Drop => IInv'
<1> SUFFICES ASSUME IInv, Drop PROVE IInv'
  OBVIOUS
<1>1. Asking /\ ~turn.wrote /\ inbox # <<>> /\ gaveWay < MaxSupersedes
  BY DEF Drop, Superseded
<1>2. /\ inbox' = turn.batch \o inbox /\ gaveWay' = gaveWay + 1 /\ cart' = turn.cart
      /\ turn' = NoTurn /\ UNCHANGED <<talk, boundVars, heard, arrived, sale>>
  BY DEF Drop
<1>3. GoodAttempt(turn) /\ turn \in Attempts
  BY <1>1, AskingFacts
<1>4. cart' = cart
  BY <1>1, <1>2, <1>3 DEF GoodAttempt
<1>5. turn.batch \in Seq(Messages) /\ inbox \in Seq(Messages)
  BY <1>3 DEF Attempts, IInv, TypeOK
<1>6. TypeOK'
  <2>1. gaveWay' \in 0..MaxSupersedes
    <3>1. gaveWay \in 0..MaxSupersedes
      BY DEF IInv, TypeOK
    <3>2. QED
      BY <1>1, <1>2, <3>1, CheckoutAssumption
  <2>2. inbox' \in Seq(Messages)
    BY <1>2, <1>5
  <2>3. QED
    BY <1>2, <1>4, <2>1, <2>2 DEF IInv, TypeOK, boundVars
<1>7. Answered(inbox)'
  <2>1. Yeses(turn.batch \o inbox) = Yeses(turn.batch) \union Yeses(inbox)
    BY <1>5, YesesOfBoth
  <2>2. Answered(turn.batch) /\ Answered(inbox)
    BY <1>3 DEF GoodAttempt, IInv
  <2>3. QED
    BY <1>2, <2>1, <2>2 DEF Answered
<1>8. GoodTurn'
  BY <1>2 DEF GoodTurn, NoTurn
<1>9. QED
  BY <1>2, <1>4, <1>6, <1>7, <1>8 DEF IInv, HeardIsSaid, OrdersAreAgreed

LEMMA SendInvariant == IInv /\ Send => IInv'
<1> SUFFICES ASSUME IInv, Send PROVE IInv'
  OBVIOUS
<1>1. /\ turn.at = "sending" /\ turn' = NoTurn
      /\ UNCHANGED <<inbox, gaveWay, cart, talk, written, sale>>
      /\ \/ /\ heard' = IF turn.tells = None THEN heard ELSE turn.tells
            /\ arrived' = (turn.stored \/ arrived) /\ faults' = faults
         \/ /\ faults < MaxFaults /\ faults' = faults + 1
            /\ heard' = heard /\ arrived' = arrived
  BY DEF Send
<1>2. GoodSending(turn) /\ turn \in Sendings /\ AllCross(inbox)
  BY <1>1 DEF IInv, GoodTurn, GoodSending, NoTurn
<1>3. TypeOK'
  <2>1. heard' \in Totals /\ arrived' \in BOOLEAN
    BY <1>1, <1>2 DEF IInv, TypeOK, Sendings
  <2>2. faults' \in 0..MaxFaults
    BY <1>1, MoreFaults DEF IInv, TypeOK
  <2>3. QED
    BY <1>1, <2>1, <2>2 DEF IInv, TypeOK
<1>4. HeardIsSaid'
  BY <1>1, <1>2 DEF IInv, HeardIsSaid, GoodSending, Sendings
<1>5. Answered(inbox)' /\ GoodTurn'
  BY <1>1, <1>2 DEF AllCross, Answered, GoodTurn, NoTurn
<1>6. QED
  BY <1>1, <1>3, <1>4, <1>5 DEF IInv, OrdersAreAgreed

-----------------------------------------------------------------------------
(* How a turn begins, and begins again.                                    *)

\* A fresh attempt's copies are what is committed.
LEMMA AttemptIsGood ==
    ASSUME IInv, NEW batch \in Seq(Messages), Answered(batch), NEW tries \in 0..1,
           NEW p \in Prices
    PROVE  GoodAttempt(Attempt(batch, tries, p))
<1>1. /\ talk \in Transcripts /\ talk.said \in Totals /\ cart \in 0..MaxQuantity
      /\ arrived \in BOOLEAN /\ Shows(talk, cart)
  BY DEF IInv, TypeOK, Transcripts
<1>2. 0 \in 0..LoopCap /\ 0 \in 0..RetryLimit
  BY CheckoutAssumption
<1>3. Attempt(batch, tries, p) \in Attempts
  BY <1>1, <1>2 DEF Attempt, Attempts
<1>4. QED
  BY <1>1, <1>3 DEF GoodAttempt, Attempt

LEMMA BeginTurnInvariant == IInv /\ BeginTurn => IInv'
<1> SUFFICES ASSUME IInv, BeginTurn PROVE IInv'
  OBVIOUS
<1>1. /\ inbox' = <<>> /\ sale' = NoSale
      /\ UNCHANGED <<gaveWay, cart, talk, boundVars, heard, arrived>>
  BY DEF BeginTurn
<1>2. PICK p \in Prices : turn' = Attempt(inbox, 0, p)
  BY DEF BeginTurn, Shelf
<1>3. PICK t : t = Attempt(inbox, 0, p)
  OBVIOUS
<1>4. GoodAttempt(t)
  BY <1>3, AttemptIsGood DEF IInv, TypeOK
<1>5. turn' = t /\ t \in Attempts
  BY <1>2, <1>3, <1>4 DEF GoodAttempt
<1>6. TypeOK'
  BY <1>1, <1>5 DEF IInv, TypeOK, boundVars
<1>7. GoodAttempt(turn)'
  BY <1>1, <1>4, <1>5 DEF GoodAttempt, Answered
<1>8. Yeses(<<>>) = {}
  BY DEF Yeses
<1>9. Answered(inbox)' /\ AllCross(inbox)'
  BY <1>1, <1>8 DEF Answered, AllCross
<1>10. turn'.at = "model"
  BY <1>5 DEF Attempts
<1>11. GoodTurn'
  BY <1>7, <1>9, <1>10 DEF GoodTurn
<1>12. QED
  BY <1>1, <1>6, <1>9, <1>11 DEF IInv, HeardIsSaid, OrdersAreAgreed

LEMMA CrashInvariant == IInv /\ Crash => IInv'
<1> SUFFICES ASSUME IInv, Crash PROVE IInv'
  OBVIOUS
<1>1. turn.at \in {"model", "placed"} /\ faults' \in 0..MaxFaults
  BY MoreFaults DEF Crash
<1>2. UNCHANGED <<inbox, cart, talk, written, heard, arrived, sale>>
  BY DEF Crash
<1>3. turn # NoTurn /\ turn.batch \in Seq(Messages) /\ Answered(turn.batch)
  BY <1>1 DEF IInv, GoodTurn, GoodAttempt, GoodPlacement, Attempts, Placements, NoTurn,
     AllCross, Answered
<1>4. CASE turn.tries = 0
  <2>1. PICK p \in Prices : turn' = Attempt(turn.batch, 1, p)
    BY <1>4 DEF Crash, Shelf
  <2>3. GoodAttempt(Attempt(turn.batch, 1, p))
    BY <1>3, AttemptIsGood
  <2>4. gaveWay' = gaveWay
    BY <1>4 DEF Crash
  <2>5. QED
    BY <1>1, <1>2, <1>3, <2>1, <2>3, <2>4, AttemptKeeps
<1>5. CASE turn.tries # 0
  <2>1. turn' = [at |-> "sending", tells |-> None, stored |-> FALSE] /\ gaveWay' = 0
    BY <1>5 DEF Crash
  <2>2. turn' \in Sendings /\ 0 \in 0..MaxSupersedes
    BY <2>1, CheckoutAssumption DEF Sendings, Totals
  <2>3. TypeOK'
    BY <1>1, <1>2, <2>1, <2>2 DEF IInv, TypeOK
  <2>4. GoodSending(turn)'
    BY <2>1, <2>2 DEF GoodSending
  <2>5. AllCross(inbox)'
    BY <1>2, <1>3 DEF IInv, GoodTurn, AllCross
  <2>6. GoodTurn'
    BY <2>1, <2>4, <2>5 DEF GoodTurn
  <2>7. QED
    BY <1>2, <2>3, <2>6 DEF IInv, HeardIsSaid, Answered, OrdersAreAgreed
<1>6. QED
  BY <1>4, <1>5

-----------------------------------------------------------------------------
(* The customer.                                                           *)

\* The yeses of a batch are those of the batch before its last message, and that one.
LEMMA YesesOfMore ==
    ASSUME NEW a \in Seq(Messages), NEW m \in Messages
    PROVE  \A n \in Yeses(Append(a, m)) : n \in Yeses(a) \/ (n = m /\ m.says = "yes")
<1>1. \A i \in DOMAIN Append(a, m) :
        \/ i \in DOMAIN a /\ Append(a, m)[i] = a[i]
        \/ Append(a, m)[i] = m
  OBVIOUS
<1>2. SUFFICES ASSUME NEW n \in Yeses(Append(a, m))
               PROVE  n \in Yeses(a) \/ (n = m /\ m.says = "yes")
  OBVIOUS
<1>3. PICK i \in DOMAIN Append(a, m) : n = Append(a, m)[i] /\ n.says = "yes"
  BY DEF Yeses
<1>4. CASE n = m
  BY <1>3, <1>4
<1>5. CASE i \in DOMAIN a /\ n = a[i]
  BY <1>3, <1>5 DEF Yeses
<1>6. QED
  BY <1>1, <1>3, <1>4, <1>5

LEMMA WriteInvariant == IInv /\ Write => IInv'
<1> SUFFICES ASSUME IInv, Write PROVE IInv'
  OBVIOUS
<1>1. /\ written < MaxMessages /\ written' = written + 1
      /\ UNCHANGED <<gaveWay, cart, talk, turn, faults, heard, arrived, sale>>
  BY DEF Write
<1>2. PICK m : /\ m \in Messages /\ inbox' = Append(inbox, m)
               /\ m.says = "yes" => m.heard = heard /\ (m.crossed = "nothing" <=> turn = NoTurn)
  <2>1. PICK says \in {"yes", "no", "other"} :
            inbox' = Append(inbox, [says |-> says,
                                    heard |-> IF says = "yes" THEN heard ELSE None,
                                    crossed |-> IF says = "yes" /\ turn # NoTurn
                                                THEN "a reply" ELSE "nothing"])
    BY DEF Write
  <2>2. PICK m : m = [says |-> says, heard |-> IF says = "yes" THEN heard ELSE None,
                      crossed |-> IF says = "yes" /\ turn # NoTurn
                                    THEN "a reply" ELSE "nothing"]
    OBVIOUS
  <2>3. heard \in Totals /\ None \in Totals
    BY DEF IInv, TypeOK, Totals
  <2>4. m \in Messages
    BY <2>2, <2>3 DEF Messages
  <2>5. m.says = "yes" => m.heard = heard /\ (m.crossed = "nothing" <=> turn = NoTurn)
    <3>1. m.says = says
      BY <2>2
    <3>2. CASE says = "yes"
      <4>1. m.heard = heard /\ m.crossed = IF turn # NoTurn THEN "a reply" ELSE "nothing"
        BY <2>2, <3>2
      <4>2. QED
        BY <4>1
    <3>3. QED
      BY <3>1, <3>2
  <2>6. QED
    BY <2>1, <2>2, <2>4, <2>5
<1>3. inbox \in Seq(Messages)
  BY DEF IInv, TypeOK
<1>4. TypeOK'
  <2>1. written' \in 0..MaxMessages
    <3>1. written \in 0..MaxMessages
      BY DEF IInv, TypeOK
    <3>2. QED
      BY <1>1, <3>1, CheckoutAssumption
  <2>2. inbox' \in Seq(Messages)
    BY <1>2, <1>3
  <2>3. QED
    BY <1>1, <2>1, <2>2 DEF IInv, TypeOK
<1>5. \A n \in Yeses(inbox') : n \in Yeses(inbox) \/ (n = m /\ m.says = "yes")
  BY <1>2, <1>3, YesesOfMore
<1>6. Answered(inbox)'
  <2>1. SUFFICES ASSUME NEW n \in Yeses(inbox'), arrived, talk.said # None, n.crossed = "nothing"
                 PROVE  n.heard = talk.said
    BY <1>1 DEF Answered
  <2>2. CASE n \in Yeses(inbox)
    BY <2>1, <2>2 DEF IInv, Answered
  <2>3. CASE n = m /\ m.says = "yes"
    BY <1>2, <2>1, <2>3 DEF IInv, HeardIsSaid
  <2>4. QED
    BY <1>5, <2>2, <2>3
<1>7. GoodTurn'
  <2>1. turn # NoTurn => AllCross(inbox')
    BY <1>2, <1>5 DEF IInv, GoodTurn, AllCross
  <2>2. turn.at = "model" => GoodAttempt(turn)'
    BY <1>1 DEF IInv, GoodTurn, GoodAttempt, Answered
  <2>3. turn.at = "sending" => GoodSending(turn)'
    BY <1>1 DEF IInv, GoodTurn, GoodSending
  <2>4. turn.at = "placed" => GoodPlacement(turn)'
    BY <1>1 DEF IInv, GoodTurn, GoodPlacement, AllCross
  <2>5. QED
    BY <1>1, <2>1, <2>2, <2>3, <2>4 DEF GoodTurn, AllCross
<1>8. QED
  BY <1>1, <1>4, <1>6, <1>7 DEF IInv, HeardIsSaid, OrdersAreAgreed

-----------------------------------------------------------------------------
(* The theorems.                                                           *)

LEMMA InitInvariant == Init => IInv
<1> SUFFICES ASSUME Init PROVE IInv
  OBVIOUS
<1>1. /\ 0 \in 0..MaxSupersedes /\ 0 \in 0..MaxQuantity
      /\ 0 \in 0..MaxMessages /\ 0 \in 0..MaxFaults
  BY CheckoutAssumption
<1>2. talk \in Transcripts
  BY <1>1 DEF Init, Transcripts, Totals, Unasked, None
<1>3. TypeOK
  BY <1>1, <1>2 DEF Init, TypeOK, Totals, None
<1>4. Yeses(<<>>) = {}
  BY DEF Yeses
<1>5. Answered(inbox) /\ GoodTurn
  BY <1>4 DEF Init, Answered, GoodTurn, NoTurn
<1>6. QED
  BY <1>3, <1>5 DEF Init, IInv, Shows, HeardIsSaid, OrdersAreAgreed

LEMMA NextInvariant == IInv /\ [Next]_vars => IInv'
<1> SUFFICES ASSUME IInv, [Next]_vars PROVE IInv'
  OBVIOUS
<1>1. CASE UNCHANGED vars
  BY <1>1 DEF vars, boundVars, IInv, TypeOK, HeardIsSaid, Answered, GoodTurn, GoodAttempt,
     GoodPlacement, GoodSending, AllCross, Shows, OrdersAreAgreed
<1>2. CASE Write
  BY <1>2, WriteInvariant
<1>3. CASE BeginTurn
  BY <1>3, BeginTurnInvariant
<1>4. CASE TurnStep
  BY <1>4, GetShippingFeeInvariant, CartInvariant, ConfirmKeeps, RolledBackInvariant,
     ConfirmPlacesInvariant, SavePlacedInvariant, DropInvariant, ReplyInvariant, AgainInvariant, ProviderFailsInvariant, CrashInvariant,
     SendInvariant DEF TurnStep
<1>5. QED
  BY <1>1, <1>2, <1>3, <1>4 DEF Next

\* The inductive invariant: a turn's copies, the words that arrived and the yeses
\* that wait agree about the last total stated.
THEOREM Invariant == Spec => []IInv
<1>1. Init => IInv
  BY InitInvariant
<1>2. IInv /\ [Next]_vars => IInv'
  BY NextInvariant
<1>3. QED
  BY <1>1, <1>2, PTL DEF Spec

\* The loop, the retries, the cart and the batches keep their bounds (run_turn's
\* hops, MAX_REPLY_RETRIES, max_quantity_per_line, MAX_SUPERSEDES).
THEOREM TypeCorrect == Spec => []TypeOK
<1>1. IInv => TypeOK
  BY DEF IInv
<1>2. QED
  BY <1>1, Invariant, PTL

\* Whatever was dropped unsent, rolled back, run again, committed half way or given up
\* on, the next turn's model is shown the cart that is there (READ_ONLY_TOOLS,
\* turn_retry), unless a failing `place_order` undid the call that shows it.
THEOREM TranscriptIsTrue == Spec => []TranscriptMatchesCart
<1>1. IInv => TranscriptMatchesCart
  BY DEF IInv, Shows, TranscriptMatchesCart
<1>2. QED
  BY <1>1, Invariant, PTL

\* `_not_yet_agreed`: an order charges a total that had reached the customer when they
\* said yes, but for a price that moved since, last words that never arrived, or a yes
\* that crossed a reply or has its order.
THEOREM AgreedTotals == Spec => []OrdersAreAgreed
<1>1. IInv => OrdersAreAgreed
  BY DEF IInv
<1>2. QED
  BY <1>1, Invariant, PTL

-----------------------------------------------------------------------------
(* The mirror: what holds in every reachable state.                        *)

\* The steps each kind of job goes through.
JobAt(j) ==
    \/ j = Idle
    \/ j.do = "create" /\ j.at \in {"fill", "finish", "unmake", "flush", "commit"}
    \/ j.do = "import" /\ j.at \in {"detail", "decide", "row", "push", "flush", "commit"}
    \/ j.do = "sweep" /\ j.at \in {"list", "detail", "decide", "row", "push", "flush"}
    \/ j.do \in {"delete", "size", "archive"} /\ j.at \in {"strike", "write", "commit"}
    \/ j.do = "reconcile" /\ j.at \in {"rows", "each", "strike", "write", "commit"}

\* A job that takes something away, and one that has a product of Shopify in hand.
Takes(j) == j.do \in {"delete", "size", "archive", "reconcile"}
Holds(j) == j.at \in {"fill", "finish", "unmake", "decide", "row", "push", "flush"}

\* What the fields of a job say to each other, whoever else steps.
JobShape(j) ==
    /\ DOMAIN j = DOMAIN Idle
    /\ JobAt(j)
    /\ Holds(j) => j.gid \in Gids
    /\ DOMAIN j.sku \subseteq Sizes
    /\ j.put \subseteq Ids \X Sizes
    /\ j.do = "import" => j.gid \in Gids
    /\ j.do = "sweep" => j.todo \subseteq Gids
    /\ Takes(j) => j.put = {} /\ j.gid = NoProduct
    /\ ~Takes(j) => j.drop = {} /\ j.shed = {} /\ j.shelve = {} /\ j.struck = {}
    /\ j.do = "create" /\ j.at # "commit" => j.put = {}
    /\ j.at \in {"fill", "finish", "row", "push", "flush"} =>
          /\ j.id \in Ids
          /\ DOMAIN j.sku # {} /\ \A s \in DOMAIN j.sku : j.sku[s] = j.id
    /\ j.at \in {"strike", "write"} => \A v \in j.known : v[1] = j.id
    /\ j.do = "size" => \A u, v \in j.known : u = v
    /\ j.do = "archive" \/ j.at = "rows" => j.struck = {}
    /\ j.at = "rows" => j.shed = {} /\ j.shelve = {}
    /\ j.shed \cap j.shelve = {}
    /\ j.at \in {"strike", "write"} => j.id \notin j.shed \cup j.shelve
    /\ j.do = "reconcile" =>
          /\ j.at # "rows" => j.todo \cap (j.shed \cup j.shelve) = {}
          /\ j.at \in {"strike", "write"} => j.id \notin j.todo

\* What an open transaction has written is nobody else's.
Whole(j) == j.do \in {"delete", "reconcile"}
Touched(j) == IdsOf(j.put) \cup IdsOf(j.drop) \cup j.shed \cup j.shelve
Apart == \A w, x \in Threads : w # x => Touched(job[w]) \cap Touched(job[x]) = {}

\* A product's rows go with its variants, never with a size that sold.
Taken(j) ==
    /\ \A i \in j.shed : VariantsOf(i) \subseteq j.drop
    /\ j.drop \cap sold = {}
    /\ j.shelve \subseteq rows

\* A product made for a job has no variants until that job fills them in.
Filling ==
    \A w \in Threads : At(w, "fill") =>
       /\ remote[job[w].gid] # Unmade /\ remote[job[w].gid].sku = NoSkus
       /\ \A x \in Threads \ {w} : At(x, "fill") => job[x].gid # job[w].gid

\* Variant v is on Shopify, or there is a reason that stays why it may not be.
Live(v) == \E g \in Gids : v \in Skus(g)
Lasting(i) == Excused(i, {"shop", "overtaken", "rekeyed", "shared"})
\* The reasons PhantomsKnown admits: a deletion cut short may still be completed.
Explained(i) == Excused(i, {"shop", "cut", "overtaken", "rekeyed", "shared"})

\* The SKUs an import or a create is about to mirror are on the product it has in hand.
InHand(j) ==
    j.at \in {"decide", "row", "flush", "finish"} =>
       \A s \in DOMAIN j.sku :
           j.sku[s] \in Ids => <<j.sku[s], s>> \in Skus(j.gid) \/ Lasting(j.sku[s])

\* The rows a transaction inserts have a product on Shopify.
PutLive(j) == \A v \in j.put : Live(v) \/ Lasting(v[1])

\* A job that struck the variant's product on Shopify has deleted its row, or is about to.
LeavesBy(j, v) ==
   /\ v[1] \in j.struck
   /\ v \in j.drop \/ (j.at = "write" /\ j.id = v[1] /\ (Whole(j) \/ v \in j.known))
Leaving(v) == \E w \in Threads : LeavesBy(job[w], v)

\* Every variant the bot searches is on Shopify, or it is known why not.
Backed ==
    \A v \in variants : v[1] \notin shelved => Live(v) \/ Explained(v[1]) \/ Leaving(v)

\* Types.
RemoteOK ==
    /\ DOMAIN remote = Gids
    /\ \A g \in Gids :
          /\ DOMAIN remote[g] = {"status", "sku"}
          /\ remote[g].status \in {"none", "ACTIVE", "ARCHIVED", "gone"}
          /\ DOMAIN remote[g].sku \subseteq Sizes
          /\ \A s \in DOMAIN remote[g].sku : remote[g].sku[s] \in Ids \cup {Blank, Foreign}

LeftOK == left \in [staff : 0 .. MaxStaff, shop : 0 .. MaxShop, faults : 0 .. MaxMirrorFaults]

\* The inductive invariant of ProductMirror.
MirrorInv ==
    /\ RemoteOK
    /\ told \subseteq Gids /\ rows \subseteq Ids /\ shelved \subseteq rows
    /\ variants \subseteq rows \X Sizes /\ sold \subseteq variants
    /\ LeftOK
    /\ DOMAIN job = Threads
    /\ \A w \in Threads : JobShape(job[w]) /\ Taken(job[w]) /\ InHand(job[w]) /\ PutLive(job[w])
    /\ Apart
    /\ Filling
    /\ Backed
-----------------------------------------------------------------------------
\* What a step of thread w owes when the committed rows stay as they are.
LEMMA SafeStep ==
    ASSUME MirrorInv, NEW w \in Threads, UNCHANGED local,
           told' \subseteq Gids, LeftOK', RemoteOK', excused \subseteq excused',
           DOMAIN job' = Threads, \A x \in Threads \ {w} : job'[x] = job[x],
           JobShape(job[w])', Taken(job[w])', InHand(job[w])', PutLive(job[w])',
           \A x \in Threads \ {w} : Touched(job'[w]) \cap Touched(job[x]) = {},
           Filling',
           \A x \in Threads \ {w} : \A v \in Ids \X Sizes :
               job[x].gid \in Gids /\ v \in Skus(job[x].gid)
                  => v \in Skus(job[x].gid)' \/ Lasting(v[1])',
           \A x \in Threads \ {w} : \A v \in job[x].put : Live(v) => Live(v)' \/ Lasting(v[1])',
           \A v \in variants : v[1] \notin shelved /\ (Live(v) \/ LeavesBy(job[w], v)) =>
               Live(v)' \/ Explained(v[1])' \/ LeavesBy(job'[w], v)
    PROVE  MirrorInv'
<1>1. \A i : Lasting(i) => Lasting(i)'
  BY DEF Lasting, Excused
<1>2. \A i : Explained(i) => Explained(i)'
  BY DEF Explained, Excused
<1>3. \A x \in Threads : JobShape(job[x])' /\ Taken(job[x])'
  <2> TAKE x \in Threads
  <2>1. JobShape(job[x])'
    BY DEF MirrorInv, JobShape
  <2>2. Taken(job[x])'
    BY DEF MirrorInv, Taken, VariantsOf, local
  <2> QED BY <2>1, <2>2
<1>4. \A x \in Threads : PutLive(job[x])'
  BY <1>1 DEF MirrorInv, PutLive
<1>5. \A x \in Threads : InHand(job[x])'
  <2> SUFFICES ASSUME NEW x \in Threads \ {w} PROVE InHand(job[x])'
    BY DEF InHand
  <2>1. job'[x] = job[x] /\ JobShape(job[x]) /\ InHand(job[x])
    BY DEF MirrorInv
  <2>2. SUFFICES ASSUME job[x].at \in {"decide", "row", "flush", "finish"},
                        NEW s \in DOMAIN job[x].sku, job[x].sku[s] \in Ids
                 PROVE  <<job[x].sku[s], s>> \in Skus(job[x].gid)' \/ Lasting(job[x].sku[s])'
    BY <2>1 DEF InHand
  <2>3. <<job[x].sku[s], s>> \in Skus(job[x].gid) \/ Lasting(job[x].sku[s])
    BY <2>1, <2>2 DEF InHand
  <2>4. <<job[x].sku[s], s>> \in Ids \X Sizes
    BY <2>1, <2>2 DEF JobShape
  <2>5. PICK v \in Ids \X Sizes : v = <<job[x].sku[s], s>>
    BY <2>4
  <2>6. v \in Skus(job[x].gid) => v \in Skus(job[x].gid)' \/ Lasting(v[1])'
    BY <2>1, <2>2, <2>5 DEF JobShape, Holds
  <2>7. v[1] = job[x].sku[s] /\ job[x].sku'[s] = job[x].sku[s]
    BY <2>1, <2>5
  <2> QED BY <1>1, <2>1, <2>3, <2>5, <2>6, <2>7
<1>6. Apart'
  BY DEF MirrorInv, Apart
<1>7. Backed'
  <2> SUFFICES ASSUME NEW v \in variants, v[1] \notin shelved
               PROVE  Live(v)' \/ Explained(v[1])' \/ Leaving(v)'
    BY DEF Backed, local
  <2>1. CASE Live(v)
    BY <2>1 DEF Leaving
  <2>2. CASE Explained(v[1])
    BY <2>2, <1>2
  <2>3. CASE Leaving(v)
    BY <2>3 DEF Leaving
  <2> QED BY <2>1, <2>2, <2>3 DEF MirrorInv, Backed
<1> QED BY <1>3, <1>4, <1>5, <1>6, <1>7 DEF MirrorInv, local

\* The same when Shopify stays as it is: the thread has only what it holds to account for.
LEMMA QuietStep ==
    ASSUME MirrorInv, NEW w \in Threads, UNCHANGED <<remote, local>>, told' \subseteq Gids,
           LeftOK', excused \subseteq excused',
           DOMAIN job' = Threads, \A x \in Threads \ {w} : job'[x] = job[x],
           JobShape(job[w])', Taken(job[w])', InHand(job[w])', PutLive(job[w])',
           \A x \in Threads \ {w} : Touched(job'[w]) \cap Touched(job[x]) = {},
           job'[w].at # "fill",
           \A v \in variants : v[1] \notin shelved /\ LeavesBy(job[w], v) =>
               Explained(v[1])' \/ LeavesBy(job'[w], v)
    PROVE  MirrorInv'
<1>1. RemoteOK'
  BY DEF MirrorInv, RemoteOK
<1>2. \A v : Live(v) => Live(v)'
  BY DEF Live, Skus
<1>3. \A x \in Threads \ {w} : \A v \in Ids \X Sizes :
         v \in Skus(job[x].gid) => v \in Skus(job[x].gid)'
  BY DEF Skus
<1>4. Filling'
  BY DEF MirrorInv, Filling, At
<1> QED BY SafeStep, <1>1, <1>2, <1>3, <1>4, Zenon

\* A job that ends without a commit leaves nothing behind but what it struck.
LEMMA IdleJob ==
    ASSUME NEW w \in Threads, job'[w] = Idle
    PROVE  /\ JobShape(job[w])' /\ Taken(job[w])' /\ InHand(job[w])' /\ PutLive(job[w])'
           /\ Touched(job'[w]) = {} /\ job'[w].at = "none"
<1>1. job'[w].at = "none" /\ job'[w].put = {} /\ job'[w].drop = {} /\ job'[w].shed = {}
         /\ job'[w].shelve = {}
  BY DEF Idle
<1>2. JobShape(job[w])'
  BY DEF JobShape, JobAt, Idle, Holds, Takes, NoSkus
<1>3. Taken(job[w])' /\ InHand(job[w])' /\ PutLive(job[w])'
  BY <1>1 DEF Taken, InHand, PutLive
<1>4. Touched(job'[w]) = {}
  BY <1>1 DEF Touched, IdsOf
<1> QED BY <1>1, <1>2, <1>3, <1>4

\* A thread ends its job where Shopify and the rows are as before.
LEMMA HomeStep ==
    ASSUME MirrorInv, NEW w \in Threads, UNCHANGED <<remote, local>>, told' \subseteq Gids,
           LeftOK', excused \subseteq excused',
           job' = [job EXCEPT ![w] = Idle],
           \A i \in job[w].struck : Explained(i)'
    PROVE  MirrorInv'
<1>1. DOMAIN job = Threads
  BY DEF MirrorInv
<1>2. DOMAIN job' = Threads /\ (\A x \in Threads \ {w} : job'[x] = job[x]) /\ job'[w] = Idle
  BY <1>1
<1>3. \A v \in variants : v[1] \notin shelved /\ LeavesBy(job[w], v) => Explained(v[1])'
  BY DEF LeavesBy
<1>4. /\ JobShape(job[w])' /\ Taken(job[w])' /\ InHand(job[w])' /\ PutLive(job[w])'
       /\ Touched(job'[w]) = {} /\ job'[w].at = "none"
  BY IdleJob, <1>2
<1>5. \A x \in Threads \ {w} : Touched(job'[w]) \cap Touched(job[x]) = {}
  BY <1>4
<1>6. job'[w].at # "fill"
  BY <1>4
<1> QED BY QuietStep, <1>2, <1>3, <1>4, <1>5, <1>6, Zenon

\* So it is with a rollback, which records what had been struck.
LEMMA RolledBack ==
    ASSUME MirrorInv, NEW w \in Threads, UNCHANGED <<remote, local>>, told' \subseteq Gids,
           LeftOK', Rollback(w)
    PROVE  MirrorInv'
<1>1. \A i \in job[w].struck : Explained(i)'
  BY DEF Rollback, Explained, Excused
<1> QED BY <1>1, HomeStep, Zenon DEF Rollback

\* The bounds stay bounds.
LEMMA SpendKeepsLeft ==
    /\ \A kind : LeftOK /\ Spend(kind) => LeftOK'
    /\ \A o : LeftOK /\ Outcome(o) => LeftOK'
    /\ LeftOK /\ UNCHANGED left => LeftOK'
<1>1. ASSUME NEW kind, LeftOK, Spend(kind) PROVE LeftOK'
  BY <1>1, ProductMirrorAssumption DEF LeftOK, Spend
<1>2. LeftOK /\ UNCHANGED left => LeftOK'
  BY DEF LeftOK
<1> QED BY <1>1, <1>2 DEF Outcome

\* What a job that goes on keeps.
LEMMA Going ==
    ASSUME MirrorInv, NEW w \in Threads, NEW r, Go(w, r)
    PROVE  /\ DOMAIN job' = Threads /\ \A x \in Threads \ {w} : job'[x] = job[x]
           /\ DOMAIN job'[w] = DOMAIN job[w]
           /\ \A f \in DOMAIN job[w] : job'[w][f] = IF f \in DOMAIN r THEN r[f] ELSE job[w][f]
BY DEF MirrorInv, Go, Amended

\* The fields of a job.
LEMMA Fields ==
    DOMAIN Idle = {"do", "at", "gid", "id", "sku", "known", "todo", "seen", "put", "drop",
                   "shed", "shelve", "struck"}
BY DEF Idle

\* What thread w's job keeps when only the fields fs change.
Keeps(w, fs) == \A f \in DOMAIN Idle \ fs : job'[w][f] = job[w][f]
\* No other thread steps.
Others(w) == DOMAIN job' = Threads /\ \A x \in Threads \ {w} : job'[x] = job[x]

\* Rows that are not locked may be written.
LEMMA TouchedApart ==
    ASSUME MirrorInv, NEW w \in Threads,
           \/ Touched(job'[w]) \subseteq Touched(job[w])
           \/ \E i : ~Locked(w, i) /\ Touched(job'[w]) \subseteq Touched(job[w]) \cup {i}
    PROVE  \A x \in Threads \ {w} : Touched(job'[w]) \cap Touched(job[x]) = {}
<1> SUFFICES ASSUME NEW x \in Threads \ {w}
             PROVE Touched(job'[w]) \cap Touched(job[x]) = {}
  OBVIOUS
<1>1. Touched(job[w]) \cap Touched(job[x]) = {}
  BY DEF MirrorInv, Apart
<1>2. \A i : ~Locked(w, i) => i \notin Touched(job[x])
  BY DEF Locked, Touched, IdsOf
<1> QED BY <1>1, <1>2

\* A step that changes neither what is flushed nor what was struck.
LEMMA InnerStep ==
    ASSUME MirrorInv, NEW w \in Threads, UNCHANGED <<remote, local, excused>>,
           told' \subseteq Gids, LeftOK', Others(w),
           JobShape(job[w])', InHand(job[w])',
           \A f \in {"put", "drop", "shed", "shelve", "struck"} : job'[w][f] = job[w][f],
           job'[w].at # "fill",
           job[w].at = "write" => job[w].struck = {} 
    PROVE  MirrorInv'
<1> DEFINE same == /\ job'[w].put = job[w].put /\ job'[w].drop = job[w].drop
                   /\ job'[w].shed = job[w].shed /\ job'[w].shelve = job[w].shelve
                   /\ job'[w].struck = job[w].struck
<1>0. same
  OBVIOUS
<1>1. Taken(job[w]) /\ PutLive(job[w])
  BY DEF MirrorInv
<1>2. Taken(job[w])'
  BY <1>0, <1>1 DEF Taken, VariantsOf, local
<1>3. PutLive(job[w])'
  BY <1>0, <1>1 DEF PutLive, Live, Skus, Lasting, Excused
<1>4. Touched(job'[w]) = Touched(job[w])
  BY <1>0 DEF Touched
<1>5. \A x \in Threads \ {w} : Touched(job'[w]) \cap Touched(job[x]) = {}
  BY <1>4, TouchedApart
<1>6. \A v \in variants : LeavesBy(job[w], v) => LeavesBy(job'[w], v)
  BY <1>0 DEF LeavesBy
<1>7. LeftOK' /\ excused \subseteq excused' /\ DOMAIN job' = Threads
      /\ (\A x \in Threads \ {w} : job'[x] = job[x])
      /\ job'[w].at # "fill"
  BY DEF Others
<1> QED BY QuietStep, <1>2, <1>3, <1>5, <1>6, <1>7, Zenon

-----------------------------------------------------------------------------
(* The steps of the mirror.                                                *)

LEMMA StepFinishCreate ==
    ASSUME MirrorInv, NEW w \in Threads, FinishCreate(w)
    PROVE  MirrorInv'
<1>1. JobShape(job[w]) /\ InHand(job[w]) /\ At(w, "finish") /\ told' \subseteq Gids
  BY DEF MirrorInv, FinishCreate
<1>2. PICK o \in {"ok", "outage"} :
        /\ Outcome(o)
        /\ IF o = "ok" /\ Listed(job[w].gid) THEN ToFlush(w) ELSE Go(w, [at |-> "unmake"])
  BY DEF FinishCreate
<1>3. LeftOK'
  BY <1>2, SpendKeepsLeft DEF MirrorInv
<1>4. /\ Others(w) /\ DOMAIN job'[w] = DOMAIN Idle /\ Keeps(w, {"at", "seen"})
      /\ job'[w].at \in {"flush", "unmake"}
  BY <1>1, <1>2, Going, Fields DEF Others, Keeps, ToFlush, JobShape
<1>5. JobShape(job[w])'
  BY <1>1, <1>4, Fields DEF JobShape, JobAt, Holds, Takes, At, Keeps, Idle
<1>6. InHand(job[w])'
  BY <1>1, <1>4, Fields DEF InHand, At, Keeps, Skus, Lasting, Excused, FinishCreate
<1>7. \A f \in {"put", "drop", "shed", "shelve", "struck"} : job'[w][f] = job[w][f]
  BY <1>4, Fields DEF Keeps
<1> QED BY InnerStep, <1>1, <1>3, <1>4, <1>5, <1>6, <1>7 DEF At, FinishCreate

LEMMA StepReadRow ==
    ASSUME MirrorInv, NEW w \in Threads, ReadRow(w)
    PROVE  MirrorInv'
<1>1. JobShape(job[w]) /\ InHand(job[w]) /\ At(w, "row") /\ told' \subseteq Gids /\ LeftOK'
  BY SpendKeepsLeft DEF MirrorInv, ReadRow
<1>2. /\ Others(w) /\ DOMAIN job'[w] = DOMAIN Idle /\ Keeps(w, {"at", "seen"})
      /\ job'[w].at = "flush"
  BY <1>1, Going, Fields DEF Others, Keeps, ToFlush, JobShape, ReadRow
<1>3. JobShape(job[w])'
  BY <1>1, <1>2, Fields DEF JobShape, JobAt, Holds, Takes, At, Keeps, Idle
<1>4. InHand(job[w])'
  BY <1>1, <1>2, Fields DEF InHand, At, Keeps, Skus, Lasting, Excused, ReadRow
<1>5. \A f \in {"put", "drop", "shed", "shelve", "struck"} : job'[w][f] = job[w][f]
  BY <1>2, Fields DEF Keeps
<1> QED BY InnerStep, <1>1, <1>2, <1>3, <1>4, <1>5 DEF At, ReadRow

LEMMA StepFlush ==
    ASSUME MirrorInv, NEW w \in Threads, Flush(w)
    PROVE  MirrorInv'
<1>1. /\ JobShape(job[w]) /\ InHand(job[w]) /\ Taken(job[w]) /\ PutLive(job[w])
      /\ At(w, "flush") /\ told' \subseteq Gids /\ LeftOK'
  BY SpendKeepsLeft DEF MirrorInv, Flush
<1>2. job[w].do \in {"create", "import", "sweep"}
  BY <1>1 DEF JobShape, JobAt, At, Idle
<1>3. CASE job[w].seen = Present(w)
  <2> DEFINE r == IF job[w].do = "sweep" THEN Onward ELSE [at |-> "commit"]
  <2>1. job' = [job EXCEPT ![w] = [Amended(job[w], r) EXCEPT !.put = @ \cup Target(w)]]
           /\ UNCHANGED excused
    BY <1>3 DEF Flush
  <2>2. /\ DOMAIN r \subseteq {"at", "gid", "id", "sku", "seen"}
        /\ job[w].do = "sweep" => r = Onward
        /\ job[w].do # "sweep" => r = [at |-> "commit"]
    BY DEF Onward
  <2> HIDE DEF r
  <2>3. /\ Others(w) /\ DOMAIN job'[w] = DOMAIN Idle
        /\ Keeps(w, {"at", "gid", "id", "sku", "seen", "put"})
        /\ job'[w].put = job[w].put \cup Target(w)
    <3> DEFINE q == Amended(job[w], r)
    <3>1. /\ DOMAIN q = DOMAIN Idle /\ q.put = job[w].put
          /\ \A f \in DOMAIN Idle \ {"at", "gid", "id", "sku", "seen", "put"} : q[f] = job[w][f]
      BY <1>1, <2>2, Fields DEF Amended, JobShape
    <3>2. job' = [job EXCEPT ![w] = [q EXCEPT !.put = @ \cup Target(w)]] /\ DOMAIN job = Threads
      BY <2>1 DEF MirrorInv
    <3> HIDE DEF q
    <3>3. job'[w] = [q EXCEPT !.put = @ \cup Target(w)] /\ Others(w)
      BY <3>2 DEF Others
    <3>4. \A f \in DOMAIN Idle \ {"put"} : job'[w][f] = q[f]
      BY <3>1, <3>3
    <3> QED BY <3>1, <3>3, <3>4, Fields DEF Keeps
  <2>4. /\ job[w].do = "sweep" => /\ job'[w].at = "detail" /\ job'[w].sku = NoSkus
        /\ job[w].do # "sweep" => /\ job'[w].at = "commit" /\ job'[w].sku = job[w].sku
                                  /\ job'[w].gid = job[w].gid
    BY <1>1, <2>1, <2>2, Fields DEF Onward, JobShape, MirrorInv, Amended
  <2>5. Target(w) \subseteq Ids \X Sizes /\ \A v \in Target(w) : v[1] = job[w].id
    BY <1>1 DEF Target, JobShape, At
  <2>6. \A v \in Target(w) : Live(v) \/ Lasting(v[1])
    BY <1>1 DEF Target, InHand, JobShape, At, Holds, Live
  <2>7. JobShape(job[w])'
    BY <1>1, <1>2, <2>3, <2>4, <2>5, Fields DEF JobShape, JobAt, Holds, Takes, At, Keeps, Idle, NoSkus
  <2>8. PutLive(job[w])'
    BY <1>1, <2>1, <2>3, <2>6 DEF PutLive, Live, Skus, Lasting, Excused, Flush
  <2>9. InHand(job[w])'
    BY <2>4, <1>2 DEF InHand
  <2>10. Taken(job[w])'
    BY <1>1, <2>3, Fields DEF Taken, Keeps, VariantsOf, local, Flush
  <2>11. Touched(job'[w]) \subseteq Touched(job[w]) \cup {job[w].id}
    BY <2>3, <2>5, Fields DEF Touched, Keeps, IdsOf
  <2>12. \A x \in Threads \ {w} : Touched(job'[w]) \cap Touched(job[x]) = {}
    BY <2>11, TouchedApart DEF Flush
  <2>13. \A v \in variants : ~ LeavesBy(job[w], v)
    BY <1>1, <1>2 DEF LeavesBy, JobShape, Takes
  <2>14. /\ UNCHANGED <<remote, local>> /\ excused \subseteq excused' /\ job'[w].at # "fill"
         /\ DOMAIN job' = Threads /\ \A x \in Threads \ {w} : job'[x] = job[x]
    BY <1>2, <2>1, <2>3, <2>4 DEF Flush, Others
  <2> QED BY QuietStep, <1>1, <2>7, <2>8, <2>9, <2>10, <2>12, <2>13, <2>14, Zenon
<1>4. CASE job[w].seen # Present(w) /\ job[w].do = "create"
  <2>1. Go(w, [at |-> "unmake"]) /\ UNCHANGED excused
    BY <1>4 DEF Flush
  <2>2. /\ Others(w) /\ DOMAIN job'[w] = DOMAIN Idle /\ Keeps(w, {"at"})
        /\ job'[w].at = "unmake"
    BY <1>1, <2>1, Going, Fields DEF Others, Keeps, JobShape
  <2>3. JobShape(job[w])'
    BY <1>1, <1>4, <2>2, Fields DEF JobShape, JobAt, Holds, Takes, At, Keeps, Idle
  <2>4. InHand(job[w])'
    BY <2>2 DEF InHand
  <2>5. \A f \in {"put", "drop", "shed", "shelve", "struck"} : job'[w][f] = job[w][f]
    BY <2>2, Fields DEF Keeps
  <2> QED BY InnerStep, <1>1, <2>1, <2>2, <2>3, <2>4, <2>5 DEF At, Flush
<1>5. CASE job[w].seen # Present(w) /\ job[w].do # "create"
  BY <1>1, <1>5, RolledBack DEF Flush
<1> QED BY <1>3, <1>4, <1>5

LEMMA StepImport ==
    ASSUME MirrorInv, NEW w \in Threads, ImportProduct(w)
    PROVE  MirrorInv'
<1>1. PICK g \in told : Begin(w, [do |-> "import", at |-> "detail", gid |-> g]) /\ told' = told \ {g}
  BY DEF ImportProduct
<1>2. JobShape(job[w]) /\ InHand(job[w]) /\ g \in Gids /\ told' \subseteq Gids /\ LeftOK'
  BY <1>1, SpendKeepsLeft DEF MirrorInv, ImportProduct
<1>3. job[w] = Idle
  BY <1>1, <1>2 DEF Begin, JobShape, JobAt, Takes
<1>4. /\ Others(w) /\ DOMAIN job'[w] = DOMAIN Idle /\ Keeps(w, {"do", "at", "gid"})
      /\ job'[w].do = "import" /\ job'[w].at = "detail" /\ job'[w].gid = g
  BY <1>1, <1>3, Going, Fields DEF Others, Keeps, Begin
<1>5. JobShape(job[w])'
  BY <1>2, <1>3, <1>4, Fields DEF JobShape, JobAt, Holds, Takes, Keeps, Idle
<1>6. InHand(job[w])'
  BY <1>4 DEF InHand
<1>7. \A f \in {"put", "drop", "shed", "shelve", "struck"} : job'[w][f] = job[w][f]
  BY <1>4, Fields DEF Keeps
<1>8. job[w].at # "write"
  BY <1>3 DEF Idle
<1> QED BY InnerStep, <1>2, <1>4, <1>5, <1>6, <1>7, <1>8 DEF ImportProduct

LEMMA StepSweepStart ==
    ASSUME MirrorInv, ImportMissingProducts
    PROVE  MirrorInv'
<1> DEFINE w == Scheduler
<1>0. w \in Threads
  BY DEF Threads
<1> HIDE DEF w
<1>1. Begin(w, [do |-> "sweep", at |-> "list", known |-> variants])
  BY DEF ImportMissingProducts, w
<1>2. JobShape(job[w]) /\ told' \subseteq Gids /\ LeftOK'
  BY <1>0, SpendKeepsLeft DEF MirrorInv, ImportMissingProducts
<1>3. job[w] = Idle
  BY <1>1, <1>2 DEF Begin, JobShape, JobAt, Takes
<1>4. /\ Others(w) /\ DOMAIN job'[w] = DOMAIN Idle /\ Keeps(w, {"do", "at", "known"})
      /\ job'[w].do = "sweep" /\ job'[w].at = "list"
  BY <1>0, <1>1, <1>3, Going, Fields DEF Others, Keeps, Begin
<1>5. JobShape(job[w])'
  BY <1>2, <1>3, <1>4, Fields DEF JobShape, JobAt, Holds, Takes, Keeps, Idle
<1>6. InHand(job[w])'
  BY <1>4 DEF InHand
<1>7. \A f \in {"put", "drop", "shed", "shelve", "struck"} : job'[w][f] = job[w][f]
  BY <1>4, Fields DEF Keeps
<1>8. job[w].at # "write"
  BY <1>3 DEF Idle
<1> QED BY InnerStep, <1>0, <1>2, <1>4, <1>5, <1>6, <1>7, <1>8 DEF ImportMissingProducts

\* An import that leaves its product alone.
LEMMA SkipJob ==
    ASSUME MirrorInv, NEW w \in Threads, job[w].do \in {"import", "sweep"}, Skip(w)
    PROVE  /\ Others(w) /\ JobShape(job[w])' /\ InHand(job[w])'
           /\ job'[w].at \in {"none", "detail"} /\ job'[w].put \subseteq job[w].put
           /\ job'[w].drop = {} /\ job'[w].shed = {} /\ job'[w].shelve = {}
<1>1. JobShape(job[w]) /\ DOMAIN job = Threads
  BY DEF MirrorInv
<1>2. CASE job[w].do = "sweep"
  <2>1. Go(w, Onward)
    BY <1>2 DEF Skip, Go
  <2>2. /\ Others(w) /\ DOMAIN job'[w] = DOMAIN Idle
        /\ Keeps(w, {"at", "gid", "id", "sku", "seen"})
        /\ job'[w].at = "detail" /\ job'[w].sku = NoSkus
    BY <1>1, <2>1, Going, Fields DEF Others, Keeps, JobShape, Onward
  <2>3. JobShape(job[w])'
    BY <1>1, <1>2, <2>2, Fields DEF JobShape, JobAt, Holds, Takes, Keeps, Idle, NoSkus
  <2>4. InHand(job[w])'
    BY <2>2 DEF InHand
  <2>5. \A f \in {"put", "drop", "shed", "shelve", "struck"} : job'[w][f] = job[w][f]
    BY <2>2, Fields DEF Keeps
  <2> QED BY <1>1, <1>2, <2>2, <2>3, <2>4, <2>5 DEF JobShape, Takes
<1>3. CASE job[w].do = "import"
  <2>1. job' = [job EXCEPT ![w] = Idle]
    BY <1>3 DEF Skip
  <2>2. job'[w] = Idle /\ Others(w)
    BY <1>1, <2>1 DEF Others
  <2> QED BY <2>2, IdleJob DEF Idle
<1> QED BY <1>2, <1>3

LEMMA SkipStep ==
    ASSUME MirrorInv, NEW w \in Threads, UNCHANGED <<remote, local, excused>>,
           told' \subseteq Gids, LeftOK', job[w].do \in {"import", "sweep"}, Skip(w)
    PROVE  MirrorInv'
<1>1. /\ Others(w) /\ JobShape(job[w])' /\ InHand(job[w])'
      /\ job'[w].at \in {"none", "detail"} /\ job'[w].put \subseteq job[w].put
      /\ job'[w].drop = {} /\ job'[w].shed = {} /\ job'[w].shelve = {}
  BY SkipJob
<1>2. JobShape(job[w]) /\ PutLive(job[w])
  BY DEF MirrorInv
<1>3. Taken(job[w])'
  BY <1>1 DEF Taken
<1>4. PutLive(job[w])'
  BY <1>1, <1>2 DEF PutLive, Live, Skus, Lasting, Excused
<1>5. Touched(job'[w]) \subseteq Touched(job[w])
  BY <1>1 DEF Touched, IdsOf
<1>6. \A x \in Threads \ {w} : Touched(job'[w]) \cap Touched(job[x]) = {}
  BY <1>5, TouchedApart
<1>7. \A v \in variants : ~LeavesBy(job[w], v)
  BY <1>2 DEF LeavesBy, JobShape, Takes
<1>8. /\ DOMAIN job' = Threads /\ (\A x \in Threads \ {w} : job'[x] = job[x])
      /\ job'[w].at # "fill" /\ excused \subseteq excused'
  BY <1>1 DEF Others
<1> QED BY QuietStep, <1>1, <1>3, <1>4, <1>6, <1>7, <1>8, Zenon

LEMMA StepList ==
    ASSUME MirrorInv, ListProducts
    PROVE  MirrorInv'
<1> DEFINE w == Scheduler
<1>0. w \in Threads
  BY DEF Threads
<1> HIDE DEF w
<1>1. PICK o \in {"ok", "outage"} :
        /\ Outcome(o)
        /\ IF o = "ok"
           THEN Go(w, [at |-> "detail",
                       todo |-> {g \in Gids : /\ remote[g].status = "ACTIVE"
                                              /\ Skus(g) \cap job[w].known = {}}])
                /\ UNCHANGED excused
           ELSE Rollback(w)
  BY DEF ListProducts, w
<1>2. JobShape(job[w]) /\ job[w].at = "list" /\ told' \subseteq Gids /\ LeftOK'
      /\ UNCHANGED <<remote, local>>
  BY <1>0, <1>1, SpendKeepsLeft DEF MirrorInv, ListProducts, At, w
<1>3. CASE o = "ok"
  <2> DEFINE T == {g \in Gids : remote[g].status = "ACTIVE" /\ Skus(g) \cap job[w].known = {}}
  <2>1. Go(w, [at |-> "detail", todo |-> T]) /\ UNCHANGED excused /\ T \subseteq Gids
    BY <1>1, <1>3
  <2> HIDE DEF T
  <2>2. /\ Others(w) /\ DOMAIN job'[w] = DOMAIN Idle /\ Keeps(w, {"at", "todo"})
        /\ job'[w].at = "detail" /\ job'[w].todo = T
    BY <1>0, <1>2, <2>1, Going, Fields DEF Others, Keeps, JobShape
  <2>3. JobShape(job[w])'
    BY <1>2, <2>1, <2>2, Fields DEF JobShape, JobAt, Holds, Takes, Keeps, Idle
  <2>4. InHand(job[w])'
    BY <2>2 DEF InHand
  <2>5. \A f \in {"put", "drop", "shed", "shelve", "struck"} : job'[w][f] = job[w][f]
    BY <2>2, Fields DEF Keeps
  <2> QED BY InnerStep, <1>0, <1>2, <2>1, <2>2, <2>3, <2>4, <2>5
<1>4. CASE o # "ok"
  BY <1>0, <1>1, <1>2, <1>4, RolledBack
<1> QED BY <1>3, <1>4

LEMMA StepGet ==
    ASSUME MirrorInv, NEW w \in Threads, GetProduct(w)
    PROVE  MirrorInv'
<1>1. PICK o \in {"ok", "outage"}, g \in IF job[w].do = "sweep" THEN job[w].todo ELSE {job[w].gid} :
          /\ Outcome(o)
          /\ IF o # "ok" THEN Rollback(w)
             ELSE /\ IF Listed(g)
                     THEN Go(w, [at |-> "decide", gid |-> g, sku |-> remote[g].sku,
                                 todo |-> job[w].todo \ {g}])
                     ELSE IF job[w].do = "sweep" THEN Go(w, [todo |-> job[w].todo \ {g}])
                     ELSE Skip(w)
                  /\ UNCHANGED excused
  BY DEF GetProduct
<1>2. JobShape(job[w]) /\ job[w].at = "detail" /\ told' \subseteq Gids /\ LeftOK'
      /\ UNCHANGED <<remote, local>>
  BY <1>1, SpendKeepsLeft DEF MirrorInv, GetProduct, At
<1>3. job[w].do \in {"import", "sweep"} /\ g \in Gids
  BY <1>1, <1>2 DEF JobShape, JobAt, Idle
<1>4. CASE o # "ok"
  BY <1>1, <1>2, <1>4, RolledBack
<1>5. CASE o = "ok" /\ Listed(g)
  <2> DEFINE T == job[w].todo \ {g}
  <2>1. Go(w, [at |-> "decide", gid |-> g, sku |-> remote[g].sku, todo |-> T])
        /\ UNCHANGED excused /\ T \subseteq job[w].todo
    BY <1>1, <1>5
  <2> HIDE DEF T
  <2>2. /\ Others(w) /\ DOMAIN job'[w] = DOMAIN Idle /\ Keeps(w, {"at", "gid", "sku", "todo"})
        /\ job'[w].at = "decide" /\ job'[w].todo = T /\ job'[w].gid = g
        /\ job'[w].sku = remote[g].sku
    BY <1>2, <2>1, Going, Fields DEF Others, Keeps, JobShape
  <2>3. JobShape(job[w])'
    BY <1>2, <1>3, <2>1, <2>2, Fields DEF JobShape, JobAt, Holds, Takes, Keeps, Idle, MirrorInv, RemoteOK
  <2>4. InHand(job[w])'
    BY <1>2, <2>2 DEF InHand, Skus
  <2>5. \A f \in {"put", "drop", "shed", "shelve", "struck"} : job'[w][f] = job[w][f]
    BY <2>2, Fields DEF Keeps
  <2> QED BY InnerStep, <1>2, <2>1, <2>2, <2>3, <2>4, <2>5
<1>6. CASE o = "ok" /\ ~Listed(g) /\ job[w].do = "sweep"
  <2> DEFINE T == job[w].todo \ {g}
  <2>1. Go(w, [todo |-> T]) /\ UNCHANGED excused /\ T \subseteq job[w].todo
    BY <1>1, <1>6
  <2> HIDE DEF T
  <2>2. /\ Others(w) /\ DOMAIN job'[w] = DOMAIN Idle /\ Keeps(w, {"todo"})
        /\ job'[w].todo = T
    BY <1>2, <2>1, Going, Fields DEF Others, Keeps, JobShape
  <2>3. JobShape(job[w])' /\ job'[w].at = "detail"
    BY <1>2, <1>3, <2>1, <2>2, Fields DEF JobShape, JobAt, Holds, Takes, Keeps, Idle
  <2>4. InHand(job[w])'
    BY <2>3 DEF InHand
  <2>5. \A f \in {"put", "drop", "shed", "shelve", "struck"} : job'[w][f] = job[w][f]
    BY <2>2, Fields DEF Keeps
  <2> QED BY InnerStep, <1>2, <2>1, <2>2, <2>3, <2>4, <2>5
<1>7. CASE o = "ok" /\ ~Listed(g) /\ job[w].do # "sweep"
  BY <1>1, <1>2, <1>3, <1>7, SkipStep
<1> QED BY <1>1, <1>4, <1>5, <1>6, <1>7

\* A set of numbers that is not empty has a least one.
LEMMA LeastNumber ==
    ASSUME NEW S, S \subseteq Nat, S # {}
    PROVE  Min(S) \in S
<1>1. PICK R : R = OpToRel(<, Nat)
  OBVIOUS
<1>2. IsWellFoundedOn(R, Nat)
  BY <1>1, NatLessThanWellFounded
<1>3. PICK x \in S : \A y \in S : ~ (<<y, x>> \in R)
  BY <1>2, WFMin
<1>4. \A y \in S : x =< y
  <2>1. SUFFICES ASSUME NEW y \in S, y < x PROVE FALSE
    OBVIOUS
  <2>2. <<y, x>> \in R
    BY <1>1, <2>1 DEF OpToRel
  <2> QED BY <1>3, <2>2
<1> QED BY <1>4 DEF Min

\* The slug's first free number is one of the slug's numbers.
LEMMA FreeNumber ==
    ASSUME NEW w \in Threads, IdLeft(w)
    PROVE  _unique_product_id(w) \in Ids
BY LeastNumber, ProductMirrorAssumption DEF IdLeft, _unique_product_id, Ids

LEMMA StepDecide ==
    ASSUME MirrorInv, NEW w \in Threads, _import_one(w)
    PROVE  MirrorInv'
<1>1. JobShape(job[w]) /\ InHand(job[w]) /\ job[w].at = "decide" /\ told' \subseteq Gids /\ LeftOK'
      /\ UNCHANGED <<remote, local, excused>>
  BY SpendKeepsLeft DEF MirrorInv, _import_one, At
<1>2. job[w].do \in {"import", "sweep"} /\ DOMAIN job[w].sku \subseteq Sizes
  BY <1>1 DEF JobShape, JobAt, Idle
<1> DEFINE sku == job[w].sku
           linked == \E s \in DOMAIN sku : <<sku[s], s>> \in Known(w)
<1>3. CASE is_placeholder_only(sku) \/ linked
  BY <1>1, <1>2, <1>3, SkipStep DEF _import_one
<1>4. CASE ~(is_placeholder_only(sku) \/ linked) /\ Adopted(w) # {}
  <2>1. PICK i : i = Min(Adopted(w))
    OBVIOUS
  <2>2. Go(w, [at |-> "row", id |-> i])
    BY <1>4, <2>1 DEF _import_one
  <2>3. i \in Ids /\ DOMAIN sku # {} /\ \A s \in DOMAIN sku : sku[s] = i
    BY <1>4, <2>1, LeastNumber, ProductMirrorAssumption DEF Adopted, _adoptable_product_id, Ids
  <2>4. /\ Others(w) /\ DOMAIN job'[w] = DOMAIN Idle /\ Keeps(w, {"at", "id"})
        /\ job'[w].at = "row" /\ job'[w].id = i
    BY <1>1, <2>2, Going, Fields DEF Others, Keeps, JobShape
  <2>5. JobShape(job[w])'
    BY <1>1, <1>2, <2>3, <2>4, Fields DEF JobShape, JobAt, Holds, Takes, Keeps, Idle
  <2>6. InHand(job[w])'
    BY <1>1, <2>4, Fields DEF InHand, Keeps, Skus, Lasting, Excused
  <2>7. \A f \in {"put", "drop", "shed", "shelve", "struck"} : job'[w][f] = job[w][f]
    BY <2>4, Fields DEF Keeps
  <2> QED BY InnerStep, <1>1, <2>4, <2>5, <2>6, <2>7
<1>5. CASE ~(is_placeholder_only(sku) \/ linked) /\ Adopted(w) = {} /\ ~AllBlank(sku)
  BY <1>1, <1>2, <1>5, SkipStep DEF _import_one
<1>6. CASE ~(is_placeholder_only(sku) \/ linked) /\ Adopted(w) = {} /\ AllBlank(sku)
  <2>1. PICK i : i = _unique_product_id(w)
    OBVIOUS
  <2>2. PICK q : q = [s \in DOMAIN sku |-> i]
    OBVIOUS
  <2>3. Go(w, [at |-> "push", id |-> i, sku |-> q]) /\ IdLeft(w)
    BY <1>6, <2>1, <2>2 DEF _import_one
  <2>4. i \in Ids
    BY <2>1, <2>3, FreeNumber
  <2>5. DOMAIN q = DOMAIN sku /\ DOMAIN q # {} /\ \A s \in DOMAIN q : q[s] = i
    BY <1>6, <2>2 DEF is_placeholder_only
  <2>6. /\ Others(w) /\ DOMAIN job'[w] = DOMAIN Idle /\ Keeps(w, {"at", "id", "sku"})
        /\ job'[w].at = "push" /\ job'[w].id = i /\ job'[w].sku = q
    BY <1>1, <2>3, Going, Fields DEF Others, Keeps, JobShape
  <2>7. JobShape(job[w])'
    BY <1>1, <1>2, <2>4, <2>5, <2>6, Fields DEF JobShape, JobAt, Holds, Takes, Keeps, Idle
  <2>8. InHand(job[w])'
    BY <2>6 DEF InHand
  <2>9. \A f \in {"put", "drop", "shed", "shelve", "struck"} : job'[w][f] = job[w][f]
    BY <2>6, Fields DEF Keeps
  <2> QED BY InnerStep, <1>1, <2>6, <2>7, <2>8, <2>9
<1> QED BY <1>3, <1>4, <1>5, <1>6

\* The import's job after the SKUs were pushed, or could not be.
LEMMA PushJob ==
    ASSUME MirrorInv, NEW w \in Threads, PushSkus(w)
    PROVE  /\ Others(w) /\ JobShape(job[w])'
           /\ job'[w].at \in {"none", "detail", "flush"} /\ job'[w].put \subseteq job[w].put
           /\ job'[w].drop = {} /\ job'[w].shed = {} /\ job'[w].shelve = {}
           /\ job'[w].at = "flush" => job'[w].gid = job[w].gid /\ job'[w].sku = job[w].sku
<1>1. JobShape(job[w]) /\ job[w].at = "push"
  BY DEF MirrorInv, PushSkus, At
<1>2. job[w].do \in {"import", "sweep"}
  BY <1>1 DEF JobShape, JobAt, Idle
<1>3. CASE ToFlush(w)
  <2>1. /\ Others(w) /\ DOMAIN job'[w] = DOMAIN Idle /\ Keeps(w, {"at", "seen"})
        /\ job'[w].at = "flush"
    BY <1>1, <1>3, Going, Fields DEF Others, Keeps, JobShape, ToFlush
  <2>2. JobShape(job[w])'
    BY <1>1, <1>2, <2>1, Fields DEF JobShape, JobAt, Holds, Takes, Keeps, Idle
  <2> QED BY <1>1, <1>2, <2>1, <2>2, Fields DEF JobShape, Takes, Keeps
<1>4. CASE Skip(w)
  BY <1>2, <1>4, SkipJob
<1> QED BY <1>3, <1>4 DEF PushSkus

\* A product whose labels are all excused may change its SKUs.
LEMMA Stranded ==
    ASSUME MirrorInv, NEW g \in Gids,
           \A h \in Gids \ {g} : remote'[h] = remote[h],
           \A i \in Labels(g) : Lasting(i)'
    PROVE  /\ \A h \in Gids, v \in Ids \X Sizes : v \in Skus(h) => v \in Skus(h)' \/ Lasting(v[1])'
           /\ \A v \in Ids \X Sizes : Live(v) => Live(v)' \/ Lasting(v[1])'
<1>1. \A h \in Gids \ {g} : Skus(h)' = Skus(h)
  BY DEF Skus
<1>2. \A v \in Ids \X Sizes : v \in Skus(g) => v[1] \in Labels(g)
  BY DEF Skus, Labels, LabelsOf
<1>3. \A v \in Ids \X Sizes : v \in Skus(g) => Lasting(v[1])'
  BY <1>2
<1>4. \A h \in Gids, v \in Ids \X Sizes : v \in Skus(h) => v \in Skus(h)' \/ Lasting(v[1])'
  BY <1>1, <1>3
<1> QED BY <1>4 DEF Live

LEMMA StepPush ==
    ASSUME MirrorInv, NEW w \in Threads, PushSkus(w)
    PROVE  MirrorInv'
<1>1. JobShape(job[w]) /\ job[w].at = "push" /\ PutLive(job[w]) /\ Taken(job[w])
      /\ UNCHANGED local /\ RemoteOK
  BY DEF MirrorInv, PushSkus, At
<1>2. job[w].do \in {"import", "sweep"} /\ job[w].gid \in Gids
  BY <1>1 DEF JobShape, JobAt, Idle, Holds
<1>3. /\ Others(w) /\ JobShape(job[w])'
      /\ job'[w].at \in {"none", "detail", "flush"} /\ job'[w].put \subseteq job[w].put
      /\ job'[w].drop = {} /\ job'[w].shed = {} /\ job'[w].shelve = {}
      /\ job'[w].at = "flush" => job'[w].gid = job[w].gid /\ job'[w].sku = job[w].sku
  BY PushJob
<1>4. LeftOK'
  BY SpendKeepsLeft DEF MirrorInv, PushSkus
<1>5. Taken(job[w])'
  BY <1>3 DEF Taken
<1>6. Touched(job'[w]) \subseteq Touched(job[w])
  BY <1>3 DEF Touched, IdsOf
<1>7. \A x \in Threads \ {w} : Touched(job'[w]) \cap Touched(job[x]) = {}
  BY <1>6, TouchedApart
<1>8. \A v \in variants : ~LeavesBy(job[w], v)
  BY <1>1, <1>2 DEF LeavesBy, JobShape, Takes
<1>9. /\ DOMAIN job' = Threads /\ (\A x \in Threads \ {w} : job'[x] = job[x])
      /\ job'[w].at # "fill"
  BY <1>3 DEF Others
<1> DEFINE g == job[w].gid
           sku == job[w].sku
           takes(o) == Happens(o) /\ DOMAIN sku \subseteq DOMAIN remote[g].sku
<1>10. PICK o \in Outcomes :
         /\ IF takes(o)
            THEN /\ remote' = [remote EXCEPT ![g].sku = Amended(@, sku)]
                 /\ told' = told \cup {g}
                 /\ excused' = excused \cup (Labels(g) \X {"rekeyed"})
            ELSE UNCHANGED <<remote, told, excused>>
         /\ IF Mirrors(takes(o), o) THEN ToFlush(w) ELSE Skip(w)
  BY DEF PushSkus
<1>11. CASE ~takes(o)
  <2>1. Skip(w) /\ UNCHANGED <<remote, told, local, excused>>
    BY <1>1, <1>10, <1>11 DEF Mirrors
  <2> QED BY <1>2, <1>4, <2>1, SkipStep DEF MirrorInv
<1>12. CASE takes(o)
  <2>1. /\ remote' = [remote EXCEPT ![g].sku = Amended(@, sku)]
        /\ told' = told \cup {g}
        /\ excused' = excused \cup (Labels(g) \X {"rekeyed"})
        /\ DOMAIN sku \subseteq DOMAIN remote[g].sku
    BY <1>10, <1>12
  <2>2. PICK h \in Gids : h = g
    BY <1>2
  <2>3. PICK q : q = sku
    OBVIOUS
  <2>4. /\ \A k \in Gids \ {h} : remote'[k] = remote[k]
        /\ remote'[h].status = remote[h].status /\ DOMAIN remote'[h] = DOMAIN remote[h]
        /\ remote'[h].sku = Amended(remote[h].sku, q)
        /\ DOMAIN remote' = Gids
    BY <1>1, <2>1, <2>2, <2>3 DEF RemoteOK
  <2>5. \A i \in Labels(h) : Lasting(i)'
    BY <2>1, <2>2 DEF Lasting, Excused
  <2>6. DOMAIN q # {} /\ DOMAIN q \subseteq DOMAIN remote[h].sku
        /\ \A s \in DOMAIN q : q[s] \in Ids
    BY <1>1, <2>1, <2>2, <2>3 DEF JobShape
  <2>7. RemoteOK'
    BY <1>1, <2>4, <2>6 DEF RemoteOK, Amended
  <2>8. \A s \in DOMAIN q : <<q[s], s>> \in Skus(h)'
    BY <2>4, <2>6 DEF Skus, Amended
  <2>9. InHand(job[w])'
    <3> SUFFICES ASSUME job'[w].at = "flush" PROVE InHand(job[w])'
      BY <1>3 DEF InHand
    <3>1. job'[w].gid = h /\ job'[w].sku = q
      BY <1>3, <2>2, <2>3
    <3> QED BY <2>8, <3>1 DEF InHand
  <2>10. /\ \A k \in Gids, v \in Ids \X Sizes : v \in Skus(k) => v \in Skus(k)' \/ Lasting(v[1])'
         /\ \A v \in Ids \X Sizes : Live(v) => Live(v)' \/ Lasting(v[1])'
    BY <2>4, <2>5, Stranded
  <2>11. \A i : Lasting(i) => Lasting(i)'
    BY <2>1 DEF Lasting, Excused
  <2>12. PutLive(job[w])'
    BY <1>1, <1>3, <2>10, <2>11 DEF PutLive, JobShape
  <2>13. Filling'
    <3>1. \A x \in Threads \ {w} : At(x, "fill") => job[x].gid # h
      BY <2>6 DEF MirrorInv, Filling, NoSkus
    <3>2. \A x \in Threads \ {w} : At(x, "fill") => job[x].gid \in Gids
      BY DEF MirrorInv, JobShape, Holds, At
    <3> QED BY <1>9, <2>4, <3>1, <3>2 DEF MirrorInv, Filling, At
  <2>14. \A x \in Threads \ {w} : \A v \in Ids \X Sizes :
             job[x].gid \in Gids /\ v \in Skus(job[x].gid)
                => v \in Skus(job[x].gid)' \/ Lasting(v[1])'
    BY <1>9, <2>10 DEF Skus
  <2>15. \A x \in Threads \ {w} : \A v \in job[x].put : Live(v) => Live(v)' \/ Lasting(v[1])'
    BY <2>10 DEF MirrorInv, JobShape
  <2>16. \A v \in variants : Live(v) => Live(v)' \/ Explained(v[1])'
    BY <2>10 DEF MirrorInv, Lasting, Explained, Excused
  <2>17. told' \subseteq Gids /\ excused \subseteq excused'
    BY <2>1, <2>2 DEF MirrorInv
  <2> QED BY SafeStep, <1>1, <1>3, <1>4, <1>5, <1>7, <1>8, <1>9, <2>7, <2>9, <2>12, <2>13,
             <2>14, <2>15, <2>16, <2>17, Zenon
<1> QED BY <1>11, <1>12

\* A step that takes no SKU away from Shopify.
LEMMA GrowingStep ==
    ASSUME MirrorInv, NEW w \in Threads, UNCHANGED <<local, excused>>,
           told' \subseteq Gids, LeftOK', RemoteOK', Others(w),
           \A g \in Gids : Skus(g) \subseteq Skus(g)',
           JobShape(job[w])', InHand(job[w])', Filling',
           \A f \in {"put", "drop", "shed", "shelve", "struck"} : job'[w][f] = job[w][f],
           job[w].at = "write" => job[w].struck = {} \/ job' = job
    PROVE  MirrorInv'
<1>0. /\ job'[w].put = job[w].put /\ job'[w].drop = job[w].drop
      /\ job'[w].shed = job[w].shed /\ job'[w].shelve = job[w].shelve
      /\ job'[w].struck = job[w].struck
  OBVIOUS
<1>1. \A v : Live(v) => Live(v)'
  BY DEF Live
<1>2. Taken(job[w])' /\ PutLive(job[w])'
  BY <1>0, <1>1 DEF MirrorInv, Taken, PutLive, VariantsOf, Lasting, Excused, local
<1>3. Touched(job'[w]) = Touched(job[w])
  BY <1>0 DEF Touched
<1>4. \A x \in Threads \ {w} : Touched(job'[w]) \cap Touched(job[x]) = {}
  BY <1>3, TouchedApart
<1>5. \A v \in variants : LeavesBy(job[w], v) => LeavesBy(job'[w], v)
  BY <1>0 DEF LeavesBy
<1>6. \A x \in Threads \ {w} : \A v \in Ids \X Sizes :
          job[x].gid \in Gids /\ v \in Skus(job[x].gid) => v \in Skus(job[x].gid)'
  BY DEF Others, Skus
<1>7. /\ DOMAIN job' = Threads /\ (\A x \in Threads \ {w} : job'[x] = job[x])
      /\ excused \subseteq excused' /\ UNCHANGED local
  BY DEF Others
<1> QED BY SafeStep, <1>1, <1>2, <1>4, <1>5, <1>6, <1>7, Zenon

LEMMA StepCreate ==
    ASSUME MirrorInv, NEW w \in Threads, CreateProduct(w)
    PROVE  MirrorInv'
<1>1. PICK sizes \in (SUBSET Sizes) \ {{}}, g \in {h \in Gids : remote[h] = Unmade},
          made \in Outcomes, i \in {_unique_product_id(w)} :
          /\ left.staff > 0
          /\ left' = [left EXCEPT !.staff = @ - 1,
                                  !.faults = IF made = "ok" THEN @ ELSE @ - 1]
          /\ made = "ok" \/ (made \in Faults /\ left.faults > 0)
          /\ IF Happens(made)
             THEN /\ remote' = [remote EXCEPT ![g] = [status |-> "ACTIVE", sku |-> NoSkus]]
                  /\ told' = told \cup {g}
             ELSE UNCHANGED <<remote, told>>
          /\ IF made = "ok"
             THEN Go(w, [do |-> "create", at |-> "fill", gid |-> g, id |-> i,
                         sku |-> [s \in sizes |-> i]])
             ELSE UNCHANGED job
  BY DEF CreateProduct
<1>2. IdLeft(w) /\ job[w].do = "idle" /\ UNCHANGED <<local, excused>>
  BY DEF CreateProduct
<1>3. LeftOK'
  <2>1. LeftOK
    BY DEF MirrorInv
  <2>2. left.staff > 0 /\ left' = [left EXCEPT !.staff = @ - 1,
                                              !.faults = IF made = "ok" THEN @ ELSE @ - 1]
    BY <1>1
  <2>3. made # "ok" => left.faults > 0
    BY <1>1
  <2>4. PICK m, f : left' = [left EXCEPT !.staff = m, !.faults = f]
                     /\ m = left.staff - 1 /\ f = IF made = "ok" THEN left.faults ELSE left.faults - 1
    BY <2>2
  <2>5. left.staff \in 0 .. MaxStaff /\ left.faults \in 0 .. MaxMirrorFaults
    BY <2>1 DEF LeftOK
  <2>6. m \in 0 .. MaxStaff /\ f \in 0 .. MaxMirrorFaults
    BY <2>2, <2>3, <2>4, <2>5, ProductMirrorAssumption
  <2> QED BY <2>1, <2>4, <2>6 DEF LeftOK
<1>4. /\ DOMAIN job = Threads /\ JobShape(job[w]) /\ InHand(job[w]) /\ RemoteOK
      /\ told \subseteq Gids /\ Filling
  BY DEF MirrorInv
<1>5. job[w] = Idle
  BY <1>2, <1>4 DEF JobShape, JobAt
<1>6. i \in Ids
  BY <1>1, <1>2, FreeNumber
<1>7. told' \subseteq Gids
  BY <1>1, <1>4
<1>8. RemoteOK'
  BY <1>1, <1>4 DEF RemoteOK, NoSkus
<1>9. \A h \in Gids : Skus(h) \subseteq Skus(h)'
  BY <1>1, <1>4 DEF RemoteOK, Skus, Unmade, NoSkus
<1>10. /\ \A h \in Gids : remote[h] # Unmade => remote'[h] = remote[h]
       /\ made = "ok" => remote'[g] # Unmade /\ remote'[g].sku = NoSkus
  BY <1>1, <1>4 DEF RemoteOK, Unmade, Happens
<1>11. \A x \in Threads : At(x, "fill") => job[x].gid \in Gids
  BY DEF MirrorInv, JobShape, Holds, At
<1>12. CASE made # "ok"
  <2>1. UNCHANGED job
    BY <1>1, <1>12
  <2>2. Others(w) /\ JobShape(job[w])' /\ InHand(job[w])'
    BY <1>4, <1>5, <2>1 DEF Others, JobShape, InHand, Idle
  <2>3. Filling'
    BY <1>4, <1>10, <1>11, <2>1 DEF Filling, At
  <2> QED BY <1>2, <1>3, <1>7, <1>8, <1>9, <2>1, <2>2, <2>3, GrowingStep
<1>13. CASE made = "ok"
  <2>1. PICK q : q = [s \in sizes |-> i]
    OBVIOUS
  <2>2. Go(w, [do |-> "create", at |-> "fill", gid |-> g, id |-> i, sku |-> q])
    BY <1>1, <1>13, <2>1
  <2>3. DOMAIN q # {} /\ DOMAIN q \subseteq Sizes /\ \A s \in DOMAIN q : q[s] = i
    BY <2>1
  <2>4. /\ Others(w) /\ DOMAIN job'[w] = DOMAIN Idle
        /\ Keeps(w, {"do", "at", "gid", "id", "sku"})
        /\ job'[w].do = "create" /\ job'[w].at = "fill" /\ job'[w].gid = g
        /\ job'[w].id = i /\ job'[w].sku = q
    BY <1>5, <2>2, Going, Fields DEF Others, Keeps
  <2>5. JobShape(job[w])'
    BY <1>4, <1>5, <1>6, <2>3, <2>4, Fields DEF JobShape, JobAt, Holds, Takes, Keeps, Idle
  <2>6. InHand(job[w])'
    BY <2>4 DEF InHand
  <2>7. \A f \in {"put", "drop", "shed", "shelve", "struck"} : job'[w][f] = job[w][f]
    BY <2>4, Fields DEF Keeps
  <2>8. Filling'
    BY <1>4, <1>10, <1>11, <1>13, <1>1, <2>4 DEF Filling, At, Others
  <2>9. job[w].at # "write"
    BY <1>5 DEF Idle
  <2> QED BY <1>2, <1>3, <1>7, <1>8, <1>9, <2>4, <2>5, <2>6, <2>7, <2>8, <2>9, GrowingStep
<1> QED BY <1>12, <1>13

LEMMA StepFill ==
    ASSUME MirrorInv, NEW w \in Threads, FillVariants(w)
    PROVE  MirrorInv'
<1>1. /\ JobShape(job[w]) /\ job[w].at = "fill" /\ RemoteOK /\ Filling /\ told \subseteq Gids
      /\ UNCHANGED <<local, excused>>
  BY DEF MirrorInv, FillVariants, At
<1>2. PICK g \in Gids, q \in {job[w].sku}, o \in Outcomes :
          /\ g = job[w].gid
          /\ Outcome(o)
          /\ IF Happens(o) /\ Listed(g)
             THEN /\ remote' = [remote EXCEPT ![g].sku = q]
                  /\ told' = told \cup {g}
             ELSE UNCHANGED <<remote, told>>
          /\ Go(w, [at |-> IF Happens(o) /\ Listed(g) /\ o = "ok" THEN "finish" ELSE "unmake"])
  BY <1>1 DEF FillVariants, JobShape, Holds
<1>3. LeftOK'
  BY <1>2, SpendKeepsLeft DEF MirrorInv
<1>4. told' \subseteq Gids
  BY <1>1, <1>2
<1>5. job[w].id \in Ids /\ DOMAIN q \subseteq Sizes /\ \A s \in DOMAIN q : q[s] = job[w].id
  BY <1>1, <1>2 DEF JobShape
<1>6. RemoteOK'
  BY <1>1, <1>2, <1>5 DEF RemoteOK
<1>7. remote[g] # Unmade /\ remote[g].sku = NoSkus
      /\ \A x \in Threads \ {w} : At(x, "fill") => job[x].gid # g
  BY <1>1, <1>2 DEF Filling, At
<1>8. \A h \in Gids : Skus(h) \subseteq Skus(h)'
  BY <1>1, <1>2, <1>7 DEF RemoteOK, Skus, NoSkus
<1>9. /\ Others(w) /\ DOMAIN job'[w] = DOMAIN Idle /\ Keeps(w, {"at"})
      /\ job'[w].at \in {"finish", "unmake"}
      /\ job'[w].at = "finish" => Happens(o) /\ Listed(g)
  BY <1>1, <1>2, Going, Fields DEF Others, Keeps, JobShape
<1>10. JobShape(job[w])'
  BY <1>1, <1>9, Fields DEF JobShape, JobAt, Holds, Takes, Keeps, Idle
<1>11. InHand(job[w])'
  <2> SUFFICES ASSUME job'[w].at = "finish" PROVE InHand(job[w])'
    BY <1>9 DEF InHand
  <2>1. remote'[g].sku = q
    BY <1>1, <1>2, <1>9 DEF RemoteOK
  <2>2. job'[w].gid = g /\ job'[w].sku = q
    BY <1>2, <1>9, Fields DEF Keeps
  <2> QED BY <2>1, <2>2 DEF InHand, Skus
<1>12. \A f \in {"put", "drop", "shed", "shelve", "struck"} : job'[w][f] = job[w][f]
  BY <1>9, Fields DEF Keeps
<1>13. Filling'
  <2>1. \A x \in Threads : At(x, "fill") => job[x].gid \in Gids
    BY DEF MirrorInv, JobShape, Holds, At
  <2>2. \A h \in Gids \ {g} : remote'[h] = remote[h]
    BY <1>1, <1>2 DEF RemoteOK
  <2> QED BY <1>1, <1>7, <1>9, <2>1, <2>2 DEF Filling, At, Others
<1> QED BY <1>1, <1>3, <1>4, <1>6, <1>8, <1>9, <1>10, <1>11, <1>12, <1>13, GrowingStep

LEMMA StepUnmake ==
    ASSUME MirrorInv, NEW w \in Threads, Unmake(w)
    PROVE  MirrorInv'
<1>1. /\ JobShape(job[w]) /\ job[w].at = "unmake" /\ RemoteOK /\ Filling
      /\ UNCHANGED local /\ DOMAIN job = Threads /\ told' \subseteq Gids
  BY DEF MirrorInv, Unmake, At
<1>2. PICK g \in Gids, o \in Outcomes :
          /\ g = job[w].gid
          /\ Outcome(o)
          /\ remote' = IF Happens(o) THEN [remote EXCEPT ![g] = Gone] ELSE remote
          /\ excused' = IF Happens(o) THEN excused \cup Overtaken(w, g)
                                              \cup ((Labels(g) \cap rows) \X {"overtaken"})
                                      ELSE excused
  BY <1>1 DEF Unmake, JobShape, Holds
<1>3. job' = [job EXCEPT ![w] = Idle] /\ LeftOK'
  BY <1>2, SpendKeepsLeft DEF MirrorInv, Unmake
<1>4. job[w].do = "create" /\ job[w].struck = {}
  BY <1>1 DEF JobShape, JobAt, Idle, Takes
<1>5. CASE ~Happens(o)
  BY <1>1, <1>2, <1>3, <1>4, <1>5, HomeStep
<1>6. CASE Happens(o)
  <2>1. /\ Others(w) /\ job'[w] = Idle
    BY <1>1, <1>3 DEF Others
  <2>2. /\ JobShape(job[w])' /\ Taken(job[w])' /\ InHand(job[w])' /\ PutLive(job[w])'
        /\ Touched(job'[w]) = {} /\ job'[w].at = "none"
    BY IdleJob, <2>1
  <2>3. /\ remote'[g] = Gone /\ DOMAIN remote' = Gids
        /\ \A h \in Gids \ {g} : remote'[h] = remote[h]
    BY <1>1, <1>2, <1>6 DEF RemoteOK
  <2>4. RemoteOK'
    BY <1>1, <2>3 DEF RemoteOK, Gone, NoSkus
  <2>5. Filling'
    <3>1. \A x \in Threads : At(x, "fill") => job[x].gid \in Gids
      BY DEF MirrorInv, JobShape, Holds, At
    <3>2. Gone # Unmade /\ Gone.sku = NoSkus
      BY DEF Gone, Unmade
    <3>3. \A x \in Threads : At(x, "fill")' => At(x, "fill") /\ x # w
      BY <2>1, <2>2 DEF At, Others
    <3> QED BY <1>1, <2>1, <2>3, <3>1, <3>2, <3>3 DEF Filling, At, Others
  <2>6. \A h \in Gids \ {g} : Skus(h)' = Skus(h)
    BY <2>3 DEF Skus
  <2>7. \A v \in Ids \X Sizes : v \in Skus(g) => v[1] \in Labels(g)
    BY DEF Skus, Labels, LabelsOf
  <2>8. /\ \A i \in Labels(g), x \in Threads \ {w} :
              job[x].gid = g \/ i \in IdsOf(job[x].put) => Lasting(i)'
        /\ \A i \in Labels(g) \cap rows : Explained(i)'
    BY <1>2, <1>6 DEF Overtaken, Lasting, Explained, Excused
  <2>9. \A x \in Threads \ {w} : \A v \in Ids \X Sizes :
             job[x].gid \in Gids /\ v \in Skus(job[x].gid)
                => v \in Skus(job[x].gid)' \/ Lasting(v[1])'
    <3> SUFFICES ASSUME NEW x \in Threads \ {w}, NEW v \in Ids \X Sizes, job[x].gid \in Gids,
                        v \in Skus(job[x].gid)
                 PROVE  v \in Skus(job[x].gid)' \/ Lasting(v[1])'
      OBVIOUS
    <3>1. CASE job[x].gid = g
      BY <2>7, <2>8, <3>1
    <3>2. CASE job[x].gid # g
      BY <2>1, <2>3, <3>2 DEF Skus, Others
    <3> QED BY <3>1, <3>2
  <2>10. \A x \in Threads \ {w} : \A v \in job[x].put : Live(v) => Live(v)' \/ Lasting(v[1])'
    <3> SUFFICES ASSUME NEW x \in Threads \ {w}, NEW v \in job[x].put, NEW h \in Gids, v \in Skus(h)
                 PROVE  Live(v)' \/ Lasting(v[1])'
      BY DEF Live
    <3>1. v \in Ids \X Sizes /\ v[1] \in IdsOf(job[x].put)
      BY DEF MirrorInv, JobShape, IdsOf
    <3> QED BY <2>6, <2>7, <2>8, <3>1 DEF Live
  <2>11. \A v \in variants : Live(v) => Live(v)' \/ Explained(v[1])'
    <3> SUFFICES ASSUME NEW v \in variants, NEW h \in Gids, v \in Skus(h)
                 PROVE  Live(v)' \/ Explained(v[1])'
      BY DEF Live
    <3>1. v \in Ids \X Sizes /\ v[1] \in rows
      BY DEF MirrorInv
    <3> QED BY <2>6, <2>7, <2>8, <3>1 DEF Live
  <2>12. \A v \in variants : ~LeavesBy(job[w], v)
    BY <1>4 DEF LeavesBy
  <2>13. /\ DOMAIN job' = Threads /\ (\A x \in Threads \ {w} : job'[x] = job[x])
         /\ excused \subseteq excused'
         /\ \A x \in Threads \ {w} : Touched(job'[w]) \cap Touched(job[x]) = {}
    BY <1>2, <1>6, <2>1, <2>2 DEF Others
  <2> QED BY SafeStep, <1>1, <1>3, <2>2, <2>4, <2>5, <2>9, <2>10, <2>11, <2>12, <2>13, Zenon
<1> QED BY <1>5, <1>6

\* A thread that was idle begins to take something away.
LEMMA TakingStart ==
    ASSUME MirrorInv, NEW w \in Threads, UNCHANGED <<remote, told, local, excused>>, LeftOK',
           NEW do \in {"delete", "size", "archive", "reconcile"},
           NEW r, Begin(w, r), DOMAIN r \subseteq {"do", "at", "id", "known"},
           {"do", "at", "known"} \subseteq DOMAIN r,
           r.do = do, r.at = IF do = "reconcile" THEN "rows" ELSE "strike",
           do # "reconcile" => "id" \in DOMAIN r /\ \A v \in r.known : v[1] = r.id,
           do = "size" => \A u, v \in r.known : u = v
    PROVE  MirrorInv'
<1>1. JobShape(job[w]) /\ told' \subseteq Gids
  BY DEF MirrorInv
<1>2. job[w] = Idle
  BY <1>1 DEF Begin, JobShape, JobAt, Takes
<1>3. /\ Others(w) /\ DOMAIN job'[w] = DOMAIN Idle /\ Keeps(w, {"do", "at", "id", "known"})
      /\ job'[w].do = do /\ job'[w].at = r.at /\ job'[w].known = r.known
      /\ do # "reconcile" => job'[w].id = r.id
  BY <1>2, Going, Fields DEF Others, Keeps, Begin
<1>4. JobShape(job[w])'
  <2>1. JobAt(job'[w])
    BY <1>3 DEF JobAt
  <2>2. /\ job'[w].at \in {"rows", "strike"} /\ job'[w].gid = NoProduct /\ job'[w].sku = NoSkus
        /\ job'[w].put = {} /\ job'[w].struck = {} /\ job'[w].shed = {} /\ job'[w].shelve = {}
        /\ job'[w].todo = {}
    BY <1>2, <1>3, Fields DEF Keeps, Idle
  <2> QED BY <1>3, <2>1, <2>2 DEF JobShape, Holds, Takes, NoSkus
<1>5. InHand(job[w])' /\ job'[w].at # "fill"
  BY <1>3 DEF InHand
<1>6. \A f \in {"put", "drop", "shed", "shelve", "struck"} : job'[w][f] = job[w][f]
  BY <1>3, Fields DEF Keeps
<1>7. job[w].at # "write"
  BY <1>2 DEF Idle
<1> QED BY InnerStep, <1>1, <1>3, <1>4, <1>5, <1>6, <1>7

LEMMA StepStart ==
    ASSUME MirrorInv, NEW w \in Threads, LeftOK',
           DeleteProduct(w) \/ DeleteVariant(w) \/ ArchiveProduct(w) \/ Reconcile(w)
    PROVE  MirrorInv'
<1>1. CASE DeleteProduct(w)
  <2>1. PICK i \in rows :
          Begin(w, [do |-> "delete", at |-> "strike", id |-> i, known |-> VariantsOf(i)])
    BY <1>1 DEF DeleteProduct
  <2> DEFINE r == [do |-> "delete", at |-> "strike", id |-> i, known |-> VariantsOf(i)]
  <2>2. DOMAIN r = {"do", "at", "id", "known"} /\ r.do = "delete" /\ r.at = "strike" /\ r.id = i
        /\ \A v \in r.known : v[1] = i
    BY DEF VariantsOf
  <2>3. Begin(w, r)
    BY <2>1
  <2> HIDE DEF r
  <2> QED BY TakingStart, <1>1, <2>2, <2>3 DEF DeleteProduct
<1>2. CASE DeleteVariant(w)
  <2>1. PICK u \in variants :
          Begin(w, [do |-> "size", at |-> "strike", id |-> u[1], known |-> {u}])
    BY <1>2 DEF DeleteVariant
  <2> DEFINE r == [do |-> "size", at |-> "strike", id |-> u[1], known |-> {u}]
  <2>2. DOMAIN r = {"do", "at", "id", "known"} /\ r.do = "size" /\ r.at = "strike"
        /\ (\A v \in r.known : v[1] = r.id) /\ \A x, y \in r.known : x = y
    OBVIOUS
  <2>3. Begin(w, r)
    BY <2>1
  <2> HIDE DEF r
  <2> QED BY TakingStart, <1>2, <2>2, <2>3 DEF DeleteVariant
<1>3. CASE ArchiveProduct(w)
  <2>1. PICK i \in rows :
          Begin(w, [do |-> "archive", at |-> "strike", id |-> i, known |-> VariantsOf(i)])
    BY <1>3 DEF ArchiveProduct
  <2> DEFINE r == [do |-> "archive", at |-> "strike", id |-> i, known |-> VariantsOf(i)]
  <2>2. DOMAIN r = {"do", "at", "id", "known"} /\ r.do = "archive" /\ r.at = "strike" /\ r.id = i
        /\ \A v \in r.known : v[1] = i
    BY DEF VariantsOf
  <2>3. Begin(w, r)
    BY <2>1
  <2> HIDE DEF r
  <2> QED BY TakingStart, <1>3, <2>2, <2>3 DEF ArchiveProduct
<1>4. CASE Reconcile(w)
  <2> DEFINE r == [do |-> "reconcile", at |-> "rows", known |-> all_variant_skus]
  <2>1. DOMAIN r = {"do", "at", "known"} /\ r.do = "reconcile" /\ r.at = "rows"
    OBVIOUS
  <2>2. Begin(w, r)
    BY <1>4 DEF Reconcile
  <2> HIDE DEF r
  <2> QED BY TakingStart, <1>4, <2>1, <2>2 DEF Reconcile
<1> QED BY <1>1, <1>2, <1>3, <1>4

LEMMA StepReadProducts ==
    ASSUME MirrorInv, NEW w \in Threads, ReadProducts(w)
    PROVE  MirrorInv'
<1>1. /\ JobShape(job[w]) /\ job[w].at = "rows" /\ told' \subseteq Gids /\ LeftOK'
      /\ UNCHANGED <<remote, local, excused>>
  BY SpendKeepsLeft DEF MirrorInv, ReadProducts, At
<1>2. job[w].do = "reconcile" /\ job[w].struck = {}
  BY <1>1 DEF JobShape, JobAt, Idle
<1>3. CASE job' = [job EXCEPT ![w] = Idle]
  BY <1>1, <1>2, <1>3, HomeStep
<1>4. CASE \E T : Go(w, [at |-> "each", known |-> {}, todo |-> T])
  <2>1. PICK T : Go(w, [at |-> "each", known |-> {}, todo |-> T])
    BY <1>4
  <2>2. /\ Others(w) /\ DOMAIN job'[w] = DOMAIN Idle /\ Keeps(w, {"at", "known", "todo"})
        /\ job'[w].at = "each"
    BY <1>1, <2>1, Going, Fields DEF Others, Keeps, JobShape
  <2>3. JobShape(job[w])'
    BY <1>1, <1>2, <2>2, Fields DEF JobShape, JobAt, Holds, Takes, Keeps, Idle
  <2>4. InHand(job[w])'
    BY <2>2 DEF InHand
  <2>5. \A f \in {"put", "drop", "shed", "shelve", "struck"} : job'[w][f] = job[w][f]
    BY <2>2, Fields DEF Keeps
  <2> QED BY InnerStep, <1>1, <2>2, <2>3, <2>4, <2>5
<1> QED BY <1>3, <1>4 DEF ReadProducts

LEMMA StepEach ==
    ASSUME MirrorInv, NEW w \in Threads, EachVanished(w)
    PROVE  MirrorInv'
<1>1. /\ JobShape(job[w]) /\ job[w].at = "each" /\ told' \subseteq Gids /\ LeftOK'
      /\ UNCHANGED <<remote, local, excused>> /\ Taken(job[w]) /\ PutLive(job[w])
  BY SpendKeepsLeft DEF MirrorInv, EachVanished, At
<1>2. job[w].do = "reconcile"
  BY <1>1 DEF JobShape, JobAt, Idle
<1>3. CASE Go(w, [at |-> "commit"])
  <2>1. /\ Others(w) /\ DOMAIN job'[w] = DOMAIN Idle /\ Keeps(w, {"at"})
        /\ job'[w].at = "commit"
    BY <1>1, <1>3, Going, Fields DEF Others, Keeps, JobShape
  <2>2. JobShape(job[w])'
    BY <1>1, <1>2, <2>1, Fields DEF JobShape, JobAt, Holds, Takes, Keeps, Idle
  <2>3. InHand(job[w])'
    BY <2>1 DEF InHand
  <2>4. \A f \in {"put", "drop", "shed", "shelve", "struck"} : job'[w][f] = job[w][f]
    BY <2>1, Fields DEF Keeps
  <2> QED BY InnerStep, <1>1, <2>1, <2>2, <2>3, <2>4
<1>4. CASE \E i \in job[w].todo :
              Go(w, [at |-> "strike", id |-> i, known |-> VariantsOf(i), todo |-> job[w].todo \ {i}])
  <2>1. PICK i, T, K :
             i \in job[w].todo /\ Go(w, [at |-> "strike", id |-> i, known |-> K, todo |-> T])
             /\ K = VariantsOf(i) /\ T = job[w].todo \ {i}
    BY <1>4
  <2>2. /\ Others(w) /\ DOMAIN job'[w] = DOMAIN Idle /\ Keeps(w, {"at", "id", "known", "todo"})
        /\ job'[w].at = "strike" /\ job'[w].id = i /\ job'[w].known = K /\ job'[w].todo = T
    BY <1>1, <2>1, Going, Fields DEF Others, Keeps, JobShape
  <2>3. \A v \in K : v[1] = i
    BY <2>1 DEF VariantsOf
  <2>4. JobShape(job[w])'
    BY <1>1, <1>2, <2>1, <2>2, <2>3, Fields DEF JobShape, JobAt, Holds, Takes, Keeps, Idle
  <2>5. InHand(job[w])'
    BY <2>2 DEF InHand
  <2>6. \A f \in {"put", "drop", "shed", "shelve", "struck"} : job'[w][f] = job[w][f]
    BY <2>2, Fields DEF Keeps
  <2> QED BY InnerStep, <1>1, <2>2, <2>4, <2>5, <2>6
<1>5. CASE \E i \in job[w].todo :
              /\ sold_variant_ids(VariantsOf(i)) # {} /\ ~Locked(w, i)
              /\ Go(w, [todo |-> job[w].todo \ {i}, shelve |-> job[w].shelve \cup ({i} \ shelved)])
  <2>1. PICK i, T, H :
             /\ i \in job[w].todo /\ sold_variant_ids(VariantsOf(i)) # {} /\ ~Locked(w, i)
             /\ Go(w, [todo |-> T, shelve |-> H])
             /\ H = job[w].shelve \cup ({i} \ shelved) /\ T = job[w].todo \ {i}
    BY <1>5
  <2>2. /\ Others(w) /\ DOMAIN job'[w] = DOMAIN Idle /\ Keeps(w, {"todo", "shelve"})
        /\ job'[w].shelve = H /\ job'[w].todo = T
    BY <1>1, <2>1, Going, Fields DEF Others, Keeps, JobShape
  <2>3. JobShape(job[w])'
    BY <1>1, <1>2, <2>1, <2>2, Fields DEF JobShape, JobAt, Holds, Takes, Keeps, Idle
  <2>4. /\ job'[w].at = "each" /\ job'[w].put = job[w].put /\ job'[w].drop = job[w].drop
        /\ job'[w].shed = job[w].shed /\ job'[w].struck = job[w].struck
    BY <1>1, <2>2, Fields DEF Keeps
  <2>5. InHand(job[w])' /\ PutLive(job[w])'
    BY <1>1, <2>4 DEF InHand, PutLive, Live, Skus, Lasting, Excused
  <2>6. i \in rows
    BY <2>1 DEF MirrorInv, sold_variant_ids, VariantsOf
  <2>7. Taken(job[w])'
    BY <1>1, <2>1, <2>2, <2>4, <2>6 DEF Taken, VariantsOf, local
  <2>8. Touched(job'[w]) \subseteq Touched(job[w]) \cup {i}
    BY <2>1, <2>2, <2>4 DEF Touched
  <2>9. \A x \in Threads \ {w} : Touched(job'[w]) \cap Touched(job[x]) = {}
    BY <2>1, <2>8, TouchedApart
  <2>10. \A v \in variants : LeavesBy(job[w], v) => LeavesBy(job'[w], v)
    BY <1>1, <2>4 DEF LeavesBy
  <2>11. /\ DOMAIN job' = Threads /\ (\A x \in Threads \ {w} : job'[x] = job[x])
         /\ excused \subseteq excused' /\ job'[w].at # "fill"
    BY <1>1, <2>2, <2>4 DEF Others
  <2> QED BY QuietStep, <1>1, <2>3, <2>5, <2>7, <2>9, <2>10, <2>11, Zenon
<1> QED BY <1>3, <1>4, <1>5 DEF EachVanished

LEMMA StepWrite ==
    ASSUME MirrorInv, NEW w \in Threads, WriteRows(w)
    PROVE  MirrorInv'
<1>1. /\ JobShape(job[w]) /\ job[w].at = "write" /\ told' \subseteq Gids /\ LeftOK'
      /\ UNCHANGED <<remote, local>> /\ Taken(job[w]) /\ PutLive(job[w]) /\ ~Locked(w, job[w].id)
  BY SpendKeepsLeft DEF MirrorInv, WriteRows, At
<1>2. Takes(job[w])
  BY <1>1 DEF JobShape, JobAt, Idle, Takes
<1>3. PICK then \in {"each", "commit"} : then = IF job[w].do = "reconcile" THEN "each" ELSE "commit"
  OBVIOUS
<1>4. CASE job[w].do = "archive" /\ job[w].id \in rows
  <2>1. Go(w, [at |-> then, shelve |-> {job[w].id}]) /\ UNCHANGED excused
    BY <1>3, <1>4 DEF WriteRows
  <2>2. /\ Others(w) /\ DOMAIN job'[w] = DOMAIN Idle /\ Keeps(w, {"at", "shelve"})
        /\ job'[w].shelve = {job[w].id} /\ job'[w].at = "commit"
    BY <1>1, <1>3, <1>4, <2>1, Going, Fields DEF Others, Keeps, JobShape
  <2>3. JobShape(job[w])'
    BY <1>1, <1>4, <2>2, Fields DEF JobShape, JobAt, Holds, Takes, Keeps, Idle
  <2>4. /\ job'[w].put = job[w].put /\ job'[w].drop = job[w].drop
        /\ job'[w].shed = job[w].shed /\ job'[w].struck = job[w].struck
    BY <2>2, Fields DEF Keeps
  <2>5. InHand(job[w])' /\ PutLive(job[w])'
    BY <1>1, <2>1, <2>2, <2>4 DEF InHand, PutLive, Live, Skus, Lasting, Excused
  <2>6. Taken(job[w])'
    BY <1>1, <1>4, <2>2, <2>4 DEF Taken, VariantsOf, local
  <2>7. Touched(job'[w]) \subseteq Touched(job[w]) \cup {job[w].id}
    BY <2>2, <2>4 DEF Touched
  <2>8. \A x \in Threads \ {w} : Touched(job'[w]) \cap Touched(job[x]) = {}
    BY <1>1, <2>7, TouchedApart
  <2>9. \A v \in variants : ~LeavesBy(job[w], v)
    BY <1>1, <1>4 DEF LeavesBy, JobShape
  <2>10. /\ DOMAIN job' = Threads /\ (\A x \in Threads \ {w} : job'[x] = job[x])
         /\ excused \subseteq excused' /\ job'[w].at # "fill"
    BY <2>1, <2>2 DEF Others
  <2> QED BY QuietStep, <1>1, <2>3, <2>5, <2>6, <2>8, <2>9, <2>10, Zenon
<1>5. CASE /\ job[w].do # "archive"
           /\ Whole(job[w]) \/ job[w].id \in rows
           /\ sold_variant_ids(job[w].known) = {}
           /\ Whole(job[w]) => VariantsOf(job[w].id) \subseteq job[w].known
  <2>1. PICK D, S : /\ Go(w, [at |-> then, drop |-> D, shed |-> S])
                    /\ D = job[w].drop \cup job[w].known
                    /\ S = job[w].shed \cup IF Whole(job[w]) THEN {job[w].id} ELSE {}
                    /\ UNCHANGED excused
    BY <1>3, <1>5 DEF WriteRows, Whole
  <2>2. /\ Others(w) /\ DOMAIN job'[w] = DOMAIN Idle /\ Keeps(w, {"at", "drop", "shed"})
        /\ job'[w].drop = D /\ job'[w].shed = S /\ job'[w].at = then
    BY <1>1, <2>1, Going, Fields DEF Others, Keeps, JobShape
  <2>3. /\ job'[w].put = job[w].put /\ job'[w].shelve = job[w].shelve /\ job'[w].do = job[w].do
        /\ job'[w].struck = job[w].struck
    BY <2>2, Fields DEF Keeps
  <2>4. JobShape(job[w])'
    BY <1>1, <1>2, <1>3, <1>5, <2>1, <2>2, Fields DEF JobShape, JobAt, Holds, Takes, Keeps, Idle
  <2>5. InHand(job[w])' /\ PutLive(job[w])'
    BY <1>1, <1>3, <2>1, <2>2, <2>3 DEF InHand, PutLive, Live, Skus, Lasting, Excused
  <2>6. Taken(job[w])'
    BY <1>1, <1>5, <2>1, <2>2, <2>3 DEF Taken, VariantsOf, local, sold_variant_ids
  <2>7. Touched(job'[w]) \subseteq Touched(job[w]) \cup {job[w].id}
    BY <1>1, <2>1, <2>2, <2>3 DEF Touched, JobShape, IdsOf
  <2>8. \A x \in Threads \ {w} : Touched(job'[w]) \cap Touched(job[x]) = {}
    BY <1>1, <2>7, TouchedApart
  <2>9. \A v \in variants : LeavesBy(job[w], v) => LeavesBy(job'[w], v)
    BY <1>5, <2>1, <2>2, <2>3 DEF LeavesBy, VariantsOf
  <2>10. /\ DOMAIN job' = Threads /\ (\A x \in Threads \ {w} : job'[x] = job[x])
         /\ excused \subseteq excused' /\ job'[w].at # "fill"
    BY <1>3, <2>1, <2>2 DEF Others
  <2> QED BY QuietStep, <1>1, <2>4, <2>5, <2>6, <2>8, <2>9, <2>10, Zenon
<1>6. CASE Rollback(w)
  BY <1>1, <1>6, RolledBack
<1> QED BY <1>4, <1>5, <1>6 DEF WriteRows, Whole

\* The job after a call that took something away: on to the rows, or given up.
LEMMA StruckJob ==
    ASSUME MirrorInv, NEW w \in Threads, job[w].at = "strike", NEW S,
           job[w].do = "archive" => S = {},
           \/ Go(w, [at |-> "write", struck |-> S])
           \/ job' = [job EXCEPT ![w] = Idle]
    PROVE  /\ Others(w) /\ JobShape(job[w])' /\ InHand(job[w])' /\ PutLive(job[w])'
           /\ (Taken(job[w]) /\ UNCHANGED local => Taken(job[w])')
           /\ job'[w].at # "fill" /\ Touched(job'[w]) \subseteq Touched(job[w])
<1>1. JobShape(job[w]) /\ DOMAIN job = Threads
  BY DEF MirrorInv
<1>2. Takes(job[w]) /\ job[w].put = {}
  BY <1>1 DEF JobShape, JobAt, Idle, Takes
<1>3. CASE Go(w, [at |-> "write", struck |-> S])
  <2>1. /\ Others(w) /\ DOMAIN job'[w] = DOMAIN Idle /\ Keeps(w, {"at", "struck"})
        /\ job'[w].at = "write" /\ job'[w].struck = S
    BY <1>1, <1>3, Going, Fields DEF Others, Keeps, JobShape
  <2>2. /\ job'[w].put = {} /\ job'[w].shed = job[w].shed /\ job'[w].drop = job[w].drop
        /\ job'[w].shelve = job[w].shelve
    BY <1>2, <2>1, Fields DEF Keeps
  <2>3. JobShape(job[w])'
    BY <1>1, <1>2, <2>1, Fields DEF JobShape, JobAt, Holds, Takes, Keeps, Idle
  <2>4. InHand(job[w])' /\ PutLive(job[w])'
    BY <2>1, <2>2 DEF InHand, PutLive
  <2>5. Taken(job[w]) /\ UNCHANGED local => Taken(job[w])'
    BY <2>2 DEF Taken, VariantsOf, local
  <2> QED BY <1>2, <2>1, <2>2, <2>3, <2>4, <2>5 DEF Touched, IdsOf
<1>4. CASE job' = [job EXCEPT ![w] = Idle]
  <2>1. job'[w] = Idle /\ Others(w)
    BY <1>1, <1>4 DEF Others
  <2> QED BY <2>1, IdleJob
<1> QED BY <1>3, <1>4

\* Strike of product g, when outcome o comes of it.
StrikeProduct(w, g, o) ==
    LET refused == job[w].do = "size" /\ DOMAIN Struck(w, g).sku = {}
        takes == Happens(o) /\ ~refused
        removes == job[w].do # "archive"
        was == IF takes /\ removes
               THEN Overtaken(w, g) \cup Beside(w, g) \cup ({job[w].id} \X {"cut"})
               ELSE {} IN
    /\ remote' = IF takes THEN [remote EXCEPT ![g] = Struck(w, g)] ELSE remote
    /\ told' = IF takes /\ job[w].do = "size" /\ remote[g].status = "ACTIVE"
               THEN told \cup {g} ELSE told
    /\ IF takes /\ o = "ok"
       THEN /\ Go(w, [at |-> "write",
                      struck |-> job[w].struck \cup IF removes THEN {job[w].id} ELSE {}])
            /\ excused' = excused \cup (was \ ({job[w].id} \X {"cut"}))
       ELSE /\ job' = [job EXCEPT ![w] = Idle]
            /\ excused' = excused \cup was \cup (job[w].struck \X {"cut"})

LEMMA StepStrike ==
    ASSUME MirrorInv, NEW w \in Threads, Strike(w)
    PROVE  MirrorInv'
<1>1. /\ JobShape(job[w]) /\ job[w].at = "strike" /\ LeftOK'
      /\ UNCHANGED local /\ Taken(job[w]) /\ told \subseteq Gids /\ RemoteOK
  BY SpendKeepsLeft DEF MirrorInv, Strike, At
<1>2. Takes(job[w]) /\ job[w].put = {}
  BY <1>1 DEF JobShape, JobAt, Idle, Takes
<1>3. CASE Rollback(w) /\ UNCHANGED <<remote, told>>
  BY <1>1, <1>3, RolledBack
<1>4. CASE Go(w, [at |-> "write"]) /\ UNCHANGED <<remote, told, excused>>
  <2>1. /\ Others(w) /\ DOMAIN job'[w] = DOMAIN Idle /\ Keeps(w, {"at"}) /\ job'[w].at = "write"
    BY <1>1, <1>4, Going, Fields DEF Others, Keeps, JobShape
  <2>2. JobShape(job[w])'
    BY <1>1, <1>2, <2>1, Fields DEF JobShape, JobAt, Holds, Takes, Keeps, Idle
  <2>3. InHand(job[w])'
    BY <2>1 DEF InHand
  <2>4. \A f \in {"put", "drop", "shed", "shelve", "struck"} : job'[w][f] = job[w][f]
    BY <2>1, Fields DEF Keeps
  <2> QED BY InnerStep, <1>1, <1>4, <2>1, <2>2, <2>3, <2>4
<1>5. CASE \E v \in job[w].known : \E g \in product_gid_for_variant_id(v), o \in Outcomes :
               StrikeProduct(w, g, o)
  <2> PICK v \in job[w].known : \E g \in product_gid_for_variant_id(v), o \in Outcomes :
              StrikeProduct(w, g, o)
    BY <1>5
  <2>0. PICK g \in product_gid_for_variant_id(v), o \in Outcomes : StrikeProduct(w, g, o)
    OBVIOUS
  <2> PICK K, i : K = Struck(w, g) /\ i = job[w].id
    OBVIOUS
  <2> PICK takes \in BOOLEAN :
             takes = (Happens(o) /\ ~(job[w].do = "size" /\ DOMAIN K.sku = {}))
    OBVIOUS
  <2> PICK S, was :
          /\ S = job[w].struck \cup IF job[w].do # "archive" THEN {i} ELSE {}
          /\ was = IF takes /\ job[w].do # "archive"
                   THEN Overtaken(w, g) \cup Beside(w, g) \cup ({i} \X {"cut"}) ELSE {}
    OBVIOUS
  <2>1. /\ i = job[w].id /\ K = Struck(w, g)
        /\ S = job[w].struck \cup IF job[w].do # "archive" THEN {i} ELSE {}
        /\ was = IF takes /\ job[w].do # "archive"
                 THEN Overtaken(w, g) \cup Beside(w, g) \cup ({i} \X {"cut"}) ELSE {}
        /\ remote' = IF takes THEN [remote EXCEPT ![g] = K] ELSE remote
        /\ told' \subseteq told \cup {g}
        /\ IF takes /\ o = "ok"
           THEN /\ Go(w, [at |-> "write", struck |-> S])
                /\ excused' = excused \cup (was \ ({i} \X {"cut"}))
           ELSE /\ job' = [job EXCEPT ![w] = Idle]
                /\ excused' = excused \cup was \cup (job[w].struck \X {"cut"})
    BY <2>0 DEF StrikeProduct
  <2>2. g \in Gids /\ v \in Skus(g) /\ v[1] = i
    BY <1>1, <2>1 DEF product_gid_for_variant_id, JobShape
  <2>3. told' \subseteq Gids
    BY <1>1, <2>1, <2>2
  <2>4. CASE ~takes
    <3>1. /\ UNCHANGED remote /\ job' = [job EXCEPT ![w] = Idle]
          /\ excused' = excused \cup (job[w].struck \X {"cut"})
      BY <2>1, <2>4
    <3>2. \A k \in job[w].struck : Explained(k)'
      BY <3>1 DEF Explained, Excused
    <3> QED BY <1>1, <2>3, <3>1, <3>2, HomeStep
  <2>5. CASE takes
    <3>1. /\ remote'[g] = K /\ DOMAIN remote' = Gids
          /\ \A h \in Gids \ {g} : remote'[h] = remote[h]
      BY <1>1, <2>1, <2>2, <2>5 DEF RemoteOK
    <3>2. \/ job[w].do = "archive" /\ K = [remote[g] EXCEPT !.status = "ARCHIVED"]
          \/ /\ job[w].do = "size"
             /\ K = [remote[g] EXCEPT !.sku =
                       [s \in {t \in DOMAIN @ : <<@[t], t>> \notin job[w].known} |-> @[s]]]
          \/ Whole(job[w]) /\ K = Gone
      BY <1>2, <2>1 DEF Struck, Takes, Whole
    <3>3. RemoteOK'
      <4>1. /\ DOMAIN K = {"status", "sku"}
            /\ K.status \in {"none", "ACTIVE", "ARCHIVED", "gone"}
            /\ DOMAIN K.sku \subseteq Sizes
            /\ \A s \in DOMAIN K.sku : K.sku[s] \in Ids \cup {Blank, Foreign}
        <5>1. CASE K = [remote[g] EXCEPT !.status = "ARCHIVED"]
          BY <1>1, <2>2, <5>1 DEF RemoteOK
        <5>2. CASE K = [remote[g] EXCEPT !.sku =
                          [s \in {t \in DOMAIN @ : <<@[t], t>> \notin job[w].known} |-> @[s]]]
          BY <1>1, <2>2, <5>2 DEF RemoteOK
        <5>3. CASE K = Gone
          BY <5>3 DEF Gone, NoSkus
        <5> QED BY <3>2, <5>1, <5>2, <5>3
      <4> QED BY <1>1, <3>1, <4>1 DEF RemoteOK
    <3>4. /\ job[w].do = "archive" => Skus(g)' = Skus(g)
          /\ job[w].do = "size" => \A u \in Skus(g) : u \notin job[w].known => u \in Skus(g)'
      <4>1. CASE job[w].do = "archive"
        <5>1. K.sku = remote[g].sku
          BY <1>1, <2>2, <3>2, <4>1 DEF RemoteOK, Whole
        <5> QED BY <3>1, <4>1, <5>1 DEF Skus
      <4>2. CASE job[w].do = "size"
        <5>1. K.sku = [s \in {t \in DOMAIN remote[g].sku : <<remote[g].sku[t], t>> \notin job[w].known}
                           |-> remote[g].sku[s]]
          BY <1>1, <2>2, <3>2, <4>2 DEF RemoteOK, Whole
        <5> QED BY <3>1, <4>2, <5>1 DEF Skus
      <4> QED BY <4>1, <4>2
    <3>5. \A h \in Gids \ {g} : Skus(h)' = Skus(h)
      BY <3>1 DEF Skus
    <3>6. /\ Others(w) /\ JobShape(job[w])' /\ InHand(job[w])' /\ PutLive(job[w])'
          /\ Taken(job[w])'
          /\ job'[w].at # "fill" /\ Touched(job'[w]) \subseteq Touched(job[w])
      <4>1. job[w].do = "archive" => S = {}
        BY <1>1, <2>1 DEF JobShape
      <4> QED BY <1>1, <2>1, <4>1, StruckJob
    <3>7. Filling'
      <4>1. \A x \in Threads : At(x, "fill") => job[x].gid \in Gids
        BY DEF MirrorInv, JobShape, Holds, At
      <4>2. \A x \in Threads : At(x, "fill") => job[x].gid # g
        BY <2>2 DEF MirrorInv, Filling, Skus, NoSkus
      <4>3. \A x \in Threads : At(x, "fill")' => At(x, "fill") /\ x # w
        BY <3>6 DEF At, Others
      <4> QED BY <3>1, <3>6, <4>1, <4>2, <4>3 DEF MirrorInv, Filling, At, Others
    <3>8. \A u \in Ids \X Sizes : u \in Skus(g) => u[1] \in Labels(g)
      BY DEF Skus, Labels, LabelsOf
    <3>9. job[w].do # "archive" => \A k \in Labels(g), x \in Threads \ {w} :
                 job[x].gid = g \/ k \in IdsOf(job[x].put) => Lasting(k)'
      <4> SUFFICES ASSUME job[w].do # "archive", NEW k \in Labels(g), NEW x \in Threads \ {w},
                          job[x].gid = g \/ k \in IdsOf(job[x].put)
                   PROVE  Lasting(k)'
        OBVIOUS
      <4>1. <<k, "overtaken">> \in Overtaken(w, g)
        BY DEF Overtaken
      <4>2. <<k, "overtaken">> \notin {i} \X {"cut"}
        OBVIOUS
      <4>3. <<k, "overtaken">> \in excused'
        BY <2>1, <2>5, <4>1, <4>2
      <4> QED BY <4>3 DEF Lasting, Excused
    <3>10. \A x \in Threads \ {w} : \A u \in Ids \X Sizes :
               job[x].gid \in Gids /\ u \in Skus(job[x].gid)
                  => u \in Skus(job[x].gid)' \/ Lasting(u[1])'
      <4> SUFFICES ASSUME NEW x \in Threads \ {w}, NEW u \in Ids \X Sizes, job[x].gid \in Gids,
                          u \in Skus(job[x].gid)
                   PROVE  u \in Skus(job[x].gid)' \/ Lasting(u[1])'
        OBVIOUS
      <4>0. job'[x] = job[x]
        BY <3>6 DEF Others
      <4>1. CASE job[x].gid = g /\ job[w].do = "archive"
        BY <3>4, <4>0, <4>1 DEF Skus
      <4>2. CASE job[x].gid = g /\ job[w].do # "archive"
        BY <3>8, <3>9, <4>2
      <4>3. CASE job[x].gid # g
        BY <3>1, <4>0, <4>3 DEF Skus
      <4> QED BY <4>1, <4>2, <4>3
    <3>11. \A x \in Threads \ {w} : \A u \in job[x].put : Live(u) => Live(u)' \/ Lasting(u[1])'
      <4> SUFFICES ASSUME NEW x \in Threads \ {w}, NEW u \in job[x].put, NEW h \in Gids, u \in Skus(h)
                   PROVE  Live(u)' \/ Lasting(u[1])'
        BY DEF Live
      <4>1. u \in Ids \X Sizes /\ u[1] \in IdsOf(job[x].put)
        BY DEF MirrorInv, JobShape, IdsOf
      <4> QED BY <2>2, <3>4, <3>5, <3>8, <3>9, <4>1 DEF Live
    <3>12. \A u \in variants : u[1] \notin shelved /\ (Live(u) \/ LeavesBy(job[w], u)) =>
               Live(u)' \/ Explained(u[1])' \/ LeavesBy(job'[w], u)
      <4>1. CASE o = "ok"
        <5>1. Go(w, [at |-> "write", struck |-> S]) /\ excused' = excused \cup (was \ ({i} \X {"cut"}))
          BY <2>1, <2>5, <4>1
        <5>2. /\ job'[w].at = "write" /\ job'[w].struck = S /\ job'[w].drop = job[w].drop
              /\ job'[w].id = i /\ job'[w].do = job[w].do /\ job'[w].known = job[w].known
          BY <1>1, <2>1, <5>1, Going, Fields DEF JobShape
        <5>3. \A u : LeavesBy(job[w], u) => LeavesBy(job'[w], u)
          BY <1>1, <2>1, <5>2 DEF LeavesBy
        <5> SUFFICES ASSUME NEW u \in variants, NEW h \in Gids, u \in Skus(h), ~Live(u)'
                     PROVE  Explained(u[1])' \/ LeavesBy(job'[w], u)
          BY <5>3 DEF Live
        <5>4. h = g /\ u \notin Skus(g)' /\ job[w].do # "archive"
          BY <2>2, <3>4, <3>5 DEF Live
        <5>5. u \in Ids \X Sizes /\ u[1] \in Labels(g)
          BY <3>8, <5>4 DEF MirrorInv
        <5>6. CASE job[w].do = "size"
          <6>1. u \in job[w].known /\ u[1] = i
            BY <1>1, <2>1, <3>4, <5>4, <5>6 DEF JobShape
          <6> QED BY <2>1, <5>2, <5>4, <6>1 DEF LeavesBy
        <5>7. CASE Whole(job[w]) /\ u[1] = i
          BY <2>1, <5>2, <5>4, <5>7 DEF LeavesBy, Whole
        <5>8. CASE Whole(job[w]) /\ u[1] # i
          <6>1. K = Gone
            BY <3>2, <5>8 DEF Whole
          <6>2. <<u[1], "shared">> \in Beside(w, g)
            BY <2>1, <5>5, <5>8, <6>1 DEF Beside, LabelsOf, Gone, NoSkus
          <6>3. <<u[1], "shared">> \in excused'
            BY <2>1, <2>5, <5>1, <5>4, <6>2
          <6> QED BY <6>3 DEF Explained, Excused
        <5> QED BY <3>2, <5>4, <5>6, <5>7, <5>8
      <4>2. CASE o # "ok"
        <5>1. excused' = excused \cup was \cup (job[w].struck \X {"cut"})
          BY <2>1, <2>5, <4>2
        <5>2. \A u : LeavesBy(job[w], u) => Explained(u[1])'
          BY <5>1 DEF LeavesBy, Explained, Excused
        <5> SUFFICES ASSUME NEW u \in variants, NEW h \in Gids, u \in Skus(h), ~Live(u)'
                     PROVE  Explained(u[1])'
          BY <5>2 DEF Live
        <5>4. h = g /\ u \notin Skus(g)' /\ job[w].do # "archive"
          BY <2>2, <3>4, <3>5 DEF Live
        <5>5. u \in Ids \X Sizes /\ u[1] \in Labels(g)
          BY <3>8, <5>4 DEF MirrorInv
        <5>6. CASE u[1] = i
          <6>1. <<u[1], "cut">> \in excused'
            BY <2>1, <2>5, <5>1, <5>4, <5>6
          <6> QED BY <6>1 DEF Explained, Excused
        <5>7. CASE u[1] # i
          <6>1. Whole(job[w])
            BY <1>1, <2>1, <3>2, <3>4, <5>4, <5>7 DEF JobShape
          <6>2. K = Gone
            BY <3>2, <6>1 DEF Whole
          <6>3. <<u[1], "shared">> \in Beside(w, g)
            BY <2>1, <5>5, <5>7, <6>2 DEF Beside, LabelsOf, Gone, NoSkus
          <6>4. <<u[1], "shared">> \in excused'
            BY <2>1, <2>5, <5>1, <5>4, <6>3
          <6> QED BY <6>4 DEF Explained, Excused
        <5> QED BY <5>6, <5>7
      <4> QED BY <4>1, <4>2
    <3>13. /\ DOMAIN job' = Threads /\ (\A x \in Threads \ {w} : job'[x] = job[x])
           /\ excused \subseteq excused'
           /\ \A x \in Threads \ {w} : Touched(job'[w]) \cap Touched(job[x]) = {}
      BY <2>1, <2>5, <3>6, TouchedApart DEF Others
    <3> QED BY SafeStep, <1>1, <2>3, <3>3, <3>6, <3>7, <3>10, <3>11, <3>12, <3>13, Zenon
  <2> QED BY <2>4, <2>5
<1> QED BY <1>3, <1>4, <1>5 DEF Strike, StrikeProduct

LEMMA StepCommit ==
    ASSUME MirrorInv, NEW w \in Threads, Commit(w)
    PROVE  MirrorInv'
<1>1. /\ JobShape(job[w]) /\ Taken(job[w]) /\ PutLive(job[w]) /\ UNCHANGED <<remote, told>>
      /\ told \subseteq Gids /\ RemoteOK /\ DOMAIN job = Threads
      /\ job[w].at = "commit" \/ job[w].at = "detail"
  BY DEF MirrorInv, Commit, At
<1>2. CASE Spend("commit_fails") /\ Rollback(w) /\ UNCHANGED local
  BY <1>1, <1>2, SpendKeepsLeft, RolledBack DEF MirrorInv
<1>3. CASE /\ rows' = (rows \ job[w].shed) \cup IdsOf(job[w].put)
           /\ variants' = (variants \ job[w].drop) \cup job[w].put
           /\ shelved' = (shelved \ job[w].shed) \cup job[w].shelve
           /\ job' = [job EXCEPT ![w] = Idle]
           /\ excused' = {e \in excused : e[1] \notin job[w].shed \/ e[2] # "cut"}
           /\ UNCHANGED <<left, sold>>
  <2>1. /\ Others(w) /\ job'[w] = Idle
    BY <1>1, <1>3 DEF Others
  <2>2. /\ JobShape(job[w])' /\ Taken(job[w])' /\ InHand(job[w])' /\ PutLive(job[w])'
        /\ Touched(job'[w]) = {} /\ job'[w].at = "none"
    BY IdleJob, <2>1
  <2>3. /\ \A i : Lasting(i) => Lasting(i)'
        /\ \A i : i \notin job[w].shed /\ Explained(i) => Explained(i)'
        /\ \A i : Lasting(i)' => Explained(i)'
    BY <1>3 DEF Lasting, Explained, Excused
  <2>4. \A x \in Threads : JobShape(job[x])
    BY DEF MirrorInv
  <2>5. \A x \in Threads : JobShape(job[x])'
    BY <2>1, <2>2, <2>4 DEF Others, JobShape
  <2>6. \A x \in Threads : PutLive(job[x])'
    BY <1>1, <2>1, <2>2, <2>3 DEF MirrorInv, PutLive, Others, Live, Skus
  <2>7. \A x \in Threads : InHand(job[x])'
    BY <1>1, <2>1, <2>2, <2>3 DEF MirrorInv, InHand, Others, Skus
  <2>8. rows' \subseteq Ids /\ shelved' \subseteq rows' /\ variants' \subseteq rows' \X Sizes
        /\ sold' \subseteq variants'
    <3>1. IdsOf(job[w].put) \subseteq Ids
      BY <1>1 DEF JobShape, IdsOf
    <3>2. job[w].shelve \subseteq rows /\ job[w].shelve \cap job[w].shed = {}
      BY <1>1 DEF JobShape, Taken
    <3>3. \A v \in variants \ job[w].drop : v[1] \in rows \ job[w].shed /\ v \in rows \X Sizes
      BY <1>1 DEF MirrorInv, Taken, VariantsOf
    <3>4. \A v \in job[w].put : v[1] \in IdsOf(job[w].put) /\ v \in Ids \X Sizes
      BY <1>1 DEF JobShape, IdsOf
    <3>5. rows \subseteq Ids /\ shelved \subseteq rows /\ sold \subseteq variants
      BY DEF MirrorInv
    <3>6. \A v \in (variants \ job[w].drop) \cup job[w].put : v \in rows' \X Sizes
      BY <1>3, <3>3, <3>4
    <3>7. sold \cap job[w].drop = {}
      BY <1>1 DEF Taken
    <3> QED BY <1>3, <3>1, <3>2, <3>5, <3>6, <3>7
  <2>9. \A x \in Threads : Taken(job[x])'
    <3> SUFFICES ASSUME NEW x \in Threads \ {w} PROVE Taken(job[x])'
      BY <2>2
    <3>1. Touched(job[w]) \cap Touched(job[x]) = {} /\ Taken(job[x]) /\ job'[x] = job[x]
      BY <2>1 DEF MirrorInv, Apart, Others
    <3>2. \A i \in job[x].shed : VariantsOf(i)' \subseteq job[x].drop
      <4> SUFFICES ASSUME NEW i \in job[x].shed, NEW v \in variants', v[1] = i
                   PROVE  v \in job[x].drop
        BY DEF VariantsOf
      <4>1. v \notin job[w].put
        BY <3>1 DEF Touched, IdsOf
      <4> QED BY <1>3, <3>1, <4>1 DEF Taken, VariantsOf
    <3>3. job[x].shelve \subseteq rows'
      BY <1>3, <3>1 DEF Taken, Touched
    <3> QED BY <1>3, <3>1, <3>2, <3>3 DEF Taken
  <2>10. Apart'
    BY <2>1, <2>2 DEF MirrorInv, Apart, Others
  <2>11. Filling'
    BY <1>1, <2>1, <2>2 DEF MirrorInv, Filling, At, Others
  <2>12. Backed'
    <3> SUFFICES ASSUME NEW v \in variants', v[1] \notin shelved'
                 PROVE  Live(v)' \/ Explained(v[1])' \/ Leaving(v)'
      BY DEF Backed
    <3>1. Live(v) => Live(v)'
      BY <1>1 DEF Live, Skus
    <3>2. CASE v \in job[w].put
      BY <1>1, <2>3, <3>1, <3>2 DEF PutLive
    <3>3. CASE v \in variants \ job[w].drop
      <4>1. v[1] \notin job[w].shed
        BY <1>1, <3>3 DEF Taken, VariantsOf
      <4>2. v[1] \notin shelved
        BY <1>3, <4>1
      <4>3. Live(v) \/ Explained(v[1]) \/ Leaving(v)
        BY <3>3, <4>2 DEF MirrorInv, Backed
      <4>4. Leaving(v) => Leaving(v)'
        <5>1. ~LeavesBy(job[w], v)
          BY <1>1, <3>3 DEF LeavesBy
        <5> QED BY <2>1, <5>1 DEF Leaving, Others
      <4> QED BY <2>3, <3>1, <4>1, <4>3, <4>4
    <3> QED BY <1>3, <3>2, <3>3
  <2>13. RemoteOK' /\ told' \subseteq Gids /\ LeftOK' /\ DOMAIN job' = Threads
    BY <1>1, <1>3, <2>1 DEF MirrorInv, RemoteOK, LeftOK, Others
  <2> QED BY <2>5, <2>6, <2>7, <2>8, <2>9, <2>10, <2>11, <2>12, <2>13 DEF MirrorInv
<1> QED BY <1>2, <1>3 DEF Commit

LEMMA ShopLeft == ASSUME LeftOK, left.shop > 0, left' = [left EXCEPT !.shop = @ - 1] PROVE LeftOK'
BY ProductMirrorAssumption DEF LeftOK

LEMMA StaffLeft == ASSUME LeftOK, left.staff > 0, left' = [left EXCEPT !.staff = @ - 1] PROVE LeftOK'
BY ProductMirrorAssumption DEF LeftOK

LEMMA StepShop ==
    ASSUME MirrorInv, Shop
    PROVE  MirrorInv'
<1> DEFINE w == Scheduler
<1>0. w \in Threads
  BY DEF Threads
<1> HIDE DEF w
<1>1. LeftOK' /\ UNCHANGED <<local, job>> /\ RemoteOK /\ told \subseteq Gids /\ Filling
  BY ShopLeft DEF MirrorInv, Shop, ShopCreates, ShopAddsSize, ShopDeletes
<1>2. /\ Others(w) /\ JobShape(job[w])' /\ DOMAIN job = Threads
      /\ \A x \in Threads : At(x, "fill") => job[x].gid \in Gids
  BY <1>0, <1>1 DEF MirrorInv, Others, JobShape, Holds, At
<1>3. CASE ShopCreates
  <2>0. PICK g \in {h \in Gids : remote[h] = Unmade}, sizes \in (SUBSET Sizes) \ {{}},
             label \in {Blank, Foreign} :
          /\ remote' = [remote EXCEPT ![g] = [status |-> "ACTIVE", sku |-> [s \in sizes |-> label]]]
          /\ told' = told \cup {g}
    BY <1>3 DEF ShopCreates
  <2> PICK q : q = [s \in sizes |-> label]
    OBVIOUS
  <2>1. /\ remote' = [remote EXCEPT ![g] = [status |-> "ACTIVE", sku |-> q]]
        /\ told' = told \cup {g}
        /\ DOMAIN q \subseteq Sizes /\ \A s \in DOMAIN q : q[s] \in {Blank, Foreign}
    BY <2>0
  <2>2. RemoteOK' /\ told' \subseteq Gids
    BY <1>1, <2>1 DEF RemoteOK
  <2>3. \A h \in Gids : Skus(h) \subseteq Skus(h)'
    BY <1>1, <2>1 DEF RemoteOK, Skus, Unmade, NoSkus
  <2>4. \A h \in Gids : remote[h] # Unmade => remote'[h] = remote[h]
    BY <1>1, <2>1 DEF RemoteOK
  <2>5. Filling'
    BY <1>1, <1>2, <2>4 DEF Filling, At
  <2>6. InHand(job[w])'
    <3>1. InHand(job[w]) /\ JobShape(job[w])
      BY <1>0 DEF MirrorInv
    <3> QED BY <1>1, <1>3, <2>3, <3>1 DEF InHand, Lasting, Excused, JobShape, Holds, ShopCreates
  <2>7. \A f \in {"put", "drop", "shed", "shelve", "struck"} : job'[w][f] = job[w][f]
    BY <1>1
  <2> QED BY <1>0, <1>1, <1>2, <1>3, <2>2, <2>3, <2>5, <2>6, <2>7, GrowingStep DEF ShopCreates
<1>4. CASE ShopAddsSize
  <2>1. PICK g, s, q :
          /\ g \in {h \in Gids : remote[h].status = "ACTIVE" /\ remote[h].sku # NoSkus}
          /\ s \in Sizes /\ s \notin DOMAIN remote[g].sku
          /\ remote' = [remote EXCEPT ![g].sku = q]
          /\ told' = told \cup {g}
          /\ q = [t \in DOMAIN remote[g].sku \cup {s} |-> IF t = s THEN Blank ELSE remote[g].sku[t]]
    BY <1>4 DEF ShopAddsSize
  <2>2. RemoteOK' /\ told' \subseteq Gids
    BY <1>1, <2>1 DEF RemoteOK
  <2>3. \A h \in Gids \ {g} : remote'[h] = remote[h]
    BY <1>1, <2>1 DEF RemoteOK
  <2>4. remote'[g].sku = q
    BY <1>1, <2>1 DEF RemoteOK
  <2>5. \A h \in Gids : Skus(h) \subseteq Skus(h)'
    BY <2>1, <2>3, <2>4 DEF Skus
  <2>6. Filling'
    BY <1>1, <1>2, <2>1, <2>3 DEF Filling, At
  <2>7. InHand(job[w])'
    <3>1. InHand(job[w]) /\ JobShape(job[w])
      BY <1>0 DEF MirrorInv
    <3> QED BY <1>1, <1>4, <2>5, <3>1 DEF InHand, Lasting, Excused, JobShape, Holds, ShopAddsSize
  <2>8. \A f \in {"put", "drop", "shed", "shelve", "struck"} : job'[w][f] = job[w][f]
    BY <1>1
  <2> QED BY <1>0, <1>1, <1>2, <1>4, <2>2, <2>5, <2>6, <2>7, <2>8, GrowingStep DEF ShopAddsSize
<1>5. CASE ShopDeletes
  <2>1. PICK g \in Gids : /\ Listed(g) /\ remote' = [remote EXCEPT ![g] = Gone]
                          /\ excused' = excused \cup (Labels(g) \X {"shop"})
    BY <1>5 DEF ShopDeletes
  <2>2. /\ remote'[g] = Gone /\ DOMAIN remote' = Gids
        /\ \A h \in Gids \ {g} : remote'[h] = remote[h]
    BY <1>1, <2>1 DEF RemoteOK
  <2>3. RemoteOK'
    BY <1>1, <2>2 DEF RemoteOK, Gone, NoSkus
  <2>4. Gone # Unmade /\ Gone.sku = NoSkus
    BY DEF Gone, Unmade
  <2>5. Filling'
    BY <1>1, <1>2, <2>2, <2>4 DEF Filling, At
  <2>6. \A i \in Labels(g) : Lasting(i)'
    BY <2>1 DEF Lasting, Excused
  <2>7. /\ \A h \in Gids, v \in Ids \X Sizes : v \in Skus(h) => v \in Skus(h)' \/ Lasting(v[1])'
        /\ \A v \in Ids \X Sizes : Live(v) => Live(v)' \/ Lasting(v[1])'
    BY <2>2, <2>6, Stranded
  <2>8. \A i : Lasting(i) => Lasting(i)'
    BY <2>1 DEF Lasting, Excused
  <2>9. \A i : Lasting(i)' => Explained(i)'
    BY DEF Lasting, Explained, Excused
  <2>10. Taken(job[w])' /\ PutLive(job[w])'
    BY <1>0, <1>1, <2>7, <2>8 DEF MirrorInv, JobShape, Taken, PutLive, VariantsOf, local
  <2>11. InHand(job[w])'
    <3>1. InHand(job[w]) /\ JobShape(job[w])
      BY <1>0 DEF MirrorInv
    <3> SUFFICES ASSUME job[w].at \in {"decide", "row", "flush", "finish"},
                        NEW s \in DOMAIN job[w].sku, job[w].sku[s] \in Ids
                 PROVE  <<job[w].sku[s], s>> \in Skus(job[w].gid)' \/ Lasting(job[w].sku[s])'
      BY <1>1 DEF InHand
    <3>2. PICK v \in Ids \X Sizes, h \in Gids : v = <<job[w].sku[s], s>> /\ h = job[w].gid
      BY <3>1 DEF JobShape, Holds
    <3>3. v[1] = job[w].sku[s] /\ (v \in Skus(h) \/ Lasting(v[1]))
      BY <3>1, <3>2 DEF InHand
    <3> QED BY <1>1, <2>7, <2>8, <3>2, <3>3 DEF Skus
  <2>12. \A x \in Threads \ {w} : Touched(job'[w]) \cap Touched(job[x]) = {}
    BY <1>0, <1>1 DEF MirrorInv, Apart
  <2>13. \A x \in Threads \ {w} : \A v \in Ids \X Sizes :
              job[x].gid \in Gids /\ v \in Skus(job[x].gid)
                 => v \in Skus(job[x].gid)' \/ Lasting(v[1])'
    BY <1>1, <2>7 DEF Skus
  <2>14. \A x \in Threads \ {w} : \A v \in job[x].put : Live(v) => Live(v)' \/ Lasting(v[1])'
    BY <2>7 DEF MirrorInv, JobShape
  <2>15. \A v \in variants : v[1] \notin shelved /\ (Live(v) \/ LeavesBy(job[w], v)) =>
               Live(v)' \/ Explained(v[1])' \/ LeavesBy(job'[w], v)
    BY <1>1, <2>7, <2>9 DEF MirrorInv
  <2>16. /\ DOMAIN job' = Threads /\ (\A x \in Threads \ {w} : job'[x] = job[x])
         /\ excused \subseteq excused' /\ told' \subseteq Gids
    BY <1>1, <1>2, <1>5, <2>1 DEF ShopDeletes
  <2> QED BY SafeStep, <1>0, <1>1, <1>2, <2>3, <2>5, <2>10, <2>11, <2>12, <2>13, <2>14, <2>15,
             <2>16, Zenon
<1> QED BY <1>3, <1>4, <1>5 DEF Shop

LEMMA StepSale ==
    ASSUME MirrorInv, Sale
    PROVE  MirrorInv'
<1>1. PICK v \in variants : /\ \A w \in Threads : v \notin job[w].drop
                            /\ sold' = sold \cup {v}
  BY DEF Sale
<1>2. LeftOK' /\ UNCHANGED <<remote, told, rows, variants, shelved, job, excused>>
  BY ShopLeft DEF MirrorInv, Sale
<1>3. sold' \subseteq variants'
  BY <1>1, <1>2 DEF MirrorInv
<1>4. \A w \in Threads : Taken(job[w])'
  BY <1>1, <1>2 DEF MirrorInv, Taken, VariantsOf
<1>5. \A w \in Threads : JobShape(job[w])' /\ InHand(job[w])' /\ PutLive(job[w])'
  BY <1>2 DEF MirrorInv, JobShape, InHand, PutLive, Live, Skus, Lasting, Excused
<1>6. Apart' /\ Filling'
  BY <1>2 DEF MirrorInv, Apart, Filling, At
<1>7. Backed'
  BY <1>2 DEF MirrorInv, Backed, Live, Skus, Explained, Excused, Leaving
<1>8. RemoteOK' /\ told' \subseteq Gids /\ rows' \subseteq Ids /\ shelved' \subseteq rows'
      /\ variants' \subseteq rows' \X Sizes /\ DOMAIN job' = Threads
  BY <1>2 DEF MirrorInv, RemoteOK
<1> QED BY <1>2, <1>3, <1>4, <1>5, <1>6, <1>7, <1>8 DEF MirrorInv

LEMMA StepRestart ==
    ASSUME MirrorInv, Restart
    PROVE  MirrorInv'
<1>1. /\ LeftOK' /\ job' = [w \in Threads |-> Idle] /\ UNCHANGED <<remote, told, local>>
      /\ excused' = excused \cup ((UNION {job[w].struck : w \in Threads}) \X {"cut"})
  BY SpendKeepsLeft DEF MirrorInv, Restart
<1>2. \A w \in Threads : /\ JobShape(job[w])' /\ Taken(job[w])' /\ InHand(job[w])'
                         /\ PutLive(job[w])' /\ Touched(job'[w]) = {} /\ job'[w].at = "none"
  BY <1>1, IdleJob
<1>3. Apart' /\ Filling'
  BY <1>2 DEF Apart, Filling, At
<1>4. Backed'
  <2> SUFFICES ASSUME NEW v \in variants, v[1] \notin shelved
               PROVE  Live(v)' \/ Explained(v[1])'
    BY <1>1 DEF Backed, local
  <2>1. Live(v) => Live(v)'
    BY <1>1 DEF Live, Skus
  <2>2. Explained(v[1]) => Explained(v[1])'
    BY <1>1 DEF Explained, Excused
  <2>3. Leaving(v) => Explained(v[1])'
    BY <1>1 DEF Leaving, LeavesBy, Explained, Excused
  <2> QED BY <2>1, <2>2, <2>3 DEF MirrorInv, Backed
<1>5. /\ RemoteOK' /\ told' \subseteq Gids /\ rows' \subseteq Ids /\ shelved' \subseteq rows'
      /\ variants' \subseteq rows' \X Sizes /\ sold' \subseteq variants' /\ DOMAIN job' = Threads
  BY <1>1 DEF MirrorInv, RemoteOK, local
<1> QED BY <1>1, <1>2, <1>3, <1>4, <1>5 DEF MirrorInv

\* The shop the runs begin with satisfies the invariant: every number has its product.
LEMMA MirrorStartOK ==
    ASSUME MirrorInit
    PROVE  MirrorInv
<1> DEFINE n == Cardinality(Stocked)
<1>1. PICK number \in [Stocked -> 1 .. n] :
        /\ IsInjective(number)
        /\ remote = [g \in Gids |-> IF g \in Stocked
                    THEN [status |-> "ACTIVE", sku |-> [s \in Sizes |-> number[g]]]
                    ELSE Unmade]
  <2>1. ExistsBijection(1 .. n, Stocked) /\ IsFiniteSet(Stocked)
    BY ProductMirrorAssumption, FS_Subset, FS_CardinalityType
  <2>2. IsFiniteSet(1 .. n) /\ Cardinality(1 .. n) = n
    BY <2>1, FS_CardinalityType, FS_Bijection, FS_Interval
  <2>3. ExistsBijection(Stocked, 1 .. n)
    BY <2>1, <2>2, FS_SameCardinalityBij
  <2>4. \E f \in [Stocked -> 1 .. n] : IsInjective(f)
    BY <2>3 DEF ExistsBijection, Bijection, Injection
  <2> QED BY <2>4 DEF MirrorInit
<1>2. IsFiniteSet(Stocked) /\ n \in Nat /\ n <= MaxId /\ 1 .. n \subseteq Ids
  BY ProductMirrorAssumption, FS_Subset, FS_CardinalityType DEF Ids
<1>3. \A i \in 1 .. n : \E g \in Stocked : number[g] = i
  <2>1. number \in Injection(Stocked, 1 .. n)
    BY <1>1 DEF Injection
  <2>2. IsFiniteSet(1 .. n) /\ Cardinality(1 .. n) = n
    BY <1>2, FS_Interval
  <2>3. number \in Surjection(Stocked, 1 .. n)
    BY <2>1, <2>2, FS_Injection
  <2> QED BY <2>3 DEF Surjection
<1>4. /\ told = {} /\ rows = 1 .. n /\ variants = rows \X Sizes /\ shelved = {}
      /\ sold \subseteq variants /\ job = [w \in Threads |-> Idle]
      /\ left = [staff |-> MaxStaff, shop |-> MaxShop, faults |-> MaxMirrorFaults]
  BY DEF MirrorInit
<1> HIDE DEF n
<1>5. RemoteOK
  <2> SUFFICES ASSUME NEW g \in Gids
               PROVE  /\ DOMAIN remote[g] = {"status", "sku"}
                      /\ remote[g].status \in {"none", "ACTIVE", "ARCHIVED", "gone"}
                      /\ DOMAIN remote[g].sku \subseteq Sizes
                      /\ \A s \in DOMAIN remote[g].sku : remote[g].sku[s] \in Ids \cup {Blank, Foreign}
    BY <1>1 DEF RemoteOK
  <2>1. CASE g \in Stocked
    <3>1. PICK q : q = [s \in Sizes |-> number[g]]
      OBVIOUS
    <3>2. remote[g] = [status |-> "ACTIVE", sku |-> q] /\ number[g] \in Ids
      BY <1>1, <1>2, <2>1, <3>1
    <3> QED BY <3>1, <3>2
  <2>2. CASE g \notin Stocked
    <3>1. remote[g] = Unmade
      BY <1>1, <2>2
    <3> QED BY <3>1 DEF Unmade, NoSkus
  <2> QED BY <2>1, <2>2
<1>6. LeftOK
  BY <1>4, ProductMirrorAssumption DEF LeftOK
<1>7. \A w \in Threads : job[w] = Idle
  BY <1>4
<1>8. \A w \in Threads : JobShape(job[w]) /\ Taken(job[w]) /\ InHand(job[w]) /\ PutLive(job[w])
                         /\ Touched(job[w]) = {} /\ job[w].at = "none"
  <2> SUFFICES ASSUME NEW w \in Threads, job[w] = Idle
               PROVE  /\ JobShape(job[w]) /\ Taken(job[w]) /\ InHand(job[w]) /\ PutLive(job[w])
                      /\ Touched(job[w]) = {} /\ job[w].at = "none"
    BY <1>7
  <2>1. /\ job[w].at = "none" /\ job[w].put = {} /\ job[w].drop = {} /\ job[w].shed = {}
        /\ job[w].shelve = {}
    BY DEF Idle
  <2>2. JobShape(job[w])
    BY DEF JobShape, JobAt, Idle, Holds, Takes, NoSkus
  <2> QED BY <2>1, <2>2 DEF Taken, InHand, PutLive, Touched, IdsOf
<1>9. Apart /\ Filling
  BY <1>8 DEF Apart, Filling, At
<1>10. Backed
  <2> SUFFICES ASSUME NEW v \in variants PROVE Live(v)
    BY DEF Backed
  <2>1. PICK i \in 1 .. n, s \in Sizes : v = <<i, s>>
    BY <1>4
  <2>2. PICK g \in Stocked : number[g] = i
    BY <1>3
  <2>3. g \in Gids /\ remote[g].sku = [t \in Sizes |-> number[g]]
    BY <1>1, ProductMirrorAssumption
  <2>4. v \in Skus(g)
    BY <2>1, <2>2, <2>3 DEF Skus
  <2> QED BY <2>3, <2>4 DEF Live
<1> QED BY <1>1, <1>2, <1>4, <1>5, <1>6, <1>8, <1>9, <1>10 DEF MirrorInv

LEMMA MirrorStepOK ==
    ASSUME MirrorInv, [MirrorNext]_mirrorVars
    PROVE  MirrorInv'
<1>1. \A w \in Threads : StaffStart(w) => MirrorInv'
  BY StepCreate, StepStart, StaffLeft DEF MirrorInv, StaffStart
<1>2. \A w \in Threads : Step(w) => MirrorInv'
  BY StepFill, StepFinishCreate, StepUnmake, StepReadRow, StepFlush, StepCommit, StepGet,
     StepDecide, StepPush, StepStrike, StepWrite, StepReadProducts, StepEach DEF Step
<1>3. \A w \in Threads : ImportProduct(w) => MirrorInv'
  BY StepImport
<1>4. Workers \subseteq Threads /\ Scheduler \in Threads
  BY DEF Threads
<1>5. CASE UNCHANGED mirrorVars
  <2>1. UNCHANGED <<remote, told, rows, variants, shelved, sold, job, left, excused>>
    BY <1>5 DEF mirrorVars
  <2>2. \A w \in Threads : /\ JobShape(job[w])' /\ Taken(job[w])' /\ InHand(job[w])'
                           /\ PutLive(job[w])'
    BY <2>1 DEF MirrorInv, JobShape, Taken, VariantsOf, InHand, PutLive, Live, Skus, Lasting, Excused
  <2>3. Apart' /\ Filling'
    BY <2>1 DEF MirrorInv, Apart, Filling, At
  <2>4. Backed'
    BY <2>1 DEF MirrorInv, Backed, Live, Skus, Explained, Excused, Leaving
  <2> QED BY <2>1, <2>2, <2>3, <2>4 DEF MirrorInv, RemoteOK, LeftOK
<1> QED BY <1>1, <1>2, <1>3, <1>4, <1>5, StepSweepStart, StepList, StepShop, StepSale, StepRestart
        DEF MirrorNext, Sweep

\* What jobs hold, write and have struck agrees with Shopify and with the
\* committed rows in every reachable state of the mirror.
THEOREM MirrorInductive == MirrorSpec => []MirrorInv
BY MirrorStartOK, MirrorStepOK, PTL DEF MirrorSpec

\* Every variable of the mirror holds what its comment says.
THEOREM MirrorTypes == MirrorSpec => []MirrorTypeOK
<1>1. MirrorInv => MirrorTypeOK
  BY DEF MirrorInv, MirrorTypeOK, RemoteOK, LeftOK
<1> QED BY <1>1, MirrorInductive, PTL

\* A product the bot searches has a product on Shopify behind it, unless the
\* shop deleted that, a deletion of ours was cut short, or two jobs had the same
\* product in hand: for any number of products, sizes, threads and faults.
THEOREM MirrorPhantoms == MirrorSpec => []PhantomsKnown
<1>1. ASSUME MirrorInv PROVE PhantomsKnown
  <2> SUFFICES ASSUME NEW i \in rows \ shelved, Phantom(i)
               PROVE  Explained(i) \/ \E w \in Threads : i \in job[w].struck
    BY DEF PhantomsKnown, Explained
  <2>1. PICK v \in variants : v[1] = i
    BY DEF Phantom, VariantsOf
  <2>2. v \in Ids \X Sizes
    BY <1>1 DEF MirrorInv
  <2>3. ~Live(v)
    BY <2>1, <2>2 DEF Phantom, VariantsOf, all_variant_skus, Live
  <2>4. Explained(i) \/ Leaving(v)
    BY <1>1, <2>1, <2>3 DEF MirrorInv, Backed
  <2> QED BY <2>1, <2>4 DEF Leaving, LeavesBy
<1> QED BY <1>1, MirrorInductive, PTL
=============================================================================
