------------------------------ MODULE Checkout ------------------------------
(***************************************************************************)
(* How a sale is agreed: the turn loop of assistant/agent.py, the cart and *)
(* checkout tools it runs (assistant/tools), and the guard that lets an    *)
(* order through only after the customer said yes to its total.            *)
(*                                                                         *)
(* One conversation, whose turns run one at a time (see Dispatcher), and   *)
(* one variant in the cart.  The total of a checkout is its lines; the fee *)
(* of the governorate is a constant on top and is left out.                *)
(***************************************************************************)
EXTENDS Naturals, Sequences

CONSTANTS
    Prices,         \* what one piece may cost, in Shopify or in the local column
    MaxQuantity,    \* pieces of one line (max_quantity_per_line)
    LoopCap,        \* calls to the model in one turn (tool_loop_cap)
    RetryLimit,     \* replies of one turn sent back to be rewritten
    MaxSupersedes,  \* times a batch gives way to newer messages
    MaxMessages,    \* bound: messages of the customer
    MaxFaults       \* bound: failed providers, crashes and refused sends

ASSUME CheckoutAssumption ==
    /\ Prices \subseteq Nat \ {0} /\ Prices # {}
    /\ MaxQuantity \in Nat \ {0} /\ LoopCap \in Nat \ {0}
    /\ RetryLimit \in Nat /\ MaxSupersedes \in Nat
    /\ MaxMessages \in Nat /\ MaxFaults \in Nat

VARIABLES
    inbox,      \* messages no turn has taken yet
    gaveWay,    \* how often the waiting batch was handed on unanswered
    cart,       \* committed: pieces in the cart
    talk,       \* committed: the transcript
    turn,       \* the turn that runs on copies of both, or NoTurn
    written, faults,
    \* history, read by properties alone
    heard,      \* the last total that reached the customer
    arrived,    \* the last words of the transcript reached the customer
    sale        \* the order the last turn placed, or NoSale

boundVars == <<written, faults>>
vars == <<inbox, gaveWay, cart, talk, turn, boundVars, heard, arrived, sale>>

None == 0           \* no total: an empty cart's, or a sentence that states none
Unasked == <<>>
NoTurn == [at |-> "none"]
NoSale == [charged |-> None]

Total(n, p) == n * p
Quotes == {Total(n, p) : n \in 1..MaxQuantity, p \in Prices}

Init ==
    /\ inbox = <<>> /\ gaveWay = 0
    /\ cart = 0
    /\ talk = [quote |-> Unasked, known |-> {}, said |-> None, shown |-> 0, undone |-> FALSE]
    /\ turn = NoTurn
    /\ written = 0 /\ faults = 0
    /\ heard = None /\ arrived = TRUE
    /\ sale = NoSale

-----------------------------------------------------------------------------
(* The customer.                                                           *)

\* A message; of one that agrees, the total it answers is remembered, and what went
\* out that it does not answer.
Write ==
    /\ written < MaxMessages
    /\ written' = written + 1
    /\ \E says \in {"yes", "no", "other"} :
        inbox' = Append(inbox, [says |-> says,
                                heard |-> IF says = "yes" THEN heard ELSE None,
                                crossed |-> IF says = "yes" /\ turn # NoTurn
                                              THEN "a reply" ELSE "nothing"])
    /\ UNCHANGED <<gaveWay, cart, talk, turn, faults, heard, arrived, sale>>

-----------------------------------------------------------------------------
(* A turn.                                                                 *)

\* The shelf is read once, when the turn opens, and the turn quotes what it said: a
\* price of Shopify, or the local column's when Shopify does not answer.
Shelf == Prices

\* An attempt at a turn about a batch: it reads the transcript and works on a copy,
\* its writes to the cart are uncommitted.
Attempt(batch, tries, p) ==
    [at |-> "model", batch |-> batch, tries |-> tries, snap |-> p,
     hops |-> 0, retries |-> 0, wrote |-> FALSE, before |-> talk.said,
     cart |-> cart, talk |-> talk, arrived |-> arrived]

BeginTurn ==
    /\ turn = NoTurn /\ inbox # <<>>
    /\ \E p \in Shelf : turn' = Attempt(inbox, 0, p)
    /\ inbox' = <<>>
    /\ sale' = NoSale
    /\ UNCHANGED <<gaveWay, cart, talk, boundVars, heard, arrived>>

Asking == turn.at = "model" /\ turn.hops < LoopCap

\* The checks of a reply let it state only totals some tool of this conversation
\* returned; it may state none.
MayState == {None} \union turn.talk.known

HoppedUncounted(t) == t
Hopped(t) == [t EXCEPT !.hops = @ + 1]

\* The words beside a tool call are stored with it and never sent.
Saying(t) ==
    {Hopped(t)} \union
    {[Hopped(t) EXCEPT !.talk.said = said, !.arrived = FALSE] : said \in MayState}

\* A hop that calls one tool; Effect is what the call does to the turn.
Calls(Effect(_)) ==
    /\ Asking
    /\ \E t \in Saying(turn) : turn' = Effect(t)
    /\ UNCHANGED <<inbox, gaveWay, cart, talk, boundVars, heard, arrived, sale>>

Checkout == Total(turn.cart, turn.snap)

\* `get_shipping_fee` carries the checkout.  The oldest identical call of the
\* conversation answers for every later one.
CheckoutQuoted ==
    IF turn.talk.quote = Unasked THEN Checkout ELSE Head(turn.talk.quote)

Learnt(t, total) == [t EXCEPT !.talk.known = @ \union ({total} \ {None})]

GetShippingFee ==
    Calls(LAMBDA t : Learnt([t EXCEPT !.talk.quote = <<CheckoutQuoted>>], CheckoutQuoted))

\* A call about the cart runs whatever an older answer said, and its result shows the
\* cart there is then.
Carried(t, n) ==
    [t EXCEPT !.cart = n, !.talk.shown = n, !.talk.undone = FALSE, !.wrote = TRUE]

\* More of the variant.
AddToCart ==
    Asking /\ \E n \in turn.cart + 1..MaxQuantity : Calls(LAMBDA t : Carried(t, n))

\* None left, or too many of it: the refusal does not show the cart.
AddRefused == Calls(LAMBDA t : [t EXCEPT !.wrote = TRUE])

RemoveFromCart == Calls(LAMBDA t : Carried(t, 0))

ViewCart == Calls(LAMBDA t : Carried(t, turn.cart))

\* Any other tool: a look at the shelf, the profile, the orders.
Lookup == Calls(LAMBDA t : t)

-----------------------------------------------------------------------------
(* confirm_order.                                                          *)

Yeses(batch) == {batch[i] : i \in {j \in DOMAIN batch : batch[j].says = "yes"}}

\* A yes anywhere in the batch, unless the batch opens with a no.
Agrees(batch) == Yeses(batch) # {} /\ batch[1].says # "no"

AgreedToQuote(total) == turn.before = CheckoutQuoted /\ Agrees(turn.batch)

\* The last words before the batch state the total, and the batch agrees.
AgreedTo(total) == turn.before = total /\ Agrees(turn.batch)

ConfirmRefused ==
    /\ Asking /\ turn.cart # 0 /\ ~AgreedTo(Checkout)
    /\ Calls(LAMBDA t : Learnt([t EXCEPT !.wrote = TRUE], Checkout))

\* An empty cart, or `place_order` refuses: no stock, no answer of Shopify, a write that
\* failed and was rolled back to the savepoint.
ConfirmFails ==
    /\ Asking /\ (turn.cart = 0 \/ AgreedTo(Checkout))
    /\ Calls(LAMBDA t : [t EXCEPT !.wrote = TRUE])

\* The cart is back to the committed one; the turn still holds what its calls showed.
Undone(t) ==
    [t EXCEPT !.cart = cart, !.wrote = TRUE, !.talk.undone = t.talk.shown # cart]

\* `place_order` failed with its savepoint closed, or could not return to it: the whole
\* transaction of the turn is rolled back, and the turn goes on.
ConfirmRolledBack ==
    /\ Asking /\ turn.cart # 0 /\ AgreedTo(Checkout)
    /\ faults < MaxFaults /\ faults' = faults + 1
    /\ \E t \in Saying(turn) : turn' = Undone(t)
    /\ UNCHANGED <<inbox, gaveWay, cart, talk, written, heard, arrived, sale>>

EndsWithNo(batch) ==
    \E i \in DOMAIN batch :
        batch[i].says = "no" /\ \A j \in i + 1..Len(batch) : batch[j].says # "yes"

\* The confirmation is the transcript's last line, and the ordered cart is gone.
Confirmed(told, charged) ==
    [told EXCEPT !.said = charged, !.shown = 0, !.undone = FALSE]

\* An attempt once its order is committed; the messages behind it are its own from now on.
Placed(told, charged, wordsArrived) ==
    [at |-> "placed", tries |-> turn.tries,
     batch |-> [i \in DOMAIN turn.batch |-> [turn.batch[i] EXCEPT !.crossed = "an order"]],
     talk |-> [told EXCEPT !.known = @ \union {charged}], arrived |-> wordsArrived]

\* The confirmation is committed with the order and goes out at once.
Told(charged) ==
    /\ \/ arrived' = TRUE /\ heard' = charged /\ UNCHANGED faults
       \/ /\ faults < MaxFaults /\ faults' = faults + 1
          /\ arrived' = FALSE /\ UNCHANGED heard
    /\ talk' = Confirmed(talk, charged)
    /\ turn' = Placed(Confirmed(turn.talk, charged), charged, arrived')

\* The alert and the confirmation could not be written: the order stands, and of it the
\* turn alone knows.
Untold(charged) ==
    /\ faults < MaxFaults /\ faults' = faults + 1
    /\ talk' = [talk EXCEPT !.undone = talk.shown # 0]
    /\ turn' = Placed([turn.talk EXCEPT !.shown = 0, !.undone = FALSE], charged, turn.arrived)
    /\ UNCHANGED <<arrived, heard>>

\* The order charges what Shopify asks by now (OrderPlacement has the order itself).  It is
\* committed in the middle of the turn; what the turn has read and said so far is not.
ConfirmPlaces ==
    /\ Asking /\ turn.cart # 0 /\ AgreedTo(Checkout)
    /\ \E p \in Prices : LET charged == Total(turn.cart, p)
       IN  /\ sale' = [charged |-> charged,
                       heard |-> {m.heard : m \in Yeses(turn.batch)},
                       moved |-> turn.snap # p,
                       crossed |-> \A m \in Yeses(turn.batch) : m.crossed # "nothing",
                       spent |-> \A m \in Yeses(turn.batch) : m.crossed = "an order",
                       arrived |-> arrived,
                       no |-> EndsWithNo(turn.batch)]
           /\ Told(charged) \/ Untold(charged)
    /\ cart' = 0
    /\ UNCHANGED <<inbox, gaveWay, written>>

\* The turn ends there, without words of its own, and is saved.
SavePlaced ==
    /\ turn.at = "placed"
    /\ talk' = turn.talk /\ arrived' = turn.arrived
    /\ turn' = NoTurn /\ gaveWay' = 0
    /\ UNCHANGED <<inbox, cart, boundVars, heard, sale>>

-----------------------------------------------------------------------------
(* How a turn ends.                                                        *)

SupersededAnyway == inbox # <<>> /\ gaveWay < MaxSupersedes

\* `called` holds nothing but reads, and something newer was written.
Superseded == ~turn.wrote /\ inbox # <<>> /\ gaveWay < MaxSupersedes

\* Dropped unsent and unsaved, the next turn takes the batch with what is newer.  The
\* turn returns, so what it wrote is committed.
Drop ==
    /\ Asking /\ Superseded
    /\ inbox' = turn.batch \o inbox /\ gaveWay' = gaveWay + 1
    /\ cart' = turn.cart
    /\ turn' = NoTurn
    /\ UNCHANGED <<talk, boundVars, heard, arrived, sale>>

\* The turn is committed; its words, which may not be in the transcript, are to be sent.
Ends(saved, tells, stored) ==
    /\ cart' = turn.cart
    /\ talk' = saved
    /\ arrived' = (~stored /\ turn.arrived)
    /\ turn' = [at |-> "sending", tells |-> tells, stored |-> stored]
    /\ gaveWay' = 0
    /\ UNCHANGED <<inbox, written, heard, sale>>

Answers(total) == Ends([turn.talk EXCEPT !.said = total], total, TRUE)

Reply ==
    /\ Asking /\ ~Superseded
    /\ \E total \in MayState : Answers(total)
    /\ UNCHANGED faults

Again ==
    /\ turn.retries < RetryLimit
    /\ turn' = [Hopped(turn) EXCEPT !.retries = @ + 1]
    /\ UNCHANGED <<inbox, gaveWay, cart, talk, boundVars, heard, arrived, sale>>

\* A reply one of the checks refuses is asked for again.
SentBack == Asking /\ ~Superseded /\ Again

\* So is a hop cut off before any of its tools ran (a counter of its own in the code).
CutOff == Asking /\ Again

\* The fixed sentence instead of the reply that keeps being refused.
Fallback ==
    /\ Asking /\ ~Superseded /\ turn.retries = RetryLimit
    /\ Answers(None) /\ UNCHANGED faults

Exhausted ==
    /\ turn.at = "model" /\ turn.hops = LoopCap
    /\ Answers(None) /\ UNCHANGED faults

\* The provider failed twice: an apology goes out which the transcript does not hold.
ProviderFails ==
    /\ Asking
    /\ faults < MaxFaults /\ faults' = faults + 1
    /\ Ends(turn.talk, None, FALSE)

\* Anything else raised: what is not committed is rolled back, and the whole turn is run
\* again, once; about the same messages, whose yes may have its order by now.
Crash ==
    /\ turn.at \in {"model", "placed"}
    /\ faults < MaxFaults /\ faults' = faults + 1
    /\ IF turn.tries = 0
          THEN /\ \E p \in Shelf : turn' = Attempt(turn.batch, 1, p)
               /\ UNCHANGED gaveWay
          ELSE /\ turn' = [at |-> "sending", tells |-> None, stored |-> FALSE]
               /\ gaveWay' = 0
    /\ UNCHANGED <<inbox, cart, talk, written, heard, arrived, sale>>

Send ==
    /\ turn.at = "sending"
    /\ turn' = NoTurn
    /\ \/ /\ heard' = IF turn.tells = None THEN heard ELSE turn.tells
          /\ arrived' = (turn.stored \/ arrived)
          /\ UNCHANGED faults
       \/ /\ faults < MaxFaults /\ faults' = faults + 1
          /\ UNCHANGED <<heard, arrived>>
    /\ UNCHANGED <<inbox, gaveWay, cart, talk, written, sale>>

TurnStep ==
    \/ GetShippingFee \/ AddToCart \/ AddRefused \/ RemoveFromCart \/ ViewCart \/ Lookup
    \/ ConfirmRefused \/ ConfirmFails \/ ConfirmRolledBack \/ ConfirmPlaces \/ SavePlaced
    \/ Drop \/ Reply \/ SentBack \/ CutOff \/ Fallback
    \/ Exhausted \/ ProviderFails \/ Crash \/ Send

Next == Write \/ BeginTurn \/ TurnStep

\* A call to the model ends, by its timeout if nothing else.
Spec == Init /\ [][Next]_vars /\ WF_vars(TurnStep)

-----------------------------------------------------------------------------
(* Properties.                                                             *)

Totals == Quotes \union {None}
Messages == [says : {"yes", "no", "other"}, heard : Totals,
             crossed : {"nothing", "a reply", "an order"}]
Transcripts == [quote : {Unasked} \union {<<q>> : q \in Totals}, known : SUBSET Quotes,
                said : Totals, shown : 0..MaxQuantity, undone : BOOLEAN]
Attempts ==
    [at : {"model"}, batch : Seq(Messages), tries : 0..1, snap : Prices, hops : 0..LoopCap,
     retries : 0..RetryLimit, wrote : BOOLEAN, before : Totals, cart : 0..MaxQuantity,
     talk : Transcripts, arrived : BOOLEAN]
Placements == [at : {"placed"}, batch : Seq(Messages), tries : 0..1, talk : Transcripts,
               arrived : BOOLEAN]
Sendings == [at : {"sending"}, tells : Totals, stored : BOOLEAN]
Sales ==
    [charged : Quotes, heard : SUBSET Totals, moved : BOOLEAN, crossed : BOOLEAN,
     spent : BOOLEAN, arrived : BOOLEAN, no : BOOLEAN]

\* The type invariant: the bounds of the loop, the retries and the cart hold.
TypeOK ==
    /\ inbox \in Seq(Messages) /\ gaveWay \in 0..MaxSupersedes
    /\ cart \in 0..MaxQuantity /\ talk \in Transcripts
    /\ turn \in {NoTurn} \union Sendings \union Placements \union Attempts
    /\ written \in 0..MaxMessages /\ faults \in 0..MaxFaults
    /\ heard \in Totals /\ arrived \in BOOLEAN
    /\ sale \in {NoSale} \union Sales

\* Whenever it is committed, the cart is the one the transcript's last word on it shows:
\* the next turn's model reasons about what is really there, whatever was dropped unsent,
\* rolled back, run again or given up on (agent.py's READ_ONLY_TOOLS, turn_retry); unless
\* a failing `place_order` rolled back the very call whose result shows it, or its order
\* is committed without a word and the turn that knows of it is not saved.
TranscriptMatchesCart ==
    turn.at # "model" => talk.shown = cart \/ talk.undone

\* An order charges a total that had reached the customer when they wrote the yes it
\* rests on, in spite of cached quotes, rewritten replies, dropped and repeated turns;
\* unless the price moved after the turn read the shelf, the bot's last words were
\* never delivered, or every yes was written before a reply or a confirmation that went
\* out since.
OrdersAreAgreed ==
    sale # NoSale =>
        sale.charged \in sale.heard \/ sale.moved \/ ~sale.arrived \/ sale.crossed

\* Every turn ends: neither refused replies, nor tools, nor the retry of a crashed turn
\* keep the conversation's lock for ever.
TurnEnds == turn # NoTurn ~> turn = NoTurn

\* The comment of `place_order`: a full rollback "would throw the cart away", and does so
\* when its notifications or its commit fail.
TranscriptShowsTheCart ==
    turn.at # "model" => talk.shown = cart

\* turn_retry: a second attempt "starts from exactly the state the first one did", and
\* cannot "place two orders".  No order rests on yeses that have one already.
OneOrderPerYes ==
    sale # NoSale => ~sale.spent

\* `_not_yet_agreed`: "A refusal when the customer has not said yes to a summary, else
\* None."  The total charged is one they had been sent when they wrote a yes.
AgreedToWhatTheyHeard ==
    sale # NoSale => sale.charged \in sale.heard

\* `_not_yet_agreed`: "and the customer's latest words agree."  No order rests on a
\* batch of messages whose last verdict is a no.
NoIsHeard ==
    sale # NoSale => ~sale.no
=============================================================================
