--------------------------- MODULE OrderPlacement ---------------------------
(***************************************************************************)
(* `place_order` (domain/services/orders.py) with the Shopify calls it     *)
(* makes: the shelf is read, Shopify creates the sale, and the local order *)
(* is written and committed; when the local part fails the sale is         *)
(* cancelled.  There is no transaction across the two systems, so every    *)
(* call and every commit is a step of its own, of any customer's turn.     *)
(*                                                                         *)
(* A customer has one turn at a time (OneTurnPerConversation of            *)
(* Dispatcher).  The database is the PostgreSQL of production: a row an    *)
(* open transaction has updated is locked until it ends, and a deadlock is *)
(* broken by failing one of its statements.  Everything that can go wrong  *)
(* outside the program is a member of Faults, so that a run says what it   *)
(* assumes.                                                                *)
(***************************************************************************)
EXTENDS Integers, Sequences, FiniteSets

CONSTANTS
    Customers,      \* channel identities, each with a conversation of its own
    Variants,       \* what is for sale
    Carts,          \* the carts a customer may put together
    Stock,          \* units of each variant, here and on Shopify, at the start
    Attempts,       \* tries of one Shopify call (`range(3)` in `_call`)
    Faults,         \* what may go wrong outside the program
    MaxCarts,       \* bound: carts per customer
    MaxConfirms,    \* bound: calls of confirm_order per customer
    MaxStorefront   \* bound: units the storefront sells meanwhile

Line == [variant : Variants, quantity : Nat \ {0}]

AllFaults ==
    {"shop_down",           \* a Shopify call fails without effect
     "lost_reply",          \* a Shopify call takes effect, and its reply is lost
     "customer_refused",    \* Shopify declines the customer block
     "cancel_fails",        \* the compensating cancel fails
     "write_fails",         \* a local statement fails
     "commit_refused",      \* COMMIT fails and nothing is committed
     "commit_ambiguous",    \* COMMIT takes effect, and reports a failure
     "restart"}             \* the process ends and is started again

ASSUME CartsAssumption ==
    /\ Carts \subseteq Seq(Line)
    /\ \A lines \in Carts :
         /\ lines # <<>>
         /\ \A i, j \in DOMAIN lines : lines[i].variant = lines[j].variant => i = j

ASSUME BoundsAssumption ==
    /\ Stock \in [Variants -> Nat]
    /\ Attempts \in Nat \ {0}
    /\ Faults \subseteq AllFaults
    /\ MaxCarts \in Nat /\ MaxConfirms \in Nat /\ MaxStorefront \in Nat

VARIABLES
    cart,       \* committed cart lines, in the order of CartItem.id
    filled,     \* how many carts a customer has put together
    confirms,   \* how often confirm_order was called
    recent,     \* an order of this customer is younger than RECENT_ORDER_WINDOW
    orders,     \* committed Order rows (CONFIRMED), with the sale they name
    stock,      \* committed Variant.stock_qty
    work,       \* customer -> where the running `place_order` stands
    answer,     \* what the last `place_order` returned
    shelf,      \* external: Shopify's inventory
    remote,     \* external: Shopify's orders, in the order they were created
    sold,       \* external: units the storefront sold
    byHand,     \* sales the log asks a person to cancel ("LEFT OPEN")
    told        \* sales whose confirmation was sent to the customer

dbVars   == <<cart, recent, orders, stock>>
shopVars == <<shelf, remote, sold>>
outVars  == <<byHand, told>>
vars == <<cart, filled, confirms, recent, orders, stock, work, answer,
          shelf, remote, sold, byHand, told>>

Steps == {"idle", "shelf", "create", "sell", "notify", "commit", "compensate"}

\* Not in `place_order`: no cart read, no sale created, no statement run.
AtRest == [step |-> "idle", lines |-> <<>>, attempt |-> 1, linked |-> TRUE,
           sale |-> 0, written |-> 0]

RemoteOrder == [customer : Customers, lines : Carts,
                status : {"open", "cancelling", "cancelled"}]

Init ==
    /\ cart = [c \in Customers |-> <<>>]
    /\ filled = [c \in Customers |-> 0]
    /\ confirms = [c \in Customers |-> 0]
    /\ recent = [c \in Customers |-> FALSE]
    /\ orders = {}
    /\ stock = Stock
    /\ work = [c \in Customers |-> AtRest]
    /\ answer = [c \in Customers |-> "none"]
    /\ shelf = Stock
    /\ remote = <<>>
    /\ sold = 0
    /\ byHand = {}
    /\ told = {}

\* Units of v in a cart or an order: a variant has at most one line.
Quantity(lines, v) ==
    LET of == {i \in DOMAIN lines : lines[i].variant = v}
    IN  IF of = {} THEN 0 ELSE lines[CHOOSE i \in of : TRUE].quantity

\* Some line asks for more than Shopify has.
Short(lines) == \E i \in DOMAIN lines : shelf[lines[i].variant] < lines[i].quantity

GoTo(c, step) == work' = [work EXCEPT ![c].step = step]

\* `place_order` returns `what`.
Return(c, what) ==
    /\ work' = [work EXCEPT ![c] = AtRest]
    /\ answer' = [answer EXCEPT ![c] = what]

-----------------------------------------------------------------------------
(* Around `place_order`.                                                   *)

\* Earlier turns put a cart together.
FillCart(c) ==
    /\ work[c].step = "idle"
    /\ cart[c] = <<>>
    /\ filled[c] < MaxCarts
    /\ \E lines \in Carts : cart' = [cart EXCEPT ![c] = lines]
    /\ filled' = [filled EXCEPT ![c] = @ + 1]
    /\ answer' = [answer EXCEPT ![c] = "none"]
    /\ UNCHANGED <<confirms, recent, orders, stock, work, shopVars, outVars>>

\* Half an hour passes since the customer's last order.
WindowPasses(c) ==
    /\ recent[c]
    /\ recent' = [recent EXCEPT ![c] = FALSE]
    /\ UNCHANGED <<cart, filled, confirms, orders, stock, work, answer, shopVars, outVars>>

\* Somebody buys on the storefront.
StorefrontSale(v) ==
    /\ sold < MaxStorefront
    /\ shelf[v] > 0
    /\ shelf' = [shelf EXCEPT ![v] = @ - 1]
    /\ sold' = sold + 1
    /\ UNCHANGED <<dbVars, filled, confirms, work, answer, remote, outVars>>

-----------------------------------------------------------------------------
(* The checks before the sale.  A call refused for its arguments (a missing *)
(* field, a number no courier can ring, no shipping rate, a blocked client) *)
(* changes nothing and is not a step.                                       *)

\* confirm_order with nothing in the cart: the same order being confirmed
\* twice, when there is a recent one.
ConfirmEmpty(c) ==
    /\ work[c].step = "idle"
    /\ confirms[c] < MaxConfirms
    /\ cart[c] = <<>>
    /\ confirms' = [confirms EXCEPT ![c] = @ + 1]
    /\ answer' = [answer EXCEPT ![c] = IF recent[c] THEN "already_confirmed" ELSE "cart_empty"]
    /\ UNCHANGED <<dbVars, filled, work, shopVars, outVars>>

\* confirm_order with a cart: its lines are read once, for the whole call.
Confirm(c) ==
    /\ work[c].step = "idle"
    /\ confirms[c] < MaxConfirms
    /\ cart[c] # <<>>
    /\ confirms' = [confirms EXCEPT ![c] = @ + 1]
    /\ work' = [work EXCEPT ![c] = [AtRest EXCEPT !.step = "shelf", !.lines = cart[c]]]
    /\ UNCHANGED <<dbVars, filled, answer, shopVars, outVars>>

\* The live read of the shelf and the check of every line against it.
ReadShelf(c) ==
    /\ work[c].step = "shelf"
    /\ IF Short(work[c].lines)
         THEN Return(c, "items_out_of_stock")
         ELSE GoTo(c, "create") /\ UNCHANGED answer
    /\ UNCHANGED <<dbVars, filled, confirms, shopVars, outVars>>

\* The shelf cannot be read, or a line is not on it: refused, nothing changed.
ShelfUnreadable(c) ==
    /\ "shop_down" \in Faults
    /\ work[c].step = "shelf"
    /\ Return(c, "store_unavailable")
    /\ UNCHANGED <<dbVars, filled, confirms, shopVars, outVars>>

-----------------------------------------------------------------------------
(* create_order: the sale on Shopify.                                      *)

NewSale(c) == [customer |-> c, lines |-> work[c].lines, status |-> "open"]

\* External: Shopify books the order and takes its units off the shelf.
Book(c) ==
    /\ remote' = Append(remote, NewSale(c))
    /\ shelf' = [v \in Variants |-> shelf[v] - Quantity(work[c].lines, v)]

\* Mutant of CreateAccepted: inventoryBehaviour DECREMENT_IGNORING_POLICY.
CreateIgnoringPolicy(c) ==
    /\ work[c].step = "create"
    /\ Book(c)
    /\ work' = [work EXCEPT ![c].step = "sell", ![c].sale = Len(remote) + 1]
    /\ UNCHANGED <<dbVars, filled, confirms, answer, sold, outVars>>

\* orderCreate, DECREMENT_OBEYING_POLICY: accepted, and the reply arrives.
CreateAccepted(c) ==
    /\ work[c].step = "create"
    /\ ~Short(work[c].lines)
    /\ Book(c)
    /\ work' = [work EXCEPT ![c].step = "sell", ![c].sale = Len(remote) + 1]
    /\ UNCHANGED <<dbVars, filled, confirms, answer, sold, outVars>>

\* OrderRejected, out of stock: somebody took it since the shelf was read.
CreateOutOfStock(c) ==
    /\ work[c].step = "create"
    /\ Short(work[c].lines)
    /\ Return(c, "items_out_of_stock")
    /\ UNCHANGED <<dbVars, filled, confirms, shopVars, outVars>>

\* Mutant of CreateDeclined: sent again as it was, and so again.
DeclinedForever(c) ==
    /\ "customer_refused" \in Faults
    /\ work[c].step = "create"
    /\ work' = [work EXCEPT ![c].attempt = 1]
    /\ UNCHANGED <<dbVars, answer, filled, confirms, shopVars, outVars>>

\* OrderRejected for anything else: sent once more without the customer block,
\* and when that is refused too, the order is.
CreateDeclined(c) ==
    /\ "customer_refused" \in Faults
    /\ work[c].step = "create"
    /\ IF work[c].linked
         THEN /\ work' = [work EXCEPT ![c].linked = FALSE, ![c].attempt = 1]
              /\ UNCHANGED answer
         ELSE Return(c, "store_unavailable")
    /\ UNCHANGED <<dbVars, filled, confirms, shopVars, outVars>>

\* `_call` after a failed try: again while attempts remain -- or not at all, when
\* the failure is one it does not retry -- and then ShopifyUnavailable.
NextAttempt(c) ==
    \/ /\ work[c].attempt < Attempts
       /\ work' = [work EXCEPT ![c].attempt = @ + 1]
       /\ UNCHANGED answer
    \/ Return(c, "store_unavailable")

\* The call fails before Shopify has acted on it.
CreateFails(c) ==
    /\ "shop_down" \in Faults
    /\ work[c].step = "create"
    /\ NextAttempt(c)
    /\ UNCHANGED <<dbVars, filled, confirms, shopVars, outVars>>

\* Shopify books the order; the reply times out or cannot be read.  To `_call`
\* this is a failed try like any other.
CreateReplyLost(c) ==
    /\ "lost_reply" \in Faults
    /\ work[c].step = "create"
    /\ ~Short(work[c].lines)
    /\ Book(c)
    /\ NextAttempt(c)
    /\ UNCHANGED <<dbVars, filled, confirms, sold, outVars>>

-----------------------------------------------------------------------------
(* The local order.                                                        *)

\* The transaction of d holds the row of variant v, or of the order counter.
HoldsRow(d, v) ==
    /\ work[d].step \in {"sell", "notify", "commit"}
    /\ \E i \in 1..work[d].written : work[d].lines[i].variant = v

HoldsCounter(d) == work[d].step \in {"notify", "commit"}

\* The next statement of c waits for a row that d's transaction holds.
WaitsFor(c, d) ==
    /\ c # d
    /\ work[c].step = "sell"
    /\ IF work[c].written < Len(work[c].lines)
         THEN HoldsRow(d, work[c].lines[work[c].written + 1].variant)
         ELSE HoldsCounter(d)

Blocked(c) == \E d \in Customers : WaitsFor(c, d)

\* c belongs to a circle of transactions that wait for each other.
InDeadlock(c) ==
    \E S \in SUBSET Customers :
        /\ c \in S
        /\ \A d \in S : (\E e \in S : WaitsFor(d, e)) /\ (\E e \in S : WaitsFor(e, d))

\* record_sold: the next line's row is decremented.
RecordSold(c) ==
    /\ work[c].step = "sell"
    /\ work[c].written < Len(work[c].lines)
    /\ ~Blocked(c)
    /\ work' = [work EXCEPT ![c].written = @ + 1]
    /\ UNCHANGED <<dbVars, filled, confirms, answer, shopVars, outVars>>

\* The rest of the local write: the order number (its counter row is locked),
\* the order and its items, the cart cleared, the savepoint released.
WriteOrder(c) ==
    /\ work[c].step = "sell"
    /\ work[c].written = Len(work[c].lines)
    /\ ~Blocked(c)
    /\ GoTo(c, "notify")
    /\ UNCHANGED <<dbVars, filled, confirms, answer, shopVars, outVars>>

\* _post_order_notifications: the alert row is written and the confirmation
\* registered for after the commit -- in a savepoint.  SQLAlchemy dispatches
\* `after_commit` when a savepoint is released as well as when the transaction
\* commits, so the hook of common/events.py sends the confirmation here.
Notify(c) ==
    /\ work[c].step = "notify"
    /\ told' = told \cup {work[c].sale}
    /\ GoTo(c, "commit")
    /\ UNCHANGED <<dbVars, filled, confirms, answer, shopVars, byHand>>

\* They fail: back to their own savepoint; the order stands, nobody is told.
NotifyFails(c) ==
    /\ "write_fails" \in Faults
    /\ work[c].step = "notify"
    /\ GoTo(c, "commit")
    /\ UNCHANGED <<dbVars, filled, confirms, answer, shopVars, outVars>>

\* A statement fails, or is the one the database gives up to break a deadlock:
\* back to the savepoint, which releases its rows.
WriteFails(c) ==
    /\ work[c].step = "sell"
    /\ "write_fails" \in Faults \/ InDeadlock(c)
    /\ work' = [work EXCEPT ![c].step = "compensate", ![c].written = 0]
    /\ UNCHANGED <<dbVars, filled, confirms, answer, shopVars, outVars>>

\* _local_decrement: unconditional, and floored at zero.
LocalDecrement(left, quantity) == IF left > quantity THEN left - quantity ELSE 0

\* What the transaction of c makes durable.  The rows are locked, so what it
\* computed from them still holds.
Persist(c) ==
    /\ orders' = orders \cup
         {[customer |-> c, lines |-> work[c].lines, sale |-> work[c].sale]}
    /\ cart' = [cart EXCEPT ![c] = <<>>]
    /\ recent' = [recent EXCEPT ![c] = TRUE]
    /\ stock' = [v \in Variants |->
                    LocalDecrement(stock[v], Quantity(work[c].lines, v))]

\* Mutant of Commit: the cart is cleared by a later step of the turn.
CommitKeepingCart(c) ==
    /\ work[c].step = "commit"
    /\ orders' = orders \cup
         {[customer |-> c, lines |-> work[c].lines, sale |-> work[c].sale]}
    /\ recent' = [recent EXCEPT ![c] = TRUE]
    /\ stock' = [v \in Variants |->
                    LocalDecrement(stock[v], Quantity(work[c].lines, v))]
    /\ Return(c, "placed")
    /\ UNCHANGED <<cart, filled, confirms, shopVars, outVars>>

\* session.commit(): the durable point.
Commit(c) ==
    /\ work[c].step = "commit"
    /\ Persist(c)
    /\ Return(c, "placed")
    /\ UNCHANGED <<filled, confirms, shopVars, outVars>>

\* COMMIT fails and the transaction is rolled back.
CommitRefused(c) ==
    /\ "commit_refused" \in Faults
    /\ work[c].step = "commit"
    /\ work' = [work EXCEPT ![c].step = "compensate", ![c].written = 0]
    /\ UNCHANGED <<dbVars, filled, confirms, answer, shopVars, outVars>>

\* COMMIT is carried out and its acknowledgement lost; to the code it failed.
CommitAmbiguous(c) ==
    /\ "commit_ambiguous" \in Faults
    /\ work[c].step = "commit"
    /\ Persist(c)
    /\ work' = [work EXCEPT ![c].step = "compensate", ![c].written = 0]
    /\ UNCHANGED <<filled, confirms, answer, shopVars, outVars>>

-----------------------------------------------------------------------------
(* try_cancel: the compensation.                                           *)

\* Mutant of Cancel: the failure is returned, the sale is forgotten.
ForgetSale(c) ==
    /\ work[c].step = "compensate"
    /\ Return(c, "order_failed")
    /\ UNCHANGED <<dbVars, filled, confirms, shopVars, outVars>>

\* Shopify agrees to cancel; closing and restocking follow later.
Cancel(c) ==
    /\ work[c].step = "compensate"
    /\ remote' = [remote EXCEPT ![work[c].sale].status = "cancelling"]
    /\ Return(c, "order_failed")
    /\ UNCHANGED <<dbVars, filled, confirms, shelf, sold, outVars>>

\* Cancelling fails too: the log names the sale ("ORPHAN", "LEFT OPEN").
CancelFails(c) ==
    /\ "cancel_fails" \in Faults
    /\ work[c].step = "compensate"
    /\ byHand' = byHand \cup {work[c].sale}
    /\ Return(c, "order_failed")
    /\ UNCHANGED <<dbVars, filled, confirms, shopVars, told>>

\* External: Shopify's cancellation job puts the units back.
Restock(s) ==
    /\ remote[s].status = "cancelling"
    /\ remote' = [remote EXCEPT ![s].status = "cancelled"]
    /\ shelf' = [v \in Variants |-> shelf[v] + Quantity(remote[s].lines, v)]
    /\ UNCHANGED <<dbVars, filled, confirms, work, answer, sold, outVars>>

\* The process ends, with every turn in it, and is started again.
Restart ==
    /\ "restart" \in Faults
    /\ \E c \in Customers : work[c].step # "idle"
    /\ work' = [c \in Customers |-> AtRest]
    /\ UNCHANGED <<dbVars, filled, confirms, answer, shopVars, outVars>>

-----------------------------------------------------------------------------

\* One step of a running `place_order`.
TurnStep(c) ==
    \/ ReadShelf(c) \/ ShelfUnreadable(c)
    \/ CreateAccepted(c) \/ CreateOutOfStock(c) \/ CreateDeclined(c)
    \/ CreateFails(c) \/ CreateReplyLost(c)
    \/ RecordSold(c) \/ WriteOrder(c) \/ WriteFails(c)
    \/ Notify(c) \/ NotifyFails(c)
    \/ Commit(c) \/ CommitRefused(c) \/ CommitAmbiguous(c)
    \/ Cancel(c) \/ CancelFails(c)

CustomerStep(c) ==
    \/ FillCart(c) \/ WindowPasses(c)
    \/ ConfirmEmpty(c) \/ Confirm(c)

Next ==
    \/ \E c \in Customers : TurnStep(c) \/ CustomerStep(c)
    \/ \E v \in Variants : StorefrontSale(v)
    \/ \E s \in DOMAIN remote : Restock(s)
    \/ Restart

Spec == Init /\ [][Next]_vars

\* A turn's thread is scheduled, its calls return or time out, and the database
\* breaks deadlocks.
FairSpec == Spec /\ \A c \in Customers : WF_vars(TurnStep(c))

-----------------------------------------------------------------------------
(* Properties.                                                             *)

Answers == {"none", "cart_empty", "already_confirmed", "store_unavailable",
            "items_out_of_stock", "order_failed", "placed"}

WorkType == [step : Steps, lines : Carts \cup {<<>>}, attempt : 1..Attempts,
             linked : BOOLEAN, sale : Nat, written : Nat]

OrderType == [customer : Customers, lines : Carts, sale : Nat \ {0}]

\* Every variable has its type; the local stock is never negative.
TypeOK ==
    /\ cart \in [Customers -> Carts \cup {<<>>}]
    /\ filled \in [Customers -> Nat]
    /\ confirms \in [Customers -> Nat]
    /\ recent \in [Customers -> BOOLEAN]
    /\ orders \in SUBSET OrderType
    /\ stock \in [Variants -> Nat]
    /\ work \in [Customers -> WorkType]
    /\ answer \in [Customers -> Answers]
    /\ shelf \in [Variants -> Int]
    /\ remote \in Seq(RemoteOrder)
    /\ sold \in Nat
    /\ byHand \in SUBSET (Nat \ {0})
    /\ told \in SUBSET (Nat \ {0})

\* "Every path below has to end in exactly one of two states -- the order
\* recorded locally and committed, or the Shopify order cancelled": a sale that is
\* open on Shopify when its customer's place_order has returned is recorded here,
\* or the log asks a person to cancel it.
EverySaleAccountedFor ==
    \A s \in DOMAIN remote :
        remote[s].status = "open" /\ work[remote[s].customer].step = "idle" =>
            (\E o \in orders : o.sale = s) \/ s \in byHand

\* A recorded order is backed by a sale that Shopify keeps open: "a local row
\* Shopify never heard of is stock that quietly sells twice".
RecordedIsBooked ==
    \A o \in orders : o.sale \in DOMAIN remote /\ remote[o.sale].status = "open"

\* A recorded order names a sale of its own customer and of its own lines, and
\* no two orders name the same sale, whatever was lost or retried.
OrdersMatchSales ==
    \A o \in orders :
        /\ o.sale \in DOMAIN remote
        /\ remote[o.sale].customer = o.customer
        /\ remote[o.sale].lines = o.lines
        /\ \A p \in orders : p.sale = o.sale => p = o

\* "An outbound message must never describe a database write that later rolled
\* back": who has been sent a confirmation has the order, once the place_order
\* that sent it has returned.
ToldIsRecorded ==
    \A s \in told :
        work[remote[s].customer].step = "idle" => \E o \in orders : o.sale = s

\* However often an order is confirmed, retried or restarted, a cart becomes at
\* most one recorded order; once it has, it is gone.
OneOrderPerCart ==
    \A c \in Customers :
        Cardinality({o \in orders : o.customer = c}) + (IF cart[c] = <<>> THEN 0 ELSE 1)
            <= filled[c]

\* What the customer is told is what happened to the cart: a refusal leaves it
\* as it was, to try again, and only a placed order empties it.
AnswerMatchesCart ==
    \A c \in Customers :
        work[c].step = "idle" =>
            /\ answer[c] \in {"store_unavailable", "items_out_of_stock", "order_failed"} =>
                    cart[c] # <<>>
            /\ answer[c] = "placed" => cart[c] = <<>> /\ \E o \in orders : o.customer = c

\* Units of v in a set of orders, counted piece by piece.
Pieces(o, v) == {o} \X (1 .. Quantity(o.lines, v))
Units(S, v) == Cardinality(UNION {Pieces(o, v) : o \in S})

\* Nobody is sold a unit that is not there, although the shelf is checked before
\* it is taken: the recorded orders whose sale stands never exceed the stock, and
\* the shelf is never below zero.
NeverOversold ==
    \A v \in Variants :
        /\ shelf[v] >= 0
        /\ Units({o \in orders : remote[o.sale].status = "open"}, v) <= Stock[v]

\* The local count is what the recorded orders leave, whichever write failed.
BooksBalance == \A v \in Variants : stock[v] = Stock[v] - Units(orders, v)

\* Every confirm_order is answered: retries end, and transactions that wait for
\* each other's rows do not wait for ever.
EveryConfirmAnswered ==
    \A c \in Customers : work[c].step # "idle" ~> work[c].step = "idle"

-----------------------------------------------------------------------------
(* The abstract promise.                                                   *)

\* The running `place_order` of c answers for a sale it created.
InHand(c) == work[c].step \in {"sell", "notify", "commit", "compensate"}

\* The sales Shopify stands by, beside those a turn still answers for and those
\* a person was asked to cancel.
Booked ==
    {s \in DOMAIN remote :
        /\ remote[s].status = "open"
        /\ s \notin byHand
        /\ ~\E c \in Customers : InHand(c) /\ work[c].sale = s}

Promise == INSTANCE OrderPromise WITH placed <- orders, booked <- Booked

\* "An order is placed or it never happened -- there is no third state."
PlacedOrNeverHappened == Promise!Spec
=============================================================================
