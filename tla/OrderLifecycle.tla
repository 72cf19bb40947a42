--------------------------- MODULE OrderLifecycle ---------------------------
(***************************************************************************)
(* What happens to an order after it is placed (domain/services/orders.py):*)
(* the customer's tools change and cancel it, staff approve additions and  *)
(* swaps and press "delivered", and Shopify's webhooks                     *)
(* (integrations/shopify/webhooks.py) report what the shop did there.      *)
(*                                                                         *)
(* Each of these runs in a transaction of its own: it reads the order,     *)
(* calls Shopify, writes and commits.  PostgreSQL runs them READ COMMITTED *)
(* and no row is read for update, so transactions of one order overlap as  *)
(* they like.  The rows are modelled as written at the commit: an UPDATE   *)
(* waits for the row another transaction has updated, and nobody sees it   *)
(* before.                                                                 *)
(*                                                                         *)
(* Every order has a Shopify order behind it; those placed before the move *)
(* to Shopify, whose stock `decrement` and `release` keep, are left out.   *)
(* Shopify cancels and restocks in one step here; it does so a moment      *)
(* after its answer.                                                       *)
(***************************************************************************)
EXTENDS Integers, Sequences, FiniteSets, FiniteSetsExt, SequencesExt

CONSTANTS
    Orders, Variants,
    Workers,        \* threads: conversations, requests, background tasks
    Placed,         \* order -> its lines, when it was placed
    LocalStock,     \* variant -> `stock_qty` then
    Shelf,          \* variant -> units on Shopify's shelf then
    Requests,       \* what customers and staff will ask for
    Reports,        \* bound: the webhooks Shopify will send
    Faults,         \* what may go wrong outside the program
    MaxStarts,      \* bound: how often one request is made
    MaxCopies       \* bound: webhook -> deliveries of it

AllFaults ==
    {"outage",          \* a Shopify call fails without effect
     "lost_reply",      \* a Shopify call takes effect and reports a failure
     "write_fails",     \* a local statement fails
     "commit_fails",    \* COMMIT fails; nothing is committed
     "task_lost"}       \* the process ends with background tasks waiting

Edits == {"modify", "add", "swap"}

\* A line of an order.  One that was taken off keeps its place, with nothing in it.
Line == [item : Variants, quantity : Nat]

\* A cart has one row per variant.
ASSUME CountsAssumption ==
    /\ Placed \in [Orders -> Seq(Line)]
    /\ \A o \in Orders : \A i, j \in DOMAIN Placed[o] :
         /\ Placed[o][i].quantity > 0
         /\ Placed[o][i].item = Placed[o][j].item => i = j
    /\ LocalStock \in [Variants -> Nat] /\ Shelf \in [Variants -> Nat]

ASSUME RequestsAssumption ==
    \A r \in Requests :
      /\ r.order \in Orders
      /\ r.op \in Edits \cup {"cancel", "deliver"}
      /\ r.by \in {"customer", "staff"}
      /\ r.op \in Edits => r.line \in Variants /\ r.quantity \in Nat
      /\ r.op = "swap" => r.to \in Variants \ {r.line}

VARIABLES
    rows,       \* committed: status and lines of each order
    stock,      \* committed: Variant.stock_qty
    tx,         \* worker -> the transaction it has open
    remote,     \* external: Shopify's orders
    shelf,      \* external: Shopify's inventory
    copies,     \* webhooks on their way, and how often each still arrives
    claimed,    \* webhook_events: deliveries claimed
    tasks,      \* deliveries claimed and not handled to the end
    starts,     \* how often each request was made
    open,       \* staff requests whose queue item is open
    told,       \* status pushes sent, per order
    paid,       \* orders Shopify was told are paid
    \* history, read by properties alone
    short,      \* units `_local_decrement` could not take off
    failed,     \* webhooks whose handling failed
    named,      \* orders a log line asks a person to put right
    silent,     \* orders that may differ on Shopify with no such line
    overtaken,  \* orders whose status was written over one that had changed since it was read
    decided     \* request -> what the customer was told of it

shopVars == <<remote, shelf, copies>>
dbVars   == <<rows, stock, short, overtaken>>
hookVars == <<claimed, tasks, failed>>
askVars  == <<starts, open, decided>>
outVars  == <<told, paid>>
vars == <<rows, stock, tx, remote, shelf, copies, claimed, tasks, starts, open,
          told, paid, short, failed, named, silent, overtaken, decided>>

status == [o \in Orders |-> rows[o].status]
Stages == INSTANCE OrderStages

MODIFIABLE_STATUSES == {"Confirmed", "Packed"}
Modifiable(row) == row.status \in MODIFIABLE_STATUSES

\* The topics acted on, and the status each asks for.
TOPIC_STATUS == [partially_fulfilled |-> "Packed", fulfilled |-> "Shipped",
                 delivered |-> "Delivered"]
Event == [order : Orders, topic : DOMAIN TOPIC_STATUS \cup {"cancelled"}]

ASSUME BoundsAssumption ==
    /\ Reports \subseteq Event /\ Faults \subseteq AllFaults
    /\ MaxStarts \in Nat /\ MaxCopies \in [Event -> Nat]

\* A webhook as the work of a transaction.
JobOf(e) == [by |-> "shopify", order |-> e.order, topic |-> e.topic,
             op |-> IF e.topic = "cancelled" THEN "cancel" ELSE "advance"]
EventOf(job) == [order |-> job.order, topic |-> job.topic]

Jobs == Requests \cup {JobOf(e) : e \in Event}
Row == [status : Stages!Statuses, lines : Seq(Line)]
Idle == [at |-> "idle"]

InQueue(r) == r.by = "staff" /\ r.op \in {"add", "swap"}

Init ==
    /\ rows = [o \in Orders |-> [status |-> "Confirmed", lines |-> Placed[o]]]
    /\ stock = LocalStock
    /\ tx = [w \in Workers |-> Idle]
    /\ remote = [o \in Orders |->
                   [open |-> TRUE, stage |-> 1, lines |-> Placed[o]]]
    /\ shelf = Shelf
    /\ copies = [e \in Reports |-> 0]
    /\ claimed = {} /\ tasks = {}
    /\ starts = [r \in Requests |-> 0]
    /\ open = {r \in Requests : InQueue(r)}
    /\ told = [o \in Orders |-> <<>>]
    /\ paid = {}
    /\ short = [v \in Variants |-> 0]
    /\ failed = {} /\ named = {} /\ silent = {} /\ overtaken = {}
    /\ decided = [r \in Requests |-> <<>>]

-----------------------------------------------------------------------------
(* Lines of an order, in the order they were added: `items` by id locally. *)

On(lines, v) == {i \in DOMAIN lines : lines[i].item = v /\ lines[i].quantity > 0}

\* The line an edit of v means, and what is in it.
First(lines, v) == Min(On(lines, v))
Quantity(lines, v) == lines[First(lines, v)].quantity

SetLine(lines, v, n) == [lines EXCEPT ![First(lines, v)].quantity = n]
AddLine(lines, v, n) == Append(lines, [item |-> v, quantity |-> n])

\* Units of each variant.
Units(lines) ==
    [v \in Variants |-> Cardinality(UNION {{i} \X (1 .. lines[i].quantity) : i \in On(lines, v)})]

-----------------------------------------------------------------------------
(* Shopify: external.                                                      *)

Sent(e) == copies' = IF e \in Reports THEN [copies EXCEPT ![e] = MaxCopies[e]] ELSE copies

\* An order that is closed or already fulfilled is not edited.
Editable(o) == remote[o].open /\ remote[o].stage < Stages!Rank("Shipped")

\* The shop packs or ships in Shopify Admin or from the dashboard, or the courier reports.
ShopMoves(o) ==
    /\ remote[o].open
    /\ \E topic \in DOMAIN TOPIC_STATUS :
         LET stage == Stages!Rank(TOPIC_STATUS[topic])
         IN  /\ stage > remote[o].stage
             /\ topic = "delivered" => remote[o].stage = Stages!Rank("Shipped")
             /\ remote' = [remote EXCEPT ![o].stage = stage]
             /\ [order |-> o, topic |-> topic] \in Reports
             /\ Sent([order |-> o, topic |-> topic])
    /\ UNCHANGED <<shelf, dbVars, tx, hookVars, askVars, outVars, named, silent>>

Closed(o) ==
    /\ remote' = [remote EXCEPT ![o].open = FALSE]
    /\ shelf' = [v \in Variants |-> shelf[v] + Units(remote[o].lines)[v]]
    /\ Sent([order |-> o, topic |-> "cancelled"])

\* The shop cancels in Shopify Admin.
ShopCancels(o) ==
    /\ remote[o].open
    /\ remote[o].stage < Stages!Rank("Delivered")
    /\ [order |-> o, topic |-> "cancelled"] \in Reports
    /\ Closed(o)
    /\ UNCHANGED <<dbVars, tx, hookVars, askVars, outVars, named, silent>>

-----------------------------------------------------------------------------
(* Transactions.                                                           *)

Opened(w, job, at) ==
    /\ tx[w] = Idle
    /\ tx' = [tx EXCEPT ![w] = [at |-> at, job |-> job, row |-> rows[job.order]]]

Ended(w) == tx' = [tx EXCEPT ![w] = Idle]

\* Mutant of Accepted: a cancellation does not look at the status.
AcceptedAnyway(job, row) ==
    /\ job.op # "cancel" => Modifiable(row)
    /\ job.op \in {"modify", "swap"} => On(row.lines, job.line) # {}

\* What the service refuses on reading the order.
Accepted(job, row) ==
    /\ Modifiable(row)
    /\ job.op \in {"modify", "swap"} => On(row.lines, job.line) # {}
    /\ job.op = "modify" /\ job.quantity = 0 =>
         \E i \in DOMAIN row.lines : i # First(row.lines, job.line) /\ row.lines[i].quantity > 0

\* A tool call or a dashboard request reads the order and finds it may go on.
\* A customer has one turn at a time (OneTurnPerConversation of Dispatcher).
Begin(w, r) ==
    /\ r.op # "deliver"
    /\ starts[r] < MaxStarts
    /\ InQueue(r) => r \in open
    /\ r.by = "customer" =>
         \A x \in Workers : tx[x] # Idle => tx[x].job.by # "customer" \/ tx[x].job.order # r.order
    /\ Accepted(r, rows[r.order])
    /\ Opened(w, r, "read")
    /\ starts' = [starts EXCEPT ![r] = @ + 1]
    /\ UNCHANGED <<shopVars, dbVars, hookVars, open, decided, outVars, named, silent>>

\* A worker takes a background task: `handle_topic` reads the order.  A cancelled
\* order, a stage already reached and a shipped order's cancellation end it.
Handle(w, e) ==
    LET row == rows[e.order]
        job == JobOf(e)
        nothing ==
            IF row.status = "Cancelled" THEN TRUE
            ELSE IF job.op = "cancel" THEN ~Modifiable(row)
            ELSE Stages!Rank(row.status) >= Stages!Rank(TOPIC_STATUS[e.topic])
    IN  /\ e \in tasks
        /\ \A x \in Workers : tx[x] # Idle => tx[x].job # job
        /\ \/ /\ nothing
              /\ tasks' = tasks \ {e}
              /\ UNCHANGED tx
           \/ /\ ~nothing
              /\ Opened(w, job, "called")
              /\ UNCHANGED tasks
        /\ UNCHANGED <<shopVars, dbVars, claimed, failed, askVars, outVars, named, silent>>

-----------------------------------------------------------------------------
(* Calls of Shopify.                                                       *)

\* The lines Shopify would have after the edit of `job`, worked out from `row`.
EditedLines(job, row, lines) ==
    CASE job.op = "modify" -> SetLine(lines, job.line, job.quantity)
      [] job.op = "add" /\ On(row.lines, job.line) # {} ->
           SetLine(lines, job.line, Quantity(row.lines, job.line) + job.quantity)
      [] job.op = "add" /\ On(row.lines, job.line) = {} ->
           AddLine(lines, job.line, job.quantity)
      [] job.op = "swap" ->
           AddLine(SetLine(lines, job.line, 0), job.to, Quantity(row.lines, job.line))

\* A swap adds its line on Shopify, and locally turns one into it, whether or not the
\* order has that item already: with two lines of it the sides may not mean the same first.
Doubles(job, row) == job.op = "swap" /\ On(row.lines, job.to) # {}

\* The shelf after order o has the lines `lines` instead of its own.
ShelfAfter(o, lines) ==
    [v \in Variants |-> shelf[v] + Units(remote[o].lines)[v] - Units(lines)[v]]

\* Shopify has the line the edit names, and the units it needs are on the shelf.
Possible(job, row) ==
    /\ Editable(job.order)
    /\ (job.op # "add" \/ On(row.lines, job.line) # {}) =>
         On(remote[job.order].lines, job.line) # {}
    /\ LET after == ShelfAfter(job.order, EditedLines(job, row, remote[job.order].lines))
       IN  \A v \in Variants : after[v] >= 0

\* Another edit of the order stands on Shopify and is not settled here, or was
\* committed here since this one read the lines: what this one makes of them on
\* Shopify and what is written here need not be the same.
Crosses(w) ==
    LET o == tx[w].job.order
    IN  \/ rows[o].lines # tx[w].row.lines
        \/ \E x \in Workers \ {w} :
             tx[x] # Idle /\ tx[x].at = "called" /\ tx[x].job.op \in Edits /\ tx[x].job.order = o

\* The edit is committed on Shopify.  A reply that is lost reads as a refusal,
\* and nothing is put back.
EditLands(w) ==
    LET job == tx[w].job
        o == job.order
        lines == EditedLines(job, tx[w].row, remote[o].lines)
    IN  /\ tx[w].at = "read"
        /\ job.op \in Edits
        /\ Possible(job, tx[w].row)
        /\ remote' = [remote EXCEPT ![o].lines = lines]
        /\ shelf' = ShelfAfter(o, lines)
        /\ \/ /\ tx' = [tx EXCEPT ![w].at = "called"]
              /\ silent' = IF Doubles(job, tx[w].row) \/ Crosses(w) THEN silent \cup {o} ELSE silent
           \/ /\ "lost_reply" \in Faults
              /\ Ended(w)
              /\ silent' = silent \cup {o}
        /\ UNCHANGED <<copies, dbVars, hookVars, askVars, outVars, named>>

\* No stock, no such line, no longer editable, or Shopify unreachable: refused,
\* back to the savepoint.  The customer's request stays in the queue.
EditRefused(w) ==
    /\ tx[w].at = "read"
    /\ tx[w].job.op \in Edits
    /\ "outage" \in Faults \/ ~Possible(tx[w].job, tx[w].row)
    /\ Ended(w)
    /\ UNCHANGED <<shopVars, dbVars, hookVars, askVars, outVars, named, silent>>

\* `cancel` asks Shopify to cancel and restock; whatever it answers, the local
\* order is closed, and a failure is logged for a person.
CancelCalled(w) ==
    LET o == tx[w].job.order
        can == remote[o].open /\ remote[o].stage < Stages!Rank("Shipped")
    IN  /\ tx[w].at = "read"
        /\ tx[w].job.op = "cancel"
        /\ tx' = [tx EXCEPT ![w].at = "called"]
        /\ \/ can /\ Closed(o) /\ UNCHANGED named
           \/ can /\ Closed(o) /\ "lost_reply" \in Faults /\ named' = named \cup {o}
           \/ /\ ~can \/ "outage" \in Faults
              /\ named' = named \cup {o}
              /\ UNCHANGED shopVars
        /\ UNCHANGED <<dbVars, hookVars, askVars, outVars, silent>>

\* The dashboard's "delivered": Shopify first, as a fulfilment event, then the
\* local order.  When the answer is lost the webhook is left to do it.
MarkDelivered(w, r) ==
    LET o == r.order
    IN  /\ r.op = "deliver"
        /\ starts[r] < MaxStarts
        /\ tx[w] = Idle
        /\ remote[o].open
        /\ remote[o].stage = Stages!Rank("Shipped")
        /\ remote' = [remote EXCEPT ![o].stage = Stages!Rank("Delivered")]
        /\ Sent([order |-> o, topic |-> "delivered"])
        /\ \/ Opened(w, [by |-> "staff", op |-> "advance", order |-> o, topic |-> "delivered"], "called")
           \/ "lost_reply" \in Faults /\ UNCHANGED tx
        /\ starts' = [starts EXCEPT ![r] = @ + 1]
        /\ UNCHANGED <<shelf, dbVars, hookVars, open, decided, outVars, named, silent>>

-----------------------------------------------------------------------------
(* Writing, and the commit.                                                *)

\* Mutant of Taken: what Shopify cancelled is not given back locally.
TakenForGood(job, row, v) ==
    CASE job.op = "modify" -> IF v = job.line THEN job.quantity - Quantity(row.lines, v) ELSE 0
      [] job.op = "add"    -> IF v = job.line THEN job.quantity ELSE 0
      [] job.op = "swap"   -> IF v = job.to THEN Quantity(row.lines, job.line)
                              ELSE IF v = job.line THEN -Quantity(row.lines, v) ELSE 0
      [] job.op = "cancel" /\ job.by # "shopify" -> -Units(rows[job.order].lines)[v]
      [] OTHER             -> 0

\* Units of v the order takes off the local row, or gives back (negative), as
\* `record_sold` and `record_returned` are told: an edit works from the row it
\* read, a cancellation from the lines it finds when it writes.
Taken(job, row, v) ==
    CASE job.op = "modify" -> IF v = job.line THEN job.quantity - Quantity(row.lines, v) ELSE 0
      [] job.op = "add"    -> IF v = job.line THEN job.quantity ELSE 0
      [] job.op = "swap"   -> IF v = job.to THEN Quantity(row.lines, job.line)
                              ELSE IF v = job.line THEN -Quantity(row.lines, v) ELSE 0
      [] job.op = "cancel" -> -Units(rows[job.order].lines)[v]
      [] OTHER             -> 0

\* `_local_decrement` floors the row at zero; `record_returned` adds.
StockAfter(job, row) ==
    [v \in Variants |-> IF Taken(job, row, v) > stock[v] THEN 0 ELSE stock[v] - Taken(job, row, v)]

\* What an edit that read `row` writes over the lines there are: a quantity is the one
\* worked out from the row it read, a swap changes the item of its line in place.
WrittenLines(job, row, lines) ==
    LET line == First(row.lines, job.line)
    IN  CASE job.op = "modify" -> [lines EXCEPT ![line].quantity = job.quantity]
          [] job.op = "add" /\ On(row.lines, job.line) # {} ->
               [lines EXCEPT ![line].quantity = row.lines[line].quantity + job.quantity]
          [] job.op = "add" /\ On(row.lines, job.line) = {} ->
               AddLine(lines, job.line, job.quantity)
          [] job.op = "swap" -> [lines EXCEPT ![line].item = job.to]
          [] OTHER -> lines

\* `advance_to`: every stage from the one that was read to the target.
Walked(job, row) ==
    IF row.status = "Cancelled" THEN <<>> ELSE
    SubSeq(Stages!STATUS_SEQUENCE, Stages!Rank(row.status) + 1, Stages!Rank(TOPIC_STATUS[job.topic]))

\* Mutant of StatusAfter: one stage for every webhook.
StatusOneOn(job, row, now) ==
    CASE job.op = "cancel"  -> "Cancelled"
      [] job.op = "advance" -> IF Walked(job, row) = <<>> THEN now ELSE Walked(job, row)[1]
      [] OTHER              -> now

\* Cancelled, or at the target if there was a stage to go; an edit leaves it.
StatusAfter(job, row, now) ==
    CASE job.op = "cancel"  -> "Cancelled"
      [] job.op = "advance" -> IF Walked(job, row) = <<>> THEN now ELSE TOPIC_STATUS[job.topic]
      [] OTHER              -> now

\* The line an edit has in hand was not deleted by another transaction.
StillThere(job, row) ==
    job.op \in Edits /\ On(row.lines, job.line) # {} =>
        rows[job.order].lines[First(row.lines, job.line)].quantity > 0

Pushes(job, row) ==
    CASE job.op = "advance" -> Walked(job, row)
      [] job.op = "cancel" /\ job.by # "customer" -> <<"Cancelled">>
      [] OTHER -> <<>>

\* A status is written over one another transaction has changed since it was read.
WritesOver(w) ==
    LET job == tx[w].job
        row == tx[w].row
    IN  /\ tx[w].at = "called"
        /\ row.status # rows[job.order].status
        /\ job.op = "cancel" \/ (job.op = "advance" /\ Walked(job, row) # <<>>)

\* Everything is written, COMMIT succeeds, and the hooks run: status pushes, and
\* for a delivery Shopify is told that the cash was collected.
Commit(w) ==
    LET job == tx[w].job
        row == tx[w].row
        o == job.order
    IN  /\ tx[w].at = "called"
        /\ StillThere(job, row)
        /\ rows' = [rows EXCEPT ![o] = [status |-> StatusAfter(job, row, @.status),
                                        lines |-> WrittenLines(job, row, @.lines)]]
        /\ overtaken' = IF WritesOver(w) THEN overtaken \cup {o} ELSE overtaken
        /\ stock' = StockAfter(job, row)
        /\ short' = [v \in Variants |-> short[v] + Max({0, Taken(job, row, v) - stock[v]})]
        /\ told' = [told EXCEPT ![o] = @ \o Pushes(job, row)]
        /\ paid' = IF Contains(Pushes(job, row), "Delivered") THEN paid \cup {o} ELSE paid
        /\ tasks' = IF job.by = "shopify" THEN tasks \ {EventOf(job)} ELSE tasks
        /\ open' = open \ {job}
        /\ decided' = IF job \in Requests /\ InQueue(job)
                      THEN [decided EXCEPT ![job] = Append(@, "approved")] ELSE decided
        /\ Ended(w)
        /\ UNCHANGED <<shopVars, claimed, failed, starts, named, silent>>

\* Mutant of WriteFails: the changed quantity is not put back on Shopify.
WriteFailsUncompensated(w) ==
    /\ tx[w].at = "called"
    /\ tx[w].job.op \in Edits
    /\ "write_fails" \in Faults \/ ~StillThere(tx[w].job, tx[w].row)
    /\ Ended(w)
    /\ silent' = IF tx[w].job.op # "modify" THEN silent \cup {tx[w].job.order} ELSE silent
    /\ UNCHANGED <<shopVars, dbVars, hookVars, askVars, outVars, named>>

\* A statement of an edit fails: back to the savepoint.  A changed quantity is put
\* back on Shopify, or a person is asked to; an added or swapped line stays there.
WriteFails(w) ==
    LET job == tx[w].job
        row == tx[w].row
        o == job.order
        back == SetLine(remote[o].lines, job.line, Quantity(row.lines, job.line))
        can == Editable(o) /\ On(remote[o].lines, job.line) # {}
               /\ \A v \in Variants : ShelfAfter(o, back)[v] >= 0
    IN  /\ tx[w].at = "called"
        /\ job.op \in Edits
        /\ "write_fails" \in Faults \/ ~StillThere(job, row)
        /\ Ended(w)
        /\ \/ /\ job.op = "modify" /\ can
              /\ remote' = [remote EXCEPT ![o].lines = back]
              /\ shelf' = ShelfAfter(o, back)
              /\ UNCHANGED <<named, silent>>
           \/ /\ job.op = "modify"
              /\ ~can \/ "outage" \in Faults
              /\ named' = named \cup {o}
              /\ UNCHANGED <<remote, shelf, silent>>
           \/ /\ job.op # "modify"
              /\ silent' = silent \cup {o}
              /\ UNCHANGED <<remote, shelf, named>>
        /\ UNCHANGED <<copies, dbVars, hookVars, askVars, outVars>>

\* The transaction is rolled back after the savepoint was released: COMMIT fails,
\* or the turn or the request does.  Shopify keeps an edit; a webhook is given up,
\* and its redelivery is a duplicate.
CommitFails(w) ==
    LET job == tx[w].job
    IN  /\ tx[w].at = "called"
        /\ "commit_fails" \in Faults
        /\ Ended(w)
        /\ silent' = IF job.op \in Edits THEN silent \cup {job.order} ELSE silent
        /\ tasks' = IF job.by = "shopify" THEN tasks \ {EventOf(job)} ELSE tasks
        /\ failed' = IF job.by = "shopify" THEN failed \cup {EventOf(job)} ELSE failed
        /\ UNCHANGED <<shopVars, dbVars, claimed, askVars, outVars, named>>

\* Staff turn a request down.
Resolve(r) ==
    /\ r \in open
    /\ open' = open \ {r}
    /\ decided' = [decided EXCEPT ![r] = Append(@, "rejected")]
    /\ UNCHANGED <<shopVars, dbVars, hookVars, starts, tx, outVars, named, silent>>

-----------------------------------------------------------------------------
(* Webhooks.                                                               *)

\* A delivery arrives: `_claim` in a transaction of its own, then 200 and a
\* background task, or 200 and nothing when it is claimed already.
Inbound(e) ==
    /\ copies[e] > 0
    /\ copies' = [copies EXCEPT ![e] = @ - 1]
    /\ claimed' = claimed \cup {e}
    /\ tasks' = IF e \in claimed THEN tasks ELSE tasks \cup {e}
    /\ UNCHANGED <<remote, shelf, dbVars, tx, failed, askVars, outVars, named, silent>>

\* The process ends between the 200 and the end of the task.
TaskLost(e) ==
    /\ "task_lost" \in Faults
    /\ e \in tasks
    /\ \A w \in Workers : tx[w] # Idle => tx[w].job # JobOf(e)
    /\ tasks' = tasks \ {e}
    /\ failed' = failed \cup {e}
    /\ UNCHANGED <<shopVars, dbVars, tx, claimed, askVars, outVars, named, silent>>

Next ==
    \/ \E o \in Orders : ShopMoves(o) \/ ShopCancels(o)
    \/ \E e \in Reports : Inbound(e) \/ TaskLost(e)
    \/ \E r \in Requests : Resolve(r)
    \/ \E w \in Workers :
         \/ \E r \in Requests : Begin(w, r) \/ MarkDelivered(w, r)
         \/ \E e \in Reports : Handle(w, e)
         \/ EditLands(w) \/ EditRefused(w) \/ CancelCalled(w)
         \/ Commit(w) \/ WriteFails(w) \/ CommitFails(w)

Spec == Init /\ [][Next]_vars

-----------------------------------------------------------------------------
TypeOK ==
    /\ rows \in [Orders -> Row]
    /\ stock \in [Variants -> Nat] /\ shelf \in [Variants -> Nat]
    /\ short \in [Variants -> Nat]
    /\ tx \in [Workers -> {Idle} \cup
                 [at : {"read", "called"}, row : Row,
                  job : Jobs \cup {[by |-> "staff", op |-> "advance", order |-> o,
                                    topic |-> "delivered"] : o \in Orders}]]
    /\ remote \in [Orders -> [open : BOOLEAN, stage : 1..4, lines : Seq(Line)]]
    /\ copies \in [Reports -> Nat]
    /\ claimed \subseteq Reports /\ failed \subseteq claimed
    /\ tasks \subseteq claimed \ failed
    /\ starts \in [Requests -> 0..MaxStarts]
    /\ open \subseteq Requests
    /\ told \in [Orders -> Seq(Stages!Statuses)]
    /\ paid \subseteq Orders /\ named \subseteq Orders
    /\ silent \subseteq Orders /\ overtaken \subseteq Orders
    /\ decided \in [Requests -> Seq({"approved", "rejected"})]

\* Nothing is running on this order.
AtRest(o) == \A w \in Workers : tx[w] # Idle => tx[w].job.order # o

\* The two records of an order agree: a cancelled order is closed on Shopify, and
\* an open one has the same units of everything.
SidesAgree(o) ==
    IF rows[o].status = "Cancelled" THEN ~remote[o].open
    ELSE remote[o].open => Units(remote[o].lines) = Units(rows[o].lines)

\* Shopify and the shop disagree about an order only where a log line asks a
\* person to put it right, or in the ways that leave no line: the reply to an edit
\* lost, an added or swapped line whose local write failed, an edit rolled back
\* after its savepoint was released, an order with two lines of one item, two edits
\* that cross.  Two edits that only read the same lines, and edits, cancellations and
\* webhooks at the same time, leave the sides alike.
DisagreementsKnown ==
    \A o \in Orders : AtRest(o) /\ o \notin named \cup silent => SidesAgree(o)

\* Does not hold: the local stock and the units in live orders add up; only a row that
\* was short, and so floored at zero, gains units by a later return.  Other orders of the
\* same variant, changed at the same time, keep it; but two cancellations of one order
\* return its units twice, as the dashboard and Shopify's webhook may (orders.py:1098),
\* and edits of one order that overlap take or return by the lines each has read.
BooksBalance ==
    \A v \in Variants :
        LET held(F) == FoldSet(LAMBDA o, n : n + F[o], 0, Orders)
            live == [o \in Orders |-> IF rows[o].status = "Cancelled" THEN 0 ELSE Units(rows[o].lines)[v]]
        IN  stock[v] + held(live) =
              LocalStock[v] + held([o \in Orders |-> Units(Placed[o])[v]]) + short[v]

\* "Two lines of the same variant on one order is a packing slip nobody can read"
\* (`_add_variant`): an order has one line of an item.
OneLineEach ==
    \A o \in Orders, v \in Variants : Cardinality(On(rows[o].lines, v)) <= 1

\* What Shopify reported and was not lost is on record once it has been handled,
\* in whatever order and however often the webhooks arrived, and with whatever
\* transactions they overlapped: a stage is reached, and a cancelled order is
\* cancelled unless it had shipped.  The exception is an order one of whose
\* transactions wrote its status over another's.
ReportsApplied ==
    \A e \in claimed \ (tasks \cup failed) :
        LET now == rows[e.order].status
        IN  \/ e.order \in overtaken
            \/ IF e.topic = "cancelled" THEN now \in {"Cancelled", "Shipped", "Delivered"}
               ELSE now # "Cancelled" =>
                      Stages!Rank(now) >= Stages!Rank(TOPIC_STATUS[e.topic])

\* As OrderStages says, from the status the order has, or from the one a transaction
\* has read that writes over what another committed since.
OrderMoves(o) ==
    \/ Stages!Stays(o)
    \/ Stages!Moves(o, status[o])
    \/ \E w \in Workers :
         WritesOver(w) /\ tx[w].job.order = o /\ Stages!Moves(o, tx[w].row.status)

\* What transactions of one order do to its status, at the same time or not
\* (`advance_status`, `cancel`): each moves it forward or ends it from the status the
\* transaction read, its customer hears of each stage passed from there, and that
\* status is the order's still, except where one transaction writes over another's.
StatusesMoveForward == [][\A o \in Orders : OrderMoves(o)]_vars

\* "Statuses only ever move forward, one stage at a time" (webhooks.py:43), with no
\* exception: OrderLifecycle implements OrderStages.  It does not: the read, the check
\* and the write of a status are not one step.
StatusesOnlyMoveForward == Stages!Spec

\* "Whichever staff action lands first wins" (queues.py): a request is decided once.
DecidedOnce == \A r \in Requests : Len(decided[r]) <= 1
=============================================================================
