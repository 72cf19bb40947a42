------------------------ MODULE ShelfReservations ------------------------
(***************************************************************************)
(* Taking units off the shelf and giving them back:                        *)
(* domain/services/inventory.py over integrations/shopify/inventory.py, as *)
(* domain/services/orders.py uses them for an order with no Shopify order  *)
(* behind it -- one placed before the shop moved to Shopify, and every     *)
(* order of a shop with no Shopify at all (integrations/shopify/           *)
(* local_shelf.py).                                                        *)
(*                                                                         *)
(* A turn or a dashboard request is one database transaction in which any  *)
(* number of edits of an order follow each other.  Shopify's shelf moves   *)
(* at once, compare-and-set, and has no savepoint; the local row moves     *)
(* when the transaction commits, and a read of it sees committed rows      *)
(* alone, the reader's own changes left out.  Every item is tracked.       *)
(***************************************************************************)
EXTENDS Integers, FiniteSets

CONSTANTS
    Pieces, OldOrders, Clerks,
    Stock,          \* item -> units on the shelf at the start
    OnOrder,        \* order -> its lines at the start; no units: not placed yet
    Deployments,    \* where the shop may run
    MaxEdits,       \* bound: edits begun
    MaxSales,       \* bound: units the storefront sells
    MaxCounts,      \* bound: corrections by staff
    MaxFailures,      \* bound: calls and transactions that fail
    None

\* Shopify's shelf; no Shopify, on SQLite, where every transaction is BEGIN
\* IMMEDIATE; no Shopify, on PostgreSQL.
KnownDeployments == {"shopify", "sqlite", "postgres"}

ASSUME ShelfAssumption ==
    /\ IsFiniteSet(Pieces) /\ IsFiniteSet(OldOrders)
    /\ Stock \in [Pieces -> Nat]
    /\ OnOrder \in [OldOrders -> [Pieces -> Nat]]
    /\ Deployments \subseteq KnownDeployments
    /\ {MaxEdits, MaxSales, MaxCounts, MaxFailures} \subseteq Nat
    /\ None \notin Pieces \cup OldOrders

VARIABLES
    deployment,
    onShelf,    \* item -> Shopify's count of it; with no Shopify, the local row's
    lines,      \* order -> item -> units on it, as committed
    closed,     \* orders that are cancelled
    desk,       \* clerk -> the transaction in its hands
    sold,       \* external: item -> units the storefront has sold
    count,      \* external: the item and the number staff counted, or None
    edits, counts, failures,
    strayed     \* history: <<item, why>>, units the code let go astray

shelfVars ==
    <<deployment, onShelf, lines, closed, desk, sold, count, edits, counts, failures, strayed>>

Nothing == [i \in Pieces |-> 0]

\* All units of f together, counted one by one.
Total(f) == Cardinality(UNION {{x} \X (1 .. f[x]) : x \in DOMAIN f})

\* What a transaction's updates of a row come to: by, the sum of them; least, what
\* the row ends at if it is all sold on the way; takes, how many took units off it.
Unmoved == [by |-> 0, least |-> 0, takes |-> 0]

\* view: the order as the transaction sees it; take, units, give: the edit;
\* item: what is being given back; given: what has been; expected: what the
\* receipt says the shelf was left at; moves: the local rows' updates so far;
\* moved: items whose shelf at Shopify the transaction has moved.
NoEdit ==
    [at |-> "idle", order |-> None, view |-> Nothing, closing |-> FALSE, take |-> None,
     units |-> 0, give |-> Nothing, item |-> None, seen |-> 0, expected |-> 0,
     given |-> {}, moves |-> [i \in Pieces |-> Unmoved], moved |-> {}, verdict |-> "none"]

Why == {"logged", "unheard", "uncommitted", "half_undone", "overwritten", "raced", "unseen"}

ShelfTypeOK ==
    /\ deployment \in Deployments
    /\ onShelf \in [Pieces -> Int]
    /\ lines \in [OldOrders -> [Pieces -> Nat]]
    /\ closed \subseteq OldOrders
    /\ DOMAIN desk = Clerks
    /\ count \in {None} \cup (Pieces \X Int)
    /\ strayed \subseteq Pieces \X Why

ShelfInit ==
    /\ deployment \in Deployments
    /\ onShelf = Stock
    /\ lines = OnOrder
    /\ closed = {}
    /\ desk = [c \in Clerks |-> NoEdit]
    /\ sold = Nothing
    /\ count = None
    /\ edits = 0 /\ counts = 0 /\ failures = 0
    /\ strayed = {}

NoShopify == deployment # "shopify"
AtStep(c, here) == desk[c].at = here
Busy(c) == ~AtStep(c, "idle")

Fails == failures < MaxFailures /\ failures' = failures + 1
Works == UNCHANGED failures

-----------------------------------------------------------------------------
(* An edit takes units of one item, gives units of others back, or both.    *)

\* BEGIN IMMEDIATE: a transaction of SQLite's waits for the one before it.
MayOpen(c) == deployment = "sqlite" => \A d \in Clerks \ {c} : ~Busy(d)

OrderSeen(c, o) == IF Busy(c) THEN desk[c].view ELSE lines[o]

\* Two edits of one order at once are OrderLifecycle's.
BeginEdit(c, o, take, units, give, closing) ==
    /\ edits < MaxEdits /\ edits' = edits + 1
    /\ (AtStep(c, "idle") /\ MayOpen(c)) \/ (AtStep(c, "open") /\ desk[c].order = o)
    /\ \A d \in Clerks \ {c} : desk[d].order # o
    /\ o \notin closed /\ ~desk[c].closing
    /\ desk' = [desk EXCEPT ![c] =
          [@ EXCEPT !.at = IF take # None THEN "reading" ELSE "giving",
                    !.order = o, !.view = OrderSeen(c, o), !.closing = closing,
                    !.take = take, !.units = units, !.give = give,
                    !.given = {}, !.verdict = "none"]]
    /\ UNCHANGED <<deployment, onShelf, lines, closed, sold, count, counts, failures, strayed>>

OneOf(i, n) == [Nothing EXCEPT ![i] = n]

\* place_order, with no Shopify to place the order with.
PlaceLocally(c, o, i) ==
    /\ NoShopify /\ AtStep(c, "idle") /\ lines[o] = Nothing
    /\ BeginEdit(c, o, i, 1, Nothing, FALSE)

\* modify_quantity upwards; apply_add and add_item.
AddUnit(c, o, i) ==
    /\ OrderSeen(c, o) # Nothing
    /\ BeginEdit(c, o, i, 1, Nothing, FALSE)

\* modify_quantity downwards: an order is never emptied.
LowerUnit(c, o, i) ==
    /\ OrderSeen(c, o)[i] > 0 /\ Total(OrderSeen(c, o)) > 1
    /\ BeginEdit(c, o, None, 0, OneOf(i, 1), FALSE)

SwapItems(c, o, i, j) ==
    LET n == OrderSeen(c, o)[i]
    IN  /\ i # j /\ n > 0
        /\ BeginEdit(c, o, j, n, OneOf(i, n), FALSE)

CancelOld(c, o) ==
    /\ OrderSeen(c, o) # Nothing
    /\ BeginEdit(c, o, None, 0, OrderSeen(c, o), TRUE)

-----------------------------------------------------------------------------
(* decrement: read, check, reserve.                                         *)

\* A refusal rolls the edit's savepoint back: the transaction stays as it was.
Refused(d, verdict) ==
    [d EXCEPT !.at = "open", !.verdict = verdict, !.give = Nothing, !.given = {},
              !.item = None, !.closing = FALSE]

ReadShelf(c) ==
    LET d == desk[c] IN
    /\ AtStep(c, "reading")
    /\ \/ /\ Works
          /\ desk' = [desk EXCEPT ![c] =
                LET read == [d EXCEPT !.seen = onShelf[d.take]]
                IN  IF onShelf[d.take] < d.units THEN Refused(read, "insufficient_stock")
                    ELSE [read EXCEPT !.at = IF NoShopify THEN "giving" ELSE "reserving"]]
       \/ /\ ~NoShopify /\ Fails
          /\ desk' = [desk EXCEPT ![c] = Refused(d, "store_unavailable")]
    /\ UNCHANGED <<deployment, onShelf, lines, closed, sold, count, edits, counts, strayed>>

\* Mutant of SetIf: no changeFromQuantity, so that the last write wins.
SetAnyway(i, was, now) == was = was /\ onShelf' = [onShelf EXCEPT ![i] = now]

\* _set: the write holds only if the shelf is what it was read as.
SetIf(i, was, now) == onShelf[i] = was /\ onShelf' = [onShelf EXCEPT ![i] = now]

\* One idempotency key for all the client's attempts: what is left of a bad
\* network is a write that is applied and never heard of.
ReserveUnits(c) ==
    LET d == desk[c]
        Off == SetIf(d.take, d.seen, d.seen - d.units)
    IN
    /\ AtStep(c, "reserving")
    /\ \/ /\ Off /\ Works
          /\ desk' = [desk EXCEPT ![c].at = "giving", ![c].expected = d.seen - d.units]
          /\ UNCHANGED strayed
       \/ /\ onShelf[d.take] # d.seen /\ Works
          /\ desk' = [desk EXCEPT ![c].at = "moved"]
          /\ UNCHANGED <<onShelf, strayed>>
       \/ /\ Fails
          /\ desk' = [desk EXCEPT ![c] = Refused(d, "store_unavailable")]
          /\ \/ UNCHANGED <<onShelf, strayed>>
             \/ Off /\ strayed' = strayed \cup {<<d.take, "unheard">>}
    /\ UNCHANGED <<deployment, lines, closed, sold, count, edits, counts>>

\* StockMoved: the shelf is read again, and the customer hears insufficient_stock.
Reread(c) ==
    LET d == desk[c] IN
    /\ AtStep(c, "moved") /\ Works
    /\ desk' = [desk EXCEPT ![c] =
          Refused([d EXCEPT !.seen = onShelf[d.take]], "insufficient_stock")]
    /\ UNCHANGED <<deployment, onShelf, lines, closed, sold, count, edits, counts, strayed>>

-----------------------------------------------------------------------------
(* release: best effort at Shopify, one item after another.                  *)

StillToGive(d) == {i \in Pieces : d.give[i] > 0 /\ i \notin d.given}

ReadForRelease(c) ==
    LET d == desk[c] IN
    /\ AtStep(c, "giving") /\ ~NoShopify
    /\ \E i \in StillToGive(d) :
          \/ /\ Works
             /\ desk' = [desk EXCEPT ![c].at = "releasing", ![c].item = i, ![c].seen = onShelf[i]]
             /\ UNCHANGED strayed
          \/ /\ Fails
             /\ desk' = [desk EXCEPT ![c].given = @ \cup {i}]
             /\ strayed' = strayed \cup {<<i, "logged">>}
    /\ UNCHANGED <<deployment, onShelf, lines, closed, sold, count, edits, counts>>

\* try_release: refused, not answered, or answered and not heard, it is a line
\* in the log for somebody to put right by hand.
TryRelease(i, was, n) ==
    \/ /\ SetIf(i, was, was + n) /\ Works
       /\ UNCHANGED strayed
    \/ /\ onShelf[i] # was /\ Works
       /\ strayed' = strayed \cup {<<i, "logged">>}
       /\ UNCHANGED onShelf
    \/ /\ Fails
       /\ SetIf(i, was, was + n) \/ UNCHANGED onShelf
       /\ strayed' = strayed \cup {<<i, "logged">>}

ReleaseUnits(c) ==
    LET d == desk[c] IN
    /\ AtStep(c, "releasing")
    /\ TryRelease(d.item, d.seen, d.give[d.item])
    /\ desk' = [desk EXCEPT ![c].at = "giving", ![c].given = @ \cup {d.item},
                            ![c].moved = @ \cup {d.item}]
    /\ UNCHANGED <<deployment, lines, closed, sold, count, edits, counts>>

-----------------------------------------------------------------------------
(* The rest of the edit, and the transaction.                                *)

\* Units the edit gives back of an item, less those it takes.
Change(d, i) == d.give[i] - (IF i = d.take THEN d.units ELSE 0)

AfterEdit(d) == [i \in Pieces |-> d.view[i] - Change(d, i)]

\* _local_decrement stops at zero.
Floor(n, by) == IF n + by > 0 THEN n + by ELSE 0

\* One more update of a row.
Move(m, by) == [by |-> m.by + by, least |-> Floor(m.least, by),
                takes |-> m.takes + (IF by < 0 THEN 1 ELSE 0)]

\* The line is written and the savepoint released, with the receipts forgotten.
\* place_order commits by itself.
WriteEdit(c) ==
    LET d == desk[c] IN
    /\ AtStep(c, "giving") /\ (NoShopify \/ StillToGive(d) = {})
    /\ desk' = [desk EXCEPT ![c] =
          [d EXCEPT !.at = IF d.view = Nothing THEN "committing" ELSE "open",
                    !.view = AfterEdit(d), !.moves = IF NoShopify THEN [i \in Pieces |-> Move(@[i], Change(d, i))]
                                               ELSE @,
                    !.moved = IF d.take # None THEN @ \cup {d.take} ELSE @,
                    !.take = None, !.units = 0, !.give = Nothing, !.item = None,
                    !.seen = 0, !.expected = 0, !.given = {}]]
    /\ UNCHANGED <<deployment, onShelf, lines, closed, sold, count, edits, counts, failures, strayed>>

\* An exception on the way: back to the savepoint, and what was reserved goes
\* back on the shelf; what was released stays there.
WriteEditFails(c) ==
    LET d == desk[c] IN
    /\ AtStep(c, "giving") /\ (NoShopify \/ StillToGive(d) = {}) /\ ~d.closing
    /\ failures < MaxFailures
    /\ desk' = [desk EXCEPT ![c] =
          [Refused(d, "failed") EXCEPT
             !.at = IF NoShopify \/ d.take = None THEN "open" ELSE "returning"]]
    /\ failures' = failures + 1
    /\ strayed' = strayed \cup {<<i, "half_undone">> : i \in d.given}
    /\ UNCHANGED <<deployment, onShelf, lines, closed, sold, count, edits, counts>>

\* Mutant of ReturnReceipts: the reservation outlives the edit.
ForgetReceipts(c) ==
    /\ AtStep(c, "returning") /\ Works
    /\ desk' = [desk EXCEPT ![c].at = "open", ![c].take = None, ![c].expected = 0]
    /\ UNCHANGED <<deployment, onShelf, lines, closed, sold, count, edits, counts, strayed>>

\* return_receipts, against the number the reservation left behind.
ReturnReceipts(c) ==
    LET d == desk[c] IN
    /\ AtStep(c, "returning")
    /\ TryRelease(d.take, d.expected, d.units)
    /\ desk' = [desk EXCEPT ![c].at = "open", ![c].take = None, ![c].expected = 0]
    /\ UNCHANGED <<deployment, lines, closed, sold, count, edits, counts>>

Floors(moves) ==
    [i \in Pieces |-> IF onShelf[i] + moves[i].by > moves[i].least
                       THEN onShelf[i] + moves[i].by ELSE moves[i].least]

\* Units sold that the row did not have: the row changed under the transaction,
\* or the transaction had taken some of them already and could not see it.
SoldUnheld(moves) ==
    {<<i, IF moves[i].takes > 1 THEN "unseen" ELSE "raced">> :
        i \in {j \in Pieces : Floors(moves)[j] # onShelf[j] + moves[j].by}}

CommitEdits(c) ==
    LET d == desk[c] IN
    /\ AtStep(c, "open") \/ AtStep(c, "committing")
    /\ lines' = [lines EXCEPT ![d.order] = d.view]
    /\ closed' = IF d.closing THEN closed \cup {d.order} ELSE closed
    /\ onShelf' = IF NoShopify THEN Floors(d.moves) ELSE onShelf
    /\ strayed' = IF NoShopify THEN strayed \cup SoldUnheld(d.moves) ELSE strayed
    /\ desk' = [desk EXCEPT ![c] = NoEdit]
    /\ UNCHANGED <<deployment, sold, count, edits, counts, failures>>

\* The transaction rolls back after its edits: Shopify's shelf has moved.
CommitEditsFails(c) ==
    LET d == desk[c] IN
    /\ AtStep(c, "open") \/ AtStep(c, "committing")
    /\ Fails
    /\ desk' = [desk EXCEPT ![c] = NoEdit]
    /\ strayed' = IF NoShopify THEN strayed
                  ELSE strayed \cup {<<i, "uncommitted">> : i \in d.moved}
    /\ UNCHANGED <<deployment, onShelf, lines, closed, sold, count, edits, counts>>

-----------------------------------------------------------------------------
(* The others at Shopify's onShelf.                                            *)

\* external: the storefront.
StorefrontSells(i) ==
    /\ ~NoShopify /\ onShelf[i] > 0 /\ Total(sold) < MaxSales
    /\ onShelf' = [onShelf EXCEPT ![i] = @ - 1]
    /\ sold' = [sold EXCEPT ![i] = @ + 1]
    /\ UNCHANGED <<deployment, lines, closed, desk, count, edits, counts, failures, strayed>>

\* external: somebody counts what there is.
StaffCount(i) ==
    /\ ~NoShopify /\ count = None /\ counts < MaxCounts
    /\ count' = <<i, onShelf[i]>>
    /\ counts' = counts + 1
    /\ UNCHANGED <<deployment, onShelf, lines, closed, desk, sold, edits, failures, strayed>>

\* set_quantities: shopify_set_inventory reads, sets against what it read, and
\* on a race once more: the number counted has the last word.
SetQuantities ==
    /\ count # None
    /\ onShelf' = [onShelf EXCEPT ![count[1]] = count[2]]
    /\ strayed' = IF onShelf[count[1]] = count[2] THEN strayed
                  ELSE strayed \cup {<<count[1], "overwritten">>}
    /\ count' = None
    /\ UNCHANGED <<deployment, lines, closed, desk, sold, edits, counts, failures>>

ClerkStep(c) ==
    \/ \E o \in OldOrders, i \in Pieces :
          \/ PlaceLocally(c, o, i) \/ AddUnit(c, o, i) \/ LowerUnit(c, o, i)
          \/ \E j \in Pieces : SwapItems(c, o, i, j)
    \/ \E o \in OldOrders : CancelOld(c, o)
    \/ ReadShelf(c) \/ ReserveUnits(c) \/ Reread(c)
    \/ ReadForRelease(c) \/ ReleaseUnits(c)
    \/ WriteEdit(c) \/ WriteEditFails(c) \/ ReturnReceipts(c)
    \/ CommitEdits(c) \/ CommitEditsFails(c)

ShelfNext ==
    \/ \E c \in Clerks : ClerkStep(c)
    \/ \E i \in Pieces : StorefrontSells(i) \/ StaffCount(i)
    \/ SetQuantities

ShelfSpec == ShelfInit /\ [][ShelfNext]_shelfVars

-----------------------------------------------------------------------------

InOrders(i) == Total([o \in OldOrders |-> IF o \in closed THEN 0 ELSE lines[o][i]])

Whole(i) == Stock[i] + Total([o \in OldOrders |-> OnOrder[o][i]])

Strayed(i, whys) == \E why \in whys : <<i, why>> \in strayed

ShelfAtRest == \A c \in Clerks : ~Busy(c)

\* Between transactions every unit is on the shelf, on an order or sold by the
\* storefront -- or the code gave it up at one of the places where it can do no
\* more: a call whose answer was lost, a return Shopify refused (both in the
\* log), a COMMIT that failed after the shelf had moved, a correction by staff,
\* or, with no Shopify, a floored row.
EveryUnitSomewhere ==
    ShelfAtRest => \A i \in Pieces :
        Strayed(i, Why) \/ onShelf[i] + InOrders(i) + sold[i] = Whole(i)

\* Orders and storefront together never end up with more than there was, unless a unit
\* was given back for an edit that was then undone (a swap or a transaction
\* that failed after its release), or staff wrote an older count over a sale.
\* With no Shopify: unless one transaction takes the same item twice, or, on
\* PostgreSQL, two read the row before either commits.
NothingSoldTwice ==
    ShelfAtRest => \A i \in Pieces :
        \/ InOrders(i) + sold[i] <= Whole(i)
        \/ Strayed(i, {"uncommitted", "half_undone", "overwritten", "unseen"})
        \/ deployment = "postgres" /\ Strayed(i, {"raced"})

\* A customer is told there is not enough of an item only when there was not:
\* StockResult.reason's comment.  It does not hold: a lost race is told as
\* insufficient_stock too, with more on the shelf than was asked for.
SoldOutIsTrue ==
    \A c \in Clerks : desk[c].verdict = "insufficient_stock" => desk[c].seen < desk[c].units

\* A shop with no Shopify never sells a unit it does not have, whatever the
\* database.  It does not hold: the check reads committed rows and the
\* decrement stops at zero.
LocalShelfHolds == NoShopify => \A i \in Pieces : InOrders(i) <= Whole(i)
=============================================================================
