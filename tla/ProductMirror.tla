---------------------------- MODULE ProductMirror ----------------------------
(***************************************************************************)
(* The catalogue on its two sides: Shopify's products and the rows the bot *)
(* searches.  A SKU is the only link: <<i, s>> is size s of the product    *)
(* with local id i (admin_products.py, product_import.py,                  *)
(* product_reconcile.py).  Staff create, delete and archive through the    *)
(* dashboard, the shop edits in Shopify's own admin, product webhooks and  *)
(* the scheduler's sweep import what is missing, a script reconciles.      *)
(*                                                                         *)
(* A job is one call in one transaction (READ COMMITTED): each call to     *)
(* Shopify, each read and each flush is a step, between which any other    *)
(* job may step.  What it has flushed is in put, drop, shed and shelve     *)
(* until it commits.  All products have one title, so their ids are the    *)
(* slug's numbers 1, 2, ...                                                *)
(***************************************************************************)
EXTENDS Integers, FiniteSets, FiniteSetsExt, Functions

CONSTANTS
    Gids,       \* Shopify products, made or not
    Stocked,    \* those there are at the start
    MaxId,      \* bound: numbers the slug can get
    Sizes,
    Workers,    \* threads of the dashboard, the webhooks and the script
    Scheduler,  \* the thread that sweeps
    Blank,      \* a variant without a SKU
    Foreign,    \* a SKU of the shop's own
    NoProduct,
    Staff,      \* kinds of job somebody may start
    MaxStaff, MaxShop, MaxMirrorFaults,   \* bounds: jobs, shop edits, faults
    Faults      \* the kinds of fault a run admits

ASSUME ProductMirrorAssumption ==
    /\ IsFiniteSet(Gids) /\ IsFiniteSet(Sizes) /\ Stocked \subseteq Gids
    /\ MaxId \in Nat /\ Cardinality(Stocked) <= MaxId
    /\ MaxStaff \in Nat /\ MaxShop \in Nat /\ MaxMirrorFaults \in Nat
    /\ Blank # Foreign /\ NoProduct \notin Gids /\ Scheduler \notin Workers

VARIABLES
    remote,     \* Shopify: each product's status and its sizes' SKUs
    told,       \* products a webhook is under way for
    rows,       \* committed products, by id
    variants,   \* committed variants
    shelved,    \* ids with Product.archived
    sold,       \* variants an order line refers to
    job,        \* what each thread is doing
    left,       \* what is left of the bounds
    excused     \* history: why an id may have no product on Shopify

mirrorVars == <<remote, told, rows, variants, shelved, sold, job, left, excused>>
local == <<rows, variants, shelved, sold>>

Ids == 1 .. MaxId
Threads == Workers \cup {Scheduler}
NoSkus == [s \in {} |-> Blank]
Unmade == [status |-> "none", sku |-> NoSkus]
Gone == [status |-> "gone", sku |-> NoSkus]
NotRead == <<FALSE, {}>>
Idle == [do |-> "idle", at |-> "none", gid |-> NoProduct, id |-> 0, sku |-> NoSkus,
         known |-> {}, todo |-> {}, seen |-> NotRead, put |-> {}, drop |-> {},
         shed |-> {}, shelve |-> {}, struck |-> {}]

\* a shop with some products on both sides, the first of which may have sold
MirrorInit ==
    /\ LET number == CHOOSE f \in [Stocked -> 1 .. Cardinality(Stocked)] : IsInjective(f) IN
       remote = [g \in Gids |-> IF g \in Stocked
                    THEN [status |-> "ACTIVE", sku |-> [s \in Sizes |-> number[g]]]
                    ELSE Unmade]
    /\ told = {}
    /\ rows = 1 .. Cardinality(Stocked) /\ variants = rows \X Sizes /\ shelved = {}
    /\ sold \in {{}, {v \in variants : v[1] = 1}}
    /\ job = [w \in Threads |-> Idle]
    /\ left = [staff |-> MaxStaff, shop |-> MaxShop, faults |-> MaxMirrorFaults]
    /\ excused = {}

(***************************************************************************)
(* Shopify's side.                                                         *)
(***************************************************************************)
Listed(g) == remote[g].status \in {"ACTIVE", "ARCHIVED"}
Skus(g) == {<<remote[g].sku[s], s>> : s \in DOMAIN remote[g].sku}
LabelsOf(sku) == {sku[s] : s \in DOMAIN sku} \cap Ids
Labels(g) == LabelsOf(remote[g].sku)

\* ALL_VARIANT_SKUS: every SKU the store holds, across every status
all_variant_skus == (UNION {Skus(g) : g \in Gids}) \cap (Ids \X Sizes)

\* the products one of which product_gid_for_variant_id answers
product_gid_for_variant_id(v) == {g \in Gids : v \in Skus(g)}

\* a shell still has only Shopify's own placeholder variant
is_placeholder_only(sku) == DOMAIN sku = {}

Outcomes == {"ok", "outage", "lost_reply"}
Spend(kind) ==
    /\ kind \in Faults /\ left.faults > 0
    /\ left' = [left EXCEPT !.faults = @ - 1]
Outcome(o) == (o = "ok" /\ UNCHANGED left) \/ Spend(o)
Happens(o) == o # "outage"

(***************************************************************************)
(* The local side.                                                         *)
(***************************************************************************)
IdsOf(vs) == {v[1] : v \in vs}
VariantsOf(i) == {v \in variants : v[1] = i}
sold_variant_ids(vs) == vs \cap sold

\* session.get sees what is committed and what this transaction flushed
_unique_product_id(w) == Min(Ids \ (rows \cup IdsOf(job[w].put)))
IdLeft(w) == Ids \ (rows \cup IdsOf(job[w].put)) # {}

\* the rows another open transaction has written wait for it to end
Locked(w, i) ==
    \E x \in Threads \ {w} :
        i \in IdsOf(job[x].put \cup job[x].drop) \cup job[x].shed \cup job[x].shelve

Target(w) == {<<job[w].id, s>> : s \in DOMAIN job[w].sku}
Present(w) == <<job[w].id \in rows, Target(w) \cap variants>>

At(w, step) == job[w].at = step
\* the sweep turns to its next product
Onward == [at |-> "detail", gid |-> NoProduct, id |-> 0, sku |-> NoSkus, seen |-> NotRead]

\* record q with the fields of r put in
Amended(q, r) == [f \in DOMAIN q |-> IF f \in DOMAIN r THEN r[f] ELSE q[f]]
Go(w, r) == job' = [job EXCEPT ![w] = Amended(@, r)]
Begin(w, r) == job[w].do = "idle" /\ Go(w, r)

\* the transaction is rolled back; what it deleted on Shopify stays deleted
Rollback(w) ==
    /\ job' = [job EXCEPT ![w] = Idle]
    /\ excused' = excused \cup (job[w].struck \X {"cut"})

\* an id whose product goes while another job has it in hand
Overtaken(w, g) ==
    {i \in Labels(g) : \E x \in Threads \ {w} :
        job[x].gid = g \/ i \in IdsOf(job[x].put)} \X {"overtaken"}

(***************************************************************************)
(* _mirror_local: session.get decides between INSERT and UPDATE; the flush *)
(* waits for others' and fails when a row has appeared or gone since.      *)
(***************************************************************************)
ToFlush(w) == Go(w, [at |-> "flush", seen |-> Present(w)])

(***************************************************************************)
(* create_product: Shopify first; from the shell on, a failure deletes the *)
(* product again (_or_unmake_it) -- but the COMMIT is outside that block.  *)
(***************************************************************************)
CreateProduct(w) ==
    /\ IdLeft(w) /\ job[w].do = "idle"
    /\ \E sizes \in (SUBSET Sizes) \ {{}}, g \in {h \in Gids : remote[h] = Unmade},
          made \in Outcomes :
          LET i == _unique_product_id(w) IN
          /\ left.staff > 0
          /\ left' = [left EXCEPT !.staff = @ - 1,
                                  !.faults = IF made = "ok" THEN @ ELSE @ - 1]
          /\ made = "ok" \/ (made \in Faults /\ left.faults > 0)
          /\ IF Happens(made)
             THEN /\ remote' = [remote EXCEPT ![g] = [status |-> "ACTIVE", sku |-> NoSkus]]
                  /\ told' = told \cup {g}
             ELSE UNCHANGED <<remote, told>>
          /\ IF made = "ok"
             THEN Go(w, [do |-> "create", at |-> "fill", gid |-> g, id |-> i,
                         sku |-> [s \in sizes |-> i]])
             ELSE UNCHANGED job
    /\ UNCHANGED <<local, excused>>

FillVariants(w) ==
    /\ At(w, "fill")
    /\ \E o \in Outcomes :
          LET g == job[w].gid
              takes == Happens(o) /\ Listed(g) IN
          /\ Outcome(o)
          /\ IF takes
             THEN /\ remote' = [remote EXCEPT ![g].sku = job[w].sku]
                  /\ told' = told \cup {g}
             ELSE UNCHANGED <<remote, told>>
          /\ Go(w, [at |-> IF takes /\ o = "ok" THEN "finish" ELSE "unmake"])
    /\ UNCHANGED <<local, excused>>

\* pictures, size chart, publication, stock: any call but the publication raises
FinishCreate(w) ==
    /\ At(w, "finish")
    /\ \E o \in {"ok", "outage"} :
          /\ Outcome(o)
          /\ IF o = "ok" /\ Listed(job[w].gid) THEN ToFlush(w) ELSE Go(w, [at |-> "unmake"])
    /\ UNCHANGED <<remote, told, local, excused>>

Unmake(w) ==
    /\ At(w, "unmake")
    /\ \E o \in Outcomes :
          /\ Outcome(o)
          /\ remote' = IF Happens(o) THEN [remote EXCEPT ![job[w].gid] = Gone] ELSE remote
          /\ excused' = IF Happens(o) THEN excused \cup Overtaken(w, job[w].gid)
                                              \cup ((Labels(job[w].gid) \cap rows) \X {"overtaken"})
                                      ELSE excused
    /\ job' = [job EXCEPT ![w] = Idle]
    /\ UNCHANGED <<told, local>>

ReadRow(w) ==
    /\ At(w, "row")
    /\ ToFlush(w)
    /\ UNCHANGED <<remote, told, local, left, excused>>

Flush(w) ==
    /\ At(w, "flush") /\ ~Locked(w, job[w].id)
    /\ IF job[w].seen = Present(w)
       THEN /\ LET then == Amended(job[w], IF job[w].do = "sweep" THEN Onward
                                          ELSE [at |-> "commit"]) IN
               job' = [job EXCEPT ![w] = [then EXCEPT !.put = @ \cup Target(w)]]
            /\ UNCHANGED excused
       ELSE IF job[w].do = "create"
       THEN Go(w, [at |-> "unmake"]) /\ UNCHANGED excused
       ELSE Rollback(w)
    /\ UNCHANGED <<remote, told, local, left>>

\* a sweep commits when it has seen every product
Commit(w) ==
    /\ At(w, "commit") \/ (At(w, "detail") /\ job[w].do = "sweep" /\ job[w].todo = {})
    /\ \/ /\ rows' = (rows \ job[w].shed) \cup IdsOf(job[w].put)
          /\ variants' = (variants \ job[w].drop) \cup job[w].put
          /\ shelved' = (shelved \ job[w].shed) \cup job[w].shelve
          /\ job' = [job EXCEPT ![w] = Idle]
          /\ excused' = {e \in excused : e[1] \notin job[w].shed \/ e[2] # "cut"}
          /\ UNCHANGED <<left, sold>>
       \/ Spend("commit_fails") /\ Rollback(w) /\ UNCHANGED local
    /\ UNCHANGED <<remote, told>>

(***************************************************************************)
(* The import: by webhook (one product) or by the sweep (all of them in    *)
(* one transaction, with the known SKUs read at its start).                *)
(***************************************************************************)
ImportProduct(w) ==
    /\ \E g \in told :
          /\ Begin(w, [do |-> "import", at |-> "detail", gid |-> g])
          /\ told' = told \ {g}
    /\ UNCHANGED <<remote, local, left, excused>>

ImportMissingProducts ==
    /\ Begin(Scheduler, [do |-> "sweep", at |-> "list", known |-> variants])
    /\ UNCHANGED <<remote, told, local, left, excused>>

ListProducts ==
    /\ At(Scheduler, "list")
    /\ \E o \in {"ok", "outage"} :
          /\ Outcome(o)
          /\ IF o = "ok"
             THEN Go(Scheduler, [at |-> "detail",
                     todo |-> {g \in Gids : /\ remote[g].status = "ACTIVE"
                                            /\ Skus(g) \cap job[Scheduler].known = {}}])
                  /\ UNCHANGED excused
             ELSE Rollback(Scheduler)
    /\ UNCHANGED <<remote, told, local>>

\* this product is left alone: the sweep goes on, the webhook is done
Skip(w) ==
    job' = [job EXCEPT ![w] = IF @.do = "sweep" THEN Amended(@, Onward) ELSE Idle]

GetProduct(w) ==
    /\ At(w, "detail")
    /\ \E o \in {"ok", "outage"}, g \in IF job[w].do = "sweep" THEN job[w].todo ELSE {job[w].gid} :
          /\ Outcome(o)
          /\ IF o # "ok" THEN Rollback(w)
             ELSE /\ IF Listed(g)
                     THEN Go(w, [at |-> "decide", gid |-> g, sku |-> remote[g].sku,
                                 todo |-> job[w].todo \ {g}])
                     ELSE IF job[w].do = "sweep" THEN Go(w, [todo |-> job[w].todo \ {g}])
                     ELSE Skip(w)
                  /\ UNCHANGED excused
    /\ UNCHANGED <<remote, told, local>>

\* the one id under which this codebase would have written exactly these SKUs
_adoptable_product_id(sku) ==
    {i \in Ids : DOMAIN sku # {} /\ \A s \in DOMAIN sku : sku[s] = i}
\* Mutant of Adopted: our own lost SKUs are reported like a stranger's.
AdoptedNever(w) == {}
Adopted(w) == _adoptable_product_id(job[w].sku) \ (rows \cup IdsOf(job[w].put))

AllBlank(sku) == DOMAIN sku # {} /\ \A s \in DOMAIN sku : sku[s] = Blank

\* the webhook reads the known SKUs after the detail, the sweep long before
Known(w) == IF job[w].do = "sweep" THEN job[w].known ELSE variants

_import_one(w) ==
    /\ At(w, "decide")
    /\ LET sku == job[w].sku
           linked == \E s \in DOMAIN sku : <<sku[s], s>> \in Known(w)
           adopted == Adopted(w) IN
       IF is_placeholder_only(sku) \/ linked THEN Skip(w)
       ELSE IF adopted # {} THEN Go(w, [at |-> "row", id |-> Min(adopted)])
       ELSE IF ~AllBlank(sku) THEN Skip(w)     \* reported: needs a human look
       ELSE /\ IdLeft(w)
            /\ LET i == _unique_product_id(w) IN
               Go(w, [at |-> "push", id |-> i, sku |-> [s \in DOMAIN sku |-> i]])
    /\ UNCHANGED <<remote, told, local, left, excused>>

\* the SKUs are written back first; a failure is caught and retried next run
\* Mutant of Mirrors: a refused write is mirrored all the same.
MirrorsAnyway(takes, o) == takes \/ o # "ok"
Mirrors(takes, o) == takes /\ o = "ok"

PushSkus(w) ==
    /\ At(w, "push")
    /\ \E o \in Outcomes :
          LET g == job[w].gid
              possible == DOMAIN job[w].sku \subseteq DOMAIN remote[g].sku
              takes == Happens(o) /\ possible IN
          /\ Outcome(o)
          /\ IF takes
             THEN /\ remote' = [remote EXCEPT ![g].sku = Amended(@, job[w].sku)]
                  /\ told' = told \cup {g}
                  /\ excused' = excused \cup (Labels(g) \X {"rekeyed"})
             ELSE UNCHANGED <<remote, told, excused>>
          /\ IF Mirrors(takes, o) THEN ToFlush(w) ELSE Skip(w)
    /\ UNCHANGED local

(***************************************************************************)
(* Taking away: delete_product, delete_variant, archive_product and the    *)
(* reconcile script.  Each asks first whether anything was ever sold.      *)
(***************************************************************************)
DeleteProduct(w) ==
    /\ \E i \in rows :
          /\ sold_variant_ids(VariantsOf(i)) = {}
          /\ Begin(w, [do |-> "delete", at |-> "strike", id |-> i, known |-> VariantsOf(i)])
    /\ UNCHANGED <<remote, told, local, excused>>

DeleteVariant(w) ==
    /\ \E v \in variants :
          /\ Cardinality(VariantsOf(v[1])) > 1
          /\ sold_variant_ids({v}) = {}
          /\ Begin(w, [do |-> "size", at |-> "strike", id |-> v[1], known |-> {v}])
    /\ UNCHANGED <<remote, told, local, excused>>

ArchiveProduct(w) ==
    /\ \E i \in rows \ shelved :
          Begin(w, [do |-> "archive", at |-> "strike", id |-> i, known |-> VariantsOf(i)])
    /\ UNCHANGED <<remote, told, local, excused>>

\* what the call leaves of product g on Shopify
Struck(w, g) ==
    CASE job[w].do = "archive" -> [remote[g] EXCEPT !.status = "ARCHIVED"]
      [] job[w].do = "size" ->
            [remote[g] EXCEPT !.sku = [s \in {t \in DOMAIN @ : <<@[t], t>> \notin job[w].known} |-> @[s]]]
      [] OTHER -> Gone

\* an id whose SKUs are on the same product, and go with it
Beside(w, g) ==
    (Labels(g) \ (LabelsOf(Struck(w, g).sku) \cup {job[w].id})) \X {"shared"}

\* product_gid_for_variant_id of the first size, then the call; Shopify
\* refuses to take a product's last variant
Strike(w) ==
    /\ At(w, "strike")
    /\ \E o \in IF job[w].known = {} THEN {"ok"} ELSE Outcomes :
          /\ Outcome(o)
          /\ \/ /\ job[w].known = {} \/ \E v \in job[w].known : product_gid_for_variant_id(v) = {}
                /\ IF o = "ok" THEN Go(w, [at |-> "write"]) /\ UNCHANGED excused
                               ELSE Rollback(w)
                /\ UNCHANGED <<remote, told>>
             \/ \E v \in job[w].known : \E g \in product_gid_for_variant_id(v) :
                LET refused == job[w].do = "size" /\ DOMAIN Struck(w, g).sku = {}
                    takes == Happens(o) /\ ~refused
                    removes == job[w].do # "archive" IN
                /\ remote' = IF takes THEN [remote EXCEPT ![g] = Struck(w, g)] ELSE remote
                /\ told' = IF takes /\ job[w].do = "size" /\ remote[g].status = "ACTIVE"
                           THEN told \cup {g} ELSE told
                /\ LET was == IF takes /\ removes
                              THEN Overtaken(w, g) \cup Beside(w, g) \cup ({job[w].id} \X {"cut"})
                              ELSE {} IN
                   IF takes /\ o = "ok"
                   THEN /\ Go(w, [at |-> "write",
                                  struck |-> job[w].struck \cup IF removes THEN {job[w].id} ELSE {}])
                        /\ excused' = excused \cup (was \ ({job[w].id} \X {"cut"}))
                   ELSE /\ job' = [job EXCEPT ![w] = Idle]
                        /\ excused' = excused \cup was \cup (job[w].struck \X {"cut"})
    /\ UNCHANGED local

\* the flush of the deletes (the foreign key refuses a size sold meanwhile)
\* or of the archived flag; an UPDATE of the product, which deleting a size
\* makes too, fails when the row has gone
WriteRows(w) ==
    /\ At(w, "write") /\ ~Locked(w, job[w].id)
    /\ LET whole == job[w].do \in {"delete", "reconcile"}
           there == whole \/ job[w].id \in rows
           then == IF job[w].do = "reconcile" THEN "each" ELSE "commit" IN
       IF job[w].do = "archive" /\ there
       THEN Go(w, [at |-> then, shelve |-> {job[w].id}]) /\ UNCHANGED excused
       ELSE IF /\ job[w].do # "archive" /\ there
               /\ sold_variant_ids(job[w].known) = {}
               /\ whole => VariantsOf(job[w].id) \subseteq job[w].known
       THEN /\ Go(w, [at |-> then,
                      drop |-> job[w].drop \cup job[w].known,
                      shed |-> job[w].shed \cup IF whole THEN {job[w].id} ELSE {}])
            /\ UNCHANGED excused
       ELSE Rollback(w)
    /\ UNCHANGED <<remote, told, local, left>>

(***************************************************************************)
(* reconcile_vanished_products --apply: the live SKUs first, then the rows.*)
(***************************************************************************)
Reconcile(w) ==
    /\ all_variant_skus # {}
    /\ Begin(w, [do |-> "reconcile", at |-> "rows", known |-> all_variant_skus])
    /\ UNCHANGED <<remote, told, local, excused>>

ReadProducts(w) ==
    /\ At(w, "rows")
    /\ LET vanished == {i \in rows : VariantsOf(i) \cap job[w].known = {}} IN
       IF 2 * Cardinality(vanished) > Cardinality(rows)
       THEN job' = [job EXCEPT ![w] = Idle]      \* ReconcileRefused
       ELSE Go(w, [at |-> "each", known |-> {},
                   todo |-> {i \in vanished : VariantsOf(i) # {}}])
    /\ UNCHANGED <<remote, told, local, left, excused>>

EachVanished(w) ==
    /\ At(w, "each")
    /\ \/ job[w].todo = {} /\ Go(w, [at |-> "commit"])
       \/ \E i \in job[w].todo :
             LET rest == job[w].todo \ {i} IN
             IF sold_variant_ids(VariantsOf(i)) = {}
             THEN Go(w, [at |-> "strike", id |-> i, known |-> VariantsOf(i), todo |-> rest])
             ELSE /\ ~Locked(w, i)
                  /\ Go(w, [todo |-> rest,
                            shelve |-> job[w].shelve \cup ({i} \ shelved)])
    /\ UNCHANGED <<remote, told, local, left, excused>>

(***************************************************************************)
(* What others do.                                                         *)
(***************************************************************************)
StaffStart(w) ==
    \/ "create" \in Staff /\ CreateProduct(w)
    \/ /\ left.staff > 0 /\ left' = [left EXCEPT !.staff = @ - 1]
       /\ \/ "delete" \in Staff /\ DeleteProduct(w)
          \/ "size" \in Staff /\ DeleteVariant(w)
          \/ "archive" \in Staff /\ ArchiveProduct(w)
          \/ "reconcile" \in Staff /\ Reconcile(w)

\* the shop works in Shopify's own admin
ShopCreates ==
    /\ \E g \in {h \in Gids : remote[h] = Unmade}, sizes \in (SUBSET Sizes) \ {{}},
          label \in {Blank, Foreign} :
          /\ remote' = [remote EXCEPT ![g] = [status |-> "ACTIVE", sku |-> [s \in sizes |-> label]]]
          /\ told' = told \cup {g}
    /\ UNCHANGED <<excused, job>>

ShopAddsSize ==
    /\ \E g \in {h \in Gids : remote[h].status = "ACTIVE" /\ remote[h].sku # NoSkus} :
       \E s \in Sizes \ DOMAIN remote[g].sku :
          /\ remote' = [remote EXCEPT ![g].sku =
                           [t \in DOMAIN @ \cup {s} |-> IF t = s THEN Blank ELSE @[t]]]
          /\ told' = told \cup {g}
    /\ UNCHANGED <<excused, job>>

ShopDeletes ==
    /\ \E g \in {h \in Gids : Listed(h)} :
          /\ remote' = [remote EXCEPT ![g] = Gone]
          /\ excused' = excused \cup (Labels(g) \X {"shop"})
    /\ UNCHANGED <<told, job>>

Shop ==
    /\ left.shop > 0 /\ left' = [left EXCEPT !.shop = @ - 1]
    /\ ShopCreates \/ ShopAddsSize \/ ShopDeletes
    /\ UNCHANGED local

\* an order is recorded; its line's foreign key waits for a pending delete
Sale ==
    /\ \E v \in (variants \cap all_variant_skus) \ sold :
          /\ v[1] \notin shelved
          /\ \A w \in Threads : v \notin job[w].drop
          /\ sold' = sold \cup {v}
    /\ left.shop > 0 /\ left' = [left EXCEPT !.shop = @ - 1]
    /\ UNCHANGED <<remote, told, rows, variants, shelved, job, excused>>

\* the process ends and starts again: no transaction survives it
Restart ==
    /\ Spend("restart")
    /\ job' = [w \in Threads |-> Idle]
    /\ excused' = excused \cup ((UNION {job[w].struck : w \in Threads}) \X {"cut"})
    /\ UNCHANGED <<remote, told, local>>

Step(w) ==
    \/ FillVariants(w) \/ FinishCreate(w) \/ Unmake(w)
    \/ ReadRow(w) \/ Flush(w) \/ Commit(w)
    \/ GetProduct(w) \/ _import_one(w) \/ PushSkus(w)
    \/ Strike(w) \/ WriteRows(w) \/ ReadProducts(w) \/ EachVanished(w)

Sweep == ImportMissingProducts \/ ListProducts \/ Step(Scheduler)

MirrorNext ==
    \/ \E w \in Workers : StaffStart(w) \/ ImportProduct(w) \/ Step(w)
    \/ Sweep
    \/ Shop \/ Sale \/ Restart

MirrorSpec ==
    /\ MirrorInit /\ [][MirrorNext]_mirrorVars
    /\ WF_mirrorVars(Sweep)
    /\ \A w \in Workers : WF_mirrorVars(Step(w)) /\ WF_mirrorVars(ImportProduct(w))

(***************************************************************************)
(* Properties.                                                             *)
(***************************************************************************)
\* Every variable holds what its comment says.
MirrorTypeOK ==
    /\ \A g \in Gids :
          /\ remote[g].status \in {"none", "ACTIVE", "ARCHIVED", "gone"}
          /\ DOMAIN remote[g].sku \subseteq Sizes
          /\ \A s \in DOMAIN remote[g].sku : remote[g].sku[s] \in Ids \cup {Blank, Foreign}
    /\ told \subseteq Gids /\ rows \subseteq Ids /\ shelved \subseteq rows
    /\ variants \subseteq rows \X Sizes /\ sold \subseteq variants
    /\ left \in [staff : 0 .. MaxStaff, shop : 0 .. MaxShop, faults : 0 .. MaxMirrorFaults]

Excused(i, whys) == \E why \in whys : <<i, why>> \in excused
Phantom(i) == VariantsOf(i) # {} /\ VariantsOf(i) \cap all_variant_skus = {}

\* A product the bot searches has a product on Shopify behind it, unless the
\* shop deleted that, a deletion of ours reached Shopify and then failed, two
\* jobs had the same product in hand, or two imports gave one product of
\* Shopify SKUs of two products here and the other of these went (product_import.py,
\* admin_products.py: Shopify first, the mirror only once that succeeds).
PhantomsKnown ==
    \A i \in rows \ shelved : Phantom(i) =>
        \/ Excused(i, {"shop", "cut", "overtaken", "rekeyed", "shared"})
        \/ \E w \in Threads : i \in job[w].struck

\* What the import would take: active, and its SKUs blank or ours and lost.
Owed(g) ==
    /\ remote[g].status = "ACTIVE"
    /\ \/ AllBlank(remote[g].sku)
       \/ \E i \in _adoptable_product_id(remote[g].sku) : i \notin rows

\* Whatever is left of a create that failed half way, and whatever the shop
\* adds without a SKU, reaches the bot's catalogue in the end: the sweep does
\* what a lost webhook, an outage or a restart left undone
\* (scheduler._import_new_products).
EveryProductArrives == \A g \in Gids : Owed(g) ~> ~Owed(g)

\* A SKU once written is not written over: product_import reports a product
\* with an unknown SKU "rather than silently re-keyed".
NeverRekeyed ==
    [][\A g \in Gids : Listed(g) =>
          \A s \in DOMAIN remote[g].sku \cap DOMAIN remote'[g].sku :
              remote[g].sku[s] # Blank => remote'[g].sku[s] = remote[g].sku[s]]_mirrorVars

\* The reconcile removes local rows of what Shopify lost, never a product
\* that Shopify has ("there is no Shopify product left").
ReconcileSparesShopify ==
    [][\A w \in Workers : job[w].do = "reconcile" /\ At(w, "strike") /\ ~At(w, "strike")'
          => remote' = remote]_mirrorVars

\* Two products of the shop never wear the same SKU.
SkusUnique ==
    \A g, h \in Gids : g # h => Labels(g) \cap Labels(h) = {}
=============================================================================
