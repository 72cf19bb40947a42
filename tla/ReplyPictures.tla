--------------------------- MODULE ReplyPictures ---------------------------
(***************************************************************************)
(* One reply from the inside: the tools a turn calls and the pictures they *)
(* attach, the pictures the finished sentence calls for, and the checks    *)
(* that hold the sentence against what the turn did and carries.  A        *)
(* sentence that fails is sent back, with the pictures it had brought      *)
(* taken off again; when the retries are used up it is replaced, or the    *)
(* part that is wrong is cut out.                                          *)
(*                                                                         *)
(* One conversation, turn after turn; the model (external) calls whatever  *)
(* it likes and says whatever it likes.  A sentence is what the checks can *)
(* tell of it: the products it names, the pictures it claims, and what     *)
(* else it says.  Every picture of a product shows one of its colours.     *)
(***************************************************************************)
EXTENDS Integers, Sequences, FiniteSets, FiniteSetsExt, Functions

CONSTANTS
    ColoursOf,      \* product -> its colours, in the catalogue's order
    InStock,        \* product -> those of them that can be bought
    Charted,        \* the products with a picture of their size chart
    Wishes,         \* what a message may ask for: sets of "photos", "sizing", "colours", "theirs", "yes"
    Sentences,      \* what the model may write: names, lead, claims, says
    Lookups,        \* the calls of get_variants: <<product, colour, more_images>>
    Searches,       \* what a call of get_products may find
    PromiseRetries, \* _PROMISE_RETRY_LIMIT
    LoopCap,        \* settings.tool_loop_cap
    MaxMessages,    \* bound: turns
    MaxRefusals     \* bound: pictures the platform refuses

Products == DOMAIN ColoursOf
NoProduct == "none"
Photo(p, c) == <<p, c>>
Chart(p) == <<p, "size chart">>
IsChart(pic) == pic[2] = "size chart"
Colours(p) == Range(ColoursOf[p])
EveryPhoto(p) == {Photo(p, c) : c \in Colours(p)}

ASSUME PicturesAssumption ==
    /\ \A p \in Products : IsInjective(ColoursOf[p]) /\ InStock[p] \subseteq Colours(p)
    /\ DOMAIN InStock = Products
    /\ Charted \subseteq Products /\ NoProduct \notin Products
    /\ Searches \subseteq SUBSET Products
    /\ \A s \in Sentences :
         /\ DOMAIN s = {"names", "lead", "claims", "says"}
         /\ IsInjective(s.names)           \* named_products: one entry per product
         /\ "its picture" \notin s.says     \* a fixed line
    /\ LoopCap \in Nat /\ PromiseRetries \in Nat

\* tools/base.py and showcase.py.
MaxProductImages == 1
MaxExtraImages == 2
MaxColourImages == 6
FirstShowing == 3
MaxShowcaseProducts == 4
MaxShowcasePhotos == 4

VARIABLES
    stamped,    \* attachments of the replies stored so far
    refused,    \* undelivered_attachments of those replies
    looked,     \* calls of this conversation answered: <<tool, products, colour, more>>
    seen,       \* the products a tool has returned in this conversation
    topic,      \* last_product of the history
    basket,     \* what this turn's reply carries: ToolContext
    turn,       \* the turn that runs
    sent        \* the reply that was sent last, and what it was made from

picturesVars == <<stamped, refused, looked, seen, topic, basket, turn, sent>>

\* _sent_images, less undelivered.
Shown == stamped \ refused

EmptyBasket == [carried |-> {}, gallery |-> [p \in Products |-> 0]]
Nothing == [how |-> "nothing", carried |-> {}, names |-> {}, claims |-> "none", says |-> {}]

Idle == turn.phase = "idle"
Thinking == turn.phase = "thinking"

PicturesInit ==
    /\ stamped = {} /\ refused = {} /\ looked = {} /\ seen = {}
    /\ topic = NoProduct /\ basket = EmptyBasket /\ sent = Nothing
    /\ turn = [phase |-> "idle", nth |-> 0, wish |-> {}, before |-> {}, hops |-> 0, tries |-> 0,
               called |-> {}, found |-> {}, did |-> {}, filed |-> {}, last |-> {}]

-----------------------------------------------------------------------------
(* What the customer asked for, in their own words. *)

\* asked_for_colors reads the last two messages, the others the last one.
AskedForColours == "colours" \in turn.wish \cup turn.before
AskedAboutSizing == "sizing" \in turn.wish
\* A word for picture counts always; a word for seeing only when it is not about sizes.
AskedForPhotos == "photos" \in turn.wish \/ (~AskedAboutSizing /\ AskedForColours)

-----------------------------------------------------------------------------
(* ToolContext: the pictures of one reply. *)

Photos(b) == {pic \in b.carried : ~IsChart(pic)}
PhotosOf(b, p) == Cardinality({pic \in Photos(b) : pic[1] = p})
BudgetOf(b, p) == Max({MaxProductImages, b.gallery[p]})

Attach(b, pic, force) ==
    IF \/ pic \in b.carried
       \/ ~force /\ pic \in Shown
       \/ ~IsChart(pic) /\ PhotosOf(b, pic[1]) >= BudgetOf(b, pic[1])
    THEN b
    ELSE [b EXCEPT !.carried = @ \cup {pic}]

\* The first n of the things in K, by their rank.
FirstOf(K, rank, n) == {x \in K : Cardinality({y \in K : rank[y] <= rank[x]}) <= n}

\* _candidate_images: a picture of every colour, the one that was asked for first.
LeadFirst(p, lead) ==
    [c \in Colours(p) |-> IF c = lead THEN 0 ELSE CHOOSE i \in DOMAIN ColoursOf[p] : ColoursOf[p][i] = c]

\* Of the product's pictures in these colours, the first n that can be attached.
AttachUpTo(b, p, lead, colours, n, force) ==
    LET can  == {c \in colours : Photo(p, c) \notin b.carried /\ (force \/ Photo(p, c) \notin Shown)}
        room == Min({n, BudgetOf(b, p) - PhotosOf(b, p)})
    IN [b EXCEPT !.carried = @ \cup {Photo(p, c) : c \in FirstOf(can, LeadFirst(p, lead), room)}]

AllowGallery(b, p, n) == [b EXCEPT !.gallery[p] = Max({MaxProductImages, @, n})]

\* _collect_images when more were asked for: those not shown yet before those that were.
CollectMore(b, p, colour) ==
    LET new    == {c \in Colours(p) : Photo(p, c) \notin Shown}
        budget == IF AskedForColours THEN Min({Len(ColoursOf[p]), MaxColourImages}) ELSE MaxExtraImages
        opened == AllowGallery(b, p, budget)
        first  == AttachUpTo(opened, p, colour, new, budget, TRUE)
        added  == Cardinality(first.carried \ b.carried)
    IN AttachUpTo(first, p, colour, Colours(p) \ new, budget - added, TRUE)

\* _collect_images for "show me the product".
CollectOne(b, p, colour) ==
    LET answered == IF colour \in Colours(p) THEN {Photo(p, colour)} ELSE EveryPhoto(p)
        again == answered \cap Shown # {}
        one   == FirstOf(Colours(p), LeadFirst(p, colour), MaxProductImages)
    IN IF again /\ ~AskedForPhotos THEN b ELSE AttachUpTo(b, p, colour, one, MaxProductImages, again)

\* The chart that rides along with a search or a product looked up for a sizing question.
RideAlong(b, p) ==
    IF AskedAboutSizing /\ p \in Charted THEN Attach(b, Chart(p), FALSE) ELSE b

-----------------------------------------------------------------------------
(* The tools. *)

HopOf(tool, ps) == [turn EXCEPT !.hops = @ + 1, !.called = @ \cup {tool}, !.found = @ \cup ps]
MayCall == Thinking /\ turn.hops < LoopCap

\* run_turn: what the customer wrote starts a turn; a reply to a picture of ours moves the topic.
Ask ==
    /\ Idle /\ turn.nth < MaxMessages
    /\ \E wish \in Wishes, about \in {topic} \cup {pic[1] : pic \in stamped} :
         /\ turn' = [phase |-> "thinking", nth |-> turn.nth + 1, wish |-> wish,
                     before |-> turn.wish \cap {"colours"}, hops |-> 0, tries |-> 0, called |-> {}, found |-> {},
                     did |-> {}, filed |-> {}, last |-> sent.says]
         /\ topic' = about
    /\ sent' = Nothing
    /\ UNCHANGED <<stamped, refused, looked, seen, basket>>

\* get_variants through call_tool; without an id it means the product talked about, which
\* comes to a call with it.  An answer from the session cache brings the pictures again, and
\* not the chart.
LookUp(p, colour, more) ==
    /\ MayCall
    /\ LET call == <<"get_variants", {p}, colour, more>>
           pictured == IF more THEN CollectMore(basket, p, colour) ELSE CollectOne(basket, p, colour)
       IN /\ basket' = IF call \in looked THEN pictured ELSE RideAlong(pictured, p)
          /\ looked' = looked \cup {call}
    /\ turn' = HopOf("get_variants", {p})
    /\ topic' = p /\ seen' = seen \cup {p}
    /\ UNCHANGED <<stamped, refused, sent>>

\* get_products through call_tool: one hit brings its picture, unless the cache answers.
Search(hits) ==
    /\ MayCall
    /\ LET call == <<"get_products", hits, NoProduct, FALSE>>
           p == CHOOSE q \in hits : TRUE
       IN /\ basket' = IF Cardinality(hits) # 1 \/ call \in looked THEN basket
                       ELSE RideAlong(CollectOne(basket, p, NoProduct), p)
          /\ topic' = IF Cardinality(hits) = 1 THEN p ELSE topic
          /\ looked' = looked \cup {call}
    /\ turn' = HopOf("get_products", hits)
    /\ seen' = seen \cup hits
    /\ UNCHANGED <<stamped, refused, sent>>

\* get_size_chart: the picture of the chart is the answer, shown before or not.
SizeChart(p) ==
    /\ MayCall
    /\ basket' = IF p \in Charted THEN Attach(basket, Chart(p), TRUE) ELSE basket
    /\ turn' = HopOf("get_size_chart", {p})
    /\ topic' = p /\ seen' = IF p \in Charted THEN seen \cup {p} ELSE seen
    /\ UNCHANGED <<stamped, refused, looked, sent>>

\* add_to_cart; the post-order requests; a question about orders: `turn_results` and `filed`.
Act(tool, did, filed) ==
    /\ MayCall
    /\ turn' = [HopOf(tool, {}) EXCEPT !.did = @ \cup did, !.filed = @ \cup filed]
    /\ UNCHANGED <<stamped, refused, looked, seen, topic, basket, sent>>

ActAny ==
    \/ \E did \in {{}, {"cart"}} : Act("add_to_cart", did, {})
    \/ Act("request_item_add", {"cart", "handoff"}, {"item_add"})
    \/ Act("request_item_swap", {"handoff"}, {"item_swap"})

-----------------------------------------------------------------------------
(* The pictures the finished sentence calls for. *)

NotMerchandise == {"request_item_add", "request_item_swap"}
Named(s) == Range(s.names) \cap seen
ShownBefore(p) == EveryPhoto(p) \cap Shown # {}
\* The colour beside a product's name, when it can be bought.
LeadOf(s, p) == IF s.names # <<>> /\ p = Head(s.names) /\ s.lead \in InStock[p] THEN s.lead ELSE NoProduct

\* One picture of a product the sentence names; again only the colour it names, or when asked.
ShowNamed(b, s, p) ==
    LET lead    == LeadOf(s, p)
        resend  == ShownBefore(p) /\ AskedForPhotos
        offered == IF ~ShownBefore(p) THEN InStock[p]
                   ELSE IF lead # NoProduct \/ resend THEN FirstOf(InStock[p], LeadFirst(p, lead), 1) ELSE {}
    IN IF PhotosOf(b, p) > 0 THEN b ELSE AttachUpTo(b, p, lead, offered, 1, resend)

\* The first of the products named, each by one picture, while the reply has room for it.
ShowEach(b, s) ==
    LET named == {i \in DOMAIN s.names : s.names[i] \in seen}
        order == [i \in named |-> i]
        gain  == [i \in named |-> ShowNamed(b, s, s.names[i]).carried \ b.carried]
        bring == {i \in FirstOf(named, order, MaxShowcaseProducts) : gain[i] # {}}
        fit   == FirstOf(bring, order, MaxShowcasePhotos - Cardinality(Photos(b)))
    IN [b EXCEPT !.carried = @ \cup UNION {gain[i] : i \in fit}]

\* A product shown for the first time, and alone: its other colours too.
TopUp(b, s) ==
    LET products == {pic[1] : pic \in Photos(b)}
        p == CHOOSE q \in products : TRUE
    IN IF Cardinality(products) # 1 \/ s.claims = "both" THEN b
       ELSE IF b.gallery[p] > 0 \/ ShownBefore(p) THEN b
       ELSE AttachUpTo(AllowGallery(b, p, FirstShowing), p, LeadOf(s, p), InStock[p],
                       FirstShowing - PhotosOf(b, p), FALSE)

\* showcase.show.
Show(b, s) ==
    IF \/ turn.called \cap NotMerchandise # {}
       \/ "get_size_chart" \in turn.called /\ turn.called \cap {"get_products", "get_variants"} = {}
    THEN b
    ELSE TopUp(ShowEach(b, s), s)

\* _ensure_chart: of the one product named, else of the one talked about; never a guess.
EnsureChart(b, s) ==
    LET owed == IF Named(s) = {} THEN {topic} ELSE Named(s)
        p == CHOOSE q \in owed : TRUE
    IN IF (\E pic \in b.carried : IsChart(pic)) \/ Cardinality(owed) # 1 \/ p \notin Charted
       THEN b ELSE Attach(b, Chart(p), TRUE)

\* Mutant of KeepChartOrPhotos: with no chart to send, the garment stays.
KeepChartIfThere(b, s) ==
    LET all == IF AskedAboutSizing /\ ~AskedForPhotos THEN EnsureChart(b, s) ELSE b
        charts == {pic \in all.carried : IsChart(pic)}
    IN [all EXCEPT !.carried =
            IF charts = {} \/ (AskedForPhotos /\ AskedAboutSizing) THEN @
            ELSE IF AskedForPhotos THEN Photos(all) ELSE charts]
\* keep_chart_or_photos: the chart or the garment, not both unless both were asked for.
KeepChartOrPhotos(b, s) ==
    LET wantsChart == AskedAboutSizing \/ "get_size_chart" \in turn.called
        all == IF AskedAboutSizing /\ ~AskedForPhotos THEN EnsureChart(b, s) ELSE b
        charts == {pic \in all.carried : IsChart(pic)}
    IN [all EXCEPT !.carried =
            IF AskedForPhotos /\ wantsChart THEN @
            ELSE IF wantsChart THEN charts
            ELSE IF AskedForPhotos \/ charts = {} THEN Photos(all)
            ELSE charts]

-----------------------------------------------------------------------------
(* The checks: a sentence against what the turn did and what the reply carries. *)

\* photo_claims.unbacked_claim.
PictureUnbacked(s, b) ==
    /\ s.claims # "none" /\ "theirs" \notin turn.wish
    /\ IF Photos(b) = {} THEN s.claims # "the chart" \/ b.carried = {}
       ELSE \/ s.claims = "both" /\ Cardinality(Photos(b)) < 2
            \/ s.claims = "the named" /\ \E p \in Named(s) : PhotosOf(b, p) = 0

\* order_change_claims: the one request filed, and a sentence about the other one.
ChangeMismatch(s) ==
    \/ turn.filed = {"item_add"} /\ "swapping" \in s.says /\ "adding" \notin s.says
    \/ turn.filed = {"item_swap"} /\ "adding" \in s.says /\ "swapping" \notin s.says

\* action_claims.unbacked: the cart and the handoff.
ActionUnbacked(s) ==
    \/ "handed over" \in s.says /\ "handoff" \notin turn.did
    \/ "added" \in s.says /\ "cart" \notin turn.did

\* reply_rules.violation: a line denied that was not looked up; the offer to add something asked
\* again of a customer who just said yes to it; and what is wrong whatever the turn did.
RuleBroken(s) ==
    \/ "no such line" \in s.says /\ turn.called \cap {"get_products", "get_variants"} = {}
    \/ /\ "yes" \in turn.wish /\ "shall I add" \in turn.last \cap s.says
       /\ turn.called \cap {"add_to_cart", "add_item_to_order"} = {}
    \/ "other payment" \in s.says

FailureInvented(s) == "it failed" \in s.says /\ refused = {}
OffersWhatItSends(s, b) == "shall I show" \in s.says /\ Photos(b) # {}

\* What would have the sentence sent back, with a retry left; and what would have it replaced,
\* without one: an invented failure and an idle offer are cut out of it instead.
Unsendable(s, b) ==
    \/ ChangeMismatch(s) \/ "your phone" \in s.says \/ ActionUnbacked(s) \/ RuleBroken(s)
    \/ "made-up number" \in s.says \/ PictureUnbacked(s, b) \/ "later" \in s.says
Cuttable(s, b) == FailureInvented(s) \/ OffersWhatItSends(s, b)

\* What is left of a sentence that blames a failure: the rest of it, or, when there is no rest
\* ("nothing else"), a fixed line: here is its picture, or which colour to show.
CutFailure(s, b) ==
    IF ~FailureInvented(s) THEN s
    ELSE IF s.says # {"it failed", "nothing else"} THEN [s EXCEPT !.says = @ \ {"it failed"}]
    ELSE [s EXCEPT !.claims = "none",
                   !.says = IF b.carried # {} THEN {"its picture"} ELSE {"shall I show", "nothing else"}]

\* Of a sentence that offers what is there: the rest of it, or the offer when there is no rest.
CutOffer(s, b) ==
    IF OffersWhatItSends(s, b) /\ s.says # {"shall I show", "nothing else"}
    THEN [s EXCEPT !.says = @ \ {"shall I show"}] ELSE s

Cut(s, b) == CutOffer(CutFailure(s, b), b)

EndWith(how, b, names, claims, says) ==
    /\ sent' = [how |-> how, carried |-> b.carried, names |-> names, claims |-> claims,
                says |-> says]
    /\ stamped' = stamped \cup b.carried
    /\ turn' = [turn EXCEPT !.phase = "idle", !.hops = 0, !.tries = 0, !.called = {}]
    /\ basket' = EmptyBasket
    /\ UNCHANGED <<refused, looked, seen, topic>>

\* Mutant of Weighed: the sentence is weighed before the pictures are sorted out.
WeighedEarly(s) == [leaves |-> KeepChartOrPhotos(Show(basket, s), s), seen |-> Show(basket, s)]
\* The pictures that leave with a sentence, and those it is held against.
Weighed(s) ==
    LET b == KeepChartOrPhotos(Show(basket, s), s) IN [leaves |-> b, seen |-> b]

\* Mutant of SendBack: the pictures of the rejected sentence stay.
SendBackKeeping(b) ==
    /\ turn.tries < PromiseRetries
    /\ turn' = [turn EXCEPT !.tries = @ + 1, !.hops = @ + 1]
    /\ basket' = b
    /\ UNCHANGED <<stamped, refused, looked, seen, topic, sent>>
\* A sentence at fault goes back, without the pictures it had brought.
SendBack(b) ==
    /\ turn.tries < PromiseRetries
    /\ turn' = [turn EXCEPT !.tries = @ + 1, !.hops = @ + 1]
    /\ UNCHANGED <<stamped, refused, looked, seen, topic, basket, sent>>

\* The retries are used up: a fixed sentence goes out, beside the pictures of the last one.
Replace(s, b) ==
    /\ turn.tries >= PromiseRetries
    /\ EndWith("replaced", b, Named(s), "none", {})

\* A reply without tool calls.
Compose(s) ==
    /\ MayCall
    /\ LET b == Weighed(s).leaves
           held == Weighed(s).seen
       IN IF Unsendable(s, held) THEN SendBack(b) \/ Replace(s, b)
          ELSE IF Cuttable(s, held) /\ turn.tries < PromiseRetries THEN SendBack(b)
          ELSE LET said == IF Cuttable(s, held) THEN Cut(s, held) ELSE s
               IN EndWith("said", b, Named(s), said.claims, said.says)

\* The ends that pass none of these checks: the cap, a call repeated too often, a reply that
\* came back cut off, and the closing line of request_human.
EndUnchecked ==
    /\ Thinking /\ turn.hops > 0
    /\ EndWith("unchecked", basket, {}, "none", {})

\* The provider fails: an apology; nothing the turn attached goes with it.
Apologise ==
    /\ MayCall
    /\ EndWith("apology", EmptyBasket, {}, "none", {})

\* record_undelivered_attachments: the platform takes the words and not a picture.
Refuse ==
    /\ Idle /\ Cardinality(refused) < MaxRefusals
    /\ \E pic \in sent.carried : refused' = refused \cup {pic}
    /\ UNCHANGED <<stamped, looked, seen, topic, basket, turn, sent>>

PicturesNext ==
    \/ Ask \/ ActAny
    \/ \E call \in Lookups : LookUp(call[1], call[2], call[3])
    \/ \E hits \in Searches : Search(hits)
    \/ \E p \in Products : SizeChart(p)
    \/ \E s \in Sentences : Compose(s)
    \/ EndUnchecked \/ Apologise \/ Refuse

PicturesSpec == PicturesInit /\ [][PicturesNext]_picturesVars

-----------------------------------------------------------------------------
(* Properties. *)

\* A garment on a reply is one that a tool of this turn returned or that the sentence which
\* leaves names; a picture that a rejected sentence brought never rides along with the next
\* (base.py:175-181).
PicturesBelong ==
    \A pic \in sent.carried : IsChart(pic) \/ pic[1] \in turn.found \cup sent.names

\* What leaves as the model wrote it is true of the reply as it leaves: the pictures it says
\* are there are there, what it says was done was done by this turn, and it names the request
\* that was filed (photo_claims, action_claims, order_change_claims).  The exception is an
\* offer of pictures that are there already, when it is all there is to say
\* (`trimmed or text`, photo_claims.py:420); and the fixed line "here is its picture" is only
\* sure to come with some picture.
ClaimsBacked ==
    sent.how = "said" =>
        LET garments == {pic \in sent.carried : ~IsChart(pic)}
        IN /\ "theirs" \in turn.wish \/
                /\ sent.claims = "a photo" => garments # {}
                /\ sent.claims = "both" => Cardinality(garments) \notin {0, 1}
                /\ sent.claims = "the named" =>
                     garments # {} /\ sent.names \subseteq {pic[1] : pic \in garments}
           /\ "added" \in sent.says => "cart" \in turn.did
           /\ "handed over" \in sent.says => "handoff" \in turn.did
           /\ "it failed" \in sent.says => refused # {}
           /\ "shall I show" \in sent.says =>
                garments = {} \/ sent.says = {"shall I show", "nothing else"}
           /\ "its picture" \in sent.says => sent.carried # {}
           /\ turn.filed = {"item_add"} => ~("swapping" \in sent.says /\ "adding" \notin sent.says)

\* Does not hold: a reply that is nothing but an offer goes out beside what it offers
\* (photo_claims.py:412-420), and the line "here is its picture" beside a size chart
\* (agent.py:1134-1135).
CutLinesTrue ==
    LET garments == {pic \in sent.carried : ~IsChart(pic)}
    IN  /\ "shall I show" \in sent.says => garments = {}
        /\ "its picture" \in sent.says => garments # {}

\* A question about sizes gets no picture of the garment (showcase.py:458-499) -- on the ends
\* that pass the checks.
SizingGetsNoPhoto ==
    sent.how \in {"said", "replaced"} /\ AskedAboutSizing /\ ~AskedForPhotos
        => \A pic \in sent.carried : IsChart(pic)

\* Does not hold: the ends that pass no checks skip the decision too.
SizingNeverGetsPhoto ==
    AskedAboutSizing /\ ~AskedForPhotos => \A pic \in sent.carried : IsChart(pic)
=============================================================================
