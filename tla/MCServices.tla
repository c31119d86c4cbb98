------------------------------- MODULE MCServices -------------------------------
(* Model checking of the components around the publication pipeline. They     *)
(* share no state with each other: the one a behaviour is about is chosen at  *)
(* its start, and only it moves; the others stay in an initial state.         *)
EXTENDS Attribution, FinancialImport, ShopeeSchedule, OfferVersions, MeliTokens,
        MeliDiscovery, CatalogDiscovery, CategoryBalance, Supervisor, WhatsAppPage,
        ShopeeDistribution, ShopeeFeed, WorkerStatus, TLC

CONSTANTS l1, l2, o1, o2, pub1,    \* links, offers, publication
          f1, f2, f3,              \* files
          w1, w2, m1,              \* workers, manual command
          meli, shopee, u1, u2,    \* products, affiliate links
          b1, b2, d1, d2,          \* jobs, dialogs
          p1, p2, g1, g2, t1, t2,  \* posts, groups, texts
          x1, x2, tg1, tg2, gr1, y1, \* offers, Telegram channels, group, form
          q1, q2, pf1, pf2         \* worker processes, pause forms

VARIABLE focus

MCOfferOf == l1 :> o1 @@ l2 :> o2
MCPublicationsOf == o1 :> {pub1} @@ o2 :> {}

MCFileType == [f \in Files |-> IF f = f3 THEN "COMMISSION" ELSE "CONVERSION"]
MCFileRows == f1 :> <<"e0", "e1">> @@ f2 :> <<"e1">> @@ f3 :> <<"c1">>
MCConversionOf == [e \in Events |-> IF e = "c1" THEN "e1" ELSE NoImport]

MCCrews == {{w1, w2}, {w1, m1}}

MCCatalogs == {{meli}, {shopee}}
MCPricesOf == meli :> {10} @@ shopee :> {10, 20}
MCUrlsOf == meli :> {u1} @@ shopee :> {u1, u2}

MCMeliCrews ==
  {[jobs |-> {b1, b2}, dialogs |-> {d1}, faults |-> 0],
   [jobs |-> {b1}, dialogs |-> {d1, d2}, faults |-> 0],
   [jobs |-> {b1}, dialogs |-> {d1}, faults |-> 1]}

(* p1 has an image and p2 has none; both texts have the same link.            *)
MCGroupOf == [p \in Posts |-> g1]
MCTextOf == p1 :> t1 @@ p2 :> t2
MCHasImage == p1 :> TRUE @@ p2 :> FALSE
MCUrlOf == [t \in Texts |-> 1]
MCTitleOf == t1 :> 1 @@ t2 :> 2

Earlier(t, s) == [by |-> 0, text |-> t, image |-> TRUE, state |-> s, at |-> 0]
NoMessages == [g \in Groups |-> <<>>]

(* One publication with a disturbance and earlier messages that look like it, *)
(* and calm errands, alone or one after the other.                            *)
MCPagePlans ==
  [errands : {<<<<p1, "publish">>>>}, faults : {1},
   chats : {[NoMessages EXCEPT ![g2] = <<Earlier(t1, "SENT")>>],
            [NoMessages EXCEPT ![g1] = <<Earlier(t2, "SENT"), Earlier(t1, "SENT")>>]}]
  \cup
  [errands : {<<<<p2, "publish">>, <<p1, "publish">>>>, <<<<p1, "publish">>, <<p1, "delivery">>>>,
              <<<<p2, "dryRun">>, <<p1, "publish">>>>, <<<<p1, "preflight">>>>, <<<<p1, "draft">>>>},
   faults : {0}, chats : {NoMessages}]
  \cup
  [errands : {<<<<p1, "publish">>>>}, faults : {0},
   chats : {[NoMessages EXCEPT ![g1] = <<Earlier(t1, "PENDING")>>]}]

(* Two channels of two time zones; a failing delivery; a group and its form;  *)
(* the command with both kinds of channel.                                    *)
MCSettings ==
  {[offers |-> {x1, x2}, channels |-> {tg1, tg2}, clerks |-> {}, commands |-> 0, failures |-> 0],
   [offers |-> {x1, x2}, channels |-> {tg1}, clerks |-> {}, commands |-> 0, failures |-> 1],
   [offers |-> {x1, x2}, channels |-> {gr1}, clerks |-> {y1}, commands |-> 0, failures |-> 0],
   [offers |-> {x1}, channels |-> {gr1, tg1}, clerks |-> {}, commands |-> 1, failures |-> 0]}
MCChannelKind == tg1 :> "TELEGRAM" @@ tg2 :> "TELEGRAM" @@ gr1 :> "ASSISTED"
MCZoneOf == tg1 :> "A" @@ tg2 :> "B" @@ gr1 :> "A"
MCRank == [p \in ShopOffers \X ShopChannels |->
             (IF p[1] = x1 THEN 0 ELSE 3)
             + (CASE p[2] = tg1 -> 0 [] p[2] = tg2 -> 1 [] p[2] = gr1 -> 2)]

(* A tree whose products are reached at several depths (root), one with too    *)
(* many products (big), and a product without either (leaf); highlights that   *)
(* lead to the same item in several ways.                                      *)
MCWalks == {[categories |-> <<"first", "second">>, spare |-> 2],
            [categories |-> <<"parent", "second", "first">>, spare |-> 1]}
Highlight(id, t, n) == [id |-> id, type |-> t, position |-> n]
MCHighlightsOf ==
  "first" :> <<Highlight("i1", "ITEM", 2), Highlight("root", "PRODUCT", 3), Highlight("leaf", "PRODUCT", 4),
               Highlight("?", "UNKNOWN", 5), Highlight("i2", "ITEM", 6)>>
  @@ "second" :> <<Highlight("big", "PRODUCT", 1), Highlight("i1", "ITEM", 1),
                   Highlight("leaf", "PRODUCT", 3), Highlight("user", "USER_PRODUCT", 4)>>
Product(n, winner, below, number) ==
  [number |-> n, winner |-> winner, children |-> below, active |-> TRUE, sold |-> number,
   price |-> number, listable |-> TRUE, page |-> IF n = 12 THEN "CANONICAL_CATALOG_PDP" ELSE NoId]
MCProductOf ==
  "root" :> Product(1, NoId, <<"a", "x">>, NoNumber) @@ "a" :> Product(2, "i3", <<"x">>, 9)
  @@ "x" :> Product(3, NoId, <<"y", "z">>, NoNumber) @@ "y" :> Product(4, "i1", <<>>, NoNumber)
  @@ "z" :> Product(5, "i4", <<>>, 9)
  @@ "big" :> Product(6, NoId, <<"q1", "q2", "q3", "q4", "q5">>, NoNumber)
  @@ "q1" :> Product(7, "i3", <<>>, 1)
  @@ "q2" :> Product(8, NoId, <<>>, NoNumber) @@ "q3" :> Product(9, NoId, <<>>, NoNumber)
  @@ "q4" :> Product(10, NoId, <<>>, NoNumber) @@ "q5" :> Product(11, NoId, <<>>, NoNumber)
  @@ "leaf" :> Product(12, NoId, <<>>, NoNumber)
MCItemsOf == "root" :> {} @@ "big" :> {"i5"} @@ "leaf" :> {"i4", "i5"} @@ "user" :> {"i1", "i5"}
Item(summary, usable, n) == [summary |-> summary, usable |-> usable, rank |-> n]
MCItemFacts == "i1" :> Item("good", TRUE, 1) @@ "i2" :> Item("bad", TRUE, 2) @@ "i3" :> Item("noPrice", TRUE, 3)
               @@ "i4" :> Item("bad", FALSE, 4) @@ "i5" :> Item("good", TRUE, 5)

(* Three categories with or without limits of their own, some not valid, and   *)
(* four offers in one or two of them; and two of different minimums whose      *)
(* session is full before or after a turn for the maximum.                     *)
Category(c, priority, minimum, maximum, enabled) ==
  [category |-> c, priority |-> priority, minimum |-> minimum, maximum |-> maximum, enabled |-> enabled]
Candidate(origins, n, eligible) == [origins |-> origins, rank |-> n, eligible |-> eligible]
MCBalanceInputs ==
  [settings : {<<Category("A", 0, NoSetting, NoSetting, TRUE), Category("B", first[1], minimum, maximum, TRUE),
                 Category("C", 1, NoSetting, 3, first[2])>> :
                 first \in {<<0, TRUE>>, <<2, TRUE>>, <<2, FALSE>>},
                 minimum \in {NoSetting, 2}, maximum \in {1, 11}},
   candidates : {"u" :> Candidate({"A"}, 1, TRUE) @@ "v" :> Candidate(some, 2, TRUE)
                 @@ "w" :> Candidate(third[1], 0, third[2]) @@ "x" :> Candidate({"A"}, 4, TRUE) :
                 some \in {{"A"}, {"A", "B"}},
                 third \in {<<{"A"}, TRUE>>, <<{"B", "C"}, TRUE>>, <<{"C"}, TRUE>>, <<{"B", "C"}, FALSE>>}},
   minimum : {NoSetting, 2}, maximum : {1, 3}, total : {2, 4}, backfill : BOOLEAN]
  \cup
  [settings : {<<Category("A", 0, 2, 3, TRUE), Category("B", 0, 0, 3, TRUE)>>},
   candidates : {"u" :> Candidate({"A"}, 1, TRUE) @@ "v" :> Candidate({"A", "B"}, 2, TRUE)
                 @@ "w" :> Candidate({"A"}, 3, TRUE) @@ "x" :> Candidate({"B"}, 4, TRUE)
                 @@ "y" :> Candidate({"B"}, 5, TRUE)},
   minimum : {0}, maximum : {3}, total : {1, 4, 5}, backfill : {FALSE}]

(* Two feeds of four categories:  rows of one item in several rows, on two     *)
(* pages, in two categories and of several completeness; a row that cannot be  *)
(* read, one that is too dear; a session that reads two feeds, one whose       *)
(* catalogue changes, one at each limit, one without a feed, and files, whose  *)
(* rows have a description in both of them, in one or in none.                 *)
FeedRow(i, price, discount, category1, category2, extra, shop) ==
  [item |-> i, price |-> price, discount |-> discount, category1 |-> category1, category2 |-> category2,
   extra |-> extra, shop |-> shop, source |-> i % 2, text |-> i]
Phone(i, discount) == FeedRow(i, 1, discount, "phones", "mobile", {}, Nothing)
Rule(category1, category2, priority, maximum, enabled) ==
  [category1 |-> category1, category2 |-> category2, priority |-> priority,
   minimum |-> 1, maximum |-> maximum, enabled |-> enabled]
MCFeedRules == <<Rule("home", Nothing, 1, 1, TRUE), Rule("phones", "mobile", 2, 2, TRUE),
                 Rule("phones", Nothing, 1, 2, FALSE), Rule("phones", Nothing, 3, 1, TRUE)>>
Feed(id, reference, date, full) == [id |-> id, reference |-> reference, date |-> date, full |-> full]
MCFeedListing == {Feed("f1", "r1", 2, TRUE), Feed("f0", "r1", 1, TRUE),
                  Feed("f2", "r2", 1, TRUE), Feed("f3", "r2", 2, FALSE)}
OneRowEach == <<Phone(1, 3), Phone(2, 2), Nothing, Phone(3, 5),
                FeedRow(4, 1, 2, "home", Nothing, {}, "s"), FeedRow(5, 9, 9, "home", Nothing, {}, "s")>>
SeveralRows == <<Phone(1, 3), FeedRow(2, 1, Nothing, "phones", "mobile", {"a"}, Nothing), Phone(2, 2),
                 FeedRow(1, 1, Nothing, "home", Nothing, {"a", "b"}, "s"), Phone(3, 5), Phone(4, 4), Phone(2, 6),
                 FeedRow(3, 9, 1, "phones", Nothing, {"a", "b", "c"}, "s")>>
Described(rows) == [i \in DOMAIN rows |->
  IF rows[i] = Nothing THEN Nothing ELSE [rows[i] EXCEPT !.extra = @ \cup {"description"}]]
Session(kind, editions, references, maxPages, maxItems, enriched) ==
  [kind |-> kind, editions |-> [i \in DOMAIN editions |-> [f \in {"f0", "f1", "f2", "f3"} |->
     IF f = "f1" THEN editions[i][1] ELSE IF f = "f2" THEN editions[i][2] ELSE <<>>]],
   references |-> references, pageSize |-> 3, maxPages |-> maxPages, maxItems |-> maxItems, enriched |-> enriched]
MCFeedSettings ==
  {Session("remote", <<<<OneRowEach, <<Phone(6, 4)>>>>>>, <<"r1", "r2">>, 5, 7, e) : e \in BOOLEAN}
  \cup {Session("remote", <<<<SeveralRows, <<>>>>, <<SubSeq(SeveralRows, 3, 8), <<>>>>>>, <<"r1">>, 4, 9, FALSE)}
  \cup {Session("remote", <<<<OneRowEach, <<>>>>>>, <<"r1">>, p, n, FALSE) : p \in {1, 3}, n \in {2, 6}}
  \cup {Session("remote", <<<<OneRowEach, <<>>>>>>, <<"r1", "r3">>, 3, 6, FALSE)}
  \cup {Session("file", <<<<a, b>>, <<Tail(a), OneRowEach>>>>, <<"f1", "f2">>, 3, 5, FALSE) :
           a \in {OneRowEach, SeveralRows, Described(OneRowEach)},
           b \in {SeveralRows, Described(SeveralRows)}}

vars == <<focus, clickVars, conversion, importVars, shopVars, offerVars, tokenVars, meliVars,
          catalogVars, balanceVars, supervisorVars, pageVars, distVars, feedVars, statusVars>>

(* Two workers, in a burn-in or not; a worker and two forms; one for longer.  *)
LoopCase(whose, pausing, burnIn, until, fails) ==
  [workers |-> whose, forms |-> pausing, burnIn |-> burnIn, until |-> until, faults |-> fails]
MCLoopCases ==
  {LoopCase({q1, q2}, {}, TRUE, 1, 1), LoopCase({q1, q2}, {}, FALSE, 2, 1),
   LoopCase({q1}, {pf1, pf2}, FALSE, 2, 0), LoopCase({q1}, {}, FALSE, 6, 1)}
MCLoopOrder == <<"discovery", "publication">>
MCPausedBy == [p \in {"discovery", "publication"} |-> p]
MCCadence == "discovery" :> 4 @@ "publication" :> 2

(* Only what the focus is about moves.                                        *)
OthersStay ==
  /\ UNCHANGED focus
  /\ IF focus \in {"clicks", "attribution"} THEN TRUE ELSE UNCHANGED clickVars
  /\ IF focus = "attribution" THEN TRUE ELSE UNCHANGED conversion
  /\ IF focus = "import" THEN TRUE ELSE UNCHANGED importVars
  /\ IF focus = "shop" THEN TRUE ELSE UNCHANGED shopVars
  /\ IF focus = "offers" THEN TRUE ELSE UNCHANGED offerVars
  /\ IF focus = "tokens" THEN TRUE ELSE UNCHANGED tokenVars
  /\ IF focus = "meli" THEN TRUE ELSE UNCHANGED meliVars
  /\ IF focus = "catalog" THEN TRUE ELSE UNCHANGED catalogVars
  /\ IF focus = "balance" THEN TRUE ELSE UNCHANGED balanceVars
  /\ IF focus = "supervisor" THEN TRUE ELSE UNCHANGED supervisorVars
  /\ IF focus = "page" THEN TRUE ELSE UNCHANGED pageVars
  /\ IF focus = "distribution" THEN TRUE ELSE UNCHANGED distVars
  /\ IF focus = "feed" THEN TRUE ELSE UNCHANGED feedVars
  /\ IF focus = "status" THEN TRUE ELSE UNCHANGED statusVars

(* A component that is not the focus starts in any one of its initial states. *)
OneCrew == DOMAIN tick = {w1, w2}
OneCatalog == DOMAIN offers = {meli}
OneMeliCrew == DOMAIN meliJob = {b1, b2}
OneWalk == Len(walk.left) = 2
FirstInput == CHOOSE b \in BalanceInputs : TRUE
OneInput == input = FirstInput
OneSetting == setting.offers = {x1}
FirstSession == CHOOSE s \in FeedSettings : s.kind = "file"
OneSession == feedRun.set = FirstSession
OneLoopCase == crew.until = 6
OnePlan == Len(plan.errands) = 1 /\ plan.errands[1][2] = "draft" /\ shows = {}

Init ==
  /\ focus \in {"clicks", "attribution", "import", "shop", "offers", "tokens", "meli",
                "catalog", "balance", "supervisor", "page", "distribution", "feed", "status"}
  /\ IF focus = "attribution" THEN AttributionInit ELSE ClickInit /\ conversion = <<>>
  /\ ImportInit /\ ShopInit /\ OfferInit /\ TokenInit /\ MeliInit /\ SupervisorInit
  /\ CatalogInit /\ PageInit /\ DistInit
  /\ focus = "shop" \/ OneCrew
  /\ focus = "offers" \/ OneCatalog
  /\ focus = "meli" \/ OneMeliCrew
  /\ focus = "catalog" \/ OneWalk
  /\ focus = "page" \/ OnePlan
  /\ focus = "distribution" \/ OneSetting
  /\ FeedInit
  /\ focus = "feed" \/ OneSession
  /\ StatusInit
  /\ focus = "status" \/ OneLoopCase
  /\ BalanceInit
  /\ focus = "balance" \/ OneInput

Next ==
  \/ focus = "clicks" /\ ClickNext /\ OthersStay
  \/ focus = "attribution" /\ AttributionNext /\ OthersStay
  \/ focus = "import" /\ ImportNext /\ OthersStay
  \/ focus = "shop" /\ ShopNext /\ OthersStay
  \/ focus = "offers" /\ OfferNext /\ OthersStay
  \/ focus = "tokens" /\ TokenNext /\ OthersStay
  \/ focus = "meli" /\ MeliNext /\ OthersStay
  \/ focus = "catalog" /\ CatalogNext /\ OthersStay
  \/ focus = "balance" /\ BalanceNext /\ OthersStay
  \/ focus = "supervisor" /\ SupervisorNext /\ OthersStay
  \/ focus = "page" /\ PageNext /\ OthersStay
  \/ focus = "distribution" /\ DistNext /\ OthersStay
  \/ focus = "feed" /\ FeedNext /\ OthersStay
  \/ focus = "status" /\ StatusNext /\ OthersStay

(* What tells two states apart: the rest is as it was at the start.           *)
FocusView ==
  CASE focus \in {"clicks", "attribution"} -> <<focus, clickVars, conversion>>
    [] focus = "import"     -> <<focus, importVars>>
    [] focus = "shop"       -> <<focus, shopVars>>
    [] focus = "offers"     -> <<focus, offerVars>>
    [] focus = "tokens"     -> <<focus, tokenVars>>
    [] focus = "meli"       -> <<focus, meliVars>>
    [] focus = "catalog"    -> <<focus, catalogVars>>
    [] focus = "balance"    -> <<focus, balanceVars>>
    [] focus = "supervisor" -> <<focus, supervisorVars>>
    [] focus = "page"       -> <<focus, pageVars>>
    [] focus = "distribution" -> <<focus, distVars>>
    [] focus = "feed"       -> <<focus, feedVars>>
    [] focus = "status"     -> <<focus, statusVars>>

Spec == Init /\ [][Next]_vars
-----------------------------------------------------------------------------
(* The component in focus keeps its variables in their ranges, and the        *)
(* relations between them that its actions rely on (an import beyond its      *)
(* start has its file, a publication has its offer version).                  *)
ServicesTypeOK ==
  CASE focus \in {"clicks", "attribution"} -> ClickTypeOK
    [] focus = "import"     -> ImportTypeOK
    [] focus = "shop"       -> ShopTypeOK
    [] focus = "offers"     -> OfferTypeOK
    [] focus = "tokens"     -> TokenTypeOK
    [] focus = "meli"       -> MeliTypeOK
    [] focus = "catalog"    -> CatalogTypeOK
    [] focus = "balance"    -> BalanceTypeOK
    [] focus = "supervisor" -> SupervisorTypeOK
    [] focus = "page"       -> PageTypeOK
    [] focus = "distribution" -> DistTypeOK
    [] focus = "feed"       -> FeedTypeOK
    [] focus = "status"     -> StatusTypeOK
=============================================================================
