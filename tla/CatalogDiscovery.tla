--------------------------- MODULE CatalogDiscovery ----------------------------
(* How a Mercado Livre discovery finds its candidates (marketplace-discovery, *)
(* with the requests of marketplace-connectors): it goes through categories   *)
(* and their highlights, resolves each highlight to an item or a catalogue    *)
(* product, at need through the tree of the product's children, and keeps one *)
(* candidate per product. One process, whose requests may fail; links and     *)
(* ingestion follow in MeliDiscovery and OfferVersions.                       *)
EXTENDS Integers, Sequences, FiniteSets, FiniteSetsExt

CONSTANTS Walks,             \* [categories : Seq, spare : Nat]: what a run goes through,
                             \* and how many requests may not be answered as expected
          LeafCategories,
          HighlightsOf,      \* per leaf category: sequence of [id, type, position]
          ProductOf,         \* per catalogue product: its facts
          ItemsOf,           \* per product, and per user product: its items
          ItemFacts,         \* per item: [summary, usable, rank]
          MaxHighlights,     \* maxCandidatesPerCategory
          MaxDepth,          \* maxProductDepth
          MaxProducts,       \* maxProductsInspected
          NoId, NoNumber

Products == DOMAIN ProductOf
Items == DOMAIN ItemFacts

(* The search always looks at the children of its root (4 is the depth in the *)
(* code); an item is not a product, and two products have different ids.      *)
ASSUME CatalogAssumption ==
  /\ {MaxHighlights, MaxProducts} \subseteq Nat /\ MaxDepth \in Nat \ {0}
  /\ Products \cap Items = {} /\ NoId \notin Products \cup Items
  /\ \A w \in Walks : w.spare \in Nat /\ w.categories \in Seq({w.categories[i] : i \in DOMAIN w.categories})
  /\ \A c \in LeafCategories :
       /\ HighlightsOf[c] \in Seq({HighlightsOf[c][i] : i \in DOMAIN HighlightsOf[c]})
       /\ \A i \in DOMAIN HighlightsOf[c] :
            LET h == HighlightsOf[c][i]
            IN  /\ h.position \in Nat /\ h.type \in {"ITEM", "PRODUCT", "USER_PRODUCT", "UNKNOWN"}
                /\ h.type = "ITEM" => h.id \in Items
                /\ h.type = "PRODUCT" => h.id \in Products
                /\ h.type \in {"PRODUCT", "USER_PRODUCT"} => ItemsOf[h.id] \subseteq Items
  /\ \A p \in Products :
       LET facts == ProductOf[p]
       IN  /\ facts.winner \in Items \cup {NoId} /\ facts.children \in Seq(Products)
           /\ facts.page \in {"API_PERMALINK", "CANONICAL_CATALOG_PDP", NoId}
           /\ facts.active \in BOOLEAN /\ {facts.sold, facts.price} \subseteq Int \cup {NoNumber}
           /\ facts.number \in Int
           /\ \A q \in Products : ProductOf[q].number = facts.number => q = p
  /\ \A i \in Items : /\ ItemFacts[i].summary \in {"good", "noPrice", "bad"}
                      /\ ItemFacts[i].usable \in BOOLEAN /\ ItemFacts[i].rank \in Nat

VARIABLES walk,      \* where the run is, and how many requests may still fail
          tree,      \* the search in a product's children; answered is read by no step
          found,     \* the candidates in the order they were first found
          offered,   \* what goes on to links and ingestion
          hits       \* every highlight resolved, read by no step

catalogVars == <<walk, tree, found, offered, hits>>

NoHighlight == [id |-> NoId, type |-> "UNKNOWN", position |-> 0]
NoTree == [root |-> NoId, queue |-> <<>>, visited |-> {}, winners |-> {}, answered |-> {},
           choice |-> NoId, end |-> "open"]

CatalogInit ==
  /\ \E w \in Walks : walk = [pc |-> "category", left |-> w.categories, category |-> NoId,
                              todo |-> <<>>, now |-> NoHighlight, spare |-> w.spare,
                              unresolved |-> 0, errors |-> 0, outcome |-> "RUNNING"]
  /\ tree = NoTree /\ found = <<>> /\ offered = {} /\ hits = {}

-----------------------------------------------------------------------------
(* A request is tried again after a network error, an invalid body, 429 and   *)
(* 5xx, and not after another status: in the end it is answered, it is        *)
(* answered with 404, or it has failed.                                       *)
Replies == {"answered"} \cup (IF walk.spare > 0 THEN {"missing", "failed"} ELSE {})
Spent(reply) == [walk EXCEPT !.spare = IF reply = "answered" THEN @ ELSE @ - 1]

(* A highlight was not resolved: it is recorded and the next one is taken.    *)
Skipped(reply) == [Spent(reply) EXCEPT !.pc = "highlight", !.unresolved = @ + 1]

(* Mutant of Kept: the last place counts instead of the best one.             *)
KeptLast(kind, id) ==
  LET place == walk.now.position
      same == {i \in DOMAIN found : found[i].kind = kind /\ found[i].id = id}
  IN  IF same = {}
      THEN Append(found, [kind |-> kind, id |-> id, position |-> place, origins |-> {walk.category}])
      ELSE [i \in DOMAIN found |->
              IF i \notin same THEN found[i]
              ELSE [found[i] EXCEPT !.position = place, !.origins = @ \cup {walk.category}]]

Kept(kind, id) ==
  LET place == walk.now.position
      same == {i \in DOMAIN found : found[i].kind = kind /\ found[i].id = id}
  IN  IF same = {}
      THEN Append(found, [kind |-> kind, id |-> id, position |-> place, origins |-> {walk.category}])
      ELSE [i \in DOMAIN found |->
              IF i \notin same THEN found[i]
              ELSE [found[i] EXCEPT !.position = IF place < @ THEN place ELSE @,
                                    !.origins = @ \cup {walk.category}]]

Resolve(kind, id) ==
  /\ found' = Kept(kind, id)
  /\ hits' = hits \cup {[kind |-> kind, id |-> id, position |-> walk.now.position,
                         category |-> walk.category]}
  /\ walk' = [walk EXCEPT !.pc = "highlight"]

-----------------------------------------------------------------------------
(* Categories and highlights.                                                 *)

ReadCategory ==
  /\ walk.pc = "category" /\ walk.left # <<>>
  /\ \E reply \in Replies :
       walk' = [Spent(reply) EXCEPT
                  !.pc = IF reply = "answered" /\ Head(walk.left) \in LeafCategories
                         THEN "highlights" ELSE "category",
                  !.category = Head(walk.left), !.left = Tail(@),
                  !.errors = IF reply = "failed" THEN @ + 1 ELSE @]
  /\ UNCHANGED <<tree, found, offered, hits>>

ReadHighlights ==
  /\ walk.pc = "highlights"
  /\ \E reply \in Replies :
       LET all == HighlightsOf[walk.category]
           first == SubSeq(all, 1, IF Len(all) < MaxHighlights THEN Len(all) ELSE MaxHighlights)
       IN  walk' = [Spent(reply) EXCEPT
                      !.pc = IF reply = "answered" THEN "highlight" ELSE "category",
                      !.todo = IF reply = "answered" THEN first ELSE <<>>,
                      !.errors = IF reply = "failed" THEN @ + 1 ELSE @]
  /\ UNCHANGED <<tree, found, offered, hits>>

(* The next highlight, or the next category.                                  *)
TakeHighlight ==
  /\ walk.pc = "highlight"
  /\ walk' = IF walk.todo = <<>> THEN [walk EXCEPT !.pc = "category", !.now = NoHighlight]
             ELSE [walk EXCEPT !.now = Head(walk.todo), !.todo = Tail(@), !.pc = "resolve"]
  /\ tree' = NoTree
  /\ UNCHANGED <<found, offered, hits>>

(* An unsupported highlight is skipped; an item needs no request.             *)
ResolveItem ==
  /\ walk.pc = "resolve"
  /\ \/ /\ walk.now.type = "ITEM"
        /\ Resolve("ITEM", walk.now.id)
     \/ /\ walk.now.type = "UNKNOWN"
        /\ walk' = Skipped("answered") /\ UNCHANGED <<found, hits>>
  /\ UNCHANGED <<tree, offered>>

Usable(items) == {i \in items : ItemFacts[i].usable}
Best(items) == CHOOSE i \in items : \A j \in items : ItemFacts[i].rank <= ItemFacts[j].rank

(* Of some items details are known: each may be missing, or have no price.    *)
Detailed(items) ==
  {known \in SUBSET items : known = items \/ walk.spare > 0}

(* A user product: its owner, its items and their details, each of which may  *)
(* be missing or fail; every failure skips the highlight.                     *)
ResolveUserProduct ==
  /\ walk.pc = "resolve" /\ walk.now.type = "USER_PRODUCT"
  /\ \E reply \in Replies, known \in Detailed(ItemsOf[walk.now.id]) :
       IF reply = "answered" /\ Usable(known) # {} THEN Resolve("USER_PRODUCT", Best(Usable(known)))
       ELSE walk' = Skipped(reply) /\ UNCHANGED <<found, hits>>
  /\ UNCHANGED <<tree, offered>>

-----------------------------------------------------------------------------
(* A catalogue product: by its winner, through its children, or its items.    *)

(* resolveCandidate returns the promise of the product's resolution without   *)
(* awaiting it: a request that fails here is not caught there, and the whole  *)
(* run fails.                                                                 *)
LoadProduct ==
  /\ walk.pc = "resolve" /\ walk.now.type = "PRODUCT"
  /\ LET p == walk.now.id
         facts == ProductOf[p]
     IN  \E reply \in Replies :
           \/ /\ reply = "missing"
              /\ walk' = Skipped(reply) /\ UNCHANGED <<tree, found, hits>>
           \/ /\ reply = "failed"
              /\ walk' = [Spent(reply) EXCEPT !.pc = "done", !.outcome = "FAILED"]
              /\ UNCHANGED <<tree, found, hits>>
           \/ /\ reply = "answered" /\ facts.winner # NoId
              /\ Resolve("ITEM", facts.winner) /\ UNCHANGED tree
           \/ /\ reply = "answered" /\ facts.winner = NoId /\ facts.children = <<>>
              /\ walk' = [walk EXCEPT !.pc = "items"] /\ UNCHANGED <<tree, found, hits>>
           \/ /\ reply = "answered" /\ facts.winner = NoId /\ facts.children # <<>>
              /\ walk' = [walk EXCEPT !.pc = "children"]
              /\ tree' = [NoTree EXCEPT !.root = p, !.visited = {p}, !.answered = {p},
                            !.queue = [i \in DOMAIN facts.children |->
                                         [id |-> facts.children[i], depth |-> 1]]]
              /\ UNCHANGED <<found, hits>>
  /\ UNCHANGED offered

(* The elements of a sequence at some of its places, in their order.          *)
Picked(s, places) ==
  [k \in 1 .. Cardinality(places) |->
     s[CHOOSE i \in places : Cardinality({j \in places : j <= i}) = k]]

Unvisited(n) ==
  LET children == ProductOf[n.id].children
  IN  Picked(children, {i \in DOMAIN children : children[i] \notin tree.visited \cup {n.id}})

(* The search of a child looked at: its winner, and its own children behind   *)
(* what waits already, unless it is as deep as the search goes.               *)
Searched(n, reply) ==
  LET facts == ProductOf[n.id]
      more == IF reply = "answered" /\ n.depth < MaxDepth
              THEN [i \in DOMAIN Unvisited(n) |-> [id |-> Unvisited(n)[i], depth |-> n.depth + 1]] ELSE <<>>
  IN  [tree EXCEPT !.visited = @ \cup {n.id}, !.queue = Tail(@) \o more,
                   !.answered = IF reply = "answered" THEN @ \cup {n.id} ELSE @,
                   !.winners = IF reply = "answered" /\ facts.winner # NoId THEN @ \cup {n.id} ELSE @]

(* Mutant of Searched: children go before what waits.                         *)
SearchedDeepFirst(n, reply) ==
  LET facts == ProductOf[n.id]
      more == IF reply = "answered" /\ n.depth < MaxDepth
              THEN [i \in DOMAIN Unvisited(n) |-> [id |-> Unvisited(n)[i], depth |-> n.depth + 1]] ELSE <<>>
  IN  [tree EXCEPT !.visited = @ \cup {n.id}, !.queue = more \o Tail(@),
                   !.answered = IF reply = "answered" THEN @ \cup {n.id} ELSE @,
                   !.winners = IF reply = "answered" /\ facts.winner # NoId THEN @ \cup {n.id} ELSE @]

(* A tree with too many products gives up what it found.                      *)
VisitChild ==
  /\ walk.pc = "children" /\ tree.queue # <<>>
  /\ LET n == Head(tree.queue)
     IN  CASE n.id \in tree.visited ->
                tree' = [tree EXCEPT !.queue = Tail(@)] /\ UNCHANGED walk
           [] n.id \notin tree.visited /\ Cardinality(tree.visited) >= MaxProducts ->
                /\ tree' = [tree EXCEPT !.queue = <<>>, !.winners = {}, !.end = "tooLarge"]
                /\ walk' = [walk EXCEPT !.pc = "items"]
           [] OTHER ->
                \E reply \in Replies : tree' = Searched(n, reply) /\ walk' = Spent(reply)
  /\ UNCHANGED <<found, offered, hits>>

(* The order of chooseProductChild, as numbers of which the smaller is first: *)
(* active, without children, much sold, cheap, by id; unknown numbers last.   *)
Weights(p) ==
  LET facts == ProductOf[p]
      Unknown(x) == IF x = NoNumber THEN 1 ELSE 0
      Known(x) == IF x = NoNumber THEN 0 ELSE x
  IN  <<IF facts.active THEN 0 ELSE 1, IF facts.children = <<>> THEN 0 ELSE 1,
        Unknown(facts.sold), -Known(facts.sold), Unknown(facts.price), Known(facts.price), facts.number>>

Before(p, q) ==
  \E i \in DOMAIN Weights(p) : /\ Weights(p)[i] < Weights(q)[i]
                               /\ \A j \in 1 .. i - 1 : Weights(p)[j] = Weights(q)[j]

ChooseChild ==
  /\ walk.pc = "children" /\ tree.queue = <<>>
  /\ IF tree.winners = {}
     THEN /\ tree' = [tree EXCEPT !.end = "none"]
          /\ walk' = [walk EXCEPT !.pc = "items"] /\ UNCHANGED <<found, hits>>
     ELSE LET best == CHOOSE p \in tree.winners : \A q \in tree.winners \ {p} : Before(p, q)
          IN  /\ tree' = [tree EXCEPT !.choice = best, !.end = "best"]
              /\ Resolve("ITEM", ProductOf[best].winner)
  /\ UNCHANGED offered

(* The offers of the product, without those of another site, used or without  *)
(* a valid price; those whose summary is enough to list the product's page.   *)
Summaries(p) == {i \in ItemsOf[p] : ItemFacts[i].summary # "bad"}
Selectable(items) == {i \in items : ItemFacts[i].summary = "good"}

(* The page: that of the API if it may be trusted, or one made from the id.   *)
ByPage(p, items) ==
  /\ Selectable(items) # {} /\ ProductOf[p].page # NoId
  /\ ProductOf[p].page = "CANONICAL_CATALOG_PDP" \/ items = {}

(* An active product with a title, a picture and a price may be listed.       *)
Listable(p) == ProductOf[p].listable

(* The items offered for the product: the product's own page if it has one    *)
(* and may be listed, else its best item.                                     *)
ReadProductItems ==
  /\ walk.pc = "items"
  /\ LET p == walk.now.id
     IN  \E reply \in Replies, known \in Detailed(Summaries(p)) :
           LET usable == Usable(known)
               byPage == ByPage(p, usable)
           IN  CASE reply = "answered" /\ byPage /\ Listable(p) -> Resolve("CATALOG_PRODUCT", p)
                 [] reply = "answered" /\ ~byPage /\ usable # {} -> Resolve("ITEM", Best(usable))
                 [] OTHER -> walk' = Skipped(reply) /\ UNCHANGED <<found, hits>>
  /\ UNCHANGED <<tree, offered>>

-----------------------------------------------------------------------------
(* The items' details, and one candidate per product. Of two kinds that stand *)
(* for the same item, the one found later gives place and categories.         *)

Pages == {n \in DOMAIN found : found[n].kind = "CATALOG_PRODUCT"}
Source(i) == Max({n \in DOMAIN found \ Pages : found[n].id = i})
Offer(n) == [id |-> found[n].id, position |-> found[n].position, origins |-> found[n].origins]

(* Links and ingestion, which follow, may make the outcome PARTIAL too.       *)
RunOutcomes ==
  {"PARTIAL"} \cup (IF walk.errors + walk.unresolved > 0 THEN {} ELSE {"SUCCEEDED"})

(* A request for details that fails ends the run; single items may be unknown *)
(* or have no price. Candidates outside the price range or the discount are   *)
(* dropped.                                                                   *)
FetchItems ==
  /\ walk.pc = "category" /\ walk.left = <<>>
  /\ LET items == {found[n].id : n \in DOMAIN found \ Pages}
     IN  \/ /\ items # {} /\ walk.spare > 0
            /\ walk' = [walk EXCEPT !.pc = "done", !.spare = @ - 1, !.outcome = "FAILED"]
            /\ UNCHANGED offered
         \/ \E known \in SUBSET items :
              \E suited \in SUBSET (Pages \cup {Source(i) : i \in known}), outcome \in RunOutcomes :
                /\ Cardinality(items \ known) <= walk.spare
                /\ offered' = {Offer(n) : n \in suited}
                /\ walk' = [walk EXCEPT !.pc = "done", !.outcome = outcome]
  /\ UNCHANGED <<tree, found, hits>>

CatalogNext ==
  \/ ReadCategory \/ ReadHighlights \/ TakeHighlight \/ ResolveItem \/ ResolveUserProduct
  \/ LoadProduct \/ VisitChild \/ ChooseChild \/ ReadProductItems \/ FetchItems

CatalogSpec == CatalogInit /\ [][CatalogNext]_catalogVars
-----------------------------------------------------------------------------
CatalogTypeOK ==
  /\ walk.pc \in {"category", "highlights", "highlight", "resolve", "children", "items", "done"}
  /\ walk.outcome \in {"RUNNING", "SUCCEEDED", "PARTIAL", "FAILED"}
  /\ walk.pc = "done" <=> walk.outcome # "RUNNING"
  /\ tree.visited \cup tree.winners \subseteq Products /\ tree.winners \subseteq tree.visited
  /\ \A n \in DOMAIN found : found[n].kind \in {"ITEM", "USER_PRODUCT", "CATALOG_PRODUCT"}
  /\ \A h \in hits : \E n \in DOMAIN found : found[n].kind = h.kind /\ found[n].id = h.id

(* The ways of a search: from the root down through children of answered      *)
(* products, of at most MaxDepth steps; and the products they lead to.        *)
Paths ==
  LET Above(path, i) == IF i = 1 THEN tree.root ELSE path[i - 1]
  IN  {path \in UNION {[1 .. n -> Products] : n \in 1 .. MaxDepth} :
         \A i \in DOMAIN path :
           /\ Above(path, i) \in tree.answered
           /\ \E k \in DOMAIN ProductOf[Above(path, i)].children :
                path[i] = ProductOf[Above(path, i)].children[k]}

Reach == {path[Len(path)] : path \in Paths}

(* A search that was not too large has asked for every product within its     *)
(* depth, however the tree branches and joins and whichever children fail, and*)
(* its choice is the best winner among them (resolveProductChildren).         *)
ChildChoiceIsBest ==
  tree.end \in {"best", "none"} =>
    LET winners == {p \in Reach \cap tree.answered : ProductOf[p].winner # NoId}
    IN  /\ Reach \subseteq tree.visited
        /\ tree.end = "none" <=> winners = {}
        /\ tree.end = "best" => /\ tree.choice \in winners
                                /\ \A p \in winners : ~Before(p, tree.choice)

(* What is offered has the best place and all the categories of the           *)
(* highlights that led to it, and is offered once; except an item that a      *)
(* user product and another highlight both led to.                            *)
OfferedWithBestPlace ==
  \A o \in offered :
    LET led == {h \in hits : h.id = o.id}
    IN  /\ \A q \in offered : q.id = o.id => q = o
        /\ led # {}
        /\ Cardinality({h.kind : h \in led}) = 1 =>
             /\ o.origins = {h.category : h \in led}
             /\ \E h \in led : h.position = o.position
             /\ \A h \in led : h.position >= o.position

(* What a discovery finds is the best of what it was told.                    *)
DiscoveryFindsTheBest == ChildChoiceIsBest /\ OfferedWithBestPlace
=============================================================================
