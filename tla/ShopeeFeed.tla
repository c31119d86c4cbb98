------------------------------ MODULE ShopeeFeed -------------------------------
(* What a Shopee discovery reads and what it chooses (shopee-affiliate:       *)
(* remote-discovery, discovery, enrichment, open-api, and the import of files *)
(* in operational). The Open API's feeds are read page by page into bounded   *)
(* pools, forgetting what does not fit; files are read whole, once to choose  *)
(* and once more for the facts of what was chosen. The catalogue may change   *)
(* while it is read. Locks, runs and the import's rows are in ShopeeSchedule  *)
(* and OfferVersions.                                                         *)
EXTENDS Naturals, Sequences, FiniteSets, FiniteSetsExt, SequencesExt

CONSTANTS FeedSettings,      \* [kind, editions, references, pageSize, maxPages, maxItems, enriched]
          FeedListing,       \* the feeds the Open API lists: [id, reference, date, full]
          FeedRules,         \* the categories: [category1, category2, priority, minimum, maximum, enabled]
          RecentItems,       \* chosen in a recent session
          MinDiscount, MaxPrice,
          PoolFloor, PoolCap,  \* 20 and CANDIDATE_POOL_LIMIT = 100 in the code
          MaxChosen,         \* maxTotal of a session
          MaxPerShop, ShortList, \* maxPerShopPerSession, enrichmentMaxItems
          Commissions,       \* what the enrichment may answer
          Nothing            \* a value that is absent; an unreadable row

FeedCategories == DOMAIN FeedRules

ASSUME FeedAssumption ==
  /\ {MinDiscount, MaxPrice, PoolFloor, PoolCap, MaxChosen, MaxPerShop, ShortList} \subseteq Nat
  /\ PoolFloor > 0 /\ PoolCap > 0 /\ MaxChosen > 0 /\ MaxPerShop > 0 /\ Commissions \subseteq Nat
  /\ \A s \in FeedSettings : /\ s.kind \in {"remote", "file"} /\ s.editions # <<>>
                             /\ s.pageSize > 0 /\ s.maxPages > 0 /\ s.maxItems > 0

VARIABLES feedRun,   \* where the discovery is and what it has counted
          shelf,     \* [pools, kept, seen]: candidates, their products, items met
          rowsTaken,     \* rows that were read, used by no step
          edition    \* which edition of the catalogue is served, and from which it was read

feedVars == <<feedRun, shelf, rowsTaken, edition>>

EmptyShelf == [pools |-> [c \in FeedCategories |-> {}], kept |-> <<>>, seen |-> {}]

FeedInit ==
  /\ \E s \in FeedSettings :
       feedRun = [pc |-> IF s.kind = "remote" THEN "list" ELSE "preview", set |-> s,
                  feeds |-> <<>>, feed |-> 1, offset |-> 0, attempt |-> 1, pages |-> 0, items |-> 0,
                  error |-> FALSE, limited |-> FALSE, chosen |-> <<>>, winners |-> <<>>]
  /\ shelf = EmptyShelf /\ rowsTaken = <<>>
  /\ edition = [served |-> 1, first |-> 1]

-----------------------------------------------------------------------------
(* Rows of one item are merged: the more complete row counts, then the source *)
(* and the text; what it lacks comes from the other.                          *)
Completeness(p) ==
  Cardinality(p.extra) + Cardinality({f \in {"discount", "category2", "shop"} : p[f] # Nothing})

ComesFirst(left, right) ==
  CASE Completeness(left) # Completeness(right) -> Completeness(left) > Completeness(right)
    [] Completeness(left) = Completeness(right) /\ left.source # right.source -> left.source > right.source
    [] OTHER -> left.text <= right.text

Blended(left, right) ==
  LET primary == IF ComesFirst(left, right) THEN left ELSE right
      other == IF ComesFirst(left, right) THEN right ELSE left
      filled(f) == IF primary[f] = Nothing THEN other[f] ELSE primary[f]
  IN  [primary EXCEPT !.discount = filled("discount"), !.category2 = filled("category2"),
                      !.shop = filled("shop"), !.extra = @ \cup other.extra]

(* The first enabled category that matches, 0 if none does: first in the       *)
(* catalogue for a feed, and for files in the order in which categories take   *)
(* their turns.                                                               *)
TurnsBefore(a, b) ==
  \/ FeedRules[a].priority > FeedRules[b].priority
  \/ FeedRules[a].priority = FeedRules[b].priority /\ a < b

CategoryOf(p) ==
  LET matching == {c \in FeedCategories :
                     /\ FeedRules[c].enabled /\ FeedRules[c].category1 = p.category1
                     /\ FeedRules[c].category2 \in {Nothing, p.category2}}
      first(c) == \A d \in matching \ {c} :
                    IF feedRun.set.kind = "remote" THEN c < d ELSE TurnsBefore(c, d)
  IN  IF matching = {} THEN 0 ELSE CHOOSE c \in matching : first(c)

(* The filters, of which a price and a discount stand for all.                *)
Fits(p) == p.price <= MaxPrice /\ p.discount # Nothing /\ p.discount >= MinDiscount

Eligible(p) == CategoryOf(p) # 0 /\ p.item \notin RecentItems /\ Fits(p)

(* The score is computed from the product, and from its commission once that  *)
(* is known; the weights do not matter here.                                  *)
FeedScore(p, commission) ==
  2 * p.discount + Completeness(p) + (IF commission = Nothing THEN 0 ELSE commission)

RankedCandidate(p) ==
  [item |-> p.item, category |-> CategoryOf(p), shop |-> p.shop, discount |-> p.discount,
   product |-> p, score |-> FeedScore(p, Nothing)]

RanksBefore(a, b) ==
  CASE a.score # b.score -> a.score > b.score
    [] a.score = b.score /\ a.discount # b.discount -> a.discount > b.discount
    [] OTHER -> a.item < b.item

PoolSize(c) == Min({PoolCap, Max({FeedRules[c].maximum, PoolFloor})})
BestOf(pool, n) == {a \in pool : Cardinality({b \in pool : RanksBefore(b, a)}) < n}

-----------------------------------------------------------------------------
(* Mutant of Considered: a candidate stays in the pool it was in.             *)
ConsideredTwice(s, row) ==
  LET known == row.item \in DOMAIN s.kept
      p == IF known THEN Blended(s.kept[row.item], row) ELSE row
      c == CategoryOf(p)
      now == [s EXCEPT !.seen = @ \cup {row.item}]
      full == {a \in now.pools[c] : a.item # row.item} \cup {RankedCandidate(p)}
      best == BestOf(full, PoolSize(c))
      held == (DOMAIN s.kept \ {a.item : a \in full \ best}) \cup {a.item : a \in best}
  IN  IF (row.item \in s.seen /\ ~known) \/ ~Eligible(p) THEN now
      ELSE [now EXCEPT !.pools[c] = best,
                       !.kept = [i \in held |-> IF i = row.item THEN p ELSE s.kept[i]]]

(* consider: a row is merged into the product that is kept of its item; an    *)
(* item that was met and is not kept any more is passed over; what no longer  *)
(* fits changes nothing; else the candidate goes into the pool of its         *)
(* category, and what the pool cannot hold is forgotten.                      *)
Considered(s, row) ==
  LET known == row.item \in DOMAIN s.kept
      p == IF known THEN Blended(s.kept[row.item], row) ELSE row
      now == [s EXCEPT !.seen = @ \cup {row.item}]
      others == [c \in FeedCategories |-> {a \in now.pools[c] : a.item # row.item}]
      full == others[CategoryOf(p)] \cup {RankedCandidate(p)}
      best == BestOf(full, PoolSize(CategoryOf(p)))
      held == (DOMAIN s.kept \cup {row.item}) \ {a.item : a \in full \ best}
  IN  IF (row.item \in s.seen /\ ~known) \/ ~Eligible(p) THEN now
      ELSE [now EXCEPT !.pools = [others EXCEPT ![CategoryOf(p)] = best],
                       !.kept = [i \in held |-> IF i = row.item THEN p ELSE s.kept[i]]]

Readable(rows) == SelectSeq(rows, LAMBDA row : row # Nothing)
ConsiderAll(rows) == FoldLeft(Considered, shelf, Readable(rows))

(* Files: an item's rows are merged in their order.                           *)
ProductsOf(rows) ==
  LET merge(products, row) ==
        [i \in DOMAIN products \cup {row.item} |->
           CASE i # row.item -> products[i]
             [] i = row.item /\ i \in DOMAIN products -> Blended(products[i], row)
             [] OTHER -> row]
  IN  FoldLeft(merge, <<>>, Readable(rows))

(* compactProduct: the preview merges and ranks the rows without their        *)
(* description, which counts for how complete a row is.                       *)
Compact(p) == [p EXCEPT !.extra = @ \ {"description"}]

PreviewedProducts(rows) ==
  ProductsOf([i \in DOMAIN Readable(rows) |-> Compact(Readable(rows)[i])])

PoolsOf(products) ==
  LET candidates == {RankedCandidate(products[i]) : i \in {j \in DOMAIN products : Eligible(products[j])}}
  IN  [c \in FeedCategories |-> BestOf({a \in candidates : a.category = c}, PoolSize(c))]

-----------------------------------------------------------------------------
(* The choice: categories take turns up to their minimum and, if every one    *)
(* has it, up to their maximum; a shop that has enough is passed over.        *)
Quota(c) ==
  LET maximum == Max({1, Min({10, FeedRules[c].maximum})})
  IN  [maximum |-> maximum, minimum |-> Min({2, FeedRules[c].minimum, maximum})]

FeedOrder == SetToSortSeq({c \in FeedCategories : FeedRules[c].enabled}, TurnsBefore)

CountIn(chosen, c) == Cardinality({i \in DOMAIN chosen : chosen[i].category = c})
ShopIsFull(chosen, shop) ==
  shop # Nothing /\ Cardinality({i \in DOMAIN chosen : chosen[i].shop = shop}) >= MaxPerShop

(* A category's turn: the best candidate left whose shop is not full.         *)
TakeOne(pools, total, limit, chosen, c) ==
  LET left == {a \in pools[c] : (\A i \in DOMAIN chosen : chosen[i].item # a.item)
                                /\ ~ShopIsFull(chosen, a.shop)}
  IN  IF Len(chosen) >= total \/ CountIn(chosen, c) >= Quota(c)[limit] \/ left = {} THEN chosen
      ELSE Append(chosen, CHOOSE a \in left : \A b \in left \ {a} : RanksBefore(a, b))

RECURSIVE FillUp(_, _, _, _)
FillUp(pools, total, limit, chosen) ==
  LET next == FoldLeft(LAMBDA s, c : TakeOne(pools, total, limit, s, c), chosen, FeedOrder)
  IN  IF next = chosen THEN chosen ELSE FillUp(pools, total, limit, next)

MinimumsMet(chosen) == \A c \in ToSet(FeedOrder) : CountIn(chosen, c) >= Quota(c).minimum

Chosen(pools, total) ==
  LET first == FillUp(pools, total, "minimum", <<>>)
  IN  IF MinimumsMet(first) THEN FillUp(pools, total, "maximum", first) ELSE first

-----------------------------------------------------------------------------
(* The remote discovery.                                                      *)

Served == feedRun.set.editions[edition.served]
FeedGoesTo(pc) == feedRun' = [feedRun EXCEPT !.pc = pc]

(* The current feed of a reference: the FULL one of the latest date.          *)
CurrentFeeds(reference) ==
  LET full == {f \in FeedListing : f.reference = reference /\ f.full}
  IN  {f.id : f \in {g \in full : \A h \in full \ {g} :
                       g.date > h.date \/ (g.date = h.date /\ g.id > h.id)}}

(* The list may fail, and a reference without a feed ends the discovery.      *)
ListFeeds ==
  /\ feedRun.pc = "list"
  /\ LET references == feedRun.set.references
     IN  \/ FeedGoesTo("failed") /\ UNCHANGED edition
         \/ /\ \A i \in DOMAIN references : CurrentFeeds(references[i]) # {}
            /\ feedRun' = [feedRun EXCEPT !.pc = "page",
                 !.feeds = [i \in DOMAIN references |-> CHOOSE f \in CurrentFeeds(references[i]) : TRUE]]
            /\ edition' = [edition EXCEPT !.first = edition.served]
  /\ UNCHANGED <<shelf, rowsTaken>>

AtLimit == feedRun.pages >= feedRun.set.maxPages \/ feedRun.items >= feedRun.set.maxItems

StopAtLimit ==
  /\ feedRun.pc = "page" /\ AtLimit
  /\ feedRun' = [feedRun EXCEPT !.pc = "choose", !.limited = TRUE]
  /\ UNCHANGED <<shelf, rowsTaken, edition>>

(* How a request for a page fails: with an error that may pass (which a rate   *)
(* limit, here or there, does not), with another one, a page that contradicts  *)
(* the request or has changes instead of rows, or with a page of another form. *)
FeedFailures == {"passing", "final", "unreadable"}

(* A second try is made for an error that may pass; what cannot be read ends   *)
(* the discovery without a choice.                                             *)
PageFails ==
  /\ feedRun.pc = "page" /\ ~AtLimit
  /\ \E failure \in FeedFailures :
       feedRun' = CASE failure = "passing" /\ feedRun.attempt = 1 -> [feedRun EXCEPT !.attempt = 2]
                    [] failure = "unreadable" -> [feedRun EXCEPT !.pc = "failed"]
                    [] OTHER -> [feedRun EXCEPT !.pc = "choose", !.error = TRUE]
  /\ UNCHANGED <<shelf, rowsTaken, edition>>

(* A page of n rows, at most total in all: the feed goes on behind it, is     *)
(* over, or is not consistent. hasMore on the last full page is not believed. *)
AfterPage(n, more, total) ==
  CASE feedRun.offset + n = total /\ (n > 0 \/ ~more) -> "over"
    [] feedRun.offset + n < total /\ more /\ n > 0 -> "on"
    [] OTHER -> "error"

ReceivePage ==
  /\ feedRun.pc = "page" /\ ~AtLimit
  /\ LET rows == Served[feedRun.feeds[feedRun.feed]]
     IN  \E n \in 0 .. Min({feedRun.set.pageSize, Max({Len(rows), feedRun.offset}) - feedRun.offset}),
            more \in BOOLEAN :
           LET page == SubSeq(rows, feedRun.offset + 1, feedRun.offset + n)
               some == SubSeq(page, 1, Min({n, feedRun.set.maxItems - feedRun.items}))
               after == AfterPage(n, more, Len(rows))
               cut == Len(some) < n
               last == feedRun.feed = Len(feedRun.feeds)
           IN  IF feedRun.offset > Len(rows)
               THEN /\ feedRun' = [feedRun EXCEPT !.pc = "choose", !.error = TRUE]
                    /\ UNCHANGED <<shelf, rowsTaken>>
               ELSE /\ shelf' = ConsiderAll(some)
                    /\ rowsTaken' = rowsTaken \o some
                    /\ feedRun' =
                         [feedRun EXCEPT
                            !.pages = @ + 1, !.items = @ + Len(some), !.attempt = 1,
                            !.limited = cut, !.error = ~cut /\ after = "error",
                            !.feed = IF ~cut /\ after = "over" /\ ~last THEN @ + 1 ELSE @,
                            !.offset = IF after = "on" THEN @ + n ELSE 0,
                            !.pc = IF cut \/ after = "error" \/ (after = "over" /\ last)
                                   THEN "choose" ELSE "page"]
  /\ UNCHANGED edition

(* The short list is looked up: each item's commission, or nothing when the   *)
(* item has failed or an earlier failure concerns all. The choice is then     *)
(* made again, from the short list only.                                      *)
Enriched(chosen, answers) ==
  [c \in FeedCategories |->
     {[chosen[i] EXCEPT !.score = FeedScore(chosen[i].product, answers[i])] :
        i \in {j \in DOMAIN chosen : chosen[j].category = c}}]

Whole == ~feedRun.limited /\ ~feedRun.error

ChooseProducts ==
  /\ feedRun.pc = "choose"
  /\ LET short == Chosen(shelf.pools, ShortList)
     IN  \E answers \in [DOMAIN short -> Commissions \cup {Nothing}] :
           LET chosen == IF feedRun.set.enriched
                         THEN Chosen(Enriched(short, answers), Min({12, MaxChosen}))
                         ELSE Chosen(shelf.pools, Min({12, MaxChosen}))
           IN  feedRun' = [feedRun EXCEPT !.pc = IF Whole THEN "import" ELSE "partial",
                                          !.chosen = chosen]
  /\ UNCHANGED <<shelf, rowsTaken, edition>>

(* What is imported: the product kept of each chosen item.                    *)
KeptProducts ==
  LET kept == SelectSeq(feedRun.chosen, LAMBDA a : a.item \in DOMAIN shelf.kept)
  IN  [i \in DOMAIN kept |-> shelf.kept[kept[i].item]]

ImportFeed ==
  /\ feedRun.pc = "import"
  /\ feedRun' = [feedRun EXCEPT !.pc = "imported", !.winners = KeptProducts]
  /\ UNCHANGED <<shelf, rowsTaken, edition>>

-----------------------------------------------------------------------------
(* The import of files.                                                       *)

FileRowsNow == FlattenSeq([i \in DOMAIN feedRun.set.references |-> Served[feedRun.set.references[i]]])

FileChoice == Chosen(PoolsOf(PreviewedProducts(FileRowsNow)), Min({12, MaxChosen}))

(* The first reading chooses; a file that cannot be read ends the import.     *)
PreviewFiles ==
  /\ feedRun.pc = "preview"
  /\ \/ /\ feedRun' = [feedRun EXCEPT !.pc = "collect",
                         !.chosen = FileChoice]
        /\ rowsTaken' = FileRowsNow
        /\ edition' = [edition EXCEPT !.first = edition.served]
     \/ FeedGoesTo("failed") /\ UNCHANGED <<rowsTaken, edition>>
  /\ UNCHANGED shelf

(* The second reading takes the products of what was chosen, as the files are *)
(* now and with their descriptions, so that another row of an item may count  *)
(* first than in the preview; a chosen item that is gone is a failure.        *)
FoundProducts ==
  LET products == ProductsOf(FileRowsNow)
      found == SelectSeq(SubSeq(feedRun.chosen, 1, Min({12, Len(feedRun.chosen)})),
                         LAMBDA a : a.item \in DOMAIN products)
  IN  [i \in DOMAIN found |-> products[found[i].item]]

CollectProducts ==
  /\ feedRun.pc = "collect"
  /\ \/ feedRun' = [feedRun EXCEPT !.pc = "imported", !.winners = FoundProducts]
     \/ FeedGoesTo("failed")
  /\ UNCHANGED <<shelf, rowsTaken, edition>>

(* The catalogue is published anew, or the files are replaced.                *)
CatalogueChanges ==
  /\ feedRun.pc \notin {"failed", "partial", "imported"}
  /\ edition.served < Len(feedRun.set.editions)
  /\ edition' = [edition EXCEPT !.served = @ + 1]
  /\ UNCHANGED <<feedRun, shelf, rowsTaken>>

FeedNext ==
  \/ ListFeeds \/ StopAtLimit \/ PageFails \/ ReceivePage \/ ChooseProducts \/ ImportFeed
  \/ PreviewFiles \/ CollectProducts \/ CatalogueChanges

FeedSpec == FeedInit /\ [][FeedNext]_feedVars
-----------------------------------------------------------------------------
FeedTypeOK ==
  /\ feedRun.pc \in {"list", "page", "choose", "import", "preview", "collect",
                     "failed", "partial", "imported"}
  /\ feedRun.pages <= feedRun.set.maxPages /\ feedRun.items <= feedRun.set.maxItems
  /\ feedRun.attempt \in {1, 2} /\ feedRun.feed \in 1 .. Max({1, Len(feedRun.feeds)})
  /\ DOMAIN shelf.kept \subseteq shelf.seen

(* Every candidate is in one pool, once, and was made of the product that is  *)
(* kept of its item; nothing else is kept, and no pool is too large.          *)
PoolsMatchKept ==
  LET all == UNION {shelf.pools[c] : c \in FeedCategories}
  IN  /\ all = {RankedCandidate(shelf.kept[i]) : i \in DOMAIN shelf.kept}
      /\ \A c \in {d \in FeedCategories : shelf.pools[d] # {}} :
           /\ \A a \in shelf.pools[c] : a.category = c /\ Eligible(a.product)
           /\ Cardinality(shelf.pools[c]) <= PoolSize(c)

(* Reading page by page into pools finds what reading everything first finds, *)
(* as long as every item had one row.                                         *)
StreamFindsTheBest ==
  LET rows == Readable(rowsTaken)
  IN  feedRun.set.kind = "remote" /\ Cardinality(shelf.seen) = Len(rows)
        => shelf.pools = PoolsOf(ProductsOf(rows))

(* A discovery counts as whole only if it took every row of every feed it     *)
(* selected, unless the catalogue changed under it; only then is it imported. *)
ImportIsWhole ==
  feedRun.set.kind = "remote" /\ feedRun.pc \in {"import", "imported"} =>
    /\ Whole
    /\ edition.first = edition.served =>
         rowsTaken = FlattenSeq([i \in DOMAIN feedRun.feeds |-> Served[feedRun.feeds[i]]])

(* The rows of an item are described, all of them or none.                    *)
DescribedAlike(item) ==
  LET rows == {row \in ToSet(Readable(rowsTaken)) : row.item = item}
  IN  \A row, other \in rows :
        "description" \in row.extra => "description" \in other.extra

(* What is imported are the products that were chosen, with the facts they    *)
(* were chosen for, unless the files were replaced in between or only some of *)
(* the item's rows have a description: then the second reading may take its   *)
(* price or category from another row than the one that was ranked.           *)
ImportedAsChosen ==
  feedRun.pc = "imported" /\ (feedRun.set.kind = "remote" \/ edition.first = edition.served) =>
    /\ Len(feedRun.winners) = Len(feedRun.chosen)
    /\ \A i \in DOMAIN feedRun.winners :
         /\ feedRun.winners[i].item = feedRun.chosen[i].item
         /\ DescribedAlike(feedRun.winners[i].item) =>
              /\ Compact(feedRun.winners[i]) = feedRun.chosen[i].product
              /\ Eligible(feedRun.winners[i])

(* No item twice, no session, category or shop above its limit; a category is *)
(* short of its quota only if all that is left is of shops that have enough.  *)
ChoiceIsFair ==
  LET chosen == feedRun.chosen
      pools == IF feedRun.set.kind = "remote" THEN shelf.pools
               ELSE PoolsOf(PreviewedProducts(rowsTaken))
      items == {chosen[i].item : i \in DOMAIN chosen}
      limit(c) == IF MinimumsMet(chosen) THEN Quota(c).maximum ELSE Quota(c).minimum
  IN  /\ Cardinality(items) = Len(chosen) /\ Len(chosen) <= MaxChosen
      /\ \A i \in DOMAIN chosen :
           Cardinality({j \in DOMAIN chosen : chosen[j].shop = chosen[i].shop}) <= MaxPerShop
             \/ chosen[i].shop = Nothing
      /\ \A c \in {chosen[i].category : i \in DOMAIN chosen} : CountIn(chosen, c) <= Quota(c).maximum
      /\ (feedRun.pc \in {"import", "imported", "partial", "collect"} /\ Len(chosen) < MaxChosen
            /\ ~feedRun.set.enriched) =>
           \A c \in ToSet(FeedOrder) :
             CountIn(chosen, c) < limit(c) =>
               \A a \in pools[c] : a.item \in items \/ ShopIsFull(chosen, a.shop)

(* A discovery imports what it should: the five statements above.             *)
FeedImportIsSound ==
  PoolsMatchKept /\ StreamFindsTheBest /\ ImportIsWhole /\ ImportedAsChosen /\ ChoiceIsFair
=============================================================================
