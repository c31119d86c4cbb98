----------------------------- MODULE OfferVersions -----------------------------
(* The versions of a product's offer. Every collection of a product goes      *)
(* through the ingestion transaction, which creates a version for new facts   *)
(* or updates the one that has them; around it are the jobs of Mercado Livre  *)
(* (discovery, links for pending offers, batches of links, refresh) and of    *)
(* Shopee (persisting a winner, applying a link), and the planner that        *)
(* schedules a version. Jobs run at the same time, fail and crash between any *)
(* two statements.                                                            *)
EXTENDS Naturals, Sequences, FiniteSets, SequencesExt, FiniteSetsExt

CONSTANTS Jobs,              \* jobs that run at the same time
          MeliProducts, ShopeeProducts,
          Catalogs,          \* sets of products, one is chosen at the start
          OfferPrices,       \* what the fingerprint has besides the link
          AffiliateUrls,     \* links
          PricesOf, UrlsOf,  \* prices a product may have, links generated for it
          NoLink, NoJob,
          MaxVersions        \* bound: versions of a product

ASSUME OfferAssumption ==
  /\ Catalogs \subseteq SUBSET (MeliProducts \cup ShopeeProducts)
  /\ MeliProducts \cap ShopeeProducts = {}
  /\ PricesOf \in [MeliProducts \cup ShopeeProducts -> SUBSET OfferPrices]
  /\ UrlsOf \in [MeliProducts \cup ShopeeProducts -> SUBSET AffiliateUrls]
  /\ NoLink \notin AffiliateUrls \cup OfferPrices
  /\ NoJob \notin Jobs \cup MeliProducts \cup ShopeeProducts
  /\ MaxVersions \in Nat \ {0}

VARIABLES offers,            \* [product -> Seq([price, link, status])]
          knownProducts,     \* rows of Product
          publicationsOf,    \* [product -> versions that have a publication]
          job,
          productLock,       \* row lock of the product, held to the commit
          advisoryLock,      \* pg_advisory_xact_lock of a Shopee item
          accountLock,       \* Redis: links of the Mercado Livre account
          planner            \* the version the planner has read

offerVars == <<offers, knownProducts, publicationsOf, job, productLock, advisoryLock,
               accountLock, planner>>

Pending == "READY_FOR_AFFILIATE_LINK"
Ready   == "READY_TO_PUBLISH"
OfferStatuses == {Pending, Ready, "SCHEDULED", "PUBLISHED", "REJECTED"}

NoOffer == [product |-> NoJob, version |-> 0]
IdleJob == [kind |-> "none", pc |-> "idle", product |-> NoJob, price |-> NoLink,
            link |-> NoLink, version |-> 0, last |-> 0, existed |-> FALSE,
            historical |-> FALSE, planned |-> {}, previous |-> 0]

Catalog == DOMAIN offers

OfferInit ==
  /\ \E catalog \in Catalogs :
       /\ offers = [p \in catalog |-> <<>>]
       /\ publicationsOf = [p \in catalog |-> {}]
       /\ productLock = [p \in catalog |-> NoJob]
       /\ advisoryLock = [p \in catalog |-> NoJob]
  /\ knownProducts = {}
  /\ job = [i \in Jobs |-> IdleJob]
  /\ accountLock = NoJob
  /\ planner = NoOffer

Begin(i, kind, pc, p, price, link, version) ==
  /\ job[i].pc = "idle"
  /\ job' = [job EXCEPT ![i] = [IdleJob EXCEPT
       !.kind = kind, !.pc = pc, !.product = p, !.price = price, !.link = link,
       !.version = version]]

(* Links the database knows for a product; jobs reuse one before they         *)
(* generate another.                                                          *)
KnownLinks(p) == {offers[p][v].link : v \in DOMAIN offers[p]} \ {NoLink}

LinksToUse(p) == IF KnownLinks(p) # {} THEN KnownLinks(p) ELSE UrlsOf[p]

(* reusableAffiliateUrl: of the highest version that has one. (Links are      *)
(* kept apart by attribution label; the jobs here use the same one.)          *)
Reusable(p) ==
  LET linked == {v \in DOMAIN offers[p] : offers[p][v].link # NoLink}
  IN  IF linked = {} THEN NoLink ELSE offers[p][Max(linked)].link

LatestOffer(p) == offers[p][Len(offers[p])]

(* Discovery: facts from the connector; with a link, or without one if no     *)
(* session is usable.                                                         *)
DiscoverOffer(i, p) ==
  /\ p \in MeliProducts
  /\ \E price \in PricesOf[p], link \in LinksToUse(p) \cup {NoLink} :
       Begin(i, "discover", "look", p, price, link, 0)
  /\ UNCHANGED <<offers, knownProducts, publicationsOf, productLock, advisoryLock,
                 accountLock, planner>>

(* Refresh: any offer not published, new facts, and the link it has now.      *)
SelectRefresh(i, p, v) ==
  /\ p \in MeliProducts /\ v \in DOMAIN offers[p]
  /\ offers[p][v].status # "PUBLISHED"
  /\ \E price \in PricesOf[p] : Begin(i, "refresh", "look", p, price, offers[p][v].link, 0)
  /\ UNCHANGED <<offers, knownProducts, publicationsOf, productLock, advisoryLock,
                 accountLock, planner>>

(* Links for pending offers: a pending version without a link is read ...     *)
SelectPending(i, p, v) ==
  /\ p \in MeliProducts /\ v \in DOMAIN offers[p]
  /\ offers[p][v].status = Pending /\ offers[p][v].link = NoLink
  /\ Begin(i, "link", "current", p, offers[p][v].price, NoLink, v)
  /\ UNCHANGED <<offers, knownProducts, publicationsOf, productLock, advisoryLock,
                 accountLock, planner>>

Goes(i, pc) == job' = [job EXCEPT ![i].pc = pc]

(* ... retired if a higher version exists by now (unless it has changed) ...  *)
CheckCurrent(i) ==
  LET p == job[i].product
      v == job[i].version
  IN  /\ job[i].pc = "current"
      /\ IF v = Len(offers[p])
         THEN Goes(i, "account") /\ UNCHANGED offers
         ELSE /\ offers' = IF offers[p][v].status = Pending
                           THEN [offers EXCEPT ![p][v].status = "REJECTED"] ELSE offers
              /\ job' = [job EXCEPT ![i] = IdleJob]
      /\ UNCHANGED <<knownProducts, publicationsOf, productLock, advisoryLock, accountLock,
                     planner>>

(* ... and linked under the account's lock, which a heartbeat extends.        *)
LockAccount(i) ==
  /\ job[i].pc = "account"
  /\ IF accountLock = NoJob
     THEN accountLock' = i /\ Goes(i, "enrich")
     ELSE job' = [job EXCEPT ![i] = IdleJob] /\ UNCHANGED accountLock
  /\ UNCHANGED <<offers, knownProducts, publicationsOf, productLock, advisoryLock, planner>>

Enrich(i) ==
  /\ job[i].pc = "enrich"
  /\ \E link \in LinksToUse(job[i].product) \cup {NoLink} :
       job' = [job EXCEPT ![i].link = link, ![i].pc = "look"]
  /\ UNCHANGED <<offers, knownProducts, publicationsOf, productLock, advisoryLock,
                 accountLock, planner>>

(* A batch of links that the operator found, one row of it: the preview skips *)
(* the row if the last version has this link; the product may also be new.    *)
PreviewRow(i, p) ==
  /\ p \in MeliProducts
  /\ \E link \in UrlsOf[p] :
       /\ offers[p] # <<>> => LatestOffer(p).link # link
       /\ Begin(i, "batch", "row", p, NoLink, link, 0)
  /\ UNCHANGED <<offers, knownProducts, publicationsOf, productLock, advisoryLock,
                 accountLock, planner>>

(* Later, when its turn comes, the last version is read again for its facts,  *)
(* or the connector is asked.                                                 *)
ReadRow(i) ==
  LET p == job[i].product
  IN  /\ job[i].pc = "row"
      /\ \E price \in IF offers[p] = <<>> THEN PricesOf[p] ELSE {LatestOffer(p).price} :
           job' = [job EXCEPT ![i].price = price, ![i].previous = Len(offers[p]),
                              ![i].pc = "look"]
      /\ UNCHANGED <<offers, knownProducts, publicationsOf, productLock, advisoryLock,
                     accountLock, planner>>

(* Shopee: a winner is persisted with the link of an earlier version, if any. *)
PersistWinner(i, p) ==
  /\ p \in ShopeeProducts
  /\ \E price \in PricesOf[p] : Begin(i, "winner", "advisory", p, price, NoLink, 0)
  /\ UNCHANGED <<offers, knownProducts, publicationsOf, productLock, advisoryLock,
                 accountLock, planner>>

(* Shopee: a link for the highest version, found or generated outside the     *)
(* transaction that applies it.                                               *)
RequestLink(i, p) ==
  /\ p \in ShopeeProducts /\ offers[p] # <<>>
  /\ LatestOffer(p).status = Pending
  /\ Begin(i, "apply", "resolve", p, NoLink, NoLink, 0)
  /\ UNCHANGED <<offers, knownProducts, publicationsOf, productLock, advisoryLock,
                 accountLock, planner>>

ResolveLink(i) ==
  LET known == Reusable(job[i].product)
      urls  == IF known = NoLink THEN UrlsOf[job[i].product] ELSE {known}
  IN  /\ job[i].pc = "resolve"
      /\ \E url \in urls :
           job' = [job EXCEPT ![i].link = url, ![i].pc = "advisory"]
      /\ UNCHANGED <<offers, knownProducts, publicationsOf, productLock, advisoryLock,
                     accountLock, planner>>

(* Mutant of TakeAdvisory: nothing is read again under the lock.              *)
TakeAdvisoryOnly(i) ==
  LET p == job[i].product
  IN  /\ job[i].pc = "advisory" /\ advisoryLock[p] = NoJob
      /\ advisoryLock' = [advisoryLock EXCEPT ![p] = i]
      /\ job' = [job EXCEPT ![i] = [@ EXCEPT !.pc = "look",
           !.price = IF @ = NoLink THEN LatestOffer(p).price ELSE @]]
      /\ UNCHANGED <<offers, knownProducts, publicationsOf, productLock, accountLock, planner>>

(* Under the advisory lock the state is read again: a link that was applied   *)
(* meanwhile is used instead of the job's own, and the offer must still be    *)
(* pending.                                                                   *)
TakeAdvisory(i) ==
  LET p     == job[i].product
      known == Reusable(p)
  IN  /\ job[i].pc = "advisory" /\ advisoryLock[p] = NoJob
      /\ IF job[i].kind = "winner" \/ LatestOffer(p).status = Pending
         THEN /\ advisoryLock' = [advisoryLock EXCEPT ![p] = i]
              /\ job' = [job EXCEPT
                   ![i].pc    = "look",
                   ![i].price = IF @ = NoLink THEN LatestOffer(p).price ELSE @,
                   ![i].link  = IF known = NoLink THEN @ ELSE known]
         ELSE job' = [job EXCEPT ![i] = IdleJob] /\ UNCHANGED advisoryLock
      /\ UNCHANGED <<offers, knownProducts, publicationsOf, productLock, accountLock, planner>>

(* ingestOfferInTransaction. The upsert of the product looks for the row ...  *)
LookForProduct(i) ==
  /\ job[i].pc = "look"
  /\ job' = [job EXCEPT ![i].existed = job[i].product \in knownProducts, ![i].pc = "product"]
  /\ UNCHANGED <<offers, knownProducts, publicationsOf, productLock, advisoryLock,
                 accountLock, planner>>

Unlocked(lock, i) == [p \in Catalog |-> IF lock[p] = i THEN NoJob ELSE lock[p]]

(* The end of a transaction, or of the job, gives back what it holds.         *)
EndsTransaction(i) == /\ productLock' = Unlocked(productLock, i)
                      /\ advisoryLock' = Unlocked(advisoryLock, i)

EndsJob(i) == /\ job' = [job EXCEPT ![i] = IdleJob]
              /\ accountLock' = IF accountLock = i THEN NoJob ELSE accountLock

(* Mutant of UpsertProduct: the product is read, and its row is not held.     *)
ReadProduct(i) ==
  /\ job[i].pc = "product"
  /\ Goes(i, "find")
  /\ UNCHANGED <<offers, knownProducts, publicationsOf, productLock, advisoryLock,
                 accountLock, planner>>

(* ... and inserts or updates it; either holds the row until the end of the   *)
(* transaction. An insert that finds the row is a unique conflict: ingestOffer*)
(* starts again, the Shopee transactions fail.                                *)
UpsertProduct(i) ==
  LET p == job[i].product
  IN  /\ job[i].pc = "product" /\ productLock[p] = NoJob
      /\ IF job[i].existed \/ p \notin knownProducts
         THEN /\ productLock' = [productLock EXCEPT ![p] = i]
              /\ job' = [job EXCEPT ![i].existed = FALSE, ![i].pc = "find"]
              /\ UNCHANGED <<advisoryLock, accountLock>>
         ELSE IF p \in MeliProducts
              THEN Goes(i, "look") /\ UNCHANGED <<productLock, advisoryLock, accountLock>>
              ELSE EndsTransaction(i) /\ EndsJob(i)
      /\ UNCHANGED <<offers, knownProducts, publicationsOf, planner>>

(* Mutant of HasFacts: the link is not part of the fingerprint.               *)
HasPrice(offer, price, link) == offer.price = price

HasFacts(offer, price, link) == offer.price = price /\ offer.link = link

(* Mutant of IsHistorical: only a delivered version is.                       *)
IsDelivered(p, v) == offers[p][v].status = "PUBLISHED"

IsHistorical(p, v) == offers[p][v].status = "PUBLISHED" \/ v \in publicationsOf[p]

(* The version with the same fingerprint, or the number of the last one.      *)
FindOffer(i) ==
  LET p     == job[i].product
      found == {v \in DOMAIN offers[p] : HasFacts(offers[p][v], job[i].price, job[i].link)}
      v     == IF found = {} THEN 0 ELSE Min(found)
  IN  /\ job[i].pc = "find"
      /\ job' = [job EXCEPT ![i] = [@ EXCEPT
           !.version = v, !.last = Len(offers[p]), !.planned = publicationsOf[p], !.pc = "write",
           !.historical = v # 0 /\ IsHistorical(p, v)]]
      /\ UNCHANGED <<offers, knownProducts, publicationsOf, productLock, advisoryLock,
                     accountLock, planner>>

(* What the discount, the link, duplicates, the facts and the score decide.   *)
StatusFor(link, accepted) ==
  IF ~ accepted THEN "REJECTED" ELSE IF link = NoLink THEN Pending ELSE Ready

(* The version that the transaction creates or brings up to date, and whether *)
(* the job then retires others: a ready one the pending ones, a batch row the *)
(* version it read.                                                           *)
WrittenVersion(i) == IF job[i].version = 0 THEN job[i].last + 1 ELSE job[i].version

Replaces(i, status) ==
  \/ job[i].kind \in {"discover", "link"} /\ status = Ready
  \/ job[i].kind = "batch" /\ job[i].previous \notin {0, WrittenVersion(i)}

(* The writes and the commit: a new version, a version brought up to date, or *)
(* a historical one left as it is. Applying a Shopee link that does not end   *)
(* ready is rolled back.                                                      *)
CommitOffer(i) ==
  LET p == job[i].product
      v == job[i].version
  IN  /\ job[i].pc = "write"
      /\ v # 0 \/ job[i].last < MaxVersions
      /\ \E accepted \in BOOLEAN :
           LET status == IF job[i].historical THEN offers[p][v].status
                         ELSE StatusFor(job[i].link, accepted)
               saved  == job[i].kind # "apply" \/ status = Ready
           IN  /\ offers' =
                    IF ~ saved THEN offers
                    ELSE IF v = 0
                    THEN [offers EXCEPT ![p] = Append(@,
                           [price |-> job[i].price, link |-> job[i].link, status |-> status])]
                    ELSE [offers EXCEPT ![p][v].status = status]
               /\ knownProducts' = IF saved THEN knownProducts \cup {p} ELSE knownProducts
               /\ EndsTransaction(i)
               /\ IF Replaces(i, status)
                  THEN /\ job' = [job EXCEPT ![i] = [IdleJob EXCEPT
                            !.kind = job[i].kind, !.product = p, !.pc = "retire",
                            !.version = WrittenVersion(i), !.previous = job[i].previous]]
                       /\ UNCHANGED accountLock
                  ELSE EndsJob(i)
      /\ UNCHANGED <<publicationsOf, planner>>

Replaced(i, v) == IF job[i].kind = "batch" THEN v = job[i].previous ELSE v # job[i].version

(* retireReplacedPendingOfferVersions, or retirePendingVersion of the batch, a*)
(* statement of its own.                                                      *)
RetirePending(i) ==
  LET p == job[i].product
  IN  /\ job[i].pc = "retire"
      /\ offers' = [offers EXCEPT ![p] = [v \in DOMAIN offers[p] |->
           IF /\ Replaced(i, v)
              /\ offers[p][v].status = Pending /\ offers[p][v].link = NoLink
           THEN [offers[p][v] EXCEPT !.status = "REJECTED"] ELSE offers[p][v]]]
      /\ EndsJob(i)
      /\ UNCHANGED <<knownProducts, publicationsOf, productLock, advisoryLock, planner>>

(* An error rolls back and the finally releases; a crash leaves the account's *)
(* lock to its TTL.                                                           *)
JobFails(i) ==
  /\ job[i].pc # "idle"
  /\ EndsTransaction(i)
  /\ \/ EndsJob(i)
     \/ job' = [job EXCEPT ![i] = IdleJob] /\ UNCHANGED accountLock
  /\ UNCHANGED <<offers, knownProducts, publicationsOf, planner>>

AccountLockLapses ==
  /\ accountLock # NoJob
  /\ job[accountLock].kind # "link"
  /\ accountLock' = NoJob
  /\ UNCHANGED <<offers, knownProducts, publicationsOf, job, productLock, advisoryLock,
                 planner>>

(* The planner reads a ready version, and later writes a publication and the  *)
(* status without reading again; a delivery makes it PUBLISHED.               *)
PlanSelect(p, v) ==
  /\ planner = NoOffer /\ v \in DOMAIN offers[p]
  /\ offers[p][v].status = Ready
  /\ planner' = [product |-> p, version |-> v]
  /\ UNCHANGED <<offers, knownProducts, publicationsOf, job, productLock, advisoryLock,
                 accountLock>>

PlanPlace ==
  /\ planner # NoOffer
  /\ publicationsOf' = [publicationsOf EXCEPT ![planner.product] = @ \cup {planner.version}]
  /\ offers' = [offers EXCEPT ![planner.product][planner.version].status = "SCHEDULED"]
  /\ planner' = NoOffer
  /\ UNCHANGED <<knownProducts, job, productLock, advisoryLock, accountLock>>

DeliverOffer(p, v) ==
  /\ v \in publicationsOf[p] /\ offers[p][v].status # "PUBLISHED"
  /\ offers' = [offers EXCEPT ![p][v].status = "PUBLISHED"]
  /\ UNCHANGED <<knownProducts, publicationsOf, job, productLock, advisoryLock,
                 accountLock, planner>>

OfferNext ==
  \/ \E i \in Jobs :
       \/ \E p \in Catalog :
            \/ DiscoverOffer(i, p) \/ PreviewRow(i, p) \/ PersistWinner(i, p) \/ RequestLink(i, p)
            \/ \E v \in 1 .. MaxVersions : SelectRefresh(i, p, v) \/ SelectPending(i, p, v)
       \/ CheckCurrent(i) \/ LockAccount(i) \/ Enrich(i) \/ ReadRow(i)
       \/ ResolveLink(i) \/ TakeAdvisory(i)
       \/ LookForProduct(i) \/ UpsertProduct(i) \/ FindOffer(i) \/ CommitOffer(i)
       \/ RetirePending(i) \/ JobFails(i)
  \/ AccountLockLapses
  \/ \E p \in Catalog, v \in 1 .. MaxVersions : PlanSelect(p, v) \/ DeliverOffer(p, v)
  \/ PlanPlace

OfferSpec == OfferInit /\ [][OfferNext]_offerVars
-----------------------------------------------------------------------------
OfferRecords == [price : OfferPrices, link : AffiliateUrls \cup {NoLink},
                 status : OfferStatuses]

OfferTypeOK ==
  /\ Catalog \in Catalogs
  /\ offers \in [Catalog -> Seq(OfferRecords)]
  /\ knownProducts \subseteq Catalog
  /\ publicationsOf \in [Catalog -> SUBSET Nat]
  /\ \A p \in Catalog : publicationsOf[p] \subseteq DOMAIN offers[p]
  /\ job \in [Jobs ->
       [kind : {"none", "discover", "refresh", "link", "batch", "winner", "apply"},
        pc : {"idle", "current", "account", "enrich", "row", "resolve", "advisory", "look",
              "product", "find", "write", "retire"},
        product : Catalog \cup {NoJob}, price : OfferPrices \cup {NoLink},
        link : AffiliateUrls \cup {NoLink}, version : Nat, last : Nat, existed : BOOLEAN,
        historical : BOOLEAN, planned : SUBSET Nat, previous : Nat]]
  /\ productLock \in [Catalog -> Jobs \cup {NoJob}]
  /\ advisoryLock \in [Catalog -> Jobs \cup {NoJob}]
  /\ accountLock \in Jobs \cup {NoJob}
  /\ planner \in [product : Catalog \cup {NoJob}, version : Nat]

(* What an ingestion looked up is still so when it writes: the version it     *)
(* creates has the next number and new facts, so that neither unique key of   *)
(* Offer refuses it (ingestion/index.ts: the row of the product is held from  *)
(* the upsert on, and every writer of versions takes it first).               *)
LookupHolds ==
  \A i \in Jobs : job[i].pc = "write" =>
    LET versions == offers[job[i].product]
    IN  /\ job[i].last = Len(versions)
        /\ job[i].version = 0 =>
             \A v \in DOMAIN versions : ~ HasFacts(versions[v], job[i].price, job[i].link)

(* An offer that may be sent has its affiliate link, whichever job made it    *)
(* ready and whatever the others did to its status meanwhile (the link is     *)
(* part of the fingerprint; validation.ts and docs: no link, no publication). *)
ReadyHasLink ==
  \A p \in Catalog, v \in 1 .. MaxVersions :
    /\ v \in DOMAIN offers[p]
    /\ offers[p][v].status \in {Ready, "SCHEDULED", "PUBLISHED"}
    => offers[p][v].link # NoLink

(* The versions of a Shopee product share one short link of a label, even     *)
(* when several jobs generate one at the same time (operational.ts: the link  *)
(* is looked up again under the advisory lock).                               *)
OneLinkPerShopeeProduct ==
  \A p \in Catalog \cap ShopeeProducts : Cardinality(KnownLinks(p)) <= 1

(* A version with a publication keeps its status from every ingestion that    *)
(* looked at it after the publication was there; the planner and an           *)
(* ingestion that was under way may cross (ingestion/index.ts:                *)
(* isHistoricalOffer is read before the update).                              *)
HistoryIsKept ==
  [][\A p \in Catalog : \A v \in publicationsOf[p] :
       offers'[p][v].status \in {offers[p][v].status, "SCHEDULED", "PUBLISHED"}
         \/ \E i \in Jobs : /\ job[i].pc = "write" /\ job[i].product = p
                            /\ job[i].version = v /\ v \notin job[i].planned]_offerVars
=============================================================================
