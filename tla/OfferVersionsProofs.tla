-------------------------- MODULE OfferVersionsProofs --------------------------
(***************************************************************************)
(* Proofs about OfferVersions, for any jobs, products, prices and links.   *)
(*                                                                         *)
(* Part 1 is about choices among versions, part 2 about types.  The row of *)
(* the product excludes other writers of its versions (part 3), a version  *)
(* keeps its link and is only ready with one (part 4), the advisory lock   *)
(* excludes other sources of links for a Shopee product (part 5), and a    *)
(* version with a publication is not pending (part 6).                     *)
(***************************************************************************)
EXTENDS OfferVersions, FiniteSetTheorems, WellFoundedInduction, TLAPS

-----------------------------------------------------------------------------
\* Part 1: the first and the last of some versions.

LEMMA StrictPair ==
    ASSUME NEW S, NEW A \in SUBSET S, NEW B \in SUBSET S, A \subseteq B, A # B
    PROVE  <<A, B>> \in StrictSubsetOrdering(S)
<1>1. <<A, B>> \in (SUBSET S) \X (SUBSET S) /\ <<A, B>>[1] = A /\ <<A, B>>[2] = B
  OBVIOUS
<1> QED
  BY <1>1 DEF StrictSubsetOrdering

LEMMA FirstOfOrder ==
    ASSUME NEW S, IsFiniteSet(S), S # {}, NEW R,
           \A x, y \in S : <<x, y>> \in R \/ <<y, x>> \in R,
           \A x, y, z \in S : <<x, y>> \in R /\ <<y, z>> \in R => <<x, z>> \in R
    PROVE  \E x \in S : \A y \in S : <<x, y>> \in R
<1> DEFINE Below(x) == {y \in S : <<y, x>> \in R}
           T        == {Below(x) : x \in S}
<1>1. IsWellFoundedOn(StrictSubsetOrdering(S), SUBSET S)
  BY FS_StrictSubsetOrderingWellFounded, FS_FiniteSubsetsOfFinite
<1>2. T \subseteq SUBSET S /\ T # {}
  <2>1. \A x \in S : Below(x) \in SUBSET S
    OBVIOUS
  <2> HIDE DEF Below
  <2> QED
    BY <2>1
<1>3. \E b \in T : \A c \in T : ~ (<<c, b>> \in StrictSubsetOrdering(S))
  <2> HIDE DEF T
  <2> QED
    BY <1>1, <1>2, WFMin
<1>4. PICK x \in S : \A c \in T : ~ (<<c, Below(x)>> \in StrictSubsetOrdering(S))
  BY <1>3
<1>5. ASSUME NEW y \in S, <<x, y>> \notin R
      PROVE  FALSE
  <2>1. Below(y) \subseteq Below(x)
    BY <1>5
  <2>2. x \in Below(x) /\ x \notin Below(y)
    BY <1>5
  <2>3. Below(y) \in T /\ Below(y) \in SUBSET S /\ Below(x) \in SUBSET S
    OBVIOUS
  <2>4. <<Below(y), Below(x)>> \notin StrictSubsetOrdering(S)
    BY <2>3, <1>4
  <2> HIDE DEF Below
  <2> QED
    BY <2>1, <2>2, <2>3, <2>4, StrictPair
<1> QED
  BY <1>5

LEMMA Extremes ==
    ASSUME NEW S, S \subseteq Nat, S # {}, IsFiniteSet(S)
    PROVE  /\ \E x \in S : \A y \in S : x <= y
           /\ \E x \in S : \A y \in S : x >= y
<1>1. \E x \in S : \A y \in S : x <= y
  <2> DEFINE R == {s \in Nat \X Nat : s[1] <= s[2]}
  <2>1. \A x, y \in S : <<x, y>> \in R <=> x <= y
    OBVIOUS
  <2> HIDE DEF R
  <2>2. \E x \in S : \A y \in S : <<x, y>> \in R
    <3>1. /\ \A x, y \in S : <<x, y>> \in R \/ <<y, x>> \in R
          /\ \A x, y, z \in S : <<x, y>> \in R /\ <<y, z>> \in R => <<x, z>> \in R
      BY <2>1
    <3> QED
      BY <3>1, FirstOfOrder
  <2> QED
    BY <2>1, <2>2
<1>2. \E x \in S : \A y \in S : x >= y
  <2> DEFINE R == {s \in Nat \X Nat : s[1] >= s[2]}
  <2>1. \A x, y \in S : <<x, y>> \in R <=> x >= y
    OBVIOUS
  <2> HIDE DEF R
  <2>2. \E x \in S : \A y \in S : <<x, y>> \in R
    <3>1. /\ \A x, y \in S : <<x, y>> \in R \/ <<y, x>> \in R
          /\ \A x, y, z \in S : <<x, y>> \in R /\ <<y, z>> \in R => <<x, z>> \in R
      BY <2>1
    <3> QED
      BY <3>1, FirstOfOrder
  <2> QED
    BY <2>1, <2>2
<1> QED
  BY <1>1, <1>2

-----------------------------------------------------------------------------
\* Part 2: types.

JobRecords ==
  [kind : {"none", "discover", "refresh", "link", "batch", "winner", "apply"},
   pc : {"idle", "current", "account", "enrich", "row", "resolve", "advisory", "look",
         "product", "find", "write", "retire"},
   product : Catalog \cup {NoJob}, price : OfferPrices \cup {NoLink},
   link : AffiliateUrls \cup {NoLink}, version : Nat, last : Nat, existed : BOOLEAN,
   historical : BOOLEAN, planned : SUBSET Nat, previous : Nat]

\* A job has its product and its facts, and refers to versions that exist.
GoodJob(r) ==
  /\ r \in JobRecords
  /\ r.pc # "idle" => r.product \in Catalog
  /\ r.pc \in {"current", "account", "enrich", "look", "product", "find", "write"} =>
       r.price \in OfferPrices
  /\ r.pc = "advisory" => r.price \in OfferPrices \/ offers[r.product] # <<>>
  /\ r.pc = "current" => r.version \in DOMAIN offers[r.product]
  /\ r.pc = "write" /\ r.version # 0 => r.version \in DOMAIN offers[r.product]
  /\ r.pc = "write" /\ r.version = 0 => ~ r.historical

VersionInv ==
  /\ OfferTypeOK
  /\ \A i \in Jobs : GoodJob(job[i])
  /\ planner # NoOffer => /\ planner.product \in Catalog
                          /\ planner.version \in DOMAIN offers[planner.product]

\* No version goes, and none gets another price or another link.
VersionsStay ==
  /\ offers' \in [Catalog -> Seq(OfferRecords)]
  /\ \A p \in Catalog : \A v \in DOMAIN offers[p] :
       /\ v \in DOMAIN offers'[p]
       /\ offers'[p][v].price = offers[p][v].price
       /\ offers'[p][v].link = offers[p][v].link

LEMMA OffersType ==
    ASSUME VersionInv
    PROVE  /\ offers \in [Catalog -> Seq(OfferRecords)]
           /\ \A p \in Catalog : /\ offers[p] \in Seq(OfferRecords)
                                 /\ DOMAIN offers[p] = 1 .. Len(offers[p])
                                 /\ Len(offers[p]) \in Nat
                                 /\ offers[p] # <<>> => LatestOffer(p) \in OfferRecords
           /\ \A p \in Catalog : \A v \in DOMAIN offers[p] : offers[p][v] \in OfferRecords
           /\ \A p \in Catalog : p \in MeliProducts \cup ShopeeProducts
           /\ NoJob \notin Catalog
<1>1. offers \in [Catalog -> Seq(OfferRecords)]
  BY DEF VersionInv, OfferTypeOK
<1>2. \A p \in Catalog : offers[p] \in Seq(OfferRecords)
  BY <1>1
<1>3. Catalog \in Catalogs
  BY DEF VersionInv, OfferTypeOK
<1>4. Catalog \subseteq MeliProducts \cup ShopeeProducts /\ NoJob \notin Catalog
  BY <1>3, OfferAssumption
<1>5. \A p \in Catalog : /\ DOMAIN offers[p] = 1 .. Len(offers[p])
                         /\ Len(offers[p]) \in Nat
                         /\ \A v \in DOMAIN offers[p] : offers[p][v] \in OfferRecords
  BY <1>2
<1>6. \A p \in Catalog : offers[p] # <<>> => Len(offers[p]) \in DOMAIN offers[p]
  BY <1>2
<1> QED
  BY <1>1, <1>2, <1>4, <1>5, <1>6 DEF LatestOffer

LEMMA SameOffersStay ==
    ASSUME VersionInv, UNCHANGED offers
    PROVE  VersionsStay
BY OffersType DEF VersionsStay

\* One version gets another status.
LEMMA StatusStays ==
    ASSUME VersionInv, NEW p \in Catalog, NEW v \in DOMAIN offers[p],
           NEW status \in OfferStatuses,
           offers' = [offers EXCEPT ![p][v].status = status]
    PROVE  VersionsStay /\ DOMAIN offers'[p] = DOMAIN offers[p]
<1> DEFINE r == [offers[p][v] EXCEPT !.status = status]
           o == [offers[p] EXCEPT ![v] = r]
<1>1. r \in OfferRecords /\ r.price = offers[p][v].price /\ r.link = offers[p][v].link
  BY OffersType DEF OfferRecords
<1>2. offers' = [offers EXCEPT ![p] = o]
  OBVIOUS
<1> HIDE DEF r
<1>3. /\ o \in Seq(OfferRecords) /\ DOMAIN o = DOMAIN offers[p]
      /\ o[v] = r /\ \A w \in DOMAIN offers[p] : w # v => o[w] = offers[p][w]
  BY <1>1, OffersType
<1> HIDE DEF o
<1>4. offers' \in [Catalog -> Seq(OfferRecords)] /\ offers'[p] = o
      /\ \A q \in Catalog : q # p => offers'[q] = offers[q]
  BY <1>2, <1>3, OffersType
<1> QED
  BY <1>1, <1>3, <1>4 DEF VersionsStay

\* A version is added.
LEMMA AppendStays ==
    ASSUME VersionInv, NEW p \in Catalog, NEW r \in OfferRecords,
           offers' = [offers EXCEPT ![p] = Append(@, r)]
    PROVE  /\ VersionsStay
           /\ DOMAIN offers'[p] = DOMAIN offers[p] \cup {Len(offers[p]) + 1}
           /\ offers'[p][Len(offers[p]) + 1] = r
           /\ \A q \in Catalog : q # p => offers'[q] = offers[q]
           /\ \A v \in DOMAIN offers[p] : offers'[p][v] = offers[p][v]
<1> DEFINE o == Append(offers[p], r)
<1>1. /\ o \in Seq(OfferRecords) /\ DOMAIN o = DOMAIN offers[p] \cup {Len(offers[p]) + 1}
      /\ o[Len(offers[p]) + 1] = r
      /\ \A v \in DOMAIN offers[p] : o[v] = offers[p][v]
  BY OffersType
<1>2. offers' = [offers EXCEPT ![p] = o]
  OBVIOUS
<1> HIDE DEF o
<1>3. offers' \in [Catalog -> Seq(OfferRecords)] /\ offers'[p] = o
      /\ \A q \in Catalog : q # p => offers'[q] = offers[q]
  BY <1>1, <1>2, OffersType
<1> QED
  BY <1>1, <1>3 DEF VersionsStay

\* A job that does not move stays good while versions stay.
LEMMA GoodStays ==
    ASSUME VersionInv, VersionsStay, NEW r, GoodJob(r)
    PROVE  GoodJob(r)'
<1>1. Catalog' = Catalog
  BY DEF VersionsStay, Catalog
<1>2. JobRecords' = JobRecords
  BY <1>1 DEF JobRecords
<1>3. \A p \in Catalog : offers[p] # <<>> => offers'[p] # <<>>
  <2> SUFFICES ASSUME NEW p \in Catalog, offers[p] # <<>>
               PROVE  offers'[p] # <<>>
    OBVIOUS
  <2>1. 1 \in DOMAIN offers[p]
    BY OffersType
  <2>2. 1 \in DOMAIN offers'[p]
    BY <2>1 DEF VersionsStay
  <2> QED
    BY <2>2
<1> QED
  BY <1>1, <1>2, <1>3 DEF GoodJob, VersionsStay

LEMMA GoodMoves ==
    ASSUME VersionInv, VersionsStay, NEW i \in Jobs, NEW r, GoodJob(r)',
           job' = [job EXCEPT ![i] = r]
    PROVE  /\ \A j \in Jobs : GoodJob(job[j])'
           /\ job' \in [Jobs -> JobRecords']
<1>1. job \in [Jobs -> JobRecords]
  BY DEF VersionInv, OfferTypeOK, JobRecords
<1>2. \A j \in Jobs : j # i => GoodJob(job[j])'
  <2> SUFFICES ASSUME NEW j \in Jobs, j # i
               PROVE  GoodJob(job[j])'
    OBVIOUS
  <2>1. PICK q : q = job[j]
    OBVIOUS
  <2>2. job[j] = q /\ job'[j] = q
    BY <1>1, <2>1
  <2>3. GoodJob(q)
    BY <2>2 DEF VersionInv, GoodJob
  <2>4. GoodJob(q)'
    BY <2>3, GoodStays
  <2> QED
    BY <2>2, <2>4 DEF GoodJob
<1>3. GoodJob(job[i])'
  BY <1>1 DEF GoodJob
<1>4. \A j \in Jobs : GoodJob(job[j])'
  BY <1>2, <1>3
<1>5. \A j \in Jobs : job'[j] \in JobRecords'
  BY <1>4 DEF GoodJob
<1>6. job' = [j \in Jobs |-> job'[j]]
  BY <1>1
<1> QED
  BY <1>4, <1>5, <1>6


\* What an action owes when it leaves the planner and the publications alone.
LEMMA InvMoves ==
    ASSUME VersionInv, VersionsStay, NEW i \in Jobs, NEW r, GoodJob(r),
           job' = [job EXCEPT ![i] = r],
           knownProducts' \subseteq Catalog,
           UNCHANGED <<publicationsOf, planner>>,
           productLock' \in [Catalog -> Jobs \cup {NoJob}],
           advisoryLock' \in [Catalog -> Jobs \cup {NoJob}],
           accountLock' \in Jobs \cup {NoJob}
    PROVE  VersionInv'
<1>1. Catalog' = Catalog /\ \A p \in Catalog : DOMAIN offers[p] \subseteq DOMAIN offers'[p]
  BY DEF VersionsStay, Catalog
<1>2. /\ \A j \in Jobs : GoodJob(job[j])'
      /\ job' \in [Jobs -> JobRecords']
  BY GoodStays, GoodMoves
<1>3. \A p \in Catalog : publicationsOf[p] \subseteq DOMAIN offers'[p]
  <2>1. \A p \in Catalog : publicationsOf[p] \subseteq DOMAIN offers[p]
    BY DEF VersionInv, OfferTypeOK
  <2> QED
    BY <1>1, <2>1
<1>4. OfferTypeOK'
  BY <1>1, <1>2, <1>3 DEF OfferTypeOK, VersionInv, VersionsStay, JobRecords
<1>5. (planner # NoOffer => /\ planner.product \in Catalog
                            /\ planner.version \in DOMAIN offers[planner.product])'
  BY <1>1 DEF VersionInv, NoOffer
<1> QED
  BY <1>2, <1>4, <1>5 DEF VersionInv

\* An action that gives a job its next step, and may take or give back locks.
LEMMA JobMoves ==
    ASSUME VersionInv, NEW i \in Jobs, NEW r, GoodJob(r),
           job' = [job EXCEPT ![i] = r],
           UNCHANGED <<offers, knownProducts, publicationsOf, planner>>,
           productLock' \in [Catalog -> Jobs \cup {NoJob}],
           advisoryLock' \in [Catalog -> Jobs \cup {NoJob}],
           accountLock' \in Jobs \cup {NoJob}
    PROVE  VersionInv'
<1>1. VersionsStay
  BY SameOffersStay
<1>2. knownProducts' \subseteq Catalog
  BY DEF VersionInv, OfferTypeOK
<1> QED
  BY <1>1, <1>2, InvMoves

LEMMA Locks ==
    ASSUME VersionInv
    PROVE  /\ productLock \in [Catalog -> Jobs \cup {NoJob}]
           /\ advisoryLock \in [Catalog -> Jobs \cup {NoJob}]
           /\ accountLock \in Jobs \cup {NoJob}
           /\ \A i \in Jobs : /\ job[i] \in JobRecords /\ GoodJob(job[i])
                              /\ EndsTransaction(i) =>
                                   /\ productLock' \in [Catalog -> Jobs \cup {NoJob}]
                                   /\ advisoryLock' \in [Catalog -> Jobs \cup {NoJob}]
                              /\ EndsJob(i) => accountLock' \in Jobs \cup {NoJob}
           /\ GoodJob(IdleJob)
<1>1. /\ productLock \in [Catalog -> Jobs \cup {NoJob}]
      /\ advisoryLock \in [Catalog -> Jobs \cup {NoJob}]
      /\ accountLock \in Jobs \cup {NoJob}
      /\ job \in [Jobs -> JobRecords]
      /\ \A i \in Jobs : GoodJob(job[i])
  BY DEF VersionInv, OfferTypeOK, JobRecords
<1>2. \A i \in Jobs : EndsTransaction(i) =>
                        /\ productLock' \in [Catalog -> Jobs \cup {NoJob}]
                        /\ advisoryLock' \in [Catalog -> Jobs \cup {NoJob}]
  BY <1>1 DEF EndsTransaction, Unlocked
<1>3. \A i \in Jobs : EndsJob(i) => accountLock' \in Jobs \cup {NoJob}
  BY <1>1 DEF EndsJob
<1>4. GoodJob(IdleJob)
  BY DEF GoodJob, IdleJob, JobRecords
<1> QED
  BY <1>1, <1>2, <1>3, <1>4


LEMMA Chosen ==
    ASSUME VersionInv, NEW p \in Catalog
    PROVE  /\ \A found \in SUBSET DOMAIN offers[p] :
                found # {} => Min(found) \in found /\ Max(found) \in found
           /\ Reusable(p) \in KnownLinks(p) \cup {NoLink}
           /\ KnownLinks(p) # {} => Reusable(p) \in KnownLinks(p)
           /\ KnownLinks(p) \subseteq AffiliateUrls
<1>1. DOMAIN offers[p] = 1 .. Len(offers[p]) /\ Len(offers[p]) \in Nat
      /\ \A v \in DOMAIN offers[p] : offers[p][v] \in OfferRecords
  BY OffersType
<1>2. \A found \in SUBSET DOMAIN offers[p] :
        found # {} => Min(found) \in found /\ Max(found) \in found
  <2> SUFFICES ASSUME NEW found \in SUBSET DOMAIN offers[p], found # {}
               PROVE  Min(found) \in found /\ Max(found) \in found
    OBVIOUS
  <2>1. found \subseteq Nat
    BY <1>1
  <2>2. IsFiniteSet(DOMAIN offers[p])
    BY <1>1, FS_Interval
  <2>3. IsFiniteSet(found)
    BY <2>2, FS_Subset
  <2> QED
    BY <2>1, <2>3, Extremes DEF Min, Max
<1> DEFINE linked == {v \in DOMAIN offers[p] : offers[p][v].link # NoLink}
<1>3. KnownLinks(p) \subseteq AffiliateUrls
  BY <1>1 DEF KnownLinks, OfferRecords
<1>4. ASSUME linked = {}
      PROVE  KnownLinks(p) = {} /\ Reusable(p) = NoLink
  BY <1>4 DEF Reusable, KnownLinks
<1>5. ASSUME linked # {}
      PROVE  Reusable(p) \in KnownLinks(p)
  <2>1. Max(linked) \in linked
    BY <1>2, <1>5
  <2>2. Reusable(p) = offers[p][Max(linked)].link
    BY <1>5 DEF Reusable
  <2>3. Max(linked) \in DOMAIN offers[p] /\ offers[p][Max(linked)].link # NoLink
    BY <2>1
  <2> HIDE DEF linked
  <2> QED
    BY <2>2, <2>3 DEF KnownLinks
<1> HIDE DEF linked
<1> QED
  BY <1>2, <1>3, <1>4, <1>5

LEMMA StartSteps ==
    ASSUME VersionInv, NEW i \in Jobs, NEW p \in Catalog,
           \/ DiscoverOffer(i, p) \/ PreviewRow(i, p) \/ PersistWinner(i, p) \/ RequestLink(i, p)
           \/ \E v \in 1 .. MaxVersions : SelectRefresh(i, p, v) \/ SelectPending(i, p, v)
    PROVE  VersionInv'
<1>1. PICK kind, pc, price, link, version : Begin(i, kind, pc, p, price, link, version)
                 /\ kind \in {"discover", "refresh", "link", "batch", "winner", "apply"}
                 /\ link \in AffiliateUrls \cup {NoLink}
                 /\ version \in Nat
                 /\ \/ pc \in {"look", "advisory"} /\ price \in OfferPrices
                    \/ pc \in {"row", "resolve"} /\ price = NoLink
                    \/ /\ pc = "current" /\ price \in OfferPrices
                       /\ version \in DOMAIN offers[p]
  <2>1. PricesOf[p] \subseteq OfferPrices /\ UrlsOf[p] \subseteq AffiliateUrls
    BY OffersType, OfferAssumption
  <2>2. CASE DiscoverOffer(i, p)
    BY <2>1, <2>2, Chosen DEF DiscoverOffer, LinksToUse
  <2>3. CASE PersistWinner(i, p)
    BY <2>1, <2>3 DEF PersistWinner
  <2>4. CASE RequestLink(i, p)
    BY <2>4 DEF RequestLink
  <2>5. ASSUME NEW v \in 1 .. MaxVersions, SelectRefresh(i, p, v)
        PROVE  \E price \in PricesOf[p] : Begin(i, "refresh", "look", p, price, offers[p][v].link, 0)
                  /\ offers[p][v].link \in AffiliateUrls \cup {NoLink}
    BY <2>5, OffersType DEF SelectRefresh, OfferRecords
  <2>6. ASSUME NEW v \in 1 .. MaxVersions, SelectPending(i, p, v)
        PROVE  /\ Begin(i, "link", "current", p, offers[p][v].price, NoLink, v)
               /\ offers[p][v].price \in OfferPrices
               /\ v \in DOMAIN offers[p] /\ v \in Nat
    BY <2>6, OffersType DEF SelectPending, OfferRecords
  <2>7. CASE PreviewRow(i, p)
    BY <2>1, <2>7 DEF PreviewRow
  <2> QED
    BY <2>1, <2>2, <2>3, <2>4, <2>5, <2>6, <2>7
<1> DEFINE r == [IdleJob EXCEPT !.kind = kind, !.pc = pc, !.product = p, !.price = price,
                                !.link = link, !.version = version]
<1>2. job' = [job EXCEPT ![i] = r]
  BY <1>1 DEF Begin
<1>3. GoodJob(r)
  BY <1>1 DEF GoodJob, IdleJob, JobRecords
<1>4. UNCHANGED <<offers, knownProducts, publicationsOf, productLock, advisoryLock,
                  accountLock, planner>>
  BY DEF DiscoverOffer, PreviewRow, PersistWinner, RequestLink, SelectRefresh, SelectPending
<1> HIDE DEF r
<1> QED
  BY <1>2, <1>3, <1>4, Locks, JobMoves


LEMMA PlainSteps ==
    ASSUME VersionInv, NEW i \in Jobs,
           \/ LockAccount(i) \/ Enrich(i) \/ ReadRow(i) \/ ResolveLink(i) \/ TakeAdvisory(i)
           \/ LookForProduct(i) \/ UpsertProduct(i) \/ FindOffer(i) \/ JobFails(i)
    PROVE  VersionInv'
<1>1. /\ job[i] \in JobRecords /\ GoodJob(job[i])
      /\ productLock \in [Catalog -> Jobs \cup {NoJob}]
      /\ advisoryLock \in [Catalog -> Jobs \cup {NoJob}]
      /\ accountLock \in Jobs \cup {NoJob}
      /\ GoodJob(IdleJob)
      /\ job \in [Jobs -> JobRecords]
  BY Locks DEF VersionInv, OfferTypeOK, JobRecords
<1>2. CASE LockAccount(i)
  <2> DEFINE r == [job[i] EXCEPT !.pc = "enrich"]
  <2>1. job[i].pc = "account" /\ GoodJob(r)
    BY <1>1, <1>2 DEF LockAccount, GoodJob, JobRecords
  <2>2. job' = [job EXCEPT ![i] = r] \/ job' = [job EXCEPT ![i] = IdleJob]
    BY <1>1, <1>2 DEF LockAccount, Goes
  <2>3. /\ UNCHANGED <<offers, knownProducts, publicationsOf, planner, productLock, advisoryLock>>
        /\ accountLock' \in Jobs \cup {NoJob}
    BY <1>1, <1>2 DEF LockAccount
  <2> HIDE DEF r
  <2> QED
    BY <1>1, <2>1, <2>2, <2>3, JobMoves
<1>3. CASE Enrich(i)
  <2>1. job[i].pc = "enrich" /\ job[i].product \in Catalog
    BY <1>1, <1>3 DEF Enrich, GoodJob
  <2>2. PICK link \in LinksToUse(job[i].product) \cup {NoLink} :
             job' = [job EXCEPT ![i].link = link, ![i].pc = "look"]
    BY <1>3 DEF Enrich
  <2>3. link \in AffiliateUrls \cup {NoLink}
    BY <2>1, Chosen, OffersType, OfferAssumption DEF LinksToUse
  <2> DEFINE r == [job[i] EXCEPT !.link = link, !.pc = "look"]
  <2>4. GoodJob(r)
    BY <1>1, <2>1, <2>3 DEF GoodJob, JobRecords
  <2>5. job' = [job EXCEPT ![i] = r]
    BY <1>1, <2>2
  <2>6. UNCHANGED <<offers, knownProducts, publicationsOf, productLock, advisoryLock,
                    accountLock, planner>>
    BY <1>3 DEF Enrich
  <2> HIDE DEF r
  <2> QED
    BY <1>1, <2>4, <2>5, <2>6, JobMoves
<1>4. CASE ResolveLink(i)
  <2>1. job[i].pc = "resolve" /\ job[i].product \in Catalog
    BY <1>1, <1>4 DEF ResolveLink, GoodJob
  <2>2. PICK url \in AffiliateUrls \cup {NoLink} :
             job' = [job EXCEPT ![i].link = url, ![i].pc = "advisory"]
    BY <1>4, <2>1, Chosen, OffersType, OfferAssumption DEF ResolveLink
  <2> DEFINE r == [job[i] EXCEPT !.link = url, !.pc = "advisory"]
  <2>3. job' = [job EXCEPT ![i] = r]
    BY <1>1, <2>2
  <2>4. GoodJob(r)
    BY <1>1, <2>1, <2>2 DEF GoodJob, JobRecords
  <2>6. UNCHANGED <<offers, knownProducts, publicationsOf, productLock, advisoryLock,
                    accountLock, planner>>
    BY <1>4 DEF ResolveLink
  <2> HIDE DEF r
  <2> QED
    BY <1>1, <2>3, <2>4, <2>6, JobMoves
<1>5. CASE TakeAdvisory(i)
  <2> DEFINE p == job[i].product
  <2>1. job[i].pc = "advisory" /\ p \in Catalog
    BY <1>1, <1>5 DEF TakeAdvisory, GoodJob
  <2> DEFINE price == IF job[i].price = NoLink THEN LatestOffer(p).price ELSE job[i].price
             link  == IF Reusable(p) = NoLink THEN job[i].link ELSE Reusable(p)
             r     == [job[i] EXCEPT !.pc = "look", !.price = price, !.link = link]
  <2>2. price \in OfferPrices /\ link \in AffiliateUrls \cup {NoLink}
    BY <1>1, <2>1, Chosen, OffersType, OfferAssumption DEF GoodJob, JobRecords, OfferRecords
  <2>3. job' = [job EXCEPT ![i] = r] \/ job' = [job EXCEPT ![i] = IdleJob]
    <3>1. \/ job' = [job EXCEPT ![i].pc = "look", ![i].price = price, ![i].link = link]
          \/ job' = [job EXCEPT ![i] = IdleJob]
      BY <1>1, <1>5 DEF TakeAdvisory
    <3> HIDE DEF price, link
    <3> QED
      BY <1>1, <3>1
  <2>4. /\ UNCHANGED <<offers, knownProducts, publicationsOf, productLock, accountLock, planner>>
        /\ advisoryLock' \in [Catalog -> Jobs \cup {NoJob}]
    BY <1>1, <1>5 DEF TakeAdvisory
  <2> HIDE DEF price, link
  <2>5. GoodJob(r)
    BY <1>1, <2>1, <2>2 DEF GoodJob, JobRecords
  <2> HIDE DEF r
  <2> QED
    BY <1>1, <2>3, <2>4, <2>5, JobMoves
<1>6. CASE LookForProduct(i)
  <2> DEFINE e == job[i].product \in knownProducts
             r == [job[i] EXCEPT !.existed = e, !.pc = "product"]
  <2>1. job' = [job EXCEPT ![i] = r]
    BY <1>1, <1>6 DEF LookForProduct
  <2>4. e \in BOOLEAN
    OBVIOUS
  <2> HIDE DEF e
  <2>2. GoodJob(r)
    <3>1. job[i].pc = "look"
      BY <1>6 DEF LookForProduct
    <3> QED
      BY <1>1, <2>4, <3>1 DEF GoodJob, JobRecords
  <2>3. UNCHANGED <<offers, knownProducts, publicationsOf, productLock, advisoryLock,
                    accountLock, planner>>
    BY <1>6 DEF LookForProduct
  <2> HIDE DEF r
  <2> QED
    BY <1>1, <2>1, <2>2, <2>3, JobMoves
<1>7. CASE UpsertProduct(i)
  <2> DEFINE r == [job[i] EXCEPT !.existed = FALSE, !.pc = "find"]
             q == [job[i] EXCEPT !.pc = "look"]
  <2>1. job[i].pc = "product"
    BY <1>7 DEF UpsertProduct
  <2>2. \/ job' = [job EXCEPT ![i] = r] \/ job' = [job EXCEPT ![i] = q]
        \/ job' = [job EXCEPT ![i] = IdleJob]
    <3>1. \/ job' = [job EXCEPT ![i].existed = FALSE, ![i].pc = "find"]
          \/ job' = [job EXCEPT ![i].pc = "look"]
          \/ job' = [job EXCEPT ![i] = IdleJob]
      BY <1>7 DEF UpsertProduct, Goes, EndsJob
    <3> QED
      BY <1>1, <3>1
  <2>3. GoodJob(r) /\ GoodJob(q)
    BY <1>1, <2>1 DEF GoodJob, JobRecords
  <2>4. /\ UNCHANGED <<offers, knownProducts, publicationsOf, planner>>
        /\ productLock' \in [Catalog -> Jobs \cup {NoJob}]
        /\ advisoryLock' \in [Catalog -> Jobs \cup {NoJob}]
        /\ accountLock' \in Jobs \cup {NoJob}
    <3>1. EndsTransaction(i) => /\ productLock' \in [Catalog -> Jobs \cup {NoJob}]
                                /\ advisoryLock' \in [Catalog -> Jobs \cup {NoJob}]
      BY Locks
    <3>2. EndsJob(i) => accountLock' \in Jobs \cup {NoJob}
      BY Locks
    <3>3. [productLock EXCEPT ![job[i].product] = i] \in [Catalog -> Jobs \cup {NoJob}]
      BY <1>1
    <3>4. UNCHANGED <<offers, knownProducts, publicationsOf, planner>>
      BY <1>7 DEF UpsertProduct
    <3>5. /\ \/ EndsTransaction(i) \/ UNCHANGED <<productLock, advisoryLock>>
             \/ /\ productLock' = [productLock EXCEPT ![job[i].product] = i]
                /\ UNCHANGED advisoryLock
          /\ EndsJob(i) \/ UNCHANGED accountLock
      BY <1>7 DEF UpsertProduct
    <3> QED
      BY <1>1, <3>1, <3>2, <3>3, <3>4, <3>5
  <2> HIDE DEF r, q
  <2> QED
    BY <1>1, <2>2, <2>3, <2>4, JobMoves
<1>8. CASE FindOffer(i)
  <2> DEFINE p     == job[i].product
             found == {v \in DOMAIN offers[p] : HasFacts(offers[p][v], job[i].price, job[i].link)}
             w     == IF found = {} THEN 0 ELSE Min(found)
             h     == w # 0 /\ IsHistorical(p, w)
             r     == [job[i] EXCEPT !.version = w, !.last = Len(offers[p]),
                         !.planned = publicationsOf[p], !.pc = "write", !.historical = h]
  <2>1. job[i].pc = "find" /\ p \in Catalog
    BY <1>1, <1>8 DEF FindOffer, GoodJob
  <2>2. w \in Nat /\ (w # 0 => w \in DOMAIN offers[p]) /\ Len(offers[p]) \in Nat
    <3>1. found \in SUBSET DOMAIN offers[p]
      OBVIOUS
    <3>2. found # {} => Min(found) \in found
      BY <2>1, <3>1, Chosen
    <3> QED
      BY <2>1, <3>1, <3>2, OffersType
  <2>3. h \in BOOLEAN /\ (w = 0 => ~ h)
    OBVIOUS
  <2>4. publicationsOf[p] \in SUBSET Nat
    BY <2>1 DEF VersionInv, OfferTypeOK
  <2>5. job' = [job EXCEPT ![i] = r]
    BY <1>1, <1>8 DEF FindOffer
  <2>6. UNCHANGED <<offers, knownProducts, publicationsOf, productLock, advisoryLock,
                    accountLock, planner>>
    BY <1>8 DEF FindOffer
  <2> HIDE DEF w, h
  <2>7. GoodJob(r)
    BY <1>1, <2>1, <2>2, <2>3, <2>4 DEF GoodJob, JobRecords
  <2> HIDE DEF r
  <2> QED
    BY <1>1, <2>5, <2>6, <2>7, JobMoves
<1>9. CASE JobFails(i)
  <2>1. /\ UNCHANGED <<offers, knownProducts, publicationsOf, planner>>
        /\ productLock' \in [Catalog -> Jobs \cup {NoJob}]
        /\ advisoryLock' \in [Catalog -> Jobs \cup {NoJob}]
        /\ accountLock' \in Jobs \cup {NoJob}
        /\ job' = [job EXCEPT ![i] = IdleJob]
    BY <1>1, <1>9, Locks DEF JobFails, EndsJob
  <2> QED
    BY <1>1, <2>1, JobMoves
<1>10. CASE ReadRow(i)
  <2>1. job[i].pc = "row" /\ job[i].product \in Catalog
    BY <1>1, <1>10 DEF ReadRow, GoodJob
  <2> DEFINE q == job[i].product
  <2>2. PICK price \in IF offers[q] = <<>> THEN PricesOf[q] ELSE {LatestOffer(q).price} :
             job' = [job EXCEPT ![i].price = price, ![i].previous = Len(offers[q]),
                                ![i].pc = "look"]
    BY <1>10 DEF ReadRow
  <2>3. price \in OfferPrices /\ Len(offers[q]) \in Nat
    BY <2>1, OffersType, OfferAssumption DEF OfferRecords
  <2> DEFINE r == [job[i] EXCEPT !.price = price, !.previous = Len(offers[q]), !.pc = "look"]
  <2>4. GoodJob(r)
    BY <1>1, <2>1, <2>3 DEF GoodJob, JobRecords
  <2>5. job' = [job EXCEPT ![i] = r]
    BY <1>1, <2>2
  <2>6. UNCHANGED <<offers, knownProducts, publicationsOf, productLock, advisoryLock,
                    accountLock, planner>>
    BY <1>10 DEF ReadRow
  <2> HIDE DEF r
  <2> QED
    BY <1>1, <2>4, <2>5, <2>6, JobMoves
<1> QED
  BY <1>2, <1>3, <1>4, <1>5, <1>6, <1>7, <1>8, <1>9, <1>10


LEMMA WriteSteps ==
    ASSUME VersionInv, NEW i \in Jobs,
           CheckCurrent(i) \/ CommitOffer(i) \/ RetirePending(i)
    PROVE  VersionInv' /\ VersionsStay
<1>1. /\ job[i] \in JobRecords /\ GoodJob(job[i])
      /\ productLock \in [Catalog -> Jobs \cup {NoJob}]
      /\ advisoryLock \in [Catalog -> Jobs \cup {NoJob}]
      /\ accountLock \in Jobs \cup {NoJob}
      /\ GoodJob(IdleJob)
      /\ job \in [Jobs -> JobRecords]
      /\ knownProducts \subseteq Catalog
  BY Locks DEF VersionInv, OfferTypeOK, JobRecords
<1> DEFINE p == job[i].product
           v == job[i].version
<1>2. CASE CheckCurrent(i)
  <2> DEFINE r == [job[i] EXCEPT !.pc = "account"]
  <2>1. job[i].pc = "current" /\ p \in Catalog /\ v \in DOMAIN offers[p]
    BY <1>1, <1>2 DEF CheckCurrent, GoodJob
  <2>2. \/ UNCHANGED offers
        \/ offers' = [offers EXCEPT ![p][v].status = "REJECTED"]
    BY <1>2 DEF CheckCurrent
  <2>3. VersionsStay
    BY <2>1, <2>2, SameOffersStay, StatusStays DEF OfferStatuses
  <2>4. job' = [job EXCEPT ![i] = r] \/ job' = [job EXCEPT ![i] = IdleJob]
    BY <1>1, <1>2 DEF CheckCurrent, Goes
  <2>5. UNCHANGED <<knownProducts, publicationsOf, productLock, advisoryLock, accountLock,
                    planner>>
    BY <1>2 DEF CheckCurrent
  <2>6. GoodJob(r)
    BY <1>1, <2>1 DEF GoodJob, JobRecords
  <2> HIDE DEF r
  <2> QED
    BY <1>1, <2>3, <2>4, <2>5, <2>6, InvMoves
<1>3. CASE CommitOffer(i)
  <2>1. /\ job[i].pc = "write" /\ p \in Catalog /\ job[i].price \in OfferPrices
        /\ job[i].link \in AffiliateUrls \cup {NoLink} /\ v \in Nat /\ job[i].last \in Nat
        /\ v # 0 => v \in DOMAIN offers[p]
    BY <1>1, <1>3 DEF CommitOffer, GoodJob, JobRecords
  <2>2. PICK accepted \in BOOLEAN :
          LET status == IF job[i].historical THEN offers[p][v].status
                        ELSE StatusFor(job[i].link, accepted)
              saved  == job[i].kind # "apply" \/ status = Ready
          IN  /\ offers' =
                    IF ~ saved THEN offers
                    ELSE IF v = 0
                    THEN [offers EXCEPT ![p] = Append(@,
                           [price |-> job[i].price, link |-> job[i].link, status |-> status])]
                    ELSE [offers EXCEPT ![p][v].status = status]
              /\ knownProducts' = IF saved THEN knownProducts \cup {p} ELSE knownProducts
              /\ EndsTransaction(i)
              /\ IF Replaces(i, status)
                 THEN /\ job' = [job EXCEPT ![i] = [IdleJob EXCEPT
                           !.kind = job[i].kind, !.product = p, !.pc = "retire",
                           !.version = WrittenVersion(i), !.previous = job[i].previous]]
                      /\ UNCHANGED accountLock
                 ELSE EndsJob(i)
    BY <1>3 DEF CommitOffer
  <2> DEFINE status == IF job[i].historical THEN offers[p][v].status
                       ELSE StatusFor(job[i].link, accepted)
             new == [price |-> job[i].price, link |-> job[i].link, status |-> status]
             w == WrittenVersion(i)
             r == [IdleJob EXCEPT !.kind = job[i].kind, !.product = p, !.pc = "retire",
                                  !.version = w, !.previous = job[i].previous]
  <2>3. v # 0 => status \in OfferStatuses
    BY <2>1, OffersType DEF StatusFor, OfferStatuses, OfferRecords, Pending, Ready
  <2>4. v = 0 => status \in OfferStatuses
    <3>1. job[i].historical => v # 0
      BY <1>1, <2>1 DEF GoodJob
    <3> QED
      BY <3>1 DEF StatusFor, OfferStatuses, Pending, Ready
  <2> HIDE DEF status
  <2>5. \/ UNCHANGED offers
        \/ v = 0 /\ offers' = [offers EXCEPT ![p] = Append(@, new)]
        \/ v # 0 /\ offers' = [offers EXCEPT ![p][v].status = status]
    BY <2>2 DEF status
  <2>6. VersionsStay
    <3>1. CASE UNCHANGED offers
      BY <3>1, SameOffersStay
    <3>2. CASE v = 0 /\ offers' = [offers EXCEPT ![p] = Append(@, new)]
      <4>1. new \in OfferRecords
        BY <2>1, <2>4, <3>2 DEF OfferRecords
      <4> HIDE DEF new
      <4> QED
        BY <2>1, <3>2, <4>1, AppendStays
    <3>3. CASE v # 0 /\ offers' = [offers EXCEPT ![p][v].status = status]
      BY <2>1, <2>3, <3>3, StatusStays
    <3> QED
      BY <2>5, <3>1, <3>2, <3>3
  <2>7. GoodJob(r)
    <3>1. /\ w \in Nat /\ job[i].previous \in Nat
          /\ job[i].kind \in {"none", "discover", "refresh", "link", "batch", "winner", "apply"}
      BY <1>1, <2>1 DEF JobRecords, WrittenVersion
    <3> HIDE DEF w
    <3> QED
      BY <2>1, <3>1 DEF GoodJob, JobRecords, IdleJob
  <2>8. job' = [job EXCEPT ![i] = r] \/ job' = [job EXCEPT ![i] = IdleJob]
    BY <2>2 DEF EndsJob
  <2>9. /\ knownProducts' \subseteq Catalog
         /\ productLock' \in [Catalog -> Jobs \cup {NoJob}]
         /\ advisoryLock' \in [Catalog -> Jobs \cup {NoJob}]
         /\ accountLock' \in Jobs \cup {NoJob}
         /\ UNCHANGED <<publicationsOf, planner>>
    <3>1. EndsTransaction(i) /\ (EndsJob(i) \/ UNCHANGED accountLock)
          /\ knownProducts' \in {knownProducts, knownProducts \cup {p}}
      BY <2>2
    <3> QED
      BY <1>1, <1>3, <2>1, <3>1, Locks DEF CommitOffer
  <2> HIDE DEF r
  <2> QED
    BY <1>1, <2>6, <2>7, <2>8, <2>9, InvMoves
<1>4. CASE RetirePending(i)
  <2>1. job[i].pc = "retire" /\ p \in Catalog
    BY <1>1, <1>4 DEF RetirePending, GoodJob
  <2> DEFINE o == [w \in DOMAIN offers[p] |->
                    IF /\ Replaced(i, w) /\ offers[p][w].status = Pending /\ offers[p][w].link = NoLink
                    THEN [offers[p][w] EXCEPT !.status = "REJECTED"] ELSE offers[p][w]]
  <2>2. offers' = [offers EXCEPT ![p] = o]
    BY <1>4 DEF RetirePending
  <2>3. \A w \in DOMAIN offers[p] : /\ o[w] \in OfferRecords
                                    /\ o[w].price = offers[p][w].price
                                    /\ o[w].link = offers[p][w].link
    BY <2>1, OffersType DEF OfferRecords, OfferStatuses
  <2>4. DOMAIN o = 1 .. Len(offers[p]) /\ Len(offers[p]) \in Nat
    BY <2>1, OffersType
  <2> HIDE DEF o
  <2>5. o \in Seq(OfferRecords) /\ DOMAIN o = DOMAIN offers[p]
    <3>1. o = [w \in 1 .. Len(offers[p]) |-> o[w]]
      BY <2>4 DEF o
    <3>2. DOMAIN offers[p] = 1 .. Len(offers[p])
      BY <2>1, OffersType
    <3>3. o \in [1 .. Len(offers[p]) -> OfferRecords]
      BY <2>3, <3>1, <3>2
    <3> QED
      BY <2>4, <3>2, <3>3
  <2>6. VersionsStay
    <3>1. offers' \in [Catalog -> Seq(OfferRecords)] /\ offers'[p] = o
          /\ \A q \in Catalog : q # p => offers'[q] = offers[q]
      BY <2>1, <2>2, <2>5, OffersType
    <3> QED
      BY <2>3, <2>5, <3>1 DEF VersionsStay
  <2>7. /\ job' = [job EXCEPT ![i] = IdleJob]
        /\ accountLock' \in Jobs \cup {NoJob}
        /\ UNCHANGED <<knownProducts, publicationsOf, productLock, advisoryLock, planner>>
    BY <1>4, Locks DEF RetirePending, EndsJob
  <2> QED
    BY <1>1, <2>6, <2>7, InvMoves
<1> QED
  BY <1>2, <1>3, <1>4


\* The planner and the deliveries, which no lock excludes.
LEMMA PlannerSteps ==
    ASSUME VersionInv,
           \/ \E p \in Catalog, v \in 1 .. MaxVersions : PlanSelect(p, v) \/ DeliverOffer(p, v)
           \/ PlanPlace \/ AccountLockLapses
    PROVE  VersionInv' /\ VersionsStay
<1>1. VersionsStay
  <2>1. ASSUME NEW p \in Catalog, NEW v \in 1 .. MaxVersions, DeliverOffer(p, v)
        PROVE  VersionsStay
    <3>1. v \in DOMAIN offers[p] /\ "PUBLISHED" \in OfferStatuses
          /\ offers' = [offers EXCEPT ![p][v].status = "PUBLISHED"]
      BY <2>1 DEF DeliverOffer, VersionInv, OfferTypeOK, OfferStatuses
    <3> QED
      BY <3>1, StatusStays
  <2>2. ASSUME PlanPlace
        PROVE  VersionsStay
    <3>1. /\ planner.product \in Catalog /\ planner.version \in DOMAIN offers[planner.product]
          /\ "SCHEDULED" \in OfferStatuses
          /\ offers' = [offers EXCEPT ![planner.product][planner.version].status = "SCHEDULED"]
      BY <2>2 DEF PlanPlace, VersionInv, OfferStatuses
    <3> QED
      BY <3>1, StatusStays
  <2>3. \/ UNCHANGED offers \/ PlanPlace
        \/ \E p \in Catalog, v \in 1 .. MaxVersions : DeliverOffer(p, v)
    BY DEF PlanSelect, AccountLockLapses
  <2> QED
    BY <2>1, <2>2, <2>3, SameOffersStay
<1>2. Catalog' = Catalog /\ \A p \in Catalog : DOMAIN offers[p] \subseteq DOMAIN offers'[p]
  BY <1>1 DEF VersionsStay, Catalog
<1>3. UNCHANGED <<job, knownProducts, productLock, advisoryLock>>
      /\ accountLock' \in {accountLock, NoJob}
  BY DEF PlanSelect, DeliverOffer, PlanPlace, AccountLockLapses
<1>4. /\ planner \in [product : Catalog \cup {NoJob}, version : Nat]
      /\ publicationsOf \in [Catalog -> SUBSET Nat]
      /\ \A p \in Catalog : publicationsOf[p] \subseteq DOMAIN offers[p]
      /\ planner # NoOffer => /\ planner.product \in Catalog
                              /\ planner.version \in DOMAIN offers[planner.product]
      /\ NoOffer \in [product : Catalog \cup {NoJob}, version : Nat]
      /\ \A j \in Jobs : GoodJob(job[j])
      /\ job \in [Jobs -> JobRecords]
  BY DEF VersionInv, OfferTypeOK, NoOffer, JobRecords
<1>5. \A j \in Jobs : GoodJob(job[j])'
  <2> SUFFICES ASSUME NEW j \in Jobs
               PROVE  GoodJob(job[j])'
    OBVIOUS
  <2>1. PICK q : q = job[j]
    OBVIOUS
  <2>2. job[j] = q /\ job'[j] = q
    BY <1>3, <2>1
  <2>3. GoodJob(q)
    BY <2>2 DEF VersionInv, GoodJob
  <2>4. GoodJob(q)'
    BY <1>1, <2>3, GoodStays
  <2> QED
    BY <2>2, <2>4 DEF GoodJob
<1>6. /\ planner' \in [product : Catalog \cup {NoJob}, version : Nat]
      /\ planner' # NoOffer => /\ planner'.product \in Catalog
                               /\ planner'.version \in DOMAIN offers'[planner'.product]
      /\ publicationsOf' \in [Catalog -> SUBSET Nat]
      /\ \A p \in Catalog : publicationsOf'[p] \subseteq DOMAIN offers'[p]
  <2>1. ASSUME NEW p \in Catalog, NEW v \in 1 .. MaxVersions, PlanSelect(p, v)
        PROVE  /\ planner' = [product |-> p, version |-> v] /\ v \in DOMAIN offers[p]
               /\ UNCHANGED <<offers, publicationsOf>>
    BY <2>1 DEF PlanSelect
  <2>2. ASSUME PlanPlace
        PROVE  /\ planner' = NoOffer
               /\ planner # NoOffer
               /\ publicationsOf' =
                    [publicationsOf EXCEPT ![planner.product] = @ \cup {planner.version}]
    BY <2>2 DEF PlanPlace
  <2>3. CASE PlanPlace
    <3>1. /\ publicationsOf' \in [Catalog -> SUBSET Nat]
          /\ \A p \in Catalog : publicationsOf'[p] \subseteq DOMAIN offers[p]
      BY <1>4, <2>2, <2>3
    <3> QED
      BY <1>2, <1>4, <2>2, <2>3, <3>1
  <2>4. CASE \E p \in Catalog, v \in 1 .. MaxVersions : PlanSelect(p, v)
    BY <1>4, <2>1, <2>4
  <2>5. CASE UNCHANGED <<publicationsOf, planner>>
    BY <1>2, <1>4, <2>5
  <2>6. \/ PlanPlace \/ UNCHANGED <<publicationsOf, planner>>
        \/ \E p \in Catalog, v \in 1 .. MaxVersions : PlanSelect(p, v)
    BY DEF DeliverOffer, AccountLockLapses
  <2> QED
    BY <2>3, <2>4, <2>5, <2>6
<1>7. OfferTypeOK'
  BY <1>1, <1>2, <1>3, <1>6 DEF OfferTypeOK, VersionInv, VersionsStay
<1> QED
  BY <1>1, <1>2, <1>5, <1>6, <1>7 DEF VersionInv

LEMMA VersionInit ==
    OfferInit => VersionInv
<1> SUFFICES ASSUME OfferInit
             PROVE  VersionInv
  OBVIOUS
<1>1. PICK catalog \in Catalogs : /\ offers = [p \in catalog |-> <<>>]
                                  /\ publicationsOf = [p \in catalog |-> {}]
                                  /\ productLock = [p \in catalog |-> NoJob]
                                  /\ advisoryLock = [p \in catalog |-> NoJob]
  BY DEF OfferInit
<1>2. Catalog = catalog
  BY <1>1 DEF Catalog
<1>3. offers \in [Catalog -> Seq(OfferRecords)]
  <2>1. <<>> \in Seq(OfferRecords)
    OBVIOUS
  <2> QED
    BY <1>1, <1>2, <2>1
<1>4. \A i \in Jobs : job[i] = IdleJob /\ GoodJob(IdleJob)
  BY DEF OfferInit, IdleJob, GoodJob, JobRecords
<1>5. job \in [Jobs -> JobRecords] /\ \A i \in Jobs : GoodJob(job[i])
  BY <1>4 DEF OfferInit, GoodJob
<1>6. OfferTypeOK
  BY <1>1, <1>2, <1>3, <1>5 DEF OfferTypeOK, OfferInit, NoOffer, JobRecords
<1> QED
  BY <1>5, <1>6 DEF VersionInv, OfferInit

\* What a step is, for all the proofs below.
LEMMA Steps ==
    VersionInv /\ [OfferNext]_offerVars =>
      \/ UNCHANGED offerVars
      \/ \E i \in Jobs :
           \/ \E p \in Catalog :
                \/ DiscoverOffer(i, p) \/ PreviewRow(i, p) \/ PersistWinner(i, p) \/ RequestLink(i, p)
                \/ \E v \in 1 .. MaxVersions : SelectRefresh(i, p, v) \/ SelectPending(i, p, v)
           \/ LockAccount(i) \/ Enrich(i) \/ ReadRow(i) \/ ResolveLink(i) \/ TakeAdvisory(i)
           \/ LookForProduct(i) \/ UpsertProduct(i) \/ FindOffer(i) \/ JobFails(i)
           \/ CheckCurrent(i) \/ CommitOffer(i) \/ RetirePending(i)
      \/ \E p \in Catalog, v \in 1 .. MaxVersions : PlanSelect(p, v) \/ DeliverOffer(p, v)
      \/ PlanPlace \/ AccountLockLapses
BY DEF OfferNext

LEMMA VersionStep ==
    VersionInv /\ [OfferNext]_offerVars => VersionInv' /\ VersionsStay
<1> SUFFICES ASSUME VersionInv, [OfferNext]_offerVars
             PROVE  VersionInv' /\ VersionsStay
  OBVIOUS
<1>1. ASSUME UNCHANGED offerVars
      PROVE  VersionInv' /\ VersionsStay
  <2>1. VersionsStay
    BY <1>1, SameOffersStay DEF offerVars
  <2> QED
    BY <1>1, <2>1 DEF offerVars, VersionInv, OfferTypeOK, GoodJob, JobRecords, Catalog,
       LatestOffer
<1>2. ASSUME NEW i \in Jobs, NEW p \in Catalog,
             \/ DiscoverOffer(i, p) \/ PreviewRow(i, p) \/ PersistWinner(i, p) \/ RequestLink(i, p)
             \/ \E v \in 1 .. MaxVersions : SelectRefresh(i, p, v) \/ SelectPending(i, p, v)
      PROVE  VersionInv' /\ VersionsStay
  <2>1. UNCHANGED offers
    BY <1>2 DEF DiscoverOffer, PreviewRow, PersistWinner, RequestLink, SelectRefresh, SelectPending
  <2> QED
    BY <1>2, <2>1, SameOffersStay, StartSteps
<1>3. ASSUME NEW i \in Jobs,
             \/ LockAccount(i) \/ Enrich(i) \/ ReadRow(i) \/ ResolveLink(i) \/ TakeAdvisory(i)
             \/ LookForProduct(i) \/ UpsertProduct(i) \/ FindOffer(i) \/ JobFails(i)
      PROVE  VersionInv' /\ VersionsStay
  <2>1. UNCHANGED offers
    BY <1>3 DEF LockAccount, Enrich, ReadRow, ResolveLink, TakeAdvisory, LookForProduct,
                UpsertProduct, FindOffer, JobFails
  <2> QED
    BY <1>3, <2>1, SameOffersStay, PlainSteps
<1>4. ASSUME NEW i \in Jobs, CheckCurrent(i) \/ CommitOffer(i) \/ RetirePending(i)
      PROVE  VersionInv' /\ VersionsStay
  BY <1>4, WriteSteps
<1> QED
  BY <1>1, <1>2, <1>3, <1>4, PlannerSteps, Steps

(* The variables keep their types, for any jobs, products, prices and links:  *)
(* a publication and a planner always refer to a version that exists.         *)
THEOREM OfferTypeCorrect == OfferSpec => []OfferTypeOK
<1>1. VersionInv => OfferTypeOK
  BY DEF VersionInv
<1> QED
  BY VersionInit, VersionStep, <1>1, PTL DEF OfferSpec


-----------------------------------------------------------------------------
\* Part 3: the row of the product.

\* The steps that write versions.
LEMMA OffersChange ==
    ASSUME VersionInv, [OfferNext]_offerVars
    PROVE  \/ UNCHANGED offers
           \/ \E i \in Jobs : CommitOffer(i) \/ CheckCurrent(i) \/ RetirePending(i)
           \/ \E q \in Catalog, w \in 1 .. MaxVersions : DeliverOffer(q, w)
           \/ PlanPlace
<1>1. ASSUME NEW i \in Jobs, NEW q \in Catalog,
             \/ DiscoverOffer(i, q) \/ PreviewRow(i, q) \/ PersistWinner(i, q) \/ RequestLink(i, q)
             \/ \E v \in 1 .. MaxVersions : SelectRefresh(i, q, v) \/ SelectPending(i, q, v)
      PROVE  UNCHANGED offers
  BY <1>1 DEF DiscoverOffer, PreviewRow, PersistWinner, RequestLink, SelectRefresh, SelectPending
<1>2. ASSUME NEW i \in Jobs,
             \/ LockAccount(i) \/ Enrich(i) \/ ReadRow(i) \/ ResolveLink(i) \/ TakeAdvisory(i)
             \/ LookForProduct(i) \/ UpsertProduct(i) \/ FindOffer(i) \/ JobFails(i)
      PROVE  UNCHANGED offers
  BY <1>2 DEF LockAccount, Enrich, ReadRow, ResolveLink, TakeAdvisory, LookForProduct,
     UpsertProduct, FindOffer, JobFails
<1>3. ASSUME \/ UNCHANGED offerVars \/ AccountLockLapses
             \/ \E q \in Catalog, v \in 1 .. MaxVersions : PlanSelect(q, v)
      PROVE  UNCHANGED offers
  BY <1>3 DEF offerVars, AccountLockLapses, PlanSelect
<1> QED
  BY <1>1, <1>2, <1>3, Steps

\* Only a commit adds a version, and only to the product of its job.
LEMMA CountStays ==
    ASSUME VersionInv, [OfferNext]_offerVars, NEW p \in Catalog,
           \A i \in Jobs : ~ (CommitOffer(i) /\ job[i].product = p)
    PROVE  DOMAIN offers'[p] = DOMAIN offers[p]
<1>1. ASSUME NEW i \in Jobs, CommitOffer(i)
      PROVE  DOMAIN offers'[p] = DOMAIN offers[p]
  <2>1. \E f : offers' = [offers EXCEPT ![job[i].product] = f]
    <3>1. \/ offers' = offers
          \/ \E new : offers' = [offers EXCEPT ![job[i].product] = Append(@, new)]
          \/ \E status :
               offers' = [offers EXCEPT ![job[i].product][job[i].version].status = status]
      <4>1. PICK accepted \in BOOLEAN :
              LET status == IF job[i].historical
                            THEN offers[job[i].product][job[i].version].status
                            ELSE StatusFor(job[i].link, accepted)
                  saved  == job[i].kind # "apply" \/ status = Ready
              IN  offers' =
                    IF ~ saved THEN offers
                    ELSE IF job[i].version = 0
                    THEN [offers EXCEPT ![job[i].product] = Append(@,
                           [price |-> job[i].price, link |-> job[i].link, status |-> status])]
                    ELSE [offers EXCEPT ![job[i].product][job[i].version].status = status]
        BY <1>1 DEF CommitOffer
      <4> QED
        BY <4>1
    <3>2. offers = [offers EXCEPT ![job[i].product] = offers[job[i].product]]
      BY OffersType
    <3> QED
      BY <3>1, <3>2
  <2>2. job[i].product # p
    BY <1>1
  <2> QED
    BY <2>1, <2>2, OffersType
<1>2. ASSUME NEW i \in Jobs, CheckCurrent(i)
      PROVE  DOMAIN offers'[p] = DOMAIN offers[p]
  <2>1. /\ job[i].product \in Catalog
        /\ job[i].version \in DOMAIN offers[job[i].product]
        /\ \/ UNCHANGED offers
           \/ offers' = [offers EXCEPT ![job[i].product][job[i].version].status = "REJECTED"]
    BY <1>2 DEF CheckCurrent, VersionInv, GoodJob
  <2>2. "REJECTED" \in OfferStatuses
    BY DEF OfferStatuses
  <2>3. CASE job[i].product = p
    BY <2>1, <2>2, <2>3, StatusStays
  <2>4. CASE job[i].product # p
    BY <2>1, <2>4, OffersType
  <2> QED
    BY <2>3, <2>4
<1>3. ASSUME NEW i \in Jobs, RetirePending(i)
      PROVE  DOMAIN offers'[p] = DOMAIN offers[p]
  BY <1>3, OffersType DEF RetirePending
<1>4. ASSUME NEW q \in Catalog, NEW v \in DOMAIN offers[q], NEW status \in OfferStatuses,
             offers' = [offers EXCEPT ![q][v].status = status]
      PROVE  DOMAIN offers'[p] = DOMAIN offers[p]
  <2>1. CASE q = p
    BY <1>4, <2>1, StatusStays
  <2>2. CASE q # p
    BY <1>4, <2>2, OffersType
  <2> QED
    BY <2>1, <2>2
<1>5. ASSUME PlanPlace
      PROVE  DOMAIN offers'[p] = DOMAIN offers[p]
  <2>1. /\ planner.product \in Catalog /\ planner.version \in DOMAIN offers[planner.product]
        /\ offers' = [offers EXCEPT ![planner.product][planner.version].status = "SCHEDULED"]
        /\ "SCHEDULED" \in OfferStatuses
    BY <1>5 DEF PlanPlace, VersionInv, OfferStatuses
  <2> QED
    BY <2>1, <1>4
<1>6. ASSUME NEW q \in Catalog, NEW v \in 1 .. MaxVersions, DeliverOffer(q, v)
      PROVE  DOMAIN offers'[p] = DOMAIN offers[p]
  <2>1. /\ v \in DOMAIN offers[q]
        /\ offers' = [offers EXCEPT ![q][v].status = "PUBLISHED"]
        /\ "PUBLISHED" \in OfferStatuses
    BY <1>6 DEF DeliverOffer, VersionInv, OfferTypeOK, OfferStatuses
  <2> QED
    BY <2>1, <1>4
<1>7. \/ UNCHANGED offers \/ PlanPlace
      \/ \E i \in Jobs : CommitOffer(i) \/ CheckCurrent(i) \/ RetirePending(i)
      \/ \E q \in Catalog, v \in 1 .. MaxVersions : DeliverOffer(q, v)
  BY OffersChange
<1> QED
  BY <1>1, <1>2, <1>3, <1>5, <1>6, <1>7


RowInv ==
  /\ VersionInv
  /\ \A i \in Jobs : job[i].pc \in {"find", "write"} => productLock[job[i].product] = i
  /\ LookupHolds

\* A commit ends the job or leaves it one statement more.
LEMMA CommitEnds ==
    ASSUME VersionInv, NEW i \in Jobs, CommitOffer(i)
    PROVE  /\ job[i].pc = "write"
           /\ job'[i].pc \in {"idle", "retire"}
           /\ \A j \in Jobs : j # i => job'[j] = job[j]
<1>1. job \in [Jobs -> JobRecords]
  BY DEF VersionInv, OfferTypeOK, JobRecords
<1>2. \/ \E kind, version, previous :
           job' = [job EXCEPT ![i] = [IdleJob EXCEPT
                     !.kind = kind, !.product = job[i].product, !.pc = "retire",
                     !.version = version, !.previous = previous]]
      \/ job' = [job EXCEPT ![i] = IdleJob]
  BY DEF CommitOffer, EndsJob
<1>3. IdleJob.pc = "idle" /\ "pc" \in DOMAIN IdleJob
  BY DEF IdleJob
<1>4. \E r : job' = [job EXCEPT ![i] = r] /\ r.pc \in {"idle", "retire"}
  BY <1>2, <1>3
<1> QED
  BY <1>1, <1>4 DEF CommitOffer

\* How a job comes to read or write versions.
LEMMA ToWrite ==
    ASSUME VersionInv, [OfferNext]_offerVars, NEW j \in Jobs
    PROVE  \/ job'[j] = job[j]
           \/ job'[j].pc \notin {"find", "write"}
           \/ /\ UpsertProduct(j) /\ job'[j].pc = "find"
              /\ job'[j].product = job[j].product
              /\ productLock'[job[j].product] = j
           \/ FindOffer(j)
<1>1. /\ job \in [Jobs -> JobRecords]
      /\ productLock \in [Catalog -> Jobs \cup {NoJob}]
      /\ IdleJob.pc = "idle"
      /\ \A i \in Jobs : GoodJob(job[i])
  BY DEF VersionInv, OfferTypeOK, JobRecords, IdleJob
<1>2. ASSUME NEW i \in Jobs, NEW p \in Catalog,
             \/ DiscoverOffer(i, p) \/ PreviewRow(i, p) \/ PersistWinner(i, p) \/ RequestLink(i, p)
             \/ \E v \in 1 .. MaxVersions : SelectRefresh(i, p, v) \/ SelectPending(i, p, v)
      PROVE  job'[j] = job[j] \/ job'[j].pc \notin {"find", "write"}
  <2>1. \E kind, pc, price, link, version : /\ Begin(i, kind, pc, p, price, link, version)
                                            /\ pc \notin {"find", "write"}
    BY <1>2 DEF DiscoverOffer, PreviewRow, PersistWinner, RequestLink, SelectRefresh, SelectPending
  <2> QED
    BY <1>1, <2>1 DEF Begin, IdleJob
<1>3. ASSUME NEW i \in Jobs, JobFails(i) \/ RetirePending(i)
      PROVE  job'[j] = job[j] \/ job'[j].pc \notin {"find", "write"}
  BY <1>1, <1>3 DEF JobFails, RetirePending, EndsJob
<1>4. ASSUME NEW i \in Jobs, LockAccount(i) \/ CheckCurrent(i)
      PROVE  job'[j] = job[j] \/ job'[j].pc \notin {"find", "write"}
  BY <1>1, <1>4 DEF LockAccount, CheckCurrent, Goes, JobRecords
<1>5. ASSUME NEW i \in Jobs, Enrich(i)
      PROVE  job'[j] = job[j] \/ job'[j].pc \notin {"find", "write"}
  BY <1>1, <1>5 DEF Enrich, JobRecords
<1>13. ASSUME NEW i \in Jobs, ReadRow(i)
       PROVE  job'[j] = job[j] \/ job'[j].pc \notin {"find", "write"}
  <2>1. \E price, n :
          job' = [job EXCEPT ![i].price = price, ![i].previous = n, ![i].pc = "look"]
    BY <1>13 DEF ReadRow
  <2> QED
    BY <1>1, <2>1 DEF JobRecords
<1>6. ASSUME NEW i \in Jobs, ResolveLink(i)
      PROVE  job'[j] = job[j] \/ job'[j].pc \notin {"find", "write"}
  <2>1. \E url : job' = [job EXCEPT ![i].link = url, ![i].pc = "advisory"]
    BY <1>6 DEF ResolveLink
  <2> QED
    BY <1>1, <2>1 DEF JobRecords
<1>7. ASSUME NEW i \in Jobs, TakeAdvisory(i)
      PROVE  job'[j] = job[j] \/ job'[j].pc \notin {"find", "write"}
  <2>1. \/ \E price, link :
             job' = [job EXCEPT ![i].pc = "look", ![i].price = price, ![i].link = link]
        \/ job' = [job EXCEPT ![i] = IdleJob]
    BY <1>7 DEF TakeAdvisory
  <2> QED
    BY <1>1, <2>1 DEF JobRecords
<1>8. ASSUME NEW i \in Jobs, LookForProduct(i)
      PROVE  job'[j] = job[j] \/ job'[j].pc \notin {"find", "write"}
  <2>1. \E e : job' = [job EXCEPT ![i].existed = e, ![i].pc = "product"]
    BY <1>8 DEF LookForProduct
  <2> QED
    BY <1>1, <2>1 DEF JobRecords
<1>9. ASSUME NEW i \in Jobs, UpsertProduct(i)
      PROVE  \/ job'[j] = job[j] \/ job'[j].pc \notin {"find", "write"}
             \/ /\ i = j /\ job'[j].pc = "find"
                /\ job'[j].product = job[j].product
                /\ productLock'[job[j].product] = j
  <2>1. \/ /\ job' = [job EXCEPT ![i].existed = FALSE, ![i].pc = "find"]
           /\ productLock' = [productLock EXCEPT ![job[i].product] = i]
           /\ job[i].product \in Catalog
        \/ job' = [job EXCEPT ![i].pc = "look"]
        \/ job' = [job EXCEPT ![i] = IdleJob]
    BY <1>1, <1>9 DEF UpsertProduct, Goes, EndsJob, GoodJob
  <2> QED
    BY <1>1, <2>1 DEF JobRecords
<1>10. ASSUME NEW i \in Jobs, FindOffer(i)
       PROVE  job'[j] = job[j] \/ i = j
  BY <1>1, <1>10 DEF FindOffer
<1>11. ASSUME NEW i \in Jobs, CommitOffer(i)
       PROVE  job'[j] = job[j] \/ job'[j].pc \notin {"find", "write"}
  BY <1>11, CommitEnds
<1>12. CASE \/ UNCHANGED offerVars \/ PlanPlace \/ AccountLockLapses
            \/ \E p \in Catalog, v \in 1 .. MaxVersions : PlanSelect(p, v) \/ DeliverOffer(p, v)
  BY <1>12 DEF offerVars, PlanPlace, AccountLockLapses, PlanSelect, DeliverOffer
<1> QED
  BY <1>2, <1>3, <1>4, <1>5, <1>6, <1>7, <1>8, <1>9, <1>10, <1>11, <1>12, <1>13, Steps

\* A lock on a row is only given back by the job that has it, which then stops.
LEMMA RowStays ==
    ASSUME VersionInv, [OfferNext]_offerVars, NEW j \in Jobs, NEW p \in Catalog,
           productLock[p] = j, job'[j].pc \in {"find", "write"}
    PROVE  productLock'[p] = j
<1>1. /\ job \in [Jobs -> JobRecords]
      /\ productLock \in [Catalog -> Jobs \cup {NoJob}]
      /\ IdleJob.pc = "idle" /\ NoJob \notin Jobs
      /\ \A i \in Jobs : GoodJob(job[i])
  BY OfferAssumption DEF VersionInv, OfferTypeOK, JobRecords, IdleJob
<1>2. ASSUME NEW i \in Jobs, UpsertProduct(i)
      PROVE  productLock'[p] = j
  <2>1. /\ job[i].product \in Catalog
        /\ \/ /\ productLock[job[i].product] = NoJob
              /\ productLock' = [productLock EXCEPT ![job[i].product] = i]
           \/ UNCHANGED productLock
           \/ /\ job' = [job EXCEPT ![i] = IdleJob]
              /\ productLock' = Unlocked(productLock, i)
    BY <1>1, <1>2 DEF UpsertProduct, EndsTransaction, EndsJob, GoodJob
  <2> QED
    BY <1>1, <2>1 DEF Unlocked
<1>3. ASSUME NEW i \in Jobs, CommitOffer(i)
      PROVE  productLock'[p] = j
  <2>2. job'[i].pc \notin {"find", "write"}
    BY <1>3, CommitEnds
  <2>3. productLock' = Unlocked(productLock, i)
    BY <1>3 DEF CommitOffer, EndsTransaction
  <2> QED
    BY <1>1, <2>2, <2>3 DEF Unlocked
<1>4. ASSUME NEW i \in Jobs, JobFails(i)
      PROVE  productLock'[p] = j
  BY <1>1, <1>4 DEF JobFails, EndsJob, EndsTransaction, Unlocked
<1>5. ASSUME NEW i \in Jobs, NEW q \in Catalog,
             \/ DiscoverOffer(i, q) \/ PreviewRow(i, q) \/ PersistWinner(i, q) \/ RequestLink(i, q)
             \/ \E v \in 1 .. MaxVersions : SelectRefresh(i, q, v) \/ SelectPending(i, q, v)
      PROVE  UNCHANGED productLock
  BY <1>5 DEF DiscoverOffer, PreviewRow, PersistWinner, RequestLink, SelectRefresh, SelectPending
<1>6. ASSUME NEW i \in Jobs,
             \/ LockAccount(i) \/ Enrich(i) \/ ReadRow(i) \/ ResolveLink(i) \/ TakeAdvisory(i)
             \/ LookForProduct(i) \/ FindOffer(i) \/ CheckCurrent(i) \/ RetirePending(i)
      PROVE  UNCHANGED productLock
  BY <1>6 DEF LockAccount, Enrich, ReadRow, ResolveLink, TakeAdvisory, LookForProduct, FindOffer,
     CheckCurrent, RetirePending
<1>7. ASSUME \/ UNCHANGED offerVars \/ PlanPlace \/ AccountLockLapses
             \/ \E q \in Catalog, v \in 1 .. MaxVersions : PlanSelect(q, v) \/ DeliverOffer(q, v)
      PROVE  UNCHANGED productLock
  BY <1>7 DEF offerVars, PlanPlace, AccountLockLapses, PlanSelect, DeliverOffer
<1> QED
  BY <1>2, <1>3, <1>4, <1>5, <1>6, <1>7, Steps


LEMMA RowInit ==
    OfferInit => RowInv
<1> SUFFICES ASSUME OfferInit
             PROVE  RowInv
  OBVIOUS
<1>1. \A i \in Jobs : job[i].pc = "idle"
  BY DEF OfferInit, IdleJob
<1> QED
  BY <1>1, VersionInit DEF RowInv, LookupHolds

LEMMA RowStep ==
    RowInv /\ [OfferNext]_offerVars => RowInv'
<1> SUFFICES ASSUME RowInv, [OfferNext]_offerVars
             PROVE  RowInv'
  OBVIOUS
<1>1. VersionInv /\ VersionInv' /\ VersionsStay
  BY VersionStep DEF RowInv
<1>2. /\ job \in [Jobs -> JobRecords]
      /\ productLock \in [Catalog -> Jobs \cup {NoJob}]
      /\ NoJob \notin Jobs
      /\ \A i \in Jobs : GoodJob(job[i])
  BY <1>1, OfferAssumption DEF VersionInv, OfferTypeOK, JobRecords
<1>3. ASSUME NEW j \in Jobs, job'[j].pc \in {"find", "write"}
      PROVE  productLock'[job'[j].product] = j
  <2>1. CASE job'[j] = job[j]
    <3>1. productLock[job[j].product] = j /\ job[j].product \in Catalog
      BY <1>2, <1>3, <2>1 DEF RowInv, GoodJob
    <3> QED
      BY <1>1, <1>3, <2>1, <3>1, RowStays
  <2>2. CASE FindOffer(j)
    <3>1. job[j].pc = "find" /\ job[j].product \in Catalog
      BY <1>2, <2>2 DEF FindOffer, GoodJob
    <3>2. productLock' = productLock /\ job'[j].product = job[j].product
      BY <1>2, <2>2 DEF FindOffer, JobRecords
    <3> QED
      BY <3>1, <3>2 DEF RowInv
  <2> QED
    BY <1>1, <1>3, <2>1, <2>2, ToWrite
<1>4. ASSUME NEW j \in Jobs, job'[j].pc = "write"
      PROVE  /\ job'[j].last = Len(offers'[job'[j].product])
             /\ job'[j].version = 0 =>
                  \A v \in DOMAIN offers'[job'[j].product] :
                    ~ HasFacts(offers'[job'[j].product][v], job'[j].price, job'[j].link)
  <2>1. CASE FindOffer(j)
    <3> DEFINE p == job[j].product
               found == {v \in DOMAIN offers[p] :
                           HasFacts(offers[p][v], job[j].price, job[j].link)}
               w == IF found = {} THEN 0 ELSE Min(found)
    <3>1. p \in Catalog
      BY <1>2, <2>1 DEF FindOffer, GoodJob
    <3>2. /\ job'[j].version = w /\ job'[j].last = Len(offers[p])
          /\ job'[j].product = p /\ job'[j].price = job[j].price
          /\ job'[j].link = job[j].link /\ offers' = offers
      BY <1>2, <2>1 DEF FindOffer, JobRecords
    <3>3. w = 0 => found = {}
      <4>1. found \in SUBSET DOMAIN offers[p] /\ 0 \notin DOMAIN offers[p]
        BY <1>1, <3>1, OffersType
      <4>2. found # {} => Min(found) \in found
        BY <1>1, <3>1, <4>1, Chosen
      <4> QED
        BY <4>1, <4>2
    <3> HIDE DEF w
    <3> QED
      BY <3>2, <3>3
  <2>2. CASE job'[j] = job[j]
    <3> DEFINE p == job[j].product
    <3>1. job[j].pc = "write" /\ p \in Catalog /\ productLock[p] = j
      BY <1>2, <1>4, <2>2 DEF RowInv, GoodJob
    <3>2. \A i \in Jobs : ~ (CommitOffer(i) /\ job[i].product = p)
      <4> SUFFICES ASSUME NEW i \in Jobs, CommitOffer(i), job[i].product = p
                   PROVE  FALSE
        OBVIOUS
      <4>1. job[i].pc = "write" /\ productLock[p] = i
        BY DEF RowInv, CommitOffer
      <4>2. i = j
        BY <3>1, <4>1
      <4>4. job'[i].pc # "write"
        BY <1>1, CommitEnds
      <4> QED
        BY <1>4, <4>2, <4>4
    <3>3. DOMAIN offers'[p] = DOMAIN offers[p]
      BY <1>1, <3>1, <3>2, CountStays
    <3>4. offers[p] \in Seq(OfferRecords) /\ offers'[p] \in Seq(OfferRecords)
      BY <1>1, <3>1, OffersType DEF VersionsStay
    <3>5. Len(offers'[p]) = Len(offers[p])
      BY <3>3, <3>4
    <3>6. /\ job[j].last = Len(offers[p])
          /\ job[j].version = 0 =>
               \A v \in DOMAIN offers[p] : ~ HasFacts(offers[p][v], job[j].price, job[j].link)
      BY <3>1 DEF RowInv, LookupHolds
    <3>7. \A v \in DOMAIN offers[p] : /\ offers'[p][v].price = offers[p][v].price
                                      /\ offers'[p][v].link = offers[p][v].link
      BY <1>1, <3>1 DEF VersionsStay
    <3> QED
      BY <2>2, <3>3, <3>5, <3>6, <3>7 DEF HasFacts
  <2> QED
    BY <1>1, <1>4, <2>1, <2>2, ToWrite
<1> QED
  BY <1>1, <1>3, <1>4 DEF RowInv, LookupHolds

(* Whatever an ingestion looked up under the row of the product still holds   *)
(* when it writes, for any number of jobs, crashes and products: no unique    *)
(* key of Offer refuses the version it creates.                               *)
THEOREM LookupCorrect == OfferSpec => []LookupHolds
<1>1. RowInv => LookupHolds
  BY DEF RowInv
<1> QED
  BY RowInit, RowStep, <1>1, PTL DEF OfferSpec


-----------------------------------------------------------------------------
\* Part 4: no version is ready without a link.

Sendable == {Ready, "SCHEDULED", "PUBLISHED"}

LinkInv ==
  /\ VersionInv
  /\ \A p \in Catalog : \A v \in DOMAIN offers[p] :
       offers[p][v].status \in Sendable => offers[p][v].link # NoLink
  /\ \A p \in Catalog : \A v \in publicationsOf[p] : offers[p][v].link # NoLink
  /\ planner # NoOffer => offers[planner.product][planner.version].link # NoLink
  /\ \A i \in Jobs : job[i].pc = "write" /\ job[i].version # 0 =>
       offers[job[i].product][job[i].version].link = job[i].link

\* One version gets another status, the others keep theirs.
LEMMA StatusSet ==
    ASSUME VersionInv, NEW q \in Catalog, NEW w \in DOMAIN offers[q], NEW status,
           offers' = [offers EXCEPT ![q][w].status = status]
    PROVE  \A p \in Catalog : \A v \in DOMAIN offers[p] :
             offers'[p][v].status \in {offers[p][v].status, status}
<1> DEFINE r == [offers[q][w] EXCEPT !.status = status]
           o == [offers[q] EXCEPT ![w] = r]
<1>1. r.status = status
  BY OffersType DEF OfferRecords
<1>2. offers' = [offers EXCEPT ![q] = o]
  OBVIOUS
<1> HIDE DEF r
<1>3. o[w] = r /\ \A u \in DOMAIN offers[q] : u # w => o[u] = offers[q][u]
  BY OffersType
<1> HIDE DEF o
<1>4. offers'[q] = o /\ \A p \in Catalog : p # q => offers'[p] = offers[p]
  BY <1>2, OffersType
<1> QED
  BY <1>1, <1>3, <1>4

LEMMA LinkInit ==
    OfferInit => LinkInv
<1> SUFFICES ASSUME OfferInit
             PROVE  LinkInv
  OBVIOUS
<1>1. PICK catalog \in Catalogs : /\ offers = [p \in catalog |-> <<>>]
                                  /\ publicationsOf = [p \in catalog |-> {}]
  BY DEF OfferInit
<1>2. Catalog = catalog
  BY <1>1 DEF Catalog
<1>3. /\ \A p \in Catalog : offers[p] = <<>> /\ publicationsOf[p] = {}
      /\ \A i \in Jobs : job[i].pc = "idle"
      /\ planner = NoOffer
  BY <1>1, <1>2 DEF OfferInit, IdleJob
<1>4. \A p \in Catalog : DOMAIN offers[p] = {}
  BY <1>3
<1> QED
  BY <1>3, <1>4, VersionInit DEF LinkInv

LEMMA CommitLinks ==
    ASSUME LinkInv, NEW i \in Jobs, CommitOffer(i), NEW p \in Catalog,
           NEW v, v \in DOMAIN offers'[p], offers'[p][v].status \in Sendable
    PROVE  offers'[p][v].link # NoLink
<1> DEFINE q == job[i].product
           w == job[i].version
<1>1. /\ VersionInv /\ VersionsStay
      /\ job[i].pc = "write" /\ q \in Catalog
      /\ w # 0 => w \in DOMAIN offers[q] /\ offers[q][w].link = job[i].link
      /\ w = 0 => ~ job[i].historical
      /\ job[i].price \in OfferPrices /\ job[i].link \in AffiliateUrls \cup {NoLink}
  BY WriteSteps DEF LinkInv, VersionInv, CommitOffer, GoodJob, JobRecords
<1>2. PICK accepted \in BOOLEAN :
        LET status == IF job[i].historical THEN offers[q][w].status
                      ELSE StatusFor(job[i].link, accepted)
            saved  == job[i].kind # "apply" \/ status = Ready
        IN  offers' =
              IF ~ saved THEN offers
              ELSE IF w = 0
              THEN [offers EXCEPT ![q] = Append(@,
                     [price |-> job[i].price, link |-> job[i].link, status |-> status])]
              ELSE [offers EXCEPT ![q][w].status = status]
  BY DEF CommitOffer
<1> DEFINE status == IF job[i].historical THEN offers[q][w].status
                     ELSE StatusFor(job[i].link, accepted)
           new == [price |-> job[i].price, link |-> job[i].link, status |-> status]
<1>3. ~ job[i].historical /\ status \in Sendable => job[i].link # NoLink
  BY DEF StatusFor, Sendable, Pending, Ready
<1>4. CASE UNCHANGED offers
  BY <1>4 DEF LinkInv
<1>5. CASE w = 0 /\ offers' = [offers EXCEPT ![q] = Append(@, new)]
  <2>1. status \in OfferStatuses
    BY <1>1, <1>5 DEF StatusFor, OfferStatuses, Pending, Ready
  <2> HIDE DEF status
  <2>2. new \in OfferRecords /\ new.link = job[i].link /\ new.status = status
    BY <1>1, <2>1 DEF OfferRecords
  <2> HIDE DEF new
  <2>3. /\ DOMAIN offers'[q] = DOMAIN offers[q] \cup {Len(offers[q]) + 1}
        /\ offers'[q][Len(offers[q]) + 1] = new
        /\ \A u \in Catalog : u # q => offers'[u] = offers[u]
        /\ \A u \in DOMAIN offers[q] : offers'[q][u] = offers[q][u]
    BY <1>1, <1>5, <2>2, AppendStays
  <2>4. CASE v \in DOMAIN offers[p]
    BY <2>3, <2>4 DEF LinkInv
  <2>5. CASE v \notin DOMAIN offers[p]
    BY <1>1, <1>3, <1>5, <2>2, <2>3, <2>5
  <2> QED
    BY <2>4, <2>5
<1>6. CASE w # 0 /\ offers' = [offers EXCEPT ![q][w].status = status]
  <2>0. status \in OfferStatuses
    BY <1>1, <1>6, OffersType DEF StatusFor, OfferStatuses, OfferRecords, Pending, Ready
  <2> HIDE DEF status
  <2>1. v \in DOMAIN offers[p]
    <3>1. DOMAIN offers'[p] = DOMAIN offers[p]
      BY <1>1, <1>6, OffersType
    <3> QED
      BY <3>1
  <2>2. offers'[p][v].link = offers[p][v].link
    BY <1>1, <2>1 DEF VersionsStay
  <2> DEFINE r == [offers[q][w] EXCEPT !.status = status]
             o == [offers[q] EXCEPT ![w] = r]
  <2>3. r.status = status
    BY <1>1, <1>6, OffersType DEF OfferRecords
  <2>4. offers' = [offers EXCEPT ![q] = o]
    BY <1>6
  <2> HIDE DEF r
  <2>5. o[w] = r /\ \A u \in DOMAIN offers[q] : u # w => o[u] = offers[q][u]
    BY <1>1, <1>6, OffersType
  <2> HIDE DEF o
  <2>6. offers'[q] = o /\ (p # q => offers'[p] = offers[p])
    BY <1>1, <2>4, OffersType
  <2>7. CASE p = q /\ v = w
    <3>1. status \in Sendable
      BY <2>3, <2>5, <2>6, <2>7
    <3>2. CASE job[i].historical
      <4>1. status = offers[p][v].status
        BY <2>7, <3>2 DEF status
      <4> QED
        BY <2>1, <2>2, <3>1, <4>1 DEF LinkInv
    <3>3. CASE ~ job[i].historical
      BY <1>1, <1>3, <1>6, <2>2, <2>7, <3>1, <3>3
    <3> QED
      BY <3>2, <3>3
  <2>8. CASE ~ (p = q /\ v = w)
    <3>1. offers'[p][v] = offers[p][v]
      BY <2>1, <2>5, <2>6, <2>8
    <3> QED
      BY <2>1, <3>1 DEF LinkInv
  <2> QED
    BY <2>7, <2>8
<1> QED
  BY <1>2, <1>4, <1>5, <1>6


\* Other steps reject a version, or give one with a link another status.
LEMMA OtherLinks ==
    ASSUME LinkInv, VersionsStay, NEW p \in Catalog, NEW v \in DOMAIN offers[p],
           offers'[p][v].status \in Sendable,
           \/ UNCHANGED offers
           \/ \E i \in Jobs : CheckCurrent(i) \/ RetirePending(i)
           \/ \E q \in Catalog, w \in 1 .. MaxVersions : DeliverOffer(q, w)
           \/ PlanPlace
    PROVE  offers'[p][v].link # NoLink
<1>1. /\ VersionInv
      /\ offers'[p][v].link = offers[p][v].link
      /\ offers[p][v].status \in Sendable => offers[p][v].link # NoLink
  BY DEF LinkInv, VersionsStay
<1>2. ASSUME NEW i \in Jobs, CheckCurrent(i)
      PROVE  offers[p][v].status \in Sendable
  <2>1. /\ job[i].product \in Catalog
        /\ job[i].version \in DOMAIN offers[job[i].product]
        /\ \/ UNCHANGED offers
           \/ offers' = [offers EXCEPT ![job[i].product][job[i].version].status = "REJECTED"]
    BY <1>1, <1>2 DEF CheckCurrent, VersionInv, GoodJob
  <2>2. offers'[p][v].status \in {offers[p][v].status, "REJECTED"}
    BY <1>1, <2>1, StatusSet
  <2> QED
    BY <2>2 DEF Sendable, Ready
<1>3. ASSUME NEW i \in Jobs, RetirePending(i)
      PROVE  offers[p][v].status \in Sendable
  <2> DEFINE q == job[i].product
             o == [w \in DOMAIN offers[q] |->
                    IF /\ Replaced(i, w)
                       /\ offers[q][w].status = Pending /\ offers[q][w].link = NoLink
                    THEN [offers[q][w] EXCEPT !.status = "REJECTED"] ELSE offers[q][w]]
  <2>1. offers' = [offers EXCEPT ![q] = o] /\ q \in Catalog
    BY <1>1, <1>3 DEF RetirePending, VersionInv, GoodJob
  <2>2. \A w \in DOMAIN offers[q] : o[w].status \in {offers[q][w].status, "REJECTED"}
    <3> SUFFICES ASSUME NEW w \in DOMAIN offers[q]
                 PROVE  o[w].status \in {offers[q][w].status, "REJECTED"}
      OBVIOUS
    <3>1. offers[q][w] \in OfferRecords
      BY <1>1, <2>1, OffersType
    <3>2. [offers[q][w] EXCEPT !.status = "REJECTED"].status = "REJECTED"
      BY <3>1 DEF OfferRecords
    <3>3. o[w] \in {offers[q][w], [offers[q][w] EXCEPT !.status = "REJECTED"]}
      OBVIOUS
    <3> HIDE DEF o
    <3> QED
      BY <3>2, <3>3
  <2> HIDE DEF o
  <2>3. offers'[p][v].status \in {offers[p][v].status, "REJECTED"}
    BY <1>1, <2>1, <2>2, OffersType
  <2> QED
    BY <2>3 DEF Sendable, Ready
<1>4. ASSUME NEW q \in Catalog, NEW w \in 1 .. MaxVersions, DeliverOffer(q, w)
      PROVE  offers[p][v].link # NoLink
  <2>1. /\ w \in DOMAIN offers[q] /\ offers[q][w].link # NoLink
        /\ offers' = [offers EXCEPT ![q][w].status = "PUBLISHED"]
    BY <1>1, <1>4 DEF DeliverOffer, LinkInv, VersionInv, OfferTypeOK
  <2>2. CASE p = q /\ v = w
    BY <2>1, <2>2
  <2>3. CASE p # q
    BY <1>1, <2>1, <2>3, OffersType
  <2>4. CASE p = q /\ v # w
    <3>1. offers'[p][v] = offers[p][v]
      BY <1>1, <2>1, <2>4, OffersType
    <3> QED
      BY <1>1, <3>1
  <2> QED
    BY <2>2, <2>3, <2>4
<1>5. ASSUME PlanPlace
      PROVE  offers[p][v].link # NoLink
  <2> DEFINE q == planner.product
             w == planner.version
  <2>1. /\ q \in Catalog /\ w \in DOMAIN offers[q] /\ offers[q][w].link # NoLink
        /\ offers' = [offers EXCEPT ![q][w].status = "SCHEDULED"]
    BY <1>1, <1>5 DEF PlanPlace, LinkInv, VersionInv
  <2> HIDE DEF q, w
  <2>2. CASE p = q /\ v = w
    BY <2>1, <2>2
  <2>3. CASE p # q
    BY <1>1, <2>1, <2>3, OffersType
  <2>4. CASE p = q /\ v # w
    <3>1. offers'[p][v] = offers[p][v]
      BY <1>1, <2>1, <2>4, OffersType
    <3> QED
      BY <1>1, <3>1
  <2> QED
    BY <2>2, <2>3, <2>4
<1> QED
  BY <1>1, <1>2, <1>3, <1>4, <1>5

LEMMA LinkStep ==
    LinkInv /\ [OfferNext]_offerVars => LinkInv'
<1> SUFFICES ASSUME LinkInv, [OfferNext]_offerVars
             PROVE  LinkInv'
  OBVIOUS
<1>1. VersionInv /\ VersionInv' /\ VersionsStay /\ Catalog' = Catalog
  BY VersionStep DEF LinkInv, VersionsStay, Catalog
<1>2. /\ job \in [Jobs -> JobRecords]
      /\ \A i \in Jobs : GoodJob(job[i])
      /\ publicationsOf \in [Catalog -> SUBSET Nat]
      /\ \A p \in Catalog : publicationsOf[p] \subseteq DOMAIN offers[p]
      /\ planner # NoOffer => /\ planner.product \in Catalog
                              /\ planner.version \in DOMAIN offers[planner.product]
  BY <1>1 DEF VersionInv, OfferTypeOK, JobRecords
<1>3. \/ UNCHANGED offers
      \/ \E i \in Jobs : CommitOffer(i) \/ CheckCurrent(i) \/ RetirePending(i)
      \/ \E q \in Catalog, w \in 1 .. MaxVersions : DeliverOffer(q, w)
      \/ PlanPlace
  BY <1>1, OffersChange
<1>4. ASSUME NEW p \in Catalog, NEW v \in DOMAIN offers'[p], offers'[p][v].status \in Sendable
      PROVE  offers'[p][v].link # NoLink
  <2>1. CASE \E i \in Jobs : CommitOffer(i)
    BY <1>4, <2>1, CommitLinks
  <2>2. CASE ~ \E i \in Jobs : CommitOffer(i)
    <3>1. v \in DOMAIN offers[p]
      BY <1>1, <1>4, <2>2, CountStays
    <3> QED
      BY <1>1, <1>3, <1>4, <2>2, <3>1, OtherLinks
  <2> QED
    BY <2>1, <2>2
<1>5. ASSUME NEW p \in Catalog, NEW v \in publicationsOf'[p]
      PROVE  offers'[p][v].link # NoLink
  <2>1. v \in DOMAIN offers[p] /\ offers[p][v].link # NoLink
    <3>1. CASE PlanPlace
      <4>1. v \in publicationsOf[p] \/ (p = planner.product /\ v = planner.version)
        BY <1>2, <1>5, <3>1 DEF PlanPlace
      <4>2. planner # NoOffer
        BY <3>1 DEF PlanPlace
      <4> QED
        BY <1>2, <4>1, <4>2 DEF LinkInv
    <3>2. CASE UNCHANGED publicationsOf
      BY <1>2, <1>5, <3>2 DEF LinkInv
    <3>3. PlanPlace \/ UNCHANGED publicationsOf
      <4>1. ASSUME NEW i \in Jobs, NEW q \in Catalog,
                   \/ DiscoverOffer(i, q) \/ PreviewRow(i, q) \/ PersistWinner(i, q) \/ RequestLink(i, q)
                   \/ \E w \in 1 .. MaxVersions : SelectRefresh(i, q, w) \/ SelectPending(i, q, w)
            PROVE  UNCHANGED publicationsOf
        BY <4>1 DEF DiscoverOffer, PreviewRow, PersistWinner, RequestLink, SelectRefresh, SelectPending
      <4>2. ASSUME NEW i \in Jobs,
                   \/ LockAccount(i) \/ Enrich(i) \/ ReadRow(i) \/ ResolveLink(i) \/ TakeAdvisory(i)
                   \/ LookForProduct(i) \/ UpsertProduct(i) \/ FindOffer(i) \/ JobFails(i)
            PROVE  UNCHANGED publicationsOf
        BY <4>2 DEF LockAccount, Enrich, ReadRow, ResolveLink, TakeAdvisory, LookForProduct,
           UpsertProduct, FindOffer, JobFails
      <4>3. ASSUME NEW i \in Jobs, CheckCurrent(i) \/ CommitOffer(i) \/ RetirePending(i)
            PROVE  UNCHANGED publicationsOf
        BY <4>3 DEF CheckCurrent, CommitOffer, RetirePending
      <4>4. ASSUME \/ UNCHANGED offerVars \/ AccountLockLapses
                   \/ \E q \in Catalog, w \in 1 .. MaxVersions : PlanSelect(q, w) \/ DeliverOffer(q, w)
            PROVE  UNCHANGED publicationsOf
        BY <4>4 DEF offerVars, AccountLockLapses, PlanSelect, DeliverOffer
      <4> QED
        BY <1>1, <4>1, <4>2, <4>3, <4>4, Steps
    <3> QED
      BY <3>1, <3>2, <3>3
  <2> QED
    BY <1>1, <2>1 DEF VersionsStay
<1>6. planner' # NoOffer => offers'[planner'.product][planner'.version].link # NoLink
  <2>1. ASSUME NEW q \in Catalog, NEW w \in 1 .. MaxVersions, PlanSelect(q, w)
        PROVE  offers'[planner'.product][planner'.version].link # NoLink
    <3>1. /\ planner'.product = q /\ planner'.version = w
          /\ w \in DOMAIN offers[q] /\ offers[q][w].status = Ready
          /\ UNCHANGED offers
      BY <2>1 DEF PlanSelect
    <3> QED
      BY <3>1 DEF LinkInv, Sendable
  <2>2. CASE UNCHANGED planner
    <3>1. planner # NoOffer => offers[planner.product][planner.version].link # NoLink
      BY DEF LinkInv
    <3> QED
      BY <1>1, <1>2, <2>2, <3>1 DEF VersionsStay, NoOffer
  <2>3. PlanPlace => planner' = NoOffer
    BY DEF PlanPlace, NoOffer
  <2>4. \/ PlanPlace \/ UNCHANGED planner
        \/ \E q \in Catalog, w \in 1 .. MaxVersions : PlanSelect(q, w)
    <3>1. ASSUME NEW i \in Jobs, NEW q \in Catalog,
                 \/ DiscoverOffer(i, q) \/ PreviewRow(i, q) \/ PersistWinner(i, q) \/ RequestLink(i, q)
                 \/ \E w \in 1 .. MaxVersions : SelectRefresh(i, q, w) \/ SelectPending(i, q, w)
          PROVE  UNCHANGED planner
      BY <3>1 DEF DiscoverOffer, PreviewRow, PersistWinner, RequestLink, SelectRefresh, SelectPending
    <3>2. ASSUME NEW i \in Jobs,
                 \/ LockAccount(i) \/ Enrich(i) \/ ReadRow(i) \/ ResolveLink(i) \/ TakeAdvisory(i)
                 \/ LookForProduct(i) \/ UpsertProduct(i) \/ FindOffer(i) \/ JobFails(i)
          PROVE  UNCHANGED planner
      BY <3>2 DEF LockAccount, Enrich, ReadRow, ResolveLink, TakeAdvisory, LookForProduct,
         UpsertProduct, FindOffer, JobFails
    <3>3. ASSUME NEW i \in Jobs, CheckCurrent(i) \/ CommitOffer(i) \/ RetirePending(i)
          PROVE  UNCHANGED planner
      BY <3>3 DEF CheckCurrent, CommitOffer, RetirePending
    <3>4. ASSUME \/ UNCHANGED offerVars \/ AccountLockLapses
                 \/ \E q \in Catalog, w \in 1 .. MaxVersions : DeliverOffer(q, w)
          PROVE  UNCHANGED planner
      BY <3>4 DEF offerVars, AccountLockLapses, DeliverOffer
    <3> QED
      BY <1>1, <3>1, <3>2, <3>3, <3>4, Steps
  <2> QED
    BY <2>1, <2>2, <2>3, <2>4
<1>7. ASSUME NEW j \in Jobs, job'[j].pc = "write", job'[j].version # 0
      PROVE  offers'[job'[j].product][job'[j].version].link = job'[j].link
  <2>1. CASE FindOffer(j)
    <3> DEFINE p == job[j].product
               found == {v \in DOMAIN offers[p] :
                           HasFacts(offers[p][v], job[j].price, job[j].link)}
               w == IF found = {} THEN 0 ELSE Min(found)
    <3>1. p \in Catalog
      BY <1>2, <2>1 DEF FindOffer, GoodJob
    <3>2. /\ job'[j].version = w /\ job'[j].product = p
          /\ job'[j].link = job[j].link /\ offers' = offers
      BY <1>2, <2>1 DEF FindOffer, JobRecords
    <3>3. w # 0 => w \in found
      <4>1. found \in SUBSET DOMAIN offers[p]
        OBVIOUS
      <4> QED
        BY <1>1, <3>1, <4>1, Chosen
    <3>4. w # 0 => offers[p][w].link = job[j].link
      BY <3>3 DEF HasFacts
    <3> HIDE DEF w
    <3> QED
      BY <1>7, <3>2, <3>4
  <2>2. CASE job'[j] = job[j]
    <3>1. /\ job[j].product \in Catalog /\ job[j].version \in DOMAIN offers[job[j].product]
          /\ offers[job[j].product][job[j].version].link = job[j].link
      BY <1>2, <1>7, <2>2 DEF LinkInv, GoodJob
    <3> QED
      BY <1>1, <2>2, <3>1 DEF VersionsStay
  <2> QED
    BY <1>1, <1>7, <2>1, <2>2, ToWrite
<1> QED
  BY <1>1, <1>4, <1>5, <1>6, <1>7 DEF LinkInv

(* An offer that may be sent has its link, for any number of jobs that        *)
(* collect, link, refresh and retire versions while the planner and the       *)
(* deliveries change their statuses without a lock.                           *)
THEOREM ReadyHasLinkCorrect == OfferSpec => []ReadyHasLink
<1>1. LinkInv => ReadyHasLink
  BY DEF LinkInv, ReadyHasLink, Sendable
<1> QED
  BY LinkInit, LinkStep, <1>1, PTL DEF OfferSpec


-----------------------------------------------------------------------------
\* Part 5: the link of a Shopee product.

Locked == {"look", "product", "find", "write"}

\* Where the jobs of Shopee products can be.
ShopeeJob(r) ==
  r.pc # "idle" /\ r.product \in ShopeeProducts =>
    r.kind \in {"winner", "apply"} /\ r.pc \in {"resolve", "advisory"} \cup Locked

AdvisoryInv ==
  /\ VersionInv
  /\ \A i \in Jobs : ShopeeJob(job[i])
  /\ \A i \in Jobs : job[i].pc \in Locked /\ job[i].product \in ShopeeProducts =>
       /\ advisoryLock[job[i].product] = i
       /\ \A k \in KnownLinks(job[i].product) : job[i].link = k
  /\ \A p \in Catalog \cap ShopeeProducts : \A k, l \in KnownLinks(p) : k = l

\* What a step does to a job of a Shopee product.
LEMMA ShopeeMoves ==
    ASSUME AdvisoryInv, [OfferNext]_offerVars, NEW j \in Jobs
    PROVE  \/ job'[j] = job[j]
           \/ job'[j].pc = "idle"
           \/ job'[j].product \in MeliProducts
           \/ /\ job'[j].pc \in {"resolve", "advisory"}
              /\ job'[j].kind \in {"winner", "apply"}
           \/ /\ job[j].pc \in Locked /\ job'[j].pc \in Locked
              /\ job'[j].product = job[j].product
              /\ job'[j].link = job[j].link /\ job'[j].kind = job[j].kind
           \/ /\ TakeAdvisory(j) /\ job[j].pc = "advisory"
              /\ job'[j].pc = "look" /\ job'[j].kind = job[j].kind
              /\ job'[j].product = job[j].product
              /\ advisoryLock'[job[j].product] = j
              /\ KnownLinks(job[j].product) # {} =>
                   job'[j].link \in KnownLinks(job[j].product)
<1>1. /\ VersionInv
      /\ job \in [Jobs -> JobRecords]
      /\ advisoryLock \in [Catalog -> Jobs \cup {NoJob}]
      /\ IdleJob.pc = "idle"
      /\ \A i \in Jobs : GoodJob(job[i]) /\ ShopeeJob(job[i])
      /\ Catalog \subseteq MeliProducts \cup ShopeeProducts
  BY OffersType DEF AdvisoryInv, VersionInv, OfferTypeOK, JobRecords, IdleJob
<1>2. ASSUME NEW i \in Jobs, NEW p \in Catalog,
             \/ DiscoverOffer(i, p) \/ PreviewRow(i, p) \/ PersistWinner(i, p) \/ RequestLink(i, p)
             \/ \E v \in 1 .. MaxVersions : SelectRefresh(i, p, v) \/ SelectPending(i, p, v)
      PROVE  \/ job'[j] = job[j] \/ job'[j].product \in MeliProducts
             \/ /\ job'[j].pc \in {"resolve", "advisory"}
                /\ job'[j].kind \in {"winner", "apply"}
  <2>1. \E kind, pc, price, link, version :
          /\ Begin(i, kind, pc, p, price, link, version)
          /\ \/ p \in MeliProducts
             \/ pc \in {"resolve", "advisory"} /\ kind \in {"winner", "apply"}
    BY <1>2 DEF DiscoverOffer, PreviewRow, PersistWinner, RequestLink, SelectRefresh, SelectPending
  <2> QED
    BY <1>1, <2>1 DEF Begin, IdleJob
<1>3. ASSUME NEW i \in Jobs, JobFails(i) \/ RetirePending(i)
      PROVE  job'[j] = job[j] \/ job'[j].pc = "idle"
  BY <1>1, <1>3 DEF JobFails, RetirePending, EndsJob
<1>4. ASSUME NEW i \in Jobs, LockAccount(i) \/ CheckCurrent(i)
      PROVE  job'[j] = job[j] \/ job'[j].pc = "idle" \/ job'[j].product \in MeliProducts
  <2>1. job[i].pc \in {"account", "current"}
    BY <1>4 DEF LockAccount, CheckCurrent
  <2>2. job[i].product \in MeliProducts
    BY <1>1, <2>1 DEF ShopeeJob, GoodJob, Locked
  <2>3. \/ \E pc : job' = [job EXCEPT ![i].pc = pc]
        \/ job' = [job EXCEPT ![i] = IdleJob]
    BY <1>4 DEF LockAccount, CheckCurrent, Goes
  <2> QED
    BY <1>1, <2>2, <2>3 DEF JobRecords
<1>5. ASSUME NEW i \in Jobs, Enrich(i)
      PROVE  job'[j] = job[j] \/ job'[j].product \in MeliProducts
  <2>1. job[i].pc = "enrich"
    BY <1>5 DEF Enrich
  <2>2. job[i].product \in MeliProducts
    BY <1>1, <2>1 DEF ShopeeJob, GoodJob, Locked
  <2>3. \E link : job' = [job EXCEPT ![i].link = link, ![i].pc = "look"]
    BY <1>5 DEF Enrich
  <2> QED
    BY <1>1, <2>2, <2>3 DEF JobRecords
<1>13. ASSUME NEW i \in Jobs, ReadRow(i)
       PROVE  job'[j] = job[j] \/ job'[j].product \in MeliProducts
  <2>1. job[i].pc = "row"
    BY <1>13 DEF ReadRow
  <2>2. job[i].product \in MeliProducts
    BY <1>1, <2>1 DEF ShopeeJob, GoodJob, Locked
  <2>3. \E price, n :
          job' = [job EXCEPT ![i].price = price, ![i].previous = n, ![i].pc = "look"]
    BY <1>13 DEF ReadRow
  <2> QED
    BY <1>1, <2>2, <2>3 DEF JobRecords
<1>6. ASSUME NEW i \in Jobs, ResolveLink(i)
      PROVE  \/ job'[j] = job[j] \/ job'[j].product \in MeliProducts
             \/ /\ job'[j].pc \in {"resolve", "advisory"}
                /\ job'[j].kind \in {"winner", "apply"}
  <2>1. /\ job[i].pc = "resolve"
        /\ \E url : job' = [job EXCEPT ![i].link = url, ![i].pc = "advisory"]
    BY <1>6 DEF ResolveLink
  <2>2. job[i].product \in MeliProducts \/ job[i].kind \in {"winner", "apply"}
    BY <1>1, <2>1 DEF ShopeeJob, GoodJob
  <2> QED
    BY <1>1, <2>1, <2>2 DEF JobRecords
<1>7. ASSUME NEW i \in Jobs, TakeAdvisory(i)
      PROVE  \/ job'[j] = job[j] \/ job'[j].pc = "idle"
             \/ /\ i = j /\ job[j].pc = "advisory"
                /\ job'[j].pc = "look" /\ job'[j].kind = job[j].kind
                /\ job'[j].product = job[j].product
                /\ advisoryLock'[job[j].product] = j
                /\ KnownLinks(job[j].product) # {} =>
                     job'[j].link \in KnownLinks(job[j].product)
  <2> DEFINE p    == job[i].product
             link == IF Reusable(p) = NoLink THEN job[i].link ELSE Reusable(p)
  <2>1. \/ /\ \E price :
                job' = [job EXCEPT ![i].pc = "look", ![i].price = price, ![i].link = link]
           /\ advisoryLock' = [advisoryLock EXCEPT ![p] = i]
        \/ job' = [job EXCEPT ![i] = IdleJob]
    BY <1>7 DEF TakeAdvisory
  <2>2. job[i].pc = "advisory" /\ p \in Catalog
    BY <1>1, <1>7 DEF TakeAdvisory, GoodJob
  <2>3. KnownLinks(p) # {} => link \in KnownLinks(p)
    <3>1. KnownLinks(p) # {} => Reusable(p) \in KnownLinks(p)
      BY <1>1, <2>2, Chosen
    <3>2. NoLink \notin KnownLinks(p)
      BY DEF KnownLinks
    <3> QED
      BY <3>1, <3>2
  <2>4. CASE job' = [job EXCEPT ![i] = IdleJob]
    BY <1>1, <2>4
  <2>5. ASSUME NEW price,
               job' = [job EXCEPT ![i].pc = "look", ![i].price = price, ![i].link = link]
        PROVE  /\ i # j => job'[j] = job[j]
               /\ job'[i].pc = "look" /\ job'[i].kind = job[i].kind
               /\ job'[i].product = p /\ job'[i].link = link
    <3> HIDE DEF link
    <3> QED
      BY <1>1, <2>5 DEF JobRecords
  <2>6. advisoryLock' = [advisoryLock EXCEPT ![p] = i] => advisoryLock'[p] = i
    BY <1>1, <2>2
  <2> HIDE DEF link
  <2>7. CASE job' = [job EXCEPT ![i] = IdleJob]
    BY <2>4, <2>7
  <2>8. ASSUME NEW price, advisoryLock' = [advisoryLock EXCEPT ![p] = i],
               job' = [job EXCEPT ![i].pc = "look", ![i].price = price, ![i].link = link],
               i = j
        PROVE  /\ job[j].pc = "advisory"
               /\ job'[j].pc = "look" /\ job'[j].kind = job[j].kind
               /\ job'[j].product = job[j].product
               /\ advisoryLock'[job[j].product] = j
               /\ KnownLinks(job[j].product) # {} =>
                    job'[j].link \in KnownLinks(job[j].product)
    BY <2>2, <2>3, <2>5, <2>6, <2>8
  <2> QED
    BY <2>1, <2>5, <2>7, <2>8
<1>8. ASSUME NEW i \in Jobs, LookForProduct(i)
      PROVE  \/ job'[j] = job[j]
             \/ /\ job[j].pc \in Locked /\ job'[j].pc \in Locked
                /\ job'[j].product = job[j].product
                /\ job'[j].link = job[j].link /\ job'[j].kind = job[j].kind
  <2>1. /\ \E e : job' = [job EXCEPT ![i].existed = e, ![i].pc = "product"]
        /\ job[i].pc = "look"
    BY <1>8 DEF LookForProduct
  <2> QED
    BY <1>1, <2>1 DEF JobRecords, Locked
<1>9. ASSUME NEW i \in Jobs, UpsertProduct(i)
      PROVE  \/ job'[j] = job[j] \/ job'[j].pc = "idle"
             \/ /\ job[j].pc \in Locked /\ job'[j].pc \in Locked
                /\ job'[j].product = job[j].product
                /\ job'[j].link = job[j].link /\ job'[j].kind = job[j].kind
  <2>1. /\ \/ job' = [job EXCEPT ![i].existed = FALSE, ![i].pc = "find"]
           \/ job' = [job EXCEPT ![i].pc = "look"]
           \/ job' = [job EXCEPT ![i] = IdleJob]
        /\ job[i].pc = "product"
    BY <1>9 DEF UpsertProduct, Goes, EndsJob
  <2> QED
    BY <1>1, <2>1 DEF JobRecords, Locked
<1>10. ASSUME NEW i \in Jobs, FindOffer(i)
       PROVE  \/ job'[j] = job[j]
              \/ /\ job[j].pc \in Locked /\ job'[j].pc \in Locked
                 /\ job'[j].product = job[j].product
                 /\ job'[j].link = job[j].link /\ job'[j].kind = job[j].kind
  BY <1>1, <1>10 DEF FindOffer, JobRecords, Locked
<1>11. ASSUME NEW i \in Jobs, CommitOffer(i)
       PROVE  job'[j] = job[j] \/ job'[j].pc = "idle" \/ job'[j].product \in MeliProducts
  <2>1. CASE i # j
    BY <1>1, <1>11, <2>1, CommitEnds
  <2>2. CASE job[i].product \in MeliProducts
    <3>1. \/ \E kind, version, previous :
               job' = [job EXCEPT ![i] = [IdleJob EXCEPT
                         !.kind = kind, !.product = job[i].product, !.pc = "retire",
                         !.version = version, !.previous = previous]]
          \/ job' = [job EXCEPT ![i] = IdleJob]
      BY <1>11 DEF CommitOffer, EndsJob
    <3>2. "product" \in DOMAIN IdleJob
      BY DEF IdleJob
    <3>3. \E r : /\ job' = [job EXCEPT ![i] = r]
                 /\ r.product \in MeliProducts \/ r.pc = "idle"
      BY <1>1, <2>2, <3>1, <3>2
    <3> QED
      BY <1>1, <3>3
  <2>3. CASE job[i].product \notin MeliProducts
    <3>1. job[i].pc = "write" /\ job[i].product \in Catalog
      BY <1>1, <1>11 DEF CommitOffer, GoodJob
    <3>2. job[i].kind \in {"winner", "apply"}
      BY <1>1, <2>3, <3>1 DEF ShopeeJob
    <3>3. job' = [job EXCEPT ![i] = IdleJob]
      BY <1>11, <3>2 DEF CommitOffer, EndsJob, Replaces
    <3> QED
      BY <1>1, <3>3
  <2> QED
    BY <2>1, <2>2, <2>3
<1>12. ASSUME \/ UNCHANGED offerVars \/ PlanPlace \/ AccountLockLapses
              \/ \E p \in Catalog, v \in 1 .. MaxVersions : PlanSelect(p, v) \/ DeliverOffer(p, v)
       PROVE  job'[j] = job[j]
  BY <1>12 DEF offerVars, PlanPlace, AccountLockLapses, PlanSelect, DeliverOffer
<1> QED
  BY <1>1, <1>2, <1>3, <1>4, <1>5, <1>6, <1>7, <1>8, <1>9, <1>10, <1>11, <1>12, <1>13, Steps

\* The advisory lock is only given back by the job that has it, which stops.
LEMMA AdvisoryStays ==
    ASSUME VersionInv, [OfferNext]_offerVars, NEW j \in Jobs, NEW p \in Catalog,
           advisoryLock[p] = j, job'[j].pc \in Locked
    PROVE  advisoryLock'[p] = j
<1>1. /\ job \in [Jobs -> JobRecords]
      /\ advisoryLock \in [Catalog -> Jobs \cup {NoJob}]
      /\ IdleJob.pc = "idle" /\ NoJob \notin Jobs
      /\ \A i \in Jobs : GoodJob(job[i])
      /\ "idle" \notin Locked /\ "retire" \notin Locked
  BY OfferAssumption DEF VersionInv, OfferTypeOK, JobRecords, IdleJob, Locked
<1>2. ASSUME NEW i \in Jobs, TakeAdvisory(i)
      PROVE  advisoryLock'[p] = j
  <2>1. /\ advisoryLock[job[i].product] = NoJob
        /\ \/ advisoryLock' = [advisoryLock EXCEPT ![job[i].product] = i]
           \/ UNCHANGED advisoryLock
    BY <1>2 DEF TakeAdvisory
  <2>2. job[i].product # p
    BY <1>1, <2>1
  <2> QED
    BY <1>1, <2>1, <2>2
<1>3. ASSUME NEW i \in Jobs, UpsertProduct(i)
      PROVE  advisoryLock'[p] = j
  <2>1. \/ UNCHANGED advisoryLock
        \/ /\ job' = [job EXCEPT ![i] = IdleJob]
           /\ advisoryLock' = Unlocked(advisoryLock, i)
    BY <1>3 DEF UpsertProduct, EndsTransaction, EndsJob
  <2> QED
    BY <1>1, <2>1 DEF Unlocked
<1>4. ASSUME NEW i \in Jobs, CommitOffer(i)
      PROVE  advisoryLock'[p] = j
  <2>1. job'[i].pc \notin Locked
    BY <1>1, <1>4, CommitEnds
  <2>2. advisoryLock' = Unlocked(advisoryLock, i)
    BY <1>4 DEF CommitOffer, EndsTransaction
  <2> QED
    BY <1>1, <2>1, <2>2 DEF Unlocked
<1>5. ASSUME NEW i \in Jobs, JobFails(i)
      PROVE  advisoryLock'[p] = j
  BY <1>1, <1>5 DEF JobFails, EndsJob, EndsTransaction, Unlocked
<1>6. ASSUME NEW i \in Jobs, NEW q \in Catalog,
             \/ DiscoverOffer(i, q) \/ PreviewRow(i, q) \/ PersistWinner(i, q) \/ RequestLink(i, q)
             \/ \E v \in 1 .. MaxVersions : SelectRefresh(i, q, v) \/ SelectPending(i, q, v)
      PROVE  UNCHANGED advisoryLock
  BY <1>6 DEF DiscoverOffer, PreviewRow, PersistWinner, RequestLink, SelectRefresh, SelectPending
<1>7. ASSUME NEW i \in Jobs,
             \/ LockAccount(i) \/ Enrich(i) \/ ReadRow(i) \/ ResolveLink(i)
             \/ LookForProduct(i) \/ FindOffer(i) \/ CheckCurrent(i) \/ RetirePending(i)
      PROVE  UNCHANGED advisoryLock
  BY <1>7 DEF LockAccount, Enrich, ReadRow, ResolveLink, LookForProduct, FindOffer, CheckCurrent,
     RetirePending
<1>8. ASSUME \/ UNCHANGED offerVars \/ PlanPlace \/ AccountLockLapses
             \/ \E q \in Catalog, v \in 1 .. MaxVersions : PlanSelect(q, v) \/ DeliverOffer(q, v)
      PROVE  UNCHANGED advisoryLock
  BY <1>8 DEF offerVars, PlanPlace, AccountLockLapses, PlanSelect, DeliverOffer
<1> QED
  BY <1>2, <1>3, <1>4, <1>5, <1>6, <1>7, <1>8, Steps

\* A commit adds at most the link of its job to the links of its product.
LEMMA LinksAdded ==
    ASSUME VersionInv, [OfferNext]_offerVars, NEW p \in Catalog
    PROVE  \/ KnownLinks(p)' = KnownLinks(p)
           \/ \E i \in Jobs : /\ CommitOffer(i) /\ job[i].product = p
                              /\ KnownLinks(p)' \subseteq KnownLinks(p) \cup {job[i].link}
<1>1. VersionsStay
  BY VersionStep
<1>2. ASSUME DOMAIN offers'[p] = DOMAIN offers[p]
      PROVE  KnownLinks(p)' = KnownLinks(p)
  BY <1>1, <1>2 DEF KnownLinks, VersionsStay
<1>3. ASSUME NEW i \in Jobs, CommitOffer(i), job[i].product = p
      PROVE  KnownLinks(p)' \subseteq KnownLinks(p) \cup {job[i].link}
  <2> DEFINE v == job[i].version
  <2>1. /\ job[i].pc = "write" /\ job[i].price \in OfferPrices
        /\ job[i].link \in AffiliateUrls \cup {NoLink}
        /\ v # 0 => v \in DOMAIN offers[p]
        /\ v = 0 => ~ job[i].historical
    BY <1>3 DEF CommitOffer, VersionInv, GoodJob, JobRecords
  <2>2. PICK accepted \in BOOLEAN :
          LET status == IF job[i].historical THEN offers[p][v].status
                        ELSE StatusFor(job[i].link, accepted)
              saved  == job[i].kind # "apply" \/ status = Ready
          IN  offers' =
                IF ~ saved THEN offers
                ELSE IF v = 0
                THEN [offers EXCEPT ![p] = Append(@,
                       [price |-> job[i].price, link |-> job[i].link, status |-> status])]
                ELSE [offers EXCEPT ![p][v].status = status]
    BY <1>3 DEF CommitOffer
  <2> DEFINE status == IF job[i].historical THEN offers[p][v].status
                       ELSE StatusFor(job[i].link, accepted)
             new == [price |-> job[i].price, link |-> job[i].link, status |-> status]
  <2>3. CASE v # 0
    <3>1. DOMAIN offers'[p] = DOMAIN offers[p]
      BY <2>1, <2>2, <2>3, OffersType
    <3> QED
      BY <1>2, <3>1
  <2>4. CASE UNCHANGED offers
    BY <1>2, <2>4
  <2>5. CASE v = 0 /\ offers' = [offers EXCEPT ![p] = Append(@, new)]
    <3>1. status \in OfferStatuses
      BY <2>1, <2>5 DEF StatusFor, OfferStatuses, Pending, Ready
    <3> HIDE DEF status
    <3>2. new \in OfferRecords /\ new.link = job[i].link
      BY <2>1, <3>1 DEF OfferRecords
    <3> HIDE DEF new
    <3>3. /\ DOMAIN offers'[p] = DOMAIN offers[p] \cup {Len(offers[p]) + 1}
          /\ offers'[p][Len(offers[p]) + 1] = new
          /\ \A u \in DOMAIN offers[p] : offers'[p][u] = offers[p][u]
      BY <2>5, <3>2, AppendStays
    <3>4. \A u \in DOMAIN offers'[p] :
            \/ offers'[p][u].link = job[i].link
            \/ u \in DOMAIN offers[p] /\ offers'[p][u].link = offers[p][u].link
      BY <3>2, <3>3
    <3> QED
      BY <3>4 DEF KnownLinks
  <2> QED
    BY <2>2, <2>3, <2>4, <2>5
<1> QED
  BY <1>2, <1>3, CountStays

LEMMA AdvisoryInit ==
    OfferInit => AdvisoryInv
<1> SUFFICES ASSUME OfferInit
             PROVE  AdvisoryInv
  OBVIOUS
<1>1. PICK catalog \in Catalogs : offers = [p \in catalog |-> <<>>]
  BY DEF OfferInit
<1>2. Catalog = catalog
  BY <1>1 DEF Catalog
<1>3. \A p \in Catalog : KnownLinks(p) = {}
  <2>1. \A p \in Catalog : offers[p] = <<>>
    BY <1>1, <1>2
  <2>2. \A p \in Catalog : DOMAIN offers[p] = {}
    BY <2>1
  <2> QED
    BY <2>2 DEF KnownLinks
<1>4. \A i \in Jobs : job[i].pc = "idle"
  BY DEF OfferInit, IdleJob
<1> QED
  BY <1>3, <1>4, VersionInit DEF AdvisoryInv, ShopeeJob, Locked

LEMMA AdvisoryStep ==
    AdvisoryInv /\ [OfferNext]_offerVars => AdvisoryInv'
<1> SUFFICES ASSUME AdvisoryInv, [OfferNext]_offerVars
             PROVE  AdvisoryInv'
  OBVIOUS
<1>1. VersionInv /\ VersionInv' /\ VersionsStay /\ Catalog' = Catalog
  BY VersionStep DEF AdvisoryInv, VersionsStay, Catalog
<1>2. /\ job \in [Jobs -> JobRecords]
      /\ \A i \in Jobs : GoodJob(job[i])
      /\ MeliProducts \cap ShopeeProducts = {}
      /\ "idle" \notin Locked /\ "look" \in Locked
      /\ "resolve" \notin Locked /\ "advisory" \notin Locked
  BY <1>1, OfferAssumption DEF VersionInv, OfferTypeOK, JobRecords, Locked
<1>3. ASSUME NEW j \in Jobs
      PROVE  ShopeeJob(job[j])'
  <2>1. ShopeeJob(job[j])
    BY DEF AdvisoryInv
  <2>2. job'[j].pc # "idle" /\ job'[j].product \in ShopeeProducts =>
          /\ job'[j].kind \in {"winner", "apply"}
          /\ job'[j].pc \in {"resolve", "advisory"} \cup Locked
    BY <1>2, <2>1, ShopeeMoves DEF ShopeeJob
  <2> QED
    BY <2>2 DEF ShopeeJob
<1>4. ASSUME NEW i \in Jobs, CommitOffer(i), job[i].product \in ShopeeProducts
      PROVE  /\ job[i].pc = "write" /\ job[i].product \in Catalog
             /\ advisoryLock[job[i].product] = i
             /\ \A k \in KnownLinks(job[i].product) : job[i].link = k
             /\ job'[i].pc \notin Locked
  BY <1>1, <1>2, <1>4, CommitEnds DEF AdvisoryInv, GoodJob, Locked
<1>5. ASSUME NEW j \in Jobs, job'[j].pc \in Locked, job'[j].product \in ShopeeProducts
      PROVE  (/\ advisoryLock[job[j].product] = j
              /\ \A k \in KnownLinks(job[j].product) : job[j].link = k)'
  <2>1. PICK p : p = job'[j].product
    OBVIOUS
  <2>2. CASE job'[j] = job[j] \/ (/\ job[j].pc \in Locked /\ job'[j].pc \in Locked
                                  /\ job'[j].product = job[j].product
                                  /\ job'[j].link = job[j].link)
    <3>1. /\ p \in Catalog /\ advisoryLock[p] = j /\ p \in ShopeeProducts
          /\ job'[j].link = job[j].link
          /\ \A k \in KnownLinks(p) : job[j].link = k
      <4>1. /\ p = job[j].product /\ job[j].pc \in Locked
            /\ job'[j].link = job[j].link
        BY <1>5, <2>1, <2>2
      <4>2. /\ p \in ShopeeProducts /\ job[j].product \in Catalog
        BY <1>2, <1>5, <2>1, <4>1 DEF GoodJob
      <4>3. /\ advisoryLock[job[j].product] = j
            /\ \A k \in KnownLinks(job[j].product) : job[j].link = k
        BY <4>1, <4>2 DEF AdvisoryInv
      <4> QED
        BY <4>1, <4>2, <4>3 DEF KnownLinks
    <3>2. advisoryLock'[p] = j
      BY <1>1, <1>5, <3>1, AdvisoryStays
    <3>3. \A i \in Jobs : ~ (CommitOffer(i) /\ job[i].product = p)
      BY <1>4, <1>5, <3>1
    <3>4. KnownLinks(p)' = KnownLinks(p)
      BY <1>1, <3>1, <3>3, LinksAdded
    <3>5. \A k \in KnownLinks(p)' : job'[j].link = k
      BY <3>1, <3>4
    <3> QED
      BY <2>1, <3>2, <3>5 DEF KnownLinks
  <2>3. CASE /\ TakeAdvisory(j) /\ job[j].pc = "advisory"
             /\ job'[j].product = job[j].product
             /\ advisoryLock'[job[j].product] = j
             /\ KnownLinks(job[j].product) # {} =>
                  job'[j].link \in KnownLinks(job[j].product)
    <3>1. p \in Catalog /\ p \in ShopeeProducts /\ p = job[j].product
      BY <1>2, <1>5, <2>1, <2>3 DEF GoodJob
    <3>2. UNCHANGED offers
      BY <2>3 DEF TakeAdvisory
    <3>3. KnownLinks(p) # {} => job'[j].link \in KnownLinks(p)
      BY <2>3, <3>1 DEF KnownLinks
    <3>4. \A k \in KnownLinks(p) : job'[j].link = k
      BY <3>1, <3>3 DEF AdvisoryInv
    <3>5. \A k \in KnownLinks(p)' : job'[j].link = k
      BY <3>2, <3>4 DEF KnownLinks
    <3> QED
      BY <2>1, <2>3, <3>1, <3>5 DEF KnownLinks
  <2> QED
    BY <1>2, <1>5, <2>2, <2>3, ShopeeMoves
<1>6. ASSUME NEW p \in Catalog \cap ShopeeProducts
      PROVE  \A k, l \in KnownLinks(p)' : k = l
  <2>1. \A k, l \in KnownLinks(p) : k = l
    BY DEF AdvisoryInv
  <2>2. ASSUME NEW i \in Jobs, CommitOffer(i), job[i].product = p,
               KnownLinks(p)' \subseteq KnownLinks(p) \cup {job[i].link}
        PROVE  \A k, l \in KnownLinks(p)' : k = l
    <3>1. \A k \in KnownLinks(p) : job[i].link = k
      BY <1>4, <2>2
    <3> QED
      BY <2>1, <2>2, <3>1
  <2> QED
    BY <1>1, <2>1, <2>2, LinksAdded
<1> QED
  BY <1>1, <1>3, <1>5, <1>6 DEF AdvisoryInv

(* All the versions of a Shopee product have the same link, for any number of *)
(* jobs that generate links for it outside any transaction.                   *)
THEOREM OneLinkCorrect == OfferSpec => []OneLinkPerShopeeProduct
<1>1. AdvisoryInv => OneLinkPerShopeeProduct
  <2> SUFFICES ASSUME AdvisoryInv, NEW p \in Catalog \cap ShopeeProducts
               PROVE  Cardinality(KnownLinks(p)) <= 1
    BY DEF OneLinkPerShopeeProduct
  <2>1. \A k, l \in KnownLinks(p) : k = l
    BY DEF AdvisoryInv
  <2>2. CASE KnownLinks(p) = {}
    BY <2>2, FS_EmptySet
  <2>3. CASE KnownLinks(p) # {}
    <3>1. PICK k \in KnownLinks(p) : TRUE
      BY <2>3
    <3>2. KnownLinks(p) = {k}
      BY <2>1, <3>1
    <3> QED
      BY <3>2, FS_Singleton
  <2> QED
    BY <2>2, <2>3
<1> QED
  BY AdvisoryInit, AdvisoryStep, <1>1, PTL DEF OfferSpec


-----------------------------------------------------------------------------
\* Part 6: versions with a publication keep their status.

HistoryInv ==
  /\ LinkInv
  /\ \A p \in Catalog : \A v \in DOMAIN offers[p] :
       offers[p][v].status = Pending => offers[p][v].link = NoLink
  /\ \A i \in Jobs :
       job[i].pc = "write" /\ job[i].version # 0 /\ ~ job[i].historical =>
         job[i].version \notin job[i].planned

\* What a step does to the status of a version.
LEMMA StatusMoves ==
    ASSUME LinkInv, [OfferNext]_offerVars, NEW p \in Catalog, NEW v \in DOMAIN offers[p]
    PROVE  \/ offers'[p][v].status \in {offers[p][v].status, "SCHEDULED", "PUBLISHED"}
           \/ /\ offers[p][v].status = Pending
              /\ offers'[p][v].status = "REJECTED"
           \/ \E i \in Jobs :
                /\ job[i].pc = "write" /\ job[i].product = p /\ job[i].version = v
                /\ ~ job[i].historical
                /\ offers'[p][v].status = Pending => job[i].link = NoLink
<1> DEFINE Kept == offers'[p][v].status \in {offers[p][v].status, "SCHEDULED", "PUBLISHED"}
           Gone == offers[p][v].status = Pending /\ offers'[p][v].status = "REJECTED"
           Written(i) == /\ job[i].pc = "write" /\ job[i].product = p /\ job[i].version = v
                         /\ ~ job[i].historical
                         /\ offers'[p][v].status = Pending => job[i].link = NoLink
<1>1. /\ VersionInv
      /\ \A i \in Jobs : GoodJob(job[i])
  BY DEF LinkInv, VersionInv
<1>2. ASSUME NEW i \in Jobs, CheckCurrent(i)
      PROVE  Kept \/ Gone
  <2> DEFINE q == job[i].product
             w == job[i].version
  <2>1. /\ q \in Catalog /\ w \in DOMAIN offers[q]
        /\ \/ UNCHANGED offers
           \/ /\ offers[q][w].status = Pending
              /\ offers' = [offers EXCEPT ![q][w].status = "REJECTED"]
    BY <1>1, <1>2 DEF CheckCurrent, GoodJob
  <2> HIDE DEF q, w
  <2>2. CASE p = q /\ v = w
    <3>1. offers'[p][v].status \in {offers[p][v].status, "REJECTED"}
      BY <1>1, <2>1, StatusSet
    <3> QED
      BY <2>1, <2>2, <3>1
  <2>3. CASE p # q \/ v # w
    <3>1. offers'[p][v] = offers[p][v]
      BY <1>1, <2>1, <2>3, OffersType
    <3> QED
      BY <3>1
  <2> QED
    BY <2>2, <2>3
<1>3. ASSUME NEW i \in Jobs, RetirePending(i)
      PROVE  Kept \/ Gone
  <2> DEFINE q == job[i].product
             o == [w \in DOMAIN offers[q] |->
                    IF /\ Replaced(i, w)
                       /\ offers[q][w].status = Pending /\ offers[q][w].link = NoLink
                    THEN [offers[q][w] EXCEPT !.status = "REJECTED"] ELSE offers[q][w]]
  <2>1. offers' = [offers EXCEPT ![q] = o] /\ q \in Catalog
    BY <1>1, <1>3 DEF RetirePending, GoodJob
  <2>2. CASE p = q
    <3>1. offers'[p] = o
      BY <1>1, <2>1, <2>2, OffersType
    <3>2. offers[p][v] \in OfferRecords
      BY <1>1, OffersType
    <3>3. [offers[p][v] EXCEPT !.status = "REJECTED"].status = "REJECTED"
      BY <3>2 DEF OfferRecords
    <3>4. \/ o[v] = offers[p][v]
          \/ /\ offers[p][v].status = Pending
             /\ o[v] = [offers[p][v] EXCEPT !.status = "REJECTED"]
      BY <2>2
    <3> HIDE DEF o
    <3> QED
      BY <3>1, <3>3, <3>4
  <2>3. CASE p # q
    <3>1. offers'[p] = offers[p]
      BY <1>1, <2>1, <2>3, OffersType
    <3> QED
      BY <3>1
  <2> QED
    BY <2>2, <2>3
<1>4. ASSUME NEW q \in Catalog, NEW w \in 1 .. MaxVersions, DeliverOffer(q, w)
      PROVE  Kept
  <2>1. w \in DOMAIN offers[q] /\ offers' = [offers EXCEPT ![q][w].status = "PUBLISHED"]
    BY <1>1, <1>4 DEF DeliverOffer, VersionInv, OfferTypeOK
  <2> QED
    BY <1>1, <2>1, StatusSet
<1>5. ASSUME PlanPlace
      PROVE  Kept
  <2>1. /\ planner.product \in Catalog /\ planner.version \in DOMAIN offers[planner.product]
        /\ offers' = [offers EXCEPT ![planner.product][planner.version].status = "SCHEDULED"]
    BY <1>1, <1>5 DEF PlanPlace, VersionInv
  <2> QED
    BY <1>1, <2>1, StatusSet
<1>6. ASSUME NEW i \in Jobs, CommitOffer(i)
      PROVE  Kept \/ Written(i)
  <2> DEFINE q == job[i].product
             w == job[i].version
  <2>1. /\ job[i].pc = "write" /\ q \in Catalog
        /\ w # 0 => w \in DOMAIN offers[q]
        /\ job[i].price \in OfferPrices /\ job[i].link \in AffiliateUrls \cup {NoLink}
        /\ w = 0 => ~ job[i].historical
        /\ v # 0
    BY <1>1, <1>6, OffersType DEF CommitOffer, GoodJob, JobRecords
  <2>2. PICK accepted \in BOOLEAN :
          LET status == IF job[i].historical THEN offers[q][w].status
                        ELSE StatusFor(job[i].link, accepted)
              saved  == job[i].kind # "apply" \/ status = Ready
          IN  offers' =
                IF ~ saved THEN offers
                ELSE IF w = 0
                THEN [offers EXCEPT ![q] = Append(@,
                       [price |-> job[i].price, link |-> job[i].link, status |-> status])]
                ELSE [offers EXCEPT ![q][w].status = status]
    BY <1>6 DEF CommitOffer
  <2> DEFINE status == IF job[i].historical THEN offers[q][w].status
                       ELSE StatusFor(job[i].link, accepted)
             new == [price |-> job[i].price, link |-> job[i].link, status |-> status]
  <2>3. CASE UNCHANGED offers
    BY <2>3
  <2>4. CASE w = 0 /\ offers' = [offers EXCEPT ![q] = Append(@, new)]
    <3>1. status \in OfferStatuses
      BY <2>1, <2>4 DEF StatusFor, OfferStatuses, Pending, Ready
    <3> HIDE DEF status
    <3>2. new \in OfferRecords
      BY <2>1, <3>1 DEF OfferRecords
    <3> HIDE DEF new
    <3>3. offers'[p][v] = offers[p][v]
      BY <1>1, <2>1, <2>4, <3>2, AppendStays
    <3> QED
      BY <3>3
  <2>5. CASE w # 0 /\ offers' = [offers EXCEPT ![q][w].status = status]
    <3>1. ~ job[i].historical /\ status = Pending => job[i].link = NoLink
      BY DEF StatusFor, Pending, Ready
    <3> HIDE DEF status
    <3>2. offers'[p][v].status \in {offers[p][v].status, status}
      BY <1>1, <2>1, <2>5, StatusSet
    <3>3. CASE p = q /\ v = w
      <4>1. job[i].historical => status = offers[p][v].status
        BY <3>3 DEF status
      <4> QED
        BY <2>1, <3>1, <3>2, <3>3, <4>1
    <3>4. CASE p # q \/ v # w
      <4>1. offers'[p][v] = offers[p][v]
        BY <1>1, <2>1, <2>5, <3>4, OffersType
      <4> QED
        BY <4>1
    <3> QED
      BY <3>3, <3>4
  <2> QED
    BY <2>2, <2>3, <2>4, <2>5
<1>7. UNCHANGED offers => Kept
  OBVIOUS
<1>8. \/ UNCHANGED offers
      \/ \E i \in Jobs : CommitOffer(i) \/ CheckCurrent(i) \/ RetirePending(i)
      \/ \E q \in Catalog, w \in 1 .. MaxVersions : DeliverOffer(q, w)
      \/ PlanPlace
  BY <1>1, OffersChange
<1> QED
  BY <1>2, <1>3, <1>4, <1>5, <1>6, <1>7, <1>8


\* A new version is pending only without a link.
LEMMA NewVersion ==
    ASSUME VersionInv, NEW i \in Jobs, CommitOffer(i), NEW v,
           v \notin DOMAIN offers[job[i].product], v \in DOMAIN offers'[job[i].product],
           offers'[job[i].product][v].status = Pending
    PROVE  offers'[job[i].product][v].link = NoLink
<1> DEFINE p == job[i].product
           w == job[i].version
<1>1. /\ job[i].pc = "write" /\ p \in Catalog
      /\ w # 0 => w \in DOMAIN offers[p]
      /\ job[i].price \in OfferPrices /\ job[i].link \in AffiliateUrls \cup {NoLink}
      /\ w = 0 => ~ job[i].historical
  BY DEF CommitOffer, VersionInv, GoodJob, JobRecords
<1>2. PICK accepted \in BOOLEAN :
        LET status == IF job[i].historical THEN offers[p][w].status
                      ELSE StatusFor(job[i].link, accepted)
            saved  == job[i].kind # "apply" \/ status = Ready
        IN  offers' =
              IF ~ saved THEN offers
              ELSE IF w = 0
              THEN [offers EXCEPT ![p] = Append(@,
                     [price |-> job[i].price, link |-> job[i].link, status |-> status])]
              ELSE [offers EXCEPT ![p][w].status = status]
  BY DEF CommitOffer
<1> DEFINE status == IF job[i].historical THEN offers[p][w].status
                     ELSE StatusFor(job[i].link, accepted)
           new == [price |-> job[i].price, link |-> job[i].link, status |-> status]
<1>3. CASE w # 0 \/ UNCHANGED offers
  <2>1. DOMAIN offers'[p] = DOMAIN offers[p]
    BY <1>1, <1>2, <1>3, OffersType
  <2> QED
    BY <2>1
<1>4. CASE w = 0 /\ offers' = [offers EXCEPT ![p] = Append(@, new)]
  <2>1. status \in OfferStatuses
    BY <1>1, <1>4 DEF StatusFor, OfferStatuses, Pending, Ready
  <2>2. status = Pending => job[i].link = NoLink
    BY <1>1, <1>4 DEF StatusFor, Pending, Ready
  <2> HIDE DEF status
  <2>3. new \in OfferRecords /\ new.link = job[i].link /\ new.status = status
    BY <1>1, <2>1 DEF OfferRecords
  <2> HIDE DEF new
  <2>4. /\ DOMAIN offers'[p] = DOMAIN offers[p] \cup {Len(offers[p]) + 1}
        /\ offers'[p][Len(offers[p]) + 1] = new
    BY <1>1, <1>4, <2>3, AppendStays
  <2> QED
    BY <2>2, <2>3, <2>4
<1> QED
  BY <1>2, <1>3, <1>4

LEMMA HistoryInit ==
    OfferInit => HistoryInv
<1> SUFFICES ASSUME OfferInit
             PROVE  HistoryInv
  OBVIOUS
<1>1. PICK catalog \in Catalogs : offers = [p \in catalog |-> <<>>]
  BY DEF OfferInit
<1>2. Catalog = catalog
  BY <1>1 DEF Catalog
<1>3. \A p \in Catalog : offers[p] = <<>>
  BY <1>1, <1>2
<1>4. \A p \in Catalog : DOMAIN offers[p] = {}
  BY <1>3
<1>5. \A i \in Jobs : job[i].pc = "idle"
  BY DEF OfferInit, IdleJob
<1> QED
  BY <1>4, <1>5, LinkInit DEF HistoryInv

LEMMA HistoryStep ==
    HistoryInv /\ [OfferNext]_offerVars => HistoryInv'
<1> SUFFICES ASSUME HistoryInv, [OfferNext]_offerVars
             PROVE  HistoryInv'
  OBVIOUS
<1>1. LinkInv /\ LinkInv' /\ VersionInv /\ VersionsStay /\ Catalog' = Catalog
  BY LinkStep, VersionStep DEF HistoryInv, LinkInv, VersionsStay, Catalog
<1>2. /\ job \in [Jobs -> JobRecords]
      /\ \A i \in Jobs : GoodJob(job[i])
  BY <1>1 DEF VersionInv, OfferTypeOK, JobRecords
<1>3. ASSUME NEW p \in Catalog, NEW v \in DOMAIN offers'[p], offers'[p][v].status = Pending
      PROVE  offers'[p][v].link = NoLink
  <2>1. CASE v \in DOMAIN offers[p]
    <3>1. offers'[p][v].link = offers[p][v].link
      BY <1>1, <2>1 DEF VersionsStay
    <3>2. ASSUME NEW i \in Jobs,
                 job[i].pc = "write", job[i].product = p, job[i].version = v,
                 job[i].link = NoLink
          PROVE  offers[p][v].link = NoLink
      <4>1. v # 0
        BY <1>1, <2>1, OffersType
      <4> QED
        BY <1>1, <3>2, <4>1 DEF LinkInv
    <3>3. CASE offers[p][v].status = Pending
      BY <2>1, <3>1, <3>3 DEF HistoryInv
    <3> QED
      BY <1>1, <1>3, <2>1, <3>1, <3>2, <3>3, StatusMoves DEF Pending
  <2>2. CASE v \notin DOMAIN offers[p]
    <3>1. PICK i \in Jobs : CommitOffer(i) /\ job[i].product = p
      BY <1>1, <1>3, <2>2, CountStays
    <3> QED
      BY <1>1, <1>3, <2>2, <3>1, NewVersion
  <2> QED
    BY <2>1, <2>2
<1>4. ASSUME NEW j \in Jobs, job'[j].pc = "write", job'[j].version # 0, ~ job'[j].historical
      PROVE  job'[j].version \notin job'[j].planned
  <2>1. CASE FindOffer(j)
    <3> DEFINE p == job[j].product
               found == {v \in DOMAIN offers[p] :
                           HasFacts(offers[p][v], job[j].price, job[j].link)}
               w == IF found = {} THEN 0 ELSE Min(found)
               h == w # 0 /\ IsHistorical(p, w)
    <3>1. /\ job'[j].version = w /\ job'[j].planned = publicationsOf[p]
          /\ job'[j].historical = h
      BY <1>2, <2>1 DEF FindOffer, JobRecords
    <3>2. w # 0 /\ ~ h => w \notin publicationsOf[p]
      BY DEF IsHistorical
    <3> HIDE DEF w, h
    <3> QED
      BY <1>4, <3>1, <3>2
  <2>2. CASE job'[j] = job[j]
    BY <1>4, <2>2 DEF HistoryInv
  <2> QED
    BY <1>1, <1>4, <2>1, <2>2, ToWrite
<1> QED
  BY <1>1, <1>3, <1>4 DEF HistoryInv

(* A version with a publication keeps its status, unless an ingestion had     *)
(* looked at it before the publication was there, for any number of jobs      *)
(* beside the planner.                                                        *)
THEOREM HistoryIsKeptCorrect == OfferSpec => HistoryIsKept
<1>1. HistoryInv /\ [OfferNext]_offerVars =>
        [\A p \in Catalog : \A v \in publicationsOf[p] :
           offers'[p][v].status \in {offers[p][v].status, "SCHEDULED", "PUBLISHED"}
             \/ \E i \in Jobs : /\ job[i].pc = "write" /\ job[i].product = p
                                /\ job[i].version = v /\ v \notin job[i].planned]_offerVars
  <2> SUFFICES ASSUME HistoryInv, [OfferNext]_offerVars,
                      NEW p \in Catalog, NEW v \in publicationsOf[p]
               PROVE  \/ offers'[p][v].status \in {offers[p][v].status, "SCHEDULED", "PUBLISHED"}
                      \/ \E i \in Jobs : /\ job[i].pc = "write" /\ job[i].product = p
                                         /\ job[i].version = v /\ v \notin job[i].planned
    OBVIOUS
  <2>1. LinkInv /\ VersionInv /\ v \in DOMAIN offers[p] /\ v # 0
    BY OffersType DEF HistoryInv, LinkInv, VersionInv, OfferTypeOK
  <2>2. offers[p][v].status # Pending
    BY <2>1 DEF HistoryInv, LinkInv
  <2>3. \A i \in Jobs :
          job[i].pc = "write" /\ job[i].version = v /\ ~ job[i].historical =>
            v \notin job[i].planned
    BY <2>1 DEF HistoryInv
  <2> QED
    BY <2>1, <2>2, <2>3, StatusMoves
<1> QED
  BY HistoryInit, HistoryStep, <1>1, PTL DEF OfferSpec, HistoryIsKept

=============================================================================
