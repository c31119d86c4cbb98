----------------------------- MODULE ClickTracking -----------------------------
(* The redirect route /go/<slug>: a visit is rate limited, deduplicated in    *)
(* Redis and stored as a click; the visitor is redirected whatever happens.   *)
(* One process per request, and a visitor may have several at once; between   *)
(* two steps of a request Redis may lose its keys or be unreachable, and the  *)
(* database may refuse a write.                                               *)
EXTENDS Naturals, Sequences, FiniteSets, SequencesExt

CONSTANTS Requests,          \* requests served at the same time
          Visitors,          \* client address and user agent together
          Links,             \* active affiliate links
          Offers,
          OfferOf,           \* [Links -> Offers]
          PublicationsOf,    \* [Offers -> SUBSET Publications]: published, exported
                             \* or scheduled ones
          Publications,
          None,              \* an absent reference
          MaxTime,           \* bound: dedup windows that pass
          MaxClicks,         \* bound: clicks stored
          MaxRedisFaults     \* bound: times Redis loses its keys

ASSUME ClickAssumption ==
  /\ OfferOf \in [Links -> Offers]
  /\ PublicationsOf \in [Offers -> SUBSET Publications]
  /\ \A p \in Publications : \E o \in Offers : p \in PublicationsOf[o]
  /\ {MaxTime, MaxClicks, MaxRedisFaults} \subseteq Nat
  /\ None \notin Visitors \cup Links \cup Offers \cup Publications

VARIABLES clicks,        \* the click table, in order of creation
          visit,         \* per request: the visit being served
          dedupKeys,     \* Redis
          unstored,      \* those of them whose visit's insert failed
          trackingTime, redisFaults

clickVars == <<clicks, visit, dedupKeys, unstored, trackingTime, redisFaults>>

Idle == [pc |-> "idle", visitor |-> None, link |-> None, window |-> 0]

ClickInit ==
  /\ clicks = <<>>
  /\ visit = [r \in Requests |-> Idle]
  /\ dedupKeys = {} /\ unstored = {}
  /\ trackingTime = 0 /\ redisFaults = 0

Redirected(r) == visit' = [visit EXCEPT ![r] = Idle]
KeyOf(r) == <<visit[r].link, visit[r].visitor, visit[r].window>>

(* GET: the link is looked up and the fingerprint is taken of the current     *)
(* window.                                                                    *)
Open(r, v, l) ==
  /\ visit[r].pc = "idle" /\ Len(clicks) < MaxClicks
  /\ visit' = [visit EXCEPT ![r] = [pc |-> "rate", visitor |-> v, link |-> l,
                                    window |-> trackingTime]]
  /\ UNCHANGED <<clicks, dedupKeys, unstored, trackingTime, redisFaults>>

(* The fixed windows of the link and of the client; the counters decide only   *)
(* whether a visit passes, and how many have passed is left open.             *)
Limit(r) ==
  /\ visit[r].pc = "rate"
  /\ \/ visit' = [visit EXCEPT ![r].pc = "dedup"]
     \/ Redirected(r)
  /\ UNCHANGED <<clicks, dedupKeys, unstored, trackingTime, redisFaults>>

(* One visit of a visitor to a link per window takes the deduplication key.   *)
Deduplicate(r) ==
  /\ visit[r].pc = "dedup"
  /\ dedupKeys' = dedupKeys \cup {KeyOf(r)}
  /\ IF KeyOf(r) \in dedupKeys THEN Redirected(r)
                              ELSE visit' = [visit EXCEPT ![r].pc = "store"]
  /\ UNCHANGED <<clicks, unstored, trackingTime, redisFaults>>

(* The publication a click is credited to: the offer's only one, or none.     *)
UnambiguousPublication(o) ==
  IF Cardinality(PublicationsOf[o]) = 1
  THEN CHOOSE p \in PublicationsOf[o] : TRUE
  ELSE None

Click(at, link, visitor, window) ==
  [at |-> at, link |-> link, offer |-> OfferOf[link],
   publication |-> UnambiguousPublication(OfferOf[link]),
   visitor |-> visitor, window |-> window]

SameClick(c, link, visitor, window) ==
  c.link = link /\ c.visitor = visitor /\ c.window = window

(* The insert; the unique key (link, fingerprint, window) refuses a second    *)
(* click of the same window, and the visit counts as deduplicated.            *)
Store(r) ==
  LET v == visit[r].visitor
      l == visit[r].link
  IN  /\ visit[r].pc = "store"
      /\ clicks' =
           IF \E c \in ToSet(clicks) : SameClick(c, l, v, visit[r].window)
           THEN clicks
           ELSE Append(clicks, Click(trackingTime, l, v, visit[r].window))
      /\ Redirected(r)
      /\ UNCHANGED <<dedupKeys, unstored, trackingTime, redisFaults>>

(* Redis is unreachable, or the insert fails: the visitor is redirected,      *)
(* nothing is queued for a retry, and the deduplication key stays.            *)
RedirectUntracked(r) ==
  /\ visit[r].pc # "idle"
  /\ unstored' = IF visit[r].pc = "store" THEN dedupKeys \cap (unstored \cup {KeyOf(r)})
                                      ELSE unstored
  /\ Redirected(r)
  /\ UNCHANGED <<clicks, dedupKeys, trackingTime, redisFaults>>

WindowPasses ==
  /\ trackingTime < MaxTime
  /\ trackingTime' = trackingTime + 1
  /\ UNCHANGED <<clicks, visit, dedupKeys, unstored, redisFaults>>

(* The key of a visit outlives the window it names.                           *)
KeyExpires ==
  \E key \in dedupKeys :
    /\ key[3] < trackingTime
    /\ dedupKeys' = dedupKeys \ {key}
    /\ unstored' = unstored \ {key}
    /\ UNCHANGED <<clicks, visit, trackingTime, redisFaults>>

RedisLosesKeys ==
  /\ redisFaults < MaxRedisFaults
  /\ redisFaults' = redisFaults + 1
  /\ dedupKeys' = {} /\ unstored' = {}
  /\ UNCHANGED <<clicks, visit, trackingTime>>

ClickNext ==
  \/ \E r \in Requests :
       \/ \E v \in Visitors, l \in Links : Open(r, v, l)
       \/ Limit(r) \/ Deduplicate(r) \/ Store(r) \/ RedirectUntracked(r)
  \/ WindowPasses \/ KeyExpires \/ RedisLosesKeys

ClickSpec == ClickInit /\ [][ClickNext]_clickVars
-----------------------------------------------------------------------------
ClickTypeOK ==
  /\ clicks \in Seq([at : Nat, link : Links, offer : Offers,
                     publication : Publications \cup {None},
                     visitor : Visitors, window : Nat])
  /\ visit \in [Requests -> [pc : {"idle", "rate", "dedup", "store"},
                             visitor : Visitors \cup {None},
                             link : Links \cup {None}, window : Nat]]
  /\ \A r \in Requests : visit[r].pc # "idle" =>
       visit[r].link \in Links /\ visit[r].visitor \in Visitors
  /\ dedupKeys \subseteq Links \X Visitors \X Nat
  /\ unstored \subseteq Links \X Visitors \X Nat
  /\ trackingTime \in Nat /\ redisFaults \in Nat

(* A visitor's visits to a link within one window count once: as one click at *)
(* most, even when Redis forgets that it saw the first, and no visit is turned*)
(* away as a repetition of one that is neither stored nor about to be, unless *)
(* its insert failed (route.ts: limits come before the deduplication, whose   *)
(* key in Redis is backed by the unique key of the table).                    *)
VisitsCountOnce ==
  /\ \A i, j \in 1 .. Len(clicks) :
       SameClick(clicks[i], clicks[j].link, clicks[j].visitor, clicks[j].window) => i = j
  /\ \A key \in dedupKeys \ unstored :
       \/ \E c \in ToSet(clicks) : SameClick(c, key[1], key[2], key[3])
       \/ \E r \in Requests : visit[r].pc = "store" /\ KeyOf(r) = key
==============================================================================
