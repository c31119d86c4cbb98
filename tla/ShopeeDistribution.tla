-------------------------- MODULE ShopeeDistribution ---------------------------
(* How Shopee offers come into distribution: the command that creates         *)
(* controlled publications (shopee-affiliate/publication), the worker's       *)
(* planning with Shopee's own quota and its activation of controlled rows     *)
(* (worker scheduleReadyOffers, shopee-affiliate/distribution), the forms of  *)
(* assisted publications (dashboard actions) and the expiry of stale offers.  *)
(* One worker plans at a time (WorkerLease); the channels' own limits are in  *)
(* PublicationWorker and left open here, and so are scores and hours.         *)
EXTENDS Naturals, FiniteSets

CONSTANTS ShopOffers, ShopChannels,
          ChannelKind,       \* per channel: TELEGRAM or ASSISTED (a WhatsApp group)
          ZoneOf,            \* per channel: its time zone
          Rank,              \* per offer and channel: place in the order they are gone through
          Clerks,            \* open forms of the assisted page
          Settings,          \* offers, channels, forms, commands and failures
          MaxPerCycle,       \* SHOPEE_PUBLICATION_MAX_PER_CYCLE
          MaxPerDay,         \* SHOPEE_PUBLICATION_MAX_PER_DAY
          MinInterval,       \* SHOPEE_PUBLICATION_MIN_INTERVAL_MINUTES
          MaxPending,        \* maxPendingPublications of an assisted channel
          DayLength,
          NoPair, NoTime,
          MaxDistTime        \* bound: time

ASSUME DistributionAssumption ==
  /\ {MinInterval, MaxPending, MaxDistTime} \subseteq Nat
  /\ {MaxPerCycle, MaxPerDay, DayLength} \subseteq Nat \ {0}
  /\ Rank \in [ShopOffers \X ShopChannels -> Nat]
  /\ Settings \subseteq [offers : SUBSET ShopOffers, channels : SUBSET ShopChannels,
                         clerks : SUBSET Clerks, commands : Nat, failures : Nat]
  /\ \A s \in Settings : IsFiniteSet(s.offers) /\ IsFiniteSet(s.channels)
  /\ NoTime \notin Nat /\ NoPair \notin ShopOffers \X ShopChannels

VARIABLES setting,           \* the setting chosen
          distRow,           \* per offer and channel: the publication
          offerState,        \* per offer: its status
          cycle,             \* the worker's publication stage
          command,           \* the command that creates controlled publications
          forms,             \* per form: the row it found and its verdict
          distTime,
          cameBack           \* rows that gave up their slot of the day and returned

distVars == <<setting, distRow, offerState, cycle, command, forms, distTime, cameBack>>

Pairs == DOMAIN distRow
Day(t) == t \div DayLength
Zones == {ZoneOf[p[2]] : p \in Pairs}

NoRow == [status |-> "NONE", dist |-> "NONE", at |-> 0, sentAt |-> NoTime]
CycleAtRest == [pc |-> "idle", at |-> 0, seen |-> <<>>, todo |-> {}, done |-> {},
                pair |-> NoPair, planned |-> 0, today |-> <<>>, last |-> <<>>]
NoCommand == [pc |-> "idle", at |-> 0, todo |-> {}, pair |-> NoPair, planned |-> 0]
NoForm == [row |-> NoPair, verdict |-> "CONFIRM"]

DistInit ==
  /\ setting \in Settings
  /\ distRow \in [setting.offers \X setting.channels -> {NoRow}]
  /\ offerState \in [setting.offers -> {"READY_TO_PUBLISH"}]
  /\ cycle = CycleAtRest /\ command = NoCommand
  /\ forms \in [setting.clerks -> {NoForm}]
  /\ distTime = 0 /\ cameBack = {}

-----------------------------------------------------------------------------
(* Rows and what the quota counts of them.                                    *)

(* The next pair gone through: offers found published come last.              *)
First(todo, late) ==
  LET soon == {p \in todo : p[1] \notin late}
      next == IF soon = {} THEN todo ELSE soon
  IN  CHOOSE p \in next : \A q \in next : Rank[p] <= Rank[q]

Counted == {"SCHEDULED", "PUBLISHED", "AWAITING_MANUAL_PUBLICATION"}

(* Every write to a row; one that puts it back among the counted is noted.    *)
Write(p, row) ==
  /\ distRow' = [distRow EXCEPT ![p] = row]
  /\ cameBack' = IF distRow[p].status \notin Counted \cup {"NONE"} /\ row.status \in Counted
                 THEN cameBack \cup {p} ELSE cameBack

PublicationsToday(now) ==
  Cardinality({p \in Pairs : distRow[p].status \in Counted /\ Day(distRow[p].at) = Day(now)})

(* The scheduled or published row with the latest scheduledAt: its publishedAt*)
(* if it has one; any one of them when several are as late.                   *)
LastPublications ==
  LET live == {p \in Pairs : distRow[p].status \in {"SCHEDULED", "PUBLISHED"}}
      latest == {p \in live : \A q \in live : distRow[q].at <= distRow[p].at}
  IN  IF live = {} THEN {NoTime}
      ELSE {IF distRow[p].sentAt = NoTime THEN distRow[p].at ELSE distRow[p].sentAt : p \in latest}

(* Mutants of PolicyAllows: the day's limit is off by one; the interval is not*)
(* looked at.                                                                 *)
PolicyAllowsOneMore(planned, today, last, now) ==
  /\ planned < MaxPerCycle
  /\ today <= MaxPerDay
  /\ last # NoTime => now - last >= MinInterval

PolicyIgnoresInterval(planned, today, last, now) ==
  planned < MaxPerCycle /\ today < MaxPerDay

PolicyAllows(planned, today, last, now) ==
  /\ planned < MaxPerCycle
  /\ today < MaxPerDay
  /\ last # NoTime => now - last >= MinInterval

HasPendingCapacity(c) ==
  Cardinality({p \in Pairs : p[2] = c /\ distRow[p].status = "AWAITING_MANUAL_PUBLICATION"})
    < MaxPending

-----------------------------------------------------------------------------
(* The worker's cycle: it reads the offers, goes through offers and channels, *)
(* and then delivers what is due.                                             *)

StartCycle ==
  /\ cycle.pc = "idle"
  /\ LET found == {o \in setting.offers :
                     offerState[o] \in {"READY_TO_PUBLISH", "SCHEDULED", "PUBLISHED"}}
     IN  cycle' = [CycleAtRest EXCEPT !.pc = "choose", !.at = distTime, !.seen = offerState,
                     !.todo = {p \in Pairs : p[1] \in found}]
  /\ UNCHANGED <<setting, distRow, offerState, command, forms, distTime, cameBack>>

(* What the stage knows of a time zone: read when its first channel comes up, *)
(* counted on as rows are planned in that zone.                               *)
WithZone(numbers, z, n) ==
  [y \in DOMAIN numbers \cup {z} |-> IF y = z THEN n ELSE numbers[y]]

ZoneRead(z, last) ==
  IF z \in DOMAIN cycle.today THEN cycle
  ELSE [cycle EXCEPT !.today = WithZone(@, z, PublicationsToday(cycle.at)),
                     !.last = WithZone(@, z, last)]

IsControlled(row) == row.status = "AWAITING_MANUAL_PUBLICATION" /\ row.dist = "PLANNED"

(* A pair is left alone, or its row is to be placed, or activated. Whether the*)
(* channel suits the offer (scores, hours, its own limits) is left open.      *)
ChoosePair ==
  /\ cycle.pc = "choose" /\ cycle.todo # {}
  /\ \E last \in LastPublications, suits \in BOOLEAN :
       LET p == First(cycle.todo, {o \in setting.offers : cycle.seen[o] = "PUBLISHED"})
           z == ZoneOf[p[2]]
           read == ZoneRead(z, last)
           allowed == /\ p[2] \notin cycle.done
                      /\ PolicyAllows(read.planned, read.today[z], read.last[z], read.at)
                      /\ ChannelKind[p[2]] = "ASSISTED" => HasPendingCapacity(p[2])
                      /\ suits
           step == CASE allowed /\ distRow[p].status = "NONE" -> "place"
                     [] allowed /\ ChannelKind[p[2]] = "TELEGRAM" /\ IsControlled(distRow[p])
                          -> "activate"
                     [] OTHER -> "choose"
       IN  cycle' = [(IF p[2] \in cycle.done THEN cycle ELSE read) EXCEPT
                       !.pc = step, !.todo = @ \ {p},
                       !.pair = IF step = "choose" THEN NoPair ELSE p]
  /\ UNCHANGED <<setting, distRow, offerState, command, forms, distTime, cameBack>>

(* Mutant of PlannedOne: the day's count is not carried on.                   *)
PlannedUncounted(p) ==
  [cycle EXCEPT !.pc = "choose", !.pair = NoPair, !.planned = @ + 1, !.done = @ \cup {p[2]}]

PlannedOne(p) ==
  [cycle EXCEPT !.pc = "choose", !.pair = NoPair, !.planned = @ + 1, !.done = @ \cup {p[2]},
                !.today[ZoneOf[p[2]]] = @ + 1]

(* createPublicationIdempotently leaves a row that came meanwhile as it is;   *)
(* the offer's status is the one read at the start of the cycle.              *)
PlacePair ==
  /\ cycle.pc = "place"
  /\ LET p == cycle.pair
     IN  /\ IF distRow[p].status = "NONE"
            THEN Write(p, [NoRow EXCEPT !.at = cycle.at,
                             !.status = IF ChannelKind[p[2]] = "ASSISTED"
                                        THEN "AWAITING_MANUAL_PUBLICATION" ELSE "SCHEDULED"])
            ELSE UNCHANGED <<distRow, cameBack>>
         /\ offerState' = IF cycle.seen[p[1]] \in {"SCHEDULED", "PUBLISHED"} THEN offerState
                          ELSE [offerState EXCEPT ![p[1]] = "SCHEDULED"]
         /\ cycle' = PlannedOne(p)
  /\ UNCHANGED <<setting, command, forms, distTime>>

(* The update is by id: whatever became of the row meanwhile, it is scheduled.*)
ActivatePair ==
  /\ cycle.pc = "activate"
  /\ LET p == cycle.pair
     IN  /\ Write(p, [distRow[p] EXCEPT !.status = "SCHEDULED", !.at = cycle.at,
                                        !.dist = "SCHEDULED"])
         /\ cycle' = PlannedOne(p)
  /\ UNCHANGED <<setting, offerState, command, forms, distTime>>

(* The due rows, one of each channel, unless one of the channel's waits.      *)
EndPlanning ==
  /\ cycle.pc = "choose" /\ cycle.todo = {}
  /\ \E due \in SUBSET {p \in Pairs : distRow[p].status = "SCHEDULED" /\ distRow[p].at <= cycle.at} :
       /\ \A p, q \in due : p[2] = q[2] => p = q
       /\ \A p \in Pairs : distRow[p].status = "SCHEDULED" /\ distRow[p].at <= cycle.at =>
            \/ \E q \in due : q[2] = p[2]
            \/ \E q \in Pairs : q[2] = p[2] /\ distRow[q].status = "FAILED" /\ distRow[q].at > cycle.at
       /\ cycle' = [CycleAtRest EXCEPT !.pc = "deliver", !.at = cycle.at, !.todo = due]
  /\ UNCHANGED <<setting, distRow, offerState, command, forms, distTime, cameBack>>

(* Freshness and delivery: the row is sent, left alone, put off, given up or  *)
(* cancelled, whatever has become of it since it was read.                    *)
DeliverRow ==
  /\ cycle.pc = "deliver"
  /\ \E p \in cycle.todo :
       /\ cycle' = [cycle EXCEPT !.todo = @ \ {p}]
       /\ \/ /\ Write(p, [distRow[p] EXCEPT !.status = "PUBLISHED", !.sentAt = distTime])
             /\ offerState' = [offerState EXCEPT ![p[1]] = "PUBLISHED"]
             /\ UNCHANGED setting
          \/ /\ setting.failures > 0
             /\ setting' = [setting EXCEPT !.failures = @ - 1]
             /\ \/ UNCHANGED <<distRow, offerState, cameBack>>
                \/ /\ Write(p, [distRow[p] EXCEPT !.status = "FAILED", !.at = cycle.at + 1])
                   /\ UNCHANGED offerState
                \/ /\ Write(p, [distRow[p] EXCEPT !.status = "PUBLICATION_FAILED"])
                   /\ UNCHANGED offerState
                \/ /\ Write(p, [distRow[p] EXCEPT !.status = "CANCELLED"])
                   /\ offerState' = [offerState EXCEPT ![p[1]] = "REJECTED_EXPIRED"]
  /\ UNCHANGED <<command, forms, distTime>>

EndCycle ==
  /\ cycle.pc = "deliver" /\ cycle.todo = {}
  /\ cycle' = CycleAtRest
  /\ UNCHANGED <<setting, distRow, offerState, command, forms, distTime, cameBack>>

(* retryFailedPublications, a stage of its own.                               *)
RequeueRow ==
  /\ \E p \in Pairs :
       /\ distRow[p].status = "FAILED" /\ distRow[p].at <= distTime
       /\ Write(p, [distRow[p] EXCEPT !.status = "SCHEDULED", !.at = distTime])
  /\ UNCHANGED <<setting, offerState, cycle, command, forms, distTime>>

-----------------------------------------------------------------------------
(* The command: it reads offers and channels and goes through the pairs.      *)

StartCommandRun ==
  /\ command.pc = "idle" /\ setting.commands > 0
  /\ setting' = [setting EXCEPT !.commands = @ - 1]
  /\ command' = [NoCommand EXCEPT !.pc = "choose", !.at = distTime,
                   !.todo = {p \in Pairs : offerState[p[1]] = "READY_TO_PUBLISH"}]
  /\ UNCHANGED <<distRow, offerState, cycle, forms, distTime, cameBack>>

ConsiderPair ==
  /\ command.pc = "choose"
  /\ \/ /\ command.todo # {}
        /\ LET p == First(command.todo, {})
               creates == command.planned < MaxPerCycle /\ distRow[p].status = "NONE"
           IN  command' = [command EXCEPT !.todo = @ \ {p},
                            !.pc = IF creates THEN "create" ELSE "choose",
                            !.pair = IF creates THEN p ELSE NoPair]
     \/ /\ command.todo = {}
        /\ command' = NoCommand
  /\ UNCHANGED <<setting, distRow, offerState, cycle, forms, distTime, cameBack>>

(* Mutant of CreateControlled: created as an active row.                      *)
CreateScheduled ==
  /\ command.pc = "create"
  /\ LET p == command.pair
         created == distRow[p].status = "NONE"
     IN  /\ IF created THEN Write(p, [NoRow EXCEPT !.status = "SCHEDULED", !.at = command.at])
            ELSE UNCHANGED <<distRow, cameBack>>
         /\ command' = [command EXCEPT !.pc = "choose", !.pair = NoPair,
                                       !.planned = IF created THEN @ + 1 ELSE @]
  /\ UNCHANGED <<setting, offerState, cycle, forms, distTime>>

(* The unique key refuses a second row of the pair.                           *)
CreateControlled ==
  /\ command.pc = "create"
  /\ LET p == command.pair
         created == distRow[p].status = "NONE"
     IN  /\ IF created
            THEN Write(p, [NoRow EXCEPT !.status = "AWAITING_MANUAL_PUBLICATION",
                                        !.dist = "PLANNED", !.at = command.at])
            ELSE UNCHANGED <<distRow, cameBack>>
         /\ command' = [command EXCEPT !.pc = "choose", !.pair = NoPair,
                                       !.planned = IF created THEN @ + 1 ELSE @]
  /\ UNCHANGED <<setting, offerState, cycle, forms, distTime>>

-----------------------------------------------------------------------------
(* The assisted page: a form finds its row pending and then writes by id.     *)

OpenForm(f) ==
  /\ forms[f].row = NoPair
  /\ \E p \in Pairs, v \in {"CONFIRM", "CANCEL", "FAIL"} :
       /\ ChannelKind[p[2]] = "ASSISTED"
       /\ distRow[p].status = "AWAITING_MANUAL_PUBLICATION"
       /\ forms' = [forms EXCEPT ![f] = [row |-> p, verdict |-> v]]
  /\ UNCHANGED <<setting, distRow, offerState, cycle, command, distTime, cameBack>>

GiveVerdict(f) ==
  /\ forms[f].row # NoPair
  /\ LET p == forms[f].row
     IN  \/ /\ forms[f].verdict = "CONFIRM"
            /\ Write(p, [distRow[p] EXCEPT !.status = "PUBLISHED", !.sentAt = distTime])
            /\ offerState' = [offerState EXCEPT ![p[1]] = "PUBLISHED"]
         \/ /\ forms[f].verdict = "CANCEL"
            /\ Write(p, [distRow[p] EXCEPT !.status = "CANCELLED"])
            /\ UNCHANGED offerState
         \/ /\ forms[f].verdict = "FAIL"
            /\ Write(p, [distRow[p] EXCEPT !.status = "PUBLICATION_FAILED"])
            /\ UNCHANGED offerState
  /\ forms' = [forms EXCEPT ![f] = NoForm]
  /\ UNCHANGED <<setting, cycle, command, distTime>>

-----------------------------------------------------------------------------
(* Stale offers are rejected with their open publications.                    *)
ExpireStaleOffers ==
  /\ \E stale \in SUBSET {o \in setting.offers : offerState[o] \in {"READY_TO_PUBLISH", "SCHEDULED"}} :
       /\ stale # {}
       /\ offerState' = [o \in setting.offers |->
                           IF o \in stale THEN "REJECTED_EXPIRED" ELSE offerState[o]]
       /\ distRow' = [p \in Pairs |->
            IF p[1] \in stale /\ distRow[p].status \in {"SCHEDULED", "AWAITING_MANUAL_PUBLICATION"}
            THEN [distRow[p] EXCEPT !.status = "CANCELLED"] ELSE distRow[p]]
  /\ UNCHANGED <<setting, cycle, command, forms, distTime, cameBack>>

DistTimePasses ==
  /\ distTime < MaxDistTime /\ distTime' = distTime + 1
  /\ UNCHANGED <<setting, distRow, offerState, cycle, command, forms, cameBack>>

DistNext ==
  \/ StartCycle \/ ChoosePair \/ PlacePair \/ ActivatePair
  \/ EndPlanning \/ DeliverRow \/ EndCycle \/ RequeueRow
  \/ StartCommandRun \/ ConsiderPair \/ CreateControlled
  \/ \E f \in DOMAIN forms : OpenForm(f) \/ GiveVerdict(f)
  \/ ExpireStaleOffers
  \/ DistTimePasses

DistSpec == DistInit /\ [][DistNext]_distVars
-----------------------------------------------------------------------------
DistTypeOK ==
  /\ distRow \in [Pairs -> [status : {"NONE", "SCHEDULED", "AWAITING_MANUAL_PUBLICATION",
                                      "PUBLISHED", "FAILED", "PUBLICATION_FAILED", "CANCELLED"},
                            dist : {"NONE", "PLANNED", "SCHEDULED"},
                            at : 0 .. MaxDistTime + 1, sentAt : {NoTime} \cup 0 .. MaxDistTime]]
  /\ offerState \in [setting.offers -> {"READY_TO_PUBLISH", "SCHEDULED", "PUBLISHED", "REJECTED_EXPIRED"}]
  /\ cycle.pc \in {"idle", "choose", "place", "activate", "deliver"}
  /\ cycle.pc \in {"place", "activate"} <=> cycle.pair \in Pairs
  /\ DOMAIN cycle.today \subseteq Zones /\ cycle.todo \subseteq Pairs
  /\ command.pc = "create" <=> command.pair \in Pairs
  /\ \A f \in DOMAIN forms : forms[f].row \in Pairs \cup {NoPair}
  /\ cameBack \subseteq Pairs

(* What the worker distributes, apart from rows that gave up their slot.      *)
DistributedRows == {p \in Pairs \ cameBack :
                      distRow[p].status \in Counted /\ distRow[p].dist # "PLANNED"}

(* A day gets at most SHOPEE_PUBLICATION_MAX_PER_DAY publications from the    *)
(* worker. Rows that failed or were cancelled and come back are beyond the    *)
(* count, and channels of several time zones are counted each for itself: one *)
(* cycle may then plan up to its own limit.                                   *)
ShopeeDayHolds ==
  \A d \in {Day(t) : t \in 0 .. MaxDistTime} :
    Cardinality({p \in DistributedRows : Day(distRow[p].at) = d})
      <= MaxPerDay + (IF Cardinality(Zones) > 1 THEN MaxPerCycle - 1 ELSE 0)

(* Scheduled rows of Telegram are of one cycle or an interval apart, whatever *)
(* was delivered late, activated or requeued in between: the interval is      *)
(* between cycles, not between the rows of one.                               *)
ShopeeIntervalHolds ==
  \A p, q \in DistributedRows :
    /\ ChannelKind[p[2]] = "TELEGRAM" /\ ChannelKind[q[2]] = "TELEGRAM"
    /\ distRow[p].at < distRow[q].at
    => distRow[q].at - distRow[p].at >= MinInterval

(* Both limits of SHOPEE_PUBLICATION_*, whatever the worker, the command, the *)
(* forms and the expiry of offers do in between.                              *)
ShopeeLimitsHold == ShopeeDayHolds /\ ShopeeIntervalHolds
=============================================================================
