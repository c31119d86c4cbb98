------------------------------ MODULE Attribution ------------------------------
(* Which click a conversion is attributed to: packages/tracking/attribution.  *)
(* A conversion names a click, a sub id, a link, a publication or a product,  *)
(* and is decided on the clicks of that moment. References are identifiers    *)
(* already: what a slug or a reference of a publication or a product is       *)
(* looked up to, or None. A click's position in the table is its id.          *)
EXTENDS ClickTracking

CONSTANTS CandidateLimit,   \* "take" of the query on clicks: 25 in the code
          WindowLength,     \* attribution window, in the unit of click times
          MaxTable          \* bound: clicks in the table

ASSUME AttributionAssumption ==
  {CandidateLimit, MaxTable} \subseteq Nat /\ WindowLength \in Nat \ {0}

VARIABLE conversion         \* the conversion decided, if any, with the decision

Methods == <<"click", "sub", "link", "publication", "offer">>

References ==
  [click : DOMAIN clicks \cup {None}, sub : SUBSET Publications, link : Links \cup {None},
   publication : Publications \cup {None}, offer : Offers \cup {None}]

(* The code fills a missing offer from the publication, then from the link.   *)
ResolvedOffer(refs) ==
  IF refs.offer # None THEN refs.offer
  ELSE IF refs.publication # None
       THEN CHOOSE o \in Offers : refs.publication \in PublicationsOf[o]
  ELSE IF refs.link # None THEN OfferOf[refs.link]
  ELSE None

(* Does click c answer the reference a method looks at?                       *)
Answers(c, refs, m) ==
  CASE m = "click"       -> c = refs.click
    [] m = "sub"         -> clicks[c].publication \in refs.sub
    [] m = "link"        -> clicks[c].link = refs.link
    [] m = "publication" -> refs.publication # None /\ clicks[c].publication = refs.publication
    [] m = "offer"       -> clicks[c].offer = refs.offer

(* Clicks of the window that answer some reference.                           *)
Found(refs, occurredAt) ==
  {c \in DOMAIN clicks : /\ clicks[c].at <= occurredAt
                         /\ clicks[c].at + WindowLength >= occurredAt
                         /\ \E m \in ToSet(Methods) : Answers(c, refs, m)}

(* The query returns the most recent CandidateLimit of them.                  *)
Candidates(refs, occurredAt) ==
  LET found == Found(refs, occurredAt)
  IN  {c \in found : Cardinality({d \in found : d > c}) < CandidateLimit}

NoClick(status) == [status |-> status, click |-> None, method |-> "none"]

(* Mutant of Unique: the most recent of several is the answer.                *)
UniqueOrLatest(found, method) ==
  [status |-> "attributed", click |-> CHOOSE c \in found : \A d \in found : d <= c,
   method |-> method]

(* A single candidate is the answer, several are ambiguous.                   *)
Unique(found, method) ==
  IF Cardinality(found) = 1
  THEN [status |-> "attributed", click |-> CHOOSE c \in found : TRUE,
        method |-> method]
  ELSE NoClick("ambiguous")

(* The references in order of priority; the first one any candidate answers   *)
(* decides, and with none of them the candidates themselves. The clicks were  *)
(* queried by the offer referred to, but are compared with the resolved one.  *)
Decide(refs, occurredAt) ==
  LET candidates == Candidates(refs, occurredAt)
      resolved    == [refs EXCEPT !.offer = ResolvedOffer(refs)]
      Matching(m) == {c \in candidates : Answers(c, resolved, m)}
      answered    == {k \in DOMAIN Methods : Matching(Methods[k]) # {}}
      first       == CHOOSE k \in answered : \A l \in answered : k <= l
  IN  IF answered # {} THEN Unique(Matching(Methods[first]), Methods[first])
      ELSE IF candidates # {} THEN Unique(candidates, "lastClick")
      ELSE NoClick("noClick")

(* Tables that the redirect route may have left, in order of creation.        *)
ClickTables ==
  LET rows == {Click(t, l, v, t) : t \in 0 .. MaxTime, l \in Links, v \in Visitors}
  IN  {table \in UNION {[1 .. n -> rows] : n \in 0 .. MaxTable} :
         \A i, j \in DOMAIN table : i < j => /\ table[i].at <= table[j].at
                                             /\ table[i] # table[j]}

(* resolveAttributionWithDatabase, for a conversion of any time.              *)
Attribute(refs, occurredAt) ==
  /\ conversion = <<>>
  /\ conversion' = <<[refs |-> refs, at |-> occurredAt, decision |-> Decide(refs, occurredAt)]>>
  /\ UNCHANGED clickVars

AttributionInit ==
  /\ clicks \in ClickTables
  /\ visit = [r \in Requests |-> Idle]
  /\ dedupKeys = {} /\ unstored = {}
  /\ trackingTime = 0 /\ redisFaults = 0
  /\ conversion = <<>>

AttributionNext == \E refs \in References, t \in 0 .. MaxTime : Attribute(refs, t)

AttributionSpec == AttributionInit /\ [][AttributionNext]_<<clickVars, conversion>>
-----------------------------------------------------------------------------
(* What the documentation promises of an attribution, while no more clicks    *)
(* answer the references than the query returns: the click named explicitly   *)
(* is the one attributed, and a conversion is attributed by a reference only  *)
(* if a single click of the window answers it, never to the most recent of    *)
(* several; it is called ambiguous only if there were several, and left       *)
(* without a click only if there was none.                                    *)
AttributionIsExact ==
  conversion # <<>> =>
    LET refs     == conversion[1].refs
        decision == conversion[1].decision
        resolved == [refs EXCEPT !.offer = ResolvedOffer(refs)]
        found    == Found(refs, conversion[1].at)
    IN  Cardinality(found) <= CandidateLimit =>
          /\ refs.click \in found => decision.click = refs.click
          /\ decision.click # None /\ decision.method # "lastClick" =>
               {c \in found : Answers(c, resolved, decision.method)} = {decision.click}
          /\ decision.status = "ambiguous" => Cardinality(found) > 1
          /\ decision.status = "noClick" => found = {}

(* From the visit to the commission: visits count once, and a conversion is   *)
(* credited to the click that led to it, or to none.                          *)
ClicksAreCredited == VisitsCountOnce /\ AttributionIsExact
=============================================================================
