------------------------------ MODULE MeliDiscovery ------------------------------
(* The jobs of Mercado Livre that generate affiliate links, and the session   *)
(* they use: marketplace-discovery (MercadoLivreDiscoveryService.run and      *)
(* generatePendingMercadoLivreAffiliateLinks) and the session actions of the  *)
(* dashboard. A job loads the session's cookie, generates links with several  *)
(* requests at a time, each of which may bring a new cookie, and stores the   *)
(* cookie only if the session has not been written since. The operator saves, *)
(* tests, clears and uses the session meanwhile.                              *)
EXTENDS Naturals, Sequences, FiniteSets

CONSTANTS MeliJobs,          \* processes that run a job
          Dialogs,           \* requests of the dashboard
          LinkWorkers,       \* requests for links at a time
          CookieNames,
          NoMeliJob,
          MaxItems,          \* candidates without a link, in a job
          MaxRotations,      \* bound: new cookie values, operator's and others
          MaxWrites,         \* bound: writes of the session's row
          MeliCrews          \* [jobs, dialogs, faults], one is chosen at the start;
                             \* bound: crashes, failed statements, locks lost

ASSUME MeliAssumption ==
  /\ NoMeliJob \notin MeliJobs
  /\ {MaxItems, MaxRotations, MaxWrites} \subseteq Nat
  /\ MeliCrews \subseteq [jobs : SUBSET MeliJobs, dialogs : SUBSET Dialogs, faults : Nat]

VARIABLES session,           \* the row of MercadoLivreAffiliateSession
          meliJob,           \* per process: the job it runs
          linkRequest,       \* [job -> [worker -> cookie it was sent with, or none]]
          dialog,            \* per request: the session action it executes
          discoveryKey, affiliateKey, \* Redis: owners of the two locks
          rotations,         \* the last cookie value in use
          meliFaults         \* faults that may still happen

meliVars == <<session, meliJob, linkRequest, dialog, discoveryKey, affiliateKey, rotations,
              meliFaults>>

Blank == [n \in CookieNames |-> 0]
NoJobYet == [pc |-> "idle", kind |-> "none", record |-> "none", version |-> 0,
             loaded |-> Blank, cookie |-> Blank, generation |-> 0, rotated |-> {},
             left |-> 0, attempted |-> FALSE, expired |-> FALSE]
NoDialog == [pc |-> "idle", kind |-> "none", cookie |-> Blank, generation |-> 0, version |-> 0]
NoRequest == [w \in LinkWorkers |-> <<>>]

MeliInit ==
  /\ session = [status |-> "NONE", cookie |-> Blank, generation |-> 0, version |-> 0]
  /\ \E crew \in MeliCrews :
       /\ meliJob = [b \in crew.jobs |-> NoJobYet]
       /\ linkRequest = [b \in crew.jobs |-> NoRequest]
       /\ dialog = [d \in crew.dialogs |-> NoDialog]
       /\ meliFaults = crew.faults
  /\ discoveryKey = NoMeliJob /\ affiliateKey = NoMeliJob
  /\ rotations = 0

MeliFault == meliFaults > 0 /\ meliFaults' = meliFaults - 1
JobGoes(b, pc) == meliJob' = [meliJob EXCEPT ![b].pc = pc]
OverMeli(b) == meliJob' = [meliJob EXCEPT ![b] = NoJobYet]

(* A cookie whose values are all new, or one value of which is.               *)
Fresh(cookie) ==
  {[n \in CookieNames |-> IF n \in some THEN rotations + 1 ELSE cookie[n]] :
     some \in {{m} : m \in CookieNames}}

Rotates == rotations < MaxRotations /\ rotations' = rotations + 1

(* Both jobs begin with a lock, the discovery's or that of the account's      *)
(* links, and give up if another has it.                                      *)
StartDiscovery(b) ==
  /\ meliJob[b].pc = "idle" /\ discoveryKey = NoMeliJob
  /\ session.version < MaxWrites
  /\ discoveryKey' = b
  /\ meliJob' = [meliJob EXCEPT ![b] = [NoJobYet EXCEPT !.pc = "job", !.kind = "discovery"]]
  /\ UNCHANGED <<session, linkRequest, dialog, affiliateKey, rotations, meliFaults>>

StartLinks(b) ==
  /\ meliJob[b].pc = "idle" /\ affiliateKey = NoMeliJob
  /\ session.version < MaxWrites
  /\ affiliateKey' = b
  /\ meliJob' = [meliJob EXCEPT ![b] = [NoJobYet EXCEPT !.pc = "job", !.kind = "links"]]
  /\ UNCHANGED <<session, linkRequest, dialog, discoveryKey, rotations, meliFaults>>

(* The job's record; a discovery then collects its candidates.                *)
CreateJob(b) ==
  /\ meliJob[b].pc = "job"
  /\ meliJob' = [meliJob EXCEPT ![b].record = "RUNNING",
       ![b].pc = IF meliJob[b].kind = "discovery" THEN "candidates" ELSE "load"]
  /\ UNCHANGED <<session, linkRequest, dialog, discoveryKey, affiliateKey, rotations,
                 meliFaults>>

OwnsDiscovery(b) == meliJob[b].kind = "discovery" => discoveryKey = b

(* The discovery has its candidates; it needs its lock still, and then the    *)
(* account's. If that is taken its candidates stay without a link.            *)
LockAffiliate(b) ==
  /\ meliJob[b].pc = "candidates"
  /\ IF ~ OwnsDiscovery(b)
     THEN JobGoes(b, "failed") /\ UNCHANGED affiliateKey
     ELSE IF affiliateKey = NoMeliJob
     THEN affiliateKey' = b /\ JobGoes(b, "load")
     ELSE JobGoes(b, "ingest") /\ UNCHANGED affiliateKey
  /\ UNCHANGED <<session, linkRequest, dialog, discoveryKey, rotations, meliFaults>>

(* loadAffiliateSessionCredentials, and the warm-up of the session, which may *)
(* bring a new cookie or fail, and find the session expired: that counts as   *)
(* an attempt of every candidate. A session that is not CONNECTED leaves the  *)
(* candidates without a link.                                                 *)
LoadSession(b) ==
  /\ meliJob[b].pc = "load"
  /\ IF session.status # "CONNECTED"
     THEN /\ JobGoes(b, IF meliJob[b].kind = "discovery" THEN "unlock" ELSE "ingest")
          /\ UNCHANGED rotations
     ELSE \/ /\ meliJob' = [meliJob EXCEPT ![b] = [@ EXCEPT
                  !.version = session.version, !.generation = session.generation,
                  !.loaded = session.cookie, !.cookie = session.cookie,
                  !.left = MaxItems, !.pc = "links"]]
             /\ UNCHANGED rotations
          \/ /\ Rotates
             /\ \E cookie \in Fresh(session.cookie) :
                  meliJob' = [meliJob EXCEPT ![b] = [@ EXCEPT
                    !.version = session.version, !.generation = session.generation,
                    !.loaded = session.cookie, !.cookie = cookie,
                    !.rotated = {n \in CookieNames : cookie[n] # session.cookie[n]},
                    !.left = MaxItems, !.pc = "links"]]
          \/ /\ \E expired \in BOOLEAN :
                  meliJob' = [meliJob EXCEPT ![b] = [@ EXCEPT
                    !.version = session.version, !.generation = session.generation,
                    !.loaded = session.cookie, !.cookie = session.cookie,
                    !.attempted = TRUE, !.expired = expired, !.pc = "links"]]
             /\ UNCHANGED rotations
  /\ UNCHANGED <<session, linkRequest, dialog, discoveryKey, affiliateKey, meliFaults>>

(* mapWithConcurrency: a free worker takes the next candidate, unless the     *)
(* session was found expired; the request is sent with the cookie of now.     *)
SendRequest(b, w) ==
  /\ meliJob[b].pc = "links" /\ linkRequest[b][w] = <<>>
  /\ meliJob[b].left > 0 /\ ~ meliJob[b].expired
  /\ linkRequest' = [linkRequest EXCEPT ![b][w] = <<meliJob[b].cookie>>]
  /\ meliJob' = [meliJob EXCEPT ![b].left = @ - 1, ![b].attempted = TRUE]
  /\ UNCHANGED <<session, dialog, discoveryKey, affiliateKey, rotations, meliFaults>>

(* Mutant of Merged: the last response's cookie is the cookie.                *)
LastAnswer(current, before, refreshed) == refreshed

(* mergeAffiliateCookieSnapshots: what the response changed in the cookie of  *)
(* its request is changed in the cookie of now.                               *)
Merged(current, before, refreshed) ==
  [n \in CookieNames |-> IF refreshed[n] # before[n] THEN refreshed[n] ELSE current[n]]

AnswerRequest(b, w) ==
  /\ linkRequest[b][w] # <<>>
  /\ LET before == linkRequest[b][w][1]
     IN  \/ /\ meliJob' = [meliJob EXCEPT ![b].cookie = Merged(@, before, before)]
            /\ UNCHANGED rotations
         \/ /\ Rotates
            /\ \E refreshed \in Fresh(before) :
                 meliJob' = [meliJob EXCEPT
                   ![b].cookie = Merged(@, before, refreshed),
                   ![b].rotated = @ \cup {n \in CookieNames : refreshed[n] # before[n]}]
         \/ meliJob' = [meliJob EXCEPT ![b].expired = TRUE] /\ UNCHANGED rotations
  /\ linkRequest' = [linkRequest EXCEPT ![b][w] = <<>>]
  /\ UNCHANGED <<session, dialog, discoveryKey, affiliateKey, meliFaults>>

(* Mutant of PersistSession: the update is by id.                             *)
PersistSessionAnyway(b) ==
  /\ meliJob[b].pc = "links" /\ linkRequest[b] = NoRequest
  /\ meliJob[b].left = 0 \/ meliJob[b].expired
  /\ IF meliJob[b].attempted /\ session.status # "NONE"
     THEN session' = [session EXCEPT
            !.status = IF meliJob[b].expired THEN "EXPIRED" ELSE "CONNECTED",
            !.cookie = meliJob[b].cookie, !.generation = meliJob[b].generation,
            !.version = @ + 1]
     ELSE UNCHANGED session
  /\ JobGoes(b, IF meliJob[b].kind = "discovery" THEN "unlock" ELSE "ingest")
  /\ UNCHANGED <<linkRequest, dialog, discoveryKey, affiliateKey, rotations, meliFaults>>

(* persistAffiliateSessionAfterBatch: one update of the version loaded, if    *)
(* any request was made; its failure is only counted.                         *)
PersistSession(b) ==
  /\ meliJob[b].pc = "links" /\ linkRequest[b] = NoRequest
  /\ meliJob[b].left = 0 \/ meliJob[b].expired
  /\ IF /\ meliJob[b].attempted
        /\ session.status # "NONE" /\ session.version = meliJob[b].version
     THEN session' = [session EXCEPT
            !.status = IF meliJob[b].expired THEN "EXPIRED" ELSE "CONNECTED",
            !.cookie = meliJob[b].cookie, !.generation = meliJob[b].generation,
            !.version = @ + 1]
     ELSE UNCHANGED session
  /\ JobGoes(b, IF meliJob[b].kind = "discovery" THEN "unlock" ELSE "ingest")
  /\ UNCHANGED <<linkRequest, dialog, discoveryKey, affiliateKey, rotations, meliFaults>>

FreedKey(key, b) == IF key = b THEN NoMeliJob ELSE key

(* The discovery gives the account's lock back, having asked whether it has   *)
(* been lost; the other job keeps its only lock and never asks.               *)
UnlockAffiliate(b) ==
  /\ meliJob[b].pc = "unlock"
  /\ JobGoes(b, IF affiliateKey = b THEN "ingest" ELSE "failed")
  /\ affiliateKey' = FreedKey(affiliateKey, b)
  /\ UNCHANGED <<session, linkRequest, dialog, discoveryKey, rotations, meliFaults>>

(* The candidates are ingested, and the job's outcome is written; the catch   *)
(* writes FAILED.                                                             *)
FinishJob(b) ==
  /\ meliJob[b].pc \in {"ingest", "failed"}
  /\ meliJob' = [meliJob EXCEPT ![b].pc = "release", ![b].record =
       IF meliJob[b].pc = "ingest" /\ OwnsDiscovery(b) THEN "SUCCEEDED"
       ELSE IF @ = "none" THEN "none" ELSE "FAILED"]
  /\ UNCHANGED <<session, linkRequest, dialog, discoveryKey, affiliateKey, rotations,
                 meliFaults>>

ReleaseMeli(b) ==
  /\ meliJob[b].pc = "release"
  /\ discoveryKey' = FreedKey(discoveryKey, b)
  /\ affiliateKey' = FreedKey(affiliateKey, b)
  /\ OverMeli(b)
  /\ UNCHANGED <<session, linkRequest, dialog, rotations, meliFaults>>

(* A statement or the connector fails.                                        *)
MeliJobFails(b) ==
  /\ meliJob[b].pc \in {"job", "candidates", "load", "ingest"}
  /\ MeliFault
  /\ JobGoes(b, "failed")
  /\ affiliateKey' = IF meliJob[b].kind = "discovery" THEN FreedKey(affiliateKey, b)
                                                      ELSE affiliateKey
  /\ UNCHANGED <<session, linkRequest, dialog, discoveryKey, rotations>>

MeliJobCrashes(b) ==
  /\ meliJob[b].pc # "idle"
  /\ MeliFault
  /\ OverMeli(b)
  /\ linkRequest' = [linkRequest EXCEPT ![b] = NoRequest]
  /\ UNCHANGED <<session, dialog, discoveryKey, affiliateKey, rotations>>

(* A key expires under no heartbeat, or Redis loses it under one.             *)
MeliKeysLapse ==
  /\ \/ /\ discoveryKey # NoMeliJob
        /\ meliJob[discoveryKey].kind # "discovery" /\ UNCHANGED meliFaults
        /\ discoveryKey' = NoMeliJob /\ UNCHANGED affiliateKey
     \/ /\ affiliateKey # NoMeliJob
        /\ meliJob[affiliateKey].pc = "idle" /\ UNCHANGED meliFaults
        /\ affiliateKey' = NoMeliJob /\ UNCHANGED discoveryKey
     \/ /\ {discoveryKey, affiliateKey} # {NoMeliJob} /\ MeliFault
        /\ discoveryKey' = NoMeliJob /\ affiliateKey' = NoMeliJob
  /\ UNCHANGED <<session, meliJob, linkRequest, dialog, rotations>>

(* saveMercadoLivreAffiliateSession with a cookie, or without one, and        *)
(* testMercadoLivreAffiliateSession: the row becomes VALIDATING, and the      *)
(* cookie is validated outside. (What comes between the read and this write   *)
(* may as well come after it.)                                                *)
BeginSave(d) ==
  /\ dialog[d].pc = "idle" /\ session.version < MaxWrites
  /\ Rotates
  /\ LET cookie == [n \in CookieNames |-> rotations + 1]
     IN  /\ session' = [status |-> "VALIDATING", cookie |-> cookie,
                        generation |-> rotations + 1, version |-> session.version + 1]
         /\ dialog' = [dialog EXCEPT ![d] = [pc |-> "validate", kind |-> "save",
              cookie |-> cookie, generation |-> rotations + 1, version |-> 0]]
  /\ UNCHANGED <<meliJob, linkRequest, discoveryKey, affiliateKey, meliFaults>>

BeginTest(d) ==
  /\ dialog[d].pc = "idle" /\ session.version < MaxWrites
  /\ session.status # "NONE"
  /\ session' = [session EXCEPT !.status = "VALIDATING", !.version = @ + 1]
  /\ dialog' = [dialog EXCEPT ![d] = [pc |-> "validate", kind |-> "test",
       cookie |-> session.cookie, generation |-> session.generation, version |-> 0]]
  /\ UNCHANGED <<meliJob, linkRequest, discoveryKey, affiliateKey, rotations, meliFaults>>

(* generateMercadoLivreAffiliateTestLink keeps the version it read.           *)
BeginTestLink(d) ==
  /\ dialog[d].pc = "idle" /\ session.version < MaxWrites
  /\ session.status = "CONNECTED"
  /\ dialog' = [dialog EXCEPT ![d] = [pc |-> "validate", kind |-> "link",
       cookie |-> session.cookie, generation |-> session.generation,
       version |-> session.version]]
  /\ UNCHANGED <<session, meliJob, linkRequest, discoveryKey, affiliateKey, rotations,
                 meliFaults>>

Written(d) == dialog[d].kind = "link" => session.version = dialog[d].version

(* The cookie proves valid and is written back, with CONNECTED: by id, or     *)
(* only over the version read when it was a test link. Or the failure is      *)
(* written, by id in every case. A row that is gone stays so.                 *)
EndDialog(d) ==
  /\ dialog[d].pc = "validate"
  /\ \/ /\ session' = IF session.status # "NONE" /\ Written(d)
                      THEN [session EXCEPT !.status = "CONNECTED", !.cookie = dialog[d].cookie,
                              !.generation = dialog[d].generation, !.version = @ + 1]
                      ELSE session
     \/ \E status \in {"EXPIRED", "ERROR"} :
          session' = IF session.status # "NONE"
                     THEN [session EXCEPT !.status = status, !.version = @ + 1]
                     ELSE session
  /\ dialog' = [dialog EXCEPT ![d] = NoDialog]
  /\ UNCHANGED <<meliJob, linkRequest, discoveryKey, affiliateKey, rotations, meliFaults>>

ClearSession ==
  /\ session.status # "NONE"
  /\ session' = [session EXCEPT !.status = "NONE", !.cookie = Blank, !.generation = 0]
  /\ UNCHANGED <<meliJob, linkRequest, dialog, discoveryKey, affiliateKey, rotations,
                 meliFaults>>

MeliNext ==
  \/ \E b \in DOMAIN meliJob :
       \/ StartDiscovery(b) \/ StartLinks(b) \/ CreateJob(b) \/ LockAffiliate(b)
       \/ LoadSession(b) \/ PersistSession(b) \/ UnlockAffiliate(b) \/ FinishJob(b)
       \/ ReleaseMeli(b) \/ MeliJobFails(b) \/ MeliJobCrashes(b)
       \/ \E w \in LinkWorkers : SendRequest(b, w) \/ AnswerRequest(b, w)
  \/ \E d \in DOMAIN dialog : BeginSave(d) \/ BeginTest(d) \/ BeginTestLink(d) \/ EndDialog(d)
  \/ MeliKeysLapse \/ ClearSession

MeliSpec == MeliInit /\ [][MeliNext]_meliVars
-----------------------------------------------------------------------------
Cookies == [CookieNames -> Nat]

MeliTypeOK ==
  /\ session \in [status : {"NONE", "VALIDATING", "CONNECTED", "EXPIRED", "ERROR"},
                  cookie : Cookies, generation : Nat, version : Nat]
  /\ \E crew \in MeliCrews : DOMAIN meliJob = crew.jobs /\ DOMAIN dialog = crew.dialogs
  /\ meliJob \in [DOMAIN meliJob ->
       [pc : {"idle", "job", "candidates", "load", "links", "unlock", "ingest", "failed",
              "release"},
        kind : {"none", "discovery", "links"},
        record : {"none", "RUNNING", "SUCCEEDED", "FAILED"},
        version : Nat, loaded : Cookies, cookie : Cookies, generation : Nat,
        rotated : SUBSET CookieNames, left : Nat, attempted : BOOLEAN, expired : BOOLEAN]]
  /\ linkRequest \in [DOMAIN meliJob -> [LinkWorkers -> Seq(Cookies)]]
  /\ dialog \in [DOMAIN dialog -> [pc : {"idle", "validate"}, kind : {"none", "save", "test", "link"},
                             cookie : Cookies, generation : Nat, version : Nat]]
  /\ {discoveryKey, affiliateKey} \subseteq MeliJobs \cup {NoMeliJob}
  /\ rotations \in Nat /\ meliFaults \in Nat

(* A cookie the operator saved stays until the operator saves another: no job *)
(* and no test link that was under way with an older one writes it back       *)
(* (marketplace-discovery: the update is conditional on updatedAt). A save or *)
(* a test that crosses another save writes by id, and may.                    *)
OperatorCookieStands ==
  [][/\ session.status # "NONE" /\ session'.status # "NONE"
     /\ session'.generation < session.generation
     => \E d \in DOMAIN dialog : /\ dialog[d].kind \in {"save", "test"}
                                 /\ dialog[d].generation = session'.generation
                                 /\ dialog'[d] = NoDialog]_meliVars

(* Requests of a job overlap and answer in any order, and still no cookie     *)
(* value that a response has replaced comes back in the job's cookie          *)
(* (marketplace-discovery: mergeAffiliateCookieSnapshots).                    *)
RotatedStaysRotated ==
  \A b \in DOMAIN meliJob : \A n \in meliJob[b].rotated :
    meliJob[b].cookie[n] > meliJob[b].loaded[n]
=============================================================================
