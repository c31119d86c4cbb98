------------------------------- MODULE MeliProofs -------------------------------
(***************************************************************************)
(* Proofs about MeliTokens, for any number of processes and tokens,        *)
(* about MeliDiscovery, for any jobs, dialogs, requests and cookie values, *)
(* about CatalogDiscovery, for any catalogue and highlights, and about     *)
(* CategoryBalance, for any settings, limits and candidates.               *)
(*                                                                         *)
(* Grants are numbered as they are issued, so a new one is none of those   *)
(* in use (part 1).  While nothing fails, the one process past the lock is *)
(* the only one that uses up a refresh token (part 2).  What each action   *)
(* of a job does to its row gives types (part 3); cookie values are        *)
(* numbered too, and a row that a job has read is the session's as long as *)
(* its version is (part 4).  A candidate is accounted for by the           *)
(* highlights that led to it, and a search in a product's children has     *)
(* looked at no product later than what waits, by depth (part 5).  What    *)
(* the categories of a balanced choice gave stays even in every turn, and  *)
(* a phase that ends leaves nothing that could still be given (part 6).    *)
(***************************************************************************)
EXTENDS MeliTokens, MeliDiscovery, CatalogDiscovery, CategoryBalance, FiniteSetTheorems, TLAPS

-----------------------------------------------------------------------------
\* Part 1: types and the numbers of grants.

LEMMA TokenInitType == TokenInit => TokenTypeOK
BY TokenAssumption DEF TokenInit, TokenTypeOK, Resting

Steps == {"idle", "lock", "ask", "poll", "save", "reauth", "release"}
ClientStates == [Clients -> [pc : Steps, refresh : Nat, answer : Nat]]

LEMMA ClientTypes ==
    ASSUME TokenTypeOK, NEW p \in Clients
    PROVE  /\ client \in ClientStates
           /\ Rest(p) => client' \in ClientStates
           /\ \A pc \in Steps : Proceed(p, pc) => client' \in ClientStates
           /\ \A pc \in Steps, n \in Nat :
                /\ [client EXCEPT ![p].pc = pc, ![p].answer = n] \in ClientStates
                /\ [client EXCEPT ![p] = [Resting EXCEPT !.pc = pc, !.refresh = n]]
                     \in ClientStates
<1>1. client \in ClientStates
  BY DEF TokenTypeOK, ClientStates, Steps
<1>2. Rest(p) => client' \in ClientStates
  BY <1>1 DEF Rest, Resting, ClientStates, Steps
<1>3. ASSUME NEW pc \in Steps
      PROVE  [client EXCEPT ![p].pc = pc] \in ClientStates
  BY <1>1 DEF ClientStates
<1>4. ASSUME NEW pc \in Steps, NEW n \in Nat
      PROVE  [client EXCEPT ![p].pc = pc, ![p].answer = n] \in ClientStates
  BY <1>1 DEF ClientStates
<1>5. ASSUME NEW pc \in Steps, NEW n \in Nat
      PROVE  [client EXCEPT ![p] = [Resting EXCEPT !.pc = pc, !.refresh = n]] \in ClientStates
  BY <1>1 DEF ClientStates, Resting
<1> QED
  BY <1>1, <1>2, <1>3, <1>4, <1>5 DEF Proceed

LEMMA TokenTypeStep ==
    ASSUME TokenTypeOK, [TokenNext]_tokenVars
    PROVE  TokenTypeOK'
<1> DEFINE Row == [refresh : Nat, expired : BOOLEAN, status : {"CONNECTED", "REAUTH_REQUIRED"}]
<1>1. /\ account \in Row /\ accepted \subseteq Nat /\ issued \in Nat /\ reconnect \in Nat
      /\ refreshLock \in Clients \cup {NoClient} /\ tokenFaults \in Nat
  BY DEF TokenTypeOK
<1>2. CASE UNCHANGED tokenVars
  BY <1>2 DEF tokenVars, TokenTypeOK
<1>3. ASSUME client' \in ClientStates, account' \in Row, accepted' \subseteq Nat,
             issued' \in Nat, reconnect' \in Nat, tokenFaults' \in Nat,
             refreshLock' \in Clients \cup {NoClient}
      PROVE  TokenTypeOK'
  BY <1>3 DEF TokenTypeOK, ClientStates, Steps
<1>4. ASSUME TokenFault PROVE tokenFaults' \in Nat
  BY <1>1, <1>4 DEF TokenFault
<1>5. ASSUME NEW grant \in Nat, Saved(grant) PROVE account' \in Row
  BY <1>5 DEF Saved
<1>6. ASSUME NEW p \in Clients, TokenNext,
             \/ ReadAccount(p) \/ LockRefresh(p) \/ PollAccount(p) \/ AskTokens(p)
             \/ SaveTokens(p) \/ MarkReauth(p) \/ ReleaseRefresh(p) \/ ClientCrashes(p)
      PROVE  TokenTypeOK'
  <2>1. /\ {"idle", "lock", "ask", "poll", "save", "reauth", "release"} \subseteq Steps
        /\ client[p].answer \in Nat /\ issued + 1 \in Nat /\ account.refresh \in Nat
    <3>1. client \in ClientStates
      BY ClientTypes
    <3> QED
      BY <3>1, <1>1 DEF Steps, ClientStates
  <2>2. CASE ReadAccount(p)
    <3>1. client' = [client EXCEPT ![p] = [Resting EXCEPT !.pc = "lock",
                                                          !.refresh = account.refresh]]
      BY <2>2 DEF ReadAccount
    <3>2. client' \in ClientStates
      BY <3>1, <2>1, ClientTypes
    <3> QED
      BY <3>2, <2>2, <1>1, <1>3 DEF ReadAccount
  <2>3. CASE LockRefresh(p)
    BY <2>1, <2>3, <1>1, <1>3, ClientTypes DEF LockRefresh
  <2>4. CASE PollAccount(p)
    BY <2>1, <2>4, <1>1, <1>3, ClientTypes DEF PollAccount
  <2>5. CASE AskTokens(p)
    <3>1. \/ client' = [client EXCEPT ![p].pc = "save", ![p].answer = issued + 1]
          \/ Proceed(p, "reauth") \/ Proceed(p, "release")
      BY <2>5 DEF AskTokens
    <3>2. client' \in ClientStates
      <4>1. client \in ClientStates
        BY ClientTypes
      <4>2. client' = [client EXCEPT ![p].pc = "save", ![p].answer = issued + 1]
              => client' \in ClientStates
        BY <4>1, <2>1 DEF ClientStates
      <4>3. Proceed(p, "reauth") \/ Proceed(p, "release") => client' \in ClientStates
        BY <2>1, ClientTypes
      <4> QED
        BY <3>1, <4>2, <4>3
    <3>3. accepted' \subseteq Nat /\ issued' \in Nat /\ tokenFaults' \in Nat
      BY <2>1, <2>5, <1>1, <1>4 DEF AskTokens, Rotated
    <3> QED
      BY <3>2, <3>3, <2>5, <1>1, <1>3 DEF AskTokens
  <2>6. CASE SaveTokens(p)
    BY <2>1, <2>6, <1>1, <1>3, <1>4, <1>5, ClientTypes DEF SaveTokens
  <2>7. CASE MarkReauth(p)
    <3>1. account' \in Row
      BY <2>7, <1>1 DEF MarkReauth
    <3> QED
      BY <3>1, <2>1, <2>7, <1>1, <1>3, ClientTypes DEF MarkReauth
  <2>8. CASE ReleaseRefresh(p)
    BY <2>8, <1>1, <1>3, ClientTypes DEF ReleaseRefresh
  <2>9. CASE ClientCrashes(p)
    BY <2>9, <1>1, <1>3, <1>4, ClientTypes DEF ClientCrashes
  <2> QED
    BY <1>6, <2>2, <2>3, <2>4, <2>5, <2>6, <2>7, <2>8, <2>9
<1>7. client \in ClientStates
  BY DEF TokenTypeOK, ClientStates, Steps
<1>8. CASE RefreshLockLapses \/ ConsentEnds
  BY <1>8, <1>1, <1>3, <1>4, <1>7 DEF RefreshLockLapses, ConsentEnds
<1>9. CASE AccessExpires
  <2>1. account' \in Row
    BY <1>9, <1>1 DEF AccessExpires
  <2> QED
    BY <2>1, <1>9, <1>1, <1>3, <1>7 DEF AccessExpires
<1>10. CASE ExchangeCode
  BY <1>10, <1>1, <1>3, <1>7 DEF ExchangeCode
<1>11. CASE SaveReconnect
  BY <1>11, <1>1, <1>3, <1>5, <1>7 DEF SaveReconnect
<1> HIDE DEF Row
<1> QED
  BY <1>2, <1>6, <1>8, <1>9, <1>10, <1>11 DEF TokenNext

\* Every reachable state of the account and its clients is well typed.
THEOREM TokenTypeCorrect == TokenSpec => []TokenTypeOK
BY TokenInitType, TokenTypeStep, PTL DEF TokenSpec

\* No number is in use that was not issued.
GrantInv ==
  /\ TokenTypeOK
  /\ \A t \in accepted : 0 < t /\ t <= issued
  /\ account.refresh <= issued /\ reconnect <= issued
  /\ \A p \in Clients : client[p].refresh <= issued /\ client[p].answer <= issued

LEMMA GrantStep ==
    ASSUME GrantInv, [TokenNext]_tokenVars
    PROVE  GrantInv'
<1>1. TokenTypeOK /\ TokenTypeOK'
  BY TokenTypeStep DEF GrantInv
<1>2. CASE UNCHANGED tokenVars
  BY <1>1, <1>2 DEF tokenVars, GrantInv
<1>3. ASSUME NEW p \in Clients, ReadAccount(p) \/ LockRefresh(p) \/ PollAccount(p)
      PROVE  GrantInv'
  <2>1. UNCHANGED <<account, accepted, issued, reconnect>>
    BY <1>3 DEF ReadAccount, LockRefresh, PollAccount
  <2>2. /\ client'[p].refresh \in {0, client[p].refresh, account.refresh}
        /\ client'[p].answer \in {0, client[p].answer}
        /\ \A q \in Clients \ {p} : client'[q] = client[q]
    <3>1. client \in ClientStates
      BY <1>1, ClientTypes
    <3>2. CASE ReadAccount(p)
      BY <3>1, <3>2 DEF ReadAccount, Resting, ClientStates
    <3>3. CASE LockRefresh(p)
      BY <3>1, <3>3 DEF LockRefresh, Proceed, ClientStates
    <3>4. CASE PollAccount(p)
      BY <3>1, <3>4 DEF PollAccount, Rest, Resting, ClientStates
    <3> QED
      BY <1>3, <3>2, <3>3, <3>4
  <2>3. 0 <= issued
    BY <1>1 DEF TokenTypeOK
  <2> QED
    BY <1>1, <2>1, <2>2, <2>3 DEF GrantInv
<1>4. ASSUME NEW p \in Clients, AskTokens(p)
      PROVE  GrantInv'
  <2>1. UNCHANGED <<account, reconnect, refreshLock>>
    BY <1>4 DEF AskTokens
  <2>2. /\ issued' \in {issued, issued + 1} /\ issued \in Nat
        /\ accepted' \subseteq accepted \cup {issued + 1}
        /\ accepted' # accepted => issued' = issued + 1
    BY <1>1, <1>4 DEF AskTokens, Rotated, TokenTypeOK
  <2>3. /\ \A q \in Clients : client'[q].refresh = client[q].refresh
        /\ \A q \in Clients : client'[q].answer \in {client[q].answer, issued'}
    BY <1>1, <1>4 DEF AskTokens, Proceed, TokenTypeOK
  <2>5. /\ accepted \subseteq Nat /\ account.refresh \in Nat /\ reconnect \in Nat
        /\ \A q \in Clients : client[q].refresh \in Nat /\ client[q].answer \in Nat
    BY <1>1 DEF TokenTypeOK
  <2>6. /\ \A t \in accepted' : 0 < t /\ t <= issued'
        /\ account.refresh <= issued' /\ reconnect <= issued'
        /\ \A q \in Clients : client[q].refresh <= issued' /\ client'[q].answer <= issued'
    BY <2>2, <2>3, <2>5 DEF GrantInv
  <2> QED
    BY <1>1, <2>1, <2>3, <2>6 DEF GrantInv
<1>5. ASSUME NEW p \in Clients, SaveTokens(p)
      PROVE  GrantInv'
  BY <1>1, <1>5 DEF SaveTokens, Saved, Proceed, GrantInv, TokenTypeOK
<1>6. ASSUME NEW p \in Clients, MarkReauth(p) \/ ReleaseRefresh(p) \/ ClientCrashes(p)
      PROVE  GrantInv'
  BY <1>1, <1>6 DEF MarkReauth, ReleaseRefresh, ClientCrashes, Proceed, Rest, Resting,
                    GrantInv, TokenTypeOK
<1>7. CASE RefreshLockLapses \/ AccessExpires \/ ConsentEnds \/ SaveReconnect
  BY <1>1, <1>7 DEF RefreshLockLapses, AccessExpires, ConsentEnds, SaveReconnect, Saved,
                    GrantInv, TokenTypeOK
<1>8. CASE ExchangeCode
  <2>1. /\ issued' = issued + 1 /\ accepted' = accepted \cup {issued + 1}
        /\ reconnect' = issued + 1 /\ UNCHANGED <<account, client, refreshLock>>
    BY <1>8 DEF ExchangeCode
  <2>2. /\ issued \in Nat /\ accepted \subseteq Nat /\ account.refresh \in Nat
        /\ \A q \in Clients : client[q].refresh \in Nat /\ client[q].answer \in Nat
    BY <1>1 DEF TokenTypeOK
  <2> QED
    BY <1>1, <2>1, <2>2 DEF GrantInv
<1> QED
  BY <1>1, <1>2, <1>3, <1>4, <1>5, <1>6, <1>7, <1>8 DEF TokenNext

LEMMA GrantInit == TokenInit => GrantInv
BY TokenInitType DEF TokenInit, Resting, GrantInv

-----------------------------------------------------------------------------
\* Part 2: the refresh token is not lost.

Locked == {"ask", "save", "reauth", "release"}

\* While nothing fails: the process past the lock has it; what is about to be stored works, is
\* not the grant of the operator's callback, and nobody has that one yet.
LossInv ==
  tokenFaults = 0 =>
    /\ \A p \in Clients : client[p].pc \in Locked => refreshLock = p
    /\ account.refresh \in accepted \/ \E p \in Clients : client[p].pc = "save"
    /\ \A p \in Clients : client[p].pc = "save" =>
         client[p].answer \in accepted /\ client[p].answer # reconnect
    /\ reconnect # 0 =>
         /\ reconnect \in accepted /\ account.refresh # reconnect
         /\ \A p \in Clients : client[p].refresh # reconnect

LEMMA LossStep ==
    ASSUME GrantInv, GrantInv', LossInv, [TokenNext]_tokenVars
    PROVE  LossInv'
<1> SUFFICES ASSUME tokenFaults' = 0
             PROVE  LossInv'
  BY DEF LossInv
<1>1. /\ TokenTypeOK /\ TokenTypeOK' /\ client \in ClientStates /\ issued \in Nat
      /\ \A p \in Clients : client[p].refresh <= issued /\ client[p].answer <= issued
      /\ account.refresh <= issued /\ account.refresh \in Nat
      /\ \A t \in accepted : 0 < t /\ t <= issued
  BY DEF GrantInv, TokenTypeOK, ClientStates, Steps
<1>2. ~ TokenFault
  BY <1>1 DEF TokenFault, TokenTypeOK
<1>3. ASSUME tokenFaults = 0
      PROVE  /\ \A p \in Clients : client[p].pc \in Locked => refreshLock = p
             /\ account.refresh \in accepted \/ \E p \in Clients : client[p].pc = "save"
             /\ \A p \in Clients : client[p].pc = "save" =>
                  client[p].answer \in accepted /\ client[p].answer # reconnect
             /\ reconnect # 0 =>
                  /\ reconnect \in accepted /\ account.refresh # reconnect
                  /\ \A p \in Clients : client[p].refresh # reconnect
  BY <1>3 DEF LossInv
<1>4. CASE UNCHANGED tokenVars
  BY <1>3, <1>4 DEF tokenVars, LossInv
<1>5. ASSUME NEW p \in Clients, ReadAccount(p)
      PROVE  LossInv'
  <2>1. /\ client'[p].pc = "lock" /\ client[p].pc = "idle"
        /\ client'[p].refresh = account.refresh
        /\ \A q \in Clients \ {p} : client'[q] = client[q]
        /\ UNCHANGED <<account, accepted, issued, reconnect, refreshLock, tokenFaults>>
    BY <1>1, <1>5 DEF ReadAccount, Resting, ClientStates
  <2> QED
    BY <2>1, <1>3 DEF LossInv, Locked
<1>6. ASSUME NEW p \in Clients, LockRefresh(p) \/ PollAccount(p)
      PROVE  LossInv'
  <2>1. /\ UNCHANGED <<account, accepted, issued, reconnect, tokenFaults>>
        /\ client[p].pc \in {"lock", "poll"}
        /\ client'[p].refresh \in {client[p].refresh, 0}
        /\ \A q \in Clients \ {p} : client'[q] = client[q]
        /\ \/ client'[p].pc = "ask" /\ refreshLock = NoClient /\ refreshLock' = p
           \/ client'[p].pc \in {"poll", "idle"} /\ UNCHANGED refreshLock
    <3>1. CASE LockRefresh(p)
      BY <1>1, <3>1 DEF LockRefresh, Proceed, ClientStates
    <3>2. CASE PollAccount(p)
      BY <1>1, <3>2 DEF PollAccount, Rest, Resting, ClientStates
    <3> QED
      BY <1>6, <3>1, <3>2
  <2> QED
    BY <2>1, <1>1, <1>3, TokenAssumption DEF LossInv, Locked
<1>7. ASSUME NEW p \in Clients, AskTokens(p)
      PROVE  LossInv'
  <2>1. /\ UNCHANGED <<account, reconnect, refreshLock>> /\ tokenFaults = 0
        /\ client[p].pc = "ask" /\ client'[p].refresh = client[p].refresh
        /\ \A q \in Clients \ {p} : client'[q] = client[q]
        /\ \/ /\ client[p].refresh \in accepted
              /\ accepted' = (accepted \ {client[p].refresh}) \cup {issued + 1}
              /\ client'[p].pc = "save" /\ client'[p].answer = issued + 1
           \/ accepted' = accepted /\ client'[p].pc \in {"reauth", "release"}
    BY <1>1, <1>2, <1>7 DEF AskTokens, Rotated, Proceed, ClientStates
  <2>2. \A q \in Clients \ {p} : client[q].pc \notin Locked
    BY <2>1, <1>3 DEF Locked
  <2>3. reconnect # issued + 1 /\ refreshLock = p
    BY <2>1, <1>1, <1>3 DEF Locked, GrantInv, TokenTypeOK
  <2> QED
    BY <2>1, <2>2, <2>3, <1>3 DEF LossInv, Locked
<1>8. ASSUME NEW p \in Clients, SaveTokens(p) \/ MarkReauth(p) \/ ReleaseRefresh(p)
      PROVE  LossInv'
  <2>1. /\ UNCHANGED <<accepted, issued, reconnect, tokenFaults>>
        /\ client[p].pc \in {"save", "reauth", "release"}
        /\ client'[p].refresh \in {client[p].refresh, 0}
        /\ \A q \in Clients \ {p} : client'[q] = client[q]
        /\ \/ client'[p].pc = "release" /\ UNCHANGED refreshLock
           \/ client'[p].pc = "idle" /\ refreshLock' \in {refreshLock, NoClient}
        /\ IF client[p].pc = "save" THEN account'.refresh = client[p].answer
                                    ELSE account'.refresh = account.refresh
    <3>1. CASE SaveTokens(p)
      BY <1>1, <1>2, <3>1 DEF SaveTokens, Saved, Proceed, ClientStates
    <3>2. CASE MarkReauth(p)
      BY <1>1, <3>2 DEF MarkReauth, Proceed, ClientStates, TokenTypeOK
    <3>3. CASE ReleaseRefresh(p)
      BY <1>1, <3>3 DEF ReleaseRefresh, Rest, Resting, ClientStates
    <3> QED
      BY <1>8, <3>1, <3>2, <3>3
  <2>2. tokenFaults = 0 => \A q \in Clients \ {p} : client[q].pc \notin Locked
    BY <2>1, <1>3 DEF Locked
  <2> QED
    BY <2>1, <2>2, <1>3 DEF LossInv, Locked
<1>9. ASSUME NEW p \in Clients, ClientCrashes(p)
      PROVE  LossInv'
  BY <1>2, <1>9 DEF ClientCrashes
<1>10. CASE RefreshLockLapses
  <2>1. /\ refreshLock \in Clients /\ client[refreshLock].pc \in {"idle", "lock", "poll"}
        /\ UNCHANGED <<account, accepted, issued, client, reconnect, tokenFaults>>
    BY <1>1, <1>2, <1>10 DEF RefreshLockLapses, TokenTypeOK
  <2> QED
    BY <2>1, <1>3 DEF LossInv, Locked
<1>11. CASE AccessExpires
  <2>1. /\ UNCHANGED <<accepted, issued, client, reconnect, refreshLock, tokenFaults>>
        /\ account'.refresh = account.refresh
    BY <1>1, <1>11 DEF AccessExpires, TokenTypeOK
  <2> QED
    BY <2>1, <1>3 DEF LossInv
<1>12. CASE ExchangeCode
  <2>1. /\ accepted' = accepted \cup {issued + 1} /\ reconnect' = issued + 1
        /\ UNCHANGED <<account, client, refreshLock, tokenFaults>>
    BY <1>12 DEF ExchangeCode
  <2>2. account.refresh # issued + 1 /\ \A p \in Clients : client[p].refresh # issued + 1
                                                          /\ client[p].answer # issued + 1
    BY <1>1 DEF ClientStates
  <2> QED
    BY <2>1, <2>2, <1>3 DEF LossInv
<1>13. CASE SaveReconnect
  <2>1. /\ reconnect # 0 /\ account'.refresh = reconnect /\ reconnect' = 0
        /\ UNCHANGED <<accepted, issued, client, refreshLock, tokenFaults>>
    BY <1>13 DEF SaveReconnect, Saved
  <2>2. \A t \in accepted : t # 0
    BY <1>1
  <2> QED
    BY <2>1, <2>2, <1>3 DEF LossInv
<1>14. ~ ConsentEnds
  BY <1>2 DEF ConsentEnds
<1> QED
  BY <1>4, <1>5, <1>6, <1>7, <1>8, <1>9, <1>10, <1>11, <1>12, <1>13, <1>14 DEF TokenNext

\* Whatever refreshes and new authorizations cross each other, as long as no answer, write or
\* process is lost, the refresh token of the account works or its successor is about to be
\* stored.
THEOREM TokenIsNotLostCorrect == TokenSpec => []TokenIsNotLost
<1>1. TokenInit => LossInv
  BY DEF TokenInit, Resting, LossInv, Locked
<1>2. GrantInv /\ LossInv /\ [TokenNext]_tokenVars => GrantInv' /\ LossInv'
  BY GrantStep, LossStep
<1>3. GrantInv /\ LossInv => TokenIsNotLost
  BY DEF GrantInv, TokenTypeOK, LossInv, TokenIsNotLost
<1> QED
  BY <1>1, <1>2, <1>3, GrantInit, PTL DEF TokenSpec

-----------------------------------------------------------------------------
\* Part 3: the jobs that generate links, their session and its dialogs: types.

JobSteps == {"idle", "job", "candidates", "load", "links", "unlock", "ingest", "failed",
             "release"}
JobKinds == {"none", "discovery", "links"}
Records == {"none", "RUNNING", "SUCCEEDED", "FAILED"}
SessionStates == {"NONE", "VALIDATING", "CONNECTED", "EXPIRED", "ERROR"}
DialogKinds == {"none", "save", "test", "link"}

JobRow == [pc : JobSteps, kind : JobKinds, record : Records, version : Nat, loaded : Cookies,
           cookie : Cookies, generation : Nat, rotated : SUBSET CookieNames, left : Nat,
           attempted : BOOLEAN, expired : BOOLEAN]
DialogRow == [pc : {"idle", "validate"}, kind : DialogKinds, cookie : Cookies,
              generation : Nat, version : Nat]
SessionRow == [status : SessionStates, cookie : Cookies, generation : Nat, version : Nat]
Requests == [LinkWorkers -> Seq(Cookies)]

\* The type invariant with its sets named.
LEMMA MeliTypesNamed ==
  MeliTypeOK <=>
    /\ session \in SessionRow
    /\ \E crew \in MeliCrews : DOMAIN meliJob = crew.jobs /\ DOMAIN dialog = crew.dialogs
    /\ meliJob \in [DOMAIN meliJob -> JobRow]
    /\ linkRequest \in [DOMAIN meliJob -> Requests]
    /\ dialog \in [DOMAIN dialog -> DialogRow]
    /\ {discoveryKey, affiliateKey} \subseteq MeliJobs \cup {NoMeliJob}
    /\ rotations \in Nat /\ meliFaults \in Nat
BY DEF MeliTypeOK, JobRow, DialogRow, SessionRow, Requests, JobSteps, JobKinds, Records,
   SessionStates, DialogKinds

\* A crew's jobs are processes that run one.
LEMMA MeliJobsKnown == MeliTypeOK => DOMAIN meliJob \subseteq MeliJobs
<1> SUFFICES ASSUME MeliTypeOK PROVE DOMAIN meliJob \subseteq MeliJobs
  OBVIOUS
<1>1. PICK crew \in MeliCrews : DOMAIN meliJob = crew.jobs
  BY MeliTypesNamed
<1>2. crew \in [jobs : SUBSET MeliJobs, dialogs : SUBSET Dialogs, faults : Nat]
  BY MeliAssumption
<1> QED
  BY <1>1, <1>2

\* The values that are written over others.
LEMMA MeliValues ==
  /\ Blank \in Cookies
  /\ NoRequest \in Requests
  /\ NoJobYet \in JobRow
  /\ NoDialog \in DialogRow
<1>1. Blank \in Cookies
  BY DEF Blank, Cookies
<1>2. NoRequest \in Requests
  BY DEF NoRequest, Requests
<1>3. NoJobYet \in JobRow
  BY <1>1 DEF NoJobYet, JobRow, JobSteps, JobKinds, Records
<1>4. NoDialog \in DialogRow
  BY <1>1 DEF NoDialog, DialogRow, DialogKinds
<1> QED
  BY <1>1, <1>2, <1>3, <1>4

\* A fresh cookie takes the value that is issued with it wherever it differs.
LEMMA FreshValues ==
    ASSUME NEW c \in Cookies, NEW f \in Fresh(c), rotations \in Nat
    PROVE  /\ f \in Cookies
           /\ \A n \in CookieNames : f[n] = c[n] \/ f[n] = rotations + 1
BY DEF Fresh, Cookies

\* A merged cookie has the values of the response where it differs from its
\* request, and the present ones elsewhere.
LEMMA MergedValues ==
    ASSUME NEW c \in Cookies, NEW f \in Cookies, NEW e \in Cookies
    PROVE  /\ Merged(c, e, f) \in Cookies
           /\ \A n \in CookieNames :
                Merged(c, e, f)[n] = IF f[n] # e[n] THEN f[n] ELSE c[n]
BY DEF Merged, Cookies

-----------------------------------------------------------------------------
\* What a step does to the row of the job it is about.

BecomesJob(b, row) ==
  /\ row \in JobRow
  /\ meliJob' = [meliJob EXCEPT ![b] = row]

LEMMA JobBecomes ==
    ASSUME MeliTypeOK, NEW b \in DOMAIN meliJob, NEW row, BecomesJob(b, row)
    PROVE  /\ DOMAIN meliJob' = DOMAIN meliJob
           /\ meliJob' \in [DOMAIN meliJob' -> JobRow]
           /\ meliJob'[b] = row
           /\ \A a \in DOMAIN meliJob : a # b => meliJob'[a] = meliJob[a]
BY MeliTypesNamed DEF BecomesJob

\* The fields of a job's row.
LEMMA JobFields ==
    ASSUME NEW row \in JobRow
    PROVE  /\ row.pc \in JobSteps /\ row.kind \in JobKinds /\ row.record \in Records
           /\ row.version \in Nat /\ row.loaded \in Cookies /\ row.cookie \in Cookies
           /\ row.generation \in Nat /\ row.rotated \subseteq CookieNames /\ row.left \in Nat
           /\ row.attempted \in BOOLEAN /\ row.expired \in BOOLEAN
BY DEF JobRow

\* A job that only goes on, or writes its record.
LEMMA JobGoesOn ==
    ASSUME MeliTypeOK, NEW b \in DOMAIN meliJob, NEW pc \in JobSteps, NEW record \in Records,
           \/ JobGoes(b, pc) /\ record = meliJob[b].record
           \/ meliJob' = [meliJob EXCEPT ![b].record = record, ![b].pc = pc]
    PROVE  BecomesJob(b, [meliJob[b] EXCEPT !.pc = pc, !.record = record])
<1>1. meliJob[b] \in JobRow
  BY MeliTypesNamed
<1>2. [meliJob[b] EXCEPT !.pc = pc, !.record = record] \in JobRow
  BY <1>1 DEF JobRow
<1>3. CASE JobGoes(b, pc) /\ record = meliJob[b].record
  <2>1. [meliJob[b] EXCEPT !.pc = pc, !.record = record] = [meliJob[b] EXCEPT !.pc = pc]
    BY <1>1, <1>3 DEF JobRow
  <2> QED
    BY <1>2, <1>3, <2>1 DEF BecomesJob, JobGoes
<1>4. CASE meliJob' = [meliJob EXCEPT ![b].record = record, ![b].pc = pc]
  <2>1. meliJob' = [meliJob EXCEPT ![b] = [meliJob[b] EXCEPT !.pc = pc, !.record = record]]
    BY <1>1, <1>4, MeliTypesNamed DEF JobRow
  <2> QED
    BY <1>2, <2>1 DEF BecomesJob
<1> QED
  BY <1>3, <1>4

\* Before a job has loaded the session.
BeforeLoad == {"idle", "job", "candidates", "load"}

LEMMA StartEffect ==
    ASSUME MeliTypeOK, NEW b \in DOMAIN meliJob, StartDiscovery(b) \/ StartLinks(b)
    PROVE  \E kind \in {"discovery", "links"} :
             /\ BecomesJob(b, [NoJobYet EXCEPT !.pc = "job", !.kind = kind])
             /\ meliJob[b].pc = "idle"
             /\ UNCHANGED <<session, linkRequest, dialog, rotations, meliFaults>>
<1>1. ASSUME NEW kind \in {"discovery", "links"}
      PROVE  [NoJobYet EXCEPT !.pc = "job", !.kind = kind] \in JobRow
  BY <1>1, MeliValues DEF JobRow, JobSteps, JobKinds
<1> QED
  BY <1>1 DEF StartDiscovery, StartLinks, BecomesJob

LEMMA GoOnEffect ==
    ASSUME MeliTypeOK, NEW b \in DOMAIN meliJob,
           \/ CreateJob(b) \/ LockAffiliate(b) \/ PersistSession(b) \/ UnlockAffiliate(b)
           \/ FinishJob(b) \/ MeliJobFails(b)
    PROVE  /\ \E pc \in JobSteps, record \in Records :
                /\ BecomesJob(b, [meliJob[b] EXCEPT !.pc = pc, !.record = record])
                /\ pc # "links" /\ (pc \in BeforeLoad => meliJob[b].pc \in BeforeLoad)
           /\ meliJob[b].pc # "links" \/ linkRequest[b] = NoRequest
           /\ UNCHANGED <<linkRequest, dialog, rotations>>
<1>r. meliJob[b] \in JobRow
  BY MeliTypesNamed, SMTT(30)
<1>1. ASSUME NEW pc \in JobSteps, JobGoes(b, pc)
      PROVE  BecomesJob(b, [meliJob[b] EXCEPT !.pc = pc, !.record = meliJob[b].record])
  BY <1>1, <1>r, JobGoesOn, JobFields, ZenonT(40)
<1>2. CASE CreateJob(b)
  <2>1. PICK pc \in JobSteps : /\ pc \in {"candidates", "load"}
                               /\ meliJob' = [meliJob EXCEPT ![b].record = "RUNNING", ![b].pc = pc]
    BY <1>2 DEF CreateJob, JobSteps
  <2>2. BecomesJob(b, [meliJob[b] EXCEPT !.pc = pc, !.record = "RUNNING"])
    BY <2>1, JobGoesOn DEF Records
  <2> QED
    BY <1>2, <2>1, <2>2 DEF CreateJob, BeforeLoad, Records
<1>3. CASE LockAffiliate(b)
  <2>1. PICK pc \in {"failed", "load", "ingest"} : JobGoes(b, pc)
    BY <1>3 DEF LockAffiliate
  <2> QED
    BY <1>1, <1>3, <1>r, <2>1, JobFields DEF LockAffiliate, JobSteps, BeforeLoad
<1>4. CASE PersistSession(b)
  <2>1. PICK pc \in {"unlock", "ingest"} : JobGoes(b, pc)
    BY <1>4 DEF PersistSession
  <2> QED
    BY <1>1, <1>4, <1>r, <2>1, JobFields DEF PersistSession, JobSteps, BeforeLoad
<1>5. CASE UnlockAffiliate(b)
  <2>1. PICK pc \in {"ingest", "failed"} : JobGoes(b, pc)
    BY <1>5, SMTT(30) DEF UnlockAffiliate
  <2> QED
    BY <1>1, <1>5, <1>r, <2>1, JobFields DEF UnlockAffiliate, JobSteps, BeforeLoad
<1>6. CASE FinishJob(b)
  <2>1. PICK record \in Records :
          meliJob' = [meliJob EXCEPT ![b].pc = "release", ![b].record = record]
    BY <1>6, <1>r, JobFields DEF FinishJob, Records
  <2>2. meliJob' = [meliJob EXCEPT ![b].record = record, ![b].pc = "release"]
    BY <2>1
  <2>3. BecomesJob(b, [meliJob[b] EXCEPT !.pc = "release", !.record = record])
    BY <2>2, JobGoesOn DEF JobSteps
  <2> QED
    BY <1>6, <2>3 DEF FinishJob, JobSteps, BeforeLoad
<1>7. CASE MeliJobFails(b)
  <2>1. JobGoes(b, "failed")
    BY <1>7 DEF MeliJobFails
  <2> QED
    BY <1>1, <1>7, <1>r, <2>1, JobFields DEF MeliJobFails, JobSteps, BeforeLoad
<1> QED
  BY <1>2, <1>3, <1>4, <1>5, <1>6, <1>7

LEMMA EndEffect ==
    ASSUME MeliTypeOK, NEW b \in DOMAIN meliJob, ReleaseMeli(b) \/ MeliJobCrashes(b)
    PROVE  /\ BecomesJob(b, NoJobYet)
           /\ \/ UNCHANGED linkRequest /\ meliJob[b].pc = "release"
              \/ linkRequest' = [linkRequest EXCEPT ![b] = NoRequest]
           /\ UNCHANGED <<session, dialog, rotations>>
BY MeliValues DEF ReleaseMeli, MeliJobCrashes, OverMeli, BecomesJob

\* The session as a job loads it.
Loaded(row) ==
  /\ row.pc = "links" /\ row.loaded = session.cookie
  /\ row.version = session.version /\ row.generation = session.generation

LEMMA LoadEffect ==
    ASSUME MeliTypeOK, NEW b \in DOMAIN meliJob, LoadSession(b)
    PROVE  /\ meliJob[b].pc = "load"
           /\ \/ /\ \E pc \in {"unlock", "ingest"} :
                      BecomesJob(b, [meliJob[b] EXCEPT !.pc = pc, !.record = meliJob[b].record])
                 /\ UNCHANGED rotations
              \/ \E row :
                   /\ BecomesJob(b, row) /\ Loaded(row)
                   /\ row.rotated = meliJob[b].rotated /\ row.cookie = session.cookie
                   /\ UNCHANGED rotations
              \/ \E row : \E cookie \in Fresh(session.cookie) :
                   /\ BecomesJob(b, row) /\ Loaded(row) /\ Rotates
                   /\ row.rotated = {n \in CookieNames : cookie[n] # session.cookie[n]}
                   /\ row.cookie = cookie
           /\ UNCHANGED <<session, linkRequest, dialog, meliFaults>>
<1>t. /\ meliJob \in [DOMAIN meliJob -> JobRow] /\ meliJob[b] \in JobRow
      /\ session \in SessionRow /\ rotations \in Nat
  BY MeliTypesNamed
<1>s. session.version \in Nat /\ session.generation \in Nat /\ session.cookie \in Cookies
  BY <1>t DEF SessionRow
<1>f. UNCHANGED <<session, linkRequest, dialog, meliFaults>> /\ meliJob[b].pc = "load"
  BY DEF LoadSession
<1>1. CASE session.status # "CONNECTED"
  <2>1. PICK pc \in {"unlock", "ingest"} : JobGoes(b, pc) /\ UNCHANGED rotations
    BY <1>1 DEF LoadSession
  <2>2. BecomesJob(b, [meliJob[b] EXCEPT !.pc = pc, !.record = meliJob[b].record])
    BY <1>t, <2>1, JobGoesOn, JobFields DEF JobSteps
  <2> QED
    BY <1>f, <2>1, <2>2
<1>2. ASSUME NEW cookie \in Cookies, NEW mid \in JobRow,
             meliJob' = [meliJob EXCEPT ![b] = [mid EXCEPT
               !.version = session.version, !.generation = session.generation,
               !.loaded = session.cookie, !.cookie = cookie, !.pc = "links"]]
      PROVE  \E row : /\ BecomesJob(b, row) /\ Loaded(row)
                      /\ row.rotated = mid.rotated /\ row.cookie = cookie
  <2> DEFINE row == [mid EXCEPT
               !.version = session.version, !.generation = session.generation,
               !.loaded = session.cookie, !.cookie = cookie, !.pc = "links"]
  <2>1. row \in JobRow
    BY <1>s, <1>2 DEF JobRow, JobSteps
  <2>2. Loaded(row) /\ row.rotated = mid.rotated /\ row.cookie = cookie
    BY <1>2 DEF Loaded, JobRow
  <2>3. BecomesJob(b, row)
    BY <1>2, <2>1 DEF BecomesJob
  <2> QED
    BY <2>2, <2>3
<1>3. CASE /\ meliJob' = [meliJob EXCEPT ![b] = [@ EXCEPT
                  !.version = session.version, !.generation = session.generation,
                  !.loaded = session.cookie, !.cookie = session.cookie,
                  !.left = MaxItems, !.pc = "links"]]
           /\ UNCHANGED rotations
  <2>1. PICK mid : mid = [meliJob[b] EXCEPT !.left = MaxItems]
    OBVIOUS
  <2>2. mid \in JobRow /\ mid.rotated = meliJob[b].rotated
    BY <1>t, <2>1, MeliAssumption DEF JobRow
  <2>3. meliJob' = [meliJob EXCEPT ![b] = [mid EXCEPT
               !.version = session.version, !.generation = session.generation,
               !.loaded = session.cookie, !.cookie = session.cookie, !.pc = "links"]]
    BY <1>3, <1>t, <2>1 DEF JobRow
  <2>4. \E row : /\ BecomesJob(b, row) /\ Loaded(row)
                 /\ row.rotated = mid.rotated /\ row.cookie = session.cookie
    BY <1>2, <1>s, <2>2, <2>3, Zenon
  <2>5. \E row : /\ BecomesJob(b, row) /\ Loaded(row)
                 /\ row.rotated = meliJob[b].rotated /\ row.cookie = session.cookie
    BY <2>4, <2>2
  <2> QED
    BY <1>f, <1>3, <2>5
<1>4. ASSUME NEW cookie \in Fresh(session.cookie), Rotates,
             meliJob' = [meliJob EXCEPT ![b] = [@ EXCEPT
                    !.version = session.version, !.generation = session.generation,
                    !.loaded = session.cookie, !.cookie = cookie,
                    !.rotated = {n \in CookieNames : cookie[n] # session.cookie[n]},
                    !.left = MaxItems, !.pc = "links"]]
      PROVE  \E row : /\ BecomesJob(b, row) /\ Loaded(row)
                      /\ row.rotated = {n \in CookieNames : cookie[n] # session.cookie[n]}
                      /\ row.cookie = cookie
  <2>1. PICK rotated \in SUBSET CookieNames :
          rotated = {n \in CookieNames : cookie[n] # session.cookie[n]}
    OBVIOUS
  <2>2. PICK mid : mid = [meliJob[b] EXCEPT !.rotated = rotated, !.left = MaxItems]
    OBVIOUS
  <2>3. mid \in JobRow /\ mid.rotated = rotated
    BY <1>t, <2>2, MeliAssumption DEF JobRow
  <2>4. meliJob' = [meliJob EXCEPT ![b] = [mid EXCEPT
               !.version = session.version, !.generation = session.generation,
               !.loaded = session.cookie, !.cookie = cookie, !.pc = "links"]]
    BY <1>4, <1>t, <2>1, <2>2 DEF JobRow
  <2>5. cookie \in Cookies
    BY <1>4, <1>s, <1>t, FreshValues
  <2> QED
    BY <1>2, <2>1, <2>3, <2>4, <2>5, ZenonT(40)
<1>5. ASSUME NEW expired \in BOOLEAN, UNCHANGED rotations,
             meliJob' = [meliJob EXCEPT ![b] = [@ EXCEPT
                    !.version = session.version, !.generation = session.generation,
                    !.loaded = session.cookie, !.cookie = session.cookie,
                    !.attempted = TRUE, !.expired = expired, !.pc = "links"]]
      PROVE  \E row : /\ BecomesJob(b, row) /\ Loaded(row)
                      /\ row.rotated = meliJob[b].rotated /\ row.cookie = session.cookie
  <2>1. PICK mid : mid = [meliJob[b] EXCEPT !.attempted = TRUE, !.expired = expired]
    OBVIOUS
  <2>2. mid \in JobRow /\ mid.rotated = meliJob[b].rotated
    BY <1>t, <1>5, <2>1 DEF JobRow
  <2>3. meliJob' = [meliJob EXCEPT ![b] = [mid EXCEPT
               !.version = session.version, !.generation = session.generation,
               !.loaded = session.cookie, !.cookie = session.cookie, !.pc = "links"]]
    BY <1>5, <1>t, <2>1 DEF JobRow
  <2>4. \E row : /\ BecomesJob(b, row) /\ Loaded(row)
                 /\ row.rotated = mid.rotated /\ row.cookie = session.cookie
    BY <1>2, <1>s, <2>2, <2>3, Zenon
  <2> QED
    BY <2>2, <2>4
<1>6. CASE session.status = "CONNECTED"
  <2>1. \/ /\ meliJob' = [meliJob EXCEPT ![b] = [@ EXCEPT
                  !.version = session.version, !.generation = session.generation,
                  !.loaded = session.cookie, !.cookie = session.cookie,
                  !.left = MaxItems, !.pc = "links"]]
           /\ UNCHANGED rotations
        \/ /\ Rotates
           /\ \E cookie \in Fresh(session.cookie) :
                  meliJob' = [meliJob EXCEPT ![b] = [@ EXCEPT
                    !.version = session.version, !.generation = session.generation,
                    !.loaded = session.cookie, !.cookie = cookie,
                    !.rotated = {n \in CookieNames : cookie[n] # session.cookie[n]},
                    !.left = MaxItems, !.pc = "links"]]
        \/ /\ \E expired \in BOOLEAN :
                  meliJob' = [meliJob EXCEPT ![b] = [@ EXCEPT
                    !.version = session.version, !.generation = session.generation,
                    !.loaded = session.cookie, !.cookie = session.cookie,
                    !.attempted = TRUE, !.expired = expired, !.pc = "links"]]
           /\ UNCHANGED rotations
    BY <1>6 DEF LoadSession
  <2> QED
    BY <1>f, <1>3, <1>4, <1>5, <2>1
<1> QED
  BY <1>1, <1>6

LEMMA SendEffect ==
    ASSUME MeliTypeOK, NEW b \in DOMAIN meliJob, NEW w \in LinkWorkers, SendRequest(b, w)
    PROVE  /\ \E row : /\ BecomesJob(b, row)
                       /\ row.pc = "links" /\ row.version = meliJob[b].version
                       /\ row.generation = meliJob[b].generation
                       /\ row.loaded = meliJob[b].loaded /\ row.cookie = meliJob[b].cookie
                       /\ row.rotated = meliJob[b].rotated
           /\ meliJob[b].pc = "links"
           /\ linkRequest' = [linkRequest EXCEPT ![b][w] = <<meliJob[b].cookie>>]
           /\ UNCHANGED <<session, dialog, rotations>>
<1>r. meliJob[b] \in JobRow /\ meliJob \in [DOMAIN meliJob -> JobRow]
  BY MeliTypesNamed
<1>l. meliJob[b].left \in Nat
  BY <1>r, JobFields
<1>1. PICK left \in Nat : left = meliJob[b].left - 1
  BY <1>l DEF SendRequest
<1>2. PICK row : row = [meliJob[b] EXCEPT !.left = left, !.attempted = TRUE]
  OBVIOUS
<1>3. row \in JobRow
  BY <1>r, <1>2 DEF JobRow
<1>4. meliJob' = [meliJob EXCEPT ![b].left = @ - 1, ![b].attempted = TRUE]
  BY DEF SendRequest
<1>5. meliJob' = [meliJob EXCEPT ![b] = row]
  BY <1>r, <1>1, <1>2, <1>4
<1>6. /\ row.pc = meliJob[b].pc /\ row.version = meliJob[b].version
      /\ row.generation = meliJob[b].generation
      /\ row.loaded = meliJob[b].loaded /\ row.cookie = meliJob[b].cookie
      /\ row.rotated = meliJob[b].rotated
  BY <1>r, <1>2, SMTT(30) DEF JobRow
<1> QED
  BY <1>3, <1>5, <1>6 DEF SendRequest, BecomesJob

LEMMA AnswerEffect ==
    ASSUME MeliTypeOK, NEW b \in DOMAIN meliJob, NEW w \in LinkWorkers, AnswerRequest(b, w)
    PROVE  /\ \E row :
                /\ BecomesJob(b, row)
                /\ row.pc = meliJob[b].pc /\ row.version = meliJob[b].version
                /\ row.generation = meliJob[b].generation /\ row.loaded = meliJob[b].loaded
                /\ \/ /\ row.cookie = meliJob[b].cookie /\ row.rotated = meliJob[b].rotated
                      /\ UNCHANGED rotations
                   \/ /\ Rotates
                      /\ \A n \in CookieNames :
                           \/ row.cookie[n] = rotations + 1
                           \/ /\ row.cookie[n] = meliJob[b].cookie[n]
                              /\ n \in row.rotated => n \in meliJob[b].rotated
           /\ linkRequest[b][w] # <<>>
           /\ linkRequest' = [linkRequest EXCEPT ![b][w] = <<>>]
           /\ UNCHANGED <<session, dialog>>
<1>r. meliJob[b] \in JobRow /\ meliJob \in [DOMAIN meliJob -> JobRow] /\ rotations \in Nat
  BY MeliTypesNamed
<1>c. meliJob[b].cookie \in Cookies /\ meliJob[b].rotated \in SUBSET CookieNames
  BY <1>r, JobFields, SMTT(30)
<1> DEFINE before == linkRequest[b][w][1]
<1>1. \/ /\ meliJob' = [meliJob EXCEPT ![b].cookie = Merged(@, before, before)]
         /\ UNCHANGED rotations
      \/ /\ Rotates
         /\ \E refreshed \in Fresh(before) :
              meliJob' = [meliJob EXCEPT
                ![b].cookie = Merged(@, before, refreshed),
                ![b].rotated = @ \cup {n \in CookieNames : refreshed[n] # before[n]}]
      \/ meliJob' = [meliJob EXCEPT ![b].expired = TRUE] /\ UNCHANGED rotations
  BY DEF AnswerRequest
<1>2. before \in Cookies
  <2>1. linkRequest[b][w] \in Seq(Cookies) /\ linkRequest[b][w] # <<>>
    BY MeliTypesNamed DEF Requests, AnswerRequest
  <2> QED
    BY <2>1
<1> HIDE DEF before
<1>u. /\ linkRequest[b][w] # <<>>
      /\ linkRequest' = [linkRequest EXCEPT ![b][w] = <<>>]
      /\ UNCHANGED <<session, dialog>>
  BY DEF AnswerRequest
<1>3. CASE /\ meliJob' = [meliJob EXCEPT ![b].cookie = Merged(@, before, before)]
           /\ UNCHANGED rotations
  <2>1. Merged(meliJob[b].cookie, before, before) = meliJob[b].cookie
    BY <1>2, <1>c DEF Merged, Cookies
  <2>2. meliJob' = meliJob
    BY <1>3, <1>r, <2>1 DEF JobRow
  <2>3. meliJob' = [meliJob EXCEPT ![b] = meliJob[b]]
    BY <1>r, <2>2
  <2> QED
    BY <1>3, <1>r, <1>u, <2>3 DEF BecomesJob
<1>4. CASE \E refreshed \in Fresh(before) :
             /\ Rotates
             /\ meliJob' = [meliJob EXCEPT
                   ![b].cookie = Merged(@, before, refreshed),
                   ![b].rotated = @ \cup {n \in CookieNames : refreshed[n] # before[n]}]
  <2>1. PICK refreshed \in Fresh(before) :
             /\ Rotates
             /\ meliJob' = [meliJob EXCEPT
                   ![b].cookie = Merged(@, before, refreshed),
                   ![b].rotated = @ \cup {n \in CookieNames : refreshed[n] # before[n]}]
    BY <1>4
  <2>2. /\ refreshed \in Cookies
        /\ \A n \in CookieNames : refreshed[n] = before[n] \/ refreshed[n] = rotations + 1
    BY <1>2, <1>r, FreshValues
  <2>3. PICK cookie : cookie = Merged(meliJob[b].cookie, before, refreshed)
    OBVIOUS
  <2>4. PICK rotated : rotated = meliJob[b].rotated
                                   \cup {n \in CookieNames : refreshed[n] # before[n]}
    OBVIOUS
  <2>5. cookie \in Cookies /\ rotated \in SUBSET CookieNames
    BY <1>c, <1>2, <2>2, <2>3, <2>4, MergedValues
  <2>6. PICK row : row = [meliJob[b] EXCEPT !.cookie = cookie, !.rotated = rotated]
    OBVIOUS
  <2>7. row \in JobRow
    BY <1>r, <2>5, <2>6 DEF JobRow
  <2>8. meliJob' = [meliJob EXCEPT ![b] = row]
    BY <1>r, <2>1, <2>3, <2>4, <2>6
  <2>9. /\ row.pc = meliJob[b].pc /\ row.version = meliJob[b].version
        /\ row.generation = meliJob[b].generation /\ row.loaded = meliJob[b].loaded
        /\ row.cookie = cookie /\ row.rotated = rotated
    BY <1>r, <2>6 DEF JobRow
  <2>10. \A n \in CookieNames :
           \/ cookie[n] = rotations + 1
           \/ /\ cookie[n] = meliJob[b].cookie[n]
              /\ n \in rotated => n \in meliJob[b].rotated
    <3>1. \A n \in CookieNames :
            cookie[n] = IF refreshed[n] # before[n] THEN refreshed[n] ELSE meliJob[b].cookie[n]
      BY <1>c, <1>2, <2>2, <2>3, MergedValues
    <3> QED
      BY <2>2, <2>4, <3>1
  <2> QED
    BY <1>u, <2>1, <2>7, <2>8, <2>9, <2>10, ZenonT(40) DEF BecomesJob
<1>5. CASE meliJob' = [meliJob EXCEPT ![b].expired = TRUE] /\ UNCHANGED rotations
  <2>1. PICK row : row = [meliJob[b] EXCEPT !.expired = TRUE]
    OBVIOUS
  <2>2. row \in JobRow /\ meliJob' = [meliJob EXCEPT ![b] = row]
    BY <1>r, <1>5, <2>1 DEF JobRow
  <2>3. /\ row.pc = meliJob[b].pc /\ row.version = meliJob[b].version
        /\ row.generation = meliJob[b].generation /\ row.loaded = meliJob[b].loaded
        /\ row.cookie = meliJob[b].cookie /\ row.rotated = meliJob[b].rotated
    BY <1>r, <2>1 DEF JobRow
  <2> QED
    BY <1>u, <1>5, <2>2, <2>3 DEF BecomesJob
<1> QED
  BY <1>1, <1>3, <1>4, <1>5

-----------------------------------------------------------------------------
\* The actions of one job, and of one dialog.

JobActs(b) ==
  \/ StartDiscovery(b) \/ StartLinks(b) \/ CreateJob(b) \/ LockAffiliate(b)
  \/ LoadSession(b) \/ PersistSession(b) \/ UnlockAffiliate(b) \/ FinishJob(b)
  \/ ReleaseMeli(b) \/ MeliJobFails(b) \/ MeliJobCrashes(b)
  \/ \E w \in LinkWorkers : SendRequest(b, w) \/ AnswerRequest(b, w)

DialogActs(d) == BeginSave(d) \/ BeginTest(d) \/ BeginTestLink(d) \/ EndDialog(d)

LEMMA MeliSplit ==
  [MeliNext]_meliVars =>
    \/ \E b \in DOMAIN meliJob : JobActs(b)
    \/ \E d \in DOMAIN dialog : DialogActs(d)
    \/ MeliKeysLapse \/ ClearSession \/ UNCHANGED meliVars
BY DEF MeliNext, JobActs, DialogActs

\* What a job does to the rows, whatever action it takes.
LEMMA JobEffect ==
    ASSUME MeliTypeOK, NEW b \in DOMAIN meliJob, JobActs(b)
    PROVE  /\ \E row : BecomesJob(b, row)
           /\ \/ UNCHANGED linkRequest
              \/ linkRequest' = [linkRequest EXCEPT ![b] = NoRequest]
              \/ \E w \in LinkWorkers, sent \in Seq(Cookies) :
                   linkRequest' = [linkRequest EXCEPT ![b][w] = sent]
           /\ UNCHANGED dialog /\ (UNCHANGED rotations \/ Rotates)
<1>c. <<meliJob[b].cookie>> \in Seq(Cookies) /\ <<>> \in Seq(Cookies)
  <2>1. meliJob[b] \in JobRow
    BY MeliTypesNamed
  <2> QED
    BY <2>1, JobFields
<1>1. CASE StartDiscovery(b) \/ StartLinks(b)
  BY <1>1, StartEffect
<1>2. CASE \/ CreateJob(b) \/ LockAffiliate(b) \/ PersistSession(b) \/ UnlockAffiliate(b)
           \/ FinishJob(b) \/ MeliJobFails(b)
  BY <1>2, GoOnEffect
<1>3. CASE LoadSession(b)
  BY <1>3, LoadEffect
<1>4. CASE ReleaseMeli(b) \/ MeliJobCrashes(b)
  BY <1>4, EndEffect
<1>5. ASSUME NEW w \in LinkWorkers, SendRequest(b, w)
      PROVE  /\ \E row : BecomesJob(b, row)
             /\ linkRequest' = [linkRequest EXCEPT ![b][w] = <<meliJob[b].cookie>>]
             /\ UNCHANGED <<dialog, rotations>>
  BY <1>5, SendEffect
<1>6. ASSUME NEW w \in LinkWorkers, AnswerRequest(b, w)
      PROVE  /\ \E row : BecomesJob(b, row)
             /\ linkRequest' = [linkRequest EXCEPT ![b][w] = <<>>]
             /\ UNCHANGED dialog /\ (UNCHANGED rotations \/ Rotates)
  BY <1>6, AnswerEffect
<1> QED
  BY <1>c, <1>1, <1>2, <1>3, <1>4, <1>5, <1>6 DEF JobActs

\* What was read of the session may be written back, or not, as before the step.
KeepsReads ==
  /\ session.version <= session'.version
  /\ session'.version = session.version => session'.status = "NONE" \/ UNCHANGED session

LEMMA SessionStep ==
    ASSUME MeliTypeOK, [MeliNext]_meliVars
    PROVE  /\ session' \in SessionRow /\ KeepsReads
           /\ rotations' \in Nat /\ rotations <= rotations'
<1>t. session \in SessionRow /\ rotations \in Nat
  BY MeliTypesNamed
<1>f. /\ session.status \in SessionStates /\ session.cookie \in Cookies
      /\ session.generation \in Nat /\ session.version \in Nat
  BY <1>t DEF SessionRow
<1>1. ASSUME UNCHANGED session PROVE session' \in SessionRow /\ KeepsReads
  BY <1>1, <1>t, <1>f DEF KeepsReads
<1>2. ASSUME NEW status \in SessionStates, NEW cookie \in Cookies, NEW generation \in Nat,
             session' = [session EXCEPT !.status = status, !.cookie = cookie,
                           !.generation = generation, !.version = @ + 1]
      PROVE  session' \in SessionRow /\ KeepsReads
  <2>1. PICK version \in Nat : version = session.version + 1
    BY <1>f
  <2>2. session' = [session EXCEPT !.status = status, !.cookie = cookie,
                      !.generation = generation, !.version = version]
    BY <1>2, <2>1
  <2>3. session' \in SessionRow /\ session'.version = version
    BY <1>t, <2>2 DEF SessionRow
  <2> QED
    BY <1>f, <2>1, <2>3 DEF KeepsReads
<1>3. ASSUME NEW status \in SessionStates,
             session' = [session EXCEPT !.status = status, !.version = @ + 1]
      PROVE  session' \in SessionRow /\ KeepsReads
  <2>1. session' = [session EXCEPT !.status = status, !.cookie = session.cookie,
                      !.generation = session.generation, !.version = @ + 1]
    BY <1>3, <1>t DEF SessionRow
  <2> QED
    BY <1>2, <1>f, <2>1
<1>4. ASSUME NEW b \in DOMAIN meliJob, JobActs(b) PROVE session' \in SessionRow /\ KeepsReads
  <2>1. CASE UNCHANGED session
    BY <1>1, <2>1
  <2>2. CASE PersistSession(b)
    <3>1. meliJob[b] \in JobRow
      BY MeliTypesNamed
    <3>2. meliJob[b].cookie \in Cookies /\ meliJob[b].generation \in Nat
      BY <3>1, JobFields
    <3>3. \/ UNCHANGED session
          \/ \E status \in {"EXPIRED", "CONNECTED"} :
               session' = [session EXCEPT !.status = status, !.cookie = meliJob[b].cookie,
                             !.generation = meliJob[b].generation, !.version = @ + 1]
      BY <2>2 DEF PersistSession
    <3> QED
      BY <1>1, <1>2, <3>2, <3>3 DEF SessionStates
  <2> QED
    BY <1>4, <2>1, <2>2 DEF JobActs, StartDiscovery, StartLinks, CreateJob, LockAffiliate,
       LoadSession, UnlockAffiliate, FinishJob, ReleaseMeli, MeliJobFails, MeliJobCrashes,
       SendRequest, AnswerRequest
<1>5. ASSUME NEW d \in DOMAIN dialog, DialogActs(d)
      PROVE  session' \in SessionRow /\ KeepsReads
  <2>1. dialog[d].cookie \in Cookies /\ dialog[d].generation \in Nat
    <3>1. dialog[d] \in DialogRow
      BY MeliTypesNamed
    <3> QED
      BY <3>1 DEF DialogRow
  <2>2. CASE BeginSave(d)
    <3>1. PICK next \in Nat : next = rotations + 1
      BY <1>t
    <3>2. PICK cookie \in Cookies : cookie = [n \in CookieNames |-> next]
      BY DEF Cookies
    <3>3. PICK version \in Nat : version = session.version + 1
      BY <1>f
    <3>4. session' = [status |-> "VALIDATING", cookie |-> cookie, generation |-> next,
                      version |-> version]
      BY <2>2, <3>1, <3>2, <3>3 DEF BeginSave
    <3>5. session' \in SessionRow /\ session'.version = version
      BY <3>4 DEF SessionRow, SessionStates
    <3> QED
      BY <1>f, <3>3, <3>5 DEF KeepsReads
  <2>3. CASE BeginTest(d)
    BY <1>3, <2>3 DEF BeginTest, SessionStates
  <2>4. CASE BeginTestLink(d)
    BY <1>1, <2>4 DEF BeginTestLink
  <2>5. CASE EndDialog(d)
    <3>1. \/ UNCHANGED session
          \/ session' = [session EXCEPT !.status = "CONNECTED", !.cookie = dialog[d].cookie,
                           !.generation = dialog[d].generation, !.version = @ + 1]
          \/ \E status \in {"EXPIRED", "ERROR"} :
               session' = [session EXCEPT !.status = status, !.version = @ + 1]
      BY <2>5 DEF EndDialog
    <3>2. CASE session' = [session EXCEPT !.status = "CONNECTED", !.cookie = dialog[d].cookie,
                             !.generation = dialog[d].generation, !.version = @ + 1]
      BY <1>2, <2>1, <3>2 DEF SessionStates
    <3>3. CASE \E status \in {"EXPIRED", "ERROR"} :
                 session' = [session EXCEPT !.status = status, !.version = @ + 1]
      BY <1>3, <3>3 DEF SessionStates
    <3> QED
      BY <1>1, <3>1, <3>2, <3>3
  <2> QED
    BY <1>5, <2>2, <2>3, <2>4, <2>5 DEF DialogActs
<1>6. ASSUME ClearSession PROVE session' \in SessionRow /\ KeepsReads
  <2>1. session' = [session EXCEPT !.status = "NONE", !.cookie = Blank, !.generation = 0]
    BY <1>6 DEF ClearSession
  <2>2. session' \in SessionRow /\ session'.version = session.version
        /\ session'.status = "NONE"
    BY <1>t, <2>1, MeliValues DEF SessionRow, SessionStates
  <2> QED
    BY <1>f, <2>2 DEF KeepsReads
<1>7. session' \in SessionRow /\ KeepsReads
  BY <1>1, <1>4, <1>5, <1>6, MeliSplit DEF MeliKeysLapse, meliVars
<1>8. UNCHANGED rotations \/ Rotates
  BY JobEffect, MeliSplit DEF DialogActs, BeginSave, BeginTest, BeginTestLink, EndDialog,
     MeliKeysLapse, ClearSession, meliVars
<1>9. rotations' \in Nat /\ rotations <= rotations'
  BY <1>t, <1>8 DEF Rotates
<1> QED
  BY <1>7, <1>9

LEMMA MeliInitType == MeliInit => MeliTypeOK
<1> SUFFICES ASSUME MeliInit PROVE MeliTypeOK
  OBVIOUS
<1>1. PICK crew \in MeliCrews :
        /\ meliJob = [b \in crew.jobs |-> NoJobYet]
        /\ linkRequest = [b \in crew.jobs |-> NoRequest]
        /\ dialog = [d \in crew.dialogs |-> NoDialog]
        /\ meliFaults = crew.faults
  BY DEF MeliInit
<1>2. crew \in [jobs : SUBSET MeliJobs, dialogs : SUBSET Dialogs, faults : Nat]
  BY MeliAssumption
<1>3. session \in SessionRow
  BY MeliValues DEF MeliInit, SessionRow, SessionStates
<1>4. /\ DOMAIN meliJob = crew.jobs /\ DOMAIN dialog = crew.dialogs
      /\ meliJob \in [DOMAIN meliJob -> JobRow]
      /\ linkRequest \in [DOMAIN meliJob -> Requests]
      /\ dialog \in [DOMAIN dialog -> DialogRow]
  BY <1>1, MeliValues
<1>5. /\ {discoveryKey, affiliateKey} \subseteq MeliJobs \cup {NoMeliJob}
      /\ rotations \in Nat /\ meliFaults \in Nat
  BY <1>1, <1>2 DEF MeliInit
<1> QED
  BY <1>3, <1>4, <1>5, MeliTypesNamed

\* The lists of requests.
LEMMA RequestsStep ==
    ASSUME MeliTypeOK, NEW b \in DOMAIN meliJob, JobActs(b)
    PROVE  /\ linkRequest' \in [DOMAIN meliJob -> Requests]
           /\ \A a \in DOMAIN meliJob : a # b => linkRequest'[a] = linkRequest[a]
<1>t. linkRequest \in [DOMAIN meliJob -> Requests] /\ linkRequest[b] \in Requests
  BY MeliTypesNamed
<1>1. CASE linkRequest' = [linkRequest EXCEPT ![b] = NoRequest]
  BY <1>t, <1>1, MeliValues
<1>2. ASSUME NEW w \in LinkWorkers, NEW sent \in Seq(Cookies),
             linkRequest' = [linkRequest EXCEPT ![b][w] = sent]
      PROVE  /\ linkRequest' \in [DOMAIN meliJob -> Requests]
             /\ \A a \in DOMAIN meliJob : a # b => linkRequest'[a] = linkRequest[a]
  <2>1. PICK own : own = [linkRequest[b] EXCEPT ![w] = sent]
    OBVIOUS
  <2>2. own \in Requests
    BY <1>t, <1>2, <2>1 DEF Requests
  <2>3. linkRequest' = [linkRequest EXCEPT ![b] = own]
    BY <1>2, <2>1
  <2> QED
    BY <1>t, <2>2, <2>3
<1> QED
  BY <1>t, <1>1, <1>2, JobEffect

\* What a dialog does to its row.
LEMMA DialogEffect ==
    ASSUME MeliTypeOK, NEW d \in DOMAIN dialog, DialogActs(d)
    PROVE  /\ \E row \in DialogRow : dialog' = [dialog EXCEPT ![d] = row]
           /\ UNCHANGED <<meliJob, linkRequest, discoveryKey, affiliateKey, meliFaults>>
<1>t. session \in SessionRow /\ rotations \in Nat
  BY MeliTypesNamed
<1>f. /\ session.cookie \in Cookies /\ session.generation \in Nat /\ session.version \in Nat
  BY <1>t DEF SessionRow
<1>1. ASSUME NEW kind \in DialogKinds, NEW cookie \in Cookies, NEW generation \in Nat,
             NEW version \in Nat
      PROVE  [pc |-> "validate", kind |-> kind, cookie |-> cookie, generation |-> generation,
              version |-> version] \in DialogRow
  BY <1>1 DEF DialogRow
<1>2. CASE BeginSave(d)
  <2>1. PICK next \in Nat : next = rotations + 1
    BY <1>t
  <2>2. PICK cookie \in Cookies : cookie = [n \in CookieNames |-> next]
    BY DEF Cookies
  <2>3. dialog' = [dialog EXCEPT ![d] = [pc |-> "validate", kind |-> "save",
          cookie |-> cookie, generation |-> next, version |-> 0]]
    BY <1>2, <2>1, <2>2 DEF BeginSave
  <2> QED
    BY <1>1, <1>2, <2>3 DEF BeginSave, DialogKinds
<1>3. CASE BeginTest(d)
  BY <1>1, <1>3, <1>f DEF BeginTest, DialogKinds
<1>4. CASE BeginTestLink(d)
  BY <1>1, <1>4, <1>f DEF BeginTestLink, DialogKinds
<1>5. CASE EndDialog(d)
  BY <1>5, MeliValues DEF EndDialog
<1> QED
  BY <1>2, <1>3, <1>4, <1>5 DEF DialogActs

LEMMA MeliTypeStep ==
    ASSUME MeliTypeOK, [MeliNext]_meliVars
    PROVE  MeliTypeOK'
<1>t. /\ \E crew \in MeliCrews : DOMAIN meliJob = crew.jobs /\ DOMAIN dialog = crew.dialogs
      /\ meliJob \in [DOMAIN meliJob -> JobRow]
      /\ linkRequest \in [DOMAIN meliJob -> Requests]
      /\ dialog \in [DOMAIN dialog -> DialogRow]
      /\ {discoveryKey, affiliateKey} \subseteq MeliJobs \cup {NoMeliJob}
      /\ meliFaults \in Nat
  BY MeliTypesNamed
<1>s. session' \in SessionRow /\ rotations' \in Nat
  BY SessionStep
<1>g. ASSUME \E crew \in MeliCrews : DOMAIN meliJob' = crew.jobs /\ DOMAIN dialog' = crew.dialogs,
             meliJob' \in [DOMAIN meliJob' -> JobRow],
             linkRequest' \in [DOMAIN meliJob' -> Requests],
             dialog' \in [DOMAIN dialog' -> DialogRow],
             {discoveryKey', affiliateKey'} \subseteq MeliJobs \cup {NoMeliJob},
             meliFaults' \in Nat
      PROVE  MeliTypeOK'
  BY <1>s, <1>g, Zenon DEF MeliTypeOK, JobRow, DialogRow, SessionRow, Requests, JobSteps,
     JobKinds, Records, SessionStates, DialogKinds, Cookies
<1>1. ASSUME NEW b \in DOMAIN meliJob, JobActs(b)
      PROVE  /\ {discoveryKey', affiliateKey'} \subseteq MeliJobs \cup {NoMeliJob}
             /\ meliFaults' \in Nat
  <2>1. b \in MeliJobs
    BY MeliJobsKnown, SMTT(30)
  <2>2. UNCHANGED meliFaults \/ MeliFault
    BY <1>1, ZenonT(40) DEF JobActs, StartDiscovery, StartLinks, CreateJob, LockAffiliate,
       LoadSession, PersistSession, UnlockAffiliate, FinishJob, ReleaseMeli, MeliJobFails,
       MeliJobCrashes, SendRequest, AnswerRequest
  <2>3. {discoveryKey', affiliateKey'} \subseteq {discoveryKey, affiliateKey, b, NoMeliJob}
    BY <1>1 DEF JobActs, StartDiscovery, StartLinks, CreateJob, LockAffiliate,
       LoadSession, PersistSession, UnlockAffiliate, FinishJob, ReleaseMeli, MeliJobFails,
       MeliJobCrashes, SendRequest, AnswerRequest, FreedKey
  <2> QED
    BY <1>t, <2>1, <2>2, <2>3 DEF MeliFault
<1>2. ASSUME NEW b \in DOMAIN meliJob, JobActs(b) PROVE MeliTypeOK'
  <2>1. /\ DOMAIN meliJob' = DOMAIN meliJob /\ meliJob' \in [DOMAIN meliJob' -> JobRow]
        /\ UNCHANGED dialog
    BY <1>2, JobEffect, JobBecomes
  <2>2. linkRequest' \in [DOMAIN meliJob' -> Requests]
    BY <1>2, <2>1, RequestsStep
  <2>3. \E crew \in MeliCrews : DOMAIN meliJob' = crew.jobs /\ DOMAIN dialog' = crew.dialogs
    BY <1>t, <2>1
  <2> QED
    BY <1>t, <1>g, <1>1, <1>2, <2>1, <2>2, <2>3
<1>3. ASSUME NEW d \in DOMAIN dialog, DialogActs(d) PROVE MeliTypeOK'
  <2>1. PICK row \in DialogRow :
          /\ dialog' = [dialog EXCEPT ![d] = row]
          /\ UNCHANGED <<meliJob, linkRequest, discoveryKey, affiliateKey, meliFaults>>
    BY <1>3, DialogEffect
  <2>2. DOMAIN dialog' = DOMAIN dialog /\ dialog' \in [DOMAIN dialog' -> DialogRow]
    BY <1>t, <2>1
  <2> QED
    BY <1>t, <1>g, <2>1, <2>2
<1>4. ASSUME MeliKeysLapse \/ ClearSession \/ UNCHANGED meliVars PROVE MeliTypeOK'
  <2>1. UNCHANGED <<meliJob, linkRequest, dialog>>
    BY <1>4 DEF MeliKeysLapse, ClearSession, meliVars
  <2>2. UNCHANGED meliFaults \/ MeliFault
    BY <1>4 DEF MeliKeysLapse, ClearSession, meliVars
  <2>3. {discoveryKey', affiliateKey'} \subseteq {discoveryKey, affiliateKey, NoMeliJob}
    BY <1>4 DEF MeliKeysLapse, ClearSession, meliVars
  <2>4. meliFaults' \in Nat
    BY <1>t, <2>2 DEF MeliFault
  <2> QED
    BY <1>t, <1>g, <2>1, <2>3, <2>4
<1> QED
  BY <1>2, <1>3, <1>4, MeliSplit

\* Jobs, session, requests and dialogs keep their types.
THEOREM MeliTypeCorrect == MeliSpec => []MeliTypeOK
BY MeliInitType, MeliTypeStep, PTL DEF MeliSpec

-----------------------------------------------------------------------------
\* Part 4: the session's cookie. No value in use is newer than the last one
\* issued, so that a response's new value is newer than all; and what a job or
\* a test link has read is the session's, unless that was written since.

Below(cookie) == \A n \in CookieNames : cookie[n] <= rotations

Current(read) ==
  /\ read.version <= session.version
  /\ read.version = session.version /\ session.status # "NONE"
       => read.generation = session.generation

JobOK(b) ==
  /\ Below(meliJob[b].loaded) /\ Below(meliJob[b].cookie)
  /\ linkRequest[b] # NoRequest => meliJob[b].pc = "links"
  /\ meliJob[b].pc \in BeforeLoad => meliJob[b].rotated = {}
  /\ meliJob[b].pc = "links" => Current(meliJob[b])
  /\ \A n \in meliJob[b].rotated : meliJob[b].cookie[n] > meliJob[b].loaded[n]

DialogOK(d) ==
  /\ Below(dialog[d].cookie) /\ dialog[d].generation <= rotations
  /\ dialog[d].kind = "link" => Current(dialog[d])
  /\ dialog[d].pc = "validate" => dialog[d].kind # "none"

MeliInv ==
  /\ MeliTypeOK
  /\ Below(session.cookie) /\ session.generation <= rotations
  /\ \A b \in DOMAIN meliJob : JobOK(b)
  /\ \A d \in DOMAIN dialog : DialogOK(d)

\* A cookie stays below the issued values, and a read current, through a step.
LEMMA StaysBelow ==
    ASSUME MeliTypeOK, [MeliNext]_meliVars, NEW cookie \in Cookies, Below(cookie)
    PROVE  Below(cookie)'
<1>1. rotations \in Nat /\ rotations' \in Nat /\ rotations <= rotations'
  BY SessionStep, MeliTypesNamed
<1>2. \A n \in CookieNames : cookie[n] \in Nat /\ cookie[n] <= rotations
  BY DEF Below, Cookies
<1>3. \A n \in CookieNames : cookie[n] <= rotations'
  BY <1>1, <1>2
<1> QED
  BY <1>3 DEF Below

LEMMA StaysCurrent ==
    ASSUME MeliTypeOK, [MeliNext]_meliVars, NEW read, read.version \in Nat, Current(read)
    PROVE  Current(read)'
<1>1. /\ session.version \in Nat /\ session'.version \in Nat /\ KeepsReads
  BY SessionStep, MeliTypesNamed DEF SessionRow
<1>2. /\ read.version <= session'.version
      /\ read.version = session'.version => session'.version = session.version
  BY <1>1 DEF Current, KeepsReads
<1>3. read.version = session'.version /\ session'.status # "NONE"
        => read.generation = session'.generation
  BY <1>1, <1>2 DEF Current, KeepsReads
<1> QED
  BY <1>2, <1>3 DEF Current

\* What a step leaves alone stays as it should be.
LEMMA OtherJobs ==
    ASSUME MeliInv, [MeliNext]_meliVars, NEW b \in DOMAIN meliJob,
           meliJob'[b] = meliJob[b], linkRequest'[b] = linkRequest[b]
    PROVE  JobOK(b)'
<1>r. meliJob[b] \in JobRow /\ JobOK(b) /\ MeliTypeOK
  BY MeliTypesNamed DEF MeliInv
<1>1. PICK row \in JobRow : row = meliJob[b]
  BY <1>r
<1>2. row.loaded \in Cookies /\ row.cookie \in Cookies /\ row.version \in Nat
  BY JobFields
<1>3. Below(row.loaded)' /\ Below(row.cookie)'
  BY <1>r, <1>1, <1>2, StaysBelow DEF JobOK
<1>4. row.pc = "links" => Current(row)'
  BY <1>r, <1>1, <1>2, StaysCurrent DEF JobOK
<1>5. meliJob'[b] = row
  BY <1>1
<1>6. Below(meliJob[b].loaded)' /\ Below(meliJob[b].cookie)'
  BY <1>3, <1>5 DEF Below
<1>7. (meliJob[b].pc = "links" => Current(meliJob[b]))'
  BY <1>4, <1>5 DEF Current
<1> QED
  BY <1>r, <1>6, <1>7 DEF JobOK

LEMMA OtherDialogs ==
    ASSUME MeliInv, [MeliNext]_meliVars, NEW d \in DOMAIN dialog, dialog'[d] = dialog[d]
    PROVE  DialogOK(d)'
<1>r. dialog[d] \in DialogRow /\ DialogOK(d) /\ MeliTypeOK
  BY MeliTypesNamed DEF MeliInv
<1>1. PICK row \in DialogRow : row = dialog[d]
  BY <1>r
<1>2. row.cookie \in Cookies /\ row.generation \in Nat /\ row.version \in Nat
  BY DEF DialogRow
<1>3. Below(row.cookie)'
  BY <1>r, <1>1, <1>2, StaysBelow DEF DialogOK
<1>4. row.kind = "link" => Current(row)'
  BY <1>r, <1>1, <1>2, StaysCurrent DEF DialogOK
<1>5. row.generation <= rotations'
  <2>1. rotations \in Nat /\ rotations' \in Nat /\ rotations <= rotations'
    BY <1>r, SessionStep, MeliTypesNamed
  <2> QED
    BY <1>r, <1>1, <1>2, <2>1 DEF DialogOK
<1>6. dialog'[d] = row
  BY <1>1
<1>7. Below(dialog[d].cookie)' /\ dialog'[d].generation <= rotations'
  BY <1>3, <1>5, <1>6 DEF Below
<1>8. (dialog[d].kind = "link" => Current(dialog[d]))'
  BY <1>4, <1>6 DEF Current
<1> QED
  BY <1>r, <1>7, <1>8 DEF DialogOK

\* The row that a job gets is as it should be.
LEMMA OwnJob ==
    ASSUME MeliInv, [MeliNext]_meliVars, NEW b \in DOMAIN meliJob, JobActs(b)
    PROVE  JobOK(b)'
<1>t. /\ MeliTypeOK /\ JobOK(b) /\ meliJob[b] \in JobRow /\ linkRequest[b] \in Requests
      /\ session \in SessionRow /\ Below(session.cookie)
      /\ linkRequest \in [DOMAIN meliJob -> Requests]
  BY MeliTypesNamed DEF MeliInv
<1>s. rotations \in Nat /\ rotations' \in Nat /\ rotations <= rotations'
  BY <1>t, SessionStep, MeliTypesNamed
<1>f. /\ meliJob[b].loaded \in Cookies /\ meliJob[b].cookie \in Cookies
      /\ meliJob[b].version \in Nat /\ meliJob[b].rotated \subseteq CookieNames
      /\ session.cookie \in Cookies /\ session.version \in Nat
  BY <1>t, JobFields DEF SessionRow
<1>j. Below(meliJob[b].loaded) /\ Below(meliJob[b].cookie)
  BY <1>t DEF JobOK
<1>k. /\ \A n \in CookieNames : meliJob[b].loaded[n] <= rotations'
      /\ \A n \in CookieNames : meliJob[b].cookie[n] <= rotations'
  BY <1>f, <1>s, <1>j DEF Below, Cookies
<1>g. ASSUME NEW row, BecomesJob(b, row),
             \A n \in CookieNames : row.loaded[n] <= rotations' /\ row.cookie[n] <= rotations',
             linkRequest'[b] # NoRequest => row.pc = "links",
             row.pc \in BeforeLoad => row.rotated = {},
             row.pc = "links" => Current(row)',
             \A n \in row.rotated : row.cookie[n] > row.loaded[n]
      PROVE  JobOK(b)'
  <2>1. meliJob'[b] = row
    BY <1>g, <1>t, JobBecomes
  <2>2. Below(meliJob[b].loaded)' /\ Below(meliJob[b].cookie)'
    BY <1>g, <2>1 DEF Below
  <2>3. (meliJob[b].pc = "links" => Current(meliJob[b]))'
    BY <1>g, <2>1 DEF Current
  <2> QED
    BY <1>g, <2>1, <2>2, <2>3 DEF JobOK
<1>0. 0 <= rotations' /\ \A n \in CookieNames : Blank[n] = 0
  BY <1>s DEF Blank
<1>1. CASE StartDiscovery(b) \/ StartLinks(b)
  <2>1. PICK kind \in {"discovery", "links"} :
             /\ BecomesJob(b, [NoJobYet EXCEPT !.pc = "job", !.kind = kind])
             /\ meliJob[b].pc = "idle"
             /\ UNCHANGED <<session, linkRequest, dialog, rotations, meliFaults>>
    BY <1>1, <1>t, StartEffect
  <2>2. PICK row : row = [NoJobYet EXCEPT !.pc = "job", !.kind = kind]
    OBVIOUS
  <2>3. row.pc = "job" /\ row.loaded = Blank /\ row.cookie = Blank /\ row.rotated = {}
    BY <2>2 DEF NoJobYet
  <2>4. linkRequest'[b] = NoRequest
    BY <1>t, <2>1 DEF JobOK
  <2>5. BecomesJob(b, row)
    BY <2>1, <2>2
  <2>6. /\ \A n \in CookieNames : row.loaded[n] <= rotations' /\ row.cookie[n] <= rotations'
        /\ \A n \in row.rotated : row.cookie[n] > row.loaded[n]
    BY <1>0, <2>3
  <2> QED
    BY <1>g, <2>3, <2>4, <2>5, <2>6
<1>2. CASE \/ CreateJob(b) \/ LockAffiliate(b) \/ PersistSession(b) \/ UnlockAffiliate(b)
           \/ FinishJob(b) \/ MeliJobFails(b)
  <2>1. PICK pc \in JobSteps, record \in Records :
                /\ BecomesJob(b, [meliJob[b] EXCEPT !.pc = pc, !.record = record])
                /\ pc # "links" /\ (pc \in BeforeLoad => meliJob[b].pc \in BeforeLoad)
    BY <1>2, <1>t, GoOnEffect
  <2>2. /\ meliJob[b].pc # "links" \/ linkRequest[b] = NoRequest
        /\ UNCHANGED linkRequest
    BY <1>2, <1>t, GoOnEffect
  <2>3. PICK row : row = [meliJob[b] EXCEPT !.pc = pc, !.record = record]
    OBVIOUS
  <2>4. /\ row.pc = pc /\ row.loaded = meliJob[b].loaded /\ row.cookie = meliJob[b].cookie
        /\ row.rotated = meliJob[b].rotated
    BY <1>t, <2>3 DEF JobRow
  <2>5. linkRequest'[b] = NoRequest
    BY <1>t, <2>2 DEF JobOK
  <2>6. \A n \in row.rotated : row.cookie[n] > row.loaded[n]
    BY <1>t, <2>4 DEF JobOK
  <2>7. row.pc \in BeforeLoad => row.rotated = {}
    BY <1>t, <2>1, <2>4 DEF JobOK
  <2> QED
    BY <1>g, <1>k, <2>1, <2>3, <2>4, <2>5, <2>6, <2>7
<1>3. CASE ReleaseMeli(b) \/ MeliJobCrashes(b)
  <2>1. /\ BecomesJob(b, NoJobYet)
        /\ \/ UNCHANGED linkRequest /\ meliJob[b].pc = "release"
           \/ linkRequest' = [linkRequest EXCEPT ![b] = NoRequest]
    BY <1>3, <1>t, EndEffect
  <2>2. linkRequest'[b] = NoRequest
    BY <1>t, <2>1 DEF JobOK
  <2>3. /\ NoJobYet.pc = "idle" /\ NoJobYet.loaded = Blank /\ NoJobYet.cookie = Blank
        /\ NoJobYet.rotated = {}
    BY SMTT(30) DEF NoJobYet
  <2> QED
    BY <1>g, <1>0, <2>1, <2>2, <2>3
<1>4. CASE LoadSession(b)
  <2>0. /\ meliJob[b].pc = "load" /\ UNCHANGED <<session, linkRequest>>
        /\ meliJob[b].rotated = {}
    BY <1>4, <1>t, LoadEffect DEF JobOK, BeforeLoad
  <2>1. linkRequest'[b] = NoRequest
    BY <1>t, <2>0 DEF JobOK
  <2>2. \A n \in CookieNames : session.cookie[n] \in Nat /\ session.cookie[n] <= rotations
    BY <1>t, <1>f DEF Below, Cookies
  <2>3. ASSUME NEW pc \in {"unlock", "ingest"},
               BecomesJob(b, [meliJob[b] EXCEPT !.pc = pc, !.record = meliJob[b].record])
        PROVE  JobOK(b)'
    <3>1. PICK row : row = [meliJob[b] EXCEPT !.pc = pc, !.record = meliJob[b].record]
      OBVIOUS
    <3>2. /\ row.pc = pc /\ row.loaded = meliJob[b].loaded /\ row.cookie = meliJob[b].cookie
          /\ row.rotated = {}
      BY <1>t, <2>0, <3>1 DEF JobRow
    <3> QED
      BY <1>g, <1>k, <2>1, <2>3, <3>1, <3>2
  <2>4. ASSUME NEW row, BecomesJob(b, row), Loaded(row),
               \A n \in CookieNames : row.cookie[n] <= rotations',
               \A n \in row.rotated : row.cookie[n] > row.loaded[n]
        PROVE  JobOK(b)'
    <3>1. row.pc = "links" /\ row.loaded = session.cookie
      BY <2>4 DEF Loaded
    <3>2. Current(row)'
      BY <1>f, <2>0, <2>4 DEF Loaded, Current
    <3>3. \A n \in CookieNames : row.loaded[n] <= rotations'
      BY <1>s, <2>2, <3>1
    <3>4. row.pc \notin BeforeLoad
      BY <3>1 DEF BeforeLoad
    <3> QED
      BY <1>g, <2>4, <3>1, <3>2, <3>3, <3>4
  <2>5. ASSUME NEW row, BecomesJob(b, row), Loaded(row),
               row.rotated = meliJob[b].rotated, row.cookie = session.cookie
        PROVE  JobOK(b)'
    BY <1>s, <2>0, <2>2, <2>4, <2>5
  <2>6. ASSUME NEW row, NEW cookie \in Fresh(session.cookie), BecomesJob(b, row),
               Loaded(row), Rotates,
               row.rotated = {n \in CookieNames : cookie[n] # session.cookie[n]},
               row.cookie = cookie
        PROVE  JobOK(b)'
    <3>1. rotations' = rotations + 1
      BY <2>6 DEF Rotates
    <3>2. /\ cookie \in Cookies
          /\ \A n \in CookieNames :
               cookie[n] = session.cookie[n] \/ cookie[n] = rotations + 1
      BY <1>f, <1>s, <2>6, FreshValues
    <3>3. \A n \in CookieNames : row.cookie[n] <= rotations'
      BY <1>s, <2>2, <2>6, <3>1, <3>2
    <3>4. row.loaded = session.cookie
      BY <2>6 DEF Loaded
    <3>5. \A n \in row.rotated : row.cookie[n] > row.loaded[n]
      BY <1>s, <2>2, <2>6, <3>2, <3>4
    <3> QED
      BY <2>4, <2>6, <3>3, <3>5
  <2> QED
    BY <1>4, <1>t, <2>3, <2>5, <2>6, LoadEffect, ZenonT(40)
<1>5. ASSUME NEW w \in LinkWorkers, SendRequest(b, w) PROVE JobOK(b)'
  <2>1. PICK row : /\ BecomesJob(b, row)
                   /\ row.pc = "links" /\ row.version = meliJob[b].version
                   /\ row.generation = meliJob[b].generation
                   /\ row.loaded = meliJob[b].loaded /\ row.cookie = meliJob[b].cookie
                   /\ row.rotated = meliJob[b].rotated
    BY <1>5, <1>t, SendEffect
  <2>2. meliJob[b].pc = "links" /\ UNCHANGED session
    BY <1>5, <1>t, SendEffect
  <2>3. Current(row)'
    BY <1>t, <2>1, <2>2 DEF JobOK, Current
  <2>4. \A n \in row.rotated : row.cookie[n] > row.loaded[n]
    BY <1>t, <2>1 DEF JobOK
  <2>5. row.pc \notin BeforeLoad
    BY <2>1 DEF BeforeLoad
  <2> QED
    BY <1>g, <1>k, <2>1, <2>3, <2>4, <2>5
<1>6. ASSUME NEW w \in LinkWorkers, AnswerRequest(b, w) PROVE JobOK(b)'
  <2>1. PICK row :
                /\ BecomesJob(b, row)
                /\ row.pc = meliJob[b].pc /\ row.version = meliJob[b].version
                /\ row.generation = meliJob[b].generation /\ row.loaded = meliJob[b].loaded
                /\ \/ /\ row.cookie = meliJob[b].cookie /\ row.rotated = meliJob[b].rotated
                      /\ UNCHANGED rotations
                   \/ /\ Rotates
                      /\ \A n \in CookieNames :
                           \/ row.cookie[n] = rotations + 1
                           \/ /\ row.cookie[n] = meliJob[b].cookie[n]
                              /\ n \in row.rotated => n \in meliJob[b].rotated
    BY <1>6, <1>t, AnswerEffect
  <2>2. linkRequest[b][w] # <<>> /\ UNCHANGED session
    BY <1>6, <1>t, AnswerEffect
  <2>3. row.pc = "links"
    <3>1. linkRequest[b] # NoRequest
      BY <2>2 DEF NoRequest
    <3> QED
      BY <1>t, <2>1, <3>1 DEF JobOK
  <2>4. Current(row)'
    BY <1>t, <2>1, <2>2, <2>3 DEF JobOK, Current
  <2>5. row.rotated \subseteq CookieNames
    BY <2>1, JobFields DEF BecomesJob
  <2>6. /\ \A n \in CookieNames : row.cookie[n] <= rotations'
        /\ \A n \in row.rotated : row.cookie[n] > row.loaded[n]
    <3>1. /\ \A n \in CookieNames : meliJob[b].loaded[n] \in Nat
          /\ \A n \in CookieNames : meliJob[b].loaded[n] <= rotations
      BY <1>f, <1>j DEF Below, Cookies
    <3>2. \A n \in meliJob[b].rotated : meliJob[b].cookie[n] > meliJob[b].loaded[n]
      BY <1>t DEF JobOK
    <3>3. CASE row.cookie = meliJob[b].cookie /\ row.rotated = meliJob[b].rotated
      BY <1>k, <2>1, <3>2, <3>3
    <3>4. CASE /\ Rotates
               /\ \A n \in CookieNames :
                    \/ row.cookie[n] = rotations + 1
                    \/ /\ row.cookie[n] = meliJob[b].cookie[n]
                       /\ n \in row.rotated => n \in meliJob[b].rotated
      <4>1. rotations' = rotations + 1
        BY <3>4 DEF Rotates
      <4>2. ASSUME NEW n \in CookieNames PROVE row.cookie[n] <= rotations'
        BY <1>k, <1>s, <3>4, <4>1
      <4>3. ASSUME NEW n \in row.rotated PROVE row.cookie[n] > row.loaded[n]
        BY <1>s, <2>1, <2>5, <3>1, <3>2, <3>4
      <4> QED
        BY <4>2, <4>3
    <3> QED
      BY <2>1, <3>3, <3>4
  <2>7. row.pc \notin BeforeLoad
    BY <2>3 DEF BeforeLoad
  <2> QED
    BY <1>g, <1>k, <2>1, <2>3, <2>4, <2>6, <2>7
<1> QED
  BY <1>1, <1>2, <1>3, <1>4, <1>5, <1>6 DEF JobActs

LEMMA OwnDialog ==
    ASSUME MeliInv, [MeliNext]_meliVars, NEW d \in DOMAIN dialog, DialogActs(d)
    PROVE  DialogOK(d)'
<1>t. /\ MeliTypeOK /\ session \in SessionRow /\ dialog \in [DOMAIN dialog -> DialogRow]
      /\ Below(session.cookie) /\ session.generation <= rotations
  BY MeliTypesNamed DEF MeliInv
<1>s. rotations \in Nat /\ rotations' \in Nat /\ rotations <= rotations'
  BY <1>t, SessionStep, MeliTypesNamed
<1>f. /\ session.cookie \in Cookies /\ session.generation \in Nat /\ session.version \in Nat
  BY <1>t DEF SessionRow
<1>b. Below(session.cookie)' <=> \A n \in CookieNames : session'.cookie[n] <= rotations'
  BY DEF Below
<1>g. ASSUME NEW row, dialog' = [dialog EXCEPT ![d] = row],
             \A n \in CookieNames : row.cookie[n] <= rotations',
             row.generation <= rotations', row.kind = "link" => Current(row)',
             row.pc = "validate" => row.kind # "none"
      PROVE  DialogOK(d)'
  <2>1. dialog'[d] = row
    BY <1>g, <1>t
  <2>2. Below(dialog[d].cookie)'
    BY <1>g, <2>1 DEF Below
  <2>3. (dialog[d].kind = "link" => Current(dialog[d]))'
    BY <1>g, <2>1 DEF Current
  <2> QED
    BY <1>g, <2>1, <2>2, <2>3 DEF DialogOK
<1>k. \A n \in CookieNames : session.cookie[n] <= rotations'
  BY <1>t, <1>f, <1>s DEF Below, Cookies
<1>l. session.generation <= rotations'
  BY <1>t, <1>f, <1>s
<1>1. CASE BeginSave(d)
  <2>1. rotations' = rotations + 1
    BY <1>1 DEF BeginSave, Rotates
  <2>2. PICK row : row = [pc |-> "validate", kind |-> "save",
              cookie |-> [n \in CookieNames |-> rotations + 1],
              generation |-> rotations + 1, version |-> 0]
    OBVIOUS
  <2>3. dialog' = [dialog EXCEPT ![d] = row]
    BY <1>1, <2>2 DEF BeginSave
  <2>4. /\ row.kind = "save" /\ row.generation = rotations'
        /\ \A n \in CookieNames : row.cookie[n] = rotations'
    BY <2>1, <2>2
  <2>5. (\A n \in CookieNames : row.cookie[n] <= rotations') /\ row.generation <= rotations'
    BY <1>s, <2>4
  <2>6. row.kind # "link" /\ row.kind # "none"
    BY <2>4
  <2> QED
    BY <1>g, <2>3, <2>5, <2>6
<1>2. CASE BeginTest(d)
  <2>1. PICK row : row = [pc |-> "validate", kind |-> "test",
              cookie |-> session.cookie, generation |-> session.generation, version |-> 0]
    OBVIOUS
  <2>2. dialog' = [dialog EXCEPT ![d] = row]
    BY <1>2, <2>1 DEF BeginTest
  <2>3. row.kind = "test" /\ row.cookie = session.cookie
        /\ row.generation = session.generation
    BY <2>1
  <2> QED
    BY <1>g, <1>k, <1>l, <2>2, <2>3
<1>3. CASE BeginTestLink(d)
  <2>1. PICK row : row = [pc |-> "validate", kind |-> "link",
              cookie |-> session.cookie, generation |-> session.generation,
              version |-> session.version]
    OBVIOUS
  <2>2. dialog' = [dialog EXCEPT ![d] = row] /\ UNCHANGED session
    BY <1>3, <2>1 DEF BeginTestLink
  <2>3. row.kind = "link" /\ row.cookie = session.cookie
        /\ row.generation = session.generation /\ row.version = session.version
    BY <2>1
  <2>4. Current(row)'
    BY <1>f, <2>2, <2>3 DEF Current
  <2> QED
    BY <1>g, <1>k, <1>l, <2>2, <2>3, <2>4
<1>4. CASE EndDialog(d)
  <2>1. dialog' = [dialog EXCEPT ![d] = NoDialog]
    BY <1>4 DEF EndDialog
  <2>2. /\ NoDialog.pc = "idle" /\ NoDialog.kind = "none" /\ NoDialog.generation = 0
        /\ \A n \in CookieNames : NoDialog.cookie[n] = 0
    BY DEF NoDialog, Blank
  <2>3. PICK row : row = NoDialog
    OBVIOUS
  <2>4. /\ \A n \in CookieNames : row.cookie[n] <= rotations'
        /\ row.generation <= rotations'
    BY <1>s, <2>2, <2>3
  <2>5. row.pc # "validate" /\ row.kind # "link"
    BY <2>2, <2>3
  <2>6. dialog' = [dialog EXCEPT ![d] = row]
    BY <2>1, <2>3
  <2> QED
    BY <1>g, <2>4, <2>5, <2>6
<1> QED
  BY <1>1, <1>2, <1>3, <1>4 DEF DialogActs

\* A step that brings back an older generation of the cookie is the end of a
\* save or of a test: it writes the one it validated.
LEMMA SessionKept ==
    ASSUME MeliInv, [MeliNext]_meliVars
    PROVE  /\ Below(session.cookie)' /\ session'.generation <= rotations'
           /\ \/ session.status = "NONE" \/ session'.status = "NONE"
              \/ session'.generation >= session.generation
              \/ \E d \in DOMAIN dialog : /\ dialog[d].kind \in {"save", "test"}
                                          /\ dialog[d].generation = session'.generation
                                          /\ dialog'[d] = NoDialog
<1> DEFINE Goal ==
      /\ Below(session.cookie)' /\ session'.generation <= rotations'
      /\ \/ session.status = "NONE" \/ session'.status = "NONE"
         \/ session'.generation >= session.generation
         \/ \E d \in DOMAIN dialog : /\ dialog[d].kind \in {"save", "test"}
                                     /\ dialog[d].generation = session'.generation
                                     /\ dialog'[d] = NoDialog
<1>t. /\ MeliTypeOK /\ session \in SessionRow
      /\ Below(session.cookie) /\ session.generation <= rotations
  BY MeliTypesNamed DEF MeliInv
<1>s. rotations \in Nat /\ rotations' \in Nat /\ rotations <= rotations'
  BY <1>t, SessionStep, MeliTypesNamed
<1>f. /\ session.cookie \in Cookies /\ session.generation \in Nat /\ session.version \in Nat
  BY <1>t DEF SessionRow
<1>b. (\A n \in CookieNames : session'.cookie[n] <= rotations') => Below(session.cookie)'
  BY DEF Below
<1>k. \A n \in CookieNames : session.cookie[n] <= rotations'
  BY <1>t, <1>f, <1>s DEF Below, Cookies
<1>l. session.generation <= rotations'
  BY <1>t, <1>f, <1>s
<1>1. ASSUME session'.cookie = session.cookie, session'.generation = session.generation
      PROVE  Goal
  BY <1>1, <1>b, <1>f, <1>k, <1>l, SMTT(30)
<1>2. ASSUME NEW b \in DOMAIN meliJob, JobActs(b) PROVE Goal
  <2>1. CASE UNCHANGED session
    BY <1>1, <2>1
  <2>2. CASE PersistSession(b) /\ ~ UNCHANGED session
    <3>0. meliJob[b] \in JobRow /\ JobOK(b)
      BY MeliTypesNamed DEF MeliInv
    <3>1. /\ session.status # "NONE" /\ session.version = meliJob[b].version
          /\ meliJob[b].pc = "links"
          /\ \E status \in {"EXPIRED", "CONNECTED"} :
               session' = [session EXCEPT !.status = status, !.cookie = meliJob[b].cookie,
                             !.generation = meliJob[b].generation, !.version = @ + 1]
      BY <2>2 DEF PersistSession
    <3>2. meliJob[b].generation = session.generation
      BY <3>0, <3>1 DEF JobOK, Current
    <3>3. session'.cookie = meliJob[b].cookie /\ session'.generation = session.generation
      BY <1>t, <3>1, <3>2 DEF SessionRow
    <3>4. \A n \in CookieNames : meliJob[b].cookie[n] <= rotations'
      <4>1. meliJob[b].cookie \in Cookies
        BY <3>0, JobFields
      <4> QED
        BY <1>s, <3>0, <4>1 DEF JobOK, Below, Cookies
    <3> QED
      BY <1>b, <1>f, <1>l, <3>3, <3>4
  <2> QED
    BY <1>2, <2>1, <2>2 DEF JobActs, StartDiscovery, StartLinks, CreateJob, LockAffiliate,
       LoadSession, UnlockAffiliate, FinishJob, ReleaseMeli, MeliJobFails, MeliJobCrashes,
       SendRequest, AnswerRequest
<1>3. ASSUME NEW d \in DOMAIN dialog, DialogActs(d) PROVE Goal
  <2>t. DialogOK(d) /\ dialog[d] \in DialogRow /\ dialog \in [DOMAIN dialog -> DialogRow]
    BY MeliTypesNamed DEF MeliInv
  <2>f. /\ dialog[d].kind \in DialogKinds /\ dialog[d].cookie \in Cookies
        /\ dialog[d].generation \in Nat
    BY <2>t DEF DialogRow
  <2>1. CASE BeginSave(d)
    <3>1. rotations' = rotations + 1
      BY <2>1 DEF BeginSave, Rotates
    <3>2. /\ session'.generation = rotations'
          /\ \A n \in CookieNames : session'.cookie[n] = rotations'
      BY <2>1, <3>1 DEF BeginSave
    <3> QED
      BY <1>b, <1>f, <1>l, <1>s, <3>2
  <2>2. CASE BeginTest(d)
    <3>1. session'.cookie = session.cookie /\ session'.generation = session.generation
      BY <1>t, <2>2 DEF BeginTest, SessionRow
    <3> QED
      BY <1>1, <3>1
  <2>3. CASE BeginTestLink(d)
    BY <1>1, <2>3 DEF BeginTestLink
  <2>4. CASE EndDialog(d)
    <3>1. CASE UNCHANGED session
      BY <1>1, <3>1
    <3>2. CASE \E status \in {"EXPIRED", "ERROR"} :
                 session' = [session EXCEPT !.status = status, !.version = @ + 1]
      <4>1. session'.cookie = session.cookie /\ session'.generation = session.generation
        BY <1>t, <3>2 DEF SessionRow
      <4> QED
        BY <1>1, <4>1
    <3>3. CASE /\ session.status # "NONE" /\ Written(d)
               /\ session' = [session EXCEPT !.status = "CONNECTED",
                                !.cookie = dialog[d].cookie,
                                !.generation = dialog[d].generation, !.version = @ + 1]
      <4>1. session'.cookie = dialog[d].cookie /\ session'.generation = dialog[d].generation
        BY <1>t, <3>3 DEF SessionRow
      <4>2. /\ \A n \in CookieNames : dialog[d].cookie[n] <= rotations'
            /\ dialog[d].generation <= rotations'
        BY <1>s, <2>t, <2>f DEF DialogOK, Below, Cookies
      <4>3. Below(session.cookie)' /\ session'.generation <= rotations'
        BY <1>b, <4>1, <4>2
      <4>4. dialog'[d] = NoDialog /\ dialog[d].pc = "validate"
        BY <2>t, <2>4 DEF EndDialog
      <4>5. CASE dialog[d].kind = "link"
        <5>1. dialog[d].generation = session.generation
          BY <2>t, <3>3, <4>5 DEF DialogOK, Current, Written
        <5> QED
          BY <1>f, <4>1, <4>3, <5>1
      <4>6. CASE dialog[d].kind \in {"save", "test"}
        BY <4>1, <4>3, <4>4, <4>6
      <4> QED
        BY <2>t, <2>f, <4>4, <4>5, <4>6 DEF DialogOK, DialogKinds
    <3> QED
      BY <2>4, <3>1, <3>2, <3>3 DEF EndDialog
  <2> QED
    BY <1>3, <2>1, <2>2, <2>3, <2>4 DEF DialogActs
<1>4. CASE ClearSession
  <2>1. session' = [session EXCEPT !.status = "NONE", !.cookie = Blank, !.generation = 0]
    BY <1>4 DEF ClearSession
  <2>2. /\ session'.status = "NONE" /\ session'.generation = 0
        /\ \A n \in CookieNames : session'.cookie[n] = 0
    BY <1>t, <2>1 DEF SessionRow, Blank
  <2> QED
    BY <1>b, <1>s, <2>2
<1>5. CASE MeliKeysLapse \/ UNCHANGED meliVars
  BY <1>1, <1>5 DEF MeliKeysLapse, meliVars
<1> QED
  BY <1>2, <1>3, <1>4, <1>5, MeliSplit

LEMMA MeliInvInit == MeliInit => MeliInv
<1> SUFFICES ASSUME MeliInit PROVE MeliInv
  OBVIOUS
<1>1. MeliTypeOK
  BY MeliInitType
<1>2. PICK crew \in MeliCrews :
        /\ meliJob = [b \in crew.jobs |-> NoJobYet]
        /\ linkRequest = [b \in crew.jobs |-> NoRequest]
        /\ dialog = [d \in crew.dialogs |-> NoDialog]
  BY DEF MeliInit
<1>3. rotations = 0 /\ session.cookie = Blank /\ session.generation = 0
  BY DEF MeliInit
<1>4. Below(Blank)
  BY <1>3 DEF Below, Blank
<1>5. \A b \in DOMAIN meliJob : meliJob[b] = NoJobYet /\ linkRequest[b] = NoRequest
  BY <1>2
<1>6. \A b \in DOMAIN meliJob : JobOK(b)
  BY <1>4, <1>5 DEF JobOK, NoJobYet, BeforeLoad
<1>7. \A d \in DOMAIN dialog : DialogOK(d)
  BY <1>2, <1>3, <1>4 DEF DialogOK, NoDialog
<1> QED
  BY <1>1, <1>3, <1>4, <1>6, <1>7 DEF MeliInv

LEMMA MeliInvStep ==
    ASSUME MeliInv, [MeliNext]_meliVars
    PROVE  MeliInv'
<1>t. MeliTypeOK /\ MeliTypeOK'
  BY MeliTypeStep DEF MeliInv
<1>1. Below(session.cookie)' /\ session'.generation <= rotations'
  BY SessionKept
<1>2. ASSUME NEW b \in DOMAIN meliJob, JobActs(b)
      PROVE  /\ DOMAIN meliJob' = DOMAIN meliJob /\ DOMAIN dialog' = DOMAIN dialog
             /\ \A a \in DOMAIN meliJob : JobOK(a)'
             /\ \A d \in DOMAIN dialog : DialogOK(d)'
  <2>1. UNCHANGED dialog /\ DOMAIN meliJob' = DOMAIN meliJob
    BY <1>2, <1>t, JobEffect, JobBecomes
  <2>2. ASSUME NEW a \in DOMAIN meliJob, a # b PROVE JobOK(a)'
    <3>1. meliJob'[a] = meliJob[a]
      BY <1>2, <1>t, <2>2, JobEffect, JobBecomes
    <3>2. linkRequest'[a] = linkRequest[a]
      BY <1>2, <1>t, <2>2, RequestsStep
    <3> QED
      BY <3>1, <3>2, OtherJobs
  <2>3. JobOK(b)'
    BY <1>2, OwnJob
  <2>4. \A d \in DOMAIN dialog : DialogOK(d)'
    BY <2>1, OtherDialogs
  <2> QED
    BY <2>1, <2>2, <2>3, <2>4
<1>3. ASSUME NEW d \in DOMAIN dialog, DialogActs(d)
      PROVE  /\ DOMAIN meliJob' = DOMAIN meliJob /\ DOMAIN dialog' = DOMAIN dialog
             /\ \A a \in DOMAIN meliJob : JobOK(a)'
             /\ \A e \in DOMAIN dialog : DialogOK(e)'
  <2>1. PICK row \in DialogRow :
          dialog' = [dialog EXCEPT ![d] = row] /\ UNCHANGED <<meliJob, linkRequest>>
    BY <1>3, <1>t, DialogEffect
  <2>2. \A a \in DOMAIN meliJob : JobOK(a)'
    BY <2>1, OtherJobs
  <2>3. ASSUME NEW e \in DOMAIN dialog, e # d PROVE DialogOK(e)'
    <3>1. dialog'[e] = dialog[e]
      BY <2>1, <2>3
    <3> QED
      BY <3>1, OtherDialogs
  <2>4. DialogOK(d)'
    BY <1>3, OwnDialog
  <2> QED
    BY <2>1, <2>2, <2>3, <2>4
<1>4. ASSUME MeliKeysLapse \/ ClearSession \/ UNCHANGED meliVars
      PROVE  /\ DOMAIN meliJob' = DOMAIN meliJob /\ DOMAIN dialog' = DOMAIN dialog
             /\ \A a \in DOMAIN meliJob : JobOK(a)'
             /\ \A e \in DOMAIN dialog : DialogOK(e)'
  <2>1. UNCHANGED <<meliJob, linkRequest, dialog>>
    BY <1>4 DEF MeliKeysLapse, ClearSession, meliVars
  <2> QED
    BY <2>1, OtherJobs, OtherDialogs
<1>5. /\ DOMAIN meliJob' = DOMAIN meliJob /\ DOMAIN dialog' = DOMAIN dialog
      /\ \A a \in DOMAIN meliJob : JobOK(a)'
      /\ \A d \in DOMAIN dialog : DialogOK(d)'
  BY <1>2, <1>3, <1>4, MeliSplit
<1>6. (\A b \in DOMAIN meliJob : JobOK(b))' /\ (\A d \in DOMAIN dialog : DialogOK(d))'
  BY <1>5
<1> QED
  BY <1>t, <1>1, <1>6 DEF MeliInv

LEMMA MeliInvAlways == MeliSpec => []MeliInv
BY MeliInvInit, MeliInvStep, PTL DEF MeliSpec

\* No cookie value that a response has replaced comes back in the job's cookie
\* (mergeAffiliateCookieSnapshots), however many requests overlap and in
\* whatever order they answer.
THEOREM RotatedValuesStay == MeliSpec => []RotatedStaysRotated
<1>1. MeliInv => RotatedStaysRotated
  BY DEF MeliInv, JobOK, RotatedStaysRotated
<1> QED
  BY <1>1, MeliInvAlways, PTL

\* A cookie the operator saved is replaced by an older one only when a save or
\* a test that was under way ends (persistAffiliateSessionAfterBatch: the
\* update is conditional on the row it has read), for any number of jobs, test
\* links and cookie values.
THEOREM OperatorsCookieStays == MeliSpec => OperatorCookieStands
<1>1. MeliInv /\ [MeliNext]_meliVars =>
        [/\ session.status # "NONE" /\ session'.status # "NONE"
         /\ session'.generation < session.generation
         => \E d \in DOMAIN dialog : /\ dialog[d].kind \in {"save", "test"}
                                     /\ dialog[d].generation = session'.generation
                                     /\ dialog'[d] = NoDialog]_meliVars
  <2> SUFFICES ASSUME MeliInv, [MeliNext]_meliVars,
                      session.status # "NONE", session'.status # "NONE",
                      session'.generation < session.generation
               PROVE  \E d \in DOMAIN dialog : /\ dialog[d].kind \in {"save", "test"}
                                               /\ dialog[d].generation = session'.generation
                                               /\ dialog'[d] = NoDialog
    OBVIOUS
  <2>1. session \in SessionRow /\ session' \in SessionRow
    BY SessionStep, MeliTypesNamed DEF MeliInv
  <2>2. session.generation \in Nat /\ session'.generation \in Nat
    BY <2>1 DEF SessionRow
  <2> QED
    BY <2>2, SessionKept
<1> QED
  BY <1>1, MeliInvAlways, PTL DEF MeliSpec, OperatorCookieStands

-----------------------------------------------------------------------------
\* Part 5 (CatalogDiscovery): counting and choosing.

\* The members of a finite set in a strict order have the ranks 1, 2 and so on.
\* UpTo[x] is the set of members up to x.
LEMMA Ranks ==
    ASSUME NEW S, IsFiniteSet(S), NEW UpTo \in [S -> SUBSET S],
           \A x \in S : x \in UpTo[x],
           \A x, y \in S : x # y => \/ UpTo[x] \subseteq UpTo[y] /\ y \notin UpTo[x]
                                    \/ UpTo[y] \subseteq UpTo[x] /\ x \notin UpTo[y]
    PROVE  /\ \A x \in S : Cardinality(UpTo[x]) \in 1 .. Cardinality(S)
           /\ \A x, y \in S : Cardinality(UpTo[x]) = Cardinality(UpTo[y]) => x = y
           /\ \A k \in 1 .. Cardinality(S) : \E x \in S : Cardinality(UpTo[x]) = k
<1>1. Cardinality(S) \in Nat
  BY FS_CardinalityType
<1>2. ASSUME NEW x \in S
      PROVE  IsFiniteSet(UpTo[x]) /\ Cardinality(UpTo[x]) \in 1 .. Cardinality(S)
  <2>1. UpTo[x] \in SUBSET S
    OBVIOUS
  <2>2. IsFiniteSet(UpTo[x]) /\ Cardinality(UpTo[x]) <= Cardinality(S)
    BY <2>1, FS_Subset
  <2>3. Cardinality(UpTo[x]) \in Nat /\ Cardinality(UpTo[x]) # 0
    BY <2>2, FS_CardinalityType, FS_EmptySet
  <2> QED
    BY <1>1, <2>2, <2>3
<1>3. ASSUME NEW x \in S, NEW y \in S, UpTo[x] \subseteq UpTo[y], y \notin UpTo[x]
      PROVE  Cardinality(UpTo[x]) # Cardinality(UpTo[y])
  <2>1. UpTo[x] \in SUBSET UpTo[y] /\ UpTo[x] # UpTo[y]
    BY <1>3
  <2> QED
    BY <1>2, <2>1, FS_Subset
<1>4. \A x, y \in S : Cardinality(UpTo[x]) = Cardinality(UpTo[y]) => x = y
  BY <1>3
<1> DEFINE rank == [x \in S |-> Cardinality(UpTo[x])]
<1>5. rank \in Injection(S, 1 .. Cardinality(S))
  BY <1>2, <1>4 DEF Injection, IsInjective
<1>6. IsFiniteSet(1 .. Cardinality(S)) /\ Cardinality(1 .. Cardinality(S)) = Cardinality(S)
  BY <1>1, FS_Interval
<1>7. rank \in Surjection(S, 1 .. Cardinality(S))
  BY <1>5, <1>6, FS_Injection
<1>8. \A k \in 1 .. Cardinality(S) : \E x \in S : Cardinality(UpTo[x]) = k
  BY <1>7 DEF Surjection
<1> QED
  BY <1>2, <1>4, <1>8

\* Picked keeps what is at the places asked for, and nothing else.
LEMMA PickedIsPart ==
    ASSUME NEW T, NEW s \in Seq(T), NEW places \in SUBSET DOMAIN s
    PROVE  /\ Picked(s, places) \in Seq(T)
           /\ \A k \in DOMAIN Picked(s, places) : \E i \in places : Picked(s, places)[k] = s[i]
           /\ \A i \in places : \E k \in DOMAIN Picked(s, places) : Picked(s, places)[k] = s[i]
<1> DEFINE UpTo == [i \in places |-> {j \in places : j <= i}]
<1>1. IsFiniteSet(places) /\ Cardinality(places) \in Nat /\ places \subseteq Nat
  <2>1. IsFiniteSet(1 .. Len(s)) /\ places \in SUBSET (1 .. Len(s))
    BY FS_Interval
  <2> QED
    BY <2>1, FS_Subset, FS_CardinalityType
<1>2. /\ UpTo \in [places -> SUBSET places] /\ \A i \in places : i \in UpTo[i]
      /\ \A i, j \in places : i # j =>
           \/ UpTo[i] \subseteq UpTo[j] /\ j \notin UpTo[i]
           \/ UpTo[j] \subseteq UpTo[i] /\ i \notin UpTo[j]
  <2>1. \A i \in places : i <= i /\ UpTo[i] = {j \in places : j <= i}
    BY <1>1
  <2>2. ASSUME NEW i \in places, NEW j \in places, i < j
        PROVE  UpTo[i] \subseteq UpTo[j] /\ j \notin UpTo[i]
    BY <1>1, <2>2
  <2>3. \A i, j \in places : i # j => i < j \/ j < i
    BY <1>1
  <2> QED
    BY <2>1, <2>2, <2>3
<1>3. /\ \A i \in places : Cardinality(UpTo[i]) \in 1 .. Cardinality(places)
      /\ \A i, j \in places : Cardinality(UpTo[i]) = Cardinality(UpTo[j]) => i = j
      /\ \A k \in 1 .. Cardinality(places) : \E i \in places : Cardinality(UpTo[i]) = k
  <2> HIDE DEF UpTo
  <2> QED
    BY <1>1, <1>2, Ranks
<1> DEFINE At(k) == CHOOSE i \in places : Cardinality({j \in places : j <= i}) = k
<1>4. \A k \in 1 .. Cardinality(places) : At(k) \in places /\ Cardinality(UpTo[At(k)]) = k
  BY <1>3
<1>5. ASSUME NEW i \in places
      PROVE  \E k \in 1 .. Cardinality(places) : At(k) = i
  <2>1. PICK k \in 1 .. Cardinality(places) : Cardinality(UpTo[i]) = k
    BY <1>3
  <2>2. At(k) \in places /\ Cardinality(UpTo[At(k)]) = Cardinality(UpTo[i])
    BY <1>4, <2>1
  <2>3. At(k) = i
    BY <1>3, <2>2
  <2> QED
    BY <2>3
<1>6. Picked(s, places) = [k \in 1 .. Cardinality(places) |-> s[At(k)]]
  BY DEF Picked
<1> HIDE DEF At
<1>7. ASSUME NEW k \in 1 .. Cardinality(places)
      PROVE  s[At(k)] \in T
  <2>1. \A i \in DOMAIN s : s[i] \in T
    OBVIOUS
  <2>2. At(k) \in DOMAIN s
    BY <1>4
  <2> QED
    BY <2>1, <2>2
<1>8. Picked(s, places) \in Seq(T) /\ DOMAIN Picked(s, places) = 1 .. Cardinality(places)
  BY <1>1, <1>6, <1>7
<1> QED
  BY <1>4, <1>5, <1>6, <1>8

LEMMA LeastNatural ==
    ASSUME NEW S \in SUBSET Nat, S # {}
    PROVE  \E n \in S : \A m \in S : n <= m
<1> DEFINE UpTo == {0 .. n : n \in S}
<1>1. UpTo \subseteq FiniteSubsetsOf(Nat) /\ UpTo # {}
  <2>1. \A n \in S : 0 .. n \in SUBSET Nat /\ IsFiniteSet(0 .. n)
    BY FS_Interval
  <2> QED
    BY <2>1 DEF FiniteSubsetsOf
<1>2. PICK least \in UpTo : \A B \in UpTo : <<B, least>> \notin StrictSubsetOrdering(Nat)
  BY <1>1, FS_StrictSubsetOrderingWellFounded, WFMin
<1>3. PICK n \in S : least = 0 .. n
  BY <1>2
<1>4. ASSUME NEW m \in S, m < n
      PROVE  FALSE
  <2>1. 0 .. m \in UpTo /\ 0 .. m \in SUBSET Nat /\ 0 .. n \in SUBSET Nat
    OBVIOUS
  <2>2. 0 .. m \subseteq 0 .. n /\ n \in 0 .. n /\ n \notin 0 .. m
    BY <1>4
  <2>3. <<0 .. m, 0 .. n>> \in StrictSubsetOrdering(Nat)
    BY <2>1, <2>2 DEF StrictSubsetOrdering
  <2> QED
    BY <1>2, <1>3, <2>1, <2>3
<1> QED
  BY <1>4

LEMMA GreatestNatural ==
    ASSUME NEW n \in Nat, NEW S \in SUBSET (1 .. n), S # {}
    PROVE  \E k \in S : \A m \in S : k >= m
<1> DEFINE T == {n - m : m \in S}
<1>1. T \in SUBSET Nat /\ T # {}
  <2>1. \A m \in S : n - m \in Nat
    OBVIOUS
  <2> QED
    BY <2>1
<1>2. PICK t \in T : \A m \in T : t <= m
  BY <1>1, LeastNatural
<1>3. PICK k \in S : t = n - k
  BY <1>2
<1>4. \A m \in S : n - k <= n - m
  BY <1>2, <1>3
<1> QED
  BY <1>4

LEMMA MaxIsMember ==
    ASSUME NEW n \in Nat, NEW S \in SUBSET (1 .. n), S # {}
    PROVE  Max(S) \in S
<1>1. \E k \in S : \A m \in S : k >= m
  BY GreatestNatural
<1> QED
  BY <1>1 DEF Max

-----------------------------------------------------------------------------
\* The order of the products that may be chosen.

LEMMA ProductFacts ==
    ASSUME NEW p \in Products
    PROVE  /\ ProductOf[p].winner \in Items \cup {NoId} /\ ProductOf[p].children \in Seq(Products)
           /\ ProductOf[p].active \in BOOLEAN /\ ProductOf[p].number \in Int
           /\ ProductOf[p].sold \in Int \cup {NoNumber} /\ ProductOf[p].price \in Int \cup {NoNumber}
           /\ \A q \in Products : ProductOf[q].number = ProductOf[p].number => q = p
BY CatalogAssumption

LEMMA WeightsAreSeven ==
    ASSUME NEW p \in Products
    PROVE  /\ DOMAIN Weights(p) = 1 .. 7 /\ \A i \in 1 .. 7 : Weights(p)[i] \in Int
           /\ Weights(p)[7] = ProductOf[p].number
<1> DEFINE Unknown(x) == IF x = NoNumber THEN 1 ELSE 0
           Known(x) == IF x = NoNumber THEN 0 ELSE x
<1>1. PICK a \in Int, b \in Int :
        /\ a = IF ProductOf[p].active THEN 0 ELSE 1
        /\ b = IF ProductOf[p].children = <<>> THEN 0 ELSE 1
  OBVIOUS
<1>2. PICK c \in Int, d \in Int :
        c = Unknown(ProductOf[p].sold) /\ d = -Known(ProductOf[p].sold)
  <2>1. Unknown(ProductOf[p].sold) \in Int /\ -Known(ProductOf[p].sold) \in Int
    BY ProductFacts
  <2> QED
    BY <2>1
<1>3. PICK e \in Int, f \in Int :
        e = Unknown(ProductOf[p].price) /\ f = Known(ProductOf[p].price)
  <2>1. Unknown(ProductOf[p].price) \in Int /\ Known(ProductOf[p].price) \in Int
    BY ProductFacts
  <2> QED
    BY <2>1
<1>4. PICK n \in Int : n = ProductOf[p].number
  BY ProductFacts
<1>5. Weights(p) = <<a, b, c, d, e, f, n>>
  BY <1>1, <1>2, <1>3, <1>4 DEF Weights
<1> QED
  BY <1>4, <1>5

\* Where two sequences of seven first differ decides.
Lower(v, w) == \E i \in 1 .. 7 : v[i] < w[i] /\ \A j \in 1 .. i - 1 : v[j] = w[j]

LEMMA LowerDecides ==
    ASSUME NEW v, NEW w, \A i \in 1 .. 7 : v[i] \in Int /\ w[i] \in Int, v[7] # w[7]
    PROVE  Lower(v, w) \/ Lower(w, v)
<1> DEFINE S == {i \in 1 .. 7 : v[i] # w[i]}
<1>1. S \in SUBSET Nat /\ S # {}
  OBVIOUS
<1>2. PICK i \in S : \A j \in S : i <= j
  BY <1>1, LeastNatural
<1>3. \A j \in 1 .. i - 1 : v[j] = w[j]
  BY <1>2
<1>4. v[i] < w[i] \/ w[i] < v[i]
  BY <1>2
<1> QED
  BY <1>2, <1>3, <1>4 DEF Lower

LEMMA LowerIsStrict ==
    ASSUME NEW v, NEW w, \A i \in 1 .. 7 : v[i] \in Int /\ w[i] \in Int, Lower(v, w)
    PROVE  ~Lower(w, v)
<1> SUFFICES ASSUME Lower(w, v)
             PROVE  FALSE
  OBVIOUS
<1>1. PICK i \in 1 .. 7 : v[i] < w[i] /\ \A j \in 1 .. i - 1 : v[j] = w[j]
  BY DEF Lower
<1>2. PICK k \in 1 .. 7 : w[k] < v[k] /\ \A j \in 1 .. k - 1 : v[j] = w[j]
  BY DEF Lower
<1>3. CASE i < k
  BY <1>1, <1>2, <1>3
<1>4. CASE k < i
  BY <1>1, <1>2, <1>4
<1>5. CASE i = k
  BY <1>1, <1>2, <1>5
<1> QED
  BY <1>3, <1>4, <1>5

LEMMA LowerGoesOn ==
    ASSUME NEW u, NEW v, NEW w, \A i \in 1 .. 7 : u[i] \in Int /\ v[i] \in Int /\ w[i] \in Int,
           Lower(u, v), Lower(v, w)
    PROVE  Lower(u, w)
<1>1. PICK i \in 1 .. 7 : u[i] < v[i] /\ \A j \in 1 .. i - 1 : u[j] = v[j]
  BY DEF Lower
<1>2. PICK k \in 1 .. 7 : v[k] < w[k] /\ \A j \in 1 .. k - 1 : v[j] = w[j]
  BY DEF Lower
<1>3. CASE i <= k
  <2>1. u[i] < w[i] /\ \A j \in 1 .. i - 1 : u[j] = w[j]
    BY <1>1, <1>2, <1>3
  <2> QED
    BY <2>1 DEF Lower
<1>4. CASE k < i
  <2>1. u[k] < w[k] /\ \A j \in 1 .. k - 1 : u[j] = w[j]
    BY <1>1, <1>2, <1>4
  <2> QED
    BY <2>1 DEF Lower
<1> QED
  BY <1>3, <1>4

LEMMA BeforeIsLower ==
    ASSUME NEW p \in Products, NEW q \in Products
    PROVE  Before(p, q) <=> Lower(Weights(p), Weights(q))
BY WeightsAreSeven DEF Before, Lower

LEMMA BeforeIsOrder ==
    ASSUME NEW p \in Products, NEW q \in Products, NEW r \in Products
    PROVE  /\ p # q => Before(p, q) \/ Before(q, p)
           /\ Before(p, q) => ~Before(q, p)
           /\ Before(p, q) /\ Before(q, r) => Before(p, r)
<1>1. \A x \in Products : \A i \in 1 .. 7 : Weights(x)[i] \in Int
  BY WeightsAreSeven
<1>2. p # q => Weights(p)[7] # Weights(q)[7]
  BY WeightsAreSeven, ProductFacts
<1>3. PICK u, v, w : u = Weights(p) /\ v = Weights(q) /\ w = Weights(r)
  OBVIOUS
<1>4. \A i \in 1 .. 7 : u[i] \in Int /\ v[i] \in Int /\ w[i] \in Int
  BY <1>1, <1>3
<1>5. p # q => Lower(u, v) \/ Lower(v, u)
  BY <1>2, <1>3, <1>4, LowerDecides
<1>6. Lower(u, v) => ~Lower(v, u)
  BY <1>4, LowerIsStrict
<1>7. Lower(u, v) /\ Lower(v, w) => Lower(u, w)
  BY <1>4, LowerGoesOn
<1>8. /\ Before(p, q) <=> Lower(u, v)
      /\ Before(q, p) <=> Lower(v, u)
      /\ Before(q, r) <=> Lower(v, w)
      /\ Before(p, r) <=> Lower(u, w)
  BY <1>3, BeforeIsLower
<1> QED
  BY <1>5, <1>6, <1>7, <1>8

First(S, p) == p \in S /\ \A q \in S \ {p} : Before(p, q)

\* Some products, finitely many, have a first one.
LEMMA SomeoneIsFirst ==
    ASSUME NEW W \in SUBSET Products, IsFiniteSet(W), W # {}
    PROVE  \E p \in W : First(W, p)
<1> SUFFICES ASSUME ~\E p \in W : First(W, p)
             PROVE  FALSE
  OBVIOUS
<1> DEFINE Bad(S) == S # {} /\ ~\E p \in S : First(S, p)
           sizes == {Cardinality(S) : S \in {T \in SUBSET W : Bad(T)}}
<1>1. \A S \in SUBSET W : IsFiniteSet(S) /\ Cardinality(S) \in Nat
  BY FS_Subset, FS_CardinalityType
<1>2. sizes \in SUBSET Nat /\ Cardinality(W) \in sizes
  BY <1>1
<1>3. PICK n \in sizes : \A m \in sizes : n <= m
  BY <1>2, LeastNatural
<1>4. PICK S \in SUBSET W : Bad(S) /\ Cardinality(S) = n
  BY <1>3
<1>5. PICK x \in S : TRUE
  BY <1>4
<1>6. S \ {x} \in SUBSET W /\ Cardinality(S \ {x}) = Cardinality(S) - 1
  BY <1>1, <1>5, FS_RemoveElement
<1>7. ~Bad(S \ {x})
  <2> SUFFICES ASSUME Bad(S \ {x})
               PROVE  FALSE
    OBVIOUS
  <2>1. Cardinality(S \ {x}) \in sizes
    BY <1>6
  <2>2. n \in Nat /\ n <= n - 1
    BY <1>2, <1>3, <1>4, <1>6, <2>1
  <2> QED
    BY <2>2
<1>8. CASE S \ {x} = {}
  BY <1>4, <1>5, <1>8 DEF First
<1>9. CASE S \ {x} # {}
  <2>1. PICK b \in S \ {x} : First(S \ {x}, b)
    BY <1>7, <1>9
  <2>2. CASE Before(x, b)
    <3>1. ASSUME NEW q \in S \ {x}
          PROVE  Before(x, q)
      BY <2>1, <2>2, <1>5, BeforeIsOrder DEF First
    <3> QED
      BY <3>1, <1>4, <1>5 DEF First
  <2>3. CASE Before(b, x)
    BY <2>1, <2>3, <1>4 DEF First
  <2> QED
    BY <2>1, <2>2, <2>3, BeforeIsOrder
<1> QED
  BY <1>8, <1>9

-----------------------------------------------------------------------------
\* What a run has found, and the highlights that led there.

CatalogSteps == {"category", "highlights", "highlight", "resolve", "children", "items", "done"}

AnyCategory == {NoId} \cup UNION {{w.categories[i] : i \in DOMAIN w.categories} : w \in Walks}

Highlights ==
  {NoHighlight} \cup UNION {{HighlightsOf[c][i] : i \in DOMAIN HighlightsOf[c]} : c \in LeafCategories}

WalkRow ==
  [pc : CatalogSteps, left : Seq(AnyCategory), category : AnyCategory, todo : Seq(Highlights),
   now : Highlights, spare : Int, unresolved : Int, errors : Int,
   outcome : {"RUNNING", "SUCCEEDED", "PARTIAL", "FAILED"}]

Kinds == {"ITEM", "USER_PRODUCT", "CATALOG_PRODUCT"}

FoundRow == [kind : Kinds, id : Products \cup Items, position : Nat, origins : SUBSET AnyCategory]

HitRow == [kind : Kinds, id : Products \cup Items, position : Nat, category : AnyCategory]

LedTo(e, told) == {h \in told : h.kind = e.kind /\ h.id = e.id}

\* The candidate e has the categories and the best place of those that led to it.
Accounted(e, told) ==
  /\ e.kind = "CATALOG_PRODUCT" <=> e.id \in Products
  /\ e.origins = {h.category : h \in LedTo(e, told)}
  /\ \E h \in LedTo(e, told) : h.position = e.position
  /\ \A h \in LedTo(e, told) : h.position >= e.position

Same(e, d) == e.kind = d.kind /\ e.id = d.id

AllAccounted(list, told) ==
  /\ \A m, n \in DOMAIN list : Same(list[m], list[n]) => m = n
  /\ \A h \in told : \E n \in DOMAIN list : Same(h, list[n])
  /\ \A n \in DOMAIN list : Accounted(list[n], told)

FoundInv == found \in Seq(FoundRow) /\ hits \in SUBSET HitRow /\ AllAccounted(found, hits)

LEMMA HighlightFacts ==
    ASSUME NEW h \in Highlights
    PROVE  /\ h.position \in Nat /\ h.type \in {"ITEM", "PRODUCT", "USER_PRODUCT", "UNKNOWN"}
           /\ h.type = "ITEM" => h.id \in Items
           /\ h.type = "PRODUCT" => h.id \in Products
           /\ h.type \in {"PRODUCT", "USER_PRODUCT"} => ItemsOf[h.id] \subseteq Items
<1>1. CASE h = NoHighlight
  BY <1>1 DEF NoHighlight
<1>2. CASE h # NoHighlight
  <2>1. PICK c \in LeafCategories : \E i \in DOMAIN HighlightsOf[c] : h = HighlightsOf[c][i]
    BY <1>2 DEF Highlights
  <2>2. PICK i \in DOMAIN HighlightsOf[c] : h = HighlightsOf[c][i]
    BY <2>1
  <2> QED
    BY <2>2, CatalogAssumption
<1> QED
  BY <1>1, <1>2

\* One place of the list changes, to a candidate that is accounted for.
LEMMA AccountedWith ==
    ASSUME FoundInv, NEW list, NEW s \in Nat, NEW e \in FoundRow, NEW h \in HitRow,
           Same(h, e), Accounted(e, hits \cup {h}),
           list \in Seq(FoundRow), DOMAIN list = DOMAIN found \cup {s}, list[s] = e,
           \A n \in DOMAIN found : n # s => list[n] = found[n] /\ ~Same(found[n], e),
           s \in DOMAIN found => Same(found[s], e)
    PROVE  AllAccounted(list, hits \cup {h})
<1>1. ASSUME NEW m \in DOMAIN list, NEW n \in DOMAIN list, Same(list[m], list[n])
      PROVE  m = n
  <2>1. CASE m = s /\ n # s
    BY <1>1, <2>1 DEF Same
  <2>2. CASE m # s /\ n = s
    BY <1>1, <2>2 DEF Same
  <2>3. CASE m # s /\ n # s
    BY <1>1, <2>3 DEF FoundInv, AllAccounted
  <2> QED
    BY <2>1, <2>2, <2>3
<1>2. ASSUME NEW g \in hits \cup {h}
      PROVE  \E n \in DOMAIN list : Same(g, list[n])
  <2>1. CASE g = h
    BY <2>1
  <2>2. CASE g \in hits
    <3>1. PICK n \in DOMAIN found : Same(g, found[n])
      BY <2>2 DEF FoundInv, AllAccounted
    <3>2. CASE n = s
      BY <3>1, <3>2 DEF Same
    <3>3. CASE n # s
      BY <3>1, <3>3
    <3> QED
      BY <3>2, <3>3
  <2> QED
    BY <1>2, <2>1, <2>2
<1>3. ASSUME NEW n \in DOMAIN list
      PROVE  Accounted(list[n], hits \cup {h})
  <2>1. CASE n = s
    BY <2>1
  <2>2. CASE n # s
    <3>1. n \in DOMAIN found /\ list[n] = found[n] /\ ~Same(h, found[n])
      BY <2>2, <1>3 DEF Same
    <3>2. LedTo(found[n], hits \cup {h}) = LedTo(found[n], hits)
      BY <3>1 DEF LedTo, Same
    <3>3. Accounted(found[n], hits)
      BY <3>1 DEF FoundInv, AllAccounted
    <3> QED
      BY <3>1, <3>2, <3>3 DEF Accounted
  <2> QED
    BY <2>1, <2>2
<1> QED
  BY <1>1, <1>2, <1>3 DEF AllAccounted

LEMMA ResolveKeepsFound ==
    ASSUME FoundInv, walk \in WalkRow, NEW kind \in Kinds, NEW id \in Products \cup Items,
           kind = "CATALOG_PRODUCT" <=> id \in Products, Resolve(kind, id)
    PROVE  FoundInv'
<1>1. PICK place \in Nat, category \in AnyCategory :
        place = walk.now.position /\ category = walk.category
  BY HighlightFacts DEF WalkRow
<1>2. PICK h \in HitRow : h = [kind |-> kind, id |-> id, position |-> place, category |-> category]
  BY DEF HitRow
<1>3. h.kind = kind /\ h.id = id /\ h.position = place /\ h.category = category
  BY <1>2
<1>4. hits' = hits \cup {h} /\ found' = Kept(kind, id)
  BY <1>1, <1>2 DEF Resolve
<1> DEFINE same == {i \in DOMAIN found : found[i].kind = kind /\ found[i].id = id}
<1>5. CASE same = {}
  <2>1. PICK e \in FoundRow :
          e = [kind |-> kind, id |-> id, position |-> place, origins |-> {category}]
    BY DEF FoundRow
  <2>2. e.kind = kind /\ e.id = id /\ e.position = place /\ e.origins = {category}
    BY <2>1
  <2>3. found' = Append(found, e)
    BY <1>1, <1>4, <1>5, <2>1 DEF Kept
  <2>4. LedTo(e, hits \cup {h}) = {h}
    BY <1>3, <1>5, <2>2 DEF LedTo, FoundInv, AllAccounted, Same
  <2>5. Accounted(e, hits \cup {h})
    BY <1>3, <2>2, <2>4 DEF Accounted
  <2>6. /\ found' \in Seq(FoundRow) /\ DOMAIN found' = DOMAIN found \cup {Len(found) + 1}
        /\ Len(found) + 1 \in Nat /\ found'[Len(found) + 1] = e
        /\ \A n \in DOMAIN found : found'[n] = found[n] /\ n # Len(found) + 1
    BY <2>3 DEF FoundInv
  <2>7. \A n \in DOMAIN found : ~Same(found[n], e)
    BY <1>5, <2>2 DEF Same
  <2>8. Same(h, e)
    BY <1>3, <2>2 DEF Same
  <2>9. AllAccounted(found', hits \cup {h})
    BY <2>5, <2>6, <2>7, <2>8, AccountedWith
  <2> QED
    BY <1>4, <2>6, <2>9 DEF FoundInv
<1>6. CASE same # {}
  <2>1. PICK s \in same : TRUE
    BY <1>6
  <2>2. s \in DOMAIN found /\ s \in Nat /\ found[s] \in FoundRow /\ found[s].kind = kind
        /\ found[s].id = id /\ Accounted(found[s], hits)
        /\ \A n \in DOMAIN found : n # s => ~(found[n].kind = kind /\ found[n].id = id)
    BY <2>1 DEF FoundInv, AllAccounted, Same
  <2>3. same = {s}
    BY <2>2
  <2>4. PICK position \in Nat :
          position = IF place < found[s].position THEN place ELSE found[s].position
    BY <2>2 DEF FoundRow
  <2>5. PICK e : e = [found[s] EXCEPT !.position = position, !.origins = @ \cup {category}]
    OBVIOUS
  <2>6. e \in FoundRow /\ e.kind = kind /\ e.id = id /\ e.position = position
        /\ e.origins = found[s].origins \cup {category}
    BY <2>2, <2>5 DEF FoundRow
  <2>7. found' = [i \in DOMAIN found |-> IF i = s THEN e ELSE found[i]]
    <3>1. found' = [i \in DOMAIN found |->
              IF i \notin same THEN found[i]
              ELSE [found[i] EXCEPT !.position = IF place < @ THEN place ELSE @,
                                    !.origins = @ \cup {category}]]
      BY <1>1, <1>4, <1>6 DEF Kept
    <3>2. [found[s] EXCEPT !.position = IF place < @ THEN place ELSE @,
                           !.origins = @ \cup {category}] = e
      BY <2>4, <2>5
    <3> QED
      BY <2>3, <3>1, <3>2
  <2>8. /\ found' \in Seq(FoundRow) /\ DOMAIN found' = DOMAIN found \cup {s} /\ found'[s] = e
        /\ \A n \in DOMAIN found : n # s => found'[n] = found[n]
    <3>1. found \in Seq(FoundRow) /\ e \in FoundRow
      BY <2>6 DEF FoundInv
    <3>2. \A i \in 1 .. Len(found) : (IF i = s THEN e ELSE found[i]) \in FoundRow
      BY <3>1
    <3>3. found' \in [1 .. Len(found) -> FoundRow] /\ Len(found) \in Nat
      BY <2>7, <3>1, <3>2
    <3>4. found' \in Seq(FoundRow)
      BY <3>3
    <3>5. DOMAIN found' = DOMAIN found
      BY <2>7
    <3> QED
      BY <2>2, <2>7, <3>4, <3>5
  <2>9. LedTo(e, hits \cup {h}) = LedTo(found[s], hits) \cup {h}
    BY <1>3, <2>2, <2>6 DEF LedTo
  <2>10. /\ e.kind = "CATALOG_PRODUCT" <=> e.id \in Products
         /\ e.origins = {g.category : g \in LedTo(e, hits \cup {h})}
    BY <1>3, <2>2, <2>6, <2>9 DEF Accounted
  <2>11. \A g \in LedTo(found[s], hits) : g.position \in Nat /\ g.position >= found[s].position
    BY <2>2 DEF Accounted, LedTo, FoundInv, HitRow
  <2>12. \A g \in LedTo(e, hits \cup {h}) : g.position >= e.position
    BY <1>3, <2>2, <2>4, <2>6, <2>9, <2>11 DEF FoundRow
  <2>13. \E g \in LedTo(e, hits \cup {h}) : g.position = e.position
    BY <1>3, <2>2, <2>4, <2>6, <2>9 DEF Accounted
  <2>14. Accounted(e, hits \cup {h})
    BY <2>10, <2>12, <2>13 DEF Accounted
  <2>15. Same(h, e) /\ Same(found[s], e) /\ \A n \in DOMAIN found : n # s => ~Same(found[n], e)
    BY <1>3, <2>2, <2>6 DEF Same
  <2>16. AllAccounted(found', hits \cup {h})
    BY <2>2, <2>6, <2>8, <2>14, <2>15, AccountedWith
  <2> QED
    BY <1>4, <2>8, <2>16 DEF FoundInv
<1> QED
  BY <1>5, <1>6

-----------------------------------------------------------------------------
\* The search through a product's children.

ChildrenOf(p) == {ProductOf[p].children[k] : k \in DOMAIN ProductOf[p].children}

QueueRow == [id : Products, depth : 1 .. MaxDepth]

TreeRow ==
  [root : Products \cup {NoId}, queue : Seq(QueueRow), visited : SUBSET Products,
   winners : SUBSET Products, answered : SUBSET Products, choice : Products \cup {NoId},
   end : {"open", "best", "none", "tooLarge"}]

StepsDown(root, answered, path, d) ==
  \A i \in 1 .. d : /\ (IF i = 1 THEN root ELSE path[i - 1]) \in answered
                    /\ path[i] \in ChildrenOf(IF i = 1 THEN root ELSE path[i - 1])

\* The product p is d steps below the root, through answered products.
Down(root, answered, p, d) ==
  \E path \in [1 .. d -> Products] : path[d] = p /\ StepsDown(root, answered, path, d)

Winning(answered) == {p \in answered : ProductOf[p].winner # NoId}

\* What waits is in the order of its depth, and no deeper than a step below the first.
InOrder(queue) ==
  \A i, j \in DOMAIN queue : /\ i <= j => queue[i].depth <= queue[j].depth
                             /\ queue[j].depth <= queue[i].depth + 1

\* The product c was looked at d steps below the root at most, or waits for that.
Awaited(t, depth, c, d) ==
  \/ c \in t.visited /\ depth[c] <= d
  \/ \E i \in DOMAIN t.queue : t.queue[i].id = c /\ t.queue[i].depth <= d

\* The depth at which each product was looked at.
Levels(t, depth) ==
  /\ depth \in [t.visited -> 0 .. MaxDepth] /\ depth[t.root] = 0
  /\ \A p \in t.visited : \A i \in DOMAIN t.queue : depth[p] <= t.queue[i].depth
  /\ \A p \in t.answered : \A c \in ChildrenOf(p) :
       depth[p] < MaxDepth => Awaited(t, depth, c, depth[p] + 1)

SearchGood(t) ==
  /\ t.end = "open" /\ t.root \in t.answered /\ t.answered \subseteq t.visited
  /\ IsFiniteSet(t.visited)
  /\ ProductOf[t.root].winner = NoId /\ t.winners = Winning(t.answered)
  /\ \A p \in t.visited \ {t.root} : \E d \in 1 .. MaxDepth : Down(t.root, t.answered, p, d)
  /\ \A i \in DOMAIN t.queue : Down(t.root, t.answered, t.queue[i].id, t.queue[i].depth)
  /\ InOrder(t.queue)
  /\ \E depth \in [t.visited -> 0 .. MaxDepth] : Levels(t, depth)

LEMMA MaxDepthType == MaxDepth \in Nat /\ MaxDepth >= 1
BY CatalogAssumption

LEMMA ChildrenType ==
    ASSUME NEW p \in Products
    PROVE  ChildrenOf(p) \subseteq Products
BY ProductFacts DEF ChildrenOf

LEMMA DownStays ==
    ASSUME NEW root, NEW answered, NEW more, answered \subseteq more, NEW p, NEW d,
           Down(root, answered, p, d)
    PROVE  Down(root, more, p, d)
BY DEF Down, StepsDown

LEMMA DownOnce ==
    ASSUME NEW answered, NEW root \in answered, root \in Products, NEW c \in ChildrenOf(root)
    PROVE  Down(root, answered, c, 1)
<1>1. PICK path \in [1 .. 1 -> Products] : path[1] = c
  <2>1. c \in Products
    BY ChildrenType
  <2>2. [i \in 1 .. 1 |-> c] \in [1 .. 1 -> Products] /\ [i \in 1 .. 1 |-> c][1] = c
    BY <2>1
  <2> QED
    BY <2>2
<1>2. StepsDown(root, answered, path, 1)
  BY <1>1 DEF StepsDown
<1> QED
  BY <1>1, <1>2 DEF Down

LEMMA DownFurther ==
    ASSUME NEW root, NEW answered, NEW p \in answered, p \in Products, NEW d \in 1 .. MaxDepth,
           Down(root, answered, p, d), NEW c \in ChildrenOf(p)
    PROVE  Down(root, answered, c, d + 1)
<1>1. PICK path \in [1 .. d -> Products] : path[d] = p /\ StepsDown(root, answered, path, d)
  BY DEF Down
<1>2. d \in Nat /\ d >= 1 /\ c \in Products
  BY MaxDepthType, ChildrenType
<1>3. PICK longer : longer = [i \in 1 .. d + 1 |-> IF i <= d THEN path[i] ELSE c]
  OBVIOUS
<1>4. /\ longer \in [1 .. d + 1 -> Products] /\ longer[d + 1] = c
      /\ \A i \in 1 .. d : longer[i] = path[i]
  BY <1>1, <1>2, <1>3
<1>5. ASSUME NEW i \in 1 .. d + 1
      PROVE  /\ (IF i = 1 THEN root ELSE longer[i - 1]) \in answered
             /\ longer[i] \in ChildrenOf(IF i = 1 THEN root ELSE longer[i - 1])
  <2>1. CASE i = d + 1
    <3>1. i # 1 /\ longer[i - 1] = p
      BY <1>1, <1>2, <1>4, <2>1
    <3> QED
      BY <1>4, <2>1, <3>1
  <2>2. CASE i <= d
    <3>1. i \in 1 .. d /\ longer[i] = path[i] /\ (i # 1 => longer[i - 1] = path[i - 1])
      BY <1>2, <1>4, <2>2
    <3> QED
      BY <1>1, <3>1 DEF StepsDown
  <2> QED
    BY <1>2, <2>1, <2>2
<1> QED
  BY <1>4, <1>5 DEF Down, StepsDown

\* A search begins with the children of its root.
LEMMA SearchBegins ==
    ASSUME NEW p \in Products, ProductOf[p].winner = NoId, NEW t \in TreeRow,
           t.root = p, t.visited = {p}, t.answered = {p}, t.winners = {}, t.end = "open",
           t.queue = [i \in DOMAIN ProductOf[p].children |->
                        [id |-> ProductOf[p].children[i], depth |-> 1]]
    PROVE  SearchGood(t)
<1>1. ProductOf[p].children \in Seq(Products) /\ DOMAIN t.queue = DOMAIN ProductOf[p].children
  BY ProductFacts
<1>2. \A i \in DOMAIN t.queue : t.queue[i].depth = 1 /\ t.queue[i].id = ProductOf[p].children[i]
  BY <1>1
<1>3. \A i \in DOMAIN t.queue : t.queue[i].id \in ChildrenOf(p)
  BY <1>1, <1>2 DEF ChildrenOf
<1>4. \A i \in DOMAIN t.queue : Down(p, {p}, t.queue[i].id, t.queue[i].depth)
  BY <1>2, <1>3, DownOnce
<1>5. InOrder(t.queue)
  BY <1>2 DEF InOrder
<1>6. PICK depth \in [{p} -> 0 .. MaxDepth] : depth[p] = 0
  <2>1. [q \in {p} |-> 0] \in [{p} -> 0 .. MaxDepth] /\ [q \in {p} |-> 0][p] = 0
    BY MaxDepthType
  <2> QED
    BY <2>1
<1>7. ASSUME NEW c \in ChildrenOf(p)
      PROVE  Awaited(t, depth, c, 1)
  <2>1. PICK k \in DOMAIN t.queue : c = ProductOf[p].children[k]
    BY <1>1 DEF ChildrenOf
  <2> QED
    BY <1>2, <2>1 DEF Awaited
<1>8. Levels(t, depth)
  BY <1>2, <1>6, <1>7 DEF Levels
<1>9. IsFiniteSet({p})
  BY FS_Singleton
<1>10. t.winners = Winning(t.answered)
  BY DEF Winning
<1> QED
  BY <1>4, <1>5, <1>6, <1>8, <1>9, <1>10 DEF SearchGood

LEMMA Joined ==
    ASSUME NEW T, NEW a \in Seq(T), NEW b \in Seq(T)
    PROVE  /\ a \o b \in Seq(T) /\ Len(a \o b) = Len(a) + Len(b)
           /\ \A i \in 1 .. Len(a) : (a \o b)[i] = a[i]
           /\ \A k \in 1 .. Len(b) : (a \o b)[Len(a) + k] = b[k]
<1>1. a \o b \in Seq(T) /\ Len(a \o b) = Len(a) + Len(b)
  OBVIOUS
<1>2. \A i \in 1 .. Len(a) : (a \o b)[i] = a[i]
  OBVIOUS
<1>3. ASSUME NEW k \in 1 .. Len(b)
      PROVE  (a \o b)[Len(a) + k] = b[k]
  OBVIOUS
<1> QED
  BY <1>1, <1>2, <1>3

\* What the search of n, the first that waits, makes of a search t: behind what
\* waits it puts more, the children of n, unless n had been looked at or is not
\* answered.
LEMMA SearchGoesOn ==
    ASSUME NEW t \in TreeRow, SearchGood(t), NEW u \in TreeRow, NEW n \in QueueRow,
           NEW more \in Seq(QueueRow),
           t.queue # <<>>, n = Head(t.queue), u.queue = Tail(t.queue) \o more,
           u.root = t.root, u.end = t.end, u.visited = t.visited \cup {n.id},
           t.answered \subseteq u.answered, u.answered \subseteq t.answered \cup {n.id},
           u.winners = Winning(u.answered),
           \A k \in DOMAIN more : /\ more[k].depth = n.depth + 1 /\ n.depth < MaxDepth
                                  /\ more[k].id \in ChildrenOf(n.id) /\ n.id \in u.answered,
           n.id \in u.answered \ t.answered /\ n.depth < MaxDepth =>
             \A c \in ChildrenOf(n.id) : c \in u.visited \/ \E k \in DOMAIN more : more[k].id = c,
           n.id \in t.visited => u.answered = t.answered
    PROVE  SearchGood(u)
<1>0. PICK q, m : q = t.queue /\ m = Len(q)
  OBVIOUS
<1>1. /\ q = t.queue /\ q \in Seq(QueueRow) /\ m \in Nat /\ m >= 1 /\ q[1] = n /\ n \in QueueRow
      /\ Tail(q) \in Seq(QueueRow) /\ Len(Tail(q)) = m - 1 /\ n.id \in Products /\ n.depth \in 1 .. MaxDepth
      /\ n.depth \in Nat /\ MaxDepth \in Nat
  BY <1>0, MaxDepthType DEF TreeRow, QueueRow
<1>1a. PICK z \in Nat : z = n.depth /\ z <= MaxDepth
  BY <1>1
<1>2. \A i \in 1 .. m - 1 : Tail(q)[i] = q[i + 1]
  BY <1>1
<1>3. /\ u.queue \in Seq(QueueRow) /\ Len(u.queue) = m - 1 + Len(more) /\ Len(more) \in Nat
      /\ DOMAIN u.queue = 1 .. Len(u.queue) /\ DOMAIN more = 1 .. Len(more)
      /\ \A i \in 1 .. m - 1 : u.queue[i] = q[i + 1]
      /\ \A k \in 1 .. Len(more) : u.queue[m - 1 + k] = more[k]
  <2>1. PICK rest \in Seq(QueueRow) : rest = Tail(q)
    BY <1>1
  <2>2. u.queue = rest \o more /\ Len(rest) = m - 1
    BY <1>1, <2>1
  <2>3. /\ rest \o more \in Seq(QueueRow) /\ Len(rest \o more) = Len(rest) + Len(more)
        /\ \A i \in 1 .. Len(rest) : (rest \o more)[i] = rest[i]
        /\ \A k \in 1 .. Len(more) : (rest \o more)[Len(rest) + k] = more[k]
    BY <2>1, Joined
  <2>4. Len(more) \in Nat /\ DOMAIN more = 1 .. Len(more) /\ u.queue \in Seq(QueueRow)
        /\ DOMAIN u.queue = 1 .. Len(u.queue)
    <3>1. \A s \in Seq(QueueRow) : Len(s) \in Nat /\ DOMAIN s = 1 .. Len(s)
      OBVIOUS
    <3> QED
      BY <2>2, <2>3, <3>1
  <2>5. \A i \in 1 .. m - 1 : u.queue[i] = q[i + 1]
    BY <1>2, <2>1, <2>2, <2>3
  <2>6. \A k \in 1 .. Len(more) : u.queue[m - 1 + k] = more[k]
    BY <2>2, <2>3
  <2> QED
    BY <2>2, <2>3, <2>4, <2>5, <2>6
<1>4. ASSUME NEW i \in DOMAIN u.queue
      PROVE  \/ i \in 1 .. m - 1 /\ i + 1 \in DOMAIN q /\ u.queue[i] = q[i + 1]
             \/ i - (m - 1) \in DOMAIN more /\ i > m - 1 /\ u.queue[i] = more[i - (m - 1)]
  <2>1. CASE i <= m - 1
    BY <1>1, <1>3, <2>1
  <2>2. CASE i > m - 1
    <3>1. i - (m - 1) \in 1 .. Len(more) /\ m - 1 + (i - (m - 1)) = i
      BY <1>1, <1>3, <1>4, <2>2
    <3> QED
      BY <1>3, <2>2, <3>1
  <2>3. i <= m - 1 \/ i > m - 1
    BY <1>1, <1>3, <1>4
  <2> QED
    BY <2>1, <2>2, <2>3
<1>5. \A i \in DOMAIN q : q[i] \in QueueRow /\ q[i].depth \in 1 .. MaxDepth /\ n.depth <= q[i].depth
                           /\ q[i].depth <= n.depth + 1
  <2>1. \A i \in DOMAIN q : 1 \in DOMAIN q /\ 1 <= i /\ q[i] \in QueueRow
    BY <1>1
  <2> QED
    BY <1>1, <2>1 DEF SearchGood, InOrder, QueueRow
<1>4a. \A k \in DOMAIN more : more[k].depth = n.depth + 1 /\ more[k].id \in ChildrenOf(n.id)
                               /\ n.id \in u.answered
  OBVIOUS
<1>5a. \A i \in DOMAIN u.queue :
         /\ u.queue[i].depth \in Nat
         /\ n.depth <= u.queue[i].depth /\ u.queue[i].depth <= n.depth + 1
         /\ i > m - 1 => u.queue[i].depth = n.depth + 1
  <2> SUFFICES ASSUME NEW i \in DOMAIN u.queue
               PROVE  /\ u.queue[i].depth \in Nat
                      /\ n.depth <= u.queue[i].depth /\ u.queue[i].depth <= n.depth + 1
                      /\ i > m - 1 => u.queue[i].depth = n.depth + 1
    OBVIOUS
  <2>1. CASE i \in 1 .. m - 1 /\ i + 1 \in DOMAIN q /\ u.queue[i] = q[i + 1]
    BY <1>1, <1>5, <2>1, MaxDepthType
  <2>2. CASE i - (m - 1) \in DOMAIN more /\ u.queue[i] = more[i - (m - 1)]
    <3>1. PICK k \in DOMAIN more : u.queue[i] = more[k]
      BY <2>2
    <3>2. u.queue[i].depth = n.depth + 1
      BY <1>4a, <3>1
    <3>3. z + 1 \in Nat /\ z <= z + 1 /\ z + 1 <= z + 1
      BY <1>1a
    <3>4. u.queue[i].depth = z + 1 /\ n.depth = z
      BY <1>1a, <3>2
    <3> QED
      BY <3>3, <3>4
  <2> QED
    BY <1>4, <2>1, <2>2
<1>6. InOrder(u.queue)
  <2>1. ASSUME NEW i \in DOMAIN u.queue, NEW j \in DOMAIN u.queue, i <= j
        PROVE  u.queue[i].depth <= u.queue[j].depth
    <3>1. CASE j > m - 1
      BY <1>1, <1>5a, <3>1
    <3>2. CASE j <= m - 1
      <4>1. /\ i + 1 \in DOMAIN q /\ j + 1 \in DOMAIN q /\ i + 1 <= j + 1
            /\ u.queue[i] = q[i + 1] /\ u.queue[j] = q[j + 1]
        <5>1. i \in 1 .. m - 1 /\ j \in 1 .. m - 1
          BY <1>1, <1>3, <2>1, <3>2
        <5>2. u.queue[i] = q[i + 1] /\ u.queue[j] = q[j + 1]
          BY <1>3, <5>1
        <5>3. i + 1 \in 1 .. m /\ j + 1 \in 1 .. m /\ i + 1 <= j + 1
          BY <1>1, <2>1, <5>1, SMTT(30)
        <5> QED
          BY <1>1, <5>2, <5>3, SMTT(30)
      <4>2. InOrder(q)
        BY <1>1 DEF SearchGood
      <4> QED
        BY <4>1, <4>2 DEF InOrder
    <3> QED
      BY <1>1, <1>3, <3>1, <3>2
  <2>2. ASSUME NEW i \in DOMAIN u.queue, NEW j \in DOMAIN u.queue
        PROVE  u.queue[j].depth <= u.queue[i].depth + 1
    <3>1. PICK x \in Nat, y \in Nat : x = u.queue[i].depth /\ y = u.queue[j].depth
      BY <1>5a, <2>2
    <3>2. n.depth <= x /\ y <= n.depth + 1
      BY <1>5a, <2>2, <3>1
    <3>3. z <= x /\ y <= z + 1
      BY <1>1a, <3>2
    <3>4. y <= x + 1
      BY <3>3
    <3> QED
      BY <3>1, <3>4
  <2> QED
    BY <2>1, <2>2 DEF InOrder
<1>7. Down(t.root, t.answered, n.id, n.depth)
  BY <1>1 DEF SearchGood
<1>8. ASSUME NEW i \in DOMAIN u.queue
      PROVE  Down(u.root, u.answered, u.queue[i].id, u.queue[i].depth)
  <2>1. CASE i + 1 \in DOMAIN q /\ u.queue[i] = q[i + 1]
    <3>1. Down(t.root, t.answered, q[i + 1].id, q[i + 1].depth)
      BY <1>1, <2>1 DEF SearchGood
    <3> QED
      BY <2>1, <3>1, DownStays
  <2>2. CASE i - (m - 1) \in DOMAIN more /\ u.queue[i] = more[i - (m - 1)]
    <3>1. Down(t.root, u.answered, n.id, n.depth)
      BY <1>7, DownStays
    <3>2. PICK k \in DOMAIN more : u.queue[i] = more[k]
      BY <2>2
    <3>3. more[k].depth = n.depth + 1 /\ more[k].id \in ChildrenOf(n.id) /\ n.id \in u.answered
      BY <3>2
    <3>4. Down(t.root, u.answered, more[k].id, n.depth + 1)
      BY <1>1, <3>1, <3>3, DownFurther
    <3> QED
      BY <3>2, <3>3, <3>4
  <2> QED
    BY <1>4, <2>1, <2>2
<1>9. ASSUME NEW p \in u.visited \ {u.root}
      PROVE  \E d \in 1 .. MaxDepth : Down(u.root, u.answered, p, d)
  <2>1. CASE p \in t.visited
    <3>1. PICK d \in 1 .. MaxDepth : Down(t.root, t.answered, p, d)
      BY <1>9, <2>1 DEF SearchGood
    <3> QED
      BY <3>1, DownStays
  <2>2. CASE p = n.id
    BY <1>1, <1>7, <2>2, DownStays
  <2> QED
    BY <1>9, <2>1, <2>2
<1>10. PICK depth \in [t.visited -> 0 .. MaxDepth] : Levels(t, depth)
  BY DEF SearchGood
<1>11. PICK deep : deep = [p \in u.visited |-> IF p \in t.visited THEN depth[p] ELSE n.depth]
  OBVIOUS
<1>12. /\ deep \in [u.visited -> 0 .. MaxDepth]
       /\ \A p \in t.visited : deep[p] = depth[p] /\ depth[p] \in 0 .. MaxDepth /\ depth[p] <= n.depth
       /\ n.id \notin t.visited => deep[n.id] = n.depth
       /\ deep[n.id] <= n.depth /\ n.id \in u.visited
  <2>1. \A p \in t.visited : depth[p] \in 0 .. MaxDepth /\ depth[p] <= n.depth
    BY <1>1, <1>10 DEF Levels
  <2>2. \A p \in u.visited : (IF p \in t.visited THEN depth[p] ELSE n.depth) \in 0 .. MaxDepth
    BY <1>1, <2>1, MaxDepthType
  <2> QED
    BY <1>1, <1>11, <2>1, <2>2, MaxDepthType
<1>13. Levels(u, deep)
  <2>1. deep[u.root] = 0
    BY <1>10, <1>12 DEF Levels, SearchGood
  <2>2. ASSUME NEW p \in u.visited, NEW i \in DOMAIN u.queue
        PROVE  deep[p] <= u.queue[i].depth
    <3>1. deep[p] \in 0 .. MaxDepth /\ deep[p] <= n.depth
      BY <1>12
    <3>2. u.queue[i].depth \in Nat /\ n.depth <= u.queue[i].depth
      BY <1>5a
    <3>3. PICK x \in Nat, y \in Nat : x = deep[p] /\ y = u.queue[i].depth
      BY <3>1, <3>2
    <3>4. x <= z /\ z <= y
      BY <1>1a, <3>1, <3>2, <3>3
    <3>5. x <= y
      BY <3>4
    <3> QED
      BY <3>3, <3>5
  <2>3. ASSUME NEW p \in u.answered, NEW c \in ChildrenOf(p), deep[p] < MaxDepth
        PROVE  Awaited(u, deep, c, deep[p] + 1)
    <3>1. CASE p \in t.answered
      <4>1. p \in t.visited /\ deep[p] = depth[p] /\ depth[p] \in Nat
        BY <1>12, <3>1, MaxDepthType DEF SearchGood
      <4>2. Awaited(t, depth, c, depth[p] + 1)
        BY <1>10, <2>3, <3>1, <4>1 DEF Levels
      <4>3. CASE c \in t.visited /\ depth[c] <= depth[p] + 1
        BY <1>12, <4>1, <4>3 DEF Awaited
      <4>4. CASE \E i \in DOMAIN q : q[i].id = c /\ q[i].depth <= depth[p] + 1
        <5>1. PICK i \in DOMAIN q : q[i].id = c /\ q[i].depth <= depth[p] + 1
          BY <4>4
        <5>2. CASE i = 1
          <6>1. c = n.id /\ n.depth <= depth[p] + 1
            BY <1>1, <5>1, <5>2
          <6>2. deep[c] \in Nat /\ deep[c] <= n.depth /\ c \in u.visited
            BY <1>12, <6>1, MaxDepthType
          <6> QED
            BY <1>1, <4>1, <6>1, <6>2, MaxDepthType DEF Awaited
        <5>3. CASE i # 1
          <6>1. i - 1 \in 1 .. m - 1 /\ i - 1 \in DOMAIN u.queue /\ u.queue[i - 1] = q[i]
            <7>1. i \in 1 .. m /\ i - 1 \in 1 .. m - 1
              BY <1>1, <5>1, <5>3, SMTT(30)
            <7>2. PICK j \in 1 .. m - 1 : j = i - 1 /\ j + 1 = i
              BY <7>1
            <7>3. u.queue[j] = q[i] /\ j \in DOMAIN u.queue
              BY <1>1, <1>3, <7>2
            <7> QED
              BY <7>1, <7>2, <7>3
          <6> QED
            BY <4>1, <5>1, <6>1 DEF Awaited
        <5> QED
          BY <5>2, <5>3
      <4> QED
        BY <1>1, <4>2, <4>3, <4>4 DEF Awaited
    <3>2. CASE p \notin t.answered
      <4>1. p = n.id /\ n.id \in u.answered \ t.answered /\ n.id \notin t.visited
        BY <2>3, <3>2
      <4>2. deep[p] = n.depth /\ n.depth < MaxDepth
        BY <1>12, <2>3, <4>1
      <4>3. CASE c \in u.visited
        <5>1. deep[c] <= n.depth /\ deep[c] \in Nat
          BY <1>12, <4>3, MaxDepthType
        <5> QED
          BY <1>1, <4>2, <4>3, <5>1, MaxDepthType DEF Awaited
      <4>4. CASE \E k \in DOMAIN more : more[k].id = c
        <5>1. PICK k \in 1 .. Len(more) : more[k].id = c
          BY <1>3, <4>4
        <5>2. m - 1 + k \in DOMAIN u.queue /\ u.queue[m - 1 + k] = more[k]
          <6>1. m - 1 + k \in 1 .. Len(u.queue)
            BY <1>1, <1>3, <5>1
          <6> QED
            BY <1>3, <5>1, <6>1
        <5>3. more[k].depth = n.depth + 1
          BY <1>3, <1>4a, <5>1
        <5>4. u.queue[m - 1 + k].depth <= deep[p] + 1
          <6>1. u.queue[m - 1 + k].depth = z + 1 /\ deep[p] = z
            BY <1>1a, <4>2, <5>2, <5>3
          <6>2. z + 1 <= z + 1
            BY <1>1a
          <6> QED
            BY <6>1, <6>2
        <5> QED
          BY <5>1, <5>2, <5>4 DEF Awaited
      <4> QED
        BY <2>3, <4>1, <4>2, <4>3, <4>4
    <3> QED
      BY <3>1, <3>2
  <2> QED
    BY <1>12, <2>1, <2>2, <2>3 DEF Levels
<1>14. IsFiniteSet(u.visited)
  <2>1. IsFiniteSet(t.visited)
    BY DEF SearchGood
  <2>2. IsFiniteSet(t.visited \cup {n.id})
    BY <2>1, FS_AddElement
  <2> QED
    BY <2>2
<1>15. /\ u.end = "open" /\ u.root \in u.answered /\ u.answered \subseteq u.visited
       /\ ProductOf[u.root].winner = NoId
  BY DEF SearchGood
<1> QED
  BY <1>6, <1>8, <1>9, <1>12, <1>13, <1>14, <1>15 DEF SearchGood

\* When nothing waits any more, all that can be reached was looked at.
LEMMA SearchIsComplete ==
    ASSUME NEW t \in TreeRow, SearchGood(t), t.queue = <<>>,
           NEW d \in 1 .. MaxDepth, NEW p, Down(t.root, t.answered, p, d)
    PROVE  p \in t.visited
<1>1. PICK depth \in [t.visited -> 0 .. MaxDepth] : Levels(t, depth)
  BY DEF SearchGood
<1>2. PICK path \in [1 .. d -> Products] : path[d] = p /\ StepsDown(t.root, t.answered, path, d)
  BY DEF Down
<1> DEFINE Good(i) == path[i] \in t.visited /\ depth[path[i]] <= i
           bad == {i \in 1 .. d : ~Good(i)}
<1>3. bad = {}
  <2> SUFFICES ASSUME bad # {}
               PROVE  FALSE
    OBVIOUS
  <2>1. bad \in SUBSET Nat
    BY MaxDepthType
  <2>2. PICK i \in bad : \A j \in bad : i <= j
    BY <2>1, LeastNatural
  <2>3. i \in 1 .. d /\ d \in Nat /\ d <= MaxDepth
    BY <2>2, MaxDepthType
  <2>4. PICK above \in t.answered : /\ path[i] \in ChildrenOf(above)
                                    /\ above = IF i = 1 THEN t.root ELSE path[i - 1]
    BY <1>2, <2>3 DEF StepsDown
  <2>5. above \in t.visited /\ depth[above] \in Nat /\ depth[above] <= i - 1
    <3>1. above \in t.visited /\ depth[above] \in Nat
      BY <1>1, <2>4, MaxDepthType DEF SearchGood
    <3>2. CASE i = 1
      BY <1>1, <2>3, <2>4, <3>1, <3>2 DEF Levels
    <3>3. CASE i # 1
      <4>1. i - 1 \in 1 .. d /\ ~(i <= i - 1)
        BY <2>3, <3>3
      <4>2. Good(i - 1)
        BY <2>2, <4>1
      <4> QED
        BY <2>4, <3>1, <3>3, <4>2
    <3> QED
      BY <3>2, <3>3
  <2>6. depth[above] < MaxDepth
    BY <2>3, <2>5, MaxDepthType
  <2>7. Awaited(t, depth, path[i], depth[above] + 1)
    BY <1>1, <2>4, <2>6 DEF Levels
  <2>8. path[i] \in t.visited /\ depth[path[i]] <= depth[above] + 1
    BY <2>7 DEF Awaited
  <2>9. depth[path[i]] \in Nat
    BY <1>1, <2>8, MaxDepthType
  <2> QED
    BY <2>2, <2>3, <2>5, <2>8, <2>9
<1>4. d \in 1 .. d
  BY MaxDepthType
<1> QED
  BY <1>2, <1>3, <1>4

-----------------------------------------------------------------------------
\* What is offered at the end.

LEMMA SourceIsFound ==
    ASSUME FoundInv, NEW i \in {found[n].id : n \in DOMAIN found \ Pages}
    PROVE  Source(i) \in DOMAIN found \ Pages /\ found[Source(i)].id = i
<1> DEFINE S == {n \in DOMAIN found \ Pages : found[n].id = i}
<1>1. S # {} /\ S \in SUBSET (1 .. Len(found)) /\ Len(found) \in Nat
  BY DEF FoundInv
<1>2. Max(S) \in S
  <2> HIDE DEF S
  <2> QED
    BY <1>1, MaxIsMember
<1> QED
  BY <1>2 DEF Source

Offerable == Pages \cup {Source(i) : i \in {found[n].id : n \in DOMAIN found \ Pages}}

LEMMA OfferableFacts ==
    ASSUME FoundInv, NEW n \in Offerable
    PROVE  /\ n \in DOMAIN found /\ Accounted(found[n], hits) /\ LedTo(found[n], hits) # {}
           /\ n \notin Pages => n = Source(found[n].id)
<1>1. CASE n \in Pages
  BY <1>1 DEF Pages, FoundInv, AllAccounted, Accounted
<1>2. CASE n \notin Pages
  <2>1. PICK i \in {found[m].id : m \in DOMAIN found \ Pages} : n = Source(i)
    BY <1>2 DEF Offerable
  <2>2. n \in DOMAIN found /\ found[n].id = i
    BY <2>1, SourceIsFound
  <2>3. Accounted(found[n], hits)
    BY <2>2 DEF FoundInv, AllAccounted
  <2> QED
    BY <2>1, <2>2, <2>3 DEF Accounted
<1> QED
  BY <1>1, <1>2

LEMMA OfferedOnce ==
    ASSUME FoundInv, NEW m \in Offerable, NEW n \in Offerable, found[m].id = found[n].id
    PROVE  m = n
<1>1. /\ m \in DOMAIN found /\ n \in DOMAIN found
      /\ found[m].kind = "CATALOG_PRODUCT" <=> found[m].id \in Products
      /\ found[n].kind = "CATALOG_PRODUCT" <=> found[n].id \in Products
      /\ m \notin Pages => m = Source(found[m].id)
      /\ n \notin Pages => n = Source(found[n].id)
  BY OfferableFacts DEF Accounted
<1>2. m \in Pages <=> n \in Pages
  BY <1>1 DEF Pages
<1>3. CASE m \in Pages
  BY <1>1, <1>2, <1>3 DEF Pages, FoundInv, AllAccounted, Same
<1>4. CASE m \notin Pages
  BY <1>1, <1>2, <1>4
<1> QED
  BY <1>3, <1>4

LEMMA OfferIsLed ==
    ASSUME FoundInv, NEW n \in Offerable, NEW led, led = {h \in hits : h.id = found[n].id}
    PROVE  /\ led # {}
           /\ Cardinality({h.kind : h \in led}) = 1 =>
                /\ found[n].origins = {h.category : h \in led}
                /\ \E h \in led : h.position = found[n].position
                /\ \A h \in led : h.position >= found[n].position
<1>1. LedTo(found[n], hits) \subseteq led /\ LedTo(found[n], hits) # {}
  BY OfferableFacts DEF LedTo
<1>2. ASSUME Cardinality({h.kind : h \in led}) = 1
      PROVE  led = LedTo(found[n], hits)
  <2> DEFINE kinds == {h.kind : h \in led}
  <2>1. kinds \subseteq Kinds
    BY DEF FoundInv, HitRow
  <2>2. IsFiniteSet(Kinds)
    <3>1. IsFiniteSet({"ITEM"} \cup {"USER_PRODUCT"})
      BY FS_Singleton, FS_AddElement
    <3>2. IsFiniteSet(({"ITEM"} \cup {"USER_PRODUCT"}) \cup {"CATALOG_PRODUCT"})
      BY <3>1, FS_AddElement
    <3>3. Kinds = ({"ITEM"} \cup {"USER_PRODUCT"}) \cup {"CATALOG_PRODUCT"}
      BY DEF Kinds
    <3> QED
      BY <3>2, <3>3
  <2>3. IsFiniteSet(kinds)
    <3> HIDE DEF kinds
    <3> QED
      BY <2>1, <2>2, FS_Subset
  <2>4. PICK kind : kinds = {kind}
    <3> HIDE DEF kinds
    <3>1. Cardinality(kinds) = 1
      BY <1>2 DEF kinds
    <3> QED
      BY <2>3, <3>1, FS_Singleton
  <2>5. \A h \in led : h.kind = kind
    BY <2>4
  <2>6. found[n].kind = kind
    BY <1>1, <2>5 DEF LedTo
  <2> QED
    BY <1>1, <2>5, <2>6 DEF LedTo
<1>3. Accounted(found[n], hits)
  BY OfferableFacts
<1> QED
  BY <1>1, <1>2, <1>3 DEF Accounted

LEMMA OffersAreBest ==
    ASSUME FoundInv, NEW suited \in SUBSET Offerable, offered' = {Offer(n) : n \in suited},
           hits' = hits
    PROVE  OfferedWithBestPlace'
<1> SUFFICES ASSUME NEW o \in offered'
             PROVE  LET led == {h \in hits : h.id = o.id}
                    IN  /\ \A q \in offered' : q.id = o.id => q = o
                        /\ led # {}
                        /\ Cardinality({h.kind : h \in led}) = 1 =>
                             /\ o.origins = {h.category : h \in led}
                             /\ \E h \in led : h.position = o.position
                             /\ \A h \in led : h.position >= o.position
  BY DEF OfferedWithBestPlace
<1>1. PICK n \in suited : o = Offer(n)
  OBVIOUS
<1>2. n \in Offerable /\ o.id = found[n].id /\ o.position = found[n].position
      /\ o.origins = found[n].origins
  BY <1>1 DEF Offer
<1>3. ASSUME NEW q \in offered', q.id = o.id
      PROVE  q = o
  <2>1. PICK m \in suited : q = Offer(m)
    BY <1>3
  <2>2. m \in Offerable /\ q.id = found[m].id
    BY <2>1 DEF Offer
  <2>3. m = n
    BY <1>2, <1>3, <2>2, OfferedOnce
  <2> QED
    BY <1>1, <2>1, <2>3
<1>4. PICK led : led = {h \in hits : h.id = found[n].id}
  OBVIOUS
<1>5. /\ led # {}
      /\ Cardinality({h.kind : h \in led}) = 1 =>
           /\ found[n].origins = {h.category : h \in led}
           /\ \E h \in led : h.position = found[n].position
           /\ \A h \in led : h.position >= found[n].position
  BY <1>2, <1>4, OfferIsLed
<1>6. led = {h \in hits : h.id = o.id}
  BY <1>2, <1>4
<1> QED
  BY <1>2, <1>3, <1>5, <1>6

-----------------------------------------------------------------------------
\* The run.

Reached(t, p) == \E d \in 1 .. MaxDepth : Down(t.root, t.answered, p, d)

\* A search that has ended looked at everything it reaches, and chose the first.
ChoiceGood(t) ==
  LET winners == {p \in Winning(t.answered) : Reached(t, p)}
  IN  t.end \in {"best", "none"} =>
        /\ \A p \in Products : Reached(t, p) => p \in t.visited
        /\ t.end = "none" <=> winners = {}
        /\ t.end = "best" => t.choice \in winners /\ \A p \in winners : ~Before(p, t.choice)

\* What a step of the run relies on.
WalkGood ==
  /\ walk \in WalkRow
  /\ walk.pc = "done" <=> walk.outcome # "RUNNING"
  /\ walk.pc \in {"children", "items"} => walk.now.type = "PRODUCT"
  /\ walk.pc = "highlights" => walk.category \in LeafCategories

TreeGood ==
  /\ tree \in TreeRow /\ tree.winners \subseteq tree.visited
  /\ walk.pc = "children" => SearchGood(tree)
  /\ ChoiceGood(tree)

CatalogInv ==
  /\ WalkGood /\ TreeGood /\ FoundInv
  /\ walk.pc # "done" => offered = {}
  /\ OfferedWithBestPlace

LEMMA SpentRow ==
    ASSUME walk \in WalkRow, NEW reply
    PROVE  /\ Spent(reply) \in WalkRow
           /\ Spent(reply).pc = walk.pc /\ Spent(reply).left = walk.left
           /\ Spent(reply).category = walk.category /\ Spent(reply).todo = walk.todo
           /\ Spent(reply).now = walk.now /\ Spent(reply).unresolved = walk.unresolved
           /\ Spent(reply).errors = walk.errors /\ Spent(reply).outcome = walk.outcome
<1>1. PICK spare \in Int : spare = IF reply = "answered" THEN walk.spare ELSE walk.spare - 1
  BY DEF WalkRow
<1>2. Spent(reply) = [walk EXCEPT !.spare = spare]
  BY <1>1 DEF Spent
<1> QED
  BY <1>2 DEF WalkRow

\* A step that goes on with the run and offers nothing yet.
LEMMA GoingOnKeeps ==
    ASSUME CatalogInv, WalkGood', walk.pc # "done", offered' = offered, FoundInv', TreeGood'
    PROVE  CatalogInv'
<1>1. offered' = {}
  BY DEF CatalogInv
<1>2. OfferedWithBestPlace'
  BY <1>1 DEF OfferedWithBestPlace
<1> QED
  BY <1>1, <1>2 DEF CatalogInv

LEMMA FoundStays ==
    ASSUME CatalogInv, found' = found, hits' = hits
    PROVE  FoundInv'
BY DEF CatalogInv, FoundInv

LEMMA TreeStays ==
    ASSUME CatalogInv, tree' = tree, walk'.pc = "children" => walk.pc = "children"
    PROVE  TreeGood'
BY DEF CatalogInv, TreeGood

LEMMA NoTreeGood ==
    ASSUME tree' = NoTree, walk'.pc # "children"
    PROVE  TreeGood'
<1>1. NoTree \in TreeRow /\ NoTree.end = "open" /\ NoTree.winners = {}
  BY DEF NoTree, TreeRow
<1> QED
  BY <1>1 DEF TreeGood, ChoiceGood

LEMMA ResolveKeeps ==
    ASSUME CatalogInv, walk.pc # "done", NEW kind \in Kinds, NEW id \in Products \cup Items,
           kind = "CATALOG_PRODUCT" <=> id \in Products, Resolve(kind, id), offered' = offered,
           TreeGood'
    PROVE  CatalogInv'
<1>1. FoundInv'
  BY ResolveKeepsFound DEF CatalogInv, WalkGood
<1>2. walk' = [walk EXCEPT !.pc = "highlight"] /\ walk \in WalkRow /\ walk.outcome = "RUNNING"
  BY DEF Resolve, CatalogInv, WalkGood
<1>3. walk' \in WalkRow /\ walk'.pc = "highlight" /\ walk'.outcome = "RUNNING"
  BY <1>2 DEF WalkRow, CatalogSteps
<1>4. WalkGood'
  BY <1>3 DEF WalkGood
<1> QED
  BY <1>1, <1>4, GoingOnKeeps

LEMMA SkippedKeeps ==
    ASSUME CatalogInv, walk.pc # "done", NEW reply, walk' = Skipped(reply),
           UNCHANGED <<tree, found, hits, offered>>
    PROVE  CatalogInv'
<1>1. Spent(reply) \in WalkRow /\ Spent(reply).outcome = "RUNNING"
  BY SpentRow DEF CatalogInv, WalkGood
<1>2. walk' \in WalkRow /\ walk'.pc = "highlight" /\ walk'.outcome = "RUNNING"
  <2>1. PICK n \in Int : n = Spent(reply).unresolved + 1
    BY <1>1 DEF WalkRow
  <2>2. walk' = [Spent(reply) EXCEPT !.pc = "highlight", !.unresolved = n]
    BY <2>1 DEF Skipped
  <2> QED
    BY <1>1, <2>2 DEF WalkRow, CatalogSteps
<1>3. WalkGood'
  BY <1>2 DEF WalkGood
<1> QED
  BY <1>2, <1>3, GoingOnKeeps, FoundStays, TreeStays

LEMMA CatalogInitInv == CatalogInit => CatalogInv
<1> SUFFICES ASSUME CatalogInit
             PROVE  CatalogInv
  OBVIOUS
<1>1. PICK w \in Walks :
        walk = [pc |-> "category", left |-> w.categories, category |-> NoId, todo |-> <<>>,
                now |-> NoHighlight, spare |-> w.spare, unresolved |-> 0, errors |-> 0,
                outcome |-> "RUNNING"]
  BY DEF CatalogInit
<1>2. w.spare \in Nat /\ w.categories \in Seq({w.categories[i] : i \in DOMAIN w.categories})
  BY CatalogAssumption
<1>3. {w.categories[i] : i \in DOMAIN w.categories} \subseteq AnyCategory
  BY DEF AnyCategory
<1>4. w.categories \in Seq(AnyCategory)
  BY <1>2, <1>3
<1>5. NoId \in AnyCategory /\ NoHighlight \in Highlights
  BY DEF AnyCategory, Highlights
<1>6. walk \in WalkRow /\ walk.pc = "category" /\ walk.outcome = "RUNNING"
  BY <1>1, <1>2, <1>4, <1>5 DEF WalkRow, CatalogSteps
<1>7. TreeGood
  <2>1. NoTree \in TreeRow /\ NoTree.end = "open" /\ NoTree.winners = {}
    BY DEF NoTree, TreeRow
  <2> QED
    BY <1>6, <2>1 DEF CatalogInit, TreeGood, ChoiceGood
<1>8. FoundInv
  BY DEF CatalogInit, FoundInv, AllAccounted
<1>9. OfferedWithBestPlace
  BY DEF CatalogInit, OfferedWithBestPlace
<1> QED
  BY <1>6, <1>7, <1>8, <1>9 DEF CatalogInit, CatalogInv, WalkGood

LEMMA ReadCategoryKeeps == CatalogInv /\ ReadCategory => CatalogInv'
<1> SUFFICES ASSUME CatalogInv, ReadCategory
             PROVE  CatalogInv'
  OBVIOUS
<1>1. walk \in WalkRow /\ walk.pc = "category" /\ walk.outcome = "RUNNING" /\ walk.left # <<>>
      /\ walk.left \in Seq(AnyCategory)
  BY DEF CatalogInv, WalkGood, ReadCategory, WalkRow
<1>2. PICK reply :
        walk' = [Spent(reply) EXCEPT
                   !.pc = IF reply = "answered" /\ Head(walk.left) \in LeafCategories
                          THEN "highlights" ELSE "category",
                   !.category = Head(walk.left), !.left = Tail(@),
                   !.errors = IF reply = "failed" THEN @ + 1 ELSE @]
  BY DEF ReadCategory
<1>3. PICK c \in AnyCategory, left \in Seq(AnyCategory) : c = Head(walk.left) /\ left = Tail(walk.left)
  <2>1. \A s \in Seq(AnyCategory) : s # <<>> => Head(s) \in AnyCategory /\ Tail(s) \in Seq(AnyCategory)
    OBVIOUS
  <2> QED
    BY <1>1, <2>1
<1>4. PICK pc \in CatalogSteps, errors \in Int :
        /\ pc = IF reply = "answered" /\ c \in LeafCategories THEN "highlights" ELSE "category"
        /\ errors = IF reply = "failed" THEN Spent(reply).errors + 1 ELSE Spent(reply).errors
  BY <1>1, SpentRow DEF WalkRow, CatalogSteps
<1>5. walk' = [Spent(reply) EXCEPT !.pc = pc, !.category = c, !.left = left, !.errors = errors]
  BY <1>1, <1>2, <1>3, <1>4, SpentRow
<1>6. Spent(reply) \in WalkRow /\ Spent(reply).outcome = "RUNNING"
  BY <1>1, SpentRow
<1>7. walk' \in WalkRow /\ walk'.pc = pc /\ walk'.category = c /\ walk'.outcome = "RUNNING"
  BY <1>5, <1>6 DEF WalkRow
<1>8. WalkGood' /\ walk'.pc # "children"
  BY <1>4, <1>7 DEF WalkGood
<1> QED
  BY <1>1, <1>8, GoingOnKeeps, FoundStays, TreeStays DEF ReadCategory

LEMMA ReadHighlightsKeeps == CatalogInv /\ ReadHighlights => CatalogInv'
<1> SUFFICES ASSUME CatalogInv, ReadHighlights
             PROVE  CatalogInv'
  OBVIOUS
<1>1. walk \in WalkRow /\ walk.pc = "highlights" /\ walk.outcome = "RUNNING"
      /\ walk.category \in LeafCategories
  BY DEF CatalogInv, WalkGood, ReadHighlights
<1>2. PICK all : all = HighlightsOf[walk.category]
  OBVIOUS
<1>3. all \in Seq(Highlights)
  <2>1. all \in Seq({all[i] : i \in DOMAIN all})
    BY <1>1, <1>2, CatalogAssumption
  <2>2. {all[i] : i \in DOMAIN all} \subseteq Highlights
    BY <1>1, <1>2 DEF Highlights
  <2> QED
    BY <2>1, <2>2
<1>4. PICK first \in Seq(Highlights) :
        first = SubSeq(all, 1, IF Len(all) < MaxHighlights THEN Len(all) ELSE MaxHighlights)
  <2>1. PICK n \in Nat : n = IF Len(all) < MaxHighlights THEN Len(all) ELSE MaxHighlights
    BY <1>3, CatalogAssumption
  <2>2. n <= Len(all) /\ Len(all) \in Nat
    BY <1>3, <2>1, CatalogAssumption
  <2>3. SubSeq(all, 1, n) \in Seq(Highlights)
    BY <1>3, <2>2
  <2> QED
    BY <2>1, <2>3
<1>5. PICK reply :
        walk' = [Spent(reply) EXCEPT
                   !.pc = IF reply = "answered" THEN "highlight" ELSE "category",
                   !.todo = IF reply = "answered" THEN first ELSE <<>>,
                   !.errors = IF reply = "failed" THEN @ + 1 ELSE @]
  BY <1>2, <1>4 DEF ReadHighlights
<1>6. PICK pc \in {"highlight", "category"}, todo \in Seq(Highlights), errors \in Int :
        /\ pc = IF reply = "answered" THEN "highlight" ELSE "category"
        /\ todo = IF reply = "answered" THEN first ELSE <<>>
        /\ errors = IF reply = "failed" THEN Spent(reply).errors + 1 ELSE Spent(reply).errors
  <2>1. Spent(reply).errors \in Int
    BY <1>1, SpentRow DEF WalkRow
  <2>2. (IF reply = "answered" THEN first ELSE <<>>) \in Seq(Highlights)
    OBVIOUS
  <2>3. (IF reply = "failed" THEN Spent(reply).errors + 1 ELSE Spent(reply).errors) \in Int
    BY <2>1
  <2> QED
    BY <2>2, <2>3
<1>7. walk' = [Spent(reply) EXCEPT !.pc = pc, !.todo = todo, !.errors = errors]
  BY <1>5, <1>6
<1>8. Spent(reply) \in WalkRow /\ Spent(reply).outcome = "RUNNING"
  BY <1>1, SpentRow
<1>9. walk' \in WalkRow /\ walk'.pc = pc /\ walk'.outcome = "RUNNING"
  BY <1>6, <1>7, <1>8 DEF WalkRow, CatalogSteps
<1>10. WalkGood' /\ walk'.pc # "children"
  BY <1>6, <1>9 DEF WalkGood
<1> QED
  BY <1>1, <1>10, GoingOnKeeps, FoundStays, TreeStays DEF ReadHighlights

LEMMA TakeHighlightKeeps == CatalogInv /\ TakeHighlight => CatalogInv'
<1> SUFFICES ASSUME CatalogInv, TakeHighlight
             PROVE  CatalogInv'
  OBVIOUS
<1>1. walk \in WalkRow /\ walk.pc = "highlight" /\ walk.outcome = "RUNNING"
      /\ walk.todo \in Seq(Highlights)
  BY DEF CatalogInv, WalkGood, TakeHighlight, WalkRow
<1>2. CASE walk.todo = <<>>
  <2>1. walk' = [walk EXCEPT !.pc = "category", !.now = NoHighlight]
    BY <1>2 DEF TakeHighlight
  <2>2. NoHighlight \in Highlights
    BY DEF Highlights
  <2>3. walk' \in WalkRow /\ walk'.pc = "category" /\ walk'.outcome = "RUNNING"
    BY <1>1, <2>1, <2>2 DEF WalkRow, CatalogSteps
  <2>4. WalkGood'
    BY <2>3 DEF WalkGood
  <2> QED
    BY <1>1, <2>3, <2>4, GoingOnKeeps, FoundStays, NoTreeGood DEF TakeHighlight
<1>3. CASE walk.todo # <<>>
  <2>1. PICK h \in Highlights, todo \in Seq(Highlights) : h = Head(walk.todo) /\ todo = Tail(walk.todo)
    <3>1. \A s \in Seq(Highlights) : s # <<>> => Head(s) \in Highlights /\ Tail(s) \in Seq(Highlights)
      OBVIOUS
    <3> QED
      BY <1>1, <1>3, <3>1
  <2>2. walk' = [walk EXCEPT !.now = h, !.todo = todo, !.pc = "resolve"]
    BY <1>3, <2>1 DEF TakeHighlight
  <2>3. walk' \in WalkRow /\ walk'.pc = "resolve" /\ walk'.outcome = "RUNNING"
    BY <1>1, <2>1, <2>2 DEF WalkRow, CatalogSteps
  <2>4. WalkGood'
    BY <2>3 DEF WalkGood
  <2> QED
    BY <1>1, <2>3, <2>4, GoingOnKeeps, FoundStays, NoTreeGood DEF TakeHighlight
<1> QED
  BY <1>2, <1>3

LEMMA ResolveItemKeeps == CatalogInv /\ ResolveItem => CatalogInv'
<1> SUFFICES ASSUME CatalogInv, ResolveItem
             PROVE  CatalogInv'
  OBVIOUS
<1>1. walk.now \in Highlights /\ walk.pc = "resolve" /\ offered' = offered /\ tree' = tree
  BY DEF CatalogInv, WalkGood, ResolveItem, WalkRow
<1>2. CASE walk.now.type = "ITEM" /\ Resolve("ITEM", walk.now.id)
  <2>1. walk.now.id \in Items /\ walk.now.id \notin Products
    BY <1>1, <1>2, HighlightFacts, CatalogAssumption
  <2>2. walk'.pc # "children"
    BY <1>2 DEF Resolve, CatalogInv, WalkGood, WalkRow
  <2>3. TreeGood'
    BY <1>1, <2>2, TreeStays
  <2> QED
    BY <1>1, <1>2, <2>1, <2>3, ResolveKeeps DEF Kinds
<1>3. CASE walk' = Skipped("answered") /\ UNCHANGED <<found, hits>>
  BY <1>1, <1>3, SkippedKeeps
<1> QED
  BY <1>2, <1>3 DEF ResolveItem

LEMMA BestIsOne ==
    ASSUME NEW S \in SUBSET Items, S # {}
    PROVE  Best(S) \in S
<1> DEFINE ranks == {ItemFacts[i].rank : i \in S}
<1>1. ranks \in SUBSET Nat /\ ranks # {}
  BY CatalogAssumption
<1>2. PICK r \in ranks : \A s \in ranks : r <= s
  <2> HIDE DEF ranks
  <2> QED
    BY <1>1, LeastNatural
<1>3. PICK i \in S : ItemFacts[i].rank = r
  BY <1>2
<1>4. \A j \in S : ItemFacts[i].rank <= ItemFacts[j].rank
  BY <1>2, <1>3
<1> QED
  BY <1>4 DEF Best

LEMMA ResolveUserProductKeeps == CatalogInv /\ ResolveUserProduct => CatalogInv'
<1> SUFFICES ASSUME CatalogInv, ResolveUserProduct
             PROVE  CatalogInv'
  OBVIOUS
<1>1. walk.now \in Highlights /\ walk.pc = "resolve" /\ walk.now.type = "USER_PRODUCT"
      /\ offered' = offered /\ tree' = tree /\ walk \in WalkRow
  BY DEF CatalogInv, WalkGood, ResolveUserProduct, WalkRow
<1>2. ItemsOf[walk.now.id] \subseteq Items
  BY <1>1, HighlightFacts
<1>3. PICK reply \in Replies : \E known \in Detailed(ItemsOf[walk.now.id]) :
        IF reply = "answered" /\ Usable(known) # {} THEN Resolve("USER_PRODUCT", Best(Usable(known)))
        ELSE walk' = Skipped(reply) /\ UNCHANGED <<found, hits>>
  BY Zenon DEF ResolveUserProduct
<1>3a. PICK known \in SUBSET ItemsOf[walk.now.id] :
         IF reply = "answered" /\ Usable(known) # {} THEN Resolve("USER_PRODUCT", Best(Usable(known)))
         ELSE walk' = Skipped(reply) /\ UNCHANGED <<found, hits>>
  BY <1>3, Zenon DEF Detailed
<1>4. CASE reply = "answered" /\ Usable(known) # {}
  <2>1. Usable(known) \in SUBSET Items
    BY <1>2, <1>3a DEF Usable
  <2>2. PICK i \in Items : i = Best(Usable(known))
    BY <1>4, <2>1, BestIsOne
  <2>3. Resolve("USER_PRODUCT", i) /\ i \notin Products
    BY <1>3a, <1>4, <2>2, CatalogAssumption
  <2>4. walk'.pc # "children"
    BY <1>1, <2>3 DEF Resolve, WalkRow
  <2>5. TreeGood'
    BY <1>1, <2>4, TreeStays
  <2> QED
    BY <1>1, <2>3, <2>5, ResolveKeeps DEF Kinds
<1>5. CASE ~(reply = "answered" /\ Usable(known) # {})
  BY <1>1, <1>3a, <1>5, SkippedKeeps
<1> QED
  BY <1>4, <1>5

LEMMA LoadProductKeeps == CatalogInv /\ LoadProduct => CatalogInv'
<1> SUFFICES ASSUME CatalogInv, LoadProduct
             PROVE  CatalogInv'
  OBVIOUS
<1>1. walk.now \in Highlights /\ walk.pc = "resolve" /\ walk.now.type = "PRODUCT"
      /\ offered' = offered /\ walk \in WalkRow /\ walk.outcome = "RUNNING"
  BY DEF CatalogInv, WalkGood, LoadProduct, WalkRow
<1>2. PICK p \in Products : p = walk.now.id
  BY <1>1, HighlightFacts
<1>3. CASE \E reply : walk' = Skipped(reply) /\ UNCHANGED <<tree, found, hits>>
  BY <1>1, <1>3, SkippedKeeps
<1>4. CASE \E reply : /\ walk' = [Spent(reply) EXCEPT !.pc = "done", !.outcome = "FAILED"]
                      /\ UNCHANGED <<tree, found, hits>>
  <2>1. PICK reply : walk' = [Spent(reply) EXCEPT !.pc = "done", !.outcome = "FAILED"]
    BY <1>4
  <2>2. walk' \in WalkRow /\ walk'.pc = "done" /\ walk'.outcome = "FAILED"
    BY <1>1, <2>1, SpentRow DEF WalkRow, CatalogSteps
  <2>3. WalkGood'
    BY <2>2 DEF WalkGood
  <2> QED
    BY <1>1, <1>4, <2>2, <2>3, GoingOnKeeps, FoundStays, TreeStays
<1>5. CASE ProductOf[p].winner # NoId /\ Resolve("ITEM", ProductOf[p].winner) /\ UNCHANGED tree
  <2>1. ProductOf[p].winner \in Items /\ ProductOf[p].winner \notin Products
    BY <1>5, ProductFacts, CatalogAssumption
  <2>2. walk'.pc # "children"
    BY <1>1, <1>5 DEF Resolve, WalkRow
  <2>3. TreeGood'
    BY <1>5, <2>2, TreeStays
  <2> QED
    BY <1>1, <1>5, <2>1, <2>3, ResolveKeeps DEF Kinds
<1>6. CASE walk' = [walk EXCEPT !.pc = "items"] /\ UNCHANGED <<tree, found, hits>>
  <2>1. walk' \in WalkRow /\ walk'.pc = "items" /\ walk'.now = walk.now /\ walk'.outcome = "RUNNING"
    BY <1>1, <1>6 DEF WalkRow, CatalogSteps
  <2>2. WalkGood'
    BY <1>1, <2>1 DEF WalkGood
  <2> QED
    BY <1>1, <1>6, <2>1, <2>2, GoingOnKeeps, FoundStays, TreeStays
<1>7. CASE /\ ProductOf[p].winner = NoId
           /\ walk' = [walk EXCEPT !.pc = "children"]
           /\ tree' = [NoTree EXCEPT !.root = p, !.visited = {p}, !.answered = {p},
                         !.queue = [i \in DOMAIN ProductOf[p].children |->
                                      [id |-> ProductOf[p].children[i], depth |-> 1]]]
           /\ UNCHANGED <<found, hits>>
  <2>1. walk' \in WalkRow /\ walk'.pc = "children" /\ walk'.now = walk.now /\ walk'.outcome = "RUNNING"
    BY <1>1, <1>7 DEF WalkRow, CatalogSteps
  <2>2. WalkGood'
    BY <1>1, <2>1 DEF WalkGood
  <2>3. PICK queue : queue = [i \in DOMAIN ProductOf[p].children |->
                                [id |-> ProductOf[p].children[i], depth |-> 1]]
    OBVIOUS
  <2>4. queue \in Seq(QueueRow)
    <3>1. PICK n \in Nat : DOMAIN ProductOf[p].children = 1 .. n
      BY ProductFacts
    <3>2. \A i \in 1 .. n : [id |-> ProductOf[p].children[i], depth |-> 1] \in QueueRow
      BY <3>1, ProductFacts, MaxDepthType DEF QueueRow
    <3>3. queue \in [1 .. n -> QueueRow]
      BY <2>3, <3>1, <3>2
    <3> QED
      BY <3>3
  <2>5. tree' = [root |-> p, queue |-> queue, visited |-> {p}, winners |-> {}, answered |-> {p},
                 choice |-> NoId, end |-> "open"]
    BY <1>7, <2>3 DEF NoTree
  <2>6. /\ tree' \in TreeRow /\ tree'.root = p /\ tree'.visited = {p} /\ tree'.answered = {p}
        /\ tree'.winners = {} /\ tree'.end = "open" /\ tree'.queue = queue
    BY <2>4, <2>5 DEF TreeRow
  <2>7. PICK t \in TreeRow : t = tree'
    BY <2>6
  <2>8. SearchGood(t)
    BY <1>7, <2>3, <2>6, <2>7, SearchBegins
  <2>9. SearchGood(tree') /\ ChoiceGood(tree')
    BY <2>6, <2>7, <2>8 DEF ChoiceGood
  <2>10. TreeGood'
    BY <2>6, <2>9 DEF TreeGood
  <2> QED
    BY <1>1, <1>7, <2>2, <2>10, GoingOnKeeps, FoundStays
<1> QED
  BY <1>2, <1>3, <1>4, <1>5, <1>6, <1>7 DEF LoadProduct

LEMMA NoChoiceGood ==
    ASSUME NEW t, t.end \notin {"best", "none"}
    PROVE  ChoiceGood(t)
BY DEF ChoiceGood

\* The children of n that are put behind what waits.
More(n, reply) ==
  IF reply = "answered" /\ n.depth < MaxDepth
  THEN [i \in DOMAIN Unvisited(n) |-> [id |-> Unvisited(n)[i], depth |-> n.depth + 1]] ELSE <<>>

LEMMA FreshChildren ==
    ASSUME NEW n \in QueueRow, NEW reply
    PROVE  /\ More(n, reply) \in Seq(QueueRow)
           /\ \A k \in DOMAIN More(n, reply) :
                /\ More(n, reply)[k].depth = n.depth + 1 /\ n.depth < MaxDepth /\ reply = "answered"
                /\ More(n, reply)[k].id \in ChildrenOf(n.id)
           /\ reply = "answered" /\ n.depth < MaxDepth =>
                \A c \in ChildrenOf(n.id) : \/ c \in tree.visited \cup {n.id}
                                            \/ \E k \in DOMAIN More(n, reply) : More(n, reply)[k].id = c
<1>1. PICK children \in Seq(Products) : children = ProductOf[n.id].children
  BY ProductFacts DEF QueueRow
<1>2. PICK places \in SUBSET DOMAIN children :
        places = {i \in DOMAIN children : children[i] \notin tree.visited \cup {n.id}}
  OBVIOUS
<1>3. PICK fresh : fresh = Picked(children, places)
  OBVIOUS
<1>4. Unvisited(n) = fresh
  BY <1>1, <1>2, <1>3 DEF Unvisited
<1>5. /\ fresh \in Seq(Products)
      /\ \A k \in DOMAIN fresh : \E i \in places : fresh[k] = children[i]
      /\ \A i \in places : \E k \in DOMAIN fresh : fresh[k] = children[i]
  BY <1>3, PickedIsPart
<1>6. PICK more : more = More(n, reply)
  OBVIOUS
<1>7. CASE reply = "answered" /\ n.depth < MaxDepth
  <2>1. more = [i \in DOMAIN fresh |-> [id |-> fresh[i], depth |-> n.depth + 1]]
    BY <1>4, <1>6, <1>7 DEF More
  <2>2. PICK m \in Nat : DOMAIN fresh = 1 .. m
    BY <1>5
  <2>3. PICK d \in 1 .. MaxDepth : d = n.depth + 1
    BY <1>7, MaxDepthType DEF QueueRow
  <2>4. \A i \in 1 .. m : [id |-> fresh[i], depth |-> d] \in QueueRow
    BY <1>5, <2>2 DEF QueueRow
  <2>5. more \in [1 .. m -> QueueRow] /\ \A i \in 1 .. m : more[i].id = fresh[i] /\ more[i].depth = d
    BY <2>1, <2>2, <2>3, <2>4
  <2>6. more \in Seq(QueueRow) /\ DOMAIN more = 1 .. m
    BY <2>5
  <2>7. \A k \in DOMAIN more : more[k].id \in ChildrenOf(n.id)
    BY <1>1, <1>5, <2>2, <2>5, <2>6 DEF ChildrenOf
  <2>8. ASSUME NEW c \in ChildrenOf(n.id), c \notin tree.visited \cup {n.id}
        PROVE  \E k \in DOMAIN more : more[k].id = c
    <3>1. PICK i \in DOMAIN children : c = children[i]
      BY <1>1, <2>8 DEF ChildrenOf
    <3>2. i \in places
      BY <1>2, <2>8, <3>1
    <3>3. PICK k \in DOMAIN fresh : fresh[k] = children[i]
      BY <1>5, <3>2
    <3> QED
      BY <2>2, <2>5, <2>6, <3>1, <3>3
  <2>9. \A k \in DOMAIN more : more[k].depth = n.depth + 1
    BY <2>3, <2>5, <2>6
  <2> QED
    BY <1>6, <1>7, <2>6, <2>7, <2>8, <2>9
<1>8. CASE ~(reply = "answered" /\ n.depth < MaxDepth)
  <2>1. More(n, reply) = <<>>
    BY <1>8 DEF More
  <2>2. <<>> \in Seq(QueueRow) /\ DOMAIN <<>> = {}
    OBVIOUS
  <2> QED
    BY <1>8, <2>1, <2>2
<1> QED
  BY <1>7, <1>8


LEMMA VisitChildKeeps == CatalogInv /\ VisitChild => CatalogInv'
<1> SUFFICES ASSUME CatalogInv, VisitChild
             PROVE  CatalogInv'
  OBVIOUS
<1>1. /\ walk.pc = "children" /\ walk.now.type = "PRODUCT" /\ walk \in WalkRow
      /\ walk.outcome = "RUNNING" /\ tree \in TreeRow /\ SearchGood(tree) /\ tree.queue # <<>>
      /\ offered' = offered /\ found' = found /\ hits' = hits
  BY DEF CatalogInv, WalkGood, TreeGood, VisitChild
<1>2. FoundInv'
  BY <1>1, FoundStays
<1>3. PICK n \in QueueRow : n = Head(tree.queue)
  <2>1. tree.queue \in Seq(QueueRow)
    BY <1>1 DEF TreeRow
  <2>2. \A s \in Seq(QueueRow) : s # <<>> => Head(s) \in QueueRow
    OBVIOUS
  <2> QED
    BY <1>1, <2>1, <2>2
<1>4. PICK rest \in Seq(QueueRow) : rest = Tail(tree.queue)
  <2>1. tree.queue \in Seq(QueueRow)
    BY <1>1 DEF TreeRow
  <2>2. \A s \in Seq(QueueRow) : s # <<>> => Tail(s) \in Seq(QueueRow)
    OBVIOUS
  <2> QED
    BY <1>1, <2>1, <2>2
<1>5. \/ n.id \in tree.visited /\ tree' = [tree EXCEPT !.queue = rest] /\ walk' = walk
      \/ /\ tree' = [tree EXCEPT !.queue = <<>>, !.winners = {}, !.end = "tooLarge"]
         /\ walk' = [walk EXCEPT !.pc = "items"]
      \/ n.id \notin tree.visited /\ \E reply : tree' = Searched(n, reply) /\ walk' = Spent(reply)
  BY <1>3, <1>4 DEF VisitChild
<1>6. CASE n.id \in tree.visited /\ tree' = [tree EXCEPT !.queue = rest] /\ walk' = walk
  <2>1. PICK u : u = tree'
    OBVIOUS
  <2>2. /\ u \in TreeRow /\ u.queue = rest /\ u.root = tree.root /\ u.visited = tree.visited
        /\ u.winners = tree.winners /\ u.answered = tree.answered /\ u.end = tree.end
    BY <1>1, <1>4, <1>6, <2>1 DEF TreeRow
  <2>3. PICK more \in Seq(QueueRow) : more = <<>>
    <3>1. <<>> \in Seq(QueueRow)
      OBVIOUS
    <3> QED
      BY <3>1, Zenon
  <2>4. u.queue = Tail(tree.queue) \o more /\ DOMAIN more = {}
    <3>1. \A s \in Seq(QueueRow) : s \o <<>> = s
      OBVIOUS
    <3>2. rest \o more = rest
      BY <2>3, <3>1
    <3> QED
      BY <1>4, <2>2, <2>3, <3>2
  <2>5. u.visited = tree.visited \cup {n.id} /\ u.winners = Winning(u.answered)
    BY <1>1, <1>6, <2>2 DEF SearchGood
  <2>6. SearchGood(u)
    BY <1>1, <1>3, <1>6, <2>2, <2>3, <2>4, <2>5, SearchGoesOn
  <2>7. u.winners \subseteq u.visited /\ ChoiceGood(u)
    BY <2>2, <2>6, NoChoiceGood DEF SearchGood, Winning
  <2>8. TreeGood'
    BY <2>1, <2>2, <2>6, <2>7 DEF TreeGood
  <2>9. WalkGood'
    BY <1>6 DEF CatalogInv, WalkGood
  <2> QED
    BY <1>1, <1>2, <2>8, <2>9, GoingOnKeeps
<1>7. CASE /\ tree' = [tree EXCEPT !.queue = <<>>, !.winners = {}, !.end = "tooLarge"]
           /\ walk' = [walk EXCEPT !.pc = "items"]
  <2>1. walk' \in WalkRow /\ walk'.pc = "items" /\ walk'.now = walk.now /\ walk'.outcome = "RUNNING"
    BY <1>1, <1>7 DEF WalkRow, CatalogSteps
  <2>2. WalkGood'
    BY <1>1, <2>1 DEF WalkGood
  <2>3. <<>> \in Seq(QueueRow)
    OBVIOUS
  <2>4. tree' \in TreeRow /\ tree'.end = "tooLarge" /\ tree'.winners = {}
    BY <1>1, <1>7, <2>3 DEF TreeRow
  <2>5. ChoiceGood(tree')
    BY <2>4, NoChoiceGood
  <2>6. TreeGood'
    BY <2>1, <2>4, <2>5 DEF TreeGood
  <2> QED
    BY <1>1, <1>2, <2>2, <2>6, GoingOnKeeps
<1>8. CASE n.id \notin tree.visited /\ \E reply : tree' = Searched(n, reply) /\ walk' = Spent(reply)
  <2>1. PICK reply : tree' = Searched(n, reply) /\ walk' = Spent(reply)
    BY <1>8
  <2>2. PICK more : more = More(n, reply)
    OBVIOUS
  <2>3. /\ more \in Seq(QueueRow)
        /\ \A k \in DOMAIN more : /\ more[k].depth = n.depth + 1 /\ n.depth < MaxDepth
                                  /\ reply = "answered" /\ more[k].id \in ChildrenOf(n.id)
        /\ reply = "answered" /\ n.depth < MaxDepth =>
             \A c \in ChildrenOf(n.id) : \/ c \in tree.visited \cup {n.id}
                                         \/ \E k \in DOMAIN more : more[k].id = c
    BY <2>2, FreshChildren
  <2>4. PICK queue \in Seq(QueueRow) : queue = rest \o more
    BY <1>4, <2>3, Joined
  <2>5. PICK answered : answered = IF reply = "answered" THEN tree.answered \cup {n.id} ELSE tree.answered
    OBVIOUS
  <2>6. n.id \in Products
    BY DEF QueueRow
  <2>7. answered \in SUBSET Products
    BY <1>1, <2>5, <2>6 DEF TreeRow
  <2>8. PICK winners \in SUBSET Products :
          winners = IF reply = "answered" /\ ProductOf[n.id].winner # NoId
                    THEN tree.winners \cup {n.id} ELSE tree.winners
    BY <1>1, <2>6 DEF TreeRow
  <2>9. tree' = [tree EXCEPT !.visited = @ \cup {n.id}, !.queue = queue, !.answered = answered,
                             !.winners = winners]
    BY <1>4, <2>1, <2>2, <2>4, <2>5, <2>8 DEF Searched, More
  <2>10. PICK u : u = tree'
    OBVIOUS
  <2>11. /\ u \in TreeRow /\ u.queue = queue /\ u.root = tree.root /\ u.end = tree.end
         /\ u.visited = tree.visited \cup {n.id} /\ u.winners = winners /\ u.answered = answered
    BY <1>1, <2>4, <2>6, <2>7, <2>8, <2>9, <2>10 DEF TreeRow
  <2>12. u.winners = Winning(u.answered)
    BY <1>1, <2>5, <2>8, <2>11 DEF SearchGood, Winning
  <2>13. /\ tree.answered \subseteq u.answered /\ u.answered \subseteq tree.answered \cup {n.id}
         /\ reply = "answered" => n.id \in u.answered
         /\ n.id \in u.answered \ tree.answered => reply = "answered"
    BY <2>5, <2>11
  <2>14. u.queue = Tail(tree.queue) \o more
    BY <1>4, <2>4, <2>11
  <2>15. SearchGood(u)
    BY <1>1, <1>3, <1>8, <2>3, <2>11, <2>12, <2>13, <2>14, SearchGoesOn
  <2>16. u.winners \subseteq u.visited /\ ChoiceGood(u)
    BY <2>12, <2>15, NoChoiceGood DEF SearchGood, Winning
  <2>17. TreeGood'
    BY <2>10, <2>11, <2>15, <2>16 DEF TreeGood
  <2>18. WalkGood'
    BY <1>1, <2>1, SpentRow DEF WalkGood
  <2> QED
    BY <1>1, <1>2, <2>17, <2>18, GoingOnKeeps
<1> QED
  BY <1>5, <1>6, <1>7, <1>8

\* The winners of a search that waits for nothing are those it reaches.
LEMMA WinnersAreReached ==
    ASSUME SearchGood(tree), tree \in TreeRow
    PROVE  tree.winners = {p \in Winning(tree.answered) : Reached(tree, p)}
<1>1. /\ tree.winners = Winning(tree.answered) /\ tree.answered \subseteq tree.visited
      /\ ProductOf[tree.root].winner = NoId
      /\ \A p \in tree.visited \ {tree.root} : \E d \in 1 .. MaxDepth : Down(tree.root, tree.answered, p, d)
  BY DEF SearchGood
<1>2. \A p \in Winning(tree.answered) : p \in tree.visited \ {tree.root}
  BY <1>1 DEF Winning
<1> QED
  BY <1>1, <1>2 DEF Reached

LEMMA ChooseChildKeeps == CatalogInv /\ ChooseChild => CatalogInv'
<1> SUFFICES ASSUME CatalogInv, ChooseChild
             PROVE  CatalogInv'
  OBVIOUS
<1>1. /\ walk.pc = "children" /\ walk.now.type = "PRODUCT" /\ walk \in WalkRow
      /\ walk.outcome = "RUNNING" /\ tree \in TreeRow /\ SearchGood(tree) /\ tree.queue = <<>>
      /\ offered' = offered
  BY DEF CatalogInv, WalkGood, TreeGood, ChooseChild
<1>2. PICK W \in SUBSET Products : W = tree.winners
  BY <1>1 DEF TreeRow
<1>3. W = {p \in Winning(tree.answered) : Reached(tree, p)} /\ W \subseteq tree.visited
  BY <1>1, <1>2, WinnersAreReached DEF SearchGood, Winning
<1>4. \A p \in Products : Reached(tree, p) => p \in tree.visited
  BY <1>1, SearchIsComplete DEF Reached
<1>5. CASE W = {}
  <2>1. /\ tree' = [tree EXCEPT !.end = "none"] /\ walk' = [walk EXCEPT !.pc = "items"]
        /\ found' = found /\ hits' = hits
    BY <1>2, <1>5 DEF ChooseChild
  <2>2. walk' \in WalkRow /\ walk'.pc = "items" /\ walk'.now = walk.now /\ walk'.outcome = "RUNNING"
    BY <1>1, <2>1 DEF WalkRow, CatalogSteps
  <2>3. WalkGood'
    BY <1>1, <2>2 DEF WalkGood
  <2>4. PICK u : u = tree'
    OBVIOUS
  <2>5. /\ u \in TreeRow /\ u.root = tree.root /\ u.answered = tree.answered
        /\ u.visited = tree.visited /\ u.winners = {} /\ u.end = "none"
    BY <1>1, <1>2, <1>5, <2>1, <2>4 DEF TreeRow
  <2>6. \A p : Reached(u, p) <=> Reached(tree, p)
    BY <2>5 DEF Reached
  <2>7. ChoiceGood(u)
    BY <1>3, <1>4, <1>5, <2>5, <2>6 DEF ChoiceGood
  <2>8. TreeGood'
    BY <2>2, <2>4, <2>5, <2>7 DEF TreeGood
  <2> QED
    BY <1>1, <2>1, <2>3, <2>8, GoingOnKeeps, FoundStays
<1>6. CASE W # {}
  <2>1. PICK best : best = CHOOSE p \in W : \A q \in W \ {p} : Before(p, q)
    OBVIOUS
  <2>2. IsFiniteSet(W)
    <3>1. IsFiniteSet(tree.visited)
      BY <1>1 DEF SearchGood
    <3> QED
      BY <1>3, <3>1, FS_Subset
  <2>3. best \in W /\ \A q \in W \ {best} : Before(best, q)
    <3>1. \E p \in W : \A q \in W \ {p} : Before(p, q)
      BY <1>6, <2>2, SomeoneIsFirst DEF First
    <3> QED
      BY <2>1, <3>1
  <2>4. /\ tree' = [tree EXCEPT !.choice = best, !.end = "best"]
        /\ Resolve("ITEM", ProductOf[best].winner)
    BY <1>2, <1>6, <2>1 DEF ChooseChild
  <2>5. best \in Products /\ ProductOf[best].winner # NoId
    BY <1>2, <1>3, <2>3 DEF Winning
  <2>6. ProductOf[best].winner \in Items /\ ProductOf[best].winner \notin Products
    BY <2>5, ProductFacts, CatalogAssumption
  <2>7. PICK u : u = tree'
    OBVIOUS
  <2>8. /\ u \in TreeRow /\ u.root = tree.root /\ u.answered = tree.answered
        /\ u.visited = tree.visited /\ u.winners = W /\ u.end = "best" /\ u.choice = best
    BY <1>1, <1>2, <2>4, <2>5, <2>7 DEF TreeRow
  <2>9. \A p : Reached(u, p) <=> Reached(tree, p)
    BY <2>8 DEF Reached
  <2>10. \A q \in W : ~Before(q, best)
    <3>1. ASSUME NEW q \in W, Before(q, best)
          PROVE  FALSE
      <4>1. CASE q = best
        BY <2>5, <3>1, <4>1, BeforeIsOrder
      <4>2. CASE q # best
        BY <2>3, <2>5, <3>1, <4>2, BeforeIsOrder
      <4> QED
        BY <4>1, <4>2
    <3> QED
      BY <3>1
  <2>11. ChoiceGood(u)
    BY <1>3, <1>4, <1>6, <2>3, <2>8, <2>9, <2>10 DEF ChoiceGood
  <2>12. walk'.pc # "children"
    BY <1>1, <2>4 DEF Resolve, WalkRow
  <2>13. TreeGood'
    BY <1>3, <2>7, <2>8, <2>11, <2>12 DEF TreeGood
  <2> QED
    BY <1>1, <2>4, <2>6, <2>13, ResolveKeeps DEF Kinds
<1> QED
  BY <1>5, <1>6

LEMMA ReadProductItemsKeeps == CatalogInv /\ ReadProductItems => CatalogInv'
<1> SUFFICES ASSUME CatalogInv, ReadProductItems
             PROVE  CatalogInv'
  OBVIOUS
<1>1. walk.now \in Highlights /\ walk.pc = "items" /\ walk.now.type = "PRODUCT"
      /\ offered' = offered /\ tree' = tree /\ walk \in WalkRow
  BY DEF CatalogInv, WalkGood, ReadProductItems, WalkRow
<1>2. PICK p \in Products : p = walk.now.id
  BY <1>1, HighlightFacts
<1>3. ItemsOf[p] \subseteq Items
  BY <1>1, <1>2, HighlightFacts
<1>4. PICK reply \in Replies : \E known \in Detailed(Summaries(p)) :
         \/ Resolve("CATALOG_PRODUCT", p)
         \/ Usable(known) # {} /\ Resolve("ITEM", Best(Usable(known)))
         \/ walk' = Skipped(reply) /\ UNCHANGED <<found, hits>>
  BY <1>2, Zenon DEF ReadProductItems
<1>5. PICK known \in Detailed(Summaries(p)) :
         \/ Resolve("CATALOG_PRODUCT", p)
         \/ Usable(known) # {} /\ Resolve("ITEM", Best(Usable(known)))
         \/ walk' = Skipped(reply) /\ UNCHANGED <<found, hits>>
  BY <1>4, Zenon
<1>6. CASE Resolve("CATALOG_PRODUCT", p)
  <2>1. walk'.pc # "children"
    BY <1>1, <1>6 DEF Resolve, WalkRow
  <2>2. TreeGood'
    BY <1>1, <2>1, TreeStays
  <2> QED
    BY <1>1, <1>6, <2>2, ResolveKeeps DEF Kinds
<1>7. CASE Usable(known) # {} /\ Resolve("ITEM", Best(Usable(known)))
  <2>1. Usable(known) \in SUBSET Items
    BY <1>3, <1>5 DEF Usable, Detailed, Summaries
  <2>2. PICK i \in Items : i = Best(Usable(known))
    BY <1>7, <2>1, BestIsOne
  <2>3. Resolve("ITEM", i) /\ i \notin Products
    BY <1>7, <2>2, CatalogAssumption
  <2>4. walk'.pc # "children"
    BY <1>1, <2>3 DEF Resolve, WalkRow
  <2>5. TreeGood'
    BY <1>1, <2>4, TreeStays
  <2> QED
    BY <1>1, <2>3, <2>5, ResolveKeeps DEF Kinds
<1>8. CASE walk' = Skipped(reply) /\ UNCHANGED <<found, hits>>
  BY <1>1, <1>8, SkippedKeeps
<1> QED
  BY <1>5, <1>6, <1>7, <1>8

LEMMA FetchItemsKeeps == CatalogInv /\ FetchItems => CatalogInv'
<1> SUFFICES ASSUME CatalogInv, FetchItems
             PROVE  CatalogInv'
  OBVIOUS
<1>1. /\ walk.pc = "category" /\ walk \in WalkRow /\ walk.outcome = "RUNNING"
      /\ tree' = tree /\ found' = found /\ hits' = hits
  BY DEF CatalogInv, WalkGood, FetchItems
<1> DEFINE items == {found[n].id : n \in DOMAIN found \ Pages}
<1>2. FoundInv /\ FoundInv'
  BY <1>1, FoundStays DEF CatalogInv
<1>3. CASE /\ walk' = [walk EXCEPT !.pc = "done", !.spare = @ - 1, !.outcome = "FAILED"]
           /\ offered' = offered
  <2>1. walk' \in WalkRow /\ walk'.pc = "done" /\ walk'.outcome = "FAILED"
    <3>1. PICK spare \in Int : spare = walk.spare - 1
      BY <1>1 DEF WalkRow
    <3>2. walk' = [walk EXCEPT !.pc = "done", !.spare = spare, !.outcome = "FAILED"]
      BY <1>3, <3>1
    <3> QED
      BY <1>1, <3>2 DEF WalkRow, CatalogSteps
  <2>2. WalkGood'
    BY <2>1 DEF WalkGood
  <2>3. TreeGood'
    BY <1>1, <2>1, TreeStays
  <2> QED
    BY <1>1, <1>2, <1>3, <2>2, <2>3, GoingOnKeeps
<1>4. CASE \E known \in SUBSET items :
             \E suited \in SUBSET (Pages \cup {Source(i) : i \in known}), outcome \in RunOutcomes :
               /\ offered' = {Offer(n) : n \in suited}
               /\ walk' = [walk EXCEPT !.pc = "done", !.outcome = outcome]
  <2>1. PICK known \in SUBSET items :
               \E suited \in SUBSET (Pages \cup {Source(i) : i \in known}), outcome \in RunOutcomes :
                 /\ offered' = {Offer(n) : n \in suited}
                 /\ walk' = [walk EXCEPT !.pc = "done", !.outcome = outcome]
    BY <1>4
  <2>2. PICK suited \in SUBSET (Pages \cup {Source(i) : i \in known}) : \E outcome \in RunOutcomes :
          /\ offered' = {Offer(n) : n \in suited}
          /\ walk' = [walk EXCEPT !.pc = "done", !.outcome = outcome]
    BY <2>1, Zenon
  <2>3. PICK outcome \in RunOutcomes : /\ offered' = {Offer(n) : n \in suited}
                                       /\ walk' = [walk EXCEPT !.pc = "done", !.outcome = outcome]
    BY <2>2, Zenon
  <2>4. Pages \cup {Source(i) : i \in known} \subseteq Offerable
    BY <2>1 DEF Offerable
  <2>5. suited \in SUBSET Offerable
    BY <2>2, <2>4
  <2>6. OfferedWithBestPlace'
    BY <1>1, <1>2, <2>3, <2>5, OffersAreBest
  <2>7. outcome \in {"SUCCEEDED", "PARTIAL"}
    BY <2>3 DEF RunOutcomes
  <2>8. walk' \in WalkRow /\ walk'.pc = "done" /\ walk'.outcome = outcome
    BY <1>1, <2>3, <2>7 DEF WalkRow, CatalogSteps
  <2>9. WalkGood'
    BY <2>7, <2>8 DEF WalkGood
  <2>10. TreeGood'
    BY <1>1, <2>8, TreeStays
  <2> QED
    BY <1>2, <2>6, <2>8, <2>9, <2>10 DEF CatalogInv
<1> QED
  BY <1>3, <1>4 DEF FetchItems

LEMMA CatalogInvStep == CatalogInv /\ [CatalogNext]_catalogVars => CatalogInv'
<1> SUFFICES ASSUME CatalogInv, [CatalogNext]_catalogVars
             PROVE  CatalogInv'
  OBVIOUS
<1>1. CASE UNCHANGED catalogVars
  <2>1. walk' = walk /\ tree' = tree /\ found' = found /\ offered' = offered /\ hits' = hits
    BY <1>1 DEF catalogVars
  <2>2. WalkGood' /\ TreeGood' /\ FoundInv'
    BY <2>1, FoundStays DEF CatalogInv, WalkGood, TreeGood
  <2>3. OfferedWithBestPlace'
    BY <2>1 DEF CatalogInv, OfferedWithBestPlace
  <2> QED
    BY <2>1, <2>2, <2>3 DEF CatalogInv
<1>2. CASE CatalogNext
  BY <1>2, ReadCategoryKeeps, ReadHighlightsKeeps, TakeHighlightKeeps, ResolveItemKeeps,
     ResolveUserProductKeeps, LoadProductKeeps, VisitChildKeeps, ChooseChildKeeps,
     ReadProductItemsKeeps, FetchItemsKeeps DEF CatalogNext
<1> QED
  BY <1>1, <1>2

\* The paths of the property are the ways down of the proof.
LEMMA ReachIsDown ==
    ASSUME tree \in TreeRow, NEW p
    PROVE  p \in Reach <=> p \in Products /\ Reached(tree, p)
<1>1. ASSUME NEW d \in 1 .. MaxDepth, NEW path \in [1 .. d -> Products]
      PROVE  /\ DOMAIN path = 1 .. d /\ Len(path) = d /\ d \in 1 .. d
             /\ path \in Paths <=> StepsDown(tree.root, tree.answered, path, d)
  <2>1. d \in Nat /\ d >= 1 /\ DOMAIN path = 1 .. d
    BY MaxDepthType
  <2>2. Len(path) = d /\ d \in 1 .. d
    <3>1. path \in Seq(Products)
      BY <2>1
    <3> QED
      BY <2>1, <3>1
  <2>3. path \in UNION {[1 .. n -> Products] : n \in 1 .. MaxDepth}
    OBVIOUS
  <2> DEFINE above(i) == IF i = 1 THEN tree.root ELSE path[i - 1]
  <2>4. \A q, x : x \in ChildrenOf(q) <=> \E k \in DOMAIN ProductOf[q].children : x = ProductOf[q].children[k]
    BY DEF ChildrenOf
  <2>5. path \in Paths <=>
          \A i \in DOMAIN path :
            /\ above(i) \in tree.answered
            /\ \E k \in DOMAIN ProductOf[above(i)].children : path[i] = ProductOf[above(i)].children[k]
    BY <2>3 DEF Paths
  <2>6. StepsDown(tree.root, tree.answered, path, d) <=>
          \A i \in 1 .. d : above(i) \in tree.answered /\ path[i] \in ChildrenOf(above(i))
    BY DEF StepsDown
  <2> HIDE DEF above
  <2>7. path \in Paths <=> StepsDown(tree.root, tree.answered, path, d)
    BY <2>1, <2>4, <2>5, <2>6
  <2> QED
    BY <2>1, <2>2, <2>7
<1>2. ASSUME p \in Reach
      PROVE  p \in Products /\ Reached(tree, p)
  <2>1. PICK path \in Paths : p = path[Len(path)]
    BY <1>2 DEF Reach
  <2>2. PICK d \in 1 .. MaxDepth : path \in [1 .. d -> Products]
    BY <2>1 DEF Paths
  <2>3. Len(path) = d /\ d \in 1 .. d /\ StepsDown(tree.root, tree.answered, path, d)
    BY <1>1, <2>1, <2>2
  <2> QED
    BY <2>1, <2>2, <2>3 DEF Reached, Down
<1>3. ASSUME p \in Products, Reached(tree, p)
      PROVE  p \in Reach
  <2>1. PICK d \in 1 .. MaxDepth : Down(tree.root, tree.answered, p, d)
    BY <1>3 DEF Reached
  <2>2. PICK path \in [1 .. d -> Products] : path[d] = p /\ StepsDown(tree.root, tree.answered, path, d)
    BY <2>1 DEF Down
  <2> QED
    BY <1>1, <2>1, <2>2 DEF Reach
<1> QED
  BY <1>2, <1>3

LEMMA ChoiceIsBest == CatalogInv => ChildChoiceIsBest
<1> SUFFICES ASSUME CatalogInv, tree.end \in {"best", "none"}
             PROVE  LET winners == {p \in Reach \cap tree.answered : ProductOf[p].winner # NoId}
                    IN  /\ Reach \subseteq tree.visited
                        /\ tree.end = "none" <=> winners = {}
                        /\ tree.end = "best" => /\ tree.choice \in winners
                                                /\ \A p \in winners : ~Before(p, tree.choice)
  BY DEF ChildChoiceIsBest
<1>1. tree \in TreeRow /\ ChoiceGood(tree) /\ tree.answered \in SUBSET Products
  BY DEF CatalogInv, TreeGood, TreeRow
<1>2. \A p : p \in Reach <=> p \in Products /\ Reached(tree, p)
  BY <1>1, ReachIsDown
<1>3. {p \in Reach \cap tree.answered : ProductOf[p].winner # NoId}
        = {p \in Winning(tree.answered) : Reached(tree, p)}
  BY <1>1, <1>2 DEF Winning
<1> QED
  BY <1>1, <1>2, <1>3 DEF ChoiceGood

LEMMA CatalogInvType == CatalogInv => CatalogTypeOK
<1> SUFFICES ASSUME CatalogInv
             PROVE  CatalogTypeOK
  OBVIOUS
<1>1. walk \in WalkRow /\ (walk.pc = "done" <=> walk.outcome # "RUNNING")
      /\ tree \in TreeRow /\ tree.winners \subseteq tree.visited
  BY DEF CatalogInv, WalkGood, TreeGood
<1>2. \A n \in DOMAIN found : found[n].kind \in Kinds
  <2>1. found \in Seq(FoundRow)
    BY DEF CatalogInv, FoundInv
  <2>2. \A n \in DOMAIN found : found[n] \in FoundRow
    BY <2>1
  <2> QED
    BY <2>2 DEF FoundRow
<1>3. \A h \in hits : \E n \in DOMAIN found : found[n].kind = h.kind /\ found[n].id = h.id
  BY DEF CatalogInv, FoundInv, AllAccounted, Same
<1> QED
  BY <1>1, <1>2, <1>3 DEF CatalogTypeOK, WalkRow, TreeRow, CatalogSteps, Kinds

-----------------------------------------------------------------------------
\* The kinds and places of a discovery's data: every highlight resolved has its
\* candidate, and a run that is over has an outcome (marketplace-discovery).
THEOREM CatalogTypeCorrect == CatalogSpec => []CatalogTypeOK
<1> QED
  BY CatalogInitInv, CatalogInvStep, CatalogInvType, PTL DEF CatalogSpec

\* The choice among a product's children is the best of all that the search may
\* reach, however the tree branches and joins and whichever requests fail; and
\* what is offered has the best place and all the categories of the highlights
\* that led to it, once (resolveProductChildren, upsertCandidate, run).
THEOREM DiscoveryCorrect == CatalogSpec => []DiscoveryFindsTheBest
<1>1. CatalogInv => DiscoveryFindsTheBest
  BY ChoiceIsBest DEF DiscoveryFindsTheBest, CatalogInv
<1> QED
  BY <1>1, CatalogInitInv, CatalogInvStep, PTL DEF CatalogSpec

-----------------------------------------------------------------------------
\* Part 6 (CategoryBalance): the data of a balanced choice.

LEMMA OrderedIsAll ==
    ASSUME NEW S, IsFiniteSet(S), NEW UpTo \in [S -> SUBSET S],
           \A x \in S : x \in UpTo[x],
           \A x, y \in S : x # y => \/ UpTo[x] \subseteq UpTo[y] /\ y \notin UpTo[x]
                                    \/ UpTo[y] \subseteq UpTo[x] /\ x \notin UpTo[y]
    PROVE  /\ Ordered(S, UpTo) \in [1 .. Cardinality(S) -> S]
           /\ \A i, j \in 1 .. Cardinality(S) : Ordered(S, UpTo)[i] = Ordered(S, UpTo)[j] => i = j
<1> DEFINE At(k) == CHOOSE x \in S : Cardinality(UpTo[x]) = k
<1>1. \A k \in 1 .. Cardinality(S) : \E x \in S : Cardinality(UpTo[x]) = k
  BY Ranks
<1>2. \A k \in 1 .. Cardinality(S) : At(k) \in S /\ Cardinality(UpTo[At(k)]) = k
  BY <1>1
<1>3. Ordered(S, UpTo) = [k \in 1 .. Cardinality(S) |-> At(k)]
  BY DEF Ordered
<1> HIDE DEF At
<1> QED
  BY <1>2, <1>3

LEMMA BalanceFacts ==
    ASSUME NEW b \in BalanceInputs
    PROVE  /\ b.total \in Nat /\ b.total >= 1 /\ b.backfill \in BOOLEAN
           /\ {b.minimum, b.maximum} \subseteq Int \cup {NoSetting}
           /\ b.settings \in Seq({b.settings[i] : i \in DOMAIN b.settings})
           /\ \A i \in DOMAIN b.settings :
                /\ b.settings[i].priority \in Int
                /\ {b.settings[i].minimum, b.settings[i].maximum} \subseteq Int \cup {NoSetting}
           /\ IsFiniteSet(DOMAIN b.candidates)
           /\ \A o \in DOMAIN b.candidates :
                /\ b.candidates[o].rank \in Int
                /\ \A q \in DOMAIN b.candidates : b.candidates[o].rank = b.candidates[q].rank => o = q
<1>1. /\ b.total \in Nat \ {0} /\ b.backfill \in BOOLEAN
      /\ {b.minimum, b.maximum} \subseteq Int \cup {NoSetting}
      /\ b.settings \in Seq({b.settings[i] : i \in DOMAIN b.settings})
      /\ \A i \in DOMAIN b.settings :
           /\ b.settings[i].enabled \in BOOLEAN /\ b.settings[i].priority \in Int
           /\ {b.settings[i].minimum, b.settings[i].maximum} \subseteq Int \cup {NoSetting}
           /\ \A j \in DOMAIN b.settings : b.settings[i].category = b.settings[j].category => i = j
      /\ IsFiniteSet(DOMAIN b.candidates)
      /\ \A o \in DOMAIN b.candidates :
           /\ b.candidates[o].rank \in Int /\ b.candidates[o].eligible \in BOOLEAN
           /\ \A q \in DOMAIN b.candidates : b.candidates[o].rank = b.candidates[q].rank => o = q
  BY BalanceAssumption, Zenon
<1> QED
  BY <1>1

LEMMA GivenType ==
    ASSUME NEW value \in Int \cup {NoSetting}, NEW low \in Nat, NEW high \in Nat, NEW fallback \in Nat
    PROVE  /\ Given(value, fallback, low, high) \in Nat
           /\ Given(value, fallback, low, high) >= low \/ Given(value, fallback, low, high) = fallback
BY DEF Given

LEMMA LesserOf ==
    ASSUME NEW a \in Nat, NEW b \in Nat
    PROVE  /\ Min({a, b}) \in Nat /\ Min({a, b}) <= a /\ Min({a, b}) <= b
           /\ Min({a, b}) = a \/ Min({a, b}) = b
<1>1. \E x \in {a, b} : \A y \in {a, b} : x <= y
  <2>1. CASE a <= b
    BY <2>1
  <2>2. CASE b <= a
    BY <2>2
  <2> QED
    BY <2>1, <2>2
<1>2. Min({a, b}) \in {a, b} /\ \A y \in {a, b} : Min({a, b}) <= y
  BY <1>1 DEF Min
<1> QED
  BY <1>2

LEMMA GreaterOf ==
    ASSUME NEW a \in Nat, NEW b \in Nat
    PROVE  Max({a, b}) \in Nat
<1>1. \E x \in {a, b} : \A y \in {a, b} : x >= y
  <2>1. CASE a <= b
    BY <2>1
  <2>2. CASE b <= a
    BY <2>2
  <2> QED
    BY <2>1, <2>2
<1>2. Max({a, b}) \in {a, b}
  BY <1>1 DEF Max
<1> QED
  BY <1>2

LEMMA ConfigType ==
    ASSUME input \in BalanceInputs
    PROVE  ConfigMinimum \in Nat /\ ConfigMaximum \in Nat
<1>1. input.minimum \in Int \cup {NoSetting} /\ input.maximum \in Int \cup {NoSetting}
  BY BalanceFacts
<1>2. ConfigMinimum \in Nat
  BY <1>1, GivenType DEF ConfigMinimum
<1>3. Given(input.maximum, 2, 1, 10) \in Nat
  BY <1>1, GivenType
<1>4. Max({1, ConfigMinimum}) \in Nat
  BY <1>2, GreaterOf
<1> QED
  BY <1>2, <1>3, <1>4 DEF ConfigMaximum

Categories == 1 .. Cardinality(Opened)

LEMMA TurnsType ==
    ASSUME input \in BalanceInputs
    PROVE  /\ Cardinality(Opened) \in Nat /\ Len(input.settings) \in Nat
           /\ Cardinality(Opened) <= Len(input.settings)
           /\ DOMAIN Turns = Categories /\ Len(Turns) = Cardinality(Opened)
           /\ \A n \in Categories : /\ Turns[n].minimum \in Int \cup {NoSetting}
                                    /\ Turns[n].maximum \in Int \cup {NoSetting}
<1>1. PICK m \in Nat : m = Len(input.settings) /\ DOMAIN input.settings = 1 .. m
  <2>1. PICK T : input.settings \in Seq(T)
    BY BalanceFacts
  <2> QED
    BY <2>1
<1>2. IsFiniteSet(1 .. m) /\ Cardinality(1 .. m) = m
  BY FS_Interval
<1>3. Opened \in SUBSET (1 .. m)
  BY <1>1 DEF Opened
<1>4. IsFiniteSet(Opened) /\ Cardinality(Opened) \in Nat /\ Cardinality(Opened) <= m
  BY <1>2, <1>3, FS_Subset, FS_CardinalityType
<1> DEFINE UpTo == [i \in Opened |-> NotAfter(i)]
<1>5. \A i \in Opened : input.settings[i].priority \in Int /\ i \in Nat
  <2>1. \A i \in DOMAIN input.settings : input.settings[i].priority \in Int
    BY BalanceFacts
  <2> QED
    BY <1>1, <1>3, <2>1
<1>6. UpTo \in [Opened -> SUBSET Opened]
  BY DEF NotAfter
<1>7. \A i \in Opened : i \in UpTo[i]
  BY <1>5 DEF NotAfter
<1>8. ASSUME NEW i \in Opened, NEW j \in Opened, i # j
      PROVE  \/ NotAfter(i) \subseteq NotAfter(j) /\ j \notin NotAfter(i)
             \/ NotAfter(j) \subseteq NotAfter(i) /\ i \notin NotAfter(j)
  <2>1. ASSUME NEW x \in Opened, NEW y \in Opened, x \in NotAfter(y), x # y
        PROVE  NotAfter(x) \subseteq NotAfter(y) /\ y \notin NotAfter(x)
    BY <1>5, <2>1 DEF NotAfter
  <2>2. i \in NotAfter(j) \/ j \in NotAfter(i)
    BY <1>5, <1>8 DEF NotAfter
  <2> QED
    BY <1>8, <2>1, <2>2
<1>9. Ordered(Opened, UpTo) \in [1 .. Cardinality(Opened) -> Opened]
  <2>1. \A i, j \in Opened : i # j => \/ UpTo[i] \subseteq UpTo[j] /\ j \notin UpTo[i]
                                      \/ UpTo[j] \subseteq UpTo[i] /\ i \notin UpTo[j]
    BY <1>8
  <2> HIDE DEF UpTo
  <2> QED
    BY <1>4, <1>6, <1>7, <2>1, OrderedIsAll
<1>10. Turns = [n \in 1 .. Cardinality(Opened) |-> input.settings[Ordered(Opened, UpTo)[n]]]
  BY DEF Turns
<1> HIDE DEF UpTo
<1>11. DOMAIN Turns = Categories /\ Len(Turns) = Cardinality(Opened)
  <2>1. \A n \in 1 .. Cardinality(Opened) : input.settings[Ordered(Opened, UpTo)[n]]
                                             \in {input.settings[i] : i \in DOMAIN input.settings}
    BY <1>1, <1>3, <1>9
  <2>2. Turns \in Seq({input.settings[i] : i \in DOMAIN input.settings}) /\ DOMAIN Turns = 1 .. Cardinality(Opened)
    BY <1>4, <1>10, <2>1
  <2> QED
    BY <1>4, <2>2 DEF Categories
<1>12. ASSUME NEW n \in Categories
       PROVE  /\ Turns[n].minimum \in Int \cup {NoSetting}
              /\ Turns[n].maximum \in Int \cup {NoSetting}
  <2>1. PICK i \in 1 .. m : Turns[n] = input.settings[i]
    BY <1>3, <1>9, <1>10 DEF Categories
  <2> QED
    BY <1>1, <2>1, BalanceFacts
<1> QED
  BY <1>1, <1>4, <1>11, <1>12

LEMMA LimitsType ==
    ASSUME input \in BalanceInputs, NEW n \in Categories
    PROVE  /\ Minimum(Turns[n]) \in Nat /\ Maximum(Turns[n]) \in Nat
           /\ Minimum(Turns[n]) <= Maximum(Turns[n])
<1>1. Turns[n].minimum \in Int \cup {NoSetting} /\ Turns[n].maximum \in Int \cup {NoSetting}
  BY TurnsType
<1>2. Maximum(Turns[n]) \in Nat
  BY <1>1, ConfigType, GivenType DEF Maximum
<1>3. Given(Turns[n].minimum, ConfigMinimum, 0, ConfigMaximum) \in Nat
  BY <1>1, ConfigType, GivenType
<1> QED
  BY <1>2, <1>3, LesserOf DEF Minimum

LEMMA PoolType ==
    ASSUME input \in BalanceInputs, NEW n \in Categories
    PROVE  /\ Len(Pool(n)) \in Nat /\ Pool(n) \in [1 .. Len(Pool(n)) -> MembersOf(n)]
           /\ \A i, j \in 1 .. Len(Pool(n)) : Pool(n)[i] = Pool(n)[j] => i = j
<1>1. IsFiniteSet(MembersOf(n)) /\ Cardinality(MembersOf(n)) \in Nat
  <2>1. MembersOf(n) \in SUBSET DOMAIN input.candidates
    BY DEF MembersOf
  <2> QED
    BY <2>1, BalanceFacts, FS_Subset, FS_CardinalityType
<1> DEFINE UpTo == [o \in MembersOf(n) |-> NoWorse(n, o)]
<1>2. \A o \in MembersOf(n) : /\ input.candidates[o].rank \in Int
                              /\ \A q \in MembersOf(n) :
                                   input.candidates[o].rank = input.candidates[q].rank => o = q
  BY BalanceFacts DEF MembersOf
<1>3. UpTo \in [MembersOf(n) -> SUBSET MembersOf(n)]
  BY DEF NoWorse
<1>4. \A o \in MembersOf(n) : o \in UpTo[o]
  BY <1>2 DEF NoWorse
<1>5. ASSUME NEW x \in MembersOf(n), NEW y \in MembersOf(n), x # y
      PROVE  \/ NoWorse(n, x) \subseteq NoWorse(n, y) /\ y \notin NoWorse(n, x)
             \/ NoWorse(n, y) \subseteq NoWorse(n, x) /\ x \notin NoWorse(n, y)
  <2>1. input.candidates[x].rank < input.candidates[y].rank
          \/ input.candidates[y].rank < input.candidates[x].rank
    BY <1>2, <1>5
  <2>2. ASSUME NEW v \in MembersOf(n), NEW w \in MembersOf(n),
               input.candidates[v].rank < input.candidates[w].rank
        PROVE  NoWorse(n, v) \subseteq NoWorse(n, w) /\ w \notin NoWorse(n, v)
    BY <1>2, <2>2 DEF NoWorse
  <2> QED
    BY <2>1, <2>2
<1>6. /\ Ordered(MembersOf(n), UpTo) \in [1 .. Cardinality(MembersOf(n)) -> MembersOf(n)]
      /\ \A i, j \in 1 .. Cardinality(MembersOf(n)) :
           Ordered(MembersOf(n), UpTo)[i] = Ordered(MembersOf(n), UpTo)[j] => i = j
  <2>1. \A x, y \in MembersOf(n) : x # y => \/ UpTo[x] \subseteq UpTo[y] /\ y \notin UpTo[x]
                                            \/ UpTo[y] \subseteq UpTo[x] /\ x \notin UpTo[y]
    BY <1>5
  <2> HIDE DEF UpTo
  <2> QED
    BY <1>1, <1>3, <1>4, <2>1, OrderedIsAll
<1>7. Pool(n) = Ordered(MembersOf(n), UpTo)
  BY DEF Pool
<1> HIDE DEF UpTo
<1>8. Len(Pool(n)) = Cardinality(MembersOf(n))
  <2>1. PICK m \in Nat : m = Cardinality(MembersOf(n))
    BY <1>1
  <2>2. Pool(n) \in [1 .. m -> MembersOf(n)]
    BY <1>6, <1>7, <2>1
  <2>3. Len(Pool(n)) = m
    BY <2>2
  <2> QED
    BY <2>1, <2>3
<1> QED
  BY <1>1, <1>6, <1>7, <1>8

-----------------------------------------------------------------------------
\* The numbers of a choice among T categories: c[n] offers taken, b[n] that the
\* minimum and u[n] that the maximum lets the category n give at most.

Goal(pc, b, u, n) == IF pc = "minimum" THEN b[n] ELSE u[n]
Took(turn, n) == IF n < turn THEN 1 ELSE 0
Lead(pc, c, b, n) == IF pc = "minimum" THEN c[n] ELSE c[n] - b[n]

\* A category that could give more is behind by a turn at most.
Even(pc, turn, full, c, b, u, n, k) ==
  c[k] < Goal(pc, b, u, k) /\ (pc = "maximum" => c[k] >= b[k]) =>
    IF full THEN Lead(pc, c, b, n) <= Lead(pc, c, b, k) + 1
    ELSE Lead(pc, c, b, n) + Took(turn, k) <= Lead(pc, c, b, k) + Took(turn, n)

Amounts(T, c, b, u) ==
  /\ c \in [1 .. T -> Nat] /\ b \in [1 .. T -> Nat] /\ u \in [1 .. T -> Nat]
  /\ \A n \in 1 .. T : b[n] <= u[n]

Fair(T, pc, turn, progress, full, c, b, u) ==
  /\ Amounts(T, c, b, u)
  /\ \A n \in 1 .. T : c[n] <= Goal(pc, b, u, n)
  /\ ~progress => \A n \in 1 .. T : n < turn => c[n] >= Goal(pc, b, u, n)
  /\ \A n, k \in 1 .. T : Even(pc, turn, full, c, b, u, n, k)
  /\ pc = "maximum" =>
       /\ (\A n \in 1 .. T : c[n] >= b[n]) \/ (full /\ \A n \in 1 .. T : c[n] <= b[n])
       /\ \A n, k \in 1 .. T : c[k] < b[k] => c[n] <= c[k] + 1

Result(T, fill, full, c, b, u) ==
  /\ \A n \in 1 .. T :
       /\ c[n] <= IF fill THEN u[n] ELSE b[n]
       /\ ~full => c[n] = IF fill THEN u[n] ELSE b[n]
  /\ \A n, k \in 1 .. T :
       /\ c[n] > b[n] => c[k] >= b[k]
       /\ c[k] < b[k] => c[n] <= c[k] + 1
       /\ c[n] > b[n] /\ c[k] < u[k] => c[n] + b[k] <= c[k] + b[n] + 1

Phases == {"minimum", "maximum"}

LEMMA LeadType ==
    ASSUME NEW pc \in Phases, NEW c, NEW b, NEW n, c[n] \in Nat, b[n] \in Nat
    PROVE  Lead(pc, c, b, n) \in Int
<1>1. c[n] \in Int /\ c[n] - b[n] \in Int
  OBVIOUS
<1> QED
  BY <1>1 DEF Lead

LEMMA TakingIsFair ==
    ASSUME NEW T \in Nat, NEW pc \in Phases, NEW t \in 1 .. T, NEW progress, NEW c, NEW b, NEW u,
           Fair(T, pc, t, progress, FALSE, c, b, u), c[t] < Goal(pc, b, u, t),
           NEW d \in [1 .. T -> Nat], d[t] = c[t] + 1,
           \A n \in 1 .. T : n # t => d[n] = c[n], NEW full \in BOOLEAN
    PROVE  Fair(T, pc, t + 1, TRUE, full, d, b, u)
<1>1. /\ c \in [1 .. T -> Nat] /\ b \in [1 .. T -> Nat] /\ u \in [1 .. T -> Nat]
      /\ \A n \in 1 .. T : b[n] <= u[n] /\ c[n] <= Goal(pc, b, u, n) /\ Goal(pc, b, u, n) \in Nat
  BY DEF Fair, Amounts, Goal
<1>2. /\ d \in [1 .. T -> Nat] /\ d[t] = c[t] + 1
      /\ \A n \in 1 .. T : n # t => d[n] = c[n]
  OBVIOUS
<1>3. Amounts(T, d, b, u) /\ \A n \in 1 .. T : d[n] <= Goal(pc, b, u, n)
  <2>1. Amounts(T, d, b, u)
    BY <1>1, <1>2 DEF Amounts
  <2>2. ASSUME NEW n \in 1 .. T
        PROVE  d[n] <= Goal(pc, b, u, n)
    <3>1. c[n] \in Nat /\ Goal(pc, b, u, n) \in Nat /\ c[n] <= Goal(pc, b, u, n)
      BY <1>1
    <3>2. n # t => d[n] = c[n]
      BY <1>2
    <3> QED
      BY <1>2, <3>1, <3>2
  <2> QED
    BY <2>1, <2>2
<1>4. pc = "maximum" => \A n \in 1 .. T : c[n] >= b[n] /\ d[n] >= b[n]
  <2> SUFFICES ASSUME pc = "maximum", NEW n \in 1 .. T
               PROVE  c[n] >= b[n] /\ d[n] >= b[n]
    OBVIOUS
  <2>1. c[n] >= b[n]
    BY DEF Fair
  <2>2. c[n] \in Nat /\ b[n] \in Nat
    BY <1>1
  <2>3. d[n] = c[n] \/ d[n] = c[n] + 1
    BY <1>2
  <2> QED
    BY <2>1, <2>2, <2>3
<1>5. ASSUME NEW n \in 1 .. T, NEW k \in 1 .. T
      PROVE  Even(pc, t + 1, full, d, b, u, n, k)
  <2>1. Even(pc, t, FALSE, c, b, u, n, k)
    BY DEF Fair
  <2>2. /\ c[n] \in Nat /\ c[k] \in Nat /\ c[t] \in Nat /\ b[n] \in Nat /\ b[k] \in Nat /\ b[t] \in Nat
        /\ Goal(pc, b, u, k) \in Nat
    BY <1>1
  <2>3. CASE n = k
    <3>1. d[n] \in Nat /\ b[n] \in Nat
      BY <1>1, <1>2
    <3>2. Lead(pc, d, b, n) \in Int
      BY <3>1, LeadType
    <3>3. Took(t + 1, n) \in {0, 1}
      BY DEF Took
    <3> QED
      BY <2>3, <3>2, <3>3 DEF Even
  <2>4. CASE n = t /\ k # t
    <3>1. d[n] = c[n] + 1 /\ d[k] = c[k]
      BY <1>2, <2>4
    <3>2. Took(t, n) = 0 /\ Took(t + 1, n) = 1 /\ Took(t + 1, k) = Took(t, k) /\ Took(t, k) \in {0, 1}
      BY <2>4 DEF Took
    <3>3. Lead(pc, c, b, n) \in Int /\ Lead(pc, c, b, k) \in Int
      BY <2>2, LeadType
    <3>4. Lead(pc, d, b, n) = Lead(pc, c, b, n) + 1 /\ Lead(pc, d, b, k) = Lead(pc, c, b, k)
      BY <2>2, <3>1 DEF Lead
    <3> QED
      BY <2>1, <3>1, <3>2, <3>3, <3>4 DEF Even
  <2>5. CASE n # t /\ k = t
    <3>1. d[n] = c[n] /\ d[k] = c[k] + 1
      BY <1>2, <2>5
    <3>2. Took(t, k) = 0 /\ Took(t + 1, k) = 1 /\ Took(t + 1, n) = Took(t, n) /\ Took(t, n) \in {0, 1}
      BY <2>5 DEF Took
    <3>3. Lead(pc, c, b, n) \in Int /\ Lead(pc, c, b, k) \in Int
      BY <2>2, LeadType
    <3>4. Lead(pc, d, b, k) = Lead(pc, c, b, k) + 1 /\ Lead(pc, d, b, n) = Lead(pc, c, b, n)
      <4>1. d[k] - b[k] = (c[k] - b[k]) + 1
        <5>1. PICK x \in Nat : x = c[k]
          BY <2>2
        <5>2. PICK y \in Nat : y = b[k]
          BY <2>2
        <5>3. (x + 1) - y = (x - y) + 1
          OBVIOUS
        <5> QED
          BY <3>1, <5>1, <5>2, <5>3
      <4> QED
        BY <3>1, <4>1 DEF Lead
    <3>5. c[k] < Goal(pc, b, u, k) /\ (pc = "maximum" => c[k] >= b[k])
      BY <1>4, <2>5
    <3> QED
      BY <2>1, <3>2, <3>3, <3>4, <3>5 DEF Even
  <2>6. CASE n # t /\ k # t
    <3>1. d[n] = c[n] /\ d[k] = c[k]
      BY <1>2, <2>6
    <3>2. /\ Took(t + 1, k) = Took(t, k) /\ Took(t, k) \in {0, 1}
          /\ Took(t + 1, n) = Took(t, n) /\ Took(t, n) \in {0, 1}
      BY <2>6 DEF Took
    <3>3. Lead(pc, c, b, n) \in Int /\ Lead(pc, c, b, k) \in Int
      BY <2>2, LeadType
    <3>4. Lead(pc, d, b, k) = Lead(pc, c, b, k) /\ Lead(pc, d, b, n) = Lead(pc, c, b, n)
      BY <3>1 DEF Lead
    <3> QED
      BY <2>1, <3>1, <3>2, <3>3, <3>4 DEF Even
  <2> QED
    BY <2>3, <2>4, <2>5, <2>6
<1>6. pc = "maximum" =>
        /\ (\A n \in 1 .. T : d[n] >= b[n]) \/ (full /\ \A n \in 1 .. T : d[n] <= b[n])
        /\ \A n, k \in 1 .. T : d[k] < b[k] => d[n] <= d[k] + 1
  <2>1. \A n \in 1 .. T : d[n] \in Nat /\ b[n] \in Nat
    BY <1>1, <1>2
  <2>2. ASSUME pc = "maximum"
        PROVE  (\A n \in 1 .. T : d[n] >= b[n]) /\ \A k \in 1 .. T : ~(d[k] < b[k])
    BY <1>4, <2>1, <2>2
  <2> QED
    BY <2>2
<1> QED
  BY <1>3, <1>5, <1>6 DEF Fair

LEMMA PassingIsFair ==
    ASSUME NEW T \in Nat, NEW pc \in Phases, NEW t \in 1 .. T, NEW progress, NEW c, NEW b, NEW u,
           Fair(T, pc, t, progress, FALSE, c, b, u), c[t] >= Goal(pc, b, u, t)
    PROVE  Fair(T, pc, t + 1, progress, FALSE, c, b, u)
<1>1. /\ c \in [1 .. T -> Nat] /\ b \in [1 .. T -> Nat] /\ u \in [1 .. T -> Nat]
      /\ \A n \in 1 .. T : Goal(pc, b, u, n) \in Nat
  BY DEF Fair, Amounts, Goal
<1>2. ASSUME ~progress, NEW n \in 1 .. T, n < t + 1
      PROVE  c[n] >= Goal(pc, b, u, n)
  BY <1>2 DEF Fair
<1>3. ASSUME NEW n \in 1 .. T, NEW k \in 1 .. T
      PROVE  Even(pc, t + 1, FALSE, c, b, u, n, k)
  <2>1. Even(pc, t, FALSE, c, b, u, n, k)
    BY DEF Fair
  <2>2. CASE k = t
    BY <1>1, <2>2 DEF Even
  <2>3. CASE k # t
    <3>1. Took(t + 1, k) = Took(t, k) /\ Took(t, k) \in {0, 1}
          /\ Took(t, n) <= Took(t + 1, n) /\ Took(t, n) \in {0, 1} /\ Took(t + 1, n) \in {0, 1}
      BY <2>3 DEF Took
    <3>2. Lead(pc, c, b, n) \in Int /\ Lead(pc, c, b, k) \in Int
      <4>1. c[n] \in Nat /\ c[k] \in Nat /\ b[n] \in Nat /\ b[k] \in Nat
        BY <1>1
      <4> QED
        BY <4>1, LeadType
    <3> QED
      BY <2>1, <3>1, <3>2 DEF Even
  <2> QED
    BY <2>2, <2>3
<1> QED
  BY <1>2, <1>3 DEF Fair

LEMMA AnotherRoundIsFair ==
    ASSUME NEW T \in Nat, NEW pc \in Phases, NEW c, NEW b, NEW u,
           Fair(T, pc, T + 1, TRUE, FALSE, c, b, u)
    PROVE  Fair(T, pc, 1, FALSE, FALSE, c, b, u)
<1>1. /\ c \in [1 .. T -> Nat] /\ b \in [1 .. T -> Nat]
  BY DEF Fair, Amounts
<1>2. ASSUME NEW n \in 1 .. T, NEW k \in 1 .. T
      PROVE  Even(pc, 1, FALSE, c, b, u, n, k)
  <2>1. Even(pc, T + 1, FALSE, c, b, u, n, k)
    BY DEF Fair
  <2>2. Took(T + 1, n) = 1 /\ Took(T + 1, k) = 1 /\ Took(1, n) = 0 /\ Took(1, k) = 0
    BY DEF Took
  <2>3. c[n] \in Nat /\ c[k] \in Nat /\ b[n] \in Nat /\ b[k] \in Nat
    BY <1>1
  <2>4. Lead(pc, c, b, n) \in Int /\ Lead(pc, c, b, k) \in Int
    BY <2>3, LeadType
  <2> QED
    BY <2>1, <2>2, <2>4 DEF Even
<1>3. \A n \in 1 .. T : ~(n < 1)
  OBVIOUS
<1>4. pc = "maximum" => \A n \in 1 .. T : c[n] >= b[n]
  BY DEF Fair
<1> QED
  BY <1>2, <1>3, <1>4 DEF Fair

\* A phase that is over: nobody could give more in it, or the session is full.
LEMMA OverIsDecided ==
    ASSUME NEW T \in Nat, NEW pc \in Phases, NEW turn, NEW progress, NEW full \in BOOLEAN,
           NEW c, NEW b, NEW u, Fair(T, pc, turn, progress, full, c, b, u),
           full \/ (~progress /\ turn = T + 1)
    PROVE  ~full => \A n \in 1 .. T : c[n] = Goal(pc, b, u, n)
<1> SUFFICES ASSUME ~full, NEW n \in 1 .. T
             PROVE  c[n] = Goal(pc, b, u, n)
  OBVIOUS
<1>1. n < turn /\ c[n] \in Nat /\ Goal(pc, b, u, n) \in Nat
  BY DEF Fair, Amounts, Goal
<1> QED
  BY <1>1 DEF Fair

LEMMA MinimumIsEven ==
    ASSUME NEW T \in Nat, NEW turn, NEW progress, NEW full \in BOOLEAN,
           NEW c, NEW b, NEW u, Fair(T, "minimum", turn, progress, full, c, b, u),
           full \/ (~progress /\ turn = T + 1)
    PROVE  \A n, k \in 1 .. T : c[k] < b[k] => c[n] <= c[k] + 1
<1> SUFFICES ASSUME NEW n \in 1 .. T, NEW k \in 1 .. T, c[k] < b[k]
             PROVE  c[n] <= c[k] + 1
  OBVIOUS
<1>1. c[k] \in Nat /\ b[k] \in Nat /\ Even("minimum", turn, full, c, b, u, n, k)
  BY DEF Fair, Amounts
<1>2. full
  <2>1. ~full => \A m \in 1 .. T : c[m] = Goal("minimum", b, u, m)
    BY OverIsDecided DEF Phases
  <2> QED
    BY <1>1, <2>1 DEF Goal
<1> QED
  BY <1>1, <1>2 DEF Even, Lead, Goal

LEMMA MaximumBeginsFair ==
    ASSUME NEW T \in Nat, NEW turn, NEW progress, NEW full \in BOOLEAN,
           NEW c, NEW b, NEW u, Fair(T, "minimum", turn, progress, full, c, b, u),
           full \/ (~progress /\ turn = T + 1)
    PROVE  Fair(T, "maximum", 1, FALSE, full, c, b, u)
<1>1. /\ c \in [1 .. T -> Nat] /\ b \in [1 .. T -> Nat] /\ u \in [1 .. T -> Nat]
      /\ \A n \in 1 .. T : b[n] <= u[n] /\ c[n] <= b[n]
  BY DEF Fair, Amounts, Goal
<1>2. ~full => \A n \in 1 .. T : c[n] = b[n]
  <2>1. ~full => \A n \in 1 .. T : c[n] = Goal("minimum", b, u, n)
    BY OverIsDecided DEF Phases
  <2> QED
    BY <2>1 DEF Goal
<1>3. ASSUME NEW n \in 1 .. T, NEW k \in 1 .. T
      PROVE  Even("maximum", 1, full, c, b, u, n, k)
  <2>1. Took(1, n) = 0 /\ Took(1, k) = 0
    BY DEF Took
  <2>2. c[n] \in Nat /\ c[k] \in Nat /\ b[n] \in Nat /\ b[k] \in Nat /\ c[n] <= b[n] /\ c[k] <= b[k]
    BY <1>1
  <2>3. Lead("maximum", c, b, n) = c[n] - b[n] /\ Lead("maximum", c, b, k) = c[k] - b[k]
    BY DEF Lead
  <2> QED
    BY <2>1, <2>2, <2>3 DEF Even
<1>4. \A n, k \in 1 .. T : c[k] < b[k] => c[n] <= c[k] + 1
  BY MinimumIsEven
<1>5. \A n \in 1 .. T : c[n] <= Goal("maximum", b, u, n)
  BY <1>1 DEF Goal
<1>6. (\A n \in 1 .. T : c[n] >= b[n]) \/ (full /\ \A n \in 1 .. T : c[n] <= b[n])
  BY <1>1, <1>2
<1> QED
  BY <1>1, <1>3, <1>4, <1>5, <1>6 DEF Fair, Amounts

LEMMA MinimumResult ==
    ASSUME NEW T \in Nat, NEW turn, NEW progress, NEW full \in BOOLEAN,
           NEW c, NEW b, NEW u, Fair(T, "minimum", turn, progress, full, c, b, u),
           full \/ (~progress /\ turn = T + 1)
    PROVE  Result(T, FALSE, full, c, b, u)
<1>1. /\ c \in [1 .. T -> Nat] /\ b \in [1 .. T -> Nat] /\ \A n \in 1 .. T : c[n] <= b[n]
  BY DEF Fair, Amounts, Goal
<1>2. ~full => \A n \in 1 .. T : c[n] = b[n]
  <2>1. ~full => \A n \in 1 .. T : c[n] = Goal("minimum", b, u, n)
    BY OverIsDecided DEF Phases
  <2> QED
    BY <2>1 DEF Goal
<1>3. \A n, k \in 1 .. T : c[k] < b[k] => c[n] <= c[k] + 1
  BY MinimumIsEven
<1>4. \A n \in 1 .. T : ~(c[n] > b[n])
  BY <1>1
<1> QED
  BY <1>1, <1>2, <1>3, <1>4 DEF Result

LEMMA MaximumResult ==
    ASSUME NEW T \in Nat, NEW turn, NEW progress, NEW full \in BOOLEAN,
           NEW c, NEW b, NEW u, Fair(T, "maximum", turn, progress, full, c, b, u),
           full \/ (~progress /\ turn = T + 1)
    PROVE  Result(T, TRUE, full, c, b, u)
<1>1. /\ c \in [1 .. T -> Nat] /\ b \in [1 .. T -> Nat] /\ u \in [1 .. T -> Nat]
      /\ \A n \in 1 .. T : c[n] <= u[n]
      /\ (\A n \in 1 .. T : c[n] >= b[n]) \/ (\A n \in 1 .. T : c[n] <= b[n])
      /\ \A n, k \in 1 .. T : c[k] < b[k] => c[n] <= c[k] + 1
  BY DEF Fair, Amounts, Goal
<1>2. ~full => \A n \in 1 .. T : c[n] = u[n]
  <2>1. ~full => \A n \in 1 .. T : c[n] = Goal("maximum", b, u, n)
    BY OverIsDecided DEF Phases
  <2> QED
    BY <2>1 DEF Goal
<1>3. ASSUME NEW n \in 1 .. T, NEW k \in 1 .. T, c[n] > b[n]
      PROVE  c[k] >= b[k]
  BY <1>1, <1>3
<1>4. ASSUME NEW n \in 1 .. T, NEW k \in 1 .. T, c[n] > b[n], c[k] < u[k]
      PROVE  c[n] + b[k] <= c[k] + b[n] + 1
  <2>1. full
    BY <1>1, <1>2, <1>4
  <2>2. Even("maximum", turn, full, c, b, u, n, k) /\ c[k] >= b[k]
    BY <1>3, <1>4 DEF Fair
  <2>3. c[n] - b[n] <= c[k] - b[k] + 1
    BY <1>4, <2>1, <2>2 DEF Even, Lead, Goal
  <2>4. c[n] \in Nat /\ c[k] \in Nat /\ b[n] \in Nat /\ b[k] \in Nat
    BY <1>1
  <2> QED
    BY <2>3, <2>4
<1> QED
  BY <1>1, <1>2, <1>3, <1>4 DEF Result


-----------------------------------------------------------------------------
\* The choice in these numbers.

Counts == [n \in Categories |-> Cardinality(ChosenOf(n))]
Bases == [n \in Categories |-> Min({Minimum(Turns[n]), Len(Pool(n))})]
Tops == [n \in Categories |-> Min({Maximum(Turns[n]), Len(Pool(n))})]
Fill == input.backfill \/ \A n \in Categories : Counts[n] >= Minimum(Turns[n])

RoundTyped ==
  /\ round.pc \in Phases \cup {"done"} /\ round.turn \in 1 .. Cardinality(Opened) + 1
  /\ round.progress \in BOOLEAN /\ round.chosen \in Seq(DOMAIN input.candidates)
  /\ round.cursor \in [1 .. Len(input.settings) -> Nat]
  /\ round = [pc |-> round.pc, turn |-> round.turn, progress |-> round.progress,
              chosen |-> round.chosen, cursor |-> round.cursor]

\* What a category gave is the beginning of its pool.
GaveItsBest(n) ==
  /\ Counts[n] <= Len(Pool(n))
  /\ {round.chosen[i] : i \in ChosenOf(n)} = {Pool(n)[i] : i \in 1 .. Counts[n]}
  /\ \/ round.cursor[n] = Counts[n] + 1
     \/ Counts[n] = Len(Pool(n)) /\ round.cursor[n] > Len(Pool(n))

Drawn ==
  /\ \A i, j \in 1 .. Len(round.chosen) : round.chosen[i] = round.chosen[j] => i = j
  /\ Len(round.chosen) <= input.total
  /\ \A i \in 1 .. Len(round.chosen) : input.candidates[round.chosen[i]].eligible
  /\ \A n \in Categories : GaveItsBest(n)

Balanced ==
  /\ round.pc \in Phases =>
       Fair(Cardinality(Opened), round.pc, round.turn, round.progress, Full, Counts, Bases, Tops)
  /\ round.pc = "maximum" => Fill
  /\ round.pc = "done" => Result(Cardinality(Opened), Fill, Full, Counts, Bases, Tops)

BalanceInv == input \in BalanceInputs /\ RoundTyped /\ Drawn /\ Balanced

LEMMA InputKept ==
    ASSUME input' = input
    PROVE  /\ Opened' = Opened /\ Categories' = Categories /\ Turns' = Turns
           /\ \A o : PrimaryOf(o)' = PrimaryOf(o)
           /\ \A n : MembersOf(n)' = MembersOf(n) /\ Pool(n)' = Pool(n)
           /\ \A s : Minimum(s)' = Minimum(s) /\ Maximum(s)' = Maximum(s)
           /\ Bases' = Bases /\ Tops' = Tops
<1>1. Opened' = Opened /\ Categories' = Categories
  BY DEF Opened, Categories
<1>2. Turns' = Turns
  BY <1>1 DEF Turns, NotAfter, Ordered
<1>3. \A o : PrimaryOf(o)' = PrimaryOf(o)
  BY <1>2 DEF PrimaryOf
<1>4. \A n : MembersOf(n)' = MembersOf(n)
  BY <1>3 DEF MembersOf
<1>5. \A n : Pool(n)' = Pool(n)
  <2>1. \A n, o : NoWorse(n, o)' = NoWorse(n, o)
    BY <1>4 DEF NoWorse
  <2> QED
    BY <1>4, <2>1 DEF Pool, Ordered
<1>6. ConfigMinimum' = ConfigMinimum
  BY DEF ConfigMinimum
<1>7. ConfigMaximum' = ConfigMaximum
  BY <1>6 DEF ConfigMaximum
<1>8. \A s : Maximum(s)' = Maximum(s)
  BY <1>7 DEF Maximum
<1>9. \A s : Minimum(s)' = Minimum(s)
  BY <1>6, <1>7, <1>8 DEF Minimum
<1> QED
  BY <1>1, <1>2, <1>3, <1>4, <1>5, <1>8, <1>9 DEF Bases, Tops

LEMMA GoalType ==
    ASSUME input \in BalanceInputs, NEW n \in Categories
    PROVE  /\ Bases[n] \in Nat /\ Tops[n] \in Nat /\ Bases[n] <= Tops[n]
           /\ Bases[n] <= Len(Pool(n)) /\ Bases[n] <= Minimum(Turns[n])
           /\ Tops[n] <= Len(Pool(n)) /\ Tops[n] <= Maximum(Turns[n])
           /\ Bases[n] = Len(Pool(n)) \/ Bases[n] = Minimum(Turns[n])
           /\ Tops[n] = Len(Pool(n)) \/ Tops[n] = Maximum(Turns[n])
<1>1. /\ Minimum(Turns[n]) \in Nat /\ Maximum(Turns[n]) \in Nat /\ Len(Pool(n)) \in Nat
      /\ Minimum(Turns[n]) <= Maximum(Turns[n])
  BY LimitsType, PoolType
<1>2. /\ Bases[n] = Min({Minimum(Turns[n]), Len(Pool(n))})
      /\ Tops[n] = Min({Maximum(Turns[n]), Len(Pool(n))})
  BY DEF Bases, Tops
<1>3. /\ Bases[n] \in Nat /\ Bases[n] <= Len(Pool(n)) /\ Bases[n] <= Minimum(Turns[n])
      /\ Bases[n] = Len(Pool(n)) \/ Bases[n] = Minimum(Turns[n])
  BY <1>1, <1>2, LesserOf
<1>4. /\ Tops[n] \in Nat /\ Tops[n] <= Len(Pool(n)) /\ Tops[n] <= Maximum(Turns[n])
      /\ Tops[n] = Len(Pool(n)) \/ Tops[n] = Maximum(Turns[n])
  BY <1>1, <1>2, LesserOf
<1> QED
  BY <1>1, <1>3, <1>4

LEMMA LimitOfTurn ==
    ASSUME input \in BalanceInputs, NEW n \in Categories, round.pc \in Phases
    PROVE  /\ TurnLimit(n) \in Nat /\ Goal(round.pc, Bases, Tops, n) \in Nat
           /\ Goal(round.pc, Bases, Tops, n) <= TurnLimit(n)
           /\ Goal(round.pc, Bases, Tops, n) <= Len(Pool(n))
           /\ \/ Goal(round.pc, Bases, Tops, n) = TurnLimit(n)
              \/ Goal(round.pc, Bases, Tops, n) = Len(Pool(n))
<1>1. Minimum(Turns[n]) \in Nat /\ Maximum(Turns[n]) \in Nat
  BY LimitsType
<1>2. CASE round.pc = "minimum"
  <2>1. TurnLimit(n) = Minimum(Turns[n]) /\ Goal(round.pc, Bases, Tops, n) = Bases[n]
    BY <1>2 DEF TurnLimit, Goal
  <2> QED
    BY <1>1, <2>1, GoalType
<1>3. CASE round.pc # "minimum"
  <2>1. TurnLimit(n) = Maximum(Turns[n]) /\ Goal(round.pc, Bases, Tops, n) = Tops[n]
    BY <1>3 DEF TurnLimit, Goal
  <2> QED
    BY <1>1, <2>1, GoalType
<1> QED
  BY <1>2, <1>3

LEMMA CountsType ==
    ASSUME RoundTyped
    PROVE  /\ Len(round.chosen) \in Nat /\ DOMAIN round.chosen = 1 .. Len(round.chosen)
           /\ \A n \in Categories :
                /\ ChosenOf(n) \subseteq 1 .. Len(round.chosen) /\ IsFiniteSet(ChosenOf(n))
                /\ Counts[n] = Cardinality(ChosenOf(n)) /\ Counts[n] \in Nat
<1>1. Len(round.chosen) \in Nat /\ DOMAIN round.chosen = 1 .. Len(round.chosen)
  BY DEF RoundTyped
<1>2. ASSUME NEW n \in Categories
      PROVE  /\ ChosenOf(n) \subseteq 1 .. Len(round.chosen) /\ IsFiniteSet(ChosenOf(n))
             /\ Cardinality(ChosenOf(n)) \in Nat
  <2>1. ChosenOf(n) \in SUBSET (1 .. Len(round.chosen))
    BY <1>1 DEF ChosenOf
  <2>2. IsFiniteSet(1 .. Len(round.chosen))
    BY <1>1, 1 \in Int, Len(round.chosen) \in Int, FS_Interval
  <2> QED
    BY <2>1, <2>2, FS_Subset, FS_CardinalityType
<1> QED
  BY <1>1, <1>2 DEF Counts

\* A step that leaves the choice as it is.
LEMMA SameChoice ==
    ASSUME input' = input, round'.chosen = round.chosen
    PROVE  /\ \A n : ChosenOf(n)' = ChosenOf(n)
           /\ Counts' = Counts /\ Full' = Full /\ Fill' = Fill
<1>1. \A n : ChosenOf(n)' = ChosenOf(n)
  BY InputKept DEF ChosenOf
<1>2. Counts' = Counts
  BY <1>1, InputKept DEF Counts
<1>3. Full' = Full
  BY DEF Full
<1> QED
  BY <1>1, <1>2, <1>3, InputKept DEF Fill

LEMMA PassKeepsDrawn ==
    ASSUME BalanceInv, input' = input, round'.chosen = round.chosen,
           \A n \in Categories : \/ round'.cursor[n] = round.cursor[n]
                                 \/ /\ round.cursor[n] > Len(Pool(n))
                                    /\ round'.cursor[n] = round.cursor[n] + 1
    PROVE  Drawn'
<1>1. \A n \in Categories : Len(Pool(n)) \in Nat /\ Counts[n] \in Nat /\ round.cursor[n] \in Nat
  BY PoolType, CountsType, TurnsType DEF BalanceInv, RoundTyped, Categories
<1>2. ASSUME NEW n \in Categories
      PROVE  GaveItsBest(n)'
  <2>1. GaveItsBest(n)
    BY DEF BalanceInv, Drawn
  <2>2. /\ Counts[n]' = Counts[n] /\ Len(Pool(n))' = Len(Pool(n))
        /\ {round.chosen[i] : i \in ChosenOf(n)}' = {round.chosen[i] : i \in ChosenOf(n)}
        /\ {Pool(n)[i] : i \in 1 .. Counts[n]}' = {Pool(n)[i] : i \in 1 .. Counts[n]}
    BY InputKept, SameChoice
  <2>3. \/ round'.cursor[n] = Counts[n] + 1
        \/ Counts[n] = Len(Pool(n)) /\ round'.cursor[n] > Len(Pool(n))
    BY <1>1, <2>1 DEF GaveItsBest
  <2> QED
    BY <2>1, <2>2, <2>3 DEF GaveItsBest
<1>3. Categories' = Categories
  BY InputKept
<1> QED
  BY <1>2, <1>3 DEF BalanceInv, Drawn

LEMMA TakeDraws ==
    ASSUME BalanceInv, NEW t \in Categories, input' = input, ~Full,
           round.cursor[t] <= Len(Pool(t)),
           round'.chosen = Append(round.chosen, Pool(t)[round.cursor[t]]),
           round'.cursor = [round.cursor EXCEPT ![t] = @ + 1],
           round'.chosen \in Seq(DOMAIN input.candidates)
    PROVE  /\ Drawn' /\ Counts' = [Counts EXCEPT ![t] = @ + 1]
           /\ Counts[t] < Len(Pool(t))
<1> DEFINE m == Len(round.chosen)
           x == Pool(t)[round.cursor[t]]
<1>1. /\ m \in Nat /\ DOMAIN round.chosen = 1 .. m
      /\ \A n \in Categories : /\ ChosenOf(n) \subseteq 1 .. m /\ IsFiniteSet(ChosenOf(n))
                               /\ Counts[n] = Cardinality(ChosenOf(n)) /\ Counts[n] \in Nat
  BY CountsType DEF BalanceInv
<1>2. /\ Len(Pool(t)) \in Nat /\ Pool(t) \in [1 .. Len(Pool(t)) -> MembersOf(t)]
      /\ \A i, j \in 1 .. Len(Pool(t)) : Pool(t)[i] = Pool(t)[j] => i = j
  BY PoolType DEF BalanceInv
<1>3. round.cursor[t] = Counts[t] + 1 /\ Counts[t] < Len(Pool(t))
  <2>1. GaveItsBest(t) /\ round.cursor[t] \in Nat
    BY TurnsType DEF BalanceInv, Drawn, RoundTyped, Categories
  <2> QED
    BY <1>1, <1>2, <2>1 DEF GaveItsBest
<1>4. x \in MembersOf(t) /\ PrimaryOf(x) = t /\ input.candidates[x].eligible
  BY <1>1, <1>2, <1>3 DEF MembersOf
<1> HIDE DEF x
<1>5. \A i \in 1 .. m : round.chosen[i] # x
  <2>1. SUFFICES ASSUME NEW i \in 1 .. m, round.chosen[i] = x
                 PROVE  FALSE
    OBVIOUS
  <2>2. i \in ChosenOf(t)
    BY <1>1, <1>4, <2>1 DEF ChosenOf
  <2>3. {round.chosen[j] : j \in ChosenOf(t)} = {Pool(t)[j] : j \in 1 .. Counts[t]}
    BY DEF BalanceInv, Drawn, GaveItsBest
  <2>4. PICK j \in 1 .. Counts[t] : x = Pool(t)[j]
    <3>1. round.chosen[i] \in {Pool(t)[j] : j \in 1 .. Counts[t]}
      BY <2>2, <2>3
    <3> QED
      BY <2>1, <3>1
  <2> QED
    BY <1>1, <1>2, <1>3, <2>4 DEF x
<1>6. /\ Len(round'.chosen) = m + 1 /\ DOMAIN round'.chosen = 1 .. m + 1
      /\ round'.chosen[m + 1] = x /\ \A i \in 1 .. m : round'.chosen[i] = round.chosen[i]
  BY <1>1 DEF BalanceInv, RoundTyped, x
<1>7. Categories' = Categories /\ \A o : PrimaryOf(o)' = PrimaryOf(o)
  BY InputKept
<1> HIDE DEF m
<1>8. ChosenOf(t)' = ChosenOf(t) \cup {m + 1}
  <2>1. ChosenOf(t)' = {i \in 1 .. m + 1 : PrimaryOf(round'.chosen[i]) = t}
    BY <1>6, <1>7 DEF ChosenOf
  <2>2. ChosenOf(t) = {i \in 1 .. m : PrimaryOf(round.chosen[i]) = t}
    BY <1>1 DEF ChosenOf
  <2>3. 1 .. m + 1 = (1 .. m) \cup {m + 1}
    BY <1>1
  <2>4. \A i \in 1 .. m : PrimaryOf(round'.chosen[i]) = PrimaryOf(round.chosen[i])
    BY <1>6
  <2>5. PrimaryOf(round'.chosen[m + 1]) = t
    BY <1>4, <1>6
  <2> QED
    BY <2>1, <2>2, <2>3, <2>4, <2>5
<1>9. ASSUME NEW n \in Categories, n # t
      PROVE  ChosenOf(n)' = ChosenOf(n)
  <2>1. ChosenOf(n)' = {i \in 1 .. m + 1 : PrimaryOf(round'.chosen[i]) = n}
    BY <1>6, <1>7 DEF ChosenOf
  <2>2. ChosenOf(n) = {i \in 1 .. m : PrimaryOf(round.chosen[i]) = n}
    BY <1>1 DEF ChosenOf
  <2>3. 1 .. m + 1 = (1 .. m) \cup {m + 1}
    BY <1>1
  <2>4. \A i \in 1 .. m : PrimaryOf(round'.chosen[i]) = PrimaryOf(round.chosen[i])
    BY <1>6
  <2>5. PrimaryOf(round'.chosen[m + 1]) # n
    BY <1>4, <1>6, <1>9
  <2> QED
    BY <2>1, <2>2, <2>3, <2>4, <2>5
<1>10. Cardinality(ChosenOf(t)') = Counts[t] + 1
  <2>1. m + 1 \notin ChosenOf(t)
    BY <1>1
  <2> QED
    BY <1>1, <1>8, <2>1, FS_AddElement, ZenonT(40)
<1>11. Counts' = [Counts EXCEPT ![t] = @ + 1]
  <2>1. Counts' = [n \in Categories |-> Cardinality(ChosenOf(n)')]
    BY <1>7 DEF Counts
  <2>2. Counts = [n \in Categories |-> Cardinality(ChosenOf(n))]
    BY DEF Counts
  <2>3. \A n \in Categories : n # t => Cardinality(ChosenOf(n)') = Counts[n]
    BY <1>1, <1>9
  <2> QED
    BY <1>10, <2>1, <2>2, <2>3
<1>12. \A n \in Categories : Counts[n]' = IF n = t THEN Counts[n] + 1 ELSE Counts[n]
  BY <1>11 DEF Counts
<1>13. \A n \in Categories : round'.cursor[n] = IF n = t THEN round.cursor[n] + 1 ELSE round.cursor[n]
  BY TurnsType DEF BalanceInv, RoundTyped, Categories
<1>14. \A n : Pool(n)' = Pool(n)
  BY InputKept
<1>15. ASSUME NEW n \in Categories
       PROVE  GaveItsBest(n)'
  <2>1. GaveItsBest(n)
    BY DEF BalanceInv, Drawn
  <2>2. CASE n # t
    <3>1. Counts[n]' = Counts[n] /\ round'.cursor[n] = round.cursor[n]
      BY <1>12, <1>13, <2>2
    <3>2. {round'.chosen[i] : i \in ChosenOf(n)'} = {round.chosen[i] : i \in ChosenOf(n)}
      <4>1. ChosenOf(n)' = ChosenOf(n) /\ \A i \in ChosenOf(n) : round'.chosen[i] = round.chosen[i]
        BY <1>1, <1>6, <1>9, <2>2
      <4> QED
        BY <4>1
    <3> QED
      BY <1>14, <2>1, <3>1, <3>2 DEF GaveItsBest
  <2>3. CASE n = t
    <3>1. Counts[t]' = Counts[t] + 1 /\ round'.cursor[t] = Counts[t] + 2
      BY <1>1, <1>3, <1>12, <1>13
    <3>2. {round'.chosen[i] : i \in ChosenOf(t)'} = {round.chosen[i] : i \in ChosenOf(t)} \cup {x}
      <4>1. \A i \in ChosenOf(t) : round'.chosen[i] = round.chosen[i]
        BY <1>1, <1>6
      <4>2. {round'.chosen[i] : i \in ChosenOf(t) \cup {m + 1}}
              = {round.chosen[i] : i \in ChosenOf(t)} \cup {round'.chosen[m + 1]}
        BY <4>1, ZenonT(40)
      <4> QED
        BY <1>6, <1>8, <4>2, Zenon
    <3>3. {Pool(t)[i] : i \in 1 .. Counts[t] + 1} = {Pool(t)[i] : i \in 1 .. Counts[t]} \cup {x}
      <4>1. 1 .. Counts[t] + 1 = (1 .. Counts[t]) \cup {Counts[t] + 1}
        BY <1>1
      <4>2. Pool(t)[Counts[t] + 1] = x
        BY <1>3 DEF x
      <4> QED
        BY <4>1, <4>2
    <3>4. {round.chosen[i] : i \in ChosenOf(t)} = {Pool(t)[i] : i \in 1 .. Counts[t]}
      BY <2>1, <2>3 DEF GaveItsBest
    <3>5. Counts[t] + 1 <= Len(Pool(t)) /\ Counts[t] + 2 = (Counts[t] + 1) + 1
      BY <1>1, <1>2, <1>3
    <3>6. {Pool(t)[i] : i \in 1 .. Counts[t]}' = {Pool(t)[i] : i \in 1 .. Counts[t] + 1}
      BY <1>14, <3>1
    <3>7. {round.chosen[i] : i \in ChosenOf(t)}' = {Pool(t)[i] : i \in 1 .. Counts[t]}'
      BY <3>2, <3>3, <3>4, <3>6
    <3>8. GaveItsBest(t)'
      BY <1>14, <3>1, <3>5, <3>7 DEF GaveItsBest
    <3> QED
      BY <2>3, <3>8
  <2> QED
    BY <2>2, <2>3
<1>16. \A i, j \in 1 .. Len(round'.chosen) : round'.chosen[i] = round'.chosen[j] => i = j
  <2>1. \A i, j \in 1 .. m : round.chosen[i] = round.chosen[j] => i = j
    BY DEF BalanceInv, Drawn, m
  <2>2. \A i \in 1 .. m + 1 : i = m + 1 \/ i \in 1 .. m
    BY <1>1
  <2> QED
    BY <1>5, <1>6, <2>1, <2>2
<1>17. Len(round'.chosen) <= input.total
  <2>1. input.total \in Nat /\ ~(m >= input.total)
    BY BalanceFacts DEF BalanceInv, Full, m
  <2> QED
    BY <1>1, <1>6, <2>1
<1>18. \A i \in 1 .. Len(round'.chosen) : input.candidates[round'.chosen[i]].eligible
  <2>1. \A i \in 1 .. m : input.candidates[round.chosen[i]].eligible
    BY DEF BalanceInv, Drawn, m
  <2>2. \A i \in 1 .. m + 1 : i = m + 1 \/ i \in 1 .. m
    BY <1>1
  <2> QED
    BY <1>4, <1>6, <2>1, <2>2
<1> QED
  BY <1>3, <1>7, <1>11, <1>15, <1>16, <1>17, <1>18 DEF Drawn

LEMMA BalanceStarts == BalanceInit => BalanceInv
<1> SUFFICES ASSUME BalanceInit
             PROVE  BalanceInv
  OBVIOUS
<1>1. /\ input \in BalanceInputs
      /\ round = [pc |-> "minimum", turn |-> 1, progress |-> FALSE, chosen |-> <<>>,
                  cursor |-> [n \in 1 .. Len(input.settings) |-> 1]]
  BY DEF BalanceInit
<1>2. /\ round.pc = "minimum" /\ round.turn = 1 /\ round.progress = FALSE /\ round.chosen = <<>>
      /\ round.cursor = [n \in 1 .. Len(input.settings) |-> 1]
      /\ round = [pc |-> round.pc, turn |-> round.turn, progress |-> round.progress,
                  chosen |-> round.chosen, cursor |-> round.cursor]
  BY <1>1
<1>3. RoundTyped
  BY <1>1, <1>2, TurnsType DEF RoundTyped, Phases
<1>4. Len(round.chosen) = 0 /\ 1 .. Len(round.chosen) = {}
  BY <1>2
<1>5. \A n \in Categories : ChosenOf(n) = {} /\ Counts[n] = 0
  <2>1. \A n \in Categories : ChosenOf(n) = {}
    BY <1>3, <1>4, CountsType
  <2>2. \A n \in Categories : Counts[n] = 0
    BY <1>3, <2>1, CountsType, FS_EmptySet
  <2> QED
    BY <2>1, <2>2
<1>6. Drawn
  <2>1. ASSUME NEW n \in Categories
        PROVE  GaveItsBest(n)
    <3>1. Len(Pool(n)) \in Nat /\ round.cursor[n] = 1
      BY <1>1, <1>2, PoolType, TurnsType DEF Categories
    <3>2. {round.chosen[i] : i \in ChosenOf(n)} = {} /\ {Pool(n)[i] : i \in 1 .. Counts[n]} = {}
      BY <1>5
    <3> QED
      BY <1>5, <3>1, <3>2 DEF GaveItsBest
  <2>2. input.total \in Nat
    BY <1>1, BalanceFacts
  <2> QED
    BY <1>4, <2>1, <2>2 DEF Drawn
<1>7. Full = FALSE
  <2>1. input.total \in Nat /\ input.total >= 1
    BY <1>1, BalanceFacts
  <2> QED
    BY <1>4, <2>1 DEF Full
<1>8. Fair(Cardinality(Opened), "minimum", 1, FALSE, FALSE, Counts, Bases, Tops)
  <2>1. Amounts(Cardinality(Opened), Counts, Bases, Tops)
    BY <1>1, <1>3, CountsType, GoalType DEF Amounts, Counts, Bases, Tops, Categories
  <2>2. \A n \in Categories : Counts[n] = 0 /\ Bases[n] \in Nat
    BY <1>1, <1>5, GoalType
  <2>3. \A n \in Categories : Took(1, n) = 0
    BY DEF Took, Categories
  <2>4. \A n, k \in Categories : Even("minimum", 1, FALSE, Counts, Bases, Tops, n, k)
    BY <2>2, <2>3 DEF Even, Lead
  <2>5. \A n \in Categories : Counts[n] <= Goal("minimum", Bases, Tops, n) /\ ~(n < 1)
    BY <2>2 DEF Goal, Categories
  <2> QED
    BY <2>1, <2>4, <2>5 DEF Fair, Categories
<1> QED
  BY <1>1, <1>2, <1>3, <1>6, <1>7, <1>8 DEF BalanceInv, Balanced

LEMMA PassIsBalanced ==
    ASSUME BalanceInv, input' = input, round.pc \in Phases, ~Full, round.turn <= Len(Turns),
           Counts[round.turn] >= Goal(round.pc, Bases, Tops, round.turn),
           round'.pc = round.pc, round'.turn = round.turn + 1,
           round'.progress = round.progress, round'.chosen = round.chosen
    PROVE  Balanced'
<1>1. Cardinality(Opened) \in Nat /\ round.turn \in 1 .. Cardinality(Opened)
  BY TurnsType DEF BalanceInv, RoundTyped
<1>2. Fair(Cardinality(Opened), round.pc, round.turn, round.progress, FALSE, Counts, Bases, Tops)
  <2>1. Full = FALSE
    BY DEF Full
  <2>2. Fair(Cardinality(Opened), round.pc, round.turn, round.progress, Full, Counts, Bases, Tops)
    BY DEF BalanceInv, Balanced
  <2> QED
    BY <2>1, <2>2
<1>3. Fair(Cardinality(Opened), round.pc, round.turn + 1, round.progress, FALSE, Counts, Bases, Tops)
  BY <1>1, <1>2, PassingIsFair
<1>4. /\ Opened' = Opened /\ Bases' = Bases /\ Tops' = Tops /\ Counts' = Counts
      /\ Full' = FALSE /\ Fill' = Fill
  BY InputKept, SameChoice DEF Full
<1> QED
  BY <1>3, <1>4 DEF BalanceInv, Balanced, Phases

LEMMA TakeKeepsBalance == ASSUME BalanceInv, TakeTurn PROVE BalanceInv'
<1> DEFINE t == round.turn
<1>1. /\ round.pc \in Phases /\ ~Full /\ t <= Len(Turns) /\ input' = input
      /\ round' = IF ~MayTake(t) THEN [round EXCEPT !.turn = @ + 1]
                  ELSE IF round.cursor[t] > Len(Pool(t))
                       THEN [round EXCEPT !.turn = @ + 1, !.cursor[t] = @ + 1]
                       ELSE [round EXCEPT !.turn = @ + 1, !.cursor[t] = @ + 1, !.progress = TRUE,
                                          !.chosen = Append(@, Pool(t)[round.cursor[t]])]
  BY DEF TakeTurn, Phases
<1>2. /\ Cardinality(Opened) \in Nat /\ t \in Categories /\ t \in 1 .. Len(input.settings)
      /\ t + 1 \in 1 .. Cardinality(Opened) + 1
  BY <1>1, TurnsType DEF BalanceInv, RoundTyped, Categories
<1>3. Opened' = Opened
  BY <1>1, InputKept
<1>4. RoundTyped /\ Drawn /\ input \in BalanceInputs
  BY DEF BalanceInv
<1>5. /\ TurnLimit(t) \in Nat /\ Goal(round.pc, Bases, Tops, t) \in Nat
      /\ Goal(round.pc, Bases, Tops, t) <= TurnLimit(t)
      /\ Goal(round.pc, Bases, Tops, t) <= Len(Pool(t))
      /\ \/ Goal(round.pc, Bases, Tops, t) = TurnLimit(t)
         \/ Goal(round.pc, Bases, Tops, t) = Len(Pool(t))
  BY <1>1, <1>2, <1>4, LimitOfTurn
<1>6. /\ Counts[t] \in Nat /\ Counts[t] = Cardinality(ChosenOf(t))
      /\ Len(Pool(t)) \in Nat /\ round.cursor[t] \in Nat
  BY <1>2, <1>4, CountsType, PoolType DEF RoundTyped
<1>7. /\ round.pc \in Phases /\ round.progress \in BOOLEAN /\ round.chosen \in Seq(DOMAIN input.candidates)
      /\ round.cursor \in [1 .. Len(input.settings) -> Nat]
      /\ round = [pc |-> round.pc, turn |-> round.turn, progress |-> round.progress,
                  chosen |-> round.chosen, cursor |-> round.cursor]
  BY <1>1, <1>4 DEF RoundTyped
<1> HIDE DEF t
<1>8. CASE ~MayTake(t)
  <2>1. round' = [pc |-> round.pc, turn |-> t + 1, progress |-> round.progress,
                  chosen |-> round.chosen, cursor |-> round.cursor]
    BY <1>1, <1>7, <1>8 DEF t
  <2>2. /\ round'.pc = round.pc /\ round'.turn = t + 1 /\ round'.progress = round.progress
        /\ round'.chosen = round.chosen /\ round'.cursor = round.cursor
        /\ round' = [pc |-> round'.pc, turn |-> round'.turn, progress |-> round'.progress,
                     chosen |-> round'.chosen, cursor |-> round'.cursor]
    BY <2>1
  <2>3. RoundTyped'
    BY <1>1, <1>2, <1>3, <1>7, <2>2 DEF RoundTyped
  <2>4. Drawn'
    BY <1>1, <2>2, PassKeepsDrawn
  <2>5. Counts[t] >= Goal(round.pc, Bases, Tops, t)
    BY <1>5, <1>6, <1>8 DEF MayTake
  <2>6. Balanced'
    BY <1>1, <2>2, <2>5, PassIsBalanced DEF t
  <2> QED
    BY <1>1, <1>4, <2>3, <2>4, <2>6 DEF BalanceInv
<1>9. CASE MayTake(t) /\ round.cursor[t] > Len(Pool(t))
  <2> DEFINE cursor == [round.cursor EXCEPT ![t] = @ + 1]
  <2>1. round' = [pc |-> round.pc, turn |-> t + 1, progress |-> round.progress,
                  chosen |-> round.chosen, cursor |-> cursor]
    BY <1>1, <1>7, <1>9 DEF t
  <2>2. cursor \in [1 .. Len(input.settings) -> Nat]
        /\ \A n \in Categories : cursor[n] = IF n = t THEN round.cursor[n] + 1 ELSE round.cursor[n]
    BY <1>2, <1>4, <1>6, <1>7, TurnsType, SMTT(30) DEF Categories
  <2> HIDE DEF cursor
  <2>3. /\ round'.pc = round.pc /\ round'.turn = t + 1 /\ round'.progress = round.progress
        /\ round'.chosen = round.chosen /\ round'.cursor = cursor
        /\ round' = [pc |-> round'.pc, turn |-> round'.turn, progress |-> round'.progress,
                     chosen |-> round'.chosen, cursor |-> round'.cursor]
    BY <2>1
  <2>4. RoundTyped'
    BY <1>1, <1>2, <1>3, <1>7, <2>2, <2>3 DEF RoundTyped
  <2>5. Drawn'
    BY <1>1, <1>9, <2>2, <2>3, PassKeepsDrawn
  <2>6. Counts[t] >= Goal(round.pc, Bases, Tops, t)
    <3>1. GaveItsBest(t)
      BY <1>2, <1>4 DEF Drawn
    <3> QED
      BY <1>5, <1>6, <1>9, <3>1 DEF GaveItsBest
  <2>7. Balanced'
    BY <1>1, <2>3, <2>6, PassIsBalanced DEF t
  <2> QED
    BY <1>1, <1>4, <2>4, <2>5, <2>7 DEF BalanceInv
<1>10. CASE MayTake(t) /\ ~(round.cursor[t] > Len(Pool(t)))
  <2> DEFINE cursor == [round.cursor EXCEPT ![t] = @ + 1]
             chosen == Append(round.chosen, Pool(t)[round.cursor[t]])
  <2>1. round' = [pc |-> round.pc, turn |-> t + 1, progress |-> TRUE,
                  chosen |-> chosen, cursor |-> cursor]
    BY <1>1, <1>7, <1>10 DEF t
  <2>2. cursor \in [1 .. Len(input.settings) -> Nat]
    BY <1>2, <1>6, <1>7
  <2>3. chosen \in Seq(DOMAIN input.candidates)
    <3>1. Pool(t) \in [1 .. Len(Pool(t)) -> MembersOf(t)] /\ MembersOf(t) \subseteq DOMAIN input.candidates
      BY <1>2, <1>4, PoolType DEF MembersOf
    <3>2. round.cursor[t] >= 1
      BY <1>2, <1>4, <1>6 DEF Drawn, GaveItsBest
    <3>3. Pool(t)[round.cursor[t]] \in DOMAIN input.candidates
      BY <1>6, <1>10, <3>1, <3>2
    <3>4. PICK S : S = DOMAIN input.candidates /\ round.chosen \in Seq(S)
      BY <1>7
    <3>5. PICK x \in S : x = Pool(t)[round.cursor[t]]
      BY <3>3, <3>4
    <3>6. PICK c \in Seq(S) : c = round.chosen
      BY <3>4
    <3>7. Append(c, x) \in Seq(S)
      OBVIOUS
    <3> QED
      BY <3>4, <3>5, <3>6, <3>7
  <2>4. /\ round'.pc = round.pc /\ round'.turn = t + 1 /\ round'.progress = TRUE
        /\ round'.chosen = chosen /\ round'.cursor = cursor
        /\ round' = [pc |-> round'.pc, turn |-> round'.turn, progress |-> round'.progress,
                     chosen |-> round'.chosen, cursor |-> round'.cursor]
    <3> HIDE DEF cursor, chosen
    <3> QED
      BY <2>1
  <2>5. RoundTyped'
    <3> HIDE DEF cursor, chosen
    <3> QED
      BY <1>1, <1>2, <1>3, <1>7, <2>2, <2>3, <2>4 DEF RoundTyped
  <2>6. /\ Drawn' /\ Counts' = [Counts EXCEPT ![t] = @ + 1] /\ Counts[t] < Len(Pool(t))
    <3>1. round.cursor[t] <= Len(Pool(t))
      BY <1>6, <1>10
    <3> QED
      BY <1>1, <1>2, <2>3, <2>4, <3>1, TakeDraws
  <2> HIDE DEF cursor, chosen
  <2>7. Counts[t] < Goal(round.pc, Bases, Tops, t)
    BY <1>5, <1>6, <1>10, <2>6 DEF MayTake
  <2>8. Fair(Cardinality(Opened), round.pc, t, round.progress, FALSE, Counts, Bases, Tops)
    <3>1. Full = FALSE
      BY <1>1 DEF Full
    <3>2. Fair(Cardinality(Opened), round.pc, t, round.progress, Full, Counts, Bases, Tops)
      BY <1>1 DEF BalanceInv, Balanced, t
    <3> QED
      BY <3>1, <3>2
  <2>9. Fair(Cardinality(Opened), round.pc, t + 1, TRUE, Full', Counts', Bases, Tops)
    <3>1. t \in 1 .. Cardinality(Opened)
      BY <1>2 DEF Categories
    <3>2. Full' = TRUE \/ Full' = FALSE
      BY DEF Full
    <3>3. PICK full \in BOOLEAN : full = Full'
      BY <3>2
    <3>4. PICK d : d = Counts'
      OBVIOUS
    <3>5. \A n \in Categories : Counts[n] \in Nat /\ d[n] = IF n = t THEN Counts[n] + 1 ELSE Counts[n]
      BY <1>4, <2>6, <3>4, CountsType DEF Counts
    <3>6. d \in [1 .. Cardinality(Opened) -> Nat]
      <4>1. DOMAIN d = Categories /\ d = [n \in DOMAIN d |-> d[n]]
        BY <2>6, <3>4 DEF Counts
      <4>2. \A n \in Categories : d[n] \in Nat
        BY <3>5
      <4> QED
        BY <4>1, <4>2 DEF Categories
    <3>7. d[t] = Counts[t] + 1 /\ \A n \in 1 .. Cardinality(Opened) : n # t => d[n] = Counts[n]
      BY <3>1, <3>5 DEF Categories
    <3>8. round.pc \in Phases /\ Cardinality(Opened) \in Nat
      BY <1>1, <1>2
    <3>9. Fair(Cardinality(Opened), round.pc, t + 1, TRUE, full, d, Bases, Tops)
      BY <2>7, <2>8, <3>1, <3>3, <3>6, <3>7, <3>8, TakingIsFair
    <3> QED
      BY <3>3, <3>4, <3>9
  <2>10. Bases' = Bases /\ Tops' = Tops /\ Turns' = Turns /\ Categories' = Categories
         /\ \A s : Minimum(s)' = Minimum(s)
    BY <1>1, InputKept
  <2>11. round.pc = "maximum" => Fill'
    <3> SUFFICES ASSUME round.pc = "maximum", ~input.backfill, NEW n \in Categories
                 PROVE  Counts'[n] >= Minimum(Turns[n])
      BY <1>1, <2>10 DEF Fill
    <3>1. Counts[n] >= Minimum(Turns[n])
      BY DEF BalanceInv, Balanced, Fill
    <3>2. Counts[n] \in Nat /\ Minimum(Turns[n]) \in Nat
      BY <1>4, CountsType, LimitsType
    <3>3. Counts'[n] = IF n = t THEN Counts[n] + 1 ELSE Counts[n]
      BY <2>6 DEF Counts
    <3> QED
      BY <3>1, <3>2, <3>3
  <2>12. Balanced'
    BY <1>1, <1>3, <2>4, <2>9, <2>10, <2>11 DEF Balanced, Phases
  <2> QED
    BY <1>1, <1>4, <2>5, <2>6, <2>12 DEF BalanceInv
<1> QED
  BY <1>8, <1>9, <1>10

LEMMA EndKeepsBalance == ASSUME BalanceInv, EndRound PROVE BalanceInv'
<1> DEFINE next == CASE round.progress /\ ~Full -> round.pc
                     [] round.pc = "minimum" /\ ~(round.progress /\ ~Full) /\ Fill -> "maximum"
                     [] OTHER -> "done"
           T == Cardinality(Opened)
<1>1. /\ round.pc \in Phases /\ input' = input
      /\ Full \/ round.turn > Len(Turns)
      /\ RoundTyped /\ Drawn /\ Balanced /\ input \in BalanceInputs
  BY DEF EndRound, BalanceInv, Phases
<1>2. T \in Nat /\ Len(Turns) = T /\ DOMAIN Turns = Categories
  BY <1>1, TurnsType
<1>3. Fill = (input.backfill \/ \A n \in DOMAIN Turns : Cardinality(ChosenOf(n)) >= Minimum(Turns[n]))
  BY <1>1, <1>2, CountsType DEF Fill
<1>4. round' = [round EXCEPT !.pc = next, !.turn = 1, !.progress = FALSE]
  BY <1>3 DEF EndRound
<1>5. round.turn \in 1 .. T + 1 /\ round.progress \in BOOLEAN
  BY <1>1 DEF RoundTyped
<1>6. round' = [pc |-> next, turn |-> 1, progress |-> FALSE,
                chosen |-> round.chosen, cursor |-> round.cursor]
  <2>1. round = [pc |-> round.pc, turn |-> round.turn, progress |-> round.progress,
                 chosen |-> round.chosen, cursor |-> round.cursor]
    BY <1>1 DEF RoundTyped
  <2> HIDE DEF next
  <2> QED
    BY <1>4, <2>1
<1>7. /\ round.progress /\ ~Full => next = round.pc
      /\ ~(round.progress /\ ~Full) /\ round.pc = "minimum" /\ Fill => next = "maximum"
      /\ ~(round.progress /\ ~Full) /\ ~(round.pc = "minimum" /\ Fill) => next = "done"
  OBVIOUS
<1> HIDE DEF next
<1>8. /\ round'.pc = next /\ round'.turn = 1 /\ round'.progress = FALSE
      /\ round'.chosen = round.chosen /\ round'.cursor = round.cursor
      /\ round' = [pc |-> round'.pc, turn |-> round'.turn, progress |-> round'.progress,
                   chosen |-> round'.chosen, cursor |-> round'.cursor]
  BY <1>6
<1>9. next \in Phases \cup {"done"}
  BY <1>1, <1>7 DEF Phases
<1>10. /\ Opened' = Opened /\ Bases' = Bases /\ Tops' = Tops /\ Counts' = Counts
       /\ Full' = Full /\ Fill' = Fill
  BY <1>1, <1>8, InputKept, SameChoice
<1>11. RoundTyped'
  <2>1. /\ round.chosen \in Seq(DOMAIN input.candidates)
        /\ round.cursor \in [1 .. Len(input.settings) -> Nat] /\ 1 \in 1 .. T + 1
    BY <1>1, <1>2 DEF RoundTyped
  <2> QED
    BY <1>1, <1>8, <1>9, <1>10, <2>1 DEF RoundTyped
<1>12. Drawn'
  BY <1>1, <1>8, PassKeepsDrawn DEF BalanceInv
<1>13. Fair(T, round.pc, round.turn, round.progress, Full, Counts, Bases, Tops)
  BY <1>1 DEF Balanced
<1>14. Balanced'
  <2>1. CASE round.progress /\ ~Full
    <3>1. round.turn = T + 1 /\ Full = FALSE /\ round.progress = TRUE
      BY <1>1, <1>2, <1>5, <2>1 DEF Full
    <3>2. Fair(T, round.pc, T + 1, TRUE, FALSE, Counts, Bases, Tops)
      BY <1>13, <3>1
    <3>3. Fair(T, round.pc, 1, FALSE, FALSE, Counts, Bases, Tops)
      BY <1>1, <1>2, <3>2, AnotherRoundIsFair
    <3>4. round.pc = "maximum" => Fill
      BY <1>1 DEF Balanced
    <3> QED
      BY <1>1, <1>7, <1>8, <1>10, <2>1, <3>1, <3>3, <3>4 DEF Balanced, Phases
  <2>2. CASE ~(round.progress /\ ~Full)
    <3>1. Full = TRUE \/ Full = FALSE
      BY DEF Full
    <3>2. PICK full \in BOOLEAN : full = Full
      BY <3>1
    <3>3. full \/ (~round.progress /\ round.turn = T + 1)
      BY <1>1, <1>2, <1>5, <2>2, <3>2
    <3>4. Fair(T, round.pc, round.turn, round.progress, full, Counts, Bases, Tops)
      BY <1>13, <3>2
    <3>5. CASE round.pc = "minimum" /\ Fill
      <4>1. Fair(T, "maximum", 1, FALSE, full, Counts, Bases, Tops)
        BY <1>2, <3>3, <3>4, <3>5, MaximumBeginsFair
      <4>2. Fair(T, "maximum", 1, FALSE, Full, Counts, Bases, Tops)
        BY <3>2, <4>1
      <4> QED
        BY <1>7, <1>8, <1>10, <2>2, <3>5, <4>2 DEF Balanced, Phases
    <3>6. CASE round.pc = "minimum" /\ ~Fill
      <4>1. Result(T, FALSE, full, Counts, Bases, Tops)
        BY <1>2, <3>3, <3>4, <3>6, MinimumResult
      <4>2. Result(T, Fill, Full, Counts, Bases, Tops)
        <5>1. Fill = FALSE
          BY <1>3, <3>6
        <5> QED
          BY <3>2, <4>1, <5>1
      <4> QED
        BY <1>7, <1>8, <1>10, <2>2, <3>6, <4>2 DEF Balanced, Phases
    <3>7. CASE round.pc = "maximum"
      <4>1. Result(T, TRUE, full, Counts, Bases, Tops)
        BY <1>2, <3>3, <3>4, <3>7, MaximumResult
      <4>2. Result(T, Fill, Full, Counts, Bases, Tops)
        <5>1. Fill = TRUE
          BY <1>1, <1>3, <3>7 DEF Balanced
        <5> QED
          BY <3>2, <4>1, <5>1
      <4> QED
        BY <1>7, <1>8, <1>10, <2>2, <3>7, <4>2 DEF Balanced, Phases
    <3> QED
      BY <1>1, <3>5, <3>6, <3>7 DEF Phases
  <2> QED
    BY <2>1, <2>2
<1> QED
  BY <1>1, <1>11, <1>12, <1>14 DEF BalanceInv

LEMMA BalanceGoesOn == BalanceInv /\ [BalanceNext]_balanceVars => BalanceInv'
<1> SUFFICES ASSUME BalanceInv, [BalanceNext]_balanceVars
             PROVE  BalanceInv'
  OBVIOUS
<1>1. CASE TakeTurn
  BY <1>1, TakeKeepsBalance
<1>2. CASE EndRound
  BY <1>2, EndKeepsBalance
<1>3. CASE UNCHANGED balanceVars
  <2>1. input' = input /\ round' = round
    BY <1>3 DEF balanceVars
  <2>2. /\ Opened' = Opened /\ Bases' = Bases /\ Tops' = Tops /\ Counts' = Counts
        /\ Full' = Full /\ Fill' = Fill
    BY <2>1, InputKept, SameChoice
  <2>3. RoundTyped'
    BY <2>1, <2>2 DEF BalanceInv, RoundTyped
  <2>4. Drawn'
    BY <2>1, PassKeepsDrawn
  <2>5. Balanced'
    BY <2>1, <2>2 DEF BalanceInv, Balanced
  <2> QED
    BY <2>1, <2>3, <2>4, <2>5 DEF BalanceInv
<1> QED
  BY <1>1, <1>2, <1>3 DEF BalanceNext

LEMMA BalanceHolds == BalanceSpec => []BalanceInv
<1> QED
  BY BalanceStarts, BalanceGoesOn, PTL DEF BalanceSpec

\* A balanced choice (multi-category.ts) keeps its phases, its turns within
\* the opened categories and its cursors from 1, and chooses eligible offers
\* only, whatever the settings, the limits and the candidates are.
THEOREM BalanceTypeCorrect == BalanceSpec => []BalanceTypeOK
<1>1. ASSUME BalanceInv
      PROVE  BalanceTypeOK
  <2>1. RoundTyped /\ Drawn /\ input \in BalanceInputs
    BY <1>1 DEF BalanceInv
  <2>2. round.pc \in {"minimum", "maximum", "done"}
    BY <2>1 DEF RoundTyped, Phases
  <2>3. round.turn \in 1 .. Len(Turns) + 1
    BY <2>1, TurnsType DEF RoundTyped
  <2>4. \A i \in DOMAIN round.chosen : input.candidates[round.chosen[i]].eligible
    BY <2>1, CountsType DEF Drawn
  <2>5. ASSUME NEW n \in DOMAIN Turns
        PROVE  round.cursor[n] >= 1
    <3>1. n \in Categories
      BY <2>1, TurnsType
    <3>2. Len(Pool(n)) \in Nat /\ Counts[n] \in Nat /\ round.cursor[n] \in Nat
      BY <2>1, <3>1, PoolType, CountsType, TurnsType DEF RoundTyped, Categories
    <3>3. GaveItsBest(n)
      BY <2>1, <3>1 DEF Drawn
    <3> QED
      BY <3>2, <3>3 DEF GaveItsBest
  <2> QED
    BY <2>2, <2>3, <2>4, <2>5 DEF BalanceTypeOK
<1> QED
  BY <1>1, BalanceHolds, PTL

\* The balanced choice of multi-category discovery, whatever the settings, the
\* limits and the candidates are: nothing twice, nobody above a maximum, the
\* best of each pool, minimums before anything above them, nothing missing but
\* for a limit or an empty pool, and nobody ahead by more than a turn.
THEOREM BalanceCorrect == BalanceSpec => []SelectionIsBalanced
<1>1. ASSUME BalanceInv, round.pc = "done"
      PROVE  /\ IsInjective(round.chosen) /\ Len(round.chosen) <= input.total
             /\ DOMAIN Turns = Categories
             /\ \A n \in Categories :
                  /\ Cardinality(ChosenOf(n)) = Counts[n]
                  /\ Min({Minimum(Turns[n]), Len(Pool(n))}) = Bases[n]
                  /\ Min({Maximum(Turns[n]), Len(Pool(n))}) = Tops[n]
             /\ Fill = (input.backfill \/ \A n \in DOMAIN Turns : Cardinality(ChosenOf(n)) >= Minimum(Turns[n]))
             /\ \A n \in Categories : {round.chosen[i] : i \in ChosenOf(n)} = {Pool(n)[i] : i \in 1 .. Counts[n]}
             /\ Result(Cardinality(Opened), Fill, Full, Counts, Bases, Tops)
  <2>1. RoundTyped /\ Drawn /\ Balanced /\ input \in BalanceInputs
    BY <1>1 DEF BalanceInv
  <2>2. DOMAIN Turns = Categories
    BY <2>1, TurnsType
  <2>3. \A n \in Categories : Cardinality(ChosenOf(n)) = Counts[n]
    BY <2>1, CountsType
  <2>4. Fill = (input.backfill \/ \A n \in DOMAIN Turns : Cardinality(ChosenOf(n)) >= Minimum(Turns[n]))
    BY <2>2, <2>3 DEF Fill
  <2>5. IsInjective(round.chosen)
    BY <2>1, CountsType DEF Drawn, IsInjective
  <2> QED
    BY <1>1, <2>1, <2>2, <2>3, <2>4, <2>5 DEF Drawn, GaveItsBest, Balanced, Bases, Tops
<1>2. ASSUME BalanceInv
      PROVE  SelectionIsBalanced
  <2> DEFINE count(n) == Cardinality(ChosenOf(n))
             base(n) == Min({Minimum(Turns[n]), Len(Pool(n))})
             top(n) == Min({Maximum(Turns[n]), Len(Pool(n))})
             fill == input.backfill \/ \A n \in DOMAIN Turns : count(n) >= Minimum(Turns[n])
  <2> SUFFICES ASSUME round.pc = "done"
               PROVE  /\ IsInjective(round.chosen) /\ Len(round.chosen) <= input.total
                      /\ \A n \in DOMAIN Turns :
                           /\ count(n) <= IF fill THEN top(n) ELSE base(n)
                           /\ {round.chosen[i] : i \in ChosenOf(n)} = {Pool(n)[i] : i \in 1 .. count(n)}
                           /\ ~Full => count(n) = IF fill THEN top(n) ELSE base(n)
                      /\ \A n, k \in DOMAIN Turns :
                           /\ count(n) > base(n) => count(k) >= base(k)
                           /\ count(k) < base(k) => count(n) <= count(k) + 1
                           /\ count(n) > base(n) /\ count(k) < top(k)
                                => count(n) + base(k) <= count(k) + base(n) + 1
    BY DEF SelectionIsBalanced
  <2>1. /\ Result(Cardinality(Opened), fill, Full, Counts, Bases, Tops)
        /\ IsInjective(round.chosen) /\ Len(round.chosen) <= input.total
    BY <1>1, <1>2
  <2>2. /\ DOMAIN Turns = Categories
        /\ \A n \in Categories :
             /\ count(n) = Counts[n] /\ base(n) = Bases[n] /\ top(n) = Tops[n]
             /\ {round.chosen[i] : i \in ChosenOf(n)} = {Pool(n)[i] : i \in 1 .. Counts[n]}
    BY <1>1, <1>2
  <2> HIDE DEF count, base, top, fill
  <2>3. \A n \in DOMAIN Turns :
          /\ count(n) <= IF fill THEN top(n) ELSE base(n)
          /\ {round.chosen[i] : i \in ChosenOf(n)} = {Pool(n)[i] : i \in 1 .. count(n)}
          /\ ~Full => count(n) = IF fill THEN top(n) ELSE base(n)
    BY <2>1, <2>2 DEF Result, Categories
  <2>4. ASSUME NEW n \in DOMAIN Turns, NEW k \in DOMAIN Turns
        PROVE  /\ count(n) > base(n) => count(k) >= base(k)
               /\ count(k) < base(k) => count(n) <= count(k) + 1
               /\ count(n) > base(n) /\ count(k) < top(k) => count(n) + base(k) <= count(k) + base(n) + 1
    BY <2>1, <2>2 DEF Result, Categories
  <2> QED
    BY <2>1, <2>3, <2>4
<1> QED
  BY <1>2, BalanceHolds, PTL
================================================================================
