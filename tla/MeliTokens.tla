------------------------------- MODULE MeliTokens -------------------------------
(* The OAuth tokens of the Mercado Livre account: marketplace-connectors,     *)
(* MercadoLivreTokenService and saveMercadoLivreTokenResponse. Any process    *)
(* that needs an access token reads the account; if the token has expired it  *)
(* takes a lock and refreshes with the refresh token it read before, or waits *)
(* for the one who holds the lock. A refresh token works once: Mercado Livre  *)
(* answers with the next. The operator may connect the account again.         *)
EXTENDS Naturals, FiniteSets

CONSTANTS Clients,           \* processes that ask for an access token
          NoClient,
          MaxTokens,         \* bound: tokens issued
          MaxTokenFaults     \* bound: lost answers, failed writes, crashes, lapses

ASSUME TokenAssumption ==
  /\ NoClient \notin Clients
  /\ MaxTokens \in Nat /\ MaxTokenFaults \in Nat

VARIABLES account,           \* the row of MarketplaceAccount
          accepted,          \* refresh tokens that Mercado Livre accepts
          issued,            \* number of grants so far; a grant is its number
          client,            \* per process: step, the row it read, the answer
          reconnect,         \* grant the operator's callback is about to save, or 0
          refreshLock,       \* Redis
          tokenFaults

tokenVars == <<account, accepted, issued, client, reconnect, refreshLock, tokenFaults>>

Resting == [pc |-> "idle", refresh |-> 0, answer |-> 0]

TokenInit ==
  /\ account = [refresh |-> 1, expired |-> FALSE, status |-> "CONNECTED"]
  /\ accepted = {1} /\ issued = 1
  /\ client = [p \in Clients |-> Resting]
  /\ reconnect = 0
  /\ refreshLock = NoClient
  /\ tokenFaults = 0

TokenFault == tokenFaults < MaxTokenFaults /\ tokenFaults' = tokenFaults + 1
Rest(p) == client' = [client EXCEPT ![p] = Resting]
Proceed(p, pc) == client' = [client EXCEPT ![p].pc = pc]

(* getValidAccessToken: a token that is still valid is used; otherwise the    *)
(* row is kept for the refresh. The status is not looked at.                  *)
ReadAccount(p) ==
  /\ client[p].pc = "idle" /\ account.expired
  /\ client' = [client EXCEPT ![p] = [Resting EXCEPT
       !.pc = "lock", !.refresh = account.refresh]]
  /\ UNCHANGED <<account, accepted, issued, reconnect, refreshLock, tokenFaults>>

LockRefresh(p) ==
  /\ client[p].pc = "lock"
  /\ IF refreshLock = NoClient
     THEN refreshLock' = p /\ Proceed(p, "ask")
     ELSE Proceed(p, "poll") /\ UNCHANGED refreshLock
  /\ UNCHANGED <<account, accepted, issued, reconnect, tokenFaults>>

(* waitForConcurrentRefresh: until the row has other tokens, asks for a new   *)
(* authorization, or the time is over. Any of these ends the wait.            *)
PollAccount(p) ==
  /\ client[p].pc = "poll"
  /\ Rest(p)
  /\ UNCHANGED <<account, accepted, issued, reconnect, refreshLock, tokenFaults>>

(* The refresh token is used up and the next is issued.                       *)
Rotated(t) == /\ issued < MaxTokens
              /\ issued' = issued + 1
              /\ accepted' = (accepted \ {t}) \cup {issued + 1}

(* oauth.refresh with the token read before the lock: an answer with the next *)
(* token, a refusal, an error before Mercado Livre has acted, or after (the   *)
(* answer is lost or not accepted). A refusal is invalid_grant or any 401 or  *)
(* 403 (isMercadoLivreReauthenticationError), so that it says nothing of the  *)
(* token: one that works is refused too, and works on.                        *)
AskTokens(p) ==
  LET t == client[p].refresh
  IN  /\ client[p].pc = "ask"
      /\ \/ /\ t \in accepted /\ Rotated(t)
            /\ client' = [client EXCEPT ![p].pc = "save", ![p].answer = issued + 1]
            /\ UNCHANGED tokenFaults
         \/ /\ Proceed(p, "reauth") \/ Proceed(p, "release")
            /\ UNCHANGED <<accepted, issued, tokenFaults>>
         \/ t \in accepted /\ Rotated(t) /\ Proceed(p, "release") /\ TokenFault
      /\ UNCHANGED <<account, reconnect, refreshLock>>

(* saveMercadoLivreTokenResponse: whatever the row holds by now.              *)
Saved(grant) == account' = [refresh |-> grant, expired |-> FALSE, status |-> "CONNECTED"]

(* Mutant of SaveTokens: the refresh token of the row is kept.                *)
SaveAccessOnly(p) ==
  /\ client[p].pc = "save"
  /\ account' = [account EXCEPT !.expired = FALSE, !.status = "CONNECTED"]
  /\ Proceed(p, "release")
  /\ UNCHANGED <<accepted, issued, reconnect, refreshLock, tokenFaults>>

SaveTokens(p) ==
  /\ client[p].pc = "save"
  /\ \/ Saved(client[p].answer) /\ UNCHANGED tokenFaults
     \/ TokenFault /\ UNCHANGED account
  /\ Proceed(p, "release")
  /\ UNCHANGED <<accepted, issued, reconnect, refreshLock>>

(* markMercadoLivreAccountError: the row may have changed since it was read.  *)
MarkReauth(p) ==
  /\ client[p].pc = "reauth"
  /\ account' = [account EXCEPT !.status = "REAUTH_REQUIRED"]
  /\ Proceed(p, "release")
  /\ UNCHANGED <<accepted, issued, reconnect, refreshLock, tokenFaults>>

ReleaseRefresh(p) ==
  /\ client[p].pc = "release"
  /\ refreshLock' = IF refreshLock = p THEN NoClient ELSE refreshLock
  /\ Rest(p)
  /\ UNCHANGED <<account, accepted, issued, reconnect, tokenFaults>>

ClientCrashes(p) ==
  /\ client[p].pc # "idle"
  /\ TokenFault
  /\ Rest(p)
  /\ UNCHANGED <<account, accepted, issued, reconnect, refreshLock>>

(* The lock's TTL: of a process that crashed, or under a live one.            *)
RefreshLockLapses ==
  /\ refreshLock # NoClient
  /\ \/ client[refreshLock].pc \in {"idle", "lock", "poll"} /\ UNCHANGED tokenFaults
     \/ client[refreshLock].pc \notin {"idle", "lock", "poll"} /\ TokenFault
  /\ refreshLock' = NoClient
  /\ UNCHANGED <<account, accepted, issued, client, reconnect>>

AccessExpires ==
  /\ ~ account.expired
  /\ account' = [account EXCEPT !.expired = TRUE]
  /\ UNCHANGED <<accepted, issued, client, reconnect, refreshLock, tokenFaults>>

(* The operator authorizes again; the callback exchanges the code, which is a *)
(* grant of its own, and saves it.                                            *)
ExchangeCode ==
  /\ reconnect = 0 /\ issued < MaxTokens
  /\ issued' = issued + 1 /\ accepted' = accepted \cup {issued + 1}
  /\ reconnect' = issued + 1
  /\ UNCHANGED <<account, client, refreshLock, tokenFaults>>

SaveReconnect ==
  /\ reconnect # 0
  /\ Saved(reconnect)
  /\ reconnect' = 0
  /\ UNCHANGED <<accepted, issued, client, refreshLock, tokenFaults>>

(* Consent is withdrawn at Mercado Livre: no token works any more.            *)
ConsentEnds ==
  /\ accepted # {} /\ TokenFault
  /\ accepted' = {}
  /\ UNCHANGED <<account, issued, client, reconnect, refreshLock>>

TokenNext ==
  \/ \E p \in Clients : \/ ReadAccount(p) \/ LockRefresh(p) \/ PollAccount(p) \/ AskTokens(p)
                        \/ SaveTokens(p) \/ MarkReauth(p) \/ ReleaseRefresh(p)
                        \/ ClientCrashes(p)
  \/ RefreshLockLapses \/ AccessExpires \/ ExchangeCode \/ SaveReconnect \/ ConsentEnds

TokenSpec == TokenInit /\ [][TokenNext]_tokenVars
-----------------------------------------------------------------------------
TokenTypeOK ==
  /\ account \in [refresh : Nat, expired : BOOLEAN,
                  status : {"CONNECTED", "REAUTH_REQUIRED"}]
  /\ accepted \subseteq Nat /\ issued \in Nat /\ reconnect \in Nat
  /\ client \in [Clients -> [pc : {"idle", "lock", "ask", "poll", "save", "reauth",
                                   "release"},
                             refresh : Nat, answer : Nat]]
  /\ refreshLock \in Clients \cup {NoClient}
  /\ tokenFaults \in Nat

(* The account keeps a refresh token that works, through concurrent refreshes *)
(* and new authorizations that cross them, unless an answer, a write or a     *)
(* process was lost: while the stored one is used up, its successor is in the *)
(* hands of a process that is about to store it (marketplace-connectors: an   *)
(* answer without the next token is not saved, and a refusal, of a token that *)
(* works or not, marks the account and leaves its token).                     *)
TokenIsNotLost ==
  \/ account.refresh \in accepted
  \/ \E p \in Clients : client[p].pc = "save" /\ client[p].answer \in accepted
  \/ tokenFaults > 0
=============================================================================
