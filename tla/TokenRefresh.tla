---------------------------- MODULE TokenRefresh ----------------------------
(***************************************************************************)
(* Bearer tokens under concurrency: CustodyAuthService.getToken with the   *)
(* transport's single 401 refresh-and-replay.  PalisadeAuthService and its *)
(* client take the same steps, but nothing bounds how long one of them may *)
(* take: Custody's requests have a timeout, Palisade's have none.          *)
(*                                                                         *)
(* Each request takes the cached token, or waits for a refresh, sends, and *)
(* on a 401 forces one refresh and sends again.  A refresh spans several   *)
(* awaits (sign the challenge, exchange it, parse the answer), and its     *)
(* `finally' runs after its result is stored: other requests run between.  *)
(* The authorization server is external.                                   *)
(***************************************************************************)
EXTENDS Naturals

CONSTANTS Requests,    \* concurrent API requests, each sent once
          MaxRefresh   \* bound: refreshes that may be started

ASSUME RefreshAssumption == MaxRefresh \in Nat

\* A request starts at most one refresh per send, and is sent at most twice: a
\* bound of twice the number of requests is never reached.
Refreshes == 1..MaxRefresh
NoRefresh == 0

Phases == {"none", "exchanging", "issued", "landed", "broken", "settled", "failed"}

VARIABLES
  cached,    \* #accessToken: the refresh that obtained it
  stale,     \* isTokenExpired(): none, or within the safety buffer of its exp
  shared,    \* refreshPromise
  started,   \* refreshes started so far; they are numbered in this order
  phase,     \* of each refresh
  revoked,   \* tokens the server rejects
  request, sends,   \* of each request: where it is, and which of its two sends this is
  awaits, token,    \* the refresh it waits for, the one its token is from
  since             \* refreshes that had started when it got its 401

requestVars == <<request, sends, awaits, token, since>>
tokenVars == <<cached, stale, shared, started, phase, revoked, requestVars>>

TokenTypeOK ==
  /\ cached \in Refreshes \cup {NoRefresh}
  /\ stale \in BOOLEAN
  /\ shared \in Refreshes \cup {NoRefresh}
  /\ started \in 0..MaxRefresh
  /\ phase \in [Refreshes -> Phases]
  /\ revoked \subseteq Refreshes
  /\ request \in [Requests -> {"idle", "waiting", "sending", "rejected", "done", "authError", "failed"}]
  /\ sends \in [Requests -> 1..2]
  /\ awaits \in [Requests -> Refreshes \cup {NoRefresh}]
  /\ token \in [Requests -> Refreshes \cup {NoRefresh}]
  /\ since \in [Requests -> 0..MaxRefresh]

TokenInit ==
  /\ cached = NoRefresh /\ stale = TRUE /\ shared = NoRefresh
  /\ started = 0
  /\ phase = [n \in Refreshes |-> "none"]
  /\ revoked = {}
  /\ request = [r \in Requests |-> "idle"]
  /\ sends = [r \in Requests |-> 1]
  /\ awaits = [r \in Requests |-> NoRefresh]
  /\ token = [r \in Requests |-> NoRefresh]
  /\ since = [r \in Requests |-> 0]

-----------------------------------------------------------------------------
(* getToken                                                                 *)

Await(r, n) ==
  /\ request' = [request EXCEPT ![r] = "waiting"]
  /\ awaits' = [awaits EXCEPT ![r] = n]
  /\ UNCHANGED token

StartRefresh(r) ==
  /\ started < MaxRefresh
  /\ started' = started + 1
  /\ phase' = [phase EXCEPT ![started'] = "exchanging"]
  /\ shared' = started'
  /\ Await(r, started')

\* getToken(false): the cached token, the refresh in flight, or a new refresh.
GetToken(r) ==
  \/ /\ cached # NoRefresh /\ ~stale
     /\ request' = [request EXCEPT ![r] = "sending"]
     /\ token' = [token EXCEPT ![r] = cached]
     /\ UNCHANGED <<awaits, shared, started, phase>>
  \/ /\ cached = NoRefresh \/ stale
     /\ shared # NoRefresh
     /\ Await(r, shared)
     /\ UNCHANGED <<shared, started, phase>>
  \/ /\ cached = NoRefresh \/ stale
     /\ shared = NoRefresh
     /\ StartRefresh(r)

\* Defect kept for comparison: a forced refresh joins the one in flight.
ForcedJoins(r) ==
  \/ shared # NoRefresh /\ Await(r, shared) /\ UNCHANGED <<shared, started, phase>>
  \/ shared = NoRefresh /\ StartRefresh(r)

\* getToken(true): always a new refresh.
ForceRefresh(r) == StartRefresh(r)

-----------------------------------------------------------------------------
(* A refresh                                                                *)

Issue(n) ==
  /\ phase[n] = "exchanging"
  /\ phase' = [phase EXCEPT ![n] = "issued"]
  /\ UNCHANGED <<cached, stale, shared, started, revoked>> /\ UNCHANGED requestVars

\* The token is stored with its expiry; one valid for less than the safety
\* buffer is expired from the start.
Obtain(n) ==
  /\ phase[n] = "issued"
  /\ phase' = [phase EXCEPT ![n] = "landed"]
  /\ cached' = n
  /\ stale' \in BOOLEAN
  /\ UNCHANGED <<shared, started, revoked>> /\ UNCHANGED requestVars

\* The exchange fails, or its answer is lost or carries no token.
Break(n) ==
  /\ phase[n] \in {"exchanging", "issued"}
  /\ phase' = [phase EXCEPT ![n] = "broken"]
  /\ UNCHANGED <<cached, stale, shared, started, revoked>> /\ UNCHANGED requestVars

\* Defect kept for comparison: cleared on success only, not in a finally.
ClearOnSuccess(n) ==
  /\ phase[n] \in {"landed", "broken"}
  /\ phase' = [phase EXCEPT ![n] = IF @ = "landed" THEN "settled" ELSE "failed"]
  /\ shared' = IF shared = n /\ phase[n] = "landed" THEN NoRefresh ELSE shared
  /\ UNCHANGED <<cached, stale, started, revoked>> /\ UNCHANGED requestVars

\* The finally: forget this refresh, unless a newer one has taken its place.
Clear(n) ==
  /\ phase[n] \in {"landed", "broken"}
  /\ phase' = [phase EXCEPT ![n] = IF @ = "landed" THEN "settled" ELSE "failed"]
  /\ shared' = IF shared = n THEN NoRefresh ELSE shared
  /\ UNCHANGED <<cached, stale, started, revoked>> /\ UNCHANGED requestVars

-----------------------------------------------------------------------------
(* A request: send and sendOnce                                             *)

Begin(r) ==
  /\ request[r] = "idle"
  /\ GetToken(r)
  /\ UNCHANGED <<cached, stale, revoked, sends, since>>

Resume(r) ==
  /\ request[r] = "waiting"
  /\ \/ /\ phase[awaits[r]] = "settled"
        /\ request' = [request EXCEPT ![r] = "sending"]
        /\ token' = [token EXCEPT ![r] = awaits[r]]
     \/ /\ phase[awaits[r]] = "failed"
        /\ request' = [request EXCEPT ![r] = "failed"]
        /\ UNCHANGED token
  /\ awaits' = [awaits EXCEPT ![r] = NoRefresh]
  /\ UNCHANGED <<cached, stale, shared, started, phase, revoked, sends, since>>

Answered(r) ==
  /\ request[r] = "sending" /\ token[r] \notin revoked
  /\ request' = [request EXCEPT ![r] = "done"]
  /\ UNCHANGED <<cached, stale, shared, started, phase, revoked, sends, awaits, token, since>>

\* Defect kept for comparison: a 401 is replayed as long as it takes.
ReplayForever(r) ==
  /\ request[r] = "sending" /\ token[r] \in revoked
  /\ request' = [request EXCEPT ![r] = "rejected"]
  /\ sends' = [sends EXCEPT ![r] = 2]
  /\ since' = [since EXCEPT ![r] = started]
  /\ UNCHANGED <<cached, stale, shared, started, phase, revoked, awaits, token>>

\* A 401: the first is replayed, the second is the request's error.
Unauthorized(r) ==
  /\ request[r] = "sending" /\ token[r] \in revoked
  /\ \/ /\ sends[r] = 1
        /\ request' = [request EXCEPT ![r] = "rejected"]
        /\ sends' = [sends EXCEPT ![r] = 2]
        /\ since' = [since EXCEPT ![r] = started]
     \/ /\ sends[r] = 2
        /\ request' = [request EXCEPT ![r] = "authError"]
        /\ UNCHANGED <<sends, since>>
  /\ UNCHANGED <<cached, stale, shared, started, phase, revoked, awaits, token>>

Replay(r) ==
  /\ request[r] = "rejected"
  /\ ForceRefresh(r)
  /\ UNCHANGED <<cached, stale, revoked, sends, since>>

-----------------------------------------------------------------------------
(* Time and the server                                                      *)

GoStale ==
  /\ ~stale
  /\ stale' = TRUE
  /\ UNCHANGED <<cached, shared, started, phase, revoked>> /\ UNCHANGED requestVars

Revoke(n) ==
  /\ phase[n] \in {"issued", "landed", "settled"} /\ n \notin revoked
  /\ revoked' = revoked \cup {n}
  /\ UNCHANGED <<cached, stale, shared, started, phase>> /\ UNCHANGED requestVars

Request(r) == Resume(r) \/ Answered(r) \/ Unauthorized(r) \/ Replay(r)
Refresh(n) == Issue(n) \/ Obtain(n) \/ Break(n) \/ Clear(n)

TokenNext ==
  \/ \E r \in Requests : Begin(r) \/ Request(r)
  \/ \E n \in Refreshes : Refresh(n) \/ Revoke(n)
  \/ GoStale

TokenSpec == TokenInit /\ [][TokenNext]_tokenVars

\* Ripple Custody's client: answers arrive or time out, and continuations run.  Of
\* Palisade's this cannot be said: a request that is never answered never ends.
RippleFairSpec ==
  /\ TokenSpec
  /\ \A r \in Requests : WF_tokenVars(Request(r))
  /\ \A n \in Refreshes : WF_tokenVars(Refresh(n))

-----------------------------------------------------------------------------
(* Properties                                                               *)

\* What getToken hands to later callers is a refresh that has not settled yet:
\* a failure is told to those who waited for it and never to a later caller,
\* and a settled refresh never hides the need for a new one.
SharedIsPending ==
  shared # NoRefresh => phase[shared] \in {"exchanging", "issued", "landed", "broken"}

\* The replay's token was asked for after the 401 it answers, so a request
\* fails with an authentication error only when a token obtained since was
\* refused as well.
ReplayIsFresh ==
  \A r \in Requests :
    /\ sends[r] = 2 /\ request[r] = "waiting" => awaits[r] > since[r]
    /\ sends[r] = 2 /\ request[r] \in {"sending", "done", "authError"} => token[r] > since[r]

-----------------------------------------------------------------------------
(* The inductive invariant                                                   *)

\* Refreshes are numbered as they start.
NumberingInv == \A n \in Refreshes : phase[n] # "none" <=> n <= started

\* A request waits for a refresh that was started; a 401 lies in the past, and is
\* answered on the second attempt.
WaitingInv ==
  \A r \in Requests :
    /\ request[r] = "waiting" => awaits[r] \in 1..started
    /\ since[r] <= started
    /\ request[r] = "idle" => sends[r] = 1
    /\ request[r] = "rejected" => sends[r] = 2

RefreshInv == TokenTypeOK /\ NumberingInv /\ WaitingInv /\ SharedIsPending /\ ReplayIsFresh
-----------------------------------------------------------------------------
\* Every request to Ripple Custody that began ends: with an answer, a second 401 or a
\* failed refresh.  None waits for a refresh that is not under way.
RequestsEnd ==
  \A r \in Requests : request[r] # "idle" ~> request[r] \in {"done", "authError", "failed"}
=============================================================================
