----------------------------- MODULE MCRequests -----------------------------
(***************************************************************************)
(* What surrounds one request, each part by itself and at its own bounds:  *)
(* the rate limiter, the session proxy in front of the API and the status  *)
(* stream behind it.  A behaviour runs one of them while the others stay   *)
(* at their first step; MCGate composes the limiter with the check of the  *)
(* credentials.                                                            *)
(***************************************************************************)
EXTENDS RateLimiter, TLC

CONSTANTS
    Fetches, Posts, TTL, Margin, MaxLatency, FetchTime, MaxRotations, FetchFaults, \* see SessionProxy
    Docs, Relapses, Streams, MaxPolls                            \* see StatusStream

VARIABLES
    running,                                                     \* the part that runs
    revoked, key, loggedIn, cached, freshUntil,
    leg, retried, token, since, answer, executed,               \* leg: pc of SessionProxy
    state, searchable, relapsed, target, stage, row, last, polls, sent \* stage: pc of StatusStream

limiterVars == <<requestVars, redisVars, faults>>
proxyVars   == <<revoked, key, loggedIn, cached, freshUntil, leg, retried, token, since, answer, executed>>
streamVars  == <<state, searchable, relapsed, target, stage, row, last, polls, sent>>

Proxy  == INSTANCE SessionProxy
              WITH Requests <- Fetches, pc <- leg, MaxTime <- FetchTime, Faults <- FetchFaults
Stream == INSTANCE StatusStream WITH pc <- stage

ASSUME ProxyTimeAssumption     == Proxy!TimeAssumption
ASSUME ProxyRequestsAssumption == Proxy!RequestsAssumption
ASSUME StreamAssumption        == Stream!RelapsesAssumption /\ Stream!MaxPollsAssumption

AnyDoc == CHOOSE d \in Docs : TRUE

AnyInit ==
    /\ running \in {"limiter", "proxy", "stream"}
    /\ Init /\ Proxy!Init /\ Stream!Init
    /\ running # "stream" => target = [s \in Streams |-> AnyDoc]

AnyNext ==
    \/ running = "limiter" /\ Next /\ UNCHANGED <<running, proxyVars, streamVars>>
    \/ running = "proxy"   /\ Proxy!Next /\ UNCHANGED <<running, limiterVars, streamVars>>
    \/ running = "stream"  /\ Stream!Next /\ UNCHANGED <<running, now, limiterVars, proxyVars>>

AnySpec == AnyInit /\ [][AnyNext]_<<running, now, limiterVars, proxyVars, streamVars>>

CheckSymmetry == Permutations(Requests)

-----------------------------------------------------------------------------
\* SessionProxy: no token expires on its way to the API.
NeverExpiresInUse == Proxy!NeverExpiresInUse

\* SessionProxy: one refresh and one retry heal what a new token can heal.
RefreshHeals == Proxy!RefreshHeals

\* SessionProxy: the API executes a request at most once, and not when it was refused or
\* its body could not be sent again.
AtMostOnce == Proxy!AtMostOnce

\* StatusStream: a client can rely on the order of the events, sees a document move
\* forward only, and may stop looking after "done".
StreamIsTrue == Stream!WellFormed /\ Stream!ForwardOnly /\ Stream!DoneIsFinal

=============================================================================
