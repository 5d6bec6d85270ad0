---------------------------- MODULE SessionProxy ----------------------------
(***************************************************************************)
(* The web frontend's server side: a browser session holds a tenant        *)
(* credential and a cached token; the proxy attaches a token to every      *)
(* request of the session, asks for a new one when the cached one is about *)
(* to expire, and after a 401 refreshes and retries once.  Requests of one *)
(* session run concurrently and share the cached token.                    *)
(*                                                                         *)
(* One session and its credential are modelled: sessions share nothing but *)
(* the store.  The API (Access) accepts a token that has not expired, was  *)
(* signed with the current key and belongs to a live credential.           *)
(***************************************************************************)
EXTENDS Naturals

CONSTANTS
    Requests,
    Posts,         \* those with a body
    TTL,           \* expires_in of a token
    Margin,        \* a cached token is not used in its last seconds (60 s)
    MaxLatency,    \* each leg between the proxy and the API
    MaxTime,       \* bound: the last moment modelled
    MaxRotations,  \* bound: how often the API is redeployed with a new jwt_secret
    Faults         \* "network": legs between the proxy and the API may fail;
                   \* "throttle": the token endpoint may answer 429

\* Of the constants.
TimeAssumption ==
    TTL \in Nat /\ Margin \in Nat /\ MaxLatency \in Nat /\ MaxTime \in Nat
RequestsAssumption ==
    Posts \subseteq Requests /\ MaxRotations \in Nat /\ Faults \subseteq {"network", "throttle"}

VARIABLES
    now,
    revoked,    \* the credential
    key,        \* the API's current signing key
    loggedIn,   \* the session is in the store
    cached,     \* session.token
    freshUntil, \* session.tokenExpiresAt
    pc,         \* where each request is
    retried,    \* requests in their second round
    token,      \* the token a request works with
    since,      \* when its present leg began
    answer,     \* what the browser gets
    executed    \* history: how often the API has executed each request

apiVars     == <<revoked, key>>
sessionVars == <<loggedIn, cached, freshUntil>>
requestVars == <<pc, retried, token, since, answer, executed>>
vars        == <<now, apiVars, sessionVars, requestVars>>

Tokens  == [exp : 0..(MaxTime + TTL), key : 0..MaxRotations]
NoToken == [exp |-> 0, key |-> 0]
Answers == {"none", "ok", "login", "unauthorized", "bad_gateway", "failed"}
Labels  == {"new", "token", "ask", "granted", "send", "sent", "served", "rejected", "answered"}

\* A login has verified the credential by exchanging it and dropped the token it got: the
\* session begins without one.
Init ==
    /\ now = 0
    /\ revoked = FALSE
    /\ key = 0
    /\ loggedIn = TRUE
    /\ cached = NoToken
    /\ freshUntil = 0
    /\ pc      = [r \in Requests |-> "new"]
    /\ retried = {}
    /\ token   = [r \in Requests |-> NoToken]
    /\ since   = [r \in Requests |-> 0]
    /\ answer  = [r \in Requests |-> "none"]
    /\ executed = [r \in Requests |-> 0]

Goto(r, label) == pc' = [pc EXCEPT ![r] = label]

Finish(r, a) == Goto(r, "answered") /\ answer' = [answer EXCEPT ![r] = a]

-----------------------------------------------------------------------------
(* The world around the proxy. *)

\* Time passes, no further than the slowest leg allows.
Tick ==
    /\ now < MaxTime
    /\ \A r \in Requests : pc[r] \in {"granted", "send", "sent"} => now < since[r] + MaxLatency
    /\ now' = now + 1
    /\ UNCHANGED <<apiVars, sessionVars, requestVars>>

Revoke ==
    /\ ~revoked
    /\ revoked' = TRUE
    /\ UNCHANGED <<now, key, sessionVars, requestVars>>

Rotate ==
    /\ key < MaxRotations
    /\ key' = key + 1
    /\ UNCHANGED <<now, revoked, sessionVars, requestVars>>

\* Logout removes the session from the store; requests under way still hold it.
Logout ==
    /\ loggedIn
    /\ loggedIn' = FALSE
    /\ UNCHANGED <<now, apiVars, cached, freshUntil, requestVars>>

-----------------------------------------------------------------------------
(* proxy(): one round of a request. *)

FindSession(r) ==
    /\ pc[r] = "new"
    /\ IF loggedIn
       THEN Goto(r, "token") /\ UNCHANGED answer
       ELSE Finish(r, "login")
    /\ UNCHANGED <<now, apiVars, sessionVars, retried, token, since, executed>>

\* Mutant: the retry, too, takes the cached token.
FreshUnforced(r) == now + Margin < freshUntil

\* Mutant: no margin.
FreshToTheEnd(r) == r \notin retried /\ now < freshUntil

\* The cached token will do: not forced, and not about to expire.
Fresh(r) == r \notin retried /\ now + Margin < freshUntil

TakeToken(r) ==
    /\ pc[r] = "token"
    /\ IF Fresh(r)
       THEN /\ token' = [token EXCEPT ![r] = cached]
            /\ since' = [since EXCEPT ![r] = now]
            /\ Goto(r, "send")
       ELSE Goto(r, "ask") /\ UNCHANGED <<token, since>>
    /\ UNCHANGED <<now, apiVars, sessionVars, retried, answer, executed>>

\* The token endpoint signs a token ...
Grant(r) ==
    /\ pc[r] = "ask"
    /\ ~revoked
    /\ token' = [token EXCEPT ![r] = [exp |-> now + TTL, key |-> key]]
    /\ since' = [since EXCEPT ![r] = now]
    /\ Goto(r, "granted")
    /\ UNCHANGED <<now, apiVars, sessionVars, retried, answer, executed>>

\* ... or refuses: 502.
Refuse(r) ==
    /\ pc[r] = "ask"
    /\ revoked \/ "throttle" \in Faults
    /\ Finish(r, "bad_gateway")
    /\ UNCHANGED <<now, apiVars, sessionVars, retried, token, since, executed>>

\* The answer arrives: the session's token is replaced, by whoever comes last.
StoreToken(r) ==
    /\ pc[r] = "granted"
    /\ cached' = token[r]
    /\ freshUntil' = now + TTL
    /\ since' = [since EXCEPT ![r] = now]
    /\ Goto(r, "send")
    /\ UNCHANGED <<now, apiVars, loggedIn, retried, token, answer, executed>>

\* The upstream request.  A POST's body is read from the incoming request, which can
\* be done once: reading it again throws, and nothing catches it.
Send(r) ==
    /\ pc[r] = "send"
    /\ IF r \in Posts /\ r \in retried
       THEN Finish(r, "failed")
       ELSE Goto(r, "sent") /\ UNCHANGED answer
    /\ UNCHANGED <<now, apiVars, sessionVars, retried, token, since, executed>>

\* What get_current_tenant() makes of a token.
Valid(t) == ~revoked /\ t.key = key /\ now < t.exp

\* The API executes the request, or answers 401 before its handler is reached ...
Serve(r) ==
    /\ pc[r] = "sent"
    /\ IF Valid(token[r])
       THEN Goto(r, "served") /\ executed' = [executed EXCEPT ![r] = @ + 1]
       ELSE Goto(r, "rejected") /\ UNCHANGED executed
    /\ UNCHANGED <<now, apiVars, sessionVars, retried, token, since, answer>>

\* ... and what it says, "ok" for whatever is not a 401, is passed through.
PassOn(r) ==
    /\ pc[r] = "served"
    /\ Finish(r, "ok")
    /\ UNCHANGED <<now, apiVars, sessionVars, retried, token, since, executed>>

\* A 401 from the API: refresh once, retry once; the second one is passed on.
Retry(r) ==
    /\ pc[r] = "rejected"
    /\ IF r \in retried
       THEN Finish(r, "unauthorized") /\ UNCHANGED retried
       ELSE Goto(r, "new") /\ retried' = retried \cup {r} /\ UNCHANGED answer
    /\ UNCHANGED <<now, apiVars, sessionVars, token, since, executed>>

\* Mutant: a call that fails is repeated once, as one that is refused.
NetworkRetried(r) ==
    /\ "network" \in Faults
    /\ \/ pc[r] \in {"ask", "granted"} /\ Finish(r, "bad_gateway") /\ UNCHANGED retried
       \/ pc[r] \in {"sent", "served"} /\ r \in retried /\ Finish(r, "failed") /\ UNCHANGED retried
       \/ /\ pc[r] \in {"sent", "served"} /\ r \notin retried
          /\ Goto(r, "new") /\ retried' = retried \cup {r} /\ UNCHANGED answer
    /\ UNCHANGED <<now, apiVars, sessionVars, token, since, executed>>

\* fetch() rejects, on the way there or back: caught around the token endpoint only.
NetworkFails(r) ==
    /\ "network" \in Faults
    /\ \/ pc[r] \in {"ask", "granted"} /\ Finish(r, "bad_gateway")
       \/ pc[r] \in {"sent", "served"} /\ Finish(r, "failed")
    /\ UNCHANGED <<now, apiVars, sessionVars, retried, token, since, executed>>

-----------------------------------------------------------------------------
Round(r) ==
    \/ FindSession(r) \/ TakeToken(r) \/ Grant(r) \/ Refuse(r)
    \/ StoreToken(r) \/ Send(r) \/ Serve(r) \/ PassOn(r) \/ Retry(r)

Next ==
    \/ Tick \/ Revoke \/ Rotate \/ Logout
    \/ \E r \in Requests : Round(r) \/ NetworkFails(r)

Spec == Init /\ [][Next]_vars

-----------------------------------------------------------------------------
(* Properties. *)

TypeOK ==
    /\ now \in 0..MaxTime
    /\ revoked \in BOOLEAN /\ loggedIn \in BOOLEAN
    /\ key \in 0..MaxRotations
    /\ cached \in Tokens
    /\ freshUntil \in 0..(MaxTime + TTL)
    /\ pc      \in [Requests -> Labels]
    /\ retried \subseteq Requests
    /\ executed \in [Requests -> Nat]
    /\ token   \in [Requests -> Tokens]
    /\ since   \in [Requests -> 0..MaxTime]
    /\ answer  \in [Requests -> Answers]
    /\ \A r \in Requests : pc[r] = "answered" <=> answer[r] # "none"

\* The margin covers the clock: with two legs shorter than the margin, a token never
\* expires on its way to the API, whichever request cached it and however late.
NeverExpiresInUse ==
    \A r \in Requests :
        pc[r] = "rejected" => revoked \/ token[r].key # key \/ now < token[r].exp

\* "Refresh once, retry once" heals what a new token can heal: while the session lasts
\* and the credential is live, a request is not answered 401, even when the
\* key changed under the cached token (at most once).
RefreshHeals ==
    \A r \in Requests : answer[r] \in {"login", "unauthorized"} => ~loggedIn \/ revoked

\* The second round never repeats what was done.  The API executes a request at most once,
\* and not at all when the browser is told that it was refused, or gets a failure because
\* the first round had consumed the body: whoever sends it again does not do it twice.
AtMostOnce ==
    \A r \in Requests :
        /\ executed[r] <= 1
        /\ \/ answer[r] \in {"login", "unauthorized", "bad_gateway"}
           \/ answer[r] = "failed" /\ r \in retried \cap Posts
           => executed[r] = 0

=============================================================================
