------------------------------- MODULE MCGate -------------------------------
(***************************************************************************)
(* What stands between a call and its handler: Access, then RateLimiter,   *)
(* on one clock.  The limiter's requests are the calls of Access.  All     *)
(* credentials belong to one tenant, and the limiter's key is the tenant:  *)
(* "issuing more credentials must not multiply a tenant's quota".          *)
(***************************************************************************)
EXTENDS RateLimiter, TLC

CONSTANTS Credentials, Exchanges, TTL                        \* see Access

VARIABLES creds, tokens, where, client, bearer, late         \* where: pc of Access

accessVars  == <<creds, tokens, where, client, bearer, late>>
limiterVars == <<requestVars, redisVars, faults>>

Entry == INSTANCE Access WITH Calls <- Requests, pc <- where

ASSUME EntryAssumption == Entry!TimeAssumption /\ Entry!ActorsAssumption

GateInit == Entry!Init /\ Init

\* One second, for both.
GateTick == Entry!Tick /\ Tick

Operate == \E c \in Credentials : Entry!CreateCredential(c) \/ Entry!RevokeCredential(c)

Authenticate(q) == Entry!DecodeToken(q) \/ Entry!CheckCredential(q)

\* Mutant: the quota is counted first.
CheckRateFirst(q) == where[q] \in {"lookup", "running"} /\ Check(q) /\ UNCHANGED <<now, accessVars>>

\* enforce_tenant_rate_limit() depends on get_current_tenant().
CheckRate(q) == where[q] = "running" /\ Check(q) /\ UNCHANGED <<now, accessVars>>

\* The handler; a call over the limit is answered 429 instead.
Handle(q) == pc[q] \in {"admitted", "passed"} /\ Entry!Answer(q)

GateNext ==
    \/ GateTick
    \/ (Operate \/ \E e \in Exchanges : Entry!Exchange(e)) /\ UNCHANGED limiterVars
    \/ \E q \in Requests : (Authenticate(q) \/ Handle(q)) /\ UNCHANGED limiterVars
    \/ \E q \in Requests : CheckRate(q)

gateVars == <<now, accessVars, limiterVars>>

GateSpec == GateInit /\ [][GateNext]_gateVars

RequestSymmetry == Permutations(Exchanges) \cup Permutations(Requests)

-----------------------------------------------------------------------------
\* Access: whoever arrives after a revocation is refused.
RevocationIsImmediate == Entry!RevocationIsImmediate

\* No window lets the tenant have more answers than its limit and one per failure of
\* Redis, however many credentials it calls with; and a call that arrives after its
\* credential was revoked takes nothing from the quota of the others.
QuotaIsTheTenants ==
    /\ \A w \in Windows :
          Cardinality({q \in Requests : where[q] = "done" /\ WindowOf(q) = w}) <= Limit + faults
    /\ \A q \in late \cap Requests : pc[q] = "new"

=============================================================================
