----------------------------- MODULE RateLimiter -----------------------------
(***************************************************************************)
(* The fixed-window rate limiter: RateLimiter.check() run by concurrent    *)
(* requests of one tenant (or one client_id) in any number of API          *)
(* processes, against counters in Redis.  Buckets of different keys do not *)
(* meet, so one key is modelled.  Time is in seconds of a clock the        *)
(* processes and Redis share; each Redis command takes effect at a moment  *)
(* of its own.                                                             *)
(***************************************************************************)
EXTENDS Naturals, FiniteSets

CONSTANTS
    Requests,
    Window, Slack,  \* _WINDOW_SECONDS and the slack of a bucket's expiry
    Limit,          \* limit_per_minute
    MaxDelay,       \* from reading the clock until Redis executes the INCR
    MaxTime,        \* bound: the last second modelled
    Faults,         \* what may go wrong with Redis (FaultKinds)
    MaxFaults       \* bound: how often

FaultKinds ==
    { "refused",   \* the command is not executed: RedisError
      "lost",      \* the command is executed, its answer is lost: RedisError
      "crash" }    \* the API process dies between two commands

ASSUME RequestsAssumption == IsFiniteSet(Requests)
ASSUME WindowAssumption   == Window \in Nat \ {0} /\ Slack \in Nat /\ Limit \in Nat
ASSUME DelayAssumption    == MaxDelay \in Nat /\ MaxTime \in Nat
ASSUME FaultsAssumption   == Faults \subseteq FaultKinds /\ MaxFaults \in Nat

VARIABLES
    now,
    pc,      \* where the check of each request is
    clock,   \* `now` as the request read it
    got,     \* the count its INCR returned
    count,   \* Redis: the counter of each window's bucket; 0: no such key
    expiry,  \* Redis: when the bucket is removed; 0: never
    faults   \* so far

redisVars   == <<count, expiry>>
requestVars == <<pc, clock, got>>
vars        == <<now, requestVars, redisVars, faults>>

Times    == 0..MaxTime
Windows  == {t \div Window : t \in Times}
WindowOf(r) == clock[r] \div Window

\* "passed": failed open, with a warning.
Labels == {"new", "incr", "expire", "compare", "admitted", "limited", "passed", "dead"}

Init ==
    /\ now    = 0
    /\ pc     = [r \in Requests |-> "new"]
    /\ clock  = [r \in Requests |-> 0]
    /\ got    = [r \in Requests |-> 0]
    /\ count  = [w \in Windows |-> 0]
    /\ expiry = [w \in Windows |-> 0]
    /\ faults = 0

Goto(r, label) == pc' = [pc EXCEPT ![r] = label]

Inject(kind) ==
    /\ kind \in Faults
    /\ faults < MaxFaults
    /\ faults' = faults + 1

\* Time passes, no further than the slowest INCR under way allows, and Redis drops
\* the buckets that expire.
Tick ==
    /\ now < MaxTime
    /\ \A r \in Requests : pc[r] = "incr" => now < clock[r] + MaxDelay
    /\ now' = now + 1
    /\ LET expired == {w \in Windows : expiry[w] # 0 /\ expiry[w] <= now + 1} IN
       /\ count'  = [w \in Windows |-> IF w \in expired THEN 0 ELSE count[w]]
       /\ expiry' = [w \in Windows |-> IF w \in expired THEN 0 ELSE expiry[w]]
    /\ UNCHANGED <<requestVars, faults>>

-----------------------------------------------------------------------------
\* The request reads the clock, which names its bucket.
ReadClock(r) ==
    /\ pc[r] = "new"
    /\ Goto(r, "incr")
    /\ clock' = [clock EXCEPT ![r] = now]
    /\ UNCHANGED <<now, got, redisVars, faults>>

Increment(r) == count' = [count EXCEPT ![WindowOf(r)] = @ + 1]

\* Mutant: no test for the first request of the window.
IncrNeverExpires(r) ==
    /\ pc[r] = "incr"
    /\ Increment(r)
    /\ got' = [got EXCEPT ![r] = count'[WindowOf(r)]]
    /\ Goto(r, "compare")
    /\ UNCHANGED <<now, clock, expiry, faults>>

\* INCR; only the first of the window goes on to set the expiry.
Incr(r) ==
    /\ pc[r] = "incr"
    /\ Increment(r)
    /\ got' = [got EXCEPT ![r] = count'[WindowOf(r)]]
    /\ Goto(r, IF count'[WindowOf(r)] = 1 THEN "expire" ELSE "compare")
    /\ UNCHANGED <<now, clock, expiry, faults>>

\* Mutant: no slack.
TightLife == Window

\* How long a bucket is kept.
Life == Window + Slack

\* EXPIRE: Redis removes the key that many seconds from now.
Expire(r) ==
    /\ pc[r] = "expire"
    /\ expiry' = [expiry EXCEPT ![WindowOf(r)] = IF count[WindowOf(r)] > 0 THEN now + Life ELSE 0]
    /\ Goto(r, "compare")
    /\ UNCHANGED <<now, clock, got, count, faults>>

Over(r) == got[r] > Limit

Compare(r) ==
    /\ pc[r] = "compare"
    /\ Goto(r, IF Over(r) THEN "limited" ELSE "admitted")
    /\ UNCHANGED <<now, clock, got, redisVars, faults>>

\* RedisError in either command: the request passes.
FailOpen(r) ==
    /\ \/ pc[r] \in {"incr", "expire"} /\ Inject("refused") /\ UNCHANGED redisVars
       \/ pc[r] = "incr" /\ Inject("lost") /\ Increment(r) /\ UNCHANGED expiry
    /\ Goto(r, "passed")
    /\ UNCHANGED <<now, clock, got>>

\* The API process dies in the middle of the check.
Die(r) ==
    /\ pc[r] \in {"incr", "expire", "compare"}
    /\ Inject("crash")
    /\ Goto(r, "dead")
    /\ UNCHANGED <<now, clock, got, redisVars>>

-----------------------------------------------------------------------------
Check(r) == ReadClock(r) \/ Incr(r) \/ Expire(r) \/ Compare(r) \/ FailOpen(r) \/ Die(r)

Next == Tick \/ \E r \in Requests : Check(r)

Spec == Init /\ [][Next]_vars

-----------------------------------------------------------------------------
(* Properties. *)

TypeOK ==
    /\ now    \in Times
    /\ pc     \in [Requests -> Labels]
    /\ clock  \in [Requests -> 0..now]
    /\ got    \in [Requests -> 0..Cardinality(Requests)]
    /\ count  \in [Windows -> 0..Cardinality(Requests)]
    /\ expiry \in [Windows -> Nat]
    /\ faults \in 0..MaxFaults
    /\ \A w \in Windows : expiry[w] # 0 => count[w] > 0

LetThrough(w) == {r \in Requests : pc[r] \in {"admitted", "passed"} /\ WindowOf(r) = w}

\* No window lets through more than the limit and one request per failure of Redis,
\* although requests of the window are still on their way when it is over: they
\* arrive within the slack (MaxDelay <= Slack), before their bucket expires.
WindowLimit ==
    \A w \in Windows : Cardinality(LetThrough(w)) <= Limit + faults

\* "A bucket can never linger unexpired forever": while nothing has failed, a bucket
\* without an expiry has a request under way that will set it.  (A failed EXPIRE, or a
\* crash after INCR, does leave a bucket for ever.)
NoImmortalBucket ==
    faults = 0 =>
        \A w \in Windows :
            count[w] > 0 /\ expiry[w] = 0
                => \E r \in Requests : pc[r] = "expire" /\ WindowOf(r) = w

=============================================================================
