------------------------------ MODULE ApiProcess ------------------------------
(***************************************************************************)
(* What the requests of one API process share: the database connection     *)
(* pool, and the models that the first request to need them loads.         *)
(*                                                                         *)
(* A request has one session (get_db_session), which takes a connection    *)
(* with its first statement, in the credential check, and keeps it until   *)
(* it commits or is closed.  A streamed response reads or writes the       *)
(* database through short-lived sessions of its own.  Models are loaded    *)
(* and run in threads, under a lock each, with the connection still held.  *)
(***************************************************************************)
EXTENDS Naturals, FiniteSets

CONSTANTS
    Searches,  \* POST /search
    Answers,   \* POST /answers, streamed
    Watches,   \* GET /documents/{id}/events
    Probes,    \* GET /readyz
    Models,    \* those loaded lazily: "embedder", "reranker"; others need no loading
    Capacity,  \* connections of the pool, overflow included
    MaxPolls,  \* bound: polls of a watch before its deadline
    Closings,  \* when a yield-dependency's exit runs: "early", before the response is
               \* sent (FastAPI to 0.117), or "late", when it has been sent (from 0.118)
    NoOne      \* not a request: who holds a free lock

Requests == Searches \cup Answers \cup Watches \cup Probes
Calls    == Requests \ Probes
Streams  == Answers \cup Watches

ASSUME KindsAssumption ==
    /\ NoOne \notin Requests
    /\ Searches \cap (Answers \cup Watches \cup Probes) = {}
    /\ Answers \cap (Watches \cup Probes) = {} /\ Watches \cap Probes = {}
ASSUME PoolAssumption ==
    /\ Capacity \in Nat /\ MaxPolls \in Nat
    /\ Models \subseteq {"embedder", "reranker"} /\ Closings \subseteq {"early", "late"}

VARIABLES
    closing,  \* which of Closings was installed
    hung,     \* the database has stopped answering
    pc,       \* where each request is
    using,    \* the model a request is at
    main,     \* requests whose own session holds a connection
    extra,    \* requests, or probes, holding a short-lived one
    polls,    \* of each watch
    passed,   \* the checks that succeeded, of each probe
    loaded,   \* models that _get_model() finds
    loads,    \* how often each was loaded
    lock      \* who holds each _load_lock

poolVars  == <<main, extra>>
modelVars == <<using, loaded, loads, lock>>
vars      == <<closing, hung, pc, polls, passed, poolVars, modelVars>>

Labels == {"new", "connect", "auth", "model", "lock", "check", "load", "query", "start",
           "respond", "llm", "sleep", "wait", "extra", "redis", "end", "done"}

Init ==
    /\ closing \in Closings
    /\ hung = FALSE
    /\ pc     = [r \in Requests |-> "new"]
    /\ using  = [r \in Requests |-> "embedder"]
    /\ main = {} /\ extra = {}
    /\ polls  = [r \in Watches |-> 0]
    /\ passed = [r \in Probes |-> {}]
    /\ loaded = {}
    /\ loads  = [m \in Models |-> 0]
    /\ lock   = [m \in Models |-> NoOne]

Goto(r, label) == pc' = [pc EXCEPT ![r] = label]

Free == Capacity > Cardinality(main) + Cardinality(extra)

\* The database comes to a standstill, for good.
Hang == ~hung /\ hung' = TRUE /\ UNCHANGED <<closing, pc, polls, passed, poolVars, modelVars>>

-----------------------------------------------------------------------------
(* The credential check, and the handler up to its response. *)

Arrive(r) ==
    /\ pc[r] = "new"
    /\ Goto(r, IF r \in Probes THEN "wait" ELSE "connect")
    /\ UNCHANGED <<closing, hung, polls, passed, poolVars, modelVars>>

\* The session's first statement takes a connection, which is pinged first.
Connect(r) ==
    /\ pc[r] = "connect" /\ Free /\ ~hung
    /\ main' = main \cup {r}
    /\ Goto(r, "auth")
    /\ UNCHANGED <<closing, hung, extra, polls, passed, modelVars>>

\* get_current_tenant() and the rate limiter let the request in, or not.
Authenticate(r) ==
    /\ pc[r] = "auth" /\ ~hung
    /\ \E label \in {IF r \in Watches THEN "start" ELSE "model", "respond"} : Goto(r, label)
    /\ UNCHANGED <<closing, hung, polls, passed, poolVars, modelVars>>

\* The candidates of both searches; without any there is nothing to rerank.
Query(r) ==
    /\ pc[r] = "query" /\ ~hung
    /\ \/ using' = [using EXCEPT ![r] = "reranker"] /\ Goto(r, "model")
       \/ Goto(r, IF r \in Answers THEN "start" ELSE "respond") /\ UNCHANGED using
    /\ UNCHANGED <<closing, hung, polls, passed, poolVars, loaded, loads, lock>>

\* The response, or an error's: the session is closed and its connection goes back.
Respond(r) ==
    /\ pc[r] = "respond"
    /\ main' = main \ {r}
    /\ Goto(r, "done")
    /\ UNCHANGED <<closing, hung, extra, polls, passed, modelVars>>

-----------------------------------------------------------------------------
(* _get_model() of the embedder and of the reranker. *)

\* What follows when the model has run.
Encoded(r) ==
    Goto(r, CASE using[r] = "embedder" -> "query"
              [] r \in Answers         -> "start"
              [] OTHER                 -> "respond")

UseModel(r) ==
    /\ pc[r] = "model"
    /\ IF using[r] \in Models \ loaded THEN Goto(r, "lock") ELSE Encoded(r)
    /\ UNCHANGED <<closing, hung, polls, passed, poolVars, modelVars>>

AcquireLock(r) ==
    /\ pc[r] = "lock"
    /\ lock[using[r]] = NoOne
    /\ lock' = [lock EXCEPT ![using[r]] = r]
    /\ Goto(r, "check")
    /\ UNCHANGED <<closing, hung, polls, passed, poolVars, using, loaded, loads>>

Release(r) == lock' = [lock EXCEPT ![using[r]] = NoOne]

\* Mutant: no second look.
CheckOnce(r) ==
    /\ pc[r] = "check"
    /\ Goto(r, "load") /\ UNCHANGED lock
    /\ UNCHANGED <<closing, hung, polls, passed, poolVars, using, loaded, loads>>

\* Another request may have loaded it meanwhile.
CheckAgain(r) ==
    /\ pc[r] = "check"
    /\ IF using[r] \in loaded
       THEN Encoded(r) /\ Release(r)
       ELSE Goto(r, "load") /\ UNCHANGED lock
    /\ UNCHANGED <<closing, hung, polls, passed, poolVars, using, loaded, loads>>

LoadModel(r) ==
    /\ pc[r] = "load"
    /\ loaded' = loaded \cup {using[r]}
    /\ loads'  = [loads EXCEPT ![using[r]] = @ + 1]
    /\ Encoded(r) /\ Release(r)
    /\ UNCHANGED <<closing, hung, polls, passed, poolVars, using>>

\* Mutant: the lock is not released when the constructor raises.
LoadFailsLocked(r) ==
    /\ pc[r] = "load"
    /\ Goto(r, "respond")
    /\ UNCHANGED <<closing, hung, polls, passed, poolVars, modelVars>>

\* No library, no network, a model of the wrong dimension: the next request tries again.
LoadFails(r) ==
    /\ pc[r] = "load"
    /\ Goto(r, "respond") /\ Release(r)
    /\ UNCHANGED <<closing, hung, polls, passed, poolVars, using, loaded, loads>>

-----------------------------------------------------------------------------
(* Streamed responses. *)

\* Mutant: the request's session stays open while the response is streamed.
StartStreamHolding(r) ==
    /\ pc[r] = "start"
    /\ Goto(r, IF r \in Answers THEN "llm" ELSE "wait")
    /\ UNCHANGED <<closing, hung, polls, passed, poolVars, modelVars>>

\* The handler has returned the generator.
StartStream(r) ==
    /\ pc[r] = "start"
    /\ main' = IF closing = "early" THEN main \ {r} ELSE main
    /\ Goto(r, IF r \in Answers THEN "llm" ELSE "wait")
    /\ UNCHANGED <<closing, hung, extra, polls, passed, modelVars>>

\* The LLM's last event, whose usage is to be recorded; or it fails, or was not needed.
GenerationEnds(r) ==
    /\ pc[r] = "llm"
    /\ \E label \in {"wait", "end"} : Goto(r, label)
    /\ UNCHANGED <<closing, hung, polls, passed, poolVars, modelVars>>

ConnectExtra(r) ==
    /\ pc[r] = "wait" /\ Free /\ ~hung
    /\ extra' = extra \cup {r}
    /\ Goto(r, "extra")
    /\ UNCHANGED <<closing, hung, main, polls, passed, modelVars>>

\* _record_usage(): one commit.
RecordUsage(r) ==
    /\ r \in Answers /\ pc[r] = "extra" /\ ~hung
    /\ extra' = extra \ {r}
    /\ Goto(r, "end")
    /\ UNCHANGED <<closing, hung, main, polls, passed, modelVars>>

\* One look at the document: the stream goes on, or it was the last.
Poll(r) ==
    /\ r \in Watches /\ pc[r] = "extra" /\ ~hung
    /\ extra' = extra \ {r}
    /\ polls' = [polls EXCEPT ![r] = @ + 1]
    /\ \E label \in {"end"} \cup (IF polls[r] < MaxPolls THEN {"sleep"} ELSE {}) : Goto(r, label)
    /\ UNCHANGED <<closing, hung, main, passed, modelVars>>

Wake(r) ==
    /\ pc[r] = "sleep"
    /\ Goto(r, "wait")
    /\ UNCHANGED <<closing, hung, polls, passed, poolVars, modelVars>>

EndStream(r) ==
    /\ pc[r] = "end"
    /\ main' = main \ {r}
    /\ Goto(r, "done")
    /\ UNCHANGED <<closing, hung, extra, polls, passed, modelVars>>

\* The client goes away: the generator is cancelled and every session closed.
Disconnect(r) ==
    /\ r \in Streams /\ pc[r] \in {"llm", "wait", "extra", "sleep"}
    /\ main' = main \ {r} /\ extra' = extra \ {r}
    /\ Goto(r, "done")
    /\ UNCHANGED <<closing, hung, polls, passed, modelVars>>

\* pool_timeout: the pool was exhausted for 30 seconds.
PoolTimesOut(r) ==
    /\ r \in Calls /\ ~Free
    /\ \/ pc[r] = "connect" /\ Goto(r, "respond")
       \/ pc[r] = "wait" /\ Goto(r, "end")
    /\ UNCHANGED <<closing, hung, polls, passed, poolVars, modelVars>>

-----------------------------------------------------------------------------
(* readyz. *)

CheckPostgres(r) ==
    /\ r \in Probes /\ pc[r] = "extra" /\ ~hung
    /\ extra' = extra \ {r}
    /\ \E ok \in {{}, {"postgres"}} : passed' = [passed EXCEPT ![r] = ok]
    /\ Goto(r, "redis")
    /\ UNCHANGED <<closing, hung, main, polls, modelVars>>

\* wait_for(): two seconds for the connection and the answer together.
CheckTimesOut(r) ==
    /\ r \in Probes /\ pc[r] \in {"wait", "extra"}
    /\ extra' = extra \ {r}
    /\ Goto(r, "redis")
    /\ UNCHANGED <<closing, hung, main, polls, passed, modelVars>>

\* Redis answers in time or not; the verdict is ready when both did.
CheckRedis(r) ==
    /\ r \in Probes /\ pc[r] = "redis"
    /\ \E ok \in {{}, {"redis"}} : passed' = [passed EXCEPT ![r] = @ \cup ok]
    /\ Goto(r, "done")
    /\ UNCHANGED <<closing, hung, polls, poolVars, modelVars>>

-----------------------------------------------------------------------------
Handle(r) ==
    \/ Connect(r) \/ Authenticate(r) \/ Query(r) \/ Respond(r)
    \/ UseModel(r) \/ AcquireLock(r) \/ CheckAgain(r) \/ LoadModel(r) \/ LoadFails(r)
    \/ StartStream(r) \/ GenerationEnds(r) \/ ConnectExtra(r) \/ RecordUsage(r) \/ Poll(r)
    \/ Wake(r) \/ EndStream(r) \/ PoolTimesOut(r)

Probe(r) == CheckPostgres(r) \/ CheckTimesOut(r) \/ CheckRedis(r)

Next ==
    \/ Hang
    \/ \E r \in Requests : Arrive(r) \/ Handle(r) \/ Disconnect(r) \/ Probe(r)

Spec == Init /\ [][Next]_vars

\* The event loop and the threads run and timers fire: somebody gets what is free.  No
\* request has to arrive, and no client to leave.
Fairness ==
    /\ \A r \in Calls : WF_vars(Handle(r))
    /\ \A r \in Probes : WF_vars(Probe(r))

FairSpec == Spec /\ Fairness

-----------------------------------------------------------------------------
(* Properties. *)

TypeOK ==
    /\ closing \in Closings
    /\ hung \in BOOLEAN
    /\ pc     \in [Requests -> Labels]
    /\ using  \in [Requests -> {"embedder", "reranker"}]
    /\ main \subseteq Calls /\ extra \subseteq Requests \ Searches
    /\ polls  \in [Watches -> 0..(MaxPolls + 1)]
    /\ passed \in [Probes -> SUBSET {"postgres", "redis"}]
    /\ loaded \subseteq Models
    /\ loads  \in [Models -> Nat]
    /\ lock   \in [Models -> Requests \cup {NoOne}]

\* "Double-checked: load once per process": however many requests find no model at the
\* same time, and whatever loads fail before, each model is loaded once.
LoadedOnce ==
    \A m \in Models : loads[m] <= 1 /\ (m \in loaded <=> loads[m] = 1)

\* When sessions are closed before a response is streamed, the pool never locks up: if
\* it is empty, somebody who holds a connection is not waiting for another one.
NoPoolDeadlock ==
    closing = "early" /\ ~Free /\ Capacity > 0 => \E r \in main \cup extra : pc[r] # "wait"

\* "The request-scoped DB session closes when streaming begins": a response that is
\* being streamed holds no connection but its short-lived one.
StreamsHoldNothing ==
    \A r \in Streams : pc[r] \in {"llm", "wait", "extra", "sleep"} => r \notin main

\* Every request comes to an end, even one that waits for a connection of a pool that
\* others have exhausted for good, or for a model whose load fails; a readiness probe
\* does although the database hangs.
EveryRequestEnds ==
    \A r \in Requests : pc[r] # "new" ~> pc[r] = "done" \/ (hung /\ r \in Calls)

=============================================================================
