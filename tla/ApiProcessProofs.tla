-------------------------- MODULE ApiProcessProofs --------------------------
(***************************************************************************)
(* What holds of the pool and of the models of an API process for every    *)
(* set of requests, every size of the pool and any number of polls.        *)
(***************************************************************************)
EXTENDS ApiProcess, FiniteSetTheorems, TLAPS

-----------------------------------------------------------------------------
(* The inductive invariant. *)

\* Where a request of each kind can be.
KindLabels ==
    \A r \in Requests :
        /\ r \in Searches =>
              pc[r] \notin {"start", "llm", "sleep", "wait", "extra", "redis", "end"}
        /\ r \in Probes => pc[r] \in {"new", "wait", "extra", "redis", "done"}

\* A watch that may poll again has not used up its polls.
PollsLeft ==
    \A r \in Watches : pc[r] \notin {"end", "done"} => polls[r] <= MaxPolls

\* Short-lived sessions are short; and when sessions are closed early, a request holds its
\* own connection only until its response starts.
Pooled ==
    /\ \A r \in extra : pc[r] = "extra"
    /\ closing = "early" =>
          \A r \in main : pc[r] \notin {"llm", "wait", "extra", "sleep", "end", "done"}

\* Who looks again or loads holds the lock of a model, and who loads has seen that it is
\* missing.
Locked ==
    \A r \in Requests :
        /\ pc[r] = "lock" => using[r] \in Models
        /\ pc[r] \in {"check", "load"} => using[r] \in Models /\ lock[using[r]] = r
        /\ pc[r] = "load" => using[r] \notin loaded

Inv == TypeOK /\ KindLabels /\ PollsLeft /\ Pooled /\ Locked /\ LoadedOnce

\* What follows when a model has run.
LEMMA EncodedLabel ==
    ASSUME NEW r \in Requests, Encoded(r)
    PROVE  \E l \in {"query", "start", "respond"} : Goto(r, l) /\ (l = "start" => r \in Answers)
<1>1. CASE using[r] = "embedder"
  BY <1>1 DEF Encoded
<1>2. CASE using[r] # "embedder" /\ r \in Answers
  BY <1>2 DEF Encoded
<1>3. CASE using[r] # "embedder" /\ r \notin Answers
  BY <1>3 DEF Encoded
<1>. QED
  BY <1>1, <1>2, <1>3

-----------------------------------------------------------------------------
(* Each conjunct is preserved. *)

LEMMA InitInv ==
    Init => Inv
<1>. USE KindsAssumption, PoolAssumption DEF Init, Requests, Calls
<1>1. Init => TypeOK
  <2>1. Init => hung \in BOOLEAN
    BY Zenon
  <2>. QED
    BY <2>1 DEF TypeOK, Labels
<1>2. Init => KindLabels /\ PollsLeft /\ Pooled /\ Locked
  BY DEF KindLabels, PollsLeft, Pooled, Locked
<1>3. Init => LoadedOnce
  BY DEF LoadedOnce
<1>. QED
  BY <1>1, <1>2, <1>3 DEF Inv

LEMMA TypePreserved ==
    ASSUME Inv, [Next]_vars
    PROVE  TypeOK'
<1>. USE KindsAssumption, PoolAssumption
     DEF Requests, Calls, Streams, Goto, Release, Labels, poolVars, modelVars
<1>0. TypeOK /\ KindLabels /\ PollsLeft /\ Locked
  BY DEF Inv
<1>1. CASE Hang
  BY <1>0, <1>1 DEF Hang, TypeOK
<1>2. ASSUME NEW r \in Requests, Arrive(r) \/ Authenticate(r) \/ GenerationEnds(r) \/ Wake(r)
      PROVE  TypeOK'
  <2>1. PICK l \in Labels : Goto(r, l)
    BY <1>2 DEF Arrive, Authenticate, GenerationEnds, Wake
  <2>2. UNCHANGED <<closing, hung, polls, passed, poolVars, modelVars>>
    BY <1>2 DEF Arrive, Authenticate, GenerationEnds, Wake
  <2>. QED
    BY <1>0, <2>1, <2>2 DEF TypeOK
<1>3. ASSUME NEW r \in Requests, Connect(r)
      PROVE  TypeOK'
  BY <1>0, <1>3 DEF Connect, TypeOK, KindLabels
<1>4. ASSUME NEW r \in Requests, Query(r)
      PROVE  TypeOK'
  BY <1>0, <1>4 DEF Query, TypeOK
<1>5. ASSUME NEW r \in Requests, Respond(r) \/ StartStream(r) \/ EndStream(r) \/ Disconnect(r)
      PROVE  TypeOK'
  BY <1>0, <1>5 DEF Respond, StartStream, EndStream, Disconnect, TypeOK
<1>6. ASSUME NEW r \in Requests, UseModel(r)
      PROVE  TypeOK'
  <2>1. PICK l \in Labels : Goto(r, l)
    BY <1>6, EncodedLabel DEF UseModel
  <2>. QED
    BY <1>0, <1>6, <2>1 DEF UseModel, TypeOK
<1>7. ASSUME NEW r \in Requests, AcquireLock(r)
      PROVE  TypeOK'
  BY <1>0, <1>7 DEF AcquireLock, TypeOK
<1>8. ASSUME NEW r \in Requests, CheckAgain(r)
      PROVE  TypeOK'
  <2>1. PICK l \in Labels : Goto(r, l)
    BY <1>8, EncodedLabel DEF CheckAgain
  <2>. QED
    BY <1>0, <1>8, <2>1 DEF CheckAgain, TypeOK
<1>9. ASSUME NEW r \in Requests, LoadModel(r)
      PROVE  TypeOK'
  <2>1. PICK l \in Labels : Goto(r, l)
    BY <1>9, EncodedLabel DEF LoadModel
  <2>2. using[r] \in Models
    BY <1>0, <1>9 DEF LoadModel, Locked
  <2>. QED
    <3>1. loaded' \subseteq Models
      BY <1>0, <1>9, <2>2 DEF LoadModel, TypeOK
    <3>2. loads' \in [Models -> Nat]
      <4>1. loads' = [loads EXCEPT ![using[r]] = @ + 1] /\ loads \in [Models -> Nat]
        BY <1>0, <1>9 DEF LoadModel, TypeOK
      <4>. HIDE KindsAssumption, PoolAssumption
      <4>. QED
        BY <4>1, <2>2, SMT
    <3>3. lock' \in [Models -> Requests \cup {NoOne}] /\ pc' \in [Requests -> Labels]
      BY <1>0, <1>9, <2>1 DEF LoadModel, TypeOK
    <3>. QED
      BY <1>0, <1>9, <3>1, <3>2, <3>3 DEF LoadModel, TypeOK
<1>10. ASSUME NEW r \in Requests, LoadFails(r)
       PROVE  TypeOK'
  BY <1>0, <1>10 DEF LoadFails, TypeOK
<1>11. ASSUME NEW r \in Requests, ConnectExtra(r)
       PROVE  TypeOK'
  BY <1>0, <1>11 DEF ConnectExtra, TypeOK, KindLabels
<1>12. ASSUME NEW r \in Requests, RecordUsage(r) \/ PoolTimesOut(r)
       PROVE  TypeOK'
  BY <1>0, <1>12 DEF RecordUsage, PoolTimesOut, TypeOK
<1>13. ASSUME NEW r \in Requests, Poll(r)
       PROVE  TypeOK'
  BY <1>0, <1>13 DEF Poll, TypeOK, PollsLeft
<1>14. ASSUME NEW r \in Requests, Probe(r)
       PROVE  TypeOK'
  <2>1. CASE CheckPostgres(r)
    BY <1>0, <2>1 DEF CheckPostgres, TypeOK
  <2>2. CASE CheckTimesOut(r)
    BY <1>0, <2>2 DEF CheckTimesOut, TypeOK
  <2>3. CASE CheckRedis(r)
    BY <1>0, <2>3 DEF CheckRedis, TypeOK
  <2>. QED
    BY <1>14, <2>1, <2>2, <2>3 DEF Probe
<1>15. CASE UNCHANGED vars
  BY <1>0, <1>15 DEF vars, TypeOK
<1>. QED
  BY <1>1, <1>2, <1>3, <1>4, <1>5, <1>6, <1>7, <1>8, <1>9, <1>10, <1>11, <1>12, <1>13, <1>14, <1>15
     DEF Next, Handle

LEMMA LabelsPreserved ==
    ASSUME Inv, [Next]_vars
    PROVE  KindLabels'
<1>. USE KindsAssumption DEF Requests, Calls, Streams, Goto, KindLabels
<1>0. pc \in [Requests -> Labels] /\ KindLabels
  BY DEF Inv, TypeOK
<1>1. CASE Hang \/ UNCHANGED vars
  BY <1>0, <1>1 DEF Hang, vars
<1>2. ASSUME NEW r \in Requests,
             \/ Arrive(r) \/ Connect(r) \/ Authenticate(r)
             \/ Query(r) \/ Respond(r)
      PROVE  KindLabels'
  BY <1>0, <1>2 DEF Arrive, Connect, Authenticate, Query, Respond
<1>3. ASSUME NEW r \in Requests, UseModel(r) \/ AcquireLock(r) \/ CheckAgain(r)
      PROVE  KindLabels'
  <2>1. PICK l \in {"lock", "check", "load", "query", "start", "respond"} :
           Goto(r, l) /\ (l = "start" => r \in Answers)
    BY <1>3, EncodedLabel DEF UseModel, AcquireLock, CheckAgain
  <2>2. pc[r] \in {"model", "lock", "check"}
    BY <1>3 DEF UseModel, AcquireLock, CheckAgain
  <2>. QED
    BY <1>0, <2>1, <2>2
<1>4. ASSUME NEW r \in Requests, LoadModel(r) \/ LoadFails(r)
      PROVE  KindLabels'
  <2>1. PICK l \in {"query", "start", "respond"} : Goto(r, l) /\ (l = "start" => r \in Answers)
    BY <1>4, EncodedLabel DEF LoadModel, LoadFails
  <2>2. pc[r] = "load"
    BY <1>4 DEF LoadModel, LoadFails
  <2>. QED
    BY <1>0, <2>1, <2>2
<1>5. ASSUME NEW r \in Requests,
             \/ StartStream(r) \/ GenerationEnds(r)
             \/ ConnectExtra(r) \/ RecordUsage(r)
      PROVE  KindLabels'
  BY <1>0, <1>5 DEF StartStream, GenerationEnds, ConnectExtra, RecordUsage
<1>6. ASSUME NEW r \in Requests, Poll(r) \/ Wake(r) \/ EndStream(r)
      PROVE  KindLabels'
  BY <1>0, <1>6 DEF Poll, Wake, EndStream
<1>7. ASSUME NEW r \in Requests, Disconnect(r) \/ PoolTimesOut(r) \/ Probe(r)
      PROVE  KindLabels'
  BY <1>0, <1>7 DEF Disconnect, PoolTimesOut, Probe, CheckPostgres, CheckTimesOut, CheckRedis
<1>. QED
  BY <1>1, <1>2, <1>3, <1>4, <1>5, <1>6, <1>7 DEF Next, Handle

LEMMA PollsPreserved ==
    ASSUME Inv, [Next]_vars
    PROVE  PollsLeft'
<1>. USE PoolAssumption, KindsAssumption DEF Requests, Calls, Streams, Goto, PollsLeft
<1>0. TypeOK /\ PollsLeft /\ pc \in [Requests -> Labels]
  BY DEF Inv, TypeOK
<1>1. SUFFICES ASSUME NEW w \in Watches, pc'[w] \notin {"end", "done"}
               PROVE  polls'[w] <= MaxPolls
  OBVIOUS
<1>2. ASSUME NEW r \in Requests, Poll(r)
      PROVE  polls'[w] <= MaxPolls
  BY <1>0, <1>1, <1>2 DEF Poll, TypeOK
<1>3. CASE polls' = polls /\ pc[w] \notin {"end", "done"}
  BY <1>0, <1>3
<1>4. CASE Hang \/ UNCHANGED vars
  BY <1>0, <1>1, <1>4 DEF Hang, vars
<1>5. ASSUME NEW r \in Requests,
             \/ Arrive(r) \/ Connect(r) \/ Authenticate(r) \/ Query(r) \/ Respond(r)
             \/ UseModel(r) \/ AcquireLock(r) \/ CheckAgain(r) \/ LoadModel(r) \/ LoadFails(r)
      PROVE  polls'[w] <= MaxPolls
  <2>1. pc[r] \notin {"end", "done"} /\ polls' = polls
    BY <1>5 DEF Arrive, Connect, Authenticate, Query, Respond, UseModel, AcquireLock, CheckAgain,
                LoadModel, LoadFails
  <2>2. \E l : Goto(r, l)
    BY <1>5, EncodedLabel
       DEF Arrive, Connect, Authenticate, Query, Respond, UseModel, AcquireLock, CheckAgain,
           LoadModel, LoadFails
  <2>. QED
    BY <1>0, <1>1, <2>1, <2>2
<1>6. ASSUME NEW r \in Requests,
             \/ StartStream(r) \/ GenerationEnds(r) \/ ConnectExtra(r) \/ RecordUsage(r)
             \/ Wake(r) \/ EndStream(r) \/ PoolTimesOut(r) \/ Disconnect(r) \/ Probe(r)
      PROVE  polls'[w] <= MaxPolls
  <2>1. polls' = polls /\ (pc[r] \in {"end", "done"} => Goto(r, "done"))
    BY <1>6
       DEF StartStream, GenerationEnds, ConnectExtra, RecordUsage, Wake, EndStream, PoolTimesOut,
           Disconnect, Probe, CheckPostgres, CheckTimesOut, CheckRedis, poolVars
  <2>2. \E l : Goto(r, l)
    BY <1>6
       DEF StartStream, GenerationEnds, ConnectExtra, RecordUsage, Wake, EndStream, PoolTimesOut,
           Disconnect, Probe, CheckPostgres, CheckTimesOut, CheckRedis
  <2>. QED
    BY <1>0, <1>1, <2>1, <2>2
<1>. QED
  BY <1>2, <1>4, <1>5, <1>6 DEF Next, Handle

LEMMA PoolPreserved ==
    ASSUME Inv, [Next]_vars
    PROVE  Pooled'
<1>. USE KindsAssumption DEF Requests, Calls, Streams, Goto, Pooled, poolVars
<1>0. Pooled /\ KindLabels /\ TypeOK /\ pc \in [Requests -> Labels]
  BY DEF Inv, TypeOK
<1>1. extra \subseteq Requests /\ main \subseteq Requests
  BY <1>0 DEF TypeOK
<1>2. CASE Hang \/ UNCHANGED vars
  BY <1>0, <1>2 DEF Hang, vars
<1>3. ASSUME NEW r \in Requests,
             \/ Arrive(r) \/ Connect(r) \/ Authenticate(r)
             \/ Query(r) \/ Respond(r)
      PROVE  Pooled'
  <2>1. CASE Arrive(r) \/ Authenticate(r) \/ Query(r)
    <3>1. PICK l \in {"wait", "connect", "start", "model", "respond"} :
             Goto(r, l) /\ (l = "wait" => r \in Probes)
      BY <2>1 DEF Arrive, Authenticate, Query
    <3>2. pc[r] \in {"new", "auth", "query"} /\ UNCHANGED <<closing, main, extra>>
      BY <2>1 DEF Arrive, Authenticate, Query
    <3>. QED
      BY <1>0, <1>1, <3>1, <3>2 DEF TypeOK
  <2>2. CASE Connect(r)
    BY <1>0, <1>1, <2>2 DEF Connect
  <2>3. CASE Respond(r)
    BY <1>0, <1>1, <2>3 DEF Respond
  <2>. QED
    BY <1>3, <2>1, <2>2, <2>3
<1>4. ASSUME NEW r \in Requests, UseModel(r) \/ AcquireLock(r) \/ CheckAgain(r)
      PROVE  Pooled'
  <2>1. PICK l \in {"lock", "check", "load", "query", "start", "respond"} : Goto(r, l)
    BY <1>4, EncodedLabel DEF UseModel, AcquireLock, CheckAgain
  <2>2. pc[r] \in {"model", "lock", "check"} /\ UNCHANGED <<closing, main, extra>>
    BY <1>4 DEF UseModel, AcquireLock, CheckAgain
  <2>. QED
    BY <1>0, <1>1, <2>1, <2>2
<1>5. ASSUME NEW r \in Requests, LoadModel(r) \/ LoadFails(r)
      PROVE  Pooled'
  <2>1. PICK l \in {"query", "start", "respond"} : Goto(r, l)
    BY <1>5, EncodedLabel DEF LoadModel, LoadFails
  <2>2. pc[r] = "load" /\ UNCHANGED <<closing, main, extra>>
    BY <1>5 DEF LoadModel, LoadFails
  <2>. QED
    BY <1>0, <1>1, <2>1, <2>2
<1>6. ASSUME NEW r \in Requests,
             \/ StartStream(r) \/ GenerationEnds(r)
             \/ ConnectExtra(r) \/ RecordUsage(r)
      PROVE  Pooled'
  BY <1>0, <1>1, <1>6 DEF StartStream, GenerationEnds, ConnectExtra, RecordUsage
<1>7. ASSUME NEW r \in Requests, Poll(r) \/ Wake(r) \/ EndStream(r)
      PROVE  Pooled'
  BY <1>0, <1>1, <1>7 DEF Poll, Wake, EndStream
<1>8. ASSUME NEW r \in Requests, Disconnect(r) \/ PoolTimesOut(r) \/ Probe(r)
      PROVE  Pooled'
  <2>1. CASE Disconnect(r)
    BY <1>0, <1>1, <2>1 DEF Disconnect
  <2>2. CASE PoolTimesOut(r)
    BY <1>0, <1>1, <2>2 DEF PoolTimesOut
  <2>3. CASE Probe(r)
    <3>1. r \notin main
      BY <1>0, <2>3 DEF TypeOK, Probe, CheckPostgres, CheckTimesOut, CheckRedis
    <3>2. CASE CheckPostgres(r) \/ CheckTimesOut(r)
      BY <1>0, <1>1, <3>1, <3>2 DEF CheckPostgres, CheckTimesOut
    <3>3. CASE CheckRedis(r)
      BY <1>0, <1>1, <3>1, <3>3 DEF CheckRedis
    <3>. QED
      BY <2>3, <3>2, <3>3 DEF Probe
  <2>. QED
    BY <1>8, <2>1, <2>2, <2>3
<1>. QED
  BY <1>2, <1>3, <1>4, <1>5, <1>6, <1>7, <1>8 DEF Next, Handle

LEMMA LockPreserved ==
    ASSUME Inv, [Next]_vars
    PROVE  Locked'
<1>. USE KindsAssumption DEF Requests, Goto, Locked, modelVars, Release
<1>0. /\ Locked /\ pc \in [Requests -> Labels]
      /\ using \in [Requests -> {"embedder", "reranker"}]
      /\ lock \in [Models -> Requests \cup {NoOne}]
  BY DEF Inv, TypeOK
<1>1. CASE Hang \/ UNCHANGED vars
  BY <1>0, <1>1 DEF Hang, vars
<1>2. ASSUME NEW r \in Requests, NEW l \in Labels \ {"lock", "check", "load"}, Goto(r, l),
             UNCHANGED modelVars
      PROVE  Locked'
  BY <1>0, <1>2
<1>3. ASSUME NEW r \in Requests,
             \/ Arrive(r) \/ Connect(r) \/ Authenticate(r) \/ Respond(r)
             \/ StartStream(r) \/ GenerationEnds(r) \/ ConnectExtra(r) \/ RecordUsage(r)
             \/ Poll(r) \/ Wake(r) \/ EndStream(r) \/ Disconnect(r) \/ PoolTimesOut(r)
      PROVE  Locked'
  <2>1. UNCHANGED modelVars
    BY <1>3
       DEF Arrive, Connect, Authenticate, Respond, StartStream, GenerationEnds, ConnectExtra,
           RecordUsage, Poll, Wake, EndStream, Disconnect, PoolTimesOut
  <2>2. \E l \in Labels \ {"lock", "check", "load"} : Goto(r, l)
    BY <1>3
       DEF Arrive, Connect, Authenticate, Respond, StartStream, GenerationEnds, ConnectExtra,
           RecordUsage, Poll, Wake, EndStream, Disconnect, PoolTimesOut, Labels
  <2>. QED
    BY <1>2, <2>1, <2>2
<1>4. ASSUME NEW r \in Requests, Probe(r)
      PROVE  Locked'
  <2>1. UNCHANGED modelVars /\ \E l \in Labels \ {"lock", "check", "load"} : Goto(r, l)
    BY <1>4 DEF Probe, CheckPostgres, CheckTimesOut, CheckRedis, Labels
  <2>. QED
    BY <1>2, <2>1
<1>5. ASSUME NEW r \in Requests, Query(r)
      PROVE  Locked'
  BY <1>0, <1>5 DEF Query
<1>6. ASSUME NEW r \in Requests, UseModel(r)
      PROVE  Locked'
  <2>1. PICK l \in {"lock", "query", "start", "respond"} :
           Goto(r, l) /\ (l = "lock" => using[r] \in Models)
    BY <1>6, EncodedLabel DEF UseModel
  <2>2. UNCHANGED modelVars
    BY <1>6 DEF UseModel
  <2>. QED
    BY <1>0, <2>1, <2>2
<1>7. ASSUME NEW r \in Requests, AcquireLock(r)
      PROVE  Locked'
  BY <1>0, <1>7 DEF AcquireLock
<1>8. ASSUME NEW r \in Requests, CheckAgain(r)
      PROVE  Locked'
  <2>1. CASE using[r] \in loaded
    <3>1. PICK l \in {"query", "start", "respond"} : Goto(r, l)
      BY <1>8, <2>1, EncodedLabel DEF CheckAgain
    <3>. QED
      BY <1>0, <1>8, <2>1, <3>1 DEF CheckAgain
  <2>2. CASE using[r] \notin loaded
    BY <1>0, <1>8, <2>2 DEF CheckAgain
  <2>. QED
    BY <2>1, <2>2
<1>9. ASSUME NEW r \in Requests, LoadModel(r)
      PROVE  Locked'
  <2>1. PICK l \in {"query", "start", "respond"} : Goto(r, l)
    BY <1>9, EncodedLabel DEF LoadModel
  <2>. QED
    BY <1>0, <1>9, <2>1 DEF LoadModel
<1>10. ASSUME NEW r \in Requests, LoadFails(r)
       PROVE  Locked'
  BY <1>0, <1>10 DEF LoadFails
<1>. QED
  BY <1>1, <1>3, <1>4, <1>5, <1>6, <1>7, <1>8, <1>9, <1>10 DEF Next, Handle

LEMMA LoadedOncePreserved ==
    ASSUME Inv, [Next]_vars
    PROVE  LoadedOnce'
<1>0. Locked /\ LoadedOnce /\ loads \in [Models -> Nat]
  BY DEF Inv, TypeOK
<1>1. CASE UNCHANGED <<loaded, loads>>
  BY <1>0, <1>1 DEF LoadedOnce
<1>2. ASSUME NEW r \in Requests, LoadModel(r)
      PROVE  LoadedOnce'
  BY <1>0, <1>2 DEF LoadModel, Locked, LoadedOnce
<1>3. ASSUME NEW r \in Requests,
             \/ Arrive(r) \/ Handle(r)
             \/ Disconnect(r) \/ Probe(r), ~LoadModel(r)
      PROVE  UNCHANGED <<loaded, loads>>
  BY <1>3
     DEF Handle, Arrive, Connect, Authenticate, Query, Respond, UseModel, AcquireLock, CheckAgain,
         LoadFails, StartStream, GenerationEnds, ConnectExtra, RecordUsage, Poll, Wake, EndStream,
         Disconnect, PoolTimesOut, Probe, CheckPostgres, CheckTimesOut, CheckRedis, modelVars
<1>4. CASE Hang \/ UNCHANGED vars
  BY <1>1, <1>4 DEF Hang, vars, modelVars
<1>. QED
  BY <1>1, <1>2, <1>3, <1>4 DEF Next

-----------------------------------------------------------------------------
(* The results. *)

LEMMA Invariance ==
    Spec => []Inv
<1>1. Inv /\ [Next]_vars => Inv'
  BY TypePreserved, LabelsPreserved, PollsPreserved, PoolPreserved, LockPreserved,
     LoadedOncePreserved
     DEF Inv
<1>. QED
  BY InitInv, <1>1, PTL DEF Spec

\* Type correctness of the pool and of the models: connections are held by requests that
\* have a session (get_db_session), a lock by nobody or a request.
THEOREM TypeCorrect ==
    Spec => []TypeOK
<1>1. Inv => TypeOK
  BY DEF Inv
<1>. QED
  BY <1>1, Invariance, PTL

\* _get_model(): the second look under the lock loads each model once per process, however
\* many requests found none, and whatever loads failed before.
THEOREM LoadedOnceHolds ==
    Spec => []LoadedOnce
<1>1. Inv => LoadedOnce
  BY DEF Inv
<1>. QED
  BY <1>1, Invariance, PTL

\* Sessions closed before the response is streamed (get_db_session of an early closing): an
\* exhausted pool always has a holder that does not wait for another connection.
THEOREM NoPoolDeadlockHolds ==
    Spec => []NoPoolDeadlock
<1>1. Inv => NoPoolDeadlock
  <2>1. SUFFICES ASSUME Inv, closing = "early", Capacity > 0,
                        \A r \in main \cup extra : pc[r] = "wait"
                 PROVE  Free
    BY DEF NoPoolDeadlock
  <2>2. main = {} /\ extra = {}
    BY <2>1 DEF Inv, Pooled
  <2>3. Cardinality({}) = 0
    BY FS_EmptySet
  <2>. QED
    BY <2>1, <2>2, <2>3, PoolAssumption DEF Free
<1>. QED
  BY <1>1, Invariance, PTL

\* The same, of each request: with early closing nobody who waits for a short-lived session's
\* connection (to meter, to poll, to probe) has one already.
THEOREM WaitersHoldNothing ==
    Spec => [](closing = "early" => \A r \in main \cup extra : pc[r] # "wait")
<1>1. Inv => (closing = "early" => \A r \in main \cup extra : pc[r] # "wait")
  BY DEF Inv, Pooled
<1>. QED
  BY <1>1, Invariance, PTL

=============================================================================
