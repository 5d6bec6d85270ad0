--------------------------- MODULE IngestionProofs ---------------------------
(***************************************************************************)
(* What holds of Ingestion for every set of documents, workers and CLI     *)
(* processes, every retry limit and every number of injected failures; and *)
(* that it implements DocumentLifecycle: with relapses under every fault,  *)
(* without them when the environment injects none.                         *)
(***************************************************************************)
EXTENDS IngestionRefinement, TLAPS

\* A busy actor holds a message (for the CLI: the document it registered).
LEMMA BusyHolds ==
    ASSUME TypeOK, NEW a \in Actors, pc[a] # "idle"
    PROVE  held[a] \in Messages /\ held[a].doc \in Docs /\ held[a].retries \in 0..MaxRetries
  BY DEF TypeOK, Messages

\* A flush leaves both columns well typed, and touches no other document.
LEMMA FlushType ==
    ASSUME status \in [Docs -> Statuses], error \in [Docs -> Errors],
           NEW d \in Docs, NEW v, NEW s \in Statuses, NEW e \in Errors,
           Flush(d, v, s, e)
    PROVE  status' \in [Docs -> Statuses] /\ error' \in [Docs -> Errors]
  BY DEF Flush

\* Bags of messages stay bags of messages.
LEMMA PublishType ==
    ASSUME queue \in [Messages -> Nat], NEW m \in Messages, Publish(m)
    PROVE  queue' \in [Messages -> Nat]
  BY DEF Publish

\* Leaving process() or the task keeps the actors' variables well typed.
LEMMA LeaveType ==
    ASSUME TypeOK, NEW a \in Actors, NEW l \in Labels, Leave(a, l)
    PROVE  /\ pc' \in [Actors -> Labels]
           /\ seen' \in [Actors -> [status : Statuses, error : Errors]]
           /\ swept' \subseteq Actors
           /\ pc'[a] = l
           /\ \A b \in Actors \ {a} : pc'[b] = pc[b]
           /\ \A b \in unacked : b # a \/ l # "idle" => pc'[b] # "idle"
  BY DEF TypeOK, Leave, Goto, Unseen, Statuses, Errors, Actors

-----------------------------------------------------------------------------
\* Type correctness: every variable stays in its domain, an actor holds a message
\* exactly while it is not idle, and only a delivery below the limit is retried.
THEOREM TypeCorrect == Spec => []TypeOK
<1>1. Init => TypeOK
  <2>. SUFFICES ASSUME Init PROVE TypeOK
    OBVIOUS
  <2>. USE DEF Init
  <2>1. pc \in [Actors -> Labels] /\ held \in [Actors -> Messages \cup {Nothing}]
    BY DEF Labels
  <2>2. seen \in [Actors -> [status : Statuses, error : Errors]]
    BY DEF Unseen, Statuses, Errors
  <2>3. status \in [Docs -> Statuses] /\ error \in [Docs -> Errors]
    BY DEF Statuses, Errors
  <2>4. faults \in 0..MaxFaults
    BY FaultsAssumption
  <2>. QED
    BY <2>1, <2>2, <2>3, <2>4 DEF TypeOK
<1>2. TypeOK /\ [Next]_vars => TypeOK'
  <2>. SUFFICES ASSUME TypeOK, [Next]_vars PROVE TypeOK'
    OBVIOUS
  <2>1. ASSUME NEW d \in Docs, Register(d) PROVE TypeOK'
    BY <2>1 DEF TypeOK, Register, InsertPending, jobVars, Statuses, NonTerminal
  <2>2. ASSUME NEW d \in Docs, Enqueue(d) PROVE TypeOK'
    <3>1. [doc |-> d, retries |-> 0] \in Messages
      BY RetriesAssumption DEF Messages
    <3>2. queue' \in [Messages -> Nat]
      BY <2>2, <3>1, PublishType DEF TypeOK, Enqueue
    <3>. QED
      BY <2>2, <3>2 DEF TypeOK, Enqueue, docVars, jobVars
  <2>3. ASSUME NEW d \in Docs, EnqueueFails(d) PROVE TypeOK'
    <3>1. "failed" \in Statuses /\ "enqueue" \in Errors
      BY DEF Statuses, Terminal, Errors
    <3>2. status' \in [Docs -> Statuses] /\ error' \in [Docs -> Errors]
      <4>1. CASE Exists(d)
        BY <2>3, <3>1, <4>1, FlushType DEF TypeOK, EnqueueFails
      <4>2. CASE ~Exists(d)
        BY <2>3, <4>2 DEF TypeOK, EnqueueFails
      <4>. QED
        BY <4>1, <4>2
    <3>. QED
      BY <2>3, <3>2 DEF TypeOK, EnqueueFails, jobVars
  <2>4. ASSUME NEW d \in Docs, UploadDies(d) PROVE TypeOK'
    BY <2>4, FaultsAssumption DEF TypeOK, UploadDies, Inject, docVars, jobVars
  <2>5. ASSUME NEW d \in Docs, DeleteDocument(d) PROVE TypeOK'
    BY <2>5 DEF TypeOK, DeleteDocument, jobVars, Statuses, Errors
  <2>6. ASSUME NEW a \in Actors, NEW d \in Docs, CliIngest(a, d) PROVE TypeOK'
    <3>1. [doc |-> d, retries |-> 0] \in Messages
      BY RetriesAssumption DEF Messages
    <3>2. [doc |-> d, retries |-> 0] # Nothing
      BY DocsAssumption DEF Nothing
    <3>. QED
      BY <2>6, <3>1, <3>2
      DEF TypeOK, CliIngest, InsertPending, Goto, Statuses, NonTerminal, Labels, Attempting
  <2>7. ASSUME NEW a \in Actors, Take(a) PROVE TypeOK'
    <3>1. PICK m \in Messages : /\ queue[m] > 0
                                /\ queue' = [queue EXCEPT ![m] = @ - 1]
                                /\ held' = [held EXCEPT ![a] = m]
      BY <2>7 DEF Take
    <3>2. m # Nothing
      BY DocsAssumption DEF Nothing, Messages
    <3>3. queue' \in [Messages -> Nat]
      BY <3>1 DEF TypeOK
    <3>. QED
      BY <2>7, <3>1, <3>2, <3>3 DEF TypeOK, Take, Goto, Labels, Attempting, docVars
  <2>8. ASSUME NEW a \in Actors, Step(a) PROVE TypeOK'
    <3>1. CASE Load(a)
      <4>0. held[a].doc \in Docs
        BY <3>1, BusyHolds DEF Load
      <4>1. CASE Leave(a, "ack")
        <5>1. "ack" \in Labels
          BY DEF Labels
        <5>. QED
          BY <3>1, <4>1, <5>1, LeaveType DEF TypeOK, Load, docVars
      <4>2. CASE Goto(a, "mark") /\ UNCHANGED swept
                 /\ seen' = [seen EXCEPT ![a] = [status |-> status[held[a].doc],
                                                 error |-> error[held[a].doc]]]
        BY <3>1, <4>0, <4>2 DEF TypeOK, Load, Goto, Labels, Attempting, docVars
      <4>. QED
        BY <3>1, <4>1, <4>2 DEF Load
    <3>2. CASE MarkProcessing(a)
      <4>0. held[a].doc \in Docs
        BY <3>2, BusyHolds DEF MarkProcessing
      <4>1. "processing" \in Statuses /\ seen[a].error \in Errors
        BY DEF TypeOK, Statuses, NonTerminal
      <4>2. status' \in [Docs -> Statuses] /\ error' \in [Docs -> Errors]
        BY <3>2, <4>0, <4>1, FlushType DEF TypeOK, MarkProcessing
      <4>3. seen' \in [Actors -> [status : Statuses, error : Errors]]
        BY <3>2, <4>1 DEF TypeOK, MarkProcessing
      <4>. QED
        BY <3>2, <4>2, <4>3 DEF TypeOK, MarkProcessing, Goto, Labels, Attempting
    <3>3. CASE ParseAndEmbed(a)
      BY <3>3 DEF TypeOK, ParseAndEmbed, Goto, Labels, Attempting, docVars
    <3>4. CASE ParseFails(a)
      <4>0. held[a].doc \in Docs
        BY <3>4, BusyHolds DEF ParseFails
      <4>1. "failed" \in Statuses /\ "parse" \in Errors /\ "ack" \in Labels
        BY DEF Statuses, Terminal, Errors, Labels
      <4>2. status' \in [Docs -> Statuses] /\ error' \in [Docs -> Errors]
        BY <3>4, <4>0, <4>1, FlushType DEF TypeOK, ParseFails
      <4>. QED
        BY <3>4, <4>1, <4>2, LeaveType DEF TypeOK, ParseFails
    <3>5. CASE DeleteChunks(a)
      BY <3>5 DEF TypeOK, DeleteChunks, Goto, Labels, Attempting, docVars
    <3>6. CASE Store(a)
      <4>0. held[a].doc \in Docs
        BY <3>6, BusyHolds DEF Store
      <4>1. "completed" \in Statuses /\ "none" \in Errors /\ "ack" \in Labels
        BY DEF Statuses, Terminal, Errors, Labels
      <4>2. status' \in [Docs -> Statuses] /\ error' \in [Docs -> Errors]
        BY <3>6, <4>0, <4>1, FlushType DEF TypeOK, Store
      <4>3. seen' \in [Actors -> [status : Statuses, error : Errors]]
        BY <3>6 DEF TypeOK, Store, Unseen, Statuses, Errors
      <4>4. chunks' \in [Docs -> Nat] /\ chunkCount' \in [Docs -> 0..1]
        BY <3>6, <4>0 DEF TypeOK, Store, IndexesFree
      <4>. QED
        BY <3>6, <4>1, <4>2, <4>3, <4>4 DEF TypeOK, Store, Goto
    <3>7. CASE Transient(a)
      <4>0. held[a].retries \in 0..MaxRetries
        BY <3>7, BusyHolds DEF Transient, Attempting
      <4>. DEFINE l == IF a \in Clis THEN "ack"
                       ELSE IF held[a].retries >= MaxRetries THEN "exhausted" ELSE "retry"
      <4>1. l \in Labels /\ l # "idle" /\ (l = "retry" => held[a].retries < MaxRetries)
        BY <4>0, RetriesAssumption DEF Labels
      <4>2. Leave(a, l) /\ pc[a] # "idle"
        BY <3>7 DEF Transient, Attempting
      <4>. HIDE DEF l
      <4>. QED
        BY <3>7, <4>1, <4>2, LeaveType DEF TypeOK, Transient, docVars
    <3>8. CASE PublishRetry(a)
      <4>1. [doc |-> held[a].doc, retries |-> held[a].retries + 1] \in Messages
        BY <3>8, BusyHolds, RetriesAssumption DEF PublishRetry, TypeOK, Messages
      <4>2. queue' \in [Messages -> Nat]
        BY <3>8, <4>1, PublishType DEF TypeOK, PublishRetry
      <4>. QED
        BY <3>8, <4>2 DEF TypeOK, PublishRetry, Goto, Labels, docVars
    <3>9. CASE LoadToFail(a)
      <4>0. held[a].doc \in Docs
        BY <3>9, BusyHolds DEF LoadToFail
      <4>1. seen' \in [Actors -> [status : Statuses, error : Errors]]
        BY <3>9, <4>0 DEF TypeOK, LoadToFail
      <4>2. \E l \in {"fail", "ack"} : pc' = [pc EXCEPT ![a] = l]
        BY <3>9 DEF LoadToFail, Goto
      <4>. QED
        BY <3>9, <4>1, <4>2 DEF TypeOK, LoadToFail, Labels, docVars
    <3>10. CASE CommitFailure(a)
      <4>0. held[a].doc \in Docs
        BY <3>10, BusyHolds DEF CommitFailure
      <4>1. "failed" \in Statuses /\ "exhausted" \in Errors /\ "ack" \in Labels
        BY DEF Statuses, Terminal, Errors, Labels
      <4>2. status' \in [Docs -> Statuses] /\ error' \in [Docs -> Errors]
        BY <3>10, <4>0, <4>1, FlushType DEF TypeOK, CommitFailure
      <4>. QED
        BY <3>10, <4>1, <4>2, LeaveType DEF TypeOK, CommitFailure
    <3>11. CASE FailureNotRecorded(a)
      <4>1. "ack" \in Labels /\ pc[a] # "idle"
        BY <3>11 DEF Labels, FailureNotRecorded
      <4>2. faults' \in 0..MaxFaults
        BY <3>11, FaultsAssumption DEF TypeOK, FailureNotRecorded, Inject
      <4>. QED
        BY <3>11, <4>1, <4>2, LeaveType DEF TypeOK, FailureNotRecorded, docVars
    <3>12. CASE Ack(a)
      BY <3>12 DEF TypeOK, Ack, Goto, Labels, docVars
    <3>13. CASE RetryNotPublished(a)
      BY <3>13, FaultsAssumption DEF TypeOK, RetryNotPublished, Inject, Goto, Labels, docVars
    <3>. QED
      BY <2>8, <3>1, <3>2, <3>3, <3>4, <3>5, <3>6, <3>7, <3>8, <3>9, <3>10, <3>11, <3>12, <3>13
      DEF Step
  <2>9. ASSUME NEW a \in Actors, WorkerFails(a) PROVE TypeOK'
    <3>1. "idle" \in Labels
      BY DEF Labels
    <3>2. CASE HostCrash(a)
      <4>1. queue' \in [Messages -> Nat]
        BY <3>2, BusyHolds, PublishType DEF TypeOK, HostCrash, Abandon
      <4>2. faults' \in 0..MaxFaults
        BY <3>2, FaultsAssumption DEF TypeOK, HostCrash, Inject
      <4>. QED
        BY <3>1, <3>2, <4>1, <4>2, LeaveType DEF TypeOK, HostCrash, Abandon, docVars
    <3>3. CASE ChildKilled(a) \/ LateCrash(a)
      <4>2. faults' \in 0..MaxFaults
        BY <3>3, FaultsAssumption DEF TypeOK, ChildKilled, LateCrash, Inject
      <4>. QED
        BY <3>1, <3>3, <4>2, LeaveType DEF TypeOK, ChildKilled, LateCrash, Abandon, docVars
    <3>4. CASE Redeliver(a)
      <4>1. queue' \in [Messages -> Nat]
        BY <3>4, BusyHolds, PublishType DEF TypeOK, Redeliver
      <4>2. faults' \in 0..MaxFaults
        BY <3>4, FaultsAssumption DEF TypeOK, Redeliver, Inject
      <4>. QED
        BY <3>4, <4>1, <4>2 DEF TypeOK, Redeliver, docVars
    <3>. QED
      BY <2>9, <3>2, <3>3, <3>4 DEF WorkerFails
  <2>10. CASE Quiet \/ UNCHANGED vars
    BY <2>10 DEF TypeOK, Quiet, vars, docVars, jobVars
  <2>11. ASSUME NEW d \in Docs, DelayRaises(d) PROVE TypeOK'
    <3>1. [doc |-> d, retries |-> 0] \in Messages
      BY RetriesAssumption DEF Messages
    <3>2. queue' \in [Messages -> Nat] /\ faults' \in 0..MaxFaults
      BY <2>11, <3>1, PublishType, FaultsAssumption DEF TypeOK, DelayRaises, Inject
    <3>. QED
      BY <2>11, <3>2 DEF TypeOK, DelayRaises, docVars, jobVars
  <2>12. CASE BrokerRestart
    BY <2>12, FaultsAssumption DEF TypeOK, BrokerRestart, Inject, docVars
  <2>. QED
    BY <2>1, <2>2, <2>3, <2>4, <2>5, <2>6, <2>7, <2>8, <2>9, <2>10, <2>11, <2>12
    DEF Next, Upload
<1>. QED
  BY <1>1, <1>2, PTL DEF Spec

-----------------------------------------------------------------------------
(* The chunks table against the documents row. *)

\* A flush changes the status of its own document only, to the value flushed, and
\* only when the row is there.
LEMMA FlushStatus ==
    ASSUME status \in [Docs -> Statuses], NEW d \in Docs, NEW v, NEW s, NEW e,
           Flush(d, v, s, e), NEW x \in Docs
    PROVE  /\ status'[x] # status[x] => x = d /\ Exists(d) /\ status'[x] = s
           /\ v.status # s => status'[d] = s
  BY DEF Flush, Dirty

\* What ChunksMatchRow says of one document survives a step that leaves its chunks
\* alone and neither completes it nor removes its row.
LEMMA MatchKept ==
    ASSUME ChunksMatchRow, NEW d \in Docs,
           chunks'[d] = chunks[d], chunkCount'[d] = chunkCount[d],
           status'[d] # status[d] => status'[d] \notin {"completed", "absent"}
    PROVE  /\ chunks'[d] = chunkCount'[d]
           /\ status'[d] = "completed" => chunks'[d] = 1
           /\ status'[d] = "absent" => chunks'[d] = 0
  BY DEF ChunksMatchRow

\* One step keeps the agreement: only Store inserts chunk rows, and it commits
\* the count and the status with them.
LEMMA MatchStep == TypeOK /\ ChunksMatchRow /\ [Next]_vars => ChunksMatchRow'
<1>. SUFFICES ASSUME TypeOK, ChunksMatchRow, [Next]_vars PROVE ChunksMatchRow'
  OBVIOUS
<1>0. status \in [Docs -> Statuses]
  BY DEF TypeOK
<1>1. CASE UNCHANGED docVars
  BY <1>1 DEF ChunksMatchRow, docVars
<1>2. ASSUME NEW d \in Docs, InsertPending(d) PROVE ChunksMatchRow'
  <2>1. \A x \in Docs : status'[x] # status[x] => status'[x] = "pending"
    BY <1>0, <1>2 DEF InsertPending
  <2>. QED
    BY <1>2, <2>1, MatchKept DEF InsertPending, ChunksMatchRow
<1>3. ASSUME NEW d \in Docs, NEW v, NEW s, NEW e, Flush(d, v, s, e),
             s \notin {"completed", "absent"}, UNCHANGED <<chunkCount, chunks>>
      PROVE  ChunksMatchRow'
  <2>1. \A x \in Docs : status'[x] # status[x] => status'[x] = s
    BY <1>0, <1>3, FlushStatus
  <2>. QED
    BY <1>3, <2>1, MatchKept DEF ChunksMatchRow
<1>4. ASSUME NEW d \in Docs, EnqueueFails(d) PROVE ChunksMatchRow'
  <2>1. CASE Exists(d)
    BY <1>3, <1>4, <2>1 DEF EnqueueFails
  <2>2. CASE ~Exists(d)
    BY <1>1, <1>4, <2>2 DEF EnqueueFails, docVars
  <2>. QED
    BY <2>1, <2>2
<1>5. ASSUME NEW d \in Docs, DeleteDocument(d) PROVE ChunksMatchRow'
  BY <1>5 DEF DeleteDocument, ChunksMatchRow, TypeOK
<1>6. ASSUME NEW a \in Actors, MarkProcessing(a) PROVE ChunksMatchRow'
  BY <1>3, <1>6, BusyHolds DEF MarkProcessing
<1>7. ASSUME NEW a \in Actors, ParseFails(a) PROVE ChunksMatchRow'
  BY <1>3, <1>7, BusyHolds DEF ParseFails
<1>8. ASSUME NEW a \in Actors, CommitFailure(a) PROVE ChunksMatchRow'
  BY <1>3, <1>8, BusyHolds DEF CommitFailure
<1>9. ASSUME NEW a \in Actors, Store(a) PROVE ChunksMatchRow'
  <2>. DEFINE d == held[a].doc
  <2>1. d \in Docs
    BY <1>9, BusyHolds DEF Store
  <2>2. chunks'[d] = 1 /\ chunkCount'[d] = 1
    BY <1>9, <2>1 DEF Store, IndexesFree, TypeOK
  <2>3. status'[d] # "absent"
    <3>1. Exists(d) /\ Flush(d, seen[a], "completed", "none")
      BY <1>9 DEF Store
    <3>. QED
      BY <1>0, <2>1, <3>1, FlushStatus DEF Exists
  <2>4. \A x \in Docs \ {d} : /\ chunks'[x] = chunks[x]
                              /\ chunkCount'[x] = chunkCount[x]
                              /\ status'[x] = status[x]
    BY <1>0, <1>9, <2>1, FlushStatus DEF Store, TypeOK
  <2>. QED
    BY <2>1, <2>2, <2>3, <2>4 DEF ChunksMatchRow
<1>10. ASSUME NEW a \in Actors, Step(a) PROVE ChunksMatchRow'
  BY <1>1, <1>6, <1>7, <1>8, <1>9, <1>10
  DEF Step, Load, ParseAndEmbed, DeleteChunks, Transient, PublishRetry, RetryNotPublished,
      LoadToFail, FailureNotRecorded, Ack
<1>11. ASSUME NEW a \in Actors, WorkerFails(a) PROVE ChunksMatchRow'
  BY <1>1, <1>11 DEF WorkerFails, HostCrash, LateCrash, ChildKilled, Redeliver
<1>12. ASSUME NEW d \in Docs, Register(d) \/ Upload(d) \/ DeleteDocument(d)
       PROVE  ChunksMatchRow'
  BY <1>1, <1>2, <1>4, <1>5, <1>12 DEF Register, Upload, Enqueue, DelayRaises, UploadDies
<1>13. ASSUME NEW a \in Actors, Take(a) PROVE ChunksMatchRow'
  BY <1>1, <1>13 DEF Take
<1>14. ASSUME NEW a \in Actors, NEW d \in Docs, CliIngest(a, d) PROVE ChunksMatchRow'
  BY <1>2, <1>14 DEF CliIngest
<1>15. CASE BrokerRestart \/ Quiet \/ UNCHANGED vars
  BY <1>1, <1>15 DEF BrokerRestart, Quiet, vars
<1>. QED
  BY <1>10, <1>11, <1>12, <1>13, <1>14, <1>15 DEF Next

\* The chunks table agrees with the documents row in every reachable state, under
\* every fault the module can inject.
THEOREM ChunksAlwaysMatch == Spec => []ChunksMatchRow
<1>1. Init => ChunksMatchRow
  BY DEF Init, ChunksMatchRow
<1>. QED
  BY <1>1, MatchStep, TypeCorrect, PTL DEF Spec

\* Re-processing never opens a window without chunks: no step empties the chunks
\* of a document whose row it leaves in place.
THEOREM SearchableUntilDeleted == Spec => SearchableStays
<1>1. TypeOK /\ ChunksMatchRow /\ [Next]_vars =>
        [\A d \in Docs : chunks[d] > 0 /\ status'[d] # "absent" => chunks'[d] > 0]_vars
  <2>. SUFFICES ASSUME TypeOK, ChunksMatchRow, Next, NEW d \in Docs,
                       chunks[d] > 0, status'[d] # "absent"
                PROVE  chunks'[d] > 0
    OBVIOUS
  <2>1. ASSUME NEW a \in Actors, Store(a) PROVE chunks'[d] > 0
    <3>1. held[a].doc \in Docs
      BY <2>1, BusyHolds DEF Store
    <3>. QED
      BY <2>1, <3>1 DEF Store, IndexesFree, TypeOK
  <2>2. ASSUME NEW e \in Docs, DeleteDocument(e) PROVE chunks'[d] > 0
    BY <2>2 DEF DeleteDocument, TypeOK
  <2>3. CASE UNCHANGED chunks
    BY <2>3
  <2>. QED
    BY <2>1, <2>2, <2>3
    DEF Next, Upload, Step, WorkerFails, Register, InsertPending, Enqueue, DelayRaises,
        EnqueueFails, UploadDies, CliIngest, Take, Load, MarkProcessing, ParseAndEmbed,
        ParseFails, DeleteChunks, Transient, PublishRetry, RetryNotPublished, LoadToFail,
        CommitFailure, FailureNotRecorded, Ack, HostCrash, LateCrash, ChildKilled, Redeliver,
        BrokerRestart, Quiet, vars, docVars
<1>. QED
  BY <1>1, TypeCorrect, ChunksAlwaysMatch, PTL DEF Spec, SearchableStays

-----------------------------------------------------------------------------
(* Nothing is left stuck. *)

\* Past the first commit, an attempt's view of the row says PROCESSING, so that the
\* terminal status it writes differs from the view and is in the UPDATE.
ViewsProcessing ==
    \A a \in Actors : pc[a] \in {"parse", "purge", "store"} => seen[a].status = "processing"

\* Only the steps from "mark" to "store" put an actor in those places, and none of
\* them changes the cached status after MarkProcessing.
LEMMA ViewStep == TypeOK /\ ViewsProcessing /\ [Next]_vars => ViewsProcessing'
<1>. SUFFICES ASSUME TypeOK, ViewsProcessing, [Next]_vars PROVE ViewsProcessing'
  OBVIOUS
<1>1. ASSUME NEW a \in Actors, NEW l \in Labels \ {"parse", "purge", "store"}, Leave(a, l)
      PROVE  ViewsProcessing'
  BY <1>1 DEF TypeOK, ViewsProcessing, Leave, Goto
<1>2. ASSUME NEW a \in Actors, Step(a) PROVE ViewsProcessing'
  <2>1. {"idle", "ack", "retry", "exhausted"} \subseteq Labels \ {"parse", "purge", "store"}
    BY DEF Labels
  <2>2. CASE Load(a) \/ LoadToFail(a)
    BY <1>1, <2>1, <2>2 DEF Load, LoadToFail, TypeOK, ViewsProcessing, Goto
  <2>3. CASE MarkProcessing(a)
    BY <2>3 DEF MarkProcessing, TypeOK, ViewsProcessing, Goto
  <2>4. CASE ParseAndEmbed(a) \/ DeleteChunks(a)
    BY <2>4 DEF ParseAndEmbed, DeleteChunks, TypeOK, ViewsProcessing, Goto
  <2>5. CASE Store(a) \/ PublishRetry(a) \/ RetryNotPublished(a) \/ Ack(a)
    BY <2>5 DEF Store, PublishRetry, RetryNotPublished, Ack, TypeOK, ViewsProcessing, Goto
  <2>6. CASE ParseFails(a) \/ CommitFailure(a) \/ FailureNotRecorded(a) \/ Transient(a)
    BY <1>1, <2>1, <2>6 DEF ParseFails, CommitFailure, FailureNotRecorded, Transient
  <2>. QED
    BY <1>2, <2>2, <2>3, <2>4, <2>5, <2>6 DEF Step
<1>3. ASSUME NEW a \in Actors, Take(a) \/ (\E d \in Docs : CliIngest(a, d))
      PROVE  ViewsProcessing'
  BY <1>3 DEF Take, CliIngest, TypeOK, ViewsProcessing, Goto
<1>4. ASSUME NEW a \in Actors, WorkerFails(a) PROVE ViewsProcessing'
  <2>1. "idle" \in Labels \ {"parse", "purge", "store"}
    BY DEF Labels
  <2>2. CASE Redeliver(a)
    BY <2>2 DEF Redeliver, ViewsProcessing
  <2>. QED
    BY <1>1, <1>4, <2>1, <2>2 DEF WorkerFails, HostCrash, LateCrash, ChildKilled, Abandon
<1>5. CASE BrokerRestart \/ UNCHANGED jobVars
  BY <1>5 DEF BrokerRestart, ViewsProcessing, jobVars
<1>. QED
  BY <1>2, <1>3, <1>4, <1>5
  DEF Next, Register, Upload, Enqueue, DelayRaises, EnqueueFails, UploadDies, DeleteDocument,
      Quiet, vars

\* A document stays answered for when its upload goes on, no message of it is taken
\* and its owners go on owning it.
LEMMA AnsweredKept ==
    ASSUME NEW d \in Docs, Answered(d), uploads'[d] = uploads[d],
           \A m \in Messages : m.doc = d /\ queue[m] > 0 => queue'[m] > 0,
           \A b \in Actors : Owner(b, d) => Owner(b, d)'
    PROVE  Answered(d)'
  BY DEF Answered, Queued

\* An actor that does not move owns what it owned.
LEMMA OwnerKept ==
    ASSUME NEW b \in Actors, NEW d \in Docs, Owner(b, d),
           pc'[b] = pc[b], held'[b] = held[b], seen'[b] = seen[b]
    PROVE  Owner(b, d)'
  BY DEF Owner

\* Publishing only adds messages, and what was published is queued.
LEMMA PublishKeeps ==
    ASSUME TypeOK, NEW m \in Messages, Publish(m)
    PROVE  /\ \A n \in Messages : queue[n] > 0 => queue'[n] > 0
           /\ queue'[m] > 0
           /\ Queued(m.doc)'
  BY DEF TypeOK, Publish, Queued

\* What a step may not do: leave an open row without anybody to answer for it, except by
\* one of the losses.
NewOrphansAreLosses == \A d \in Docs : Orphaned(d)' => Orphaned(d) \/ Strikes(d)

\* The heart of it: a step of actor a leaves every document answered for that was,
\* provided a itself answers for its own document afterwards, or that document is
\* settled, or a was not answering for it; or the step is a loss.
LEMMA ActorStepKeeps ==
    ASSUME TypeOK, NEW a \in Actors, pc[a] # "idle",
           NEW d \in Docs, d = held[a].doc,
           \A b \in Actors \ {a} : pc'[b] = pc[b] /\ held'[b] = held[b] /\ seen'[b] = seen[b],
           \A e \in Docs \ {d} : status'[e] = status[e],
           \A m \in Messages : queue[m] > 0 => queue'[m] > 0,
           uploads' = uploads,
           \/ status'[d] \notin NonTerminal
           \/ Answered(d)'
           \/ ~Owner(a, d) /\ status'[d] = status[d]
           \/ Strikes(d)
    PROVE  NewOrphansAreLosses
<1>. SUFFICES ASSUME NEW e \in Docs, status'[e] \in NonTerminal, ~Orphaned(e), ~Strikes(e)
              PROVE  Answered(e)'
  BY DEF NewOrphansAreLosses, Orphaned
<1>1. \A b \in Actors \ {a} : Owner(b, e) => Owner(b, e)'
  BY OwnerKept
<1>2. CASE ~Owner(a, e) /\ status'[e] = status[e]
  BY <1>1, <1>2, AnsweredKept DEF Orphaned
<1>3. CASE e # d
  BY <1>2, <1>3 DEF Owner
<1>4. CASE e = d
  BY <1>2, <1>4
<1>. QED
  BY <1>3, <1>4

\* Every step of an actor keeps every document answered for: an attempt ends only
\* once it settled its document, found it settled, or published its successor; the
\* CLI's, and one that cannot publish it or record its failure, are the losses.
LEMMA StepKeepsAnswered ==
    ASSUME TypeOK, ViewsProcessing, NEW a \in Actors, Step(a),
           NEW d, d = held[a].doc
    PROVE  NewOrphansAreLosses
<1>0. pc[a] # "idle" /\ d \in Docs /\ held[a] \in Messages
  <2>1. pc[a] # "idle"
    BY DEF Step, Load, MarkProcessing, ParseAndEmbed, ParseFails, DeleteChunks, Store,
           Transient, Attempting, PublishRetry, RetryNotPublished, LoadToFail,
           CommitFailure, FailureNotRecorded, Ack
  <2>. QED
    BY <2>1, BusyHolds
<1>q. UNCHANGED queue => \A m \in Messages : queue[m] > 0 => queue'[m] > 0
  OBVIOUS
<1>l. ASSUME NEW l, Leave(a, l), UNCHANGED held
      PROVE  \A b \in Actors \ {a} : pc'[b] = pc[b] /\ held'[b] = held[b] /\ seen'[b] = seen[b]
  BY <1>l DEF Leave, Goto, TypeOK
<1>g. ASSUME NEW l, Goto(a, l), UNCHANGED held, NEW r, UNCHANGED seen \/ seen' = [seen EXCEPT ![a] = r]
      PROVE  \A b \in Actors \ {a} : pc'[b] = pc[b] /\ held'[b] = held[b] /\ seen'[b] = seen[b]
  BY <1>g DEF Goto, TypeOK
<1>f. ASSUME NEW s, NEW e, Flush(d, seen[a], s, e)
      PROVE  /\ \A x \in Docs \ {d} : status'[x] = status[x]
             /\ seen[a].status # s => status'[d] = s
             /\ status'[d] \in {status[d], s}
  BY <1>0, <1>f, FlushStatus DEF TypeOK
<1>o. Owner(a, d)' => Answered(d)'
  BY DEF Answered
<1>1. CASE Load(a)
  <2>1. CASE Leave(a, "ack") /\ status[d] \in {"absent", "completed"}
    BY <1>0, <1>q, <1>l, <1>1, <2>1, ActorStepKeeps DEF Load, docVars, NonTerminal
  <2>2. CASE Goto(a, "mark") /\ seen' = [seen EXCEPT ![a] = [status |-> status[d], error |-> error[d]]]
    <3>1. Owner(a, d)'
      BY <1>0, <1>1, <2>2 DEF Load, Owner, Goto, Attempting, TypeOK
    <3>. QED
      BY <1>0, <1>q, <1>g, <1>o, <1>1, <2>2, <3>1, ActorStepKeeps DEF Load, docVars
  <2>. QED
    BY <1>1, <2>1, <2>2 DEF Load
<1>2. CASE MarkProcessing(a)
  <2>1. Owner(a, d)'
    BY <1>0, <1>2 DEF MarkProcessing, Owner, Goto, Attempting, TypeOK
  <2>. QED
    BY <1>0, <1>q, <1>g, <1>f, <1>o, <1>2, <2>1, ActorStepKeeps DEF MarkProcessing
<1>3. CASE ParseAndEmbed(a) \/ DeleteChunks(a)
  <2>1. Owner(a, d)'
    BY <1>0, <1>3 DEF ParseAndEmbed, DeleteChunks, Owner, Goto, Attempting, TypeOK
  <2>. QED
    BY <1>0, <1>q, <1>g, <1>o, <1>3, <2>1, ActorStepKeeps
    DEF ParseAndEmbed, DeleteChunks, docVars
<1>4. CASE ParseFails(a)
  <2>1. status'[d] = "failed"
    BY <1>0, <1>f, <1>4 DEF ParseFails, ViewsProcessing
  <2>. QED
    BY <1>0, <1>q, <1>l, <1>f, <1>4, <2>1, ActorStepKeeps DEF ParseFails, NonTerminal
<1>5. CASE Store(a)
  <2>1. status'[d] = "completed"
    BY <1>0, <1>f, <1>5 DEF Store, ViewsProcessing
  <2>. QED
    BY <1>0, <1>q, <1>g, <1>f, <1>5, <2>1, ActorStepKeeps DEF Store, NonTerminal
<1>6. CASE Transient(a)
  <2>1. CASE a \notin Clis
    <3>1. Owner(a, d)'
      BY <1>0, <1>6, <2>1 DEF Transient, Leave, Owner, Goto, TypeOK
    <3>. QED
      BY <1>0, <1>q, <1>l, <1>o, <1>6, <3>1, ActorStepKeeps DEF Transient, docVars
  <2>2. CASE a \in Clis
    <3>1. Strikes(d)
      BY <1>6, <2>2 DEF Strikes, CliGivesUp
    <3>. QED
      BY <1>0, <1>q, <1>l, <1>6, <3>1, ActorStepKeeps DEF Transient, docVars
  <2>. QED
    BY <2>1, <2>2
<1>7. CASE PublishRetry(a)
  <2>. DEFINE m == [doc |-> d, retries |-> held[a].retries + 1]
  <2>1. m \in Messages
    BY <1>0, <1>7, RetriesAssumption DEF PublishRetry, TypeOK, Messages
  <2>2. (\A n \in Messages : queue[n] > 0 => queue'[n] > 0) /\ Queued(d)'
    BY <1>7, <2>1, PublishKeeps DEF PublishRetry
  <2>3. Answered(d)'
    BY <2>2 DEF Answered
  <2>. QED
    BY <1>0, <1>g, <1>7, <2>2, <2>3, ActorStepKeeps DEF PublishRetry, docVars
<1>8. CASE LoadToFail(a)
  <2>1. CASE Exists(d) /\ status[d] # "failed"
    <3>1. Owner(a, d)'
      BY <1>0, <1>8, <2>1 DEF LoadToFail, Owner, Goto, TypeOK
    <3>. QED
      BY <1>0, <1>q, <1>g, <1>o, <1>8, <2>1, <3>1, ActorStepKeeps DEF LoadToFail, docVars
  <2>2. CASE ~Exists(d) \/ status[d] = "failed"
    BY <1>0, <1>q, <1>g, <1>8, <2>2, ActorStepKeeps
    DEF LoadToFail, docVars, Exists, NonTerminal
  <2>. QED
    BY <2>1, <2>2
<1>9. CASE CommitFailure(a)
  <2>1. CASE seen[a].status # "failed"
    <3>1. status'[d] = "failed"
      BY <1>f, <1>9, <2>1 DEF CommitFailure
    <3>. QED
      BY <1>0, <1>q, <1>l, <1>f, <1>9, <3>1, ActorStepKeeps DEF CommitFailure, NonTerminal
  <2>2. CASE seen[a].status = "failed"
    <3>1. ~Owner(a, d)
      BY <1>9, <2>2 DEF CommitFailure, Owner, Attempting
    <3>2. status'[d] \in {status[d], "failed"}
      BY <1>f, <1>9 DEF CommitFailure
    <3>. QED
      BY <1>0, <1>q, <1>l, <1>f, <1>9, <3>1, <3>2, ActorStepKeeps
      DEF CommitFailure, NonTerminal
  <2>. QED
    BY <2>1, <2>2
<1>10. CASE FailureNotRecorded(a)
  <2>1. CASE ~Exists(d)
    BY <1>0, <1>q, <1>l, <1>10, <2>1, ActorStepKeeps
    DEF FailureNotRecorded, docVars, Exists, NonTerminal
  <2>2. CASE Inject("mark_error")
    <3>1. faults' # faults
      BY <2>2 DEF Inject, TypeOK
    <3>2. Strikes(d)
      BY <1>10, <3>1 DEF Strikes, FailureIsDropped
    <3>. QED
      BY <1>0, <1>q, <1>l, <1>10, <3>2, ActorStepKeeps DEF FailureNotRecorded, docVars
  <2>. QED
    BY <1>10, <2>1, <2>2 DEF FailureNotRecorded
<1>11. CASE Ack(a)
  <2>1. ~Owner(a, d)
    BY <1>11 DEF Ack, Owner, Attempting
  <2>2. \A b \in Actors \ {a} : pc'[b] = pc[b] /\ held'[b] = held[b] /\ seen'[b] = seen[b]
    BY <1>11 DEF Ack, Goto, TypeOK
  <2>. QED
    BY <1>0, <1>q, <1>11, <2>1, <2>2, ActorStepKeeps DEF Ack, docVars
<1>12. CASE RetryNotPublished(a)
  <2>1. Strikes(d)
    BY <1>12 DEF Strikes
  <2>. QED
    BY <1>0, <1>q, <1>g, <1>12, <2>1, ActorStepKeeps DEF RetryNotPublished, docVars
<1>. QED
  BY <1>1, <1>2, <1>3, <1>4, <1>5, <1>6, <1>7, <1>8, <1>9, <1>10, <1>11, <1>12 DEF Step

\* Every step, with those that are not an attempt's: uploads answer until they enqueue
\* or fail, a taken message becomes an owner, the CLI owns what it registers, and what a
\* host crash or the visibility timeout takes away is queued again.
LEMMA OrphanStep == TypeOK /\ ViewsProcessing /\ [Next]_vars => NewOrphansAreLosses
<1>. SUFFICES ASSUME TypeOK, ViewsProcessing, [Next]_vars PROVE NewOrphansAreLosses
  OBVIOUS
<1>1. ASSUME NEW d \in Docs, UNCHANGED jobVars,
             \A m \in Messages : queue[m] > 0 => queue'[m] > 0,
             \A e \in Docs \ {d} : status'[e] = status[e] /\ uploads'[e] = uploads[e],
             status'[d] \notin NonTerminal \/ Answered(d)' \/ Strikes(d)
      PROVE  NewOrphansAreLosses
  <2>. SUFFICES ASSUME NEW e \in Docs \ {d}, status'[e] \in NonTerminal, ~Orphaned(e)
                PROVE  Answered(e)'
    BY <1>1 DEF NewOrphansAreLosses, Orphaned
  <2>1. \A b \in Actors : Owner(b, e) => Owner(b, e)'
    BY <1>1, OwnerKept DEF jobVars
  <2>. QED
    BY <1>1, <2>1, AnsweredKept DEF Orphaned
<1>2. ASSUME NEW d \in Docs, Register(d) PROVE NewOrphansAreLosses
  <2>1. uploads'[d] = "registered"
    BY <1>2 DEF Register, TypeOK
  <2>2. Answered(d)'
    BY <2>1 DEF Answered
  <2>. QED
    BY <1>1, <1>2, <2>2 DEF Register, InsertPending, TypeOK
<1>3. ASSUME NEW d \in Docs, Enqueue(d) PROVE NewOrphansAreLosses
  <2>. DEFINE m == [doc |-> d, retries |-> 0]
  <2>1. m \in Messages
    BY RetriesAssumption DEF Messages
  <2>2. (\A n \in Messages : queue[n] > 0 => queue'[n] > 0) /\ Queued(d)'
    BY <1>3, <2>1, PublishKeeps DEF Enqueue
  <2>3. Answered(d)'
    BY <2>2 DEF Answered
  <2>. QED
    BY <1>1, <1>3, <2>2, <2>3 DEF Enqueue, docVars, TypeOK
<1>4. ASSUME NEW d \in Docs, EnqueueFails(d) PROVE NewOrphansAreLosses
  <2>1. status'[d] \notin NonTerminal /\ \A e \in Docs \ {d} : status'[e] = status[e]
    <3>1. CASE Exists(d)
      <4>. DEFINE v == [status |-> "pending", error |-> "none"]
      <4>1. Flush(d, v, "failed", "enqueue") /\ v.status # "failed"
        BY <1>4, <3>1 DEF EnqueueFails
      <4>. HIDE DEF v
      <4>2. \A x \in Docs : status'[x] # status[x] => x = d
        BY <4>1, FlushStatus DEF TypeOK
      <4>3. status'[d] = "failed"
        BY <4>1, FlushStatus DEF TypeOK
      <4>. QED
        BY <4>2, <4>3 DEF NonTerminal
    <3>2. CASE ~Exists(d)
      BY <1>4, <3>2 DEF EnqueueFails, Exists, NonTerminal
    <3>. QED
      BY <3>1, <3>2
  <2>. QED
    BY <1>1, <1>4, <2>1 DEF EnqueueFails, TypeOK
<1>5. ASSUME NEW d \in Docs, DeleteDocument(d) PROVE NewOrphansAreLosses
  BY <1>1, <1>5 DEF DeleteDocument, NonTerminal, TypeOK
<1>6. ASSUME NEW a \in Actors, Take(a) PROVE NewOrphansAreLosses
  <2>1. PICK m \in Messages : /\ queue' = [queue EXCEPT ![m] = @ - 1]
                              /\ held' = [held EXCEPT ![a] = m]
    BY <1>6 DEF Take
  <2>. SUFFICES ASSUME NEW e \in Docs, status'[e] \in NonTerminal, ~Orphaned(e)
                PROVE  Answered(e)'
    BY DEF NewOrphansAreLosses, Orphaned
  <2>2. CASE e = m.doc
    <3>1. Owner(a, e)'
      BY <1>6, <2>1, <2>2 DEF Take, Owner, Goto, Attempting, TypeOK
    <3>. QED
      BY <3>1 DEF Answered
  <2>3. CASE e # m.doc
    <3>1. \A n \in Messages : n.doc = e /\ queue[n] > 0 => queue'[n] > 0
      BY <2>1, <2>3 DEF TypeOK
    <3>2. \A b \in Actors : Owner(b, e) => b # a
      BY <1>6 DEF Take, Owner, Attempting
    <3>3. \A b \in Actors : Owner(b, e) => Owner(b, e)'
      BY <1>6, <2>1, <3>2, OwnerKept DEF Take, Goto, TypeOK
    <3>. QED
      BY <1>6, <3>1, <3>3, AnsweredKept DEF Take, docVars, Orphaned
  <2>. QED
    BY <2>2, <2>3
<1>7. ASSUME NEW a \in Actors, Step(a) PROVE NewOrphansAreLosses
  BY <1>7, StepKeepsAnswered
<1>8. ASSUME NEW a \in Actors, WorkerFails(a) PROVE NewOrphansAreLosses
  <2>0. pc[a] # "idle" /\ (HostCrash(a) \/ LateCrash(a) \/ ChildKilled(a) \/ Redeliver(a))
    BY <1>8 DEF WorkerFails, HostCrash, Abandon, LateCrash, ChildKilled, Redeliver, TypeOK
  <2>1. held[a] \in Messages /\ held[a].doc \in Docs
    BY <2>0, BusyHolds
  <2>2. \A b \in Actors \ {a} : pc'[b] = pc[b] /\ held'[b] = held[b] /\ seen'[b] = seen[b]
    BY <2>0 DEF HostCrash, LateCrash, ChildKilled, Abandon, Leave, Goto, Redeliver, TypeOK
  <2>3. CASE HostCrash(a) \/ Redeliver(a)
    <3>1. (\A n \in Messages : queue[n] > 0 => queue'[n] > 0) /\ queue'[held[a]] > 0
      BY <2>1, <2>3, PublishKeeps DEF HostCrash, Redeliver
    <3>2. \A e \in Docs : e = held[a].doc => Answered(e)'
      BY <2>1, <3>1 DEF Answered, Queued
    <3>. QED
      BY <2>0, <2>1, <2>2, <2>3, <3>1, <3>2, ActorStepKeeps DEF HostCrash, Redeliver, docVars
  <2>4. CASE ChildKilled(a) \/ LateCrash(a)
    <3>1. \A e \in Docs : e = held[a].doc => Strikes(e)
      BY <2>4 DEF Strikes
    <3>. QED
      BY <2>0, <2>1, <2>2, <2>4, <3>1, ActorStepKeeps DEF ChildKilled, LateCrash, docVars
  <2>. QED
    BY <2>0, <2>3, <2>4
<1>9. ASSUME NEW d \in Docs, UploadDies(d) PROVE NewOrphansAreLosses
  <2>1. Strikes(d)
    BY <1>9 DEF Strikes
  <2>. QED
    BY <1>1, <1>9, <2>1 DEF UploadDies, docVars, TypeOK
<1>10. ASSUME NEW a \in Actors, NEW d \in Docs, CliIngest(a, d) PROVE NewOrphansAreLosses
  <2>. SUFFICES ASSUME NEW e \in Docs, status'[e] \in NonTerminal, ~Orphaned(e)
                PROVE  Answered(e)'
    BY DEF NewOrphansAreLosses, Orphaned
  <2>1. CASE e = d
    <3>1. Owner(a, e)'
      BY <1>10, <2>1 DEF CliIngest, Owner, Goto, Attempting, TypeOK
    <3>. QED
      BY <3>1 DEF Answered
  <2>2. CASE e # d
    <3>1. \A b \in Actors : Owner(b, e) => b # a
      BY <1>10 DEF CliIngest, Owner, Attempting
    <3>2. \A b \in Actors : Owner(b, e) => Owner(b, e)'
      BY <1>10, <3>1, OwnerKept DEF CliIngest, Goto, TypeOK
    <3>3. status'[e] = status[e] /\ uploads'[e] = uploads[e]
      BY <1>10, <2>2 DEF CliIngest, InsertPending, TypeOK
    <3>. QED
      BY <1>10, <3>2, <3>3, AnsweredKept DEF CliIngest, Orphaned
  <2>. QED
    BY <2>1, <2>2
<1>11. CASE Quiet \/ UNCHANGED vars
  BY <1>11
  DEF Quiet, vars, docVars, jobVars, NewOrphansAreLosses, Orphaned, Answered, Queued, Owner
<1>12. ASSUME NEW d \in Docs, DelayRaises(d) PROVE NewOrphansAreLosses
  <2>. DEFINE m == [doc |-> d, retries |-> 0]
  <2>1. m \in Messages
    BY RetriesAssumption DEF Messages
  <2>2. \A n \in Messages : queue[n] > 0 => queue'[n] > 0
    BY <1>12, <2>1, PublishKeeps DEF DelayRaises
  <2>3. Answered(d)'
    BY <1>12 DEF DelayRaises, Answered, TypeOK
  <2>. QED
    BY <1>1, <1>12, <2>2, <2>3 DEF DelayRaises, docVars, TypeOK
<1>13. CASE BrokerRestart
  <2>. SUFFICES ASSUME NEW e \in Docs, status'[e] \in NonTerminal, ~Orphaned(e), ~Queued(e)
                PROVE  Answered(e)'
    BY <1>13 DEF NewOrphansAreLosses, Orphaned, Strikes
  <2>1. \A b \in Actors : Owner(b, e) => Owner(b, e)'
    BY <1>13, OwnerKept DEF BrokerRestart
  <2>. QED
    BY <1>13, <2>1, AnsweredKept DEF BrokerRestart, docVars, Orphaned, Queued
<1>. QED
  BY <1>2, <1>3, <1>4, <1>5, <1>6, <1>7, <1>8, <1>9, <1>10, <1>11, <1>12, <1>13
  DEF Next, Upload

\* For any number of documents, workers, CLI runs, retries and failures: a row that is
\* PENDING or PROCESSING loses the last one who answers for it only by one of the seven
\* losses LossesAreNamed lists, never by a host crash whose message the broker still has,
\* a repeated delivery, a published retry or an ambiguous publish.
THEOREM OnlyNamedLosses == Spec => LossesAreNamed
<1>1. Init => ViewsProcessing
  BY DEF Init, ViewsProcessing
<1>2. TypeOK /\ ViewsProcessing /\ [Next]_vars
        => [\A d \in Docs : Orphaned(d)' => Orphaned(d) \/ Strikes(d)]_vars
  BY OrphanStep DEF NewOrphansAreLosses
<1>. QED
  BY <1>1, <1>2, ViewStep, TypeCorrect, PTL DEF Spec, LossesAreNamed

\* Without those losses there is none.
LEMMA NoLosses == Lossless => \A d \in Docs : ~Strikes(d)
<1>. SUFFICES ASSUME Lossless, NEW d \in Docs PROVE ~Strikes(d)
  OBVIOUS
<1>1. ~UploadDies(d) /\ ~BrokerRestart
  BY DEF UploadDies, BrokerRestart, Inject, Lossless
<1>2. ASSUME NEW a \in Actors, FailureIsDropped(a) PROVE FALSE
  BY <1>2 DEF FailureIsDropped, FailureNotRecorded, Inject, Lossless
<1>3. ASSUME NEW a \in Actors, ChildKilled(a) \/ LateCrash(a) \/ RetryNotPublished(a) PROVE FALSE
  BY <1>3 DEF ChildKilled, LateCrash, RetryNotPublished, Inject, Lossless
<1>4. ASSUME NEW a \in Actors, CliGivesUp(a) PROVE FALSE
  BY <1>4 DEF CliGivesUp, Lossless
<1>. QED
  BY <1>1, <1>2, <1>3, <1>4 DEF Strikes

\* The worker's promise, for any number of documents, workers, retries, crashes and
\* repeated deliveries: while a row is PENDING or PROCESSING somebody will still
\* settle it.  It assumes all that Lossless does: the broker takes every retry and
\* forgets nothing, mark_failed() succeeds, no request is cut after its commit, no
\* pool process is killed under its parent, no host dies once its message was
\* delivered again, and no CLI.
THEOREM NothingStuck == ASSUME Lossless PROVE Spec => []NoOrphan
<1>1. Init => ViewsProcessing /\ NoOrphan
  BY DEF Init, ViewsProcessing, NoOrphan, NonTerminal
<1>2. TypeOK /\ ViewsProcessing /\ NoOrphan /\ [Next]_vars
        => (ViewsProcessing /\ NoOrphan)'
  BY Lossless, ViewStep, OrphanStep, NoLosses DEF NewOrphansAreLosses, Orphaned, NoOrphan
<1>. QED
  BY <1>1, <1>2, TypeCorrect, PTL DEF Spec

-----------------------------------------------------------------------------
(* Ingestion implements DocumentLifecycle. *)

\* A document that has a message or an actor was uploaded, one that was not has no
\* row; whoever saw a row PROCESSING no longer finds it PENDING.
UploadedFirst ==
    /\ \A d \in Docs : uploads[d] = "none" => status[d] = "absent"
    /\ \A m \in Messages : queue[m] > 0 => uploads[m.doc] # "none"
    /\ \A a \in Actors : pc[a] # "idle" => uploads[held[a].doc] # "none"
    /\ \A a \in Actors :
          /\ pc[a] \in {"mark", "parse", "purge", "store"}
          /\ seen[a].status = "processing"
          => status[held[a].doc] # "pending"

\* Steps that only move an actor along, or only add a message of its document.
LEMMA QuietStep ==
    ASSUME TypeOK, UploadedFirst, NEW a \in Actors, pc[a] # "idle",
           NEW d \in Docs, d = held[a].doc,
           \A b \in Actors \ {a} : pc'[b] = pc[b] /\ held'[b] = held[b] /\ seen'[b] = seen[b],
           \A m \in Messages : queue'[m] > 0 => queue[m] > 0 \/ m.doc = d,
           \A x \in Docs : status'[x] # status[x] => status[x] # "absent" /\ status'[x] # "pending",
           uploads' = uploads,
           pc'[a] # "idle" => held'[a] = held[a],
           /\ pc'[a] \in {"mark", "parse", "purge", "store"}
           /\ seen'[a].status = "processing"
           => status'[d] # "pending"
    PROVE  UploadedFirst'
<1>1. \A x \in Docs : uploads'[x] = "none" => status'[x] = "absent"
  BY DEF UploadedFirst
<1>2. \A m \in Messages : queue'[m] > 0 => uploads'[m.doc] # "none"
  BY DEF UploadedFirst
<1>3. \A b \in Actors : pc'[b] # "idle" => uploads'[held'[b].doc] # "none"
  BY DEF UploadedFirst
<1>4. ASSUME NEW b \in Actors, pc'[b] \in {"mark", "parse", "purge", "store"},
             seen'[b].status = "processing"
      PROVE  status'[held'[b].doc] # "pending"
  <2>1. CASE b = a
    BY <1>4, <2>1
  <2>2. CASE b # a
    <3>1. held[b].doc \in Docs
      BY <1>4, <2>2, BusyHolds
    <3>. QED
      BY <1>4, <2>2, <3>1 DEF UploadedFirst
  <2>. QED
    BY <2>1, <2>2
<1>. QED
  BY <1>1, <1>2, <1>3, <1>4 DEF UploadedFirst

\* UploadedFirst is inductive.
LEMMA UploadedStep == TypeOK /\ ViewsProcessing /\ UploadedFirst /\ [Next]_vars => UploadedFirst'
<1>. SUFFICES ASSUME TypeOK, ViewsProcessing, UploadedFirst, [Next]_vars PROVE UploadedFirst'
  OBVIOUS
<1>1. ASSUME NEW d \in Docs, uploads[d] = "none", InsertPending(d), UNCHANGED queue,
             uploads'[d] # "none", \A x \in Docs \ {d} : uploads'[x] = uploads[x],
             NEW a \in Actors,
             \A b \in Actors \ {a} : pc'[b] = pc[b] /\ held'[b] = held[b] /\ seen'[b] = seen[b],
             \/ pc'[a] = pc[a] /\ held'[a] = held[a] /\ seen'[a] = seen[a]
             \/ pc'[a] = "load" /\ held'[a].doc = d
      PROVE  UploadedFirst'
  <2>1. \A x \in Docs \ {d} : status'[x] = status[x]
    BY <1>1 DEF InsertPending, TypeOK
  <2>2. \A b \in Actors : pc[b] # "idle" => held[b].doc \in Docs \ {d}
    BY <1>1, BusyHolds DEF UploadedFirst
  <2>3. \A m \in Messages : m.doc \in Docs
    BY DEF Messages
  <2>. QED
    BY <1>1, <2>1, <2>2, <2>3 DEF UploadedFirst
<1>2. ASSUME NEW d \in Docs, Register(d) PROVE UploadedFirst'
  <2>1. uploads[d] = "none" /\ InsertPending(d) /\ UNCHANGED queue /\ uploads'[d] # "none"
        /\ \A x \in Docs \ {d} : uploads'[x] = uploads[x]
    BY <1>2 DEF Register, TypeOK
  <2>2. \A x \in Docs \ {d} : status'[x] = status[x]
    BY <1>2 DEF Register, InsertPending, TypeOK
  <2>3. \A b \in Actors : pc[b] # "idle" => held[b].doc \in Docs \ {d}
    BY <2>1, BusyHolds DEF UploadedFirst
  <2>4. \A m \in Messages : m.doc \in Docs
    BY DEF Messages
  <2>. QED
    BY <1>2, <2>1, <2>2, <2>3, <2>4 DEF UploadedFirst, Register, jobVars
<1>3. ASSUME NEW a \in Actors, NEW d \in Docs, CliIngest(a, d) PROVE UploadedFirst'
  BY <1>1, <1>3 DEF CliIngest, Goto, TypeOK
<1>4. ASSUME NEW d \in Docs, UNCHANGED jobVars, uploads[d] # "none",
             NEW u, u # "none", uploads' = [uploads EXCEPT ![d] = u],
             \A m \in Messages : queue'[m] > 0 => queue[m] > 0 \/ m.doc = d,
             \A x \in Docs : status'[x] # status[x] => status[x] # "absent" /\ status'[x] # "pending"
      PROVE  UploadedFirst'
  <2>1. \A x \in Docs : uploads'[x] = "none" <=> uploads[x] = "none"
    BY <1>4 DEF TypeOK
  <2>2. \A m \in Messages : m.doc \in Docs
    BY DEF Messages
  <2>3. \A a \in Actors : pc[a] # "idle" => held[a].doc \in Docs
    BY BusyHolds
  <2>. QED
    BY <1>4, <2>1, <2>2, <2>3 DEF UploadedFirst, jobVars
<1>5. ASSUME NEW d \in Docs, Upload(d) PROVE UploadedFirst'
  <2>. DEFINE m == [doc |-> d, retries |-> 0]
  <2>1. m \in Messages
    BY RetriesAssumption DEF Messages
  <2>2. Publish(m) => \A n \in Messages : queue'[n] > 0 => queue[n] > 0 \/ n.doc = d
    BY <2>1 DEF Publish, TypeOK
  <2>3. CASE Enqueue(d) \/ DelayRaises(d) \/ UploadDies(d)
    BY <1>4, <2>2, <2>3 DEF Enqueue, DelayRaises, UploadDies, docVars
  <2>4. CASE EnqueueFails(d)
    <3>1. \A x \in Docs : status'[x] # status[x] => status[x] # "absent" /\ status'[x] # "pending"
      BY <2>4, FlushStatus DEF EnqueueFails, TypeOK, Exists
    <3>. QED
      BY <1>4, <2>4, <3>1 DEF EnqueueFails
  <2>. QED
    BY <1>5, <2>3, <2>4 DEF Upload
<1>6. ASSUME NEW d \in Docs, DeleteDocument(d) PROVE UploadedFirst'
  <2>1. status'[d] = "absent" /\ \A x \in Docs \ {d} : status'[x] = status[x]
    BY <1>6 DEF DeleteDocument, TypeOK
  <2>2. \A a \in Actors : pc[a] # "idle" => held[a].doc \in Docs
    BY BusyHolds
  <2>. QED
    BY <1>6, <2>1, <2>2 DEF DeleteDocument, UploadedFirst, jobVars
<1>7. ASSUME NEW a \in Actors, Take(a) PROVE UploadedFirst'
  <2>1. PICK m \in Messages : /\ queue[m] > 0
                              /\ queue' = [queue EXCEPT ![m] = @ - 1]
                              /\ held' = [held EXCEPT ![a] = m]
    BY <1>7 DEF Take
  <2>2. \A n \in Messages : queue'[n] > 0 => queue[n] > 0
    BY <2>1 DEF TypeOK
  <2>. QED
    BY <1>7, <2>1, <2>2 DEF Take, Goto, docVars, UploadedFirst, TypeOK
<1>8. ASSUME NEW a \in Actors, Step(a), NEW d, d = held[a].doc PROVE UploadedFirst'
  <2>0. pc[a] # "idle" /\ d \in Docs /\ held[a] \in Messages
    <3>1. pc[a] # "idle"
      BY <1>8 DEF Step, Load, MarkProcessing, ParseAndEmbed, ParseFails, DeleteChunks, Store,
                  Transient, Attempting, PublishRetry, RetryNotPublished, LoadToFail,
                  CommitFailure, FailureNotRecorded, Ack
    <3>. QED
      BY <1>8, <3>1, BusyHolds
  <2>1. \A b \in Actors \ {a} : pc'[b] = pc[b] /\ held'[b] = held[b] /\ seen'[b] = seen[b]
    BY <1>8
    DEF Step, Load, MarkProcessing, ParseAndEmbed, ParseFails, DeleteChunks, Store,
        Transient, PublishRetry, RetryNotPublished, LoadToFail, CommitFailure,
        FailureNotRecorded, Ack,
        Leave, Goto, TypeOK
  <2>2. \A m \in Messages : queue'[m] > 0 => queue[m] > 0 \/ m.doc = d
    BY <1>8
    DEF Step, Load, MarkProcessing, ParseAndEmbed, ParseFails, DeleteChunks, Store,
        Transient, PublishRetry, RetryNotPublished, LoadToFail, CommitFailure,
        FailureNotRecorded, Ack,
        Publish, TypeOK
  <2>3. uploads' = uploads /\ (pc'[a] # "idle" => held'[a] = held[a])
    BY <1>8
    DEF Step, Load, MarkProcessing, ParseAndEmbed, ParseFails, DeleteChunks, Store,
        Transient, PublishRetry, RetryNotPublished, LoadToFail, CommitFailure,
        FailureNotRecorded, Ack,
        Goto, TypeOK
  <2>4. ASSUME NEW s, NEW e, Flush(d, seen[a], s, e), s # "pending"
        PROVE  \A x \in Docs : status'[x] # status[x] => status[x] # "absent" /\ status'[x] # "pending"
    BY <2>0, <2>4, FlushStatus DEF TypeOK, Exists
  <2>5. CASE MarkProcessing(a)
    <3>1. \A x \in Docs : status'[x] # status[x] => status[x] # "absent" /\ status'[x] # "pending"
      BY <1>8, <2>4, <2>5 DEF MarkProcessing
    <3>2. status'[d] # "pending"
      <4>1. CASE seen[a].status = "processing"
        BY <1>8, <2>0, <2>5, <3>1, <4>1 DEF MarkProcessing, UploadedFirst
      <4>2. CASE seen[a].status # "processing"
        BY <1>8, <2>0, <2>5, <4>2, FlushStatus DEF MarkProcessing, TypeOK
      <4>. QED
        BY <4>1, <4>2
    <3>. QED
      BY <1>8, <2>0, <2>1, <2>2, <2>3, <3>1, <3>2, QuietStep
  <2>6. CASE ParseFails(a) \/ Store(a) \/ CommitFailure(a)
    <3>1. \A x \in Docs : status'[x] # status[x] => status[x] # "absent" /\ status'[x] # "pending"
      BY <1>8, <2>4, <2>6 DEF ParseFails, Store, CommitFailure
    <3>2. pc'[a] = "ack"
      BY <2>6 DEF ParseFails, Store, CommitFailure, Leave, Goto, TypeOK
    <3>. QED
      BY <1>8, <2>0, <2>1, <2>2, <2>3, <3>1, <3>2, QuietStep
  <2>7. CASE Load(a)
    <3>1. /\ pc'[a] \in {"mark", "parse", "purge", "store"}
          /\ seen'[a].status = "processing"
          => status[d] # "pending"
      BY <1>8, <2>7 DEF Load, Leave, Goto, TypeOK
    <3>. QED
      BY <1>8, <2>0, <2>1, <2>2, <2>3, <2>7, <3>1, QuietStep DEF Load, docVars
  <2>8. CASE ParseAndEmbed(a) \/ DeleteChunks(a)
    <3>1. status[d] # "pending"
      BY <1>8, <2>8 DEF ParseAndEmbed, DeleteChunks, ViewsProcessing, UploadedFirst
    <3>. QED
      BY <1>8, <2>0, <2>1, <2>2, <2>3, <2>8, <3>1, QuietStep DEF ParseAndEmbed, DeleteChunks, docVars
  <2>9. CASE \/ Transient(a) \/ PublishRetry(a) \/ RetryNotPublished(a)
             \/ LoadToFail(a) \/ FailureNotRecorded(a) \/ Ack(a)
    <3>1. pc'[a] \notin {"mark", "parse", "purge", "store"}
      BY <2>9 DEF Transient, PublishRetry, RetryNotPublished, LoadToFail, FailureNotRecorded,
                  Ack, Leave, Goto, TypeOK
    <3>2. status' = status
      BY <2>9 DEF Transient, PublishRetry, RetryNotPublished, LoadToFail, FailureNotRecorded,
                  Ack, docVars
    <3>. QED
      BY <1>8, <2>0, <2>1, <2>2, <2>3, <3>1, <3>2, QuietStep
  <2>. QED
    BY <1>8, <2>5, <2>6, <2>7, <2>8, <2>9 DEF Step
<1>9. ASSUME NEW a \in Actors, WorkerFails(a), NEW d, d = held[a].doc PROVE UploadedFirst'
  <2>0. pc[a] # "idle"
    BY <1>9 DEF WorkerFails, HostCrash, LateCrash, Abandon, ChildKilled, Redeliver, TypeOK
  <2>1. d \in Docs /\ held[a] \in Messages
    BY <1>9, <2>0, BusyHolds
  <2>2. \A m \in Messages : queue'[m] > 0 => queue[m] > 0 \/ m.doc = d
    BY <1>9, <2>1 DEF WorkerFails, HostCrash, LateCrash, ChildKilled, Redeliver, Publish, TypeOK
  <2>3. CASE HostCrash(a) \/ LateCrash(a) \/ ChildKilled(a)
    <3>1. pc'[a] = "idle"
          /\ \A b \in Actors \ {a} : pc'[b] = pc[b] /\ held'[b] = held[b] /\ seen'[b] = seen[b]
      BY <2>3 DEF HostCrash, LateCrash, ChildKilled, Abandon, Leave, Goto, TypeOK
    <3>. QED
      BY <1>9, <2>0, <2>1, <2>2, <2>3, <3>1, QuietStep
      DEF HostCrash, LateCrash, ChildKilled, docVars
  <2>4. CASE Redeliver(a)
    BY <1>9, <2>0, <2>1, <2>2, <2>4, QuietStep DEF Redeliver, docVars, UploadedFirst
  <2>. QED
    BY <1>9, <2>3, <2>4 DEF WorkerFails
<1>10. CASE BrokerRestart \/ Quiet \/ UNCHANGED vars
  BY <1>10 DEF BrokerRestart, Quiet, vars, docVars, jobVars, UploadedFirst
<1>. QED
  BY <1>2, <1>3, <1>5, <1>6, <1>7, <1>8, <1>9, <1>10 DEF Next

-----------------------------------------------------------------------------
(* Every step is a lifecycle step or a stutter. *)

\* A step that changes one document's row at most changes one abstract state.
LEMMA OneDocument ==
    ASSUME NEW d \in Docs,
           \A x \in Docs \ {d} : /\ status'[x] = status[x]
                                 /\ chunks'[x] = chunks[x]
                                 /\ uploads'[x] = "none" <=> uploads[x] = "none"
    PROVE  /\ LifecycleState' = [LifecycleState EXCEPT ![d] = LifecycleState'[d]]
           /\ LifecycleSearchable' = IF chunks'[d] > 0 THEN LifecycleSearchable \cup {d}
                                     ELSE LifecycleSearchable \ {d}
<1>. DEFINE S == [x \in Docs |-> IF status'[x] # "absent" THEN status'[x]
                                 ELSE IF uploads'[x] = "none" THEN "unborn" ELSE "deleted"]
<1>1. LifecycleState' = S
  BY DEF LifecycleState
<1>2. \A x \in Docs \ {d} : S[x] = LifecycleState[x]
  BY DEF LifecycleState
<1>3. S = [LifecycleState EXCEPT ![d] = S[d]]
  <2>. DEFINE E == [LifecycleState EXCEPT ![d] = S[d]]
  <2>1. E = [x \in Docs |-> IF x = d THEN S[d] ELSE LifecycleState[x]]
    BY DEF LifecycleState
  <2>2. \A x \in Docs : E[x] = S[x]
    BY <1>2, <2>1
  <2>. QED
    BY <2>1, <2>2
<1>4. LifecycleSearchable' = IF chunks'[d] > 0 THEN LifecycleSearchable \cup {d}
                                               ELSE LifecycleSearchable \ {d}
  BY DEF LifecycleSearchable
<1>. QED
  BY <1>1, <1>3, <1>4

\* Writing PROCESSING or FAILED on an existing row is a step of the lifecycle: a
\* start or a failure from an open state, a relapse from a settled one.
LEMMA FlushRefines ==
    ASSUME TypeOK, NEW d \in Docs, NEW v, NEW s \in {"processing", "failed"}, NEW e,
           Flush(d, v, s, e), UNCHANGED chunks,
           \A x \in Docs : uploads'[x] = "none" <=> uploads[x] = "none"
    PROVE  [Loose!Next]_Loose!vars
<1>1. /\ \A x \in Docs \ {d} : status'[x] = status[x]
      /\ status'[d] # status[d] => status[d] # "absent" /\ status'[d] = s
  BY FlushStatus DEF TypeOK, Exists
<1>2. /\ LifecycleState' = [LifecycleState EXCEPT ![d] = LifecycleState'[d]]
      /\ LifecycleSearchable' = IF chunks'[d] > 0 THEN LifecycleSearchable \cup {d}
                                     ELSE LifecycleSearchable \ {d}
  BY <1>1, OneDocument
<1>3. LifecycleSearchable' = LifecycleSearchable
  BY DEF LifecycleSearchable
<1>4. CASE status'[d] = status[d]
  <2>1. LifecycleState'[d] = LifecycleState[d]
    BY <1>4 DEF LifecycleState
  <2>2. LifecycleState' = LifecycleState
    BY <1>2, <2>1 DEF LifecycleState
  <2>. QED
    BY <1>3, <2>2 DEF Loose!vars
<1>5. CASE status'[d] # status[d]
  <2>1. LifecycleState[d] = status[d] /\ LifecycleState'[d] = s
    BY <1>1, <1>5 DEF LifecycleState
  <2>2. status[d] \in Terminal \cup NonTerminal
    BY <1>1, <1>5 DEF TypeOK, Statuses
  <2>3. Loose!Become(d, s) /\ UNCHANGED LifecycleSearchable
    BY <1>2, <1>3, <2>1 DEF Loose!Become
  <2>4. CASE status[d] \in Terminal
    BY <2>1, <2>3, <2>4
    DEF Loose!Next, Loose!Relapse, Loose!Settled, Terminal
  <2>5. CASE status[d] \in NonTerminal
    BY <1>5, <1>1, <2>1, <2>3, <2>5
    DEF Loose!Next, Loose!Progress, Loose!Start, Loose!Fail, Loose!Open, NonTerminal
  <2>. QED
    BY <2>2, <2>4, <2>5
<1>. QED
  BY <1>4, <1>5

\* A new row is an upload: the document had none, and no chunks.
LEMMA InsertRefines ==
    ASSUME TypeOK, ChunksMatchRow, UploadedFirst, NEW d \in Docs, uploads[d] = "none",
           InsertPending(d), uploads'[d] # "none",
           \A x \in Docs \ {d} : uploads'[x] = uploads[x]
    PROVE  [Loose!Next]_Loose!vars
<1>1. \A x \in Docs \ {d} : status'[x] = status[x] /\ chunks'[x] = chunks[x]
  BY DEF InsertPending, TypeOK
<1>2. LifecycleState' = [LifecycleState EXCEPT ![d] = LifecycleState'[d]]
  BY <1>1, OneDocument
<1>3. LifecycleState[d] = "unborn" /\ LifecycleState'[d] = "pending"
  BY DEF LifecycleState, InsertPending, UploadedFirst, TypeOK
<1>4. UNCHANGED LifecycleSearchable
  BY DEF LifecycleSearchable, InsertPending
<1>. QED
  BY <1>2, <1>3, <1>4 DEF Loose!Next, Loose!Upload, Loose!Become

\* Storing the chunks completes the document: from PROCESSING, or as a relapse of a
\* document another attempt settled meanwhile.
LEMMA StoreRefines ==
    ASSUME TypeOK, ChunksMatchRow, ViewsProcessing, UploadedFirst, NEW a \in Actors, Store(a),
           NEW d, d = held[a].doc
    PROVE  [Loose!Next]_Loose!vars
<1>0. d \in Docs /\ Exists(d) /\ seen[a].status = "processing" /\ status[d] # "pending"
  BY BusyHolds DEF Store, ViewsProcessing, UploadedFirst
<1>1. /\ \A x \in Docs \ {d} : status'[x] = status[x]
      /\ status'[d] = "completed"
  BY <1>0, FlushStatus DEF Store, TypeOK
<1>2. chunks'[d] = 1 /\ \A x \in Docs \ {d} : chunks'[x] = chunks[x]
  BY <1>0 DEF Store, IndexesFree, TypeOK
<1>3. /\ LifecycleState' = [LifecycleState EXCEPT ![d] = LifecycleState'[d]]
      /\ LifecycleSearchable' = IF chunks'[d] > 0 THEN LifecycleSearchable \cup {d}
                                     ELSE LifecycleSearchable \ {d}
  BY <1>0, <1>1, <1>2, OneDocument DEF Store
<1>4. LifecycleState'[d] = "completed" /\ LifecycleState[d] = status[d]
  BY <1>0, <1>1 DEF LifecycleState, Exists
<1>5. Loose!Finish(d)
  BY <1>2, <1>3, <1>4 DEF Loose!Finish, Loose!Become
<1>6. status[d] \in {"processing"} \cup Terminal
  BY <1>0 DEF TypeOK, Statuses, NonTerminal, Exists
<1>. QED
  BY <1>0, <1>4, <1>5, <1>6
  DEF Loose!Next, Loose!Progress, Loose!Complete, Loose!Relapse, Loose!Settled, Terminal

\* Deleting a document removes it, its chunks and its place in the lifecycle.
LEMMA DeleteRefines ==
    ASSUME TypeOK, UploadedFirst, NEW d \in Docs, DeleteDocument(d)
    PROVE  [Loose!Next]_Loose!vars
<1>1. /\ \A x \in Docs \ {d} : status'[x] = status[x] /\ chunks'[x] = chunks[x]
      /\ status'[d] = "absent" /\ chunks'[d] = 0 /\ uploads' = uploads
      /\ status[d] \in Terminal \cup NonTerminal /\ uploads[d] # "none"
  BY DEF DeleteDocument, TypeOK, UploadedFirst, Exists, Statuses
<1>2. /\ LifecycleState' = [LifecycleState EXCEPT ![d] = LifecycleState'[d]]
      /\ LifecycleSearchable' = IF chunks'[d] > 0 THEN LifecycleSearchable \cup {d}
                                     ELSE LifecycleSearchable \ {d}
  BY <1>1, OneDocument
<1>3. LifecycleState'[d] = "deleted" /\ LifecycleState[d] = status[d]
  BY <1>1 DEF LifecycleState, Terminal, NonTerminal
<1>. QED
  BY <1>1, <1>2, <1>3
  DEF Loose!Next, Loose!Remove, Loose!Become, Loose!Open, Loose!Settled, Terminal, NonTerminal

\* One step of the platform is one step of the lifecycle with relapses, or none.
LEMMA RefinementStep ==
    TypeOK /\ ChunksMatchRow /\ ViewsProcessing /\ UploadedFirst /\ [Next]_vars
        => [Loose!Next]_Loose!vars
<1>. SUFFICES ASSUME TypeOK, ChunksMatchRow, ViewsProcessing, UploadedFirst, [Next]_vars
              PROVE  [Loose!Next]_Loose!vars
  OBVIOUS
<1>1. ASSUME UNCHANGED <<status, chunks>>, \A x \in Docs : uploads'[x] = "none" <=> uploads[x] = "none"
      PROVE  [Loose!Next]_Loose!vars
  <2>1. UNCHANGED LifecycleState
    BY <1>1 DEF LifecycleState
  <2>2. UNCHANGED LifecycleSearchable
    BY <1>1 DEF LifecycleSearchable
  <2>. QED
    BY <2>1, <2>2 DEF Loose!vars
<1>2. ASSUME NEW d \in Docs, Register(d) PROVE [Loose!Next]_Loose!vars
  BY <1>2, InsertRefines DEF Register, TypeOK
<1>3. ASSUME NEW a \in Actors, NEW d \in Docs, CliIngest(a, d) PROVE [Loose!Next]_Loose!vars
  BY <1>3, InsertRefines DEF CliIngest, TypeOK
<1>4. ASSUME NEW d \in Docs, Upload(d) PROVE [Loose!Next]_Loose!vars
  <2>1. \A x \in Docs : uploads'[x] = "none" <=> uploads[x] = "none"
    BY <1>4 DEF Upload, Enqueue, DelayRaises, EnqueueFails, UploadDies, TypeOK
  <2>2. CASE Enqueue(d) \/ DelayRaises(d) \/ UploadDies(d)
    BY <1>1, <2>1, <2>2 DEF Enqueue, DelayRaises, UploadDies, docVars
  <2>3. CASE EnqueueFails(d) /\ Exists(d)
    BY <2>1, <2>3, FlushRefines DEF EnqueueFails
  <2>4. CASE EnqueueFails(d) /\ ~Exists(d)
    BY <1>1, <2>1, <2>4 DEF EnqueueFails
  <2>. QED
    BY <1>4, <2>2, <2>3, <2>4 DEF Upload
<1>5. ASSUME NEW a \in Actors, Step(a) PROVE [Loose!Next]_Loose!vars
  <2>1. CASE MarkProcessing(a) \/ ParseFails(a) \/ CommitFailure(a)
    <3>1. held[a].doc \in Docs
      BY <2>1, BusyHolds DEF MarkProcessing, ParseFails, CommitFailure
    <3>. QED
      BY <2>1, <3>1, FlushRefines DEF MarkProcessing, ParseFails, CommitFailure
  <2>2. CASE Store(a)
    BY <2>2, StoreRefines
  <2>. QED
    BY <1>1, <1>5, <2>1, <2>2
    DEF Step, Load, ParseAndEmbed, DeleteChunks, Transient, PublishRetry, RetryNotPublished,
        LoadToFail, FailureNotRecorded, Ack, docVars
<1>6. ASSUME NEW a \in Actors, Take(a) \/ WorkerFails(a) PROVE [Loose!Next]_Loose!vars
  BY <1>1, <1>6 DEF Take, WorkerFails, HostCrash, LateCrash, ChildKilled, Redeliver, docVars
<1>7. CASE BrokerRestart \/ Quiet \/ UNCHANGED vars
  BY <1>1, <1>7 DEF BrokerRestart, Quiet, vars, docVars
<1>. QED
  BY <1>2, <1>3, <1>4, <1>5, <1>6, <1>7, DeleteRefines DEF Next

LEMMA RefinementInit == Init => Loose!Init /\ ViewsProcessing /\ UploadedFirst
<1>. SUFFICES ASSUME Init PROVE Loose!Init /\ ViewsProcessing /\ UploadedFirst
  OBVIOUS
<1>1. LifecycleState = [d \in Docs |-> "unborn"]
  BY DEF Init, LifecycleState
<1>2. LifecycleSearchable = {}
  BY DEF Init, LifecycleSearchable
<1>3. UploadedFirst
  BY DEF Init, UploadedFirst
<1>. QED
  BY <1>1, <1>2, <1>3 DEF Init, Loose!Init, ViewsProcessing

\* Under every fault the module injects, and with the CLI, what users see of a
\* document is a behaviour of the lifecycle with relapses: in particular COMPLETED
\* and the chunks appear in one step, and deletion is final.
THEOREM ImplementsLoose == Spec => Loose!Spec
<1>1. TypeOK /\ ViewsProcessing /\ UploadedFirst /\ [Next]_vars
        => (ViewsProcessing /\ UploadedFirst)'
  BY ViewStep, UploadedStep
<1>. QED
  BY <1>1, RefinementInit, RefinementStep, TypeCorrect, ChunksAlwaysMatch, PTL
  DEF Spec, Loose!Spec

-----------------------------------------------------------------------------
(* Without failures of the environment. *)

\* One attempt at a time; none before the upload request is over; and while an
\* attempt or a request is on its way the document is not settled.
Undecided(d) ==
    \/ uploads[d] # "done"
    \/ \E m \in Messages : Sent(m, d)
    \/ \E a \in Actors : Working(a, d)

CalmInv ==
    /\ OneAttempt
    /\ \A d \in Docs : uploads[d] # "done" =>
          /\ \A m \in Messages : ~Sent(m, d)
          /\ \A a \in Actors : ~Working(a, d)
    /\ \A d \in Docs : Undecided(d) => status[d] \notin Terminal

\* A step that does not concern a document keeps what CalmInv says of it.
LEMMA CalmElsewhere ==
    ASSUME CalmInv, NEW d \in Docs,
           uploads'[d] = uploads[d], status'[d] = status[d],
           \A m \in Messages : m.doc = d => queue'[m] = queue[m],
           \A a \in Actors : Working(a, d)' => Working(a, d)
    PROVE  /\ \A a, b \in Actors : Working(a, d)' /\ Working(b, d)' => a = b
           /\ \A m, n \in Messages : Sent(m, d)' /\ Sent(n, d)' => m = n /\ queue'[m] = 1
           /\ \A a \in Actors, m \in Messages : ~(Working(a, d)' /\ Sent(m, d)')
           /\ uploads'[d] # "done" => /\ \A m \in Messages : ~Sent(m, d)'
                                      /\ \A a \in Actors : ~Working(a, d)'
           /\ Undecided(d)' => status'[d] \notin Terminal
<1>1. \A m \in Messages : Sent(m, d)' <=> Sent(m, d)
  BY DEF Sent
<1>2. \A m \in Messages : Sent(m, d) => queue'[m] = queue[m]
  BY DEF Sent
<1>3. Undecided(d)' => Undecided(d)
  BY <1>1 DEF Undecided
<1>. QED
  BY <1>1, <1>2, <1>3 DEF CalmInv, OneAttempt

\* The step of the actor that works on a document: it goes on alone with the
\* document undecided, or stops working on it, leaving at most one message.
LEMMA CalmActor ==
    ASSUME TypeOK, CalmInv, NEW a \in Actors, NEW d \in Docs, Working(a, d), d = held[a].doc,
           held' = held, uploads' = uploads,
           \A b \in Actors \ {a} : pc'[b] = pc[b],
           \A x \in Docs \ {d} : status'[x] = status[x],
           \/ pc'[a] # "idle" /\ queue' = queue /\ status'[d] \notin Terminal
           \/ pc'[a] \in {"ack", "idle"} /\ queue' = queue
           \/ /\ pc'[a] = "ack" /\ status'[d] \notin Terminal
              /\ \E m \in Messages : m.doc = d /\ queue' = [queue EXCEPT ![m] = @ + 1]
    PROVE  CalmInv'
<1>1. uploads[d] = "done" /\ (\A b \in Actors \ {a} : ~Working(b, d)) /\ \A m \in Messages : ~Sent(m, d)
  BY DEF CalmInv, OneAttempt
<1>2. \A b \in Actors \ {a} : ~Working(b, d)'
  BY <1>1 DEF Working
<1>3. ASSUME NEW x \in Docs \ {d}
      PROVE  /\ uploads'[x] = uploads[x] /\ status'[x] = status[x]
             /\ \A m \in Messages : m.doc = x => queue'[m] = queue[m]
             /\ \A b \in Actors : Working(b, x)' => Working(b, x)
  BY <1>3 DEF Working, TypeOK
<1>4. CASE queue' = queue
  <2>1. \A m \in Messages : ~Sent(m, d)'
    BY <1>1, <1>4 DEF Sent
  <2>2. Undecided(d)' => status'[d] \notin Terminal
    BY <1>1, <1>2, <1>4, <2>1 DEF Undecided, Working
  <2>. QED
    BY <1>1, <1>2, <1>3, <2>1, <2>2, CalmElsewhere DEF CalmInv, OneAttempt
<1>5. CASE /\ pc'[a] = "ack" /\ status'[d] \notin Terminal
           /\ \E m \in Messages : m.doc = d /\ queue' = [queue EXCEPT ![m] = @ + 1]
  <2>1. PICK m \in Messages : m.doc = d /\ queue' = [queue EXCEPT ![m] = @ + 1]
    BY <1>5
  <2>2. \A n \in Messages : n.doc = d => queue[n] = 0
    BY <1>1 DEF Sent, TypeOK
  <2>3. \A n \in Messages : Sent(n, d)' => n = m /\ queue'[n] = 1
    BY <2>1, <2>2 DEF Sent, TypeOK
  <2>4. \A b \in Actors : ~Working(b, d)'
    BY <1>2, <1>5 DEF Working
  <2>. QED
    BY <1>1, <1>3, <1>5, <2>3, <2>4, CalmElsewhere DEF CalmInv, OneAttempt
<1>. QED
  BY <1>4, <1>5

\* CalmInv is inductive without faults.
LEMMA CalmStep ==
    Calm /\ TypeOK /\ UploadedFirst /\ CalmInv /\ [Next]_vars => CalmInv'
<1>. SUFFICES ASSUME Calm, TypeOK, UploadedFirst, CalmInv, [Next]_vars PROVE CalmInv'
  OBVIOUS
<1>1. ASSUME NEW d \in Docs, UNCHANGED jobVars,
             \A x \in Docs \ {d} : uploads'[x] = uploads[x] /\ status'[x] = status[x],
             uploads[d] # "done",
             \/ uploads'[d] # "done" /\ queue' = queue /\ status'[d] \notin Terminal
             \/ uploads'[d] = "done" /\ queue' = queue
             \/ /\ uploads'[d] = "done" /\ status'[d] \notin Terminal
                /\ \E m \in Messages : m.doc = d /\ queue' = [queue EXCEPT ![m] = @ + 1]
      PROVE  CalmInv'
  <2>1. (\A m \in Messages : ~Sent(m, d)) /\ \A a \in Actors : ~Working(a, d)
    BY <1>1 DEF CalmInv
  <2>2. \A x \in Docs, a \in Actors : Working(a, x)' <=> Working(a, x)
    BY <1>1 DEF Working, jobVars
  <2>3. \A x \in Docs \ {d} : \A m \in Messages : m.doc = x => queue'[m] = queue[m]
    BY <1>1 DEF TypeOK
  <2>4. CASE queue' = queue
    <3>1. \A m \in Messages : ~Sent(m, d)'
      BY <2>1, <2>4 DEF Sent
    <3>2. Undecided(d)' => status'[d] \notin Terminal
      BY <1>1, <2>1, <2>2, <2>4, <3>1 DEF Undecided
    <3>. QED
      BY <1>1, <2>1, <2>2, <2>3, <3>1, <3>2, CalmElsewhere DEF CalmInv, OneAttempt
  <2>5. CASE /\ uploads'[d] = "done" /\ status'[d] \notin Terminal
             /\ \E m \in Messages : m.doc = d /\ queue' = [queue EXCEPT ![m] = @ + 1]
    <3>1. PICK m \in Messages : m.doc = d /\ queue' = [queue EXCEPT ![m] = @ + 1]
      BY <2>5
    <3>2. \A n \in Messages : n.doc = d => queue[n] = 0
      BY <2>1 DEF Sent, TypeOK
    <3>3. \A n \in Messages : Sent(n, d)' => n = m /\ queue'[n] = 1
      BY <3>1, <3>2 DEF Sent, TypeOK
    <3>. QED
      BY <1>1, <2>1, <2>2, <2>3, <2>5, <3>3, CalmElsewhere DEF CalmInv, OneAttempt
  <2>. QED
    BY <1>1, <2>4, <2>5
<1>2. ASSUME NEW d \in Docs, Register(d) PROVE CalmInv'
  BY <1>1, <1>2 DEF Register, InsertPending, Terminal, TypeOK
<1>3. ASSUME NEW d \in Docs, Upload(d) PROVE CalmInv'
  <2>. DEFINE m == [doc |-> d, retries |-> 0]
  <2>1. m \in Messages /\ m.doc = d
    BY RetriesAssumption DEF Messages
  <2>2. CASE Enqueue(d)
    <3>1. status[d] \notin Terminal
      BY <2>2 DEF Enqueue, CalmInv, Undecided
    <3>. QED
      BY <1>1, <2>1, <2>2, <3>1 DEF Enqueue, Publish, docVars, TypeOK
  <2>3. CASE EnqueueFails(d)
    <3>1. \A x \in Docs \ {d} : status'[x] = status[x]
      BY <2>3, FlushStatus DEF EnqueueFails, TypeOK
    <3>. QED
      BY <1>1, <2>3, <3>1 DEF EnqueueFails, TypeOK
  <2>4. ~UploadDies(d)
    BY DEF UploadDies, Inject, Calm
  <2>5. CASE DelayRaises(d)
    <3>1. queue' = queue
      BY <2>5 DEF DelayRaises, Inject, Calm
    <3>2. status[d] \notin Terminal
      BY <2>5 DEF DelayRaises, CalmInv, Undecided
    <3>. QED
      BY <1>1, <2>5, <3>1, <3>2 DEF DelayRaises, docVars, TypeOK
  <2>. QED
    BY <1>3, <2>2, <2>3, <2>4, <2>5 DEF Upload
<1>4. ASSUME NEW d \in Docs, DeleteDocument(d) PROVE CalmInv'
  <2>1. \A x \in Docs : status'[x] \in Terminal => status[x] \in Terminal
    BY <1>4 DEF DeleteDocument, TypeOK, Terminal
  <2>2. \A x \in Docs : /\ \A a \in Actors : Working(a, x)' <=> Working(a, x)
                        /\ \A m \in Messages : Sent(m, x)' <=> Sent(m, x)
    BY <1>4 DEF DeleteDocument, jobVars, Working, Sent
  <2>3. \A x \in Docs : Undecided(x)' => Undecided(x)
    BY <1>4, <2>2 DEF DeleteDocument, Undecided
  <2>. QED
    BY <1>4, <2>1, <2>2, <2>3 DEF DeleteDocument, CalmInv, OneAttempt
<1>5. ASSUME NEW a \in Actors, Take(a) PROVE CalmInv'
  <2>1. PICK m \in Messages : /\ queue[m] > 0
                              /\ queue' = [queue EXCEPT ![m] = @ - 1]
                              /\ held' = [held EXCEPT ![a] = m]
    BY <1>5 DEF Take
  <2>. DEFINE d == m.doc
  <2>2. d \in Docs /\ Sent(m, d)
    BY <2>1 DEF Messages, Sent
  <2>3. /\ uploads[d] = "done" /\ status[d] \notin Terminal /\ queue[m] = 1
        /\ \A n \in Messages : Sent(n, d) => n = m
        /\ \A b \in Actors : ~Working(b, d)
    BY <2>2 DEF CalmInv, OneAttempt, Undecided
  <2>4. \A n \in Messages : ~Sent(n, d)'
    BY <2>1, <2>3 DEF Sent, TypeOK
  <2>5. \A b \in Actors : Working(b, d)' => b = a
    BY <1>5, <2>1, <2>3 DEF Take, Goto, Working, TypeOK
  <2>6. ASSUME NEW x \in Docs \ {d}
        PROVE  /\ uploads'[x] = uploads[x] /\ status'[x] = status[x]
               /\ \A n \in Messages : n.doc = x => queue'[n] = queue[n]
               /\ \A b \in Actors : Working(b, x)' => Working(b, x)
    BY <1>5, <2>1, <2>6 DEF Take, docVars, Goto, Working, TypeOK
  <2>7. uploads'[d] = "done" /\ status'[d] \notin Terminal
    BY <1>5, <2>3 DEF Take, docVars
  <2>. HIDE DEF d
  <2>. QED
    BY <2>2, <2>4, <2>5, <2>6, <2>7, CalmElsewhere DEF CalmInv, OneAttempt
<1>6. ASSUME NEW a \in Actors, Step(a), ~Ack(a), NEW d, d = held[a].doc PROVE CalmInv'
  <2>0. Working(a, d) /\ d \in Docs /\ held[a] \in Messages /\ a \notin Clis
    <3>1. pc[a] \notin {"idle", "ack"}
      BY <1>6 DEF Step, Load, MarkProcessing, ParseAndEmbed, ParseFails, DeleteChunks, Store,
                  Transient, Attempting, PublishRetry, RetryNotPublished, LoadToFail,
                  CommitFailure, FailureNotRecorded
    <3>. QED
      BY <1>6, <3>1, BusyHolds DEF Working, Calm
  <2>1. status[d] \notin Terminal
    BY <2>0 DEF CalmInv, Undecided
  <2>2. /\ held' = held /\ uploads' = uploads
        /\ \A b \in Actors \ {a} : pc'[b] = pc[b]
    BY <1>6
    DEF Step, Load, MarkProcessing, ParseAndEmbed, ParseFails, DeleteChunks, Store,
        Transient, PublishRetry, RetryNotPublished, LoadToFail, CommitFailure,
        FailureNotRecorded, Leave, Goto, TypeOK
  <2>3. ASSUME NEW s, NEW e, Flush(d, seen[a], s, e)
        PROVE  (\A x \in Docs \ {d} : status'[x] = status[x]) /\ status'[d] \in {status[d], s}
    BY <2>0, <2>3, FlushStatus DEF TypeOK
  <2>4. CASE MarkProcessing(a)
    <3>1. pc'[a] = "parse" /\ queue' = queue
      BY <2>4 DEF MarkProcessing, Goto, TypeOK
    <3>2. status'[d] \notin Terminal
      BY <1>6, <2>1, <2>3, <2>4 DEF MarkProcessing, Terminal
    <3>. QED
      BY <1>6, <2>0, <2>2, <2>3, <2>4, <3>1, <3>2, CalmActor DEF MarkProcessing
  <2>5. CASE ParseFails(a) \/ Store(a) \/ CommitFailure(a)
    <3>1. pc'[a] = "ack" /\ queue' = queue
      BY <2>5 DEF ParseFails, Store, CommitFailure, Leave, Goto, TypeOK
    <3>2. \A x \in Docs \ {d} : status'[x] = status[x]
      BY <1>6, <2>3, <2>5 DEF ParseFails, Store, CommitFailure
    <3>. QED
      BY <1>6, <2>0, <2>2, <3>1, <3>2, CalmActor
  <2>6. CASE Load(a) \/ ParseAndEmbed(a) \/ DeleteChunks(a) \/ Transient(a) \/ LoadToFail(a)
             \/ FailureNotRecorded(a) \/ RetryNotPublished(a)
    <3>1. pc'[a] # "idle" /\ queue' = queue /\ status' = status
      BY <2>0, <2>6
      DEF Load, ParseAndEmbed, DeleteChunks, Transient, LoadToFail, FailureNotRecorded,
          RetryNotPublished, Leave, Goto, TypeOK, docVars
    <3>. QED
      BY <1>6, <2>0, <2>1, <2>2, <3>1, CalmActor
  <2>7. CASE PublishRetry(a)
    <3>. DEFINE m == [doc |-> d, retries |-> held[a].retries + 1]
    <3>1. m \in Messages /\ m.doc = d
      BY <1>6, <2>0, <2>7, RetriesAssumption DEF PublishRetry, TypeOK, Messages
    <3>2. queue' = [queue EXCEPT ![m] = @ + 1] /\ pc'[a] = "ack" /\ status' = status
      BY <1>6, <2>7 DEF PublishRetry, Publish, Goto, TypeOK, docVars
    <3>. QED
      BY <1>6, <2>0, <2>1, <2>2, <3>1, <3>2, CalmActor
  <2>. QED
    BY <1>6, <2>4, <2>5, <2>6, <2>7 DEF Step
<1>7. ASSUME NEW a \in Actors, Ack(a) PROVE CalmInv'
  <2>1. \A x \in Docs, b \in Actors : Working(b, x)' => Working(b, x)
    BY <1>7 DEF Ack, Goto, Working, TypeOK
  <2>. QED
    BY <1>7, <2>1, CalmElsewhere DEF Ack, docVars, CalmInv, OneAttempt
<1>8. /\ \A a \in Actors : ~WorkerFails(a) /\ \A d \in Docs : ~CliIngest(a, d)
      /\ ~BrokerRestart
  BY DEF WorkerFails, HostCrash, LateCrash, ChildKilled, Redeliver, BrokerRestart, Inject,
         CliIngest, Calm
<1>9. CASE Quiet \/ UNCHANGED vars
  BY <1>9
  DEF Quiet, vars, docVars, jobVars, CalmInv, OneAttempt, Undecided, Working, Sent
<1>. QED
  BY <1>2, <1>3, <1>4, <1>5, <1>6, <1>7, <1>8, <1>9 DEF Next

\* Without faults only an undecided document changes its status, unless deleted.
LEMMA FinalStep ==
    Calm /\ TypeOK /\ UploadedFirst /\ CalmInv /\ [Next]_vars =>
        \A d \in Docs : status[d] \in Terminal => status'[d] \in {status[d], "absent"}
<1>. SUFFICES ASSUME Calm, TypeOK, UploadedFirst, CalmInv, [Next]_vars, NEW d \in Docs,
                     status[d] \in Terminal
              PROVE  status'[d] \in {status[d], "absent"}
  OBVIOUS
<1>0. uploads[d] = "done" /\ \A a \in Actors : ~Working(a, d)
  BY DEF CalmInv, Undecided
<1>1. CASE status' = status
  BY <1>1
<1>2. ASSUME NEW e \in Docs, Register(e) \/ (\E a \in Actors : CliIngest(a, e))
      PROVE  status'[d] = status[d]
  BY <1>0, <1>2 DEF Register, CliIngest, InsertPending, TypeOK
<1>3. ASSUME NEW e \in Docs, Upload(e) PROVE status'[d] = status[d]
  <2>1. CASE Enqueue(e) \/ DelayRaises(e) \/ UploadDies(e)
    BY <2>1 DEF Enqueue, DelayRaises, UploadDies, docVars
  <2>2. CASE EnqueueFails(e)
    BY <1>0, <2>2, FlushStatus DEF EnqueueFails, TypeOK
  <2>. QED
    BY <1>3, <2>1, <2>2 DEF Upload
<1>4. ASSUME NEW e \in Docs, DeleteDocument(e) PROVE status'[d] \in {status[d], "absent"}
  BY <1>4 DEF DeleteDocument, TypeOK
<1>5. ASSUME NEW a \in Actors, Step(a) PROVE status'[d] = status[d]
  <2>1. CASE MarkProcessing(a) \/ ParseFails(a) \/ Store(a) \/ CommitFailure(a)
    <3>1. held[a].doc \in Docs \ {d}
      BY <1>0, <2>1, BusyHolds DEF Working, MarkProcessing, ParseFails, Store, CommitFailure
    <3>. QED
      BY <2>1, <3>1, FlushStatus DEF MarkProcessing, ParseFails, Store, CommitFailure, TypeOK
  <2>. QED
    BY <1>5, <2>1
    DEF Step, Load, ParseAndEmbed, DeleteChunks, Transient, PublishRetry, RetryNotPublished,
        LoadToFail, FailureNotRecorded, Ack, docVars
<1>6. ASSUME NEW a \in Actors, Take(a) \/ WorkerFails(a) PROVE status'[d] = status[d]
  BY <1>6 DEF Take, WorkerFails, HostCrash, LateCrash, ChildKilled, Redeliver, docVars
<1>. QED
  BY <1>1, <1>2, <1>3, <1>4, <1>5, <1>6 DEF Next, BrokerRestart, Quiet, vars, docVars

\* CalmInv always holds without faults; so do the invariants it rests on.
LEMMA CalmAlways == ASSUME Calm PROVE Spec => [](CalmInv /\ UploadedFirst)
<1>1. Init => CalmInv
  <2>. SUFFICES ASSUME Init PROVE CalmInv
    OBVIOUS
  <2>1. \A d \in Docs : /\ \A m \in Messages : ~Sent(m, d)
                        /\ \A a \in Actors : ~Working(a, d)
                        /\ status[d] \notin Terminal
    BY DEF Init, Sent, Working, Terminal
  <2>. QED
    BY <2>1 DEF CalmInv, OneAttempt
<1>2. TypeOK /\ ViewsProcessing /\ UploadedFirst /\ CalmInv /\ [Next]_vars
        => (ViewsProcessing /\ UploadedFirst /\ CalmInv)'
  BY Calm, ViewStep, UploadedStep, CalmStep
<1>. QED
  BY <1>1, <1>2, RefinementInit, TypeCorrect, PTL DEF Spec

\* Without faults a document never has two attempts, or an attempt and a message,
\* at the same time, for any number of workers and retries.
THEOREM OneAttemptAtATime == ASSUME Calm PROVE Spec => []OneAttempt
<1>1. CalmInv => OneAttempt
  BY DEF CalmInv
<1>. QED
  BY <1>1, CalmAlways, PTL

\* Without faults a terminal status is final, as pollers and the stream assume.
THEOREM TerminalForGood == ASSUME Calm PROVE Spec => TerminalIsFinal
<1>1. TypeOK /\ UploadedFirst /\ CalmInv /\ [Next]_vars =>
        [\A d \in Docs : status[d] \in Terminal => status'[d] \in {status[d], "absent"}]_vars
  BY Calm, FinalStep
<1>. QED
  BY <1>1, CalmAlways, TypeCorrect, PTL DEF Spec, TerminalIsFinal

\* Without faults an actor that writes to its document saw it unsettled, with no error.
SeenOpen ==
    \A a \in Actors : pc[a] \in {"mark", "parse", "purge", "store", "fail"} =>
        seen[a].status \in NonTerminal /\ seen[a].error = "none"

\* Status and error are written together, and from a view that is no longer true only in
\* columns it does not touch.
LEMMA ErrorStep ==
    Calm /\ TypeOK /\ UploadedFirst /\ CalmInv /\ SeenOpen /\ ErrorExactlyWhenFailed /\ [Next]_vars
        => (SeenOpen /\ ErrorExactlyWhenFailed)'
<1>. SUFFICES ASSUME Calm, TypeOK, UploadedFirst, CalmInv, SeenOpen, ErrorExactlyWhenFailed, [Next]_vars
              PROVE  (SeenOpen /\ ErrorExactlyWhenFailed)'
  OBVIOUS
<1>0. /\ pc \in [Actors -> Labels] /\ seen \in [Actors -> [status : Statuses, error : Errors]]
      /\ status \in [Docs -> Statuses] /\ error \in [Docs -> Errors]
  BY DEF TypeOK
<1>1. ASSUME NEW a \in Actors, pc[a] \in Attempting \cup {"exhausted", "fail"}
      PROVE  held[a].doc \in Docs /\ status[held[a].doc] \notin Terminal /\ error[held[a].doc] = "none"
  <2>1. pc[a] \notin {"idle", "ack"} /\ a \notin Clis
    BY <1>1 DEF Attempting, Calm
  <2>2. held[a].doc \in Docs
    BY <2>1, BusyHolds
  <2>3. Working(a, held[a].doc)
    BY <2>1 DEF Working
  <2>4. status[held[a].doc] \notin Terminal
    BY <2>2, <2>3 DEF CalmInv, Undecided
  <2>. QED
    BY <1>0, <2>2, <2>4 DEF ErrorExactlyWhenFailed, Terminal
\* A step that leaves the rows alone.
<1>2. UNCHANGED <<status, error>> => ErrorExactlyWhenFailed'
  BY DEF ErrorExactlyWhenFailed
<1>3. UNCHANGED <<pc, seen>> => SeenOpen'
  BY DEF SeenOpen
<1>4. ASSUME NEW a \in Actors, \A b \in Actors \ {a} : pc'[b] = pc[b] /\ seen'[b] = seen[b],
             pc'[a] \in {"mark", "parse", "purge", "store", "fail"} =>
                 seen'[a].status \in NonTerminal /\ seen'[a].error = "none"
      PROVE  SeenOpen'
  BY <1>4 DEF SeenOpen
\* A flush of FAILED with a reason, or of another status with none.
<1>5. ASSUME NEW d \in Docs, NEW v, NEW s, NEW e, Flush(d, v, s, e),
             \/ s = "failed" /\ v.status # "failed" /\ v.error = "none" /\ e # "none"
             \/ s \in {"processing", "completed"} /\ status[d] # "failed" /\ v.error = "none" /\ e = "none"
      PROVE  ErrorExactlyWhenFailed'
  <2>1. /\ status' = [status EXCEPT ![d] = IF v.status # s THEN s ELSE @]
        /\ error'  = [error  EXCEPT ![d] = IF v.error # e THEN e ELSE @]
    BY <1>5 DEF Flush
  <2>2. SUFFICES ASSUME NEW x \in Docs PROVE error'[x] # "none" <=> status'[x] = "failed"
    BY DEF ErrorExactlyWhenFailed
  <2>3. CASE x # d
    BY <1>0, <2>1, <2>3 DEF ErrorExactlyWhenFailed
  <2>4. CASE x = d
    BY <1>0, <1>5, <2>1, <2>4 DEF ErrorExactlyWhenFailed
  <2>. QED
    BY <2>3, <2>4
<1>6. ASSUME NEW d \in Docs, Register(d) PROVE (SeenOpen /\ ErrorExactlyWhenFailed)'
  <2>1. status[d] = "absent" /\ error[d] = "none"
    BY <1>0, <1>6 DEF Register, UploadedFirst, ErrorExactlyWhenFailed
  <2>2. ErrorExactlyWhenFailed'
    BY <1>0, <1>6, <2>1 DEF Register, InsertPending, ErrorExactlyWhenFailed
  <2>. QED
    BY <1>3, <1>6, <2>2 DEF Register, jobVars
<1>7. ASSUME NEW d \in Docs, Upload(d) PROVE (SeenOpen /\ ErrorExactlyWhenFailed)'
  <2>1. SeenOpen'
    BY <1>3, <1>7 DEF Upload, Enqueue, DelayRaises, EnqueueFails, UploadDies, jobVars
  <2>2. CASE Enqueue(d) \/ DelayRaises(d) \/ UploadDies(d)
    BY <1>2, <2>1, <2>2 DEF Enqueue, DelayRaises, UploadDies, docVars
  <2>3. CASE EnqueueFails(d)
    BY <1>2, <1>5, <2>1, <2>3 DEF EnqueueFails
  <2>. QED
    BY <1>7, <2>2, <2>3 DEF Upload
<1>8. ASSUME NEW d \in Docs, DeleteDocument(d) PROVE (SeenOpen /\ ErrorExactlyWhenFailed)'
  <2>1. ErrorExactlyWhenFailed'
    BY <1>0, <1>8 DEF DeleteDocument, ErrorExactlyWhenFailed
  <2>. QED
    BY <1>3, <1>8, <2>1 DEF DeleteDocument, jobVars
<1>9. ASSUME NEW a \in Actors, Take(a) PROVE (SeenOpen /\ ErrorExactlyWhenFailed)'
  BY <1>0, <1>2, <1>4, <1>9 DEF Take, Goto, docVars, SeenOpen
<1>10. ASSUME NEW a \in Actors, Load(a) \/ LoadToFail(a)
       PROVE  (SeenOpen /\ ErrorExactlyWhenFailed)'
  <2>1. held[a].doc \in Docs /\ status[held[a].doc] \notin Terminal /\ error[held[a].doc] = "none"
    BY <1>1, <1>10 DEF Load, LoadToFail, Attempting
  <2>2. \A b \in Actors \ {a} : pc'[b] = pc[b] /\ seen'[b] = seen[b]
    BY <1>0, <1>10 DEF Load, LoadToFail, Leave, Goto
  <2>3. pc'[a] \in {"mark", "parse", "purge", "store", "fail"} =>
            seen'[a].status \in NonTerminal /\ seen'[a].error = "none"
    BY <1>0, <1>10, <2>1 DEF Load, LoadToFail, Leave, Goto, Exists, Statuses
  <2>. QED
    BY <1>2, <1>4, <1>10, <2>2, <2>3 DEF Load, LoadToFail, docVars
<1>11. ASSUME NEW a \in Actors, MarkProcessing(a) PROVE (SeenOpen /\ ErrorExactlyWhenFailed)'
  <2>1. pc[a] = "mark" /\ held[a].doc \in Docs /\ status[held[a].doc] # "failed" /\ seen[a].error = "none"
    BY <1>1, <1>11 DEF MarkProcessing, Attempting, Terminal, SeenOpen
  <2>2. ErrorExactlyWhenFailed'
    BY <1>5, <1>11, <2>1 DEF MarkProcessing
  <2>3. /\ \A b \in Actors \ {a} : pc'[b] = pc[b] /\ seen'[b] = seen[b]
        /\ seen'[a].status = "processing" /\ seen'[a].error = "none"
    BY <1>0, <1>11, <2>1 DEF MarkProcessing, Goto
  <2>. QED
    BY <1>4, <2>2, <2>3 DEF NonTerminal
<1>12. ASSUME NEW a \in Actors, ParseAndEmbed(a) \/ DeleteChunks(a)
       PROVE  (SeenOpen /\ ErrorExactlyWhenFailed)'
  <2>1. /\ \A b \in Actors \ {a} : pc'[b] = pc[b] /\ seen'[b] = seen[b]
        /\ seen'[a].status \in NonTerminal /\ seen'[a].error = "none"
    BY <1>0, <1>12 DEF ParseAndEmbed, DeleteChunks, Goto, SeenOpen
  <2>. QED
    BY <1>2, <1>4, <1>12, <2>1 DEF ParseAndEmbed, DeleteChunks, docVars
<1>13. ASSUME NEW a \in Actors, ParseFails(a) \/ CommitFailure(a)
       PROVE  (SeenOpen /\ ErrorExactlyWhenFailed)'
  <2>1. /\ pc[a] \in {"parse", "fail"} /\ held[a].doc \in Docs
        /\ seen[a].status # "failed" /\ seen[a].error = "none"
    BY <1>1, <1>13 DEF ParseFails, CommitFailure, Attempting, NonTerminal, SeenOpen
  <2>2. ErrorExactlyWhenFailed'
    BY <1>5, <1>13, <2>1 DEF ParseFails, CommitFailure
  <2>3. /\ \A b \in Actors \ {a} : pc'[b] = pc[b] /\ seen'[b] = seen[b]
        /\ pc'[a] = "ack"
    BY <1>0, <1>13 DEF ParseFails, CommitFailure, Leave, Goto
  <2>. QED
    BY <1>4, <2>2, <2>3
<1>14. ASSUME NEW a \in Actors, Store(a) PROVE (SeenOpen /\ ErrorExactlyWhenFailed)'
  <2>1. pc[a] = "store" /\ held[a].doc \in Docs /\ status[held[a].doc] # "failed" /\ seen[a].error = "none"
    BY <1>1, <1>14 DEF Store, Attempting, Terminal, SeenOpen
  <2>2. ErrorExactlyWhenFailed'
    BY <1>5, <1>14, <2>1 DEF Store
  <2>3. /\ \A b \in Actors \ {a} : pc'[b] = pc[b] /\ seen'[b] = seen[b]
        /\ pc'[a] = "ack"
    BY <1>0, <1>14 DEF Store, Goto
  <2>. QED
    BY <1>4, <2>2, <2>3
<1>15. ASSUME NEW a \in Actors,
              \/ Transient(a) \/ PublishRetry(a) \/ RetryNotPublished(a)
              \/ FailureNotRecorded(a) \/ Ack(a)
       PROVE  (SeenOpen /\ ErrorExactlyWhenFailed)'
  <2>1. /\ \A b \in Actors \ {a} : pc'[b] = pc[b] /\ seen'[b] = seen[b]
        /\ pc'[a] \in {"ack", "exhausted", "retry", "idle"}
    BY <1>0, <1>15
    DEF Transient, PublishRetry, RetryNotPublished, FailureNotRecorded, Ack, Leave, Goto
  <2>. QED
    BY <1>2, <1>4, <1>15, <2>1
    DEF Transient, PublishRetry, RetryNotPublished, FailureNotRecorded, Ack, docVars
<1>16. /\ \A a \in Actors : ~WorkerFails(a) /\ \A d \in Docs : ~CliIngest(a, d)
       /\ ~BrokerRestart
  BY DEF WorkerFails, HostCrash, LateCrash, ChildKilled, Redeliver, BrokerRestart, Inject,
         CliIngest, Calm
<1>17. CASE Quiet \/ UNCHANGED vars
  BY <1>2, <1>3, <1>17 DEF Quiet, vars, docVars, jobVars
<1>. QED
  BY <1>6, <1>7, <1>8, <1>9, <1>10, <1>11, <1>12, <1>13, <1>14, <1>15, <1>16, <1>17 DEF Next, Step

\* Without faults a document has an error message exactly when it is FAILED, for any number
\* of workers and retries, and whenever it is deleted.
THEOREM ErrorsAreFailures == ASSUME Calm PROVE Spec => []ErrorExactlyWhenFailed
<1>1. Init => SeenOpen /\ ErrorExactlyWhenFailed
  BY DEF Init, SeenOpen, ErrorExactlyWhenFailed
<1>2. TypeOK /\ UploadedFirst /\ CalmInv /\ SeenOpen /\ ErrorExactlyWhenFailed /\ [Next]_vars
        => (SeenOpen /\ ErrorExactlyWhenFailed)'
  BY Calm, ErrorStep
<1>. QED
  BY <1>1, <1>2, CalmAlways, TypeCorrect, PTL DEF Spec

\* A step of the lifecycle that keeps every terminal status is no relapse.
LEMMA NoRelapse ==
    ASSUME TypeOK, ChunksMatchRow, [Loose!Next]_Loose!vars,
           \A d \in Docs : uploads'[d] = "none" => uploads[d] = "none",
           \A d \in Docs : status[d] \in Terminal => status'[d] \in {status[d], "absent"}
    PROVE  [Strict!Next]_Strict!vars
<1>1. ASSUME NEW d \in Docs, Loose!Relapse(d) PROVE UNCHANGED Strict!vars
  <2>1. LifecycleState[d] \in Terminal /\ LifecycleState[d] = status[d]
    BY <1>1 DEF Loose!Relapse, Loose!Settled, Terminal, LifecycleState
  <2>2. PICK s \in {"processing", "failed", "completed"} :
            LifecycleState' = [LifecycleState EXCEPT ![d] = s]
    BY <1>1 DEF Loose!Relapse, Loose!Become, Loose!Finish
  <2>3. LifecycleState'[d] = s
    BY <2>2 DEF LifecycleState
  <2>4. status'[d] = s /\ s = status[d]
    BY <2>1, <2>3 DEF LifecycleState
  <2>5. LifecycleState' = LifecycleState
    BY <2>1, <2>2, <2>4 DEF LifecycleState
  <2>6. LifecycleSearchable' = LifecycleSearchable
    <3>1. CASE s = "completed"
      <4>0. d \in Docs /\ chunks[d] = 1
        BY <1>1, <2>4, <3>1 DEF ChunksMatchRow
      <4>1. d \in LifecycleSearchable
        BY <4>0 DEF TypeOK, LifecycleSearchable
      <4>. QED
        BY <1>1, <4>1 DEF Loose!Relapse, Loose!Finish
    <3>2. CASE s # "completed"
      BY <1>1, <2>3, <3>2 DEF Loose!Relapse, Loose!Finish, Loose!Become, LifecycleState
    <3>. QED
      BY <3>1, <3>2
  <2>. QED
    BY <2>5, <2>6 DEF Strict!vars
<1>2. ASSUME NEW d \in Docs, Loose!Upload(d) \/ Loose!Progress(d) \/ Loose!Remove(d)
      PROVE  Strict!Next
  BY <1>2
  DEF Strict!Next, Loose!Upload, Loose!Progress, Loose!Remove, Loose!Start, Loose!Complete,
      Loose!Fail, Loose!Finish, Loose!Become, Loose!Open, Loose!Settled,
      Strict!Upload, Strict!Progress, Strict!Remove, Strict!Start, Strict!Complete,
      Strict!Fail, Strict!Finish, Strict!Become, Strict!Open, Strict!Settled
<1>3. Loose!vars = Strict!vars /\ Loose!vars' = Strict!vars'
  BY DEF Loose!vars, Strict!vars
<1>. QED
  BY <1>1, <1>2, <1>3 DEF Loose!Next

\* Without faults the platform implements the lifecycle as documented: forward
\* only, settled once and for all, for any number of documents and workers.
THEOREM ImplementsStrict == ASSUME Calm PROVE Spec => Strict!Spec
<1>1. Init => Strict!Init
  BY RefinementInit DEF Loose!Init, Strict!Init
<1>2. TypeOK /\ ViewsProcessing /\ UploadedFirst /\ [Next]_vars => ViewsProcessing'
  BY ViewStep
<1>3. [Next]_vars /\ TypeOK => \A d \in Docs : uploads'[d] = "none" => uploads[d] = "none"
  BY DEF Next, Upload, Step, WorkerFails, Register, Enqueue, DelayRaises, EnqueueFails,
         UploadDies, DeleteDocument, CliIngest, Take, Load, MarkProcessing, ParseAndEmbed,
         ParseFails, DeleteChunks, Store, Transient, PublishRetry, RetryNotPublished,
         LoadToFail, CommitFailure, FailureNotRecorded, Ack, HostCrash, LateCrash,
         ChildKilled, Redeliver, BrokerRestart, Quiet, vars, TypeOK
<1>4. TypeOK /\ ChunksMatchRow /\ ViewsProcessing /\ UploadedFirst /\ CalmInv /\ [Next]_vars
        => [Strict!Next]_Strict!vars
  BY Calm, <1>3, RefinementStep, FinalStep, NoRelapse
<1>. QED
  BY <1>1, <1>2, <1>4, RefinementInit, CalmAlways, TypeCorrect, ChunksAlwaysMatch, PTL
  DEF Spec, Strict!Spec

=============================================================================
