------------------------------ MODULE Ingestion ------------------------------
(***************************************************************************)
(* Asynchronous document ingestion: the upload request that creates the    *)
(* documents row and publishes one Celery message, the workers that run    *)
(* ingest_document() -> IngestionService.process(), the operator CLI that  *)
(* runs both halves in one process, and the DELETE endpoint, all sharing   *)
(* the documents and chunks tables.                                        *)
(*                                                                         *)
(* One document stands for one stored file.  What is atomic is what        *)
(* PostgreSQL (READ COMMITTED) makes atomic: a statement's read, and a     *)
(* commit.  An attempt keeps the ORM's view of the row it loaded: sessions *)
(* do not expire on commit, and a flush writes only the columns whose      *)
(* value differs from that view.                                           *)
(***************************************************************************)
EXTENDS Naturals, FiniteSets

CONSTANTS
    Docs,        \* files that may be uploaded; every register() is a new row
    Corrupt,     \* the documents whose bytes parse_document() rejects
    Workers,     \* Celery pool processes (prefetch 1: one task each)
    Clis,        \* `cli ingest` processes: register() + process(), no message
    MaxRetries,  \* settings.worker_max_retries
    Faults,      \* the failures the environment may inject (FaultKinds)
    MaxFaults,   \* bound: how many of them
    NoDoc        \* not a document: what an idle actor holds

FaultKinds ==
    { "host_crash",         \* the worker host dies; unacked message restored
      "late_crash",         \* it dies when the broker has nothing to restore
      "child_killed",       \* a pool process is killed; its parent acknowledges
      "redelivery",         \* visibility timeout: the broker delivers again
      "broker_restart",     \* Redis restarts, without its messages
      "ambiguous_publish",  \* delay() raises although the message was queued
      "retry_refused",      \* the broker refuses what self.retry() publishes
      "mark_error",         \* mark_failed() itself raises (database down)
      "api_crash" }         \* the upload request is cut after its commit

ASSUME DocsAssumption    == NoDoc \notin Docs /\ Corrupt \subseteq Docs
ASSUME ActorsAssumption  == Workers \cap Clis = {}
ASSUME RetriesAssumption == MaxRetries \in Nat
ASSUME FaultsAssumption  == Faults \subseteq FaultKinds /\ MaxFaults \in Nat

Actors   == Workers \cup Clis
Messages == [doc : Docs, retries : 0..MaxRetries]
Nothing  == [doc |-> NoDoc, retries |-> 0]

Terminal    == {"completed", "failed"}
NonTerminal == {"pending", "processing"}
Statuses    == {"absent"} \cup Terminal \cup NonTerminal
Errors      == {"none", "enqueue", "parse", "exhausted"}
Unseen      == [status |-> "absent", error |-> "none"]

\* Where an actor is.  Attempting: inside process().
Attempting == {"load", "mark", "parse", "purge", "store"}
Labels     == Attempting \cup {"idle", "retry", "exhausted", "fail", "ack"}

VARIABLES
    status,      \* documents.status; "absent": no such row
    error,       \* documents.error_message, by its origin
    chunkCount,  \* documents.chunk_count, in units of the document's chunks
    chunks,      \* committed rows of chunks per chunk_index of the document
    uploads,     \* the upload request of each document; "refused": delay() raised
    queue,       \* undelivered messages (a bag: retries are delayed, so order is lost)
    pc,          \* where each actor is
    held,        \* the message an actor is working on
    unacked,     \* workers whose message the broker keeps, to deliver it again
    seen,        \* the row as its session cached it
    swept,       \* actors whose open transaction has deleted every chunk row
                 \* of their document that is committed now
    faults       \* injected so far

docVars == <<status, error, chunkCount, chunks>>
jobVars == <<pc, held, unacked, seen, swept>>
vars    == <<docVars, uploads, queue, jobVars, faults>>

-----------------------------------------------------------------------------
Init ==
    /\ status     = [d \in Docs |-> "absent"]
    /\ error      = [d \in Docs |-> "none"]
    /\ chunkCount = [d \in Docs |-> 0]
    /\ chunks     = [d \in Docs |-> 0]
    /\ uploads    = [d \in Docs |-> "none"]
    /\ queue      = [m \in Messages |-> 0]
    /\ pc         = [a \in Actors |-> "idle"]
    /\ held       = [a \in Actors |-> Nothing]
    /\ unacked    = {}
    /\ seen       = [a \in Actors |-> Unseen]
    /\ swept      = {}
    /\ faults     = 0

Exists(d) == status[d] # "absent"

\* One failure of the environment, within the bound.
Inject(kind) ==
    /\ kind \in Faults
    /\ faults < MaxFaults
    /\ faults' = faults + 1

Goto(a, label) == pc' = [pc EXCEPT ![a] = label]

\* The session is closed: its transaction, if any, and its view are gone.
Leave(a, label) ==
    /\ Goto(a, label)
    /\ seen' = [seen EXCEPT ![a] = Unseen]
    /\ swept' = swept \ {a}

Publish(m) == queue' = [queue EXCEPT ![m] = @ + 1]

\* Mutant: an upsert, that writes whether or not the row is still there.
FlushUpsert(d, v, s, e) ==
    /\ status' = [status EXCEPT ![d] = IF v.status # s THEN s ELSE @]
    /\ error'  = [error  EXCEPT ![d] = IF v.error # e THEN e ELSE @]

\* Flush of status s and error e set on an instance whose view is v: only the
\* columns that differ from the view are in the UPDATE.  Needs the row unless
\* there is nothing to write (rowcount 0 raises StaleDataError).
Dirty(v, s, e) == v.status # s \/ v.error # e
Flush(d, v, s, e) ==
    /\ Exists(d) \/ ~Dirty(v, s, e)
    /\ status' = [status EXCEPT ![d] = IF v.status # s THEN s ELSE @]
    /\ error'  = [error  EXCEPT ![d] = IF v.error # e THEN e ELSE @]

-----------------------------------------------------------------------------
(* The upload request: upload_document, and each file of the batch. *)

InsertPending(d) ==
    /\ status' = [status EXCEPT ![d] = "pending"]
    /\ UNCHANGED <<error, chunkCount, chunks>>

\* register() commits the row.
Register(d) ==
    /\ uploads[d] = "none"
    /\ InsertPending(d)
    /\ uploads' = [uploads EXCEPT ![d] = "registered"]
    /\ UNCHANGED <<queue, jobVars, faults>>

\* ingest_document.delay() succeeds.
Enqueue(d) ==
    /\ uploads[d] = "registered"
    /\ uploads' = [uploads EXCEPT ![d] = "done"]
    /\ Publish([doc |-> d, retries |-> 0])
    /\ UNCHANGED <<docVars, jobVars, faults>>

\* ingest_document.delay() raises: the broker took nothing, or, unknown to the
\* API, it took the message.
DelayRaises(d) ==
    /\ uploads[d] = "registered"
    /\ uploads' = [uploads EXCEPT ![d] = "refused"]
    /\ \/ UNCHANGED <<queue, faults>>
       \/ Inject("ambiguous_publish") /\ Publish([doc |-> d, retries |-> 0])
    /\ UNCHANGED <<docVars, jobVars>>

\* Mutant: the 503 is returned without mark_failed().
EnqueueFailsSilently(d) ==
    /\ uploads[d] = "refused"
    /\ uploads' = [uploads EXCEPT ![d] = "done"]
    /\ UNCHANGED <<docVars, queue, jobVars, faults>>

\* ... and mark_failed() commits, in the request's session, whose identity map
\* still holds the instance register() inserted: whatever a worker that got the
\* message has written by now is overwritten.  503 for the client (or 500, when
\* the row was deleted meanwhile and the UPDATE finds nothing).
EnqueueFails(d) ==
    /\ uploads[d] = "refused"
    /\ uploads' = [uploads EXCEPT ![d] = "done"]
    /\ IF Exists(d)
       THEN Flush(d, [status |-> "pending", error |-> "none"], "failed", "enqueue")
       ELSE UNCHANGED <<status, error>>
    /\ UNCHANGED <<chunkCount, chunks, queue, jobVars, faults>>

\* The request is cut between the commit and the end of the handler: the API
\* process dies before delay() or before mark_failed(), or mark_failed() raises.
UploadDies(d) ==
    /\ uploads[d] \in {"registered", "refused"}
    /\ uploads' = [uploads EXCEPT ![d] = "done"]
    /\ Inject("api_crash")
    /\ UNCHANGED <<docVars, queue, jobVars>>

\* DELETE /documents/{id}; the chunk rows go by cascade.  When an attempt has
\* uncommitted deletes of those chunks the two statements wait for each other's
\* rows; PostgreSQL aborts one: the attempt fails (Transient) before this step,
\* or this request fails and nothing changes.
DeleteDocument(d) ==
    /\ Exists(d)
    /\ status'     = [status EXCEPT ![d] = "absent"]
    /\ error'      = [error EXCEPT ![d] = "none"]
    /\ chunkCount' = [chunkCount EXCEPT ![d] = 0]
    /\ chunks'     = [chunks EXCEPT ![d] = 0]
    /\ UNCHANGED <<uploads, queue, jobVars, faults>>

-----------------------------------------------------------------------------
(* process(), run by a worker for a message or by the CLI after register(). *)

\* `cli ingest`: register() and straight into process(), in one process.
CliIngest(a, d) ==
    /\ a \in Clis /\ pc[a] = "idle"
    /\ uploads[d] = "none"
    /\ InsertPending(d)
    /\ uploads' = [uploads EXCEPT ![d] = "done"]
    /\ Goto(a, "load")
    /\ held' = [held EXCEPT ![a] = [doc |-> d, retries |-> 0]]
    /\ UNCHANGED <<queue, unacked, seen, swept, faults>>

\* The broker delivers a message; with acks_late it stays unacknowledged.
Take(a) ==
    /\ a \in Workers /\ pc[a] = "idle"
    /\ \E m \in Messages :
          /\ queue[m] > 0
          /\ queue' = [queue EXCEPT ![m] = @ - 1]
          /\ held' = [held EXCEPT ![a] = m]
    /\ unacked' = unacked \cup {a}
    /\ Goto(a, "load")
    /\ UNCHANGED <<docVars, uploads, seen, swept, faults>>

\* SELECT: gone (NotFoundError, swallowed) and COMPLETED end the task.  The
\* row's payload is never NULL here: register() always stores it.
Load(a) ==
    LET d == held[a].doc IN
    /\ pc[a] = "load"
    /\ \/ /\ status[d] \in {"absent", "completed"}
          /\ Leave(a, "ack")
       \/ /\ status[d] \notin {"absent", "completed"}
          /\ Goto(a, "mark")
          /\ seen' = [seen EXCEPT ![a] = [status |-> status[d], error |-> error[d]]]
          /\ UNCHANGED swept
    /\ UNCHANGED <<docVars, uploads, queue, held, unacked, faults>>

\* status = PROCESSING; commit.  No UPDATE when the view already says so.
MarkProcessing(a) ==
    LET d == held[a].doc IN
    /\ pc[a] = "mark"
    /\ Flush(d, seen[a], "processing", seen[a].error)
    /\ seen' = [seen EXCEPT ![a] = [status |-> "processing", error |-> @.error]]
    /\ Goto(a, "parse")
    /\ UNCHANGED <<chunkCount, chunks, uploads, queue, held, unacked, swept, faults>>

\* Parse, chunk and embed: no transaction is open.
ParseAndEmbed(a) ==
    /\ pc[a] = "parse"
    /\ held[a].doc \notin Corrupt
    /\ Goto(a, "purge")
    /\ UNCHANGED <<docVars, uploads, queue, held, unacked, seen, swept, faults>>

\* Mutant: FAILED without the reason.
ParseFailsSilently(a) ==
    /\ pc[a] = "parse"
    /\ held[a].doc \in Corrupt
    /\ Flush(held[a].doc, seen[a], "failed", seen[a].error)
    /\ Leave(a, "ack")
    /\ UNCHANGED <<chunkCount, chunks, uploads, queue, held, unacked, faults>>

\* ParseError: mark_failed() on the cached instance, then the task swallows it.
\* (A deleted row makes that UPDATE raise instead: Transient.)
ParseFails(a) ==
    LET d == held[a].doc IN
    /\ pc[a] = "parse"
    /\ d \in Corrupt
    /\ Flush(d, seen[a], "failed", "parse")
    /\ Leave(a, "ack")
    /\ UNCHANGED <<chunkCount, chunks, uploads, queue, held, unacked, faults>>

\* Mutant: the delete is committed on its own.
DeleteChunksCommitted(a) ==
    /\ pc[a] = "purge"
    /\ swept' = swept \cup {a}
    /\ chunks' = [chunks EXCEPT ![held[a].doc] = 0]
    /\ Goto(a, "store")
    /\ UNCHANGED <<status, error, chunkCount, uploads, queue, held, unacked, seen, faults>>

\* DELETE FROM chunks: opens the transaction that Store commits.
DeleteChunks(a) ==
    /\ pc[a] = "purge"
    /\ swept' = swept \cup {a}
    /\ Goto(a, "store")
    /\ UNCHANGED <<docVars, uploads, queue, held, unacked, seen, faults>>

\* Chunk rows an INSERT of this actor's transaction would meet.
Remaining(a, d) == IF a \in swept THEN 0 ELSE chunks[d]

\* Mutant: no unique constraint.
UniqueUnchecked(a, d) == TRUE

\* UNIQUE(document_id, chunk_index) refuses the INSERT when another attempt
\* committed its chunks after this one's DELETE.
IndexesFree(a, d) == Remaining(a, d) = 0

\* UPDATE documents, INSERT chunks, COMMIT.
Store(a) ==
    LET d == held[a].doc IN
    /\ pc[a] = "store"
    /\ Exists(d)
    /\ IndexesFree(a, d)
    /\ Flush(d, seen[a], "completed", "none")
    /\ chunkCount' = [chunkCount EXCEPT ![d] = 1]
    /\ chunks' = [chunks EXCEPT ![d] = Remaining(a, d) + 1]
    /\ Goto(a, "ack")
    /\ seen' = [seen EXCEPT ![a] = Unseen]
    /\ swept' = {b \in swept : held[b].doc # d}
    /\ UNCHANGED <<uploads, queue, held, unacked, faults>>

\* Mutant: one retry too many.
TransientOffByOne(a) ==
    /\ pc[a] \in Attempting
    /\ Leave(a, IF a \in Clis THEN "ack"
                ELSE IF held[a].retries > MaxRetries THEN "exhausted"
                ELSE "retry")
    /\ UNCHANGED <<docVars, uploads, queue, held, unacked, faults>>

\* Mutant: exhaustion is left to an exception that is never raised.
TransientUncounted(a) ==
    /\ pc[a] \in Attempting
    /\ Leave(a, IF a \in Clis \/ held[a].retries >= MaxRetries THEN "ack" ELSE "retry")
    /\ UNCHANGED <<docVars, uploads, queue, held, unacked, faults>>

\* Any other exception out of process(): a database, embedder or broker error, a
\* StaleDataError, a unique violation.  Rolled back; the row stays as it is.
\* The task decides by the delivery's retry counter; the CLI just exits.
Transient(a) ==
    /\ pc[a] \in Attempting
    /\ Leave(a, IF a \in Clis THEN "ack"
                ELSE IF held[a].retries >= MaxRetries THEN "exhausted"
                ELSE "retry")
    /\ UNCHANGED <<docVars, uploads, queue, held, unacked, faults>>

-----------------------------------------------------------------------------
(* The task around process(). *)

\* Mutant: retry() does not leave the task, which goes on to mark_failed().
PublishRetryGoesOn(a) ==
    /\ pc[a] = "retry"
    /\ Publish([doc |-> held[a].doc, retries |-> held[a].retries + 1])
    /\ Goto(a, "exhausted")
    /\ UNCHANGED <<docVars, uploads, held, unacked, seen, swept, faults>>

\* self.retry(): publishes the next attempt; the current one is acked later.
PublishRetry(a) ==
    /\ pc[a] = "retry"
    /\ Publish([doc |-> held[a].doc, retries |-> held[a].retries + 1])
    /\ Goto(a, "ack")
    /\ UNCHANGED <<docVars, uploads, held, unacked, seen, swept, faults>>

\* The broker refuses that message.  Celery raises Reject(requeue=False) in place
\* of Retry, and the delivery is dropped like an acknowledged one.
RetryNotPublished(a) ==
    /\ pc[a] = "retry"
    /\ Inject("retry_refused")
    /\ Goto(a, "ack")
    /\ UNCHANGED <<docVars, uploads, queue, held, unacked, seen, swept>>

\* _mark_failed() on a fresh session: session.get ...
LoadToFail(a) ==
    LET d == held[a].doc IN
    /\ pc[a] = "exhausted"
    /\ IF Exists(d)
       THEN /\ Goto(a, "fail")
            /\ seen' = [seen EXCEPT ![a] = [status |-> status[d], error |-> error[d]]]
       ELSE Goto(a, "ack") /\ UNCHANGED seen
    /\ UNCHANGED <<docVars, uploads, queue, held, unacked, swept, faults>>

\* ... and the commit.
CommitFailure(a) ==
    LET d == held[a].doc IN
    /\ pc[a] = "fail"
    /\ Flush(d, seen[a], "failed", "exhausted")
    /\ Leave(a, "ack")
    /\ UNCHANGED <<chunkCount, chunks, uploads, queue, held, unacked, faults>>

\* _mark_failed() raises: the row vanished after the get, or the database is
\* unreachable.  The exception leaves the task, which Celery acknowledges
\* (task_acks_on_failure_or_timeout is left at its default).
FailureNotRecorded(a) ==
    /\ \/ pc[a] = "fail" /\ ~Exists(held[a].doc) /\ UNCHANGED faults
       \/ pc[a] \in {"exhausted", "fail"} /\ Inject("mark_error")
    /\ Leave(a, "ack")
    /\ UNCHANGED <<docVars, uploads, queue, held, unacked>>

\* The message is acknowledged (the CLI exits).
Ack(a) ==
    /\ pc[a] = "ack"
    /\ Goto(a, "idle")
    /\ held' = [held EXCEPT ![a] = Nothing]
    /\ unacked' = unacked \ {a}
    /\ UNCHANGED <<docVars, uploads, queue, seen, swept, faults>>

-----------------------------------------------------------------------------
(* Worker failures. *)

Abandon(a) ==
    /\ a \in Workers /\ pc[a] # "idle"
    /\ Leave(a, "idle")
    /\ held' = [held EXCEPT ![a] = Nothing]
    /\ unacked' = unacked \ {a}

\* Mutant: acks_late off, the message was acknowledged on delivery.
HostCrashAcked(a) ==
    /\ Abandon(a)
    /\ Inject("host_crash")
    /\ UNCHANGED <<docVars, uploads, queue>>

\* The worker host dies; the broker restores the unacknowledged message.
HostCrash(a) ==
    /\ Abandon(a)
    /\ a \in unacked
    /\ Inject("host_crash")
    /\ Publish(held[a])
    /\ UNCHANGED <<docVars, uploads>>

\* It dies when the broker has restored the message already, or has lost it.
LateCrash(a) ==
    /\ Abandon(a)
    /\ a \notin unacked
    /\ Inject("late_crash")
    /\ UNCHANGED <<docVars, uploads, queue>>

\* One pool process is killed (OOM, SIGKILL); its parent sees WorkerLostError and
\* acknowledges: task_reject_on_worker_lost is left at its default.
ChildKilled(a) ==
    /\ Abandon(a)
    /\ Inject("child_killed")
    /\ UNCHANGED <<docVars, uploads, queue>>

\* The visibility timeout expires under a live, slow worker: the broker delivers
\* again what it keeps, once.
Redeliver(a) ==
    /\ a \in unacked
    /\ Inject("redelivery")
    /\ Publish(held[a])
    /\ unacked' = unacked \ {a}
    /\ UNCHANGED <<docVars, uploads, pc, held, seen, swept>>

\* Redis restarts without its messages: what is queued is gone, and so is what it
\* kept of the messages being worked on.
BrokerRestart ==
    /\ Inject("broker_restart")
    /\ queue' = [m \in Messages |-> 0]
    /\ unacked' = {}
    /\ UNCHANGED <<docVars, uploads, pc, held, seen, swept>>

-----------------------------------------------------------------------------
Upload(d) == Enqueue(d) \/ DelayRaises(d) \/ EnqueueFails(d) \/ UploadDies(d)

Step(a) ==
    \/ Load(a) \/ MarkProcessing(a) \/ ParseAndEmbed(a) \/ ParseFails(a)
    \/ DeleteChunks(a) \/ Store(a) \/ Transient(a) \/ PublishRetry(a) \/ RetryNotPublished(a)
    \/ LoadToFail(a) \/ CommitFailure(a) \/ FailureNotRecorded(a) \/ Ack(a)

WorkerFails(a) == HostCrash(a) \/ LateCrash(a) \/ ChildKilled(a) \/ Redeliver(a)

\* Nothing left to do: every request is answered, every message acknowledged.
Quiet ==
    /\ \A d \in Docs : uploads[d] = "done"
    /\ \A m \in Messages : queue[m] = 0
    /\ \A a \in Actors : pc[a] = "idle"
    /\ UNCHANGED vars

Next ==
    \/ \E d \in Docs : Register(d) \/ Upload(d) \/ DeleteDocument(d)
    \/ \E a \in Actors : Take(a) \/ Step(a) \/ WorkerFails(a)
    \/ \E a \in Actors, d \in Docs : CliIngest(a, d)
    \/ BrokerRestart
    \/ Quiet

Spec == Init /\ [][Next]_vars

\* A request in progress ends, a running actor goes on, an idle worker takes what
\* is queued.  Nobody has to upload, delete or fail.
Fairness ==
    /\ \A d \in Docs : WF_vars(Upload(d))
    /\ \A a \in Actors : WF_vars(Step(a)) /\ WF_vars(Take(a))

FairSpec == Spec /\ Fairness

-----------------------------------------------------------------------------
(* Properties. *)

TypeOK ==
    /\ status     \in [Docs -> Statuses]
    /\ error      \in [Docs -> Errors]
    /\ chunkCount \in [Docs -> 0..1]
    /\ chunks     \in [Docs -> Nat]
    /\ uploads    \in [Docs -> {"none", "registered", "refused", "done"}]
    /\ queue      \in [Messages -> Nat]
    /\ pc         \in [Actors -> Labels]
    /\ held       \in [Actors -> Messages \cup {Nothing}]
    /\ unacked    \subseteq Workers
    /\ seen       \in [Actors -> [status : Statuses, error : Errors]]
    /\ swept      \subseteq Actors
    /\ faults     \in 0..MaxFaults
    /\ \A a \in Actors : pc[a] = "idle" <=> held[a] = Nothing
    /\ \A a \in unacked : pc[a] # "idle"
    /\ \A a \in Actors : pc[a] = "retry" => held[a].retries < MaxRetries

\* The chunks table always agrees with the documents row: at most one row per
\* chunk_index, chunk_count is what is stored, a COMPLETED document has all its
\* chunks and a deleted one none, whatever attempts overlap, crash or lose the
\* row between their DELETE and their COMMIT.
ChunksMatchRow ==
    \A d \in Docs :
        /\ chunks[d] = chunkCount[d]
        /\ status[d] = "completed" => chunks[d] = 1
        /\ status[d] = "absent" => chunks[d] = 0

\* Re-processing replaces chunks without a gap: once a document's chunks are
\* searchable they stay so until the document is deleted.
SearchableStays ==
    [][\A d \in Docs : chunks[d] > 0 /\ status'[d] # "absent" => chunks'[d] > 0]_vars

\* Actors that will still settle their document or hand it on.  One that is about
\* to mark FAILED a row it saw FAILED is none: its flush leaves the status alone.
Owner(a, d) ==
    /\ held[a].doc = d
    /\ \/ pc[a] \in Attempting \cup {"retry", "exhausted"}
       \/ pc[a] = "fail" /\ seen[a].status # "failed"

Queued(d) == \E m \in Messages : m.doc = d /\ queue[m] > 0

\* The upload request, a message or a running attempt answers for the document.
Answered(d) ==
    \/ uploads[d] \in {"registered", "refused"}
    \/ Queued(d)
    \/ \E a \in Actors : Owner(a, d)

\* The failures that nobody recovers from do not happen: every upload request that
\* committed a row is run to its end, a retry can be published, the exhausted task
\* can record its failure, the broker keeps its messages, and a worker dies only
\* with its whole host and before the broker has delivered its message again.
Lossless ==
    /\ Clis = {}
    /\ Faults \subseteq {"host_crash", "redelivery", "ambiguous_publish"}

\* No failure of the environment and no CLI.
Calm == Clis = {} /\ Faults = {}

\* "Nothing is ever left stuck": a PENDING or PROCESSING row is always answered
\* for, through overlapping attempts, restored and repeated messages.
NoOrphan == \A d \in Docs : status[d] \in NonTerminal => Answered(d)

\* The CLI has no retry: whatever process() raises ends it.
CliGivesUp(a) == a \in Clis /\ Transient(a)

\* The database is down when the exhausted task records the failure.
FailureIsDropped(a) == FailureNotRecorded(a) /\ faults' # faults

\* A failure that takes away whoever answers for d, and nobody recovers from.
Strikes(d) ==
    \/ UploadDies(d)
    \/ BrokerRestart /\ Queued(d)
    \/ \E a \in Actors :
          /\ held[a].doc = d
          /\ \/ RetryNotPublished(a) \/ FailureIsDropped(a) \/ CliGivesUp(a)
             \/ ChildKilled(a) \/ LateCrash(a)

Orphaned(d) == status[d] \in NonTerminal /\ ~Answered(d)

\* Of everything modelled here, a row is left PENDING or PROCESSING with nobody to
\* answer for it only by one of seven losses: the upload request is cut after its
\* commit, the broker restarts while the message is queued, or refuses the retry,
\* the exhausted task cannot record its failure, a pool process is killed under a
\* live parent, a host dies after the broker delivered its message again or lost
\* it, or the operator's CLI gives up.  Host crashes before that, repeated
\* deliveries, retries and ambiguous publishes, in whatever combination, leave none.
LossesAreNamed == [][\A d \in Docs : Orphaned(d)' => Orphaned(d) \/ Strikes(d)]_vars

\* An attempt of the document is in progress, or a message will start one.
Working(a, d) == pc[a] \notin {"idle", "ack"} /\ held[a].doc = d
Sent(m, d)    == m.doc = d /\ queue[m] > 0

\* Without failures of the environment a document has one attempt at a time: one
\* actor or one message, never both, although a retry is published before the
\* message it replaces is acknowledged.
OneAttempt ==
    \A d \in Docs :
        /\ \A a, b \in Actors : Working(a, d) /\ Working(b, d) => a = b
        /\ \A m, n \in Messages : Sent(m, d) /\ Sent(n, d) => m = n /\ queue[m] = 1
        /\ \A a \in Actors, m \in Messages : ~(Working(a, d) /\ Sent(m, d))

\* "Once a document reaches [a terminal state], its status never changes again":
\* what pollers and the status stream rely on.
TerminalIsFinal ==
    [][\A d \in Docs : status[d] \in Terminal => status'[d] \in {status[d], "absent"}]_vars

\* error_message is "populated only when status == FAILED", and a FAILED row has one, to
\* tell the uploader why.
ErrorExactlyWhenFailed ==
    \A d \in Docs : error[d] # "none" <=> status[d] = "failed"

\* A document settles: from some point on it is COMPLETED, FAILED or deleted, unless
\* one of the losses strikes.
EventuallySettled ==
    \A d \in Docs : uploads[d] # "none" ~> [](status[d] \notin NonTerminal)

=============================================================================
