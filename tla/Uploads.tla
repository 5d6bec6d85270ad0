------------------------------- MODULE Uploads -------------------------------
(***************************************************************************)
(* Admission of uploads: POST /documents and POST /documents/batch, both   *)
(* running IngestionService.register() file by file, concurrently with     *)
(* other requests of the tenant and with deletions.  The storage quota is  *)
(* a SELECT SUM of one statement and the INSERT another; the duplicate     *)
(* check is a unique constraint.  What becomes of an accepted document is  *)
(* the subject of Ingestion.                                               *)
(*                                                                         *)
(* A single upload is a batch of one file: what the batch reports against  *)
(* the file is the status of the response.                                 *)
(***************************************************************************)
EXTENDS Naturals, Sequences, FiniteSetsExt

CONSTANTS
    Requests, TenantOf,  \* upload requests and the tenant of each one's token
    Contents, Size,      \* file contents, and their len(raw)
    Refused,             \* contents too large by themselves, or of an unsupported type
    Limit,               \* settings.max_tenant_storage_bytes; 0: no quota
    MaxBatch             \* bound: files of a request

ASSUME RequestsAssumption == IsFiniteSet(Requests)
ASSUME SizeAssumption     == Size \in [Contents -> Nat] /\ Limit \in Nat
ASSUME BatchAssumption    == MaxBatch \in Nat /\ Refused \subseteq Contents

VARIABLES
    files,    \* the files of each request
    pc,       \* where its handler is, for the file after the answered ones
    results,  \* what it has to say of each file so far
    rows      \* documents: who inserted the row, its content and status

vars == <<files, pc, results, rows>>

Tenants  == {TenantOf[r] : r \in Requests}
Outcomes == {"accepted", "refused", "over_quota", "duplicate", "queue_unavailable"}
Ids      == Requests \X (1..MaxBatch)
Rows     == [id : Ids, content : Contents, status : {"pending", "failed"}]
Batches  == UNION {[1..n -> Contents] : n \in 1..MaxBatch}

Init ==
    /\ files   = [r \in Requests |-> <<>>]
    /\ pc      = [r \in Requests |-> "new"]
    /\ results = [r \in Requests |-> <<>>]
    /\ rows    = {}

Position(r) == Len(results[r]) + 1
File(r)     == files[r][Position(r)]
Id(r)       == <<r, Position(r)>>

Stored(t) == {row \in rows : TenantOf[row.id[1]] = t}
Used(t)   == MapThenSumSet(LAMBDA row : Size[row.content], Stored(t))

Goto(r, label) == pc' = [pc EXCEPT ![r] = label]

\* The file is reported, and the handler turns to the next one.
Report(r, outcome) ==
    /\ results' = [results EXCEPT ![r] = Append(@, outcome)]
    /\ Goto(r, IF Position(r) < Len(files[r]) THEN "check" ELSE "done")

-----------------------------------------------------------------------------
Submit(r) ==
    /\ pc[r] = "new"
    /\ \E batch \in Batches : files' = [files EXCEPT ![r] = batch]
    /\ Goto(r, "check")
    /\ UNCHANGED <<results, rows>>

\* Size and type of the file itself.
Refuse(r) ==
    /\ pc[r] = "check"
    /\ File(r) \in Refused
    /\ Report(r, "refused")
    /\ UNCHANGED <<files, rows>>

\* Mutant: the incoming file is not counted.
FitsWithoutIncoming(r) == Limit > 0 => Used(TenantOf[r]) <= Limit

Fits(r) == Limit > 0 => Used(TenantOf[r]) + Size[File(r)] <= Limit

\* The quota: SELECT SUM(size_bytes) of the tenant's committed rows.
CheckQuota(r) ==
    /\ pc[r] = "check"
    /\ File(r) \notin Refused
    /\ \/ Fits(r) /\ Goto(r, "insert") /\ UNCHANGED results
       \/ ~Fits(r) /\ Report(r, "over_quota")
    /\ UNCHANGED <<files, rows>>

\* UNIQUE(tenant_id, content_sha256).
Twins(r) == {row \in Stored(TenantOf[r]) : row.content = File(r)}

\* INSERT and COMMIT; the unique constraint decides among concurrent requests.
Insert(r) ==
    /\ pc[r] = "insert"
    /\ \/ /\ Twins(r) = {}
          /\ rows' = rows \cup {[id |-> Id(r), content |-> File(r), status |-> "pending"]}
          /\ Goto(r, "enqueue")
          /\ UNCHANGED results
       \/ /\ Twins(r) # {}
          /\ Report(r, "duplicate")
          /\ UNCHANGED rows
    /\ UNCHANGED files

\* delay() succeeds.
Enqueue(r) ==
    /\ pc[r] = "enqueue"
    /\ Report(r, "accepted")
    /\ UNCHANGED <<files, rows>>

\* Mutant: a broker outage ends the batch.
EnqueueFailsAborts(r) ==
    /\ pc[r] = "enqueue"
    /\ Goto(r, "done")
    /\ UNCHANGED <<files, results, rows>>

\* delay() raises: mark_failed() on the row, which stays.
EnqueueFails(r) ==
    /\ pc[r] = "enqueue"
    /\ \E row \in rows :
          /\ row.id = Id(r)
          /\ rows' = (rows \ {row}) \cup {[row EXCEPT !.status = "failed"]}
    /\ Report(r, "queue_unavailable")
    /\ UNCHANGED files

\* Anything else raised (the database is down, the row vanished before
\* mark_failed()): 500 for the whole request, whatever was registered before.
Abort(r) ==
    /\ pc[r] \in {"check", "insert", "enqueue"}
    /\ Goto(r, "aborted")
    /\ UNCHANGED <<files, results, rows>>

\* DELETE /documents/{id}.
Delete(row) ==
    /\ row \in rows
    /\ rows' = rows \ {row}
    /\ UNCHANGED <<files, pc, results>>

-----------------------------------------------------------------------------
Handle(r) ==
    Refuse(r) \/ CheckQuota(r) \/ Insert(r) \/ Enqueue(r) \/ EnqueueFails(r) \/ Abort(r)

Next ==
    \/ \E r \in Requests : Submit(r) \/ Handle(r)
    \/ \E row \in rows : Delete(row)

Spec == Init /\ [][Next]_vars

-----------------------------------------------------------------------------
(* Properties. *)

TypeOK ==
    /\ files   \in [Requests -> Batches \cup {<<>>}]
    /\ pc      \in [Requests -> {"new", "check", "insert", "enqueue", "done", "aborted"}]
    /\ results \in [Requests -> Seq(Outcomes)]
    /\ rows    \subseteq Rows
    /\ \A r \in Requests : pc[r] \in {"check", "insert", "enqueue"} => Position(r) <= Len(files[r])

Uploaders(t) == {r \in Requests : TenantOf[r] = t}
Admissible   == {Size[c] : c \in {d \in Contents \ Refused : Size[d] <= Limit}} \cup {0}

\* "Per-tenant total stored-bytes cap", as far as two statements guarantee it: each
\* request can have passed the check for one file before the others insert theirs, so
\* n requests of a tenant exceed the quota by at most n - 1 of the files that fit in
\* it, and a tenant that uploads by one request at a time keeps it.
OverrunBounded ==
    Limit > 0 =>
        \A t \in Tenants :
            Used(t) <= Limit + (Cardinality(Uploaders(t)) - 1) * Max(Admissible)

\* One file never decides for its neighbours: a request that is answered has one
\* result per file in order, a row has been reported as what it is (accepted,
\* or failed for want of a queue), and no rejected file has left a row behind.
ResultsMatchRows ==
    /\ \A r \in Requests : pc[r] = "done" => Len(results[r]) = Len(files[r])
    /\ \A row \in rows :
          LET r == row.id[1]  k == row.id[2] IN
          k <= Len(results[r])
              => results[r][k] = (IF row.status = "failed" THEN "queue_unavailable" ELSE "accepted")

=============================================================================
