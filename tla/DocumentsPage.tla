---------------------------- MODULE DocumentsPage ----------------------------
(***************************************************************************)
(* The documents page of the web frontend: a table loaded from the API,    *)
(* polled while a row in it is in flight, with upload and delete.  Loads   *)
(* overlap: the timer does not wait for the previous answer, and each      *)
(* answer replaces the table when it arrives.  The documents themselves    *)
(* follow DocumentLifecycle, as documented.                                *)
(***************************************************************************)
EXTENDS Naturals, Sequences, SequencesExt

CONSTANTS
    Docs,
    MaxLoads,  \* bound: loads in progress
    NoDoc      \* nothing is being uploaded

ASSUME PageAssumption == NoDoc \notin Docs /\ MaxLoads \in Nat

VARIABLES
    state, searchable,  \* the documents, on the server
    mounted,    \* the page has asked for its first load
    table,      \* docs: the status shown per document; "absent": not in the list
    loadError,  \* the last load to end failed, and the page says so
    loads,      \* GET /documents in progress, oldest first: read by the server or not
    uploading,  \* the file of the upload in progress
    posted,     \* the server has accepted that upload
    deleting,   \* documents whose DELETE the server has executed, before it returns
    mine,       \* documents uploaded here: the API returned 202 to this page
    overtaken   \* history: a load was read or answered before an older one

docVars  == <<state, searchable>>
pageVars == <<mounted, table, loadError, loads, uploading, posted, deleting, mine, overtaken>>
vars     == <<docVars, pageVars>>

Lifecycle == INSTANCE DocumentLifecycle WITH Relapses <- FALSE

Live   == Lifecycle!Open \cup Lifecycle!Settled
Shown  == Live \cup {"absent"}
Tables == [Docs -> Shown]
Unread == [read |-> FALSE, list |-> [d \in Docs |-> "absent"]]

Init ==
    /\ Lifecycle!Init
    /\ mounted = FALSE
    /\ table = [d \in Docs |-> "absent"]
    /\ loadError = FALSE
    /\ loads = <<>>
    /\ uploading = NoDoc
    /\ posted = FALSE
    /\ deleting = {}
    /\ mine = {}
    /\ overtaken = FALSE

\* The poll condition.
InFlight == \E d \in Docs : table[d] \in Lifecycle!Open

StartLoad == Len(loads) < MaxLoads /\ loads' = Append(loads, Unread)

-----------------------------------------------------------------------------
Mount ==
    /\ ~mounted
    /\ mounted' = TRUE
    /\ StartLoad
    /\ UNCHANGED <<docVars, table, loadError, uploading, posted, deleting, mine, overtaken>>

\* Mutant: only pending documents count as in flight.
TickWhilePending ==
    /\ \E d \in Docs : table[d] = "pending"
    /\ StartLoad
    /\ UNCHANGED <<docVars, mounted, table, loadError, uploading, posted, deleting, mine, overtaken>>

\* The interval timer, every two seconds while something shown is in flight.
Tick ==
    /\ InFlight
    /\ StartLoad
    /\ UNCHANGED <<docVars, mounted, table, loadError, uploading, posted, deleting, mine, overtaken>>

\* The server reads the list for a load.
ReadList(i) ==
    /\ i \in 1..Len(loads)
    /\ ~loads[i].read
    /\ overtaken' = (overtaken \/ \E j \in 1..i-1 : ~loads[j].read)
    /\ loads' = [loads EXCEPT ![i] =
           [read |-> TRUE,
            list |-> [d \in Docs |-> IF state[d] \in Live THEN state[d] ELSE "absent"]]]
    /\ UNCHANGED <<docVars, mounted, table, loadError, uploading, posted, deleting, mine>>

\* An answer arrives and replaces the table.
Show(i) ==
    /\ i \in 1..Len(loads)
    /\ loads[i].read
    /\ overtaken' = (overtaken \/ i > 1)
    /\ table' = loads[i].list
    /\ loadError' = FALSE
    /\ loads' = RemoveAt(loads, i)
    /\ UNCHANGED <<docVars, mounted, uploading, posted, deleting, mine>>

\* A load fails: the table stays, with an error above it.
LoadFails(i) ==
    /\ i \in 1..Len(loads)
    /\ overtaken' = (overtaken \/ i > 1)
    /\ loadError' = TRUE
    /\ loads' = RemoveAt(loads, i)
    /\ UNCHANGED <<docVars, mounted, table, uploading, posted, deleting, mine>>

\* upload(): one at a time.
StartUpload(d) ==
    /\ mounted
    /\ uploading = NoDoc
    /\ state[d] = "unborn"
    /\ uploading' = d
    /\ UNCHANGED <<docVars, mounted, table, loadError, loads, posted, deleting, mine, overtaken>>

\* The API creates the row ...
Accept ==
    /\ uploading # NoDoc /\ ~posted
    /\ Lifecycle!Upload(uploading)
    /\ posted' = TRUE
    /\ UNCHANGED <<mounted, table, loadError, loads, uploading, deleting, mine, overtaken>>

\* ... or refuses the file (409, 413, 415, 429 ...), or the request fails, perhaps
\* after it was accepted: a note.
Refuse ==
    /\ uploading # NoDoc
    /\ uploading' = NoDoc
    /\ posted' = FALSE
    /\ UNCHANGED <<docVars, mounted, table, loadError, loads, deleting, mine, overtaken>>

\* Mutant: no load after an accepted upload.
UploadedSilently ==
    /\ posted
    /\ uploading' = NoDoc
    /\ posted' = FALSE
    /\ mine' = mine \cup {uploading}
    /\ UNCHANGED <<docVars, mounted, table, loadError, loads, deleting, overtaken>>

\* The 202 arrives: the page loads the list again.  (The page allows the next upload only
\* when that load has ended; here it may come sooner.)
Uploaded ==
    /\ posted
    /\ StartLoad
    /\ uploading' = NoDoc
    /\ posted' = FALSE
    /\ mine' = mine \cup {uploading}
    /\ UNCHANGED <<docVars, mounted, table, loadError, deleting, overtaken>>

\* remove() of a row in the table.
Delete(d) ==
    /\ table[d] # "absent"
    /\ Lifecycle!Remove(d)
    /\ deleting' = deleting \cup {d}
    /\ UNCHANGED <<mounted, table, loadError, loads, uploading, posted, mine, overtaken>>

\* The 204 arrives: the page loads the list again.
Deleted(d) ==
    /\ d \in deleting
    /\ StartLoad
    /\ deleting' = deleting \ {d}
    /\ UNCHANGED <<docVars, mounted, table, loadError, uploading, posted, mine, overtaken>>

\* The DELETE ended without its 204: a note, and no load.
DeleteFails(d) ==
    /\ d \in deleting
    /\ deleting' = deleting \ {d}
    /\ UNCHANGED <<docVars, mounted, table, loadError, loads, uploading, posted, mine, overtaken>>

-----------------------------------------------------------------------------
\* What workers and other clients of the tenant do to the documents.
Elsewhere == Lifecycle!Next /\ UNCHANGED pageVars

Answer == \E i \in 1..MaxLoads : ReadList(i) \/ Show(i) \/ LoadFails(i)

Requests == Accept \/ Refuse \/ Uploaded \/ \E d \in Docs : Deleted(d) \/ DeleteFails(d)

Next ==
    \/ Mount \/ Tick \/ Answer \/ Requests \/ Elsewhere
    \/ \E d \in Docs : StartUpload(d) \/ Delete(d)

Spec == Init /\ [][Next]_vars

\* Requests are answered, not every load fails, the timer runs and ingestion goes on
\* by itself.
FairSpec ==
    /\ Spec
    /\ WF_vars(Tick) /\ WF_vars(Requests)
    /\ \A i \in 1..MaxLoads : SF_vars(ReadList(i)) /\ SF_vars(Show(i))
    /\ \A d \in Docs : WF_vars(Lifecycle!Progress(d) /\ UNCHANGED pageVars)

-----------------------------------------------------------------------------
(* Properties. *)

TypeOK ==
    /\ state \in [Docs -> Lifecycle!States]
    /\ searchable \subseteq Docs
    /\ mounted \in BOOLEAN /\ posted \in BOOLEAN /\ loadError \in BOOLEAN
    /\ table \in Tables
    /\ loads \in Seq([read : BOOLEAN, list : Tables]) /\ Len(loads) <= MaxLoads
    /\ uploading \in Docs \cup {NoDoc}
    /\ posted => uploading # NoDoc
    /\ deleting \subseteq Docs /\ mine \subseteq Docs /\ overtaken \in BOOLEAN

\* The page "polls while anything is pending/processing": as long as answers arrive in
\* the order of the requests (HTTP does not say so), and once no request is under way, a
\* document uploaded here that is still in flight keeps the poll going, or the page
\* shows that its last load failed.
PollsWhilePending ==
    ~overtaken /\ loads = <<>> /\ uploading = NoDoc /\ deleting = {} /\ ~loadError
        => \A d \in mine : state[d] \in Lifecycle!Open => InFlight

\* What the table shows in flight does not stay so: the polls catch the document
\* settled or gone, in whatever order their answers arrive.
CatchesUp ==
    \A d \in Docs : table[d] \in Lifecycle!Open ~> table[d] \notin Lifecycle!Open

=============================================================================
