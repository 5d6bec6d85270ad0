---------------------------- MODULE StatusStream ----------------------------
(***************************************************************************)
(* GET /documents/{id}/events: server-sent events of a document's status.  *)
(* Each stream polls the documents row in a short session of its own while *)
(* the ingestion, here as its users are promised it (DocumentLifecycle),   *)
(* changes the row between the polls and between a poll and the events     *)
(* sent for it.                                                            *)
(***************************************************************************)
EXTENDS Naturals, Sequences

CONSTANTS
    Docs,
    Relapses,  \* see DocumentLifecycle
    Streams,   \* requests for a stream
    MaxPolls   \* bound: sleeps before the deadline (300 s / 2 s in the code)

\* Of the constants.
RelapsesAssumption == Relapses \in BOOLEAN
MaxPollsAssumption == MaxPolls \in Nat

VARIABLES
    state, searchable,  \* the documents
    relapsed, \* history: documents that have left a terminal status
    target,  \* the document a stream is about
    pc,      \* where its generator is
    row,     \* the status it read last
    last,    \* last_status: the status it reported last
    polls,   \* sleeps so far
    sent     \* the events written to the client, in order

docVars    == <<state, searchable, relapsed>>
streamVars == <<target, pc, row, last, polls, sent>>
vars       == <<docVars, streamVars>>

Lifecycle == INSTANCE DocumentLifecycle

\* A row the platform shows; "none": nothing read or reported yet.
Rows   == Lifecycle!States \cup {"none"}
Labels == {"closed", "read", "report", "decide", "ended"}
Events == [event : {"status", "done", "timeout", "error"}, status : Lifecycle!States]

Init ==
    /\ Lifecycle!Init
    /\ relapsed = {}
    /\ target \in [Streams -> Docs]
    /\ pc    = [s \in Streams |-> "closed"]
    /\ row   = [s \in Streams |-> "none"]
    /\ last  = [s \in Streams |-> "none"]
    /\ polls = [s \in Streams |-> 0]
    /\ sent  = [s \in Streams |-> <<>>]

Found(d) == state[d] \notin {"unborn", "deleted"}

Goto(s, label) == pc' = [pc EXCEPT ![s] = label]

Send(s, kind) ==
    sent' = [sent EXCEPT ![s] = Append(@, [event |-> kind, status |-> row[s]])]

-----------------------------------------------------------------------------
\* _get_owned(): 404 unless the row is there; then the response starts.
Open(s) ==
    /\ pc[s] = "closed"
    /\ Found(target[s])
    /\ Goto(s, "read")
    /\ UNCHANGED <<docVars, target, row, last, polls, sent>>

\* The row is read in a session that is closed before anything is sent.
Read(s) ==
    /\ pc[s] = "read"
    /\ row' = [row EXCEPT ![s] = state[target[s]]]
    /\ Goto(s, "report")
    /\ UNCHANGED <<docVars, target, last, polls, sent>>

\* A deleted row ends the stream, a changed status is sent.
Report(s) ==
    /\ pc[s] = "report"
    /\ \/ /\ row[s] = "deleted"
          /\ Send(s, "error")
          /\ Goto(s, "ended")
          /\ UNCHANGED last
       \/ /\ row[s] \notin {"deleted", last[s]}
          /\ Send(s, "status")
          /\ last' = [last EXCEPT ![s] = row[s]]
          /\ Goto(s, "decide")
       \/ /\ row[s] = last[s]
          /\ Goto(s, "decide")
          /\ UNCHANGED <<sent, last>>
    /\ UNCHANGED <<docVars, target, row, polls>>

\* Mutant: the terminal test looks for "no longer pending".
DoneWhenStarted(s) ==
    /\ pc[s] = "decide"
    /\ row[s] # "pending"
    /\ Send(s, "done")
    /\ Goto(s, "ended")
    /\ UNCHANGED <<docVars, target, row, last, polls>>

\* A terminal status closes the stream.
Done(s) ==
    /\ pc[s] = "decide"
    /\ row[s] \in Lifecycle!Settled
    /\ Send(s, "done")
    /\ Goto(s, "ended")
    /\ UNCHANGED <<docVars, target, row, last, polls>>

\* The deadline: reads and writes take time too, so it may pass after any poll.
Timeout(s) ==
    /\ pc[s] = "decide"
    /\ row[s] \notin Lifecycle!Settled
    /\ Send(s, "timeout")
    /\ Goto(s, "ended")
    /\ UNCHANGED <<docVars, target, row, last, polls>>

\* Sleep, and poll again.
Sleep(s) ==
    /\ pc[s] = "decide"
    /\ row[s] \notin Lifecycle!Settled
    /\ polls[s] < MaxPolls
    /\ polls' = [polls EXCEPT ![s] = @ + 1]
    /\ Goto(s, "read")
    /\ UNCHANGED <<docVars, target, row, last, sent>>

\* The client is gone: seen by is_disconnected(), or the write fails.
Disconnect(s) ==
    /\ pc[s] \in {"read", "report", "decide"}
    /\ Goto(s, "ended")
    /\ UNCHANGED <<docVars, target, row, last, polls, sent>>

-----------------------------------------------------------------------------
Advance(s) == Read(s) \/ Report(s) \/ Done(s) \/ Timeout(s) \/ Sleep(s)

Ingest ==
    /\ Lifecycle!Next
    /\ relapsed' = relapsed \cup
           {d \in Docs : state[d] \in Lifecycle!Settled /\ state'[d] \notin {state[d], "deleted"}}
    /\ UNCHANGED streamVars

Next == Ingest \/ \E s \in Streams : Open(s) \/ Advance(s) \/ Disconnect(s)

Spec == Init /\ [][Next]_vars

-----------------------------------------------------------------------------
(* Properties. *)

TypeOK ==
    /\ state  \in [Docs -> Lifecycle!States]
    /\ searchable \subseteq Docs /\ relapsed \subseteq Docs
    /\ target \in [Streams -> Docs]
    /\ pc     \in [Streams -> Labels]
    /\ row    \in [Streams -> Rows]
    /\ last   \in [Streams -> Rows]
    /\ polls  \in [Streams -> 0..MaxPolls]
    /\ sent   \in [Streams -> Seq(Events)]

\* What a client that parses the stream may count on: a status event first, no
\* status twice in a row, at most one closing event, at the end, that agrees with
\* the status reported just before it; whatever the row does between the polls.
WellFormed ==
    \A s \in Streams : \A i \in 1..Len(sent[s]) :
        LET e == sent[s][i] IN
        /\ i = 1 => e.event \in {"status", "error"}
        /\ e.event # "status" => i = Len(sent[s]) /\ pc[s] = "ended"
        /\ i > 1 /\ e.event = "status" => sent[s][i-1].status # e.status
        /\ e.event \in {"done", "timeout"} => sent[s][i-1].status = e.status
        /\ e.event = "done" <=> e.event # "status" /\ e.status \in Lifecycle!Settled

Rank(st) ==
    CASE st = "pending" -> 1 [] st = "processing" -> 2 [] st \in Lifecycle!Settled -> 3 [] OTHER -> 4

\* If ingestion keeps its promise for a document, a client sees it move forward only,
\* however many transitions its polls miss.
ForwardOnly ==
    \A s \in Streams : \A i, j \in 1..Len(sent[s]) :
        target[s] \notin relapsed /\ i < j /\ sent[s][j].event = "status"
            => Rank(sent[s][i].status) < Rank(sent[s][j].status)

\* If ingestion keeps its promise for a document, what "done" said stays true: the
\* client may stop looking.  The row was read some time before the event was sent.
DoneIsFinal ==
    \A s \in Streams : \A i \in 1..Len(sent[s]) :
        target[s] \notin relapsed /\ sent[s][i].event = "done"
            => state[target[s]] \in {sent[s][i].status, "deleted"}

=============================================================================
