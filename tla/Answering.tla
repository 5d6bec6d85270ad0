------------------------------ MODULE Answering ------------------------------
(***************************************************************************)
(* Grounded answers: POST /answers retrieves, calls the LLM, records the   *)
(* usage and answers, either with one JSON body or with a stream of        *)
(* events: citations, deltas, done.  The chat page asks one question at a  *)
(* time, reads the stream in whatever pieces the network makes of it and   *)
(* shows the answer as it arrives.                                         *)
(***************************************************************************)
EXTENDS Naturals, Sequences, FiniteSets

CONSTANTS
    Questions,  \* asked from the chat page, streamed
    Calls,      \* asked by an API client, answered with JSON
    MaxDeltas,  \* bound: the text deltas of an answer
    Faults      \* "llm", "database": the provider, a usage commit may fail;
                \* "network": a stream may be cut; "leave": the reader closes the page

NoOne == "none"  \* not a question: the page is idle

ASSUME QuestionsAssumption == NoOne \notin Questions /\ Questions \cap Calls = {}
ASSUME FaultsAssumption ==
    MaxDeltas \in Nat /\ Faults \subseteq {"llm", "database", "network", "leave"}

VARIABLES
    pc,       \* where the server is with each request
    grounded, \* requests for which retrieval found something
    billed,   \* requests whose LLM call was made
    deltas,   \* how many deltas the LLM produced
    usage,    \* how many usage_records each request has
    wire,     \* the events yielded into each stream
    stream,   \* the response: "none", "open", "ended", "broken"
    sent,     \* half frames of the wire that the page has read
    buffer,   \* half frames it has not parsed
    busy,     \* the question the page is busy with
    message   \* what the page shows

serverVars == <<pc, grounded, billed, deltas, usage, wire, stream>>
pageVars   == <<sent, buffer, busy, message>>
vars       == <<serverVars, pageVars>>

Requests == Questions \cup Calls
Labels   == {"new", "retrieve", "citations", "notice", "call", "llm", "record", "done",
             "answered", "failed"}
Blank    == [streaming |-> FALSE, error |-> FALSE, shown |-> 0, sources |-> FALSE, done |-> FALSE]

Init ==
    /\ pc       = [r \in Requests |-> "new"]
    /\ grounded = {}
    /\ billed   = {}
    /\ deltas   = [r \in Requests |-> 0]
    /\ usage    = [r \in Requests |-> 0]
    /\ wire     = [q \in Questions |-> <<>>]
    /\ stream   = [q \in Questions |-> "none"]
    /\ sent     = [q \in Questions |-> 0]
    /\ buffer   = [q \in Questions |-> <<>>]
    /\ busy     = NoOne
    /\ message  = [q \in Questions |-> Blank]

Goto(r, label) == pc' = [pc EXCEPT ![r] = label]
Yield(q, event) == wire' = [wire EXCEPT ![q] = Append(@, event)]
Close(q, how)   == stream' = [stream EXCEPT ![q] = how]
Show(q, msg)    == message' = [message EXCEPT ![q] = msg]

\* A request fails: a stream under way breaks off, else there is an error response.
Fail(r) ==
    /\ Goto(r, "failed")
    /\ IF r \in Questions THEN Close(r, "broken") ELSE UNCHANGED stream

-----------------------------------------------------------------------------
(* The server. *)

AskApi(r) ==
    /\ r \in Calls
    /\ pc[r] = "new"
    /\ Goto(r, "retrieve")
    /\ UNCHANGED <<grounded, billed, deltas, usage, wire, stream, pageVars>>

\* prepare(): passages, or none.
Prepare(r) ==
    /\ pc[r] = "retrieve"
    /\ \/ grounded' = grounded \cup {r} /\ Goto(r, IF r \in Questions THEN "citations" ELSE "call")
       \/ Goto(r, IF r \in Questions THEN "citations" ELSE "answered") /\ UNCHANGED grounded
    /\ IF r \in Questions THEN Close(r, "open") ELSE UNCHANGED stream
    /\ UNCHANGED <<billed, deltas, usage, wire, pageVars>>

SendCitations(q) ==
    /\ pc[q] = "citations"
    /\ Yield(q, "citations")
    /\ Goto(q, IF q \in grounded THEN "call" ELSE "notice")
    /\ UNCHANGED <<grounded, billed, deltas, usage, stream, pageVars>>

\* Nothing was retrieved: the fixed refusal, in the shape of an answer.
SendNotice(q) ==
    /\ pc[q] = "notice"
    /\ Yield(q, "delta")
    /\ deltas' = [deltas EXCEPT ![q] = 1]
    /\ Goto(q, "done")
    /\ UNCHANGED <<grounded, billed, usage, stream, pageVars>>

StartCall(r) ==
    /\ pc[r] = "call"
    /\ billed' = billed \cup {r}
    /\ Goto(r, "llm")
    /\ UNCHANGED <<grounded, deltas, usage, wire, stream, pageVars>>

Delta(q) ==
    /\ pc[q] = "llm"
    /\ q \in Questions
    /\ deltas[q] < MaxDeltas
    /\ deltas' = [deltas EXCEPT ![q] = @ + 1]
    /\ Yield(q, "delta")
    /\ UNCHANGED <<pc, grounded, billed, usage, stream, pageVars>>

\* Mutant: usage is recorded after the event that reports it.
CallEndsUnrecorded(r) ==
    /\ pc[r] = "llm"
    /\ Goto(r, "done")
    /\ UNCHANGED <<grounded, billed, deltas, usage, wire, stream, pageVars>>

\* The LLM's answer, or StreamEnd with the usage.
CallEnds(r) ==
    /\ pc[r] = "llm"
    /\ Goto(r, "record")
    /\ UNCHANGED <<grounded, billed, deltas, usage, wire, stream, pageVars>>

\* _record_usage(), one commit.
RecordUsage(r) ==
    /\ pc[r] = "record"
    /\ usage' = [usage EXCEPT ![r] = @ + 1]
    /\ Goto(r, IF r \in Questions THEN "done" ELSE "answered")
    /\ UNCHANGED <<grounded, billed, deltas, wire, stream, pageVars>>

SendDone(q) ==
    /\ pc[q] = "done"
    /\ q \in Questions
    /\ Yield(q, "done")
    /\ Close(q, "ended")
    /\ Goto(q, "answered")
    /\ UNCHANGED <<grounded, billed, deltas, usage, pageVars>>

\* An exception of the provider or of the usage commit: nothing catches it.
ServerFails(r) ==
    /\ \/ "llm" \in Faults /\ pc[r] = "llm"
       \/ "database" \in Faults /\ pc[r] \in {"retrieve", "record"}
    /\ Fail(r)
    /\ UNCHANGED <<grounded, billed, deltas, usage, wire, pageVars>>

\* The stream is cut, cleanly or not, and the generator is cancelled where it is.
Cut(q) ==
    /\ stream[q] = "open"
    /\ \E how \in {"ended", "broken"} : Close(q, how)
    /\ Goto(q, "failed")

NetworkCuts(q) ==
    /\ "network" \in Faults
    /\ Cut(q)
    /\ UNCHANGED <<grounded, billed, deltas, usage, wire, pageVars>>

-----------------------------------------------------------------------------
(* The chat page. *)

\* send(): one question at a time.
Ask(q) ==
    /\ busy = NoOne
    /\ pc[q] = "new"
    /\ busy' = q
    /\ Show(q, [Blank EXCEPT !.streaming = TRUE])
    /\ Goto(q, "retrieve")
    /\ UNCHANGED <<grounded, billed, deltas, usage, wire, stream, sent, buffer>>

\* The halves of a frame: its lines, and the blank line that ends it.
Half(n) == [frame |-> (n + 1) \div 2, part |-> IF n % 2 = 1 THEN "lines" ELSE "end"]

Ends(q)       == {n \in 1..Len(buffer[q]) : buffer[q][n].part = "end"}
FrameReady(q) == Ends(q) # {}

\* Mutant: what is left of the last piece is forgotten.
ReadPieceAlone(q) ==
    /\ busy = q
    /\ ~FrameReady(q)
    /\ \E n \in (sent[q] + 1)..(2 * Len(wire[q])) :
          /\ sent'   = [sent EXCEPT ![q] = n]
          /\ buffer' = [buffer EXCEPT ![q] = [i \in 1..(n - sent[q]) |-> Half(sent[q] + i)]]
    /\ UNCHANGED <<serverVars, busy, message>>

\* reader.read(): a piece of any length, once every whole frame has been handled.
ReadPiece(q) ==
    /\ busy = q
    /\ ~FrameReady(q)
    /\ \E n \in (sent[q] + 1)..(2 * Len(wire[q])) :
          /\ sent'   = [sent EXCEPT ![q] = n]
          /\ buffer' = [buffer EXCEPT ![q] = @ \o [i \in 1..(n - sent[q]) |-> Half(sent[q] + i)]]
    /\ UNCHANGED <<serverVars, busy, message>>

Shown(msg, event) ==
    CASE event = "citations" -> [msg EXCEPT !.sources = TRUE]
      [] event = "delta"     -> [msg EXCEPT !.shown = @ + 1]
      [] event = "done"      -> [msg EXCEPT !.streaming = FALSE, !.done = TRUE]

\* The first frame in the buffer; one whose lines are missing is no event.
HandleFrame(q) ==
    /\ busy = q
    /\ FrameReady(q)
    /\ LET n == CHOOSE i \in Ends(q) : \A j \in Ends(q) : i <= j
       IN  /\ IF n > 1 THEN Show(q, Shown(message[q], wire[q][buffer[q][n].frame]))
                       ELSE UNCHANGED message
           /\ buffer' = [buffer EXCEPT ![q] = SubSeq(@, n + 1, Len(@))]
    /\ UNCHANGED <<serverVars, sent, busy>>

\* The end of the stream, after a done event or without one: the cursor stops.
StreamEnds(q) ==
    /\ busy = q
    /\ stream[q] = "ended" /\ sent[q] = 2 * Len(wire[q]) /\ ~FrameReady(q)
    /\ Show(q, [message[q] EXCEPT !.streaming = FALSE])
    /\ busy' = NoOne
    /\ UNCHANGED <<serverVars, sent, buffer>>

\* Mutant: busy is cleared on success alone.
StreamBreaksBusy(q) ==
    /\ busy = q
    /\ stream[q] = "broken" /\ ~FrameReady(q) /\ ~message[q].error
    /\ Show(q, [message[q] EXCEPT !.streaming = FALSE, !.error = TRUE])
    /\ UNCHANGED <<serverVars, sent, buffer, busy>>

\* An error response, or a stream that breaks off, whatever of it was still to be read.
StreamBreaks(q) ==
    /\ busy = q
    /\ stream[q] = "broken" /\ ~FrameReady(q)
    /\ Show(q, [message[q] EXCEPT !.streaming = FALSE, !.error = TRUE])
    /\ busy' = NoOne
    /\ UNCHANGED <<serverVars, sent, buffer>>

\* The page is closed in mid-answer; the reader may come back and ask another question.
Leave(q) ==
    /\ "leave" \in Faults
    /\ busy = q
    /\ Cut(q)
    /\ busy' = NoOne
    /\ Show(q, Blank)
    /\ UNCHANGED <<grounded, billed, deltas, usage, wire, sent, buffer>>

-----------------------------------------------------------------------------
Serve(r) ==
    \/ Prepare(r) \/ SendCitations(r) \/ SendNotice(r) \/ StartCall(r)
    \/ Delta(r) \/ CallEnds(r) \/ RecordUsage(r) \/ SendDone(r)

Page(q) == ReadPiece(q) \/ HandleFrame(q) \/ StreamEnds(q) \/ StreamBreaks(q)

Next ==
    \/ \E r \in Requests : AskApi(r) \/ Serve(r) \/ ServerFails(r)
    \/ \E q \in Questions : Ask(q) \/ Page(q) \/ NetworkCuts(q) \/ Leave(q)

Spec == Init /\ [][Next]_vars

\* Event loops of the server and of the browser; the provider ends every answer.
FairSpec ==
    /\ Spec
    /\ \A q \in Questions : WF_vars(Serve(q)) /\ WF_vars(Page(q))

-----------------------------------------------------------------------------
(* Properties. *)

TypeOK ==
    /\ pc       \in [Requests -> Labels]
    /\ grounded \subseteq Requests
    /\ billed   \subseteq grounded
    /\ deltas   \in [Requests -> Nat]
    /\ usage    \in [Requests -> Nat]
    /\ wire     \in [Questions -> Seq({"citations", "delta", "done"})]
    /\ stream   \in [Questions -> {"none", "open", "ended", "broken"}]
    /\ sent     \in [Questions -> Nat]
    /\ \A q \in Questions : \A n \in 1..Len(buffer[q]) : buffer[q][n].frame \in 1..Len(wire[q])
    /\ busy     \in Questions \cup {NoOne}
    /\ message  \in [Questions -> [streaming : BOOLEAN, error : BOOLEAN, shown : Nat,
                                   sources : BOOLEAN, done : BOOLEAN]]

\* An answer from the LLM is reported as complete only when its usage is in the
\* database: nobody sees a finished answer that a crash could leave unmetered.
DoneIsMetered ==
    /\ \A r \in billed : pc[r] = "answered" => usage[r] = 1
    /\ \A q \in billed \cap Questions : message[q].done => usage[q] = 1

\* However the network cuts the stream into pieces, a message that is marked done shows
\* its sources and every delta, and before that no delta out of thin air.
WholeAnswer ==
    \A q \in Questions :
        /\ message[q].shown <= deltas[q]
        /\ message[q].done => message[q].sources /\ message[q].shown = deltas[q]

\* Every question comes to an end, and the next one can be asked.
NeverStuck == \A q \in Questions : busy = q ~> busy # q

=============================================================================
