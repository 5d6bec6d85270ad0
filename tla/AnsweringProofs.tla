--------------------------- MODULE AnsweringProofs ---------------------------
(***************************************************************************)
(* What holds of answers and of their metering for any number of           *)
(* questions, calls and deltas.                                            *)
(***************************************************************************)
EXTENDS Answering, SequenceTheorems, TLAPS

-----------------------------------------------------------------------------
(* The inductive invariant. *)

\* Usage is recorded once per call, after the LLM's answer and before the request's own; an
\* API call is answered without events.
Metered ==
    \A r \in Requests :
        /\ pc[r] \in {"new", "retrieve", "citations", "notice", "call"} => usage[r] = 0 /\ r \notin billed
        /\ pc[r] = "call" => r \in grounded
        /\ pc[r] \in {"llm", "record"} => usage[r] = 0
        /\ pc[r] \in {"done", "answered"} /\ r \in billed => usage[r] = 1
        /\ r \in Calls => pc[r] \notin {"citations", "notice", "done"}

\* The events of a stream: the citations, the deltas, done; after it nothing, and the
\* stream is at its end.
WellFormedAt(q) ==
    LET n == Len(wire[q]) IN
    /\ pc[q] \in {"new", "retrieve", "citations"} => n = 0
    /\ pc[q] \in {"notice", "call"} => n = 1
    /\ pc[q] \in {"llm", "record", "done"} => n >= 1
    /\ pc[q] = "answered" => stream[q] # "open"
    /\ \A i \in 1..n :
          /\ wire[q][i] = "citations" <=> i = 1
          /\ wire[q][i] = "done" => i = n /\ pc[q] = "answered"
    /\ deltas[q] = (IF n = 0 THEN 0 ELSE IF wire[q][n] = "done" THEN n - 2 ELSE n - 1)

WellFormed == \A q \in Questions : WellFormedAt(q)

\* The page has shown the first h frames of the stream of q.
Shows(q, h) ==
    /\ h >= 1 => message[q].sources
    /\ message[q].done => h >= 1 /\ wire[q][h] = "done"
    /\ message[q].shown = (IF h = 0 THEN 0 ELSE IF wire[q][h] = "done" THEN h - 2 ELSE h - 1)

\* The halves of the stream after the m-th, up to the n-th.
Halves(m, n) == [i \in 1..(n - m) |-> Half(m + i)]

\* What the page has read and not shown is in the buffer, in order, from a whole frame on; a
\* page that was left shows nothing.
InStepAt(q) ==
    /\ sent[q] <= 2 * Len(wire[q])
    /\ \E h \in 0..Len(wire[q]) :
          /\ 2 * h <= sent[q]
          /\ buffer[q] = Halves(2 * h, sent[q])
          /\ Shows(q, h) \/ (busy # q /\ message[q].shown = 0 /\ ~message[q].done)

InStep ==
    /\ buffer = [q \in Questions |-> buffer[q]]
    /\ \A q \in Questions : InStepAt(q)

Inv == TypeOK /\ Metered /\ WellFormed /\ InStep

-----------------------------------------------------------------------------
(* What the steps of the proof keep needing. *)

\* What an event adds to the message.
LEMMA ShownIs ==
    ASSUME NEW msg
    PROVE  /\ Shown(msg, "citations") = [msg EXCEPT !.sources = TRUE]
           /\ Shown(msg, "delta")     = [msg EXCEPT !.shown = @ + 1]
           /\ Shown(msg, "done")      = [msg EXCEPT !.streaming = FALSE, !.done = TRUE]
BY DEF Shown

\* The first whole frame of a buffer that begins with a frame.
LEMMA FirstFrame ==
    ASSUME NEW q, NEW h \in Nat, NEW n \in Nat, 2 * h <= n,
           buffer[q] = Halves(2 * h, n), FrameReady(q)
    PROVE  /\ 2 * h + 2 <= n
           /\ (CHOOSE i \in Ends(q) : \A j \in Ends(q) : i <= j) = 2
           /\ buffer[q][2].frame = h + 1
           /\ SubSeq(buffer[q], 3, Len(buffer[q])) =
                  Halves(2 * (h + 1), n)
<1>. USE DEF Halves
<1>1. n - 2 * h \in Nat
  OBVIOUS
<1>2. Len(buffer[q]) = n - 2 * h
  BY <1>1
<1>3. \A i \in 1..(n - 2 * h) : buffer[q][i] = Half(2 * h + i)
  OBVIOUS
<1>4. \A i \in 1..(n - 2 * h) : buffer[q][i].part = "end" <=> i % 2 = 0
  <2>1. SUFFICES ASSUME NEW i \in 1..(n - 2 * h)
                 PROVE  Half(2 * h + i).part = "end" <=> i % 2 = 0
    BY <1>3
  <2>2. (2 * h + i) % 2 = i % 2 /\ i % 2 \in {0, 1}
    OBVIOUS
  <2>. QED
    BY <2>2 DEF Half
<1>5. PICK k \in 1..(n - 2 * h) : k % 2 = 0
  BY <1>2, <1>4 DEF FrameReady, Ends
<1>6. 2 * h + 2 <= n
  BY <1>5
<1>7. 2 \in Ends(q) /\ \A j \in Ends(q) : 2 <= j
  BY <1>2, <1>4, <1>6 DEF Ends
<1>8. (CHOOSE i \in Ends(q) : \A j \in Ends(q) : i <= j) = 2
  <2>1. \A i \in Ends(q) : i \in Nat
    BY <1>2 DEF Ends
  <2>2. \A i \in Ends(q) : (\A j \in Ends(q) : i <= j) => i = 2
    BY <1>7, <2>1
  <2>. QED
    BY <1>7, <2>2
<1>9. buffer[q][2].frame = h + 1
  <2>1. (2 * h + 2 + 1) \div 2 = h + 1
    OBVIOUS
  <2>. QED
    BY <1>3, <1>6, <2>1 DEF Half
<1>10. SubSeq(buffer[q], 3, Len(buffer[q])) =
           Halves(2 * (h + 1), n)
  <2>1. buffer[q] \in Seq({Half(i) : i \in Nat})
    BY <1>1, <1>3
  <2>2. SubSeq(buffer[q], 3, Len(buffer[q])) = [i \in 1..(n - 2 * h - 2) |-> buffer[q][i + 2]]
    BY <1>2, <1>6, <2>1
  <2>3. \A i \in 1..(n - 2 * h - 2) : buffer[q][i + 2] = Half(2 * (h + 1) + i)
    BY <1>3, <1>6
  <2>4. n - 2 * h - 2 = n - 2 * (h + 1)
    OBVIOUS
  <2>. QED
    BY <2>2, <2>3, <2>4
<1>. QED
  BY <1>6, <1>8, <1>9, <1>10

\* A function on an initial segment of the positive numbers is a sequence.
LEMMA IsSequence ==
    ASSUME NEW S, NEW k \in Nat, NEW f \in [1..k -> S]
    PROVE  f \in Seq(S) /\ Len(f) = k
OBVIOUS

\* A piece of the stream is appended to what is left of the pieces before.
LEMMA NextPiece ==
    ASSUME NEW h \in Nat, NEW m \in Nat, NEW n \in Nat, 2 * h <= m, m <= n
    PROVE  Halves(2 * h, m) \o Halves(m, n) = Halves(2 * h, n)
<1>. DEFINE b == Halves(2 * h, m)
            c == Halves(m, n)
            d == Halves(2 * h, n)
            S == {Half(i) : i \in Nat}
<1>1. b \in Seq(S) /\ Len(b) = m - 2 * h
  <2>1. b \in [1..(m - 2 * h) -> S] /\ m - 2 * h \in Nat
    BY DEF Halves
  <2>. HIDE DEF b, S
  <2>. QED
    BY <2>1, IsSequence
<1>2. c \in Seq(S) /\ Len(c) = n - m
  <2>1. c \in [1..(n - m) -> S] /\ n - m \in Nat
    BY DEF Halves
  <2>. HIDE DEF c, S
  <2>. QED
    BY <2>1, IsSequence
<1>3. d \in Seq(S) /\ Len(d) = n - 2 * h
  <2>1. d \in [1..(n - 2 * h) -> S] /\ n - 2 * h \in Nat
    BY DEF Halves
  <2>. HIDE DEF d, S
  <2>. QED
    BY <2>1, IsSequence
<1>4. /\ \A i \in 1..(m - 2 * h) : b[i] = d[i]
      /\ \A i \in 1..(n - m) : c[i] = d[i + (m - 2 * h)]
  <2>1. \A i \in 1..(m - 2 * h) : b[i] = Half(2 * h + i)
    BY DEF Halves
  <2>2. \A i \in 1..(n - m) : c[i] = Half(m + i)
    BY DEF Halves
  <2>3. \A i \in 1..(n - 2 * h) : d[i] = Half(2 * h + i)
    BY DEF Halves
  <2>4. \A i \in 1..(n - m) : i + (m - 2 * h) \in 1..(n - 2 * h) /\ 2 * h + (i + (m - 2 * h)) = m + i
    OBVIOUS
  <2>5. \A i \in 1..(m - 2 * h) : i \in 1..(n - 2 * h)
    OBVIOUS
  <2>. HIDE DEF b, c, d
  <2>. QED
    BY <2>1, <2>2, <2>3, <2>4, <2>5
<1>. HIDE DEF b, c, d, S
<1>5. b \o c \in Seq(S) /\ Len(b \o c) = n - 2 * h
  BY <1>1, <1>2
<1>6. ASSUME NEW i \in 1..(n - 2 * h)
      PROVE  (b \o c)[i] = d[i]
  <2>1. CASE i <= m - 2 * h
    BY <1>1, <1>2, <1>4, <2>1
  <2>2. CASE i > m - 2 * h
    <3>1. PICK j \in 1..(n - m) : j = i - (m - 2 * h) /\ j + (m - 2 * h) = i
      BY <2>2
    <3>2. (b \o c)[i] = c[j]
      BY <1>1, <1>2, <2>2, <3>1
    <3>3. c[j] = d[j + (m - 2 * h)]
      BY <1>4
    <3>. QED
      BY <3>1, <3>2, <3>3
  <2>3. i <= m - 2 * h \/ i > m - 2 * h
    OBVIOUS
  <2>. QED
    BY <2>1, <2>2, <2>3, Zenon
<1>7. b \o c = d
  BY <1>3, <1>5, <1>6, SeqEqual
<1>. QED
  BY <1>7 DEF b, c, d

-----------------------------------------------------------------------------
(* Every action preserves the invariant. *)

LEMMA InitInv ==
    Init => Inv
<1>. SUFFICES ASSUME Init
              PROVE  Inv
  OBVIOUS
<1>1. TypeOK
  BY DEF Init, TypeOK, Labels, Blank
<1>2. Metered
  BY DEF Init, Metered
<1>3. WellFormed
  BY DEF Init, WellFormed, WellFormedAt, Requests
<1>4. InStep
  <2>0. buffer = [q \in Questions |-> buffer[q]]
    BY DEF Init
  <2>1. SUFFICES ASSUME NEW q \in Questions
                 PROVE  InStepAt(q)
    BY <2>0 DEF InStep
  <2>2. sent[q] = 0 /\ wire[q] = <<>> /\ buffer[q] = <<>> /\ message[q] = Blank /\ Len(wire[q]) = 0
    BY DEF Init
  <2>3. Halves(2 * 0, 0) = <<>>
    BY DEF Halves
  <2>4. Shows(q, 0)
    BY <2>2 DEF Shows, Blank
  <2>5. /\ 0 \in 0..Len(wire[q]) /\ 2 * 0 <= sent[q] /\ sent[q] <= 2 * Len(wire[q])
        /\ buffer[q] = Halves(2 * 0, sent[q])
    BY <2>2, <2>3
  <2>. QED
    BY <2>4, <2>5, Zenon DEF InStepAt
<1>. QED
  BY <1>1, <1>2, <1>3, <1>4 DEF Inv

LEMMA MeteredPreserved ==
    ASSUME Inv, [Next]_vars
    PROVE  Metered'
<1>. USE QuestionsAssumption DEF Requests, Goto
<1>0. TypeOK /\ Metered /\ pc \in [Requests -> Labels] /\ usage \in [Requests -> Nat]
  BY DEF Inv, TypeOK
<1>1. ASSUME NEW r \in Requests, AskApi(r) \/ Prepare(r)
      PROVE  Metered'
  BY <1>0, <1>1 DEF AskApi, Prepare, Metered
<1>2. ASSUME NEW r \in Requests, SendCitations(r) \/ SendNotice(r)
      PROVE  Metered'
  BY <1>0, <1>2 DEF SendCitations, SendNotice, Metered
<1>3. ASSUME NEW r \in Requests, StartCall(r) \/ Delta(r) \/ CallEnds(r)
      PROVE  Metered'
  BY <1>0, <1>3 DEF StartCall, Delta, CallEnds, Metered
<1>4. ASSUME NEW r \in Requests, RecordUsage(r)
      PROVE  Metered'
  BY <1>0, <1>4 DEF RecordUsage, Metered
<1>5. ASSUME NEW r \in Requests, SendDone(r)
      PROVE  Metered'
  BY <1>0, <1>5 DEF SendDone, Metered
<1>6. ASSUME NEW r \in Requests, ServerFails(r)
      PROVE  Metered'
  BY <1>0, <1>6 DEF ServerFails, Fail, Metered
<1>7. ASSUME NEW q \in Questions, Ask(q) \/ NetworkCuts(q) \/ Leave(q)
      PROVE  Metered'
  BY <1>0, <1>7 DEF Ask, NetworkCuts, Leave, Cut, Metered
<1>8. CASE (\E q \in Questions : Page(q)) \/ UNCHANGED vars
  BY <1>0, <1>8
     DEF Page, ReadPiece, HandleFrame, StreamEnds, StreamBreaks, serverVars, vars, Metered
<1>. QED
  BY <1>1, <1>2, <1>3, <1>4, <1>5, <1>6, <1>7, <1>8 DEF Next, Serve

\* An event is yielded into a stream.
LEMMA Yielded ==
    ASSUME TypeOK, NEW q \in Questions, NEW e \in {"citations", "delta", "done"}, Yield(q, e)
    PROVE  /\ wire' \in [Questions -> Seq({"citations", "delta", "done"})]
           /\ Len(wire'[q]) = Len(wire[q]) + 1 /\ wire'[q][Len(wire[q]) + 1] = e
           /\ \A i \in 1..Len(wire[q]) : wire'[q][i] = wire[q][i]
           /\ \A p \in Questions \ {q} : wire'[p] = wire[p]
BY DEF Yield, TypeOK

LEMMA WellFormedPreserved ==
    ASSUME Inv, [Next]_vars
    PROVE  WellFormed'
<1>. USE QuestionsAssumption DEF Requests, Goto, Close
<1>0. /\ TypeOK /\ Metered /\ WellFormed /\ pc \in [Requests -> Labels]
      /\ deltas \in [Requests -> Nat]
      /\ stream \in [Questions -> {"none", "open", "ended", "broken"}]
  BY DEF Inv, TypeOK
<1>1. SUFFICES ASSUME NEW q \in Questions
               PROVE  WellFormedAt(q)'
  BY DEF WellFormed
<1>2. WellFormedAt(q) /\ wire[q] \in Seq({"citations", "delta", "done"}) /\ Len(wire[q]) \in Nat
  BY <1>0 DEF WellFormed, TypeOK
<1>3. CASE wire'[q] = wire[q] /\ deltas'[q] = deltas[q] /\ pc'[q] = pc[q] /\ stream'[q] = stream[q]
  BY <1>2, <1>3 DEF WellFormedAt
\* The request moves on without an event.
<1>4. CASE /\ wire'[q] = wire[q] /\ deltas'[q] = deltas[q] /\ pc[q] # "answered"
           /\ \/ pc[q] = "new"      /\ pc'[q] = "retrieve"
              \/ pc[q] = "retrieve" /\ pc'[q] = "citations"
              \/ pc[q] = "call"     /\ pc'[q] = "llm"
              \/ pc[q] = "llm"      /\ pc'[q] = "record"
              \/ pc[q] = "record"   /\ pc'[q] = "done"
              \/ pc'[q] = "failed"
  <2>1. \A i \in 1..Len(wire[q]) : (wire[q][i] = "citations" <=> i = 1) /\ wire[q][i] # "done"
    BY <1>2, <1>4 DEF WellFormedAt
  <2>2. pc'[q] = "retrieve" \/ pc'[q] = "citations" => Len(wire[q]) = 0
    BY <1>2, <1>4 DEF WellFormedAt
  <2>3. pc'[q] = "llm" \/ pc'[q] = "record" \/ pc'[q] = "done" => Len(wire[q]) >= 1
    BY <1>2, <1>4 DEF WellFormedAt
  <2>4. pc'[q] \notin {"new", "notice", "call", "answered"}
    BY <1>4
  <2>5. deltas[q] = (IF Len(wire[q]) = 0 THEN 0 ELSE IF wire[q][Len(wire[q])] = "done" THEN Len(wire[q]) - 2
                                                     ELSE Len(wire[q]) - 1)
    BY <1>2 DEF WellFormedAt
  <2>. QED
    BY <1>4, <2>1, <2>2, <2>3, <2>4, <2>5 DEF WellFormedAt
<1>5. ASSUME NEW r \in Requests, AskApi(r) \/ Prepare(r)
      PROVE  WellFormedAt(q)'
  BY <1>0, <1>3, <1>4, <1>5 DEF AskApi, Prepare
<1>6. ASSUME NEW r \in Requests, StartCall(r) \/ CallEnds(r) \/ RecordUsage(r)
      PROVE  WellFormedAt(q)'
  BY <1>0, <1>3, <1>4, <1>6 DEF StartCall, CallEnds, RecordUsage
<1>7. ASSUME NEW r \in Requests, ServerFails(r)
      PROVE  WellFormedAt(q)'
  BY <1>0, <1>3, <1>4, <1>7 DEF ServerFails, Fail
<1>8. ASSUME NEW p \in Questions, Ask(p) \/ NetworkCuts(p) \/ Leave(p)
      PROVE  WellFormedAt(q)'
  BY <1>0, <1>2, <1>3, <1>4, <1>8 DEF Ask, NetworkCuts, Leave, Cut, WellFormedAt
<1>9. ASSUME NEW r \in Requests, SendCitations(r)
      PROVE  WellFormedAt(q)'
  <2>1. r \in Questions
    BY <1>0, <1>9 DEF SendCitations, Metered
  <2>2. CASE r = q
    <3>1. pc[q] = "citations" /\ Yield(q, "citations") /\ deltas' = deltas
          /\ pc'[q] \in {"call", "notice"}
      BY <1>0, <1>9, <2>2 DEF SendCitations
    <3>2. Len(wire[q]) = 0 /\ deltas[q] = 0
      BY <1>2, <3>1 DEF WellFormedAt
    <3>3. /\ Len(wire'[q]) = Len(wire[q]) + 1 /\ wire'[q][Len(wire[q]) + 1] = "citations"
          /\ \A i \in 1..Len(wire[q]) : wire'[q][i] = wire[q][i]
      BY <1>0, <3>1, Yielded, Zenon
    <3>. QED
      BY <3>1, <3>2, <3>3 DEF WellFormedAt
  <2>. QED
    BY <1>0, <1>3, <1>9, <2>1, <2>2 DEF SendCitations, Yield, TypeOK
<1>10. ASSUME NEW r \in Requests, SendNotice(r)
       PROVE  WellFormedAt(q)'
  <2>1. r \in Questions
    BY <1>0, <1>10 DEF SendNotice, Metered
  <2>2. CASE r = q
    <3>1. pc[q] = "notice" /\ Yield(q, "delta") /\ deltas'[q] = 1 /\ pc'[q] = "done"
      BY <1>0, <1>10, <2>2 DEF SendNotice
    <3>2. Len(wire[q]) = 1 /\ wire[q][1] = "citations"
      BY <1>2, <3>1 DEF WellFormedAt
    <3>3. /\ Len(wire'[q]) = Len(wire[q]) + 1 /\ wire'[q][Len(wire[q]) + 1] = "delta"
          /\ \A i \in 1..Len(wire[q]) : wire'[q][i] = wire[q][i]
      BY <1>0, <3>1, Yielded, Zenon
    <3>4. Len(wire'[q]) = 2 /\ wire'[q][2] = "delta" /\ wire'[q][1] = "citations"
      BY <3>2, <3>3
    <3>. QED
      BY <3>1, <3>4 DEF WellFormedAt
  <2>. QED
    BY <1>0, <1>3, <1>10, <2>1, <2>2 DEF SendNotice, Yield, TypeOK
<1>11. ASSUME NEW r \in Requests, Delta(r)
       PROVE  WellFormedAt(q)'
  <2>1. r \in Questions
    BY <1>11 DEF Delta
  <2>2. CASE r = q
    <3>1. pc[q] = "llm" /\ Yield(q, "delta") /\ deltas'[q] = deltas[q] + 1 /\ pc' = pc
      BY <1>0, <1>11, <2>2 DEF Delta
    <3>2. /\ Len(wire[q]) >= 1 /\ deltas[q] = Len(wire[q]) - 1
          /\ \A i \in 1..Len(wire[q]) : (wire[q][i] = "citations" <=> i = 1) /\ wire[q][i] # "done"
      BY <1>2, <3>1 DEF WellFormedAt
    <3>3. /\ Len(wire'[q]) = Len(wire[q]) + 1 /\ wire'[q][Len(wire[q]) + 1] = "delta"
          /\ \A i \in 1..Len(wire[q]) : wire'[q][i] = wire[q][i]
      BY <1>0, <3>1, Yielded, Zenon
    <3>4. \A i \in 1..Len(wire'[q]) : (wire'[q][i] = "citations" <=> i = 1) /\ wire'[q][i] # "done"
      BY <1>2, <3>2, <3>3
    <3>. QED
      BY <1>2, <3>1, <3>2, <3>3, <3>4 DEF WellFormedAt
  <2>. QED
    BY <1>0, <1>3, <1>11, <2>1, <2>2 DEF Delta, Yield, TypeOK
<1>12. ASSUME NEW r \in Requests, SendDone(r)
       PROVE  WellFormedAt(q)'
  <2>1. r \in Questions
    BY <1>12 DEF SendDone
  <2>2. CASE r = q
    <3>1. /\ pc[q] = "done" /\ Yield(q, "done") /\ deltas' = deltas
          /\ pc'[q] = "answered" /\ stream'[q] = "ended"
      BY <1>0, <1>12, <2>2 DEF SendDone
    <3>2. /\ Len(wire[q]) >= 1 /\ deltas[q] = Len(wire[q]) - 1
          /\ \A i \in 1..Len(wire[q]) : (wire[q][i] = "citations" <=> i = 1) /\ wire[q][i] # "done"
      BY <1>2, <3>1 DEF WellFormedAt
    <3>3. /\ Len(wire'[q]) = Len(wire[q]) + 1 /\ wire'[q][Len(wire[q]) + 1] = "done"
          /\ \A i \in 1..Len(wire[q]) : wire'[q][i] = wire[q][i]
      BY <1>0, <3>1, Yielded, Zenon
    <3>4. \A i \in 1..Len(wire'[q]) :
             /\ wire'[q][i] = "citations" <=> i = 1
             /\ wire'[q][i] = "done" => i = Len(wire'[q]) /\ pc'[q] = "answered"
      <4>. TAKE i \in 1..Len(wire'[q])
      <4>1. CASE i \in 1..Len(wire[q])
        BY <1>2, <3>2, <3>3, <4>1
      <4>2. CASE i = Len(wire[q]) + 1
        BY <1>2, <3>1, <3>2, <3>3, <4>2
      <4>. QED
        BY <1>2, <3>2, <3>3, <4>1, <4>2
    <3>5. deltas'[q] = (IF Len(wire'[q]) = 0 THEN 0
                        ELSE IF wire'[q][Len(wire'[q])] = "done" THEN Len(wire'[q]) - 2
                        ELSE Len(wire'[q]) - 1)
      BY <1>2, <3>1, <3>2, <3>3
    <3>6. pc'[q] \notin {"new", "retrieve", "citations", "notice", "call", "llm", "record", "done"}
          /\ stream'[q] # "open"
      BY <3>1
    <3>. QED
      BY <3>4, <3>5, <3>6 DEF WellFormedAt
  <2>. QED
    BY <1>0, <1>3, <1>12, <2>1, <2>2 DEF SendDone, Yield, TypeOK
<1>13. CASE (\E p \in Questions : Page(p)) \/ UNCHANGED vars
  BY <1>3, <1>13
     DEF Page, ReadPiece, HandleFrame, StreamEnds, StreamBreaks, serverVars, vars
<1>. QED
  BY <1>5, <1>6, <1>7, <1>8, <1>9, <1>10, <1>11, <1>12, <1>13 DEF Next, Serve

\* What the page has read of a stream does not change when the stream grows, or when the
\* page is busy with another question.
LEMMA GrowsInStep ==
    ASSUME TypeOK, NEW q \in Questions, InStepAt(q),
           sent'[q] = sent[q], buffer'[q] = buffer[q], message'[q] = message[q], busy # q => busy' # q,
           Len(wire'[q]) \in Nat, Len(wire'[q]) >= Len(wire[q]),
           \A i \in 1..Len(wire[q]) : wire'[q][i] = wire[q][i]
    PROVE  InStepAt(q)'
<1>1. PICK h \in 0..Len(wire[q]) :
          /\ 2 * h <= sent[q]
          /\ buffer[q] = Halves(2 * h, sent[q])
          /\ Shows(q, h) \/ (busy # q /\ message[q].shown = 0 /\ ~message[q].done)
  BY DEF InStepAt
<1>2. Len(wire[q]) \in Nat /\ sent[q] \in Nat /\ sent[q] <= 2 * Len(wire[q])
  BY DEF TypeOK, InStepAt
<1>3. h >= 1 => wire'[q][h] = wire[q][h]
  BY <1>1, <1>2
<1>4. Shows(q, h) => Shows(q, h)'
  BY <1>1, <1>3 DEF Shows
<1>5. h \in 0..Len(wire'[q]) /\ sent'[q] <= 2 * Len(wire'[q]) /\ 2 * h <= sent'[q]
  BY <1>1, <1>2
<1>6. buffer'[q] = Halves(2 * h, sent'[q])
  BY <1>1
<1>7. Shows(q, h)' \/ (busy' # q /\ message'[q].shown = 0 /\ ~message'[q].done)
  BY <1>1, <1>4, Zenon
<1>. QED
  BY <1>5, <1>6, <1>7, Zenon DEF InStepAt

LEMMA InStepPreserved ==
    ASSUME Inv, [Next]_vars
    PROVE  InStep'
<1>. USE QuestionsAssumption DEF Requests
<1>0. TypeOK /\ Metered /\ WellFormed /\ buffer = [q \in Questions |-> buffer[q]]
  BY DEF Inv, InStep
<1>b. buffer' = [q \in Questions |-> buffer'[q]]
  <2>1. CASE UNCHANGED buffer
    BY <1>0, <2>1
  <2>2. ASSUME NEW p \in Questions, NEW b, buffer' = [buffer EXCEPT ![p] = b]
        PROVE  buffer' = [q \in Questions |-> buffer'[q]]
    BY <1>0, <2>2
  <2>3. ASSUME NEW p \in Questions, ReadPiece(p) \/ HandleFrame(p)
        PROVE  buffer' = [q \in Questions |-> buffer'[q]]
    BY <2>2, <2>3, Zenon DEF ReadPiece, HandleFrame
  <2>. QED
    BY <2>1, <2>3
       DEF Next, AskApi, Serve, ServerFails, Prepare, SendCitations, SendNotice, StartCall, Delta,
           CallEnds, RecordUsage, SendDone, Ask, Page, StreamEnds, StreamBreaks, NetworkCuts, Leave,
           pageVars, vars
<1>1. SUFFICES ASSUME NEW q \in Questions
               PROVE  InStepAt(q)'
  BY <1>b DEF InStep
<1>2. PICK h \in 0..Len(wire[q]) :
          /\ 2 * h <= sent[q]
          /\ buffer[q] = Halves(2 * h, sent[q])
          /\ Shows(q, h) \/ (busy # q /\ message[q].shown = 0 /\ ~message[q].done)
  BY DEF Inv, InStep, InStepAt
<1>3. /\ Len(wire[q]) \in Nat /\ sent[q] \in Nat /\ sent[q] <= 2 * Len(wire[q]) /\ h \in Nat
      /\ message[q] \in [streaming : BOOLEAN, error : BOOLEAN, shown : Nat,
                         sources : BOOLEAN, done : BOOLEAN]
      /\ q # NoOne
  <2>1. wire[q] \in Seq({"citations", "delta", "done"}) /\ sent[q] \in Nat
    BY <1>0 DEF TypeOK
  <2>2. Len(wire[q]) \in Nat /\ h \in Nat
    BY <2>1
  <2>3. sent[q] <= 2 * Len(wire[q])
    BY DEF Inv, InStep, InStepAt
  <2>4. message[q] \in [streaming : BOOLEAN, error : BOOLEAN, shown : Nat,
                        sources : BOOLEAN, done : BOOLEAN]
    BY <1>0 DEF TypeOK
  <2>5. q # NoOne
    OBVIOUS
  <2>. QED
    BY <2>1, <2>2, <2>3, <2>4, <2>5
<1>4. CASE /\ wire'[q] = wire[q] /\ sent'[q] = sent[q] /\ buffer'[q] = buffer[q]
           /\ message'[q] = message[q] /\ (busy # q => busy' # q)
  BY <1>0, <1>3, <1>4, GrowsInStep DEF Inv, InStep
<1>5. ASSUME NEW p \in Questions, NEW e \in {"citations", "delta", "done"}, Yield(p, e),
             UNCHANGED pageVars
      PROVE  InStepAt(q)'
  <2>1. CASE p = q
    <3>1. /\ Len(wire'[q]) = Len(wire[q]) + 1
          /\ \A i \in 1..Len(wire[q]) : wire'[q][i] = wire[q][i]
      BY <1>0, <1>5, <2>1, Yielded, Zenon
    <3>. QED
      BY <1>0, <1>3, <1>5, <3>1, GrowsInStep DEF pageVars, Inv, InStep
  <2>2. CASE p # q
    <3>1. wire'[q] = wire[q]
      BY <1>0, <1>5, <2>2, Yielded
    <3>. QED
      BY <1>4, <1>5, <3>1 DEF pageVars
  <2>. QED
    BY <2>1, <2>2
<1>6. ASSUME NEW r \in Requests, AskApi(r) \/ Serve(r) \/ ServerFails(r)
      PROVE  InStepAt(q)'
  <2>1. UNCHANGED pageVars
    BY <1>6
       DEF AskApi, Serve, ServerFails, Prepare, SendCitations, SendNotice, StartCall, Delta,
           CallEnds, RecordUsage, SendDone
  <2>2. CASE UNCHANGED wire
    BY <1>4, <2>1, <2>2 DEF pageVars
  <2>3. CASE SendCitations(r) \/ SendNotice(r) \/ Delta(r) \/ SendDone(r)
    <3>1. r \in Questions
      BY <1>0, <2>3 DEF SendCitations, SendNotice, Delta, SendDone, Metered
    <3>2. Yield(r, "citations") \/ Yield(r, "delta") \/ Yield(r, "done")
      BY <2>3 DEF SendCitations, SendNotice, Delta, SendDone
    <3>. QED
      BY <1>5, <2>1, <3>1, <3>2
  <2>. QED
    BY <1>6, <2>2, <2>3
       DEF AskApi, Serve, ServerFails, Prepare, StartCall, CallEnds, RecordUsage
<1>7. ASSUME NEW p \in Questions, NetworkCuts(p)
      PROVE  InStepAt(q)'
  BY <1>4, <1>7 DEF NetworkCuts, pageVars
\* Another question of the page.
<1>8. ASSUME NEW p \in Questions, p # q, Ask(p) \/ Page(p) \/ Leave(p)
      PROVE  InStepAt(q)'
  <2>1. /\ wire' = wire /\ sent'[q] = sent[q] /\ buffer'[q] = buffer[q]
        /\ message'[q] = message[q]
    BY <1>0, <1>8
       DEF Ask, Page, ReadPiece, HandleFrame, StreamEnds, StreamBreaks, Leave, Show, serverVars, TypeOK
  <2>2. busy' \in {busy, p, NoOne}
    BY <1>8 DEF Ask, Page, ReadPiece, HandleFrame, StreamEnds, StreamBreaks, Leave
  <2>. QED
    BY <1>3, <1>4, <1>8, <2>1, <2>2
<1>9. CASE Ask(q)
  <2>1. Len(wire[q]) = 0
    BY <1>0, <1>9 DEF Ask, WellFormed, WellFormedAt
  <2>2. h = 0 /\ sent[q] = 0
    BY <1>2, <1>3, <2>1
  <2>3. /\ wire' = wire /\ sent' = sent /\ buffer' = buffer
        /\ message'[q] = [Blank EXCEPT !.streaming = TRUE]
    BY <1>0, <1>9 DEF Ask, Show, TypeOK
  <2>4. message'[q].shown = 0 /\ ~message'[q].done
    BY <2>3 DEF Blank
  <2>5. Shows(q, 0)'
    BY <2>4 DEF Shows
  <2>6. /\ 0 \in 0..Len(wire'[q]) /\ 2 * 0 <= sent'[q] /\ sent'[q] <= 2 * Len(wire'[q])
        /\ buffer'[q] = Halves(2 * 0, sent'[q])
    BY <1>2, <1>3, <2>1, <2>2, <2>3
  <2>. QED
    BY <2>5, <2>6, Zenon DEF InStepAt
<1>10. CASE ReadPiece(q)
  <2>1. PICK n \in (sent[q] + 1)..(2 * Len(wire[q])) :
          /\ sent'   = [sent EXCEPT ![q] = n]
          /\ buffer' = [buffer EXCEPT ![q] = @ \o Halves(sent[q], n)]
    BY <1>10 DEF ReadPiece, Halves
  <2>2. sent'[q] = n /\ n \in Nat /\ n <= 2 * Len(wire[q]) /\ sent[q] <= n
    BY <1>0, <1>3, <2>1 DEF TypeOK
  <2>3. buffer'[q] = buffer[q] \o Halves(sent[q], n)
    <3>. DEFINE b == buffer[q] \o Halves(sent[q], n)
    <3>1. buffer' = [buffer EXCEPT ![q] = b]
      BY <2>1
    <3>. HIDE DEF b
    <3>2. buffer'[q] = b
      BY <1>0, <3>1
    <3>. QED
      BY <3>2 DEF b
  <2>4. buffer'[q] = Halves(2 * h, n)
    <3>1. 2 * h <= sent[q] /\ h \in Nat /\ sent[q] \in Nat /\ buffer[q] = Halves(2 * h, sent[q])
      BY <1>2, <1>3
    <3>2. Halves(2 * h, sent[q]) \o Halves(sent[q], n) = Halves(2 * h, n)
      BY <2>2, <3>1, NextPiece
    <3>. QED
      BY <2>3, <3>1, <3>2
  <2>5. wire' = wire /\ message' = message /\ busy' = busy
    BY <1>10 DEF ReadPiece, serverVars
  <2>6. Shows(q, h)' \/ (busy' # q /\ message'[q].shown = 0 /\ ~message'[q].done)
    BY <1>2, <2>5 DEF Shows
  <2>7. h \in 0..Len(wire'[q]) /\ 2 * h <= sent'[q] /\ sent'[q] <= 2 * Len(wire'[q])
    BY <1>2, <1>3, <2>2, <2>5
  <2>8. buffer'[q] = Halves(2 * h, sent'[q])
    BY <2>2, <2>4
  <2>. QED
    BY <2>6, <2>7, <2>8, Zenon DEF InStepAt
<1>11. CASE HandleFrame(q)
  <2>1. busy = q /\ FrameReady(q) /\ Shows(q, h)
    BY <1>2, <1>11 DEF HandleFrame
  <2>2. /\ 2 * h + 2 <= sent[q]
        /\ (CHOOSE i \in Ends(q) : \A j \in Ends(q) : i <= j) = 2
        /\ buffer[q][2].frame = h + 1
        /\ SubSeq(buffer[q], 3, Len(buffer[q])) =
               Halves(2 * (h + 1), sent[q])
    BY <1>2, <1>3, <2>1, FirstFrame
  <2>3. /\ Show(q, Shown(message[q], wire[q][h + 1]))
        /\ buffer' = [buffer EXCEPT ![q] = SubSeq(@, 3, Len(@))]
    <3>1. 2 > 1 /\ 2 + 1 = 3
      OBVIOUS
    <3>. QED
      BY <1>11, <2>2, <3>1 DEF HandleFrame
  <2>4. wire' = wire /\ sent' = sent /\ busy' = busy
    BY <1>11 DEF HandleFrame, serverVars
  <2>5. h + 1 \in 1..Len(wire[q])
    BY <1>3, <2>2
  <2>6. h + 1 \in 0..Len(wire'[q]) /\ 2 * (h + 1) <= sent'[q] /\ sent'[q] <= 2 * Len(wire'[q])
    BY <1>3, <2>2, <2>4, <2>5
  <2>7. buffer'[q] = Halves(2 * (h + 1), sent'[q])
    BY <1>0, <2>2, <2>3, <2>4
  <2>8. message'[q] = Shown(message[q], wire[q][h + 1])
    BY <1>0, <2>3 DEF Show, TypeOK
  <2>9. /\ wire[q][h + 1] \in {"citations", "delta", "done"}
        /\ wire[q][h + 1] = "citations" <=> h = 0
        /\ wire[q][h + 1] = "done" => h + 1 = Len(wire[q])
    BY <1>0, <1>3, <2>5 DEF TypeOK, WellFormed, WellFormedAt
  <2>10. h >= 1 => wire[q][h] # "done"
    BY <1>0, <1>3, <2>5 DEF WellFormed, WellFormedAt
  <2>11. Shows(q, h + 1)'
    <3>1. CASE wire[q][h + 1] = "citations"
      <4>1. message'[q] = [message[q] EXCEPT !.sources = TRUE]
        BY <2>8, <3>1, ShownIs, Zenon
      <4>2. message'[q].shown = message[q].shown /\ message'[q].done = message[q].done
            /\ message'[q].sources
        BY <1>3, <4>1
      <4>3. h = 0 /\ message[q].shown = 0 /\ ~message[q].done
        BY <1>3, <2>1, <2>9, <3>1 DEF Shows
      <4>. QED
        BY <2>4, <3>1, <4>2, <4>3 DEF Shows
    <3>2. CASE wire[q][h + 1] = "delta"
      <4>1. message'[q] = [message[q] EXCEPT !.shown = @ + 1]
        BY <2>8, <3>2, ShownIs, Zenon
      <4>2. message'[q].shown = message[q].shown + 1 /\ message'[q].done = message[q].done
            /\ message'[q].sources = message[q].sources
        BY <1>3, <4>1
      <4>3. h >= 1 /\ message[q].shown = h - 1 /\ ~message[q].done /\ message[q].sources
        BY <1>3, <2>1, <2>9, <2>10, <3>2 DEF Shows
      <4>. QED
        BY <1>3, <2>4, <3>2, <4>2, <4>3 DEF Shows
    <3>3. CASE wire[q][h + 1] = "done"
      <4>1. message'[q] = [message[q] EXCEPT !.streaming = FALSE, !.done = TRUE]
        BY <2>8, <3>3, ShownIs, Zenon
      <4>2. message'[q].shown = message[q].shown /\ message'[q].sources = message[q].sources
        BY <1>3, <4>1
      <4>3. h >= 1 /\ message[q].shown = h - 1 /\ message[q].sources
        BY <1>3, <2>1, <2>9, <2>10, <3>3 DEF Shows
      <4>. QED
        BY <1>3, <2>4, <3>3, <4>2, <4>3 DEF Shows
    <3>. QED
      BY <2>9, <3>1, <3>2, <3>3
  <2>. QED
    BY <2>6, <2>7, <2>11, Zenon DEF InStepAt
<1>12. CASE StreamEnds(q) \/ StreamBreaks(q)
  <2>1. busy = q /\ Shows(q, h)
    BY <1>2, <1>12 DEF StreamEnds, StreamBreaks
  <2>2. wire' = wire /\ sent' = sent /\ buffer' = buffer
    BY <1>12 DEF StreamEnds, StreamBreaks, serverVars
  <2>3. /\ message'[q].shown = message[q].shown /\ message'[q].sources = message[q].sources
        /\ message'[q].done = message[q].done
    <3>1. message'[q] = [message[q] EXCEPT !.streaming = FALSE]
          \/ message'[q] = [message[q] EXCEPT !.streaming = FALSE, !.error = TRUE]
      BY <1>0, <1>12 DEF StreamEnds, StreamBreaks, Show, TypeOK
    <3>. QED
      BY <1>3, <3>1
  <2>4. Shows(q, h)'
    BY <2>1, <2>2, <2>3 DEF Shows
  <2>5. /\ h \in 0..Len(wire'[q]) /\ 2 * h <= sent'[q] /\ sent'[q] <= 2 * Len(wire'[q])
        /\ buffer'[q] = Halves(2 * h, sent'[q])
    BY <1>2, <1>3, <2>2
  <2>. QED
    BY <2>4, <2>5, Zenon DEF InStepAt
<1>13. CASE Leave(q)
  <2>1. wire' = wire /\ sent' = sent /\ buffer' = buffer /\ busy' # q
    BY <1>3, <1>13 DEF Leave
  <2>2. message'[q].shown = 0 /\ ~message'[q].done
    BY <1>0, <1>13 DEF Leave, Show, Blank, TypeOK
  <2>3. /\ h \in 0..Len(wire'[q]) /\ 2 * h <= sent'[q] /\ sent'[q] <= 2 * Len(wire'[q])
        /\ buffer'[q] = Halves(2 * h, sent'[q])
    BY <1>2, <1>3, <2>1
  <2>. QED
    BY <2>1, <2>2, <2>3, Zenon DEF InStepAt
<1>14. CASE UNCHANGED vars
  BY <1>4, <1>14 DEF vars, serverVars, pageVars
<1>. QED
  BY <1>6, <1>7, <1>8, <1>9, <1>10, <1>11, <1>12, <1>13, <1>14 DEF Next, Page

LEMMA TypePreserved ==
    ASSUME Inv, [Next]_vars
    PROVE  TypeOK'
<1>. USE QuestionsAssumption DEF Requests
<1>0. TypeOK /\ Metered /\ InStep'
  BY InStepPreserved DEF Inv
<1>t. /\ pc \in [Questions \cup Calls -> Labels] /\ deltas \in [Questions \cup Calls -> Nat]
      /\ usage \in [Questions \cup Calls -> Nat]
  BY <1>0 DEF TypeOK
<1>1. wire' \in [Questions -> Seq({"citations", "delta", "done"})]
  <2>1. ASSUME NEW r \in Requests, SendCitations(r) \/ SendNotice(r) \/ Delta(r) \/ SendDone(r)
        PROVE  wire' \in [Questions -> Seq({"citations", "delta", "done"})]
    <3>1. r \in Questions
      BY <1>0, <2>1 DEF SendCitations, SendNotice, Delta, SendDone, Metered
    <3>2. Yield(r, "citations") \/ Yield(r, "delta") \/ Yield(r, "done")
      BY <2>1 DEF SendCitations, SendNotice, Delta, SendDone
    <3>. QED
      BY <1>0, <3>1, <3>2, Yielded
  <2>2. CASE UNCHANGED wire
    BY <1>0, <2>2 DEF TypeOK
  <2>. QED
    BY <2>1, <2>2
       DEF Next, Serve, Page, AskApi, ServerFails, Prepare, StartCall, CallEnds, RecordUsage, Ask,
           ReadPiece, HandleFrame, StreamEnds, StreamBreaks, NetworkCuts, Leave, serverVars, vars
<1>s. sent' \in [Questions -> Nat]
  <2>1. ASSUME NEW p \in Questions, ReadPiece(p)
        PROVE  sent' \in [Questions -> Nat]
    <3>1. PICK n \in (sent[p] + 1)..(2 * Len(wire[p])) : sent' = [sent EXCEPT ![p] = n]
      BY <2>1 DEF ReadPiece
    <3>2. n \in Nat
      BY <1>0 DEF TypeOK
    <3>. QED
      BY <1>0, <3>1, <3>2 DEF TypeOK
  <2>2. CASE UNCHANGED sent
    BY <1>0, <2>2 DEF TypeOK
  <2>. QED
    BY <2>1, <2>2
       DEF Next, Serve, Page, AskApi, ServerFails, Prepare, SendCitations, SendNotice, StartCall,
           Delta, CallEnds, RecordUsage, SendDone, Ask, HandleFrame, StreamEnds, StreamBreaks,
           NetworkCuts, Leave, pageVars, vars
<1>2. \A q \in Questions : \A n \in 1..Len(buffer'[q]) : buffer'[q][n].frame \in 1..Len(wire'[q])
  <2>1. SUFFICES ASSUME NEW q \in Questions, NEW n \in 1..Len(buffer'[q])
                 PROVE  buffer'[q][n].frame \in 1..Len(wire'[q])
    OBVIOUS
  <2>2. PICK h \in 0..Len(wire'[q]) :
            /\ 2 * h <= sent'[q] /\ sent'[q] <= 2 * Len(wire'[q])
            /\ buffer'[q] = Halves(2 * h, sent'[q])
    BY <1>0 DEF InStep, InStepAt
  <2>3. Len(wire'[q]) \in Nat /\ sent'[q] \in Nat
    BY <1>1, <1>s
  <2>4. sent'[q] - 2 * h \in Nat
    BY <2>2, <2>3
  <2>5. Len(buffer'[q]) = sent'[q] - 2 * h
    BY <2>2, <2>4 DEF Halves
  <2>6. buffer'[q][n] = Half(2 * h + n)
    BY <2>2, <2>5 DEF Halves
  <2>7. Half(2 * h + n).frame = (2 * h + n + 1) \div 2
    BY DEF Half
  <2>8. (2 * h + n + 1) \div 2 >= 1 /\ (2 * h + n + 1) \div 2 <= Len(wire'[q])
        /\ (2 * h + n + 1) \div 2 \in Int
    BY <2>2, <2>3, <2>4, <2>5
  <2>. QED
    BY <2>3, <2>6, <2>7, <2>8
<1>3. pc' \in [Requests -> Labels]
  BY <1>t
     DEF Labels, Goto, Next, Serve, Page, AskApi, ServerFails, Fail, Prepare, SendCitations, SendNotice, StartCall,
         Delta, CallEnds, RecordUsage, SendDone, Ask, ReadPiece, HandleFrame, StreamEnds,
         StreamBreaks, NetworkCuts, Leave, Cut, serverVars, pageVars, vars
<1>4. stream' \in [Questions -> {"none", "open", "ended", "broken"}]
  <2>1. ASSUME NEW q \in Questions, NEW how \in {"open", "ended", "broken"}, Close(q, how)
        PROVE  stream' \in [Questions -> {"none", "open", "ended", "broken"}]
    BY <1>0, <2>1 DEF TypeOK, Close
  <2>2. CASE UNCHANGED stream
    BY <1>0, <2>2 DEF TypeOK
  <2>3. ASSUME NEW r \in Requests, Prepare(r) \/ SendDone(r) \/ ServerFails(r)
        PROVE  stream' \in [Questions -> {"none", "open", "ended", "broken"}]
    BY <2>1, <2>2, <2>3 DEF Prepare, SendDone, ServerFails, Fail
  <2>4. ASSUME NEW q \in Questions, NetworkCuts(q) \/ Leave(q)
        PROVE  stream' \in [Questions -> {"none", "open", "ended", "broken"}]
    BY <2>1, <2>4 DEF NetworkCuts, Leave, Cut
  <2>. QED
    BY <2>2, <2>3, <2>4
       DEF Next, Serve, Page, AskApi, SendCitations, SendNotice, StartCall, Delta, CallEnds,
           RecordUsage, Ask, ReadPiece, HandleFrame, StreamEnds, StreamBreaks, serverVars, vars
<1>5. grounded' \subseteq Requests /\ billed' \subseteq grounded'
  BY <1>0
     DEF TypeOK, Metered, Next, Serve, Page, AskApi, ServerFails, Fail, Prepare, SendCitations, SendNotice, StartCall,
         Delta, CallEnds, RecordUsage, SendDone, Ask, ReadPiece, HandleFrame, StreamEnds,
         StreamBreaks, NetworkCuts, Leave, Cut, serverVars, pageVars, vars
<1>6. deltas' \in [Requests -> Nat]
  <2>1. ASSUME NEW r \in Requests, SendNotice(r) \/ Delta(r)
        PROVE  deltas' \in [Requests -> Nat]
    <3>1. deltas[r] + 1 \in Nat /\ 1 \in Nat
      BY <1>t
    <3>2. deltas' = [deltas EXCEPT ![r] = 1] \/ deltas' = [deltas EXCEPT ![r] = @ + 1]
      BY <2>1 DEF SendNotice, Delta
    <3>. QED
      BY <1>t, <3>1, <3>2
  <2>2. CASE UNCHANGED deltas
    BY <1>0, <2>2 DEF TypeOK
  <2>. QED
    BY <2>1, <2>2
       DEF Next, Serve, Page, AskApi, ServerFails, Prepare, SendCitations, StartCall, CallEnds,
           RecordUsage, SendDone, Ask, ReadPiece, HandleFrame, StreamEnds, StreamBreaks,
           NetworkCuts, Leave, serverVars, vars
<1>u. usage' \in [Requests -> Nat]
  <2>1. ASSUME NEW r \in Requests, RecordUsage(r)
        PROVE  usage' \in [Requests -> Nat]
    BY <1>t, <2>1 DEF RecordUsage
  <2>2. CASE UNCHANGED usage
    BY <1>0, <2>2 DEF TypeOK
  <2>. QED
    BY <2>1, <2>2
       DEF Next, Serve, Page, AskApi, ServerFails, Prepare, SendCitations, SendNotice, StartCall,
           Delta, CallEnds, SendDone, Ask, ReadPiece, HandleFrame, StreamEnds, StreamBreaks,
           NetworkCuts, Leave, serverVars, vars
<1>7. busy' \in Questions \cup {NoOne}
  BY <1>0
     DEF TypeOK, Next, Serve, Page, AskApi, ServerFails, Fail, Prepare, SendCitations, SendNotice, StartCall,
         Delta, CallEnds, RecordUsage, SendDone, Ask, ReadPiece, HandleFrame, StreamEnds,
         StreamBreaks, NetworkCuts, Leave, Cut, serverVars, pageVars, vars
<1>8. message' \in [Questions -> [streaming : BOOLEAN, error : BOOLEAN, shown : Nat,
                                 sources : BOOLEAN, done : BOOLEAN]]
  <2>. DEFINE Messages == [streaming : BOOLEAN, error : BOOLEAN, shown : Nat,
                           sources : BOOLEAN, done : BOOLEAN]
  <2>0. message \in [Questions -> Messages]
    BY <1>0 DEF TypeOK
  <2>1. ASSUME NEW p \in Questions, NEW msg \in Messages, Show(p, msg)
        PROVE  message' \in [Questions -> Messages]
    <3>. HIDE DEF Messages
    <3>. QED
      BY <2>0, <2>1 DEF Show
  <2>2. ASSUME NEW p \in Questions, Ask(p) \/ Leave(p)
        PROVE  message' \in [Questions -> Messages]
    <3>1. Blank \in Messages /\ [Blank EXCEPT !.streaming = TRUE] \in Messages
      BY DEF Blank
    <3>. HIDE DEF Messages
    <3>. QED
      BY <2>1, <2>2, <3>1 DEF Ask, Leave
  <2>3. ASSUME NEW p \in Questions, StreamEnds(p) \/ StreamBreaks(p)
        PROVE  message' \in [Questions -> Messages]
    <3>1. \A m \in Messages : /\ [m EXCEPT !.streaming = FALSE] \in Messages
                              /\ [m EXCEPT !.streaming = FALSE, !.error = TRUE] \in Messages
      OBVIOUS
    <3>. HIDE DEF Messages
    <3>. QED
      BY <2>0, <2>1, <2>3, <3>1 DEF StreamEnds, StreamBreaks
  <2>4. ASSUME NEW p \in Questions, HandleFrame(p)
        PROVE  message' \in [Questions -> Messages]
    <3>1. PICK h \in 0..Len(wire[p]) :
              /\ 2 * h <= sent[p]
              /\ buffer[p] = Halves(2 * h, sent[p])
      BY DEF Inv, InStep, InStepAt
    <3>2. /\ wire[p] \in Seq({"citations", "delta", "done"}) /\ Len(wire[p]) \in Nat /\ h \in Nat
          /\ sent[p] \in Nat /\ sent[p] <= 2 * Len(wire[p]) /\ FrameReady(p)
      BY <1>0, <2>4 DEF TypeOK, Inv, InStep, InStepAt, HandleFrame
    <3>3. /\ 2 * h + 2 <= sent[p]
          /\ (CHOOSE i \in Ends(p) : \A j \in Ends(p) : i <= j) = 2
          /\ buffer[p][2].frame = h + 1
      BY <3>1, <3>2, FirstFrame
    <3>4. wire[p][h + 1] \in {"citations", "delta", "done"}
      BY <3>2, <3>3
    <3>5. UNCHANGED message \/ Show(p, Shown(message[p], wire[p][h + 1]))
      BY <2>4, <3>3 DEF HandleFrame
    <3>6. \A m \in Messages : /\ [m EXCEPT !.sources = TRUE] \in Messages
                              /\ [m EXCEPT !.shown = @ + 1] \in Messages
                              /\ [m EXCEPT !.streaming = FALSE, !.done = TRUE] \in Messages
      <4>1. ASSUME NEW m \in Messages
            PROVE  /\ [m EXCEPT !.sources = TRUE] \in Messages
                   /\ [m EXCEPT !.shown = @ + 1] \in Messages
                   /\ [m EXCEPT !.streaming = FALSE, !.done = TRUE] \in Messages
        <5>1. m.shown + 1 \in Nat
          OBVIOUS
        <5>2. [m EXCEPT !.shown = @ + 1] \in Messages
          BY <5>1
        <5>. QED
          BY <5>2
      <4>. HIDE DEF Messages
      <4>. QED
        BY <4>1
    <3>7. Shown(message[p], wire[p][h + 1]) \in Messages
      <4>. HIDE DEF Messages
      <4>1. message[p] \in Messages
        BY <2>0
      <4>2. \A m \in Messages : /\ Shown(m, "citations") \in Messages /\ Shown(m, "delta") \in Messages
                                /\ Shown(m, "done") \in Messages
        BY <3>6, ShownIs, Zenon
      <4>. QED
        BY <3>4, <4>1, <4>2, Zenon
    <3>. HIDE DEF Messages
    <3>. QED
      BY <2>0, <2>1, <3>5, <3>7
  <2>5. CASE UNCHANGED message
    BY <2>0, <2>5
  <2>6. ASSUME NEW r \in Requests, AskApi(r) \/ Serve(r) \/ ServerFails(r)
        PROVE  UNCHANGED message
    BY <2>6
       DEF AskApi, Serve, ServerFails, Prepare, SendCitations, SendNotice, StartCall, Delta,
           CallEnds, RecordUsage, SendDone, pageVars
  <2>7. ASSUME NEW p \in Questions, ReadPiece(p) \/ NetworkCuts(p)
        PROVE  UNCHANGED message
    BY <2>7 DEF ReadPiece, NetworkCuts, pageVars
  <2>8. UNCHANGED vars => UNCHANGED message
    BY DEF vars, pageVars
  <2>9. \/ UNCHANGED message
        \/ \E p \in Questions : Ask(p) \/ Leave(p)
        \/ \E p \in Questions : StreamEnds(p) \/ StreamBreaks(p)
        \/ \E p \in Questions : HandleFrame(p)
    BY <2>6, <2>7, <2>8 DEF Next, Page
  <2>. QED
    BY <2>2, <2>3, <2>4, <2>5, <2>9, Zenon
<1>. QED
  BY <1>1, <1>s, <1>2, <1>3, <1>4, <1>5, <1>6, <1>u, <1>7, <1>8 DEF TypeOK

LEMMA Invariance == Spec => []Inv
<1>1. Inv /\ [Next]_vars => Inv'
  BY TypePreserved, MeteredPreserved, WellFormedPreserved, InStepPreserved DEF Inv
<1>. QED
  BY <1>1, InitInv, PTL DEF Spec

-----------------------------------------------------------------------------
(* The results. *)

\* The variables keep their types, for any number of questions, calls and deltas.
THEOREM TypeCorrect == Spec => []TypeOK
<1>1. Inv => TypeOK
  BY DEF Inv
<1>. QED
  BY <1>1, Invariance, PTL

\* An answer of the LLM is reported as complete, to an API client or on the page, only when
\* its usage is recorded, and once.
THEOREM DoneIsMeteredHolds == Spec => []DoneIsMetered
<1>1. ASSUME Inv
      PROVE  DoneIsMetered
  <2>. USE QuestionsAssumption DEF Requests
  <2>1. \A r \in billed : r \in Requests
    BY <1>1 DEF Inv, TypeOK
  <2>2. \A r \in billed : pc[r] = "answered" => usage[r] = 1
    BY <1>1, <2>1 DEF Inv, Metered
  <2>3. ASSUME NEW q \in Questions, message[q].done
        PROVE  pc[q] = "answered"
    <3>1. PICK h \in 0..Len(wire[q]) : Shows(q, h)
      BY <1>1, <2>3 DEF Inv, InStep, InStepAt
    <3>2. h \in 1..Len(wire[q]) /\ wire[q][h] = "done"
      BY <1>1, <2>3, <3>1 DEF Shows, Inv, TypeOK
    <3>. QED
      BY <1>1, <3>2 DEF Inv, WellFormed, WellFormedAt
  <2>. QED
    BY <2>2, <2>3 DEF DoneIsMetered
<1>. QED
  BY <1>1, Invariance, PTL

\* However the network cuts the streams into pieces, a message marked done shows its sources
\* and every delta, and no message shows more than the LLM produced.
THEOREM WholeAnswerHolds == Spec => []WholeAnswer
<1>1. ASSUME Inv
      PROVE  WholeAnswer
  <2>1. SUFFICES ASSUME NEW q \in Questions
                 PROVE  /\ message[q].shown <= deltas[q]
                        /\ message[q].done => message[q].sources /\ message[q].shown = deltas[q]
    BY DEF WholeAnswer
  <2>2. Len(wire[q]) \in Nat /\ deltas[q] \in Nat /\ WellFormedAt(q)
    BY <1>1 DEF Inv, TypeOK, WellFormed, Requests
  <2>3. PICK h \in 0..Len(wire[q]) :
            Shows(q, h) \/ (busy # q /\ message[q].shown = 0 /\ ~message[q].done)
    BY <1>1 DEF Inv, InStep, InStepAt
  <2>4. CASE busy # q /\ message[q].shown = 0 /\ ~message[q].done
    BY <2>2, <2>4
  <2>5. CASE Shows(q, h)
    <3>1. /\ h >= 1 /\ wire[q][h] = "done" => h = Len(wire[q])
          /\ h = 1 => wire[q][h] # "done"
      BY <2>2 DEF WellFormedAt
    <3>2. message[q].shown = (IF h = 0 THEN 0 ELSE IF wire[q][h] = "done" THEN h - 2 ELSE h - 1)
      BY <2>5 DEF Shows
    <3>3. deltas[q] = (IF Len(wire[q]) = 0 THEN 0
                       ELSE IF wire[q][Len(wire[q])] = "done" THEN Len(wire[q]) - 2 ELSE Len(wire[q]) - 1)
      BY <2>2 DEF WellFormedAt
    <3>4. message[q].shown <= deltas[q]
      BY <2>2, <3>1, <3>2, <3>3
    <3>5. message[q].done => message[q].sources /\ message[q].shown = deltas[q]
      BY <2>2, <2>5, <3>1, <3>2, <3>3 DEF Shows
    <3>. QED
      BY <3>4, <3>5
  <2>. QED
    BY <2>3, <2>4, <2>5
<1>. QED
  BY <1>1, Invariance, PTL

=============================================================================
