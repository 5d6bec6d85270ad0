------------------------ MODULE DocumentsPageProofs ------------------------
(***************************************************************************)
(* Theorems about DocumentsPage, for any documents and any number of loads *)
(* in progress: the page polls while an upload of its own is in flight.    *)
(***************************************************************************)
EXTENDS DocumentsPage, SequenceTheorems, TLAPS

Latest == loads[Len(loads)]

\* What the page knows of a document in flight, or will know: the last load in progress is
\* still to be read or has read it in flight; without one, the table shows it in flight,
\* or the last load has failed.
Watched(d) ==
    state[d] \in Lifecycle!Open =>
        IF loads = <<>> THEN table[d] \in Lifecycle!Open \/ loadError
                        ELSE Latest.read => Latest.list[d] \in Lifecycle!Open

\* What the page uploaded, or is told that it has, exists or existed.
Born == /\ \A d \in mine : state[d] # "unborn"
        /\ posted => state[uploading] # "unborn"

\* The inductive invariant, beside TypeOK and Born.
Watches == ~overtaken => \A d \in mine : Watched(d)

-----------------------------------------------------------------------------
(* The operators on the loads. *)

\* A load in progress, its list read by the server or not.
Load == [read : BOOLEAN, list : Tables]

\* RemoveAt() closes the gap.
LEMMA LoadRemoved ==
  ASSUME NEW S, NEW s \in Seq(S), NEW i \in 1..Len(s)
  PROVE  /\ RemoveAt(s, i) \in Seq(S)
         /\ Len(RemoveAt(s, i)) = Len(s) - 1
         /\ \A j \in 1..Len(s) - 1 : RemoveAt(s, i)[j] = (IF j < i THEN s[j] ELSE s[j + 1])
<1> DEFINE before == SubSeq(s, 1, i - 1)
           after  == SubSeq(s, i + 1, Len(s))
<1>1. Len(s) \in Nat /\ \A j \in 1..Len(s) : s[j] \in S
  OBVIOUS
<1>2. /\ before \in Seq(S)
      /\ Len(before) = i - 1
      /\ \A j \in 1..i - 1 : before[j] = s[j]
  <2>1. \A j \in 1..i - 1 : s[j] \in S
    BY <1>1
  <2>2. /\ before \in Seq(S)
        /\ Len(before) = IF 1 <= i - 1 THEN i - 1 - 1 + 1 ELSE 0
        /\ \A j \in 1..i - 1 - 1 + 1 : before[j] = s[1 + j - 1]
    BY <2>1, <1>1, SubSeqProperties
  <2> QED BY <2>2, <1>1
<1>3. /\ after \in Seq(S)
      /\ Len(after) = Len(s) - i
      /\ \A j \in 1..Len(s) - i : after[j] = s[i + j]
  <2>1. \A j \in i + 1..Len(s) : s[j] \in S
    BY <1>1
  <2>2. /\ after \in Seq(S)
        /\ Len(after) = IF i + 1 <= Len(s) THEN Len(s) - (i + 1) + 1 ELSE 0
        /\ \A j \in 1..Len(s) - (i + 1) + 1 : after[j] = s[i + 1 + j - 1]
    BY <2>1, <1>1, SubSeqProperties
  <2> QED BY <2>2, <1>1
<1>4. /\ before \o after \in Seq(S)
      /\ Len(before \o after) = Len(before) + Len(after)
      /\ \A j \in 1..Len(before) + Len(after) :
            (before \o after)[j] = IF j <= Len(before) THEN before[j] ELSE after[j - Len(before)]
  BY <1>2, <1>3, ConcatProperties
<1> HIDE DEF before, after
<1>5. \A j \in 1..Len(s) - 1 : (before \o after)[j] = (IF j < i THEN s[j] ELSE s[j + 1])
  <2> TAKE j \in 1..Len(s) - 1
  <2>1. CASE j < i
    BY <2>1, <1>1, <1>2, <1>3, <1>4
  <2>2. CASE ~(j < i)
    <3>1. j - Len(before) \in 1..Len(s) - i /\ i + (j - Len(before)) = j + 1
      BY <2>2, <1>1, <1>2
    <3>2. after[j - Len(before)] = s[j + 1]
      BY <3>1, <1>3
    <3>3. j \in 1..Len(before) + Len(after) /\ ~(j <= Len(before))
      BY <2>2, <1>1, <1>2, <1>3
    <3>4. (before \o after)[j] = after[j - Len(before)]
      BY <3>3, <1>4
    <3> QED BY <3>2, <3>4, <2>2
  <2> QED BY <2>1, <2>2
<1>6. RemoveAt(s, i) = before \o after
  BY DEF RemoveAt, before, after
<1>7. Len(before \o after) = Len(s) - 1
  BY <1>1, <1>2, <1>3, <1>4
<1> QED BY <1>4, <1>5, <1>6, <1>7

-----------------------------------------------------------------------------
(* What happens on the server. *)

\* A document in flight was in flight before, unless it has just been uploaded.
LEMMA ServerStep ==
  ASSUME TypeOK, Lifecycle!Next
  PROVE  /\ state' \in [Docs -> Lifecycle!States]
         /\ searchable' \subseteq Docs
         /\ \A d \in Docs : state[d] # "unborn" => state'[d] # "unborn"
         /\ \A d \in Docs : state'[d] \in Lifecycle!Open
                                => state[d] \in Lifecycle!Open \cup {"unborn"}
<1> PICK d \in Docs : Lifecycle!Upload(d) \/ Lifecycle!Progress(d) \/ Lifecycle!Remove(d)
                      \/ Lifecycle!Relapse(d)
  BY DEF Lifecycle!Next
<1> USE DEF TypeOK, Lifecycle!States, Lifecycle!Open, Lifecycle!Settled, Lifecycle!Become,
            Lifecycle!Finish
<1>1. CASE Lifecycle!Upload(d)
  BY <1>1 DEF Lifecycle!Upload
<1>2. CASE Lifecycle!Progress(d)
  BY <1>2 DEF Lifecycle!Progress, Lifecycle!Start, Lifecycle!Complete, Lifecycle!Fail
<1>3. CASE Lifecycle!Remove(d)
  BY <1>3 DEF Lifecycle!Remove
<1>4. CASE Lifecycle!Relapse(d)
  BY <1>4 DEF Lifecycle!Relapse
<1> QED BY <1>1, <1>2, <1>3, <1>4

\* An accepted upload and a deletion are steps of the lifecycle.
LEMMA ServerActs ==
  ASSUME TypeOK
  PROVE  /\ Accept => Lifecycle!Next
         /\ \A d \in Docs : Delete(d) => Lifecycle!Next
BY DEF TypeOK, Accept, Delete, Lifecycle!Next

\* What an answer can show.
LEMMA ListIsTable ==
  ASSUME TypeOK
  PROVE  [d \in Docs |-> IF state[d] \in Live THEN state[d] ELSE "absent"] \in Tables
BY DEF TypeOK, Tables, Shown

LEMMA LoadStarted ==
  ASSUME TypeOK, StartLoad
  PROVE  /\ loads' \in Seq(Load) /\ Len(loads') <= MaxLoads
         /\ loads' # <<>>
         /\ ~loads'[Len(loads')].read
<1>1. Unread \in Load /\ ~Unread.read
  BY DEF Unread, Load, Tables, Shown
<1>2. loads \in Seq(Load) /\ Len(loads) < MaxLoads /\ loads' = Append(loads, Unread)
  BY DEF TypeOK, StartLoad, Load
<1>3. Len(loads) \in Nat /\ MaxLoads \in Nat
  BY <1>2, PageAssumption
<1>4. /\ loads' \in Seq(Load) /\ loads' # <<>> /\ Len(loads') = Len(loads) + 1
      /\ loads'[Len(loads) + 1] = Unread
  BY <1>1, <1>2, AppendProperties
<1> QED BY <1>1, <1>2, <1>3, <1>4

-----------------------------------------------------------------------------
LEMMA TypeKept == TypeOK /\ [Next]_vars => TypeOK'
<1> SUFFICES ASSUME TypeOK, [Next]_vars PROVE TypeOK'
  OBVIOUS
<1>0. CASE UNCHANGED vars
  BY <1>0 DEF vars, docVars, pageVars, TypeOK
<1>1. CASE Mount
  BY <1>1, LoadStarted DEF Mount, TypeOK, docVars, Load
<1>2. CASE Tick
  BY <1>2, LoadStarted DEF Tick, TypeOK, docVars, Load
<1>3. ASSUME NEW i \in 1..MaxLoads, ReadList(i) PROVE TypeOK'
  <2> DEFINE new == [read |-> TRUE,
                     list |-> [d \in Docs |-> IF state[d] \in Live THEN state[d] ELSE "absent"]]
  <2>1. new \in Load
    BY ListIsTable DEF Load
  <2>2. loads \in Seq(Load) /\ i \in 1..Len(loads) /\ loads' = [loads EXCEPT ![i] = new]
    BY <1>3 DEF ReadList, TypeOK, Load
  <2> HIDE DEF new
  <2>3. loads' \in Seq(Load) /\ Len(loads') = Len(loads)
    BY <2>1, <2>2
  <2>4. UNCHANGED <<docVars, mounted, table, loadError, uploading, posted, deleting, mine>>
        /\ overtaken' \in BOOLEAN
    BY <1>3 DEF ReadList, TypeOK
  <2> QED BY <2>3, <2>4 DEF TypeOK, docVars, Load
<1>4. ASSUME NEW i \in 1..MaxLoads, Show(i) PROVE TypeOK'
  <2>1. loads \in Seq(Load) /\ i \in 1..Len(loads) /\ loads' = RemoveAt(loads, i)
    BY <1>4 DEF Show, TypeOK, Load
  <2>2. loads' \in Seq(Load) /\ Len(loads') = Len(loads) - 1
    BY <2>1, LoadRemoved
  <2>3. Len(loads') <= MaxLoads
    BY <2>1, <2>2, PageAssumption DEF TypeOK
  <2>4. table' \in Tables
    <3>1. loads[i] \in Load
      BY <2>1
    <3> QED BY <1>4, <3>1 DEF Show, Load
  <2>5. UNCHANGED <<docVars, mounted, uploading, posted, deleting, mine>>
        /\ overtaken' \in BOOLEAN /\ loadError' \in BOOLEAN
    BY <1>4 DEF Show, TypeOK
  <2> QED BY <2>2, <2>3, <2>4, <2>5 DEF TypeOK, docVars, Load
<1>5. ASSUME NEW i \in 1..MaxLoads, LoadFails(i) PROVE TypeOK'
  <2>1. loads \in Seq(Load) /\ i \in 1..Len(loads) /\ loads' = RemoveAt(loads, i)
    BY <1>5 DEF LoadFails, TypeOK, Load
  <2>2. loads' \in Seq(Load) /\ Len(loads') = Len(loads) - 1
    BY <2>1, LoadRemoved
  <2>3. Len(loads') <= MaxLoads
    BY <2>1, <2>2, PageAssumption DEF TypeOK
  <2>4. UNCHANGED <<docVars, mounted, table, uploading, posted, deleting, mine>>
        /\ overtaken' \in BOOLEAN /\ loadError' \in BOOLEAN
    BY <1>5 DEF LoadFails, TypeOK
  <2> QED BY <2>2, <2>3, <2>4 DEF TypeOK, docVars, Load
<1>6. CASE Accept
  <2>1. state' \in [Docs -> Lifecycle!States] /\ searchable' \subseteq Docs
    BY <1>6, ServerActs, ServerStep
  <2> QED BY <1>6, <2>1 DEF Accept, TypeOK
<1>7. CASE Refuse
  BY <1>7 DEF Refuse, TypeOK, docVars
<1>8. CASE Uploaded
  BY <1>8, LoadStarted DEF Uploaded, TypeOK, docVars, Load
<1>9. ASSUME NEW d \in Docs, Deleted(d) PROVE TypeOK'
  BY <1>9, LoadStarted DEF Deleted, TypeOK, docVars, Load
<1>10. ASSUME NEW d \in Docs, DeleteFails(d) PROVE TypeOK'
  BY <1>10 DEF DeleteFails, TypeOK, docVars
<1>11. CASE Elsewhere
  <2>1. state' \in [Docs -> Lifecycle!States] /\ searchable' \subseteq Docs
    BY <1>11, ServerStep DEF Elsewhere
  <2> QED BY <1>11, <2>1 DEF Elsewhere, TypeOK, pageVars
<1>12. ASSUME NEW d \in Docs, StartUpload(d) PROVE TypeOK'
  BY <1>12, PageAssumption DEF StartUpload, TypeOK, docVars
<1>13. ASSUME NEW d \in Docs, Delete(d) PROVE TypeOK'
  <2>1. state' \in [Docs -> Lifecycle!States] /\ searchable' \subseteq Docs
    BY <1>13, ServerActs, ServerStep
  <2> QED BY <1>13, <2>1 DEF Delete, TypeOK
<1> QED
  BY <1>0, <1>1, <1>2, <1>3, <1>4, <1>5, <1>6, <1>7, <1>8, <1>9, <1>10, <1>11, <1>12, <1>13
  DEF Next, Answer, Requests

-----------------------------------------------------------------------------
LEMMA BornKept == TypeOK /\ Born /\ [Next]_vars => Born'
<1> SUFFICES ASSUME TypeOK, Born, [Next]_vars PROVE Born'
  OBVIOUS
<1>1. CASE UNCHANGED <<docVars, posted, uploading, mine>>
  BY <1>1 DEF Born, docVars
<1>2. ASSUME Lifecycle!Next, UNCHANGED <<uploading, mine>>, posted' => posted \/ Accept
      PROVE  Born'
  <2>1. \A d \in Docs : state[d] # "unborn" => state'[d] # "unborn"
    BY <1>2, ServerStep
  <2>2. ASSUME Accept PROVE state'[uploading] # "unborn"
    <3>1. uploading \in Docs /\ state \in [Docs -> Lifecycle!States]
      BY <2>2 DEF Accept, TypeOK
    <3> QED BY <2>2, <3>1 DEF Accept, Lifecycle!Upload, Lifecycle!Become
  <2>3. mine \subseteq Docs /\ (posted => uploading \in Docs)
    BY DEF TypeOK
  <2> QED BY <1>2, <2>1, <2>2, <2>3 DEF Born
<1>3. CASE Accept
  BY <1>2, <1>3, ServerActs DEF Accept
<1>4. CASE Refuse
  BY <1>4 DEF Refuse, Born, docVars
<1>5. CASE Uploaded
  BY <1>5 DEF Uploaded, Born, docVars
<1>6. CASE Elsewhere
  BY <1>2, <1>6 DEF Elsewhere, pageVars
<1>7. ASSUME NEW d \in Docs, StartUpload(d) PROVE Born'
  BY <1>7 DEF StartUpload, Born, docVars, TypeOK
<1>8. ASSUME NEW d \in Docs, Delete(d) PROVE Born'
  BY <1>2, <1>8, ServerActs DEF Delete
<1>9. Mount \/ Tick \/ Answer \/ (\E d \in Docs : Deleted(d) \/ DeleteFails(d)) \/ UNCHANGED vars
        => UNCHANGED <<docVars, posted, uploading, mine>>
  BY DEF Mount, Tick, Answer, ReadList, Show, LoadFails, Deleted, DeleteFails, vars, pageVars
<1> QED BY <1>1, <1>3, <1>4, <1>5, <1>6, <1>7, <1>8, <1>9 DEF Next, Requests

-----------------------------------------------------------------------------
\* An unread load is all it takes.
LEMMA NewLoadWatches ==
  ASSUME TypeOK, StartLoad
  PROVE  Watches'
BY LoadStarted DEF Watches, Watched, Latest

LEMMA WatchesKept == TypeOK /\ Born /\ Watches /\ [Next]_vars => Watches'
<1> SUFFICES ASSUME TypeOK, Born, Watches, [Next]_vars PROVE Watches'
  OBVIOUS
<1>1. CASE UNCHANGED <<state, mine, table, loadError, loads, overtaken>>
  BY <1>1 DEF Watches, Watched, Latest
<1>2. ASSUME Lifecycle!Next, UNCHANGED <<mine, table, loadError, loads, overtaken>>
      PROVE  Watches'
  <2>1. \A d \in mine : state'[d] \in Lifecycle!Open => state[d] \in Lifecycle!Open
    BY <1>2, ServerStep DEF Born, TypeOK
  <2> QED BY <1>2, <2>1 DEF Watches, Watched, Latest
<1>3. ASSUME NEW i \in 1..MaxLoads, ReadList(i) PROVE Watches'
  <2> SUFFICES ASSUME ~overtaken', NEW d \in mine, state[d] \in Lifecycle!Open
               PROVE  loads' # <<>> /\ (loads'[Len(loads')].read
                                          => loads'[Len(loads')].list[d] \in Lifecycle!Open)
    BY <1>3 DEF ReadList, Watches, Watched, Latest, docVars
  <2> DEFINE new == [read |-> TRUE,
                     list |-> [e \in Docs |-> IF state[e] \in Live THEN state[e] ELSE "absent"]]
  <2>1. /\ loads \in Seq(Load) /\ i \in 1..Len(loads) /\ loads' = [loads EXCEPT ![i] = new]
        /\ ~overtaken /\ Len(loads) \in Nat
    BY <1>3 DEF ReadList, TypeOK, Load
  <2>2. new.list[d] \in Lifecycle!Open
    BY DEF TypeOK, Live
  <2> HIDE DEF new
  <2>3. Len(loads') = Len(loads) /\ loads' # <<>>
    BY <2>1
  <2>4. CASE i = Len(loads)
    BY <2>1, <2>2, <2>3, <2>4
  <2>5. CASE i # Len(loads)
    <3>1. Len(loads) \in 1..Len(loads) /\ loads # <<>>
      BY <2>1
    <3>2. loads'[Len(loads)] = loads[Len(loads)]
      BY <2>1, <2>5, <3>1
    <3>3. loads'[Len(loads')] = Latest
      BY <2>3, <3>2 DEF Latest
    <3> QED BY <2>1, <2>3, <3>1, <3>3 DEF Watches, Watched
  <2> QED BY <2>4, <2>5
<1>4. ASSUME NEW i \in 1..MaxLoads, Show(i) \/ LoadFails(i) PROVE Watches'
  <2> SUFFICES ASSUME ~overtaken', NEW d \in mine, state[d] \in Lifecycle!Open
               PROVE  IF loads' = <<>>
                      THEN table'[d] \in Lifecycle!Open \/ loadError'
                      ELSE loads'[Len(loads')].read => loads'[Len(loads')].list[d] \in Lifecycle!Open
    BY <1>4 DEF Show, LoadFails, Watches, Watched, Latest, docVars
  <2>1. /\ loads \in Seq(Load) /\ i \in 1..Len(loads) /\ loads' = RemoveAt(loads, i)
        /\ ~overtaken /\ i = 1 /\ Len(loads) \in Nat
    <3>1. loads \in Seq(Load) /\ i \in 1..Len(loads) /\ loads' = RemoveAt(loads, i)
      BY <1>4 DEF Show, LoadFails, TypeOK, Load
    <3>2. ~overtaken /\ ~(i > 1)
      BY <1>4 DEF Show, LoadFails
    <3> QED BY <3>1, <3>2
  <2>2. /\ loads' \in Seq(Load) /\ Len(loads') = Len(loads) - 1
        /\ \A j \in 1..Len(loads) - 1 : loads'[j] = loads[j + 1]
    <3>1. /\ RemoveAt(loads, i) \in Seq(Load) /\ Len(RemoveAt(loads, i)) = Len(loads) - 1
          /\ \A j \in 1..Len(loads) - 1 :
                RemoveAt(loads, i)[j] = (IF j < i THEN loads[j] ELSE loads[j + 1])
      BY <2>1, LoadRemoved
    <3> QED BY <2>1, <3>1
  <2>3. loads # <<>> /\ (Latest.read => Latest.list[d] \in Lifecycle!Open)
    BY <2>1 DEF Watches, Watched
  <2>4. CASE Len(loads) = 1
    <3>1. loads' = <<>> /\ loads[i] = Latest
      BY <2>1, <2>2, <2>4 DEF Latest
    <3> QED BY <1>4, <2>3, <3>1 DEF Show, LoadFails
  <2>5. CASE Len(loads) # 1
    <3>1. loads' # <<>> /\ loads'[Len(loads')] = Latest
      BY <2>1, <2>2, <2>5 DEF Latest
    <3> QED BY <2>3, <3>1
  <2> QED BY <2>4, <2>5
<1>5. CASE Mount
  BY <1>5, NewLoadWatches DEF Mount
<1>6. CASE Tick
  BY <1>6, NewLoadWatches DEF Tick
<1>7. CASE Uploaded
  BY <1>7, NewLoadWatches DEF Uploaded
<1>8. ASSUME NEW d \in Docs, Deleted(d) PROVE Watches'
  BY <1>8, NewLoadWatches DEF Deleted
<1>9. CASE Accept
  BY <1>2, <1>9, ServerActs DEF Accept
<1>10. CASE Elsewhere
  BY <1>2, <1>10 DEF Elsewhere, pageVars
<1>11. ASSUME NEW d \in Docs, Delete(d) PROVE Watches'
  BY <1>2, <1>11, ServerActs DEF Delete
<1>12. Refuse \/ (\E d \in Docs : StartUpload(d) \/ DeleteFails(d)) \/ UNCHANGED vars
        => UNCHANGED <<state, mine, table, loadError, loads, overtaken>>
  BY DEF Refuse, StartUpload, DeleteFails, vars, docVars, pageVars
<1> QED
  BY <1>1, <1>3, <1>4, <1>5, <1>6, <1>7, <1>8, <1>9, <1>10, <1>11, <1>12
  DEF Next, Answer, Requests

-----------------------------------------------------------------------------
LEMMA Invariance == Spec => [](TypeOK /\ Born /\ Watches)
<1>1. Init => TypeOK /\ Born /\ Watches
  <2> SUFFICES ASSUME Init PROVE TypeOK /\ Born /\ Watches
    OBVIOUS
  <2>1. loads \in Seq(Load) /\ Len(loads) = 0
    BY DEF Init
  <2>2. TypeOK
    <3>1. state \in [Docs -> Lifecycle!States] /\ searchable \subseteq Docs
      BY DEF Init, Lifecycle!Init, Lifecycle!States
    <3>2. table \in Tables
      BY DEF Init, Tables, Shown
    <3>3. loads \in Seq(Load) /\ Len(loads) <= MaxLoads
      BY <2>1, PageAssumption
    <3> QED BY <3>1, <3>2, <3>3 DEF Init, TypeOK, Load
  <2> QED BY <2>2 DEF Init, Born, Watches
<1>2. TypeOK /\ Born /\ Watches /\ [Next]_vars => (TypeOK /\ Born /\ Watches)'
  BY TypeKept, BornKept, WatchesKept
<1> QED BY <1>1, <1>2, PTL DEF Spec

\* Type correctness, for any documents and any number of loads in progress.
THEOREM TypeCorrect == Spec => []TypeOK
BY Invariance, PTL

\* page.tsx "polls while anything is pending/processing": as long as answers arrive in the
\* order of the requests, nothing that was uploaded here stays in flight unwatched once
\* the last request has been answered, unless the page says that it failed.
THEOREM PollsWhilePendingHolds == Spec => []PollsWhilePending
<1>1. TypeOK /\ Watches => PollsWhilePending
  BY DEF TypeOK, Watches, Watched, PollsWhilePending, InFlight
<1> QED BY <1>1, Invariance, PTL

=============================================================================
