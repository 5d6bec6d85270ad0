----------------------------- MODULE GateProofs -----------------------------
(***************************************************************************)
(* What holds of the limiter, of the credential check, and of the two      *)
(* composed, for every set of calls, exchanges and credentials, every      *)
(* window and limit, and every number of failures.                         *)
(***************************************************************************)
EXTENDS MCGate, FiniteSetTheorems, TLAPS

-----------------------------------------------------------------------------
(* Windows. *)

Start(w) == w * Window
End(w)   == Start(w) + Window

\* A moment lies within its window.
LEMMA WindowBounds ==
    ASSUME NEW t \in Nat
    PROVE  /\ t \div Window \in Nat
           /\ Start(t \div Window) \in Nat
           /\ Start(t \div Window) <= t
           /\ t < End(t \div Window)
<1>1. Window \in Nat /\ Window > 0
  BY WindowAssumption
<1>2. t = Window * (t \div Window) + (t % Window) /\ t % Window \in 0..Window-1 /\ t \div Window \in Nat
  BY <1>1
<1>. QED
  BY <1>1, <1>2 DEF Start, End

-----------------------------------------------------------------------------
(* The inductive invariant of the limiter. *)

\* The types of the variables, without a bound on the counters.
LimiterTypes ==
    /\ now    \in Times
    /\ pc     \in [Requests -> Labels]
    /\ clock  \in [Requests -> 0..now]
    /\ got    \in [Requests -> Nat]
    /\ count  \in [Windows -> Nat]
    /\ expiry \in [Windows -> Nat]
    /\ faults \in 0..MaxFaults
    /\ \A w \in Windows : expiry[w] # 0 => count[w] > 0

\* An INCR under way is no later than the slowest allowed, and has no answer yet.
OnTime ==
    \A r \in Requests :
        /\ pc[r] = "incr" => now <= clock[r] + MaxDelay
        /\ pc[r] \in {"new", "incr"} => got[r] = 0
        /\ pc[r] \in {"expire", "compare"} => got[r] > 0

\* No bucket expires before the slowest INCR of its window has arrived.
KeptLongEnough ==
    \A w \in Windows : expiry[w] # 0 => End(w) + Slack <= expiry[w]

\* No count is handed out twice in a window; while the bucket is sure to be there,
\* it counts all that were.
CountsDiffer ==
    \A r \in Requests :
        /\ got[r] > 0 /\ now < End(WindowOf(r)) + Slack => got[r] <= count[WindowOf(r)]
        /\ \A s \in Requests \ {r} :
              got[r] > 0 /\ WindowOf(s) = WindowOf(r) => got[s] # got[r]

AdmittedWithinLimit ==
    \A r \in Requests : pc[r] = "admitted" => got[r] \in 1..Limit

\* Each request that failed open has cost a failure.
Passed == {r \in Requests : pc[r] = "passed"}

PassedCost == Cardinality(Passed) <= faults

\* The requests of a window whose INCR may have been executed, and what its bucket counts.
Spent(w) == {r \in Requests : pc[r] \notin {"new", "incr"} /\ WindowOf(r) = w}

CountedOnce == \A w \in Windows : count[w] <= Cardinality(Spent(w))

GotCounted == \A r \in Requests : got[r] <= Cardinality(Requests)

LimiterInv ==
    /\ LimiterTypes
    /\ OnTime
    /\ KeptLongEnough
    /\ CountsDiffer
    /\ AdmittedWithinLimit
    /\ PassedCost
    /\ CountedOnce
    /\ GotCounted

-----------------------------------------------------------------------------
(* Lemmas: what the steps need of the types. *)

LEMMA WindowOfType ==
    ASSUME LimiterTypes, NEW r \in Requests
    PROVE  /\ WindowOf(r) \in Windows
           /\ clock[r] \in Nat /\ clock[r] <= now /\ now \in Nat
           /\ Start(WindowOf(r)) \in Nat /\ End(WindowOf(r)) \in Nat
           /\ Start(WindowOf(r)) <= clock[r] /\ clock[r] < End(WindowOf(r))
<1>1. clock[r] \in Times /\ clock[r] \in Nat /\ clock[r] <= now /\ now \in Nat
  BY DelayAssumption DEF LimiterTypes, Times
<1>2. WindowOf(r) \in Windows
  BY <1>1 DEF WindowOf, Windows
<1>. QED
  BY <1>1, <1>2, WindowBounds, WindowAssumption DEF WindowOf, End

LEMMA WindowType ==
    ASSUME NEW w \in Windows
    PROVE  Start(w) \in Nat /\ End(w) \in Nat
<1>1. PICK t \in Times : w = t \div Window
  BY DEF Windows
<1>2. t \in Nat
  BY DelayAssumption DEF Times
<1>3. Start(t \div Window) \in Nat
  BY <1>2, WindowBounds
<1>. QED
  BY <1>1, <1>3, WindowAssumption DEF End

\* The bucket an INCR reaches is sure to be there still.
LEMMA IncrInTime ==
    ASSUME LimiterTypes, OnTime, MaxDelay <= Slack,
           NEW r \in Requests, pc[r] = "incr"
    PROVE  now < End(WindowOf(r)) + Slack
  BY WindowOfType, WindowAssumption, DelayAssumption DEF OnTime

LEMMA TypesKept ==
    ASSUME LimiterTypes, [Next]_vars
    PROVE  LimiterTypes'
<1>. USE DelayAssumption, WindowAssumption, FaultsAssumption
<1>1. CASE Tick
  BY <1>1 DEF Tick, LimiterTypes, requestVars, Times
<1>2. ASSUME NEW r \in Requests, ReadClock(r) PROVE LimiterTypes'
  BY <1>2 DEF ReadClock, LimiterTypes, redisVars, Goto, Labels, Times
<1>3. ASSUME NEW r \in Requests, Incr(r) PROVE LimiterTypes'
  <2>1. WindowOf(r) \in Windows
    BY WindowOfType
  <2>2. count' \in [Windows -> Nat] /\ \A w \in Windows : count[w] > 0 => count'[w] > 0
    BY <1>3, <2>1 DEF Incr, Increment, LimiterTypes
  <2>. QED
    BY <1>3, <2>1, <2>2 DEF Incr, LimiterTypes, Goto, Labels
<1>4. ASSUME NEW r \in Requests, Expire(r) PROVE LimiterTypes'
  <2>1. WindowOf(r) \in Windows /\ now + Life \in Nat
    BY WindowOfType DEF Life
  <2>. QED
    BY <1>4, <2>1 DEF Expire, LimiterTypes, Goto, Labels
<1>5. ASSUME NEW r \in Requests, Compare(r) PROVE LimiterTypes'
  BY <1>5 DEF Compare, LimiterTypes, redisVars, Goto, Labels
<1>6. ASSUME NEW r \in Requests, FailOpen(r) PROVE LimiterTypes'
  <2>1. WindowOf(r) \in Windows
    BY WindowOfType
  <2>2. count' \in [Windows -> Nat] /\ \A w \in Windows : count[w] > 0 => count'[w] > 0
    BY <1>6, <2>1 DEF FailOpen, Increment, redisVars, LimiterTypes
  <2>3. expiry' = expiry /\ faults' \in 0..MaxFaults /\ pc' \in [Requests -> Labels]
    BY <1>6 DEF FailOpen, Inject, redisVars, LimiterTypes, Goto, Labels
  <2>. QED
    BY <1>6, <2>2, <2>3 DEF FailOpen, LimiterTypes
<1>7. ASSUME NEW r \in Requests, Die(r) PROVE LimiterTypes'
  BY <1>7 DEF Die, Inject, LimiterTypes, redisVars, Goto, Labels
<1>8. CASE UNCHANGED vars
  BY <1>8 DEF vars, requestVars, redisVars, LimiterTypes
<1>. QED
  BY <1>1, <1>2, <1>3, <1>4, <1>5, <1>6, <1>7, <1>8 DEF Next, Check

LEMMA OnTimeKept ==
    ASSUME LimiterTypes, OnTime, [Next]_vars
    PROVE  OnTime'
<1>. USE DelayAssumption
<1>1. CASE Tick
  BY <1>1 DEF Tick, LimiterTypes, OnTime, requestVars, Times
<1>2. ASSUME NEW r \in Requests, ReadClock(r) PROVE OnTime'
  BY <1>2 DEF ReadClock, LimiterTypes, OnTime, redisVars, Goto, Times
<1>3. ASSUME NEW r \in Requests, Incr(r) PROVE OnTime'
  <2>1. WindowOf(r) \in Windows
    BY WindowOfType
  <2>2. count'[WindowOf(r)] > 0
    BY <1>3, <2>1 DEF Incr, Increment, LimiterTypes
  <2>. QED
    BY <1>3, <2>2 DEF Incr, LimiterTypes, OnTime, Goto
<1>4. ASSUME NEW r \in Requests, Expire(r) PROVE OnTime'
  BY <1>4 DEF Expire, LimiterTypes, OnTime, Goto
<1>5. ASSUME NEW r \in Requests, Compare(r) PROVE OnTime'
  BY <1>5 DEF Compare, LimiterTypes, OnTime, Goto
<1>6. ASSUME NEW r \in Requests, FailOpen(r) PROVE OnTime'
  BY <1>6 DEF FailOpen, LimiterTypes, OnTime, Goto
<1>7. ASSUME NEW r \in Requests, Die(r) PROVE OnTime'
  BY <1>7 DEF Die, LimiterTypes, OnTime, Goto
<1>8. CASE UNCHANGED vars
  BY <1>8 DEF vars, requestVars, redisVars, OnTime
<1>. QED
  BY <1>1, <1>2, <1>3, <1>4, <1>5, <1>6, <1>7, <1>8 DEF Next, Check

LEMMA KeptLongEnoughKept ==
    ASSUME LimiterTypes, KeptLongEnough, [Next]_vars
    PROVE  KeptLongEnough'
<1>1. CASE Tick
  BY <1>1 DEF Tick, LimiterTypes, KeptLongEnough
<1>2. ASSUME NEW r \in Requests, Expire(r) PROVE KeptLongEnough'
  <2>1. WindowOf(r) \in Windows /\ End(WindowOf(r)) + Slack <= now + Life
    BY WindowOfType, WindowAssumption DEF Life, End
  <2>. QED
    BY <1>2, <2>1 DEF Expire, LimiterTypes, KeptLongEnough
<1>3. CASE expiry' = expiry
  BY <1>3 DEF KeptLongEnough
<1>. QED
  BY <1>1, <1>2, <1>3
  DEF Next, Check, ReadClock, Incr, Compare, FailOpen, Die, vars, redisVars

LEMMA CountsDifferKept ==
    ASSUME LimiterTypes, OnTime, KeptLongEnough, CountsDiffer, MaxDelay <= Slack, [Next]_vars
    PROVE  CountsDiffer'
<1>1. CASE Tick
  <2>. SUFFICES ASSUME NEW r \in Requests, got[r] > 0, now + 1 < End(WindowOf(r)) + Slack
                PROVE  got[r] <= count'[WindowOf(r)]
    BY <1>1 DEF Tick, CountsDiffer, requestVars, WindowOf
  <2>1. WindowOf(r) \in Windows /\ now \in Nat /\ End(WindowOf(r)) \in Nat
    BY WindowOfType
  <2>2. ~ (expiry[WindowOf(r)] # 0 /\ expiry[WindowOf(r)] <= now + 1)
    BY <2>1, WindowAssumption DEF KeptLongEnough, LimiterTypes
  <2>3. count'[WindowOf(r)] = count[WindowOf(r)]
    BY <1>1, <2>1, <2>2 DEF Tick
  <2>. QED
    BY <2>1, <2>3, WindowAssumption DEF CountsDiffer
<1>2. ASSUME NEW r \in Requests, ReadClock(r) PROVE CountsDiffer'
  <2>1. got[r] = 0
    BY <1>2 DEF ReadClock, OnTime
  <2>2. \A s \in Requests \ {r} : clock'[s] = clock[s]
    BY <1>2 DEF ReadClock, LimiterTypes
  <2>. QED
    BY <1>2, <2>1, <2>2 DEF ReadClock, redisVars, CountsDiffer, WindowOf, LimiterTypes
<1>3. ASSUME NEW r \in Requests, Incr(r) PROVE CountsDiffer'
  <2>. DEFINE v == WindowOf(r)
  <2>1. v \in Windows /\ now < End(v) + Slack
    BY <1>3, WindowOfType, IncrInTime DEF Incr
  <2>2. /\ count' = [count EXCEPT ![v] = count[v] + 1]
        /\ got' = [got EXCEPT ![r] = count[v] + 1]
        /\ clock' = clock /\ now' = now
    BY <1>3, <2>1 DEF Incr, Increment, LimiterTypes
  <2>3. \A s \in Requests : got[s] > 0 /\ WindowOf(s) = v => got[s] <= count[v]
    BY <2>1 DEF CountsDiffer
  <2>4. ASSUME NEW s \in Requests, got'[s] > 0, now' < (End(WindowOf(s)) + Slack)'
        PROVE  got'[s] <= count'[WindowOf(s)]
    <3>1. WindowOf(s) \in Windows
      BY WindowOfType
    <3>2. CASE s = r
      BY <2>1, <2>2, <3>2 DEF LimiterTypes
    <3>3. CASE s # r
      BY <2>1, <2>2, <2>4, <3>1, <3>3 DEF LimiterTypes, CountsDiffer, End, Start, WindowOf
    <3>. QED
      BY <3>2, <3>3
  <2>5. ASSUME NEW s \in Requests, NEW t \in Requests \ {s}, got'[s] > 0, WindowOf(t)' = WindowOf(s)'
        PROVE  got'[t] # got'[s]
    <3>1. WindowOf(t) = WindowOf(s)
      BY <2>2, <2>5 DEF WindowOf
    <3>2. CASE s = r
      BY <2>1, <2>2, <2>3, <3>1, <3>2 DEF LimiterTypes
    <3>3. CASE t = r
      BY <2>1, <2>2, <2>3, <2>5, <3>1, <3>3 DEF LimiterTypes
    <3>4. CASE s # r /\ t # r
      BY <2>2, <2>5, <3>1, <3>4 DEF LimiterTypes, CountsDiffer
    <3>. QED
      BY <3>2, <3>3, <3>4
  <2>6. \A s \in Requests : WindowOf(s)' = WindowOf(s)
    BY <2>2 DEF WindowOf
  <2>. QED
    BY <2>4, <2>5, <2>6 DEF CountsDiffer
<1>4. ASSUME NEW r \in Requests, FailOpen(r) PROVE CountsDiffer'
  <2>1. WindowOf(r) \in Windows
    BY WindowOfType
  <2>2. \A w \in Windows : count[w] \in Nat /\ count'[w] \in Nat /\ count[w] <= count'[w]
    BY <1>4, <2>1 DEF FailOpen, Increment, redisVars, LimiterTypes
  <2>3. now' = now /\ clock' = clock /\ got' = got
    BY <1>4 DEF FailOpen
  <2>4. \A s \in Requests : WindowOf(s) \in Windows /\ got[s] \in Nat
    BY WindowOfType DEF LimiterTypes
  <2>. QED
    BY <2>2, <2>3, <2>4 DEF CountsDiffer, WindowOf, End, Start
<1>5. CASE UNCHANGED <<now, clock, got, count>>
  BY <1>5 DEF CountsDiffer, WindowOf, End, Start
<1>. QED
  BY <1>1, <1>2, <1>3, <1>4, <1>5
  DEF Next, Check, Expire, Compare, Die, vars, requestVars, redisVars

LEMMA AdmittedWithinLimitKept ==
    ASSUME LimiterTypes, OnTime, AdmittedWithinLimit, [Next]_vars
    PROVE  AdmittedWithinLimit'
<1>. USE WindowAssumption
<1>1. ASSUME NEW r \in Requests, Compare(r) PROVE AdmittedWithinLimit'
  BY <1>1 DEF Compare, Over, Goto, OnTime, LimiterTypes, AdmittedWithinLimit
<1>2. ASSUME NEW r \in Requests, ReadClock(r) PROVE AdmittedWithinLimit'
  BY <1>2 DEF ReadClock, Goto, LimiterTypes, AdmittedWithinLimit
<1>3. ASSUME NEW r \in Requests, Incr(r) PROVE AdmittedWithinLimit'
  BY <1>3 DEF Incr, Goto, LimiterTypes, AdmittedWithinLimit
<1>4. ASSUME NEW r \in Requests, Expire(r) PROVE AdmittedWithinLimit'
  BY <1>4 DEF Expire, Goto, LimiterTypes, AdmittedWithinLimit
<1>5. ASSUME NEW r \in Requests, FailOpen(r) PROVE AdmittedWithinLimit'
  BY <1>5 DEF FailOpen, Goto, LimiterTypes, AdmittedWithinLimit
<1>6. ASSUME NEW r \in Requests, Die(r) PROVE AdmittedWithinLimit'
  BY <1>6 DEF Die, Goto, LimiterTypes, AdmittedWithinLimit
<1>7. CASE UNCHANGED requestVars
  BY <1>7 DEF AdmittedWithinLimit, requestVars
<1>. QED
  BY <1>1, <1>2, <1>3, <1>4, <1>5, <1>6, <1>7 DEF Next, Check, Tick, vars

LEMMA PassedCostKept ==
    ASSUME LimiterTypes, PassedCost, [Next]_vars
    PROVE  PassedCost'
<1>1. IsFiniteSet(Passed) /\ Cardinality(Passed) \in Nat
  BY RequestsAssumption, FS_Subset, FS_CardinalityType DEF Passed
<1>2. ASSUME NEW r \in Requests, FailOpen(r) PROVE PassedCost'
  <2>1. Passed' = Passed \cup {r} /\ faults' = faults + 1
    BY <1>2 DEF FailOpen, Inject, Goto, LimiterTypes, Passed
  <2>2. Cardinality(Passed \cup {r}) \in {Cardinality(Passed), Cardinality(Passed) + 1}
    BY <1>1, FS_AddElement
  <2>. QED
    BY <1>1, <2>1, <2>2, FaultsAssumption DEF PassedCost, LimiterTypes
<1>3. CASE Passed' = Passed /\ faults' \in {faults, faults + 1}
  BY <1>1, <1>3, FaultsAssumption DEF PassedCost, LimiterTypes
<1>4. ASSUME NEW r \in Requests, ReadClock(r) \/ Incr(r) \/ Expire(r) \/ Compare(r) \/ Die(r)
      PROVE  Passed' = Passed /\ faults' \in {faults, faults + 1}
  BY <1>4 DEF ReadClock, Incr, Expire, Compare, Die, Inject, Goto, LimiterTypes, Passed
<1>5. CASE Tick \/ UNCHANGED vars
  BY <1>3, <1>5 DEF Tick, vars, requestVars, Passed
<1>. QED
  BY <1>2, <1>3, <1>4, <1>5 DEF Next, Check

LEMMA SpentFinite ==
    ASSUME NEW w
    PROVE  IsFiniteSet(Spent(w)) /\ Cardinality(Spent(w)) \in Nat /\ Cardinality(Spent(w)) <= Cardinality(Requests)
  BY RequestsAssumption, FS_Subset, FS_CardinalityType DEF Spent

\* A request that leaves "incr" is spent from then on.
LEMMA SpentGrows ==
    ASSUME LimiterTypes, NEW r \in Requests, pc[r] = "incr", clock' = clock,
           NEW l \in Labels \ {"new", "incr"}, Goto(r, l), NEW w
    PROVE  Cardinality(Spent(w)') = Cardinality(Spent(w)) + (IF WindowOf(r) = w THEN 1 ELSE 0)
<1>1. Spent(w)' = IF WindowOf(r) = w THEN Spent(w) \cup {r} ELSE Spent(w)
  BY DEF Spent, Goto, LimiterTypes, WindowOf
<1>2. r \notin Spent(w)
  BY DEF Spent
<1>3. IsFiniteSet(Spent(w)) /\ Cardinality(Spent(w)) \in Nat
  BY SpentFinite
<1>4. Cardinality(Spent(w) \cup {r}) = Cardinality(Spent(w)) + 1
  BY <1>2, <1>3, FS_AddElement
<1>. QED
  BY <1>1, <1>3, <1>4

LEMMA CountedOnceKept ==
    ASSUME LimiterTypes, CountedOnce, [Next]_vars
    PROVE  CountedOnce'
<1>1. CASE Tick
  <2>. SUFFICES ASSUME NEW w \in Windows PROVE count'[w] <= Cardinality(Spent(w)')
    BY DEF CountedOnce
  <2>1. Spent(w)' = Spent(w)
    BY <1>1 DEF Tick, requestVars, Spent, WindowOf
  <2>. QED
    BY <1>1, <2>1, SpentFinite DEF Tick, CountedOnce, LimiterTypes
<1>2. ASSUME NEW r \in Requests, Incr(r) \/ (FailOpen(r) /\ pc[r] = "incr") PROVE CountedOnce'
  <2>. SUFFICES ASSUME NEW w \in Windows PROVE count'[w] <= Cardinality(Spent(w)')
    BY DEF CountedOnce
  <2>1. PICK l \in Labels \ {"new", "incr"} : Goto(r, l) /\ pc[r] = "incr" /\ clock' = clock
    <3>1. CASE Incr(r)
      BY <3>1, Zenon DEF Incr, Labels
    <3>2. CASE FailOpen(r) /\ pc[r] = "incr"
      BY <3>2 DEF FailOpen, Labels
    <3>. QED
      BY <1>2, <3>1, <3>2
  <2>2. Cardinality(Spent(w)') = Cardinality(Spent(w)) + (IF WindowOf(r) = w THEN 1 ELSE 0)
    BY <2>1, SpentGrows
  <2>3. count[w] \in Nat /\ count'[w] \in {count[w], IF WindowOf(r) = w THEN count[w] + 1 ELSE count[w]}
    BY <1>2, <2>1, WindowOfType DEF Incr, FailOpen, Increment, redisVars, LimiterTypes
  <2>4. count[w] <= Cardinality(Spent(w)) /\ Cardinality(Spent(w)) \in Nat
    BY SpentFinite DEF CountedOnce
  <2>. QED
    BY <2>2, <2>3, <2>4
<1>3. ASSUME count' = count, \A w \in Windows : Spent(w)' = Spent(w) PROVE CountedOnce'
  BY <1>3 DEF CountedOnce
<1>4. ASSUME NEW r \in Requests,
             ReadClock(r) \/ Expire(r) \/ Compare(r) \/ ((Die(r) \/ FailOpen(r)) /\ pc[r] # "incr")
      PROVE  CountedOnce'
  <2>1. count' = count
    BY <1>4 DEF ReadClock, Expire, Compare, FailOpen, Die, redisVars
  <2>2. \A w \in Windows : Spent(w)' = Spent(w)
    BY <1>4 DEF ReadClock, Expire, Compare, FailOpen, Die, Goto, Spent, WindowOf, LimiterTypes
  <2>. QED
    BY <1>3, <2>1, <2>2
<1>5. ASSUME NEW r \in Requests, Die(r), pc[r] = "incr" PROVE CountedOnce'
  <2>. SUFFICES ASSUME NEW w \in Windows PROVE count'[w] <= Cardinality(Spent(w)')
    BY DEF CountedOnce
  <2>1. Cardinality(Spent(w)') = Cardinality(Spent(w)) + (IF WindowOf(r) = w THEN 1 ELSE 0)
    BY <1>5, SpentGrows DEF Die, Labels
  <2>. QED
    BY <1>5, <2>1, SpentFinite DEF Die, redisVars, CountedOnce, LimiterTypes
<1>6. CASE UNCHANGED vars
  BY <1>3, <1>6 DEF vars, requestVars, redisVars, Spent, WindowOf
<1>. QED
  BY <1>1, <1>2, <1>4, <1>5, <1>6 DEF Next, Check

\* What a request got is what its bucket counted, and no bucket counts more than there are.
LEMMA GotCountedKept ==
    ASSUME LimiterTypes, CountedOnce, GotCounted, [Next]_vars
    PROVE  GotCounted'
<1>1. ASSUME NEW r \in Requests, Incr(r) PROVE GotCounted'
  <2>1. WindowOf(r) \in Windows /\ WindowOf(r)' = WindowOf(r)
    BY <1>1, WindowOfType DEF Incr, WindowOf
  <2>2. count'[WindowOf(r)] <= Cardinality(Spent(WindowOf(r))')
    BY <2>1, CountedOnceKept DEF CountedOnce
  <2>3. count'[WindowOf(r)] \in Nat
    BY <2>1, TypesKept DEF LimiterTypes
  <2>4. IsFiniteSet(Spent(WindowOf(r))') /\ Cardinality(Spent(WindowOf(r))') \in Nat
        /\ Cardinality(Spent(WindowOf(r))') <= Cardinality(Requests)
    BY RequestsAssumption, FS_Subset, FS_CardinalityType DEF Spent
  <2>. QED
    BY <1>1, <2>2, <2>3, <2>4, RequestsAssumption, FS_CardinalityType DEF Incr, GotCounted, LimiterTypes
<1>2. CASE got' = got
  BY <1>2 DEF GotCounted
<1>. QED
  BY <1>1, <1>2 DEF Next, Check, Tick, ReadClock, Expire, Compare, FailOpen, Die, vars, requestVars

-----------------------------------------------------------------------------
(* Theorems on the limiter. *)

LEMMA LimiterInvHolds ==
    ASSUME MaxDelay <= Slack
    PROVE  Spec => []LimiterInv
<1>1. Init => LimiterInv
  <2>. SUFFICES ASSUME Init PROVE LimiterInv
    OBVIOUS
  <2>. USE DelayAssumption, FaultsAssumption, RequestsAssumption DEF Init
  <2>1. LimiterTypes
    BY DEF LimiterTypes, Labels, Times
  <2>2. OnTime /\ KeptLongEnough /\ CountsDiffer /\ AdmittedWithinLimit
    BY DEF OnTime, KeptLongEnough, CountsDiffer, AdmittedWithinLimit
  <2>3. Passed = {}
    BY DEF Passed
  <2>4. PassedCost
    BY <2>3, FS_EmptySet DEF PassedCost
  <2>5. CountedOnce /\ GotCounted
    BY SpentFinite, FS_CardinalityType DEF CountedOnce, GotCounted
  <2>. QED
    BY <2>1, <2>2, <2>4, <2>5 DEF LimiterInv
<1>2. LimiterInv /\ [Next]_vars => LimiterInv'
  BY TypesKept, OnTimeKept, KeptLongEnoughKept, CountsDifferKept, AdmittedWithinLimitKept,
     PassedCostKept, CountedOnceKept, GotCountedKept
  DEF LimiterInv
<1>. QED
  BY <1>1, <1>2, PTL DEF Spec

\* No window lets through more than the limit and one request per failure of Redis,
\* whatever the number of requests, the window and the delays within the slack.
THEOREM WindowLimitHolds ==
    ASSUME MaxDelay <= Slack
    PROVE  Spec => []WindowLimit
<1>1. LimiterInv => WindowLimit
  <2>. SUFFICES ASSUME LimiterInv, NEW w \in Windows
                PROVE  Cardinality(LetThrough(w)) <= Limit + faults
    BY DEF WindowLimit
  <2>. DEFINE Admitted == {r \in Requests : pc[r] = "admitted" /\ WindowOf(r) = w}
              answer   == [r \in Admitted |-> got[r]]
  <2>1. answer \in Injection(Admitted, 1..Limit)
    BY WindowAssumption
    DEF LimiterInv, LimiterTypes, AdmittedWithinLimit, CountsDiffer, Injection, IsInjective
  <2>2. IsFiniteSet(1..Limit) /\ Cardinality(1..Limit) = Limit
    BY WindowAssumption, FS_Interval
  <2>3. IsFiniteSet(Admitted) /\ Cardinality(Admitted) <= Limit
    BY <2>1, <2>2, FS_Injection
  <2>4. IsFiniteSet(Passed) /\ Cardinality(Passed) <= faults
    BY RequestsAssumption, FS_Subset DEF Passed, LimiterInv, PassedCost
  <2>5. IsFiniteSet(Admitted \cup Passed) /\ Cardinality(Admitted \cup Passed) <= Limit + faults
    <3>1. /\ IsFiniteSet(Admitted \cup Passed)
          /\ Cardinality(Admitted \cup Passed)
                = Cardinality(Admitted) + Cardinality(Passed) - Cardinality(Admitted \cap Passed)
      BY <2>3, <2>4, FS_Union
    <3>2. /\ Cardinality(Admitted) \in Nat /\ Cardinality(Passed) \in Nat
          /\ Cardinality(Admitted \cap Passed) \in Nat
      BY <2>3, <2>4, FS_CardinalityType, FS_Intersection
    <3>. QED
      BY <2>3, <2>4, <3>1, <3>2, WindowAssumption, FaultsAssumption DEF LimiterInv, LimiterTypes
  <2>6. LetThrough(w) \in SUBSET (Admitted \cup Passed)
    BY DEF LetThrough, Passed
  <2>7. /\ Cardinality(LetThrough(w)) \in Nat /\ Cardinality(Admitted \cup Passed) \in Nat
        /\ Cardinality(LetThrough(w)) <= Cardinality(Admitted \cup Passed)
    BY <2>5, <2>6, FS_Subset, FS_CardinalityType
  <2>. QED
    BY <2>5, <2>7, WindowAssumption, FaultsAssumption DEF LimiterInv, LimiterTypes
<1>. QED
  BY <1>1, LimiterInvHolds, PTL

\* Type correctness of the limiter: no counter exceeds the number of requests.
THEOREM LimiterTypeCorrect ==
    ASSUME MaxDelay <= Slack
    PROVE  Spec => []TypeOK
<1>1. LimiterInv => TypeOK
  <2>. SUFFICES ASSUME LimiterInv PROVE TypeOK
    OBVIOUS
  <2>1. Cardinality(Requests) \in Nat
    BY RequestsAssumption, FS_CardinalityType
  <2>2. \A w \in Windows : count[w] \in 0..Cardinality(Requests)
    BY <2>1, SpentFinite DEF LimiterInv, LimiterTypes, CountedOnce
  <2>3. \A r \in Requests : got[r] \in 0..Cardinality(Requests)
    BY <2>1 DEF LimiterInv, LimiterTypes, GotCounted
  <2>. QED
    BY <2>2, <2>3 DEF LimiterInv, LimiterTypes, TypeOK
<1>. QED
  BY <1>1, LimiterInvHolds, PTL

\* While nothing has failed, a bucket without an expiry has a request under way that
\* will set it, however the commands of the requests interleave.
THEOREM NoImmortalBucketHolds ==
    Spec => []NoImmortalBucket
<1>. DEFINE I == LimiterTypes /\ NoImmortalBucket
<1>1. Init => I
  BY DelayAssumption, FaultsAssumption DEF Init, LimiterTypes, Labels, Times, NoImmortalBucket
<1>2. I /\ [Next]_vars => NoImmortalBucket'
  <2>. SUFFICES ASSUME I, [Next]_vars PROVE NoImmortalBucket'
    OBVIOUS
  <2>. USE WindowAssumption
  <2>1. CASE Tick
    BY <2>1 DEF Tick, requestVars, NoImmortalBucket, WindowOf
  <2>2. ASSUME NEW r \in Requests, ReadClock(r) PROVE NoImmortalBucket'
    BY <2>2 DEF ReadClock, Goto, redisVars, NoImmortalBucket, WindowOf, LimiterTypes
  <2>3. ASSUME NEW r \in Requests, Incr(r) PROVE NoImmortalBucket'
    BY <2>3, WindowOfType DEF Incr, Increment, Goto, NoImmortalBucket, WindowOf, LimiterTypes
  <2>4. ASSUME NEW r \in Requests, Expire(r) PROVE NoImmortalBucket'
    BY <2>4, WindowOfType DEF Expire, Life, Goto, NoImmortalBucket, WindowOf, LimiterTypes
  <2>5. ASSUME NEW r \in Requests, Compare(r) PROVE NoImmortalBucket'
    BY <2>5 DEF Compare, Goto, redisVars, NoImmortalBucket, WindowOf, LimiterTypes
  <2>6. ASSUME NEW r \in Requests, FailOpen(r) \/ Die(r) PROVE NoImmortalBucket'
    <3>1. faults' # 0
      BY <2>6, FaultsAssumption DEF FailOpen, Die, Inject, LimiterTypes
    <3>. QED
      BY <3>1 DEF NoImmortalBucket
  <2>7. CASE UNCHANGED vars
    BY <2>7 DEF vars, requestVars, redisVars, NoImmortalBucket, WindowOf
  <2>. QED
    BY <2>1, <2>2, <2>3, <2>4, <2>5, <2>6, <2>7 DEF Next, Check
<1>3. I /\ [Next]_vars => LimiterTypes'
  BY TypesKept
<1>. QED
  BY <1>1, <1>2, <1>3, PTL DEF Spec

-----------------------------------------------------------------------------
(* Access. *)

\* The credential a request has arrived with.
CredentialOf(r) == IF r \in Exchanges THEN client[r] ELSE bearer[r].cred

\* Whoever arrived late came with a revoked credential, and has got no further than the
\* lookup.
LateAreHeld ==
    \A r \in late :
        /\ where[r] \in {"lookup", "denied"}
        /\ CredentialOf(r) \in Credentials
        /\ creds[CredentialOf(r)] = "revoked"

AccessInv == Entry!TypeOK /\ LateAreHeld

LEMMA AccessTypesKept ==
    ASSUME Entry!TypeOK, [Entry!Next]_(Entry!vars)
    PROVE  Entry!TypeOK'
<1>. USE EntryAssumption
     DEF Entry!TimeAssumption, Entry!ActorsAssumption, Entry!TypeOK, Entry!Actors, Entry!Labels
<1>1. CASE Entry!Tick
  BY <1>1 DEF Entry!Tick, Entry!Tokens, Entry!NoToken
<1>2. ASSUME NEW c \in Credentials, Entry!CreateCredential(c) \/ Entry!RevokeCredential(c)
      PROVE  Entry!TypeOK'
  BY <1>2 DEF Entry!CreateCredential, Entry!RevokeCredential, Entry!Tokens, Entry!NoToken
<1>3. ASSUME NEW e \in Exchanges, Entry!StartExchange(e) PROVE Entry!TypeOK'
  BY <1>3 DEF Entry!StartExchange, Entry!Arrive, Entry!Goto, Entry!Tokens, Entry!NoToken
<1>4. ASSUME NEW e \in Exchanges, Entry!LookupClient(e) \/ Entry!Stamp(e) PROVE Entry!TypeOK'
  BY <1>4 DEF Entry!LookupClient, Entry!Stamp, Entry!Goto, Entry!Tokens, Entry!NoToken
<1>5. ASSUME NEW e \in Exchanges, Entry!SignToken(e) PROVE Entry!TypeOK'
  <2>1. [cred |-> client[e], exp |-> now + TTL] \in Entry!Tokens
    BY DEF Entry!Tokens
  <2>. QED
    BY <1>5, <2>1 DEF Entry!SignToken, Entry!Goto
<1>6. ASSUME NEW q \in Requests, Entry!DecodeToken(q) PROVE Entry!TypeOK'
  BY <1>6 DEF Entry!DecodeToken, Entry!Arrive, Entry!Goto
<1>7. ASSUME NEW q \in Requests, Entry!CheckCredential(q) \/ Entry!Answer(q) PROVE Entry!TypeOK'
  BY <1>7 DEF Entry!CheckCredential, Entry!Answer, Entry!Goto
<1>8. CASE UNCHANGED Entry!vars
  BY <1>8 DEF Entry!vars, Entry!Tokens, Entry!NoToken
<1>. QED
  BY <1>1, <1>2, <1>3, <1>4, <1>5, <1>6, <1>7, <1>8 DEF Entry!Next, Entry!Exchange, Entry!Call

LEMMA LateAreHeldKept ==
    ASSUME Entry!TypeOK, LateAreHeld, [Entry!Next]_(Entry!vars)
    PROVE  LateAreHeld'
<1>. USE EntryAssumption
     DEF Entry!ActorsAssumption, Entry!TypeOK, Entry!Actors, LateAreHeld, CredentialOf
<1>1. ASSUME NEW c \in Credentials, Entry!CreateCredential(c) \/ Entry!RevokeCredential(c)
      PROVE  LateAreHeld'
  BY <1>1 DEF Entry!CreateCredential, Entry!RevokeCredential
<1>2. ASSUME NEW e \in Exchanges, Entry!StartExchange(e) PROVE LateAreHeld'
  BY <1>2 DEF Entry!StartExchange, Entry!Arrive, Entry!Goto
<1>3. ASSUME NEW e \in Exchanges, Entry!LookupClient(e) PROVE LateAreHeld'
  BY <1>3 DEF Entry!LookupClient, Entry!Goto
<1>4. ASSUME NEW e \in Exchanges, Entry!Stamp(e) \/ Entry!SignToken(e) PROVE LateAreHeld'
  BY <1>4 DEF Entry!Stamp, Entry!SignToken, Entry!Goto
<1>5. ASSUME NEW q \in Requests, Entry!DecodeToken(q) PROVE LateAreHeld'
  BY <1>5 DEF Entry!DecodeToken, Entry!Arrive, Entry!Goto, Entry!Tokens
<1>6. ASSUME NEW q \in Requests, Entry!CheckCredential(q) PROVE LateAreHeld'
  BY <1>6 DEF Entry!CheckCredential, Entry!Goto
<1>7. ASSUME NEW q \in Requests, Entry!Answer(q) PROVE LateAreHeld'
  BY <1>7 DEF Entry!Answer, Entry!Goto
<1>8. CASE Entry!Tick \/ UNCHANGED Entry!vars
  BY <1>8 DEF Entry!Tick, Entry!vars
<1>. QED
  BY <1>1, <1>2, <1>3, <1>4, <1>5, <1>6, <1>7, <1>8 DEF Entry!Next, Entry!Exchange, Entry!Call

\* Type correctness, and that latecomers are held at the lookup.
LEMMA AccessInvHolds == Entry!Spec => []AccessInv
<1>1. Entry!Init => AccessInv
  BY EntryAssumption
  DEF Entry!Init, AccessInv, LateAreHeld, Entry!TimeAssumption, Entry!TypeOK, Entry!Actors, Entry!Labels
<1>2. AccessInv /\ [Entry!Next]_(Entry!vars) => AccessInv'
  BY AccessTypesKept, LateAreHeldKept DEF AccessInv
<1>. QED
  BY <1>1, <1>2, PTL DEF Entry!Spec

\* "Immediate revocation": whoever arrives after the revocation was committed is refused,
\* whatever tokens exist and whatever was read before.
THEOREM RevocationIsImmediateHolds == Entry!Spec => []RevocationIsImmediate
<1>1. AccessInv => RevocationIsImmediate
  BY DEF AccessInv, LateAreHeld, RevocationIsImmediate, Entry!RevocationIsImmediate
<1>. QED
  BY <1>1, AccessInvHolds, PTL

\* Nothing brings a revoked credential back, in particular no exchange that read it
\* before the revocation and writes its row afterwards.
THEOREM RevokedForGoodHolds == Entry!Spec => Entry!RevokedForGood
<1>1. AccessInv /\ [Entry!Next]_(Entry!vars)
          => [\A c \in Credentials : creds[c] = "revoked" => creds'[c] = "revoked"]_(Entry!vars)
  BY DEF AccessInv, Entry!TypeOK, Entry!Next, Entry!Tick, Entry!CreateCredential, Entry!RevokeCredential,
         Entry!Exchange, Entry!StartExchange, Entry!LookupClient, Entry!Stamp, Entry!SignToken,
         Entry!Call, Entry!DecodeToken, Entry!CheckCredential, Entry!Answer, Entry!vars
<1>. QED
  BY <1>1, AccessInvHolds, PTL DEF Entry!Spec, Entry!RevokedForGood

-----------------------------------------------------------------------------
(* The two composed. *)

\* The gate is a credential check and a limiter: it adds no step of its own to either.
THEOREM GateImplementsParts == GateSpec => Entry!Spec /\ Spec
<1>1. GateInit => Entry!Init /\ Init
  BY DEF GateInit
<1>2. [GateNext]_gateVars => [Entry!Next]_(Entry!vars)
  <2>1. ASSUME NEW q \in Requests, Authenticate(q) \/ Handle(q) PROVE Entry!Next
    BY <2>1 DEF Authenticate, Handle, Entry!Next, Entry!Call
  <2>2. ASSUME NEW q \in Requests, CheckRate(q) PROVE UNCHANGED Entry!vars
    BY <2>2 DEF CheckRate, accessVars, Entry!vars
  <2>3. CASE GateTick
    BY <2>3 DEF GateTick, Entry!Next
  <2>4. CASE Operate
    BY <2>4 DEF Operate, Entry!Next
  <2>5. ASSUME NEW e \in Exchanges, Entry!Exchange(e) PROVE Entry!Next
    BY <2>5 DEF Entry!Next
  <2>6. CASE UNCHANGED gateVars
    BY <2>6 DEF gateVars, accessVars, Entry!vars
  <2>. QED
    BY <2>1, <2>2, <2>3, <2>4, <2>5, <2>6 DEF GateNext
<1>3. [GateNext]_gateVars => [Next]_vars
  <2>1. ASSUME UNCHANGED limiterVars, now' = now PROVE UNCHANGED vars
    BY <2>1 DEF limiterVars, vars
  <2>2. ASSUME NEW q \in Requests, Authenticate(q) \/ Handle(q) PROVE now' = now
    BY <2>2 DEF Authenticate, Handle, Entry!DecodeToken, Entry!CheckCredential, Entry!Answer
  <2>3. ASSUME NEW q \in Requests, CheckRate(q) PROVE Next
    BY <2>3 DEF CheckRate, Next
  <2>4. CASE GateTick
    BY <2>4 DEF GateTick, Next
  <2>5. Operate => now' = now
    BY DEF Operate, Entry!CreateCredential, Entry!RevokeCredential
  <2>6. ASSUME NEW e \in Exchanges, Entry!Exchange(e) PROVE now' = now
    BY <2>6 DEF Entry!Exchange, Entry!StartExchange, Entry!LookupClient, Entry!Stamp, Entry!SignToken
  <2>7. CASE UNCHANGED gateVars
    BY <2>7 DEF gateVars, limiterVars, vars
  <2>. QED
    BY <2>1, <2>2, <2>3, <2>4, <2>5, <2>6, <2>7 DEF GateNext
<1>. QED
  BY <1>1, <1>2, <1>3, PTL DEF GateSpec, Entry!Spec, Spec

\* The quota is touched only for a call whose credential was accepted, and only what
\* the limiter let through is answered.
InOrder ==
    \A q \in Requests :
        /\ pc[q] # "new" => where[q] \in {"running", "done"}
        /\ where[q] = "done" => pc[q] \in {"admitted", "passed"}

LEMMA InOrderKept ==
    ASSUME Entry!TypeOK, LimiterTypes, InOrder, [GateNext]_gateVars
    PROVE  InOrder'
<1>. USE EntryAssumption DEF Entry!ActorsAssumption, Entry!TypeOK, Entry!Actors, InOrder
<1>1. CASE GateTick
  BY <1>1 DEF GateTick, Entry!Tick, Tick, requestVars
<1>2. CASE Operate /\ UNCHANGED limiterVars
  BY <1>2 DEF Operate, Entry!CreateCredential, Entry!RevokeCredential, limiterVars, requestVars
<1>3. ASSUME NEW e \in Exchanges, Entry!Exchange(e), UNCHANGED limiterVars PROVE InOrder'
  <2>1. pc' = pc
    BY <1>3 DEF limiterVars, requestVars
  <2>2. \A q \in Requests : where'[q] = where[q]
    BY <1>3 DEF Entry!Exchange, Entry!StartExchange, Entry!LookupClient, Entry!Stamp, Entry!SignToken,
                Entry!Goto
  <2>. QED
    BY <2>1, <2>2
<1>4. ASSUME NEW q \in Requests, Authenticate(q) \/ Handle(q), UNCHANGED limiterVars PROVE InOrder'
  BY <1>4 DEF Authenticate, Handle, Entry!DecodeToken, Entry!CheckCredential, Entry!Answer, Entry!Goto,
              limiterVars, requestVars
<1>5. ASSUME NEW q \in Requests, CheckRate(q) PROVE InOrder'
  <2>1. where' = where /\ where[q] = "running"
    BY <1>5 DEF CheckRate, accessVars
  <2>2. \A p \in Requests \ {q} : pc'[p] = pc[p]
    BY <1>5 DEF CheckRate, Check, ReadClock, Incr, Expire, Compare, FailOpen, Die, Goto, LimiterTypes
  <2>. QED
    BY <2>1, <2>2
<1>6. CASE UNCHANGED gateVars
  BY <1>6 DEF gateVars, accessVars, limiterVars, requestVars
<1>. QED
  BY <1>1, <1>2, <1>3, <1>4, <1>5, <1>6 DEF GateNext

\* The quota is the tenant's: no window lets it have more answers than its limit and one
\* per failure of Redis, however many credentials it calls with; and who arrives after a
\* revocation takes nothing from it.
THEOREM QuotaIsTheTenantsHolds ==
    ASSUME MaxDelay <= Slack
    PROVE  GateSpec => []QuotaIsTheTenants
<1>. DEFINE I == AccessInv /\ LimiterInv /\ WindowLimit
<1>1. GateSpec => []I
  BY GateImplementsParts, AccessInvHolds, LimiterInvHolds, WindowLimitHolds, PTL
<1>2. GateInit => InOrder
  BY EntryAssumption
  DEF GateInit, Init, Entry!Init, InOrder, Entry!ActorsAssumption, Entry!Actors
<1>3. I /\ InOrder /\ [GateNext]_gateVars => InOrder'
  BY InOrderKept DEF AccessInv, LimiterInv
<1>4. I /\ InOrder => QuotaIsTheTenants
  <2>. SUFFICES ASSUME I, InOrder PROVE QuotaIsTheTenants
    OBVIOUS
  <2>1. ASSUME NEW w \in Windows
        PROVE  Cardinality({q \in Requests : where[q] = "done" /\ WindowOf(q) = w}) <= Limit + faults
    <3>. DEFINE Answered == {q \in Requests : where[q] = "done" /\ WindowOf(q) = w}
    <3>1. Answered \in SUBSET LetThrough(w)
      BY DEF InOrder, LetThrough
    <3>2. IsFiniteSet(LetThrough(w)) /\ IsFiniteSet(Answered)
      BY <3>1, RequestsAssumption, FS_Subset DEF LetThrough
    <3>3. /\ Cardinality(LetThrough(w)) \in Nat /\ Cardinality(Answered) \in Nat
          /\ Cardinality(Answered) <= Cardinality(LetThrough(w))
      BY <3>1, <3>2, FS_Subset, FS_CardinalityType
    <3>4. Cardinality(LetThrough(w)) <= Limit + faults
      BY DEF WindowLimit
    <3>. QED
      BY <3>3, <3>4, WindowAssumption, FaultsAssumption DEF LimiterInv, LimiterTypes
  <2>2. \A q \in late \cap Requests : pc[q] = "new"
    BY DEF InOrder, AccessInv, LateAreHeld
  <2>. QED
    BY <2>1, <2>2 DEF QuotaIsTheTenants
<1>. QED
  BY <1>1, <1>2, <1>3, <1>4, PTL DEF GateSpec
=============================================================================
