---------------------------- MODULE UploadsProofs ----------------------------
(***************************************************************************)
(* What holds of the admission of uploads for any number of requests,      *)
(* tenants and contents, of any size, and every quota.                     *)
(*                                                                         *)
(* The stored bytes are a sum over a set of rows.  What is needed of sums  *)
(* is proved by induction on finite sets: of the sets that violate a       *)
(* statement take one without a smaller one among them.                    *)
(***************************************************************************)
EXTENDS Uploads, FiniteSetTheorems, WellFoundedInduction, TLAPS

-----------------------------------------------------------------------------
(* Induction. *)

\* A nonempty set of subsets of a finite set has a member without a proper subset in it.
LEMMA SmallestSubset ==
    ASSUME NEW S, IsFiniteSet(S), NEW C \in SUBSET (SUBSET S), C # {}
    PROVE  \E T \in C : \A U \in C : U \subseteq T => U = T
<1>1. IsWellFoundedOn(StrictSubsetOrdering(S), SUBSET S)
  BY FS_StrictSubsetOrderingWellFounded, FS_FiniteSubsetsOfFinite
<1>2. \E T \in C : \A U \in C : ~ (<<U, T>> \in StrictSubsetOrdering(S))
  BY <1>1, WFMin
<1>. QED
  BY <1>2 DEF StrictSubsetOrdering

\* A nonempty set of natural numbers has a least element.
LEMMA LeastNumber ==
    ASSUME NEW A \in SUBSET Nat, A # {}
    PROVE  \E m \in A : \A k \in A : m <= k
<1>1. PICK n \in A : TRUE
  OBVIOUS
<1>. DEFINE S == 0..n
            C == {0..k : k \in A \cap S}
<1>2. IsFiniteSet(S)
  BY FS_Interval
<1>3. C \in SUBSET (SUBSET S) /\ S \in C
  OBVIOUS
<1>4. PICK T \in C : \A U \in C : U \subseteq T => U = T
  <2>1. C # {}
    BY <1>3
  <2>. HIDE DEF S, C
  <2>. QED
    BY <1>2, <1>3, <2>1, SmallestSubset
<1>5. PICK m \in A : m <= n /\ T = 0..m
  OBVIOUS
<1>6. ASSUME NEW k \in A, k < m
      PROVE  FALSE
  <2>1. 0..k \in C /\ 0..k \subseteq T
    BY <1>5, <1>6
  <2>2. 0..k = 0..m
    BY <2>1, <1>4, <1>5
  <2>. QED
    BY <2>2, <1>6
<1>. QED
  BY <1>6

-----------------------------------------------------------------------------
(* Sums. *)

\* The bytes of a set of rows: Used(t) is the sum of what is stored of t.
Total(S) == MapThenSumSet(LAMBDA row : Size[row.content], S)

\* The recursive function that MapThenSumSet evaluates, and the equation that defines it.
Step(g, s) ==
    IF s = {} THEN 0
    ELSE Size[(CHOOSE row \in s : TRUE).content] + g[s \ {CHOOSE row \in s : TRUE}]
Sums(S)    == CHOOSE g : g = [s \in SUBSET S |-> Step(g, s)]

LEMMA TotalIsSums ==
    \A S : Total(S) = Sums(S)[S]
BY DEF Total, MapThenSumSet, MapThenFoldSet, Sums, Step

\* The equation has a solution.
LEMMA SumsExist ==
    ASSUME NEW S, IsFiniteSet(S)
    PROVE  \E g : g = [s \in SUBSET S |-> Step(g, s)]
<1>. DEFINE D(n)   == {s \in SUBSET S : Cardinality(s) <= n}
            Sol(n) == \E g : g = [s \in D(n) |-> Step(g, s)]
            Bad    == {n \in Nat : ~ Sol(n)}
<1>1. \A s \in SUBSET S : IsFiniteSet(s) /\ Cardinality(s) \in Nat
  BY FS_Subset, FS_CardinalityType
<1>2. Sol(0)
  <2>1. \A s \in D(0) : s = {}
    BY <1>1, FS_EmptySet
  <2>2. [s \in D(0) |-> 0] = [s \in D(0) |-> Step([u \in D(0) |-> 0], s)]
    BY <2>1 DEF Step
  <2>. QED
    BY <2>2
<1>3. ASSUME NEW n \in Nat, Sol(n)
      PROVE  Sol(n + 1)
  <2>1. PICK g : g = [s \in D(n) |-> Step(g, s)]
    BY <1>3
  <2>. DEFINE h == [s \in D(n + 1) |-> Step(g, s)]
  <2>2. \A s \in D(n) : s \in D(n + 1) /\ h[s] = g[s]
    BY <2>1, <1>1
  <2>3. ASSUME NEW s \in D(n + 1), s # {}
        PROVE  s \ {CHOOSE row \in s : TRUE} \in D(n)
    <3>1. (CHOOSE row \in s : TRUE) \in s
      BY <2>3
    <3>2. Cardinality(s \ {CHOOSE row \in s : TRUE}) = Cardinality(s) - 1
      BY <3>1, <1>1, FS_RemoveElement
    <3>. QED
      BY <3>2, <1>1
  <2>4. ASSUME NEW s \in D(n + 1)
        PROVE  Step(g, s) = Step(h, s)
    <3>1. CASE s = {}
      BY <3>1 DEF Step
    <3>2. CASE s # {}
      <4>1. h[s \ {CHOOSE row \in s : TRUE}] = g[s \ {CHOOSE row \in s : TRUE}]
        BY <3>2, <2>2, <2>3
      <4>. HIDE DEF h
      <4>. QED
        BY <4>1, <3>2 DEF Step
    <3>. QED
      BY <3>1, <3>2
  <2>5. h = [s \in D(n + 1) |-> Step(h, s)]
    BY <2>4
  <2>. QED
    BY <2>5
<1>4. Bad = {}
  <2>1. SUFFICES ASSUME Bad # {}
                 PROVE  FALSE
    OBVIOUS
  <2>2. PICK m \in Bad : \A k \in Bad : m <= k
    BY <2>1, LeastNumber
  <2>3. m # 0 /\ m - 1 \in Nat
    <3>1. m \in Nat /\ ~ Sol(m)
      OBVIOUS
    <3>. HIDE DEF Sol, Bad
    <3>. QED
      BY <1>2, <3>1
  <2>4. Sol(m - 1)
    <3>1. m - 1 \notin Bad
      <4>1. m \in Nat /\ ~ (m <= m - 1)
        OBVIOUS
      <4>. HIDE DEF Bad
      <4>. QED
        BY <4>1, <2>2
    <3>. QED
      BY <3>1, <2>3
  <2>5. Sol((m - 1) + 1)
    BY <1>3, <2>3, <2>4
  <2>6. (m - 1) + 1 = m
    BY <2>2
  <2>7. Sol(m)
    BY <2>5, <2>6
  <2>. QED
    BY <2>7
<1>5. Sol(Cardinality(S)) 
  <2>1. Cardinality(S) \in Nat
    BY FS_CardinalityType
  <2>. QED
    BY <2>1, <1>4
<1>6. D(Cardinality(S)) = SUBSET S
  BY FS_Subset
<1>. QED
  BY <1>5, <1>6

LEMMA SumsDef ==
    ASSUME NEW S, IsFiniteSet(S)
    PROVE  Sums(S) = [s \in SUBSET S |-> Step(Sums(S), s)]
BY SumsExist DEF Sums

\* Which superset it is computed in makes no difference.
LEMMA SumsAgree ==
    ASSUME NEW S, IsFiniteSet(S), NEW T \in SUBSET S
    PROVE  Sums(S)[T] = Sums(T)[T]
<1>. DEFINE C == {U \in SUBSET T : Sums(S)[U] # Sums(T)[U]}
<1>1. IsFiniteSet(T)
  BY FS_Subset
<1>2. ASSUME C # {}
      PROVE  FALSE
  <2>1. PICK U \in C : \A W \in C : W \subseteq U => W = U
    <3>1. C \in SUBSET (SUBSET T)
      OBVIOUS
    <3>. HIDE DEF C
    <3>. QED
      BY <1>1, <1>2, <3>1, SmallestSubset
  <2>2. U # {}
    <3>1. {} \in SUBSET S /\ {} \in SUBSET T
      OBVIOUS
    <3>2. Sums(S)[{}] = Step(Sums(S), {}) /\ Sums(T)[{}] = Step(Sums(T), {})
      BY <1>1, <3>1, SumsDef
    <3>. QED
      BY <2>1, <3>2 DEF Step
  <2>. DEFINE c == CHOOSE row \in U : TRUE
  <2>3. c \in U
    BY <2>2
  <2>4. Sums(S)[U \ {c}] = Sums(T)[U \ {c}]
    BY <2>1, <2>3
  <2>5. Sums(S)[U] = Step(Sums(S), U) /\ Sums(T)[U] = Step(Sums(T), U)
    BY <1>1, SumsDef
  <2>. QED
    BY <2>1, <2>4, <2>5 DEF Step
<1>. QED
  BY <1>2

LEMMA TotalUnfolds ==
    ASSUME NEW S, IsFiniteSet(S)
    PROVE  Total(S) = IF S = {} THEN 0
                      ELSE Size[(CHOOSE row \in S : TRUE).content]
                               + Total(S \ {CHOOSE row \in S : TRUE})
<1>1. Total(S) = Step(Sums(S), S)
  BY TotalIsSums, SumsDef
<1>2. \A T \in SUBSET S : Sums(S)[T] = Total(T)
  BY TotalIsSums, SumsAgree
<1>. QED
  BY <1>1, <1>2 DEF Step

LEMMA TotalEmpty ==
    Total({}) = 0
BY FS_EmptySet, TotalUnfolds

\* Sizes add up to a natural number.
LEMMA TotalType ==
    ASSUME NEW S \in SUBSET Rows, IsFiniteSet(S)
    PROVE  Total(S) \in Nat
<1>. DEFINE C == {T \in SUBSET S : Total(T) \notin Nat}
<1>1. ASSUME C # {}
      PROVE  FALSE
  <2>1. PICK T \in C : \A U \in C : U \subseteq T => U = T
    <3>1. C \in SUBSET (SUBSET S)
      OBVIOUS
    <3>. HIDE DEF C
    <3>. QED
      BY <1>1, <3>1, SmallestSubset
  <2>2. IsFiniteSet(T)
    BY FS_Subset
  <2>3. T # {}
    <3>1. Total(T) \notin Nat
      OBVIOUS
    <3>. QED
      BY <3>1, TotalEmpty
  <2>. DEFINE c == CHOOSE row \in T : TRUE
  <2>4. c \in T
    BY <2>3
  <2>5. Total(T \ {c}) \in Nat
    BY <2>1, <2>4
  <2>6. Size[c.content] \in Nat
    BY <2>4, SizeAssumption DEF Rows
  <2>7. Total(T) = Size[c.content] + Total(T \ {c})
    BY <2>2, <2>3, TotalUnfolds
  <2>8. Total(T) \in Nat
    BY <2>5, <2>6, <2>7
  <2>. QED
    BY <2>8
<1>. QED
  BY <1>1

\* The order in which the rows are added makes no difference.
LEMMA TotalSplits ==
    ASSUME NEW S \in SUBSET Rows, IsFiniteSet(S), NEW x \in S
    PROVE  Total(S) = Size[x.content] + Total(S \ {x})
<1>. DEFINE C == {T \in SUBSET S : \E y \in T : Total(T) # Size[y.content] + Total(T \ {y})}
<1>1. ASSUME C # {}
      PROVE  FALSE
  <2>1. PICK T \in C : \A U \in C : U \subseteq T => U = T
    <3>1. C \in SUBSET (SUBSET S)
      OBVIOUS
    <3>. HIDE DEF C
    <3>. QED
      BY <1>1, <3>1, SmallestSubset
  <2>2. IsFiniteSet(T)
    BY FS_Subset
  <2>3. PICK y \in T : Total(T) # Size[y.content] + Total(T \ {y})
    OBVIOUS
  <2>. DEFINE c == CHOOSE row \in T : TRUE
  <2>4. c \in T
    BY <2>3
  <2>5. Total(T) = Size[c.content] + Total(T \ {c})
    BY <2>2, <2>3, TotalUnfolds
  <2>6. c # y
    BY <2>3, <2>5
  <2>7. T \ {c} \notin C /\ T \ {y} \notin C
    BY <2>1, <2>4
  <2>8. Total(T \ {c}) = Size[y.content] + Total((T \ {c}) \ {y})
    BY <2>6, <2>7
  <2>9. Total(T \ {y}) = Size[c.content] + Total((T \ {y}) \ {c})
    BY <2>4, <2>6, <2>7
  <2>10. (T \ {c}) \ {y} = (T \ {y}) \ {c}
    OBVIOUS
  <2>11. Size[c.content] \in Nat /\ Size[y.content] \in Nat
    BY <2>4, SizeAssumption DEF Rows
  <2>12. IsFiniteSet((T \ {y}) \ {c}) /\ (T \ {y}) \ {c} \in SUBSET Rows
    BY <2>2, FS_Subset
  <2>13. Total((T \ {y}) \ {c}) \in Nat
    BY <2>12, TotalType
  <2>. HIDE DEF c, C
  <2>14. Total(T) = Size[c.content] + (Size[y.content] + Total((T \ {y}) \ {c}))
    BY <2>5, <2>8, <2>10
  <2>15. Total(T) = Size[y.content] + (Size[c.content] + Total((T \ {y}) \ {c}))
    BY <2>11, <2>13, <2>14
  <2>. QED
    BY <2>3, <2>9, <2>15
<1>2. S \notin C
  BY <1>1
<1>. QED
  BY <1>2

\* A further row adds its size.
LEMMA TotalAdds ==
    ASSUME NEW S \in SUBSET Rows, IsFiniteSet(S), NEW x \in Rows, x \notin S
    PROVE  Total(S \cup {x}) = Size[x.content] + Total(S)
<1>1. IsFiniteSet(S \cup {x}) /\ (S \cup {x}) \ {x} = S
  BY FS_AddElement
<1>. QED
  BY <1>1, TotalSplits

\* Further rows never subtract.
LEMMA TotalMonotone ==
    ASSUME NEW S \in SUBSET Rows, IsFiniteSet(S), NEW T \in SUBSET S
    PROVE  Total(T) <= Total(S)
<1>. DEFINE C == {U \in SUBSET (S \ T) : ~ (Total(T) <= Total(T \cup U))}
<1>0. IsFiniteSet(T) /\ Total(T) \in Nat
  BY FS_Subset, TotalType
<1>1. ASSUME C # {}
      PROVE  FALSE
  <2>1. PICK U \in C : \A W \in C : W \subseteq U => W = U
    <3>1. C \in SUBSET (SUBSET (S \ T)) /\ IsFiniteSet(S \ T)
      BY FS_Subset
    <3>. HIDE DEF C
    <3>. QED
      BY <1>1, <3>1, SmallestSubset
  <2>2. U # {}
    <3>1. T \cup {} = T
      OBVIOUS
    <3>2. ~ (Total(T) <= Total(T \cup U))
      OBVIOUS
    <3>. QED
      BY <1>0, <3>1, <3>2
  <2>3. PICK x \in U : TRUE
    BY <2>2
  <2>. DEFINE V == T \cup (U \ {x})
  <2>4. Total(T) <= Total(V)
    <3>1. U \ {x} \in SUBSET (S \ T) /\ U \ {x} \subseteq U /\ U \ {x} # U
      OBVIOUS
    <3>2. U \ {x} \notin C
      <4>. HIDE DEF C
      <4>. QED
        BY <2>1, <3>1
    <3>. QED
      BY <3>1, <3>2
  <2>5. V \in SUBSET Rows /\ IsFiniteSet(V) /\ Total(V) \in Nat
    BY FS_Subset, TotalType
  <2>6. T \cup U = V \cup {x} /\ x \notin V /\ x \in Rows
    OBVIOUS
  <2>7. Total(T \cup U) = Size[x.content] + Total(V)
    <3>. HIDE DEF V
    <3>. QED
      BY <2>5, <2>6, TotalAdds
  <2>8. Size[x.content] \in Nat
    BY <2>6, SizeAssumption DEF Rows
  <2>9. Total(T) <= Total(T \cup U)
    <3>. HIDE DEF V, C
    <3>. QED
      BY <1>0, <2>4, <2>5, <2>7, <2>8
  <2>. QED
    BY <2>9
<1>2. S \ T \notin C /\ T \cup (S \ T) = S
  BY <1>1
<1>. QED
  BY <1>2

\* Rows of at most m bytes each add at most m bytes each.
LEMMA TotalBounded ==
    ASSUME NEW S \in SUBSET Rows, IsFiniteSet(S), NEW T \in SUBSET Rows, IsFiniteSet(T),
           S \cap T = {}, NEW m \in Nat, \A row \in T : Size[row.content] <= m
    PROVE  Total(S \cup T) <= Total(S) + Cardinality(T) * m
<1>. DEFINE Good(U) == Total(S \cup U) <= Total(S) + Cardinality(U) * m
            C == {U \in SUBSET T : ~ Good(U)}
<1>1. ASSUME C # {}
      PROVE  FALSE
  <2>1. PICK U \in C : \A W \in C : W \subseteq U => W = U
    <3>1. C \in SUBSET (SUBSET T)
      OBVIOUS
    <3>. HIDE DEF C
    <3>. QED
      BY <1>1, <3>1, SmallestSubset
  <2>2. IsFiniteSet(U) /\ Cardinality(U) \in Nat
    BY FS_Subset, FS_CardinalityType
  <2>3. Total(S) \in Nat
    BY TotalType
  <2>4. U # {}
    <3>1. Cardinality({}) = 0 /\ S \cup {} = S /\ 0 * m = 0
      BY FS_EmptySet
    <3>2. Good({})
      BY <2>3, <3>1
    <3>. QED
      BY <3>2
  <2>5. PICK x \in U : TRUE
    BY <2>4
  <2>. DEFINE V == U \ {x}  k == Cardinality(V)
  <2>6. Good(V)
    <3>1. V \in SUBSET T /\ V \subseteq U /\ V # U
      OBVIOUS
    <3>2. V \notin C
      <4>. HIDE DEF C
      <4>. QED
        BY <2>1, <3>1
    <3>. QED
      BY <3>1, <3>2
  <2>7. IsFiniteSet(V) /\ k \in Nat /\ Cardinality(U) = k + 1
    <3>1. x \in U
      OBVIOUS
    <3>2. IsFiniteSet(V) /\ Cardinality(V) = Cardinality(U) - 1
      <4>. HIDE DEF C
      <4>. QED
        BY <2>2, <3>1, FS_RemoveElement
    <3>3. Cardinality(V) \in Nat
      BY <3>2, FS_CardinalityType
    <3>. HIDE DEF V
    <3>. QED
      BY <2>2, <3>2, <3>3
  <2>8. Total(S \cup U) = Size[x.content] + Total(S \cup V)
    <3>1. S \cup U = (S \cup V) \cup {x} /\ x \notin S \cup V /\ x \in Rows
      OBVIOUS
    <3>2. IsFiniteSet(S \cup V) /\ S \cup V \in SUBSET Rows
      BY <2>7, FS_Union
    <3>. QED
      BY <3>1, <3>2, TotalAdds
  <2>9. Total(S \cup V) \in Nat
    BY <2>7, FS_Union, TotalType
  <2>10. Size[x.content] \in Nat /\ Size[x.content] <= m
    BY SizeAssumption DEF Rows
  <2>11. (k + 1) * m = k * m + m /\ k * m \in Nat
    BY <2>7
  <2>12. Good(U)
    <3>1. Total(S \cup V) <= Total(S) + k * m
      BY <2>6
    <3>. HIDE DEF k, V
    <3>. QED
      BY <2>3, <2>7, <2>8, <2>9, <2>10, <2>11, <3>1
  <2>. QED
    BY <2>12
<1>2. T \notin C
  BY <1>1
<1>. QED
  BY <1>2

-----------------------------------------------------------------------------
(* The inductive invariant. *)

\* A request has answered no more files than it has, and all of them when it is done; a
\* file that passed the quota is not too large, neither by itself nor for an empty quota.
InOrder ==
    \A r \in Requests :
        /\ Len(results[r]) <= Len(files[r])
        /\ pc[r] = "new" => results[r] = <<>>
        /\ pc[r] = "done" => Len(results[r]) = Len(files[r])
        /\ pc[r] = "insert" => File(r) \notin Refused /\ (Limit > 0 => Size[File(r)] <= Limit)

\* The row of the file a request is at, when it is inserted.
NewRow(r) == [id |-> Id(r), content |-> File(r), status |-> "pending"]

\* A row whose task is about to be sent.
AtHand(row) ==
    LET r == row.id[1] IN
    pc[r] \in {"enqueue", "aborted"} /\ row = NewRow(r)

\* The row of a file that has been answered.
Answered(row) ==
    LET r == row.id[1]  k == row.id[2] IN
    /\ k <= Len(results[r])
    /\ results[r][k] = (IF row.status = "failed" THEN "queue_unavailable" ELSE "accepted")

RowsAccounted ==
    /\ IsFiniteSet(rows)
    /\ \A row \in rows : AtHand(row) \/ Answered(row)
    /\ \A row, other \in rows : row.id = other.id => row = other

\* What requests past the quota check are about to insert.
Incoming(t) == {NewRow(r) : r \in {q \in Uploaders(t) : pc[q] = "insert"}}

\* What is stored and what is about to be: at most the quota, and the largest file of every
\* other request.
Overrun ==
    Limit > 0 =>
        \A t \in Tenants :
            Total(Stored(t) \cup Incoming(t))
                <= Limit + (Cardinality(Uploaders(t)) - 1) * Max(Admissible)

Inv == TypeOK /\ InOrder /\ RowsAccounted /\ Overrun

-----------------------------------------------------------------------------
(* What the steps of the proof keep needing. *)

LEMMA BatchShape ==
    ASSUME NEW b \in Batches
    PROVE  b \in Seq(Contents) /\ Len(b) \in 1..MaxBatch /\ \A i \in 1..Len(b) : b[i] \in Contents
BY BatchAssumption DEF Batches

\* The largest file that fits in an empty quota.
LEMMA LargestFile ==
    /\ Max(Admissible) \in Nat
    /\ \A c \in Contents \ Refused : Size[c] <= Limit => Size[c] <= Max(Admissible)
<1>. DEFINE A == {Limit - a : a \in Admissible}
<1>1. Admissible \subseteq 0..Limit /\ 0 \in Admissible
  BY SizeAssumption DEF Admissible
<1>2. A \in SUBSET Nat /\ A # {}
  BY <1>1, SizeAssumption
<1>3. PICK m \in A : \A k \in A : m <= k
  <2>. HIDE DEF A
  <2>. QED
    BY <1>2, LeastNumber
<1>4. PICK a \in Admissible : m = Limit - a
  OBVIOUS
<1>5. \A b \in Admissible : a >= b
  BY <1>1, <1>3, <1>4, SizeAssumption
<1>6. Max(Admissible) \in Admissible /\ \A b \in Admissible : Max(Admissible) >= b
  BY <1>5 DEF Max
<1>. QED
  BY <1>1, <1>6, SizeAssumption DEF Admissible

\* The file a request is at.
LEMMA FileAtHand ==
    ASSUME TypeOK, NEW r \in Requests, pc[r] \in {"check", "insert", "enqueue"}
    PROVE  /\ Position(r) \in 1..MaxBatch /\ Position(r) <= Len(files[r])
           /\ File(r) \in Contents /\ NewRow(r) \in Rows
<1>1. /\ results[r] \in Seq(Outcomes) /\ Position(r) <= Len(files[r])
      /\ files[r] \in Batches \cup {<<>>}
  BY DEF TypeOK
<1>2. Len(results[r]) \in Nat /\ Position(r) \in Nat \ {0}
  BY <1>1 DEF Position
<1>3. files[r] \in Batches
  BY <1>1, <1>2
<1>4. Len(files[r]) \in 1..MaxBatch /\ File(r) \in Contents
  BY <1>1, <1>2, <1>3, BatchShape DEF File
<1>5. Position(r) \in 1..MaxBatch
  BY <1>1, <1>2, <1>4, BatchAssumption
<1>. QED
  BY <1>1, <1>4, <1>5 DEF NewRow, Id, Ids, Rows

\* What a report changes.
LEMMA Reported ==
    ASSUME TypeOK, NEW r \in Requests, pc[r] \in {"check", "insert", "enqueue"},
           NEW o \in Outcomes, Report(r, o)
    PROVE  /\ results' = [results EXCEPT ![r] = Append(results[r], o)]
           /\ results' \in [Requests -> Seq(Outcomes)]
           /\ results'[r] = Append(results[r], o) /\ Len(results'[r]) = Len(results[r]) + 1
           /\ \A k \in 1..Len(results[r]) : results'[r][k] = results[r][k]
           /\ results'[r][Position(r)] = o
           /\ \A q \in Requests \ {r} : results'[q] = results[q] /\ pc'[q] = pc[q]
           /\ \/ pc'[r] = "check" /\ Len(results'[r]) < Len(files[r])
              \/ pc'[r] = "done" /\ Len(results'[r]) = Len(files[r])
           /\ pc' \in [Requests -> {"new", "check", "insert", "enqueue", "done", "aborted"}]
<1>1. /\ results' = [results EXCEPT ![r] = Append(results[r], o)]
      /\ pc' = [pc EXCEPT ![r] = IF Position(r) < Len(files[r]) THEN "check" ELSE "done"]
  BY DEF Report, Goto
<1>2. /\ results \in [Requests -> Seq(Outcomes)]
      /\ pc \in [Requests -> {"new", "check", "insert", "enqueue", "done", "aborted"}]
      /\ results[r] \in Seq(Outcomes)
  BY DEF TypeOK
<1>3. Append(results[r], o) \in Seq(Outcomes) /\ Len(Append(results[r], o)) = Len(results[r]) + 1
  BY <1>2
<1>4. results'[r] = Append(results[r], o) /\ results' \in [Requests -> Seq(Outcomes)]
  BY <1>1, <1>2, <1>3
<1>5. /\ \A k \in 1..Len(results[r]) : results'[r][k] = results[r][k]
      /\ results'[r][Position(r)] = o
  BY <1>2, <1>4 DEF Position
<1>6. Position(r) = Len(results'[r]) /\ Position(r) \in 1..MaxBatch /\ Position(r) <= Len(files[r])
  BY <1>3, <1>4, FileAtHand DEF Position
<1>7. files[r] \in Batches \cup {<<>>} /\ Len(files[r]) \in Nat
  <2>1. files[r] \in Batches \cup {<<>>}
    BY DEF TypeOK
  <2>. QED
    BY <2>1, BatchShape
<1>8. \/ pc'[r] = "check" /\ Len(results'[r]) < Len(files[r])
      \/ pc'[r] = "done" /\ Len(results'[r]) = Len(files[r])
  BY <1>1, <1>2, <1>6, <1>7
<1>9. pc' \in [Requests -> {"new", "check", "insert", "enqueue", "done", "aborted"}]
  BY <1>1, <1>2
<1>. QED
  BY <1>1, <1>2, <1>3, <1>4, <1>5, <1>8, <1>9

-----------------------------------------------------------------------------
(* Every action preserves the invariant. *)

LEMMA UploadersNumber ==
    ASSUME NEW t \in Tenants
    PROVE  /\ IsFiniteSet(Uploaders(t)) /\ Cardinality(Uploaders(t)) \in Nat
           /\ Cardinality(Uploaders(t)) - 1 \in Nat
<1>1. Uploaders(t) # {} /\ IsFiniteSet(Uploaders(t))
  BY RequestsAssumption, FS_Subset DEF Tenants, Uploaders
<1>. QED
  BY <1>1, FS_EmptySet, FS_CardinalityType

LEMMA InitInv ==
    Init => Inv
<1>. SUFFICES ASSUME Init
              PROVE  Inv
  OBVIOUS
<1>1. TypeOK
  BY DEF Init, TypeOK
<1>2. InOrder
  BY DEF Init, InOrder
<1>3. RowsAccounted
  BY FS_EmptySet DEF Init, RowsAccounted
<1>4. Overrun
  <2>1. SUFFICES ASSUME Limit > 0, NEW t \in Tenants
                 PROVE  Total(Stored(t) \cup Incoming(t))
                            <= Limit + (Cardinality(Uploaders(t)) - 1) * Max(Admissible)
    BY DEF Overrun
  <2>2. Stored(t) \cup Incoming(t) = {}
    BY DEF Init, Stored, Incoming, Uploaders
  <2>3. Cardinality(Uploaders(t)) - 1 \in Nat
    BY UploadersNumber
  <2>4. (Cardinality(Uploaders(t)) - 1) * Max(Admissible) \in Nat
    BY <2>3, LargestFile
  <2>5. Total(Stored(t) \cup Incoming(t)) = 0
    BY <2>2, TotalEmpty
  <2>. QED
    BY <2>4, <2>5, SizeAssumption
<1>. QED
  BY <1>1, <1>2, <1>3, <1>4 DEF Inv

LEMMA TypePreserved ==
    ASSUME Inv, [Next]_vars
    PROVE  TypeOK'
<1>0. TypeOK /\ InOrder
  BY DEF Inv
<1>1. ASSUME NEW r \in Requests, Submit(r)
      PROVE  TypeOK'
  <2>1. PICK b \in Batches : files' = [files EXCEPT ![r] = b]
    BY <1>1 DEF Submit
  <2>2. Len(b) \in 1..MaxBatch
    BY BatchShape
  <2>3. pc' = [pc EXCEPT ![r] = "check"] /\ UNCHANGED <<results, rows>> /\ results[r] = <<>>
    BY <1>0, <1>1 DEF Submit, Goto, InOrder
  <2>4. Position(r)' = 1 /\ Len(files'[r]) >= 1
    BY <1>0, <2>1, <2>2, <2>3 DEF Position, TypeOK
  <2>. QED
    BY <1>0, <2>1, <2>3, <2>4 DEF TypeOK, Position
<1>2. ASSUME NEW r \in Requests, NEW o \in Outcomes, Report(r, o), UNCHANGED files,
             pc[r] \in {"check", "insert", "enqueue"}, rows' \subseteq Rows
      PROVE  TypeOK'
  <2>1. \A q \in Requests :
           pc'[q] \in {"check", "insert", "enqueue"} => Position(q)' <= Len(files[q])
    <3>1. SUFFICES ASSUME NEW q \in Requests, pc'[q] \in {"check", "insert", "enqueue"}
                   PROVE  Position(q)' <= Len(files[q])
      OBVIOUS
    <3>2. CASE q = r
      <4>1. files[r] \in Batches \cup {<<>>} /\ results[r] \in Seq(Outcomes)
        BY <1>0 DEF TypeOK
      <4>2. Len(files[r]) \in Nat /\ Len(results[r]) \in Nat
        BY <4>1, BatchShape
      <4>. QED
        BY <1>0, <1>2, <3>1, <3>2, <4>2, Reported DEF Position
    <3>3. CASE q # r
      BY <1>0, <1>2, <3>1, <3>3, Reported DEF Position, TypeOK
    <3>. QED
      BY <3>2, <3>3
  <2>. QED
    BY <1>0, <1>2, <2>1, Reported DEF TypeOK
<1>3. ASSUME NEW r \in Requests, Refuse(r)
      PROVE  TypeOK'
  BY <1>0, <1>2, <1>3 DEF Refuse, Outcomes, TypeOK
<1>4. ASSUME NEW r \in Requests, CheckQuota(r)
      PROVE  TypeOK'
  <2>1. CASE Fits(r) /\ Goto(r, "insert") /\ UNCHANGED <<files, results, rows>>
    BY <1>0, <1>4, <2>1 DEF CheckQuota, Goto, TypeOK, Position
  <2>2. CASE Report(r, "over_quota")
    BY <1>0, <1>2, <1>4, <2>2 DEF CheckQuota, Outcomes, TypeOK
  <2>. QED
    BY <1>4, <2>1, <2>2 DEF CheckQuota
<1>5. ASSUME NEW r \in Requests, Insert(r)
      PROVE  TypeOK'
  <2>1. CASE Twins(r) = {}
    BY <1>0, <1>5, <2>1, FileAtHand DEF Insert, NewRow, Goto, TypeOK, Position
  <2>2. CASE Twins(r) # {}
    BY <1>0, <1>2, <1>5, <2>2 DEF Insert, Outcomes, TypeOK
  <2>. QED
    BY <2>1, <2>2
<1>6. ASSUME NEW r \in Requests, Enqueue(r)
      PROVE  TypeOK'
  BY <1>0, <1>2, <1>6 DEF Enqueue, Outcomes, TypeOK
<1>7. ASSUME NEW r \in Requests, EnqueueFails(r)
      PROVE  TypeOK'
  <2>1. rows' \subseteq Rows
    BY <1>0, <1>7 DEF EnqueueFails, TypeOK, Rows
  <2>. QED
    BY <1>0, <1>2, <1>7, <2>1 DEF EnqueueFails, Outcomes
<1>8. ASSUME NEW r \in Requests, Abort(r)
      PROVE  TypeOK'
  BY <1>0, <1>8 DEF Abort, Goto, TypeOK, Position
<1>9. ASSUME NEW row \in rows, Delete(row)
      PROVE  TypeOK'
  BY <1>0, <1>9 DEF Delete, TypeOK, Position
<1>10. CASE UNCHANGED vars
  BY <1>0, <1>10 DEF vars, TypeOK, Position
<1>. QED
  BY <1>1, <1>3, <1>4, <1>5, <1>6, <1>7, <1>8, <1>9, <1>10 DEF Next, Handle

LEMMA OrderPreserved ==
    ASSUME Inv, [Next]_vars
    PROVE  InOrder'
<1>0. TypeOK /\ InOrder
  BY DEF Inv
<1>. DEFINE Ordered(q) ==
       /\ Len(results[q]) <= Len(files[q])
       /\ pc[q] = "new" => results[q] = <<>>
       /\ pc[q] = "done" => Len(results[q]) = Len(files[q])
       /\ pc[q] = "insert" => File(q) \notin Refused /\ (Limit > 0 => Size[File(q)] <= Limit)
<1>1. SUFFICES ASSUME NEW q \in Requests
               PROVE  Ordered(q)'
  BY DEF InOrder
<1>2. Ordered(q)
  BY <1>0 DEF InOrder
<1>3. CASE /\ results'[q] = results[q] /\ files'[q] = files[q]
           /\ pc'[q] = pc[q] \/ pc'[q] \notin {"new", "done", "insert"}
  BY <1>2, <1>3 DEF File, Position
<1>4. ASSUME NEW r \in Requests, NEW o \in Outcomes, Report(r, o), UNCHANGED files,
             pc[r] \in {"check", "insert", "enqueue"}
      PROVE  Ordered(q)'
  <2>1. CASE q = r
    BY <1>0, <1>4, <2>1, Reported
  <2>2. CASE q # r
    BY <1>0, <1>3, <1>4, <2>2, Reported
  <2>. QED
    BY <2>1, <2>2
<1>5. ASSUME NEW r \in Requests, Submit(r)
      PROVE  Ordered(q)'
  <2>1. CASE q # r
    BY <1>0, <1>3, <1>5, <2>1 DEF Submit, Goto, TypeOK
  <2>2. CASE q = r
    <3>1. PICK b \in Batches : files' = [files EXCEPT ![r] = b]
      BY <1>5 DEF Submit
    <3>2. /\ Len(files'[r]) \in Nat /\ results'[r] = <<>> /\ pc'[r] = "check"
          /\ Len(<<>>) = 0
      BY <1>0, <1>2, <1>5, <2>2, <3>1, BatchShape DEF Submit, Goto, TypeOK
    <3>. QED
      BY <2>2, <3>2
  <2>. QED
    BY <2>1, <2>2
<1>6. ASSUME NEW r \in Requests, CheckQuota(r)
      PROVE  Ordered(q)'
  <2>1. CASE Fits(r) /\ Goto(r, "insert") /\ UNCHANGED <<files, results, rows>>
    <3>1. CASE q # r
      BY <1>0, <1>3, <2>1, <3>1 DEF Goto, TypeOK
    <3>2. CASE q = r
      <4>1. Limit > 0 => Size[File(r)] <= Limit
        <5>1. Stored(TenantOf[r]) \in SUBSET Rows /\ IsFiniteSet(Stored(TenantOf[r]))
          BY FS_Subset DEF Inv, TypeOK, RowsAccounted, Stored
        <5>2. Used(TenantOf[r]) \in Nat
          BY <5>1, TotalType DEF Used, Total
        <5>3. Size[File(r)] \in Nat
          BY <1>0, <1>6, FileAtHand, SizeAssumption DEF CheckQuota
        <5>. QED
          BY <2>1, <5>2, <5>3, SizeAssumption DEF Fits
      <4>2. pc'[r] = "insert" /\ File(r)' = File(r) /\ File(r) \notin Refused
        BY <1>0, <1>6, <2>1 DEF CheckQuota, Goto, TypeOK, File, Position
      <4>. QED
        BY <1>2, <2>1, <3>2, <4>1, <4>2
    <3>. QED
      BY <3>1, <3>2
  <2>2. CASE Report(r, "over_quota")
    BY <1>4, <1>6, <2>2 DEF CheckQuota, Outcomes
  <2>. QED
    BY <1>6, <2>1, <2>2 DEF CheckQuota
<1>7. ASSUME NEW r \in Requests, Insert(r)
      PROVE  Ordered(q)'
  <2>1. CASE Twins(r) = {}
    BY <1>0, <1>3, <1>7, <2>1 DEF Insert, Goto, TypeOK
  <2>2. CASE Twins(r) # {}
    BY <1>4, <1>7, <2>2 DEF Insert, Outcomes
  <2>. QED
    BY <2>1, <2>2
<1>8. ASSUME NEW r \in Requests, Refuse(r) \/ Enqueue(r) \/ EnqueueFails(r)
      PROVE  Ordered(q)'
  BY <1>4, <1>8 DEF Refuse, Enqueue, EnqueueFails, Outcomes
<1>9. ASSUME NEW r \in Requests, Abort(r)
      PROVE  Ordered(q)'
  BY <1>0, <1>3, <1>9 DEF Abort, Goto, TypeOK
<1>10. CASE (\E row \in rows : Delete(row)) \/ UNCHANGED vars
  BY <1>3, <1>10 DEF Delete, vars
<1>. QED
  BY <1>5, <1>6, <1>7, <1>8, <1>9, <1>10 DEF Next, Handle

\* A step that does not concern the request that inserted a row.
LEMMA RowKept ==
    ASSUME NEW row, AtHand(row) \/ Answered(row),
           results'[row.id[1]] = results[row.id[1]], files'[row.id[1]] = files[row.id[1]],
           pc'[row.id[1]] = pc[row.id[1]] \/ pc'[row.id[1]] = "aborted"
    PROVE  AtHand(row)' \/ Answered(row)'
BY DEF AtHand, Answered, NewRow, Id, File, Position

LEMMA RowsPreserved ==
    ASSUME Inv, [Next]_vars
    PROVE  RowsAccounted'
<1>0. TypeOK /\ RowsAccounted /\ rows \subseteq Rows
  BY DEF Inv, TypeOK
<1>. DEFINE Accounted(row) == AtHand(row) \/ Answered(row)
            UniqueIds == \A row, other \in rows : row.id = other.id => row = other
<1>1. \A row \in rows : /\ row.id[1] \in Requests /\ row.id[2] \in 1..MaxBatch
                        /\ Accounted(row)
  BY <1>0 DEF Rows, Ids, RowsAccounted
<1>2. ASSUME NEW r \in Requests, NEW o \in Outcomes, Report(r, o), UNCHANGED <<files, rows>>,
             \/ pc[r] \in {"check", "insert"}
             \/ pc[r] = "enqueue" /\ o = "accepted"
      PROVE  RowsAccounted'
  <2>1. ASSUME NEW row \in rows
        PROVE  Accounted(row)'
    <3>1. CASE row.id[1] # r
      BY <1>0, <1>1, <1>2, <3>1, Reported, RowKept
    <3>2. CASE row.id[1] = r /\ Answered(row)
      <4>1. results[r] \in Seq(Outcomes)
        BY <1>0 DEF TypeOK
      <4>2. row.id[2] \in 1..Len(results[r])
        BY <1>1, <3>2, <4>1, BatchAssumption DEF Answered
      <4>. QED
        BY <1>0, <1>2, <3>2, <4>1, <4>2, Reported DEF Answered
    <3>3. CASE row.id[1] = r /\ AtHand(row)
      <4>1. pc[r] = "enqueue" /\ o = "accepted" /\ row = NewRow(r)
        BY <1>2, <3>3 DEF AtHand
      <4>2. row.id[2] = Position(r) /\ row.status = "pending"
        BY <4>1 DEF NewRow, Id
      <4>3. results'[r][Position(r)] = "accepted" /\ Len(results'[r]) = Position(r)
        BY <1>0, <1>2, <4>1, Reported DEF Position
      <4>4. Position(r) \in Nat
        BY <1>0, <4>1, FileAtHand
      <4>5. row.id[2] <= Len(results'[r]) /\ results'[r][row.id[2]] = "accepted"
        BY <4>2, <4>3, <4>4
      <4>. QED
        BY <3>3, <4>2, <4>5 DEF Answered
    <3>. QED
      BY <1>1, <3>1, <3>2, <3>3
  <2>. QED
    BY <1>0, <1>2, <2>1 DEF RowsAccounted
<1>3. ASSUME NEW r \in Requests, Submit(r)
      PROVE  RowsAccounted'
  <2>1. ASSUME NEW row \in rows
        PROVE  row.id[1] # r
    <3>1. results[r] = <<>> /\ pc[r] = "new" /\ Len(<<>>) = 0
      BY <1>3 DEF Inv, InOrder, Submit
    <3>2. ~ (row.id[2] <= 0)
      BY <1>1, BatchAssumption
    <3>. QED
      BY <1>1, <3>1, <3>2 DEF AtHand, Answered
  <2>2. ASSUME NEW row \in rows
        PROVE  Accounted(row)'
    BY <1>0, <1>1, <1>3, <2>1, RowKept DEF Submit, Goto, TypeOK
  <2>. QED
    BY <1>0, <1>3, <2>2 DEF RowsAccounted, Submit
<1>4. ASSUME NEW r \in Requests, NEW row \in rows, UNCHANGED <<files, results>>,
             pc[r] \in {"check", "insert"},
             \A q \in Requests \ {r} : pc'[q] = pc[q]
      PROVE  Accounted(row)'
  <2>1. CASE row.id[1] # r
    BY <1>1, <1>4, <2>1, RowKept
  <2>2. CASE row.id[1] = r
    <3>1. Answered(row)
      BY <1>1, <1>4, <2>2 DEF AtHand
    <3>. QED
      BY <1>4, <3>1 DEF Answered
  <2>. QED
    BY <2>1, <2>2
<1>5. ASSUME NEW r \in Requests, CheckQuota(r)
      PROVE  RowsAccounted'
  <2>1. CASE Goto(r, "insert") /\ UNCHANGED <<files, results, rows>>
    <3>1. ASSUME NEW row \in rows
          PROVE  Accounted(row)'
      <4>1. pc[r] = "check" /\ \A q \in Requests \ {r} : pc'[q] = pc[q]
        BY <1>0, <1>5, <2>1 DEF CheckQuota, Goto, TypeOK
      <4>. HIDE DEF Accounted
      <4>. QED
        BY <1>4, <2>1, <4>1
    <3>. QED
      BY <1>0, <2>1, <3>1 DEF RowsAccounted
  <2>2. CASE Report(r, "over_quota")
    BY <1>2, <1>5, <2>2 DEF CheckQuota, Outcomes
  <2>. QED
    BY <1>5, <2>1, <2>2 DEF CheckQuota
<1>6. ASSUME NEW r \in Requests, Insert(r)
      PROVE  RowsAccounted'
  <2>1. CASE Twins(r) # {}
    BY <1>2, <1>6, <2>1 DEF Insert, Outcomes
  <2>2. CASE Twins(r) = {}
    <3>1. /\ rows' = rows \cup {NewRow(r)} /\ pc[r] = "insert"
          /\ pc' = [pc EXCEPT ![r] = "enqueue"] /\ UNCHANGED <<files, results>>
      BY <1>6, <2>2 DEF Insert, Goto, NewRow
    <3>2. ASSUME NEW row \in rows
          PROVE  Accounted(row)' /\ row.id # Id(r)
      <4>1. Accounted(row)'
        <5>1. \A q \in Requests \ {r} : pc'[q] = pc[q]
          BY <1>0, <3>1 DEF TypeOK
        <5>. HIDE DEF Accounted
        <5>. QED
          BY <1>4, <3>1, <5>1
      <4>2. ASSUME row.id = Id(r)
            PROVE  FALSE
        <5>1. row.id[1] = r /\ row.id[2] = Len(results[r]) + 1
          BY <4>2 DEF Id, Position
        <5>2. row.id[2] <= Len(results[r])
          BY <1>1, <3>1, <5>1 DEF AtHand, Answered
        <5>3. Len(results[r]) \in Nat
          BY <1>0 DEF TypeOK
        <5>. QED
          BY <5>1, <5>2, <5>3
      <4>. QED
        BY <4>1, <4>2
    <3>3. PICK new : new = NewRow(r)
      OBVIOUS
    <3>4. AtHand(new)' /\ new.id = Id(r)
      <4>1. new.id = Id(r) /\ new.id[1] = r /\ new = NewRow(r)'
        BY <3>1, <3>3 DEF NewRow, Id, File, Position
      <4>2. pc'[r] = "enqueue"
        BY <1>0, <3>1 DEF TypeOK
      <4>. QED
        BY <4>1, <4>2 DEF AtHand
    <3>5. IsFiniteSet(rows')
      BY <1>0, <3>1, FS_AddElement DEF RowsAccounted
    <3>6. UniqueIds'
      BY <1>0, <3>1, <3>2, <3>3, <3>4 DEF RowsAccounted
    <3>7. \A row \in rows' : AtHand(row)' \/ Answered(row)'
      BY <3>1, <3>2, <3>3, <3>4
    <3>. QED
      BY <3>5, <3>6, <3>7 DEF RowsAccounted
  <2>. QED
    BY <2>1, <2>2
<1>7. ASSUME NEW r \in Requests, EnqueueFails(r)
      PROVE  RowsAccounted'
  <2>1. PICK row \in rows :
           row.id = Id(r) /\ rows' = (rows \ {row}) \cup {[row EXCEPT !.status = "failed"]}
    BY <1>7 DEF EnqueueFails
  <2>. DEFINE new == [row EXCEPT !.status = "failed"]
  <2>2. new.id = Id(r) /\ new.status = "failed" /\ rows' = (rows \ {row}) \cup {new}
    BY <1>0, <2>1 DEF Rows
  <2>. HIDE DEF new
  <2>3. /\ results[r] \in Seq(Outcomes) /\ results'[r][Position(r)] = "queue_unavailable"
        /\ Len(results'[r]) = Position(r) /\ Position(r) \in Nat /\ pc[r] = "enqueue"
        /\ \A k \in 1..Len(results[r]) : results'[r][k] = results[r][k]
        /\ \A q \in Requests \ {r} : results'[q] = results[q] /\ pc'[q] = pc[q]
        /\ UNCHANGED files
    <3>1. pc[r] = "enqueue" /\ Report(r, "queue_unavailable") /\ "queue_unavailable" \in Outcomes
          /\ UNCHANGED files
      BY <1>7 DEF EnqueueFails, Outcomes
    <3>2. results[r] \in Seq(Outcomes)
      BY <1>0 DEF TypeOK
    <3>. QED
      BY <1>0, <3>1, <3>2, Reported, FileAtHand DEF Position
  <2>4. Answered(new)'
    <3>1. new.id[1] = r /\ new.id[2] = Position(r)
      BY <2>2 DEF Id
    <3>. QED
      BY <2>2, <2>3, <3>1 DEF Answered
  <2>5. ASSUME NEW other \in rows \ {row}
        PROVE  Accounted(other)' /\ other.id # Id(r)
    <3>1. other.id # Id(r)
      BY <1>0, <2>1 DEF RowsAccounted
    <3>2. CASE other.id[1] # r
      BY <1>1, <2>3, <3>1, <3>2, RowKept
    <3>3. CASE other.id[1] = r
      <4>1. Answered(other)
        BY <1>1, <3>1, <3>3 DEF AtHand, NewRow
      <4>2. other.id[2] \in 1..Len(results[r])
        BY <1>1, <2>3, <3>3, <4>1, BatchAssumption DEF Answered
      <4>3. Len(results'[r]) = Len(results[r]) + 1 /\ Len(results[r]) \in Nat
        BY <2>3 DEF Position
      <4>. QED
        BY <2>3, <3>1, <3>3, <4>1, <4>2, <4>3 DEF Answered
    <3>. QED
      BY <3>2, <3>3
  <2>6. IsFiniteSet(rows')
    BY <1>0, <2>2, FS_RemoveElement, FS_AddElement DEF RowsAccounted
  <2>7. UniqueIds'
    BY <1>0, <2>2, <2>5 DEF RowsAccounted
  <2>. QED
    BY <2>2, <2>4, <2>5, <2>6, <2>7 DEF RowsAccounted
<1>8. ASSUME NEW r \in Requests, Refuse(r) \/ Enqueue(r)
      PROVE  RowsAccounted'
  BY <1>2, <1>8 DEF Refuse, Enqueue, Outcomes
<1>9. ASSUME NEW r \in Requests, Abort(r)
      PROVE  RowsAccounted'
  <2>1. ASSUME NEW row \in rows
        PROVE  Accounted(row)'
    BY <1>0, <1>1, <1>9, RowKept DEF Abort, Goto, TypeOK
  <2>. QED
    BY <1>0, <1>9, <2>1 DEF RowsAccounted, Abort
<1>10. ASSUME NEW row \in rows, Delete(row)
       PROVE  RowsAccounted'
  <2>1. rows' \subseteq rows /\ IsFiniteSet(rows')
    BY <1>0, <1>10, FS_RemoveElement DEF Delete, RowsAccounted
  <2>2. ASSUME NEW other \in rows
        PROVE  Accounted(other)'
    BY <1>1, <1>10, RowKept DEF Delete
  <2>. QED
    BY <1>0, <2>1, <2>2 DEF RowsAccounted
<1>11. CASE UNCHANGED vars
  <2>1. ASSUME NEW row \in rows
        PROVE  Accounted(row)'
    BY <1>1, <1>11, RowKept DEF vars
  <2>. QED
    BY <1>0, <1>11, <2>1 DEF RowsAccounted, vars
<1>. QED
  BY <1>3, <1>5, <1>6, <1>7, <1>8, <1>9, <1>10, <1>11 DEF Next, Handle

\* At most one file of each of the requests Q is about to be inserted.
LEMMA IncomingBound ==
    ASSUME TypeOK, NEW t, NEW Q \in SUBSET Requests,
           {q \in Uploaders(t) : pc[q] = "insert"} \subseteq Q
    PROVE  /\ IsFiniteSet(Incoming(t)) /\ Incoming(t) \in SUBSET Rows
           /\ Cardinality(Incoming(t)) <= Cardinality(Q)
<1>. DEFINE f == [row \in Incoming(t) |-> row.id[1]]
<1>1. \A row \in Incoming(t) :
         row.id[1] \in Q /\ row = NewRow(row.id[1]) /\ pc[row.id[1]] = "insert"
  BY DEF Incoming, NewRow, Id
<1>2. f \in Injection(Incoming(t), Q)
  BY <1>1 DEF Injection, IsInjective
<1>3. IsFiniteSet(Q)
  BY RequestsAssumption, FS_Subset
<1>4. Incoming(t) \in SUBSET Rows
  BY <1>1, FileAtHand
<1>. QED
  BY <1>2, <1>3, <1>4, FS_Injection

LEMMA OverrunPreserved ==
    ASSUME Inv, [Next]_vars, TypeOK'
    PROVE  Overrun'
<1>0. TypeOK /\ InOrder /\ RowsAccounted /\ Overrun
  BY DEF Inv
<1>. DEFINE Taken(t) == Stored(t) \cup Incoming(t)
            Bound(t) == Limit + (Cardinality(Uploaders(t)) - 1) * Max(Admissible)
<1>1. SUFFICES ASSUME Limit > 0, NEW t \in Tenants
               PROVE  Total(Taken(t)') <= Bound(t)
  BY DEF Overrun, Uploaders
<1>2. /\ Stored(t) \in SUBSET Rows /\ IsFiniteSet(Stored(t))
      /\ Incoming(t) \in SUBSET Rows /\ IsFiniteSet(Incoming(t))
  BY <1>0, FS_Subset, IncomingBound DEF RowsAccounted, TypeOK, Stored, Uploaders
<1>3. /\ Taken(t) \in SUBSET Rows /\ IsFiniteSet(Taken(t)) /\ Total(Taken(t)) \in Nat
      /\ Total(Taken(t)) <= Bound(t)
  BY <1>0, <1>1, <1>2, FS_Union, TotalType DEF Overrun
<1>4. Cardinality(Uploaders(t)) - 1 \in Nat
  BY UploadersNumber
<1>5. Bound(t) \in Nat
  BY <1>4, LargestFile, SizeAssumption
<1>6. CASE Taken(t)' \subseteq Taken(t)
  <2>1. PICK S \in SUBSET Taken(t) : S = Taken(t)'
    BY <1>6
  <2>2. S \in SUBSET Rows /\ IsFiniteSet(S)
    BY <1>3, FS_Subset
  <2>3. Total(S) \in Nat /\ Total(S) <= Total(Taken(t))
    BY <1>3, <2>2, TotalType, TotalMonotone
  <2>. HIDE DEF Taken, Bound
  <2>. QED
    BY <1>3, <1>5, <2>1, <2>3
<1>7. ASSUME NEW r \in Requests, pc'[r] # "insert", \A q \in Requests \ {r} : pc'[q] = pc[q],
             \A q \in Requests \ {r} : results'[q] = results[q] /\ files'[q] = files[q]
      PROVE  Incoming(t)' \subseteq Incoming(t)
  BY <1>7 DEF Incoming, Uploaders, NewRow, Id, File, Position
<1>8. ASSUME NEW r \in Requests, NEW o \in Outcomes, Report(r, o), UNCHANGED files,
             pc[r] \in {"check", "insert", "enqueue"}
      PROVE  Incoming(t)' \subseteq Incoming(t)
  BY <1>0, <1>7, <1>8, Reported
<1>9. ASSUME NEW r \in Requests, CheckQuota(r)
      PROVE  Total(Taken(t)') <= Bound(t)
  <2>1. CASE Fits(r) /\ Goto(r, "insert") /\ UNCHANGED <<files, results, rows>>
    <3>1. CASE TenantOf[r] # t
      <4>1. Taken(t)' = Taken(t)
        BY <1>0, <2>1, <3>1
           DEF Goto, TypeOK, Stored, Incoming, Uploaders, NewRow, Id, File, Position
      <4>. QED
        BY <1>6, <4>1
    <3>2. CASE TenantOf[r] = t
      <4>1. PICK new : new = NewRow(r)
        OBVIOUS
      <4>2. Taken(t)' \subseteq (Stored(t) \cup {new}) \cup Incoming(t)
        BY <1>0, <2>1, <3>2, <4>1
           DEF Goto, TypeOK, Stored, Incoming, Uploaders, NewRow, Id, File, Position
      <4>3. new \in Rows /\ new.content = File(r) /\ pc[r] = "check"
        BY <1>0, <1>9, <4>1, FileAtHand DEF CheckQuota, NewRow
      <4>. DEFINE S == Stored(t) \cup {new}
                  T == Incoming(t) \ S
                  m == Max(Admissible)
      <4>4. S \in SUBSET Rows /\ IsFiniteSet(S)
        BY <1>2, <4>3, FS_AddElement
      <4>5. Total(S) \in Nat /\ Total(S) <= Limit
        <5>1. Total(Stored(t)) \in Nat /\ Total(Stored(t)) + Size[new.content] <= Limit
          BY <1>1, <1>2, <2>1, <3>2, <4>3, TotalType DEF Fits, Used, Total
        <5>2. Size[new.content] \in Nat
          BY <4>3, SizeAssumption DEF Rows
        <5>3. CASE new \in Stored(t)
          <6>1. Total(S) = Total(Stored(t))
            <7>1. S = Stored(t)
              BY <5>3
            <7>. QED
              BY <7>1
          <6>. HIDE DEF S
          <6>. QED
            BY <5>1, <5>2, <6>1, SizeAssumption
        <5>4. CASE new \notin Stored(t)
          <6>1. Total(S) = Size[new.content] + Total(Stored(t))
            BY <1>2, <4>3, <5>4, TotalAdds
          <6>. QED
            BY <5>1, <5>2, <6>1
        <5>. QED
          BY <5>3, <5>4
      <4>6. T \in SUBSET Rows /\ IsFiniteSet(T) /\ S \cap T = {}
        BY <1>2, FS_Subset
      <4>7. m \in Nat /\ \A row \in T : Size[row.content] <= m
        <5>1. ASSUME NEW row \in Incoming(t)
              PROVE  Size[row.content] <= m
          <6>1. PICK q \in Requests : pc[q] = "insert" /\ row.content = File(q)
            BY DEF Incoming, Uploaders, NewRow
          <6>2. File(q) \in Contents \ Refused /\ Size[File(q)] <= Limit
            BY <1>0, <1>1, <6>1, FileAtHand DEF InOrder
          <6>. QED
            BY <6>1, <6>2, LargestFile
        <5>. QED
          BY <5>1, LargestFile
      <4>8. Cardinality(T) \in Nat /\ Cardinality(T) <= Cardinality(Uploaders(t)) - 1
        <5>1. r \in Uploaders(t) /\ Uploaders(t) \subseteq Requests
          BY <3>2 DEF Uploaders
        <5>2. Cardinality(Incoming(t)) <= Cardinality(Uploaders(t) \ {r})
          BY <1>0, <4>3, <5>1, IncomingBound
        <5>3. Cardinality(Uploaders(t) \ {r}) = Cardinality(Uploaders(t)) - 1
          BY <5>1, UploadersNumber, FS_RemoveElement
        <5>4. Cardinality(T) <= Cardinality(Incoming(t)) /\ Cardinality(T) \in Nat
              /\ Cardinality(Incoming(t)) \in Nat
          BY <1>2, FS_Subset, FS_CardinalityType
        <5>. HIDE DEF T
        <5>. QED
          BY <1>4, <5>2, <5>3, <5>4
      <4>9. Total(S \cup T) <= Total(S) + Cardinality(T) * m
        BY <4>4, <4>6, <4>7, TotalBounded
      <4>10. Cardinality(T) * m \in Nat
             /\ Cardinality(T) * m <= (Cardinality(Uploaders(t)) - 1) * m
        BY <1>4, <4>7, <4>8
      <4>11. S \cup T \in SUBSET Rows /\ IsFiniteSet(S \cup T) /\ Taken(t)' \subseteq S \cup T
        BY <4>2, <4>4, <4>6, FS_Union
      <4>12. PICK U \in SUBSET (S \cup T) : U = Taken(t)'
        BY <4>11
      <4>13. Total(U) <= Total(S \cup T) /\ Total(U) \in Nat /\ Total(S \cup T) \in Nat
        BY <4>11, FS_Subset, TotalMonotone, TotalType
      <4>14. Total(U) <= Limit + (Cardinality(Uploaders(t)) - 1) * m
        <5>. HIDE DEF S, T, m
        <5>1. (Cardinality(Uploaders(t)) - 1) * m \in Nat
          BY <1>4, <4>7
        <5>. QED
          BY <4>5, <4>9, <4>10, <4>13, <5>1, SizeAssumption
      <4>. QED
        BY <4>12, <4>14
    <3>. QED
      BY <3>1, <3>2
  <2>2. CASE Report(r, "over_quota") /\ UNCHANGED <<files, rows>>
    BY <1>6, <1>8, <1>9, <2>2 DEF CheckQuota, Outcomes, Stored
  <2>. QED
    BY <1>9, <2>1, <2>2 DEF CheckQuota
<1>10. ASSUME NEW r \in Requests, Submit(r) \/ Refuse(r) \/ Enqueue(r) \/ Abort(r)
       PROVE  Total(Taken(t)') <= Bound(t)
  <2>1. rows' = rows
    BY <1>10 DEF Submit, Refuse, Enqueue, Abort
  <2>2. Incoming(t)' \subseteq Incoming(t)
    <3>1. CASE Submit(r) \/ Abort(r)
      BY <1>0, <1>7, <3>1 DEF Submit, Abort, Goto, TypeOK
    <3>2. CASE Refuse(r) \/ Enqueue(r)
      BY <1>8, <3>2 DEF Refuse, Enqueue, Outcomes
    <3>. QED
      BY <1>10, <3>1, <3>2
  <2>. QED
    BY <1>6, <2>1, <2>2 DEF Stored
<1>11. ASSUME NEW r \in Requests, Insert(r)
       PROVE  Total(Taken(t)') <= Bound(t)
  <2>1. CASE Twins(r) # {}
    <3>1. Incoming(t)' \subseteq Incoming(t) /\ rows' = rows
      BY <1>8, <1>11, <2>1 DEF Insert, Outcomes
    <3>. QED
      BY <1>6, <3>1 DEF Stored
  <2>2. CASE Twins(r) = {}
    <3>1. PICK new : new = NewRow(r)
      OBVIOUS
    <3>2. new.id[1] = r
      BY <3>1 DEF NewRow, Id
    <3>3. /\ rows' = rows \cup {new} /\ pc' = [pc EXCEPT ![r] = "enqueue"] /\ pc[r] = "insert"
          /\ UNCHANGED <<files, results>>
      BY <1>11, <2>2, <3>1 DEF Insert, Goto, NewRow
    <3>4. TenantOf[r] = t => new \in Incoming(t)
      BY <3>1, <3>3 DEF Incoming, Uploaders
    <3>5. Incoming(t)' \subseteq Incoming(t)
      BY <1>0, <1>7, <3>3 DEF TypeOK
    <3>. QED
      BY <1>6, <3>2, <3>3, <3>4, <3>5 DEF Stored
  <2>. QED
    BY <2>1, <2>2
<1>12. ASSUME NEW r \in Requests, EnqueueFails(r)
       PROVE  Total(Taken(t)') <= Bound(t)
  <2>1. PICK row \in rows :
           row.id = Id(r) /\ rows' = (rows \ {row}) \cup {[row EXCEPT !.status = "failed"]}
    BY <1>12 DEF EnqueueFails
  <2>2. PICK new \in Rows : new.id = row.id /\ new.content = row.content
                            /\ rows' = (rows \ {row}) \cup {new}
    BY <1>0, <2>1 DEF Rows, TypeOK
  <2>3. Incoming(t)' \subseteq Incoming(t) /\ pc[r] = "enqueue"
    BY <1>8, <1>12 DEF EnqueueFails, Outcomes
  <2>4. CASE TenantOf[row.id[1]] # t
    BY <1>6, <2>2, <2>3, <2>4 DEF Stored
  <2>5. CASE TenantOf[row.id[1]] = t
    <3>1. row.id[1] = r
      BY <2>1 DEF Id
    <3>2. row \notin Incoming(t)
      BY <2>3, <3>1 DEF Incoming, Uploaders, NewRow, Id
    <3>3. row \in Taken(t) /\ Taken(t)' \subseteq (Taken(t) \ {row}) \cup {new}
      BY <2>2, <2>3, <2>5, <3>2 DEF Stored
    <3>. DEFINE S == Taken(t) \ {row}
    <3>4. S \in SUBSET Rows /\ IsFiniteSet(S) /\ Total(S) \in Nat
          /\ Total(Taken(t)) = Size[row.content] + Total(S)
      BY <1>3, <3>3, FS_RemoveElement, TotalType, TotalSplits
    <3>5. CASE new \in S
      BY <1>6, <3>3, <3>5
    <3>6. CASE new \notin S
      <4>1. PICK U \in SUBSET (S \cup {new}) : U = Taken(t)'
        BY <3>3
      <4>2. S \cup {new} \in SUBSET Rows /\ IsFiniteSet(S \cup {new})
        BY <3>4, FS_AddElement
      <4>3. Total(S \cup {new}) = Total(Taken(t))
        <5>. HIDE DEF S, Taken
        <5>. QED
          BY <2>2, <3>4, <3>6, TotalAdds
      <4>4. Total(U) <= Total(S \cup {new}) /\ Total(U) \in Nat
        BY <4>2, FS_Subset, TotalMonotone, TotalType
      <4>. HIDE DEF S, Taken, Bound
      <4>. QED
        BY <1>3, <1>5, <4>1, <4>3, <4>4
    <3>. QED
      BY <3>5, <3>6
  <2>. QED
    BY <2>4, <2>5
<1>13. CASE (\E row \in rows : Delete(row)) \/ UNCHANGED vars
  <2>1. rows' \subseteq rows /\ UNCHANGED <<files, pc, results>>
    BY <1>13 DEF Delete, vars
  <2>2. Incoming(t)' = Incoming(t)
    BY <2>1 DEF Incoming, NewRow, Id, File, Position
  <2>. QED
    BY <1>6, <2>1, <2>2 DEF Stored
<1>. QED
  BY <1>9, <1>10, <1>11, <1>12, <1>13 DEF Next, Handle

-----------------------------------------------------------------------------
(* The results. *)

LEMMA Invariance ==
    Spec => []Inv
<1>1. Inv /\ [Next]_vars => Inv'
  BY TypePreserved, OrderPreserved, RowsPreserved, OverrunPreserved DEF Inv
<1>. QED
  BY InitInv, <1>1, PTL DEF Spec

\* Type correctness of the admission of uploads: register() of a batch never runs past the
\* last file, and a row belongs to a file of a request.
THEOREM TypeCorrect ==
    Spec => []TypeOK
<1>1. Inv => TypeOK
  BY DEF Inv
<1>. QED
  BY <1>1, Invariance, PTL

\* The storage quota of a tenant, whatever the number and sizes of its files and however
\* many requests run between _ensure_storage_quota() and the commit of another: it is
\* exceeded by at most the largest admissible file of each request but one.
THEOREM OverrunBoundedHolds ==
    Spec => []OverrunBounded
<1>1. Inv => OverrunBounded
  <2>1. SUFFICES ASSUME Inv, Limit > 0, NEW t \in Tenants
                 PROVE  Used(t) <= Limit + (Cardinality(Uploaders(t)) - 1) * Max(Admissible)
    BY DEF OverrunBounded
  <2>2. Used(t) = Total(Stored(t))
    BY DEF Used, Total
  <2>. DEFINE Taken == Stored(t) \cup Incoming(t)
              Bound == Limit + (Cardinality(Uploaders(t)) - 1) * Max(Admissible)
  <2>3. /\ Stored(t) \in SUBSET Rows /\ IsFiniteSet(Stored(t))
        /\ Taken \in SUBSET Rows /\ IsFiniteSet(Taken)
    BY <2>1, FS_Subset, FS_Union, IncomingBound DEF Inv, RowsAccounted, TypeOK, Stored, Uploaders
  <2>4. Total(Stored(t)) <= Total(Taken) /\ Total(Stored(t)) \in Nat /\ Total(Taken) \in Nat
    BY <2>3, TotalMonotone, TotalType
  <2>5. Total(Taken) <= Bound
    BY <2>1 DEF Inv, Overrun
  <2>6. Bound \in Nat
    BY UploadersNumber, LargestFile, SizeAssumption
  <2>. HIDE DEF Taken, Bound
  <2>7. Total(Stored(t)) <= Bound
    BY <2>4, <2>5, <2>6
  <2>. QED
    BY <2>2, <2>7 DEF Bound
<1>. QED
  BY <1>1, Invariance, PTL

\* The results of a batch agree with the rows it left: one per file in order, and a row is
\* reported as accepted, or as failed for want of a queue.
THEOREM ResultsMatchRowsHolds ==
    Spec => []ResultsMatchRows
<1>1. Inv => ResultsMatchRows
  <2>1. SUFFICES ASSUME Inv, NEW row \in rows, row.id[2] <= Len(results[row.id[1]])
                 PROVE  Answered(row)
    BY DEF Inv, InOrder, ResultsMatchRows, Answered
  <2>2. CASE AtHand(row)
    <3>1. row.id[1] \in Requests /\ row.id[2] = Len(results[row.id[1]]) + 1
      BY <2>1, <2>2 DEF Inv, TypeOK, Rows, Ids, AtHand, NewRow, Id, Position
    <3>2. Len(results[row.id[1]]) \in Nat
      BY <2>1, <3>1 DEF Inv, TypeOK
    <3>. QED
      BY <2>1, <3>1, <3>2
  <2>. QED
    BY <2>1, <2>2 DEF Inv, RowsAccounted
<1>. QED
  BY <1>1, Invariance, PTL

=============================================================================
