---------------------------- MODULE UsageSummary ----------------------------
(***************************************************************************)
(* GET /usage: what a tenant's usage records of the last days add up to,   *)
(* per model and in total.  A record has a cost only when prices were      *)
(* configured at the time of its call; records are written while others    *)
(* grow old and leave the window.                                          *)
(***************************************************************************)
EXTENDS Naturals, Sequences, FiniteSetsExt

CONSTANTS
    Models,
    MaxCost,   \* bound: costs, and token counts, of one call
    MaxRows,   \* bound: records
    Window,    \* days
    MaxDays    \* bound: the last day modelled

\* Of the constants.
BoundsAssumption ==
    MaxCost \in Nat /\ MaxRows \in Nat /\ Window \in Nat /\ MaxDays \in Nat

VARIABLES
    rows,    \* usage_records, in the order they were written
    priced,  \* prices are configured
    today

vars == <<rows, priced, today>>

Unknown == MaxCost * MaxRows + 1   \* NULL, None

Init == rows = <<>> /\ priced \in BOOLEAN /\ today = 0

\* _cost(): no prices, no invented cost.
Cost(tokens) == IF priced THEN tokens ELSE Unknown

Record(m, tokens) ==
    /\ Len(rows) < MaxRows
    /\ rows' = Append(rows, [model |-> m, tokens |-> tokens, cost |-> Cost(tokens), day |-> today])
    /\ UNCHANGED <<priced, today>>

\* The operator sets or removes the prices and restarts the API.
Configure == priced' = ~priced /\ UNCHANGED <<rows, today>>

NextDay == today < MaxDays /\ today' = today + 1 /\ UNCHANGED <<rows, priced>>

Next ==
    \/ \E m \in Models, tokens \in 0..MaxCost : Record(m, tokens)
    \/ Configure
    \/ NextDay

Spec == Init /\ [][Next]_vars

-----------------------------------------------------------------------------
(* The query and its roll-up. *)

Recent   == {i \in DOMAIN rows : rows[i].day + Window >= today}
Group(m) == {i \in Recent : rows[i].model = m}
Used     == {m \in Models : Group(m) # {}}

\* SUM ignores NULL.
Sum(S) == MapThenSumSet(LAMBDA i : IF rows[i].cost = Unknown THEN 0 ELSE rows[i].cost, S)

\* The filtered COUNT: one NULL and the group's cost is unknown.
GroupCost(m) == IF \E i \in Group(m) : rows[i].cost = Unknown THEN Unknown ELSE Sum(Group(m))

ByModel ==
    [m \in Used |-> [calls  |-> Cardinality(Group(m)),
                     tokens |-> MapThenSumSet(LAMBDA i : rows[i].tokens, Group(m)),
                     cost   |-> GroupCost(m)]]

\* Mutant: models of unknown cost are left out of the total.
TotalCostOfKnown ==
    MapThenSumSet(LAMBDA m : ByModel[m].cost, {m \in Used : ByModel[m].cost # Unknown})

TotalCost ==
    IF \E m \in Used : ByModel[m].cost = Unknown
    THEN Unknown
    ELSE MapThenSumSet(LAMBDA m : ByModel[m].cost, Used)

-----------------------------------------------------------------------------
(* Properties. *)

\* "A partial sum presented as the total would be a lie": a total is shown exactly when
\* every call in the window, of whichever model, has a cost, and then it is their sum.
NoPartialTotal ==
    IF \E i \in Recent : rows[i].cost = Unknown
    THEN TotalCost = Unknown
    ELSE TotalCost = Sum(Recent)

=============================================================================
