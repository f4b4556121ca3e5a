---------------------------- MODULE DecisionRules ----------------------------
(***************************************************************************)
(* The fixed rules: what decide says of one row of a workbook at the business *)
(* cutoff date of its batch, and whether the decision creates a task.         *)
(* Sources: internal/batch/rules.go, shouldCreateTask in processor.go.        *)
(*                                                                         *)
(* A column that may be missing (a nil pointer) is a set of at most one       *)
(* number.  Rates count in hundredths of a percent (above 1.5% is 151), sales *)
(* in cents and days of stock in hundredths, so that every threshold of the   *)
(* code is a number and has neighbours.                                     *)
(***************************************************************************)
EXTENDS Integers

None == "none"
LossActions == {"clearance", "stop_loss"}
BusinessActions == LossActions \cup {"observe", "invest", "maintain"}
InventoryActions == {"restock", "no_restock", "prohibit_restock"}
Plans == [business: BusinessActions, inventory: InventoryActions \cup {None}]

\* The loss rule: clearance and stop-loss go with a restock ban, nothing else does.
Paired(p) == p.business \in LossActions <=> p.inventory = "prohibit_restock"

\* Outcomes of decide for which shouldCreateTask is true.
RuleOutcomes ==
    {p \in Plans : /\ Paired(p)
                   /\ p.business # "maintain" \/ p.inventory = "restock"}

-----------------------------------------------------------------------------
(* Dates.                                                                  *)

Leap(y) == y % 4 = 0 /\ (y % 100 # 0 \/ y % 400 = 0)
DaysIn(y, m) ==
    CASE m = 2 -> IF Leap(y) THEN 29 ELSE 28
      [] m \in {4, 6, 9, 11} -> 30
      [] OTHER -> 31

Dates == {d \in [year: Nat, month: 1 .. 12, day: 1 .. 31] :
             d.day <= DaysIn(d.year, d.month)}

Before(d, e) ==
    \/ d.year < e.year
    \/ d.year = e.year /\ d.month < e.month
    \/ d.year = e.year /\ d.month = e.month /\ d.day < e.day

\* AddDate(0, 2, 0): a day the month does not have runs over into the next one.
TwoMonthsLater(d) ==
    LET y == IF d.month <= 10 THEN d.year ELSE d.year + 1
        m == IF d.month <= 10 THEN d.month + 2 ELSE d.month - 10
    IN IF d.day <= DaysIn(y, m)
       THEN [year |-> y, month |-> m, day |-> d.day]
       ELSE [year |-> y, month |-> m + 1, day |-> d.day - DaysIn(y, m)]

-----------------------------------------------------------------------------
(* The evidence in a row.                                                  *)

Optional(S) == {m \in SUBSET S : \A v, w \in m : v = w}

\* A launch date may carry a time of day: "late" is one after 08:00 in Shanghai,
\* the instant of midnight UTC that the cutoff date is read as.
Launches == [date: Dates, late: BOOLEAN]

Snapshots ==
    [launch: Optional(Launches), netSales: Optional(Int), profit: Optional(Int),
     quality: Optional(Int), days: Optional(Int)]

Known(m) == m # {}
Below(m, x) == \E v \in m : v < x
AtLeast(m, x) == \E v \in m : v >= x

-----------------------------------------------------------------------------
(* The rules.                                                              *)

\* cutoff.Before(launch + two months), compared as instants.
IsNew(launch, cutoff) ==
    LET boundary == TwoMonthsLater(launch.date) IN
    \/ Before(cutoff, boundary)
    \/ cutoff = boundary /\ launch.late

\* The product type of a row, None when the evidence does not settle it.
ProductType(s, cutoff) ==
    IF ~Known(s.launch) THEN None
    ELSE IF \E launch \in s.launch : IsNew(launch, cutoff) THEN "new"
    ELSE IF ~Known(s.netSales) THEN None
    ELSE IF AtLeast(s.netSales, 10000000) THEN "large_hit"
    ELSE IF AtLeast(s.netSales, 2000000) THEN "small_hit"
    ELSE "elimination"

\* matureAction: missing returns cannot prove an investment.
MatureAction(s, clearanceBelow, stopBelow, investAt) ==
    IF ~Known(s.profit) THEN None
    ELSE IF Below(s.profit, clearanceBelow) THEN "clearance"
    ELSE IF Below(s.profit, stopBelow) THEN "stop_loss"
    ELSE IF AtLeast(s.quality, 151) THEN "observe"
    ELSE IF ~AtLeast(s.profit, investAt) THEN "maintain"
    ELSE IF Known(s.quality) THEN "invest" ELSE None

BusinessAction(s, type) ==
    CASE type = "elimination" -> "clearance"
      [] type = "new" -> IF ~Known(s.profit) THEN None
                         ELSE IF AtLeast(s.profit, -2000) THEN "invest" ELSE "observe"
      [] type = "large_hit" -> MatureAction(s, 0, 500, 1000)
      [] type = "small_hit" -> MatureAction(s, 500, 1000, 1500)
      [] OTHER -> None

\* A loss action bans restocking; otherwise mature products restock below 30 days.
InventoryAction(s, type, business) ==
    IF business \in LossActions THEN "prohibit_restock"
    ELSE IF type = "new" \/ business = None \/ ~Known(s.days) THEN None
    ELSE IF Below(s.days, 3000) THEN "restock" ELSE "no_restock"

\* decide
Decide(s, cutoff) ==
    LET type == ProductType(s, cutoff)
        business == BusinessAction(s, type)
    IN [business |-> business, inventory |-> InventoryAction(s, type, business)]

\* shouldCreateTask
ShouldCreateTask(p) ==
    p.business \notin {None, "maintain"} \/ p.inventory = "restock"

-----------------------------------------------------------------------------
(* What the rules promise.                                                 *)

\* The conditions of the PRD (AC-F03-03), each by itself.
Warrants(s, type, action) ==
    CASE action = "clearance" -> \/ type = "elimination"
                                 \/ type = "large_hit" /\ Below(s.profit, 0)
                                 \/ type = "small_hit" /\ Below(s.profit, 500)
      [] action = "stop_loss" ->
            \/ type = "large_hit" /\ AtLeast(s.profit, 0) /\ Below(s.profit, 500)
            \/ type = "small_hit" /\ AtLeast(s.profit, 500) /\ Below(s.profit, 1000)
      [] action = "observe" -> \/ type = "new" /\ Below(s.profit, -2000)
                               \/ type \in {"large_hit", "small_hit"} /\ AtLeast(s.quality, 151)
      [] action = "invest" ->
            \/ type = "new" /\ AtLeast(s.profit, -2000)
            \/ type = "large_hit" /\ AtLeast(s.profit, 1000) /\ Below(s.quality, 151)
            \/ type = "small_hit" /\ AtLeast(s.profit, 1500) /\ Below(s.quality, 151)
      [] action = "maintain" -> type # None

\* The order in which one of several is kept (AC-F03-04).
Rank == [clearance |-> 1, stop_loss |-> 2, observe |-> 3, invest |-> 4, maintain |-> 5]

\* An action is one of those the PRD's conditions warrant, and the first of them;
\* it is missing only where evidence is.
FollowsPriority(s, cutoff) ==
    LET type == ProductType(s, cutoff)
        action == Decide(s, cutoff).business
    IN /\ action # None =>
             /\ Warrants(s, type, action)
             /\ \A other \in BusinessActions :
                  Warrants(s, type, other) => Rank[action] <= Rank[other]
       /\ action = None =>
             \/ ~Known(s.launch) \/ ~Known(s.netSales)
             \/ ~Known(s.profit) \/ ~Known(s.quality)

\* t knows what s knows, and may know more.
Extends(t, s) ==
    /\ s.launch \subseteq t.launch /\ s.netSales \subseteq t.netSales
    /\ s.profit \subseteq t.profit /\ s.quality \subseteq t.quality
    /\ s.days \subseteq t.days

\* A column that was missing and is filled in never withdraws a task's action.
EvidenceOnlyAdds(s, t, cutoff) ==
    Extends(t, s) /\ Decide(s, cutoff).business \notin {None, "maintain"} =>
        Decide(t, cutoff).business = Decide(s, cutoff).business

\* A product launched later is new for as long, but for launches around the end
\* of July and of December, where the day that February lacks runs over.
LaunchOrderKept(d, e, cutoff) ==
    Before(d.date, e.date) /\ IsNew(d, cutoff) /\ ~IsNew(e, cutoff) =>
        /\ \/ d.date.month = 7 /\ d.date.day = 31
           \/ d.date.month = 12 /\ d.date.day >= 29
        /\ e.date.month \in {1, 8} /\ e.date.day <= 3
=============================================================================
