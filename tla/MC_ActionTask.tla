---------------------------- MODULE MC_ActionTask ----------------------------
(* Small instance of ActionTask for TLC.                                    *)
EXTENDS ActionTask

-----------------------------------------------------------------------------
(* Rows at the thresholds of the rules.                                    *)

Date(y, m, d) == [year |-> y, month |-> m, day |-> d]
Launch(date, late) == [date |-> date, late |-> late]
May1 == Launch(Date(2026, 5, 1), FALSE)

\* Either side of every threshold, and the column missing.
MCSnapshots ==
    [launch: {{}, {May1}}, netSales: {{}, {1999999}, {2000000}, {10000000}},
     profit: {{}} \cup {{v} : v \in {-2001, -2000, -1, 0, 499, 500, 999, 1000, 1499, 1500}},
     quality: {{}, {150}, {151}}, days: {{}, {2999}, {3000}}]
MCRuleCutoffs == {Date(2026, 6, 30), Date(2026, 7, 1)}

\* Launches around the ends of months, in a leap year and in another, and the
\* cutoff dates two months later.
MCLaunches ==
    {Launch(Date(y, m, d), late) : y \in 2023 .. 2025, m \in {1, 7, 8, 12},
                                   d \in {1, 2, 3, 28, 29, 30, 31}, late \in BOOLEAN}
MCBoundaries == {TwoMonthsLater(launch.date) : launch \in MCLaunches}

\* The theorems on the rules in ActionTaskSafety, on these rows.
ASSUME RulesChecked ==
    /\ {Decide(s, c) : s \in MCSnapshots, c \in MCRuleCutoffs} \cap
          {p \in [business: BusinessActions \cup {None},
                  inventory: InventoryActions \cup {None}] : ShouldCreateTask(p)}
       = RuleOutcomes
    /\ \A s \in MCSnapshots, c \in MCRuleCutoffs : FollowsPriority(s, c)
    /\ \A t \in MCSnapshots, c \in MCRuleCutoffs :
          \A s \in [launch: {{}, t.launch}, netSales: {{}, t.netSales},
                    profit: {{}, t.profit}, quality: {{}, t.quality},
                    days: {{}, t.days}] : EvidenceOnlyAdds(s, t, c)
    /\ \A d, e \in MCLaunches, c \in MCBoundaries : LaunchOrderKept(d, e, c)

-----------------------------------------------------------------------------
(* The instance.                                                           *)

Row(sales, profit, quality, days) ==
    [launch |-> {May1}, netSales |-> {sales}, profit |-> {profit},
     quality |-> {quality}, days |-> {days}]

\* A loss action, an action whose "no restock" leaves no inventory track.
MCSuggestions ==
    {Decide(Row(1999999, 2000, 100, 3000), Date(2026, 7, 1)),
     Decide(Row(2000000, 1200, 151, 3000), Date(2026, 7, 1))}

Plan(b, i) == [business |-> b, inventory |-> i]

\* Overrides that add, drop and keep the inventory track.
MCOverrides == {Plan("invest", "restock"), Plan("observe", "no_restock")}
=============================================================================
