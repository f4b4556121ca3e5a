--------------------------- MODULE ActionTaskSafety ---------------------------
(***************************************************************************)
(* The safety of ActionTask for every set of suggestions, overrides and      *)
(* cutoff dates and for every bound: the rules behind the suggestions, lemmas *)
(* on the helpers, the types, and the safety properties.  The inductive       *)
(* invariant adds to them only that a task without links has no history.      *)
(***************************************************************************)
EXTENDS ActionTask, TLAPS, SequenceTheorems, FiniteSetTheorems, WellFoundedInduction

-----------------------------------------------------------------------------
(* The rules behind the suggestions.                                       *)

\* A threshold lies above or not above each number that is known.
LEMMA Threshold ==
    ASSUME NEW m \in Optional(Int), NEW x \in Int
    PROVE  /\ Known(m) => (AtLeast(m, x) <=> ~Below(m, x))
           /\ ~Known(m) => ~AtLeast(m, x) /\ ~Below(m, x)
<1>1. \A v \in m : v \in Int /\ (v >= x <=> ~(v < x))
  BY DEF Optional
<1>2. \A v, w \in m : v = w
  BY DEF Optional
<1> QED BY <1>1, <1>2 DEF Known, AtLeast, Below

\* A number known to lie below one threshold lies below every higher one.
LEMMA HigherThreshold ==
    ASSUME NEW m \in Optional(Int), NEW x \in Int, NEW y \in Int, x <= y
    PROVE  (Below(m, x) => Below(m, y)) /\ (AtLeast(m, y) => AtLeast(m, x))
BY DEF Optional, AtLeast, Below

\* More evidence leaves what is known as it is.
LEMMA KnownStays ==
    ASSUME NEW S, NEW m \in Optional(S), NEW n \in Optional(S), m \subseteq n, Known(m)
    PROVE  m = n
BY DEF Optional, Known

\* The product types there are.
LEMMA TypeOfProduct ==
    ASSUME NEW s, NEW c
    PROVE  ProductType(s, c) \in {None, "new", "large_hit", "small_hit", "elimination"}
BY DEF ProductType

\* The actions there are.
LEMMA ActionOfProduct ==
    ASSUME NEW s, NEW type
    PROVE  BusinessAction(s, type) \in BusinessActions \cup {None}
<1>1. ASSUME NEW x, NEW y, NEW z
      PROVE  MatureAction(s, x, y, z) \in BusinessActions \cup {None}
  BY DEF MatureAction, BusinessActions, LossActions
<1> QED BY <1>1 DEF BusinessAction, BusinessActions, LossActions

\* Every decision that creates a task is one of the outcomes the task is modelled
\* with: a loss action with its ban, another action without it, or a restock.
THEOREM DecisionsAreOutcomes ==
    ASSUME NEW s, NEW c, ShouldCreateTask(Decide(s, c))
    PROVE  Decide(s, c) \in RuleOutcomes
<1> DEFINE type == ProductType(s, c)
           business == BusinessAction(s, type)
           inventory == InventoryAction(s, type, business)
<1>1. Decide(s, c) = [business |-> business, inventory |-> inventory]
  BY DEF Decide
<1>2. business \in BusinessActions \cup {None}
  BY ActionOfProduct
<1> HIDE DEF type, business
<1>3. /\ inventory \in InventoryActions \cup {None}
      /\ business \in LossActions <=> inventory = "prohibit_restock"
      /\ business = None => inventory = None
  BY DEF InventoryAction, InventoryActions, LossActions, None
<1> HIDE DEF inventory
<1>4. business \notin {None, "maintain"} \/ inventory = "restock"
  BY <1>1 DEF ShouldCreateTask
<1>5. business # None
  BY <1>3, <1>4 DEF None
<1> QED BY <1>1, <1>2, <1>3, <1>4, <1>5 DEF RuleOutcomes, Plans, Paired

\* And each of these outcomes is what the rules say of some row: the assumption on
\* the suggestions of ActionTask admits no other and misses none.
THEOREM OutcomesAreDecided ==
    ASSUME NEW p \in RuleOutcomes
    PROVE  \E s \in Snapshots, c \in Dates :
             Decide(s, c) = p /\ ShouldCreateTask(Decide(s, c))
<1> DEFINE profit == CASE p.business = "clearance" -> -1
                       [] p.business = "stop_loss" -> 0
                       [] p.business = "invest" -> 1000
                       [] OTHER -> 500
           quality == IF p.business = "observe" THEN 151 ELSE 150
           days == CASE p.inventory = "restock" -> {2999}
                     [] p.inventory = "no_restock" -> {3000}
                     [] OTHER -> {}
           launch == [date |-> [year |-> 2026, month |-> 5, day |-> 1], late |-> FALSE]
           c == [year |-> 2026, month |-> 7, day |-> 1]
           s == [launch |-> {launch}, netSales |-> {10000000}, profit |-> {profit},
                 quality |-> {quality}, days |-> days]
<1>1. /\ DaysIn(2026, 5) = 31 /\ DaysIn(2026, 7) = 31
  BY DEF DaysIn
<1>2. launch \in Launches /\ c \in Dates
  BY <1>1 DEF Launches, Dates
<1>3. s \in Snapshots
  <2>1. ASSUME NEW S, NEW v \in S PROVE {v} \in Optional(S) /\ {} \in Optional(S)
    BY DEF Optional
  <2>2. profit \in Int /\ quality \in Int /\ 10000000 \in Int
    OBVIOUS
  <2>3. days \in Optional(Int)
    BY DEF Optional
  <2> HIDE DEF profit, quality, days, launch
  <2> QED BY <1>2, <2>1, <2>2, <2>3 DEF Snapshots
<1>4. TwoMonthsLater(launch.date) = c
  BY <1>1 DEF TwoMonthsLater
<1>5. ~IsNew(launch, c)
  BY <1>4 DEF IsNew, Before
<1>6. ProductType(s, c) = "large_hit"
  <2> HIDE DEF profit, quality, days, launch, c
  <2> QED BY <1>5 DEF ProductType, Known, AtLeast
<1>7. /\ p = [business |-> p.business, inventory |-> p.inventory]
      /\ p.business \in BusinessActions /\ p.inventory \in InventoryActions \cup {None}
      /\ p.business \in LossActions <=> p.inventory = "prohibit_restock"
      /\ p.business # "maintain" \/ p.inventory = "restock"
  BY DEF RuleOutcomes, Plans, Paired
<1>8. BusinessAction(s, "large_hit") = p.business
  <2>1. BusinessAction(s, "large_hit") = MatureAction(s, 0, 500, 1000)
    BY DEF BusinessAction
  <2>2. /\ Known(s.profit) /\ Known(s.quality)
        /\ \A x : Below(s.profit, x) <=> profit < x
        /\ \A x : AtLeast(s.profit, x) <=> profit >= x
        /\ \A x : AtLeast(s.quality, x) <=> quality >= x
    BY DEF Known, Below, AtLeast
  <2>3. p.business \in {"clearance", "stop_loss", "observe", "invest", "maintain"}
    BY <1>7 DEF BusinessActions, LossActions
  <2> HIDE DEF s
  <2> QED BY <2>1, <2>2, <2>3 DEF MatureAction
<1>9. InventoryAction(s, "large_hit", p.business) = p.inventory
  <2>1. /\ Known(s.days) <=> p.inventory \in {"restock", "no_restock"}
        /\ p.inventory = "restock" => Below(s.days, 3000)
        /\ p.inventory = "no_restock" => ~Below(s.days, 3000)
    BY DEF Known, Below
  <2> HIDE DEF s
  <2> QED BY <1>7, <2>1 DEF InventoryAction, BusinessActions, InventoryActions, LossActions, None
<1> HIDE DEF s, c
<1>10. Decide(s, c) = p
  BY <1>6, <1>7, <1>8, <1>9 DEF Decide
<1>11. ShouldCreateTask(p)
  BY <1>7 DEF ShouldCreateTask, BusinessActions, LossActions, None
<1> QED BY <1>2, <1>3, <1>10, <1>11 DEF c

\* The chain of early returns keeps the first of the actions that the PRD's
\* conditions warrant, and decides nothing only where evidence is missing.
THEOREM RulesFollowPriority ==
    ASSUME NEW s \in Snapshots, NEW c PROVE FollowsPriority(s, c)
<1> DEFINE type == ProductType(s, c)
           action == BusinessAction(s, type)
<1>1. Decide(s, c).business = action
  BY DEF Decide
<1>2. type \in {None, "new", "large_hit", "small_hit", "elimination"}
  BY TypeOfProduct
<1>3. s.profit \in Optional(Int) /\ s.quality \in Optional(Int)
  BY DEF Snapshots
<1>4. type = None => ~Known(s.launch) \/ ~Known(s.netSales)
  BY DEF ProductType, None
<1> HIDE DEF type
<1>5. /\ Known(s.profit) => \A x \in Int : AtLeast(s.profit, x) <=> ~Below(s.profit, x)
      /\ ~Known(s.profit) => \A x \in Int : ~AtLeast(s.profit, x) /\ ~Below(s.profit, x)
      /\ Known(s.quality) => (AtLeast(s.quality, 151) <=> ~Below(s.quality, 151))
      /\ ~Known(s.quality) => ~AtLeast(s.quality, 151) /\ ~Below(s.quality, 151)
  BY <1>3, Threshold
<1>6. /\ Below(s.profit, 0) => Below(s.profit, 500)
      /\ Below(s.profit, 500) => Below(s.profit, 1000)
      /\ Below(s.profit, 1000) => Below(s.profit, 1500)
  BY <1>3, HigherThreshold
<1>7. /\ Rank["clearance"] = 1 /\ Rank["stop_loss"] = 2 /\ Rank["observe"] = 3
      /\ Rank["invest"] = 4 /\ Rank["maintain"] = 5
  BY DEF Rank
<1>8. SUFFICES
        /\ action # None =>
             /\ Warrants(s, type, action)
             /\ \A other \in BusinessActions :
                  Warrants(s, type, other) => Rank[action] <= Rank[other]
        /\ action = None => \/ ~Known(s.launch) \/ ~Known(s.netSales)
                            \/ ~Known(s.profit) \/ ~Known(s.quality)
  BY <1>1 DEF FollowsPriority, type
<1> HIDE DEF action
<1>9. CASE type = "new"
  <2>1. /\ ~Known(s.profit) => action = None
        /\ Known(s.profit) /\ AtLeast(s.profit, -2000) => action = "invest"
        /\ Known(s.profit) /\ ~AtLeast(s.profit, -2000) => action = "observe"
    BY <1>9 DEF BusinessAction, action
  <2>2. /\ ~Warrants(s, type, "clearance") /\ ~Warrants(s, type, "stop_loss")
        /\ Warrants(s, type, "observe") <=> Below(s.profit, -2000)
        /\ Warrants(s, type, "invest") <=> AtLeast(s.profit, -2000)
        /\ Warrants(s, type, "maintain")
    BY <1>9 DEF Warrants, None
  <2> QED BY <1>5, <1>7, <2>1, <2>2 DEF BusinessActions, LossActions, None
<1>10. CASE type = "large_hit"
  <2>1. action = MatureAction(s, 0, 500, 1000)
    BY <1>10 DEF BusinessAction, action
  <2>2. /\ Warrants(s, type, "clearance") <=> Below(s.profit, 0)
        /\ Warrants(s, type, "stop_loss") <=> AtLeast(s.profit, 0) /\ Below(s.profit, 500)
        /\ Warrants(s, type, "observe") <=> AtLeast(s.quality, 151)
        /\ Warrants(s, type, "invest") <=> AtLeast(s.profit, 1000) /\ Below(s.quality, 151)
        /\ Warrants(s, type, "maintain")
    BY <1>10 DEF Warrants, None
  <2> QED BY <1>5, <1>6, <1>7, <2>1, <2>2 DEF MatureAction, BusinessActions, LossActions, None
<1>11. CASE type = "small_hit"
  <2>1. action = MatureAction(s, 500, 1000, 1500)
    BY <1>11 DEF BusinessAction, action
  <2>2. /\ Warrants(s, type, "clearance") <=> Below(s.profit, 500)
        /\ Warrants(s, type, "stop_loss") <=> AtLeast(s.profit, 500) /\ Below(s.profit, 1000)
        /\ Warrants(s, type, "observe") <=> AtLeast(s.quality, 151)
        /\ Warrants(s, type, "invest") <=> AtLeast(s.profit, 1500) /\ Below(s.quality, 151)
        /\ Warrants(s, type, "maintain")
    BY <1>11 DEF Warrants, None
  <2> QED BY <1>5, <1>6, <1>7, <2>1, <2>2 DEF MatureAction, BusinessActions, LossActions, None
<1>12. CASE type = "elimination"
  <2>1. action = "clearance" /\ Warrants(s, type, "clearance")
    BY <1>12 DEF BusinessAction, Warrants, action
  <2> QED BY <1>7, <2>1 DEF BusinessActions, LossActions, None
<1>13. CASE type = None
  BY <1>4, <1>13 DEF BusinessAction, None, action
<1> QED BY <1>2, <1>9, <1>10, <1>11, <1>12, <1>13

\* A column filled in later never withdraws an action that created a task.
THEOREM EvidenceOnlyAddsHolds ==
    ASSUME NEW s \in Snapshots, NEW t \in Snapshots, NEW c PROVE EvidenceOnlyAdds(s, t, c)
<1> SUFFICES ASSUME Extends(t, s), Decide(s, c).business \notin {None, "maintain"}
             PROVE  Decide(t, c).business = Decide(s, c).business
  BY DEF EvidenceOnlyAdds
<1> DEFINE type == ProductType(s, c)
<1>1. /\ Decide(s, c).business = BusinessAction(s, type)
      /\ Decide(t, c).business = BusinessAction(t, ProductType(t, c))
  BY DEF Decide
<1>2. type # None
  BY <1>1 DEF BusinessAction, None
<1>3. /\ s.launch \in Optional(Launches) /\ t.launch \in Optional(Launches)
      /\ s.netSales \in Optional(Int) /\ t.netSales \in Optional(Int)
      /\ s.profit \in Optional(Int) /\ t.profit \in Optional(Int)
      /\ s.quality \in Optional(Int) /\ t.quality \in Optional(Int)
      /\ s.launch \subseteq t.launch /\ s.netSales \subseteq t.netSales
      /\ s.profit \subseteq t.profit /\ s.quality \subseteq t.quality
  BY DEF Snapshots, Extends
<1>4. /\ Known(s.launch) => s.launch = t.launch
      /\ Known(s.netSales) => s.netSales = t.netSales
      /\ Known(s.profit) => s.profit = t.profit
      /\ Known(s.quality) => s.quality = t.quality
  BY <1>3, KnownStays
<1>5. ProductType(t, c) = type
  BY <1>2, <1>4 DEF ProductType, None
<1> HIDE DEF type
<1>6. BusinessAction(s, type) \notin {None, "maintain"}
  BY <1>1
<1>7. ~Known(s.quality) => ~AtLeast(s.quality, 151)
  BY <1>3, Threshold
<1>8. ASSUME NEW x, NEW y, NEW z, MatureAction(s, x, y, z) \notin {None, "maintain"}
      PROVE  MatureAction(t, x, y, z) = MatureAction(s, x, y, z)
  <2>1. s.profit = t.profit
    BY <1>4, <1>8 DEF MatureAction
  <2>2. CASE Known(s.quality)
    BY <1>4, <2>1, <2>2 DEF MatureAction
  <2>3. CASE ~Known(s.quality)
    BY <1>7, <1>8, <2>1, <2>3 DEF MatureAction
  <2> QED BY <2>2, <2>3
<1>9. BusinessAction(t, type) = BusinessAction(s, type)
  <2>1. CASE type \in {"large_hit", "small_hit"}
    BY <1>6, <1>8, <2>1 DEF BusinessAction
  <2>2. CASE type \notin {"large_hit", "small_hit"}
    BY <1>4, <1>6, <2>2 DEF BusinessAction
  <2> QED BY <2>1, <2>2
<1> QED BY <1>1, <1>5, <1>9

\* Two months later is the same day, but for the last of July and of December.
LEMMA TwoMonths ==
    ASSUME NEW d \in Dates
    PROVE  LET x == TwoMonthsLater(d)
               y == IF d.month <= 10 THEN d.year ELSE d.year + 1
               m == IF d.month <= 10 THEN d.month + 2 ELSE d.month - 10
           IN \/ d.day <= DaysIn(y, m) /\ x = [year |-> y, month |-> m, day |-> d.day]
              \/ /\ d.month = 7 /\ d.day = 31
                 /\ x = [year |-> d.year, month |-> 10, day |-> 1]
              \/ /\ d.month = 12 /\ d.day >= 29 /\ d.day > DaysIn(d.year + 1, 2)
                 /\ x = [year |-> d.year + 1, month |-> 3,
                         day |-> d.day - DaysIn(d.year + 1, 2)]
<1> DEFINE y == IF d.month <= 10 THEN d.year ELSE d.year + 1
           m == IF d.month <= 10 THEN d.month + 2 ELSE d.month - 10
<1>1. d.year \in Nat /\ d.month \in 1 .. 12 /\ d.day \in 1 .. 31 /\ d.day <= DaysIn(d.year, d.month)
  BY DEF Dates
<1>2. DaysIn(y, 2) \in {28, 29}
  BY DEF DaysIn
<1>3. /\ m # 2 => DaysIn(y, m) = (IF m \in {4, 6, 9, 11} THEN 30 ELSE 31)
      /\ d.month # 2 => DaysIn(d.year, d.month) =
                          (IF d.month \in {4, 6, 9, 11} THEN 30 ELSE 31)
      /\ DaysIn(d.year, 2) \in {28, 29}
  BY DEF DaysIn
<1>4. TwoMonthsLater(d) =
        IF d.day <= DaysIn(y, m) THEN [year |-> y, month |-> m, day |-> d.day]
        ELSE [year |-> y, month |-> m + 1, day |-> d.day - DaysIn(y, m)]
  BY DEF TwoMonthsLater
<1>5. CASE d.day <= DaysIn(y, m)
  BY <1>4, <1>5
<1>6. CASE ~(d.day <= DaysIn(y, m))
  <2>1. (d.month = 7 /\ d.day = 31) \/ (d.month = 12 /\ d.day >= 29)
    BY <1>1, <1>2, <1>3, <1>6
  <2> QED BY <1>1, <1>2, <1>3, <1>4, <1>6, <2>1
<1> QED BY <1>5, <1>6

\* The dates two months later keep the order of the launches, except where the
\* day runs over the end of September or of February.
THEOREM LaunchOrderKeptHolds ==
    ASSUME NEW d \in Launches, NEW e \in Launches, NEW c \in Dates
    PROVE  LaunchOrderKept(d, e, c)
<1> SUFFICES ASSUME Before(d.date, e.date), IsNew(d, c), ~IsNew(e, c)
             PROVE  /\ \/ d.date.month = 7 /\ d.date.day = 31
                       \/ d.date.month = 12 /\ d.date.day >= 29
                    /\ e.date.month \in {1, 8} /\ e.date.day <= 3
  BY DEF LaunchOrderKept
<1>1. PICK a, b : a = d.date /\ b = e.date
  OBVIOUS
<1>2. /\ a \in Dates /\ b \in Dates
      /\ a.year \in Nat /\ a.month \in 1 .. 12 /\ a.day \in 1 .. 31
      /\ b.year \in Nat /\ b.month \in 1 .. 12 /\ b.day \in 1 .. 31
      /\ c.year \in Nat /\ c.month \in 1 .. 12 /\ c.day \in 1 .. 31
  BY <1>1 DEF Launches, Dates
<1>3. PICK x, y : x = TwoMonthsLater(a) /\ y = TwoMonthsLater(b)
  OBVIOUS
<1>4. \/ /\ a.month = 12 => a.day <= DaysIn(a.year + 1, 2)
         /\ x = [year |-> IF a.month <= 10 THEN a.year ELSE a.year + 1,
                 month |-> IF a.month <= 10 THEN a.month + 2 ELSE a.month - 10,
                 day |-> a.day]
      \/ a.month = 7 /\ a.day = 31 /\ x = [year |-> a.year, month |-> 10, day |-> 1]
      \/ /\ a.month = 12 /\ a.day >= 29 /\ a.day > DaysIn(a.year + 1, 2)
         /\ x = [year |-> a.year + 1, month |-> 3,
                 day |-> a.day - DaysIn(a.year + 1, 2)]
  BY <1>2, <1>3, TwoMonths
<1>5. \/ /\ b.month = 12 => b.day <= DaysIn(b.year + 1, 2)
         /\ y = [year |-> IF b.month <= 10 THEN b.year ELSE b.year + 1,
                 month |-> IF b.month <= 10 THEN b.month + 2 ELSE b.month - 10,
                 day |-> b.day]
      \/ b.month = 7 /\ b.day = 31 /\ y = [year |-> b.year, month |-> 10, day |-> 1]
      \/ /\ b.month = 12 /\ b.day >= 29 /\ b.day > DaysIn(b.year + 1, 2)
         /\ y = [year |-> b.year + 1, month |-> 3,
                 day |-> b.day - DaysIn(b.year + 1, 2)]
  BY <1>2, <1>3, TwoMonths
<1>6. \A n : DaysIn(n, 2) \in {28, 29}
  BY DEF DaysIn
<1>7. ~Before(x, y)
  <2>1. Before(c, x) \/ c = x
    BY <1>1, <1>3 DEF IsNew
  <2>2. ~Before(c, y)
    BY <1>1, <1>3 DEF IsNew
  <2>3. x.year \in Int /\ x.month \in Int /\ x.day \in Int
    BY <1>2, <1>4, <1>6
  <2>4. y.year \in Int /\ y.month \in Int /\ y.day \in Int
    BY <1>2, <1>5, <1>6
  <2> QED BY <1>2, <2>1, <2>2, <2>3, <2>4 DEF Before
<1>8. Before(a, b)
  BY <1>1
<1>9. (a.month = 7 /\ a.day = 31) \/ (a.month = 12 /\ a.day >= 29)
  BY <1>2, <1>4, <1>5, <1>6, <1>7, <1>8 DEF Before
<1>10. b.month \in {1, 8} /\ b.day <= 3
  <2>1. CASE a.month = 7 /\ a.day = 31
    BY <1>2, <1>4, <1>5, <1>6, <1>7, <1>8, <2>1 DEF Before
  <2>2. CASE a.month = 12 /\ a.day >= 29
    <3>1. /\ x.year = a.year + 1 /\ x.month \in {2, 3} /\ x.day \in 1 .. 31
          /\ x.month = 3 => x.day = a.day - DaysIn(a.year + 1, 2)
      BY <1>2, <1>4, <1>6, <2>2
    <3>2. CASE b.year = a.year
      <4>1. b.month = 12 /\ b.day > a.day
        BY <1>2, <1>8, <2>2, <3>2 DEF Before
      <4> QED BY <1>2, <1>4, <1>5, <1>6, <1>7, <2>2, <3>2, <4>1 DEF Before
    <3>3. CASE b.year = a.year + 1
      BY <1>2, <1>5, <1>6, <1>7, <2>2, <3>1, <3>3 DEF Before
    <3>4. CASE b.year > a.year + 1
      BY <1>2, <1>5, <1>6, <1>7, <3>1, <3>4 DEF Before
    <3> QED BY <1>2, <1>8, <3>2, <3>3, <3>4 DEF Before
  <2> QED BY <1>9, <2>1, <2>2
<1> QED BY <1>1, <1>9, <1>10

-----------------------------------------------------------------------------
(* What the two lookups of the worker return.                              *)

\* A non-empty set of naturals has a least element.
LEMMA LeastNatural ==
    ASSUME NEW S \in SUBSET Nat, S # {}
    PROVE  \E m \in S : \A x \in S : m <= x
<1>1. PICK m \in S : \A x \in S : ~ (<<x, m>> \in OpToRel(<, Nat))
  BY NatLessThanWellFounded, WFMin
<1>2. \A x \in S : ~ (x < m)
  BY <1>1 DEF OpToRel
<1> QED
  BY <1>2

\* A non-empty set of naturals with an upper bound has a greatest element.
LEMMA GreatestNatural ==
    ASSUME NEW S \in SUBSET Nat, S # {}, NEW b \in Nat, \A x \in S : x <= b
    PROVE  \E m \in S : \A x \in S : x <= m
<1> DEFINE T == {b - x : x \in S}
<1>1. T \in SUBSET Nat /\ T # {}
  <2>1. \A x \in S : x \in Nat /\ b - x \in Nat
    OBVIOUS
  <2>2. PICK x \in S : TRUE
    OBVIOUS
  <2>3. b - x \in T
    BY <2>2
  <2> QED BY <2>1, <2>3
<1>2. PICK d \in T : \A y \in T : d <= y
  <2> HIDE DEF T
  <2> QED BY <1>1, LeastNatural
<1>3. PICK m \in S : d = b - m
  BY <1>2
<1>4. ASSUME NEW x \in S PROVE x <= m
  <2>1. b - x \in T
    OBVIOUS
  <2>2. b - m <= b - x
    BY <1>2, <1>3, <2>1
  <2>3. x \in Nat /\ m \in Nat
    OBVIOUS
  <2> HIDE DEF T
  <2> QED BY <2>2, <2>3
<1> HIDE DEF T
<1> QED
  BY <1>4
\* The columns of a link and of a revision.
LEMMA LinkRowFields ==
    ASSUME NEW r \in LinkRows
    PROVE  /\ r.cutoff \in Nat /\ r.relation \in Relations /\ r.review \in ReviewStatus
           /\ r.reviewVersion \in Nat /\ r.reviewVersion + 1 \in Nat
           /\ r.revision \in Nat /\ r.previous \in Nat
  BY DEF LinkRows

\* The columns of a revision row have their types.
LEMMA RevisionRowFields ==
    ASSUME NEW r \in RevisionRows
    PROVE  /\ r.business \in BusinessActions
           /\ r.inventory \in InventoryActions \cup {None}
           /\ r.status \in RevisionStatus
  BY DEF RevisionRows

\* The columns of a task, and the next value of each version.
LEMMA TaskRowFields ==
    ASSUME NEW r \in TaskRows
    PROVE  /\ r.business \in BusinessActions
           /\ r.inventory \in InventoryActions \cup {None}
           /\ r.review \in ReviewStatus
           /\ r.bstate \in BusinessStates /\ r.istate \in InventoryStates
           /\ r.reviewVersion \in Nat /\ r.reviewVersion + 1 \in Nat
           /\ r.bversion \in Nat /\ r.bversion + 1 \in Nat
           /\ r.iversion \in Nat /\ r.iversion + 1 \in Nat
           /\ r.executedAt \in BOOLEAN
  BY DEF TaskRows

\* A continuation finds a revision to go on with: an open one, or its own.
LEMMA ContinuedRevision ==
    ASSUME revs \in Seq(RevisionRows), NEW r \in ContinuedRevisions
    PROVE  /\ r \in Nat
           /\ OpenRevisions = {} => r = Len(revs) + 1
           /\ OpenRevisions # {} => r \in DOMAIN revs
  BY DEF ContinuedRevisions, OpenRevisions

\* The previous link is 0 or a link of an earlier week.
LEMMA PreviousLinkIsEarlier ==
    ASSUME NEW c, NEW l \in PreviousLinks(c)
    PROVE  l \in Earlier(c) \cup {0}
  BY DEF PreviousLinks

\* There always is one to choose, so that no weekly decision waits for it.
LEMMA PreviousLinkExists ==
    ASSUME links \in Seq(LinkRows), NEW c \in Nat
    PROVE  PreviousLinks(c) # {}
<1>1. CASE Earlier(c) = {}
  BY <1>1 DEF PreviousLinks
<1>2. CASE Earlier(c) # {}
  <2> DEFINE Weeks == {links[i].cutoff : i \in Earlier(c)}
  <2>1. \A i \in Earlier(c) : links[i].cutoff \in Nat /\ links[i].cutoff <= c
    BY ElementOfSeq, LinkRowFields DEF Earlier
  <2>2. Weeks \in SUBSET Nat /\ Weeks # {} /\ \A w \in Weeks : w <= c
    BY <1>2, <2>1
  <2>3. PICK w \in Weeks : \A x \in Weeks : x <= w
    <3> HIDE DEF Weeks
    <3> QED BY <2>2, GreatestNatural
  <2>4. PICK i \in Earlier(c) : links[i].cutoff = w
    BY <2>3
  <2>5. i \in PreviousLinks(c)
    BY <1>2, <2>3, <2>4 DEF PreviousLinks
  <2> QED BY <2>5
<1> QED BY <1>1, <1>2

-----------------------------------------------------------------------------
(* Types.                                                                  *)

\* The executable form of a rule outcome is a plan that keeps the loss rule.
LEMMA ExecutedPlan ==
    ASSUME NEW p \in Suggestions
    PROVE  /\ Executed(p) \in Plans
           /\ Executed(p).business \in BusinessActions
           /\ Executed(p).inventory \in InventoryActions \cup {None}
           /\ Paired(Executed(p))
  BY SuggestionsAssumption
  DEF RuleOutcomes, Plans, Executed, Executable, Paired, InventoryActions, None

\* A revision made of a plan is a row.
LEMMA RevisionType ==
    ASSUME NEW p, p.business \in BusinessActions,
           p.inventory \in InventoryActions \cup {None}, NEW s \in RevisionStatus
    PROVE  Revision(p, s) \in RevisionRows
  BY DEF Revision, RevisionRows

\* Setting the status of a revision row gives a revision row.
LEMMA RevisionUpdateType ==
    ASSUME NEW r \in RevisionRows, NEW s \in RevisionStatus
    PROVE  [r EXCEPT !.status = s] \in RevisionRows
  BY DEF RevisionRows

\* A new link of the worker is a row.
LEMMA NewLinkType ==
    ASSUME links \in Seq(LinkRows), NEW p \in Suggestions, NEW c \in Cutoffs,
           NEW k \in Relations, NEW r \in Nat, NEW s \in ReviewStatus,
           NEW m \in PreviousLinks(c) \cup {0}
    PROVE  NewLink(p, c, k, r, s, m) \in LinkRows
<1>1. c \in Nat
  BY CutoffsAssumption
<1>2. m \in Nat
  BY PreviousLinkIsEarlier DEF Earlier
<1> QED
  BY <1>1, <1>2, ExecutedPlan DEF NewLink, LinkRows

\* The two updates of revisions keep rows rows and the number of revisions.
LEMMA RetireType ==
    ASSUME revs \in Seq(RevisionRows), NEW from, NEW to \in RevisionStatus
    PROVE  /\ Retire(from, to) \in Seq(RevisionRows)
           /\ Len(Retire(from, to)) = Len(revs)
           /\ DOMAIN Retire(from, to) = DOMAIN revs
<1>1. \A i \in DOMAIN revs :
        (IF revs[i].status \in from THEN [revs[i] EXCEPT !.status = to] ELSE revs[i])
          \in RevisionRows
  BY RevisionUpdateType, ElementOfSeq
<1>2. DOMAIN revs = 1 .. Len(revs) /\ Len(revs) \in Nat
  OBVIOUS
<1> QED
  BY <1>1, <1>2, IsASeq, LenProperties DEF Retire

\* Updating one revision keeps rows rows and their number.
LEMMA SetStatusType ==
    ASSUME NEW rs \in Seq(RevisionRows), NEW i \in DOMAIN rs, NEW from,
           NEW to \in RevisionStatus
    PROVE  /\ SetStatus(rs, i, from, to) \in Seq(RevisionRows)
           /\ Len(SetStatus(rs, i, from, to)) = Len(rs)
           /\ DOMAIN SetStatus(rs, i, from, to) = DOMAIN rs
<1>1. \A k \in DOMAIN rs :
        (IF k = i /\ rs[k].status = from THEN [rs[k] EXCEPT !.status = to] ELSE rs[k])
          \in RevisionRows
  BY RevisionUpdateType, ElementOfSeq
<1>2. DOMAIN rs = 1 .. Len(rs) /\ Len(rs) \in Nat
  OBVIOUS
<1> QED
  BY <1>1, <1>2, IsASeq, LenProperties DEF SetStatus

\* The empty database has the right types.
LEMMA TypeInit == Init => TypeOK
  BY EmptySeq DEF Init, TypeOK, Exists, EventTypes

\* Types of what the actions on the task row alone leave.
LEMMA TypeLog ==
    ASSUME TypeOK, NEW e \in EventTypes, Log(e)
    PROVE  events' \in [EventTypes -> Nat]
  BY DEF TypeOK, Log

\* linkDecisionToTask keeps the types, in each of its three branches.
LEMMA TypeWorker == ASSUME TypeOK, Worker PROVE TypeOK'
<1> SUFFICES ASSUME NEW p \in Suggestions, NEW c \in Cutoffs,
                    StartTask(p, c) \/ ContinueTask(p, c) \/ ChangeTask(p, c)
             PROVE  TypeOK'
  BY DEF Worker
<1> DEFINE w == Executed(p)
<1>w. /\ w.business \in BusinessActions
      /\ w.inventory \in InventoryActions \cup {None}
  BY ExecutedPlan
<1>t. revs \in Seq(RevisionRows) /\ links \in Seq(LinkRows)
  BY DEF TypeOK
<1>d. \A l \in DOMAIN links : links[l].revision \in DOMAIN revs
  BY DEF TypeOK
<1>l. ASSUME NEW k \in Relations, NEW r \in Nat, NEW s \in ReviewStatus,
             NEW m \in PreviousLinks(c) \cup {0}
      PROVE  /\ NewLink(p, c, k, r, s, m) \in LinkRows
             /\ NewLink(p, c, k, r, s, m).revision = r
  BY <1>t, NewLinkType DEF NewLink
<1>r. ASSUME NEW s \in RevisionStatus
      PROVE  Revision(w, s) \in RevisionRows
  BY <1>w, RevisionType
<1>e. events' \in [EventTypes -> Nat]
  <2>1. \E k \in Relations : Log(k)
    BY DEF StartTask, ContinueTask, ChangeTask, Relations
  <2> QED BY <2>1, TypeLog DEF EventTypes
<1> HIDE DEF w
<1>1. CASE StartTask(p, c)
  <2>1. task' \in TaskRows
    BY <1>1, <1>w DEF StartTask, InventoryTrack, TaskRows, w, ReviewStatus,
       BusinessStates, InventoryStates
  <2>2. Revision(w, "pending_review") \in RevisionRows
    BY <1>r DEF RevisionStatus
  <2>3. /\ NewLink(p, c, "new_task", 1, "pending", 0) \in LinkRows
        /\ NewLink(p, c, "new_task", 1, "pending", 0).revision = 1
    BY <1>l DEF Relations, ReviewStatus
  <2>4. /\ revs' = <<Revision(w, "pending_review")>>
        /\ links' = <<NewLink(p, c, "new_task", 1, "pending", 0)>>
        /\ UNCHANGED completions
    BY <1>1 DEF StartTask, w
  <2>5. revs' \in Seq(RevisionRows) /\ links' \in Seq(LinkRows) /\ links' # <<>>
    BY <2>2, <2>3, <2>4
  <2>6. \A l \in DOMAIN links' : links'[l].revision \in DOMAIN revs'
    BY <2>3, <2>4
  <2> QED
    BY <1>e, <2>1, <2>4, <2>5, <2>6 DEF TypeOK, Exists
<1>2. CASE ContinueTask(p, c)
  <2>a. PICK rev \in ContinuedRevisions, m \in PreviousLinks(c) :
          links' = Append(links, NewLink(p, c, "same_action_continuation", rev,
                                         task.review, m))
    BY <1>2 DEF ContinueTask
  <2> DEFINE none == OpenRevisions = {}
             s    == IF task.review = "approved" THEN "active" ELSE "pending_review"
             new  == NewLink(p, c, "same_action_continuation", rev, task.review, m)
  <2>0. task \in TaskRows /\ links # <<>>
    BY <1>2 DEF ContinueTask, TypeOK, Exists
  <2>1. task.review \in ReviewStatus
    BY <2>0 DEF TaskRows
  <2>2. Revision(w, s) \in RevisionRows
    BY <1>r DEF RevisionStatus
  <2>4. rev \in Nat /\ (~none => rev \in DOMAIN revs) /\ (none => rev = Len(revs) + 1)
    BY <1>t, ContinuedRevision
  <2>5. new \in LinkRows /\ new.revision = rev
    BY <1>l, <2>1, <2>4 DEF Relations
  <2>6. /\ revs' = IF none THEN Append(revs, Revision(w, s)) ELSE revs
        /\ links' = Append(links, new)
        /\ UNCHANGED <<task, completions>>
    BY <1>2, <2>a DEF ContinueTask, w
  <2> HIDE DEF new
  <2>7. /\ revs' \in Seq(RevisionRows) /\ links' \in Seq(LinkRows)
        /\ DOMAIN revs \subseteq DOMAIN revs' /\ rev \in DOMAIN revs'
    <3>1. CASE none
      <4>1. revs' = Append(revs, Revision(w, s)) /\ rev = Len(revs) + 1
        BY <2>4, <2>6, <3>1
      <4> HIDE DEF s, none
      <4> QED BY <1>t, <2>2, <2>5, <2>6, <4>1, AppendProperties
    <3>2. CASE ~none
      <4>1. revs' = revs
        BY <2>6, <3>2
      <4> HIDE DEF s, none
      <4> QED BY <1>t, <2>4, <2>5, <2>6, <3>2, <4>1, AppendProperties
    <3> QED BY <3>1, <3>2
  <2> HIDE DEF none, s
  <2>8. ASSUME NEW l \in DOMAIN links'
        PROVE  links'[l].revision \in DOMAIN revs'
    <3>1. CASE l = Len(links) + 1
      BY <1>t, <2>5, <2>6, <2>7, <3>1, AppendProperties
    <3>2. CASE l # Len(links) + 1
      <4>1. l \in DOMAIN links /\ links'[l] = links[l]
        BY <1>t, <2>5, <2>6, <3>2, AppendProperties
      <4> QED BY <1>d, <2>7, <4>1
    <3> QED BY <3>1, <3>2
  <2>9. links' # <<>>
    BY <1>t, <2>5, <2>6, AppendProperties
  <2> QED
    BY <1>e, <2>0, <2>6, <2>7, <2>8, <2>9 DEF TypeOK, Exists
<1>3. CASE ChangeTask(p, c)
  <2>a. PICK m \in PreviousLinks(c) :
          links' = Append(links, NewLink(p, c, "action_change_pending", Len(revs) + 1,
                                         "pending", m))
    BY <1>3 DEF ChangeTask
  <2> DEFINE rev == Revision(w, "pending_review")
             new == NewLink(p, c, "action_change_pending", Len(revs) + 1, "pending", m)
  <2>0. task \in TaskRows /\ links # <<>>
    BY <1>3 DEF ChangeTask, TypeOK, Exists
  <2>1. rev \in RevisionRows
    BY <1>r DEF RevisionStatus
  <2>2. Len(revs) + 1 \in Nat
    BY <1>t
  <2>3. new \in LinkRows /\ new.revision = Len(revs) + 1
    BY <1>l, <2>2 DEF Relations, ReviewStatus
  <2>4. /\ revs' = Append(revs, rev)
        /\ links' = Append(links, new)
        /\ UNCHANGED <<task, completions>>
    BY <1>3, <2>a DEF ChangeTask, w
  <2> HIDE DEF rev, new
  <2>5. /\ revs' \in Seq(RevisionRows) /\ links' \in Seq(LinkRows)
        /\ DOMAIN revs \subseteq DOMAIN revs' /\ Len(revs) + 1 \in DOMAIN revs'
    BY <1>t, <2>1, <2>3, <2>4, AppendProperties
  <2>6. ASSUME NEW l \in DOMAIN links'
        PROVE  links'[l].revision \in DOMAIN revs'
    <3>1. CASE l = Len(links) + 1
      BY <1>t, <2>3, <2>4, <2>5, <3>1, AppendProperties
    <3>2. CASE l # Len(links) + 1
      <4>1. l \in DOMAIN links /\ links'[l] = links[l]
        BY <1>t, <2>3, <2>4, <3>2, AppendProperties
      <4> QED BY <1>d, <2>5, <4>1
    <3> QED BY <3>1, <3>2
  <2>7. links' # <<>>
    BY <1>t, <2>3, <2>4, AppendProperties
  <2> QED
    BY <1>e, <2>0, <2>4, <2>5, <2>6, <2>7 DEF TypeOK, Exists
<1> QED
  BY <1>1, <1>2, <1>3

\* The row after a decision on link l, and after its revision is replaced.
LEMMA TypeReviewed ==
    ASSUME links \in Seq(LinkRows), NEW l \in DOMAIN links,
           NEW d \in ReviewStatus, Reviewed(l, d)
    PROVE  /\ links' \in Seq(LinkRows)
           /\ DOMAIN links' = DOMAIN links /\ links' # <<>>
           /\ \A k \in DOMAIN links : links'[k].revision = links[k].revision
<1> DEFINE row == [links[l] EXCEPT !.review = d, !.reviewVersion = @ + 1]
<1>1. links[l] \in LinkRows /\ links[l].reviewVersion + 1 \in Nat
  BY LinkRowFields
<1>2. ASSUME NEW r \in LinkRows, NEW n \in Nat
      PROVE  /\ [r EXCEPT !.review = d, !.reviewVersion = n] \in LinkRows
             /\ [r EXCEPT !.review = d, !.reviewVersion = n].revision = r.revision
  BY DEF LinkRows
<1>3. row \in LinkRows /\ row.revision = links[l].revision
  BY <1>1, <1>2
<1>4. links' = [links EXCEPT ![l] = row]
  BY DEF Reviewed
<1> HIDE DEF row
<1> QED
  BY <1>3, <1>4, ExceptSeq, LenProperties

\* Moving a link to another revision keeps the types of the links.
LEMMA TypeRevised ==
    ASSUME links \in Seq(LinkRows), NEW l \in DOMAIN links, NEW n \in Nat,
           Revised(l, n)
    PROVE  /\ links' \in Seq(LinkRows)
           /\ DOMAIN links' = DOMAIN links /\ links' # <<>>
           /\ links'[l].revision = n
           /\ \A k \in DOMAIN links : k # l => links'[k].revision = links[k].revision
<1> DEFINE row == [links[l] EXCEPT !.revision = n, !.reviewVersion = @ + 1]
<1>1. links[l] \in LinkRows /\ links[l].reviewVersion + 1 \in Nat
  BY LinkRowFields
<1>2. ASSUME NEW r \in LinkRows, NEW k \in Nat
      PROVE  /\ [r EXCEPT !.revision = n, !.reviewVersion = k] \in LinkRows
             /\ [r EXCEPT !.revision = n, !.reviewVersion = k].revision = n
  BY DEF LinkRows
<1>3. row \in LinkRows /\ row.revision = n
  BY <1>1, <1>2
<1>4. links' = [links EXCEPT ![l] = row]
  BY DEF Revised
<1> HIDE DEF row
<1>5. links' \in Seq(LinkRows) /\ DOMAIN links' = DOMAIN links
  BY <1>3, <1>4, ExceptSeq, LenProperties
<1>6. links'[l] = row /\ \A k \in DOMAIN links : k # l => links'[k] = links[k]
  BY <1>4
<1> QED
  BY <1>3, <1>5, <1>6

\* Review with an approval keeps the types.
LEMMA TypeApprove ==
    ASSUME TypeOK, NEW l, NEW v, Approve(l, v)
    PROVE  TypeOK'
<1> DEFINE r == revs[links[l].revision]
<1>0. l \in DOMAIN links /\ links # <<>> /\ UNCHANGED completions
  BY DEF Approve, Reviewable
<1>1. /\ task \in TaskRows /\ revs \in Seq(RevisionRows) /\ links \in Seq(LinkRows)
      /\ \A k \in DOMAIN links : links[k].revision \in DOMAIN revs
  BY <1>0 DEF TypeOK, Exists
<1>2. /\ links' \in Seq(LinkRows) /\ DOMAIN links' = DOMAIN links /\ links' # <<>>
      /\ \A k \in DOMAIN links : links'[k].revision = links[k].revision
  BY <1>0, <1>1, TypeReviewed DEF Approve, ReviewStatus
<1>3. events' \in [EventTypes -> Nat]
  BY TypeLog DEF Approve, EventTypes
<1>4. /\ r.business \in BusinessActions
      /\ r.inventory \in InventoryActions \cup {None}
  BY <1>0, <1>1, RevisionRowFields
<1>5. /\ task' \in TaskRows /\ revs' \in Seq(RevisionRows)
      /\ DOMAIN revs' = DOMAIN revs
  <2>1. CASE Applies(l)
    <3> DEFINE kept == Retire({"active"}, "superseded")
    <3>1. /\ revs' = SetStatus(kept, links[l].revision, "pending_review", "active")
          /\ task' = [task EXCEPT
                  !.business = r.business, !.inventory = r.inventory,
                  !.review = "approved", !.reviewVersion = @ + 1,
                  !.bstate = "pending_execution",
                  !.istate = InventoryTrack(r.inventory, "pending_execution")]
      BY <2>1 DEF Approve
    <3>2. kept \in Seq(RevisionRows) /\ DOMAIN kept = DOMAIN revs
      BY <1>1, RetireType DEF RevisionStatus
    <3> HIDE DEF kept
    <3>3. revs' \in Seq(RevisionRows) /\ DOMAIN revs' = DOMAIN revs
      BY <1>0, <1>1, <3>1, <3>2, SetStatusType DEF RevisionStatus
    <3>4. task' \in TaskRows
      <4> HIDE DEF r
      <4> QED BY <1>1, <1>4, <3>1, TaskRowFields DEF TaskRows, InventoryTrack, ReviewStatus,
                 BusinessStates, InventoryStates
    <3> QED BY <3>3, <3>4
  <2>2. CASE ~Applies(l)
    BY <1>1, <2>2 DEF Approve
  <2> QED BY <2>1, <2>2
<1> QED
  BY <1>0, <1>1, <1>2, <1>3, <1>5 DEF TypeOK, Exists

\* Review with a rejection keeps the types.
LEMMA TypeReject ==
    ASSUME TypeOK, NEW l, NEW v, Reject(l, v)
    PROVE  TypeOK'
<1>0. l \in DOMAIN links /\ links # <<>> /\ UNCHANGED completions
  BY DEF Reject, Reviewable
<1>1. /\ task \in TaskRows /\ revs \in Seq(RevisionRows) /\ links \in Seq(LinkRows)
      /\ \A k \in DOMAIN links : links[k].revision \in DOMAIN revs
  BY <1>0 DEF TypeOK, Exists
<1>2. /\ links' \in Seq(LinkRows) /\ DOMAIN links' = DOMAIN links /\ links' # <<>>
      /\ \A k \in DOMAIN links : links'[k].revision = links[k].revision
  BY <1>0, <1>1, TypeReviewed DEF Reject, ReviewStatus
<1>3. events' \in [EventTypes -> Nat]
  BY TypeLog DEF Reject, EventTypes
<1>4. revs' \in Seq(RevisionRows) /\ DOMAIN revs' = DOMAIN revs
  BY <1>0, <1>1, SetStatusType DEF Reject, RevisionStatus
<1>5. task' \in TaskRows
  BY <1>1, TaskRowFields DEF Reject, TaskRows, InventoryTrack, ReviewStatus, BusinessStates, InventoryStates
<1> QED
  BY <1>0, <1>1, <1>2, <1>3, <1>4, <1>5 DEF TypeOK, Exists

\* Override keeps the types.
LEMMA TypeOverride ==
    ASSUME TypeOK, NEW l, NEW o \in Overrides, NEW v, Override(l, o, v)
    PROVE  TypeOK'
<1> DEFINE status == links[l].review
           kept == Retire({"active", "pending_review"}, "superseded")
           new == Revision(o, IF status = "pending" THEN "pending_review" ELSE "active")
<1>0. l \in DOMAIN links /\ links # <<>> /\ UNCHANGED completions
  BY DEF Override, Overridable
<1>1. /\ task \in TaskRows /\ revs \in Seq(RevisionRows) /\ links \in Seq(LinkRows)
      /\ \A k \in DOMAIN links : links[k].revision \in DOMAIN revs
  BY <1>0 DEF TypeOK, Exists
<1>2. /\ o.business \in BusinessActions /\ o.inventory \in InventoryActions \cup {None}
      /\ status \in ReviewStatus
  BY <1>0, <1>1, OverridesAssumption, LinkRowFields DEF OverrideChoices, Plans
<1>3. /\ task' = [task EXCEPT
                !.business = o.business, !.inventory = o.inventory,
                !.review = status, !.reviewVersion = @ + 1,
                !.bstate = PhaseAfter(status), !.bversion = @ + 1,
                !.istate = InventoryTrack(o.inventory, PhaseAfter(status)),
                !.iversion = @ + 1, !.executedAt = FALSE]
      /\ revs' = Append(kept, new)
      /\ Revised(l, Len(revs) + 1)
  BY DEF Override
<1>4. events' \in [EventTypes -> Nat]
  BY TypeLog DEF Override, EventTypes
<1>5. new \in RevisionRows
  BY <1>2, RevisionType DEF RevisionStatus
<1>6. kept \in Seq(RevisionRows) /\ Len(kept) = Len(revs) /\ DOMAIN kept = DOMAIN revs
  BY <1>1, RetireType DEF RevisionStatus
<1> HIDE DEF status, kept, new
<1>7. task' \in TaskRows
  <2>1. /\ PhaseAfter(status) \in BusinessStates
        /\ InventoryTrack(o.inventory, PhaseAfter(status)) \in InventoryStates
    BY DEF PhaseAfter, InventoryTrack, BusinessStates, InventoryStates
  <2> QED BY <1>1, <1>2, <1>3, <2>1, TaskRowFields DEF TaskRows
<1>8. /\ revs' \in Seq(RevisionRows) /\ DOMAIN revs \subseteq DOMAIN revs'
      /\ Len(revs) + 1 \in DOMAIN revs' /\ Len(revs) + 1 \in Nat
  BY <1>1, <1>3, <1>5, <1>6, AppendProperties
<1>9. /\ links' \in Seq(LinkRows) /\ DOMAIN links' = DOMAIN links /\ links' # <<>>
      /\ links'[l].revision = Len(revs) + 1
      /\ \A k \in DOMAIN links : k # l => links'[k].revision = links[k].revision
  BY <1>0, <1>1, <1>3, <1>8, TypeRevised
<1> QED
  BY <1>0, <1>1, <1>4, <1>7, <1>8, <1>9 DEF TypeOK, Exists

\* Terminate keeps the types.
LEMMA TypeTerminate ==
    ASSUME TypeOK, NEW l, NEW v, Terminate(l, v)
    PROVE  TypeOK'
<1>1. links # <<>> /\ task \in TaskRows
  BY DEF Terminate, TypeOK, Exists, Terminable
<1>2. task' \in TaskRows
  BY <1>1, TaskRowFields DEF Terminate, TaskRows, BusinessStates, InventoryStates
<1>3. events' \in [EventTypes -> Nat]
  BY TypeLog DEF Terminate, EventTypes
<1> QED
  BY <1>1, <1>2, <1>3 DEF TypeOK, Exists, Terminate

\* ReviewClearance keeps the types.
LEMMA TypeReviewClearance ==
    ASSUME TypeOK, NEW d \in {"confirmed", "returned"}, NEW v, ReviewClearance(d, v)
    PROVE  TypeOK'
<1>1. links # <<>> /\ task \in TaskRows
  BY DEF ReviewClearance, TypeOK, Exists, AwaitsConfirmation
<1>2. task' \in TaskRows
  BY <1>1, TaskRowFields DEF ReviewClearance, TaskRows, BusinessStates
<1>3. events' \in [EventTypes -> Nat]
  BY TypeLog DEF ReviewClearance, EventTypes
<1>4. completions' \in Seq(CompletionStatus)
  <2>1. completions \in Seq(CompletionStatus) /\ completions # <<>> /\ v = Len(completions)
    BY DEF ReviewClearance, TypeOK, AwaitsConfirmation
  <2>2. v \in DOMAIN completions
    BY <2>1
  <2>3. completions' = [completions EXCEPT ![v] = d] /\ d \in CompletionStatus
    BY DEF ReviewClearance, CompletionStatus
  <2> QED
    BY <2>1, <2>2, <2>3, ExceptSeq
<1> QED
  BY <1>1, <1>2, <1>3, <1>4 DEF TypeOK, Exists, ReviewClearance

\* Each command of the responsible operator keeps the types.
LEMMA TypeOperate ==
    ASSUME TypeOK, NEW v,
           \/ ExecuteBusiness(v) \/ ExecuteInventory(v)
           \/ RecordResult(v) \/ SubmitClearance(v)
    PROVE  TypeOK'
<1>0. links # <<>> /\ task \in TaskRows
  BY DEF ExecuteBusiness, ExecuteInventory, RecordResult, SubmitClearance, TypeOK,
      Exists, BusinessExecutable, InventoryExecutable, Recordable, Submittable
<1>1. CASE ExecuteBusiness(v)
  <2>1. task' \in TaskRows
    BY <1>0, <1>1, TaskRowFields DEF ExecuteBusiness, TaskRows, BusinessStates
  <2>2. events' \in [EventTypes -> Nat]
    BY <1>1, TypeLog DEF ExecuteBusiness, EventTypes
  <2> QED BY <1>0, <1>1, <2>1, <2>2 DEF TypeOK, Exists, ExecuteBusiness
<1>2. CASE ExecuteInventory(v)
  <2>1. task' \in TaskRows
    BY <1>0, <1>2, TaskRowFields DEF ExecuteInventory, TaskRows, InventoryStates
  <2>2. events' \in [EventTypes -> Nat]
    BY <1>2, TypeLog DEF ExecuteInventory, EventTypes
  <2> QED BY <1>0, <1>2, <2>1, <2>2 DEF TypeOK, Exists, ExecuteInventory
<1>3. CASE RecordResult(v)
  <2>1. task' \in TaskRows
    BY <1>0, <1>3, TaskRowFields DEF RecordResult, TaskRows, BusinessStates
  <2>2. events' \in [EventTypes -> Nat]
    BY <1>3, TypeLog DEF RecordResult, EventTypes
  <2> QED BY <1>0, <1>3, <2>1, <2>2 DEF TypeOK, Exists, RecordResult
<1>4. CASE SubmitClearance(v)
  <2>1. completions' \in Seq(CompletionStatus)
    BY <1>4, AppendProperties DEF SubmitClearance, TypeOK, CompletionStatus
  <2>2. events' \in [EventTypes -> Nat]
    BY <1>4, TypeLog DEF SubmitClearance, EventTypes
  <2> QED BY <1>0, <1>4, <2>1, <2>2 DEF TypeOK, Exists, SubmitClearance
<1> QED
  BY <1>1, <1>2, <1>3, <1>4

\* Every step keeps the types.
LEMMA TypeNext == TypeOK /\ [Next]_vars => TypeOK'
<1> SUFFICES ASSUME TypeOK, [Next]_vars PROVE TypeOK'
  OBVIOUS
<1>1. CASE Supervisor
  BY <1>1, TypeApprove, TypeReject, TypeOverride, TypeTerminate, TypeReviewClearance
  DEF Supervisor
<1>2. CASE UNCHANGED vars
  BY <1>2 DEF vars, TypeOK, Exists
<1>3. CASE Operator
  BY <1>3, TypeOperate DEF Operator
<1> QED
  BY <1>1, <1>2, <1>3, TypeWorker DEF Next

\* In every reachable state every row is one the tables can hold, and every link
\* points at a revision of its task.
THEOREM TypeCorrect == Spec => []TypeOK
  BY TypeInit, TypeNext, PTL DEF Spec

-----------------------------------------------------------------------------
(* What the safety properties need.                                        *)

EmptyHistory == ~Exists => \A e \in EventTypes : events[e] = 0

\* The part about revisions and the part about the row and its history.
RevisionsInv == OneActiveRevision /\ ActiveIsCurrent /\ LossPairing
RowInv == DerivedColumnsAgree /\ ReviewGatesWork /\ HistoryExplainsVersions /\ EmptyHistory

IInv == TypeOK /\ RevisionsInv /\ RowInv

-----------------------------------------------------------------------------
(* What the updates of revisions do to one row.                            *)

\* Retire changes the status of the rows it selects and nothing else.
LEMMA RetireRow ==
    ASSUME revs \in Seq(RevisionRows), NEW from, NEW to, NEW i \in DOMAIN revs
    PROVE  /\ Retire(from, to)[i].business = revs[i].business
           /\ Retire(from, to)[i].inventory = revs[i].inventory
           /\ revs[i].status \in from => Retire(from, to)[i].status = to
           /\ revs[i].status \notin from => Retire(from, to)[i].status = revs[i].status
<1>1. revs[i] \in RevisionRows
  BY ElementOfSeq
<1>2. ASSUME NEW r \in RevisionRows
      PROVE  /\ [r EXCEPT !.status = to].business = r.business
             /\ [r EXCEPT !.status = to].inventory = r.inventory
             /\ [r EXCEPT !.status = to].status = to
  BY DEF RevisionRows
<1>3. Retire(from, to)[i] = IF revs[i].status \in from
                            THEN [revs[i] EXCEPT !.status = to] ELSE revs[i]
  BY DEF Retire
<1> QED
  BY <1>1, <1>2, <1>3

\* SetStatus changes the status of the row it selects and nothing else.
LEMMA SetStatusRow ==
    ASSUME NEW rs \in Seq(RevisionRows), NEW i \in DOMAIN rs, NEW from, NEW to,
           NEW j \in DOMAIN rs
    PROVE  /\ SetStatus(rs, i, from, to)[j].business = rs[j].business
           /\ SetStatus(rs, i, from, to)[j].inventory = rs[j].inventory
           /\ j = i /\ rs[j].status = from => SetStatus(rs, i, from, to)[j].status = to
           /\ j # i \/ rs[j].status # from =>
                SetStatus(rs, i, from, to)[j].status = rs[j].status
<1>1. rs[j] \in RevisionRows
  BY ElementOfSeq
<1>2. ASSUME NEW r \in RevisionRows
      PROVE  /\ [r EXCEPT !.status = to].business = r.business
             /\ [r EXCEPT !.status = to].inventory = r.inventory
             /\ [r EXCEPT !.status = to].status = to
  BY DEF RevisionRows
<1>3. SetStatus(rs, i, from, to)[j] =
        IF j = i /\ rs[j].status = from THEN [rs[j] EXCEPT !.status = to] ELSE rs[j]
  BY DEF SetStatus
<1> QED
  BY <1>1, <1>2, <1>3

\* A new revision has the plan and the status it is given.
LEMMA RevisionRow ==
    ASSUME NEW p, NEW s
    PROVE  /\ Revision(p, s).business = p.business
           /\ Revision(p, s).inventory = p.inventory
           /\ Revision(p, s).status = s
  BY DEF Revision

\* The new row of a revision sequence and the rows it keeps.
LEMMA AppendRow ==
    ASSUME NEW rs \in Seq(RevisionRows), NEW r \in RevisionRows,
           NEW i \in DOMAIN Append(rs, r)
    PROVE  \/ i = Len(rs) + 1 /\ Append(rs, r)[i] = r
           \/ i \in DOMAIN rs /\ Append(rs, r)[i] = rs[i]
  BY AppendProperties

-----------------------------------------------------------------------------
(* The revisions and the task agree.                                       *)

\* A step that leaves the revisions and the task's actions alone.
LEMMA RevisionsUntouched ==
    ASSUME RevisionsInv, Exists, UNCHANGED revs,
           task'.business = task.business, task'.inventory = task.inventory
    PROVE  RevisionsInv'
  BY DEF RevisionsInv, OneActiveRevision, ActiveIsCurrent, LossPairing, Paired

\* The worker keeps the revisions in order: it appends at most one of them, in
\* force only when no other is open and its plan is the task's.
LEMMA RevisionsWorker == ASSUME TypeOK, RevisionsInv, Worker PROVE RevisionsInv'
<1> SUFFICES ASSUME NEW p \in Suggestions, NEW c \in Cutoffs,
                    StartTask(p, c) \/ ContinueTask(p, c) \/ ChangeTask(p, c)
             PROVE  RevisionsInv'
  BY DEF Worker
<1> DEFINE w == Executed(p)
<1>w. /\ w.business \in BusinessActions
      /\ w.inventory \in InventoryActions \cup {None}
      /\ Paired(w)
  BY ExecutedPlan
<1>t. revs \in Seq(RevisionRows)
  BY DEF TypeOK
<1>r. ASSUME NEW s \in RevisionStatus
      PROVE  Revision(w, s) \in RevisionRows /\ Paired(Revision(w, s))
  BY <1>w, RevisionType, RevisionRow DEF Paired
<1> HIDE DEF w
<1>1. CASE StartTask(p, c)
  <2>1. /\ task'.business = w.business /\ task'.inventory = w.inventory
        /\ revs' = <<Revision(w, "pending_review")>>
    BY <1>1 DEF StartTask, w
  <2>2. /\ DOMAIN revs' = {1} /\ revs'[1].status = "pending_review" /\ Paired(revs'[1])
    BY <2>1, <1>r, RevisionRow DEF RevisionStatus
  <2> QED
    BY <1>w, <2>1, <2>2 DEF RevisionsInv, OneActiveRevision, ActiveIsCurrent, LossPairing, Paired
<1>2. CASE ContinueTask(p, c)
  <2> DEFINE s == IF task.review = "approved" THEN "active" ELSE "pending_review"
             r == Revision(w, s)
  <2>1. /\ Exists /\ UNCHANGED task
        /\ task.business = w.business /\ task.inventory = w.inventory
    BY <1>2 DEF ContinueTask, SameAction, w, Executed
  <2>2. CASE OpenRevisions = {}
    <3>1. revs' = Append(revs, r)
      BY <1>2, <2>2 DEF ContinueTask, w
    <3>2. /\ r \in RevisionRows /\ Paired(r)
          /\ r.business = w.business /\ r.inventory = w.inventory
      BY <1>r, RevisionRow DEF RevisionStatus
    <3>3. \A i \in DOMAIN revs : revs[i].status # "active"
      BY <2>2 DEF OpenRevisions
    <3> HIDE DEF r
    <3>4. \A i \in DOMAIN revs' :
             \/ i = Len(revs) + 1 /\ revs'[i] = r
             \/ i \in DOMAIN revs /\ revs'[i] = revs[i]
      BY <1>t, <3>1, <3>2, AppendRow
    <3> QED
      BY <2>1, <3>2, <3>3, <3>4
      DEF RevisionsInv, OneActiveRevision, ActiveIsCurrent, LossPairing, Paired
  <2>3. CASE OpenRevisions # {}
    <3>1. UNCHANGED revs
      BY <1>2, <2>3 DEF ContinueTask
    <3> QED BY <2>1, <3>1, RevisionsUntouched
  <2> QED BY <2>2, <2>3
<1>3. CASE ChangeTask(p, c)
  <2> DEFINE r == Revision(w, "pending_review")
  <2>1. Exists /\ UNCHANGED task /\ revs' = Append(revs, r)
    BY <1>3 DEF ChangeTask, w
  <2>2. r \in RevisionRows /\ Paired(r) /\ r.status = "pending_review"
    BY <1>r, RevisionRow DEF RevisionStatus
  <2> HIDE DEF r
  <2>3. \A i \in DOMAIN revs' :
           \/ i = Len(revs) + 1 /\ revs'[i] = r
           \/ i \in DOMAIN revs /\ revs'[i] = revs[i]
    BY <1>t, <2>1, <2>2, AppendRow
  <2> QED
    BY <2>1, <2>2, <2>3
    DEF RevisionsInv, OneActiveRevision, ActiveIsCurrent, LossPairing, Paired
<1> QED
  BY <1>1, <1>2, <1>3

\* The actions the task has after an approval and after an override.
LEMMA ApproveEffect ==
    ASSUME TypeOK, NEW l, NEW v, Approve(l, v), Applies(l)
    PROVE  LET r == revs[links[l].revision]
           IN /\ task'.business = r.business /\ task'.inventory = r.inventory
              /\ task'.review = "approved" /\ task'.bstate = "pending_execution"
              /\ task'.istate = InventoryTrack(r.inventory, "pending_execution")
              /\ task'.executedAt = task.executedAt
              /\ task'.reviewVersion = task.reviewVersion + 1
              /\ task'.bversion = task.bversion /\ task'.iversion = task.iversion
<1>1. task \in TaskRows
  BY DEF TypeOK, Approve, Reviewable, Exists
<1>2. ASSUME NEW t \in TaskRows, NEW b, NEW i, NEW k, NEW n
      PROVE  LET u == [t EXCEPT !.business = b, !.inventory = i,
                         !.review = "approved", !.reviewVersion = n,
                         !.bstate = "pending_execution", !.istate = k]
             IN /\ u.business = b /\ u.inventory = i /\ u.review = "approved"
                /\ u.bstate = "pending_execution" /\ u.istate = k
                /\ u.executedAt = t.executedAt /\ u.reviewVersion = n
                /\ u.bversion = t.bversion /\ u.iversion = t.iversion
  BY DEF TaskRows
<1> DEFINE r == revs[links[l].revision]
<1>3. task' = [task EXCEPT
                  !.business = r.business, !.inventory = r.inventory,
                  !.review = "approved", !.reviewVersion = @ + 1,
                  !.bstate = "pending_execution",
                  !.istate = InventoryTrack(r.inventory, "pending_execution")]
  BY DEF Approve
<1> HIDE DEF r
<1>4. /\ task'.business = r.business /\ task'.inventory = r.inventory
      /\ task'.review = "approved" /\ task'.bstate = "pending_execution"
      /\ task'.istate = InventoryTrack(r.inventory, "pending_execution")
      /\ task'.executedAt = task.executedAt
      /\ task'.reviewVersion = task.reviewVersion + 1
      /\ task'.bversion = task.bversion /\ task'.iversion = task.iversion
  BY <1>1, <1>2, <1>3
<1> QED
  BY <1>4 DEF r

\* What an override leaves: older revisions closed, a new one with the task's plan.
LEMMA OverrideEffect ==
    ASSUME TypeOK, NEW l, NEW o, NEW v, Override(l, o, v)
    PROVE  LET s == links[l].review
           IN /\ task'.business = o.business /\ task'.inventory = o.inventory
              /\ task'.review = s /\ task'.bstate = PhaseAfter(s)
              /\ task'.istate = InventoryTrack(o.inventory, PhaseAfter(s))
              /\ task'.reviewVersion = task.reviewVersion + 1
              /\ task'.bversion = task.bversion + 1
              /\ task'.iversion = task.iversion + 1
<1>1. task \in TaskRows
  BY DEF TypeOK, Override, Exists, Overridable
<1>2. ASSUME NEW t \in TaskRows, NEW b, NEW i, NEW s, NEW j, NEW k,
             NEW n, NEW m, NEW q
      PROVE  LET u == [t EXCEPT !.business = b, !.inventory = i, !.review = s,
                         !.reviewVersion = n, !.bstate = j, !.bversion = m,
                         !.istate = k, !.iversion = q, !.executedAt = FALSE]
             IN /\ u.business = b /\ u.inventory = i /\ u.review = s
                /\ u.bstate = j /\ u.istate = k
                /\ u.reviewVersion = n /\ u.bversion = m /\ u.iversion = q
  BY DEF TaskRows
<1> QED
  BY <1>1, <1>2 DEF Override

\* The other commands leave the task's actions alone.
LEMMA OtherEffects ==
    ASSUME TypeOK, NEW l, NEW d, NEW v,
           \/ Reject(l, v) \/ Terminate(l, v) \/ ReviewClearance(d, v)
           \/ ExecuteBusiness(v) \/ ExecuteInventory(v)
           \/ RecordResult(v) \/ SubmitClearance(v)
    PROVE  /\ Exists /\ task \in TaskRows
           /\ task'.business = task.business /\ task'.inventory = task.inventory
<1>1. Exists
  BY DEF Exists, Reject, Reviewable, Terminate, ReviewClearance, ExecuteBusiness,
     ExecuteInventory, RecordResult, SubmitClearance, Terminable, AwaitsConfirmation,
     BusinessExecutable, InventoryExecutable, Recordable, Submittable
<1>2. task \in TaskRows
  BY <1>1 DEF TypeOK
<1>3. CASE Reject(l, v)
  BY <1>1, <1>2, <1>3 DEF Reject, TaskRows
<1>4. CASE Terminate(l, v)
  BY <1>1, <1>2, <1>4 DEF Terminate, TaskRows
<1>5. CASE ReviewClearance(d, v)
  BY <1>1, <1>2, <1>5 DEF ReviewClearance, TaskRows
<1>6. CASE ExecuteBusiness(v)
  BY <1>1, <1>2, <1>6 DEF ExecuteBusiness, TaskRows
<1>7. CASE ExecuteInventory(v)
  BY <1>1, <1>2, <1>7 DEF ExecuteInventory, TaskRows
<1>8. CASE RecordResult(v)
  BY <1>1, <1>2, <1>8 DEF RecordResult, TaskRows
<1>9. CASE SubmitClearance(v)
  BY <1>1, <1>2, <1>9 DEF SubmitClearance
<1> QED
  BY <1>1, <1>2, <1>3, <1>4, <1>5, <1>6, <1>7, <1>8, <1>9

\* An approval puts one revision in force in the place of the former one.
LEMMA RevisionsApprove ==
    ASSUME TypeOK, RevisionsInv, NEW l, NEW v, Approve(l, v)
    PROVE  RevisionsInv'
<1>t. /\ revs \in Seq(RevisionRows) /\ l \in DOMAIN links
      /\ links[l].revision \in DOMAIN revs /\ Exists
  BY DEF TypeOK, Approve, Reviewable, Exists
<1>1. CASE Applies(l)
  <2> DEFINE n    == links[l].revision
             kept == Retire({"active"}, "superseded")
  <2>1. /\ revs' = SetStatus(kept, n, "pending_review", "active")
        /\ task'.business = revs[n].business /\ task'.inventory = revs[n].inventory
    BY <1>1, ApproveEffect DEF Approve
  <2>2. /\ kept \in Seq(RevisionRows) /\ DOMAIN kept = DOMAIN revs
    BY <1>t, RetireType DEF RevisionStatus
  <2>3. \A i \in DOMAIN revs :
          /\ kept[i].business = revs[i].business /\ kept[i].inventory = revs[i].inventory
          /\ kept[i].status # "active"
    BY <1>t, RetireRow
  <2> HIDE DEF n, kept
  <2>4. n \in DOMAIN revs
    BY <1>t DEF n
  <2>5. DOMAIN revs' = DOMAIN revs
    BY <2>1, <2>2, <2>4, SetStatusType DEF RevisionStatus
  <2>6. \A i \in DOMAIN revs :
          /\ revs'[i].business = revs[i].business /\ revs'[i].inventory = revs[i].inventory
          /\ revs'[i].status = "active" => i = n
    BY <2>1, <2>2, <2>3, <2>4, SetStatusRow
  <2>7. LossPairing'
    BY <1>t, <2>1, <2>4, <2>5, <2>6 DEF RevisionsInv, LossPairing, Paired
  <2>8. OneActiveRevision' /\ ActiveIsCurrent'
    BY <2>1, <2>4, <2>5, <2>6 DEF OneActiveRevision, ActiveIsCurrent
  <2> QED BY <2>7, <2>8 DEF RevisionsInv
<1>2. CASE ~Applies(l)
  BY <1>t, <1>2, RevisionsUntouched DEF Approve
<1> QED
  BY <1>1, <1>2

\* A rejection only closes a revision.
LEMMA RevisionsReject ==
    ASSUME TypeOK, RevisionsInv, NEW l, NEW v, Reject(l, v)
    PROVE  RevisionsInv'
<1> DEFINE n == links[l].revision
<1>1. /\ revs \in Seq(RevisionRows) /\ n \in DOMAIN revs /\ Exists
      /\ revs' = SetStatus(revs, n, "pending_review", "rejected")
  BY DEF TypeOK, Reject, Reviewable, Exists
<1>2. task'.business = task.business /\ task'.inventory = task.inventory
  BY OtherEffects
<1> HIDE DEF n
<1>3. DOMAIN revs' = DOMAIN revs
  BY <1>1, SetStatusType DEF RevisionStatus
<1>4. \A i \in DOMAIN revs :
        /\ revs'[i].business = revs[i].business /\ revs'[i].inventory = revs[i].inventory
        /\ revs'[i].status = "active" => revs[i].status = "active"
  BY <1>1, SetStatusRow
<1> QED
  BY <1>1, <1>2, <1>3, <1>4
  DEF RevisionsInv, OneActiveRevision, ActiveIsCurrent, LossPairing, Paired

\* An override retires every open revision before it adds its own.
LEMMA RevisionsOverride ==
    ASSUME TypeOK, RevisionsInv, NEW l, NEW o \in Overrides, NEW v, Override(l, o, v)
    PROVE  RevisionsInv'
<1> DEFINE s    == IF links[l].review = "pending" THEN "pending_review" ELSE "active"
           kept == Retire({"active", "pending_review"}, "superseded")
           r    == Revision(o, s)
<1>1. /\ revs' = Append(kept, r)
      /\ task'.business = o.business /\ task'.inventory = o.inventory
  BY OverrideEffect DEF Override
<1>2. /\ revs \in Seq(RevisionRows)
      /\ o.business \in BusinessActions /\ o.inventory \in InventoryActions \cup {None}
      /\ Paired(o)
  BY OverridesAssumption DEF TypeOK, OverrideChoices, Plans
<1>3. /\ r \in RevisionRows /\ Paired(r)
      /\ r.business = o.business /\ r.inventory = o.inventory
  BY <1>2, RevisionType, RevisionRow DEF RevisionStatus, Paired
<1>4. /\ kept \in Seq(RevisionRows) /\ DOMAIN kept = DOMAIN revs /\ Len(kept) = Len(revs)
  BY <1>2, RetireType DEF RevisionStatus
<1>5. \A i \in DOMAIN revs :
        /\ kept[i].business = revs[i].business /\ kept[i].inventory = revs[i].inventory
        /\ kept[i].status # "active"
  BY <1>2, RetireRow
<1> HIDE DEF s, kept, r
<1>6. \A i \in DOMAIN revs' :
         \/ i = Len(revs) + 1 /\ revs'[i] = r
         \/ i \in DOMAIN revs /\ revs'[i] = kept[i]
  BY <1>1, <1>3, <1>4, AppendRow
<1>7. LossPairing'
  BY <1>1, <1>2, <1>3, <1>5, <1>6 DEF RevisionsInv, LossPairing, Paired
<1>8. OneActiveRevision' /\ ActiveIsCurrent'
  BY <1>1, <1>3, <1>5, <1>6 DEF OneActiveRevision, ActiveIsCurrent
<1> QED
  BY <1>7, <1>8 DEF RevisionsInv

\* Every step keeps the revisions in order.
LEMMA RevisionsNext ==
    ASSUME TypeOK, RevisionsInv, [Next]_vars
    PROVE  RevisionsInv'
<1>1. CASE Worker
  BY <1>1, RevisionsWorker
<1>2. CASE Supervisor
  <2>1. ASSUME NEW l, NEW v, Terminate(l, v) PROVE RevisionsInv'
    BY <2>1, OtherEffects, RevisionsUntouched DEF Terminate
  <2>2. ASSUME NEW d, NEW v, ReviewClearance(d, v) PROVE RevisionsInv'
    BY <2>2, OtherEffects, RevisionsUntouched DEF ReviewClearance
  <2> QED
    BY <1>2, <2>1, <2>2, RevisionsApprove, RevisionsReject, RevisionsOverride DEF Supervisor
<1>3. CASE Operator
  <2> SUFFICES ASSUME NEW v,
                      \/ ExecuteBusiness(v) \/ ExecuteInventory(v)
                      \/ RecordResult(v) \/ SubmitClearance(v)
               PROVE  RevisionsInv'
    BY <1>3 DEF Operator
  <2>1. UNCHANGED revs
    BY DEF ExecuteBusiness, ExecuteInventory, RecordResult, SubmitClearance
  <2> QED
    BY <2>1, OtherEffects, RevisionsUntouched
<1>4. CASE UNCHANGED vars
  BY <1>4 DEF vars, RevisionsInv, OneActiveRevision, ActiveIsCurrent, LossPairing, Paired, Exists
<1> QED
  BY <1>1, <1>2, <1>3, <1>4 DEF Next

-----------------------------------------------------------------------------
(* The row, its derived columns and its history.                           *)

\* Log counts one event of its type.
LEMMA LogEffect ==
    ASSUME TypeOK, NEW e \in EventTypes, Log(e)
    PROVE  /\ events'[e] = events[e] + 1 /\ events[e] \in Nat
           /\ \A f \in EventTypes : f # e => events'[f] = events[f] /\ events[f] \in Nat
  BY DEF TypeOK, Log

\* A task has a history only once it exists.
LEMMA HistoryStays == ASSUME TypeOK, EmptyHistory, [Next]_vars PROVE EmptyHistory'
<1>1. CASE Worker
  <2>1. links' # <<>>
    <3>1. PICK x : links' = <<x>> \/ links' = Append(links, x)
      BY <1>1 DEF Worker, StartTask, ContinueTask, ChangeTask
    <3>2. Len(links) \in Nat /\ Len(Append(links, x)) = Len(links) + 1
      BY LenProperties DEF TypeOK
    <3>3. Len(<<x>>) = 1 /\ Len(<<>>) = 0
      OBVIOUS
    <3>4. Len(links') # 0
      BY <3>1, <3>2, <3>3
    <3> QED BY <3>3, <3>4
  <2> QED BY <2>1 DEF EmptyHistory, Exists
<1>2. CASE Supervisor
  <2>1. TypeOK'
    BY <1>2, TypeNext DEF Next
  <2>2. ASSUME NEW l, NEW v, Approve(l, v) \/ Reject(l, v) PROVE links' # <<>>
    BY <2>2 DEF Approve, Reject, Reviewable, Reviewed
  <2>3. ASSUME NEW l, NEW v, NEW o, Override(l, o, v) PROVE links' # <<>>
    BY <2>3 DEF Override, Revised, Overridable
  <2>4. ASSUME NEW l, NEW v, Terminate(l, v) PROVE links' # <<>>
    BY <2>4 DEF Terminate, Terminable
  <2>5. ASSUME NEW d, NEW v, ReviewClearance(d, v) PROVE links' # <<>>
    BY <2>5 DEF ReviewClearance, Exists, AwaitsConfirmation
  <2>6. links' # <<>>
    BY <1>2, <2>2, <2>3, <2>4, <2>5 DEF Supervisor
  <2> QED BY <2>6 DEF EmptyHistory, Exists
<1>3. CASE Operator
  <2>1. links' # <<>>
    BY <1>3 DEF Operator, ExecuteBusiness, ExecuteInventory, RecordResult,
        SubmitClearance, Exists, BusinessExecutable, InventoryExecutable, Recordable,
        Submittable
  <2> QED BY <2>1 DEF EmptyHistory, Exists
<1>4. CASE UNCHANGED vars
  BY <1>4 DEF vars, EmptyHistory, Exists
<1> QED
  BY <1>1, <1>2, <1>3, <1>4 DEF Next

\* The three properties that relate the columns of one row.
RowAgrees == DerivedColumnsAgree /\ ReviewGatesWork /\ HistoryExplainsVersions

\* A step that leaves the task alone, and of its history writes at most an event
\* of a link, keeps them in agreement.
LEMMA RowUntouched ==
    ASSUME RowAgrees, Exists, UNCHANGED task,
           \A f \in EventTypes \ Relations : events'[f] = events[f]
    PROVE  RowAgrees'
  BY DEF RowAgrees, DerivedColumnsAgree, ReviewGatesWork, HistoryExplainsVersions,
     EventTypes, Relations

\* The worker keeps the task row in agreement with its history.
LEMMA RowWorker == ASSUME TypeOK, RowAgrees, EmptyHistory, Worker PROVE RowAgrees'
<1> SUFFICES ASSUME NEW p \in Suggestions, NEW c \in Cutoffs,
                    StartTask(p, c) \/ ContinueTask(p, c) \/ ChangeTask(p, c)
             PROVE  RowAgrees'
  BY DEF Worker
<1>e. \A f \in EventTypes \ Relations : events'[f] = events[f]
  <2>1. PICK k \in Relations : Log(k)
    BY DEF StartTask, ContinueTask, ChangeTask, Relations
  <2> QED BY <2>1, LogEffect DEF EventTypes
<1>1. CASE StartTask(p, c)
  <2> DEFINE w == Executed(p)
  <2>1. /\ task'.inventory = w.inventory /\ task'.review = "pending"
        /\ task'.bstate = "pending_review"
        /\ task'.istate = InventoryTrack(w.inventory, "pending_review")
        /\ task'.bversion = 1 /\ task'.iversion = 1
        /\ ~Exists
    BY <1>1 DEF StartTask
  <2>2. \A f \in EventTypes \ Relations : events'[f] = 0
    BY <1>e, <2>1 DEF EmptyHistory
  <2>3. HistoryExplainsVersions'
    BY <2>1, <2>2 DEF HistoryExplainsVersions, EventTypes, Relations
  <2>4. DerivedColumnsAgree' /\ ReviewGatesWork'
    BY <2>1 DEF DerivedColumnsAgree, ReviewGatesWork, InventoryTrack
  <2> QED BY <2>3, <2>4 DEF RowAgrees
<1>2. CASE ContinueTask(p, c) \/ ChangeTask(p, c)
  BY <1>2, <1>e, RowUntouched DEF ContinueTask, ChangeTask
<1> QED
  BY <1>1, <1>2

\* An approval keeps the task row in agreement with its history.
LEMMA RowApprove ==
    ASSUME TypeOK, RowAgrees, NEW l, NEW v, Approve(l, v)
    PROVE  RowAgrees'
<1>0. Exists /\ Log("approved")
  BY DEF Approve, Reviewable, Exists
<1>1. \A f \in EventTypes : f # "approved" => events'[f] = events[f]
  BY <1>0, LogEffect DEF EventTypes
<1>2. CASE Applies(l)
  <2> DEFINE i == revs[links[l].revision].inventory
  <2>1. /\ task'.inventory = i /\ task'.review = "approved"
        /\ task'.bstate = "pending_execution"
        /\ task'.istate = InventoryTrack(i, "pending_execution")
        /\ task'.bversion = task.bversion /\ task'.iversion = task.iversion
    BY <1>2, ApproveEffect
  <2> HIDE DEF i
  <2>2. HistoryExplainsVersions'
    BY <1>0, <1>1, <2>1 DEF RowAgrees, HistoryExplainsVersions, EventTypes
  <2>3. DerivedColumnsAgree' /\ ReviewGatesWork'
    BY <2>1 DEF DerivedColumnsAgree, ReviewGatesWork, InventoryTrack
  <2> QED BY <2>2, <2>3 DEF RowAgrees
<1>3. CASE ~Applies(l)
  <2>1. UNCHANGED task
    BY <1>3 DEF Approve
  <2> QED
    BY <1>0, <1>1, <2>1 DEF RowAgrees, DerivedColumnsAgree, ReviewGatesWork,
       HistoryExplainsVersions, EventTypes
<1> QED
  BY <1>2, <1>3

\* A rejection keeps the task row in agreement with its history.
LEMMA RowReject ==
    ASSUME TypeOK, RowAgrees, NEW l, NEW v, Reject(l, v)
    PROVE  RowAgrees'
<1>0. Exists /\ task \in TaskRows /\ Log("rejected")
  BY OtherEffects DEF Reject
<1>1. \A f \in EventTypes : f # "rejected" => events'[f] = events[f]
  BY <1>0, LogEffect DEF EventTypes
<1>2. CASE links[l].relation = "new_task"
  <2>1. task' = [task EXCEPT
                       !.review = "rejected", !.reviewVersion = @ + 1,
                       !.bstate = "closed",
                       !.istate = InventoryTrack(task.inventory, "closed")]
    BY <1>2 DEF Reject
  <2>2. /\ task'.inventory = task.inventory /\ task'.review = "rejected"
        /\ task'.bstate = "closed"
        /\ task'.istate = InventoryTrack(task.inventory, "closed")
        /\ task'.bversion = task.bversion /\ task'.iversion = task.iversion
    BY <1>0, <2>1 DEF TaskRows
  <2>3. HistoryExplainsVersions'
    BY <1>0, <1>1, <2>2 DEF RowAgrees, HistoryExplainsVersions, EventTypes
  <2>4. DerivedColumnsAgree' /\ ReviewGatesWork'
    BY <2>2 DEF DerivedColumnsAgree, ReviewGatesWork, InventoryTrack
  <2> QED BY <2>3, <2>4 DEF RowAgrees
<1>3. CASE links[l].relation # "new_task"
  <2>1. UNCHANGED task
    BY <1>3 DEF Reject
  <2> QED
    BY <1>0, <1>1, <2>1 DEF RowAgrees, DerivedColumnsAgree, ReviewGatesWork,
       HistoryExplainsVersions, EventTypes
<1> QED
  BY <1>2, <1>3

\* An override keeps the task row in agreement with its history.
LEMMA RowOverride ==
    ASSUME TypeOK, RowAgrees, NEW l, NEW o, NEW v, Override(l, o, v)
    PROVE  RowAgrees'
<1> DEFINE s == links[l].review
<1>0. /\ Exists /\ task \in TaskRows /\ Log("supervisor_override")
  BY DEF Override, Exists, TypeOK, Overridable
<1>1. /\ task'.inventory = o.inventory /\ task'.review = s
      /\ task'.bstate = PhaseAfter(s)
      /\ task'.istate = InventoryTrack(o.inventory, PhaseAfter(s))
      /\ task'.bversion = task.bversion + 1 /\ task'.iversion = task.iversion + 1
  BY OverrideEffect
<1>2. /\ events'["supervisor_override"] = events["supervisor_override"] + 1
      /\ \A f \in EventTypes : events[f] \in Nat
      /\ \A f \in EventTypes : f # "supervisor_override" => events'[f] = events[f]
  BY <1>0, LogEffect DEF EventTypes
<1> HIDE DEF s
<1>3. HistoryExplainsVersions'
  BY <1>0, <1>1, <1>2 DEF RowAgrees, HistoryExplainsVersions, EventTypes
<1>4. DerivedColumnsAgree'
  BY <1>1 DEF DerivedColumnsAgree, InventoryTrack, PhaseAfter
<1>5. ReviewGatesWork'
  <2>1. s \in {"pending", "approved", "rejected"} /\ events'["supervisor_override"] > 0
    <3>1. l \in DOMAIN links /\ links \in Seq(LinkRows)
      BY DEF Override, Overridable, TypeOK
    <3>2. s \in ReviewStatus
      BY <3>1, ElementOfSeq, LinkRowFields DEF s
    <3>3. events["supervisor_override"] \in Nat
      BY <1>2 DEF EventTypes
    <3> QED BY <1>2, <3>2, <3>3 DEF ReviewStatus
  <2> QED BY <1>1, <2>1 DEF ReviewGatesWork, InventoryTrack, PhaseAfter
<1> QED
  BY <1>3, <1>4, <1>5 DEF RowAgrees

\* A termination keeps the task row in agreement with its history.
LEMMA RowTerminate ==
    ASSUME TypeOK, RowAgrees, NEW l, NEW v, Terminate(l, v)
    PROVE  RowAgrees'
<1>0. /\ Exists /\ task \in TaskRows /\ Log("task_terminated")
  BY OtherEffects DEF Terminate
<1>1. /\ task'.inventory = task.inventory /\ task'.bstate = "terminated"
      /\ task'.istate = IF task.istate = "not_generated" THEN "not_generated" ELSE "terminated"
      /\ task'.bversion = task.bversion + 1 /\ task'.iversion = task.iversion + 1
  BY <1>0 DEF Terminate, TaskRows
<1>2. /\ events'["task_terminated"] = events["task_terminated"] + 1
      /\ \A f \in EventTypes : events[f] \in Nat
      /\ \A f \in EventTypes : f # "task_terminated" => events'[f] = events[f]
  BY <1>0, LogEffect DEF EventTypes
<1>3. HistoryExplainsVersions'
  BY <1>0, <1>1, <1>2 DEF RowAgrees, HistoryExplainsVersions, EventTypes
<1>4. DerivedColumnsAgree' /\ ReviewGatesWork'
  BY <1>0, <1>1 DEF RowAgrees, DerivedColumnsAgree, ReviewGatesWork
<1> QED
  BY <1>3, <1>4 DEF RowAgrees

\* A clearance review keeps the task row in agreement with its history.
LEMMA RowReviewClearance ==
    ASSUME TypeOK, RowAgrees, NEW d, NEW v, ReviewClearance(d, v)
    PROVE  RowAgrees'
<1>0. /\ Exists /\ task \in TaskRows /\ Log("clearance_completion_reviewed")
  BY OtherEffects DEF ReviewClearance
<1>1. /\ task'.inventory = task.inventory /\ task'.review = task.review
      /\ task'.bstate \in {task.bstate, "closed"} /\ task'.istate = task.istate
      /\ task'.executedAt = task.executedAt
      /\ task'.bversion = task.bversion + 1 /\ task'.iversion = task.iversion
  BY <1>0 DEF ReviewClearance, TaskRows
<1>2. /\ events'["clearance_completion_reviewed"] = events["clearance_completion_reviewed"] + 1
      /\ \A f \in EventTypes : events[f] \in Nat
      /\ \A f \in EventTypes : f # "clearance_completion_reviewed" => events'[f] = events[f]
  BY <1>0, LogEffect DEF EventTypes
<1>3. HistoryExplainsVersions'
  BY <1>0, <1>1, <1>2 DEF RowAgrees, HistoryExplainsVersions, EventTypes
<1>4. DerivedColumnsAgree' /\ ReviewGatesWork'
  BY <1>0, <1>1, <1>2 DEF RowAgrees, DerivedColumnsAgree, ReviewGatesWork, EventTypes
<1> QED
  BY <1>3, <1>4 DEF RowAgrees

\* The operator's commands keep the task row in agreement with its history.
LEMMA RowOperator == ASSUME TypeOK, RowAgrees, Operator PROVE RowAgrees'
<1> SUFFICES ASSUME NEW v,
                    \/ ExecuteBusiness(v) \/ ExecuteInventory(v)
                    \/ RecordResult(v) \/ SubmitClearance(v)
             PROVE  RowAgrees'
  BY DEF Operator
<1>0. Exists /\ task \in TaskRows
  BY OtherEffects
<1>1. CASE ExecuteBusiness(v)
  <2>1. /\ task.review = "approved" /\ task'.review = "approved"
        /\ task'.inventory = task.inventory /\ task'.istate = task.istate
        /\ task'.bstate = "executed" /\ task'.executedAt
        /\ task'.bversion = task.bversion + 1 /\ task'.iversion = task.iversion
    BY <1>0, <1>1 DEF ExecuteBusiness, TaskRows, BusinessExecutable
  <2>2. /\ events'["business_executed"] = events["business_executed"] + 1
        /\ \A f \in EventTypes : events[f] \in Nat
        /\ \A f \in EventTypes : f # "business_executed" => events'[f] = events[f]
    BY <1>1, LogEffect DEF ExecuteBusiness, EventTypes
  <2>3. HistoryExplainsVersions'
    BY <1>0, <2>1, <2>2 DEF RowAgrees, HistoryExplainsVersions, EventTypes
  <2> QED
    BY <1>0, <2>1, <2>3 DEF RowAgrees, DerivedColumnsAgree, ReviewGatesWork
<1>2. CASE ExecuteInventory(v)
  <2>1. /\ task.review = "approved" /\ task'.review = "approved"
        /\ task'.inventory = task.inventory /\ task.inventory # None
        /\ task'.bstate = task.bstate /\ task'.executedAt = task.executedAt
        /\ task'.istate = "processed"
        /\ task'.bversion = task.bversion /\ task'.iversion = task.iversion + 1
    BY <1>0, <1>2 DEF ExecuteInventory, TaskRows, InventoryExecutable
  <2>2. /\ events'["inventory_executed"] = events["inventory_executed"] + 1
        /\ \A f \in EventTypes : events[f] \in Nat
        /\ \A f \in EventTypes : f # "inventory_executed" => events'[f] = events[f]
    BY <1>2, LogEffect DEF ExecuteInventory, EventTypes
  <2>3. HistoryExplainsVersions'
    BY <1>0, <2>1, <2>2 DEF RowAgrees, HistoryExplainsVersions, EventTypes
  <2> QED
    BY <1>0, <2>1, <2>3 DEF RowAgrees, DerivedColumnsAgree, ReviewGatesWork
<1>3. CASE RecordResult(v)
  <2>1. /\ task'.review = task.review /\ task.bstate \in {"executed", "result_recorded"}
        /\ task'.inventory = task.inventory /\ task'.istate = task.istate
        /\ task'.bstate = "result_recorded" /\ task'.executedAt = task.executedAt
        /\ task'.bversion = task.bversion + 1 /\ task'.iversion = task.iversion
    BY <1>0, <1>3 DEF RecordResult, TaskRows, Recordable
  <2>2. /\ events'["business_result_recorded"] = events["business_result_recorded"] + 1
        /\ \A f \in EventTypes : events[f] \in Nat
        /\ \A f \in EventTypes : f # "business_result_recorded" => events'[f] = events[f]
    BY <1>3, LogEffect DEF RecordResult, EventTypes
  <2>3. HistoryExplainsVersions'
    BY <1>0, <2>1, <2>2 DEF RowAgrees, HistoryExplainsVersions, EventTypes
  <2> QED
    BY <1>0, <2>1, <2>3 DEF RowAgrees, DerivedColumnsAgree, ReviewGatesWork
<1>4. CASE SubmitClearance(v)
  <2>1. /\ UNCHANGED task
        /\ \A f \in EventTypes : f # "clearance_completion_submitted" => events'[f] = events[f]
    BY <1>4, LogEffect DEF SubmitClearance, EventTypes
  <2> QED
    BY <1>0, <2>1 DEF RowAgrees, DerivedColumnsAgree, ReviewGatesWork,
       HistoryExplainsVersions, EventTypes
<1> QED
  BY <1>1, <1>2, <1>3, <1>4

\* Every step keeps the task row in agreement with its history.
LEMMA RowNext ==
    ASSUME TypeOK, RowInv, [Next]_vars
    PROVE  RowInv'
<1>1. RowAgrees /\ EmptyHistory
  BY DEF RowInv, RowAgrees
<1>2. EmptyHistory'
  BY <1>1, HistoryStays
<1>3. ASSUME Supervisor PROVE RowAgrees'
  BY <1>1, <1>3, RowApprove, RowReject, RowOverride, RowTerminate, RowReviewClearance
  DEF Supervisor
<1>4. ASSUME UNCHANGED vars PROVE RowAgrees'
  BY <1>1, <1>4 DEF vars, RowAgrees, DerivedColumnsAgree, ReviewGatesWork,
     HistoryExplainsVersions, Exists
<1>5. RowAgrees'
  BY <1>1, <1>3, <1>4, RowWorker, RowOperator DEF Next
<1> QED
  BY <1>2, <1>5 DEF RowInv, RowAgrees

-----------------------------------------------------------------------------
(* The theorems.                                                           *)

\* The inductive invariant holds of the empty database.
LEMMA InvInit == Init => IInv
<1> SUFFICES ASSUME Init PROVE IInv
  OBVIOUS
<1>1. ~Exists /\ revs = <<>> /\ \A e \in EventTypes : events[e] = 0
  BY DEF Init, Exists
<1> QED
  BY <1>1, TypeInit DEF IInv, RevisionsInv, RowInv, OneActiveRevision, ActiveIsCurrent,
     LossPairing, DerivedColumnsAgree, ReviewGatesWork, HistoryExplainsVersions, EmptyHistory

\* Every step keeps the inductive invariant.
LEMMA InvNext == IInv /\ [Next]_vars => IInv'
  BY TypeNext, RevisionsNext, RowNext DEF IInv

\* The inductive invariant holds in every reachable state.
THEOREM InvariantHolds == Spec => []IInv
  BY InvInit, InvNext, PTL DEF Spec

\* A task never has two revisions in force.
THEOREM OneActiveRevisionHolds == Spec => []OneActiveRevision
<1>1. IInv => OneActiveRevision
  BY DEF IInv, RevisionsInv
<1> QED BY <1>1, InvariantHolds, PTL

\* The revision in force is what the task row tells the operator to do.
THEOREM ActiveIsCurrentHolds == Spec => []ActiveIsCurrent
<1>1. IInv => ActiveIsCurrent
  BY DEF IInv, RevisionsInv
<1> QED BY <1>1, InvariantHolds, PTL

\* Clearance and stop-loss carry the restock ban, on the task and its revisions.
THEOREM LossPairingHolds == Spec => []LossPairing
<1>1. IInv => LossPairing
  BY DEF IInv, RevisionsInv
<1> QED BY <1>1, InvariantHolds, PTL

\* The derived columns agree with the columns they are derived from.
THEOREM DerivedColumnsAgreeHolds == Spec => []DerivedColumnsAgree
<1>1. IInv => DerivedColumnsAgree
  BY DEF IInv, RowInv
<1> QED BY <1>1, InvariantHolds, PTL

\* Work that shows as done was approved; work that is open was approved or was
\* opened by an override.
THEOREM ReviewGatesWorkHolds == Spec => []ReviewGatesWork
<1>1. IInv => ReviewGatesWork
  BY DEF IInv, RowInv
<1> QED BY <1>1, InvariantHolds, PTL

\* The versions of the task are accounted for by its event history.
THEOREM HistoryExplainsVersionsHolds == Spec => []HistoryExplainsVersions
<1>1. IInv => HistoryExplainsVersions
  BY DEF IInv, RowInv
<1> QED BY <1>1, InvariantHolds, PTL
=============================================================================
