-------------------------- MODULE AiExplanationProofs --------------------------
(***************************************************************************)
(* The safety of AiExplanation for every number of workers, batches and      *)
(* decisions, every bound, and every set of outcomes of the gateway.         *)
(***************************************************************************)
EXTENDS AiExplanation, TLAPS, SequenceTheorems

\* A batch that is not imported yet has no explanations.
NewBatches ==
    \A B \in Batches : B \notin uploaded \/ B \in waiting =>
        \A d \in B : versions[d] = <<>>

-----------------------------------------------------------------------------
(* What the helpers do to the rows.                                        *)

\* The names of an explanation.
LEMMA ExplanationFields ==
    ASSUME NEW e \in Explanations
    PROVE  /\ e.decision \in Decisions /\ e.version \in 1 .. MaxVersions
           /\ e = [decision |-> e.decision, version |-> e.version]
  BY DEF Explanations

\* A decision that is not migrated is one of a batch, and of one only.
LEMMA DecisionOfBatch ==
    ASSUME NEW B \in Batches, NEW d \in B
    PROVE  /\ d \in Decisions /\ d \notin Migrated
           /\ \A C \in Batches : d \in C => C = B
  BY BatchesAssumption DEF Decisions

\* A new version comes behind those there are.
LEMMA NewVersionEffect ==
    ASSUME TypeOK, NEW d \in Decisions, NewVersion(d)
    PROVE  /\ versions' \in [Decisions -> Seq(Rows)]
           /\ \A c \in Decisions : c # d => versions'[c] = versions[c]
           /\ Len(versions'[d]) = Len(versions[d]) + 1
           /\ versions'[d][Len(versions[d]) + 1] = [status |-> "generating", at |-> clock]
           /\ \A v \in DOMAIN versions[d] :
                v \in DOMAIN versions'[d] /\ versions'[d][v] = versions[d][v]
           /\ \A v \in DOMAIN versions'[d] :
                v \in DOMAIN versions[d] \/ v = Len(versions[d]) + 1
<1> DEFINE r == [status |-> "generating", at |-> clock]
<1>1. versions \in [Decisions -> Seq(Rows)] /\ clock \in Nat
  BY DEF TypeOK
<1>2. r \in Rows
  BY <1>1 DEF Rows
<1>3. versions' = [versions EXCEPT ![d] = Append(versions[d], r)]
  BY DEF NewVersion
<1> HIDE DEF r
<1>4. versions'[d] = Append(versions[d], r) /\ versions[d] \in Seq(Rows)
      /\ \A c \in Decisions : c # d => versions'[c] = versions[c]
  BY <1>1, <1>3
<1>5. Append(versions[d], r) \in Seq(Rows)
  BY <1>2, <1>4, AppendProperties
<1>6. versions' \in [Decisions -> Seq(Rows)]
  BY <1>1, <1>3, <1>5
<1> QED
  BY <1>2, <1>4, <1>6, AppendProperties DEF r

\* An answer decides the explanation it is for, if that is still being generated.
LEMMA DecideEffect ==
    ASSUME TypeOK, NEW e \in Explanations, Exists(e), NEW o \in Outcomes, Decide(e, o)
    PROVE  /\ versions' \in [Decisions -> Seq(Rows)]
           /\ \A c \in Decisions : /\ DOMAIN versions'[c] = DOMAIN versions[c]
                                   /\ Len(versions'[c]) = Len(versions[c])
                                   /\ versions'[c] = <<>> <=> versions[c] = <<>>
           /\ \A c \in Decisions : \A v \in DOMAIN versions[c] :
                c # e.decision \/ v # e.version => versions'[c][v] = versions[c][v]
           /\ Row(e)'.status = IF Generating(e) THEN o ELSE Row(e).status
           /\ ~Generating(e) => Row(e)' = Row(e)
<1> DEFINE d == e.decision
           v == e.version
           s == IF versions[d][v].status = "generating" THEN o ELSE versions[d][v].status
           r == [versions[d][v] EXCEPT !.status = s]
           q == [versions[d] EXCEPT ![v] = r]
<1>1. versions \in [Decisions -> Seq(Rows)] /\ d \in Decisions /\ v \in DOMAIN versions[d]
  BY ExplanationFields DEF TypeOK, Exists
<1>2. versions[d] \in Seq(Rows) /\ versions[d][v] \in Rows
  BY <1>1, ElementOfSeq
<1>3. versions' = [versions EXCEPT ![d] = q]
  BY DEF Decide
<1>4. ASSUME NEW x \in Rows, NEW t \in {"generating"} \cup Outcomes
      PROVE  /\ [x EXCEPT !.status = t] \in Rows
             /\ [x EXCEPT !.status = t].status = t
             /\ [x EXCEPT !.status = x.status] = x
             /\ x.status \in {"generating"} \cup Outcomes
  BY DEF Rows
<1>5. s \in {"generating"} \cup Outcomes
  BY <1>2, <1>4
<1>6. r \in Rows /\ r.status = s
  BY <1>2, <1>4, <1>5
<1>7. s = versions[d][v].status => r = versions[d][v]
  BY <1>2, <1>4
<1> HIDE DEF r
<1>8. q \in Seq(Rows) /\ DOMAIN q = DOMAIN versions[d] /\ Len(q) = Len(versions[d])
      /\ q[v] = r /\ \A u \in DOMAIN versions[d] : u # v => q[u] = versions[d][u]
  BY <1>1, <1>2, <1>6, ExceptSeq, LenProperties
<1> HIDE DEF q
<1>9. versions'[d] = q /\ \A c \in Decisions : c # d => versions'[c] = versions[c]
  BY <1>1, <1>3
<1>10. versions' \in [Decisions -> Seq(Rows)]
  BY <1>1, <1>3, <1>8
<1>11. Generating(e) <=> versions[d][v].status = "generating"
  BY DEF Generating, Row
<1>12. Row(e) = versions[d][v] /\ Row(e)' = r
  BY <1>8, <1>9 DEF Row
<1>13. \A c \in Decisions : /\ DOMAIN versions'[c] = DOMAIN versions[c]
                            /\ Len(versions'[c]) = Len(versions[c])
  BY <1>8, <1>9
<1>14. \A c \in Decisions : versions'[c] = <<>> <=> versions[c] = <<>>
  <2>1. \A c \in Decisions : versions[c] \in Seq(Rows) /\ versions'[c] \in Seq(Rows)
    BY <1>1, <1>10
  <2> QED BY <1>13, <2>1, EmptySeq
<1>15. \A c \in Decisions : \A u \in DOMAIN versions[c] :
          c # d \/ u # v => versions'[c][u] = versions[c][u]
  BY <1>8, <1>9
<1> QED
  BY <1>6, <1>7, <1>10, <1>11, <1>12, <1>13, <1>14, <1>15

-----------------------------------------------------------------------------
(* One lemma for each step that writes explanations.                       *)

\* The outcomes there are: what the history of the tasks has to tell.
Decided == {e \in Explanations : e.decision \in Linked /\ Exists(e) /\ ~Generating(e)}

\* Steps that decide nothing keep the history true.
LEMMA HistoryUntouched ==
    ASSUME HistoryTellsOutcome, UNCHANGED events, Decided' = Decided,
           \A e \in Decided : Row(e)'.status = Row(e).status
    PROVE  HistoryTellsOutcome'
  BY DEF HistoryTellsOutcome, Decided

\* LatestIsGenerating of one decision.
Latest(d) ==
    /\ \A v \in DOMAIN versions[d] :
         versions[d][v].status = "generating" => v = Len(versions[d])
    /\ Len(versions[d]) =
         requests[d] + IF d \in Migrated \/ versions[d] = <<>> THEN 0 ELSE 1

\* What the invariant says beyond the types.
RowsInv == LatestIsGenerating /\ HistoryTellsOutcome /\ NewBatches

\* What no step may do to the explanations there are.
RowsStay == \A e \in Explanations :
    Exists(e) => Exists(e)' /\ (~Generating(e) => Row(e)' = Row(e))

\* What a step that decides nothing does to them: further ones are to be written.
RowsGrow == \A e \in Explanations :
    /\ Exists(e) => Exists(e)' /\ Row(e)' = Row(e)
    /\ Exists(e)' => Exists(e) \/ Row(e)'.status = "generating"

\* A request adds a version behind decided ones.
LEMMA RetryRows ==
    ASSUME TypeOK, RowsInv, NEW d \in Decisions, RetryAI(d)
    PROVE  /\ versions' \in [Decisions -> Seq(Rows)]
           /\ RowsStay /\ RowsInv' /\ RowsGrow
<1>0. versions \in [Decisions -> Seq(Rows)] /\ requests \in [Decisions -> Nat]
  BY DEF TypeOK
<1>1. /\ d \in Linked /\ NewVersion(d)
      /\ d \in Migrated \/ versions[d] # <<>>
      /\ versions[d] # <<>> => versions[d][Len(versions[d])].status # "generating"
      /\ requests' = [requests EXCEPT ![d] = @ + 1]
      /\ UNCHANGED <<waiting, uploaded, events>>
  BY DEF RetryAI
<1> DEFINE n == Len(versions[d])
<1>2. /\ versions' \in [Decisions -> Seq(Rows)]
      /\ \A c \in Decisions : c # d => versions'[c] = versions[c]
      /\ Len(versions'[d]) = n + 1
      /\ versions'[d][n + 1] = [status |-> "generating", at |-> clock]
      /\ \A v \in DOMAIN versions[d] :
           v \in DOMAIN versions'[d] /\ versions'[d][v] = versions[d][v]
      /\ \A v \in DOMAIN versions'[d] : v \in DOMAIN versions[d] \/ v = n + 1
  BY <1>1, NewVersionEffect
<1>3. versions[d] \in Seq(Rows) /\ versions'[d] \in Seq(Rows) /\ n \in Nat
      /\ DOMAIN versions[d] = 1 .. n
  BY <1>0, <1>2
<1>4. \A e \in Explanations :
        /\ Exists(e) => Exists(e)' /\ Row(e)' = Row(e)
        /\ Exists(e)' => Exists(e) \/ Row(e)'.status = "generating"
  BY <1>2, ExplanationFields DEF Exists, Row
<1>5. \A v \in DOMAIN versions[d] : versions[d][v].status # "generating"
  BY <1>1, <1>3 DEF RowsInv, LatestIsGenerating
<1>6. LatestIsGenerating'
  <2> SUFFICES ASSUME NEW c \in Decisions
               PROVE  Latest(c)'
    BY DEF LatestIsGenerating, Latest
  <2>1. Latest(c) /\ requests[c] \in Nat
    BY <1>0 DEF RowsInv, LatestIsGenerating, Latest
  <2>2. CASE c = d
    <3>1. requests'[d] = requests[d] + 1
      BY <1>0, <1>1
    <3>2. versions'[d] # <<>> /\ (versions[d] = <<>> => d \in Migrated)
      BY <1>1, <1>2, <1>3
    <3>3. n + 1 = requests'[d] + IF d \in Migrated \/ versions'[d] = <<>> THEN 0 ELSE 1
      BY <2>1, <2>2, <3>1, <3>2 DEF Latest
    <3> QED BY <1>2, <1>5, <2>2, <3>3 DEF Latest
  <2>3. CASE c # d
    BY <1>0, <1>1, <1>2, <2>1, <2>3 DEF Latest
  <2> QED BY <2>2, <2>3
<1>7. HistoryTellsOutcome'
  <2>1. Decided' = Decided /\ \A e \in Decided : Row(e)' = Row(e)
    BY <1>4 DEF Decided, Generating
  <2> QED BY <1>1, <2>1, HistoryUntouched DEF RowsInv
<1>8. NewBatches'
  <2>1. ASSUME NEW B \in Batches, B \notin uploaded \/ B \in waiting, NEW c \in B
        PROVE  c # d /\ c \in Decisions
    BY <1>1, <2>1, DecisionOfBatch DEF RowsInv, NewBatches
  <2>2. \A c \in Decisions : c # d => requests'[c] = requests[c] /\ versions'[c] = versions[c]
    BY <1>0, <1>1, <1>2
  <2> QED BY <1>1, <2>1, <2>2 DEF RowsInv, NewBatches
<1>9. RowsStay
  BY <1>4 DEF RowsStay
<1> QED
  BY <1>2, <1>4, <1>6, <1>7, <1>8, <1>9 DEF RowsInv, RowsGrow

\* The import gives each decision of its batch a first version, and touches no other.
LEMMA ImportRows ==
    ASSUME TypeOK, RowsInv, NEW w, NEW B \in Batches, Import(w, B)
    PROVE  /\ versions' \in [Decisions -> Seq(Rows)]
           /\ RowsStay /\ RowsInv' /\ RowsGrow
<1>0. versions \in [Decisions -> Seq(Rows)] /\ clock \in Nat
  BY DEF TypeOK
<1>1. /\ B \in waiting /\ waiting' = waiting \ {B}
      /\ UNCHANGED <<uploaded, events, requests>>
  BY DEF Import
<1>2. CASE UNCHANGED versions
  <2>1. LatestIsGenerating' /\ HistoryTellsOutcome' /\ NewBatches'
    BY <1>1, <1>2 DEF RowsInv, LatestIsGenerating, HistoryTellsOutcome, NewBatches,
       Explanations, Exists, Generating, Row
  <2>2. RowsStay /\ RowsGrow
    BY <1>2 DEF RowsStay, RowsGrow, Exists, Generating, Row
  <2> QED BY <1>0, <1>2, <2>1, <2>2 DEF RowsInv
<1>3. CASE versions' = [d \in Decisions |->
                IF d \in B THEN <<[status |-> "generating", at |-> clock]>> ELSE versions[d]]
  <2> DEFINE r == [status |-> "generating", at |-> clock]
  <2>1. r \in Rows /\ r.status = "generating"
    BY <1>0 DEF Rows
  <2> HIDE DEF r
  <2>2. /\ \A d \in B : versions'[d] = <<r>>
        /\ \A d \in Decisions : d \notin B => versions'[d] = versions[d]
    BY <1>3, DecisionOfBatch DEF r
  <2>3. versions' \in [Decisions -> Seq(Rows)]
    BY <1>0, <1>3, <2>1 DEF r
  <2>4. \A d \in B : versions[d] = <<>> /\ d \in Decisions /\ d \notin Migrated
    BY <1>1, DecisionOfBatch DEF RowsInv, NewBatches
  <2>5. \A e \in Explanations :
          /\ Exists(e) => Exists(e)' /\ Row(e)' = Row(e)
          /\ Exists(e)' => Exists(e) \/ Row(e)'.status = "generating"
    <3> SUFFICES ASSUME NEW e \in Explanations
                 PROVE  /\ Exists(e) => Exists(e)' /\ Row(e)' = Row(e)
                        /\ Exists(e)' => Exists(e) \/ Row(e)'.status = "generating"
      OBVIOUS
    <3>1. CASE e.decision \in B
      <4>1. ~Exists(e)
        BY <2>4, <3>1 DEF Exists
      <4>2. Exists(e)' => Row(e)' = r
        BY <2>2, <3>1 DEF Exists, Row
      <4> QED BY <2>1, <4>1, <4>2
    <3>2. CASE e.decision \notin B
      BY <2>2, <3>2, ExplanationFields DEF Exists, Row
    <3> QED BY <3>1, <3>2
  <2>6. LatestIsGenerating'
    <3> SUFFICES ASSUME NEW d \in Decisions
                 PROVE  Latest(d)'
      BY DEF LatestIsGenerating, Latest
    <3>1. Latest(d)
      BY DEF RowsInv, LatestIsGenerating, Latest
    <3>2. CASE d \in B
      <4>1. requests[d] = 0
        BY <2>4, <3>1, <3>2, TypeOK DEF Latest, TypeOK
      <4>2. versions'[d] = <<r>>
        BY <2>2, <3>2
      <4> QED BY <1>1, <2>4, <3>2, <4>1, <4>2 DEF Latest
    <3>3. CASE d \notin B
      BY <1>1, <2>2, <3>1, <3>3 DEF Latest
    <3> QED BY <3>2, <3>3
  <2>7. HistoryTellsOutcome'
    <3>1. Decided' = Decided /\ \A e \in Decided : Row(e)' = Row(e)
      BY <2>5 DEF Decided, Generating
    <3> QED BY <1>1, <3>1, HistoryUntouched DEF RowsInv
  <2>8. NewBatches'
    <3>1. ASSUME NEW C \in Batches, C \notin uploaded \/ C \in waiting \ {B}, NEW d \in C
          PROVE  versions'[d] = <<>>
      <4>1. C # B
        BY <1>1, <3>1 DEF TypeOK
      <4>2. d \in Decisions /\ d \notin B
        BY <3>1, <4>1, DecisionOfBatch
      <4>3. versions[d] = <<>>
        BY <3>1 DEF RowsInv, NewBatches
      <4> QED BY <2>2, <4>2, <4>3
    <3> QED BY <1>1, <3>1 DEF NewBatches
  <2>9. RowsStay
    BY <2>5 DEF RowsStay
  <2> QED BY <2>3, <2>5, <2>6, <2>7, <2>8, <2>9 DEF RowsInv, RowsGrow
<1> QED
  BY <1>2, <1>3 DEF Import

\* An answer decides at most its own explanation and tells it in the history.
LEMMA RecordRows ==
    ASSUME TypeOK, RowsInv, NEW w \in Workers, NEW o \in Outcomes, Record(w, o)
    PROVE  /\ versions' \in [Decisions -> Seq(Rows)]
           /\ events' \subseteq [of: Explanations, to: Outcomes]
           /\ RowsStay /\ RowsInv'
<1>1. PICK e \in Explanations : /\ Exists(e) /\ Decide(e, o) /\ Tell(e, o)
                                /\ UNCHANGED <<waiting, uploaded, requests>>
  BY DEF Record, TypeOK
<1>2. /\ versions' \in [Decisions -> Seq(Rows)]
      /\ \A c \in Decisions : /\ DOMAIN versions'[c] = DOMAIN versions[c]
                              /\ Len(versions'[c]) = Len(versions[c])
                              /\ versions'[c] = <<>> <=> versions[c] = <<>>
      /\ \A c \in Decisions : \A v \in DOMAIN versions[c] :
           c # e.decision \/ v # e.version => versions'[c][v] = versions[c][v]
      /\ Row(e)'.status = IF Generating(e) THEN o ELSE Row(e).status
      /\ ~Generating(e) => Row(e)' = Row(e)
  BY <1>1, DecideEffect
<1>3. o # "generating"
  BY OutcomesAssumption DEF GatewayOutcomes
<1>4. ASSUME NEW f \in Explanations
      PROVE  /\ Exists(f)' <=> Exists(f)
             /\ Exists(f) /\ f # e => Row(f)' = Row(f)
  <2>1. f # e => f.decision # e.decision \/ f.version # e.version
    BY <1>1, ExplanationFields
  <2> QED BY <1>2, <2>1, ExplanationFields DEF Exists, Row
<1>5. LatestIsGenerating'
  <2> SUFFICES ASSUME NEW d \in Decisions
               PROVE  Latest(d)'
    BY DEF LatestIsGenerating, Latest
  <2>1. Latest(d)
    BY DEF RowsInv, LatestIsGenerating, Latest
  <2>2. ASSUME NEW v \in DOMAIN versions[d], versions'[d][v].status = "generating"
        PROVE  versions[d][v].status = "generating"
    <3>1. CASE d = e.decision /\ v = e.version
      <4>1. Row(e)'.status = "generating" /\ Row(e) = versions[d][v]
        BY <2>2, <3>1 DEF Row
      <4> QED BY <1>2, <1>3, <4>1 DEF Generating
    <3>2. CASE ~(d = e.decision /\ v = e.version)
      BY <1>2, <2>2, <3>2
    <3> QED BY <3>1, <3>2
  <2> QED BY <1>1, <1>2, <2>1, <2>2 DEF Latest
<1>6. NewBatches'
  <2>1. \A B \in Batches : \A d \in B : d \in Decisions
    BY DecisionOfBatch
  <2> QED BY <1>1, <1>2, <2>1 DEF RowsInv, NewBatches
<1>7. RowsStay
  BY <1>1, <1>2, <1>4 DEF RowsStay
<1>8. HistoryTellsOutcome' /\ events' \subseteq [of: Explanations, to: Outcomes]
  <2>0. events = {[of |-> f, to |-> Row(f).status] : f \in Decided}
        /\ events \subseteq [of: Explanations, to: Outcomes]
    BY DEF RowsInv, HistoryTellsOutcome, Decided, TypeOK
  <2>1. \A f \in Decided : f \in Decided' /\ Row(f)' = Row(f)
    BY <1>7, <1>4, <1>1, <1>2 DEF Decided, RowsStay, Generating
  <2>2. \A f \in Decided' : f \in Decided \/ f = e
    BY <1>4 DEF Decided, Generating
  <2>3. (\E x \in events : x.of = e) <=> e \in Decided
    <3>1. \A x \in events : \E f \in Decided : x.of = f
      BY <2>0
    <3>2. ASSUME e \in Decided PROVE \E x \in events : x.of = e
      <4>1. [of |-> e, to |-> Row(e).status] \in events
        BY <2>0, <3>2
      <4> QED BY <4>1
    <3> QED BY <3>1, <3>2
  <2>4. e \in Decided' <=> e.decision \in Linked
    BY <1>1, <1>2, <1>3, <1>4 DEF Decided, Generating
  <2>5. CASE e.decision \in Linked /\ e \notin Decided
    <3>1. events' = events \cup {[of |-> e, to |-> o]}
      BY <1>1, <2>3, <2>5 DEF Tell
    <3>2. Decided' = Decided \cup {e}
      BY <2>1, <2>2, <2>4, <2>5
    <3>3. Row(e)'.status = o
      BY <1>1, <1>2, <2>5 DEF Decided
    <3>4. events' = {[of |-> f, to |-> Row(f)'.status] : f \in Decided'}
      BY <2>0, <2>1, <3>1, <3>2, <3>3
    <3> QED BY <1>1, <2>0, <3>1, <3>4 DEF HistoryTellsOutcome, Decided
  <2>6. CASE ~(e.decision \in Linked /\ e \notin Decided)
    <3>1. events' = events
      BY <1>1, <2>3, <2>6 DEF Tell
    <3>2. Decided' = Decided
      BY <2>1, <2>2, <2>4, <2>6
    <3> QED BY <2>0, <2>1, <3>1, <3>2, HistoryUntouched DEF RowsInv
  <2> QED BY <2>5, <2>6
<1> QED
  BY <1>2, <1>5, <1>6, <1>7, <1>8 DEF RowsInv

-----------------------------------------------------------------------------
(* The types, step by step.                                                *)

\* Steps that leave the explanations alone keep what is said of them.
LEMMA RowsUntouched ==
    ASSUME RowsInv, UNCHANGED <<versions, events, requests>>,
           \A B \in Batches : B \notin uploaded' \/ B \in waiting' =>
              B \notin uploaded \/ B \in waiting
    PROVE  RowsStay /\ RowsInv'
<1>1. LatestIsGenerating' /\ HistoryTellsOutcome' /\ NewBatches'
  BY DEF RowsInv, LatestIsGenerating, HistoryTellsOutcome, NewBatches, Explanations,
     Exists, Generating, Row
<1>2. RowsStay
  BY DEF RowsStay, Exists, Generating, Row
<1> QED
  BY <1>1, <1>2 DEF RowsInv

\* Each worker keeps its place when it does not move, and what it asks for stays.
LEMMA PlacesStay ==
    ASSUME TypeOK, RowsStay, UNCHANGED <<pc, asked>>
    PROVE  /\ pc' \in [Workers -> {"loop", "reading", "asking"}]
           /\ asked' \in [Workers -> Explanations \cup {Nothing}]
           /\ \A u \in Workers :
                IF pc'[u] = "asking" THEN asked'[u] \in Explanations /\ Exists(asked[u])'
                ELSE asked'[u] = Nothing
<1>1. \A u \in Workers : pc[u] = "asking" => asked[u] \in Explanations /\ Exists(asked[u])
  BY DEF TypeOK
<1>2. \A e \in Explanations : Exists(e) => Exists(e)'
  BY DEF RowsStay
<1>3. ASSUME NEW u \in Workers, pc[u] = "asking" PROVE Exists(asked[u])'
  <2>1. PICK e \in Explanations : e = asked[u] /\ Exists(e)
    BY <1>1, <1>3
  <2>2. Exists(e)' /\ asked[u]' = e
    BY <1>2, <2>1
  <2> QED BY <2>2 DEF Exists
<1> QED
  BY <1>1, <1>3 DEF TypeOK

\* Every step keeps the invariant and leaves decided explanations alone.
LEMMA InvStep ==
    ASSUME TypeOK, RowsInv, [Next]_vars
    PROVE  TypeOK' /\ RowsInv' /\ RowsStay
<1>t. /\ waiting \subseteq uploaded /\ uploaded \subseteq Batches
      /\ versions \in [Decisions -> Seq(Rows)]
      /\ events \subseteq [of: Explanations, to: Outcomes]
      /\ requests \in [Decisions -> Nat] /\ clock \in Nat /\ lost \in Nat
      /\ pc \in [Workers -> {"loop", "reading", "asking"}]
      /\ asked \in [Workers -> Explanations \cup {Nothing}]
  BY DEF TypeOK
<1> DEFINE Placed == /\ pc' \in [Workers -> {"loop", "reading", "asking"}]
                     /\ asked' \in [Workers -> Explanations \cup {Nothing}]
                     /\ \A u \in Workers :
                          IF pc'[u] = "asking"
                          THEN asked'[u] \in Explanations /\ Exists(asked[u])'
                          ELSE asked'[u] = Nothing
<1>1. ASSUME NEW B \in Batches, Upload(B) PROVE TypeOK' /\ RowsInv' /\ RowsStay
  <2>1. /\ uploaded' = uploaded \cup {B} /\ waiting' = waiting \cup {B} /\ B \notin uploaded
        /\ UNCHANGED <<versions, events, requests, clock, pc, asked, lost>>
    BY <1>1 DEF Upload
  <2>2. RowsStay /\ RowsInv'
    BY <2>1, RowsUntouched
  <2>3. Placed
    BY <2>1, <2>2, PlacesStay
  <2> QED BY <1>t, <2>1, <2>2, <2>3 DEF TypeOK
<1>2. ASSUME NEW d \in Decisions, RetryAI(d) PROVE TypeOK' /\ RowsInv' /\ RowsStay
  <2>1. /\ requests' = [requests EXCEPT ![d] = @ + 1] /\ clock' = clock + 1
        /\ UNCHANGED <<waiting, uploaded, events, pc, asked, lost>>
    BY <1>2 DEF RetryAI
  <2>2. versions' \in [Decisions -> Seq(Rows)] /\ RowsStay /\ RowsInv'
    BY <1>2, RetryRows
  <2>3. Placed
    BY <2>1, <2>2, PlacesStay
  <2>4. requests' \in [Decisions -> Nat] /\ clock' \in Nat
    BY <1>t, <2>1
  <2> QED BY <1>t, <2>1, <2>2, <2>3, <2>4 DEF TypeOK
<1>3. ASSUME NEW w \in Workers, NEW B \in Batches, Import(w, B)
      PROVE  TypeOK' /\ RowsInv' /\ RowsStay
  <2>1. /\ waiting' = waiting \ {B} /\ clock' \in {clock, clock + 1}
        /\ UNCHANGED <<uploaded, events, requests, pc, asked, lost>>
    BY <1>3 DEF Import
  <2>2. versions' \in [Decisions -> Seq(Rows)] /\ RowsStay /\ RowsInv'
    BY <1>3, ImportRows
  <2>3. Placed
    BY <2>1, <2>2, PlacesStay
  <2> QED BY <1>t, <2>1, <2>2, <2>3 DEF TypeOK
<1>4. ASSUME NEW w \in Workers, NoImport(w) \/ NothingToRead(w)
      PROVE  TypeOK' /\ RowsInv' /\ RowsStay
  <2>1. /\ pc[w] # "asking" /\ \E p \in {"loop", "reading"} : pc' = [pc EXCEPT ![w] = p]
        /\ UNCHANGED <<waiting, uploaded, versions, events, requests, clock, asked, lost>>
    BY <1>4 DEF NoImport, NothingToRead, Go
  <2>2. RowsStay /\ RowsInv'
    BY <2>1, RowsUntouched
  <2>3. Placed
    BY <1>t, <2>1 DEF TypeOK, Exists
  <2> QED BY <1>t, <2>1, <2>2, <2>3 DEF TypeOK
<1>5. ASSUME NEW w \in Workers, Read(w) PROVE TypeOK' /\ RowsInv' /\ RowsStay
  <2>1. PICK e \in Explanations : Oldest(e) /\ asked' = [asked EXCEPT ![w] = e]
    BY <1>5 DEF Read
  <2>2. /\ pc' = [pc EXCEPT ![w] = "asking"] /\ Exists(e)
        /\ UNCHANGED <<waiting, uploaded, versions, events, requests, clock, lost>>
    BY <1>5, <2>1 DEF Read, Go, Oldest, Generating
  <2>3. RowsStay /\ RowsInv'
    BY <2>2, RowsUntouched
  <2>4. \A u \in Workers : u # w => asked'[u] = asked[u] /\ pc'[u] = pc[u]
    BY <1>t, <2>1, <2>2 DEF TypeOK
  <2>5. asked'[w] = e /\ pc'[w] = "asking"
    BY <1>t, <2>1, <2>2 DEF TypeOK
  <2>6. \A u \in Workers :
          IF pc'[u] = "asking" THEN asked'[u] \in Explanations /\ Exists(asked[u])'
          ELSE asked'[u] = Nothing
    <3> SUFFICES ASSUME NEW u \in Workers
                 PROVE  IF pc'[u] = "asking"
                        THEN asked'[u] \in Explanations /\ Exists(asked[u])'
                        ELSE asked'[u] = Nothing
      OBVIOUS
    <3>1. CASE u = w
      BY <2>2, <2>5, <3>1 DEF Exists
    <3>2. CASE u # w
      BY <2>2, <2>4, <3>2 DEF TypeOK, Exists
    <3> QED BY <3>1, <3>2
  <2>7. Placed
    BY <1>t, <2>1, <2>2, <2>6
  <2> QED BY <1>t, <2>2, <2>3, <2>7 DEF TypeOK
<1>6. ASSUME NEW w \in Workers, Done(w), RowsStay
      PROVE  Placed
  <2>1. \A u \in Workers : u # w => asked'[u] = asked[u] /\ pc'[u] = pc[u]
    BY <1>t, <1>6 DEF TypeOK, Done, Go
  <2>2. asked'[w] = Nothing /\ pc'[w] = "loop"
    BY <1>t, <1>6 DEF TypeOK, Done, Go
  <2> QED BY <1>t, <1>6, <2>1, <2>2 DEF TypeOK, Done, Go, Exists, RowsStay
<1>7. ASSUME NEW w \in Workers, NEW o \in Outcomes, Record(w, o)
      PROVE  TypeOK' /\ RowsInv' /\ RowsStay
  <2>1. Done(w) /\ UNCHANGED <<waiting, uploaded, requests, clock, lost>>
    BY <1>7 DEF Record
  <2>2. /\ versions' \in [Decisions -> Seq(Rows)] /\ RowsStay /\ RowsInv'
        /\ events' \subseteq [of: Explanations, to: Outcomes]
    BY <1>7, RecordRows
  <2> QED BY <1>t, <1>6, <2>1, <2>2 DEF TypeOK
<1>8. ASSUME NEW w \in Workers, Lose(w) PROVE TypeOK' /\ RowsInv' /\ RowsStay
  <2>1. /\ Done(w) /\ lost' = lost + 1
        /\ UNCHANGED <<waiting, uploaded, versions, events, requests, clock>>
    BY <1>8 DEF Lose
  <2>2. RowsStay /\ RowsInv'
    BY <2>1, RowsUntouched
  <2> QED BY <1>t, <1>6, <2>1, <2>2 DEF TypeOK
<1>9. CASE UNCHANGED vars
  <2>1. UNCHANGED <<waiting, uploaded, versions, events, requests, clock, pc, asked, lost>>
    BY <1>9 DEF vars
  <2>2. RowsStay /\ RowsInv'
    BY <2>1, RowsUntouched
  <2>3. Placed
    BY <2>1, <2>2, PlacesStay
  <2> QED BY <1>t, <2>1, <2>2, <2>3 DEF TypeOK
<1> QED
  BY <1>1, <1>2, <1>3, <1>4, <1>5, <1>7, <1>8, <1>9 DEF Next, WorkerStep

\* The database before the first explanation.
LEMMA InvInit == Init => TypeOK /\ RowsInv
<1> SUFFICES ASSUME Init PROVE TypeOK /\ RowsInv
  OBVIOUS
<1>1. TypeOK
  BY EmptySeq DEF Init, TypeOK
<1>2. LatestIsGenerating
  BY DEF Init, LatestIsGenerating
<1>3. \A e \in Explanations : ~Exists(e)
  BY ExplanationFields DEF Init, Exists
<1>4. HistoryTellsOutcome
  BY <1>3 DEF Init, HistoryTellsOutcome
<1>5. NewBatches
  BY DecisionOfBatch DEF Init, NewBatches
<1> QED
  BY <1>1, <1>2, <1>4, <1>5 DEF RowsInv

-----------------------------------------------------------------------------
(* The theorems.                                                           *)

\* The inductive invariant of the explanations.
THEOREM InvariantHolds == Spec => [](TypeOK /\ RowsInv)
  BY InvInit, InvStep, PTL DEF Spec

\* The rows of explanations, events and requests have their types, and a worker
\* asks for explanations that exist.
THEOREM TypeCorrect == Spec => []TypeOK
<1>1. TypeOK /\ RowsInv => TypeOK
  OBVIOUS
<1> QED
  BY <1>1, InvariantHolds, PTL

\* Only the latest explanation of a decision is ever being generated.
THEOREM LatestIsGeneratingHolds == Spec => []LatestIsGenerating
<1>1. TypeOK /\ RowsInv => LatestIsGenerating
  BY DEF RowsInv
<1> QED
  BY <1>1, InvariantHolds, PTL

\* The history of a task tells the outcome of every explanation, once and truly.
THEOREM HistoryTellsOutcomeHolds == Spec => []HistoryTellsOutcome
<1>1. TypeOK /\ RowsInv => HistoryTellsOutcome
  BY DEF RowsInv
<1> QED
  BY <1>1, InvariantHolds, PTL

\* A decided explanation never changes and none is lost.
THEOREM DecidedStaysHolds == Spec => DecidedStays
<1>1. (TypeOK /\ RowsInv) /\ [Next]_vars =>
        [ \A e \in Explanations :
            Exists(e) => /\ Exists(e)'
                         /\ ~Generating(e) => Row(e)' = Row(e) ]_vars
  BY InvStep DEF RowsStay
<1> QED
  BY <1>1, InvariantHolds, PTL DEF Spec, DecidedStays

-----------------------------------------------------------------------------
(* The explanations implement AnsweredOnce.                                *)

\* The status of a row is one of those there are.
LEMMA RowStatus ==
    ASSUME TypeOK, NEW e \in Explanations, Exists(e)
    PROVE  Row(e).status \in {"generating"} \cup Outcomes
<1>1. versions[e.decision] \in Seq(Rows)
  BY ExplanationFields DEF TypeOK
<1>2. versions[e.decision][e.version] \in Rows
  BY <1>1, ElementOfSeq DEF Exists
<1> QED BY <1>2 DEF Row, Rows

\* Explanations that come to be are asked for, at once and behind answered ones.
LEMMA GrowthAsks ==
    ASSUME TypeOK, TypeOK', RowsInv', RowsGrow, UNCHANGED events
    PROVE  \E Q \in SUBSET Explanations : Once!Ask(Q)
<1> DEFINE Q == {e \in Explanations : Exists(e)' /\ ~Exists(e)}
<1>1. \A e \in Explanations :
        /\ e \in Q => Answer(e) = "absent" /\ Answer(e)' = "generating"
        /\ e \notin Q => Answer(e)' = Answer(e)
  BY DEF RowsGrow, Answer
<1>2. ASSUME NEW e \in Q, NEW f \in Explanations,
             f.decision = e.decision, f.version < e.version
      PROVE  Answer(f) \in Outcomes
  <2> DEFINE d == e.decision
  <2>1. /\ d \in Decisions /\ versions'[d] \in Seq(Rows)
        /\ DOMAIN versions'[d] = 1 .. Len(versions'[d]) /\ Len(versions'[d]) \in Nat
        /\ f.version \in 1 .. MaxVersions /\ e.version \in DOMAIN versions'[d]
    BY ExplanationFields, LenProperties DEF TypeOK, Exists
  <2>2. f.version \in DOMAIN versions'[d] /\ f.version # Len(versions'[d])
    BY <1>2, <2>1
  <2>3. Exists(f)' /\ Row(f)'.status # "generating"
    <3>1. Exists(f)' /\ Row(f)' = versions'[d][f.version]
      BY <1>2, <2>2 DEF Exists, Row
    <3> QED BY <2>1, <2>2, <3>1 DEF RowsInv, LatestIsGenerating
  <2>4. Exists(f) /\ Row(f).status # "generating"
    BY <2>3 DEF RowsGrow
  <2> QED BY <2>4, RowStatus DEF Answer
<1>3. [e \in Explanations |-> Answer(e)]' =
         [e \in Explanations |->
             IF e \in Q THEN "generating" ELSE [f \in Explanations |-> Answer(f)][e]]
  <2> HIDE DEF Q
  <2> QED BY <1>1
<1>4. Q \in SUBSET Explanations
  OBVIOUS
<1>5. Once!Ask(Q)
  BY <1>1, <1>2, <1>3, <1>4 DEF Once!Ask
<1> QED BY <1>4, <1>5

\* The answer of a worker is the one answer of its explanation, or is too late.
LEMMA RecordAnswers ==
    ASSUME TypeOK, RowsInv, NEW w \in Workers, NEW o \in Outcomes, Record(w, o)
    PROVE  [Once!Next]_(Once!vars)
<1>1. PICK e \in Explanations : Exists(e) /\ Decide(e, o) /\ Tell(e, o)
  BY DEF Record, TypeOK
<1>2. /\ \A c \in Decisions : DOMAIN versions'[c] = DOMAIN versions[c]
      /\ \A c \in Decisions : \A v \in DOMAIN versions[c] :
           c # e.decision \/ v # e.version => versions'[c][v] = versions[c][v]
      /\ Row(e)'.status = IF Generating(e) THEN o ELSE Row(e).status
  BY <1>1, DecideEffect
<1>3. ASSUME NEW f \in Explanations
      PROVE  /\ Exists(f)' <=> Exists(f)
             /\ Exists(f) /\ f # e => Row(f)' = Row(f)
  <2>1. f # e => f.decision # e.decision \/ f.version # e.version
    BY <1>1, ExplanationFields
  <2> QED BY <1>2, <2>1, ExplanationFields DEF Exists, Row
<1>4. \A f \in Explanations : f # e => Answer(f)' = Answer(f)
  BY <1>3 DEF Answer
<1>5. Answer(e)' = IF Generating(e) THEN o ELSE Answer(e)
  BY <1>1, <1>2, <1>3 DEF Answer
<1>6. \A x \in events : \E f \in Explanations : x.of = f /\ ~Generating(f)
  BY DEF RowsInv, HistoryTellsOutcome
<1>7. CASE Generating(e)
  <2>1. Answer(e) = "generating"
    BY <1>7 DEF Answer, Generating
  <2>2. events' = IF e \in {f \in Explanations : f.decision \in Linked}
                  THEN events \cup {[of |-> e, to |-> o]} ELSE events
    BY <1>1, <1>6, <1>7 DEF Tell
  <2>3. [f \in Explanations |-> Answer(f)]' =
           [[f \in Explanations |-> Answer(f)] EXCEPT ![e] = o]
    BY <1>4, <1>5, <1>7
  <2>4. Once!Answer(e, o)
    BY <2>1, <2>2, <2>3 DEF Once!Answer
  <2> QED BY <2>4 DEF Once!Next
<1>8. CASE ~Generating(e)
  <2>1. \A f \in Explanations : Answer(f)' = Answer(f)
    BY <1>4, <1>5, <1>8
  <2>2. e.decision \in Linked => \E x \in events : x.of = e
    <3> SUFFICES ASSUME e.decision \in Linked
                 PROVE  \E x \in events : x.of = e
      OBVIOUS
    <3>1. [of |-> e, to |-> Row(e).status] \in events
      BY <1>1, <1>8 DEF RowsInv, HistoryTellsOutcome
    <3> QED BY <3>1
  <2>3. events' = events
    BY <1>1, <2>2 DEF Tell
  <2> QED BY <2>1, <2>3 DEF Once!vars
<1> QED BY <1>7, <1>8

\* A step that touches neither explanations nor events is not seen.
LEMMA AnswersUntouched ==
    ASSUME UNCHANGED <<versions, events>>
    PROVE  UNCHANGED Once!vars
  BY DEF Once!vars, Answer, Exists, Row

\* Every step is one of AnsweredOnce, or is not seen.
LEMMA OnceNext ==
    ASSUME TypeOK, RowsInv, TypeOK', RowsInv', [Next]_vars
    PROVE  [Once!Next]_(Once!vars)
<1>1. ASSUME NEW d \in Decisions, RetryAI(d)
      PROVE  [Once!Next]_(Once!vars)
  <2>1. RowsGrow /\ UNCHANGED events
    BY <1>1, RetryRows DEF RetryAI
  <2> QED BY <2>1, GrowthAsks DEF Once!Next
<1>2. ASSUME NEW w \in Workers, NEW B \in Batches, Import(w, B)
      PROVE  [Once!Next]_(Once!vars)
  <2>1. RowsGrow /\ UNCHANGED events
    BY <1>2, ImportRows DEF Import
  <2> QED BY <2>1, GrowthAsks DEF Once!Next
<1>3. ASSUME NEW w \in Workers,
             NoImport(w) \/ Read(w) \/ NothingToRead(w) \/ Lose(w)
      PROVE  [Once!Next]_(Once!vars)
  BY <1>3, AnswersUntouched DEF NoImport, Read, NothingToRead, Lose
<1>4. ASSUME NEW B \in Batches, Upload(B)
      PROVE  [Once!Next]_(Once!vars)
  BY <1>4, AnswersUntouched DEF Upload
<1>5. CASE UNCHANGED vars
  BY <1>5, AnswersUntouched DEF vars
<1> QED
  BY <1>1, <1>2, <1>3, <1>4, <1>5, RecordAnswers DEF Next, WorkerStep

\* No explanation was asked for at the start.
LEMMA OnceInit == Init => Once!Init
<1> SUFFICES ASSUME Init PROVE Once!Init
  OBVIOUS
<1>1. \A e \in Explanations : ~Exists(e)
  BY ExplanationFields DEF Init, Exists
<1> QED BY <1>1 DEF Init, Once!Init, Answer

\* The explanations implement AnsweredOnce, for any number of workers that have the
\* same explanation written, and whatever is lost.
THEOREM ExplanationsAnsweredOnceHolds == Spec => ExplanationsAnsweredOnce
<1>1. (TypeOK /\ RowsInv) /\ (TypeOK /\ RowsInv)' /\ [Next]_vars
        => [Once!Next]_(Once!vars)
  BY OnceNext
<1> QED
  BY <1>1, OnceInit, InvariantHolds, PTL DEF Spec, ExplanationsAnsweredOnce, Once!Spec

=============================================================================
