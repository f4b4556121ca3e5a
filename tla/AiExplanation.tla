----------------------------- MODULE AiExplanation -----------------------------
(***************************************************************************)
(* The explanations that the language model gateway writes for decisions:    *)
(* the versions of ai_explanation, the workers that have them written, the   *)
(* requests that ask for another one.  Sources: internal/explanation/         *)
(* processor.go (RunOne), internal/action/commands.go (RetryAI),             *)
(* internal/batch/processor.go (the first version), cmd/worker/main.go.       *)
(*                                                                         *)
(* A worker reads the oldest version that is being generated without         *)
(* claiming it, asks the gateway outside any transaction for up to 45 s, and  *)
(* records the answer in one transaction.  RetryAI locks the link of the     *)
(* decision; the event that an answer writes refers to the link, so the two   *)
(* transactions wait for one another and each is one action.  What the       *)
(* import of a batch does before it inserts the explanations is in            *)
(* BatchPipeline; here it is one action, which publishes the batch or fails.  *)
(***************************************************************************)
EXTENDS Integers, Sequences, FiniteSets

CONSTANTS
    Workers,      \* worker processes
    Batches,      \* batches to be uploaded, each the set of its decisions
    Migrated,     \* decisions made before there were explanations
    Linked,       \* decisions that are linked to a task
    Outcomes,     \* what a call of the gateway may lead to
    MaxVersions,  \* bound: explanations of one decision
    MaxLost       \* bound: answers lost to stops and failing databases

Decisions == Migrated \cup UNION Batches

ASSUME BatchesAssumption ==
    /\ \A B, C \in Batches : B = C \/ B \cap C = {}
    /\ \A B \in Batches : B \cap Migrated = {}
ASSUME LinkedAssumption == Linked \subseteq Decisions
\* An adopted text; an error, a text that was not adopted, no gateway to ask.
GatewayOutcomes == {"generated", "failed", "not_adopted", "not_configured"}

ASSUME OutcomesAssumption == Outcomes \subseteq GatewayOutcomes
ASSUME BoundsAssumption == MaxVersions \in Nat /\ MaxLost \in Nat

VARIABLES
    waiting,   \* batches uploaded and not yet imported
    uploaded,  \* batches uploaded so far
    versions,  \* ai_explanation rows of a decision, in order of version
    events,    \* ai_explanation_completed rows, by the explanation in their key
    requests,  \* ai_retry_requested rows of a decision
    clock,     \* transactions that created explanations, for created_at
    pc,        \* where each worker is in its loop
    asked,     \* the explanation a worker asks the gateway for
    lost       \* answers lost so far

vars == <<waiting, uploaded, versions, events, requests, clock, pc, asked, lost>>

Rows == [status: {"generating"} \cup Outcomes, at: Nat]
Nothing == [decision |-> "none", version |-> 0]

\* All explanations there are, by decision and version.
Explanations ==
    {[decision |-> d, version |-> v] : d \in Decisions, v \in 1 .. MaxVersions}
Exists(e) == e.version \in DOMAIN versions[e.decision]
Row(e) == versions[e.decision][e.version]
Generating(e) == Exists(e) /\ Row(e).status = "generating"

NewVersion(d) ==
    versions' = [versions EXCEPT ![d] = Append(@, [status |-> "generating", at |-> clock])]

Init ==
    /\ waiting = {} /\ uploaded = {}
    /\ versions = [d \in Decisions |-> <<>>]
    /\ events = {}
    /\ requests = [d \in Decisions |-> 0]
    /\ clock = 0
    /\ pc = [w \in Workers |-> "loop"]
    /\ asked = [w \in Workers |-> Nothing]
    /\ lost = 0

Go(w, place) == pc' = [pc EXCEPT ![w] = place]

-----------------------------------------------------------------------------
(* The API.                                                                *)

Upload(B) ==
    /\ B \notin uploaded
    /\ uploaded' = uploaded \cup {B} /\ waiting' = waiting \cup {B}
    /\ UNCHANGED <<versions, events, requests, clock, pc, asked, lost>>

\* Variant of RetryAI: the state of the latest explanation is not read.
RetryAnyway(d) ==
    /\ d \in Linked /\ Len(versions[d]) < MaxVersions
    /\ d \in Migrated \/ versions[d] # <<>>
    /\ NewVersion(d) /\ clock' = clock + 1
    /\ requests' = [requests EXCEPT ![d] = @ + 1]
    /\ UNCHANGED <<waiting, uploaded, events, pc, asked, lost>>

RetryAI(d) ==
    /\ d \in Linked /\ Len(versions[d]) < MaxVersions
    /\ d \in Migrated \/ versions[d] # <<>>
    /\ versions[d] # <<>> => versions[d][Len(versions[d])].status # "generating"
    /\ NewVersion(d) /\ clock' = clock + 1
    /\ requests' = [requests EXCEPT ![d] = @ + 1]
    /\ UNCHANGED <<waiting, uploaded, events, pc, asked, lost>>

-----------------------------------------------------------------------------
(* The worker's loop: imports first, one explanation when there are none.   *)

\* The import publishes the decisions of a batch with their first explanations,
\* or the batch fails; in both cases the loop starts again.
Import(w, B) ==
    /\ pc[w] = "loop" /\ B \in waiting
    /\ waiting' = waiting \ {B}
    /\ \/ /\ versions' = [d \in Decisions |->
                 IF d \in B THEN <<[status |-> "generating", at |-> clock]>>
                 ELSE versions[d]]
          /\ clock' = clock + 1
       \/ UNCHANGED <<versions, clock>>
    /\ UNCHANGED <<uploaded, events, requests, pc, asked, lost>>

NoImport(w) ==
    /\ pc[w] = "loop" /\ waiting = {}
    /\ Go(w, "reading")
    /\ UNCHANGED <<waiting, uploaded, versions, events, requests, clock, asked, lost>>

\* ORDER BY created_at LIMIT 1; those of one batch have the same created_at.
Oldest(e) ==
    /\ Generating(e)
    /\ \A f \in Explanations : Generating(f) => Row(e).at <= Row(f).at

\* Variant of Read: the version after the oldest one.
ReadNext(w) ==
    /\ pc[w] = "reading"
    /\ \E e \in Explanations :
         Oldest(e) /\ asked' = [asked EXCEPT ![w] = [e EXCEPT !.version = @ + 1]]
    /\ Go(w, "asking")
    /\ UNCHANGED <<waiting, uploaded, versions, events, requests, clock, lost>>

Read(w) ==
    /\ pc[w] = "reading"
    /\ \E e \in Explanations : Oldest(e) /\ asked' = [asked EXCEPT ![w] = e]
    /\ Go(w, "asking")
    /\ UNCHANGED <<waiting, uploaded, versions, events, requests, clock, lost>>

NothingToRead(w) ==
    /\ pc[w] = "reading"
    /\ \A e \in Explanations : ~Generating(e)
    /\ Go(w, "loop")
    /\ UNCHANGED <<waiting, uploaded, versions, events, requests, clock, asked, lost>>

\* Variant of Decide: the status is not read again.
DecideAgain(e, outcome) ==
    versions' = [versions EXCEPT ![e.decision][e.version].status = outcome]

\* UPDATE ai_explanation ... WHERE status='generating'
Decide(e, outcome) ==
    versions' = [versions EXCEPT ![e.decision][e.version].status =
                    IF @ = "generating" THEN outcome ELSE @]

\* Variant of Tell: ON CONFLICT DO UPDATE.
TellLast(e, outcome) ==
    events' = IF e.decision \in Linked
              THEN {x \in events : x.of # e} \cup {[of |-> e, to |-> outcome]}
              ELSE events

\* INSERT INTO business_event ... ON CONFLICT DO NOTHING, for the link if any.
Tell(e, outcome) ==
    events' = IF e.decision \in Linked /\ \A x \in events : x.of # e
              THEN events \cup {[of |-> e, to |-> outcome]}
              ELSE events

Done(w) ==
    /\ Go(w, "loop")
    /\ asked' = [asked EXCEPT ![w] = Nothing]

\* Variant of Record: an error of the gateway is only logged.
RecordSuccess(w, outcome) ==
    /\ pc[w] = "asking"
    /\ IF outcome = "generated"
       THEN Decide(asked[w], outcome) /\ Tell(asked[w], outcome)
       ELSE UNCHANGED <<versions, events>>
    /\ Done(w)
    /\ UNCHANGED <<waiting, uploaded, requests, clock, lost>>

\* The gateway's answer, adopted or not, or its error or timeout.
Record(w, outcome) ==
    /\ pc[w] = "asking"
    /\ Decide(asked[w], outcome)
    /\ Tell(asked[w], outcome)
    /\ Done(w)
    /\ UNCHANGED <<waiting, uploaded, requests, clock, lost>>

\* The worker is stopped, or cannot write the answer: the row stays as it is.
Lose(w) ==
    /\ pc[w] = "asking" /\ lost < MaxLost
    /\ lost' = lost + 1
    /\ Done(w)
    /\ UNCHANGED <<waiting, uploaded, versions, events, requests, clock>>

WorkerStep(w) ==
    \/ \E B \in Batches : Import(w, B)
    \/ NoImport(w) \/ Read(w) \/ NothingToRead(w)
    \/ \E o \in Outcomes : Record(w, o)

Next ==
    \/ \E B \in Batches : Upload(B)
    \/ \E d \in Decisions : RetryAI(d)
    \/ \E w \in Workers : WorkerStep(w) \/ Lose(w)

Spec == Init /\ [][Next]_vars

\* The loop goes on, and the HTTP client's timeout ends every call of the gateway.
FairSpec == Spec /\ \A w \in Workers : WF_vars(WorkerStep(w))

-----------------------------------------------------------------------------
(* Properties.                                                             *)

\* Rows have their columns' types; a worker asks for an explanation that exists.
TypeOK ==
    /\ waiting \subseteq uploaded /\ uploaded \subseteq Batches
    /\ versions \in [Decisions -> Seq(Rows)]
    /\ events \subseteq [of: Explanations, to: Outcomes]
    /\ requests \in [Decisions -> Nat]
    /\ clock \in Nat /\ lost \in Nat
    /\ pc \in [Workers -> {"loop", "reading", "asking"}]
    /\ asked \in [Workers -> Explanations \cup {Nothing}]
    /\ \A w \in Workers :
         IF pc[w] = "asking" THEN asked[w] \in Explanations /\ Exists(asked[w])
         ELSE asked[w] = Nothing

\* However requests and answers interleave, only the latest explanation of a
\* decision is ever being generated, and each further one was requested.
LatestIsGenerating ==
    \A d \in Decisions :
        /\ \A v \in DOMAIN versions[d] :
             versions[d][v].status = "generating" => v = Len(versions[d])
        /\ Len(versions[d]) =
             requests[d] + IF d \in Migrated \/ versions[d] = <<>> THEN 0 ELSE 1

\* The history of a task tells the outcome of every explanation once, and it is
\* the one the page shows, also when two workers asked for the same explanation
\* and got different answers.
HistoryTellsOutcome ==
    events = {[of |-> e, to |-> Row(e).status] :
                 e \in {f \in Explanations : /\ f.decision \in Linked
                                             /\ Exists(f) /\ ~Generating(f)}}

\* A late answer never changes an explanation that was decided, and none is lost:
\* the text a page has once shown for a decision stays available.
DecidedStays ==
    [][ \A e \in Explanations :
          Exists(e) => /\ Exists(e)'
                       /\ ~Generating(e) => Row(e)' = Row(e) ]_vars

Answer(e) == IF Exists(e) THEN Row(e).status ELSE "absent"

Once == INSTANCE AnsweredOnce
    WITH Questions <- Explanations, Answers <- Outcomes,
         Earlier <- [e \in Explanations |->
             {f \in Explanations : f.decision = e.decision /\ f.version < e.version}],
         Told <- {e \in Explanations : e.decision \in Linked},
         answer <- [e \in Explanations |-> Answer(e)], history <- events

\* Though nobody claims an explanation, several workers may have it written at the
\* same time and any of their answers may be lost: whoever looks at the database
\* sees each explanation asked for once, after those before it, and answered and
\* told once, in one step.
ExplanationsAnsweredOnce == Once!Spec

\* Every explanation is decided, after lost answers, behind imports and behind
\* the explanations before it.
EveryExplanationDecided ==
    \A e \in Explanations : Generating(e) ~> (Exists(e) /\ ~Generating(e))

=============================================================================
