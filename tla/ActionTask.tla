------------------------------ MODULE ActionTask ------------------------------
(***************************************************************************)
(* The stable action task of one SPU: the row of spu_action_task, its       *)
(* revisions, its weekly links, its clearance completions and its business  *)
(* events, with every command that changes them.  Sources:                  *)
(* internal/batch/processor.go (the worker links a decision to the task),    *)
(* internal/action/commands.go and lifecycle_commands.go (the commands of    *)
(* the supervisor and of the responsible operator), migrations/00003.        *)
(*                                                                         *)
(* Every command runs in one transaction that locks the task row, so a       *)
(* command is one action.  A refused command (wrong role, wrong version,     *)
(* wrong state, empty note) rolls back: it is the action not being enabled.  *)
(* A request repeated with a known idempotency key only reads: it stutters.  *)
(* What a command is given by its caller is a parameter: the link, the       *)
(* choice and the version the caller read.  What it checks first is an        *)
(* operator of its own (Reviewable, Overridable, ...), before its effects.   *)
(***************************************************************************)
EXTENDS DecisionRules, Sequences, FiniteSets

CONSTANTS
    Cutoffs,         \* business cutoff dates of the batches, as numbers
    Suggestions,     \* what the fixed rules may say about the SPU
    Overrides,       \* what the supervisor may override to
    MaxLinks,        \* bound: batches that mention the SPU
    MaxVersion,      \* bound: value of each version counter of the task
    MaxCompletions   \* bound: clearance completions submitted

\* Choices validated by Override.
OverrideChoices == {p \in Plans : Paired(p)}

ASSUME CutoffsAssumption == Cutoffs \subseteq Nat
ASSUME SuggestionsAssumption == Suggestions \subseteq RuleOutcomes
ASSUME OverridesAssumption == Overrides \subseteq OverrideChoices
ASSUME BoundsAssumption ==
    MaxLinks \in Nat /\ MaxVersion \in Nat /\ MaxCompletions \in Nat

VARIABLES
    task,         \* the task row, or NoTask
    revs,         \* action_revision rows in creation order
    links,        \* decision_task_link rows in creation order
    completions,  \* clearance_completion statuses by submission version
    events        \* business_event rows, counted by type

vars == <<task, revs, links, completions, events>>

ReviewStatus == {"pending", "approved", "rejected"}
BusinessStates == {"pending_review", "pending_execution", "executed",
                   "result_recorded", "closed", "terminated"}
InventoryStates == {"pending_review", "pending_execution", "processed",
                    "closed", "not_generated", "terminated"}
Relations == {"new_task", "same_action_continuation", "action_change_pending"}
RevisionStatus == {"active", "pending_review", "rejected", "superseded"}
CompletionStatus == {"pending_confirmation", "confirmed", "returned"}
\* A suggestion_review event counts by its to_state, approved or rejected.
EventTypes == Relations \cup
              {"approved", "rejected", "supervisor_override", "task_terminated",
               "business_executed", "inventory_executed",
               "business_result_recorded", "clearance_completion_submitted",
               "clearance_completion_reviewed"}

TaskRows ==
    [business: BusinessActions, inventory: InventoryActions \cup {None},
     review: ReviewStatus, reviewVersion: Nat,
     bstate: BusinessStates, bversion: Nat,
     istate: InventoryStates, iversion: Nat, executedAt: BOOLEAN]
RevisionRows ==
    [business: BusinessActions, inventory: InventoryActions \cup {None},
     status: RevisionStatus]
LinkRows ==
    [cutoff: Nat, decision: Plans, relation: Relations, review: ReviewStatus,
     reviewVersion: Nat, revision: Nat, previous: Nat]

NoTask == [business |-> None]

-----------------------------------------------------------------------------
(* Helpers of the handlers.                                                *)

\* Variant of Executable: the ban is taken for "nothing to do" as well.
ExecutableWithoutBan(inventory) == IF inventory = "restock" THEN inventory ELSE None

\* executableInventoryAction: a rule's "no restock" generates no inventory track.
Executable(inventory) == IF inventory = "no_restock" THEN None ELSE inventory

Executed(p) == [business |-> p.business, inventory |-> Executable(p.inventory)]

Revision(p, status) ==
    [business |-> p.business, inventory |-> p.inventory, status |-> status]

\* Variant of InventoryTrack: a track even where there is nothing to do.
InventoryTrackAlways(inventory, s) == s

\* The state of the inventory track when the business track is put in state s.
InventoryTrack(inventory, s) == IF inventory = None THEN "not_generated" ELSE s

OpenRevisions == {i \in DOMAIN revs : revs[i].status \in {"active", "pending_review"}}

\* ORDER BY created_at DESC LIMIT 1 of the open revisions, or the one that is then
\* inserted.  created_at is the start of the transaction that inserted the row, and a
\* transaction that began earlier may have waited for the task: any open revision
\* may be the newest.
ContinuedRevisions ==
    IF OpenRevisions = {} THEN {Len(revs) + 1} ELSE OpenRevisions

NotLater(c) == {i \in DOMAIN links : links[i].cutoff <= c}  \* variant of Earlier
Earlier(c) == {i \in DOMAIN links : links[i].cutoff < c}

\* A link of the last week before c, 0 when there is none.  Between links of one week
\* linked_at decides, the start of a transaction as well: any of them.
PreviousLinks(c) ==
    IF Earlier(c) = {} THEN {0}
    ELSE {i \in Earlier(c) : \A j \in Earlier(c) : links[j].cutoff <= links[i].cutoff}

NewLink(p, c, relation, revision, review, previous) ==
    [cutoff |-> c, decision |-> Executed(p), relation |-> relation,
     review |-> review, reviewVersion |-> 1, revision |-> revision,
     previous |-> previous]

\* Variant of Retire: the active revision is left alone.
RetireNone(from, to) == revs

\* UPDATE action_revision SET status = to WHERE status IN from
Retire(from, to) ==
    [i \in DOMAIN revs |->
        IF revs[i].status \in from THEN [revs[i] EXCEPT !.status = to] ELSE revs[i]]

\* The same update of one row.
SetStatus(rs, r, from, to) ==
    [i \in DOMAIN rs |->
        IF i = r /\ rs[i].status = from THEN [rs[i] EXCEPT !.status = to] ELSE rs[i]]

LogNothing(type) == UNCHANGED events  \* variant of Log
Log(type) == events' = [events EXCEPT ![type] = @ + 1]

Exists == links # <<>>
VersionsBelowBound ==
    /\ task.reviewVersion < MaxVersion
    /\ task.bversion < MaxVersion
    /\ task.iversion < MaxVersion

-----------------------------------------------------------------------------
(* The worker: linkDecisionToTask, for a decision p of a batch with cutoff c. *)

StartTask(p, c) ==
    /\ ~Exists /\ MaxLinks > 0
    /\ LET w == Executed(p) IN
       /\ task' = [business |-> w.business, inventory |-> w.inventory,
                   review |-> "pending", reviewVersion |-> 1,
                   bstate |-> "pending_review", bversion |-> 1,
                   istate |-> InventoryTrack(w.inventory, "pending_review"),
                   iversion |-> 1, executedAt |-> FALSE]
       /\ revs' = <<Revision(w, "pending_review")>>
    /\ links' = <<NewLink(p, c, "new_task", 1, "pending", 0)>>
    /\ Log("new_task")
    /\ UNCHANGED completions

SameAction(p) ==
    task.business = p.business /\ task.inventory = Executable(p.inventory)

ContinueTask(p, c) ==
    /\ Exists /\ Len(links) < MaxLinks
    /\ SameAction(p)
    /\ LET born == Revision(Executed(p),
                       IF task.review = "approved" THEN "active" ELSE "pending_review")
       IN revs' = IF OpenRevisions = {} THEN Append(revs, born) ELSE revs
    /\ \E rev \in ContinuedRevisions, previous \in PreviousLinks(c) :
         links' = Append(links, NewLink(p, c, "same_action_continuation", rev,
                                        task.review, previous))
    /\ Log("same_action_continuation")
    /\ UNCHANGED <<task, completions>>

\* Variant of ChangeTask: the changed action is in force before its review.
ChangeAtOnce(p, c) ==
    /\ Exists /\ Len(links) < MaxLinks
    /\ ~SameAction(p)
    /\ revs' = Append(revs, Revision(Executed(p), "active"))
    /\ \E previous \in PreviousLinks(c) :
         links' = Append(links, NewLink(p, c, "action_change_pending", Len(revs) + 1,
                                        "pending", previous))
    /\ Log("action_change_pending")
    /\ UNCHANGED <<task, completions>>

ChangeTask(p, c) ==
    /\ Exists /\ Len(links) < MaxLinks
    /\ ~SameAction(p)
    /\ revs' = Append(revs, Revision(Executed(p), "pending_review"))
    /\ \E previous \in PreviousLinks(c) :
         links' = Append(links, NewLink(p, c, "action_change_pending", Len(revs) + 1,
                                        "pending", previous))
    /\ Log("action_change_pending")
    /\ UNCHANGED <<task, completions>>

-----------------------------------------------------------------------------
(* The supervisor.                                                         *)

\* An approval acts on the task unless it only confirms work already approved.
Applies(l) ==
    links[l].relation # "same_action_continuation" \/ task.review # "approved"

Reviewed(l, decision) ==
    links' = [links EXCEPT ![l].review = decision, ![l].reviewVersion = @ + 1]

\* Variant of Revised: the link names the revision after the new one.
RevisedOffByOne(l, r) ==
    links' = [links EXCEPT ![l].revision = r + 1, ![l].reviewVersion = @ + 1]

Revised(l, r) ==
    links' = [links EXCEPT ![l].revision = r, ![l].reviewVersion = @ + 1]

\* Variant of Reviewable: a decision may be taken again.
ReviewableAgain(l, v) == l \in DOMAIN links /\ v = links[l].reviewVersion

Reviewable(l, v) ==
    /\ l \in DOMAIN links
    /\ v = links[l].reviewVersion
    /\ links[l].review = "pending"

Approve(l, v) ==
    /\ Reviewable(l, v) /\ VersionsBelowBound
    /\ LET r == revs[links[l].revision] IN
       IF Applies(l)
       THEN /\ revs' = SetStatus(Retire({"active"}, "superseded"),
                                 links[l].revision, "pending_review", "active")
            /\ task' = [task EXCEPT
                  !.business = r.business, !.inventory = r.inventory,
                  !.review = "approved", !.reviewVersion = @ + 1,
                  !.bstate = "pending_execution",
                  !.istate = InventoryTrack(r.inventory, "pending_execution")]
       ELSE UNCHANGED <<task, revs>>
    /\ Reviewed(l, "approved")
    /\ Log("approved")
    /\ UNCHANGED completions

Reject(l, v) ==
    /\ Reviewable(l, v) /\ VersionsBelowBound
    /\ revs' = SetStatus(revs, links[l].revision, "pending_review", "rejected")
    /\ task' = IF links[l].relation = "new_task"
               THEN [task EXCEPT
                       !.review = "rejected", !.reviewVersion = @ + 1,
                       !.bstate = "closed",
                       !.istate = InventoryTrack(task.inventory, "closed")]
               ELSE task
    /\ Reviewed(l, "rejected")
    /\ Log("rejected")
    /\ UNCHANGED completions

DirectlyChangeable ==
    /\ task.bstate \in {"pending_review", "pending_execution"}
    /\ task.istate \in {"pending_review", "pending_execution", "not_generated"}
TerminatedTask ==
    /\ task.bstate = "terminated"
    /\ task.istate \in {"terminated", "not_generated"}

\* Variant of PhaseAfter: the override of an unreviewed link can be executed.
PhaseAtOnce(status) == "pending_execution"

\* The track state an override gives, from the review status of the link.
PhaseAfter(status) ==
    IF status = "pending" THEN "pending_review" ELSE "pending_execution"

Overridable(l, o, v) ==
    /\ l \in DOMAIN links
    /\ v = task.reviewVersion
    /\ o.business # task.business
    /\ DirectlyChangeable \/ TerminatedTask

Override(l, o, v) ==
    /\ Overridable(l, o, v) /\ VersionsBelowBound
    /\ LET status == links[l].review
           phase  == PhaseAfter(status)
       IN /\ revs' = Append(Retire({"active", "pending_review"}, "superseded"),
                            Revision(o, IF status = "pending"
                                        THEN "pending_review" ELSE "active"))
          /\ task' = [task EXCEPT
                !.business = o.business, !.inventory = o.inventory,
                !.review = status, !.reviewVersion = @ + 1,
                !.bstate = phase, !.bversion = @ + 1,
                !.istate = InventoryTrack(o.inventory, phase),
                !.iversion = @ + 1, !.executedAt = FALSE]
    /\ Revised(l, Len(revs) + 1)
    /\ Log("supervisor_override")
    /\ UNCHANGED completions

Terminable(l, v) ==
    /\ l \in DOMAIN links
    /\ v = task.reviewVersion
    /\ task.bstate \notin {"terminated", "closed"}

Terminate(l, v) ==
    /\ Terminable(l, v) /\ VersionsBelowBound
    /\ task' = [task EXCEPT
          !.bstate = "terminated", !.bversion = @ + 1,
          !.istate = IF task.istate = "not_generated" THEN @ ELSE "terminated",
          !.iversion = @ + 1, !.reviewVersion = @ + 1]
    /\ Log("task_terminated")
    /\ UNCHANGED <<revs, links, completions>>

\* The latest submission waits, and v is its number.
AwaitsConfirmation(v) ==
    /\ Exists /\ completions # <<>>
    /\ v = Len(completions)
    /\ completions[v] = "pending_confirmation"

ReviewClearance(decision, v) ==
    /\ AwaitsConfirmation(v) /\ VersionsBelowBound
    /\ completions' = [completions EXCEPT ![v] = decision]
    /\ task' = [task EXCEPT !.bversion = @ + 1,
                            !.bstate = IF decision = "confirmed" THEN "closed" ELSE @]
    /\ Log("clearance_completion_reviewed")
    /\ UNCHANGED <<revs, links>>

-----------------------------------------------------------------------------
(* The responsible operator.                                               *)

BusinessExecutable(v) ==
    /\ Exists /\ task.review = "approved"
    /\ v = task.bversion
    /\ task.bstate = "pending_execution"

\* Variant of ExecuteBusiness: the state is not advanced.
ExecuteBusinessAgain(v) ==
    /\ BusinessExecutable(v) /\ VersionsBelowBound
    /\ task' = [task EXCEPT !.bversion = @ + 1, !.executedAt = TRUE]
    /\ Log("business_executed")
    /\ UNCHANGED <<revs, links, completions>>

ExecuteBusiness(v) ==
    /\ BusinessExecutable(v) /\ VersionsBelowBound
    /\ task' = [task EXCEPT !.bstate = "executed", !.bversion = @ + 1,
                            !.executedAt = TRUE]
    /\ Log("business_executed")
    /\ UNCHANGED <<revs, links, completions>>

InventoryExecutable(v) ==
    /\ Exists /\ task.review = "approved"
    /\ v = task.iversion
    /\ task.istate = "pending_execution" /\ task.inventory # None

\* Variant of ExecuteInventory: the version is not advanced.
ExecuteInventoryUnversioned(v) ==
    /\ InventoryExecutable(v) /\ VersionsBelowBound
    /\ task' = [task EXCEPT !.istate = "processed"]
    /\ Log("inventory_executed")
    /\ UNCHANGED <<revs, links, completions>>

ExecuteInventory(v) ==
    /\ InventoryExecutable(v) /\ VersionsBelowBound
    /\ task' = [task EXCEPT !.istate = "processed", !.iversion = @ + 1]
    /\ Log("inventory_executed")
    /\ UNCHANGED <<revs, links, completions>>

Recordable(v) ==
    /\ Exists
    /\ v = task.bversion
    /\ task.bstate \in {"executed", "result_recorded"}

RecordResult(v) ==
    /\ Recordable(v) /\ VersionsBelowBound
    /\ task' = [task EXCEPT !.bstate = "result_recorded", !.bversion = @ + 1]
    /\ Log("business_result_recorded")
    /\ UNCHANGED <<revs, links, completions>>

\* Variant of MaySubmit: a confirmed completion does not end the matter.
MaySubmitAgain ==
    completions # <<>> => completions[Len(completions)] # "pending_confirmation"

\* A completion may be submitted when there is none, or the last was returned.
MaySubmit == completions # <<>> => completions[Len(completions)] = "returned"

Submittable(v) ==
    /\ Exists
    /\ v = task.bversion
    /\ task.business = "clearance"
    /\ task.bstate \in {"executed", "result_recorded"}
    /\ MaySubmit

SubmitClearance(v) ==
    /\ Submittable(v) /\ Len(completions) < MaxCompletions
    /\ completions' = Append(completions, "pending_confirmation")
    /\ Log("clearance_completion_submitted")
    /\ UNCHANGED <<task, revs, links>>

-----------------------------------------------------------------------------

Init ==
    /\ task = NoTask
    /\ revs = <<>>
    /\ links = <<>>
    /\ completions = <<>>
    /\ events = [e \in EventTypes |-> 0]

Versions == 1 .. MaxVersion

Worker == \E p \in Suggestions, c \in Cutoffs :
    StartTask(p, c) \/ ContinueTask(p, c) \/ ChangeTask(p, c)

Supervisor ==
    \/ \E l \in 1 .. MaxLinks, v \in Versions :
         \/ Approve(l, v) \/ Reject(l, v) \/ Terminate(l, v)
         \/ \E o \in Overrides : Override(l, o, v)
    \/ \E d \in {"confirmed", "returned"}, v \in 1 .. MaxCompletions :
         ReviewClearance(d, v)

Operator == \E v \in Versions :
    \/ ExecuteBusiness(v) \/ ExecuteInventory(v)
    \/ RecordResult(v) \/ SubmitClearance(v)

Next == Worker \/ Supervisor \/ Operator

Spec == Init /\ [][Next]_vars

-----------------------------------------------------------------------------
(* Properties.                                                             *)

\* Every row has its columns' types; a link points at an existing revision.
TypeOK ==
    /\ IF Exists THEN task \in TaskRows ELSE task = NoTask
    /\ revs \in Seq(RevisionRows)
    /\ links \in Seq(LinkRows)
    /\ \A l \in DOMAIN links : links[l].revision \in DOMAIN revs
    /\ completions \in Seq(CompletionStatus)
    /\ events \in [EventTypes -> Nat]

\* A task never has two revisions in force, whatever order the worker's
\* continuations, the approvals and the overrides come in (the unique index
\* action_revision_one_active_idx would fail the whole batch or command).
OneActiveRevision ==
    \A i, j \in DOMAIN revs :
        revs[i].status = "active" /\ revs[j].status = "active" => i = j

\* A revision in force is what the task row tells the operator to do: no
\* approval, override or weekly decision changes the one without the other.
ActiveIsCurrent ==
    \A i \in DOMAIN revs : revs[i].status = "active" =>
        revs[i].business = task.business /\ revs[i].inventory = task.inventory

\* Clearance and stop-loss always carry the restock ban, on the task and on every
\* revision that can be approved later; nothing else carries it.
LossPairing ==
    /\ Exists => Paired(task)
    /\ \A i \in DOMAIN revs : Paired(revs[i])

\* The columns derived from others agree with them: there is an inventory track
\* exactly when there is an inventory action, through approvals, overrides,
\* terminations and closures; executed work has its execution date.
DerivedColumnsAgree ==
    Exists => /\ task.istate = "not_generated" <=> task.inventory = None
              /\ task.bstate \in {"executed", "result_recorded"} => task.executedAt

\* Work that shows as done was approved, in every order of reviews, overrides and
\* weekly decisions; and while the review is open no work is.  What is open
\* without an approval was opened by an override and can only wait.
ReviewGatesWork ==
    Exists =>
        /\ \/ task.bstate \in {"executed", "result_recorded"}
           \/ task.istate = "processed"
           => task.review = "approved"
        /\ "pending_execution" \in {task.bstate, task.istate} =>
              \/ task.review = "approved"
              \/ task.review = "rejected" /\ events["supervisor_override"] > 0

\* What the PRD says of the review (6.3, 6.4): work is open for execution only
\* after the suggestion was approved.  An override of a rejected link breaks it.
WorkIsApproved ==
    Exists => ("pending_execution" \in {task.bstate, task.istate} =>
                  task.review = "approved")

\* What the PRD says of revisions (4.2): approved work is done under exactly one
\* revision in force.  Reviews of links that share a revision break it.
WorkHasRevision ==
    Exists => (task.review = "approved" /\ task.bstate = "pending_execution" =>
                  \E i \in DOMAIN revs : revs[i].status = "active")

\* Only two things lead there: a weekly decision that shares the revision of the
\* link before, and an override that retires the revisions others wait for.
OwnRevisionsSuffice ==
    events["same_action_continuation"] = 0 /\ events["supervisor_override"] = 0 =>
        WorkHasRevision

\* The business and inventory versions are accounted for by the event history:
\* every step that moves a version wrote its event, and every event of these
\* types moved the version.
HistoryExplainsVersions ==
    Exists =>
        /\ task.bversion = 1 + events["business_executed"]
              + events["business_result_recorded"] + events["supervisor_override"]
              + events["task_terminated"] + events["clearance_completion_reviewed"]
        /\ task.iversion = 1 + events["inventory_executed"]
              + events["supervisor_override"] + events["task_terminated"]

\* Completions follow one another only after a return: at most the last one
\* waits or is confirmed, and each review in the history decided one of them.
CompletionsInTurn ==
    /\ \A i \in DOMAIN completions :
          i < Len(completions) => completions[i] = "returned"
    /\ events["clearance_completion_submitted"] = Len(completions)
    /\ events["clearance_completion_reviewed"] =
          Cardinality({i \in DOMAIN completions : completions[i] # "pending_confirmation"})

\* Only the first link of a task starts it, and following "previous" from any
\* link goes to strictly earlier weeks, whatever order the batches arrive in.
WeeksChain ==
    \A l \in DOMAIN links :
        /\ links[l].relation = "new_task" <=> l = 1
        /\ links[l].previous # 0 =>
              /\ links[l].previous < l
              /\ links[links[l].previous].cutoff < links[l].cutoff

\* Whoever read the three versions of a task notices any change of its row.
VersionsFenceChanges ==
    [][ Exists /\ task' # task =>
          /\ task'.reviewVersion >= task.reviewVersion
          /\ task'.bversion >= task.bversion
          /\ task'.iversion >= task.iversion
          /\ \/ task'.reviewVersion > task.reviewVersion
             \/ task'.bversion > task.bversion
             \/ task'.iversion > task.iversion ]_vars

\* A review decision is taken once: no later command of anyone reverses the
\* decision of a link or of a completion, or loses the row.
DecisionsAreFinal ==
    [][ /\ \A l \in DOMAIN links :
             /\ l \in DOMAIN links'
             /\ links[l].review # "pending" => links'[l].review = links[l].review
        /\ \A i \in DOMAIN completions :
             /\ i \in DOMAIN completions'
             /\ completions[i] # "pending_confirmation" =>
                   completions'[i] = completions[i] ]_vars

-----------------------------------------------------------------------------
(* Each track of the task implements WorkTrack.                            *)

BusinessPhase ==
    IF ~Exists THEN "none" ELSE
    CASE task.bstate = "pending_review" -> "waiting"
      [] task.bstate = "pending_execution" -> "ready"
      [] task.bstate \in {"executed", "result_recorded"} -> "done"
      [] task.bstate \in {"closed", "terminated"} -> "ended"

InventoryPhase ==
    IF ~Exists THEN "none" ELSE
    CASE task.istate = "not_generated" -> "none"
      [] task.istate = "pending_review" -> "waiting"
      [] task.istate = "pending_execution" -> "ready"
      [] task.istate = "processed" -> "done"
      [] task.istate \in {"closed", "terminated"} -> "ended"

Grants == events["approved"] + events["supervisor_override"]

BusinessTrack == INSTANCE WorkTrack
    WITH phase <- BusinessPhase, grants <- Grants, runs <- events["business_executed"]
InventoryTrackOf == INSTANCE WorkTrack
    WITH phase <- InventoryPhase, grants <- Grants, runs <- events["inventory_executed"]

\* Nobody reports a track done more often than the history shows approvals and
\* overrides, and a track that can be executed still has one of them unused.
DoneOncePerGrant == BusinessTrack!OncePerGrant /\ InventoryTrackOf!OncePerGrant

\* The operator executes the business action once per authorisation; no weekly
\* decision, result or completion makes executed or ended work ready again.
BusinessImplementsTrack == BusinessTrack!Spec

\* The same for the inventory action, which may also appear and disappear.
InventoryImplementsTrack == InventoryTrackOf!Spec

\* Both tracks of a task behave as the abstract track does, whatever the other
\* track, the weekly decisions and the supervisor do in between.
TracksImplemented == BusinessImplementsTrack /\ InventoryImplementsTrack

=============================================================================
