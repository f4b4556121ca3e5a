---------------------------- MODULE ActionTaskSteps ----------------------------
(***************************************************************************)
(* What the steps of ActionTask may do.  Each track of a task implements      *)
(* WorkTrack: every step is a step of the track, or leaves it alone, and the  *)
(* work is done at most once per authorisation.  To what is already there:    *)
(* versions move with every change, decisions stay, weeks stay in order,       *)
(* completions follow one another, and work has its revision as long as no     *)
(* two links share one.                                                     *)
(***************************************************************************)
EXTENDS ActionTaskSafety

-----------------------------------------------------------------------------
(* The phase of a track as a function of the columns of an existing task.    *)

\* The phase of the business track is determined by its state.
LEMMA BusinessPhases ==
    ASSUME Exists, task \in TaskRows
    PROVE  /\ task.bstate = "pending_review" => BusinessPhase = "waiting"
           /\ task.bstate = "pending_execution" => BusinessPhase = "ready"
           /\ task.bstate \in {"executed", "result_recorded"} => BusinessPhase = "done"
           /\ task.bstate \in {"closed", "terminated"} => BusinessPhase = "ended"
           /\ BusinessPhase \in {"waiting", "ready", "done", "ended"}
  BY TaskRowFields DEF BusinessPhase, BusinessStates

\* The phase of the inventory track is determined by its state.
LEMMA InventoryPhases ==
    ASSUME Exists, task \in TaskRows
    PROVE  /\ task.istate = "not_generated" => InventoryPhase = "none"
           /\ task.istate = "pending_review" => InventoryPhase = "waiting"
           /\ task.istate = "pending_execution" => InventoryPhase = "ready"
           /\ task.istate = "processed" => InventoryPhase = "done"
           /\ task.istate \in {"closed", "terminated"} => InventoryPhase = "ended"
           /\ InventoryPhase \in {"none", "waiting", "ready", "done", "ended"}
  BY TaskRowFields DEF InventoryPhase, InventoryStates

-----------------------------------------------------------------------------
(* The steps of a track.                                                   *)

Executions == {"business_executed", "inventory_executed"}
GrantTypes == {"approved", "supervisor_override"}

\* A step of the business and of the inventory track, or one that leaves it alone.
BusinessStep ==
    BusinessTrack!Next \/ UNCHANGED <<BusinessPhase, Grants, events["business_executed"]>>
InventoryStep ==
    InventoryTrackOf!Next
      \/ UNCHANGED <<InventoryPhase, Grants, events["inventory_executed"]>>

\* What one event does to the number of authorisations and of executions.
LEMMA EventCounts ==
    ASSUME TypeOK, NEW e \in EventTypes, Log(e)
    PROVE  /\ Grants \in Nat
           /\ e \in GrantTypes => Grants' = Grants + 1
           /\ e \notin GrantTypes => Grants' = Grants
           /\ \A x \in Executions : events[x] \in Nat
           /\ \A x \in Executions : e # x => events'[x] = events[x]
           /\ e \in Executions => events'[e] = events[e] + 1
  BY LogEffect DEF Grants, GrantTypes, Executions, EventTypes

\* A track whose phase stays takes no step when nothing was authorised or done.
LEMMA QuietEvent ==
    ASSUME TypeOK, NEW e \in EventTypes \ (GrantTypes \cup Executions), Log(e)
    PROVE  /\ UNCHANGED Grants
           /\ UNCHANGED <<events["business_executed"], events["inventory_executed"]>>
  BY EventCounts DEF Executions

\* An event that authorises, and ends in any phase an authorisation may give.
LEMMA GrantStep ==
    ASSUME TypeOK, NEW e \in GrantTypes, Log(e)
    PROVE  /\ BusinessPhase' \in {"ready", "waiting", "none", BusinessPhase} => BusinessStep
           /\ InventoryPhase' \in {"ready", "waiting", "none", InventoryPhase} => InventoryStep
<1>1. e \in EventTypes /\ e \notin Executions
  BY DEF EventTypes, GrantTypes, Executions
<1>2. Grants' = Grants + 1 /\ \A x \in Executions : events'[x] = events[x]
  BY <1>1, EventCounts
<1> QED
  BY <1>2 DEF BusinessStep, InventoryStep, BusinessTrack!Next, InventoryTrackOf!Next,
     BusinessTrack!Authorise, InventoryTrackOf!Authorise, Executions

\* A phase that ends, or stays, without an authorisation or an execution.
LEMMA FinishStep ==
    ASSUME UNCHANGED Grants,
           UNCHANGED <<events["business_executed"], events["inventory_executed"]>>
    PROVE  /\ \/ BusinessPhase' = BusinessPhase
              \/ BusinessPhase # "none" /\ BusinessPhase' = "ended"
              => BusinessStep
           /\ \/ InventoryPhase' = InventoryPhase
              \/ InventoryPhase # "none" /\ InventoryPhase' = "ended"
              => InventoryStep
  BY DEF BusinessStep, InventoryStep, BusinessTrack!Next, InventoryTrackOf!Next,
     BusinessTrack!Finish, InventoryTrackOf!Finish

\* The worker proposes the work of a new task and nothing else.
LEMMA WorkerSteps ==
    ASSUME IInv, IInv', Worker
    PROVE  BusinessStep /\ InventoryStep
<1> SUFFICES ASSUME NEW p \in Suggestions, NEW c \in Cutoffs,
                    StartTask(p, c) \/ ContinueTask(p, c) \/ ChangeTask(p, c)
             PROVE  BusinessStep /\ InventoryStep
  BY DEF Worker
<1>1. UNCHANGED Grants
      /\ UNCHANGED <<events["business_executed"], events["inventory_executed"]>>
  <2>1. PICK k \in Relations : Log(k)
    BY DEF StartTask, ContinueTask, ChangeTask, Relations
  <2>2. k \in EventTypes \ (GrantTypes \cup Executions)
    BY DEF EventTypes, Relations, GrantTypes, Executions
  <2> QED BY <2>1, <2>2, QuietEvent DEF IInv
<1>2. CASE StartTask(p, c)
  <2>1. ~Exists /\ Grants = 0
    BY <1>2 DEF StartTask, IInv, RowInv, EmptyHistory, Grants, EventTypes
  <2>2. BusinessPhase = "none" /\ InventoryPhase = "none"
    BY <2>1 DEF BusinessPhase, InventoryPhase
  <2>3. Exists' /\ task' \in TaskRows
    <3>1. links' # <<>>
      BY <1>2 DEF StartTask
    <3> QED BY <3>1 DEF IInv, TypeOK, Exists
  <2>4. task'.bstate = "pending_review"
        /\ task'.istate \in {"pending_review", "not_generated"}
    BY <1>2 DEF StartTask, InventoryTrack
  <2>5. BusinessPhase' = "waiting" /\ InventoryPhase' \in {"waiting", "none"}
    BY <2>3, <2>4 DEF BusinessPhase, InventoryPhase
  <2> QED
    BY <1>1, <2>1, <2>2, <2>5 DEF BusinessStep, InventoryStep, BusinessTrack!Next,
       InventoryTrackOf!Next, BusinessTrack!Propose, InventoryTrackOf!Propose
<1>3. CASE ContinueTask(p, c) \/ ChangeTask(p, c)
  <2>1. Exists /\ UNCHANGED task
    BY <1>3 DEF ContinueTask, ChangeTask
  <2>2. Exists'
    <3>1. \E x : links' = Append(links, x)
      BY <1>3 DEF ContinueTask, ChangeTask
    <3> QED BY <3>1 DEF IInv, TypeOK, Exists
  <2>3. UNCHANGED <<BusinessPhase, InventoryPhase>>
    BY <2>1, <2>2 DEF BusinessPhase, InventoryPhase
  <2> QED BY <1>1, <2>3, FinishStep
<1> QED
  BY <1>2, <1>3

\* The task exists before and after every command of a person.
LEMMA CommandOnTask ==
    ASSUME IInv, IInv', Supervisor \/ Operator
    PROVE  Exists /\ Exists' /\ task \in TaskRows /\ task' \in TaskRows
<1>1. Exists /\ Exists'
  <2>1. links \in Seq(LinkRows) /\ links' \in Seq(LinkRows)
    BY DEF IInv, TypeOK
  <2>2. ASSUME NEW l, NEW v, Approve(l, v) \/ Reject(l, v)
        PROVE  l \in DOMAIN links /\ DOMAIN links' = DOMAIN links
    BY <2>2 DEF Approve, Reject, Reviewable, Reviewed
  <2>3. ASSUME NEW l, NEW o, NEW v, Override(l, o, v)
        PROVE  l \in DOMAIN links /\ DOMAIN links' = DOMAIN links
    BY <2>3 DEF Override, Revised, Overridable
  <2>4. ASSUME NEW l, NEW v, Terminate(l, v)
        PROVE  l \in DOMAIN links /\ DOMAIN links' = DOMAIN links
    BY <2>4 DEF Terminate, Terminable
  <2>5. ASSUME NEW d, NEW v, \/ ReviewClearance(d, v) \/ ExecuteBusiness(v)
                             \/ ExecuteInventory(v) \/ RecordResult(v) \/ SubmitClearance(v)
        PROVE  Exists /\ UNCHANGED links
    BY <2>5 DEF ReviewClearance, ExecuteBusiness, ExecuteInventory, RecordResult,
        SubmitClearance, AwaitsConfirmation, BusinessExecutable, InventoryExecutable,
        Recordable, Submittable
  <2>6. CASE Operator
    BY <2>5, <2>6 DEF Operator, Exists
  <2>7. CASE Supervisor
    <3>1. CASE \E l \in 1 .. MaxLinks, v \in Versions :
                 \/ Approve(l, v) \/ Reject(l, v) \/ Terminate(l, v)
                 \/ \E o \in Overrides : Override(l, o, v)
      BY <2>1, <2>2, <2>3, <2>4, <3>1 DEF Exists
    <3>2. CASE \E d \in {"confirmed", "returned"}, v \in 1 .. MaxCompletions :
                 ReviewClearance(d, v)
      BY <2>5, <3>2 DEF Exists
    <3> QED BY <2>7, <3>1, <3>2 DEF Supervisor
  <2> QED BY <2>6, <2>7
<1> QED
  BY <1>1 DEF IInv, TypeOK

\* A step that leaves the task's row alone leaves both phases alone.
LEMMA PhasesStay ==
    ASSUME Exists, Exists', UNCHANGED task
    PROVE  UNCHANGED <<BusinessPhase, InventoryPhase>>
  BY DEF BusinessPhase, InventoryPhase

\* Approvals, rejections and terminations authorise or end the work.
LEMMA SupervisorSteps ==
    ASSUME IInv, IInv', Supervisor
    PROVE  BusinessStep /\ InventoryStep
<1>0. Exists /\ Exists' /\ task \in TaskRows /\ task' \in TaskRows /\ TypeOK
  BY CommandOnTask DEF IInv
<1>d. task.istate = "not_generated" <=> task.inventory = None
  BY <1>0 DEF IInv, RowInv, DerivedColumnsAgree
<1>1. ASSUME NEW l, NEW v, Approve(l, v)
      PROVE  BusinessStep /\ InventoryStep
  <2>1. Log("approved") /\ "approved" \in GrantTypes
    BY <1>1 DEF Approve, GrantTypes
  <2>2. CASE Applies(l)
    <3>1. task'.bstate = "pending_execution"
          /\ task'.istate \in {"pending_execution", "not_generated"}
      BY <1>0, <1>1, <2>2, ApproveEffect DEF InventoryTrack
    <3>2. BusinessPhase' = "ready" /\ InventoryPhase' \in {"ready", "none"}
      BY <1>0, <3>1 DEF BusinessPhase, InventoryPhase
    <3> QED BY <1>0, <2>1, <3>2, GrantStep
  <2>3. CASE ~Applies(l)
    <3>1. UNCHANGED task
      BY <1>1, <2>3 DEF Approve
    <3> QED BY <1>0, <2>1, <3>1, PhasesStay, GrantStep
  <2> QED BY <2>2, <2>3
<1>2. ASSUME NEW l, NEW v, Reject(l, v)
      PROVE  BusinessStep /\ InventoryStep
  <2>1. UNCHANGED Grants
        /\ UNCHANGED <<events["business_executed"], events["inventory_executed"]>>
    <3>1. Log("rejected") /\ "rejected" \in EventTypes \ (GrantTypes \cup Executions)
      BY <1>2 DEF Reject, EventTypes, GrantTypes, Executions
    <3> QED BY <1>0, <3>1, QuietEvent
  <2>2. CASE links[l].relation = "new_task"
    <3>1. task'.bstate = "closed" /\ task'.istate = InventoryTrack(task.inventory, "closed")
      BY <1>0, <1>2, <2>2 DEF Reject, TaskRows
    <3>2. BusinessPhase' = "ended" /\ BusinessPhase # "none"
      <4>1. BusinessPhase' = "ended"
        BY <1>0, <3>1 DEF BusinessPhase
      <4> QED BY <1>0, <4>1, BusinessPhases
    <3>3. \/ InventoryPhase' = InventoryPhase
          \/ InventoryPhase # "none" /\ InventoryPhase' = "ended"
      <4>1. CASE task.inventory = None
        <5>1. task.istate = "not_generated" /\ task'.istate = "not_generated"
          BY <1>d, <3>1, <4>1 DEF InventoryTrack
        <5> QED BY <1>0, <5>1 DEF InventoryPhase
      <4>2. CASE task.inventory # None
        <5>1. task'.istate = "closed" /\ task.istate # "not_generated"
          BY <1>d, <3>1, <4>2 DEF InventoryTrack
        <5>2. InventoryPhase' = "ended"
          BY <1>0, <5>1 DEF InventoryPhase
        <5>3. InventoryPhase # "none"
          BY <1>0, <5>1, TaskRowFields, InventoryPhases DEF InventoryStates
        <5> QED BY <5>2, <5>3
      <4> QED BY <4>1, <4>2
    <3> QED BY <2>1, <3>2, <3>3, FinishStep
  <2>3. CASE links[l].relation # "new_task"
    <3>1. UNCHANGED task
      BY <1>2, <2>3 DEF Reject
    <3> QED BY <1>0, <2>1, <3>1, PhasesStay, FinishStep
  <2> QED BY <2>2, <2>3
<1>3. ASSUME NEW l, NEW o, NEW v, Override(l, o, v)
      PROVE  BusinessStep /\ InventoryStep
  <2>1. Log("supervisor_override") /\ "supervisor_override" \in GrantTypes
    BY <1>3 DEF Override, GrantTypes
  <2>2. /\ task'.bstate \in {"pending_review", "pending_execution"}
        /\ task'.istate \in {"pending_review", "pending_execution", "not_generated"}
    BY <1>0, <1>3, OverrideEffect DEF PhaseAfter, InventoryTrack
  <2>3. BusinessPhase' \in {"waiting", "ready"} /\ InventoryPhase' \in {"waiting", "ready", "none"}
    BY <1>0, <2>2 DEF BusinessPhase, InventoryPhase
  <2> QED BY <1>0, <2>1, <2>3, GrantStep
<1>4. ASSUME NEW l, NEW v, Terminate(l, v)
      PROVE  BusinessStep /\ InventoryStep
  <2>1. UNCHANGED Grants
        /\ UNCHANGED <<events["business_executed"], events["inventory_executed"]>>
    <3>1. /\ Log("task_terminated")
          /\ "task_terminated" \in EventTypes \ (GrantTypes \cup Executions)
      BY <1>4 DEF Terminate, EventTypes, GrantTypes, Executions
    <3> QED BY <1>0, <3>1, QuietEvent
  <2>2. /\ task'.bstate = "terminated"
        /\ task'.istate = IF task.istate = "not_generated" THEN "not_generated" ELSE "terminated"
    BY <1>0, <1>4 DEF Terminate, TaskRows
  <2>3. BusinessPhase' = "ended" /\ BusinessPhase # "none"
    <3>1. BusinessPhase' = "ended"
      BY <1>0, <2>2 DEF BusinessPhase
    <3> QED BY <1>0, <3>1, BusinessPhases
  <2>4. \/ InventoryPhase' = InventoryPhase
        \/ InventoryPhase # "none" /\ InventoryPhase' = "ended"
    <3>1. CASE task.istate = "not_generated"
      BY <1>0, <2>2, <3>1 DEF InventoryPhase
    <3>2. CASE task.istate # "not_generated"
      <4>1. InventoryPhase' = "ended"
        BY <1>0, <2>2, <3>2 DEF InventoryPhase
      <4>2. InventoryPhase # "none"
        BY <1>0, <3>2, TaskRowFields, InventoryPhases DEF InventoryStates
      <4> QED BY <4>1, <4>2
    <3> QED BY <3>1, <3>2
  <2> QED BY <2>1, <2>3, <2>4, FinishStep
<1>5. ASSUME NEW d, NEW v, ReviewClearance(d, v)
      PROVE  BusinessStep /\ InventoryStep
  <2>1. UNCHANGED Grants
        /\ UNCHANGED <<events["business_executed"], events["inventory_executed"]>>
    <3>1. /\ Log("clearance_completion_reviewed")
          /\ "clearance_completion_reviewed" \in EventTypes \ (GrantTypes \cup Executions)
      BY <1>5 DEF ReviewClearance, EventTypes, GrantTypes, Executions
    <3> QED BY <1>0, <3>1, QuietEvent
  <2>2. task'.bstate \in {task.bstate, "closed"} /\ task'.istate = task.istate
    BY <1>0, <1>5 DEF ReviewClearance, TaskRows
  <2>3. InventoryPhase' = InventoryPhase
    BY <1>0, <2>2 DEF InventoryPhase
  <2>4. \/ BusinessPhase' = BusinessPhase
        \/ BusinessPhase # "none" /\ BusinessPhase' = "ended"
    <3>1. CASE task'.bstate = task.bstate
      BY <1>0, <3>1 DEF BusinessPhase
    <3>2. CASE task'.bstate = "closed"
      <4>1. BusinessPhase' = "ended"
        BY <1>0, <3>2 DEF BusinessPhase
      <4> QED BY <1>0, <4>1, BusinessPhases
    <3> QED BY <2>2, <3>1, <3>2
  <2> QED BY <2>1, <2>3, <2>4, FinishStep
<1> QED
  BY <1>1, <1>2, <1>3, <1>4, <1>5 DEF Supervisor

\* The operator does the work that is ready, and records what is done.
LEMMA OperatorSteps ==
    ASSUME IInv, IInv', Operator
    PROVE  BusinessStep /\ InventoryStep
<1>0. Exists /\ Exists' /\ task \in TaskRows /\ task' \in TaskRows /\ TypeOK
  BY CommandOnTask DEF IInv
<1>1. ASSUME NEW v, ExecuteBusiness(v)
      PROVE  BusinessStep /\ InventoryStep
  <2>1. /\ Log("business_executed") /\ task.bstate = "pending_execution"
        /\ task'.bstate = "executed" /\ task'.istate = task.istate
    BY <1>0, <1>1 DEF ExecuteBusiness, TaskRows, BusinessExecutable
  <2>2. /\ Grants' = Grants /\ events'["business_executed"] = events["business_executed"] + 1
        /\ events'["inventory_executed"] = events["inventory_executed"]
    BY <1>0, <2>1, EventCounts DEF EventTypes, GrantTypes, Executions
  <2>3. BusinessPhase = "ready" /\ BusinessPhase' = "done" /\ UNCHANGED InventoryPhase
    BY <1>0, <2>1 DEF BusinessPhase, InventoryPhase
  <2> QED BY <2>2, <2>3 DEF BusinessStep, InventoryStep, BusinessTrack!Next, BusinessTrack!Run
<1>2. ASSUME NEW v, ExecuteInventory(v)
      PROVE  BusinessStep /\ InventoryStep
  <2>1. /\ Log("inventory_executed") /\ task.istate = "pending_execution"
        /\ task'.istate = "processed" /\ task'.bstate = task.bstate
    BY <1>0, <1>2 DEF ExecuteInventory, TaskRows, InventoryExecutable
  <2>2. /\ Grants' = Grants /\ events'["inventory_executed"] = events["inventory_executed"] + 1
        /\ events'["business_executed"] = events["business_executed"]
    BY <1>0, <2>1, EventCounts DEF EventTypes, GrantTypes, Executions
  <2>3. InventoryPhase = "ready" /\ InventoryPhase' = "done" /\ UNCHANGED BusinessPhase
    BY <1>0, <2>1 DEF BusinessPhase, InventoryPhase
  <2> QED BY <2>2, <2>3 DEF BusinessStep, InventoryStep, InventoryTrackOf!Next,
             InventoryTrackOf!Run
<1>3. ASSUME NEW v, RecordResult(v) \/ SubmitClearance(v)
      PROVE  BusinessStep /\ InventoryStep
  <2>1. UNCHANGED Grants
        /\ UNCHANGED <<events["business_executed"], events["inventory_executed"]>>
    <3>1. \E e \in {"business_result_recorded", "clearance_completion_submitted"} : Log(e)
      BY <1>3 DEF RecordResult, SubmitClearance
    <3>2. {"business_result_recorded", "clearance_completion_submitted"}
            \subseteq EventTypes \ (GrantTypes \cup Executions)
      BY DEF EventTypes, GrantTypes, Executions
    <3> QED BY <1>0, <3>1, <3>2, QuietEvent
  <2>2. UNCHANGED <<BusinessPhase, InventoryPhase>>
    <3>1. CASE RecordResult(v)
      <4>1. /\ task.bstate \in {"executed", "result_recorded"}
            /\ task'.bstate = "result_recorded" /\ task'.istate = task.istate
        BY <1>0, <3>1 DEF RecordResult, TaskRows, Recordable
      <4> QED BY <1>0, <4>1 DEF BusinessPhase, InventoryPhase
    <3>2. CASE SubmitClearance(v)
      BY <1>0, <3>2, PhasesStay DEF SubmitClearance
    <3> QED BY <1>3, <3>1, <3>2
  <2> QED BY <2>1, <2>2, FinishStep
<1> QED
  BY <1>1, <1>2, <1>3 DEF Operator

\* Every step of the task is a step of each track, or leaves it alone.
LEMMA TrackNext ==
    ASSUME IInv, IInv', [Next]_vars
    PROVE  BusinessStep /\ InventoryStep
<1>1. CASE UNCHANGED vars
  BY <1>1 DEF vars, BusinessStep, InventoryStep, BusinessPhase, InventoryPhase, Grants, Exists
<1> QED
  BY <1>1, WorkerSteps, SupervisorSteps, OperatorSteps DEF Next

\* Both tracks start where WorkTrack starts.
LEMMA TrackInit == Init => BusinessTrack!Init /\ InventoryTrackOf!Init
  BY DEF Init, BusinessTrack!Init, InventoryTrackOf!Init, BusinessPhase, InventoryPhase,
     Exists, Grants, EventTypes

-----------------------------------------------------------------------------
(* The theorems.                                                           *)

\* The business track of a task implements WorkTrack.
THEOREM BusinessTrackImplemented == Spec => BusinessImplementsTrack
<1>1. IInv /\ IInv' /\ [Next]_vars => [BusinessTrack!Next]_(BusinessTrack!vars)
  BY TrackNext DEF BusinessStep, BusinessTrack!vars
<1> QED
  BY <1>1, TrackInit, InvariantHolds, PTL DEF Spec, BusinessImplementsTrack, BusinessTrack!Spec

\* The inventory track of a task implements WorkTrack.
THEOREM InventoryTrackImplemented == Spec => InventoryImplementsTrack
<1>1. IInv /\ IInv' /\ [Next]_vars => [InventoryTrackOf!Next]_(InventoryTrackOf!vars)
  BY TrackNext DEF InventoryStep, InventoryTrackOf!vars
<1> QED
  BY <1>1, TrackInit, InvariantHolds, PTL DEF Spec, InventoryImplementsTrack, InventoryTrackOf!Spec

\* The task implements both of its tracks at once: what the one does never makes
\* the other take a step WorkTrack does not have.
THEOREM TracksAreImplemented == Spec => TracksImplemented
BY BusinessTrackImplemented, InventoryTrackImplemented DEF TracksImplemented

\* A step of a track keeps the number of executions within the authorisations.
LEMMA OncePerGrantKept ==
    ASSUME BusinessTrack!OncePerGrant, InventoryTrackOf!OncePerGrant,
           BusinessStep, InventoryStep
    PROVE  DoneOncePerGrant'
<1>1. (BusinessTrack!OncePerGrant)'
  BY DEF BusinessStep, BusinessTrack!OncePerGrant, BusinessTrack!Next, BusinessTrack!Propose,
     BusinessTrack!Authorise, BusinessTrack!Run, BusinessTrack!Finish, BusinessTrack!Phases
<1>2. (InventoryTrackOf!OncePerGrant)'
  BY DEF InventoryStep, InventoryTrackOf!OncePerGrant, InventoryTrackOf!Next,
     InventoryTrackOf!Propose, InventoryTrackOf!Authorise, InventoryTrackOf!Run,
     InventoryTrackOf!Finish, InventoryTrackOf!Phases
<1> QED
  BY <1>1, <1>2 DEF DoneOncePerGrant

\* Neither track is reported done more often than it was authorised.
THEOREM DoneOncePerGrantHolds == Spec => []DoneOncePerGrant
<1>1. Init => DoneOncePerGrant
  BY TrackInit DEF DoneOncePerGrant, BusinessTrack!Init, InventoryTrackOf!Init,
     BusinessTrack!OncePerGrant, InventoryTrackOf!OncePerGrant, BusinessTrack!Phases,
     InventoryTrackOf!Phases
<1>2. DoneOncePerGrant /\ IInv /\ IInv' /\ [Next]_vars => DoneOncePerGrant'
  BY TrackNext, OncePerGrantKept DEF DoneOncePerGrant
<1> QED
  BY <1>1, <1>2, InvariantHolds, PTL DEF Spec

-----------------------------------------------------------------------------
(* What a command leaves of the rows that exist.                           *)

\* A decision on link l changes its review and its version, and no other link.
LEMMA ReviewedLinks ==
    ASSUME links \in Seq(LinkRows), NEW l \in DOMAIN links, NEW d, Reviewed(l, d)
    PROVE  /\ DOMAIN links' = DOMAIN links
           /\ \A k \in DOMAIN links :
                /\ links'[k].relation = links[k].relation
                /\ links'[k].previous = links[k].previous
                /\ links'[k].cutoff = links[k].cutoff
                /\ k # l => links'[k].review = links[k].review
<1> DEFINE row == [links[l] EXCEPT !.review = d, !.reviewVersion = @ + 1]
<1>1. ASSUME NEW r \in LinkRows, NEW n
      PROVE  LET u == [r EXCEPT !.review = d, !.reviewVersion = n]
             IN u.relation = r.relation /\ u.previous = r.previous /\ u.cutoff = r.cutoff
  BY DEF LinkRows
<1>2. links[l] \in LinkRows
  BY ElementOfSeq
<1>3. /\ row.relation = links[l].relation /\ row.previous = links[l].previous
      /\ row.cutoff = links[l].cutoff
  BY <1>1, <1>2
<1>4. links' = [links EXCEPT ![l] = row]
  BY DEF Reviewed
<1> HIDE DEF row
<1>5. /\ DOMAIN links' = DOMAIN links
      /\ \A k \in DOMAIN links : links'[k] = IF k = l THEN row ELSE links[k]
  BY <1>4
<1> QED
  BY <1>3, <1>5

\* Moving a link to another revision changes nothing else of it but its version.
LEMMA RevisedLinks ==
    ASSUME links \in Seq(LinkRows), NEW l \in DOMAIN links, NEW n, Revised(l, n)
    PROVE  /\ DOMAIN links' = DOMAIN links
           /\ \A k \in DOMAIN links :
                /\ links'[k].relation = links[k].relation
                /\ links'[k].previous = links[k].previous
                /\ links'[k].cutoff = links[k].cutoff
                /\ links'[k].review = links[k].review
<1> DEFINE row == [links[l] EXCEPT !.revision = n, !.reviewVersion = @ + 1]
<1>1. ASSUME NEW r \in LinkRows, NEW m
      PROVE  LET u == [r EXCEPT !.revision = n, !.reviewVersion = m]
             IN /\ u.relation = r.relation /\ u.previous = r.previous
                /\ u.cutoff = r.cutoff /\ u.review = r.review
  BY DEF LinkRows
<1>2. links[l] \in LinkRows
  BY ElementOfSeq
<1>3. /\ row.relation = links[l].relation /\ row.previous = links[l].previous
      /\ row.cutoff = links[l].cutoff /\ row.review = links[l].review
  BY <1>1, <1>2
<1>4. links' = [links EXCEPT ![l] = row]
  BY DEF Revised
<1> HIDE DEF row
<1>5. /\ DOMAIN links' = DOMAIN links
      /\ \A k \in DOMAIN links : links'[k] = IF k = l THEN row ELSE links[k]
  BY <1>4
<1> QED
  BY <1>3, <1>5

\* The worker adds one link, the first of a new task or one of an existing task.
LEMMA WorkerLinks ==
    ASSUME TypeOK, NEW p \in Suggestions, NEW c \in Cutoffs,
           StartTask(p, c) \/ ContinueTask(p, c) \/ ChangeTask(p, c)
    PROVE  \E k \in Relations, m \in PreviousLinks(c) \cup {0} : \E r, s :
             /\ links' = Append(links, NewLink(p, c, k, r, s, m))
             /\ k = "new_task" <=> links = <<>>
<1>1. CASE StartTask(p, c)
  <2>1. /\ links = <<>> /\ links' = <<NewLink(p, c, "new_task", 1, "pending", 0)>>
    BY <1>1 DEF StartTask, Exists
  <2>2. Append(links, NewLink(p, c, "new_task", 1, "pending", 0))
          = <<NewLink(p, c, "new_task", 1, "pending", 0)>>
    BY <2>1
  <2> QED BY <2>1, <2>2 DEF Relations
<1>2. CASE ContinueTask(p, c)
  BY <1>2 DEF ContinueTask, Relations, Exists
<1>3. CASE ChangeTask(p, c)
  BY <1>3 DEF ChangeTask, Relations, Exists
<1> QED
  BY <1>1, <1>2, <1>3

\* A command of a person keeps all links, and all decisions but the one it takes.
LEMMA CommandLinks ==
    ASSUME TypeOK, Supervisor \/ Operator
    PROVE  /\ DOMAIN links' = DOMAIN links
           /\ \A k \in DOMAIN links :
                /\ links'[k].relation = links[k].relation
                /\ links'[k].previous = links[k].previous
                /\ links'[k].cutoff = links[k].cutoff
                /\ links[k].review # "pending" => links'[k].review = links[k].review
<1>0. links \in Seq(LinkRows)
  BY DEF TypeOK
<1> DEFINE Kept == /\ DOMAIN links' = DOMAIN links
                   /\ \A k \in DOMAIN links :
                        /\ links'[k].relation = links[k].relation
                        /\ links'[k].previous = links[k].previous
                        /\ links'[k].cutoff = links[k].cutoff
                        /\ links[k].review # "pending" => links'[k].review = links[k].review
<1>1. ASSUME NEW l, NEW v, NEW d, Reviewable(l, v), Reviewed(l, d) PROVE Kept
  BY <1>0, <1>1, ReviewedLinks DEF Reviewable
<1>2. ASSUME NEW l, NEW v, Approve(l, v) \/ Reject(l, v) PROVE Kept
  BY <1>1, <1>2 DEF Approve, Reject
<1>3. ASSUME NEW l, NEW o, NEW v, Override(l, o, v) PROVE Kept
  BY <1>0, <1>3, RevisedLinks DEF Override, Overridable
<1>4. ASSUME UNCHANGED links PROVE Kept
  BY <1>4
<1>5. ASSUME NEW l, NEW v, NEW d, \/ Terminate(l, v) \/ ReviewClearance(d, v)
                                  \/ ExecuteBusiness(v) \/ ExecuteInventory(v)
                                  \/ RecordResult(v) \/ SubmitClearance(v)
      PROVE  UNCHANGED links
  BY <1>5 DEF Terminate, ReviewClearance, ExecuteBusiness, ExecuteInventory, RecordResult,
     SubmitClearance
<1> HIDE DEF Kept
<1>6. Kept
  BY <1>2, <1>3, <1>4, <1>5 DEF Supervisor, Operator
<1> QED
  BY <1>6 DEF Kept

-----------------------------------------------------------------------------
(* The weeks.                                                              *)

\* A new link comes after the earlier week it names.
LEMMA WeeksNext == ASSUME TypeOK, TypeOK', WeeksChain, [Next]_vars PROVE WeeksChain'
<1>0. links \in Seq(LinkRows)
  BY DEF TypeOK
<1>1. CASE Worker
  <2>1. PICK p \in Suggestions, c \in Cutoffs :
          StartTask(p, c) \/ ContinueTask(p, c) \/ ChangeTask(p, c)
    BY <1>1 DEF Worker
  <2>k. PICK k \in Relations, m \in PreviousLinks(c) \cup {0} : \E r, s :
          /\ links' = Append(links, NewLink(p, c, k, r, s, m))
          /\ k = "new_task" <=> links = <<>>
    BY <2>1, WorkerLinks
  <2>2. PICK r, s :
          /\ links' = Append(links, NewLink(p, c, k, r, s, m))
          /\ k = "new_task" <=> links = <<>>
    BY <2>k
  <2> DEFINE new == NewLink(p, c, k, r, s, m)
  <2>3. /\ new.relation = k /\ new.cutoff = c
        /\ new.previous \in Earlier(c) \cup {0}
    BY PreviousLinkIsEarlier DEF NewLink
  <2> HIDE DEF new
  <2>4. /\ Len(links') = Len(links) + 1 /\ Len(links) \in Nat
        /\ links'[Len(links) + 1] = new
        /\ \A l \in DOMAIN links : links'[l] = links[l]
        /\ DOMAIN links = 1 .. Len(links) /\ DOMAIN links' = 1 .. Len(links) + 1
    <3>1. links' = Append(links, new)
      BY <2>2 DEF new
    <3>2. links' \in Seq(LinkRows)
      BY DEF TypeOK
    <3>3. Len(links') = Len(links) + 1 /\ links'[Len(links) + 1] = new
          /\ \A l \in 1 .. Len(links) : links'[l] = links[l]
      BY <1>0, <3>1
    <3> QED BY <1>0, <3>2, <3>3, LenProperties
  <2>5. ASSUME NEW l \in DOMAIN links
        PROVE  /\ links'[l].relation = "new_task" <=> l = 1
               /\ links'[l].previous # 0 =>
                    /\ links'[l].previous < l
                    /\ links'[links'[l].previous].cutoff < links'[l].cutoff
    <3>1. links'[l] = links[l] /\ links[l].previous \in Nat
      BY <1>0, <2>4, ElementOfSeq, LinkRowFields
    <3>2. CASE links[l].previous = 0
      BY <3>1, <3>2 DEF WeeksChain
    <3>3. CASE links[l].previous # 0
      <4>1. links[l].previous < l /\ links[l].previous \in DOMAIN links
        BY <2>4, <3>1, <3>3 DEF WeeksChain
      <4> QED BY <2>4, <3>1, <4>1 DEF WeeksChain
    <3> QED BY <3>2, <3>3
  <2>6. /\ new.relation = "new_task" <=> Len(links) + 1 = 1
        /\ new.previous # 0 =>
             /\ new.previous < Len(links) + 1
             /\ links'[new.previous].cutoff < new.cutoff
    <3>1. links = <<>> <=> Len(links) = 0
      BY <1>0
    <3>2. new.previous # 0 => new.previous \in DOMAIN links /\ links[new.previous].cutoff < c
      BY <2>3 DEF Earlier
    <3> QED BY <2>2, <2>3, <2>4, <3>1, <3>2
  <2> QED BY <2>4, <2>5, <2>6 DEF WeeksChain
<1>2. CASE UNCHANGED links
  BY <1>2 DEF WeeksChain
<1>3. CASE Supervisor \/ Operator
  <2>1. /\ DOMAIN links' = DOMAIN links
        /\ \A k \in DOMAIN links :
             /\ links'[k].relation = links[k].relation
             /\ links'[k].previous = links[k].previous
             /\ links'[k].cutoff = links[k].cutoff
    BY <1>3, CommandLinks
  <2>2. ASSUME NEW l \in DOMAIN links, links[l].previous # 0
        PROVE  links[l].previous \in DOMAIN links
    <3>1. links[l].previous \in Nat /\ links[l].previous < l
      BY <1>0, <2>2, ElementOfSeq, LinkRowFields DEF WeeksChain
    <3> QED BY <1>0, <2>2, <3>1
  <2> QED BY <2>1, <2>2 DEF WeeksChain
<1> QED
  BY <1>1, <1>2, <1>3 DEF Next, vars

\* Weeks only ever point to earlier weeks.
THEOREM WeeksChainHolds == Spec => []WeeksChain
<1>1. Init => WeeksChain
  BY DEF Init, WeeksChain
<1> QED
  BY <1>1, WeeksNext, TypeCorrect, PTL DEF Spec

-----------------------------------------------------------------------------
(* Decisions.                                                              *)

\* Nobody takes back the decision of a link.
LEMMA LinkDecisionsStay ==
    ASSUME TypeOK, TypeOK', [Next]_vars
    PROVE  \A l \in DOMAIN links :
             /\ l \in DOMAIN links'
             /\ links[l].review # "pending" => links'[l].review = links[l].review
<1>1. CASE Worker
  <2>1. \E x : links' = Append(links, x)
    BY <1>1, WorkerLinks DEF Worker
  <2>2. links \in Seq(LinkRows) /\ links' \in Seq(LinkRows)
    BY DEF TypeOK
  <2>3. PICK x : links' = Append(links, x)
    BY <2>1
  <2>4. /\ Len(links') = Len(links) + 1
        /\ \A l \in 1 .. Len(links) : links'[l] = links[l]
    BY <2>2, <2>3
  <2> QED BY <2>2, <2>4
<1>2. CASE Supervisor \/ Operator
  BY <1>2, CommandLinks
<1>3. CASE UNCHANGED vars
  BY <1>3 DEF vars
<1> QED
  BY <1>1, <1>2, <1>3 DEF Next

\* What a step does to the completions: none, one more, or the last one decided.
LEMMA CompletionSteps ==
    ASSUME TypeOK, [Next]_vars
    PROVE  \/ /\ UNCHANGED completions
              /\ UNCHANGED <<events["clearance_completion_submitted"],
                             events["clearance_completion_reviewed"]>>
           \/ /\ MaySubmit
              /\ completions' = Append(completions, "pending_confirmation")
              /\ events'["clearance_completion_submitted"]
                   = events["clearance_completion_submitted"] + 1
              /\ UNCHANGED events["clearance_completion_reviewed"]
           \/ /\ completions # <<>> /\ completions[Len(completions)] = "pending_confirmation"
              /\ \E d \in {"confirmed", "returned"} :
                   completions' = [completions EXCEPT ![Len(completions)] = d]
              /\ events'["clearance_completion_reviewed"]
                   = events["clearance_completion_reviewed"] + 1
              /\ UNCHANGED events["clearance_completion_submitted"]
<1> DEFINE Quiet == EventTypes \ {"clearance_completion_submitted",
                                  "clearance_completion_reviewed"}
           Still == /\ UNCHANGED completions
                    /\ UNCHANGED <<events["clearance_completion_submitted"],
                                   events["clearance_completion_reviewed"]>>
<1>1. ASSUME NEW e \in Quiet, Log(e), UNCHANGED completions PROVE Still
  BY <1>1, LogEffect DEF EventTypes
<1>2. CASE Worker
  <2>1. UNCHANGED completions /\ \E k \in Relations : Log(k)
    BY <1>2 DEF Worker, StartTask, ContinueTask, ChangeTask, Relations
  <2>2. Relations \subseteq Quiet
    BY DEF EventTypes, Relations
  <2> QED BY <1>1, <2>1, <2>2
<1>3. ASSUME NEW l, NEW v, NEW o, Approve(l, v) \/ Reject(l, v) \/ Terminate(l, v) \/ Override(l, o, v)
      PROVE  Still
  <2>1. UNCHANGED completions /\ \E e \in {"approved", "rejected", "task_terminated",
                                           "supervisor_override"} : Log(e)
    BY <1>3 DEF Approve, Reject, Terminate, Override
  <2>2. {"approved", "rejected", "task_terminated", "supervisor_override"} \subseteq Quiet
    BY DEF EventTypes
  <2> QED BY <1>1, <2>1, <2>2
<1>4. ASSUME NEW v, ExecuteBusiness(v) \/ ExecuteInventory(v) \/ RecordResult(v)
      PROVE  Still
  <2>1. UNCHANGED completions /\ \E e \in {"business_executed", "inventory_executed",
                                           "business_result_recorded"} : Log(e)
    BY <1>4 DEF ExecuteBusiness, ExecuteInventory, RecordResult
  <2>2. {"business_executed", "inventory_executed", "business_result_recorded"} \subseteq Quiet
    BY DEF EventTypes
  <2> QED BY <1>1, <2>1, <2>2
<1>5. ASSUME NEW v, SubmitClearance(v)
      PROVE  /\ MaySubmit
             /\ completions' = Append(completions, "pending_confirmation")
             /\ events'["clearance_completion_submitted"]
                  = events["clearance_completion_submitted"] + 1
             /\ UNCHANGED events["clearance_completion_reviewed"]
  <2>1. Log("clearance_completion_submitted")
    BY <1>5 DEF SubmitClearance
  <2> QED BY <1>5, <2>1, LogEffect DEF SubmitClearance, EventTypes, Submittable
<1>6. ASSUME NEW d \in {"confirmed", "returned"}, NEW v, ReviewClearance(d, v)
      PROVE  /\ completions # <<>> /\ completions[Len(completions)] = "pending_confirmation"
             /\ completions' = [completions EXCEPT ![Len(completions)] = d]
             /\ events'["clearance_completion_reviewed"]
                  = events["clearance_completion_reviewed"] + 1
             /\ UNCHANGED events["clearance_completion_submitted"]
  <2>1. Log("clearance_completion_reviewed")
    BY <1>6 DEF ReviewClearance
  <2> QED BY <1>6, <2>1, LogEffect DEF ReviewClearance, EventTypes, AwaitsConfirmation
<1>7. CASE Supervisor
  BY <1>3, <1>6, <1>7 DEF Supervisor
<1>8. CASE Operator
  BY <1>4, <1>5, <1>8 DEF Operator
<1>9. CASE UNCHANGED vars
  BY <1>9 DEF vars
<1> QED
  BY <1>2, <1>7, <1>8, <1>9 DEF Next

\* A decision is final, of a link and of a completion.
THEOREM DecisionsAreFinalHolds == Spec => DecisionsAreFinal
<1>1. ASSUME TypeOK, TypeOK', [Next]_vars
      PROVE  \A i \in DOMAIN completions :
               /\ i \in DOMAIN completions'
               /\ completions[i] # "pending_confirmation" => completions'[i] = completions[i]
  <2>1. completions \in Seq(CompletionStatus)
    BY <1>1 DEF TypeOK
  <2> QED BY <1>1, <2>1, CompletionSteps
<1>2. TypeOK /\ TypeOK' /\ [Next]_vars =>
        [ /\ \A l \in DOMAIN links :
               /\ l \in DOMAIN links'
               /\ links[l].review # "pending" => links'[l].review = links[l].review
          /\ \A i \in DOMAIN completions :
               /\ i \in DOMAIN completions'
               /\ completions[i] # "pending_confirmation" =>
                     completions'[i] = completions[i] ]_vars
  BY <1>1, LinkDecisionsStay
<1> QED
  BY <1>2, TypeCorrect, PTL DEF Spec, DecisionsAreFinal

-----------------------------------------------------------------------------
(* Versions.                                                               *)

\* A step of the row never goes back on a version and moves one of them.
VersionsMove ==
    /\ task'.reviewVersion >= task.reviewVersion
    /\ task'.bversion >= task.bversion
    /\ task'.iversion >= task.iversion
    /\ \/ task'.reviewVersion > task.reviewVersion
       \/ task'.bversion > task.bversion
       \/ task'.iversion > task.iversion

\* A change of the row of an existing task moves its versions.
LEMMA VersionsNext ==
    ASSUME TypeOK, [Next]_vars, Exists, task' # task
    PROVE  VersionsMove
<1>0. task \in TaskRows
  BY DEF TypeOK
<1>n. /\ task.reviewVersion \in Nat /\ task.bversion \in Nat /\ task.iversion \in Nat
  BY <1>0, TaskRowFields
<1>1. ASSUME NEW l, NEW v, Approve(l, v)
      PROVE  VersionsMove
  <2>1. Applies(l)
    BY <1>1 DEF Approve
  <2> QED BY <1>1, <1>n, <2>1, ApproveEffect DEF VersionsMove
<1>2. ASSUME NEW l, NEW v, Reject(l, v)
      PROVE  VersionsMove
  <2>1. /\ task'.reviewVersion = task.reviewVersion + 1
        /\ task'.bversion = task.bversion /\ task'.iversion = task.iversion
    BY <1>0, <1>2 DEF Reject, TaskRows
  <2> QED BY <1>n, <2>1 DEF VersionsMove
<1>3. ASSUME NEW l, NEW o, NEW v, Override(l, o, v)
      PROVE  VersionsMove
  BY <1>3, <1>n, OverrideEffect DEF VersionsMove
<1>4. ASSUME NEW l, NEW v, Terminate(l, v)
      PROVE  VersionsMove
  <2>1. /\ task'.reviewVersion = task.reviewVersion + 1
        /\ task'.bversion = task.bversion + 1 /\ task'.iversion = task.iversion + 1
    BY <1>0, <1>4 DEF Terminate, TaskRows
  <2> QED BY <1>n, <2>1 DEF VersionsMove
<1>5. ASSUME NEW d, NEW v, ReviewClearance(d, v) \/ ExecuteBusiness(v) \/ RecordResult(v)
      PROVE  VersionsMove
  <2>1. /\ task'.bversion = task.bversion + 1
        /\ task'.reviewVersion = task.reviewVersion /\ task'.iversion = task.iversion
    BY <1>0, <1>5 DEF ReviewClearance, ExecuteBusiness, RecordResult, TaskRows
  <2> QED BY <1>n, <2>1 DEF VersionsMove
<1>6. ASSUME NEW v, ExecuteInventory(v)
      PROVE  VersionsMove
  <2>1. /\ task'.iversion = task.iversion + 1
        /\ task'.reviewVersion = task.reviewVersion /\ task'.bversion = task.bversion
    BY <1>0, <1>6 DEF ExecuteInventory, TaskRows
  <2> QED BY <1>n, <2>1 DEF VersionsMove
<1>7. CASE Worker
  BY <1>7 DEF Worker, StartTask, ContinueTask, ChangeTask
<1>8. CASE Supervisor
  BY <1>1, <1>2, <1>3, <1>4, <1>5, <1>8 DEF Supervisor
<1>9. CASE Operator
  BY <1>5, <1>6, <1>9 DEF Operator, SubmitClearance
<1> QED
  BY <1>7, <1>8, <1>9 DEF Next, vars

\* Whoever read the versions of a task notices any change of its row.
THEOREM VersionsFenceChangesHolds == Spec => VersionsFenceChanges
<1>1. TypeOK /\ TypeOK' /\ [Next]_vars =>
        [ Exists /\ task' # task =>
            /\ task'.reviewVersion >= task.reviewVersion
            /\ task'.bversion >= task.bversion
            /\ task'.iversion >= task.iversion
            /\ \/ task'.reviewVersion > task.reviewVersion
               \/ task'.bversion > task.bversion
               \/ task'.iversion > task.iversion ]_vars
  BY VersionsNext DEF VersionsMove
<1> QED
  BY <1>1, TypeCorrect, PTL DEF Spec, VersionsFenceChanges

-----------------------------------------------------------------------------
(* Completions.                                                            *)

\* The completions that a supervisor has answered.
Answered == {i \in DOMAIN completions : completions[i] # "pending_confirmation"}

\* A finite set counts one more with a new element.
LEMMA OneMore ==
    ASSUME NEW S, IsFiniteSet(S), NEW x, x \notin S
    PROVE  Cardinality(S \cup {x}) = Cardinality(S) + 1
  BY FS_AddElement

\* A step of the completions keeps them in turn.
LEMMA CompletionsNext ==
    ASSUME TypeOK, TypeOK', CompletionsInTurn, [Next]_vars
    PROVE  CompletionsInTurn'
<1> DEFINE n == Len(completions)
<1>0. /\ completions \in Seq(CompletionStatus) /\ n \in Nat
      /\ DOMAIN completions = 1 .. n
  BY DEF TypeOK
<1>1. /\ events["clearance_completion_submitted"] = n
      /\ events["clearance_completion_reviewed"] = Cardinality(Answered)
      /\ \A i \in DOMAIN completions : i < n => completions[i] = "returned"
  BY DEF CompletionsInTurn, Answered
<1>2. IsFiniteSet(Answered)
  <2>1. IsFiniteSet(1 .. n)
    BY <1>0, FS_Interval
  <2>2. Answered \in SUBSET (1 .. n)
    BY <1>0 DEF Answered
  <2> QED BY <2>1, <2>2, FS_Subset
<1>3. CASE /\ UNCHANGED completions
           /\ UNCHANGED <<events["clearance_completion_submitted"],
                          events["clearance_completion_reviewed"]>>
  BY <1>3 DEF CompletionsInTurn
<1>4. CASE /\ MaySubmit
           /\ completions' = Append(completions, "pending_confirmation")
           /\ events'["clearance_completion_submitted"]
                = events["clearance_completion_submitted"] + 1
           /\ UNCHANGED events["clearance_completion_reviewed"]
  <2>1. /\ Len(completions') = n + 1 /\ DOMAIN completions' = 1 .. n + 1
        /\ completions'[n + 1] = "pending_confirmation"
        /\ \A i \in 1 .. n : completions'[i] = completions[i]
    BY <1>0, <1>4, AppendProperties DEF CompletionStatus
  <2>2. n # 0 => completions[n] = "returned"
    BY <1>0, <1>4 DEF MaySubmit
  <2>3. \A i \in DOMAIN completions' : i < Len(completions') => completions'[i] = "returned"
    BY <1>0, <1>1, <2>1, <2>2
  <2>4. Answered' = Answered
    BY <1>0, <2>1 DEF Answered
  <2> QED BY <1>1, <1>4, <2>1, <2>3, <2>4 DEF CompletionsInTurn, Answered
<1>5. CASE /\ completions # <<>> /\ completions[n] = "pending_confirmation"
           /\ \E d \in {"confirmed", "returned"} : completions' = [completions EXCEPT ![n] = d]
           /\ events'["clearance_completion_reviewed"]
                = events["clearance_completion_reviewed"] + 1
           /\ UNCHANGED events["clearance_completion_submitted"]
  <2>1. PICK d \in {"confirmed", "returned"} : completions' = [completions EXCEPT ![n] = d]
    BY <1>5
  <2>2. n \in DOMAIN completions
    BY <1>0, <1>5
  <2>3. /\ Len(completions') = n /\ DOMAIN completions' = DOMAIN completions
        /\ \A i \in DOMAIN completions : completions'[i] = IF i = n THEN d ELSE completions[i]
    BY <1>0, <2>1, <2>2
  <2>4. Answered' = Answered \cup {n} /\ n \notin Answered
    BY <1>5, <2>1, <2>2, <2>3 DEF Answered
  <2>5. Cardinality(Answered') = Cardinality(Answered) + 1
    BY <1>2, <2>4, OneMore
  <2>6. \A i \in DOMAIN completions' : i < Len(completions') => completions'[i] = "returned"
    BY <1>0, <1>1, <2>3
  <2> QED BY <1>1, <1>5, <2>3, <2>5, <2>6 DEF CompletionsInTurn, Answered
<1> QED
  BY <1>3, <1>4, <1>5, CompletionSteps

\* Completions follow one another only after a return, and the history counts them.
THEOREM CompletionsInTurnHolds == Spec => []CompletionsInTurn
<1>1. Init => CompletionsInTurn
  BY FS_EmptySet DEF Init, CompletionsInTurn, EventTypes
<1> QED
  BY <1>1, CompletionsNext, TypeCorrect, PTL DEF Spec

-----------------------------------------------------------------------------
(* Revisions of their own.                                                 *)

\* No weekly decision has shared a revision, and no override has retired one.
Unshared == events["same_action_continuation"] = 0 /\ events["supervisor_override"] = 0

\* Then the links have their revisions one by one, and an approval finds its own
\* still waiting.
OwnRevisions ==
    Unshared =>
        /\ Len(revs) = Len(links)
        /\ \A l \in DOMAIN links :
             /\ links[l].revision = l
             /\ links[l].relation # "same_action_continuation"
             /\ links[l].review = "pending" => revs[l].status = "pending_review"
        /\ Exists /\ task.review = "approved" =>
             \E i \in DOMAIN revs : revs[i].status = "active"

\* Events of the two kinds are never forgotten, so that Unshared was true before.
LEMMA UnsharedBefore ==
    ASSUME TypeOK, NEW e \in EventTypes, Log(e), Unshared'
    PROVE  Unshared /\ e \notin {"same_action_continuation", "supervisor_override"}
<1>1. "same_action_continuation" \in EventTypes /\ "supervisor_override" \in EventTypes
  BY DEF EventTypes, Relations
<1> QED BY <1>1, LogEffect DEF Unshared

\* A weekly decision that changes the action brings a revision with it.
LEMMA OwnWorker == ASSUME TypeOK, OwnRevisions, Worker PROVE OwnRevisions'
<1> SUFFICES ASSUME NEW p \in Suggestions, NEW c \in Cutoffs,
                    StartTask(p, c) \/ ContinueTask(p, c) \/ ChangeTask(p, c),
                    Unshared'
             PROVE  OwnRevisions'
  BY DEF Worker, OwnRevisions
<1>0. revs \in Seq(RevisionRows) /\ links \in Seq(LinkRows)
  BY DEF TypeOK
<1>1. CASE StartTask(p, c)
  <2>1. /\ links' = <<NewLink(p, c, "new_task", 1, "pending", 0)>>
        /\ revs' = <<Revision(Executed(p), "pending_review")>>
        /\ task'.review = "pending"
    BY <1>1 DEF StartTask
  <2>2. /\ DOMAIN links' = {1} /\ Len(links') = 1 /\ Len(revs') = 1
        /\ links'[1] = NewLink(p, c, "new_task", 1, "pending", 0)
        /\ revs'[1].status = "pending_review"
    BY <2>1, RevisionRow
  <2>3. links'[1].revision = 1 /\ links'[1].relation = "new_task"
    BY <2>2 DEF NewLink
  <2> QED BY <2>1, <2>2, <2>3 DEF OwnRevisions
<1>2. CASE ContinueTask(p, c)
  BY <1>2, UnsharedBefore DEF ContinueTask, EventTypes, Relations
<1>3. CASE ChangeTask(p, c)
  <2>a. PICK m \in PreviousLinks(c) :
          links' = Append(links, NewLink(p, c, "action_change_pending", Len(revs) + 1,
                                         "pending", m))
    BY <1>3 DEF ChangeTask
  <2> DEFINE rev == Revision(Executed(p), "pending_review")
             new == NewLink(p, c, "action_change_pending", Len(revs) + 1, "pending", m)
  <2>1. /\ revs' = Append(revs, rev) /\ links' = Append(links, new)
        /\ UNCHANGED task /\ Exists
    BY <1>3, <2>a DEF ChangeTask
  <2>2. Unshared
    BY <1>3, UnsharedBefore DEF ChangeTask, EventTypes, Relations
  <2>3. rev.status = "pending_review"
    BY RevisionRow
  <2>4. new.revision = Len(revs) + 1 /\ new.relation = "action_change_pending"
    BY DEF NewLink
  <2> HIDE DEF rev, new
  <2>5. /\ Len(revs') = Len(revs) + 1 /\ Len(links') = Len(links) + 1
        /\ DOMAIN revs' = 1 .. Len(revs) + 1 /\ DOMAIN links' = 1 .. Len(links) + 1
        /\ \A i \in DOMAIN revs : revs'[i] = revs[i]
        /\ \A i \in DOMAIN links : links'[i] = links[i]
        /\ revs'[Len(revs) + 1] = rev /\ links'[Len(links) + 1] = new
        /\ DOMAIN revs = 1 .. Len(revs) /\ DOMAIN links = 1 .. Len(links)
        /\ Len(revs) \in Nat /\ Len(links) \in Nat
    BY <1>0, <2>1
  <2>6. Len(revs') = Len(links')
    BY <2>2, <2>5 DEF OwnRevisions
  <2>7. ASSUME NEW l \in DOMAIN links'
        PROVE  /\ links'[l].revision = l
               /\ links'[l].relation # "same_action_continuation"
               /\ links'[l].review = "pending" => revs'[l].status = "pending_review"
    <3>1. CASE l = Len(links) + 1
      BY <2>2, <2>3, <2>4, <2>5, <3>1 DEF OwnRevisions
    <3>2. CASE l # Len(links) + 1
      <4>1. l \in DOMAIN links /\ l \in DOMAIN revs
        BY <2>2, <2>5, <3>2 DEF OwnRevisions
      <4> QED BY <2>2, <2>5, <4>1 DEF OwnRevisions
    <3> QED BY <3>1, <3>2
  <2>8. task'.review = "approved" => \E i \in DOMAIN revs' : revs'[i].status = "active"
    BY <2>1, <2>2, <2>5 DEF OwnRevisions
  <2> QED BY <2>6, <2>7, <2>8 DEF OwnRevisions
<1> QED BY <1>1, <1>2, <1>3

\* A decision on a link is one on its own revision.
LEMMA OwnReview ==
    ASSUME TypeOK, OwnRevisions, NEW l, NEW v, Approve(l, v) \/ Reject(l, v)
    PROVE  OwnRevisions'
<1> SUFFICES ASSUME Unshared' PROVE OwnRevisions'
  BY DEF OwnRevisions
<1>0. /\ revs \in Seq(RevisionRows) /\ links \in Seq(LinkRows) /\ Exists
      /\ l \in DOMAIN links /\ links[l].review = "pending"
      /\ links[l].revision \in DOMAIN revs /\ task \in TaskRows
  BY DEF TypeOK, Approve, Reject, Reviewable, Exists
<1>1. Unshared
  <2>1. Log("approved") \/ Log("rejected")
    BY DEF Approve, Reject
  <2> QED BY <2>1, UnsharedBefore DEF EventTypes
<1>2. /\ links[l].revision = l /\ revs[l].status = "pending_review"
      /\ links[l].relation # "same_action_continuation"
  BY <1>0, <1>1 DEF OwnRevisions
<1>3. PICK d \in {"approved", "rejected"} : Reviewed(l, d)
  BY DEF Approve, Reject
<1>4. /\ DOMAIN links' = DOMAIN links /\ links' \in Seq(LinkRows)
      /\ \A k \in DOMAIN links :
           /\ links'[k].relation = links[k].relation
           /\ links'[k].revision = links[k].revision
           /\ k # l => links'[k].review = links[k].review
  BY <1>0, <1>3, ReviewedLinks, TypeReviewed DEF ReviewStatus
<1>5. links'[l].review # "pending"
  <2> DEFINE row == [links[l] EXCEPT !.review = d, !.reviewVersion = @ + 1]
  <2>1. links[l] \in LinkRows
    BY <1>0, ElementOfSeq
  <2>2. row.review = d
    BY <2>1 DEF LinkRows
  <2>3. links' = [links EXCEPT ![l] = row]
    BY <1>3 DEF Reviewed
  <2> HIDE DEF row
  <2>4. links'[l] = row
    BY <1>0, <2>3
  <2> QED BY <1>3, <2>2, <2>4
<1>6. Len(links') = Len(links)
  BY <1>0, <1>4, LenProperties
<1>7. /\ Len(revs') = Len(revs) /\ DOMAIN revs' = DOMAIN revs
      /\ \A k \in DOMAIN revs :
           k # l /\ revs[k].status = "pending_review" => revs'[k].status = "pending_review"
      /\ task'.review = "approved" => \E i \in DOMAIN revs : revs'[i].status = "active"
  <2>1. CASE Approve(l, v)
    <3> DEFINE kept == Retire({"active"}, "superseded")
    <3>1. Applies(l)
      BY <1>2 DEF Applies
    <3>2. revs' = SetStatus(kept, l, "pending_review", "active")
      BY <1>2, <2>1, <3>1 DEF Approve
    <3>3. /\ kept \in Seq(RevisionRows) /\ DOMAIN kept = DOMAIN revs
          /\ \A k \in DOMAIN revs :
               revs[k].status = "pending_review" => kept[k].status = "pending_review"
      BY <1>0, RetireType, RetireRow DEF RevisionStatus
    <3> HIDE DEF kept
    <3>4. revs' \in Seq(RevisionRows) /\ DOMAIN revs' = DOMAIN revs
      BY <1>0, <1>2, <3>2, <3>3, SetStatusType DEF RevisionStatus
    <3>5. l \in DOMAIN kept /\ kept[l].status = "pending_review"
      BY <1>0, <1>2, <3>3
    <3>6. revs'[l].status = "active"
      BY <3>2, <3>3, <3>5, SetStatusRow
    <3>7. ASSUME NEW k \in DOMAIN revs, k # l, revs[k].status = "pending_review"
          PROVE  revs'[k].status = "pending_review"
      BY <3>2, <3>3, <3>5, <3>7, SetStatusRow
    <3>8. Len(revs') = Len(revs)
      BY <1>0, <3>4, LenProperties
    <3> QED BY <1>0, <1>2, <3>4, <3>6, <3>7, <3>8
  <2>2. CASE Reject(l, v)
    <3>1. revs' = SetStatus(revs, l, "pending_review", "rejected")
      BY <1>2, <2>2 DEF Reject
    <3>2. revs' \in Seq(RevisionRows) /\ DOMAIN revs' = DOMAIN revs
      BY <1>0, <1>2, <3>1, SetStatusType DEF RevisionStatus
    <3>3. \A k \in DOMAIN revs :
            k # l \/ revs[k].status = "active" => revs'[k].status = revs[k].status
      BY <1>0, <1>2, <3>1, SetStatusRow
    <3>4. task'.review = "approved" => task.review = "approved"
      BY <1>0, <2>2 DEF Reject, TaskRows
    <3>5. task.review = "approved" => \E i \in DOMAIN revs : revs[i].status = "active"
      BY <1>0, <1>1 DEF OwnRevisions
    <3>6. Len(revs') = Len(revs)
      BY <1>0, <3>2, LenProperties
    <3>7. \A k \in DOMAIN revs :
            k # l /\ revs[k].status = "pending_review" => revs'[k].status = "pending_review"
      BY <3>3
    <3>8. task'.review = "approved" => \E i \in DOMAIN revs : revs'[i].status = "active"
      BY <3>3, <3>4, <3>5
    <3> QED BY <3>2, <3>6, <3>7, <3>8
  <2> QED BY <2>1, <2>2
<1>8. Len(revs) = Len(links)
  BY <1>1 DEF OwnRevisions
<1>9. ASSUME NEW k \in DOMAIN links'
      PROVE  /\ links'[k].revision = k
             /\ links'[k].relation # "same_action_continuation"
             /\ links'[k].review = "pending" => revs'[k].status = "pending_review"
  <2>1. k \in DOMAIN links /\ k \in DOMAIN revs
    BY <1>0, <1>4, <1>8, <1>9, LenProperties
  <2>2. links'[k].revision = k /\ links'[k].relation # "same_action_continuation"
    BY <1>1, <1>4, <2>1 DEF OwnRevisions
  <2>3. CASE k = l
    BY <1>5, <2>2, <2>3
  <2>4. CASE k # l
    <3>1. links'[k].review = links[k].review
      BY <1>4, <2>1, <2>4
    <3>2. links[k].review = "pending" => revs[k].status = "pending_review"
      BY <1>1, <2>1 DEF OwnRevisions
    <3> QED BY <1>7, <2>1, <2>2, <2>4, <3>1, <3>2
  <2> QED BY <2>3, <2>4
<1>10. Len(revs') = Len(links')
  BY <1>6, <1>7, <1>8
<1>11. task'.review = "approved" => \E i \in DOMAIN revs' : revs'[i].status = "active"
  BY <1>7
<1> QED BY <1>9, <1>10, <1>11 DEF OwnRevisions

\* Every step keeps the revisions the links' own.
LEMMA OwnNext == ASSUME TypeOK, OwnRevisions, [Next]_vars PROVE OwnRevisions'
<1>1. ASSUME NEW l, NEW o, NEW v, Override(l, o, v) PROVE OwnRevisions'
  BY <1>1, UnsharedBefore DEF Override, EventTypes, OwnRevisions
<1>2. ASSUME NEW l, NEW d, NEW v,
             \/ Terminate(l, v) \/ ReviewClearance(d, v)
             \/ ExecuteBusiness(v) \/ ExecuteInventory(v)
             \/ RecordResult(v) \/ SubmitClearance(v)
      PROVE  OwnRevisions'
  <2>1. Exists /\ task \in TaskRows /\ UNCHANGED <<revs, links>>
    BY <1>2, OtherEffects DEF Terminate, ReviewClearance, ExecuteBusiness,
       ExecuteInventory, RecordResult, SubmitClearance
  <2>2. task'.review = task.review
    BY <1>2, <2>1 DEF Terminate, ReviewClearance, ExecuteBusiness, ExecuteInventory,
       RecordResult, SubmitClearance, TaskRows
  <2>3. Unshared' => Unshared
    <3>1. PICK e \in EventTypes : Log(e)
      BY <1>2 DEF Terminate, ReviewClearance, ExecuteBusiness, ExecuteInventory,
         RecordResult, SubmitClearance, EventTypes
    <3> QED BY <3>1, UnsharedBefore
  <2> QED BY <2>1, <2>2, <2>3 DEF OwnRevisions, Exists
<1>3. CASE UNCHANGED vars
  BY <1>3 DEF vars, OwnRevisions, Unshared, Exists
<1>4. CASE Supervisor
  BY <1>1, <1>2, <1>4, OwnReview DEF Supervisor
<1>5. CASE Operator
  BY <1>2, <1>5 DEF Operator
<1> QED BY <1>3, <1>4, <1>5, OwnWorker DEF Next

\* Approved work has its revision in force unless a weekly decision has shared the
\* revision of an earlier one, or an override has retired those still to be
\* reviewed: the divergence WorkHasRevision shows has no other source.
THEOREM OwnRevisionsSufficeHolds == Spec => []OwnRevisionsSuffice
<1>1. Init => OwnRevisions
  BY DEF Init, OwnRevisions, Exists
<1>2. TypeOK /\ OwnRevisions => OwnRevisionsSuffice
  BY DEF OwnRevisions, Unshared, OwnRevisionsSuffice, WorkHasRevision
<1> QED BY <1>1, <1>2, OwnNext, TypeCorrect, PTL DEF Spec
=============================================================================
