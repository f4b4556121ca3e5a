------------------------- MODULE SuggestionPagesProofs -------------------------
(***************************************************************************)
(* The safety of SuggestionPages for every number of tabs, operators,         *)
(* suggestions, overrides and weeks.                                         *)
(*                                                                         *)
(* A page may hold what it read at any moment.  What it may rely on is         *)
(* Vouched: nothing it saw of versions and approvals was ahead of the task, and *)
(* as long as the track's version and the approvals stand, so does the action.  *)
(* Fenced says that each command keeps it.  With it every step of the pages is  *)
(* a step of the task alone, so PagesSpec implements Spec and the task's own    *)
(* invariants carry over.  What a page offers is accepted because its user sees *)
(* the links it goes by, and the operator of a link never changes.             *)
(***************************************************************************)
EXTENDS SuggestionPages, ActionTaskSteps

\* What a step may do to the actions a page shows.
Fenced ==
    /\ events'["approved"] >= events["approved"]
    /\ task'.bversion >= task.bversion /\ task'.iversion >= task.iversion
    /\ events'["approved"] = events["approved"] =>
         /\ task'.bversion = task.bversion => task'.business = task.business
         /\ task'.iversion = task.iversion => task'.inventory = task.inventory

\* What is true of the actions on a page from the moment they were read.
Vouched(s) ==
    /\ s \in Sights
    /\ s.approvals <= events["approved"]
    /\ s.bversion <= task.bversion /\ s.iversion <= task.iversion
    /\ events["approved"] = s.approvals =>
         /\ s.bversion = task.bversion => s.business = task.business
         /\ s.iversion = task.iversion => s.inventory = task.inventory

\* What is true of a detail from the moment it was read.
Held(d) == d \in Details /\ d.link \in DOMAIN links /\ Vouched(Sight(d))

\* A detail is there only for who may see it.
Shows(u, d) == d = NoDetail \/ (Held(d) /\ MaySee(u, d.link))

\* A command is about a link there is, an override is one that is allowed, and the
\* version of a report is the one the track had on the page.
Asked(r) ==
    /\ r \in Requests /\ r.link \in DOMAIN links
    /\ r.command = "override" => r.choice \in Overrides
    /\ r.command \in {"execute_business", "record_result", "submit_clearance"} =>
         r.version = r.seen.bversion
    /\ r.command = "execute_inventory" => r.version = r.seen.iversion
    /\ Vouched(r.seen)

\* A tab with user u, link l in the address, details s, r and a on the page, in a
\* read and in an answer, command c and answering link g.  It does something only
\* when u may see what is in the address.
Fits(u, l, s, r, c, g, a) ==
    /\ l \in {0} \cup DOMAIN links /\ g \in {0} \cup DOMAIN links
    /\ Shows(u, s) /\ Shows(u, r) /\ Shows(u, a)
    /\ c = NoCommand \/ Asked(c)
    /\ \/ s = NoDetail /\ r = NoDetail /\ c = NoCommand /\ g = 0 /\ a = NoDetail
       \/ l # 0 /\ MaySee(u, l)

TabInv(t) ==
    Fits(user[t], url[t], shown[t], reading[t], sent[t], answering[t], answer[t])

Shape ==
    /\ user \in [Tabs -> Users] /\ url \in [Tabs -> Nat]
    /\ shown \in [Tabs -> Details \cup {NoDetail}]
    /\ reading \in [Tabs -> Details \cup {NoDetail}]
    /\ sent \in [Tabs -> Requests \cup {NoCommand}]
    /\ answering \in [Tabs -> Nat]
    /\ answer \in [Tabs -> Details \cup {NoDetail}]

\* Every link has the operator of its week.
OwnerInv == owner \in Seq(Operators) /\ Len(owner) = Len(links)

PagesInv == Shape /\ OwnerInv /\ \A t \in Tabs : TabInv(t)

-----------------------------------------------------------------------------
(* The commands.                                                           *)

\* Any command of the supervisor or the operator.
Command(l, o, d, v) ==
    \/ Approve(l, v) \/ Reject(l, v) \/ Terminate(l, v)
    \/ o \in Overrides /\ Override(l, o, v)
    \/ d \in {"confirmed", "returned"} /\ ReviewClearance(d, v)
    \/ ExecuteBusiness(v) \/ ExecuteInventory(v) \/ RecordResult(v) \/ SubmitClearance(v)

\* An event that is no approval leaves their number alone.
LEMMA OtherEvent ==
    ASSUME TypeOK, NEW e \in EventTypes \ {"approved"}, Log(e)
    PROVE  events'["approved"] = events["approved"] /\ events["approved"] \in Nat
  BY LogEffect DEF EventTypes

\* An approval counts; another command that changes an action moves its track.
LEMMA CommandFenced ==
    ASSUME TypeOK, NEW l, NEW o, NEW d, NEW v, Command(l, o, d, v)
    PROVE  Exists /\ Fenced
<1>1. Exists
  BY DEF Command, Exists, Approve, Reject, Reviewable, Terminate, Override,
     ReviewClearance, ExecuteBusiness, ExecuteInventory, RecordResult, SubmitClearance,
     Overridable, Terminable, AwaitsConfirmation, BusinessExecutable,
     InventoryExecutable, Recordable, Submittable
<1>2. /\ task \in TaskRows
      /\ task.bversion \in Nat /\ task.iversion \in Nat /\ task.reviewVersion \in Nat
  BY <1>1, TaskRowFields DEF TypeOK
<1>3. CASE Approve(l, v)
  <2>1. events'["approved"] = events["approved"] + 1 /\ events["approved"] \in Nat
    BY <1>3, LogEffect DEF Approve, EventTypes
  <2>2. task'.bversion = task.bversion /\ task'.iversion = task.iversion
    BY <1>3, ApproveEffect DEF Approve
  <2> QED BY <1>1, <1>2, <2>1, <2>2 DEF Fenced
<1>4. CASE Override(l, o, v)
  <2>1. events'["approved"] = events["approved"] /\ events["approved"] \in Nat
    BY <1>4, OtherEvent DEF Override, EventTypes
  <2>2. task'.bversion = task.bversion + 1 /\ task'.iversion = task.iversion + 1
    BY <1>4, OverrideEffect
  <2> QED BY <1>1, <1>2, <2>1, <2>2 DEF Fenced
<1>5. CASE \/ Reject(l, v) \/ Terminate(l, v) \/ ReviewClearance(d, v)
           \/ ExecuteBusiness(v) \/ ExecuteInventory(v)
           \/ RecordResult(v) \/ SubmitClearance(v)
  <2>1. events'["approved"] = events["approved"] /\ events["approved"] \in Nat
    BY <1>5, OtherEvent
    DEF Reject, Terminate, ReviewClearance, ExecuteBusiness, ExecuteInventory,
        RecordResult, SubmitClearance, EventTypes
  <2>2. task'.business = task.business /\ task'.inventory = task.inventory
    BY <1>5, OtherEffects
  <2>3. task'.bversion \in {task.bversion, task.bversion + 1}
        /\ task'.iversion \in {task.iversion, task.iversion + 1}
    BY <1>2, <1>5
    DEF TaskRows, Reject, Terminate, ReviewClearance, ExecuteBusiness, ExecuteInventory,
        RecordResult, SubmitClearance
  <2> QED BY <1>1, <1>2, <2>1, <2>2, <2>3 DEF Fenced
<1> QED BY <1>3, <1>4, <1>5 DEF Command

\* A command keeps the types and the links.
LEMMA CommandKeeps ==
    ASSUME TypeOK, NEW l, NEW o, NEW d, NEW v, Command(l, o, d, v)
    PROVE  TypeOK' /\ DOMAIN links' = DOMAIN links
<1>1. TypeOK'
  BY TypeApprove, TypeReject, TypeTerminate, TypeOverride, TypeReviewClearance,
     TypeOperate DEF Command
<1>2. links \in Seq(LinkRows)
  BY DEF TypeOK
<1>3. ASSUME Approve(l, v) \/ Reject(l, v)
      PROVE  DOMAIN links' = DOMAIN links
  <2>1. l \in DOMAIN links
    BY <1>3 DEF Approve, Reject, Reviewable
  <2>2. \E s \in ReviewStatus : Reviewed(l, s)
    BY <1>3 DEF Approve, Reject, ReviewStatus
  <2> QED BY <1>2, <2>1, <2>2, TypeReviewed
<1>4. ASSUME Override(l, o, v)
      PROVE  DOMAIN links' = DOMAIN links
  <2>1. l \in DOMAIN links /\ Revised(l, Len(revs) + 1)
    BY <1>4 DEF Override, Overridable
  <2>2. Len(revs) + 1 \in Nat
    BY LenProperties DEF TypeOK
  <2> QED BY <1>2, <2>1, <2>2, TypeRevised
<1>5. ASSUME UNCHANGED links
      PROVE  DOMAIN links' = DOMAIN links
  BY <1>5
<1> QED
  BY <1>1, <1>3, <1>4, <1>5
  DEF Command, Terminate, ReviewClearance, ExecuteBusiness, ExecuteInventory,
      RecordResult, SubmitClearance

\* What a step leaves to a page that holds a detail, or has sent a command.
Kept ==
    /\ DOMAIN links \subseteq DOMAIN links'
    /\ Exists => Fenced

\* The worker adds a link and leaves the row of a task that exists.
LEMMA WorkerKeeps == ASSUME TypeOK, Worker PROVE Kept
<1> SUFFICES ASSUME NEW p \in Suggestions, NEW c \in Cutoffs,
                    StartTask(p, c) \/ ContinueTask(p, c) \/ ChangeTask(p, c)
             PROVE  Kept
  BY DEF Worker
<1>1. links \in Seq(LinkRows)
  BY DEF TypeOK
<1>2. CASE StartTask(p, c)
  BY <1>2 DEF StartTask, Exists, Kept
<1>3. CASE ContinueTask(p, c) \/ ChangeTask(p, c)
  <2>1. \E x : links' = Append(links, x)
    BY <1>3 DEF ContinueTask, ChangeTask
  <2>2. DOMAIN links \subseteq DOMAIN links'
    BY <1>1, <2>1
  <2>3. Exists /\ UNCHANGED task
    BY <1>3 DEF ContinueTask, ChangeTask
  <2>4. task.bversion \in Nat /\ task.iversion \in Nat
    BY <2>3, TaskRowFields DEF TypeOK
  <2>5. events'["approved"] = events["approved"] /\ events["approved"] \in Nat
    BY <1>3, OtherEvent DEF ContinueTask, ChangeTask, EventTypes, Relations
  <2> QED BY <2>2, <2>3, <2>4, <2>5 DEF Kept, Fenced
<1> QED BY <1>2, <1>3

\* So does every step of everyone else.
LEMMA NextKeeps == ASSUME TypeOK, Next PROVE TypeOK' /\ Kept
<1>1. TypeOK'
  BY TypeNext
<1>2. CASE Supervisor \/ Operator
  <2>1. \E l, o, d, v : Command(l, o, d, v)
    BY <1>2 DEF Supervisor, Operator, Command
  <2> QED BY <1>1, <2>1, CommandFenced, CommandKeeps DEF Kept
<1> QED BY <1>1, <1>2, WorkerKeeps DEF Next

-----------------------------------------------------------------------------
(* Details and requests.                                                   *)

\* What a page shows of the actions it may go on showing.
LEMMA VouchedStays ==
    ASSUME TypeOK, TypeOK', Kept, links # <<>>, links' # <<>>, NEW s, Vouched(s)
    PROVE  Vouched(s)'
<1>1. Exists /\ Exists' /\ Fenced
  BY DEF Exists, Kept
<1>3. /\ task \in TaskRows /\ task' \in TaskRows
      /\ events["approved"] \in Nat /\ events'["approved"] \in Nat
  BY <1>1 DEF TypeOK, EventTypes
<1>4. /\ task.bversion \in Nat /\ task.iversion \in Nat
      /\ task'.bversion \in Nat /\ task'.iversion \in Nat
  BY <1>3, TaskRowFields
<1>5. s.bversion \in Nat /\ s.iversion \in Nat /\ s.approvals \in Nat
  BY DEF Vouched, Sights
<1>6. /\ s.approvals <= events'["approved"]
      /\ s.bversion <= task'.bversion /\ s.iversion <= task'.iversion
  BY <1>1, <1>3, <1>4, <1>5 DEF Vouched, Fenced
<1>7. ASSUME events'["approved"] = s.approvals
      PROVE  /\ s.bversion = task'.bversion => s.business = task'.business
             /\ s.iversion = task'.iversion => s.inventory = task'.inventory
  <2>1. events'["approved"] = events["approved"] /\ events["approved"] = s.approvals
    BY <1>1, <1>3, <1>5, <1>7 DEF Vouched, Fenced
  <2>2. s.bversion = task'.bversion =>
          s.bversion = task.bversion /\ task'.bversion = task.bversion
    BY <1>1, <1>4, <1>5 DEF Vouched, Fenced
  <2>3. s.iversion = task'.iversion =>
          s.iversion = task.iversion /\ task'.iversion = task.iversion
    BY <1>1, <1>4, <1>5 DEF Vouched, Fenced
  <2> QED BY <1>1, <2>1, <2>2, <2>3 DEF Vouched, Fenced
<1> QED BY <1>6, <1>7 DEF Vouched

\* The fields of what is read of a link.
LEMMA DetailFields ==
    ASSUME TypeOK, NEW l \in DOMAIN links
    PROVE  /\ Detail(l) \in Details /\ Detail(l).link = l
           /\ Detail(l).approvals = events["approved"]
           /\ Detail(l).bversion = task.bversion /\ Detail(l).iversion = task.iversion
           /\ Detail(l).business = task.business /\ Detail(l).inventory = task.inventory
<1>1. Exists /\ links \in Seq(LinkRows) /\ l \in Nat \ {0}
  BY EmptySeq DEF TypeOK, Exists
<1>2. task \in TaskRows /\ links[l] \in LinkRows /\ events["approved"] \in Nat
  BY <1>1, ElementOfSeq DEF TypeOK, EventTypes
<1>3. Len(completions) \in Nat /\ LastCompletion \in CompletionStatus \cup {None}
  BY LenProperties DEF TypeOK, LastCompletion
<1>5. Detail(l) =
        [link |-> l, review |-> links[l].review, version |-> links[l].reviewVersion,
         business |-> task.business, inventory |-> task.inventory,
         bstate |-> task.bstate, bversion |-> task.bversion,
         istate |-> task.istate, iversion |-> task.iversion,
         completion |-> Len(completions), completed |-> LastCompletion,
         approvals |-> events["approved"]]
  BY DEF Detail, EffectiveAction
<1>7. Detail(l) \in Details
  BY <1>1, <1>2, <1>3, <1>5, TaskRowFields, LinkRowFields DEF Details
<1> QED BY <1>5, <1>7

\* What a page may hold is not nothing, and its actions can be seen.
LEMMA HeldIsThere ==
    ASSUME TypeOK, NEW d \in Details, d.link \in DOMAIN links
    PROVE  d # NoDetail /\ Sight(d) \in Sights
  BY DEF Details, NoDetail, Sight, Sights, TypeOK

\* What is read of a link is true of the task.
LEMMA DetailIsHeld ==
    ASSUME TypeOK, NEW l \in DOMAIN links
    PROVE  Held(Detail(l)) /\ Detail(l).link = l /\ Detail(l) # NoDetail
<1> DEFINE d == Detail(l)
<1>1. /\ d \in Details /\ d.link = l /\ d.approvals = events["approved"]
      /\ d.bversion = task.bversion /\ d.iversion = task.iversion
      /\ d.business = task.business /\ d.inventory = task.inventory
  BY DetailFields
<1> HIDE DEF d
<1>2. Exists
  BY EmptySeq DEF TypeOK, Exists
<1>3. task.bversion \in Nat /\ task.iversion \in Nat /\ events["approved"] \in Nat
  BY <1>2, TaskRowFields DEF TypeOK, EventTypes
<1>4. d # NoDetail /\ Sight(d) \in Sights
  BY <1>1, HeldIsThere
<1>5. Vouched(Sight(d))
  BY <1>1, <1>3, <1>4 DEF Vouched, Sight
<1>6. Held(d) /\ d.link = l /\ d # NoDetail
  BY <1>1, <1>4, <1>5 DEF Held
<1> QED BY <1>6 DEF d

\* The completion that is read last tells nothing of the actions.
LEMMA CompletionIsHeld ==
    ASSUME TypeOK, NEW d, Held(d)
    PROVE  Held(WithCompletion(d)) /\ WithCompletion(d).link = d.link
<1> DEFINE e == WithCompletion(d)
<1>1. Len(completions) \in Nat /\ LastCompletion \in CompletionStatus \cup {None}
  BY LenProperties DEF TypeOK, LastCompletion
<1>2. d \in Details
  BY DEF Held
<1>3. /\ e \in Details /\ e.link = d.link /\ e.approvals = d.approvals
      /\ e.bversion = d.bversion /\ e.iversion = d.iversion
      /\ e.business = d.business /\ e.inventory = d.inventory
  BY <1>1, <1>2 DEF WithCompletion, Details
<1> HIDE DEF e
<1>4. Sight(e) = Sight(d)
  BY <1>3 DEF Sight
<1>5. Held(e) /\ e.link = d.link
  BY <1>3, <1>4 DEF Held
<1> QED BY <1>5 DEF e

-----------------------------------------------------------------------------
(* Steps of the task.                                                      *)

\* Nothing happens to the task.
LEMMA NothingKeeps == ASSUME TypeOK, UNCHANGED vars PROVE TypeOK' /\ Kept
<1>1. TypeOK'
  BY TypeNext DEF vars
<1>2. Exists => /\ task.bversion \in Nat /\ task.iversion \in Nat
                /\ events["approved"] \in Nat
  BY TaskRowFields DEF TypeOK, EventTypes
<1> QED BY <1>1, <1>2 DEF vars, Kept, Fenced

\* What the handler of a request does is a command, or nothing to the task.
LEMMA HandlerKeeps ==
    ASSUME TypeOK, NEW u, NEW r, Asked(r), Handler(u, r)
    PROVE  TypeOK' /\ Kept /\ DOMAIN links' = DOMAIN links
<1>1. r.command \in Commands
  BY DEF Asked, Requests
<1>2. CASE r.command \in {"send_oa", "retry_ai"}
  <2>1. UNCHANGED vars
    BY <1>2 DEF Handler, ClearanceReviews
  <2> QED BY <2>1, NothingKeeps DEF vars
<1>3. CASE r.command \notin {"send_oa", "retry_ai"}
  <2>1. Command(r.link, r.choice, r.command, r.version)
    BY <1>1, <1>3
    DEF Handler, Command, Asked, Commands, ReviewCommands, LifecycleCommands,
        ClearanceReviews, OperatorCommands
  <2> QED BY <2>1, CommandFenced, CommandKeeps DEF Kept
<1> QED BY <1>2, <1>3

\* The operator of a week is the file's, for good.
OwnersStay == \A l \in DOMAIN links : owner'[l] = owner[l]

\* No command changes whose links they are.
LEMMA SameOwners ==
    ASSUME TypeOK, TypeOK', OwnerInv, DOMAIN links' = DOMAIN links, UNCHANGED owner
    PROVE  OwnerInv' /\ OwnersStay
<1>1. Len(links') = Len(links)
  BY LenProperties DEF TypeOK
<1> QED BY <1>1 DEF OwnerInv, OwnersStay

\* A file names the operator of its link.
LEMMA NewOwner ==
    ASSUME TypeOK, OwnerInv, Worker, NEW o \in Operators, owner' = Append(owner, o)
    PROVE  OwnerInv' /\ OwnersStay
<1> SUFFICES ASSUME NEW p \in Suggestions, NEW c \in Cutoffs,
                    StartTask(p, c) \/ ContinueTask(p, c) \/ ChangeTask(p, c)
             PROVE  OwnerInv' /\ OwnersStay
  BY DEF Worker
<1>1. links \in Seq(LinkRows) /\ Len(links) \in Nat
  BY LenProperties DEF TypeOK
<1>2. Len(links') = Len(links) + 1
  <2>1. CASE StartTask(p, c)
    <3>1. links = <<>> /\ \E row : links' = <<row>>
      BY <2>1 DEF StartTask, Exists
    <3> QED BY <3>1
  <2>2. CASE ContinueTask(p, c) \/ ChangeTask(p, c)
    <3>1. \E row : links' = Append(links, row)
      BY <2>2 DEF ContinueTask, ChangeTask
    <3> QED BY <1>1, <3>1
  <2> QED BY <2>1, <2>2
<1>3. owner' \in Seq(Operators) /\ Len(owner') = Len(owner) + 1
  BY DEF OwnerInv
<1>4. \A l \in 1 .. Len(owner) : owner'[l] = owner[l]
  BY DEF OwnerInv
<1>5. DOMAIN links = 1 .. Len(links)
  BY <1>1
<1> QED BY <1>2, <1>3, <1>4, <1>5 DEF OwnerInv, OwnersStay

-----------------------------------------------------------------------------
(* The pages.                                                              *)

\* Who may see a link may go on seeing it.
LEMMA SeenStays ==
    ASSUME OwnersStay, NEW u, NEW l \in DOMAIN links, MaySee(u, l)
    PROVE  MaySee(u, l)'
  BY DEF MaySee, OwnersStay

\* What a page holds it may keep.
LEMMA ShowsStays ==
    ASSUME TypeOK, TypeOK', Kept, OwnersStay, NEW u, NEW d, Shows(u, d)
    PROVE  Shows(u, d)'
<1>1. CASE d = NoDetail
  BY <1>1 DEF Shows
<1>2. CASE Held(d) /\ MaySee(u, d.link)
  <2>1. links # <<>> /\ links' # <<>> /\ d.link \in DOMAIN links'
    BY <1>2, EmptySeq DEF Held, Kept
  <2>2. Vouched(Sight(d))'
    <3>1. \A s : Vouched(s) => Vouched(s)'
      BY <2>1, VouchedStays
    <3>2. PICK s : s = Sight(d)
      OBVIOUS
    <3>3. Vouched(s)'
      BY <1>2, <3>1, <3>2 DEF Held
    <3> QED BY <3>2, <3>3 DEF Sight
  <2> QED BY <1>2, <2>1, <2>2, SeenStays DEF Shows, Held
<1> QED BY <1>1, <1>2 DEF Shows

\* What has been asked stays asked.
LEMMA AskedStays ==
    ASSUME TypeOK, TypeOK', Kept, NEW c, Asked(c)
    PROVE  Asked(c)'
<1>1. links # <<>> /\ links' # <<>> /\ c.link \in DOMAIN links'
  BY EmptySeq DEF Asked, Kept
<1>2. Vouched(c.seen)'
  <2>1. \A s : Vouched(s) => Vouched(s)'
    BY <1>1, VouchedStays
  <2> QED BY <2>1 DEF Asked
<1> QED BY <1>1, <1>2 DEF Asked

\* What fits a tab goes on fitting it.
LEMMA FitsStays ==
    ASSUME TypeOK, TypeOK', Kept, OwnersStay,
           NEW u, NEW l, NEW s, NEW r, NEW c, NEW g, NEW a, Fits(u, l, s, r, c, g, a)
    PROVE  Fits(u, l, s, r, c, g, a)'
<1>1. /\ Shows(u, s)' /\ Shows(u, r)' /\ Shows(u, a)'
      /\ c = NoCommand \/ Asked(c)'
  BY ShowsStays, AskedStays DEF Fits
<1>2. l \in {0} \cup DOMAIN links' /\ g \in {0} \cup DOMAIN links'
  BY DEF Fits, Kept
<1>3. l # 0 /\ MaySee(u, l) => MaySee(u, l)'
  BY SeenStays DEF Fits
<1> QED BY <1>1, <1>2, <1>3 DEF Fits

\* A tab that does nothing may go on with what it has.
LEMMA TabStays ==
    ASSUME TypeOK, TypeOK', Kept, OwnersStay, NEW t \in Tabs, TabInv(t),
           user'[t] = user[t], url'[t] = url[t], shown'[t] = shown[t],
           reading'[t] = reading[t], sent'[t] = sent[t],
           answering'[t] = answering[t], answer'[t] = answer[t]
    PROVE  TabInv(t)'
<1>1. PICK u, l, s, r, c, g, a :
        /\ u = user[t] /\ l = url[t] /\ s = shown[t] /\ r = reading[t]
        /\ c = sent[t] /\ g = answering[t] /\ a = answer[t]
  OBVIOUS
<1>2. Fits(u, l, s, r, c, g, a)
  BY <1>1 DEF TabInv
<1>3. Fits(u, l, s, r, c, g, a)'
  BY <1>2, FitsStays
<1>4. /\ u = user'[t] /\ l = url'[t] /\ s = shown'[t] /\ r = reading'[t]
      /\ c = sent'[t] /\ g = answering'[t] /\ a = answer'[t]
  BY <1>1
<1> QED BY <1>3, <1>4 DEF TabInv, Fits, Shows, Held, Asked, Vouched, Sight, MaySee

\* The tab t after a step.
Becomes(t, u, l, s, r, c, g, a) ==
    /\ user' = [user EXCEPT ![t] = u] /\ url' = [url EXCEPT ![t] = l]
    /\ shown' = [shown EXCEPT ![t] = s] /\ reading' = [reading EXCEPT ![t] = r]
    /\ sent' = [sent EXCEPT ![t] = c] /\ answering' = [answering EXCEPT ![t] = g]
    /\ answer' = [answer EXCEPT ![t] = a]

\* A function at t keeps its value when it is given the value it has.
LEMMA Same ==
    ASSUME Shape, NEW t \in Tabs
    PROVE  /\ [user EXCEPT ![t] = user[t]] = user /\ [url EXCEPT ![t] = url[t]] = url
           /\ [shown EXCEPT ![t] = shown[t]] = shown
           /\ [reading EXCEPT ![t] = reading[t]] = reading
           /\ [sent EXCEPT ![t] = sent[t]] = sent
           /\ [answering EXCEPT ![t] = answering[t]] = answering
           /\ [answer EXCEPT ![t] = answer[t]] = answer
  BY DEF Shape

\* A step of t has to answer for t alone: what it leaves there fits before the step.
LEMMA TabMoves ==
    ASSUME TypeOK, TypeOK', Kept, OwnersStay, OwnerInv', PagesInv,
           NEW t \in Tabs, NEW u \in Users, NEW l, NEW s, NEW r, NEW c, NEW g, NEW a,
           Becomes(t, u, l, s, r, c, g, a), Fits(u, l, s, r, c, g, a)
    PROVE  PagesInv'
<1>1. Shape
  BY DEF PagesInv
<1>2. /\ l \in Nat /\ g \in Nat /\ c \in Requests \cup {NoCommand}
      /\ s \in Details \cup {NoDetail} /\ r \in Details \cup {NoDetail}
      /\ a \in Details \cup {NoDetail}
  BY DEF Fits, Shows, Held, Asked, TypeOK
<1>3. Shape'
  BY <1>1, <1>2 DEF Shape, Becomes
<1>4. /\ user'[t] = u /\ url'[t] = l /\ shown'[t] = s /\ reading'[t] = r
      /\ sent'[t] = c /\ answering'[t] = g /\ answer'[t] = a
  BY <1>1 DEF Becomes, Shape
<1>5. TabInv(t)'
  <2>1. Fits(u, l, s, r, c, g, a)'
    BY FitsStays
  <2> QED BY <1>4, <2>1 DEF TabInv, Fits, Shows, Held, Asked, Vouched, Sight, MaySee
<1>6. ASSUME NEW x \in Tabs, x # t
      PROVE  TabInv(x)'
  <2>1. /\ user'[x] = user[x] /\ url'[x] = url[x] /\ shown'[x] = shown[x]
        /\ reading'[x] = reading[x] /\ sent'[x] = sent[x]
        /\ answering'[x] = answering[x] /\ answer'[x] = answer[x]
    BY <1>1, <1>6 DEF Becomes, Shape
  <2> QED BY <2>1, TabStays DEF PagesInv
<1> QED BY <1>3, <1>5, <1>6 DEF PagesInv

\* Nothing happens to the task and the files.
LEMMA Undisturbed ==
    ASSUME TypeOK, PagesInv, UNCHANGED <<vars, owner>>
    PROVE  TypeOK' /\ Kept /\ OwnersStay /\ OwnerInv'
  BY NothingKeeps DEF PagesInv, OwnerInv, OwnersStay, vars

\* Everyone else acts.
LEMMA PagesStay ==
    ASSUME TypeOK, TypeOK', Kept, OwnersStay, OwnerInv', PagesInv, UNCHANGED pages
    PROVE  PagesInv'
<1>1. \A t \in Tabs : TabInv(t)'
  BY TabStays DEF PagesInv, pages
<1>2. Shape'
  BY DEF PagesInv, Shape, pages
<1> QED BY <1>1, <1>2 DEF PagesInv

\* A page load starts with nothing, for a user there is.
LEMMA OpenKeeps ==
    ASSUME TypeOK, PagesInv, NEW t \in Tabs, NEW l, Open(t, l)
    PROVE  PagesInv'
<1>1. TypeOK' /\ Kept /\ OwnersStay /\ OwnerInv'
  BY Undisturbed DEF Open
<1>2. Shape
  BY DEF PagesInv
<1>3. PICK u \in Users : user' = [user EXCEPT ![t] = u]
  BY <1>2 DEF Open, Shape
<1>4. sent[t] = NoCommand /\ answering[t] = 0 /\ answer[t] = NoDetail
  BY DEF Open, Busy
<1>5. Becomes(t, u, l, NoDetail, NoDetail, NoCommand, 0, NoDetail)
  BY <1>2, <1>3, <1>4, Same DEF Open, Becomes
<1>6. Fits(u, l, NoDetail, NoDetail, NoCommand, 0, NoDetail)
  BY DEF Open, Fits, Shows
<1> QED BY <1>1, <1>5, <1>6, TabMoves

\* The answer of a read is true when it is made, and goes to who may see it.
LEMMA ReadKeeps ==
    ASSUME TypeOK, PagesInv, NEW t \in Tabs, Read(t)
    PROVE  PagesInv'
<1>1. TypeOK' /\ Kept /\ OwnersStay /\ OwnerInv'
  BY Undisturbed DEF Read
<1>2. Shape /\ TabInv(t) /\ user[t] \in Users
  BY DEF PagesInv, Shape
<1>3. url[t] \in DOMAIN links /\ MaySee(user[t], url[t])
  BY <1>2 DEF Read, TabInv, Fits
<1>4. Shows(user[t], Detail(url[t]))
  BY <1>3, DetailIsHeld DEF Shows
<1>5. Becomes(t, user[t], url[t], shown[t], Detail(url[t]), sent[t], answering[t], answer[t])
  BY <1>2, Same DEF Read, Becomes
<1>6. Fits(user[t], url[t], shown[t], Detail(url[t]), sent[t], answering[t], answer[t])
  BY <1>2, <1>3, <1>4 DEF Read, TabInv, Fits
<1> QED BY <1>1, <1>2, <1>5, <1>6, TabMoves

\* Its last query changes nothing a page relies on.
LEMMA ReadCompletionKeeps ==
    ASSUME TypeOK, PagesInv, NEW t \in Tabs, ReadCompletion(t)
    PROVE  PagesInv'
<1>1. TypeOK' /\ Kept /\ OwnersStay /\ OwnerInv'
  BY Undisturbed DEF ReadCompletion
<1>2. Shape /\ TabInv(t) /\ user[t] \in Users
  BY DEF PagesInv, Shape
<1> DEFINE d == WithCompletion(reading[t])
<1>3. Shows(user[t], d)
  BY <1>2, CompletionIsHeld DEF ReadCompletion, TabInv, Fits, Shows
<1>4. Becomes(t, user[t], url[t], shown[t], d, sent[t], answering[t], answer[t])
  BY <1>2, Same DEF ReadCompletion, Becomes
<1> HIDE DEF d
<1>5. Fits(user[t], url[t], shown[t], d, sent[t], answering[t], answer[t])
  BY <1>2, <1>3 DEF ReadCompletion, TabInv, Fits
<1> QED BY <1>1, <1>2, <1>4, <1>5, TabMoves

\* The answer of a read that is shown was true when it was made.
LEMMA ReadAnsweredKeeps ==
    ASSUME TypeOK, PagesInv, NEW t \in Tabs, ReadAnswered(t) \/ ReadFails(t)
    PROVE  PagesInv'
<1>1. TypeOK' /\ Kept /\ OwnersStay /\ OwnerInv'
  BY Undisturbed DEF ReadAnswered, ReadFails
<1>2. Shape /\ TabInv(t) /\ user[t] \in Users
  BY DEF PagesInv, Shape
<1>3. PICK d \in {reading[t], NoDetail} : shown' = [shown EXCEPT ![t] = d]
  BY DEF ReadAnswered, ReadFails
<1>4. Becomes(t, user[t], url[t], d, NoDetail, sent[t], answering[t], answer[t])
  BY <1>2, <1>3, Same DEF ReadAnswered, ReadFails, Becomes
<1>5. Fits(user[t], url[t], d, NoDetail, sent[t], answering[t], answer[t])
  BY <1>2, <1>3 DEF ReadAnswered, ReadFails, TabInv, Fits, Shows
<1> QED BY <1>1, <1>2, <1>4, <1>5, TabMoves

\* A tab that leaves has nothing.
LEMMA SignedOutKeeps ==
    ASSUME TypeOK, PagesInv, NEW t \in Tabs, SignedOut(t)
    PROVE  PagesInv'
<1>1. TypeOK' /\ Kept /\ OwnersStay /\ OwnerInv'
  BY Undisturbed DEF SignedOut
<1>2. Shape /\ user[t] \in Users
  BY DEF PagesInv, Shape
<1>3. Becomes(t, user[t], 0, NoDetail, NoDetail, NoCommand, 0, NoDetail)
  BY <1>2, Same DEF SignedOut, Becomes
<1>4. Fits(user[t], 0, NoDetail, NoDetail, NoCommand, 0, NoDetail)
  BY DEF Fits, Shows
<1> QED BY <1>1, <1>2, <1>3, <1>4, TabMoves

\* A report on a track carries the track's version.
LEMMA TrackVersion ==
    ASSUME NEW c, NEW d
    PROVE  /\ c \in {"execute_business", "record_result", "submit_clearance"} =>
                VersionFor(c, d) = d.bversion
           /\ c = "execute_inventory" => VersionFor(c, d) = d.iversion
<1>1. CASE c \in {"execute_business", "record_result", "submit_clearance"}
  BY <1>1 DEF VersionFor, ClearanceReviews
<1>2. CASE c = "execute_inventory"
  BY <1>2 DEF VersionFor, ClearanceReviews
<1> QED BY <1>1, <1>2

\* What is offered is about the link of the page, with a version it holds.
LEMMA OfferedIsAsked ==
    ASSUME TypeOK, PagesInv, NEW t \in Tabs, NEW c \in Offered(t), NEW o,
           o \in IF c = "override" THEN Overrides ELSE {NoDetail}
    PROVE  Asked([command |-> c, link |-> LinkFor(t, c), choice |-> o,
                  version |-> VersionFor(c, shown[t]), seen |-> Sight(shown[t])])
<1>1. TabInv(t) /\ shown[t] # NoDetail
  BY DEF PagesInv, Offered
<1>2. Held(shown[t]) /\ url[t] \in DOMAIN links
  BY <1>1 DEF TabInv, Fits, Shows
<1>3. LinkFor(t, c) \in DOMAIN links
  BY <1>2 DEF LinkFor, Held
<1>4. VersionFor(c, shown[t]) \in Nat
  BY <1>2 DEF VersionFor, Held, Details
<1>5. c \in Commands
  <2>1. c \in {"retry_ai"} \cup ReviewCommands \cup LifecycleCommands
               \cup ClearanceReviews \cup OperatorCommands
    BY <1>1 DEF Offered, ReviewForm, SupervisorLifecyclePanel, OperationsPanel
  <2> QED BY <2>1 DEF Commands
<1>6. LinkFor(t, c) \in Nat \ {0}
  BY <1>3 DEF TypeOK
<1> DEFINE v == VersionFor(c, shown[t])
<1> DEFINE r == [command |-> c, link |-> LinkFor(t, c), choice |-> o,
                 version |-> v, seen |-> Sight(shown[t])]
<1>7. /\ c \in {"execute_business", "record_result", "submit_clearance"} =>
           v = Sight(shown[t]).bversion
      /\ c = "execute_inventory" => v = Sight(shown[t]).iversion
  BY TrackVersion DEF Sight
<1>8. v \in Nat /\ Vouched(Sight(shown[t])) /\ Sight(shown[t]) \in Sights
  BY <1>2, <1>4 DEF Held, Vouched
<1> HIDE DEF v
<1>9. r \in Requests
  BY <1>5, <1>6, <1>8 DEF Requests
<1>10. Asked(r)
  BY <1>3, <1>7, <1>8, <1>9 DEF Asked
<1> QED BY <1>10 DEF v

\* A command that is offered may be sent.
LEMMA SubmitKeeps ==
    ASSUME TypeOK, PagesInv, NEW t \in Tabs, NEW c, Submit(t, c)
    PROVE  PagesInv'
<1>1. TypeOK' /\ Kept /\ OwnersStay /\ OwnerInv'
  BY Undisturbed DEF Submit
<1>2. Shape /\ TabInv(t) /\ user[t] \in Users
  BY DEF PagesInv, Shape
<1>3. c \in Offered(t) /\ shown[t] # NoDetail
  BY DEF Submit, Offered
<1>4. \E r : Asked(r) /\ sent' = [sent EXCEPT ![t] = r]
  BY <1>3, OfferedIsAsked DEF Submit
<1>5. PICK r : Asked(r) /\ sent' = [sent EXCEPT ![t] = r]
  BY <1>4
<1>6. Becomes(t, user[t], url[t], shown[t], reading[t], r, answering[t], answer[t])
  BY <1>2, <1>5, Same DEF Submit, Becomes
<1>7. Fits(user[t], url[t], shown[t], reading[t], r, answering[t], answer[t])
  BY <1>2, <1>3, <1>5 DEF TabInv, Fits
<1> QED BY <1>1, <1>2, <1>6, <1>7, TabMoves

\* The handler runs, for a link there is, and the page does not know yet.
LEMMA CommitKeeps ==
    ASSUME TypeOK, PagesInv, NEW t \in Tabs, Commit(t)
    PROVE  TypeOK' /\ PagesInv'
<1>1. Shape /\ TabInv(t) /\ user[t] \in Users
  BY DEF PagesInv, Shape
<1>2. Asked(sent[t]) /\ Handler(user[t], sent[t])
  BY <1>1 DEF Commit, TabInv, Fits
<1>3. TypeOK' /\ Kept /\ DOMAIN links' = DOMAIN links
  BY <1>2, HandlerKeeps
<1>4. OwnersStay /\ OwnerInv'
  BY <1>3, SameOwners DEF Commit, PagesInv
<1>5. PICK l \in AnsweredLinks(sent[t]) : answering' = [answering EXCEPT ![t] = l]
  BY DEF Commit
<1>6. l \in DOMAIN links
  BY <1>2, <1>5 DEF AnsweredLinks, LatestLinks, Asked
<1>7. Becomes(t, user[t], url[t], shown[t], reading[t], NoCommand, l, answer[t])
  BY <1>1, <1>5, Same DEF Commit, Becomes
<1>8. Fits(user[t], url[t], shown[t], reading[t], NoCommand, l, answer[t])
  BY <1>1, <1>6 DEF Commit, TabInv, Fits
<1> QED BY <1>1, <1>3, <1>4, <1>7, <1>8, TabMoves

\* The answer of a command is true when it is read, and goes to who may see it.
LEMMA AnswerReadKeeps ==
    ASSUME TypeOK, PagesInv, NEW t \in Tabs, AnswerRead(t)
    PROVE  PagesInv'
<1>1. TypeOK' /\ Kept /\ OwnersStay /\ OwnerInv'
  BY Undisturbed DEF AnswerRead
<1>2. Shape /\ TabInv(t) /\ user[t] \in Users
  BY DEF PagesInv, Shape
<1>3. answering[t] \in DOMAIN links /\ MaySee(user[t], answering[t])
  BY <1>2 DEF AnswerRead, TabInv, Fits
<1>4. Shows(user[t], Detail(answering[t]))
  BY <1>3, DetailIsHeld DEF Shows
<1>5. Becomes(t, user[t], url[t], shown[t], reading[t], sent[t], 0, Detail(answering[t]))
  BY <1>2, Same DEF AnswerRead, Becomes
<1>6. Fits(user[t], url[t], shown[t], reading[t], sent[t], 0, Detail(answering[t]))
  BY <1>2, <1>4 DEF AnswerRead, TabInv, Fits
<1> QED BY <1>1, <1>2, <1>5, <1>6, TabMoves

\* Its last query changes nothing a page relies on either.
LEMMA AnswerCompletionKeeps ==
    ASSUME TypeOK, PagesInv, NEW t \in Tabs, AnswerCompletion(t)
    PROVE  PagesInv'
<1>1. TypeOK' /\ Kept /\ OwnersStay /\ OwnerInv'
  BY Undisturbed DEF AnswerCompletion
<1>2. Shape /\ TabInv(t) /\ user[t] \in Users
  BY DEF PagesInv, Shape
<1> DEFINE d == WithCompletion(answer[t])
<1>3. Shows(user[t], d)
  BY <1>2, CompletionIsHeld DEF AnswerCompletion, TabInv, Fits, Shows
<1>4. Becomes(t, user[t], url[t], shown[t], reading[t], sent[t], answering[t], d)
  BY <1>2, Same DEF AnswerCompletion, Becomes
<1> HIDE DEF d
<1>5. Fits(user[t], url[t], shown[t], reading[t], sent[t], answering[t], d)
  BY <1>2, <1>3 DEF AnswerCompletion, TabInv, Fits
<1> QED BY <1>1, <1>2, <1>4, <1>5, TabMoves

\* The answer that is shown was true when it was read.
LEMMA CommandAnsweredKeeps ==
    ASSUME TypeOK, PagesInv, NEW t \in Tabs, CommandAnswered(t)
    PROVE  PagesInv'
<1>1. TypeOK' /\ Kept /\ OwnersStay /\ OwnerInv'
  BY Undisturbed DEF CommandAnswered
<1>2. Shape /\ TabInv(t) /\ user[t] \in Users
  BY DEF PagesInv, Shape
<1>3. Becomes(t, user[t], url[t], answer[t], reading[t], sent[t], answering[t], NoDetail)
  BY <1>2, Same DEF CommandAnswered, Becomes
<1>4. Fits(user[t], url[t], answer[t], reading[t], sent[t], answering[t], NoDetail)
  BY <1>2 DEF CommandAnswered, TabInv, Fits, Shows
<1> QED BY <1>1, <1>2, <1>3, <1>4, TabMoves

\* A failure leaves the page.
LEMMA CommandFailsKeeps ==
    ASSUME TypeOK, PagesInv, NEW t \in Tabs, CommandFails(t)
    PROVE  PagesInv'
<1>1. TypeOK' /\ Kept /\ OwnersStay /\ OwnerInv'
  BY Undisturbed DEF CommandFails
<1>2. Shape /\ TabInv(t) /\ user[t] \in Users
  BY DEF PagesInv, Shape
<1>3. Becomes(t, user[t], url[t], shown[t], reading[t], NoCommand, 0, NoDetail)
  BY <1>2, Same DEF CommandFails, Becomes
<1>4. Fits(user[t], url[t], shown[t], reading[t], NoCommand, 0, NoDetail)
  BY <1>2 DEF TabInv, Fits, Shows
<1> QED BY <1>1, <1>2, <1>3, <1>4, TabMoves

-----------------------------------------------------------------------------
(* The invariant.                                                          *)

\* At the start no tab has anything.
LEMMA PagesInvInit == PagesInit => TypeOK /\ PagesInv
<1> SUFFICES ASSUME PagesInit PROVE TypeOK /\ PagesInv
  OBVIOUS
<1>1. TypeOK
  BY TypeInit DEF PagesInit
<1>2. Shape /\ \A t \in Tabs : TabInv(t)
  BY DEF PagesInit, Shape, TabInv, Fits, Shows
<1>3. OwnerInv
  BY DEF PagesInit, Init, OwnerInv
<1> QED BY <1>1, <1>2, <1>3 DEF PagesInv

\* A step of a page other than a commit.
Moves(t) ==
    \/ \E l \in 1 .. MaxLinks : Open(t, l)
    \/ Read(t) \/ ReadCompletion(t) \/ ReadAnswered(t) \/ ReadFails(t)
    \/ SignedOut(t)
    \/ \E c \in Commands : Submit(t, c)
    \/ AnswerRead(t) \/ AnswerCompletion(t) \/ CommandAnswered(t) \/ CommandFails(t)

\* It changes nothing on the server.
LEMMA MovesLeave == ASSUME NEW t, Moves(t) PROVE UNCHANGED <<vars, owner>>
  BY DEF Moves, Open, Read, ReadCompletion, ReadAnswered, ReadFails, SignedOut, Submit,
     AnswerRead, AnswerCompletion, CommandAnswered, CommandFails

\* Every step of the pages and of everyone else keeps the invariant.
LEMMA PagesInvNext == TypeOK /\ PagesInv /\ [PagesNext]_allVars => TypeOK' /\ PagesInv'
<1> SUFFICES ASSUME TypeOK, PagesInv, [PagesNext]_allVars PROVE TypeOK' /\ PagesInv'
  OBVIOUS
<1>0. OwnerInv
  BY DEF PagesInv
<1>1. CASE UNCHANGED allVars
  <2>1. UNCHANGED <<vars, owner>> /\ UNCHANGED pages
    BY <1>1 DEF allVars
  <2> QED BY <2>1, Undisturbed, PagesStay
<1>2. CASE Worker /\ (\E o \in Operators : owner' = Append(owner, o)) /\ UNCHANGED pages
  <2>1. TypeOK' /\ Kept
    BY <1>2, NextKeeps DEF Next
  <2>2. OwnerInv' /\ OwnersStay
    BY <1>0, <1>2, NewOwner
  <2> QED BY <1>2, <2>1, <2>2, PagesStay
<1>3. CASE (Supervisor \/ Operator) /\ UNCHANGED owner /\ UNCHANGED pages
  <2>1. TypeOK' /\ Kept
    BY <1>3, NextKeeps DEF Next
  <2>2. \E l, o, d, v : Command(l, o, d, v)
    BY <1>3 DEF Supervisor, Operator, Command
  <2>3. OwnerInv' /\ OwnersStay
    BY <1>0, <1>3, <2>1, <2>2, CommandKeeps, SameOwners
  <2> QED BY <1>3, <2>1, <2>3, PagesStay
<1>4. ASSUME NEW t \in Tabs, Moves(t)
      PROVE  TypeOK' /\ PagesInv'
  <2>1. TypeOK'
    BY <1>4, MovesLeave, Undisturbed
  <2>2. PagesInv'
    BY <1>4, OpenKeeps, ReadKeeps, ReadCompletionKeeps, ReadAnsweredKeeps,
       SignedOutKeeps, SubmitKeeps, AnswerReadKeeps, AnswerCompletionKeeps,
       CommandAnsweredKeeps, CommandFailsKeeps DEF Moves
  <2> QED BY <2>1, <2>2
<1> QED BY <1>1, <1>2, <1>3, <1>4, CommitKeeps DEF PagesNext, Others, Moves

\* In every reachable state the task has its types, and each tab only what was true
\* when it was read.
THEOREM Invariant == PagesSpec => [](TypeOK /\ PagesInv)
  BY PagesInvInit, PagesInvNext, PTL DEF PagesSpec

\* Pages show details of existing links and send commands they offer.
THEOREM PagesTypeCorrect == PagesSpec => []PagesTypeOK
<1>1. TypeOK /\ PagesInv => PagesTypeOK
  <2> SUFFICES ASSUME TypeOK, PagesInv PROVE PagesTypeOK
    OBVIOUS
  <2>1. DOMAIN links = 1 .. Len(links) /\ Len(links) \in Nat
    BY LenProperties DEF TypeOK
  <2>2. Shape /\ OwnerInv /\ \A t \in Tabs : TabInv(t)
    BY DEF PagesInv
  <2>3. \A t \in Tabs : /\ url[t] \in 0 .. Len(links) /\ answering[t] \in 0 .. Len(links)
                        /\ shown[t].link \in 0 .. Len(links)
    BY <2>1, <2>2 DEF TabInv, Fits, Shows, Held, NoDetail
  <2>4. url \in [Tabs -> 0 .. Len(links)] /\ answering \in [Tabs -> 0 .. Len(links)]
    BY <2>2, <2>3 DEF Shape
  <2> QED BY <2>2, <2>3, <2>4 DEF PagesTypeOK, Shape, OwnerInv
<1> QED BY <1>1, Invariant, PTL

\* A command is refused only when a version moved, so the versions a page holds
\* must vouch for the actions it shows.  They do, whatever overrides, weekly
\* decisions and terminations came between, as long as no approval did.
THEOREM VersionsVouchForActionHolds == PagesSpec => []VersionsVouchForAction
<1>1. TypeOK /\ PagesInv => VersionsVouchForAction
  <2> SUFFICES ASSUME PagesInv, NEW t \in Tabs, NEW d \in GoesBy(t)
               PROVE  events["approved"] = d.approvals =>
                        /\ d.bversion = task.bversion => d.business = task.business
                        /\ d.iversion = task.iversion => d.inventory = task.inventory
    BY DEF VersionsVouchForAction
  <2>1. Vouched(d)
    BY DEF PagesInv, TabInv, Fits, Shows, GoesBy, Asked, Held
  <2> QED BY <2>1 DEF Vouched
<1> QED BY <1>1, Invariant, PTL

\* What the operator reports is done to the action that was on the page, however
\* late the request arrives, unless an approval came between.
THEOREM AcceptedAsShownHolds == PagesSpec => []AcceptedAsShown
<1>1. TypeOK /\ PagesInv => AcceptedAsShown
  <2> SUFFICES ASSUME PagesInv, NEW t \in Tabs, NEW r \in {sent[t]} \ {NoCommand},
                      Accepts(user[t], r), events["approved"] = r.seen.approvals
               PROVE  /\ r.command \in {"execute_business", "record_result", "submit_clearance"} =>
                            task.business = r.seen.business
                      /\ r.command = "execute_inventory" => task.inventory = r.seen.inventory
    BY DEF AcceptedAsShown
  <2>1. Asked(r) /\ Vouched(r.seen)
    BY DEF PagesInv, TabInv, Fits, Asked
  <2>2. CASE r.command \in {"execute_business", "record_result", "submit_clearance"}
    <3>1. r.version = task.bversion
      BY <2>2 DEF Accepts, ReviewCommands, ClearanceReviews, BusinessExecutable, Recordable,
         Submittable
    <3>2. r.version = r.seen.bversion
      BY <2>1, <2>2 DEF Asked
    <3> QED BY <2>1, <2>2, <3>1, <3>2 DEF Vouched
  <2>3. CASE r.command = "execute_inventory"
    <3>1. r.version = task.iversion
      BY <2>3 DEF Accepts, ReviewCommands, ClearanceReviews, InventoryExecutable
    <3>2. r.version = r.seen.iversion
      BY <2>1, <2>3 DEF Asked
    <3> QED BY <2>1, <2>3, <3>1, <3>2 DEF Vouched
  <2> QED BY <2>2, <2>3
<1> QED BY <1>1, Invariant, PTL

-----------------------------------------------------------------------------
(* The pages leave the task what it is: PagesSpec implements Spec.           *)

\* The versions a command can be sent with are those of Spec's bounds: a pending
\* link's version never gets ahead of the task's, which no command at the bound moves.
InBounds ==
    /\ Len(links) <= MaxLinks /\ Len(completions) <= MaxCompletions
    /\ Exists =>
         /\ task.reviewVersion >= 1 /\ task.bversion >= 1 /\ task.iversion >= 1
         /\ task.bstate \in {"executed", "result_recorded"} => task.bversion <= MaxVersion
    /\ \A l \in DOMAIN links :
         /\ links[l].reviewVersion >= 1
         /\ links[l].reviewVersion <= task.reviewVersion + 1
         /\ links[l].review = "pending" => links[l].reviewVersion <= task.reviewVersion

\* A decision on a link moves its version by one.
LEMMA ReviewedVersions ==
    ASSUME links \in Seq(LinkRows), NEW l \in DOMAIN links, NEW s, Reviewed(l, s)
    PROVE  /\ links'[l].reviewVersion = links[l].reviewVersion + 1
           /\ links'[l].review = s
           /\ \A k \in DOMAIN links : k # l => links'[k] = links[k]
<1> DEFINE next == links[l].reviewVersion + 1
<1> DEFINE row == [links[l] EXCEPT !.review = s, !.reviewVersion = next]
<1>1. ASSUME NEW r \in LinkRows, NEW n
      PROVE  LET u == [r EXCEPT !.review = s, !.reviewVersion = n]
             IN u.review = s /\ u.reviewVersion = n
  BY DEF LinkRows
<1>2. links[l] \in LinkRows
  BY ElementOfSeq
<1>3. row.review = s /\ row.reviewVersion = next
  <2> HIDE DEF next
  <2> QED BY <1>1, <1>2
<1>4. links' = [links EXCEPT ![l] = row]
  BY DEF Reviewed
<1> HIDE DEF row
<1>5. \A k \in DOMAIN links : links'[k] = IF k = l THEN row ELSE links[k]
  BY <1>4
<1> QED BY <1>3, <1>5

\* So does an override, which decides nothing.
LEMMA RevisedVersions ==
    ASSUME links \in Seq(LinkRows), NEW l \in DOMAIN links, NEW i, Revised(l, i)
    PROVE  /\ links'[l].reviewVersion = links[l].reviewVersion + 1
           /\ links'[l].review = links[l].review
           /\ \A k \in DOMAIN links : k # l => links'[k] = links[k]
<1> DEFINE next == links[l].reviewVersion + 1
<1> DEFINE row == [links[l] EXCEPT !.revision = i, !.reviewVersion = next]
<1>1. ASSUME NEW r \in LinkRows, NEW n
      PROVE  LET u == [r EXCEPT !.revision = i, !.reviewVersion = n]
             IN u.review = r.review /\ u.reviewVersion = n
  BY DEF LinkRows
<1>2. links[l] \in LinkRows
  BY ElementOfSeq
<1>3. row.review = links[l].review /\ row.reviewVersion = next
  <2> HIDE DEF next
  <2> QED BY <1>1, <1>2
<1>4. links' = [links EXCEPT ![l] = row]
  BY DEF Revised
<1> HIDE DEF row
<1>5. \A k \in DOMAIN links : links'[k] = IF k = l THEN row ELSE links[k]
  BY <1>4
<1> QED BY <1>3, <1>5

\* What a command does to the versions and the state of the task.
LEMMA CommandVersions ==
    ASSUME TypeOK, NEW l, NEW o, NEW d, NEW v, Command(l, o, d, v)
    PROVE  /\ task'.reviewVersion \in {task.reviewVersion, task.reviewVersion + 1}
           /\ task'.bversion \in {task.bversion, task.bversion + 1}
           /\ task'.iversion \in {task.iversion, task.iversion + 1}
           /\ \/ VersionsBelowBound
              \/ SubmitClearance(v)
           /\ Terminate(l, v) \/ Override(l, o, v) => task'.reviewVersion = task.reviewVersion + 1
<1>1. Exists
  BY CommandFenced
<1>2. task \in TaskRows
  BY <1>1 DEF TypeOK
<1>3. CASE Override(l, o, v)
  <2>1. /\ task'.reviewVersion = task.reviewVersion + 1
        /\ task'.bversion = task.bversion + 1 /\ task'.iversion = task.iversion + 1
    BY <1>3, OverrideEffect
  <2> QED BY <1>3, <2>1 DEF Override
<1>4. CASE ~Override(l, o, v)
  BY <1>2, <1>4
  DEF TaskRows, Command, Approve, Reject, Terminate, ReviewClearance,
      ExecuteBusiness, ExecuteInventory, RecordResult, SubmitClearance
<1> QED BY <1>3, <1>4

\* The worker's links start at version 1, which no task is below.
LEMMA WorkerInBounds == ASSUME TypeOK, InBounds, Worker PROVE InBounds'
<1> SUFFICES ASSUME NEW p \in Suggestions, NEW c \in Cutoffs,
                    StartTask(p, c) \/ ContinueTask(p, c) \/ ChangeTask(p, c)
             PROVE  InBounds'
  BY DEF Worker
<1>1. links \in Seq(LinkRows) /\ Len(links) \in Nat /\ MaxLinks \in Nat
  BY LenProperties, BoundsAssumption DEF TypeOK
<1>2. UNCHANGED completions
  BY DEF StartTask, ContinueTask, ChangeTask
<1>3. CASE StartTask(p, c)
  <2>1. /\ task'.reviewVersion = 1 /\ task'.bversion = 1 /\ task'.iversion = 1
        /\ task'.bstate = "pending_review"
    BY <1>3 DEF StartTask
  <2>2. PICK row : links' = <<row>> /\ row.reviewVersion = 1
    BY <1>3 DEF StartTask, NewLink
  <2>3. Len(links') = 1 /\ DOMAIN links' = {1} /\ links'[1] = row
    BY <2>2
  <2> QED BY <1>1, <1>2, <1>3, <2>1, <2>2, <2>3 DEF InBounds, StartTask
<1>4. CASE ContinueTask(p, c) \/ ChangeTask(p, c)
  <2>1. Exists /\ UNCHANGED task /\ Len(links) < MaxLinks
    BY <1>4 DEF ContinueTask, ChangeTask
  <2>2. PICK row : links' = Append(links, row) /\ row.reviewVersion = 1
    <3>1. \E relation, revision, review, previous :
            links' = Append(links, NewLink(p, c, relation, revision, review, previous))
      BY <1>4 DEF ContinueTask, ChangeTask
    <3>2. \A relation, revision, review, previous :
            NewLink(p, c, relation, revision, review, previous).reviewVersion = 1
      BY DEF NewLink
    <3> QED BY <3>1, <3>2
  <2>3. /\ Len(links') = Len(links) + 1 /\ DOMAIN links' = 1 .. Len(links) + 1
        /\ \A k \in DOMAIN links' : IF k = Len(links) + 1 THEN links'[k] = row
                                    ELSE k \in DOMAIN links /\ links'[k] = links[k]
    BY <1>1, <2>2
  <2>4. task.reviewVersion \in Nat /\ task.reviewVersion >= 1
    BY <2>1, TaskRowFields DEF TypeOK, InBounds
  <2>5. \A k \in DOMAIN links' :
          /\ links'[k].reviewVersion >= 1
          /\ links'[k].reviewVersion <= task'.reviewVersion + 1
          /\ links'[k].review = "pending" => links'[k].reviewVersion <= task'.reviewVersion
    BY <2>1, <2>2, <2>3, <2>4 DEF InBounds
  <2>6. Len(links') <= MaxLinks /\ Len(completions') <= MaxCompletions
    BY <1>1, <1>2, <2>1, <2>3 DEF InBounds
  <2> QED BY <2>1, <2>5, <2>6 DEF InBounds
<1> QED BY <1>3, <1>4

\* A command moves the version of its link only when it decides it, or together
\* with the task's.
LEMMA CommandInBounds ==
    ASSUME TypeOK, InBounds, NEW l, NEW o, NEW d, NEW v, Command(l, o, d, v)
    PROVE  InBounds'
<1>1. Exists /\ TypeOK' /\ DOMAIN links' = DOMAIN links
  BY CommandFenced, CommandKeeps
<1>2. /\ links \in Seq(LinkRows) /\ links' \in Seq(LinkRows)
      /\ task \in TaskRows /\ MaxVersion \in Nat
  BY <1>1, BoundsAssumption DEF TypeOK
<1>3. /\ task.reviewVersion \in Nat /\ task.bversion \in Nat /\ task.iversion \in Nat
      /\ \A k \in DOMAIN links : links[k].reviewVersion \in Nat
  BY <1>2, TaskRowFields, LinkRowFields, ElementOfSeq
<1>4. /\ task'.reviewVersion \in {task.reviewVersion, task.reviewVersion + 1}
      /\ task'.bversion \in {task.bversion, task.bversion + 1}
      /\ task'.iversion \in {task.iversion, task.iversion + 1}
  BY CommandVersions
<1>5. /\ task'.reviewVersion >= 1 /\ task'.bversion >= 1 /\ task'.iversion >= 1
      /\ task'.bstate \in {"executed", "result_recorded"} => task'.bversion <= MaxVersion
  <2>1. CASE VersionsBelowBound
    BY <1>1, <1>2, <1>3, <1>4, <2>1 DEF InBounds, VersionsBelowBound
  <2>2. CASE SubmitClearance(v)
    BY <1>1, <2>2 DEF InBounds, SubmitClearance
  <2> QED BY <2>1, <2>2, CommandVersions
<1>6. Len(links') = Len(links)
  BY <1>1, <1>2, LenProperties
<1>7. Len(completions') <= MaxCompletions
  <2>1. completions \in Seq(CompletionStatus)
    BY DEF TypeOK
  <2>2. CASE UNCHANGED completions
    BY <2>2 DEF InBounds
  <2>3. CASE ReviewClearance(d, v)
    <3>1. completions' = [completions EXCEPT ![v] = d]
      BY <2>3 DEF ReviewClearance
    <3>2. Len(completions') = Len(completions)
      BY <2>1, <3>1
    <3> QED BY <3>2 DEF InBounds
  <2>4. CASE SubmitClearance(v)
    BY <2>1, <2>4, BoundsAssumption DEF InBounds, SubmitClearance
  <2> QED
    BY <2>2, <2>3, <2>4
    DEF Command, Approve, Reject, Terminate, Override, ExecuteBusiness,
        ExecuteInventory, RecordResult
<1>8. ASSUME NEW k \in DOMAIN links
      PROVE  /\ links'[k].reviewVersion >= 1
             /\ links'[k].reviewVersion <= task'.reviewVersion + 1
             /\ links'[k].review = "pending" => links'[k].reviewVersion <= task'.reviewVersion
  <2>0. /\ links[k].reviewVersion >= 1
        /\ links[k].reviewVersion <= task.reviewVersion + 1
        /\ links[k].review = "pending" => links[k].reviewVersion <= task.reviewVersion
    BY DEF InBounds
  <2>1. CASE UNCHANGED links
    BY <1>3, <1>4, <2>0, <2>1
  <2>2. CASE Approve(l, v) \/ Reject(l, v)
    <3>1. l \in DOMAIN links /\ links[l].review = "pending"
      BY <2>2 DEF Approve, Reject, Reviewable
    <3>2. \E s : Reviewed(l, s) /\ s # "pending"
      BY <2>2 DEF Approve, Reject
    <3>3. /\ links'[l].reviewVersion = links[l].reviewVersion + 1
          /\ links'[l].review # "pending"
          /\ \A j \in DOMAIN links : j # l => links'[j] = links[j]
      BY <1>2, <3>1, <3>2, ReviewedVersions
    <3>4. CASE k = l
      <4>1. /\ links[k].reviewVersion >= 1
            /\ links[k].reviewVersion <= task.reviewVersion
        BY <3>1, <3>4 DEF InBounds
      <4> QED BY <1>3, <1>4, <3>3, <3>4, <4>1
    <3>5. CASE k # l
      BY <1>3, <1>4, <2>0, <3>3, <3>5
    <3> QED BY <3>4, <3>5
  <2>3. CASE Override(l, o, v)
    <3>1. l \in DOMAIN links /\ \E n : Revised(l, n)
      BY <2>3 DEF Override, Overridable
    <3>2. /\ links'[l].reviewVersion = links[l].reviewVersion + 1
          /\ links'[l].review = links[l].review
          /\ \A j \in DOMAIN links : j # l => links'[j] = links[j]
      BY <1>2, <3>1, RevisedVersions
    <3>3. task'.reviewVersion = task.reviewVersion + 1
      BY <2>3, CommandVersions
    <3>4. CASE k = l
      BY <1>3, <2>0, <3>2, <3>3, <3>4
    <3>5. CASE k # l
      BY <1>3, <2>0, <3>2, <3>3, <3>5
    <3> QED BY <3>4, <3>5
  <2> QED
    BY <2>1, <2>2, <2>3
    DEF Command, Terminate, ReviewClearance, ExecuteBusiness, ExecuteInventory,
        RecordResult, SubmitClearance
<1> QED BY <1>1, <1>5, <1>6, <1>7, <1>8 DEF InBounds

\* What the handler of a sent command does is one of Spec's commands.
LEMMA HandlerIsCommand ==
    ASSUME TypeOK, InBounds, NEW u, NEW r, Asked(r), Handler(u, r)
    PROVE  [Next]_vars
<1>1. r.command \in Commands /\ r.link \in DOMAIN links
  BY DEF Asked, Requests
<1>2. Exists /\ task \in TaskRows /\ r.link \in 1 .. MaxLinks
  <2>1. DOMAIN links = 1 .. Len(links) /\ Len(links) \in Nat /\ Len(links) <= MaxLinks
    BY LenProperties DEF TypeOK, InBounds
  <2> QED BY <1>1, <2>1, EmptySeq, BoundsAssumption DEF Exists, TypeOK
<1>3. /\ task.reviewVersion \in Nat /\ task.bversion \in Nat /\ task.iversion \in Nat
      /\ links[r.link].reviewVersion \in Nat /\ MaxVersion \in Nat
      /\ MaxCompletions \in Nat
  BY <1>1, <1>2, TaskRowFields, LinkRowFields, ElementOfSeq, BoundsAssumption DEF TypeOK
<1>4. CASE r.command \in {"send_oa", "retry_ai"}
  BY <1>4 DEF Handler, ClearanceReviews
<1>5. CASE r.command = "approved"
  <2>1. Approve(r.link, r.version)
    BY <1>5 DEF Handler, ClearanceReviews
  <2>2. r.version \in Versions
    BY <1>1, <1>2, <1>3, <2>1 DEF Approve, Reviewable, VersionsBelowBound, InBounds, Versions
  <2> QED BY <1>2, <2>1, <2>2 DEF Next, Supervisor
<1>6. CASE r.command = "rejected"
  <2>1. Reject(r.link, r.version)
    BY <1>6 DEF Handler, ClearanceReviews
  <2>2. r.version \in Versions
    BY <1>1, <1>2, <1>3, <2>1 DEF Reject, Reviewable, VersionsBelowBound, InBounds, Versions
  <2> QED BY <1>2, <2>1, <2>2 DEF Next, Supervisor
<1>7. CASE r.command = "override"
  <2>1. Override(r.link, r.choice, r.version) /\ r.choice \in Overrides
    BY <1>7 DEF Handler, Asked, ClearanceReviews
  <2>2. r.version \in Versions
    BY <1>2, <1>3, <2>1 DEF Override, Overridable, VersionsBelowBound, InBounds, Versions
  <2> QED BY <1>2, <2>1, <2>2 DEF Next, Supervisor
<1>8. CASE r.command = "terminate"
  <2>1. Terminate(r.link, r.version)
    BY <1>8 DEF Handler, ClearanceReviews
  <2>2. r.version \in Versions
    BY <1>2, <1>3, <2>1 DEF Terminate, Terminable, VersionsBelowBound, InBounds, Versions
  <2> QED BY <1>2, <2>1, <2>2 DEF Next, Supervisor
<1>9. CASE r.command \in ClearanceReviews
  <2>1. ReviewClearance(r.command, r.version) /\ r.command \in {"confirmed", "returned"}
    BY <1>9 DEF Handler, ClearanceReviews
  <2>2. r.version \in 1 .. MaxCompletions
    <3>1. r.version = Len(completions) /\ completions # <<>>
      BY <2>1 DEF ReviewClearance, AwaitsConfirmation
    <3>2. Len(completions) \in Nat \ {0} /\ Len(completions) <= MaxCompletions
      BY <3>1, EmptySeq, LenProperties DEF TypeOK, InBounds
    <3> QED BY <1>3, <3>1, <3>2
  <2> QED BY <2>1, <2>2 DEF Next, Supervisor
<1>10. CASE r.command \in OperatorCommands \ {"send_oa"}
  <2>1. \/ ExecuteBusiness(r.version) \/ ExecuteInventory(r.version)
        \/ RecordResult(r.version) \/ SubmitClearance(r.version)
    BY <1>10 DEF Handler, OperatorCommands, ClearanceReviews
  <2>2. r.version \in Versions
    BY <1>2, <1>3, <2>1
    DEF ExecuteBusiness, BusinessExecutable, ExecuteInventory, InventoryExecutable,
        RecordResult, Recordable, SubmitClearance, Submittable, VersionsBelowBound,
        InBounds, Versions
  <2> QED BY <2>1, <2>2 DEF Next, Operator
<1> QED
  BY <1>1, <1>4, <1>5, <1>6, <1>7, <1>8, <1>9, <1>10
  DEF Commands, ReviewCommands, LifecycleCommands

\* A step of a page is a step of the task, or none.
LEMMA PagesStepIsTaskStep ==
    TypeOK /\ PagesInv /\ InBounds /\ [PagesNext]_allVars => [Next]_vars
<1> SUFFICES ASSUME TypeOK, PagesInv, InBounds, [PagesNext]_allVars PROVE [Next]_vars
  OBVIOUS
<1>1. CASE UNCHANGED allVars
  BY <1>1 DEF allVars
<1>2. CASE Others
  BY <1>2 DEF Others, Next
<1>3. ASSUME NEW t \in Tabs, Commit(t)
      PROVE  [Next]_vars
  <2>1. Asked(sent[t]) /\ Handler(user[t], sent[t])
    BY <1>3 DEF Commit, PagesInv, TabInv, Fits
  <2> QED BY <2>1, HandlerIsCommand
<1>4. ASSUME NEW t \in Tabs, Moves(t)
      PROVE  UNCHANGED vars
  BY <1>4, MovesLeave
<1> QED BY <1>1, <1>2, <1>3, <1>4 DEF PagesNext, Moves

\* Every step of the task keeps the bounds.
LEMMA InBoundsNext == TypeOK /\ InBounds /\ [Next]_vars => InBounds'
<1> SUFFICES ASSUME TypeOK, InBounds, [Next]_vars PROVE InBounds'
  OBVIOUS
<1>1. CASE UNCHANGED vars
  BY <1>1 DEF InBounds, vars, Exists
<1>2. CASE Supervisor \/ Operator
  <2>1. \E l, o, d, v : Command(l, o, d, v)
    BY <1>2 DEF Supervisor, Operator, Command
  <2> QED BY <2>1, CommandInBounds
<1> QED BY <1>1, <1>2, WorkerInBounds DEF Next

\* Whatever the pages read, keep and send, and however late it arrives, the task
\* takes no step that Spec does not allow: everything proved of the task alone
\* holds of it among the pages.
THEOREM PagesImplementTask == PagesSpec => Spec
<1>1. PagesInit => Init /\ InBounds
  BY EmptySeq, BoundsAssumption DEF PagesInit, Init, InBounds, Exists
<1>2. TypeOK /\ PagesInv /\ InBounds /\ [PagesNext]_allVars => InBounds' /\ [Next]_vars
  BY PagesStepIsTaskStep, InBoundsNext
<1> QED BY <1>1, <1>2, Invariant, PTL DEF PagesSpec, Spec

\* Among the pages too, the task keeps every safety invariant of its own.
THEOREM TaskSafeAmongPages == PagesSpec => []IInv
  BY PagesImplementTask, InvariantHolds, PTL

\* Among the pages too, work is done once for each authorisation, weeks chain back,
\* completions take turns, decisions are final, and no change of the task's row goes
\* unnoticed by who holds its versions.
THEOREM TaskPromisesAmongPages ==
    PagesSpec => /\ TracksImplemented /\ DecisionsAreFinal /\ VersionsFenceChanges
                 /\ []WeeksChain /\ []CompletionsInTurn
  BY PagesImplementTask, TracksAreImplemented, DecisionsAreFinalHolds,
     VersionsFenceChangesHolds, WeeksChainHolds, CompletionsInTurnHolds

-----------------------------------------------------------------------------
(* What is offered is accepted.                                            *)

\* What the page knows of a link it is up to date with.
LEMMA UpToDateShows ==
    ASSUME TypeOK, PagesInv, NEW t \in Tabs, UpToDate(t)
    PROVE  LET d == shown[t] IN
           /\ d.link \in DOMAIN links /\ url[t] \in DOMAIN links /\ Exists
           /\ d.review = links[d.link].review
           /\ d.version = links[d.link].reviewVersion
           /\ d.business = task.business /\ d.inventory = task.inventory
           /\ d.bstate = task.bstate /\ d.bversion = task.bversion
           /\ d.istate = task.istate /\ d.iversion = task.iversion
           /\ d.completion = Len(completions)
           /\ d.completed = LastCompletion
           /\ MaySee(user[t], d.link) /\ MaySee(user[t], url[t]) /\ user[t] \in Users
<1>1. TabInv(t) /\ shown[t] # NoDetail /\ user[t] \in Users
  BY DEF PagesInv, Shape, UpToDate
<1>2. /\ shown[t].link \in DOMAIN links /\ url[t] \in DOMAIN links
      /\ MaySee(user[t], shown[t].link) /\ MaySee(user[t], url[t])
  BY <1>1 DEF TabInv, Fits, Shows, Held
<1>3. Exists
  BY <1>2, EmptySeq DEF Exists
<1>4. PICK l \in DOMAIN links : l = shown[t].link
  BY <1>2
<1>5. shown[t] = Detail(l)
  BY <1>4 DEF UpToDate
<1> QED BY <1>1, <1>2, <1>3, <1>4, <1>5 DEF Detail, EffectiveAction

\* What the operator's panel looks at before it offers a command.
LEMMA PanelOffers ==
    ASSUME NEW d, NEW c \in OperationsPanel(d)
    PROVE  /\ c \in OperatorCommands
           /\ c = "execute_business" => d.bstate = "pending_execution"
           /\ c \in {"execute_inventory", "send_oa"} =>
                d.inventory # None /\ d.istate = "pending_execution"
           /\ c = "record_result" => d.bstate \in {"executed", "result_recorded"}
           /\ c = "submit_clearance" => CanSubmitClearance(d)
  BY DEF OperationsPanel, OperatorCommands

\* The link's review and the task's states decide what the server accepts: the page
\* sees the first and shows the second, and ReviewGatesWork makes up for the task's
\* review, which it does not see.
LEMMA OfferedHolds ==
    ASSUME TypeOK, PagesInv, ReviewGatesWork, NEW t \in Tabs, UpToDate(t),
           NEW c \in Offered(t) \ LifecycleCommands,
           c \in ReviewCommands => shown[t].link = url[t],
           c \in {"execute_business", "execute_inventory", "send_oa"} =>
               task.review # "rejected",
           c \in OperatorCommands => owner[shown[t].link] = Responsible
    PROVE  Accepts(user[t], [command |-> c, link |-> LinkFor(t, c),
                    version |-> VersionFor(c, shown[t])])
<1> DEFINE r == [command |-> c, link |-> LinkFor(t, c), version |-> VersionFor(c, shown[t])]
<1>1. r.command = c /\ r.link = LinkFor(t, c) /\ r.version = VersionFor(c, shown[t])
  OBVIOUS
<1> HIDE DEF r
<1> SUFFICES Accepts(user[t], r)
  BY DEF r
<1>2. Exists /\ task.review \in ReviewStatus
  BY UpToDateShows, TaskRowFields DEF TypeOK
<1>3. \/ c = "retry_ai"
      \/ c \in ReviewForm(shown[t])
      \/ c \in SupervisorLifecyclePanel(shown[t]) \ LifecycleCommands
      \/ c \in OperationsPanel(shown[t])
  BY DEF Offered
<1> DEFINE d == shown[t]
<1>8. /\ url[t] \in DOMAIN links /\ d.link \in DOMAIN links
      /\ d.review = links[d.link].review /\ d.version = links[d.link].reviewVersion
      /\ d.business = task.business /\ d.inventory = task.inventory
      /\ d.bstate = task.bstate /\ d.bversion = task.bversion
      /\ d.istate = task.istate /\ d.iversion = task.iversion
      /\ d.completion = Len(completions)
      /\ d.completed = LastCompletion
  BY UpToDateShows
<1>10. /\ user[t] = Chief => c \notin OperatorCommands
       /\ user[t] # Chief => c \in OperatorCommands \cup {"retry_ai"}
  BY <1>3
  DEF Offered, ReviewForm, SupervisorLifecyclePanel, OperationsPanel, OperatorCommands,
      ReviewCommands, LifecycleCommands, ClearanceReviews
<1>11. MayCommand(user[t], r)
  <2>1. MaySee(user[t], d.link) /\ MaySee(user[t], url[t])
    BY UpToDateShows DEF d
  <2>2. CASE c \in OperatorCommands
    <3>1. user[t] = owner[d.link] /\ owner[d.link] = Responsible
      BY <1>10, <2>1, <2>2 DEF MaySee
    <3> QED BY <1>1, <2>2, <3>1 DEF MayCommand, OperatorCommands
  <2>3. CASE c = "retry_ai"
    BY <1>1, <2>1, <2>3 DEF MayCommand, LinkFor, LifecycleCommands, OperatorCommands
  <2>4. CASE c \notin OperatorCommands \cup {"retry_ai"}
    BY <1>1, <1>10, <2>4 DEF MayCommand
  <2> QED BY <2>2, <2>3, <2>4
<1>9. r.version = VersionFor(c, d)
  BY <1>1
<1> HIDE DEF d
<1>4. CASE c = "retry_ai"
  BY <1>1, <1>4, <1>8, <1>11
  DEF Accepts, LinkFor, ReviewCommands, ClearanceReviews, LifecycleCommands
<1>5. CASE c \in ReviewForm(d)
  <2>1. c \in ReviewCommands /\ d.review = "pending"
    BY <1>5 DEF ReviewForm
  <2>2. Reviewable(r.link, r.version)
    BY <1>1, <1>9, <2>1, <1>8
    DEF d, Reviewable, LinkFor, VersionFor, ReviewCommands, ClearanceReviews, LifecycleCommands
  <2> QED BY <1>1, <1>11, <2>1, <2>2 DEF Accepts, ReviewCommands, ClearanceReviews
<1>6. CASE c \in SupervisorLifecyclePanel(d) \ LifecycleCommands
  <2>1. c \in ClearanceReviews /\ d.completed = "pending_confirmation"
    BY <1>6 DEF SupervisorLifecyclePanel, LifecycleCommands, ClearanceReviews
  <2>2. r.version = Len(completions)
    BY <1>9, <2>1, <1>8 DEF VersionFor, ClearanceReviews
  <2>3. AwaitsConfirmation(r.version)
    BY <1>2, <2>1, <2>2, <1>8 DEF AwaitsConfirmation, LastCompletion, None
  <2> QED BY <1>1, <1>11, <2>1, <2>3 DEF Accepts, ClearanceReviews, ReviewCommands
<1>7. CASE c \in OperationsPanel(d)
  <2>1. CASE c = "execute_business"
    <3>1. BusinessExecutable(r.version)
      BY <1>2, <1>9, <1>7, <2>1, <1>8, PanelOffers
      DEF BusinessExecutable, VersionFor, ClearanceReviews, ReviewGatesWork, ReviewStatus
    <3> QED BY <1>1, <1>11, <2>1, <3>1 DEF Accepts, ClearanceReviews, ReviewCommands
  <2>2. CASE c \in {"execute_inventory", "send_oa"}
    <3>1. Coordinated
      BY <1>2, <1>7, <2>2, <1>8, PanelOffers
      DEF Coordinated, ReviewGatesWork, ReviewStatus
    <3>2. c = "execute_inventory" => r.version = task.iversion
      BY <1>9, <1>8, <2>2 DEF VersionFor, ClearanceReviews
    <3> QED
      BY <1>1, <1>11, <2>2, <3>1, <3>2
      DEF Accepts, Coordinated, InventoryExecutable, ClearanceReviews, ReviewCommands
  <2>3. CASE c = "record_result"
    <3>1. Recordable(r.version)
      BY <1>2, <1>9, <1>7, <2>3, <1>8, PanelOffers DEF Recordable, VersionFor, ClearanceReviews
    <3> QED BY <1>1, <1>11, <2>3, <3>1 DEF Accepts, ClearanceReviews, ReviewCommands
  <2>4. CASE c = "submit_clearance"
    <3>1. CanSubmitClearance(d)
      BY <1>7, <2>4, PanelOffers
    <3>2. MaySubmit
      <4>1. ASSUME completions # <<>>
            PROVE  completions[Len(completions)] = "returned"
        <5>1. completions[Len(completions)] \in CompletionStatus
          BY <4>1 DEF TypeOK
        <5> QED
          BY <3>1, <4>1, <5>1, <1>8 DEF CanSubmitClearance, LastCompletion, CompletionStatus, None
      <4> QED BY <4>1 DEF MaySubmit
    <3>3. Submittable(r.version)
      BY <1>9, <1>2, <2>4, <3>1, <3>2, <1>8
      DEF CanSubmitClearance, Submittable, VersionFor, ClearanceReviews
    <3> QED BY <1>1, <1>11, <2>4, <3>3 DEF Accepts, ClearanceReviews, ReviewCommands
  <2> QED BY <1>7, <2>1, <2>2, <2>3, <2>4, PanelOffers DEF OperatorCommands
<1> QED BY <1>3, <1>4, <1>5, <1>6, <1>7 DEF d

\* What an up-to-date page offers the server also accepts, though the page decides by
\* the link's review and the server by the task's and by the rows it locks.
THEOREM OfferedIsAcceptedHolds == PagesSpec => []OfferedIsAccepted
<1>1. TypeOK /\ PagesInv /\ ReviewGatesWork => OfferedIsAccepted
  BY OfferedHolds DEF OfferedIsAccepted
<1>2. IInv => ReviewGatesWork
  BY DEF IInv, RowInv
<1> QED BY <1>1, <1>2, Invariant, TaskSafeAmongPages, PTL

\* The server does nothing it would not accept: a handler's effect on the task comes
\* with the guards by which OfferedIsAccepted and AcceptedAsShown speak of it.
LEMMA HandledIsAccepted ==
    ASSUME NEW u, NEW r, Asked(r), Handler(u, r)
    PROVE  Accepts(u, r)
<1>1. r.command \in Commands
  BY DEF Asked, Requests
<1> QED
  BY <1>1
  DEF Handler, Accepts, Commands, ReviewCommands, LifecycleCommands, ClearanceReviews,
      OperatorCommands, Approve, Reject, Override, Terminate, ReviewClearance,
      ExecuteBusiness, ExecuteInventory, RecordResult, SubmitClearance
=============================================================================
