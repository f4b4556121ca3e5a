--------------------------- MODULE PrototypeBatches ---------------------------
(***************************************************************************)
(* The imports of the Python prototype: create_batch, the worker's jobs, and  *)
(* one tab of the browser that uploads a file and follows its batch.          *)
(* Sources: the prototype's backend/app/api.py, worker.py and                 *)
(* services/imports.py, and its frontend/src/pages: BatchImportPage,           *)
(* BatchDetailPage, BatchListPage, WorkspacePage and ActionListPage.           *)
(*                                                                         *)
(* A file stands for the fingerprint of its content and its form, so a file   *)
(* has one batch at most.  Only the number of rows of a list is kept, and a    *)
(* filter is one that the server applies.  What a page showed before it was    *)
(* left is no different from what a page left open shows, so leaving a page    *)
(* forgets it.  Retries fall due, and leases run out, at any moment.           *)
(***************************************************************************)
EXTENDS Integers, Sequences, FiniteSets

CONSTANTS
    Files,      \* the files that may be uploaded
    Own,        \* those of the user of the tab
    Filters,    \* the statuses the batches are filtered by
    Workers,    \* the worker processes
    Rows,       \* the numbers of rows a file may turn out to have
    MaxAttempts,    \* attempts of a job, 3 in the code
    PageSize,   \* rows of a page of a list, 20 in the code
    Sizes       \* what a page of the action list may be set to, 20, 50 and 100

None == "none"

ASSUME OwnAssumption == Own \subseteq Files
ASSUME AttemptsAssumption == MaxAttempts \in Nat \ {0}
ASSUME RowsAssumption == Rows \subseteq Nat
ASSUME PageSizeAssumption == PageSize \in Nat \ {0} /\ Sizes \subseteq Nat \ {0}

VARIABLES
    order,    \* the batches, oldest first
    batch,    \* status and rows of each, and whether it still names its file
    spool,    \* the source files on disk
    job,      \* the import job of each batch
    work,     \* what each worker is doing
    disowned, \* history: the batches failed by a worker not told that it had published them
    page,     \* the page of the tab
    form,     \* the file chosen on the import page, and whether it is confirmed
    upload,   \* the file of the upload the import page waits for
    pager,    \* filter, page number and page size of a list
    reading,  \* what a read of a batch has seen so far
    view      \* what the page shows

server == <<order, batch, spool, job, work, disowned>>
import == <<form, upload>>
shown == <<pager, reading, view>>
tab == <<page, import, shown>>
vars == <<server, tab>>

BatchStatus == {"received", "validating", "rules_processing", "ready", "failed"}
ASSUME FiltersAssumption == Filters \subseteq BatchStatus

Batches == [status : BatchStatus, rows : Nat, named : BOOLEAN]
NoBatch == [status |-> None, rows |-> 0, named |-> FALSE]

JobStatus == {"queued", "processing", "retry", "done", "failed"}
Jobs == [status : JobStatus, attempts : 0 .. MaxAttempts]
NoJob == [status |-> None, attempts |-> 0]

Steps == {"claimed", "validating", "returning", "caught", "raising", "done", "error"}
Idle == [batch |-> None]

Created == {order[i] : i \in DOMAIN order}

-----------------------------------------------------------------------------
(* create_batch.                                                           *)

\* The batch of a known fingerprint is returned as it is, whatever became of it.
CreateBatch(f) ==
    IF f \in Created THEN UNCHANGED server
    ELSE /\ order' = Append(order, f)
         /\ batch' = [batch EXCEPT ![f] = [status |-> "received", rows |-> 0, named |-> TRUE]]
         /\ spool' = spool \cup {f}
         /\ job' = [job EXCEPT ![f] = [status |-> "queued", attempts |-> 0]]
         /\ UNCHANGED <<work, disowned>>

-----------------------------------------------------------------------------
(* The workers.                                                            *)

At(w, step) == work[w] # Idle /\ work[w].step = step
GoTo(w, step) == work' = [work EXCEPT ![w].step = step]

\* The oldest job that is due.  A job in processing is never claimed again, even
\* when its lease has run out.
Claimable(f) ==
    /\ job[f].status \in {"queued", "retry"}
    /\ \A i, j \in DOMAIN order : i < j /\ order[j] = f => job[order[i]].status # "queued"

Claim(w) ==
    /\ work[w] = Idle
    /\ \E f \in Created :
         /\ Claimable(f)
         /\ job' = [job EXCEPT ![f] = [status |-> "processing", attempts |-> @.attempts + 1]]
         /\ work' = [work EXCEPT ![w] = [batch |-> f, step |-> "claimed"]]
    /\ UNCHANGED <<order, batch, spool, disowned, tab>>

\* A published batch is not imported again.
Settled(f) == batch[f].status = "ready"

\* process_import up to the commit of "validating", which may fail, or take effect
\* and look as if it had failed.
Begin(w) ==
    /\ At(w, "claimed")
    /\ LET f == work[w].batch IN
       \/ /\ Settled(f)
          /\ GoTo(w, "done")
          /\ UNCHANGED batch
       \/ /\ ~Settled(f) /\ batch[f].named
          /\ batch' = [batch EXCEPT ![f].status = "validating"]
          /\ GoTo(w, "validating") \/ GoTo(w, "error")
       \/ /\ ~Settled(f)
          /\ GoTo(w, "error")
          /\ UNCHANGED batch
    /\ UNCHANGED <<order, spool, job, disowned, tab>>

\* Variant of Outcome: a list without a row is published as well.
OutcomeReady(n) == [status |-> "ready", rows |-> n, named |-> FALSE]

\* Without a usable row the batch has failed.
Outcome(n) ==
    [status |-> IF n > 0 THEN "ready" ELSE "failed", rows |-> n, named |-> FALSE]

\* The list, its jobs and the outcome are committed together; the worker may not be
\* told.
Import(w) ==
    /\ At(w, "validating")
    /\ LET f == work[w].batch IN
       /\ f \in spool
       /\ \E n \in Rows : batch' = [batch EXCEPT ![f] = Outcome(n)]
       /\ GoTo(w, "returning") \/ GoTo(w, "caught")
    /\ UNCHANGED <<order, spool, job, disowned, tab>>

\* The file cannot be read, or the transaction fails: everything is rolled back.
ImportFails(w) ==
    /\ At(w, "validating")
    /\ GoTo(w, "caught")
    /\ UNCHANGED <<order, batch, spool, job, disowned, tab>>

\* except: the batch is read again and failed, whatever it says by now, unless the
\* database is gone.
NoteFailure(w) ==
    /\ At(w, "caught")
    /\ LET f == work[w].batch IN
       \/ /\ batch' = [batch EXCEPT ![f].status = "failed"]
          /\ disowned' = IF Settled(f) THEN disowned \cup {f} ELSE disowned
       \/ UNCHANGED <<batch, disowned>>
    /\ GoTo(w, "raising")
    /\ UNCHANGED <<order, spool, job, tab>>

\* Variant of Kept: the file is only removed after a success.
KeptForRetry(f) == IF batch[f].named THEN spool ELSE spool \ {f}

Kept(f) == spool \ {f}

\* finally: the file is removed, whatever came before.
Unlink(w) ==
    /\ At(w, "returning") \/ At(w, "raising")
    /\ spool' = Kept(work[w].batch)
    /\ GoTo(w, IF At(w, "returning") THEN "done" ELSE "error")
    /\ UNCHANGED <<order, batch, job, disowned, tab>>

\* The job is done; should that commit fail, or look as if it had, it is an error
\* like any other.
JobDone(w) ==
    /\ At(w, "done")
    /\ \/ /\ job' = [job EXCEPT ![work[w].batch].status = "done"]
          /\ work' = [work EXCEPT ![w] = Idle] \/ GoTo(w, "error")
       \/ /\ GoTo(w, "error")
          /\ UNCHANGED job
    /\ UNCHANGED <<order, batch, spool, disowned, tab>>

\* Variant of AfterError: one attempt too many.
AfterErrorLate(attempts) == IF attempts <= MaxAttempts THEN "retry" ELSE "failed"

AfterError(attempts) == IF attempts < MaxAttempts THEN "retry" ELSE "failed"

JobError(w) ==
    /\ At(w, "error")
    /\ job' = [job EXCEPT ![work[w].batch].status = AfterError(job[work[w].batch].attempts)]
    /\ work' = [work EXCEPT ![w] = Idle]
    /\ UNCHANGED <<order, batch, spool, disowned, tab>>

\* The process is killed at any step and started again.
Crash(w) ==
    /\ work[w] # Idle
    /\ work' = [work EXCEPT ![w] = Idle]
    /\ UNCHANGED <<order, batch, spool, job, disowned, tab>>

WorkerStep(w) ==
    \/ Claim(w) \/ Begin(w) \/ Import(w) \/ ImportFails(w) \/ NoteFailure(w)
    \/ Unlink(w) \/ JobDone(w) \/ JobError(w)

-----------------------------------------------------------------------------
(* What the pages show.                                                    *)

NoForm == [file |-> None, confirm |-> FALSE]
Forms == [file : Files, confirm : BOOLEAN] \cup {NoForm}
FirstPage == [filter |-> None, number |-> 1, size |-> PageSize]
Pagers ==
    [filter : {None} \cup BatchStatus \cup Files, number : Nat \ {0},
     size : {PageSize} \cup Sizes]
NoRead == [batch |-> None]
NoView == [at |-> None]

BatchPage(f) == [at |-> "batch", batch |-> f]
ListPages == {[at |-> "batches"], [at |-> "actions"]}
Pages == ListPages \cup {[at |-> "workspace"], [at |-> "import"]} \cup {BatchPage(f) : f \in Files}

\* What is kept of what the pages render: of a batch its status, which also says
\* whether the page calls it published and asks again, and the number of its rows.
BatchViews == [at : {"batch"}, status : BatchStatus, rows : Nat]
WorkspaceViews ==
    [at : {"workspace"}, batch : Files \cup {None}, status : BatchStatus \cup {None}]
BatchListViews ==
    [at : {"batches"}, total : Nat, rows : SUBSET [batch : Files, status : BatchStatus]]
ActionListViews == [at : {"actions"}, rows : Nat]
Views == {NoView} \cup BatchViews \cup WorkspaceViews \cup BatchListViews \cup ActionListViews

\* batch_detail reads the batch first, and its rows when it answers.
Seen(f) == [batch |-> f, status |-> batch[f].status, rows |-> batch[f].rows]

\* Variant of BatchDetail: the rows are read first, and the batch at the end.
BatchDetailRowsFirst(r) ==
    [at |-> "batch", status |-> batch[r.batch].status, rows |-> r.rows]

BatchDetail(r) == [at |-> "batch", status |-> r.status, rows |-> batch[r.batch].rows]

\* Variant of Polls: only a batch that has not been started is asked for again.
PollsReceived(status) == status = "received"

Polls(status) == status \in {"received", "validating", "rules_processing"}

\* The newest batch, published or not.
Workspace ==
    IF order = <<>> THEN [at |-> "workspace", batch |-> None, status |-> None]
    ELSE LET newest == order[Len(order)]
         IN [at |-> "workspace", batch |-> newest, status |-> batch[newest].status]

\* What comes after so many others is on the page p.
OnPage(before, p) == before \div p.size = p.number - 1
PageCount(total, size) == (total + size - 1) \div size

\* list_batches, newest first: those of a status or all, by their place in order.
Listed(filter) == {i \in DOMAIN order : filter \in {None, batch[order[i]].status}}
BatchList(p) ==
    LET all == Listed(p.filter)
        some == {i \in all : OnPage(Cardinality({j \in all : j > i}), p)}
    IN [at |-> "batches", total |-> Cardinality(all),
        rows |-> {[batch |-> order[i], status |-> batch[order[i]].status] : i \in some}]

\* list_actions: the rows of every batch, or of one; a page of them comes back.
Actions(filter) ==
    UNION {{f} \X (1 .. batch[f].rows) : f \in {g \in Created : filter \in {None, g}}}
ActionList(p) ==
    [at |-> "actions",
     rows |-> Cardinality({k \in 0 .. Cardinality(Actions(p.filter)) - 1 : OnPage(k, p)})]

\* The pager of the action list is told of the rows so far, and so its last page
\* is always the one it is on.
ActionTotal(p) == IF view.rows > p.number * p.size THEN view.rows ELSE p.number * p.size

-----------------------------------------------------------------------------
(* The tab.                                                                *)

Open(p) ==
    IF p = page THEN UNCHANGED tab
    ELSE /\ page' = p
         /\ form' = NoForm /\ upload' = None
         /\ pager' = FirstPage /\ reading' = NoRead /\ view' = NoView

\* The menu, links and buttons.
Navigate(p) ==
    /\ p # page /\ (p.at = "batch" => p.batch \in Created)
    /\ Open(p)
    /\ UNCHANGED server

ChooseFile(f) ==
    /\ page.at = "import" /\ ~form.confirm
    /\ form' = [file |-> f, confirm |-> FALSE]
    /\ UNCHANGED <<server, page, upload, shown>>

\* The button waits for an upload; the dialog names the file.
Submit ==
    /\ form.file # None /\ ~form.confirm /\ upload = None
    /\ form' = [form EXCEPT !.confirm = TRUE]
    /\ UNCHANGED <<server, page, upload, shown>>

Cancel ==
    /\ form.confirm
    /\ form' = [form EXCEPT !.confirm = FALSE]
    /\ UNCHANGED <<server, page, upload, shown>>

Upload ==
    /\ form.confirm /\ upload = None
    /\ upload' = form.file
    /\ UNCHANGED <<server, page, form, shown>>

\* The tab goes to the batch of the file, new or known.
UploadAnswered == upload # None /\ CreateBatch(upload) /\ Open(BatchPage(upload))

\* Refused, lost, or its answer lost: the error is shown and the dialog stays.
UploadFails ==
    /\ upload # None
    /\ UNCHANGED server \/ CreateBatch(upload)
    /\ upload' = None
    /\ UNCHANGED <<page, form, shown>>

\* An upload goes on when the import page is left, and may be sent again from a new
\* one.  Which ones are under way is not kept: an answer may come at any moment, and
\* takes the tab from whatever page it is on.  One that is lost is like Others.
LateAnswer == \E f \in Own : CreateBatch(f) /\ Open(BatchPage(f))

\* A batch is read when its page opens, on demand, and while it is not finished.
ReadBatch ==
    /\ page.at = "batch" /\ reading = NoRead
    /\ reading' = Seen(page.batch)
    /\ UNCHANGED <<server, page, import, pager, view>>

\* A page that was never answered shows nothing and does not ask again by itself.
Poll == view.at = "batch" /\ Polls(view.status) /\ ReadBatch

ReadAnswered ==
    /\ reading # NoRead
    /\ view' = BatchDetail(reading)
    /\ reading' = NoRead
    /\ UNCHANGED <<server, page, import, pager>>

ReadFails ==
    /\ reading # NoRead
    /\ reading' = NoRead
    /\ UNCHANGED <<server, page, import, pager, view>>

ReadWorkspace ==
    /\ page.at = "workspace"
    /\ view' = Workspace
    /\ UNCHANGED <<server, page, import, pager, reading>>

ReadList ==
    /\ page \in ListPages
    /\ view' = IF page.at = "batches" THEN BatchList(pager) ELSE ActionList(pager)
    /\ UNCHANGED <<server, page, import, pager, reading>>

\* Another status starts at the first page.
FilterBatches(status) ==
    /\ page.at = "batches"
    /\ pager' = [pager EXCEPT !.filter = status, !.number = 1]
    /\ view' = NoView
    /\ UNCHANGED <<server, page, import, reading>>

\* A batch is chosen in two places above the action list, and one of them leaves
\* the page number alone.
FilterActions(f) ==
    /\ page.at = "actions"
    /\ \E n \in {1, pager.number} : pager' = [pager EXCEPT !.filter = f, !.number = n]
    /\ view' = NoView
    /\ UNCHANGED <<server, page, import, reading>>

\* The pager of the batches is part of their table, which an empty page has not.
PagesOffered ==
    CASE view.at = "batches" -> IF view.rows = {} THEN 0 ELSE PageCount(view.total, pager.size)
      [] view.at = "actions" -> PageCount(ActionTotal(pager), pager.size)
      [] OTHER -> 0

TurnTo(n) ==
    /\ n \in 1 .. PagesOffered
    /\ pager' = [pager EXCEPT !.number = n]
    /\ view' = NoView
    /\ UNCHANGED <<server, page, import, reading>>

\* Another size starts at the first page.
ResizeActions(n) ==
    /\ page.at = "actions"
    /\ pager' = [pager EXCEPT !.number = 1, !.size = n]
    /\ view' = NoView
    /\ UNCHANGED <<server, page, import, reading>>

-----------------------------------------------------------------------------

Init ==
    /\ order = <<>> /\ spool = {} /\ disowned = {}
    /\ batch = [f \in Files |-> NoBatch]
    /\ job = [f \in Files |-> NoJob]
    /\ work = [w \in Workers |-> Idle]
    /\ page = [at |-> "workspace"]
    /\ form = NoForm /\ upload = None
    /\ pager = FirstPage /\ reading = NoRead /\ view = NoView

\* Everyone else imports files of their own or the same.
Others == \E f \in Files \ Created : CreateBatch(f) /\ UNCHANGED tab

Next ==
    \/ Others
    \/ \E w \in Workers : WorkerStep(w) \/ Crash(w)
    \/ \E p \in Pages : Navigate(p)
    \/ \E f \in Own : ChooseFile(f)
    \/ Submit \/ Cancel \/ Upload \/ UploadAnswered \/ UploadFails \/ LateAnswer
    \/ ReadBatch \/ ReadAnswered \/ ReadFails
    \/ ReadWorkspace \/ ReadList
    \/ \E s \in {None} \cup Filters : FilterBatches(s)
    \/ \E f \in {None} \cup Created : FilterActions(f)
    \/ \E n \in 1 .. PagesOffered : TurnTo(n)
    \/ \E n \in {PageSize} \cup Sizes : ResizeActions(n)

Spec == Init /\ [][Next]_vars

\* The workers go on, a page asks again every 1.5 seconds as long as the batch it
\* shows is not finished, and not every answer to a page that stays open is lost.
Fairness ==
    /\ \A w \in Workers : WF_vars(WorkerStep(w))
    /\ WF_vars(Poll) /\ SF_vars(ReadAnswered)

FairSpec == Spec /\ Fairness

-----------------------------------------------------------------------------
(* Properties.                                                             *)

\* Rows have their columns' types, no job is tried too often, and a batch, its
\* job and the files on disk come together.
TypeOK ==
    /\ Created \subseteq Files /\ Len(order) = Cardinality(Created)
    /\ \A f \in Files :
         IF f \in Created THEN batch[f] \in Batches /\ job[f] \in Jobs
         ELSE batch[f] = NoBatch /\ job[f] = NoJob
    /\ spool \subseteq Created /\ disowned \subseteq Created
    /\ work \in [Workers -> [batch : Files, step : Steps] \cup {Idle}]
    /\ page \in Pages /\ form \in Forms /\ upload \in Own \cup {None}
    /\ pager \in Pagers
    /\ reading \in [batch : Files, status : BatchStatus, rows : Nat] \cup {NoRead}
    /\ view \in Views

\* The batches somebody was shown, or is about to be shown, as published.
ShownAsReady ==
    {f \in Files :
        \/ page = BatchPage(f) /\ view.at = "batch" /\ view.status = "ready"
        \/ reading # NoRead /\ reading.batch = f /\ reading.status = "ready"
        \/ view.at = "workspace" /\ view.batch = f /\ view.status = "ready"
        \/ view.at = "batches" /\ [batch |-> f, status |-> "ready"] \in view.rows}

\* The list of the batch is there, and unless its commit was not acknowledged the
\* batch says so.
StillPublished(f) ==
    batch[f].rows > 0 /\ (batch[f].status = "ready" \/ f \in disowned)

\* "The list is published only once": what any page ever showed as published is
\* published still, with its rows, though its job may be tried again because the
\* note that it was done got lost.  Only a batch whose commit was not acknowledged
\* may be called failed afterwards; it keeps its rows all the same.
PublishedForGood == \A f \in ShownAsReady : StillPublished(f)

\* A failure is as final, whatever the retries promise: when a batch that failed
\* waits for another attempt its file is gone, so each attempt fails again, and
\* create_batch answers the same file with the failed batch.
RetryHasNothingToRead ==
    \A f \in Files : batch[f].status = "failed" /\ job[f].status = "retry" => f \notin spool

Outcomes == {"ready", "failed"}

\* A page that stopped asking shows all there is: no publication between the
\* queries of one answer leaves it with an outcome and without the rows of it, and
\* none comes later.
FinalPageIsComplete ==
    page.at = "batch" /\ view.at = "batch" /\ view.status \in Outcomes =>
        view.rows = batch[page.batch].rows

\* A batch nobody will finish: its worker was killed, or could not note the failure.
Abandoned(f) ==
    /\ batch[f].status \notin Outcomes
    /\ \/ job[f].status \in {"failed", "done"}
       \/ job[f].status = "processing" /\ \A w \in Workers : work[w].batch # f

\* "This page refreshes by itself": a page of a batch that was once answered shows
\* the outcome in the end, unless it is left or the batch was abandoned.  The outcome
\* is the one the batch has for good, unless the batch is disowned: the page may
\* have stopped asking before that.
PageSettles ==
    view.at = "batch" ~>
        \/ view.at # "batch"
        \/ Abandoned(page.batch)
        \/ /\ view.status \in Outcomes
           /\ view.status = batch[page.batch].status \/ page.batch \in disowned
=============================================================================
