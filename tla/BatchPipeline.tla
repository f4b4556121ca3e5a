----------------------------- MODULE BatchPipeline -----------------------------
(***************************************************************************)
(* From an uploaded file to its action list: the import_batch and job rows,  *)
(* the workers that claim jobs under a lease, and the one transaction that   *)
(* writes the list of a batch and takes the task rows of its SPUs.  Sources: *)
(* internal/batch/service.go (Create), internal/batch/processor.go.          *)
(*                                                                         *)
(* A worker reads and parses outside any transaction, then runs one           *)
(* transaction statement by statement, holding what it inserted or locked    *)
(* until it ends.  Claim, Create and markFailed are short transactions and    *)
(* are one action each.  What the weekly link does to a task is in           *)
(* ActionTask; here a task is only a row that exists or not.                 *)
(***************************************************************************)
EXTENDS Integers, Sequences, FiniteSets

CONSTANTS
    Workers,     \* worker processes
    Batches,     \* batch fingerprints that users upload
    Spus,        \* SPU ids
    Rows,        \* Rows[b]: the task-creating SPUs of the file of b, in file order
    Readable,    \* batches whose file can be parsed
    Steady,      \* batches imported within their lease, whose commits are answered
    Faults,      \* the kinds of fault that may happen
    MaxFaults    \* bound: faults in a run

FaultKinds == {"crash", "error", "lost_ack"}
None == "none"

ASSUME RowsAssumption ==
    /\ Rows \in [Batches -> Seq(Spus)]
    /\ \A b \in Batches : \A i, j \in DOMAIN Rows[b] :
          Rows[b][i] = Rows[b][j] => i = j
ASSUME ReadableAssumption == Readable \subseteq Batches /\ Steady \subseteq Batches
ASSUME FaultsAssumption == Faults \subseteq FaultKinds /\ MaxFaults \in Nat
ASSUME NamesAssumption == None \notin Batches

VARIABLES
    batch,    \* import_batch.status by fingerprint, "absent" before the upload
    job,      \* job.status of the batch's job
    leased,   \* batches whose job has a lease that has not run out
    queue,    \* jobs in the order of created_at
    lists,    \* committed action_list rows of a batch
    tasks,    \* committed spu_action_task rows of an SPU
    pc,       \* where each worker is
    cur,      \* the batch a worker works on
    row,      \* the row its transaction is at
    fresh,    \* the task rows its transaction inserted
    faults    \* faults so far

database == <<batch, job, leased, queue, lists, tasks>>
vars == <<database, pc, cur, row, fresh, faults>>

BatchStatus == {"absent", "received", "validating", "ready", "failed"}
JobStatus == {"absent", "pending", "processing", "completed", "failed"}
Places == {"idle", "parsing", "listing", "looking", "inserting", "failing"}
Writing == {"listing", "looking", "inserting"}

Init ==
    /\ batch = [b \in Batches |-> "absent"]
    /\ job = [b \in Batches |-> "absent"]
    /\ leased = {}
    /\ queue = <<>>
    /\ lists = [b \in Batches |-> 0]
    /\ tasks = [s \in Spus |-> 0]
    /\ pc = [w \in Workers |-> "idle"]
    /\ cur = [w \in Workers |-> None]
    /\ row = [w \in Workers |-> 0]
    /\ fresh = [w \in Workers |-> {}]
    /\ faults = 0

-----------------------------------------------------------------------------
(* Helpers.                                                                *)

File(w) == Rows[cur[w]]
AtEnd(w) == pc[w] = "looking" /\ row[w] = Len(File(w)) + 1
AtRow(w) == pc[w] \in {"looking", "inserting"} /\ row[w] \in DOMAIN File(w)
Spu(w) == File(w)[row[w]]

\* What the open transaction of v keeps others from writing.
HoldsList(v, b) == pc[v] \in {"looking", "inserting"} /\ cur[v] = b
HoldsTask(v, s) ==
    /\ pc[v] \in {"looking", "inserting"}
    /\ \E i \in DOMAIN File(v) : i < row[v] /\ File(v)[i] = s

\* The next statement of w waits until the transaction of v ends.
WaitsFor(w, v) ==
    /\ v # w
    /\ \/ pc[w] = "listing" /\ lists[cur[w]] = 0 /\ HoldsList(v, cur[w])
       \/ /\ AtRow(w) /\ HoldsTask(v, Spu(w))
          /\ pc[w] = "looking" <=> tasks[Spu(w)] > 0
Waits(w) == \E v \in Workers : WaitsFor(w, v)

\* w is one of transactions that wait for each other in a circle.
Circle(w) ==
    \E C \in SUBSET Workers :
        /\ w \in C
        /\ \A u \in C : (\E v \in C : WaitsFor(u, v)) /\ \E v \in C : WaitsFor(v, u)

Leave(w) ==
    /\ pc' = [pc EXCEPT ![w] = "idle"]
    /\ cur' = [cur EXCEPT ![w] = None]
    /\ row' = [row EXCEPT ![w] = 0]
    /\ fresh' = [fresh EXCEPT ![w] = {}]

\* process returns an error: its transaction, if any, is rolled back.
RollBack(w) ==
    /\ pc' = [pc EXCEPT ![w] = "failing"]
    /\ row' = [row EXCEPT ![w] = 0]
    /\ fresh' = [fresh EXCEPT ![w] = {}]
    /\ UNCHANGED cur

NextRow(w, place) ==
    /\ pc' = [pc EXCEPT ![w] = place]
    /\ row' = [row EXCEPT ![w] = @ + 1]
    /\ UNCHANGED cur

Fault(kind) ==
    /\ kind \in Faults /\ faults < MaxFaults
    /\ faults' = faults + 1

-----------------------------------------------------------------------------
(* The API.  An upload whose fingerprint is known returns the batch there is. *)

Create(b) ==
    /\ batch[b] = "absent"
    /\ batch' = [batch EXCEPT ![b] = "received"]
    /\ job' = [job EXCEPT ![b] = "pending"]
    /\ queue' = Append(queue, b)
    /\ UNCHANGED <<leased, lists, tasks, pc, cur, row, fresh, faults>>

-----------------------------------------------------------------------------
(* The worker.                                                             *)

\* Variants of Claimable: the job's status is not read; leases never run out.
ClaimableUnleased(b) == job[b] = "pending" \/ b \notin leased
ClaimablePending(b) == job[b] = "pending"

Claimable(b) == job[b] = "pending" \/ (job[b] = "processing" /\ b \notin leased)

\* ORDER BY created_at LIMIT 1
Claim(w) ==
    /\ pc[w] = "idle"
    /\ \E i \in DOMAIN queue :
         LET b == queue[i] IN
         /\ Claimable(b) /\ \A j \in 1 .. i - 1 : ~Claimable(queue[j])
         /\ job' = [job EXCEPT ![b] = "processing"]
         /\ leased' = leased \cup {b}
         /\ batch' = [batch EXCEPT ![b] = IF @ = "received" THEN "validating" ELSE @]
         /\ cur' = [cur EXCEPT ![w] = b]
    /\ pc' = [pc EXCEPT ![w] = "parsing"]
    /\ UNCHANGED <<queue, lists, tasks, row, fresh, faults>>

\* The file is read and parsed; then the transaction begins.
Parse(w) ==
    /\ pc[w] = "parsing"
    /\ \/ cur[w] \in Readable
          /\ pc' = [pc EXCEPT ![w] = "listing"]
          /\ UNCHANGED <<cur, row, fresh>>
       \/ cur[w] \notin Readable /\ RollBack(w)
    /\ UNCHANGED <<database, faults>>

\* Variant of InsertList: without UNIQUE (batch_id).
InsertListAgain(w) ==
    /\ pc[w] = "listing"
    /\ NextRow(w, "looking") /\ UNCHANGED fresh
    /\ UNCHANGED <<database, faults>>

\* INSERT INTO action_list: waits for another insert of the key, fails on a
\* committed one.
InsertList(w) ==
    /\ pc[w] = "listing" /\ ~Waits(w)
    /\ \/ lists[cur[w]] = 0 /\ NextRow(w, "looking") /\ UNCHANGED fresh
       \/ lists[cur[w]] > 0 /\ RollBack(w)
    /\ UNCHANGED <<database, faults>>

\* SELECT ... FOR UPDATE of the task of the row's SPU: locks it, or finds none.
LookUp(w) ==
    /\ pc[w] = "looking" /\ AtRow(w) /\ ~Waits(w)
    /\ \/ tasks[Spu(w)] > 0 /\ NextRow(w, "looking") /\ UNCHANGED fresh
       \/ /\ tasks[Spu(w)] = 0
          /\ pc' = [pc EXCEPT ![w] = "inserting"] /\ UNCHANGED <<cur, row, fresh>>
    /\ UNCHANGED <<database, faults>>

\* INSERT INTO spu_action_task, which another worker may have done meanwhile.
InsertTask(w) ==
    /\ pc[w] = "inserting" /\ ~Waits(w)
    /\ \/ /\ tasks[Spu(w)] = 0
          /\ NextRow(w, "looking") /\ fresh' = [fresh EXCEPT ![w] = @ \cup {Spu(w)}]
       \/ tasks[Spu(w)] > 0 /\ RollBack(w)
    /\ UNCHANGED <<database, faults>>

\* Variant of Publish: the job is given the status of the batch.
PublishSwapped(w) ==
    /\ batch' = [batch EXCEPT ![cur[w]] = "ready"]
    /\ job' = [job EXCEPT ![cur[w]] = "ready"]
    /\ leased' = leased \ {cur[w]}
    /\ lists' = [lists EXCEPT ![cur[w]] = @ + 1]
    /\ tasks' = [s \in Spus |-> tasks[s] + IF s \in fresh[w] THEN 1 ELSE 0]
    /\ UNCHANGED queue

Publish(w) ==
    /\ batch' = [batch EXCEPT ![cur[w]] = "ready"]
    /\ job' = [job EXCEPT ![cur[w]] = "completed"]
    /\ leased' = leased \ {cur[w]}
    /\ lists' = [lists EXCEPT ![cur[w]] = @ + 1]
    /\ tasks' = [s \in Spus |-> tasks[s] + IF s \in fresh[w] THEN 1 ELSE 0]
    /\ UNCHANGED queue

\* Variant of Commit: the last row is left out.
CommitEarly(w) ==
    /\ pc[w] = "looking" /\ row[w] = Len(File(w))
    /\ Publish(w) /\ Leave(w) /\ UNCHANGED faults

Commit(w) == AtEnd(w) /\ Publish(w) /\ Leave(w) /\ UNCHANGED faults

\* PostgreSQL ends one transaction of a circle of waiting ones.
DeadlockVictim(w) ==
    /\ Circle(w)
    /\ RollBack(w)
    /\ UNCHANGED <<database, faults>>

\* Variant of MarkFailed: the job is left as it is.
MarkBatchFailed(w) ==
    /\ pc[w] = "failing"
    /\ batch' = [batch EXCEPT ![cur[w]] = "failed"]
    /\ Leave(w)
    /\ UNCHANGED <<job, leased, queue, lists, tasks, faults>>

MarkFailed(w) ==
    /\ pc[w] = "failing"
    /\ batch' = [batch EXCEPT ![cur[w]] = "failed"]
    /\ job' = [job EXCEPT ![cur[w]] = "failed"]
    /\ leased' = leased \ {cur[w]}
    /\ Leave(w)
    /\ UNCHANGED <<queue, lists, tasks, faults>>

-----------------------------------------------------------------------------
(* What goes wrong.                                                        *)

\* The worker stops, or is told to, or cannot mark the failure; a restarted
\* worker knows nothing and the job stays as it is until its lease runs out.
Crash(w) ==
    /\ pc[w] # "idle" /\ Fault("crash")
    /\ Leave(w)
    /\ UNCHANGED database

\* A statement fails, the file cannot be opened.
Error(w) ==
    /\ pc[w] \in {"parsing"} \cup Writing /\ Fault("error")
    /\ RollBack(w)
    /\ UNCHANGED database

\* The commit is done but its answer is lost: process returns an error.
CommitUnacknowledged(w) ==
    /\ AtEnd(w) /\ cur[w] \notin Steady /\ Fault("lost_ack")
    /\ Publish(w) /\ RollBack(w)

\* Nothing renews a lease, so it may run out under a worker that is only slow.
Expire(b) ==
    /\ b \in leased
    /\ b \in Steady => \A w \in Workers : cur[w] # b
    /\ leased' = leased \ {b}
    /\ UNCHANGED <<batch, job, queue, lists, tasks, pc, cur, row, fresh, faults>>

WorkerStep(w) ==
    \/ Claim(w) \/ Parse(w) \/ InsertList(w) \/ LookUp(w) \/ InsertTask(w)
    \/ Commit(w) \/ DeadlockVictim(w) \/ MarkFailed(w)

Next ==
    \/ \E b \in Batches : Create(b) \/ Expire(b)
    \/ \E w \in Workers :
         WorkerStep(w) \/ Crash(w) \/ Error(w) \/ CommitUnacknowledged(w)

Spec == Init /\ [][Next]_vars

\* The worker's loop never ends and time passes; nobody has to upload anything
\* and nothing has to go wrong.
FairSpec ==
    /\ Spec
    /\ \A w \in Workers : WF_vars(WorkerStep(w))
    /\ \A b \in Batches : WF_vars(Expire(b))

-----------------------------------------------------------------------------
(* Properties.                                                             *)

TypeOK ==
    /\ batch \in [Batches -> BatchStatus]
    /\ job \in [Batches -> JobStatus]
    /\ leased \subseteq Batches
    /\ queue \in Seq(Batches)
    /\ lists \in [Batches -> Nat]
    /\ tasks \in [Spus -> Nat]
    /\ pc \in [Workers -> Places]
    /\ cur \in [Workers -> Batches \cup {None}]
    /\ row \in [Workers -> Nat]
    /\ fresh \in [Workers -> SUBSET Spus]
    /\ faults \in 0 .. MaxFaults

\* However many workers end up with the same batch, after expired leases and
\* crashes, its list is written once and each SPU gets one stable task.
WrittenOnce ==
    /\ \A b \in Batches : lists[b] <= 1
    /\ \A s \in Spus : tasks[s] <= 1

\* A batch shown as ready has its list and a task for every SPU of its file: an
\* unfinished import is never shown as a success, whoever publishes it.
ReadyIsComplete ==
    \A b \in Batches : batch[b] = "ready" =>
        /\ lists[b] = 1
        /\ \A i \in DOMAIN Rows[b] : tasks[Rows[b][i]] = 1

\* The batch the users see and the job the workers see tell the same story, also
\* after a worker that lost its lease publishes or fails the batch.
JobAgreesWithBatch ==
    \A b \in Batches :
        /\ job[b] = "pending" <=> batch[b] = "received"
        /\ job[b] = "processing" <=> batch[b] = "validating"
        /\ job[b] = "completed" <=> batch[b] = "ready"
        /\ job[b] = "failed" <=> batch[b] = "failed"

\* A batch shown as failed has no list; what its file says is in no task.
FailedHasNoList ==
    \A b \in Batches : batch[b] = "failed" => lists[b] = 0

\* What a batch that kept its lease turned out to be never changes, whatever
\* crashes, and whatever slower workers do to other batches with the same SPUs:
\* a list is not published twice, nor published after its users saw it fail.
OutcomeIsFinal ==
    [][\A b \in Steady :
          batch[b] \in {"ready", "failed"} => batch'[b] = batch[b]]_vars

-----------------------------------------------------------------------------
(* The imports implement AtomicImport.                                      *)

Stage(status) ==
    CASE status = "absent" -> "absent"
      [] status \in {"received", "validating"} -> "open"
      [] status = "ready" -> "published"
      [] status = "failed" -> "failed"

Imports == INSTANCE AtomicImport
    WITH Files <- Batches, Exclusive <- Steady, stage <- [b \in Batches |-> Stage(batch[b])],
         Content <- [b \in Batches |-> {Rows[b][i] : i \in DOMAIN Rows[b]}]

\* However many workers import however many files with the same SPUs, row by row,
\* waiting for each other's locks, rolled back, killed and started again: whoever
\* looks sees each file published as a whole or failed, in one step, and a file that
\* kept its lease only once.
ImportsAreAtomic == Imports!Spec

\* Every uploaded batch is decided for good, after crashes, expired leases and
\* database deadlocks: no job is stuck behind a lease or another job.
EveryBatchSettles ==
    \A b \in Batches :
        batch[b] = "received" ~> [](batch[b] \in {"ready", "failed"})

=============================================================================
