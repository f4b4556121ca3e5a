------------------------ MODULE PrototypeBatchesProofs ------------------------
(***************************************************************************)
(* The safety of PrototypeBatches for every number of files, rows, workers   *)
(* and attempts, and every size of a page.                                 *)
(*                                                                         *)
(* A job is claimed once between two of its waits, so that one worker has a   *)
(* batch at a time (Alone).  An attempt that gets as far as the file removes  *)
(* it, so that a batch is tried again without a file, or unread (Tried).      *)
(* Hence the rows of a batch are final once it has some, or none and failed    *)
(* (Advances), although a commit that is not acknowledged may have the batch   *)
(* called failed after it was published (Published).  So the rows a page shows *)
(* stay true however late the answer is, and each step is one of AtomicImport  *)
(* or is not seen there.                                                     *)
(***************************************************************************)
EXTENDS PrototypeBatches, TLAPS, SequenceTheorems, FiniteSetTheorems

\* The rows, the files and the workers' steps have their types.
Typed ==
    /\ order \in Seq(Files) /\ Len(order) = Cardinality(Created)
    /\ DOMAIN batch = Files /\ DOMAIN job = Files
    /\ \A f \in Files :
         IF f \in Created THEN batch[f] \in Batches /\ job[f] \in Jobs
         ELSE batch[f] = NoBatch /\ job[f] = NoJob
    /\ spool \subseteq Created /\ disowned \subseteq Created
    /\ work \in [Workers -> [batch : Files, step : Steps] \cup {Idle}]

\* A published batch has rows, and one that has rows is published unless disowned.
RowsTold(f) ==
    /\ batch[f].status = "ready" => batch[f].rows > 0
    /\ batch[f].rows > 0 =>
         /\ ~batch[f].named
         /\ batch[f].status = "ready" \/ (batch[f].status = "failed" /\ f \in disowned)

Published == \A f \in Created : RowsTold(f)

Has(w, f) == work[w] # Idle /\ work[w].batch = f

\* The job of a worker is in processing, or done although the worker was not told,
\* and nobody else has it.
Alone ==
    \A w \in Workers : work[w] # Idle =>
        /\ work[w].batch \in Created /\ job[work[w].batch].status \in {"processing", "done"}
        /\ \A v \in Workers \ {w} : ~Has(v, work[w].batch)

\* No attempt has got as far as the file, or the file is gone.
Unread(f) == f \notin spool \/ batch[f].status \in {"received", "validating"}

\* A job that waits has an attempt left.
Waits(f) ==
    job[f].status \in {"queued", "retry"} => Unread(f) /\ job[f].attempts < MaxAttempts

\* What the step of a worker says of its batch.
StepSays(w) ==
    /\ work[w].step \in {"claimed", "error"} => Unread(work[w].batch)
    /\ work[w].step = "validating" => batch[work[w].batch].status = "validating"
    /\ work[w].step = "done" => work[w].batch \notin spool

Tried ==
    /\ \A f \in Created : Waits(f)
    /\ \A w \in Workers : work[w] # Idle => StepSays(w)

ServerInv == Typed /\ Published /\ Alone /\ Tried

\* A batch that will never have a row: it failed, or its file is gone.
Dead(f) ==
    /\ batch[f].rows = 0 /\ batch[f].status \in {"failed", "validating"}
    /\ f \notin spool \/ batch[f].status = "failed"

\* The rows of the batch are all it will ever have.
Final(f) == batch[f].rows > 0 \/ Dead(f)

\* What a step of the server does to batches that are decided.
Advances ==
    /\ Created \subseteq Created'
    /\ \A f \in Created :
         /\ batch[f].rows > 0 => batch'[f].rows = batch[f].rows
         /\ Dead(f) => Dead(f)'

\* The tab has its types, and is on the page of a batch that exists.
TabTyped ==
    /\ page \in Pages /\ (page.at = "batch" => page.batch \in Created)
    /\ form \in [file : Own, confirm : BOOLEAN] \cup {NoForm}
    /\ upload \in Own \cup {None}
    /\ pager \in Pagers
    /\ reading \in [batch : Files, status : BatchStatus, rows : Nat] \cup {NoRead}
    /\ view \in Views

\* The read under way is about the page, and an outcome it saw is final.
ReadTrue ==
    reading # NoRead =>
        /\ page = BatchPage(reading.batch)
        /\ reading.status \in Outcomes => Final(reading.batch)
        /\ reading.status = "ready" => batch[reading.batch].rows > 0

\* So is one that the page shows.
ViewTrue ==
    page.at = "batch" /\ view.at = "batch" /\ view.status \in Outcomes => Final(page.batch)

TabInv == TabTyped /\ ReadTrue /\ ViewTrue /\ PublishedForGood /\ FinalPageIsComplete

IInv == ServerInv /\ TabInv

-----------------------------------------------------------------------------
(* The server.                                                             *)

\* The files are those of the order.
LEMMA CreatedAreFiles == ASSUME order \in Seq(Files) PROVE Created \subseteq Files
  BY DEF Created

\* There are finitely many at a time.
LEMMA CreatedFinite == ASSUME order \in Seq(Files) PROVE IsFiniteSet(Created)
<1>1. IsFiniteSet(1 .. Len(order))
  BY FS_Interval
<1>2. DOMAIN order = 1 .. Len(order)
  OBVIOUS
<1>3. order \in Surjection(DOMAIN order, Created)
  BY DEF Created, Surjection
<1> QED BY <1>1, <1>2, <1>3, FS_Surjection

\* A worker that works has a batch and a step, and idling is neither.
LEMMA WorkerHas ==
    ASSUME ServerInv, NEW w \in Workers, work[w] # Idle
    PROVE  /\ work[w] \in [batch : Files, step : Steps]
           /\ work[w].batch \in Created /\ work[w].batch \in Files
           /\ work[w].step \in Steps
           /\ work[w] = [batch |-> work[w].batch, step |-> work[w].step]
           /\ batch[work[w].batch] \in Batches /\ job[work[w].batch] \in Jobs
           /\ job[work[w].batch].status \in {"processing", "done"}
           /\ \A v \in Workers \ {w} : ~Has(v, work[w].batch)
           /\ StepSays(w)
<1>1. work[w] \in [batch : Files, step : Steps]
  BY DEF ServerInv, Typed
<1>2. /\ work[w].batch \in Created /\ job[work[w].batch].status \in {"processing", "done"}
      /\ \A v \in Workers \ {w} : ~Has(v, work[w].batch)
  BY DEF ServerInv, Alone
<1>3. StepSays(w)
  BY DEF ServerInv, Tried
<1> QED BY <1>1, <1>2, <1>3 DEF ServerInv, Typed

\* Only the rows of batch f and the step of worker w move.
Moves(w, f) ==
    /\ order' = order
    /\ DOMAIN batch' = Files /\ DOMAIN job' = Files
    /\ \A g \in Files \ {f} : batch'[g] = batch[g] /\ job'[g] = job[g]
    /\ spool' \subseteq spool /\ spool \ {f} \subseteq spool'
    /\ disowned \subseteq disowned' /\ disowned' \subseteq disowned \cup {f}
    /\ work' = [work EXCEPT ![w] = work'[w]]

\* What the moved rows have to say for the invariant to go on.
MovesWell(w, f) ==
    /\ batch'[f] \in Batches /\ RowsTold(f)'
    /\ job'[f] \in Jobs /\ Waits(f)'
    /\ \/ work'[w] = Idle
       \/ /\ work'[w] \in [batch : {f}, step : Steps]
          /\ job'[f].status \in {"processing", "done"} /\ StepSays(w)'
    /\ batch[f].rows > 0 => batch'[f].rows = batch[f].rows
    /\ Dead(f) => Dead(f)'

\* One worker moves one batch, which is nobody else's.
LEMMA MoveKeeps ==
    ASSUME ServerInv, NEW w \in Workers, NEW f \in Created,
           \A v \in Workers \ {w} : ~Has(v, f), Moves(w, f), MovesWell(w, f)
    PROVE  ServerInv' /\ Advances
<1> USE DEF Moves
<1>1. Created' = Created /\ Created \subseteq Files /\ f \in Files
  BY CreatedAreFiles DEF Created, ServerInv, Typed
<1>2. work' \in [Workers -> [batch : Files, step : Steps] \cup {Idle}]
  <2>1. work'[w] \in [batch : Files, step : Steps] \cup {Idle}
    BY <1>1 DEF MovesWell
  <2> QED BY <2>1 DEF ServerInv, Typed
<1>3. Typed'
  <2>1. \A g \in Files :
          IF g \in Created' THEN batch'[g] \in Batches /\ job'[g] \in Jobs
          ELSE batch'[g] = NoBatch /\ job'[g] = NoJob
    BY <1>1 DEF MovesWell, ServerInv, Typed
  <2>2. order' \in Seq(Files) /\ Len(order') = Cardinality(Created') /\ spool' \subseteq Created'
    BY <1>1 DEF ServerInv, Typed
  <2>3. disowned' \subseteq Created'
    BY <1>1 DEF ServerInv, Typed
  <2> QED BY <1>2, <2>1, <2>2, <2>3 DEF Typed
<1>4. Published'
  <2> SUFFICES ASSUME NEW g \in Created, g # f PROVE RowsTold(g)'
    BY <1>1 DEF MovesWell, Published
  <2>1. batch'[g] = batch[g] /\ (g \in disowned => g \in disowned')
    BY <1>1
  <2> QED BY <2>1 DEF ServerInv, Published, RowsTold
<1>5. \A v \in Workers \ {w} :
        /\ work'[v] = work[v]
        /\ work[v] # Idle => /\ work[v].batch \in Created /\ work[v].batch # f
                             /\ batch'[work[v].batch] = batch[work[v].batch]
                             /\ job'[work[v].batch] = job[work[v].batch]
                             /\ work[v].batch \in spool' <=> work[v].batch \in spool
  BY <1>1 DEF ServerInv, Typed, Alone, Has
<1>6. Alone'
  <2> SUFFICES ASSUME NEW v \in Workers, work'[v] # Idle
               PROVE  /\ work'[v].batch \in Created'
                      /\ job'[work'[v].batch].status \in {"processing", "done"}
                      /\ \A u \in Workers \ {v} : ~(work'[u] # Idle /\ work'[u].batch = work'[v].batch)
    BY DEF Alone, Has
  <2>1. CASE v = w
    <3>1. work'[w].batch = f /\ job'[f].status \in {"processing", "done"}
      BY <2>1 DEF MovesWell
    <3> QED BY <1>1, <1>5, <2>1, <3>1
  <2>2. CASE v # w
    <3>1. /\ work'[v] = work[v] /\ work[v].batch \in Created /\ work[v].batch # f
          /\ job'[work[v].batch].status \in {"processing", "done"}
      BY <1>5, <2>2 DEF ServerInv, Alone
    <3>2. \A u \in Workers \ {v} : ~(work[u] # Idle /\ work[u].batch = work[v].batch)
      BY <2>2, <3>1 DEF ServerInv, Alone, Has
    <3>3. work'[w] = Idle \/ work'[w].batch = f
      BY DEF MovesWell
    <3> QED BY <1>1, <1>5, <2>2, <3>1, <3>2, <3>3
  <2> QED BY <2>1, <2>2
<1>7. Tried'
  <2>1. \A g \in Created : Waits(g)'
    <3> SUFFICES ASSUME NEW g \in Created, g # f PROVE Waits(g)'
      BY DEF MovesWell
    <3>1. batch'[g] = batch[g] /\ job'[g] = job[g] /\ (g \in spool' <=> g \in spool)
      BY <1>1
    <3> QED BY <3>1 DEF ServerInv, Tried, Waits, Unread
  <2>2. ASSUME NEW v \in Workers, work'[v] # Idle
        PROVE  StepSays(v)'
    <3>1. CASE v = w
      BY <2>2, <3>1 DEF MovesWell
    <3>2. CASE v # w
      BY <1>5, <2>2, <3>2 DEF ServerInv, Tried, StepSays, Unread
    <3> QED BY <3>1, <3>2
  <2> QED BY <1>1, <2>1, <2>2 DEF Tried
<1>8. Advances
  <2> SUFFICES ASSUME NEW g \in Created, g # f
               PROVE  /\ batch[g].rows > 0 => batch'[g].rows = batch[g].rows
                      /\ Dead(g) => Dead(g)'
    BY <1>1 DEF Advances, MovesWell
  <2>1. batch'[g] = batch[g] /\ spool' \subseteq spool
    BY <1>1
  <2> QED BY <2>1 DEF Dead
<1> QED BY <1>3, <1>4, <1>6, <1>7, <1>8 DEF ServerInv

\* A batch is created for a file that has none, with a job that waits.
LEMMA CreateKeeps ==
    ASSUME ServerInv, NEW f \in Files, CreateBatch(f)
    PROVE  ServerInv' /\ Advances /\ f \in Created'
<1>1. CASE f \in Created
  <2>1. UNCHANGED server
    BY <1>1 DEF CreateBatch
  <2> QED
    BY <1>1, <2>1 DEF server, ServerInv, Typed, Published, RowsTold, Alone, Has, Tried,
                      Waits, StepSays, Unread, Created, Advances, Dead
<1>2. CASE f \notin Created
  <2>1. /\ order' = Append(order, f)
        /\ batch' = [batch EXCEPT ![f] = [status |-> "received", rows |-> 0, named |-> TRUE]]
        /\ spool' = spool \cup {f}
        /\ job' = [job EXCEPT ![f] = [status |-> "queued", attempts |-> 0]]
        /\ work' = work /\ disowned' = disowned
    BY <1>2 DEF CreateBatch
  <2>2. /\ order \in Seq(Files) /\ Created \subseteq Files
        /\ Len(order) = Cardinality(Created)
    BY CreatedAreFiles DEF ServerInv, Typed
  <2>3. order' \in Seq(Files) /\ Len(order') = Len(order) + 1
    BY <2>1, <2>2
  <2>4. Created' = Created \cup {f}
    <3>1. \A i \in 1 .. Len(order) : order'[i] = order[i]
      BY <2>1, <2>2
    <3>2. order'[Len(order) + 1] = f
      BY <2>1, <2>2
    <3>3. DOMAIN order' = 1 .. Len(order) + 1 /\ DOMAIN order = 1 .. Len(order)
      BY <2>2, <2>3
    <3>4. Len(order) \in Nat
      BY <2>2
    <3>5. 1 .. Len(order) + 1 = (1 .. Len(order)) \cup {Len(order) + 1}
      BY <3>4
    <3> QED BY <3>1, <3>2, <3>3, <3>5 DEF Created
  <2>5. Cardinality(Created') = Cardinality(Created) + 1
    <3>1. IsFiniteSet(Created)
      BY <2>2, CreatedFinite
    <3> QED BY <1>2, <2>4, <3>1, FS_AddElement
  <2>6. /\ DOMAIN batch' = Files /\ DOMAIN job' = Files
        /\ batch'[f] = [status |-> "received", rows |-> 0, named |-> TRUE]
        /\ job'[f] = [status |-> "queued", attempts |-> 0]
        /\ \A g \in Files \ {f} :
             /\ batch'[g] = batch[g] /\ job'[g] = job[g]
             /\ (g \in spool' <=> g \in spool)
    BY <2>1 DEF ServerInv, Typed
  <2>7. batch'[f] \in Batches /\ job'[f] \in Jobs /\ Waits(f)'
    BY <2>6, AttemptsAssumption DEF Batches, BatchStatus, Jobs, JobStatus, Waits, Unread
  <2>8. Typed'
    <3>1. \A g \in Files :
            IF g \in Created' THEN batch'[g] \in Batches /\ job'[g] \in Jobs
            ELSE batch'[g] = NoBatch /\ job'[g] = NoJob
      BY <2>4, <2>6, <2>7 DEF ServerInv, Typed
    <3>2. spool' \subseteq Created' /\ disowned' \subseteq Created'
      BY <2>1, <2>4 DEF ServerInv, Typed
    <3>3. work' \in [Workers -> [batch : Files, step : Steps] \cup {Idle}]
      BY <2>1 DEF ServerInv, Typed
    <3> QED BY <2>2, <2>3, <2>5, <2>6, <3>1, <3>2, <3>3 DEF Typed
  <2>9. \A g \in Created :
          /\ g # f /\ batch'[g] = batch[g] /\ job'[g] = job[g]
          /\ (g \in spool' <=> g \in spool)
    BY <1>2, <2>2, <2>6
  <2>10. Published'
    BY <2>1, <2>4, <2>6, <2>9 DEF ServerInv, Published, RowsTold
  <2>11. \A w \in Workers : work[w] # Idle =>
           /\ work[w].batch \in Created
           /\ batch'[work[w].batch] = batch[work[w].batch]
           /\ job'[work[w].batch] = job[work[w].batch]
           /\ (work[w].batch \in spool' <=> work[w].batch \in spool)
    BY <2>9 DEF ServerInv, Alone
  <2>12. Alone'
    BY <2>1, <2>4, <2>11 DEF ServerInv, Alone, Has
  <2>13. Tried'
    <3>1. \A g \in Created : Waits(g)'
      BY <2>9 DEF ServerInv, Tried, Waits, Unread
    <3>2. \A w \in Workers : work'[w] # Idle => StepSays(w)'
      BY <2>1, <2>11 DEF ServerInv, Tried, StepSays, Unread
    <3> QED BY <2>4, <2>7, <3>1, <3>2 DEF Tried
  <2>14. Advances
    <3>1. \A g \in Created : Dead(g) => Dead(g)'
      BY <2>9 DEF Dead
    <3> QED BY <2>4, <2>9, <3>1 DEF Advances
  <2> QED BY <2>4, <2>8, <2>10, <2>12, <2>13, <2>14 DEF ServerInv
<1> QED BY <1>1, <1>2

\* A worker's step to another one leaves the rest to be told.
LEMMA GoToIs ==
    ASSUME ServerInv, NEW w \in Workers, NEW s \in Steps, work[w] # Idle, GoTo(w, s)
    PROVE  /\ work' = [work EXCEPT ![w] = work'[w]]
           /\ work'[w] = [batch |-> work[w].batch, step |-> s]
           /\ work'[w] # Idle
           /\ work'[w] \in [batch : {work[w].batch}, step : Steps]
<1>1. /\ work[w] = [batch |-> work[w].batch, step |-> work[w].step]
      /\ work \in [Workers -> [batch : Files, step : Steps] \cup {Idle}]
  BY WorkerHas DEF ServerInv, Typed
<1> DEFINE b == work[w].batch
<1>2. [work[w] EXCEPT !.step = s] = [batch |-> b, step |-> s]
  <2>1. \A c, d : [[batch |-> c, step |-> d] EXCEPT !.step = s] = [batch |-> c, step |-> s]
    OBVIOUS
  <2> QED BY <1>1, <2>1, Zenon
<1>3. work'[w] = [batch |-> b, step |-> s] /\ work' = [work EXCEPT ![w] = work'[w]]
  BY <1>1, <1>2 DEF GoTo
<1>4. [batch |-> work[w].batch, step |-> s] # Idle
  BY DEF Idle
<1> QED BY <1>3, <1>4

\* A claimed job waits, so that no worker has it.
LEMMA ClaimKeeps ==
    ASSUME ServerInv, NEW w \in Workers, Claim(w)
    PROVE  ServerInv' /\ Advances
<1>1. PICK f \in Created :
        /\ Claimable(f)
        /\ job' = [job EXCEPT ![f] = [status |-> "processing", attempts |-> @.attempts + 1]]
        /\ work' = [work EXCEPT ![w] = [batch |-> f, step |-> "claimed"]]
  BY DEF Claim
<1>2. order' = order /\ batch' = batch /\ spool' = spool /\ disowned' = disowned
  BY DEF Claim
<1>3. /\ f \in Files /\ batch[f] \in Batches /\ job[f] \in Jobs
      /\ DOMAIN batch = Files /\ DOMAIN job = Files /\ DOMAIN work = Workers
      /\ Unread(f) /\ job[f].attempts < MaxAttempts
      /\ RowsTold(f)
  BY <1>1, CreatedAreFiles DEF ServerInv, Typed, Published, Tried, Waits, Claimable
<1>4. \A v \in Workers \ {w} : ~Has(v, f)
  BY <1>1 DEF ServerInv, Alone, Has, Claimable
<1>5. /\ job'[f] = [status |-> "processing", attempts |-> job[f].attempts + 1]
      /\ work'[w] = [batch |-> f, step |-> "claimed"] /\ work'[w] # Idle
  BY <1>1, <1>3 DEF Idle
<1>6. job'[f] \in Jobs /\ Waits(f)'
  BY <1>3, <1>5, AttemptsAssumption DEF Jobs, JobStatus, Waits
<1>7. Moves(w, f)
  BY <1>1, <1>2, <1>3, <1>5 DEF Moves
<1>8. MovesWell(w, f)
  BY <1>2, <1>3, <1>5, <1>6 DEF MovesWell, RowsTold, Steps, StepSays, Unread, Dead
<1> QED BY <1>4, <1>7, <1>8, MoveKeeps

\* A batch that is rewritten has its type, and what was decided of it stays.
Rewrites(f) ==
    /\ DOMAIN batch' = Files /\ \A g \in Files \ {f} : batch'[g] = batch[g]
    /\ batch'[f] \in Batches /\ RowsTold(f)'
    /\ batch[f].rows > 0 => batch'[f].rows = batch[f].rows
    /\ Dead(f) => Dead(f)'

\* A batch that is left alone is one.
LEMMA RewritesNothing ==
    ASSUME ServerInv, NEW f \in Created, batch' = batch, spool' \subseteq spool,
           disowned' = disowned
    PROVE  Rewrites(f)
<1>1. f \in Files /\ batch[f] \in Batches /\ RowsTold(f) /\ DOMAIN batch = Files
  BY CreatedAreFiles DEF ServerInv, Typed, Published
<1> QED BY <1>1 DEF Rewrites, RowsTold, Dead

\* A worker that goes from one step to another with its batch.
LEMMA StepKeeps ==
    ASSUME ServerInv, NEW w \in Workers, NEW f \in Created, NEW s \in Steps,
           work[w] # Idle, work[w].batch = f, GoTo(w, s), order' = order,
           job' = job \/ job' = [job EXCEPT ![f].status = "done"], Rewrites(f),
           spool' \subseteq spool, spool \ {f} \subseteq spool',
           disowned \subseteq disowned', disowned' \subseteq disowned \cup {f},
           s \in {"claimed", "error"} => Unread(f)',
           s = "validating" => batch'[f].status = "validating",
           s = "done" => f \notin spool'
    PROVE  ServerInv' /\ Advances
<1>1. /\ f \in Files /\ job[f] \in Jobs /\ job[f].status \in {"processing", "done"}
      /\ \A v \in Workers \ {w} : ~Has(v, f)
      /\ DOMAIN job = Files
  BY WorkerHas DEF ServerInv, Typed
<1>2. /\ work' = [work EXCEPT ![w] = work'[w]]
      /\ work'[w] = [batch |-> f, step |-> s] /\ work'[w] # Idle
      /\ work'[w] \in [batch : {f}, step : Steps]
  BY GoToIs
<1>3. /\ job'[f] \in Jobs /\ job'[f].status \in {"processing", "done"} /\ DOMAIN job' = Files
      /\ \A g \in Files \ {f} : job'[g] = job[g]
  BY <1>1 DEF Jobs, JobStatus
<1>4. Moves(w, f)
  BY <1>2, <1>3 DEF Moves, Rewrites
<1>5. StepSays(w)'
  BY <1>2 DEF StepSays, Unread
<1>6. Waits(f)'
  BY <1>3 DEF Waits
<1>7. MovesWell(w, f)
  BY <1>2, <1>3, <1>5, <1>6 DEF MovesWell, Rewrites
<1> QED BY <1>1, <1>4, <1>7, MoveKeeps

\* What a worker finds at its step.
LEMMA WorkerAt ==
    ASSUME ServerInv, NEW w \in Workers, NEW s, At(w, s)
    PROVE  /\ work[w] # Idle /\ work[w].step = s
           /\ work[w].batch \in Created /\ work[w].batch \in Files
           /\ batch[work[w].batch] \in Batches /\ job[work[w].batch] \in Jobs
           /\ RowsTold(work[w].batch)
           /\ \A v \in Workers \ {w} : ~Has(v, work[w].batch)
           /\ StepSays(w)
           /\ DOMAIN batch = Files /\ DOMAIN job = Files
  BY WorkerHas DEF At, ServerInv, Typed, Published

\* An attempt begins: a batch that is unread stays so.
LEMMA BeginKeeps ==
    ASSUME ServerInv, NEW w \in Workers, Begin(w)
    PROVE  ServerInv' /\ Advances
<1>0. PICK f \in Created : f = work[w].batch
  BY WorkerAt DEF Begin
<1>1. /\ At(w, "claimed") /\ UNCHANGED <<order, spool, job, disowned>>
      /\ \/ Settled(f) /\ GoTo(w, "done") /\ batch' = batch
         \/ /\ ~Settled(f) /\ batch[f].named
            /\ batch' = [batch EXCEPT ![f].status = "validating"]
            /\ GoTo(w, "validating") \/ GoTo(w, "error")
         \/ ~Settled(f) /\ GoTo(w, "error") /\ batch' = batch
  BY <1>0 DEF Begin
<1>2. /\ work[w] # Idle /\ f \in Files /\ batch[f] \in Batches /\ RowsTold(f) /\ Unread(f)
      /\ DOMAIN batch = Files
  BY <1>0, <1>1, WorkerAt DEF StepSays
<1>3. "done" \in Steps /\ "validating" \in Steps /\ "error" \in Steps
  BY DEF Steps
<1>4. CASE Settled(f) /\ GoTo(w, "done") /\ batch' = batch
  <2>1. f \notin spool'
    BY <1>1, <1>2, <1>4 DEF Settled, Unread
  <2>2. Rewrites(f)
    BY <1>1, <1>4, RewritesNothing
  <2> QED BY <1>0, <1>1, <1>2, <1>3, <1>4, <2>1, <2>2, StepKeeps
<1>5. CASE /\ ~Settled(f) /\ batch[f].named
           /\ batch' = [batch EXCEPT ![f].status = "validating"]
           /\ GoTo(w, "validating") \/ GoTo(w, "error")
  <2>1. /\ batch'[f] \in Batches /\ batch'[f].status = "validating"
        /\ batch'[f].rows = batch[f].rows /\ DOMAIN batch' = Files
        /\ \A g \in Files \ {f} : batch'[g] = batch[g]
    BY <1>2, <1>5 DEF Batches, BatchStatus
  <2>2. ~(batch[f].rows > 0) /\ batch[f].rows \in Nat
    BY <1>2, <1>5 DEF RowsTold, Batches
  <2>3. RowsTold(f)' /\ (Dead(f) => Dead(f)')
    BY <1>1, <1>2, <2>1, <2>2 DEF RowsTold, Unread, Dead
  <2>4. Rewrites(f)
    BY <2>1, <2>2, <2>3 DEF Rewrites
  <2>5. Unread(f)'
    BY <2>1 DEF Unread
  <2> QED BY <1>0, <1>1, <1>2, <1>3, <1>5, <2>1, <2>4, <2>5, StepKeeps
<1>6. CASE ~Settled(f) /\ GoTo(w, "error") /\ batch' = batch
  <2>1. Unread(f)'
    BY <1>1, <1>2, <1>6 DEF Unread
  <2>2. Rewrites(f)
    BY <1>1, <1>6, RewritesNothing
  <2> QED BY <1>0, <1>1, <1>2, <1>3, <1>6, <2>1, <2>2, StepKeeps
<1> QED BY <1>1, <1>4, <1>5, <1>6

\* An import reads the file, so its batch was not dead; it publishes rows or fails.
LEMMA ImportKeeps ==
    ASSUME ServerInv, NEW w \in Workers, Import(w)
    PROVE  ServerInv' /\ Advances
<1>0. PICK f \in Created : f = work[w].batch
  BY WorkerAt DEF Import
<1>1. /\ At(w, "validating") /\ f \in spool /\ UNCHANGED <<order, spool, job, disowned>>
      /\ GoTo(w, "returning") \/ GoTo(w, "caught")
      /\ \E n \in Rows : batch' = [batch EXCEPT ![f] = Outcome(n)]
  BY <1>0 DEF Import
<1>2. PICK n \in Rows : batch' = [batch EXCEPT ![f] = Outcome(n)]
  BY <1>1
<1>3. /\ work[w] # Idle /\ f \in Files /\ DOMAIN batch = Files
      /\ batch[f] \in Batches /\ RowsTold(f) /\ batch[f].status = "validating"
  BY <1>0, <1>1, WorkerAt DEF StepSays
<1>4. n \in Nat
  BY RowsAssumption
<1>5. /\ batch'[f] = Outcome(n)
      /\ DOMAIN batch' = Files /\ \A g \in Files \ {f} : batch'[g] = batch[g]
  BY <1>2, <1>3
<1>6. batch'[f] \in Batches /\ RowsTold(f)'
  <2>1. /\ batch'[f].status = IF n > 0 THEN "ready" ELSE "failed"
        /\ batch'[f].rows = n /\ ~batch'[f].named
    BY <1>5 DEF Outcome
  <2>2. batch'[f] \in Batches
    BY <1>4, <1>5 DEF Outcome, Batches, BatchStatus
  <2>3. RowsTold(f)'
    BY <1>4, <2>1 DEF RowsTold
  <2> QED BY <2>2, <2>3
<1>7. ~Dead(f) /\ ~(batch[f].rows > 0)
  BY <1>1, <1>3 DEF Dead, RowsTold
<1>8. Rewrites(f)
  BY <1>5, <1>6, <1>7 DEF Rewrites
<1>9. "returning" \in Steps /\ "caught" \in Steps
  BY DEF Steps
<1> QED BY <1>0, <1>1, <1>3, <1>8, <1>9, StepKeeps

\* An import that fails leaves everything to the note of the failure.
LEMMA ImportFailsKeeps ==
    ASSUME ServerInv, NEW w \in Workers, ImportFails(w)
    PROVE  ServerInv' /\ Advances
<1>0. PICK f \in Created : f = work[w].batch
  BY WorkerAt DEF ImportFails
<1>1. work[w] # Idle /\ Rewrites(f)
  BY WorkerAt, RewritesNothing DEF ImportFails
<1> QED BY <1>0, <1>1, StepKeeps DEF ImportFails, Steps

\* The note of a failure takes no rows away; a batch that had some is disowned.
LEMMA NoteFailureKeeps ==
    ASSUME ServerInv, NEW w \in Workers, NoteFailure(w)
    PROVE  ServerInv' /\ Advances
<1>0. PICK f \in Created : f = work[w].batch
  BY WorkerAt DEF NoteFailure
<1>1. /\ At(w, "caught") /\ GoTo(w, "raising") /\ UNCHANGED <<order, spool, job>>
      /\ \/ /\ batch' = [batch EXCEPT ![f].status = "failed"]
            /\ disowned' = IF Settled(f) THEN disowned \cup {f} ELSE disowned
         \/ UNCHANGED <<batch, disowned>>
  BY <1>0 DEF NoteFailure
<1>2. /\ work[w] # Idle /\ f \in Files /\ DOMAIN batch = Files
      /\ batch[f] \in Batches /\ RowsTold(f)
  BY <1>0, <1>1, WorkerAt
<1>3. "raising" \in Steps
  BY DEF Steps
<1>4. CASE /\ batch' = [batch EXCEPT ![f].status = "failed"]
           /\ disowned' = IF Settled(f) THEN disowned \cup {f} ELSE disowned
  <2>1. /\ batch'[f] \in Batches /\ batch'[f].status = "failed"
        /\ batch'[f].rows = batch[f].rows /\ batch'[f].named = batch[f].named
        /\ DOMAIN batch' = Files /\ \A g \in Files \ {f} : batch'[g] = batch[g]
    BY <1>2, <1>4 DEF Batches, BatchStatus
  <2>2. disowned \subseteq disowned' /\ disowned' \subseteq disowned \cup {f}
    BY <1>4
  <2>3. RowsTold(f)'
    BY <1>2, <1>4, <2>1 DEF RowsTold, Settled
  <2>4. Dead(f) => Dead(f)'
    BY <2>1 DEF Dead
  <2>5. Rewrites(f)
    BY <2>1, <2>3, <2>4 DEF Rewrites
  <2> QED BY <1>0, <1>1, <1>2, <1>3, <2>2, <2>5, StepKeeps
<1>5. CASE UNCHANGED <<batch, disowned>>
  <2>1. Rewrites(f)
    BY <1>1, <1>5, RewritesNothing
  <2> QED BY <1>0, <1>1, <1>2, <1>3, <1>5, <2>1, StepKeeps
<1> QED BY <1>1, <1>4, <1>5

\* The file is gone afterwards.
LEMMA UnlinkKeeps ==
    ASSUME ServerInv, NEW w \in Workers, Unlink(w)
    PROVE  ServerInv' /\ Advances
<1>0. PICK f \in Created : f = work[w].batch
  BY WorkerAt DEF Unlink
<1>1. PICK s \in {"done", "error"} : GoTo(w, s)
  BY DEF Unlink
<1>2. UNCHANGED <<order, batch, job, disowned>> /\ spool' = spool \ {f} /\ work[w] # Idle
  BY <1>0, WorkerAt DEF Unlink, Kept
<1>3. Rewrites(f)
  BY <1>2, RewritesNothing
<1>4. Unread(f)'
  BY <1>2 DEF Unread
<1> QED BY <1>0, <1>1, <1>2, <1>3, <1>4, StepKeeps DEF Steps

\* A job that is done waits no more; one whose note failed has no file.
LEMMA JobDoneKeeps ==
    ASSUME ServerInv, NEW w \in Workers, JobDone(w)
    PROVE  ServerInv' /\ Advances
<1>0. PICK f \in Created : f = work[w].batch
  BY WorkerAt DEF JobDone
<1>1. /\ At(w, "done") /\ UNCHANGED <<order, batch, spool, disowned>>
      /\ \/ job' = [job EXCEPT ![f].status = "done"] /\ work' = [work EXCEPT ![w] = Idle]
         \/ /\ job' = job \/ job' = [job EXCEPT ![f].status = "done"]
            /\ GoTo(w, "error")
  BY <1>0 DEF JobDone
<1>2. /\ work[w] # Idle /\ f \in Files /\ f \notin spool /\ job[f] \in Jobs
      /\ \A v \in Workers \ {w} : ~Has(v, f)
      /\ DOMAIN job = Files /\ DOMAIN work = Workers
  BY <1>0, <1>1, WorkerAt DEF StepSays, ServerInv, Typed
<1>3. Rewrites(f)
  BY <1>1, RewritesNothing
<1>4. CASE job' = [job EXCEPT ![f].status = "done"] /\ work' = [work EXCEPT ![w] = Idle]
  <2>1. job'[f] \in Jobs /\ job'[f].status = "done" /\ work'[w] = Idle
    BY <1>2, <1>4 DEF Jobs, JobStatus
  <2>2. Moves(w, f)
    BY <1>1, <1>2, <1>3, <1>4, <2>1 DEF Moves, Rewrites
  <2>3. MovesWell(w, f)
    BY <1>3, <2>1 DEF MovesWell, Rewrites, Waits
  <2> QED BY <1>2, <2>2, <2>3, MoveKeeps
<1>5. CASE (job' = job \/ job' = [job EXCEPT ![f].status = "done"]) /\ GoTo(w, "error")
  <2>1. Unread(f)' /\ "error" \in Steps
    BY <1>1, <1>2 DEF Unread, Steps
  <2> QED BY <1>0, <1>1, <1>2, <1>3, <1>5, <2>1, StepKeeps
<1> QED BY <1>1, <1>4, <1>5

\* A job is put back only if it has an attempt left.
LEMMA JobErrorKeeps ==
    ASSUME ServerInv, NEW w \in Workers, JobError(w)
    PROVE  ServerInv' /\ Advances
<1>1. PICK f \in Created : f = work[w].batch
  BY WorkerAt DEF JobError
<1>2. /\ At(w, "error") /\ UNCHANGED <<order, batch, spool, disowned>>
      /\ job' = [job EXCEPT ![f].status = AfterError(job[f].attempts)]
      /\ work' = [work EXCEPT ![w] = Idle]
  BY <1>1 DEF JobError
<1>3. /\ work[w] # Idle /\ f \in Files /\ Unread(f) /\ job[f] \in Jobs
      /\ \A v \in Workers \ {w} : ~Has(v, f)
      /\ DOMAIN job = Files /\ DOMAIN work = Workers
  BY <1>1, <1>2, WorkerAt DEF StepSays, ServerInv, Typed
<1>4. /\ job'[f] \in Jobs /\ work'[w] = Idle
      /\ job'[f].status = "retry" => job'[f].attempts < MaxAttempts
      /\ job'[f].status # "queued"
  BY <1>2, <1>3 DEF Jobs, JobStatus, AfterError
<1>5. Rewrites(f)
  BY <1>2, RewritesNothing
<1>6. Moves(w, f)
  BY <1>2, <1>3, <1>4, <1>5 DEF Moves, Rewrites
<1>7. MovesWell(w, f)
  BY <1>2, <1>3, <1>4, <1>5 DEF MovesWell, Rewrites, Waits, Unread
<1> QED BY <1>3, <1>6, <1>7, MoveKeeps

\* The job of a killed worker stays as it is.
LEMMA CrashKeeps ==
    ASSUME ServerInv, NEW w \in Workers, Crash(w)
    PROVE  ServerInv' /\ Advances
<1>1. PICK f \in Created : f = work[w].batch
  BY WorkerHas DEF Crash
<1>2. /\ work[w] # Idle /\ work' = [work EXCEPT ![w] = Idle]
      /\ UNCHANGED <<order, batch, spool, job, disowned>>
  BY DEF Crash
<1>3. /\ f \in Files /\ job[f] \in Jobs /\ job[f].status \in {"processing", "done"}
      /\ \A v \in Workers \ {w} : ~Has(v, f)
      /\ DOMAIN job = Files /\ DOMAIN work = Workers
  BY <1>1, <1>2, WorkerHas DEF ServerInv, Typed
<1>4. Rewrites(f)
  BY <1>2, RewritesNothing
<1>5. Moves(w, f)
  BY <1>2, <1>3, <1>4 DEF Moves, Rewrites
<1>6. MovesWell(w, f)
  BY <1>2, <1>3, <1>4 DEF MovesWell, Rewrites, Waits
<1> QED BY <1>3, <1>5, <1>6, MoveKeeps

\* So does every step of a worker.
LEMMA WorkerKeeps ==
    ASSUME ServerInv, NEW w \in Workers, WorkerStep(w) \/ Crash(w)
    PROVE  ServerInv' /\ Advances
  BY ClaimKeeps, BeginKeeps, ImportKeeps, ImportFailsKeeps, NoteFailureKeeps, UnlinkKeeps,
     JobDoneKeeps, JobErrorKeeps, CrashKeeps DEF WorkerStep

\* And a step that leaves the server alone.
LEMMA ServerStays ==
    ASSUME ServerInv, UNCHANGED server
    PROVE  ServerInv' /\ Advances
  BY DEF server, ServerInv, Typed, Published, RowsTold, Alone, Has, Tried, Waits, StepSays,
         Unread, Created, Advances, Dead

-----------------------------------------------------------------------------
(* The tab.                                                                *)

\* A batch with rows is one that was created, and is published or disowned.
LEMMA ReadyHasRows ==
    ASSUME ServerInv, NEW f \in Files, batch[f].status = "ready" \/ batch[f].rows > 0
    PROVE  f \in Created /\ batch[f] \in Batches /\ batch[f].rows > 0 /\ StillPublished(f)
<1>1. f \in Created
  BY DEF ServerInv, Typed, NoBatch, None
<1>2. RowsTold(f) /\ batch[f] \in Batches
  BY <1>1 DEF ServerInv, Typed, Published
<1> QED BY <1>1, <1>2 DEF RowsTold, StillPublished

\* An outcome is final.
LEMMA OutcomeIsFinal ==
    ASSUME ServerInv, NEW f \in Created, batch[f].status \in Outcomes
    PROVE  Final(f)
<1>1. f \in Files /\ batch[f] \in Batches
  BY CreatedAreFiles DEF ServerInv, Typed
<1>2. CASE batch[f].rows > 0
  BY <1>2 DEF Final
<1>3. CASE ~(batch[f].rows > 0)
  <2>1. batch[f].rows = 0
    BY <1>1, <1>3 DEF Batches
  <2>2. batch[f].status = "failed"
    BY <1>1, <1>3, ReadyHasRows DEF Outcomes
  <2> QED BY <2>1, <2>2 DEF Final, Dead
<1> QED BY <1>2, <1>3

\* And the rows of what is final do not change.
LEMMA FinalStays ==
    ASSUME ServerInv, Advances, NEW f \in Created, Final(f)
    PROVE  Final(f)' /\ batch'[f].rows = batch[f].rows
  BY DEF Advances, Final, Dead

\* What a tab shows and reads stays true while the server goes on.
LEMMA TabHeld ==
    ASSUME ServerInv, ServerInv', TabInv, Advances, UNCHANGED <<page, form, shown>>,
           upload' \in Own \cup {None}
    PROVE  TabInv'
<1>1. /\ page' = page /\ form' = form /\ pager' = pager
      /\ reading' = reading /\ view' = view
  BY DEF shown
<1>2. \A f \in Files : batch[f].rows > 0 =>
        f \in Created /\ batch'[f].rows > 0 /\ StillPublished(f)'
  <2> SUFFICES ASSUME NEW f \in Files, batch[f].rows > 0
               PROVE  f \in Created /\ batch'[f].rows > 0 /\ StillPublished(f)'
    OBVIOUS
  <2>1. f \in Created /\ batch'[f].rows = batch[f].rows
    BY ReadyHasRows DEF Advances
  <2>2. f \in Created' /\ batch'[f].rows > 0
    BY <2>1 DEF Advances
  <2>3. RowsTold(f)'
    BY <2>2 DEF ServerInv, Published
  <2> QED BY <2>1, <2>2, <2>3 DEF RowsTold, StillPublished
<1>3. TabTyped'
  BY <1>1 DEF TabInv, TabTyped, Advances
<1>4. ReadTrue'
  <2> SUFFICES ASSUME reading # NoRead, NEW f, f = reading.batch
               PROVE  /\ page = BatchPage(f)
                      /\ reading.status \in Outcomes => Final(f)'
                      /\ reading.status = "ready" => batch'[f].rows > 0
    BY <1>1 DEF ReadTrue, Final, Dead
  <2>1. /\ page = BatchPage(f)
        /\ reading.status \in Outcomes => Final(f)
        /\ reading.status = "ready" => batch[f].rows > 0
    BY DEF TabInv, ReadTrue
  <2>2. f \in Created /\ f \in Files
    BY <2>1, CreatedAreFiles DEF TabInv, TabTyped, BatchPage, ServerInv, Typed
  <2>3. Final(f) => Final(f)'
    BY <2>2, FinalStays
  <2> QED BY <1>2, <2>1, <2>2, <2>3
<1>5. page.at = "batch" /\ view.at = "batch" /\ view.status \in Outcomes =>
        /\ Final(page.batch)' /\ batch'[page.batch].rows = batch[page.batch].rows
  <2> SUFFICES ASSUME page.at = "batch", view.at = "batch", view.status \in Outcomes,
                      NEW f, f = page.batch
               PROVE  Final(f)' /\ batch'[f].rows = batch[f].rows
    BY <1>1 DEF Final, Dead
  <2>1. f \in Created /\ Final(f)
    BY DEF TabInv, TabTyped, ViewTrue
  <2> QED BY <2>1, FinalStays
<1>6. ViewTrue'
  BY <1>1, <1>5 DEF ViewTrue
<1>7. FinalPageIsComplete'
  BY <1>1, <1>5 DEF TabInv, FinalPageIsComplete
<1>8. ShownAsReady' = ShownAsReady
  BY <1>1 DEF ShownAsReady
<1>9. PublishedForGood'
  <2> SUFFICES ASSUME NEW f \in ShownAsReady PROVE StillPublished(f)'
    BY <1>8 DEF PublishedForGood
  <2>1. f \in Files /\ batch[f].rows > 0
    BY DEF TabInv, PublishedForGood, StillPublished, ShownAsReady
  <2> QED BY <1>2, <2>1
<1> QED BY <1>3, <1>4, <1>6, <1>7, <1>9 DEF TabInv

\* A page that was just opened shows nothing yet.
LEMMA OpenKeeps ==
    ASSUME ServerInv, ServerInv', TabInv, Advances, NEW p \in Pages,
           p.at = "batch" => p.batch \in Created', Open(p)
    PROVE  TabInv'
<1>1. CASE p = page
  <2>1. UNCHANGED <<page, form, shown>> /\ upload' = upload
    BY <1>1 DEF Open, tab, import
  <2>2. upload' \in Own \cup {None}
    BY <2>1 DEF TabInv, TabTyped
  <2> QED BY <2>1, <2>2, TabHeld
<1>2. CASE p # page
  <2>1. /\ page' = p /\ form' = NoForm /\ upload' = None /\ pager' = FirstPage
        /\ reading' = NoRead /\ view' = NoView
    BY <1>2 DEF Open
  <2>2. view'.at = "none"
    BY <2>1 DEF NoView, None
  <2>3. TabTyped'
    BY <2>1 DEF TabTyped, FirstPage, Pagers, Views
  <2>4. ReadTrue' /\ ViewTrue' /\ FinalPageIsComplete'
    BY <2>1, <2>2 DEF ReadTrue, ViewTrue, FinalPageIsComplete
  <2>5. PublishedForGood'
    BY <2>1, <2>2 DEF PublishedForGood, ShownAsReady
  <2> QED BY <2>3, <2>4, <2>5 DEF TabInv
<1> QED BY <1>1, <1>2

\* A list or the workspace in another state: nothing is being read of a batch.
LEMMA ViewKeeps ==
    ASSUME ServerInv, TabInv, UNCHANGED <<server, page, import, reading>>,
           pager' \in Pagers, view' \in Views, view'.at # "batch",
           \A f \in Files :
             (\/ view'.at = "workspace" /\ view'.batch = f /\ view'.status = "ready"
              \/ view'.at = "batches" /\ [batch |-> f, status |-> "ready"] \in view'.rows)
             => batch[f].status = "ready"
    PROVE  TabInv'
<1>1. /\ page' = page /\ form' = form /\ upload' = upload /\ reading' = reading
      /\ order' = order /\ batch' = batch /\ spool' = spool /\ disowned' = disowned
  BY DEF import, server
<1>2. TabTyped'
  BY <1>1 DEF TabInv, TabTyped, Created
<1>3. ReadTrue'
  BY <1>1 DEF TabInv, ReadTrue, Final, Dead
<1>4. FinalPageIsComplete' /\ ViewTrue'
  BY DEF FinalPageIsComplete, ViewTrue
<1>5. PublishedForGood'
  <2> SUFFICES ASSUME NEW f \in ShownAsReady' PROVE StillPublished(f)
    BY <1>1 DEF PublishedForGood, StillPublished
  <2>1. f \in Files
    BY DEF ShownAsReady
  <2>2. batch[f].status = "ready" \/ batch[f].rows > 0
    <3>1. CASE reading # NoRead /\ reading.batch = f /\ reading.status = "ready"
      BY <3>1 DEF TabInv, ReadTrue
    <3> QED BY <1>1, <2>1, <3>1 DEF ShownAsReady
  <2> QED BY <2>1, <2>2, ReadyHasRows
<1> QED BY <1>2, <1>3, <1>4, <1>5 DEF TabInv

\* A read sees a batch whose outcome, if there is one, is final.
LEMMA ReadBatchKeeps == ASSUME ServerInv, TabInv, ReadBatch PROVE TabInv'
<1>1. /\ page.at = "batch" /\ reading' = Seen(page.batch)
      /\ page' = page /\ form' = form /\ upload' = upload /\ pager' = pager /\ view' = view
      /\ order' = order /\ batch' = batch /\ spool' = spool /\ disowned' = disowned
  BY DEF ReadBatch, import, server
<1>2. page = BatchPage(page.batch) /\ page.batch \in Created /\ page.batch \in Files
  BY <1>1, CreatedAreFiles DEF TabInv, TabTyped, Pages, ListPages, BatchPage, ServerInv, Typed
<1>3. PICK f \in Created : f = page.batch /\ f \in Files
  BY <1>2
<1>4. batch[f] \in Batches
  BY <1>3 DEF ServerInv, Typed
<1>5. /\ reading' = [batch |-> f, status |-> batch[f].status, rows |-> batch[f].rows]
      /\ reading' \in [batch : Files, status : BatchStatus, rows : Nat]
  BY <1>1, <1>3, <1>4 DEF Seen, Batches
<1>6. TabTyped'
  BY <1>1, <1>5 DEF TabInv, TabTyped, Created
<1>7. ReadTrue'
  <2>1. reading'.batch = f /\ reading'.status = batch[f].status
    BY <1>5
  <2>2. batch[f].status \in Outcomes => Final(f)
    BY OutcomeIsFinal
  <2>3. batch[f].status = "ready" => batch[f].rows > 0
    BY <1>3, ReadyHasRows
  <2> QED BY <1>1, <1>2, <1>3, <2>1, <2>2, <2>3 DEF ReadTrue, BatchPage, Final, Dead
<1>8. FinalPageIsComplete' /\ ViewTrue'
  BY <1>1 DEF TabInv, FinalPageIsComplete, ViewTrue, Final, Dead
<1>9. PublishedForGood'
  <2> SUFFICES ASSUME NEW g \in ShownAsReady' PROVE StillPublished(g)
    BY <1>1 DEF PublishedForGood, StillPublished
  <2>1. CASE g \in ShownAsReady
    BY <2>1 DEF TabInv, PublishedForGood
  <2>2. CASE g \notin ShownAsReady
    <3>1. g \in Files /\ g = f /\ batch[f].status = "ready"
      BY <1>1, <1>5, <2>2 DEF ShownAsReady
    <3> QED BY <3>1, ReadyHasRows
  <2> QED BY <2>1, <2>2
<1> QED BY <1>6, <1>7, <1>8, <1>9 DEF TabInv

\* The answer shows the outcome that was seen, with the rows there are by now.
LEMMA ReadAnsweredKeeps == ASSUME ServerInv, TabInv, ReadAnswered PROVE TabInv'
<1>1. /\ reading # NoRead /\ reading' = NoRead /\ view' = BatchDetail(reading)
      /\ page' = page /\ form' = form /\ upload' = upload /\ pager' = pager
      /\ order' = order /\ batch' = batch /\ spool' = spool /\ disowned' = disowned
  BY DEF ReadAnswered, import, server
<1>2. /\ reading \in [batch : Files, status : BatchStatus, rows : Nat]
      /\ page = BatchPage(reading.batch) /\ page.batch = reading.batch
      /\ page.batch \in Created
      /\ reading.status \in Outcomes => Final(reading.batch)
      /\ reading.status = "ready" => batch[reading.batch].rows > 0
  BY <1>1 DEF TabInv, TabTyped, ReadTrue, BatchPage
<1>3. PICK f \in Created : f = reading.batch /\ f = page.batch /\ f \in Files
  BY <1>2
<1>4. batch[f] \in Batches
  BY <1>3 DEF ServerInv, Typed
<1>5. view' = [at |-> "batch", status |-> reading.status, rows |-> batch[f].rows]
  BY <1>1, <1>3 DEF BatchDetail
<1>6. TabTyped'
  <2>1. view' \in BatchViews
    BY <1>2, <1>4, <1>5 DEF BatchViews, Batches
  <2> QED BY <1>1, <2>1 DEF TabInv, TabTyped, Views, Created
<1>7. ReadTrue'
  BY <1>1 DEF ReadTrue
<1>8. FinalPageIsComplete'
  BY <1>1, <1>3, <1>5 DEF FinalPageIsComplete
<1>9. ViewTrue'
  BY <1>1, <1>2, <1>3, <1>5 DEF ViewTrue, Final, Dead
<1>10. PublishedForGood'
  <2> SUFFICES ASSUME NEW g \in ShownAsReady' PROVE StillPublished(g)
    BY <1>1 DEF PublishedForGood, StillPublished
  <2>1. g \in Files /\ page = BatchPage(g) /\ reading.status = "ready"
    BY <1>1, <1>5 DEF ShownAsReady
  <2>2. g = f
    BY <1>3, <2>1 DEF BatchPage
  <2> QED BY <1>2, <1>3, <2>1, <2>2, ReadyHasRows
<1> QED BY <1>6, <1>7, <1>8, <1>9, <1>10 DEF TabInv

\* The workspace shows the newest batch as it is.
LEMMA ReadWorkspaceKeeps == ASSUME ServerInv, TabInv, ReadWorkspace PROVE TabInv'
<1>1. /\ view' = Workspace /\ pager' = pager
      /\ UNCHANGED <<server, page, import, reading>>
  BY DEF ReadWorkspace, server, import
<1>2. CASE order = <<>>
  <2>1. view' = [at |-> "workspace", batch |-> None, status |-> None]
    BY <1>1, <1>2 DEF Workspace
  <2>2. view' \in Views /\ view'.at = "workspace" /\ view'.status = "none"
    BY <2>1 DEF Views, WorkspaceViews, None
  <2> QED BY <1>1, <2>2, ViewKeeps DEF TabInv, TabTyped
<1>3. CASE order # <<>>
  <2>1. PICK f \in Created : f = order[Len(order)]
    <3>1. order \in Seq(Files)
      BY DEF ServerInv, Typed
    <3>2. Len(order) \in DOMAIN order
      BY <1>3, <3>1
    <3> QED BY <3>2 DEF Created
  <2>2. f \in Files /\ batch[f] \in Batches
    BY CreatedAreFiles DEF ServerInv, Typed
  <2>3. view' = [at |-> "workspace", batch |-> f, status |-> batch[f].status]
    BY <1>1, <1>3, <2>1 DEF Workspace
  <2>4. /\ view' \in Views /\ view'.at = "workspace" /\ view'.batch = f
        /\ view'.status = batch[f].status
    BY <2>2, <2>3 DEF Views, WorkspaceViews, Batches
  <2> QED BY <1>1, <2>4, ViewKeeps DEF TabInv, TabTyped
<1> QED BY <1>2, <1>3

\* A list of batches shows them as they are.
LEMMA BatchListType ==
    ASSUME ServerInv, NEW p
    PROVE  /\ BatchList(p) \in BatchListViews
           /\ \A f \in Files :
                [batch |-> f, status |-> "ready"] \in BatchList(p).rows => batch[f].status = "ready"
<1> DEFINE all == Listed(p.filter)
           some == {i \in all : OnPage(Cardinality({j \in all : j > i}), p)}
           rows == {[batch |-> order[i], status |-> batch[order[i]].status] : i \in some}
<1>1. BatchList(p) = [at |-> "batches", total |-> Cardinality(all), rows |-> rows]
  BY DEF BatchList
<1>2. all \subseteq DOMAIN order /\ DOMAIN order = 1 .. Len(order)
  BY DEF Listed, ServerInv, Typed
<1>3. Cardinality(all) \in Nat
  <2>1. IsFiniteSet(1 .. Len(order))
    BY FS_Interval DEF ServerInv, Typed
  <2> QED BY <1>2, <2>1, FS_Subset, FS_CardinalityType
<1>4. \A i \in some : order[i] \in Files /\ batch[order[i]].status \in BatchStatus
  <2> SUFFICES ASSUME NEW i \in DOMAIN order
               PROVE  order[i] \in Files /\ batch[order[i]].status \in BatchStatus
    BY <1>2
  <2>1. order[i] \in Created /\ order[i] \in Files
    BY CreatedAreFiles DEF Created, ServerInv, Typed
  <2>2. batch[order[i]] \in Batches
    BY <2>1 DEF ServerInv, Typed
  <2> QED BY <2>1, <2>2 DEF Batches
<1> HIDE DEF some, all
<1>5. rows \subseteq [batch : Files, status : BatchStatus]
  BY <1>4
<1>6. \A f \in Files : [batch |-> f, status |-> "ready"] \in rows => batch[f].status = "ready"
  <2> SUFFICES ASSUME NEW f, NEW i \in some,
                      [batch |-> f, status |-> "ready"]
                        = [batch |-> order[i], status |-> batch[order[i]].status]
               PROVE  batch[f].status = "ready"
    OBVIOUS
  <2> QED OBVIOUS
<1> HIDE DEF rows
<1> QED BY <1>1, <1>3, <1>5, <1>6 DEF BatchListViews

\* So many rows are a finite set, whichever batches they are of.
LEMMA ActionsFinite == ASSUME ServerInv, NEW filter PROVE IsFiniteSet(Actions(filter))
<1> DEFINE some == {g \in Created : filter \in {None, g}}
           rowsOf == [f \in some |-> {f} \X (1 .. batch[f].rows)]
           sets == {{f} \X (1 .. batch[f].rows) : f \in some}
<1>1. IsFiniteSet(some)
  BY CreatedFinite, FS_Subset DEF ServerInv, Typed
<1>2. \A f \in some : IsFiniteSet({f} \X (1 .. batch[f].rows))
  <2> SUFFICES ASSUME NEW f \in some PROVE IsFiniteSet({f} \X (1 .. batch[f].rows))
    OBVIOUS
  <2>1. batch[f].rows \in Nat
    BY CreatedAreFiles DEF ServerInv, Typed, Batches
  <2>2. IsFiniteSet(1 .. batch[f].rows)
    BY <2>1, FS_Interval
  <2>3. IsFiniteSet({f})
    BY FS_Singleton
  <2> QED BY <2>2, <2>3, FS_Product
<1>3. Actions(filter) = UNION sets
  BY DEF Actions
<1> HIDE DEF some
<1>4. rowsOf \in Surjection(some, sets)
  BY DEF Surjection
<1>5. IsFiniteSet(sets)
  BY <1>1, <1>4, FS_Surjection
<1>6. \A T \in sets : IsFiniteSet(T)
  BY <1>2
<1> HIDE DEF sets
<1> QED BY <1>3, <1>5, <1>6, FS_UNION

\* A page of the list has a number of them.
LEMMA ActionListType == ASSUME ServerInv, NEW p PROVE ActionList(p) \in ActionListViews
<1> DEFINE total == Cardinality(Actions(p.filter))
           some == {k \in 0 .. total - 1 : OnPage(k, p)}
<1>1. ActionList(p) = [at |-> "actions", rows |-> Cardinality(some)]
  BY DEF ActionList
<1>2. total \in Nat
  BY ActionsFinite, FS_CardinalityType
<1>3. IsFiniteSet(0 .. total - 1)
  BY <1>2, FS_Interval
<1>4. Cardinality(some) \in Nat
  BY <1>3, FS_Subset, FS_CardinalityType
<1> HIDE DEF some
<1> QED BY <1>1, <1>4 DEF ActionListViews

\* Either list shows what is there.
LEMMA ReadListKeeps == ASSUME ServerInv, TabInv, ReadList PROVE TabInv'
<1>1. /\ view' = BatchList(pager) \/ view' = ActionList(pager)
      /\ pager' = pager /\ UNCHANGED <<server, page, import, reading>>
  BY DEF ReadList, server, import
<1>2. pager \in Pagers
  BY DEF TabInv, TabTyped
<1>3. CASE view' = BatchList(pager)
  <2>1. /\ view' \in BatchListViews
        /\ \A f \in Files :
             [batch |-> f, status |-> "ready"] \in view'.rows => batch[f].status = "ready"
    BY <1>3, BatchListType
  <2>2. view' \in Views /\ view'.at = "batches"
    BY <2>1 DEF Views, BatchListViews
  <2> QED BY <1>1, <1>2, <2>1, <2>2, ViewKeeps
<1>4. CASE view' = ActionList(pager)
  <2>1. view' \in Views /\ view'.at = "actions"
    BY <1>4, ActionListType DEF Views, ActionListViews
  <2> QED BY <1>1, <1>2, <2>1, ViewKeeps
<1> QED BY <1>1, <1>3, <1>4

\* A list that was turned or filtered is read again.
LEMMA PagerKeeps ==
    ASSUME ServerInv, TabInv, UNCHANGED <<server, page, import, reading>>, view' = NoView,
           pager' \in Pagers
    PROVE  TabInv'
<1>1. view' \in Views /\ view'.at = "none"
  BY DEF Views, NoView, None
<1> QED BY <1>1, ViewKeeps

\* What a pager is made of, and may be set to.
LEMMA PagerParts ==
    ASSUME NEW p \in Pagers
    PROVE  /\ p.filter \in {None} \cup BatchStatus \cup Files
           /\ p.number \in Nat \ {0} /\ p.size \in Nat \ {0}
           /\ \A x \in {None} \cup BatchStatus \cup Files : \A n \in Nat \ {0} :
                [p EXCEPT !.filter = x, !.number = n] \in Pagers
           /\ \A n \in Nat \ {0} : [p EXCEPT !.number = n] \in Pagers
           /\ \A n \in Nat \ {0} : \A z \in {PageSize} \cup Sizes :
                [p EXCEPT !.number = n, !.size = z] \in Pagers
<1> DEFINE F == {None} \cup BatchStatus \cup Files
           N == Nat \ {0}
           Z == {PageSize} \cup Sizes
<1>1. Z \subseteq N
  BY PageSizeAssumption
<1>2. p \in [filter : F, number : N, size : Z]
  BY DEF Pagers
<1> HIDE DEF F, N, Z
<1>3. /\ p.filter \in F /\ p.number \in N /\ p.size \in N
      /\ \A x \in F : \A n \in N :
           [p EXCEPT !.filter = x, !.number = n] \in [filter : F, number : N, size : Z]
      /\ \A n \in N : [p EXCEPT !.number = n] \in [filter : F, number : N, size : Z]
      /\ \A n \in N : \A z \in Z :
           [p EXCEPT !.number = n, !.size = z] \in [filter : F, number : N, size : Z]
  BY <1>1, <1>2
<1> QED BY <1>3 DEF Pagers, F, N, Z

\* Turning, filtering and resizing leave a filter, a number and a size.
LEMMA TurnKeeps ==
    ASSUME ServerInv, TabInv,
           \/ \E s \in {None} \cup Filters : FilterBatches(s)
           \/ \E f \in {None} \cup Created : FilterActions(f)
           \/ \E n \in 1 .. PagesOffered : TurnTo(n)
           \/ \E n \in {PageSize} \cup Sizes : ResizeActions(n)
    PROVE  TabInv'
<1>0. 1 \in Nat \ {0}
  OBVIOUS
<1>1. PICK p \in Pagers : p = pager
  BY DEF TabInv, TabTyped
<1>2. ASSUME NEW s \in {None} \cup Filters, FilterBatches(s)
      PROVE  TabInv'
  <2>1. s \in {None} \cup BatchStatus \cup Files
    BY FiltersAssumption
  <2>2. [p EXCEPT !.filter = s, !.number = 1] \in Pagers
    BY <1>0, <2>1, PagerParts
  <2>3. pager' \in Pagers
    BY <1>1, <1>2, <2>2 DEF FilterBatches
  <2>4. view' = NoView /\ UNCHANGED <<server, page, import, reading>>
    BY <1>2 DEF FilterBatches
  <2> QED BY <2>3, <2>4, PagerKeeps
<1>3. ASSUME NEW f \in {None} \cup Created, FilterActions(f)
      PROVE  TabInv'
  <2>1. f \in {None} \cup BatchStatus \cup Files
    BY CreatedAreFiles DEF ServerInv, Typed
  <2>2. p.number \in Nat \ {0}
    BY PagerParts
  <2>3. \A n \in {1, p.number} : [p EXCEPT !.filter = f, !.number = n] \in Pagers
    BY <1>0, <2>1, <2>2, PagerParts
  <2>4. pager' \in Pagers
    BY <1>1, <1>3, <2>3 DEF FilterActions
  <2>5. view' = NoView /\ UNCHANGED <<server, page, import, reading>>
    BY <1>3 DEF FilterActions
  <2> QED BY <2>4, <2>5, PagerKeeps
<1>4. ASSUME NEW n \in 1 .. PagesOffered, TurnTo(n)
      PROVE  TabInv'
  <2>1. PagesOffered \in Int
    <3>1. PICK size \in Nat \ {0}, number \in Nat : size = pager.size /\ number = pager.number
      BY <1>1, PagerParts
    <3>2. \A k \in Nat : PageCount(k, size) \in Int
      BY DEF PageCount
    <3>3. CASE view.at = "batches"
      <4>1. view \in BatchListViews
        BY <3>3 DEF TabInv, TabTyped, Views, NoView, None, BatchViews, WorkspaceViews,
                    ActionListViews
      <4> QED BY <3>1, <3>2, <3>3, <4>1 DEF PagesOffered, BatchListViews
    <3>4. CASE view.at = "actions"
      <4>1. view \in ActionListViews
        BY <3>4 DEF TabInv, TabTyped, Views, NoView, None, BatchViews, WorkspaceViews,
                    BatchListViews
      <4>2. ActionTotal(pager) \in Nat
        BY <3>1, <4>1 DEF ActionTotal, ActionListViews
      <4> QED BY <3>1, <3>2, <3>4, <4>2 DEF PagesOffered
    <3>5. CASE view.at \notin {"batches", "actions"}
      BY <3>5 DEF PagesOffered
    <3> QED BY <3>3, <3>4, <3>5
  <2>2. n \in Nat \ {0} /\ pager' = [p EXCEPT !.number = n]
    BY <1>1, <1>4, <2>1 DEF TurnTo
  <2>3. pager' \in Pagers
    BY <2>2, PagerParts
  <2>4. view' = NoView /\ UNCHANGED <<server, page, import, reading>>
    BY <1>4 DEF TurnTo
  <2> QED BY <2>3, <2>4, PagerKeeps
<1>5. ASSUME NEW n \in {PageSize} \cup Sizes, ResizeActions(n)
      PROVE  TabInv'
  <2>1. [p EXCEPT !.number = 1, !.size = n] \in Pagers
    BY <1>0, PagerParts
  <2>2. pager' \in Pagers
    BY <1>1, <1>5, <2>1 DEF ResizeActions
  <2>3. view' = NoView /\ UNCHANGED <<server, page, import, reading>>
    BY <1>5 DEF ResizeActions
  <2> QED BY <2>2, <2>3, PagerKeeps
<1> QED BY <1>2, <1>3, <1>4, <1>5

\* Going to another page.
LEMMA NavigateKeeps ==
    ASSUME ServerInv, TabInv, NEW p \in Pages, Navigate(p)
    PROVE  ServerInv' /\ TabInv'
<1>1. /\ p.at = "batch" => p.batch \in Created
      /\ Open(p) /\ UNCHANGED server
  BY DEF Navigate
<1>2. ServerInv' /\ Advances /\ Created' = Created
  BY <1>1, ServerStays DEF server, Created
<1> QED BY <1>1, <1>2, OpenKeeps

\* What is done with the form, and asking for a read that fails, changes nothing
\* that is shown.
LEMMA FormKeeps ==
    ASSUME ServerInv, TabInv, UNCHANGED <<server, page, pager, view>>,
           form' \in [file : Own, confirm : BOOLEAN] \cup {NoForm},
           upload' \in Own \cup {None}, reading' = reading \/ reading' = NoRead
    PROVE  ServerInv' /\ TabInv'
<1>1. ServerInv' /\ Advances
  BY ServerStays
<1>2. /\ page' = page /\ pager' = pager /\ view' = view
      /\ order' = order /\ batch' = batch /\ spool' = spool /\ disowned' = disowned
  BY DEF server
<1>3. TabTyped'
  BY <1>2 DEF TabInv, TabTyped, Created
<1>4. ReadTrue' /\ ViewTrue'
  BY <1>2 DEF TabInv, ReadTrue, ViewTrue, Final, Dead
<1>5. PublishedForGood' /\ FinalPageIsComplete'
  BY <1>2
  DEF TabInv, PublishedForGood, StillPublished, ShownAsReady, FinalPageIsComplete
<1> QED BY <1>1, <1>3, <1>4, <1>5 DEF TabInv

\* The steps of the import page, and a read that fails.
LEMMA FormStepsKeep ==
    ASSUME ServerInv, TabInv,
           (\E f \in Own : ChooseFile(f)) \/ Submit \/ Cancel \/ Upload \/ ReadFails
    PROVE  ServerInv' /\ TabInv'
<1>1. /\ form \in [file : Own, confirm : BOOLEAN] \cup {NoForm}
      /\ upload \in Own \cup {None}
  BY DEF TabInv, TabTyped
<1>2. CASE \E f \in Own : ChooseFile(f)
  BY <1>1, <1>2, FormKeeps DEF ChooseFile, shown
<1>3. CASE Submit
  <2>1. form \in [file : Own, confirm : BOOLEAN]
    BY <1>1, <1>3 DEF Submit, NoForm
  <2>2. form' = [form EXCEPT !.confirm = ~form.confirm]
    BY <1>3, <2>1 DEF Submit
  <2>3. form' \in [file : Own, confirm : BOOLEAN]
    BY <2>1, <2>2
  <2> QED BY <1>1, <1>3, <2>3, FormKeeps DEF Submit, shown
<1>4. CASE Cancel
  <2>1. form \in [file : Own, confirm : BOOLEAN]
    BY <1>1, <1>4 DEF Cancel, NoForm
  <2>2. form' = [form EXCEPT !.confirm = ~form.confirm]
    BY <1>4, <2>1 DEF Cancel
  <2>3. form' \in [file : Own, confirm : BOOLEAN]
    BY <2>1, <2>2
  <2> QED BY <1>1, <1>4, <2>3, FormKeeps DEF Cancel, shown
<1>5. CASE Upload
  <2>1. form.file \in Own
    BY <1>1, <1>5 DEF Upload, NoForm
  <2> QED BY <1>1, <1>5, <2>1, FormKeeps DEF Upload, shown
<1>6. CASE ReadFails
  BY <1>1, <1>6, FormKeeps DEF ReadFails, import
<1> QED BY <1>2, <1>3, <1>4, <1>5, <1>6

\* The answer of an upload to the page that waits for it or to a later one.
LEMMA AnswerKeeps ==
    ASSUME ServerInv, TabInv, NEW f \in Files, CreateBatch(f), Open(BatchPage(f))
    PROVE  ServerInv' /\ TabInv'
<1>1. ServerInv' /\ Advances /\ f \in Created'
  BY CreateKeeps
<1>2. BatchPage(f) \in Pages /\ BatchPage(f).batch = f
  BY DEF BatchPage, Pages
<1> QED BY <1>1, <1>2, OpenKeeps

\* An upload, answered or not.
LEMMA UploadKeeps ==
    ASSUME ServerInv, TabInv, UploadAnswered \/ UploadFails \/ LateAnswer
    PROVE  ServerInv' /\ TabInv'
<1>1. CASE UploadAnswered
  <2>1. PICK f \in Files : f = upload
    BY <1>1, OwnAssumption DEF UploadAnswered, TabInv, TabTyped
  <2> QED BY <1>1, <2>1, AnswerKeeps DEF UploadAnswered
<1>2. CASE LateAnswer
  <2>1. PICK f \in Files : CreateBatch(f) /\ Open(BatchPage(f))
    BY <1>2, OwnAssumption DEF LateAnswer
  <2> QED BY <2>1, AnswerKeeps
<1>3. CASE UploadFails
  <2>1. /\ UNCHANGED server \/ CreateBatch(upload)
        /\ UNCHANGED <<page, form, shown>> /\ upload' = None
    BY <1>3 DEF UploadFails
  <2>2. upload \in Files
    BY <1>3, OwnAssumption DEF UploadFails, TabInv, TabTyped
  <2>3. ServerInv' /\ Advances
    BY <2>1, <2>2, CreateKeeps, ServerStays
  <2> QED BY <2>1, <2>3, TabHeld
<1> QED BY <1>1, <1>2, <1>3

-----------------------------------------------------------------------------
(* The invariant.                                                          *)

\* Nothing has been created, and the tab shows nothing.
LEMMA InvInit == Init => IInv
<1> SUFFICES ASSUME Init PROVE IInv
  OBVIOUS
<1>1. order \in Seq(Files) /\ Created = {} /\ Len(order) = 0
  BY DEF Init, Created
<1>2. Typed
  <2>1. work \in [Workers -> [batch : Files, step : Steps] \cup {Idle}]
    BY DEF Init
  <2> QED BY <1>1, <2>1, FS_EmptySet DEF Init, Typed
<1>3. Published /\ Alone /\ Tried
  BY <1>1 DEF Init, Published, Alone, Tried
<1>4. TabTyped
  BY DEF Init, TabTyped, Pages, FirstPage, Pagers, Views
<1>5. ReadTrue /\ ViewTrue /\ FinalPageIsComplete
  BY DEF Init, ReadTrue, ViewTrue, FinalPageIsComplete
<1>6. PublishedForGood
  <2>1. view.at = "none" /\ page.at = "workspace" /\ reading = NoRead
    BY DEF Init, NoView, None
  <2> QED BY <2>1 DEF PublishedForGood, ShownAsReady
<1> QED BY <1>2, <1>3, <1>4, <1>5, <1>6 DEF IInv, ServerInv, TabInv

\* Every step keeps it.
LEMMA InvNext == IInv /\ [Next]_vars => IInv'
<1> SUFFICES ASSUME ServerInv, TabInv, [Next]_vars PROVE ServerInv' /\ TabInv'
  BY DEF IInv
<1>1. upload \in Own \cup {None}
  BY DEF TabInv, TabTyped
<1>2. CASE Others
  <2>1. PICK f \in Files : CreateBatch(f) /\ UNCHANGED tab
    BY <1>2 DEF Others
  <2>2. UNCHANGED <<page, form, shown>> /\ upload' = upload
    BY <2>1 DEF tab, import
  <2> QED BY <1>1, <2>1, <2>2, CreateKeeps, TabHeld
<1>3. CASE \E w \in Workers : WorkerStep(w) \/ Crash(w)
  <2>1. PICK w \in Workers : WorkerStep(w) \/ Crash(w)
    BY <1>3
  <2>2. UNCHANGED tab
    BY <2>1 DEF WorkerStep, Claim, Begin, Import, ImportFails, NoteFailure, Unlink, JobDone,
                JobError, Crash
  <2>3. UNCHANGED <<page, form, shown>> /\ upload' = upload
    BY <2>2 DEF tab, import
  <2> QED BY <1>1, <2>1, <2>3, WorkerKeeps, TabHeld
<1>4. CASE \E p \in Pages : Navigate(p)
  BY <1>4, NavigateKeeps
<1>5. CASE (\E f \in Own : ChooseFile(f)) \/ Submit \/ Cancel \/ Upload \/ ReadFails
  BY <1>5, FormStepsKeep
<1>6. CASE UploadAnswered \/ UploadFails \/ LateAnswer
  BY <1>6, UploadKeeps
<1>7. CASE ReadBatch \/ ReadAnswered \/ ReadWorkspace \/ ReadList
  <2>1. UNCHANGED server
    BY <1>7 DEF ReadBatch, ReadAnswered, ReadWorkspace, ReadList
  <2> QED BY <1>7, <2>1, ServerStays, ReadBatchKeeps, ReadAnsweredKeeps, ReadWorkspaceKeeps,
             ReadListKeeps
<1>8. CASE \/ \E s \in {None} \cup Filters : FilterBatches(s)
           \/ \E f \in {None} \cup Created : FilterActions(f)
           \/ \E n \in 1 .. PagesOffered : TurnTo(n)
           \/ \E n \in {PageSize} \cup Sizes : ResizeActions(n)
  <2>1. UNCHANGED server
    BY <1>8 DEF FilterBatches, FilterActions, TurnTo, ResizeActions
  <2> QED BY <1>8, <2>1, ServerStays, TurnKeeps
<1>9. CASE UNCHANGED vars
  <2>1. UNCHANGED server /\ UNCHANGED <<page, form, shown>> /\ upload' = upload
    BY <1>9 DEF vars, tab, import
  <2> QED BY <1>1, <2>1, ServerStays, TabHeld
<1> QED BY <1>2, <1>3, <1>4, <1>5, <1>6, <1>7, <1>8, <1>9 DEF Next

\* The inductive invariant of the prototype's imports and of the tab that follows
\* them.
THEOREM Invariant == Spec => []IInv
  BY InvInit, InvNext, PTL DEF Spec

\* Rows, steps and what the tab shows have their types, and no job is claimed more
\* often than its attempts allow.
THEOREM TypeCorrect == Spec => []TypeOK
<1>1. IInv => TypeOK
  <2> SUFFICES ASSUME IInv PROVE TypeOK
    OBVIOUS
  <2>1. Created \subseteq Files
    BY CreatedAreFiles DEF IInv, ServerInv, Typed
  <2>2. form \in Forms
    BY OwnAssumption DEF IInv, TabInv, TabTyped, Forms
  <2> QED BY <2>1, <2>2 DEF IInv, ServerInv, TabInv, Typed, TabTyped, TypeOK
<1> QED BY <1>1, Invariant, PTL

\* What any page showed as published stays published with its rows, unless the commit
\* was not acknowledged: then the batch may be called failed, and keeps its rows.
THEOREM PublishedForGoodHolds == Spec => []PublishedForGood
<1>1. IInv => PublishedForGood
  BY DEF IInv, TabInv
<1> QED BY <1>1, Invariant, PTL

\* No retry of a failed batch finds its file.
THEOREM RetryHasNothingToReadHolds == Spec => []RetryHasNothingToRead
<1>1. IInv => RetryHasNothingToRead
  <2> SUFFICES ASSUME IInv, NEW f \in Files, batch[f].status = "failed", job[f].status = "retry"
               PROVE  f \notin spool
    BY DEF RetryHasNothingToRead
  <2>1. f \in Created
    BY DEF IInv, ServerInv, Typed, NoBatch, None
  <2> QED BY <2>1 DEF IInv, ServerInv, Tried, Waits, Unread
<1> QED BY <1>1, Invariant, PTL

\* A page with an outcome shows all the rows the batch will ever have.
THEOREM FinalPageIsCompleteHolds == Spec => []FinalPageIsComplete
<1>1. IInv => FinalPageIsComplete
  BY DEF IInv, TabInv
<1> QED BY <1>1, Invariant, PTL

-----------------------------------------------------------------------------
(* The lists and their pages.                                              *)

\* The pager of the action list stays on its first page, and the list has no more
\* rows than that page.
FirstActions ==
    page.at = "actions" =>
        /\ pager.number = 1
        /\ view.at \in {"actions", "none"}
        /\ view.at = "actions" => view.rows \in Nat /\ view.rows <= pager.size

\* What the user sees of it.
NoSecondPage ==
    page.at = "actions" =>
        pager.number = 1 /\ (view.at = "actions" => view.rows <= pager.size)

\* As many rows as a page has are one page; what is on the first page has fewer
\* rows before it.
LEMMA OnePage ==
    ASSUME NEW p \in Pagers
    PROVE  /\ p.size \in Nat \ {0}
           /\ PageCount(p.size, p.size) = 1
           /\ p.number = 1 => \A k \in Nat : OnPage(k, p) => k < p.size
<1>1. PICK size \in Nat \ {0} : size = p.size
  BY PageSizeAssumption DEF Pagers
<1>2. \A k \in Nat : k \div size = 0 => k < size
  BY <1>1
<1>3. (size + size - 1) \div size = 1
  BY <1>1
<1> QED BY <1>1, <1>2, <1>3 DEF PageCount, OnPage

\* A page of the action list has at most as many rows as a page has.
LEMMA ActionRows ==
    ASSUME ServerInv, NEW p \in Pagers, p.number = 1
    PROVE  /\ ActionList(p).at = "actions"
           /\ ActionList(p).rows \in Nat /\ ActionList(p).rows <= p.size
<1> DEFINE total == Cardinality(Actions(p.filter))
           some == {k \in 0 .. total - 1 : OnPage(k, p)}
<1>1. ActionList(p) = [at |-> "actions", rows |-> Cardinality(some)]
  BY DEF ActionList
<1>2. total \in Nat
  BY ActionsFinite, FS_CardinalityType
<1> HIDE DEF total
<1>3. some \subseteq 0 .. p.size - 1
  BY <1>2, OnePage
<1> HIDE DEF some
<1>4. IsFiniteSet(0 .. p.size - 1) /\ Cardinality(0 .. p.size - 1) = p.size
  <2>1. p.size \in Nat \ {0}
    BY OnePage
  <2>2. 0 \in Int /\ p.size - 1 \in Int /\ ~(0 > p.size - 1)
    BY <2>1
  <2>3. /\ IsFiniteSet(0 .. p.size - 1)
        /\ Cardinality(0 .. p.size - 1) = (p.size - 1) - 0 + 1
    BY <2>2, FS_Interval
  <2> QED BY <2>1, <2>3
<1>5. Cardinality(some) \in Nat /\ Cardinality(some) <= p.size
  BY <1>3, <1>4, FS_Subset, FS_CardinalityType
<1> QED BY <1>1, <1>5

\* The pager of the first page offers that page.
LEMMA OffersOnePage ==
    ASSUME FirstActions, pager \in Pagers, page.at = "actions", view.at = "actions"
    PROVE  PagesOffered = 1
<1>1. pager.number = 1 /\ view.rows \in Nat /\ view.rows <= pager.size
  BY DEF FirstActions
<1>2. ActionTotal(pager) = pager.size
  BY <1>1, OnePage DEF ActionTotal
<1> QED BY <1>2, OnePage DEF PagesOffered

\* Every step keeps it.
LEMMA FirstActionsNext ==
    ASSUME IInv, FirstActions, [Next]_vars
    PROVE  FirstActions'
<1>0. NoView.at = "none" /\ FirstPage.number = 1
  BY DEF NoView, None, FirstPage
<1>1. CASE UNCHANGED <<page, pager, view>>
  BY <1>1 DEF FirstActions
<1>2. ASSUME NEW p, Open(p)
      PROVE  FirstActions'
  <2>1. CASE p = page
    BY <1>1, <1>2, <2>1 DEF Open, tab, shown
  <2>2. CASE p # page
    BY <1>0, <1>2, <2>2 DEF Open, FirstActions
  <2> QED BY <2>1, <2>2
<1>3. CASE ReadList
  <2>1. CASE page.at = "actions"
    <3>1. view' = ActionList(pager) /\ page' = page /\ pager' = pager
      BY <1>3, <2>1 DEF ReadList
    <3> QED BY <2>1, <3>1, ActionRows DEF FirstActions, IInv, TabInv, TabTyped
  <2>2. CASE page.at # "actions"
    BY <1>3, <2>2 DEF ReadList, FirstActions
  <2> QED BY <2>1, <2>2
<1>4. CASE ReadBatch \/ ReadWorkspace \/ \E s \in {None} \cup Filters : FilterBatches(s)
  BY <1>4 DEF ReadBatch, ReadWorkspace, FilterBatches, FirstActions
<1>5. CASE ReadAnswered
  <2>1. page.at = "batch"
    BY <1>5 DEF ReadAnswered, IInv, TabInv, ReadTrue, BatchPage
  <2> QED BY <1>5, <2>1 DEF ReadAnswered, FirstActions
<1>6. ASSUME NEW f, FilterActions(f)
      PROVE  FirstActions'
  <2>1. pager \in Pagers
    BY DEF IInv, TabInv, TabTyped
  <2> QED BY <1>0, <1>6, <2>1 DEF FilterActions, FirstActions, Pagers
<1>7. ASSUME NEW n \in 1 .. PagesOffered, TurnTo(n)
      PROVE  FirstActions'
  <2>1. page' = page /\ view' = NoView /\ pager' = [pager EXCEPT !.number = n]
    BY <1>7 DEF TurnTo
  <2>2. CASE page.at = "actions"
    <3>1. view.at = "actions"
      BY <1>7, <2>2 DEF FirstActions, PagesOffered
    <3>2. n = 1
      BY <2>2, <3>1, OffersOnePage DEF IInv, TabInv, TabTyped
    <3>3. pager \in Pagers
      BY DEF IInv, TabInv, TabTyped
    <3> QED BY <1>0, <2>1, <3>2, <3>3 DEF FirstActions, Pagers
  <2>3. CASE page.at # "actions"
    BY <2>1, <2>3 DEF FirstActions
  <2> QED BY <2>2, <2>3
<1>8. CASE \/ Others \/ Submit \/ Cancel \/ Upload \/ UploadFails \/ ReadFails
           \/ \E w \in Workers : WorkerStep(w) \/ Crash(w)
           \/ \E f \in Own : ChooseFile(f)
  BY <1>1, <1>8
  DEF Others, Submit, Cancel, Upload, UploadFails, ReadFails, ChooseFile, WorkerStep, Claim,
      Begin, Import, ImportFails, NoteFailure, Unlink, JobDone, JobError, Crash, tab, import,
      shown
<1>9. CASE UNCHANGED vars
  BY <1>1, <1>9 DEF vars, tab, shown
<1>10. ASSUME NEW n, ResizeActions(n)
       PROVE  FirstActions'
  <2>1. pager \in Pagers
    BY DEF IInv, TabInv, TabTyped
  <2> QED BY <1>0, <1>10, <2>1 DEF ResizeActions, FirstActions, Pagers
<1> QED
  BY <1>2, <1>3, <1>4, <1>5, <1>6, <1>7, <1>8, <1>9, <1>10
  DEF Next, Navigate, UploadAnswered, LateAnswer

\* The action list of the prototype is never seen to its end: whatever is imported,
\* filtered and clicked, its pager stays on the first page, so that no more actions
\* are shown than the greatest size that can be chosen.
THEOREM NoSecondPageHolds == Spec => []NoSecondPage
<1>1. Init => FirstActions
  BY DEF Init, FirstActions
<1>2. FirstActions => NoSecondPage
  BY DEF FirstActions, NoSecondPage
<1> QED BY <1>1, <1>2, FirstActionsNext, Invariant, PTL DEF Spec

\* The rows of the batch list with a filter.
ListedRow(i) == [batch |-> order[i], status |-> batch[order[i]].status]

ListPage(filter, n) == [filter |-> filter, number |-> n, size |-> PageSize]

\* Every batch with the status asked for is on one of the pages that the pager of
\* the batch list offers for so many.
BatchesAreListed ==
    \A filter \in {None} \cup BatchStatus : \A i \in Listed(filter) :
        \E n \in 1 .. PageCount(Cardinality(Listed(filter)), PageSize) :
            ListedRow(i) \in BatchList(ListPage(filter, n)).rows

\* Whatever comes after fewer than all has a page among those of all.
LEMMA PageExists ==
    ASSUME NEW total \in Nat, NEW before \in Nat, before < total
    PROVE  \E n \in 1 .. PageCount(total, PageSize) : before \div PageSize = n - 1
<1> DEFINE q == before \div PageSize
           r == (total + PageSize - 1) \div PageSize
<1>1. PageSize \in Nat /\ PageSize > 0
  BY PageSizeAssumption
<1>2. q \in Nat /\ r \in Nat
  BY <1>1
<1>3. q * PageSize <= before
  BY <1>1
<1>4. total + PageSize - 1 < (r + 1) * PageSize
  BY <1>1
<1> HIDE DEF q, r
<1>5. (q + 1) * PageSize < (r + 1) * PageSize
  <2>1. (q + 1) * PageSize = q * PageSize + PageSize
    BY <1>1, <1>2
  <2>2. q * PageSize \in Nat /\ (r + 1) * PageSize \in Nat
    BY <1>1, <1>2
  <2> QED BY <1>1, <1>3, <1>4, <2>1, <2>2
<1>6. q + 1 <= r
  <2> SUFFICES ASSUME r < q + 1 PROVE FALSE
    BY <1>2
  <2>1. (r + 1) * PageSize <= (q + 1) * PageSize
    BY <1>1, <1>2
  <2>2. (q + 1) * PageSize \in Nat /\ (r + 1) * PageSize \in Nat
    BY <1>1, <1>2
  <2> QED BY <1>5, <2>1, <2>2
<1>7. q + 1 \in 1 .. r
  BY <1>2, <1>6
<1>8. before \div PageSize = (q + 1) - 1
  BY <1>2 DEF q
<1> QED BY <1>7, <1>8 DEF PageCount, r

\* The batch list of the prototype can be read to its end, in contrast to its action
\* list: no batch is between two pages or after the last.
THEOREM BatchesAreListedHolds == Spec => []BatchesAreListed
<1>1. IInv => BatchesAreListed
  <2> SUFFICES ASSUME IInv, NEW filter \in {None} \cup BatchStatus, NEW i \in Listed(filter)
               PROVE  \E n \in 1 .. PageCount(Cardinality(Listed(filter)), PageSize) :
                         ListedRow(i) \in BatchList(ListPage(filter, n)).rows
    BY DEF BatchesAreListed
  <2> DEFINE all == Listed(filter)
             later == {j \in all : j > i}
  <2>1. IsFiniteSet(all) /\ all \subseteq Int
    <3>1. all \subseteq 1 .. Len(order)
      BY DEF Listed, IInv, ServerInv, Typed
    <3>2. IsFiniteSet(1 .. Len(order)) /\ Len(order) \in Nat
      BY FS_Interval DEF IInv, ServerInv, Typed
    <3>3. IsFiniteSet(all)
      <4> HIDE DEF all
      <4> QED BY <3>1, <3>2, FS_Subset
    <3> QED BY <3>1, <3>2, <3>3
  <2>2. /\ IsFiniteSet(all \ {i})
        /\ Cardinality(all) \in Nat /\ Cardinality(all \ {i}) = Cardinality(all) - 1
    BY <2>1, FS_RemoveElement, FS_CardinalityType
  <2>3. later \subseteq all \ {i}
    BY <2>1
  <2>4. Cardinality(later) \in Nat /\ Cardinality(later) < Cardinality(all)
    BY <2>2, <2>3, FS_Subset, FS_CardinalityType
  <2>5. PICK n \in 1 .. PageCount(Cardinality(all), PageSize) :
               Cardinality(later) \div PageSize = n - 1
    BY <2>2, <2>4, PageExists
  <2>6. ListedRow(i) \in BatchList(ListPage(filter, n)).rows
    <3> DEFINE p == ListPage(filter, n)
               some == {k \in Listed(p.filter) :
                          OnPage(Cardinality({j \in Listed(p.filter) : j > k}), p)}
    <3>1. p.filter = filter /\ p.number = n /\ p.size = PageSize
      BY DEF ListPage
    <3>2. i \in some
      BY <2>5, <3>1 DEF OnPage
    <3>3. BatchList(p).rows = {ListedRow(k) : k \in some}
      BY DEF BatchList, ListedRow
    <3> HIDE DEF p, some
    <3>4. ListedRow(i) \in BatchList(p).rows
      BY <3>2, <3>3
    <3> QED BY <3>4 DEF p
  <2> QED BY <2>5, <2>6
<1> QED BY <1>1, Invariant, PTL

-----------------------------------------------------------------------------
(* The imports implement AtomicImport.                                     *)

\* A file is open as long as somebody may still publish it.
Stage(f) ==
    IF f \notin Created THEN "absent"
    ELSE IF batch[f].rows > 0 THEN "published"
    ELSE IF Dead(f) THEN "failed" ELSE "open"

\* A batch has one list, which is published when its rows are there.
ListsOf(f) == IF batch[f].rows > 0 THEN 1 ELSE 0

\* The prototype has no stable tasks, and one worker at a time for each file.
Decisions == INSTANCE AtomicImport
    WITH Spus <- {}, Exclusive <- Files, Content <- [f \in Files |-> {}],
         stage <- [f \in Files |-> Stage(f)], lists <- [f \in Files |-> ListsOf(f)],
         tasks <- [s \in {} |-> 0]

\* The prototype decides each file once: a list is written in one step and stays,
\* even if its batch is called failed because the commit was not acknowledged; and no
\* attempt at a file that failed without a list, whatever its job says, can write one.
FilesAreDecidedOnce == Decisions!Spec

\* At most the stage of f moves, and the way AtomicImport allows.
StageMoves(f) ==
    /\ \A g \in Files \ {f} : Stage(g)' = Stage(g) /\ ListsOf(g)' = ListsOf(g)
    /\ \/ Stage(f)' = Stage(f) /\ ListsOf(f)' = ListsOf(f)
       \/ Stage(f) = "absent" /\ Stage(f)' = "open" /\ ListsOf(f)' = ListsOf(f)
       \/ /\ Stage(f) = "open" /\ Stage(f)' = "published"
          /\ ListsOf(f) = 0 /\ ListsOf(f)' = 1
       \/ Stage(f) = "open" /\ Stage(f)' = "failed" /\ ListsOf(f)' = ListsOf(f)

\* That is a step of AtomicImport, or is not seen there.
LEMMA StageStep ==
    ASSUME NEW f \in Files, StageMoves(f)
    PROVE  [Decisions!Next]_(Decisions!vars)
<1> DEFINE stage == [g \in Files |-> Stage(g)]
           lists == [g \in Files |-> ListsOf(g)]
<1>1. /\ \A g \in Files \ {f} : Stage(g)' = Stage(g) /\ ListsOf(g)' = ListsOf(g)
      /\ stage[f] = Stage(f) /\ lists[f] = ListsOf(f)
      /\ [s \in {} |-> 0]' = [s \in {} |-> 0]
  BY DEF StageMoves
<1>2. stage' = [stage EXCEPT ![f] = Stage(f)'] /\ lists' = [lists EXCEPT ![f] = ListsOf(f)']
  <2>1. \A g \in Files : stage'[g] = Stage(g)' /\ lists'[g] = ListsOf(g)'
    OBVIOUS
  <2> QED BY <1>1, <2>1
<1>3. CASE Stage(f)' = Stage(f) /\ ListsOf(f)' = ListsOf(f)
  <2>1. stage' = stage /\ lists' = lists
    BY <1>1, <1>3
  <2> QED BY <1>1, <2>1 DEF Decisions!vars
<1>4. CASE Stage(f) = "absent" /\ Stage(f)' = "open" /\ ListsOf(f)' = ListsOf(f)
  <2>1. stage' = [stage EXCEPT ![f] = "open"] /\ lists' = lists
    BY <1>1, <1>2, <1>4
  <2>2. Decisions!Upload(f)
    BY <1>1, <1>4, <2>1 DEF Decisions!Upload
  <2> QED BY <2>2 DEF Decisions!Next
<1>5. CASE /\ Stage(f) = "open" /\ Stage(f)' = "published"
           /\ ListsOf(f) = 0 /\ ListsOf(f)' = 1
  <2>1. stage' = [stage EXCEPT ![f] = "published"] /\ lists' = [lists EXCEPT ![f] = 1]
    BY <1>2, <1>5
  <2>2. Decisions!Undecided(f) /\ lists[f] = 0
    BY <1>1, <1>5 DEF Decisions!Undecided
  <2>3. \A h : [s \in {} |-> 0]' = [s \in {} |-> h[s]]
    OBVIOUS
  <2>4. Decisions!Publish(f)
    BY <2>1, <2>2, <2>3 DEF Decisions!Publish
  <2> QED BY <2>4 DEF Decisions!Next
<1>6. CASE Stage(f) = "open" /\ Stage(f)' = "failed" /\ ListsOf(f)' = ListsOf(f)
  <2>1. stage' = [stage EXCEPT ![f] = "failed"] /\ lists' = lists
    BY <1>1, <1>2, <1>6
  <2>2. Decisions!Undecided(f)
    BY <1>1, <1>6 DEF Decisions!Undecided
  <2>3. Decisions!Fail(f)
    BY <1>1, <2>1, <2>2 DEF Decisions!Fail
  <2> QED BY <2>3 DEF Decisions!Next
<1> QED BY <1>3, <1>4, <1>5, <1>6 DEF StageMoves

\* A step of a worker touches its batch f and no other.
Touches(f) ==
    /\ order' = order
    /\ \A g \in Files \ {f} : batch'[g] = batch[g] /\ (g \in spool' <=> g \in spool)

\* Every step of a worker does.
LEMMA WorkerTouches ==
    ASSUME ServerInv, NEW w \in Workers, WorkerStep(w) \/ Crash(w)
    PROVE  \E f \in Created : Touches(f)
<1>1. DOMAIN batch = Files
  BY DEF ServerInv, Typed
<1>2. CASE Claim(w)
  <2>1. PICK f \in Created : Claimable(f)
    BY <1>2 DEF Claim
  <2>2. Touches(f)
    BY <1>2 DEF Touches, Claim
  <2> QED BY <2>2
<1>3. CASE Crash(w) \/ JobError(w) \/ JobDone(w) \/ Begin(w) \/ Import(w) \/ ImportFails(w)
           \/ NoteFailure(w) \/ Unlink(w)
  <2>1. work[w] # Idle
    BY <1>3 DEF Crash, JobError, JobDone, Begin, Import, ImportFails, NoteFailure, Unlink, At
  <2>2. PICK f \in Created : f = work[w].batch
    BY <2>1, WorkerHas
  <2>3. Touches(f)
    BY <1>1, <1>3, <2>2
    DEF Touches, Crash, JobError, JobDone, Begin, Import, ImportFails, NoteFailure, Unlink,
        Kept
  <2> QED BY <2>3
<1> QED BY <1>2, <1>3 DEF WorkerStep

\* So its step is one of AtomicImport about that file: what is decided stays.
LEMMA WorkerDecides ==
    ASSUME ServerInv, NEW w \in Workers, WorkerStep(w) \/ Crash(w)
    PROVE  \E f \in Files : StageMoves(f)
<1>1. PICK f \in Created : Touches(f)
  BY WorkerTouches
<1>2. f \in Files /\ Created' = Created
  BY <1>1, CreatedAreFiles DEF Touches, Created, ServerInv, Typed
<1>3. ServerInv' /\ Advances
  BY WorkerKeeps
<1>4. ASSUME NEW g \in Files \ {f}
      PROVE  Stage(g)' = Stage(g) /\ ListsOf(g)' = ListsOf(g)
  <2>1. batch'[g] = batch[g] /\ (g \in spool' <=> g \in spool)
    BY <1>1 DEF Touches
  <2>2. Dead(g)' <=> Dead(g)
    BY <2>1 DEF Dead
  <2> QED BY <1>2, <2>1, <2>2 DEF Stage, ListsOf
<1>5. CASE batch[f].rows > 0
  <2>1. batch'[f].rows > 0
    BY <1>3, <1>5 DEF Advances
  <2> QED BY <1>1, <1>2, <1>4, <1>5, <2>1 DEF StageMoves, Stage, ListsOf
<1>6. CASE Dead(f)
  <2>1. Dead(f)'
    BY <1>3, <1>6 DEF Advances
  <2>2. ~(batch[f].rows > 0) /\ ~(batch'[f].rows > 0)
    BY <1>6, <2>1 DEF Dead
  <2> QED BY <1>1, <1>2, <1>4, <1>6, <2>1, <2>2 DEF StageMoves, Stage, ListsOf
<1>7. CASE ~(batch[f].rows > 0) /\ ~Dead(f)
  <2>1. Stage(f) = "open" /\ ListsOf(f) = 0
    BY <1>1, <1>7 DEF Stage, ListsOf
  <2>2. \/ Stage(f)' = "published" /\ ListsOf(f)' = 1
        \/ Stage(f)' \in {"failed", "open"} /\ ListsOf(f)' = 0
    BY <1>1, <1>2 DEF Stage, ListsOf
  <2> QED BY <1>2, <1>4, <2>1, <2>2 DEF StageMoves
<1> QED BY <1>5, <1>6, <1>7

\* Nothing is seen of a step that leaves the server alone.
LEMMA NothingDecided ==
    ASSUME UNCHANGED server
    PROVE  [Decisions!Next]_(Decisions!vars)
<1>1. \A g \in Files : Stage(g)' = Stage(g) /\ ListsOf(g)' = ListsOf(g)
  BY DEF server, Stage, ListsOf, Dead, Created
<1>2. UNCHANGED Decisions!vars
  BY <1>1 DEF Decisions!vars
<1> QED BY <1>2

\* An upload opens its file, or finds what became of it.
LEMMA UploadOpens ==
    ASSUME ServerInv, NEW f \in Files, CreateBatch(f)
    PROVE  [Decisions!Next]_(Decisions!vars)
<1>1. CASE f \in Created
  BY <1>1, NothingDecided DEF CreateBatch
<1>2. CASE f \notin Created
  <2>1. /\ order' = Append(order, f) /\ order \in Seq(Files)
        /\ batch' = [batch EXCEPT ![f] = [status |-> "received", rows |-> 0, named |-> TRUE]]
        /\ spool' = spool \cup {f}
        /\ batch[f] = NoBatch /\ DOMAIN batch = Files
    BY <1>2 DEF CreateBatch, ServerInv, Typed
  <2>2. /\ batch'[f].status = "received" /\ batch[f].status = "none"
        /\ batch'[f].rows = 0 /\ batch[f].rows = 0
        /\ \A g \in Files \ {f} : batch'[g] = batch[g] /\ (g \in spool' <=> g \in spool)
    BY <2>1 DEF NoBatch, None
  <2>3. f \in Created' /\ \A g \in Files \ {f} : g \in Created' <=> g \in Created
    <3>1. /\ Len(order') = Len(order) + 1 /\ Len(order) \in Nat
          /\ DOMAIN order' = 1 .. Len(order) + 1 /\ DOMAIN order = 1 .. Len(order)
          /\ order'[Len(order) + 1] = f
          /\ \A i \in 1 .. Len(order) : order'[i] = order[i]
      BY <2>1
    <3> QED BY <3>1 DEF Created
  <2>4. ASSUME NEW g \in Files \ {f}
        PROVE  Stage(g)' = Stage(g) /\ ListsOf(g)' = ListsOf(g)
    <3>1. Dead(g)' <=> Dead(g)
      BY <2>1, <2>2 DEF Dead
    <3> QED BY <2>2, <2>3, <3>1 DEF Stage, ListsOf
  <2>5. Stage(f) = "absent" /\ Stage(f)' = "open" /\ ListsOf(f)' = ListsOf(f)
    BY <1>2, <2>2, <2>3 DEF Stage, ListsOf, Dead
  <2> QED BY <2>4, <2>5, StageStep DEF StageMoves
<1> QED BY <1>1, <1>2

\* Every step is one of AtomicImport, or is not seen there.
LEMMA DecisionsNext == IInv /\ [Next]_vars => [Decisions!Next]_(Decisions!vars)
<1> SUFFICES ASSUME IInv, [Next]_vars PROVE [Decisions!Next]_(Decisions!vars)
  OBVIOUS
<1>1. ServerInv
  BY DEF IInv
<1>2. CASE Others
  BY <1>1, <1>2, UploadOpens DEF Others
<1>3. CASE \E w \in Workers : WorkerStep(w) \/ Crash(w)
  BY <1>1, <1>3, WorkerDecides, StageStep
<1>4. CASE UploadAnswered \/ UploadFails \/ LateAnswer
  <2>1. UNCHANGED server \/ \E f \in Files : CreateBatch(f)
    BY <1>4, OwnAssumption
    DEF UploadAnswered, UploadFails, LateAnswer, IInv, TabInv, TabTyped
  <2> QED BY <1>1, <2>1, UploadOpens, NothingDecided
<1>5. CASE \/ (\E f \in Own : ChooseFile(f)) \/ Submit \/ Cancel \/ Upload
           \/ ReadBatch \/ ReadAnswered \/ ReadFails \/ ReadWorkspace \/ ReadList
           \/ (\E p \in Pages : Navigate(p))
           \/ (\E s \in {None} \cup Filters : FilterBatches(s))
           \/ (\E f \in {None} \cup Created : FilterActions(f))
           \/ (\E n \in 1 .. PagesOffered : TurnTo(n))
           \/ (\E n \in {PageSize} \cup Sizes : ResizeActions(n))
           \/ UNCHANGED vars
  <2>1. UNCHANGED server
    BY <1>5 DEF ChooseFile, Submit, Cancel, Upload, ReadBatch, ReadAnswered, ReadFails,
                ReadWorkspace, ReadList, Navigate, FilterBatches, FilterActions, TurnTo,
                ResizeActions, vars
  <2> QED BY <2>1, NothingDecided
<1> QED BY <1>2, <1>3, <1>4, <1>5 DEF Next

\* Refinement: the prototype's imports implement AtomicImport, whose stages are told by
\* the rows: the list of a file is written once and stays, or never, though its jobs
\* are tried again.  What the batch says of it is no part of this: see RowsTold.
THEOREM FilesAreDecidedOnceHolds == Spec => FilesAreDecidedOnce
<1>1. Init => Decisions!Init
  <2> SUFFICES ASSUME Init PROVE Decisions!Init
    OBVIOUS
  <2>1. \A f \in Files : Stage(f) = "absent" /\ ListsOf(f) = 0
    BY DEF Init, Stage, ListsOf, Created, NoBatch, None
  <2> QED BY <2>1 DEF Decisions!Init
<1> QED BY <1>1, DecisionsNext, Invariant, PTL DEF Spec, FilesAreDecidedOnce, Decisions!Spec

=============================================================================
