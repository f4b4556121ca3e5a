-------------------------- MODULE BatchPipelineProofs --------------------------
(***************************************************************************)
(* The safety of BatchPipeline for every number of workers, batches, SPUs    *)
(* and faults, whatever the files hold and whichever batches are steady.     *)
(*                                                                         *)
(* The lists and tasks are written once because of the locks PostgreSQL       *)
(* holds for an open transaction: Locked says what they protect.  A steady    *)
(* batch is decided once because of its lease: Owned says who may decide it.  *)
(* Worked adds that nobody works on a file before its claim, and with that     *)
(* every step is one of AtomicImport or is not seen there.                    *)
(*                                                                         *)
(* Somebody can always go on: who waits follows the one it waits for, finitely*)
(* many workers end in a circle, and a circle loses a victim.               *)
(***************************************************************************)
EXTENDS BatchPipeline, TLAPS, SequenceTheorems, FiniteSetTheorems, WellFoundedInduction

\* Where a worker is tells what it has in its hands.
Placed ==
    \A w \in Workers :
        /\ pc[w] = "idle" <=> cur[w] = None
        /\ pc[w] \notin {"looking", "inserting"} => row[w] = 0
        /\ pc[w] = "looking" => row[w] \in 1 .. Len(File(w)) + 1
        /\ pc[w] = "inserting" => row[w] \in DOMAIN File(w)

\* What an open transaction has written is nobody else's and not yet committed;
\* a task it holds is its own or one that is there.
Locked ==
    \A w \in Workers :
        /\ \A b \in Batches : HoldsList(w, b) =>
             lists[b] = 0 /\ \A v \in Workers \ {w} : ~HoldsList(v, b)
        /\ \A s \in Spus : HoldsTask(w, s) =>
             /\ tasks[s] = IF s \in fresh[w] THEN 0 ELSE 1
             /\ \A v \in Workers \ {w} : ~HoldsTask(v, s)
        /\ \A s \in fresh[w] : HoldsTask(w, s)

\* Only the worker that holds the lease of a steady batch can decide it.
Owned ==
    \A w \in Workers : cur[w] \in Steady =>
        /\ cur[w] \in leased /\ job[cur[w]] = "processing"
        /\ \A v \in Workers \ {w} : cur[v] # cur[w]

\* A steady batch with a list is shown as ready.
ListIsShown == \A b \in Steady : lists[b] > 0 => batch[b] = "ready"

IInv ==
    /\ TypeOK /\ Placed /\ Locked /\ Owned
    /\ WrittenOnce /\ ReadyIsComplete /\ JobAgreesWithBatch /\ ListIsShown

-----------------------------------------------------------------------------
(* Facts about files and locks.                                            *)

\* A busy worker has a batch, and the file of the batch is a list of SPUs.
LEMMA BusyFile ==
    ASSUME TypeOK, Placed, NEW w \in Workers, pc[w] # "idle"
    PROVE  /\ cur[w] \in Batches
           /\ File(w) \in Seq(Spus) /\ DOMAIN File(w) = 1 .. Len(File(w))
           /\ Len(File(w)) \in Nat /\ row[w] \in Nat
           /\ \A i \in DOMAIN File(w) : File(w)[i] \in Spus
<1>1. cur[w] \in Batches
  BY NamesAssumption DEF TypeOK, Placed
<1>2. File(w) \in Seq(Spus)
  BY <1>1, RowsAssumption DEF File
<1>3. row[w] \in Nat
  BY DEF TypeOK
<1> QED
  BY <1>1, <1>2, <1>3, LenProperties, ElementOfSeq

\* What only w does changes the locks of nobody else.
LEMMA OthersStay ==
    ASSUME NEW w, NEW v, v # w,
           pc'[v] = pc[v], cur'[v] = cur[v], row'[v] = row[v]
    PROVE  /\ \A b : HoldsList(v, b)' <=> HoldsList(v, b)
           /\ \A s : HoldsTask(v, s)' <=> HoldsTask(v, s)
           /\ File(v)' = File(v)
  BY DEF HoldsList, HoldsTask, File

\* What a step of w leaves of the other workers.
OnlyMoves(w) ==
    \A v \in Workers \ {w} :
        pc'[v] = pc[v] /\ cur'[v] = cur[v] /\ row'[v] = row[v] /\ fresh'[v] = fresh[v]

\* A worker that leaves or rolls back lets go of everything.
Released(w) ==
    /\ OnlyMoves(w)
    /\ pc'[w] \in {"idle", "failing"} /\ row'[w] = 0 /\ fresh'[w] = {}
    /\ cur'[w] = IF pc'[w] = "idle" THEN None ELSE cur[w]
    /\ pc' \in [Workers -> Places] /\ cur' \in [Workers -> Batches \cup {None}]
    /\ row' \in [Workers -> Nat] /\ fresh' \in [Workers -> SUBSET Spus]

\* Leave and RollBack are releases.
LEMMA Releases ==
    ASSUME TypeOK, NEW w \in Workers, Leave(w) \/ RollBack(w)
    PROVE  /\ Released(w)
           /\ RollBack(w) => pc'[w] = "failing"
           /\ Leave(w) => pc'[w] = "idle"
<1>1. pc \in [Workers -> Places] /\ cur \in [Workers -> Batches \cup {None}]
      /\ row \in [Workers -> Nat] /\ fresh \in [Workers -> SUBSET Spus]
  BY DEF TypeOK
<1>2. CASE Leave(w)
  BY <1>1, <1>2 DEF Leave, RollBack, Released, OnlyMoves, Places
<1>3. CASE RollBack(w)
  BY <1>1, <1>3 DEF RollBack, Leave, Released, OnlyMoves, Places
<1> QED BY <1>2, <1>3

\* Who released its transaction holds nothing; what nobody committed stays.
LEMMA ReleaseKeepsWorkers ==
    ASSUME TypeOK, Placed, Locked, NEW w \in Workers, Released(w), pc[w] # "idle",
           UNCHANGED <<lists, tasks>>
    PROVE  Placed' /\ Locked'
<1>1. \A v \in Workers : v # w =>
        /\ pc'[v] = pc[v] /\ cur'[v] = cur[v] /\ row'[v] = row[v] /\ fresh'[v] = fresh[v]
        /\ \A b : HoldsList(v, b)' <=> HoldsList(v, b)
        /\ \A s : HoldsTask(v, s)' <=> HoldsTask(v, s)
        /\ File(v)' = File(v)
  BY OthersStay DEF Released, OnlyMoves
<1>2. /\ \A b : ~HoldsList(w, b)'
      /\ \A s : ~HoldsTask(w, s)'
  BY DEF Released, HoldsList, HoldsTask
<1>3. cur[w] \in Batches /\ None \notin Batches
  BY BusyFile, NamesAssumption
<1>4. Placed'
  BY <1>1, <1>3 DEF Placed, Released
<1>5. Locked'
  BY <1>1, <1>2 DEF Locked, Released
<1> QED BY <1>4, <1>5

-----------------------------------------------------------------------------
(* The steps of a transaction.                                             *)

\* What a statement of w that is done leaves of the workers.
Goes(w) ==
    /\ pc' \in [Workers -> Places] /\ row' \in [Workers -> Nat]
    /\ fresh' \in [Workers -> SUBSET Spus] /\ cur' = cur
    /\ File(w)' = File(w)
    /\ \A v \in Workers : v # w =>
         /\ pc'[v] = pc[v] /\ row'[v] = row[v] /\ fresh'[v] = fresh[v]
         /\ \A b : HoldsList(v, b)' <=> HoldsList(v, b)
         /\ \A s : HoldsTask(v, s)' <=> HoldsTask(v, s)
         /\ File(v)' = File(v)

\* A statement changes the place, the row and what was inserted, of w alone.
LEMMA StatementGoes ==
    ASSUME TypeOK, NEW w \in Workers, NEW place \in Places,
           \/ NextRow(w, place)
           \/ pc' = [pc EXCEPT ![w] = place] /\ UNCHANGED <<cur, row>>,
           \/ UNCHANGED fresh
           \/ Spu(w) \in Spus /\ fresh' = [fresh EXCEPT ![w] = @ \cup {Spu(w)}]
    PROVE  Goes(w)
<1>1. /\ pc \in [Workers -> Places] /\ row \in [Workers -> Nat]
      /\ fresh \in [Workers -> SUBSET Spus]
  BY DEF TypeOK
<1>2. /\ pc' \in [Workers -> Places] /\ cur' = cur
      /\ \A v \in Workers : v # w => pc'[v] = pc[v]
  BY <1>1 DEF NextRow
<1>3. /\ row' \in [Workers -> Nat]
      /\ \A v \in Workers : v # w => row'[v] = row[v]
  BY <1>1 DEF NextRow
<1>4. /\ fresh' \in [Workers -> SUBSET Spus]
      /\ \A v \in Workers : v # w => fresh'[v] = fresh[v]
  <2>1. CASE UNCHANGED fresh
    BY <1>1, <2>1
  <2>2. CASE Spu(w) \in Spus /\ fresh' = [fresh EXCEPT ![w] = @ \cup {Spu(w)}]
    <3>1. fresh[w] \cup {Spu(w)} \in SUBSET Spus
      BY <1>1, <2>2
    <3> QED BY <1>1, <2>2, <3>1
  <2> QED BY <2>1, <2>2
<1> QED BY <1>2, <1>3, <1>4, OthersStay DEF Goes, File

\* The next statement of w, which nobody else's lock is in the way of.
LEMMA StatementKeepsWorkers ==
    ASSUME TypeOK, Placed, Locked, WrittenOnce, NEW w \in Workers,
           InsertList(w) \/ LookUp(w) \/ InsertTask(w)
    PROVE  Placed' /\ Locked' /\ UNCHANGED database
                   /\ pc' \in [Workers -> Places] /\ UNCHANGED faults
                   /\ cur' \in [Workers -> Batches \cup {None}]
                   /\ row' \in [Workers -> Nat] /\ fresh' \in [Workers -> SUBSET Spus]
                   /\ cur' = cur
<1>1. /\ pc \in [Workers -> Places] /\ cur \in [Workers -> Batches \cup {None}]
      /\ row \in [Workers -> Nat] /\ fresh \in [Workers -> SUBSET Spus]
      /\ lists \in [Batches -> Nat] /\ tasks \in [Spus -> Nat]
  BY DEF TypeOK
<1>2. pc[w] # "idle" /\ UNCHANGED <<database, faults>>
  BY DEF InsertList, LookUp, InsertTask
<1>3. /\ cur[w] \in Batches
      /\ File(w) \in Seq(Spus) /\ DOMAIN File(w) = 1 .. Len(File(w))
      /\ Len(File(w)) \in Nat /\ row[w] \in Nat
      /\ \A i \in DOMAIN File(w) : File(w)[i] \in Spus
  BY <1>2, BusyFile
<1>4. CASE RollBack(w)
  <2>1. Released(w) /\ pc'[w] = "failing"
    BY <1>4, Releases
  <2> QED BY <1>2, <1>4, <2>1, ReleaseKeepsWorkers DEF Released, RollBack, database
<1>5. {"looking", "inserting"} \subseteq Places
  BY DEF Places
<1>6. CASE /\ pc[w] = "listing" /\ ~Waits(w) /\ lists[cur[w]] = 0
           /\ NextRow(w, "looking") /\ UNCHANGED fresh
  <2>1. Goes(w)
    BY <1>6, <1>5, StatementGoes
  <2>2. row[w] = 0 /\ row'[w] = 1 /\ pc'[w] = "looking"
    BY <1>1, <1>6 DEF Placed, NextRow
  <2>3. /\ \A b : HoldsList(w, b)' <=> b = cur[w]
        /\ \A s : ~HoldsTask(w, s)' /\ ~HoldsTask(w, s)
    <3>1. \A i \in DOMAIN File(w) : ~(i < 1)
      BY <1>3
    <3> QED BY <1>6, <2>1, <2>2, <3>1 DEF Goes, HoldsList, HoldsTask
  <2>4. \A v \in Workers : v # w => ~HoldsList(v, cur[w])
    BY <1>6 DEF Waits, WaitsFor
  <2>5. Placed'
    BY <1>3, <2>1, <2>2, <1>6 DEF Goes, Placed
  <2>6. fresh[w] = {}
    BY <1>1, <2>3 DEF Locked
  <2>7. Locked'
    BY <1>2, <1>6, <2>1, <2>3, <2>4, <2>6 DEF Goes, Locked, database
  <2> QED BY <1>1, <1>2, <2>1, <2>5, <2>7 DEF Goes
<1>7. CASE /\ pc[w] = "looking" /\ AtRow(w) /\ ~Waits(w) /\ tasks[Spu(w)] > 0
           /\ NextRow(w, "looking") /\ UNCHANGED fresh
  <2>1. Goes(w)
    BY <1>7, <1>5, StatementGoes
  <2>2. /\ row'[w] = row[w] + 1 /\ pc'[w] = "looking" /\ row[w] \in DOMAIN File(w)
        /\ Spu(w) \in Spus
    BY <1>1, <1>3, <1>7 DEF AtRow, Spu, NextRow
  <2>3. /\ \A b : HoldsList(w, b)' <=> HoldsList(w, b)
        /\ \A s : HoldsTask(w, s)' <=> HoldsTask(w, s) \/ s = Spu(w)
    <3>1. \A i \in DOMAIN File(w) : i < row[w] + 1 <=> i < row[w] \/ i = row[w]
      BY <1>3
    <3> QED BY <1>7, <2>1, <2>2, <3>1 DEF Goes, HoldsList, HoldsTask, Spu
  <2>4. /\ \A v \in Workers : v # w => ~HoldsTask(v, Spu(w))
        /\ tasks[Spu(w)] = 1
    BY <1>1, <1>7, <2>2 DEF Waits, WaitsFor, WrittenOnce
  <2>5. Placed'
    BY <1>3, <2>1, <2>2, <1>7 DEF Goes, Placed
  <2>6. Locked'
    <3>1. Spu(w) \notin fresh[w]
      BY <2>2, <2>4 DEF Locked
    <3> QED BY <1>2, <1>7, <2>1, <2>3, <2>4, <3>1 DEF Goes, Locked, database
  <2> QED BY <1>1, <1>2, <2>1, <2>5, <2>6 DEF Goes
<1>8. CASE /\ pc[w] = "looking" /\ AtRow(w) /\ ~Waits(w)
           /\ pc' = [pc EXCEPT ![w] = "inserting"] /\ UNCHANGED <<cur, row, fresh>>
  <2>1. Goes(w)
    BY <1>8, <1>5, StatementGoes
  <2>2. row' = row /\ pc'[w] = "inserting" /\ row[w] \in DOMAIN File(w)
    BY <1>1, <1>8 DEF AtRow
  <2>3. /\ \A b : HoldsList(w, b)' <=> HoldsList(w, b)
        /\ \A s : HoldsTask(w, s)' <=> HoldsTask(w, s)
    BY <1>8, <2>1, <2>2 DEF Goes, HoldsList, HoldsTask
  <2>4. Placed'
    BY <1>3, <2>1, <2>2, <1>8 DEF Goes, Placed
  <2>5. Locked'
    BY <1>2, <1>8, <2>1, <2>3 DEF Goes, Locked, database
  <2> QED BY <1>1, <1>2, <2>1, <2>4, <2>5 DEF Goes
<1>9. CASE /\ pc[w] = "inserting" /\ ~Waits(w) /\ tasks[Spu(w)] = 0
           /\ NextRow(w, "looking") /\ fresh' = [fresh EXCEPT ![w] = @ \cup {Spu(w)}]
  <2>0. row[w] \in DOMAIN File(w) /\ AtRow(w)
    BY <1>9 DEF Placed, AtRow
  <2>1. Goes(w)
    BY <1>3, <1>9, <1>5, <2>0, StatementGoes DEF Spu
  <2>2. /\ row'[w] = row[w] + 1 /\ pc'[w] = "looking" /\ Spu(w) \in Spus
        /\ fresh'[w] = fresh[w] \cup {Spu(w)}
    BY <1>1, <1>3, <1>9, <2>0 DEF Spu, NextRow
  <2>3. /\ \A b : HoldsList(w, b)' <=> HoldsList(w, b)
        /\ \A s : HoldsTask(w, s)' <=> HoldsTask(w, s) \/ s = Spu(w)
    <3>1. \A i \in DOMAIN File(w) : i < row[w] + 1 <=> i < row[w] \/ i = row[w]
      BY <1>3, <2>0
    <3> QED BY <1>9, <2>0, <2>1, <2>2, <3>1 DEF Goes, HoldsList, HoldsTask, Spu
  <2>4. \A v \in Workers : v # w => ~HoldsTask(v, Spu(w))
    BY <1>9, <2>0 DEF Waits, WaitsFor
  <2>5. Placed'
    BY <1>3, <2>0, <2>1, <2>2, <1>9 DEF Goes, Placed
  <2>6. Locked'
    <3>1. UNCHANGED <<lists, tasks>> /\ \A v \in Workers : v # w => fresh'[v] = fresh[v]
      BY <1>1, <1>2, <1>9 DEF database
    <3>2. ASSUME NEW v \in Workers, NEW b \in Batches, HoldsList(v, b)'
          PROVE  lists'[b] = 0 /\ \A u \in Workers \ {v} : ~HoldsList(u, b)'
      BY <1>2, <2>1, <2>3, <3>1, <3>2 DEF Goes, Locked
    <3>3. ASSUME NEW v \in Workers, NEW s \in Spus, HoldsTask(v, s)'
          PROVE  /\ tasks'[s] = IF s \in fresh'[v] THEN 0 ELSE 1
                 /\ \A u \in Workers \ {v} : ~HoldsTask(u, s)'
      BY <1>2, <1>9, <2>1, <2>2, <2>3, <2>4, <3>1, <3>3 DEF Goes, Locked
    <3>4. ASSUME NEW v \in Workers, NEW s \in fresh'[v] PROVE HoldsTask(v, s)'
      BY <1>2, <2>1, <2>2, <2>3, <3>1, <3>4 DEF Goes, Locked
    <3> QED BY <3>2, <3>3, <3>4 DEF Locked
  <2> QED BY <1>1, <1>2, <2>1, <2>5, <2>6 DEF Goes
<1> QED
  BY <1>4, <1>6, <1>7, <1>8, <1>9 DEF InsertList, LookUp, InsertTask

-----------------------------------------------------------------------------
(* The commit.                                                             *)

\* A commit writes the list and makes the tasks of the whole file exist; the
\* other transactions keep what they hold.
LEMMA PublishEffect ==
    ASSUME TypeOK, Placed, Locked, WrittenOnce, ReadyIsComplete,
           NEW w \in Workers, AtEnd(w), Publish(w), Released(w)
    PROVE  /\ Placed' /\ Locked' /\ WrittenOnce' /\ ReadyIsComplete'
           /\ lists' \in [Batches -> Nat] /\ tasks' \in [Spus -> Nat]
<1>1. /\ lists \in [Batches -> Nat] /\ tasks \in [Spus -> Nat]
      /\ batch \in [Batches -> BatchStatus] /\ fresh \in [Workers -> SUBSET Spus]
  BY DEF TypeOK
<1>2. pc[w] = "looking" /\ row[w] = Len(File(w)) + 1
  BY DEF AtEnd
<1>3. /\ cur[w] \in Batches /\ None \notin Batches
      /\ DOMAIN File(w) = 1 .. Len(File(w)) /\ Len(File(w)) \in Nat
      /\ \A i \in DOMAIN File(w) : File(w)[i] \in Spus
  BY <1>2, BusyFile, NamesAssumption
<1>4. HoldsList(w, cur[w]) /\ \A i \in DOMAIN File(w) : HoldsTask(w, File(w)[i])
  BY <1>2, <1>3 DEF HoldsList, HoldsTask
<1>5. lists[cur[w]] = 0
  BY <1>3, <1>4 DEF Locked
<1>6. /\ lists' \in [Batches -> Nat] /\ lists'[cur[w]] = 1
      /\ \A b \in Batches : b # cur[w] => lists'[b] = lists[b]
  BY <1>1, <1>3, <1>5 DEF Publish
<1>7. /\ tasks' \in [Spus -> Nat]
      /\ \A s \in Spus : tasks'[s] = tasks[s] + IF s \in fresh[w] THEN 1 ELSE 0
  BY <1>1 DEF Publish
<1>8. /\ \A s \in Spus : HoldsTask(w, s) => tasks'[s] = 1
      /\ \A s \in Spus : ~HoldsTask(w, s) => tasks'[s] = tasks[s]
      /\ \A s \in Spus : tasks[s] = 1 => tasks'[s] = 1
  BY <1>1, <1>7 DEF Locked
<1>9. \A v \in Workers : v # w =>
        /\ pc'[v] = pc[v] /\ cur'[v] = cur[v] /\ row'[v] = row[v] /\ fresh'[v] = fresh[v]
        /\ \A b : HoldsList(v, b)' <=> HoldsList(v, b)
        /\ \A s : HoldsTask(v, s)' <=> HoldsTask(v, s)
        /\ File(v)' = File(v)
  BY OthersStay DEF Released, OnlyMoves
<1>10. /\ \A b : ~HoldsList(w, b)'
       /\ \A s : ~HoldsTask(w, s)'
  BY DEF Released, HoldsList, HoldsTask
<1>11. Placed'
  BY <1>3, <1>9, <1>2 DEF Placed, Released
<1>12. Locked'
  <2>1. \A v \in Workers : v # w => \A b \in Batches : HoldsList(v, b) => b # cur[w]
    BY <1>3, <1>4 DEF Locked
  <2>2. \A v \in Workers : v # w => \A s \in Spus : HoldsTask(v, s) => ~HoldsTask(w, s)
    BY DEF Locked
  <2> QED BY <1>6, <1>8, <1>9, <1>10, <2>1, <2>2 DEF Locked, Released
<1>13. WrittenOnce'
  BY <1>6, <1>8 DEF WrittenOnce
<1>14. ReadyIsComplete'
  <2> SUFFICES ASSUME NEW b \in Batches, batch'[b] = "ready"
               PROVE  /\ lists'[b] = 1
                      /\ \A i \in DOMAIN Rows[b] : tasks'[Rows[b][i]] = 1
    BY DEF ReadyIsComplete
  <2>1. CASE b = cur[w]
    BY <1>3, <1>4, <1>6, <1>8, <2>1 DEF File
  <2>2. CASE b # cur[w]
    <3>1. batch[b] = "ready"
      BY <1>1, <2>2 DEF Publish
    <3>2. \A i \in DOMAIN Rows[b] : Rows[b][i] \in Spus
      BY RowsAssumption, ElementOfSeq
    <3> QED BY <1>6, <1>8, <2>2, <3>1, <3>2 DEF ReadyIsComplete
  <2> QED BY <2>1, <2>2
<1> QED BY <1>6, <1>7, <1>11, <1>12, <1>13, <1>14

-----------------------------------------------------------------------------
(* Every step.                                                             *)

\* What was decided of a steady batch stays.
Decided == \A b \in Steady : batch[b] \in {"ready", "failed"} => batch'[b] = batch[b]

\* Steps of a worker that write nothing: it goes on, gives up or stops.
LEMMA NothingWritten ==
    ASSUME IInv, UNCHANGED database, Placed', Locked',
           pc' \in [Workers -> Places], cur' \in [Workers -> Batches \cup {None}],
           row' \in [Workers -> Nat], fresh' \in [Workers -> SUBSET Spus],
           faults' \in 0 .. MaxFaults,
           \A v \in Workers : cur'[v] = cur[v] \/ cur'[v] = None
    PROVE  IInv' /\ Decided
<1>1. UNCHANGED <<batch, job, leased, queue, lists, tasks>>
  BY DEF database
<1>2. TypeOK'
  BY <1>1 DEF IInv, TypeOK
<1>3. None \notin Steady
  BY NamesAssumption, ReadableAssumption
<1>4. Owned'
  BY <1>1, <1>3 DEF IInv, Owned
<1>5. WrittenOnce' /\ ReadyIsComplete' /\ JobAgreesWithBatch' /\ ListIsShown'
  BY <1>1 DEF IInv, WrittenOnce, ReadyIsComplete, JobAgreesWithBatch, ListIsShown
<1> QED BY <1>1, <1>2, <1>4, <1>5 DEF IInv, Decided

\* A worker that lets go without a commit writes nothing.
LEMMA GivesUp ==
    ASSUME IInv, NEW w \in Workers, pc[w] # "idle", Leave(w) \/ RollBack(w),
           UNCHANGED database, faults' \in 0 .. MaxFaults
    PROVE  IInv' /\ Decided
<1>1. Released(w)
  BY Releases DEF IInv
<1>2. Placed' /\ Locked'
  BY <1>1, ReleaseKeepsWorkers DEF IInv, database
<1> QED BY <1>1, <1>2, NothingWritten DEF Released, OnlyMoves

\* A fault leaves the count within its bound.
LEMMA FaultIsCounted ==
    ASSUME TypeOK, NEW kind, Fault(kind)
    PROVE  faults' \in 0 .. MaxFaults
  BY FaultsAssumption DEF TypeOK, Fault

\* The upload of a batch nobody has heard of.
LEMMA CreateKeeps ==
    ASSUME IInv, NEW c \in Batches, Create(c)
    PROVE  IInv' /\ Decided
<1>1. /\ batch[c] = "absent" /\ batch' = [batch EXCEPT ![c] = "received"]
      /\ job' = [job EXCEPT ![c] = "pending"] /\ queue' = Append(queue, c)
      /\ UNCHANGED <<leased, lists, tasks, pc, cur, row, fresh, faults>>
  BY DEF Create
<1>2. batch \in [Batches -> BatchStatus] /\ job \in [Batches -> JobStatus]
  BY DEF IInv, TypeOK
<1>3. TypeOK'
  BY <1>1, AppendProperties DEF IInv, TypeOK, BatchStatus, JobStatus
<1>4. Placed' /\ Locked'
  BY <1>1 DEF IInv, Placed, Locked, HoldsList, HoldsTask, File
<1>5. job[c] # "processing"
  BY <1>1 DEF IInv, JobAgreesWithBatch
<1>6. Owned'
  BY <1>1, <1>2, <1>5 DEF IInv, Owned
<1>7. WrittenOnce' /\ ReadyIsComplete' /\ JobAgreesWithBatch'
  BY <1>1, <1>2 DEF IInv, WrittenOnce, ReadyIsComplete, JobAgreesWithBatch
<1>8. ListIsShown' /\ Decided
  BY <1>1, <1>2, ReadableAssumption DEF IInv, ListIsShown, Decided
<1> QED BY <1>3, <1>4, <1>6, <1>7, <1>8 DEF IInv

\* A lease that runs out under nobody who works on a steady batch.
LEMMA ExpireKeeps ==
    ASSUME IInv, NEW c \in Batches, Expire(c)
    PROVE  IInv' /\ Decided
<1>1. /\ c \in Steady => \A w \in Workers : cur[w] # c
      /\ leased' = leased \ {c}
      /\ UNCHANGED <<batch, job, queue, lists, tasks, pc, cur, row, fresh, faults>>
  BY DEF Expire
<1>2. TypeOK'
  BY <1>1 DEF IInv, TypeOK
<1>3. Placed' /\ Locked'
  BY <1>1 DEF IInv, Placed, Locked, HoldsList, HoldsTask, File
<1>4. Owned'
  BY <1>1 DEF IInv, Owned
<1>5. /\ WrittenOnce' /\ ReadyIsComplete' /\ JobAgreesWithBatch'
      /\ ListIsShown' /\ Decided
  BY <1>1 DEF IInv, WrittenOnce, ReadyIsComplete, JobAgreesWithBatch, ListIsShown, Decided
<1> QED BY <1>2, <1>3, <1>4, <1>5 DEF IInv

\* A claim: of a steady batch, only when nobody works on it.
LEMMA ClaimKeeps ==
    ASSUME IInv, NEW w \in Workers, Claim(w)
    PROVE  IInv' /\ Decided
<1>1. queue \in Seq(Batches)
  BY DEF IInv, TypeOK
<1>2. PICK i \in DOMAIN queue :
        LET b == queue[i] IN
        /\ Claimable(b)
        /\ job' = [job EXCEPT ![b] = "processing"]
        /\ leased' = leased \cup {b}
        /\ batch' = [batch EXCEPT ![b] = IF @ = "received" THEN "validating" ELSE @]
        /\ cur' = [cur EXCEPT ![w] = b]
  BY DEF Claim
<1> DEFINE c == queue[i]
<1>3. /\ c \in Batches /\ Claimable(c)
      /\ job' = [job EXCEPT ![c] = "processing"]
      /\ leased' = leased \cup {c}
      /\ batch' = [batch EXCEPT ![c] = IF @ = "received" THEN "validating" ELSE @]
      /\ cur' = [cur EXCEPT ![w] = c]
  BY <1>1, <1>2, ElementOfSeq
<1>4. /\ pc[w] = "idle" /\ pc' = [pc EXCEPT ![w] = "parsing"]
      /\ UNCHANGED <<queue, lists, tasks, row, fresh, faults>>
  BY DEF Claim
<1> HIDE DEF c
<1>5. /\ batch \in [Batches -> BatchStatus] /\ job \in [Batches -> JobStatus]
      /\ leased \subseteq Batches /\ pc \in [Workers -> Places]
      /\ cur \in [Workers -> Batches \cup {None}]
  BY DEF IInv, TypeOK
<1>6. batch[c] \in {"received", "validating"} /\ batch'[c] = "validating"
  <2>1. job[c] \in {"pending", "processing"}
    BY <1>3 DEF Claimable
  <2>2. batch[c] \in {"received", "validating"}
    BY <1>3, <2>1 DEF IInv, JobAgreesWithBatch
  <2> QED BY <1>3, <1>5, <2>2
<1>7. batch' = [batch EXCEPT ![c] = "validating"]
  BY <1>3, <1>5, <1>6
<1>8. TypeOK'
  <2>1. /\ batch' \in [Batches -> BatchStatus] /\ job' \in [Batches -> JobStatus]
        /\ leased' \subseteq Batches
    BY <1>3, <1>5, <1>7 DEF BatchStatus, JobStatus
  <2>2. pc' \in [Workers -> Places] /\ cur' \in [Workers -> Batches \cup {None}]
    BY <1>3, <1>4, <1>5 DEF Places
  <2> QED BY <1>4, <2>1, <2>2 DEF IInv, TypeOK
<1>9. \A v \in Workers : v # w => pc'[v] = pc[v] /\ cur'[v] = cur[v] /\ row'[v] = row[v]
  BY <1>3, <1>4, <1>5
<1>10. \A v \in Workers : v # w =>
         /\ \A b : HoldsList(v, b)' <=> HoldsList(v, b)
         /\ \A s : HoldsTask(v, s)' <=> HoldsTask(v, s)
         /\ File(v)' = File(v)
  BY <1>9, OthersStay
<1>11. pc'[w] = "parsing" /\ cur'[w] = c /\ row'[w] = row[w] /\ row[w] = 0
  BY <1>3, <1>4, <1>5 DEF IInv, Placed
<1>12. Placed'
  BY <1>3, <1>9, <1>10, <1>11, NamesAssumption DEF IInv, Placed
<1>13. Locked'
  <2>1. /\ \A b : ~HoldsList(w, b)' /\ ~HoldsList(w, b)
        /\ \A s : ~HoldsTask(w, s)' /\ ~HoldsTask(w, s)
    BY <1>4, <1>11 DEF HoldsList, HoldsTask
  <2> QED BY <1>4, <1>10, <2>1 DEF IInv, Locked
<1>14. Owned'
  <2>1. c \in Steady => \A v \in Workers : cur[v] # c
    BY <1>3 DEF IInv, Owned, Claimable
  <2>2. job'[c] = "processing" /\ \A b \in Batches : b # c => job'[b] = job[b]
    BY <1>3, <1>5
  <2>3. ASSUME NEW v \in Workers, cur'[v] \in Steady
        PROVE  /\ cur'[v] \in leased' /\ job'[cur'[v]] = "processing"
               /\ \A u \in Workers \ {v} : cur'[u] # cur'[v]
    <3>1. CASE v = w
      BY <1>3, <1>9, <1>11, <2>1, <2>2, <2>3, <3>1
    <3>2. CASE v # w
      <4>1. cur'[v] = cur[v] /\ cur[v] # c /\ cur[v] \in Batches
        BY <1>9, <2>1, <2>3, <3>2, ReadableAssumption
      <4>2. cur[v] \in leased /\ job[cur[v]] = "processing"
            /\ \A u \in Workers \ {v} : cur[u] # cur[v]
        BY <2>3, <4>1 DEF IInv, Owned
      <4> QED BY <1>3, <1>9, <1>11, <2>2, <4>1, <4>2
    <3> QED BY <3>1, <3>2
  <2> QED BY <2>3 DEF Owned
<1>15. WrittenOnce'
  BY <1>4 DEF IInv, WrittenOnce
<1>16. \A b \in Batches : b # c => batch'[b] = batch[b] /\ job'[b] = job[b]
  BY <1>3, <1>5
<1>17. ReadyIsComplete'
  BY <1>4, <1>6, <1>16 DEF IInv, ReadyIsComplete
<1>18. JobAgreesWithBatch'
  <2>1. job'[c] = "processing"
    BY <1>3, <1>5
  <2> QED BY <1>6, <1>16, <2>1 DEF IInv, JobAgreesWithBatch
<1>19. ListIsShown' /\ Decided
  BY <1>4, <1>6, <1>16, ReadableAssumption DEF IInv, ListIsShown, Decided
<1> QED BY <1>8, <1>12, <1>13, <1>14, <1>15, <1>17, <1>18, <1>19 DEF IInv

\* A worker that decides its batch as ready or failed, and lets go of a steady one.
LEMMA DecisionKeepsOwners ==
    ASSUME IInv, NEW w \in Workers, pc[w] # "idle", Released(w),
           NEW bs \in BatchStatus, NEW js \in JobStatus,
           <<bs, js>> \in {<<"ready", "completed">>, <<"failed", "failed">>},
           batch' = [batch EXCEPT ![cur[w]] = bs],
           job' = [job EXCEPT ![cur[w]] = js],
           leased' = leased \ {cur[w]},
           pc'[w] = "idle" \/ cur[w] \notin Steady
    PROVE  /\ batch' \in [Batches -> BatchStatus] /\ job' \in [Batches -> JobStatus]
           /\ Owned' /\ JobAgreesWithBatch' /\ Decided
           /\ cur[w] \in Batches /\ batch'[cur[w]] = bs
           /\ \A b \in Batches : b # cur[w] => batch'[b] = batch[b]
           /\ cur[w] \in Steady => batch[cur[w]] = "validating"
<1>1. cur[w] \in Batches /\ None \notin Batches
  BY BusyFile, NamesAssumption DEF IInv
<1>2. batch \in [Batches -> BatchStatus] /\ job \in [Batches -> JobStatus]
  BY DEF IInv, TypeOK
<1>3. /\ batch' \in [Batches -> BatchStatus] /\ job' \in [Batches -> JobStatus]
      /\ batch'[cur[w]] = bs /\ job'[cur[w]] = js
      /\ \A b \in Batches : b # cur[w] => batch'[b] = batch[b] /\ job'[b] = job[b]
  BY <1>1, <1>2
<1>4. cur[w] \in Steady => batch[cur[w]] = "validating"
  BY <1>1 DEF IInv, Owned, JobAgreesWithBatch
<1>5. \A v \in Workers : v # w => cur'[v] = cur[v]
  BY DEF Released, OnlyMoves
<1>6. cur'[w] \notin Steady
  BY <1>1, ReadableAssumption DEF Released
<1>7. Owned'
  <2> SUFFICES ASSUME NEW v \in Workers, cur'[v] \in Steady
               PROVE  /\ cur'[v] \in leased' /\ job'[cur'[v]] = "processing"
                      /\ \A u \in Workers \ {v} : cur'[u] # cur'[v]
    BY DEF Owned
  <2>1. v # w /\ cur'[v] = cur[v] /\ cur[v] \in Batches
    BY <1>5, <1>6, ReadableAssumption
  <2>2. /\ cur[v] \in leased /\ job[cur[v]] = "processing"
        /\ \A u \in Workers \ {v} : cur[u] # cur[v]
    BY <2>1 DEF IInv, Owned
  <2> QED BY <1>3, <1>5, <1>6, <2>1, <2>2
<1>8. JobAgreesWithBatch'
  BY <1>3 DEF IInv, JobAgreesWithBatch
<1>9. Decided
  BY <1>3, <1>4, ReadableAssumption DEF Decided
<1> QED BY <1>1, <1>3, <1>4, <1>7, <1>8, <1>9

\* The commit, whether or not its answer arrives.
LEMMA CommitKeeps ==
    ASSUME IInv, NEW w \in Workers, AtEnd(w), Publish(w), Leave(w) \/ RollBack(w),
           Leave(w) \/ cur[w] \notin Steady, faults' \in 0 .. MaxFaults
    PROVE  IInv' /\ Decided
<1>1. /\ Released(w) /\ pc[w] # "idle"
      /\ pc'[w] = "idle" \/ cur[w] \notin Steady
  BY Releases DEF IInv, AtEnd
<1>2. /\ batch' = [batch EXCEPT ![cur[w]] = "ready"]
      /\ job' = [job EXCEPT ![cur[w]] = "completed"]
      /\ leased' = leased \ {cur[w]}
      /\ lists' = [lists EXCEPT ![cur[w]] = @ + 1]
      /\ UNCHANGED queue
  BY DEF Publish
<1>3. "ready" \in BatchStatus /\ "completed" \in JobStatus
  BY DEF BatchStatus, JobStatus
<1>4. /\ batch' \in [Batches -> BatchStatus] /\ job' \in [Batches -> JobStatus]
      /\ Owned' /\ JobAgreesWithBatch' /\ Decided
      /\ cur[w] \in Batches /\ batch'[cur[w]] = "ready"
      /\ \A b \in Batches : b # cur[w] => batch'[b] = batch[b]
  BY <1>1, <1>2, <1>3, DecisionKeepsOwners
<1>5. /\ Placed' /\ Locked' /\ WrittenOnce' /\ ReadyIsComplete'
      /\ lists' \in [Batches -> Nat] /\ tasks' \in [Spus -> Nat]
  BY <1>1, PublishEffect DEF IInv
<1>6. TypeOK'
  BY <1>1, <1>2, <1>4, <1>5 DEF IInv, TypeOK, Released
<1>7. ListIsShown'
  <2>1. \A b \in Batches : b # cur[w] => lists'[b] = lists[b]
    BY <1>2 DEF IInv, TypeOK
  <2> QED BY <1>4, <2>1, ReadableAssumption DEF IInv, ListIsShown
<1> QED BY <1>4, <1>5, <1>6, <1>7 DEF IInv

\* The failure of a batch; a steady one has no list yet.
LEMMA MarkFailedKeeps ==
    ASSUME IInv, NEW w \in Workers, MarkFailed(w)
    PROVE  IInv' /\ Decided
<1>1. /\ pc[w] = "failing" /\ Leave(w)
      /\ batch' = [batch EXCEPT ![cur[w]] = "failed"]
      /\ job' = [job EXCEPT ![cur[w]] = "failed"]
      /\ leased' = leased \ {cur[w]}
      /\ UNCHANGED <<queue, lists, tasks, faults>>
  BY DEF MarkFailed
<1>2. Released(w) /\ pc'[w] = "idle"
  BY <1>1, Releases DEF IInv
<1>3. "failed" \in BatchStatus /\ "failed" \in JobStatus
  BY DEF BatchStatus, JobStatus
<1>4. /\ batch' \in [Batches -> BatchStatus] /\ job' \in [Batches -> JobStatus]
      /\ Owned' /\ JobAgreesWithBatch' /\ Decided
      /\ cur[w] \in Batches /\ batch'[cur[w]] = "failed"
      /\ \A b \in Batches : b # cur[w] => batch'[b] = batch[b]
      /\ cur[w] \in Steady => batch[cur[w]] = "validating"
  BY <1>1, <1>2, <1>3, DecisionKeepsOwners
<1>5. Placed' /\ Locked'
  BY <1>1, <1>2, ReleaseKeepsWorkers DEF IInv
<1>6. TypeOK'
  BY <1>1, <1>2, <1>4 DEF IInv, TypeOK, Released
<1>7. WrittenOnce' /\ ReadyIsComplete'
  BY <1>1, <1>4 DEF IInv, WrittenOnce, ReadyIsComplete
<1>8. ListIsShown'
  BY <1>1, <1>4, ReadableAssumption DEF IInv, ListIsShown
<1> QED BY <1>4, <1>5, <1>6, <1>7, <1>8 DEF IInv

\* The invariant holds at the start.
LEMMA InitInv == Init => IInv
<1> SUFFICES ASSUME Init
             PROVE  IInv
  OBVIOUS
<1>1. TypeOK
  <2>1. queue \in Seq(Batches)
    BY DEF Init
  <2> QED BY <2>1, FaultsAssumption DEF Init, TypeOK, BatchStatus, JobStatus, Places
<1>2. Placed /\ Locked
  BY DEF Init, Placed, Locked, HoldsList, HoldsTask
<1>3. Owned
  BY NamesAssumption, ReadableAssumption DEF Init, Owned
<1>4. WrittenOnce /\ ReadyIsComplete /\ JobAgreesWithBatch
  BY DEF Init, WrittenOnce, ReadyIsComplete, JobAgreesWithBatch
<1>5. ListIsShown
  BY ReadableAssumption DEF Init, ListIsShown
<1> QED BY <1>1, <1>2, <1>3, <1>4, <1>5 DEF IInv

\* Every step keeps the invariant and what was decided of the steady batches.
LEMMA NextInv == IInv /\ [Next]_vars => IInv' /\ Decided
<1> SUFFICES ASSUME IInv, [Next]_vars
             PROVE  IInv' /\ Decided
  OBVIOUS
<1>0. faults \in 0 .. MaxFaults /\ TypeOK
  BY DEF IInv, TypeOK
<1>1. ASSUME NEW b \in Batches, Create(b) \/ Expire(b)
      PROVE  IInv' /\ Decided
  BY <1>1, CreateKeeps, ExpireKeeps
<1>2. ASSUME NEW w \in Workers, WorkerStep(w)
      PROVE  IInv' /\ Decided
  <2>1. CASE Claim(w)
    BY <2>1, ClaimKeeps
  <2>2. CASE Parse(w)
    <3>1. CASE RollBack(w)
      BY <1>0, <2>2, <3>1, GivesUp DEF Parse
    <3>2. CASE pc' = [pc EXCEPT ![w] = "listing"] /\ UNCHANGED <<cur, row, fresh>>
      <4>1. pc[w] = "parsing" /\ UNCHANGED <<database, faults>>
        BY <2>2 DEF Parse
      <4>2. /\ pc \in [Workers -> Places] /\ cur \in [Workers -> Batches \cup {None}]
            /\ row \in [Workers -> Nat] /\ fresh \in [Workers -> SUBSET Spus]
        BY DEF IInv, TypeOK
      <4>3. pc' \in [Workers -> Places] /\ pc'[w] = "listing"
            /\ \A v \in Workers : v # w => pc'[v] = pc[v]
        BY <3>2, <4>2 DEF Places
      <4>4. Placed'
        BY <3>2, <4>1, <4>3 DEF IInv, Placed, File
      <4>5. \A v \in Workers :
              /\ \A b : HoldsList(v, b)' <=> HoldsList(v, b)
              /\ \A s : HoldsTask(v, s)' <=> HoldsTask(v, s)
        BY <3>2, <4>1, <4>3 DEF HoldsList, HoldsTask, File
      <4>6. Locked'
        BY <3>2, <4>1, <4>5 DEF IInv, Locked, database
      <4> QED BY <1>0, <3>2, <4>1, <4>2, <4>3, <4>4, <4>6, NothingWritten
    <3> QED BY <2>2, <3>1, <3>2 DEF Parse
  <2>3. CASE InsertList(w) \/ LookUp(w) \/ InsertTask(w)
    <3>1. /\ Placed' /\ Locked' /\ UNCHANGED database
          /\ pc' \in [Workers -> Places] /\ UNCHANGED faults
          /\ cur' \in [Workers -> Batches \cup {None}]
          /\ row' \in [Workers -> Nat] /\ fresh' \in [Workers -> SUBSET Spus]
          /\ cur' = cur
      BY <2>3, StatementKeepsWorkers DEF IInv
    <3> QED BY <1>0, <3>1, NothingWritten
  <2>4. CASE Commit(w)
    BY <1>0, <2>4, CommitKeeps DEF Commit
  <2>5. CASE DeadlockVictim(w)
    <3>1. pc[w] # "idle"
      BY <2>5 DEF DeadlockVictim, Circle, WaitsFor, AtRow
    <3> QED BY <1>0, <2>5, <3>1, GivesUp DEF DeadlockVictim
  <2>6. CASE MarkFailed(w)
    BY <2>6, MarkFailedKeeps
  <2> QED BY <1>2, <2>1, <2>2, <2>3, <2>4, <2>5, <2>6 DEF WorkerStep
<1>3. ASSUME NEW w \in Workers, Crash(w)
      PROVE  IInv' /\ Decided
  BY <1>0, <1>3, FaultIsCounted, GivesUp DEF Crash
<1>4. ASSUME NEW w \in Workers, Error(w)
      PROVE  IInv' /\ Decided
  <2>1. pc[w] # "idle"
    BY <1>4 DEF Error, Writing
  <2> QED BY <1>0, <1>4, <2>1, FaultIsCounted, GivesUp DEF Error
<1>5. ASSUME NEW w \in Workers, CommitUnacknowledged(w)
      PROVE  IInv' /\ Decided
  BY <1>0, <1>5, FaultIsCounted, CommitKeeps DEF CommitUnacknowledged
<1>6. CASE UNCHANGED vars
  <2>1. UNCHANGED <<database, pc, cur, row, fresh, faults>>
    BY <1>6 DEF vars
  <2>2. /\ pc' \in [Workers -> Places] /\ cur' \in [Workers -> Batches \cup {None}]
        /\ row' \in [Workers -> Nat] /\ fresh' \in [Workers -> SUBSET Spus]
    BY <2>1 DEF IInv, TypeOK
  <2>3. Placed' /\ Locked'
    BY <2>1 DEF IInv, Placed, Locked, HoldsList, HoldsTask, File, database
  <2> QED BY <1>0, <2>1, <2>2, <2>3, NothingWritten
<1> QED BY <1>1, <1>2, <1>3, <1>4, <1>5, <1>6 DEF Next

-----------------------------------------------------------------------------
(* The theorems.                                                           *)

\* The invariant of the pipeline.
THEOREM Invariant == Spec => []IInv
  BY InitInv, NextInv, PTL DEF Spec

\* The rows, places and counters have their types, in every run.
THEOREM TypeCorrect == Spec => []TypeOK
<1>1. IInv => TypeOK
  BY DEF IInv
<1> QED BY <1>1, Invariant, PTL

\* A list and a stable task are written once, with any number of workers.
THEOREM WrittenOnceHolds == Spec => []WrittenOnce
<1>1. IInv => WrittenOnce
  BY DEF IInv
<1> QED BY <1>1, Invariant, PTL

\* What is shown as ready is complete, whoever published it.
THEOREM ReadyIsCompleteHolds == Spec => []ReadyIsComplete
<1>1. IInv => ReadyIsComplete
  BY DEF IInv
<1> QED BY <1>1, Invariant, PTL

\* The batch and its job always tell the same story.
THEOREM JobAgreesHolds == Spec => []JobAgreesWithBatch
<1>1. IInv => JobAgreesWithBatch
  BY DEF IInv
<1> QED BY <1>1, Invariant, PTL

\* The outcome of a batch that keeps its lease is final.
THEOREM OutcomeIsFinalHolds == Spec => OutcomeIsFinal
<1>1. IInv /\ [Next]_vars =>
        [\A b \in Steady :
            batch[b] \in {"ready", "failed"} => batch'[b] = batch[b]]_vars
  BY NextInv DEF Decided
<1> QED BY <1>1, Invariant, PTL DEF Spec, OutcomeIsFinal

\* If all batches keep their lease and their commits are answered, a batch that
\* is shown as failed has no list: the slow worker and the lost answer are the
\* only ways to a list behind a failure.
THEOREM SteadyFailuresHaveNoList ==
    ASSUME Steady = Batches
    PROVE  Spec => []FailedHasNoList
<1>1. IInv => FailedHasNoList
  <2> SUFFICES ASSUME IInv, NEW b \in Batches, batch[b] = "failed"
               PROVE  lists[b] = 0
    BY DEF FailedHasNoList
  <2>1. lists[b] \in Nat /\ ~(lists[b] > 0)
    BY DEF IInv, TypeOK, ListIsShown
  <2> QED BY <2>1
<1> QED BY <1>1, Invariant, PTL

-----------------------------------------------------------------------------
(* The pipeline implements AtomicImport.                                    *)


\* Nobody works on a file that was not uploaded and claimed.
Worked ==
    \A w \in Workers : cur[w] \in Batches => batch[cur[w]] \notin {"absent", "received"}

\* What a step does to what AtomicImport sees, and to who works on what.
ImportStep == [Imports!Next]_(Imports!vars) /\ Worked'

\* A status tells the stage and a stage the status, but that a claim does not show.
LEMMA Stages ==
    ASSUME NEW bs \in BatchStatus
    PROVE  /\ bs = "absent" <=> Stage(bs) = "absent"
           /\ bs \in {"received", "validating"} <=> Stage(bs) = "open"
           /\ bs = "ready" <=> Stage(bs) = "published"
           /\ bs = "failed" <=> Stage(bs) = "failed"
  BY DEF Stage, BatchStatus

\* A step that writes no status, list or task is not seen.
LEMMA Unseen ==
    ASSUME UNCHANGED <<batch, lists, tasks>>
    PROVE  UNCHANGED Imports!vars
  BY DEF Imports!vars

\* A step that writes one status changes one stage.
LEMMA OneStage ==
    ASSUME TypeOK, NEW c \in Batches, NEW bs, batch' = [batch EXCEPT ![c] = bs]
    PROVE  [b \in Batches |-> Stage(batch[b])]' =
             [[b \in Batches |-> Stage(batch[b])] EXCEPT ![c] = Stage(bs)]
<1>1. batch'[c] = bs /\ \A b \in Batches : b # c => batch'[b] = batch[b]
  BY DEF TypeOK
<1>2. /\ Stage(batch[c])' = Stage(bs)
      /\ \A b \in Batches : b # c => Stage(batch[b])' = Stage(batch[b])
  BY <1>1 DEF Stage
<1> QED BY <1>2

\* A batch that somebody is busy with may be decided.
LEMMA BusyIsUndecided ==
    ASSUME IInv, Worked, NEW w \in Workers, pc[w] # "idle"
    PROVE  cur[w] \in Batches /\ Imports!Undecided(cur[w])
<1>1. cur[w] \in Batches
  BY BusyFile DEF IInv
<1>2. batch[cur[w]] \notin {"absent", "received"}
  BY <1>1 DEF Worked
<1>3. CASE cur[w] \in Steady
  <2>1. batch[cur[w]] = "validating"
    BY <1>1, <1>3 DEF IInv, Owned, JobAgreesWithBatch
  <2> QED BY <1>1, <2>1, Stages DEF BatchStatus, Imports!Undecided
<1>4. CASE cur[w] \notin Steady
  <2>1. Stage(batch[cur[w]]) # "absent"
    BY <1>1, <1>2, Stages DEF IInv, TypeOK
  <2> QED BY <1>1, <1>4, <2>1 DEF Imports!Undecided
<1> QED BY <1>1, <1>3, <1>4

\* The commit of a worker publishes its file, with the tasks others committed.
LEMMA CommitPublishes ==
    ASSUME IInv, IInv', Worked, NEW w \in Workers, AtEnd(w), Publish(w)
    PROVE  Imports!Publish(cur[w])
<1>1. /\ lists \in [Batches -> Nat] /\ tasks \in [Spus -> Nat]
      /\ fresh \in [Workers -> SUBSET Spus]
  BY DEF IInv, TypeOK
<1>2. pc[w] = "looking" /\ row[w] = Len(File(w)) + 1
  BY DEF AtEnd
<1>3. /\ cur[w] \in Batches
      /\ DOMAIN File(w) = 1 .. Len(File(w)) /\ Len(File(w)) \in Nat
  BY <1>2, BusyFile DEF IInv
<1> DEFINE Held == {File(w)[i] : i \in DOMAIN File(w)}
<1>4. HoldsList(w, cur[w]) /\ \A s : HoldsTask(w, s) <=> s \in Held
  BY <1>2, <1>3 DEF HoldsList, HoldsTask
<1>5. lists[cur[w]] = 0
  BY <1>3, <1>4 DEF IInv, Locked
<1>6. lists' = [lists EXCEPT ![cur[w]] = 1]
  BY <1>1, <1>3, <1>5 DEF Publish
<1>7. \A s \in Spus : tasks[s] + (IF s \in fresh[w] THEN 1 ELSE 0)
                        = IF s \in Held THEN 1 ELSE tasks[s]
  <2> SUFFICES ASSUME NEW s \in Spus
               PROVE  tasks[s] + (IF s \in fresh[w] THEN 1 ELSE 0)
                        = IF s \in Held THEN 1 ELSE tasks[s]
    OBVIOUS
  <2> HIDE DEF Held
  <2>1. CASE s \in Held
    <3>1. tasks[s] = IF s \in fresh[w] THEN 0 ELSE 1
      BY <1>4, <2>1 DEF IInv, Locked
    <3> QED BY <2>1, <3>1
  <2>2. CASE s \notin Held
    <3>1. s \notin fresh[w]
      BY <1>4, <2>2 DEF IInv, Locked
    <3> QED BY <1>1, <2>2, <3>1
  <2> QED BY <2>1, <2>2
<1>8. tasks' = [s \in Spus |-> IF s \in Held THEN 1 ELSE tasks[s]]
  <2>1. tasks' = [s \in Spus |-> tasks[s] + IF s \in fresh[w] THEN 1 ELSE 0]
    BY DEF Publish
  <2> HIDE DEF Held
  <2> QED BY <1>7, <2>1
<1>9. [b \in Batches |-> Stage(batch[b])]' =
         [[b \in Batches |-> Stage(batch[b])] EXCEPT ![cur[w]] = "published"]
  <2>1. batch' = [batch EXCEPT ![cur[w]] = "ready"] /\ "ready" \in BatchStatus
    BY DEF Publish, BatchStatus
  <2>2. Stage("ready") = "published"
    BY DEF Stage
  <2> QED BY <1>3, <2>1, <2>2, OneStage DEF IInv
<1>10. Imports!Undecided(cur[w])
  BY <1>2, BusyIsUndecided
<1> QED BY <1>3, <1>5, <1>6, <1>8, <1>9, <1>10 DEF Imports!Publish, File

\* Nobody starts to work on another batch, and no batch is back before its claim.
LEMMA StillWorked ==
    ASSUME Worked, \A v \in Workers : cur'[v] = cur[v] \/ cur'[v] = None,
           \A b \in Batches : batch'[b] = batch[b] \/ batch'[b] \in {"ready", "failed"}
    PROVE  Worked'
  BY NamesAssumption DEF Worked

\* Every step is a step of AtomicImport or is not seen.
LEMMA ImportNext ==
    ASSUME IInv, IInv', Worked, [Next]_vars
    PROVE  ImportStep
<1>1. /\ batch \in [Batches -> BatchStatus] /\ TypeOK /\ TypeOK'
      /\ cur \in [Workers -> Batches \cup {None}] /\ queue \in Seq(Batches)
  BY DEF IInv, TypeOK
<1>2. ASSUME UNCHANGED <<batch, lists, tasks>>,
             \A v \in Workers : cur'[v] = cur[v] \/ cur'[v] = None
      PROVE  ImportStep
  BY <1>2, Unseen, StillWorked DEF ImportStep
<1>3. ASSUME NEW w \in Workers, Leave(w) \/ RollBack(w)
      PROVE  \A v \in Workers : cur'[v] = cur[v] \/ cur'[v] = None
  BY <1>1, <1>3 DEF Leave, RollBack
<1>4. ASSUME NEW b \in Batches, Create(b)
      PROVE  ImportStep
  <2>1. /\ batch[b] = "absent" /\ batch' = [batch EXCEPT ![b] = "received"]
        /\ UNCHANGED <<lists, tasks, cur>> /\ "received" \in BatchStatus
    BY <1>4 DEF Create, BatchStatus
  <2>2. Stage(batch[b]) = "absent"
    BY <1>1, <2>1, Stages
  <2>3. [c \in Batches |-> Stage(batch[c])]' =
           [[c \in Batches |-> Stage(batch[c])] EXCEPT ![b] = "open"]
    <3>1. Stage("received") = "open"
      BY DEF Stage
    <3> QED BY <1>1, <2>1, <3>1, OneStage
  <2>4. Imports!Upload(b)
    BY <2>1, <2>2, <2>3 DEF Imports!Upload
  <2>5. Worked'
    BY <1>1, <2>1 DEF Worked
  <2> QED BY <2>4, <2>5 DEF ImportStep, Imports!Next
<1>5. ASSUME NEW b \in Batches, Expire(b)
      PROVE  ImportStep
  BY <1>2, <1>5 DEF Expire
<1>6. ASSUME NEW w \in Workers, Claim(w)
      PROVE  ImportStep
  <2>1. PICK i \in DOMAIN queue :
          LET c == queue[i] IN
          /\ Claimable(c)
          /\ batch' = [batch EXCEPT ![c] = IF @ = "received" THEN "validating" ELSE @]
          /\ cur' = [cur EXCEPT ![w] = c]
    BY <1>6 DEF Claim
  <2> DEFINE c == queue[i]
  <2>2. /\ c \in Batches /\ Claimable(c)
        /\ batch' = [batch EXCEPT ![c] = IF @ = "received" THEN "validating" ELSE @]
        /\ cur' = [cur EXCEPT ![w] = c]
    BY <1>1, <2>1, ElementOfSeq
  <2> HIDE DEF c
  <2>3. batch[c] \in {"received", "validating"}
    BY <2>2 DEF IInv, JobAgreesWithBatch, Claimable
  <2>4. /\ batch'[c] = "validating" /\ \A b \in Batches : b # c => batch'[b] = batch[b]
        /\ UNCHANGED <<lists, tasks>>
    BY <1>1, <1>6, <2>2, <2>3 DEF Claim
  <2>5. \A b \in Batches : Stage(batch[b])' = Stage(batch[b])
    BY <2>3, <2>4 DEF Stage
  <2>6. Worked'
    BY <1>1, <2>2, <2>4 DEF Worked
  <2> QED BY <2>4, <2>5, <2>6 DEF ImportStep, Imports!vars
<1>7. ASSUME NEW w \in Workers, AtEnd(w), Publish(w), Leave(w) \/ RollBack(w)
      PROVE  ImportStep
  <2>1. pc[w] # "idle"
    BY <1>7 DEF AtEnd
  <2>2. cur[w] \in Batches /\ Imports!Publish(cur[w])
    BY <1>7, <2>1, CommitPublishes, BusyIsUndecided
  <2>3. \A b \in Batches : batch'[b] = batch[b] \/ batch'[b] = "ready"
    BY <1>1, <1>7 DEF Publish
  <2> QED BY <1>3, <1>7, <2>2, <2>3, StillWorked DEF ImportStep, Imports!Next
<1>8. ASSUME NEW w \in Workers, MarkFailed(w)
      PROVE  ImportStep
  <2>1. /\ pc[w] # "idle" /\ Leave(w) /\ UNCHANGED <<lists, tasks>>
        /\ batch' = [batch EXCEPT ![cur[w]] = "failed"] /\ "failed" \in BatchStatus
    BY <1>8 DEF MarkFailed, BatchStatus
  <2>2. cur[w] \in Batches /\ Imports!Undecided(cur[w])
    BY <2>1, BusyIsUndecided
  <2>3. [b \in Batches |-> Stage(batch[b])]' =
           [[b \in Batches |-> Stage(batch[b])] EXCEPT ![cur[w]] = "failed"]
    <3>1. Stage("failed") = "failed"
      BY DEF Stage
    <3> QED BY <1>1, <2>1, <2>2, <3>1, OneStage
  <2>4. Imports!Fail(cur[w])
    BY <2>1, <2>2, <2>3 DEF Imports!Fail
  <2>5. \A b \in Batches : batch'[b] = batch[b] \/ batch'[b] = "failed"
    BY <1>1, <2>1
  <2> QED BY <1>3, <2>1, <2>2, <2>4, <2>5, StillWorked DEF ImportStep, Imports!Next
<1>9. ASSUME NEW w \in Workers,
             \/ Parse(w) \/ InsertList(w) \/ LookUp(w) \/ InsertTask(w)
             \/ DeadlockVictim(w) \/ Crash(w) \/ Error(w)
      PROVE  ImportStep
  <2>1. UNCHANGED database
    BY <1>9 DEF Parse, InsertList, LookUp, InsertTask, DeadlockVictim, Crash, Error
  <2>2. UNCHANGED cur \/ Leave(w) \/ RollBack(w)
    BY <1>9 DEF Parse, InsertList, LookUp, InsertTask, DeadlockVictim, Crash, Error, NextRow
  <2> QED BY <1>2, <1>3, <2>1, <2>2 DEF database
<1>10. CASE UNCHANGED vars
  BY <1>2, <1>10 DEF vars, database
<1> QED
  BY <1>4, <1>5, <1>6, <1>7, <1>8, <1>9, <1>10
     DEF Next, WorkerStep, Commit, CommitUnacknowledged

\* Nothing was uploaded at the start.
LEMMA ImportInit == Init => Imports!Init /\ Worked
  BY NamesAssumption DEF Init, Imports!Init, Stage, Worked

\* The pipeline implements the atomic import of files, for any number of workers,
\* files and SPUs, and whatever fails.
THEOREM ImportsAreAtomicHolds == Spec => ImportsAreAtomic
<1>1. Spec => []Worked
  <2>1. Init => Worked
    BY ImportInit
  <2>2. IInv /\ IInv' /\ Worked /\ [Next]_vars => Worked'
    BY ImportNext DEF ImportStep
  <2> QED BY <2>1, <2>2, Invariant, PTL DEF Spec
<1>2. IInv /\ IInv' /\ Worked /\ [Next]_vars => [Imports!Next]_(Imports!vars)
  BY ImportNext DEF ImportStep
<1>3. Init => Imports!Init
  BY ImportInit
<1> QED BY <1>1, <1>2, <1>3, Invariant, PTL DEF Spec, ImportsAreAtomic, Imports!Spec

-----------------------------------------------------------------------------
(* Somebody can always go on.                                              *)

\* The guard of one of the steps of a worker that has a batch.
CanGoOn(w) ==
    \/ pc[w] \in {"parsing", "failing"} \/ AtEnd(w)
    \/ (pc[w] = "listing" \/ AtRow(w)) /\ ~Waits(w)
    \/ Circle(w)

\* As long as a batch is worked on, one of its workers, or of those it waits for,
\* can take its next step: a row or a key somebody waits for is always given up.
SomebodyGoesOn ==
    (\E w \in Workers : pc[w] # "idle")
        => \E w \in Workers : pc[w] # "idle" /\ CanGoOn(w)

\* A busy worker whose guards are all false waits for another busy one.
LEMMA StuckWaits ==
    ASSUME TypeOK, Placed, NEW w \in Workers, pc[w] # "idle", ~CanGoOn(w)
    PROVE  \E v \in Workers : WaitsFor(w, v) /\ pc[v] # "idle" /\ v # w
<1>1. pc[w] \in Places
  BY DEF TypeOK
<1>2. /\ DOMAIN File(w) = 1 .. Len(File(w)) /\ Len(File(w)) \in Nat /\ row[w] \in Nat
  BY BusyFile
<1>3. pc[w] = "listing" \/ AtRow(w)
  BY <1>1, <1>2 DEF CanGoOn, Places, Placed, AtEnd, AtRow
<1>4. PICK v \in Workers : WaitsFor(w, v)
  BY <1>3 DEF CanGoOn, Waits
<1>5. pc[v] # "idle" /\ v # w
  BY <1>4 DEF WaitsFor, HoldsList, HoldsTask
<1> QED BY <1>4, <1>5

\* The workers of W each wait for one of them.
Stuck(W) == W # {} /\ \A u \in W : \E v \in W : WaitsFor(u, v)

\* Among finitely many transactions that all wait for each other some wait in a
\* circle: whoever nobody waits for can be left out until only a circle is left.
LEMMA StuckHasCircle ==
    ASSUME NEW W \in SUBSET Workers, IsFiniteSet(W), Stuck(W)
    PROVE  \E w \in W : Circle(w)
<1> DEFINE Sizes == {Cardinality(C) : C \in {D \in SUBSET W : Stuck(D)}}
<1>1. \A C \in SUBSET W : IsFiniteSet(C) /\ Cardinality(C) \in Nat
  BY FS_Subset, FS_CardinalityType
<1>2. Sizes \in SUBSET Nat /\ Sizes # {}
  <2>1. Cardinality(W) \in Sizes
    OBVIOUS
  <2> QED BY <1>1, <2>1
<1>3. PICK m \in Sizes : \A k \in Sizes : ~ (<<k, m>> \in OpToRel(<, Nat))
  <2> HIDE DEF Sizes
  <2> QED BY <1>2, NatLessThanWellFounded, WFMin
<1>4. PICK C \in SUBSET W : Stuck(C) /\ Cardinality(C) = m
  OBVIOUS
<1>5. \A u \in C : \E v \in C : WaitsFor(v, u)
  <2> SUFFICES ASSUME NEW u \in C, \A v \in C : ~WaitsFor(v, u)
               PROVE  FALSE
    OBVIOUS
  <2> DEFINE D == C \ {u}
  <2>1. Stuck(D)
    BY <1>4 DEF Stuck, WaitsFor
  <2>2. Cardinality(D) = Cardinality(C) - 1
    BY <1>1, FS_RemoveElement
  <2>3. Cardinality(D) \in Sizes /\ Cardinality(D) \in Nat /\ m \in Nat
    BY <1>1, <1>4, <2>1
  <2>4. Cardinality(D) < m
    BY <1>1, <1>4, <2>2, <2>3
  <2> QED BY <1>3, <2>3, <2>4 DEF OpToRel
<1>6. PICK w \in C : TRUE
  BY <1>4 DEF Stuck
<1>7. Circle(w)
  BY <1>4, <1>5, <1>6 DEF Stuck, Circle
<1> QED BY <1>7

\* The import never deadlocks: whatever files finitely many workers import at the
\* same time, one of them can go on, because the database ends a circle of
\* transactions and nothing else keeps one waiting.
THEOREM SomebodyGoesOnHolds == IsFiniteSet(Workers) => (Spec => []SomebodyGoesOn)
<1> SUFFICES ASSUME IsFiniteSet(Workers) PROVE Spec => []SomebodyGoesOn
  OBVIOUS
<1>1. IInv => SomebodyGoesOn
  <2> SUFFICES ASSUME IInv, NEW x \in Workers, pc[x] # "idle",
                      \A w \in Workers : pc[w] # "idle" => ~CanGoOn(w)
               PROVE  FALSE
    BY DEF SomebodyGoesOn
  <2> DEFINE Busy == {w \in Workers : pc[w] # "idle"}
  <2>1. Stuck(Busy)
    BY StuckWaits DEF Stuck, IInv
  <2>2. IsFiniteSet(Busy)
    BY FS_Subset
  <2>3. PICK w \in Busy : Circle(w)
    BY <2>1, <2>2, StuckHasCircle
  <2> QED BY <2>3 DEF CanGoOn
<1> QED BY <1>1, Invariant, PTL

=============================================================================
