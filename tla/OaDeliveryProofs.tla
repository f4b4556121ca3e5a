--------------------------- MODULE OaDeliveryProofs ---------------------------
(***************************************************************************)
(* The safety of OaDelivery for every number of workers, requests, users,    *)
(* days, calls and faults.                                                 *)
(*                                                                         *)
(* A reminder is sent once a day because its row is inserted once: Alone     *)
(* says that the row has one holder, which a retry takes over only after the  *)
(* last one has recorded a failure.                                        *)
(***************************************************************************)
EXTENDS OaDelivery, TLAPS, FiniteSetTheorems

\* p has a row to deliver or to record.
Out(p) == pc[p] \in {"deliver", "record"}

\* What a process has in its hands.
Placed ==
    \A p \in Procs :
        /\ pc[p] = "scanned" => key[p] \in Candidates
        /\ Out(p) => key[p] \in Keys /\ notes[key[p]] # "absent"
        /\ Out(p) /\ p \in Workers => key[p].type = Reminder /\ key[p].to \in Users
        /\ pc[p] = "record" =>
             /\ outcome[p] \in {"sent", "failed"}
             /\ outcome[p] = "sent" => accepted[key[p]] > 0

\* The row of a reminder that is under way is pending and has one holder.
Alone ==
    \A p \in Procs : Out(p) /\ key[p].type = Reminder =>
        /\ notes[key[p]] = "pending"
        /\ \A q \in Procs \ {p} : Out(q) => key[q] # key[p]

\* A worker only delivers what no worker has sent.
Unsent ==
    /\ \A k \in Keys : notes[k] = "absent" => sends[k].worker = 0
    /\ \A w \in Workers : pc[w] = "deliver" => sends[key[w]].worker = 0

Recording(k) == {p \in Procs : pc[p] = "record" /\ key[p] = k}

\* There are finitely many answers to record, each of a message that was sent.
Counted ==
    \A k \in Keys :
        /\ IsFiniteSet(Recording(k))
        /\ notes[k] = "sent" => accepted[k] > 0
        /\ attempts[k] + Cardinality(Recording(k)) <= sends[k].worker + sends[k].request

Orphans == {k \in Keys : notes[k] = "pending" /\ InFlight(k) = {}}

\* There are at most as many rows without a holder as there were faults.
Covered == IsFiniteSet(Orphans) /\ Cardinality(Orphans) <= faults /\ faults \in Nat

IInv ==
    /\ TypeOK /\ Placed /\ Alone /\ Unsent /\ RemindedOncePerDay
    /\ Counted /\ Covered

-----------------------------------------------------------------------------
(* Facts the steps share.                                                  *)

\* A step of p is one of its own place, key and answer.
OnlyMoves(p) ==
    \A q \in Procs : q # p => pc'[q] = pc[q] /\ key'[q] = key[q] /\ outcome'[q] = outcome[q]

\* The places, keys and answers keep their types.
Typed ==
    /\ pc' \in [Procs -> {"idle", "scanned", "deliver", "record"}]
    /\ key' \in [Procs -> Keys \cup Candidates \cup {NoKey}]
    /\ \A p \in Procs : pc'[p] \in {"deliver", "record"} => key'[p] \in Keys
    /\ outcome' \in [Procs -> {"none", "sent", "failed"}]

\* Who goes idle has nothing in its hands.
LEMMA GoesIdle ==
    ASSUME TypeOK, NEW p \in Procs, Idle(p)
    PROVE  OnlyMoves(p) /\ Typed /\ pc'[p] = "idle"
  BY DEF Idle, OnlyMoves, Typed, TypeOK

\* Who delivers has the row in its hands.
LEMMA GoesOut ==
    ASSUME TypeOK, NEW p \in Procs, NEW k \in Keys, Deliver(p, k)
    PROVE  OnlyMoves(p) /\ Typed /\ pc'[p] = "deliver" /\ key'[p] = k
  BY DEF Deliver, OnlyMoves, Typed, TypeOK

\* Nobody has a row in its hands that there is not, and a key is one thing.
LEMMA KeyFields ==
    ASSUME NEW k \in Keys
    PROVE  /\ k.day \in 1 .. MaxDay /\ k.to \in Users \cup Unaddressed
           /\ k.type \in {Reminder, Coordination} /\ Reminder # Coordination
  BY DEF Keys, Reminder, Coordination

\* The date makes a candidate a reminder of today.
LEMMA TodayIsKey ==
    ASSUME TypeOK, NEW w \in Procs, key[w] \in Candidates
    PROVE  /\ Today(w) \in Keys /\ Today(w).type = Reminder
           /\ Today(w).to = key[w].to
  BY DEF TypeOK, Today, Candidates, Keys

\* No row without a holder comes to be but by a fault.
LEMMA CoveredKept ==
    ASSUME Covered, Orphans' \subseteq Orphans, faults' \in Nat, faults <= faults'
    PROVE  Covered'
<1>1. IsFiniteSet(Orphans') /\ Cardinality(Orphans') <= Cardinality(Orphans)
  BY FS_Subset DEF Covered
<1>2. Cardinality(Orphans') \in Nat /\ Cardinality(Orphans) \in Nat
  BY <1>1, FS_CardinalityType DEF Covered
<1> QED BY <1>1, <1>2 DEF Covered

\* A fault leaves one row at most.
LEMMA CoveredByFault ==
    ASSUME Covered, NEW k, Orphans' \subseteq Orphans \cup {k}, faults' = faults + 1
    PROVE  Covered'
<1>1. IsFiniteSet(Orphans) /\ faults \in Nat /\ Cardinality(Orphans) <= faults
  BY DEF Covered
<1>2. /\ IsFiniteSet(Orphans \cup {k})
      /\ Cardinality(Orphans \cup {k}) <= Cardinality(Orphans) + 1
      /\ Cardinality(Orphans) \in Nat
  BY <1>1, FS_AddElement, FS_CardinalityType
<1>3. /\ IsFiniteSet(Orphans')
      /\ Cardinality(Orphans') <= Cardinality(Orphans \cup {k})
  BY <1>2, FS_Subset
<1>4. Cardinality(Orphans') \in Nat /\ Cardinality(Orphans \cup {k}) \in Nat
  BY <1>2, <1>3, FS_CardinalityType
<1> QED BY <1>1, <1>2, <1>3, <1>4 DEF Covered

\* A holder more leaves no row alone, and neither does a change of other rows.
LEMMA OrphansOf ==
    ASSUME NEW p \in Procs, OnlyMoves(p), NEW k \in Keys,
           notes'[k] = "pending" => notes[k] = "pending" \/ (Out(p)' /\ key'[p] = k),
           Out(p) /\ key[p] = k => notes'[k] # "pending" \/ (Out(p)' /\ key'[p] = k)
    PROVE  k \in Orphans' => k \in Orphans
<1>1. \A q \in Procs : q # p => (q \in InFlight(k)' <=> q \in InFlight(k))
  BY DEF OnlyMoves, InFlight
<1>2. p \in InFlight(k)' <=> Out(p)' /\ key'[p] = k
  BY DEF InFlight, Out
<1>3. p \in InFlight(k) <=> Out(p) /\ key[p] = k
  BY DEF InFlight, Out
<1>4. \A q \in InFlight(k) : q \in Procs
  BY DEF InFlight
<1> QED BY <1>1, <1>2, <1>3, <1>4 DEF Orphans

-----------------------------------------------------------------------------
(* The steps of a delivery.                                                *)

\* The row k is taken over by p, which had none: it was not there, or no reminder
\* is under way on it.
LEMMA TakesRow ==
    ASSUME IInv, NEW p \in Procs, ~Out(p), NEW k \in Keys, Deliver(p, k),
           notes' = [notes EXCEPT ![k] = "pending"],
           p \in Workers => k.type = Reminder /\ k.to \in Users /\ notes[k] = "absent",
           k.type = Reminder => notes[k] \in {"absent", "failed"},
           UNCHANGED <<day, attempts, dingtalk, faults>>
    PROVE  IInv'
<1>1. OnlyMoves(p) /\ Typed /\ pc'[p] = "deliver" /\ key'[p] = k
  BY GoesOut DEF IInv
<1>2. /\ notes \in [Keys -> Status] /\ notes' \in [Keys -> Status] /\ notes'[k] = "pending"
      /\ \A j \in Keys : j # k => notes'[j] = notes[j]
  BY DEF IInv, TypeOK, Status
<1>3. UNCHANGED <<day, attempts, sends, accepted, faults>>
  BY DEF dingtalk
<1>4. TypeOK'
  BY <1>1, <1>2, <1>3 DEF IInv, TypeOK, Typed
<1>5. \A q \in Procs : q # p => (Out(q)' <=> Out(q))
  BY <1>1 DEF OnlyMoves, Out
<1>6. Out(p)' /\ pc'[p] # "record" /\ pc'[p] # "scanned"
  BY <1>1 DEF Out
<1>7. Placed'
  <2> SUFFICES ASSUME NEW q \in Procs
               PROVE
        /\ pc'[q] = "scanned" => key'[q] \in Candidates
        /\ Out(q)' => key'[q] \in Keys /\ notes'[key'[q]] # "absent"
        /\ Out(q)' /\ q \in Workers => key'[q].type = Reminder /\ key'[q].to \in Users
        /\ pc'[q] = "record" =>
             /\ outcome'[q] \in {"sent", "failed"}
             /\ outcome'[q] = "sent" => accepted'[key'[q]] > 0
    BY DEF Placed
  <2>1. CASE q = p
    BY <1>1, <1>2, <1>6, <2>1
  <2>2. CASE q # p
    BY <1>1, <1>2, <1>3, <1>5, <2>2 DEF IInv, Placed, OnlyMoves
  <2> QED BY <2>1, <2>2
<1>8. Alone'
  <2>1. k.type = Reminder => \A q \in Procs \ {p} : Out(q) => key[q] # k
    BY DEF IInv, Alone, Placed
  <2> SUFFICES ASSUME NEW q \in Procs, Out(q)', key'[q].type = Reminder
               PROVE  /\ notes'[key'[q]] = "pending"
                      /\ \A u \in Procs \ {q} : Out(u)' => key'[u] # key'[q]
    BY DEF Alone
  <2>2. CASE q = p
    BY <1>1, <1>2, <1>5, <2>1, <2>2 DEF OnlyMoves
  <2>3. CASE q # p
    <3>1. Out(q) /\ key'[q] = key[q]
      BY <1>1, <1>5, <2>3 DEF OnlyMoves
    <3>2. key[q] \in Keys /\ key[q] # k /\ notes[key[q]] = "pending"
          /\ \A u \in Procs \ {q} : Out(u) => key[u] # key[q]
      BY <2>1, <2>3, <3>1 DEF IInv, Alone, Placed
    <3> QED BY <1>1, <1>2, <1>5, <2>3, <3>1, <3>2 DEF OnlyMoves
  <2> QED BY <2>2, <2>3
<1>9. Unsent'
  <2>1. p \in Workers => sends[k].worker = 0
    BY DEF IInv, Unsent
  <2>2. \A w \in Workers : w \in Procs
    BY DEF Procs
  <2> QED BY <1>1, <1>2, <1>3, <2>1, <2>2 DEF IInv, Unsent, OnlyMoves
<1>10. RemindedOncePerDay'
  BY <1>3 DEF IInv, RemindedOncePerDay
<1>11. Counted'
  <2>1. \A j \in Keys : Recording(j)' = Recording(j)
    <3>1. pc[p] # "record"
      BY DEF Out
    <3>2. \A j : \A q \in Procs : q \in Recording(j)' <=> q \in Recording(j)
      BY <1>1, <1>6, <3>1 DEF Recording, OnlyMoves
    <3>3. \A j : Recording(j) \subseteq Procs /\ Recording(j)' \subseteq Procs
      BY DEF Recording
    <3> QED BY <3>2, <3>3
  <2> QED BY <1>2, <1>3, <2>1 DEF IInv, Counted
<1>12. Covered'
  <2>1. \A j \in Keys : j \in Orphans' => j \in Orphans
    BY <1>1, <1>2, <1>6, OrphansOf
  <2>2. Orphans' \subseteq Orphans /\ faults \in Nat
    BY <2>1 DEF Orphans, IInv, Covered
  <2> QED BY <1>3, <2>2, CoveredKept DEF IInv
<1> QED BY <1>4, <1>7, <1>8, <1>9, <1>10, <1>11, <1>12 DEF IInv

\* A step in which nobody takes or lets go of a row; a row may appear as failed.
LEMMA NobodyMoves ==
    ASSUME IInv, TypeOK', UNCHANGED <<attempts, dingtalk>>,
           faults' \in {faults, faults + 1},
           \A k \in Keys : \/ notes'[k] = notes[k]
                           \/ notes[k] = "absent" /\ notes'[k] = "failed",
           \A q \in Procs :
              /\ Out(q)' <=> Out(q)
              /\ Out(q) => pc'[q] = pc[q] /\ key'[q] = key[q] /\ outcome'[q] = outcome[q]
              /\ pc'[q] = "scanned" => key'[q] \in Candidates
    PROVE  IInv'
<1>1. UNCHANGED <<attempts, sends, accepted>>
  BY DEF dingtalk
<1>2. \A q \in Procs : Out(q) =>
        /\ key[q] \in Keys /\ notes[key[q]] # "absent"
        /\ notes'[key[q]] = notes[key[q]]
  BY DEF IInv, Placed
<1>3. Placed'
  <2> SUFFICES ASSUME NEW q \in Procs
               PROVE
        /\ pc'[q] = "scanned" => key'[q] \in Candidates
        /\ Out(q)' => key'[q] \in Keys /\ notes'[key'[q]] # "absent"
        /\ Out(q)' /\ q \in Workers => key'[q].type = Reminder /\ key'[q].to \in Users
        /\ pc'[q] = "record" =>
             /\ outcome'[q] \in {"sent", "failed"}
             /\ outcome'[q] = "sent" => accepted'[key'[q]] > 0
    BY DEF Placed
  <2>1. pc'[q] = "record" => Out(q)'
    BY DEF Out
  <2> QED BY <1>1, <1>2, <2>1 DEF IInv, Placed
<1>4. Alone'
  BY <1>2 DEF IInv, Alone
<1>5. Unsent'
  <2>1. \A w \in Workers : w \in Procs /\ (pc'[w] = "deliver" => Out(w)')
    BY DEF Procs, Out
  <2> QED BY <1>1, <2>1 DEF IInv, Unsent
<1>6. RemindedOncePerDay'
  BY <1>1 DEF IInv, RemindedOncePerDay
<1>7. Counted'
  <2>3. ASSUME NEW j \in Keys
        PROVE  Recording(j)' = Recording(j)
    <3>1. \A q \in Procs : q \in Recording(j)' <=> q \in Recording(j)
      BY DEF Recording, Out
    <3>2. Recording(j) \subseteq Procs /\ Recording(j)' \subseteq Procs
      BY DEF Recording
    <3> QED BY <3>1, <3>2
  <2> QED BY <1>1, <2>3 DEF IInv, Counted
<1>8. Covered'
  <2>1. \A j : \A q \in Procs : q \in InFlight(j)' <=> q \in InFlight(j)
    BY DEF InFlight, Out
  <2>2. \A j : InFlight(j) \subseteq Procs /\ InFlight(j)' \subseteq Procs
    BY DEF InFlight
  <2>3. \A j : InFlight(j)' = InFlight(j)
    BY <2>1, <2>2
  <2>4. Orphans' \subseteq Orphans
    BY <2>3 DEF Orphans
  <2>5. faults' \in Nat /\ faults <= faults'
    BY DEF IInv, Covered
  <2> QED BY <2>4, <2>5, CoveredKept DEF IInv
<1> QED BY <1>3, <1>4, <1>5, <1>6, <1>7, <1>8 DEF IInv

\* The message is handed over; the answer, if any, is still to be recorded.
LEMMA SendKeeps ==
    ASSUME IInv, NEW p \in Procs, Send(p)
    PROVE  IInv'
<1> DEFINE k == key[p]
<1>1. /\ pc[p] = "deliver" /\ pc' = [pc EXCEPT ![p] = "record"]
      /\ UNCHANGED <<day, notes, attempts, key, calls>>
      /\ sends' = IF p \in Workers THEN [sends EXCEPT ![k].worker = @ + 1]
                                   ELSE [sends EXCEPT ![k].request = @ + 1]
  BY DEF Send, rows
<1>2. \/ /\ k.to \in Users
         /\ accepted' = [accepted EXCEPT ![k] = @ + 1]
         /\ \/ outcome' = [outcome EXCEPT ![p] = "sent"] /\ UNCHANGED faults
            \/ /\ outcome' = [outcome EXCEPT ![p] = "failed"]
               /\ faults' = faults + 1
      \/ /\ outcome' = [outcome EXCEPT ![p] = "failed"]
         /\ UNCHANGED <<accepted, faults>>
  BY DEF Send
<1>3. /\ pc \in [Procs -> {"idle", "scanned", "deliver", "record"}]
      /\ outcome \in [Procs -> {"none", "sent", "failed"}]
      /\ sends \in [Keys -> [worker : Nat, request : Nat]]
      /\ accepted \in [Keys -> Nat] /\ attempts \in [Keys -> Nat]
      /\ faults \in Nat
  BY DEF IInv, TypeOK, Covered
<1>4. k \in Keys /\ Out(p)
  BY <1>1 DEF IInv, Placed, Out
<1> HIDE DEF k
<1>5. /\ pc' \in [Procs -> {"idle", "scanned", "deliver", "record"}]
      /\ pc'[p] = "record" /\ \A q \in Procs : q # p => pc'[q] = pc[q]
  BY <1>1, <1>3
<1>6. /\ outcome' \in [Procs -> {"none", "sent", "failed"}]
      /\ outcome'[p] \in {"sent", "failed"}
      /\ \A q \in Procs : q # p => outcome'[q] = outcome[q]
  BY <1>2, <1>3
<1>7. /\ accepted' \in [Keys -> Nat]
      /\ outcome'[p] = "sent" => accepted'[k] > 0
      /\ \A j \in Keys : accepted[j] > 0 => accepted'[j] > 0
  BY <1>2, <1>3, <1>4
<1>8. /\ sends' \in [Keys -> [worker : Nat, request : Nat]]
      /\ \A j \in Keys : j # k => sends'[j] = sends[j]
      /\ sends'[k].worker = sends[k].worker + IF p \in Workers THEN 1 ELSE 0
      /\ sends'[k].request = sends[k].request + IF p \in Workers THEN 0 ELSE 1
  <2>0. sends[k] \in [worker : Nat, request : Nat]
    BY <1>3, <1>4
  <2>1. CASE p \in Workers
    <3>1. [sends[k] EXCEPT !.worker = @ + 1] \in [worker : Nat, request : Nat]
      BY <2>0
    <3>2. sends' = [sends EXCEPT ![k] = [sends[k] EXCEPT !.worker = @ + 1]]
      BY <1>1, <1>3, <1>4, <2>1
    <3> QED BY <1>3, <1>4, <2>0, <2>1, <3>1, <3>2
  <2>2. CASE p \notin Workers
    <3>1. [sends[k] EXCEPT !.request = @ + 1] \in [worker : Nat, request : Nat]
      BY <2>0
    <3>2. sends' = [sends EXCEPT ![k] = [sends[k] EXCEPT !.request = @ + 1]]
      BY <1>1, <1>3, <1>4, <2>2
    <3> QED BY <1>3, <1>4, <2>0, <2>2, <3>1, <3>2
  <2> QED BY <2>1, <2>2
<1>9. TypeOK'
  <2>1. \A q \in Procs : pc'[q] \in {"deliver", "record"} => key[q] \in Keys
    BY <1>4, <1>5 DEF IInv, TypeOK, k
  <2> QED BY <1>1, <1>5, <1>6, <1>7, <1>8, <2>1 DEF IInv, TypeOK
<1>10. \A q \in Procs : Out(q)' <=> Out(q)
  BY <1>4, <1>5 DEF Out
<1>11. Placed'
  <2> SUFFICES ASSUME NEW q \in Procs
               PROVE
        /\ pc'[q] = "scanned" => key'[q] \in Candidates
        /\ Out(q)' => key'[q] \in Keys /\ notes'[key'[q]] # "absent"
        /\ Out(q)' /\ q \in Workers => key'[q].type = Reminder /\ key'[q].to \in Users
        /\ pc'[q] = "record" =>
             /\ outcome'[q] \in {"sent", "failed"}
             /\ outcome'[q] = "sent" => accepted'[key'[q]] > 0
    BY DEF Placed
  <2>1. /\ Out(q)' => key'[q] \in Keys /\ notes'[key'[q]] # "absent"
        /\ Out(q)' /\ q \in Workers => key'[q].type = Reminder /\ key'[q].to \in Users
    BY <1>1, <1>10 DEF IInv, Placed
  <2>2. CASE q = p
    BY <1>5, <1>6, <1>7, <1>1, <2>1, <2>2 DEF k
  <2>3. CASE q # p
    <3>1. pc'[q] = "record" => key[q] \in Keys
      BY <1>5, <2>3 DEF IInv, TypeOK
    <3> QED BY <1>1, <1>5, <1>6, <1>7, <2>1, <2>3, <3>1 DEF IInv, Placed
  <2> QED BY <2>2, <2>3
<1>12. Alone'
  BY <1>1, <1>10 DEF IInv, Alone
<1>13. \A w \in Workers : w # p /\ pc[w] = "deliver" /\ p \in Workers => key[w] # k
  <2>1. \A w \in Workers : w \in Procs /\ (pc[w] = "deliver" => Out(w))
    BY DEF Procs, Out
  <2>2. p \in Workers => k.type = Reminder
    BY <1>4 DEF IInv, Placed, k
  <2> QED BY <1>4, <2>1, <2>2 DEF IInv, Alone, k
<1>14. notes[k] # "absent"
  BY <1>4 DEF IInv, Placed, k
<1>15. Unsent'
  <2>1. \A j \in Keys : notes'[j] = "absent" => sends'[j].worker = 0
    BY <1>1, <1>8, <1>14 DEF IInv, Unsent
  <2>2. ASSUME NEW w \in Workers, pc'[w] = "deliver"
        PROVE  sends'[key'[w]].worker = 0
    <3>1. w # p /\ w \in Procs /\ pc[w] = "deliver" /\ key[w] \in Keys
      BY <1>5, <2>2 DEF Procs, IInv, TypeOK
    <3>2. sends[key[w]].worker = 0
      BY <3>1 DEF IInv, Unsent
    <3> QED BY <1>1, <1>3, <1>8, <1>13, <3>1, <3>2
  <2> QED BY <2>1, <2>2 DEF Unsent
<1>16. RemindedOncePerDay'
  <2>1. p \in Workers => sends[k].worker = 0 /\ k.to \in Users
    BY <1>1, <1>4 DEF IInv, Unsent, Placed, k
  <2>2. sends'[k].worker <= IF k.to \in Unaddressed THEN 0 ELSE 1
    BY <1>3, <1>4, <1>8, <2>1, UsersAssumption DEF IInv, RemindedOncePerDay
  <2> QED BY <1>8, <2>2 DEF IInv, RemindedOncePerDay
<1>17. Counted'
  <2>1. p \notin Recording(k) /\ IsFiniteSet(Recording(k))
    BY <1>1, <1>4 DEF Recording, IInv, Counted
  <2>2. Recording(k)' = Recording(k) \cup {p}
    <3>1. \A q \in Procs : q \in Recording(k)' <=> q \in Recording(k) \/ q = p
      BY <1>1, <1>5 DEF Recording, k
    <3>2. Recording(k) \subseteq Procs /\ Recording(k)' \subseteq Procs
      BY DEF Recording
    <3> QED BY <3>1, <3>2
  <2>3. \A j \in Keys : j # k => Recording(j)' = Recording(j)
    <3>1. \A j : j # k => \A q \in Procs : q \in Recording(j)' <=> q \in Recording(j)
      BY <1>1, <1>5 DEF Recording, k
    <3>2. \A j : Recording(j) \subseteq Procs /\ Recording(j)' \subseteq Procs
      BY DEF Recording
    <3> QED BY <3>1, <3>2
  <2>4. IsFiniteSet(Recording(k)') /\ Cardinality(Recording(k)') = Cardinality(Recording(k)) + 1
        /\ Cardinality(Recording(k)) \in Nat
    BY <2>1, <2>2, FS_AddElement, FS_CardinalityType
  <2>5. sends'[k].worker + sends'[k].request = sends[k].worker + sends[k].request + 1
    BY <1>3, <1>4, <1>8
  <2>6. attempts'[k] + Cardinality(Recording(k)') <= sends'[k].worker + sends'[k].request
    BY <1>1, <1>3, <1>4, <2>4, <2>5 DEF IInv, Counted
  <2> SUFFICES ASSUME NEW j \in Keys
               PROVE
        /\ IsFiniteSet(Recording(j)')
        /\ notes'[j] = "sent" => accepted'[j] > 0
        /\ attempts'[j] + Cardinality(Recording(j)') <= sends'[j].worker + sends'[j].request
    BY DEF Counted
  <2>7. notes'[j] = "sent" => accepted'[j] > 0
    BY <1>1, <1>7 DEF IInv, Counted
  <2>8. CASE j = k
    <3>1. k' = k
      BY <1>1 DEF k
    <3> QED BY <2>4, <2>6, <2>7, <2>8, <3>1
  <2>9. CASE j # k
    BY <1>1, <1>8, <2>3, <2>7, <2>9 DEF IInv, Counted
  <2> QED BY <2>8, <2>9
<1>18. Covered'
  <2>1. \A j : \A q \in Procs : q \in InFlight(j)' <=> q \in InFlight(j)
    BY <1>1, <1>10 DEF InFlight, Out
  <2>2. \A j : InFlight(j) \subseteq Procs /\ InFlight(j)' \subseteq Procs
    BY DEF InFlight
  <2>3. \A j : InFlight(j)' = InFlight(j)
    BY <2>1, <2>2
  <2>4. Orphans' \subseteq Orphans
    BY <1>1, <2>3 DEF Orphans
  <2>5. faults' \in Nat /\ faults <= faults'
    BY <1>2, <1>3
  <2> QED BY <2>4, <2>5, CoveredKept DEF IInv
<1> QED BY <1>9, <1>11, <1>12, <1>15, <1>16, <1>17, <1>18 DEF IInv

\* A process lets go of its row: the others keep theirs, and what it leaves of
\* the answers to record.
LEMMA LetsGo ==
    ASSUME IInv, NEW p \in Procs, Out(p), Idle(p)
    PROVE  /\ Typed /\ OnlyMoves(p) /\ ~Out(p)' /\ pc'[p] = "idle" /\ key[p] \in Keys
           /\ \A q \in Procs : q # p => (Out(q)' <=> Out(q))
           /\ \A j \in Keys : Recording(j)' = Recording(j) \ {p}
           /\ \A j \in Keys : /\ IsFiniteSet(Recording(j)')
                              /\ Cardinality(Recording(j)') <= Cardinality(Recording(j))
                              /\ Cardinality(Recording(j)') \in Nat
                              /\ Cardinality(Recording(j)) \in Nat
                              /\ p \in Recording(j) =>
                                   Cardinality(Recording(j)') = Cardinality(Recording(j)) - 1
<1>1. OnlyMoves(p) /\ Typed /\ pc'[p] = "idle"
  BY GoesIdle DEF IInv
<1>2. ~Out(p)' /\ \A q \in Procs : q # p => (Out(q)' <=> Out(q))
  BY <1>1 DEF OnlyMoves, Out
<1>3. key[p] \in Keys
  BY DEF IInv, Placed
<1>4. ASSUME NEW j \in Keys
      PROVE  Recording(j)' = Recording(j) \ {p}
  <2>1. \A q \in Procs : q \in Recording(j)' <=> q \in Recording(j) /\ q # p
    BY <1>1 DEF Recording, OnlyMoves
  <2>2. Recording(j) \subseteq Procs /\ Recording(j)' \subseteq Procs
    BY DEF Recording
  <2> QED BY <2>1, <2>2
<1>5. ASSUME NEW j \in Keys
      PROVE  /\ IsFiniteSet(Recording(j)')
             /\ Cardinality(Recording(j)') <= Cardinality(Recording(j))
             /\ Cardinality(Recording(j)') \in Nat
             /\ Cardinality(Recording(j)) \in Nat
             /\ p \in Recording(j) =>
                  Cardinality(Recording(j)') = Cardinality(Recording(j)) - 1
  <2>1. IsFiniteSet(Recording(j)) /\ Recording(j)' = Recording(j) \ {p}
    BY <1>4 DEF IInv, Counted
  <2>2. /\ IsFiniteSet(Recording(j)')
        /\ Cardinality(Recording(j)') =
             IF p \in Recording(j) THEN Cardinality(Recording(j)) - 1
                                   ELSE Cardinality(Recording(j))
    BY <2>1, FS_RemoveElement
  <2>3. Cardinality(Recording(j)') \in Nat /\ Cardinality(Recording(j)) \in Nat
    BY <2>1, <2>2, FS_CardinalityType
  <2> QED BY <2>2, <2>3
<1> QED BY <1>1, <1>2, <1>3, <1>4, <1>5

\* The outcome is recorded, and the row is let go of.
LEMMA RecordKeeps ==
    ASSUME IInv, NEW p \in Procs, Record(p)
    PROVE  IInv'
<1>1. /\ pc[p] = "record" /\ Idle(p) /\ Out(p)
      /\ notes' = [notes EXCEPT ![key[p]] = outcome[p]]
      /\ attempts' = [attempts EXCEPT ![key[p]] = @ + 1]
      /\ UNCHANGED <<day, sends, accepted, calls, faults>>
  BY DEF Record, dingtalk, Out
<1>2. PICK k \in Keys : k = key[p]
  BY <1>1 DEF IInv, Placed
<1>3. /\ Typed /\ OnlyMoves(p) /\ ~Out(p)' /\ pc'[p] = "idle"
      /\ \A q \in Procs : q # p => (Out(q)' <=> Out(q))
      /\ \A j \in Keys : /\ IsFiniteSet(Recording(j)')
                         /\ Cardinality(Recording(j)') <= Cardinality(Recording(j))
                         /\ Cardinality(Recording(j)') \in Nat
                         /\ Cardinality(Recording(j)) \in Nat
                         /\ p \in Recording(j) =>
                              Cardinality(Recording(j)') = Cardinality(Recording(j)) - 1
  BY <1>1, LetsGo
<1>4. /\ notes \in [Keys -> Status] /\ attempts \in [Keys -> Nat]
      /\ sends \in [Keys -> [worker : Nat, request : Nat]]
  BY DEF IInv, TypeOK
<1>5. outcome[p] \in {"sent", "failed"} /\ (outcome[p] = "sent" => accepted[k] > 0)
  BY <1>1, <1>2 DEF IInv, Placed
<1>6. /\ notes' \in [Keys -> Status] /\ notes'[k] = outcome[p]
      /\ \A j \in Keys : j # k => notes'[j] = notes[j]
  BY <1>1, <1>2, <1>4, <1>5 DEF Status
<1>7. /\ attempts' \in [Keys -> Nat] /\ attempts'[k] = attempts[k] + 1
      /\ \A j \in Keys : j # k => attempts'[j] = attempts[j]
  BY <1>1, <1>2, <1>4
<1>8. TypeOK'
  BY <1>1, <1>3, <1>6, <1>7 DEF IInv, TypeOK, Typed
<1>9. Placed'
  <2> SUFFICES ASSUME NEW q \in Procs
               PROVE
        /\ pc'[q] = "scanned" => key'[q] \in Candidates
        /\ Out(q)' => key'[q] \in Keys /\ notes'[key'[q]] # "absent"
        /\ Out(q)' /\ q \in Workers => key'[q].type = Reminder /\ key'[q].to \in Users
        /\ pc'[q] = "record" =>
             /\ outcome'[q] \in {"sent", "failed"}
             /\ outcome'[q] = "sent" => accepted'[key'[q]] > 0
    BY DEF Placed
  <2>1. CASE q = p
    BY <1>3, <2>1
  <2>2. CASE q # p
    BY <1>1, <1>3, <1>5, <1>6, <2>2 DEF IInv, Placed, OnlyMoves
  <2> QED BY <2>1, <2>2
<1>10. Alone'
  <2> SUFFICES ASSUME NEW q \in Procs, Out(q)', key'[q].type = Reminder
               PROVE  /\ notes'[key'[q]] = "pending"
                      /\ \A u \in Procs \ {q} : Out(u)' => key'[u] # key'[q]
    BY DEF Alone
  <2>1. q # p /\ Out(q) /\ key'[q] = key[q]
    BY <1>3 DEF OnlyMoves
  <2>2. key[q] \in Keys /\ key[q] # k /\ notes[key[q]] = "pending"
        /\ \A u \in Procs \ {q} : Out(u) => key[u] # key[q]
    BY <1>1, <1>2, <2>1 DEF IInv, Alone, Placed
  <2> QED BY <1>3, <1>6, <2>1, <2>2 DEF OnlyMoves
<1>11. Unsent'
  <2>1. \A w \in Workers : w \in Procs
    BY DEF Procs
  <2> QED BY <1>1, <1>3, <1>5, <1>6, <2>1 DEF IInv, Unsent, OnlyMoves
<1>12. RemindedOncePerDay'
  BY <1>1 DEF IInv, RemindedOncePerDay
<1>13. Counted'
  <2> SUFFICES ASSUME NEW j \in Keys
               PROVE
        /\ IsFiniteSet(Recording(j)')
        /\ notes'[j] = "sent" => accepted'[j] > 0
        /\ attempts'[j] + Cardinality(Recording(j)') <= sends'[j].worker + sends'[j].request
    BY DEF Counted
  <2>1. /\ notes[j] = "sent" => accepted[j] > 0
        /\ attempts[j] + Cardinality(Recording(j)) <= sends[j].worker + sends[j].request
    BY DEF IInv, Counted
  <2>2. attempts[j] \in Nat /\ sends[j].worker \in Nat /\ sends[j].request \in Nat
    BY <1>4
  <2>3. CASE j = k
    <3>1. p \in Recording(j)
      BY <1>1, <1>2, <2>3 DEF Recording
    <3>2. attempts'[j] = attempts[j] + 1 /\ sends' = sends /\ accepted' = accepted
          /\ notes'[j] = outcome[p]
      BY <1>1, <1>6, <1>7, <2>3
    <3>3. Cardinality(Recording(j)') = Cardinality(Recording(j)) - 1
      BY <1>3, <3>1
    <3>4. attempts'[j] + Cardinality(Recording(j)') <= sends'[j].worker + sends'[j].request
      BY <1>3, <2>1, <2>2, <3>2, <3>3
    <3> QED BY <1>3, <1>5, <2>3, <3>2, <3>4
  <2>4. CASE j # k
    <3>1. attempts'[j] = attempts[j] /\ notes'[j] = notes[j]
          /\ sends' = sends /\ accepted' = accepted
      BY <1>1, <1>6, <1>7, <2>4
    <3>2. Cardinality(Recording(j)') <= Cardinality(Recording(j))
          /\ Cardinality(Recording(j)') \in Nat /\ Cardinality(Recording(j)) \in Nat
      BY <1>3
    <3>3. attempts'[j] + Cardinality(Recording(j)') <= sends'[j].worker + sends'[j].request
      BY <2>1, <2>2, <3>1, <3>2
    <3> QED BY <1>3, <2>1, <3>1, <3>3
  <2> QED BY <2>3, <2>4
<1>14. Covered'
  <2>1. \A j \in Keys : j \in Orphans' => j \in Orphans
    BY <1>2, <1>3, <1>5, <1>6, OrphansOf
  <2>2. Orphans' \subseteq Orphans /\ faults \in Nat
    BY <2>1 DEF Orphans, IInv, Covered
  <2> QED BY <1>1, <2>2, CoveredKept DEF IInv
<1> QED BY <1>8, <1>9, <1>10, <1>11, <1>12, <1>13, <1>14 DEF IInv

\* A crash leaves the row of the process, if it had one, to nobody.
LEMMA CrashKeeps ==
    ASSUME IInv, NEW p \in Procs, Crash(p), Out(p)
    PROVE  IInv'
<1>1. /\ Idle(p) /\ faults' = faults + 1
      /\ UNCHANGED <<day, notes, attempts, sends, accepted, calls>>
  BY DEF Crash, rows, dingtalk
<1>2. /\ Typed /\ OnlyMoves(p) /\ ~Out(p)' /\ pc'[p] = "idle" /\ key[p] \in Keys
      /\ \A q \in Procs : q # p => (Out(q)' <=> Out(q))
      /\ \A j \in Keys : /\ IsFiniteSet(Recording(j)')
                         /\ Cardinality(Recording(j)') <= Cardinality(Recording(j))
                         /\ Cardinality(Recording(j)') \in Nat
                         /\ Cardinality(Recording(j)) \in Nat
  BY <1>1, LetsGo
<1>3. TypeOK'
  BY <1>1, <1>2 DEF IInv, TypeOK, Typed
<1>4. \A q \in Procs : pc'[q] \in {"scanned", "deliver", "record"} =>
        /\ q # p /\ pc'[q] = pc[q] /\ key'[q] = key[q] /\ outcome'[q] = outcome[q]
        /\ Out(q)' <=> Out(q)
  BY <1>2 DEF OnlyMoves
<1>5. \A q \in Procs : Out(q)' => pc'[q] \in {"deliver", "record"}
  BY DEF Out
<1>6. Placed'
  <2> SUFFICES ASSUME NEW q \in Procs, pc'[q] \in {"scanned", "deliver", "record"}
               PROVE
        /\ pc'[q] = "scanned" => key'[q] \in Candidates
        /\ Out(q)' => key'[q] \in Keys /\ notes'[key'[q]] # "absent"
        /\ Out(q)' /\ q \in Workers => key'[q].type = Reminder /\ key'[q].to \in Users
        /\ pc'[q] = "record" =>
             /\ outcome'[q] \in {"sent", "failed"}
             /\ outcome'[q] = "sent" => accepted'[key'[q]] > 0
    BY <1>5 DEF Placed
  <2> QED BY <1>1, <1>4 DEF IInv, Placed
<1>7. Alone'
  BY <1>1, <1>4, <1>5 DEF IInv, Alone
<1>8. Unsent'
  <2>1. \A w \in Workers : w \in Procs
    BY DEF Procs
  <2> QED BY <1>1, <1>4, <2>1 DEF IInv, Unsent
<1>9. RemindedOncePerDay'
  BY <1>1 DEF IInv, RemindedOncePerDay
<1>10. Counted'
  <2> SUFFICES ASSUME NEW j \in Keys
               PROVE
        /\ IsFiniteSet(Recording(j)')
        /\ notes'[j] = "sent" => accepted'[j] > 0
        /\ attempts'[j] + Cardinality(Recording(j)') <= sends'[j].worker + sends'[j].request
    BY DEF Counted
  <2>1. /\ notes[j] = "sent" => accepted[j] > 0
        /\ attempts[j] + Cardinality(Recording(j)) <= sends[j].worker + sends[j].request
    BY DEF IInv, Counted
  <2>2. attempts[j] \in Nat /\ sends[j].worker \in Nat /\ sends[j].request \in Nat
    BY DEF IInv, TypeOK
  <2>3. Cardinality(Recording(j)') <= Cardinality(Recording(j))
        /\ Cardinality(Recording(j)') \in Nat /\ Cardinality(Recording(j)) \in Nat
    BY <1>2
  <2> QED BY <1>1, <1>2, <2>1, <2>2, <2>3
<1>11. Covered'
  <2>1. \A j \in Keys : j # key[p] => (j \in Orphans' => j \in Orphans)
    BY <1>1, <1>2, OrphansOf
  <2>2. Orphans' \subseteq Orphans \cup {key[p]}
    BY <2>1 DEF Orphans
  <2> QED BY <1>1, <2>2, CoveredByFault DEF IInv
<1> QED BY <1>3, <1>6, <1>7, <1>8, <1>9, <1>10, <1>11 DEF IInv

-----------------------------------------------------------------------------
(* Every step.                                                             *)

\* No row changes, but one may appear as failed.
RowsStay ==
    /\ notes' \in [Keys -> Status] /\ UNCHANGED <<attempts, dingtalk>>
    /\ \A k \in Keys : \/ notes'[k] = notes[k]
                       \/ notes[k] = "absent" /\ notes'[k] = "failed"

\* A step that leaves every row and every process with a row as they are.
LEMMA WithoutRow ==
    ASSUME IInv, NEW p \in Procs, ~Out(p), OnlyMoves(p), Typed,
           ~Out(p)', pc'[p] = "scanned" => key'[p] \in Candidates,
           RowsStay, day' = day, faults' \in {faults, faults + 1}
    PROVE  IInv'
<1>1. TypeOK'
  BY DEF IInv, TypeOK, Typed, RowsStay, dingtalk
<1>2. \A q \in Procs : Out(q)' <=> Out(q)
  BY DEF Out, OnlyMoves
<1>3. \A q \in Procs : pc'[q] = "scanned" => key'[q] \in Candidates
  BY DEF IInv, Placed, OnlyMoves
<1>4. \A q \in Procs : Out(q) => pc'[q] = pc[q] /\ key'[q] = key[q] /\ outcome'[q] = outcome[q]
  BY DEF OnlyMoves
<1> QED BY <1>1, <1>2, <1>3, <1>4, NobodyMoves DEF RowsStay

\* A step in which only the day or the calls go on.
LEMMA Elsewhere ==
    ASSUME IInv, day' \in 1 .. MaxDay,
           UNCHANGED <<rows, pc, key, outcome, dingtalk, faults>>
    PROVE  IInv'
<1>1. UNCHANGED <<notes, attempts, pc, key, outcome, sends, accepted, faults>>
  BY DEF rows, dingtalk
<1>2. TypeOK'
  BY <1>1 DEF IInv, TypeOK
<1>3. \A q \in Procs : /\ Out(q)' <=> Out(q)
                       /\ pc'[q] = "scanned" => key'[q] \in Candidates
  BY <1>1 DEF Out, IInv, Placed
<1> QED BY <1>1, <1>2, <1>3, NobodyMoves DEF dingtalk

\* The steps of the worker's scan.
LEMMA WorkerKeeps ==
    ASSUME IInv, NEW w \in Workers, Scan(w) \/ Remind(w)
    PROVE  IInv'
<1>1. w \in Procs /\ ~Out(w) /\ day' = day /\ UNCHANGED <<attempts, dingtalk, faults>>
  BY DEF Procs, Scan, Remind, Out, rows
<1>2. TypeOK /\ notes \in [Keys -> Status]
  BY DEF IInv, TypeOK
<1>3. CASE Scan(w)
  <2>1. PICK c \in Candidates : key' = [key EXCEPT ![w] = c]
    BY <1>3 DEF Scan
  <2>2. pc' = [pc EXCEPT ![w] = "scanned"] /\ UNCHANGED <<notes, outcome>>
    BY <1>3 DEF Scan, rows
  <2>3. OnlyMoves(w) /\ Typed /\ ~Out(w)' /\ key'[w] \in Candidates
    BY <1>1, <1>2, <2>1, <2>2 DEF OnlyMoves, Typed, TypeOK, Out
  <2>4. RowsStay /\ faults' \in {faults, faults + 1}
    BY <1>1, <1>2, <2>2 DEF RowsStay
  <2> QED BY <1>1, <2>3, <2>4, WithoutRow
<1>4. CASE Remind(w)
  <2> DEFINE k == Today(w)
  <2>1. k \in Keys /\ k.type = Reminder /\ k.to \in Users \cup Unaddressed
    <3>1. key[w] \in Candidates
      BY <1>1, <1>4 DEF Remind, IInv, Placed
    <3>2. k \in Keys /\ k.type = Reminder
      BY <1>1, <1>2, <3>1, TodayIsKey
    <3> QED BY <3>2, KeyFields
  <2>2. \/ Idle(w) /\ UNCHANGED notes
        \/ /\ notes[k] = "absent" /\ notes' = [notes EXCEPT ![k] = "failed"]
           /\ Idle(w)
        \/ /\ notes[k] = "absent" /\ k.to \notin Unaddressed
           /\ notes' = [notes EXCEPT ![k] = "pending"]
           /\ Deliver(w, k)
    BY <1>4 DEF Remind
  <2> HIDE DEF k
  <2>3. CASE /\ Idle(w) /\ notes' \in [Keys -> Status]
             /\ \A j \in Keys : \/ notes'[j] = notes[j]
                                \/ notes[j] = "absent" /\ notes'[j] = "failed"
    <3>1. OnlyMoves(w) /\ Typed /\ ~Out(w)' /\ pc'[w] # "scanned"
      BY <1>1, <1>2, <2>3, GoesIdle DEF Out
    <3>2. RowsStay /\ faults' \in {faults, faults + 1}
      BY <1>1, <2>3 DEF RowsStay
    <3> QED BY <1>1, <3>1, <3>2, WithoutRow
  <2>4. CASE Idle(w) /\ UNCHANGED notes
    BY <1>2, <2>3, <2>4
  <2>5. CASE /\ notes[k] = "absent" /\ notes' = [notes EXCEPT ![k] = "failed"]
             /\ Idle(w)
    BY <1>2, <2>1, <2>3, <2>5 DEF Status
  <2>6. CASE /\ notes[k] = "absent" /\ k.to \notin Unaddressed
             /\ notes' = [notes EXCEPT ![k] = "pending"]
             /\ Deliver(w, k)
    BY <1>1, <2>1, <2>6, TakesRow
  <2> QED BY <2>2, <2>4, <2>5, <2>6
<1> QED BY <1>3, <1>4

\* The calls of the operator; a request is no worker.
LEMMA RequestKeeps ==
    ASSUME IInv, NEW r \in Requests,
           (\E u \in Users : SendOA(r, u)) \/ (\E k \in Keys : RetryOA(r, k))
    PROVE  IInv'
<1>1. /\ r \in Procs /\ r \notin Workers /\ ~Out(r) /\ day' = day
      /\ UNCHANGED <<attempts, dingtalk, faults>>
  BY ProcsAssumption DEF Procs, SendOA, RetryOA, Called, Out
<1>2. notes \in [Keys -> Status] /\ day \in 1 .. MaxDay
  BY DEF IInv, TypeOK
<1>3. ASSUME NEW u \in Users, SendOA(r, u)
      PROVE  IInv'
  <2> DEFINE k == [day |-> day, to |-> u, type |-> Coordination]
  <2>1. k \in Keys /\ k.type # Reminder
    BY <1>2 DEF Keys, Reminder, Coordination
  <2>2. /\ notes' = [notes EXCEPT ![k] = IF @ = "absent" THEN "pending" ELSE @]
        /\ \/ notes[k] \in {"absent", "pending"} /\ Deliver(r, k)
           \/ notes[k] \in {"sent", "failed"} /\ UNCHANGED <<pc, key, outcome>>
    BY <1>3 DEF SendOA
  <2> HIDE DEF k
  <2>3. CASE notes[k] \in {"absent", "pending"} /\ Deliver(r, k)
    <3>1. notes' = [notes EXCEPT ![k] = "pending"]
      BY <1>2, <2>1, <2>2, <2>3
    <3> QED BY <1>1, <2>1, <2>3, <3>1, TakesRow
  <2>4. CASE notes[k] \in {"sent", "failed"} /\ UNCHANGED <<pc, key, outcome>>
    <3>1. notes' = notes
      BY <1>2, <2>1, <2>2, <2>4
    <3> QED BY <1>1, <1>2, <2>4, <3>1, Elsewhere DEF rows
  <2> QED BY <2>2, <2>3, <2>4
<1>4. ASSUME NEW k \in Keys, RetryOA(r, k)
      PROVE  IInv'
  BY <1>1, <1>4, TakesRow DEF RetryOA
<1> QED BY <1>3, <1>4

\* The invariant holds at the start.
LEMMA InitInv == Init => IInv
<1> SUFFICES ASSUME Init
             PROVE  IInv
  OBVIOUS
<1>1. TypeOK
  BY BoundsAssumption DEF Init, TypeOK, Status
<1>2. Placed /\ Alone
  BY DEF Init, Placed, Alone, Out
<1>3. Unsent
  <2>1. \A w \in Workers : w \in Procs
    BY DEF Procs
  <2> QED BY <2>1 DEF Init, Unsent
<1>4. RemindedOncePerDay
  BY DEF Init, RemindedOncePerDay
<1>5. Counted
  <2> SUFFICES ASSUME NEW k \in Keys
               PROVE
        /\ IsFiniteSet(Recording(k))
        /\ notes[k] = "sent" => accepted[k] > 0
        /\ attempts[k] + Cardinality(Recording(k)) <= sends[k].worker + sends[k].request
    BY DEF Counted
  <2>1. Recording(k) = {}
    BY DEF Init, Recording
  <2>2. IsFiniteSet(Recording(k)) /\ Cardinality(Recording(k)) = 0
    BY <2>1, FS_EmptySet
  <2> QED BY <2>2 DEF Init
<1>6. Covered
  <2>1. Orphans = {}
    BY DEF Init, Orphans
  <2>2. IsFiniteSet(Orphans) /\ Cardinality(Orphans) = 0
    BY <2>1, FS_EmptySet
  <2> QED BY <2>2 DEF Init, Covered
<1> QED BY <1>1, <1>2, <1>3, <1>4, <1>5, <1>6 DEF IInv

\* Every step keeps the invariant.
LEMMA NextInv == IInv /\ [Next]_vars => IInv'
<1> SUFFICES ASSUME IInv, [Next]_vars
             PROVE  IInv'
  OBVIOUS
<1>0. day \in 1 .. MaxDay /\ \A w \in Workers \cup Requests : w \in Procs
  BY DEF IInv, TypeOK, Procs
<1>1. CASE NextDay
  <2>1. day' \in 1 .. MaxDay /\ UNCHANGED <<rows, pc, key, outcome, dingtalk, faults>>
    BY <1>0, <1>1, BoundsAssumption DEF NextDay
  <2> QED BY <2>1, Elsewhere
<1>2. ASSUME NEW p \in Procs, Step(p)
      PROVE  IInv'
  BY <1>2, SendKeeps, RecordKeeps DEF Step
<1>3. ASSUME NEW w \in Workers, WorkerStep(w)
      PROVE  IInv'
  BY <1>0, <1>2, <1>3, WorkerKeeps DEF WorkerStep
<1>4. ASSUME NEW r \in Requests,
             Step(r) \/ (\E u \in Users : SendOA(r, u)) \/ (\E k \in Keys : RetryOA(r, k))
      PROVE  IInv'
  BY <1>0, <1>2, <1>4, RequestKeeps
<1>5. ASSUME NEW p \in Procs, Crash(p)
      PROVE  IInv'
  <2>1. CASE Out(p)
    BY <1>5, <2>1, CrashKeeps
  <2>2. CASE ~Out(p)
    <3>1. /\ Idle(p) /\ faults' = faults + 1 /\ day' = day
          /\ UNCHANGED <<notes, attempts, dingtalk>>
      BY <1>5 DEF Crash, rows
    <3>2. OnlyMoves(p) /\ Typed /\ ~Out(p)' /\ pc'[p] # "scanned"
      BY <3>1, GoesIdle DEF IInv, Out
    <3>3. RowsStay
      BY <3>1 DEF IInv, TypeOK, RowsStay
    <3>4. faults' \in {faults, faults + 1}
      BY <3>1
    <3> QED BY <2>2, <3>1, <3>2, <3>3, <3>4, WithoutRow
  <2> QED BY <2>1, <2>2
<1>6. CASE UNCHANGED vars
  BY <1>0, <1>6, Elsewhere DEF vars
<1> QED BY <1>1, <1>3, <1>4, <1>5, <1>6 DEF Next

-----------------------------------------------------------------------------
(* The theorems.                                                           *)

\* The invariant of the deliveries.
THEOREM Invariant == Spec => []IInv
  BY InitInv, NextInv, PTL DEF Spec

\* The rows, places and answers have their types, in every run.
THEOREM TypeCorrect == Spec => []TypeOK
<1>1. IInv => TypeOK
  BY DEF IInv
<1> QED BY <1>1, Invariant, PTL

\* The row of a reminder is never delivered twice at a time.
THEOREM OneReminderInFlightHolds == Spec => []OneReminderInFlight
<1>1. IInv => OneReminderInFlight
  <2> SUFFICES ASSUME IInv, NEW k \in Keys, k.type = Reminder
               PROVE  Cardinality(InFlight(k)) <= 1
    BY DEF OneReminderInFlight
  <2>1. \A p, q \in InFlight(k) : p = q
    BY DEF IInv, Alone, InFlight, Out
  <2>2. CASE InFlight(k) = {}
    BY <2>2, FS_EmptySet
  <2>3. CASE InFlight(k) # {}
    <3>1. PICK p : p \in InFlight(k)
      BY <2>3
    <3>2. InFlight(k) = {p}
      BY <2>1, <3>1
    <3>3. Cardinality({p}) = 1
      BY FS_Singleton
    <3> QED BY <3>2, <3>3
  <2> QED BY <2>2, <2>3
<1> QED BY <1>1, Invariant, PTL

\* The workers remind a person at most once a day.
THEOREM RemindedOncePerDayHolds == Spec => []RemindedOncePerDay
<1>1. IInv => RemindedOncePerDay
  BY DEF IInv
<1> QED BY <1>1, Invariant, PTL

\* What is recorded as sent was accepted, and no attempt is invented.
THEOREM SentIsTrueHolds == Spec => []SentIsTrue
<1>1. IInv => SentIsTrue
  BY DEF IInv, Counted, Recording, SentIsTrue
<1> QED BY <1>1, Invariant, PTL

\* A pending row is in somebody's hands, but for one row per fault.
THEOREM PendingIsInHandHolds == Spec => []PendingIsInHand
<1>1. IInv => PendingIsInHand
  BY DEF IInv, Covered, Orphans, PendingIsInHand
<1> QED BY <1>1, Invariant, PTL

-----------------------------------------------------------------------------
(* The reminders implement Errand.                                         *)

\* The phase of a reminder is told by its carrier, or by its row if it has none.
LEMMA Phases ==
    ASSUME IInv, NEW k \in Reminders
    PROVE  /\ \A p \in Procs : Out(p) /\ key[p] = k =>
                /\ pc[p] = "deliver" => Phase(k) = "due"
                /\ pc[p] = "record" /\ outcome[p] = "sent" => Phase(k) = "taken"
                /\ pc[p] = "record" /\ outcome[p] # "sent" => Phase(k) = "unanswered"
           /\ notes[k] # "pending" => Phase(k) = notes[k]
           /\ notes[k] = "pending" /\ (\A p \in Procs : Out(p) => key[p] # k)
                => Phase(k) = "dropped"
<1>1. ASSUME NEW p \in Procs, Out(p), key[p] = k
      PROVE  /\ notes[k] = "pending"
             /\ \A q \in Procs \ {p} : Out(q) => key[q] # k
  BY <1>1 DEF IInv, Alone, Reminders
<1>2. ASSUME NEW p \in Procs, Out(p), key[p] = k
      PROVE  /\ Carried(k, "deliver") <=> pc[p] = "deliver"
             /\ Carried(k, "record") <=> pc[p] = "record"
             /\ Accepted(k) <=> pc[p] = "record" /\ outcome[p] = "sent"
  BY <1>1, <1>2 DEF Carried, Accepted, Out
<1>3. ASSUME \A p \in Procs : Out(p) => key[p] # k
      PROVE  ~Carried(k, "deliver") /\ ~Carried(k, "record") /\ ~Accepted(k)
  BY <1>3 DEF Carried, Accepted, Out
<1> QED BY <1>1, <1>2, <1>3 DEF Phase

\* A reminder whose row and carrier stay keeps its phase.
LEMMA PhaseStays ==
    ASSUME NEW k, notes'[k] = notes[k],
           \A q \in Procs :
              \/ pc'[q] = pc[q] /\ key'[q] = key[q] /\ outcome'[q] = outcome[q]
              \/ ~(Out(q) /\ key[q] = k) /\ ~(Out(q)' /\ key'[q] = k)
    PROVE  Phase(k)' = Phase(k)
<1>1. /\ Carried(k, "deliver")' <=> Carried(k, "deliver")
      /\ Carried(k, "record")' <=> Carried(k, "record")
      /\ Accepted(k)' <=> Accepted(k)
  BY DEF Carried, Accepted, Out
<1> QED BY <1>1 DEF Phase

\* What p does for one reminder moves no other.
LEMMA OneMoves ==
    ASSUME NEW p \in Procs, OnlyMoves(p), NEW k \in Reminders,
           Out(p) => key[p] = k, Out(p)' => key'[p] = k,
           \A j \in Reminders : j # k => notes'[j] = notes[j],
           NEW to, Phase(k)' = to
    PROVE  [j \in Reminders |-> Phase(j)]' =
              [[j \in Reminders |-> Phase(j)] EXCEPT ![k] = to]
<1>1. \A j \in Reminders : j # k => Phase(j)' = Phase(j)
  BY PhaseStays DEF OnlyMoves
<1>2. Reminders' = Reminders
  BY DEF Reminders, Keys
<1> QED BY <1>1, <1>2

\* What p does for no reminder is not seen.
LEMMA Unnoticed ==
    ASSUME NEW p \in Procs, OnlyMoves(p),
           Out(p) => key[p] \notin Reminders, Out(p)' => key'[p] \notin Reminders,
           \A j \in Reminders :
              notes'[j] = notes[j] /\ sends'[j] = sends[j] /\ accepted'[j] = accepted[j]
    PROVE  UNCHANGED Errands!vars
<1>1. \A j \in Reminders : Phase(j)' = Phase(j)
  BY PhaseStays DEF OnlyMoves
<1> QED BY <1>1 DEF Errands!vars

\* Nor is what nobody does.
LEMMA NothingMoves ==
    ASSUME UNCHANGED <<notes, pc, key, outcome, sends, accepted>>
    PROVE  UNCHANGED Errands!vars
<1>1. \A j \in Reminders : Phase(j)' = Phase(j)
  BY PhaseStays
<1> QED BY <1>1 DEF Errands!vars

\* To take a reminder over is to send it out.
LEMMA TakingSendsOut ==
    ASSUME IInv, IInv', NEW p \in Procs, ~Out(p), NEW k \in Reminders, Deliver(p, k),
           notes[k] \in {"absent", "failed"}, notes' = [notes EXCEPT ![k] = "pending"],
           UNCHANGED dingtalk
    PROVE  Errands!SendOut(k)
<1>1. k \in Keys /\ notes \in [Keys -> Status]
  BY DEF Reminders, IInv, TypeOK
<1>2. OnlyMoves(p) /\ pc'[p] = "deliver" /\ key'[p] = k
  BY <1>1, GoesOut DEF IInv
<1>3. Phase(k)' = "due"
  <2>1. Out(p)'
    BY <1>2 DEF Out
  <2>2. k \in Reminders'
    BY DEF Reminders, Keys
  <2> QED BY <1>2, <2>1, Phases DEF Phase, Carried, IInv, Alone, Reminders
<1>4. Phase(k) \in {"absent", "failed"}
  BY Phases
<1>5. \A j \in Reminders : j # k => notes'[j] = notes[j]
  BY <1>1 DEF Reminders
<1>6. [j \in Reminders |-> Phase(j)]' =
        [[j \in Reminders |-> Phase(j)] EXCEPT ![k] = "due"]
  BY <1>2, <1>3, <1>5, OneMoves
<1> QED BY <1>4, <1>6 DEF Errands!SendOut, Errands!Moves, dingtalk


\* A message handed over is a step of its errand.
LEMMA SendHandsOver ==
    ASSUME IInv, IInv', NEW p \in Procs, Send(p)
    PROVE  [Errands!Next]_(Errands!vars)
<1>0. PICK k \in Keys : k = key[p]
  BY DEF Send, IInv, TypeOK
<1>1. /\ pc[p] = "deliver" /\ pc' = [pc EXCEPT ![p] = "record"]
      /\ UNCHANGED <<notes, key>>
      /\ sends' = IF p \in Workers THEN [sends EXCEPT ![k].worker = @ + 1]
                                   ELSE [sends EXCEPT ![k].request = @ + 1]
      /\ \/ /\ k.to \in Users /\ accepted' = [accepted EXCEPT ![k] = @ + 1]
            /\ \/ outcome' = [outcome EXCEPT ![p] = "sent"]
               \/ outcome' = [outcome EXCEPT ![p] = "failed"]
         \/ outcome' = [outcome EXCEPT ![p] = "failed"] /\ UNCHANGED accepted
  BY <1>0 DEF Send, rows
<1>2. /\ pc \in [Procs -> {"idle", "scanned", "deliver", "record"}]
      /\ outcome \in [Procs -> {"none", "sent", "failed"}]
      /\ sends \in [Keys -> [worker : Nat, request : Nat]]
      /\ accepted \in [Keys -> Nat] /\ k \in Keys /\ Out(p)
  BY <1>1 DEF IInv, TypeOK, Out
<1>3. /\ OnlyMoves(p) /\ pc'[p] = "record" /\ key'[p] = k /\ Out(p)' /\ key[p] = k
      /\ outcome'[p] \in {"sent", "failed"}
  BY <1>0, <1>1, <1>2 DEF OnlyMoves, Out
<1>4. /\ \A j \in Keys : j # k => sends'[j] = sends[j] /\ accepted'[j] = accepted[j]
      /\ sends'[k].worker + sends'[k].request = sends[k].worker + sends[k].request + 1
  <2>0. sends[k] \in [worker : Nat, request : Nat]
    BY <1>2
  <2>1. CASE p \in Workers
    <3>1. sends' = [sends EXCEPT ![k] = [sends[k] EXCEPT !.worker = @ + 1]]
      BY <1>1, <1>2, <2>1
    <3>2. sends'[k].worker = sends[k].worker + 1 /\ sends'[k].request = sends[k].request
      BY <1>2, <2>0, <3>1
    <3> QED BY <1>1, <1>2, <2>0, <3>1, <3>2
  <2>2. CASE p \notin Workers
    <3>1. sends' = [sends EXCEPT ![k] = [sends[k] EXCEPT !.request = @ + 1]]
      BY <1>1, <1>2, <2>2
    <3>2. sends'[k].worker = sends[k].worker /\ sends'[k].request = sends[k].request + 1
      BY <1>2, <2>0, <3>1
    <3> QED BY <1>1, <1>2, <2>0, <3>1, <3>2
  <2> QED BY <2>1, <2>2
<1>5. CASE k \notin Reminders
  <2>1. \A j \in Reminders : sends'[j] = sends[j] /\ accepted'[j] = accepted[j]
    BY <1>4, <1>5 DEF Reminders
  <2> QED BY <1>1, <1>3, <1>5, <2>1, Unnoticed
<1>6. CASE k \in Reminders
  <2> DEFINE to == IF outcome'[p] = "sent" THEN "taken" ELSE "unanswered"
  <2>1. Phase(k) = "due"
    BY <1>1, <1>2, <1>3, <1>6, Phases
  <2>2. Phase(k)' = to
    BY <1>1, <1>2, <1>3, <1>6 DEF Phase, Carried, Accepted, Out, IInv, Alone, Reminders
  <2> HIDE DEF to
  <2>3. [j \in Reminders |-> Phase(j)]' =
          [[j \in Reminders |-> Phase(j)] EXCEPT ![k] = to]
    BY <1>1, <1>3, <1>6, <2>2, OneMoves
  <2>4. Errands!Moves(k, {"due"}, to)
    BY <1>6, <2>1, <2>3 DEF Errands!Moves
  <2>5. [j \in Reminders |-> sends[j].worker + sends[j].request]' =
          [[j \in Reminders |-> sends[j].worker + sends[j].request]
              EXCEPT ![k] = @ + 1]
    BY <1>4, <1>6 DEF Reminders
  <2>6. /\ accepted' = [accepted EXCEPT ![k] = @ + 1] =>
             [j \in Reminders |-> accepted[j]]' =
                [[j \in Reminders |-> accepted[j]] EXCEPT ![k] = @ + 1]
        /\ accepted' = accepted =>
             [j \in Reminders |-> accepted[j]]' = [j \in Reminders |-> accepted[j]]
    BY <1>2, <1>6 DEF Reminders
  <2>7. \/ /\ k.to \in Users /\ accepted' = [accepted EXCEPT ![k] = @ + 1]
           /\ to \in {"taken", "unanswered"}
        \/ to = "unanswered" /\ accepted' = accepted
    BY <1>1, <1>2 DEF to
  <2>8. Errands!HandOver(k)
    BY <1>6, <2>4, <2>5, <2>6, <2>7 DEF Errands!HandOver
  <2> QED BY <1>6, <2>8 DEF Errands!Next
<1> QED BY <1>5, <1>6

\* What is recorded is what came of the errand.
LEMMA RecordReports ==
    ASSUME IInv, IInv', NEW p \in Procs, Record(p)
    PROVE  [Errands!Next]_(Errands!vars)
<1>0. PICK k \in Keys : k = key[p]
  BY DEF Record, IInv, TypeOK
<1>1. /\ pc[p] = "record" /\ Idle(p) /\ UNCHANGED dingtalk
      /\ notes' = [notes EXCEPT ![k] = outcome[p]]
  BY <1>0 DEF Record
<1>2. /\ notes \in [Keys -> Status] /\ k \in Keys /\ Out(p)
      /\ outcome[p] \in {"sent", "failed"}
  BY <1>1 DEF IInv, TypeOK, Placed, Out
<1>3. OnlyMoves(p) /\ ~Out(p)'
  BY <1>1, GoesIdle DEF IInv, Out
<1>4. notes'[k] = outcome[p] /\ \A j \in Keys : j # k => notes'[j] = notes[j]
  BY <1>1, <1>2
<1>5. CASE k \notin Reminders
  <2>1. \A j \in Reminders : notes'[j] = notes[j]
    BY <1>4, <1>5 DEF Reminders
  <2> QED BY <1>0, <1>1, <1>3, <1>5, <2>1, Unnoticed DEF dingtalk
<1>6. CASE k \in Reminders
  <2>1. Phase(k) = IF outcome[p] = "sent" THEN "taken" ELSE "unanswered"
    BY <1>0, <1>1, <1>2, <1>6, Phases
  <2>2. Phase(k)' = outcome[p]
    BY <1>2, <1>4 DEF Phase
  <2>3. \A j \in Reminders : j # k => notes'[j] = notes[j]
    BY <1>4 DEF Reminders
  <2>4. [j \in Reminders |-> Phase(j)]' =
          [[j \in Reminders |-> Phase(j)] EXCEPT ![k] = outcome[p]]
    BY <1>0, <1>3, <1>6, <2>2, <2>3, OneMoves
  <2>5. Errands!Report(k)
    BY <1>1, <1>2, <1>6, <2>1, <2>4 DEF Errands!Report, Errands!Moves, dingtalk
  <2> QED BY <1>6, <2>5 DEF Errands!Next
<1> QED BY <1>5, <1>6

\* A process that stops drops the message it carried.
LEMMA CrashDrops ==
    ASSUME IInv, IInv', NEW p \in Procs, Crash(p)
    PROVE  [Errands!Next]_(Errands!vars)
<1>1. Idle(p) /\ UNCHANGED <<notes, sends, accepted>>
  BY DEF Crash, rows, dingtalk
<1>2. OnlyMoves(p) /\ ~Out(p)'
  BY <1>1, GoesIdle DEF IInv, Out
<1>3. CASE Out(p) => key[p] \notin Reminders
  BY <1>1, <1>2, <1>3, Unnoticed
<1>4. ASSUME NEW k \in Reminders, Out(p), key[p] = k
      PROVE  [Errands!Next]_(Errands!vars)
  <2>1. Phase(k) \in {"due", "taken", "unanswered"}
    BY <1>4, Phases DEF Out
  <2>2. notes[k] = "pending" /\ \A q \in Procs \ {p} : Out(q) => key[q] # k
    BY <1>4 DEF IInv, Alone, Reminders
  <2>3. \A q \in Procs : Out(q)' => key'[q] # k
    BY <1>2, <2>2 DEF OnlyMoves, Out
  <2>4. Phase(k)' = "dropped"
    BY <1>1, <2>2, <2>3 DEF Phase, Carried, Accepted, Out
  <2>5. [j \in Reminders |-> Phase(j)]' =
          [[j \in Reminders |-> Phase(j)] EXCEPT ![k] = "dropped"]
    BY <1>1, <1>2, <1>4, <2>4, OneMoves
  <2>6. Errands!Drop(k)
    BY <1>1, <1>4, <2>1, <2>5 DEF Errands!Drop, Errands!Moves
  <2> QED BY <1>4, <2>6 DEF Errands!Next
<1> QED BY <1>3, <1>4

\* A worker sends a reminder out, or refuses to, or finds that it was.
LEMMA RemindSendsOut ==
    ASSUME IInv, IInv', NEW w \in Workers, Remind(w)
    PROVE  [Errands!Next]_(Errands!vars)
<1>1. w \in Procs /\ ~Out(w) /\ UNCHANGED dingtalk
  BY DEF Procs, Remind, Out
<1>2. PICK k \in Reminders : k = Today(w) /\ k \in Keys
  <2>1. key[w] \in Candidates
    BY <1>1 DEF Remind, IInv, Placed
  <2> QED BY <1>1, <2>1, TodayIsKey DEF IInv, Reminders
<1>3. \/ Idle(w) /\ UNCHANGED notes
      \/ /\ notes[k] = "absent" /\ k.to \in Unaddressed
         /\ notes' = [notes EXCEPT ![k] = "failed"] /\ Idle(w)
      \/ /\ notes[k] = "absent" /\ notes' = [notes EXCEPT ![k] = "pending"]
         /\ Deliver(w, k)
  BY <1>2 DEF Remind
<1>4. CASE Idle(w) /\ UNCHANGED notes
  <2>1. OnlyMoves(w) /\ ~Out(w)'
    BY <1>1, <1>4, GoesIdle DEF IInv, Out
  <2> QED BY <1>1, <1>4, <2>1, Unnoticed DEF dingtalk
<1>5. CASE /\ notes[k] = "absent" /\ k.to \in Unaddressed
           /\ notes' = [notes EXCEPT ![k] = "failed"] /\ Idle(w)
  <2>1. OnlyMoves(w) /\ ~Out(w)'
    BY <1>1, <1>5, GoesIdle DEF IInv, Out
  <2>2. notes'[k] = "failed" /\ \A j \in Keys : j # k => notes'[j] = notes[j]
    BY <1>2, <1>5 DEF IInv, TypeOK
  <2>3. Phase(k) = "absent" /\ Phase(k)' = "failed"
    BY <1>2, <1>5, <2>2 DEF Phase
  <2>4. \A j \in Reminders : j # k => notes'[j] = notes[j]
    BY <2>2 DEF Reminders
  <2>5. [j \in Reminders |-> Phase(j)]' =
          [[j \in Reminders |-> Phase(j)] EXCEPT ![k] = "failed"]
    BY <1>1, <1>2, <2>1, <2>3, <2>4, OneMoves
  <2>6. k.to \notin Users
    BY <1>5, UsersAssumption
  <2>7. Errands!Refuse(k)
    BY <1>1, <1>2, <2>3, <2>5, <2>6 DEF Errands!Refuse, Errands!Moves, dingtalk
  <2> QED BY <1>2, <2>7 DEF Errands!Next
<1>6. CASE /\ notes[k] = "absent" /\ notes' = [notes EXCEPT ![k] = "pending"]
           /\ Deliver(w, k)
  BY <1>1, <1>2, <1>6, TakingSendsOut DEF Errands!Next
<1> QED BY <1>3, <1>4, <1>5, <1>6

\* A retry sends a failed reminder out again; a coordination message is none.
LEMMA RequestSendsOut ==
    ASSUME IInv, IInv', NEW r \in Requests,
           (\E u \in Users : SendOA(r, u)) \/ (\E k \in Keys : RetryOA(r, k))
    PROVE  [Errands!Next]_(Errands!vars)
<1>1. r \in Procs /\ ~Out(r) /\ UNCHANGED dingtalk /\ notes \in [Keys -> Status]
      /\ day \in 1 .. MaxDay
  BY DEF Procs, SendOA, RetryOA, Called, Out, IInv, TypeOK
<1>2. ASSUME NEW k \in Keys, k \notin Reminders,
             \A j \in Keys : j # k => notes'[j] = notes[j],
             Deliver(r, k) \/ UNCHANGED <<pc, key, outcome>>
      PROVE  UNCHANGED Errands!vars
  <2>1. OnlyMoves(r) /\ (Out(r)' => key'[r] = k)
    <3>1. CASE Deliver(r, k)
      BY <1>1, <3>1, GoesOut DEF IInv
    <3>2. CASE UNCHANGED <<pc, key, outcome>>
      BY <1>1, <3>2 DEF OnlyMoves, Out
    <3> QED BY <1>2, <3>1, <3>2
  <2>2. \A j \in Reminders : notes'[j] = notes[j]
    BY <1>2 DEF Reminders
  <2> QED BY <1>1, <1>2, <2>1, <2>2, Unnoticed DEF dingtalk
<1>3. ASSUME NEW u \in Users, SendOA(r, u)
      PROVE  UNCHANGED Errands!vars
  <2> DEFINE k == [day |-> day, to |-> u, type |-> Coordination]
  <2>1. k \in Keys /\ k \notin Reminders
    BY <1>1 DEF Keys, Reminders, Reminder, Coordination
  <2>2. \A j \in Keys : j # k => notes'[j] = notes[j]
    BY <1>1, <1>3 DEF SendOA
  <2>3. Deliver(r, k) \/ UNCHANGED <<pc, key, outcome>>
    BY <1>3 DEF SendOA
  <2> QED BY <1>2, <2>1, <2>2, <2>3
<1>4. ASSUME NEW k \in Keys, RetryOA(r, k)
      PROVE  [Errands!Next]_(Errands!vars)
  <2>1. /\ notes[k] = "failed" /\ notes' = [notes EXCEPT ![k] = "pending"]
        /\ Deliver(r, k)
    BY <1>4 DEF RetryOA
  <2>2. CASE k \in Reminders
    BY <1>1, <2>1, <2>2, TakingSendsOut DEF Errands!Next
  <2>3. CASE k \notin Reminders
    BY <1>1, <1>2, <2>1, <2>3
  <2> QED BY <2>2, <2>3
<1> QED BY <1>3, <1>4

\* Every step is one of Errand, or is not seen.
LEMMA ErrandsNext ==
    ASSUME IInv, IInv', [Next]_vars
    PROVE  [Errands!Next]_(Errands!vars)
<1>0. \A w \in Workers \cup Requests : w \in Procs
  BY DEF Procs
<1>1. ASSUME NEW w \in Workers, Scan(w)
      PROVE  UNCHANGED Errands!vars
  <2>1. /\ ~Out(w) /\ ~Out(w)' /\ OnlyMoves(w) /\ UNCHANGED <<notes, sends, accepted>>
    BY <1>0, <1>1 DEF Scan, Out, OnlyMoves, IInv, TypeOK, rows, dingtalk
  <2> QED BY <1>0, <2>1, Unnoticed
<1>2. CASE NextDay
  BY <1>2, NothingMoves DEF NextDay, rows, dingtalk
<1>3. CASE UNCHANGED vars
  BY <1>3, NothingMoves DEF vars, rows, dingtalk
<1>4. ASSUME NEW p \in Procs, Step(p)
      PROVE  [Errands!Next]_(Errands!vars)
  BY <1>4, SendHandsOver, RecordReports DEF Step
<1> QED
  BY <1>0, <1>1, <1>2, <1>3, <1>4, CrashDrops, RemindSendsOut, RequestSendsOut
     DEF Next, WorkerStep

\* There are no reminders at the start.
LEMMA ErrandsInit == Init => Errands!Init
<1> SUFFICES ASSUME Init PROVE Errands!Init
  OBVIOUS
<1>1. \A k \in Reminders : Phase(k) = "absent" /\ k \in Keys
  BY DEF Init, Phase, Reminders
<1> QED BY <1>1 DEF Init, Errands!Init

\* The reminders implement Errand, with any number of workers, requests and days,
\* whatever is lost and whoever stops.
THEOREM RemindersAreErrandsHolds == Spec => RemindersAreErrands
<1>1. IInv /\ IInv' /\ [Next]_vars => [Errands!Next]_(Errands!vars)
  BY ErrandsNext
<1> QED
  BY <1>1, ErrandsInit, Invariant, PTL DEF Spec, RemindersAreErrands, Errands!Spec

=============================================================================
