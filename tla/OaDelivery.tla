------------------------------ MODULE OaDelivery ------------------------------
(***************************************************************************)
(* The OA notifications of one task: the daily clearance reminder of the     *)
(* worker, the coordination message the operator sends by hand, and the      *)
(* retry of a failed one.  Source: internal/action/oa_commands.go.           *)
(*                                                                         *)
(* A delivery is not a transaction: a row is committed as pending, the       *)
(* message goes to DingTalk, and a second transaction records the outcome.   *)
(* The processes are workers and API requests; each may stop between two     *)
(* steps, and the outcome of a call to DingTalk may be lost on its way.      *)
(* Whether the task still wants a message, and who the operator's users are,  *)
(* may change at any time and is read once: any answer is possible here.     *)
(***************************************************************************)
EXTENDS Integers, FiniteSets

CONSTANTS
    Workers,      \* worker processes
    Requests,     \* API requests that can be under way at once
    Users,        \* company user ids
    Unaddressed,  \* recipients that stand for no user: "unresolved", "ambiguous"
    MaxDay,       \* bound: days
    MaxCalls,     \* bound: calls of SendOA and RetryOA
    MaxFaults     \* bound: crashes and lost answers

Procs == Workers \cup Requests
Reminder == "clearance_reminder"
Coordination == "coordination"
\* UNIQUE (task_id, local_date, recipient_actor_ref, template_code)
Keys == [day : 1 .. MaxDay, to : Users \cup Unaddressed,
         type : {Reminder, Coordination}]
\* What a scan finds: a reminder that has no date yet.
Candidates == [day : {0}, to : Users \cup Unaddressed, type : {Reminder}]
NoKey == [day |-> 0, to |-> "nobody", type |-> "none"]

ASSUME ProcsAssumption == Workers \cap Requests = {}
ASSUME UsersAssumption == Users \cap Unaddressed = {}
ASSUME BoundsAssumption == MaxDay \in Nat \ {0} /\ MaxCalls \in Nat /\ MaxFaults \in Nat

VARIABLES
    day,        \* the date in Asia/Shanghai
    notes,      \* status of the oa_notification rows, "absent" when there is none
    attempts,   \* attempt_count of the rows
    pc,         \* where each process is
    key,        \* the row a process delivers
    outcome,    \* what DingTalk answered to it
    sends,      \* messages handed to DingTalk, by row and process kind
    accepted,   \* messages DingTalk accepted, by row
    calls,      \* API calls so far
    faults      \* faults so far

rows == <<notes, attempts>>
dingtalk == <<sends, accepted>>
vars == <<day, rows, pc, key, outcome, dingtalk, calls, faults>>

Status == {"absent", "pending", "sent", "failed"}

Init ==
    /\ day = 1
    /\ notes = [k \in Keys |-> "absent"]
    /\ attempts = [k \in Keys |-> 0]
    /\ pc = [p \in Procs |-> "idle"]
    /\ key = [p \in Procs |-> NoKey]
    /\ outcome = [p \in Procs |-> "none"]
    /\ sends = [k \in Keys |-> [worker |-> 0, request |-> 0]]
    /\ accepted = [k \in Keys |-> 0]
    /\ calls = 0 /\ faults = 0

-----------------------------------------------------------------------------
NextDay ==
    /\ day < MaxDay
    /\ day' = day + 1
    /\ UNCHANGED <<rows, pc, key, outcome, dingtalk, calls, faults>>

-----------------------------------------------------------------------------
(* Delivery, shared by the worker and the requests (deliverOA).            *)

Idle(p) ==
    /\ pc' = [pc EXCEPT ![p] = "idle"]
    /\ key' = [key EXCEPT ![p] = NoKey]
    /\ outcome' = [outcome EXCEPT ![p] = "none"]

\* The row k is committed as pending and p goes on to deliver it.
Deliver(p, k) ==
    /\ pc' = [pc EXCEPT ![p] = "deliver"]
    /\ key' = [key EXCEPT ![p] = k]
    /\ UNCHANGED outcome

\* DingTalk takes the message or not; "lost" is an accepted message whose answer
\* does not arrive, which p takes for a failure.
Send(p) ==
    /\ pc[p] = "deliver"
    /\ LET k == key[p] IN
       /\ sends' = IF p \in Workers THEN [sends EXCEPT ![k].worker = @ + 1]
                                    ELSE [sends EXCEPT ![k].request = @ + 1]
       /\ \/ /\ k.to \in Users
             /\ accepted' = [accepted EXCEPT ![k] = @ + 1]
             /\ \/ outcome' = [outcome EXCEPT ![p] = "sent"] /\ UNCHANGED faults
                \/ /\ outcome' = [outcome EXCEPT ![p] = "failed"]
                   /\ faults < MaxFaults /\ faults' = faults + 1
          \/ /\ outcome' = [outcome EXCEPT ![p] = "failed"]
             /\ UNCHANGED <<accepted, faults>>
    /\ pc' = [pc EXCEPT ![p] = "record"]
    /\ UNCHANGED <<day, rows, key, calls>>

\* Variant of Record: the outcome is recorded before there is one.
RecordUnanswered(p) ==
    /\ pc[p] \in {"deliver", "record"}
    /\ notes' = [notes EXCEPT ![key[p]] = outcome[p]]
    /\ attempts' = [attempts EXCEPT ![key[p]] = @ + 1]
    /\ Idle(p)
    /\ UNCHANGED <<day, dingtalk, calls, faults>>

\* Variant of Record: the error of the call is not looked at.
RecordSent(p) ==
    /\ pc[p] = "record"
    /\ notes' = [notes EXCEPT ![key[p]] = "sent"]
    /\ attempts' = [attempts EXCEPT ![key[p]] = @ + 1]
    /\ Idle(p)
    /\ UNCHANGED <<day, dingtalk, calls, faults>>

Record(p) ==
    /\ pc[p] = "record"
    /\ notes' = [notes EXCEPT ![key[p]] = outcome[p]]
    /\ attempts' = [attempts EXCEPT ![key[p]] = @ + 1]
    /\ Idle(p)
    /\ UNCHANGED <<day, dingtalk, calls, faults>>

\* The process stops, or its second transaction fails.
Crash(p) ==
    /\ pc[p] # "idle" /\ faults < MaxFaults
    /\ faults' = faults + 1
    /\ Idle(p)
    /\ UNCHANGED <<day, rows, dingtalk, calls>>

-----------------------------------------------------------------------------
(* The worker: RunClearanceReminders.                                      *)

\* The candidates are read once, with the recipient: the only active user of the
\* operator's display name, "unresolved" for none, "ambiguous" for several.
Scan(w) ==
    /\ pc[w] = "idle"
    /\ pc' = [pc EXCEPT ![w] = "scanned"]
    /\ \E c \in Candidates : key' = [key EXCEPT ![w] = c]
    /\ UNCHANGED <<day, rows, outcome, dingtalk, calls, faults>>

Today(w) == [key[w] EXCEPT !.day = day]

\* Variant of Remind: an existing row is delivered again.
RemindAgain(w) ==
    /\ pc[w] = "scanned"
    /\ notes' = [notes EXCEPT ![Today(w)] =
                    IF Today(w).to \in Unaddressed THEN "failed" ELSE "pending"]
    /\ IF Today(w).to \in Unaddressed THEN Idle(w) ELSE Deliver(w, Today(w))
    /\ UNCHANGED <<day, attempts, dingtalk, calls, faults>>

\* INSERT ... ON CONFLICT DO NOTHING, under the date of the insert.
Remind(w) ==
    /\ pc[w] = "scanned"
    /\ LET k == Today(w) IN
       \/ notes[k] # "absent" /\ Idle(w) /\ UNCHANGED notes
       \/ /\ notes[k] = "absent" /\ k.to \in Unaddressed
          /\ notes' = [notes EXCEPT ![k] = "failed"]
          /\ Idle(w)
       \/ /\ notes[k] = "absent" /\ k.to \notin Unaddressed
          /\ notes' = [notes EXCEPT ![k] = "pending"]
          /\ Deliver(w, k)
    /\ UNCHANGED <<day, attempts, dingtalk, calls, faults>>

-----------------------------------------------------------------------------
(* The requests of the operator.                                           *)

Called(r) == pc[r] = "idle" /\ calls < MaxCalls /\ calls' = calls + 1

\* INSERT ... ON CONFLICT DO UPDATE RETURNING status: a row that is still pending
\* is delivered by this request too.
SendOA(r, u) ==
    /\ Called(r)
    /\ LET k == [day |-> day, to |-> u, type |-> Coordination] IN
       /\ notes' = [notes EXCEPT ![k] = IF @ = "absent" THEN "pending" ELSE @]
       /\ \/ notes[k] \in {"absent", "pending"} /\ Deliver(r, k)
          \/ notes[k] \in {"sent", "failed"} /\ UNCHANGED <<pc, key, outcome>>
    /\ UNCHANGED <<day, attempts, dingtalk, faults>>

\* Variant of RetryOA: a pending row may be retried too.
RetryUnsent(r, k) ==
    /\ Called(r)
    /\ notes[k] \in {"pending", "failed"}
    /\ notes' = [notes EXCEPT ![k] = "pending"]
    /\ Deliver(r, k)
    /\ UNCHANGED <<day, attempts, dingtalk, faults>>

\* Variant of RetryOA: the delivery is left to somebody else.
RetryLater(r, k) ==
    /\ Called(r)
    /\ notes[k] = "failed"
    /\ notes' = [notes EXCEPT ![k] = "pending"]
    /\ UNCHANGED <<day, attempts, pc, key, outcome, dingtalk, faults>>

\* With a new idempotency key; a known one only reads.
RetryOA(r, k) ==
    /\ Called(r)
    /\ notes[k] = "failed"
    /\ notes' = [notes EXCEPT ![k] = "pending"]
    /\ Deliver(r, k)
    /\ UNCHANGED <<day, attempts, dingtalk, faults>>

-----------------------------------------------------------------------------

Step(p) == Send(p) \/ Record(p)
WorkerStep(w) == Scan(w) \/ Remind(w) \/ Step(w)

Next ==
    \/ NextDay
    \/ \E w \in Workers : WorkerStep(w)
    \/ \E r \in Requests :
         \/ Step(r)
         \/ \E u \in Users : SendOA(r, u)
         \/ \E k \in Keys : RetryOA(r, k)
    \/ \E p \in Procs : Crash(p)

Spec == Init /\ [][Next]_vars

\* A process that has begun a delivery goes on; the worker's loop never ends.
\* Nobody has to call anything.
FairSpec ==
    /\ Spec
    /\ \A w \in Workers : WF_vars(Remind(w) \/ Step(w))
    /\ \A r \in Requests : WF_vars(Step(r))

-----------------------------------------------------------------------------
(* Properties.                                                             *)

TypeOK ==
    /\ day \in 1 .. MaxDay
    /\ notes \in [Keys -> Status]
    /\ attempts \in [Keys -> Nat]
    /\ pc \in [Procs -> {"idle", "scanned", "deliver", "record"}]
    /\ key \in [Procs -> Keys \cup Candidates \cup {NoKey}]
    /\ \A p \in Procs : pc[p] \in {"deliver", "record"} => key[p] \in Keys
    /\ outcome \in [Procs -> {"none", "sent", "failed"}]
    /\ sends \in [Keys -> [worker : Nat, request : Nat]]
    /\ accepted \in [Keys -> Nat]

InFlight(k) == {p \in Procs : pc[p] \in {"deliver", "record"} /\ key[p] = k}

\* A reminder is under way at most once: the workers, a retry and a second retry
\* never deliver the same row at the same time, so none overwrites the outcome
\* another has recorded.
OneReminderInFlight ==
    \A k \in Keys : k.type = Reminder => Cardinality(InFlight(k)) <= 1

\* The workers remind a person at most once a day, however often they scan and
\* whatever is retried by hand, and call nobody when it is unclear whom to call.
RemindedOncePerDay ==
    \A k \in Keys : sends[k].worker <= IF k.to \in Unaddressed THEN 0 ELSE 1

\* A row that says sent was accepted by DingTalk, and no attempt is counted that
\* was not made, whoever wrote the row last.
SentIsTrue ==
    \A k \in Keys :
        /\ notes[k] = "sent" => accepted[k] > 0
        /\ attempts[k] + Cardinality({p \in Procs : pc[p] = "record" /\ key[p] = k})
              <= sends[k].worker + sends[k].request

\* A row that says pending is being delivered by somebody, but for one row per
\* crash: no conflict of inserts, retries and scans leaves a row to nobody.
PendingIsInHand ==
    Cardinality({k \in Keys : notes[k] = "pending" /\ InFlight(k) = {}}) <= faults

-----------------------------------------------------------------------------
(* The reminders are errands of Errand.                                     *)

Reminders == {k \in Keys : k.type = Reminder}
Carried(k, place) == \E p \in Procs : pc[p] = place /\ key[p] = k
Accepted(k) == \E p \in Procs : pc[p] = "record" /\ key[p] = k /\ outcome[p] = "sent"
Phase(k) ==
    IF notes[k] # "pending" THEN notes[k]
    ELSE IF Carried(k, "deliver") THEN "due"
    ELSE IF Accepted(k) THEN "taken"
    ELSE IF Carried(k, "record") THEN "unanswered" ELSE "dropped"

Errands == INSTANCE Errand
    WITH Errands <- Reminders, Addressed <- {k \in Reminders : k.to \in Users},
         phase <- [k \in Reminders |-> Phase(k)],
         messages <- [k \in Reminders |-> sends[k].worker + sends[k].request],
         accepted <- [k \in Reminders |-> accepted[k]]

\* A reminder has one carrier at a time, whichever of the workers and requests it
\* is: it is handed over once each time it is sent out, recorded as what came of
\* it, sent out again by hand after a failure only, and never again when it was
\* sent or when its carrier stopped on the way.
RemindersAreErrands == Errands!Spec

\* What is pending becomes sent or failed, so that it can be retried by hand.
PendingIsDecided ==
    \A k \in Keys : (notes[k] = "pending") ~> (notes[k] \in {"sent", "failed"})

=============================================================================
