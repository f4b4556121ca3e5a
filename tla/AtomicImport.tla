----------------------------- MODULE AtomicImport -----------------------------
(***************************************************************************)
(* What the import of a file promises to whoever looks at the database: it    *)
(* is uploaded once, and in one step, which nobody sees the middle of, it is  *)
(* published or it fails.  What is published is the list of the file and a    *)
(* stable task for each SPU that the file gives one.                         *)
(***************************************************************************)
EXTENDS Integers

CONSTANTS
    Files,    \* the files that may be uploaded
    Spus,     \* SPU ids
    Content,  \* Content[f]: the SPUs that f gives a task
    Exclusive \* the files whose import is worked on by one worker at a time

VARIABLES
    stage,    \* what became of each file
    lists,    \* the lists of each file
    tasks     \* the stable tasks of each SPU

vars == <<stage, lists, tasks>>

Init ==
    /\ stage = [f \in Files |-> "absent"]
    /\ lists = [f \in Files |-> 0]
    /\ tasks = [s \in Spus |-> 0]

Upload(f) ==
    /\ stage[f] = "absent"
    /\ stage' = [stage EXCEPT ![f] = "open"]
    /\ UNCHANGED <<lists, tasks>>

\* A file is decided once.  A worker that lost its lease to another, or that was
\* not told of its own commit, may decide a file again.
Undecided(f) == stage[f] = "open" \/ (f \notin Exclusive /\ stage[f] # "absent")

\* The list is written once whoever decides, and all the tasks with it.
Publish(f) ==
    /\ Undecided(f) /\ lists[f] = 0
    /\ stage' = [stage EXCEPT ![f] = "published"]
    /\ lists' = [lists EXCEPT ![f] = 1]
    /\ tasks' = [s \in Spus |-> IF s \in Content[f] THEN 1 ELSE tasks[s]]

Fail(f) ==
    /\ Undecided(f)
    /\ stage' = [stage EXCEPT ![f] = "failed"]
    /\ UNCHANGED <<lists, tasks>>

Next == \E f \in Files : Upload(f) \/ Publish(f) \/ Fail(f)

Spec == Init /\ [][Next]_vars
=============================================================================
