------------------------------ MODULE AnsweredOnce ------------------------------
(***************************************************************************)
(* What is promised to whoever asks for explanations: a question is asked     *)
(* when those before it are answered, it is answered once, and its answer is  *)
(* in the history from the same moment on, if there is a history to tell.    *)
(***************************************************************************)

CONSTANTS
    Questions,   \* the questions there may be
    Earlier,     \* Earlier[q]: the questions that come before q
    Told,        \* the questions whose answers belong in the history
    Answers      \* what the answer may be

VARIABLES
    answer,      \* the answer of each question, "absent" or "generating" before
    history      \* the answers told

vars == <<answer, history>>

Init ==
    /\ answer = [q \in Questions |-> "absent"]
    /\ history = {}

\* Several questions may be asked at once.
Ask(Q) ==
    /\ \A q \in Q : /\ answer[q] = "absent"
                    /\ \A p \in Earlier[q] : answer[p] \in Answers
    /\ answer' = [q \in Questions |-> IF q \in Q THEN "generating" ELSE answer[q]]
    /\ UNCHANGED history

Answer(q, a) ==
    /\ answer[q] = "generating"
    /\ answer' = [answer EXCEPT ![q] = a]
    /\ history' = IF q \in Told THEN history \cup {[of |-> q, to |-> a]} ELSE history

Next ==
    \/ \E Q \in SUBSET Questions : Ask(Q)
    \/ \E q \in Questions, a \in Answers : Answer(q, a)

Spec == Init /\ [][Next]_vars
=============================================================================
