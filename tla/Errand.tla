-------------------------------- MODULE Errand --------------------------------
(***************************************************************************)
(* What is promised about a message that one process at a time carries to     *)
(* somebody who may not answer.  A carrier hands it over once and then says    *)
(* what came of it; only after a failure is it sent out again.  A message that *)
(* its carrier dropped is nobody's any more: it is not sent twice by mistake.  *)
(***************************************************************************)
EXTENDS Integers

CONSTANTS
    Errands,     \* the messages
    Addressed    \* those that somebody can take

VARIABLES
    phase,       \* how far each message is
    messages,    \* how often it was handed over
    accepted     \* how often it was taken

vars == <<phase, messages, accepted>>

Init ==
    /\ phase = [e \in Errands |-> "absent"]
    /\ messages = [e \in Errands |-> 0]
    /\ accepted = [e \in Errands |-> 0]

Moves(e, from, to) ==
    phase[e] \in from /\ phase' = [phase EXCEPT ![e] = to]

SendOut(e) ==
    Moves(e, {"absent", "failed"}, "due") /\ UNCHANGED <<messages, accepted>>

Refuse(e) ==
    /\ e \notin Addressed
    /\ Moves(e, {"absent"}, "failed") /\ UNCHANGED <<messages, accepted>>

\* The carrier may not be told that the message was taken.
HandOver(e) ==
    /\ messages' = [messages EXCEPT ![e] = @ + 1]
    /\ \/ /\ e \in Addressed /\ accepted' = [accepted EXCEPT ![e] = @ + 1]
          /\ Moves(e, {"due"}, "taken") \/ Moves(e, {"due"}, "unanswered")
       \/ Moves(e, {"due"}, "unanswered") /\ UNCHANGED accepted

Report(e) ==
    /\ Moves(e, {"taken"}, "sent") \/ Moves(e, {"unanswered"}, "failed")
    /\ UNCHANGED <<messages, accepted>>

Drop(e) ==
    /\ Moves(e, {"due", "taken", "unanswered"}, "dropped")
    /\ UNCHANGED <<messages, accepted>>

Next ==
    \E e \in Errands :
        SendOut(e) \/ Refuse(e) \/ HandOver(e) \/ Report(e) \/ Drop(e)

Spec == Init /\ [][Next]_vars
=============================================================================
