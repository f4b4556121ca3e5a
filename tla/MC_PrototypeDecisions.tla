------------------------ MODULE MC_PrototypeDecisions ------------------------
(* Small instance of PrototypeDecisions for TLC.                            *)
EXTENDS PrototypeDecisions

\* A suggestion for the operator alone, and one for both owners.
MCPlans == {{"operator"}, {"operator", "procurement"}}
=============================================================================
