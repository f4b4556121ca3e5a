-------------------------- MODULE MC_SuggestionPages --------------------------
(* Small instance of SuggestionPages for TLC.                               *)
EXTENDS SuggestionPages, TLC

Plan(b, i) == [business |-> b, inventory |-> i]

MCSuggestions == {Plan("clearance", "prohibit_restock")}
MCOverrides == {Plan("observe", "no_restock")}

\* The operators differ in nothing but their names.
Symmetry == Permutations(Operators)

=============================================================================
