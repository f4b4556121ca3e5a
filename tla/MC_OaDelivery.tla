---------------------------- MODULE MC_OaDelivery ----------------------------
(* Small instances of OaDelivery for TLC.                                   *)
EXTENDS OaDelivery, TLC

Interchangeable == Permutations(Workers) \cup Permutations(Requests)
=============================================================================
