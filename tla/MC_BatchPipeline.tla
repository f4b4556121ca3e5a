--------------------------- MODULE MC_BatchPipeline ---------------------------
(* Small instances of BatchPipeline for TLC.                                *)
EXTENDS BatchPipeline

\* Two files that mention the same two SPUs in opposite orders, and a bad file.
MCRows ==
    [b \in Batches |->
        IF b = "b1" THEN <<"s1", "s2">> ELSE IF b = "b2" THEN <<"s2", "s1">> ELSE <<>>]
=============================================================================
