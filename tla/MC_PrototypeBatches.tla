------------------------- MODULE MC_PrototypeBatches -------------------------
(* Small instance of PrototypeBatches for TLC.                              *)
EXTENDS PrototypeBatches

\* A file without a usable row, and one whose rows need two pages.
MCRows == {0, 2}
=============================================================================
