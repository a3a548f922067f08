----------------------------- MODULE MCNkDbase -----------------------------
(* Small instances of NkDbase. *)
EXTENDS NkDbase, TLC

CONSTANTS short, long

(* a file of one piece, and one that fills a bank of four cells *)
Fitting == (short :> 1) @@ (long :> 3)
=============================================================================
