------------------------------- MODULE MCBatch -------------------------------
(* Small instances of BatchPage for TLC. *)
EXTENDS BatchPage, TLC

\* A set that is empty; two operations, the first of two calls; another set
\* that is empty; one operation of two calls.
MCOps    == <<{}, {1, 2}, {}, {3}>>
MCPasses == (1 :> 2) @@ (2 :> 1) @@ (3 :> 2)

\* A set that is empty and one operation.
MCEarlyOps    == <<{}, {1}>>
MCEarlyPasses == 1 :> 1
=============================================================================
