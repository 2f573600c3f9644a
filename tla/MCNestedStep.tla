----------------------------- MODULE MCNestedStep -----------------------------
(***************************************************************************)
(* Two substeps, the if-step a with a compensation and the else-step b     *)
(* without; the outer level retries once, a once and b not at all.         *)
(***************************************************************************)
EXTENDS NestedStep, TLC

CONSTANTS a, b
MCSubs == {a, b}
MCElseSteps == {b}
MCSubRetry == (a :> 1) @@ (b :> 0)
MCSubCompensatable == {a}
===============================================================================
