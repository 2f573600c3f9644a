----------------------------- MODULE MCUnitOfWork -----------------------------
(***************************************************************************)
(* Three tracked aggregates, the middle one without events and passed over;*)
(* two units, so that the first may fail half way and be tried again.      *)
(***************************************************************************)
EXTENDS UnitOfWork, TLC

CONSTANTS first, second, third
MCTracked == <<first, second, third>>
MCUncommitted == (first :> 1) @@ (second :> 0) @@ (third :> 1)
===============================================================================
