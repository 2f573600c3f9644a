---------------------------- MODULE MCSagaInstance ----------------------------
(***************************************************************************)
(* Four steps, retried once, not at all, once and not at all; the second   *)
(* one has no compensation and is passed over when the saga unwinds.  The  *)
(* first participant fails cleanly; every way an attempt at the others, or *)
(* a compensation of any, can end, and both callbacks.                     *)
(***************************************************************************)
EXTENDS SagaInstance

MCRetryCount == <<1, 0, 1, 0>>
MCCompensatable == {1, 3, 4}
AnyOutcome == {"return", "reject", "raise", "lost"}
MCOutcomes == <<{"return", "raise"}, AnyOutcome, AnyOutcome, AnyOutcome>>
AnyUndo == [s \in 1..4 |-> {"return", "raise", "lost"}]
===============================================================================
