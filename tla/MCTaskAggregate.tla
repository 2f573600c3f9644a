---------------------------- MODULE MCTaskAggregate ----------------------------
(***************************************************************************)
(* One task: its creation and two more events, by every command with two   *)
(* titles, two priorities, one user and all six statuses.                  *)
(***************************************************************************)
EXTENDS TaskAggregate
===============================================================================
