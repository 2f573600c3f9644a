------------------------------- MODULE SagaLife -------------------------------
(***************************************************************************)
(* One saga as its orchestrator sees it: a stage of the task that runs     *)
(* SagaInstance.execute, and the status label.  SagaInstance keeps to these*)
(* moves (property KeepsToLife); SagaOrchestrator runs many sagas by them. *)
(***************************************************************************)

Stages == {"scheduled", "forward", "on_success", "compensating", "on_failure",
           "ended", "aborted"}
Labels == {"pending", "running", "completed", "failed",
           "compensating", "compensated", "cancelled"}
Over == {"ended", "aborted"}

(* The stages a saga may move to, and the label that the move sets, when   *)
(* the task resumes.  A callback that returns leaves the label alone.      *)
Moves(stage, label) ==
  CASE stage = "scheduled"    -> {<<"forward", "running">>}
    [] stage = "forward"      -> {<<"on_success", "completed">>, <<"ended", "completed">>,
                                  <<"compensating", "compensating">>,
                                  <<"on_failure", "compensated">>, <<"ended", "compensated">>}
    [] stage = "on_success"   -> {<<"ended", label>>, <<"compensating", "compensating">>,
                                  <<"on_failure", "compensated">>, <<"ended", "compensated">>}
    [] stage = "compensating" -> {"on_failure", "ended"} \X {"compensated", "failed"}
    [] stage = "on_failure"   -> {<<"ended", label>>}
    [] OTHER                  -> {}
===============================================================================
