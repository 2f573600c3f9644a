------------------------------- MODULE Workflows -------------------------------
(***************************************************************************)
(* The saga definitions built by services/workflow_service/saga/           *)
(* workflows.py, as the values they give to the constants of SagaInstance: *)
(* how often each step is retried, which steps have a compensation, and how*)
(* an attempt at each step can end in the code as it is (the steps are     *)
(* local stand-ins for the calls their comments announce).  None of the    *)
(* workflows sets a callback.                                              *)
(***************************************************************************)
EXTENDS Integers, Sequences

Returns == {"return"}
Raises == {"raise"}

(* create_task, notify_assignee, create_audit_log, publish.  Publishing    *)
(* always raises: event_publisher is None and nothing injects one, and the *)
(* event factory is a coroutine function, so "event" has no get().         *)
TaskOnboarding ==
  [retry_count   |-> <<3, 2, 1, 3>>,
   compensatable |-> {1, 2},
   action        |-> <<Returns, Returns, Returns, Raises>>]

(* submit_for_review, process_approval, update_task_status,                *)
(* notify_stakeholders.  A rejection is an exception, retried like any     *)
(* other; the context's auto_approve decides which of the two it is.       *)
TaskApproval ==
  [retry_count   |-> <<3, 1, 3, 2>>,
   compensatable |-> {1, 2, 3},
   action        |-> <<Returns, Returns \cup Raises, Returns, Returns>>]

\* The participants as the remote calls that the comments announce.
Calls(workflow) == [s \in DOMAIN workflow.action |-> {"return", "raise", "lost"}]
===============================================================================
