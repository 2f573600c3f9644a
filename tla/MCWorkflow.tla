------------------------------ MODULE MCWorkflow -------------------------------
(***************************************************************************)
(* The sagas of workflows.py on SagaInstance: the onboarding as built, and *)
(* the approval with its steps as the remote calls they stand for.         *)
(***************************************************************************)
EXTENDS SagaInstance, Workflows

ApprovalRetry == TaskApproval.retry_count
ApprovalUndo == TaskApproval.compensatable
ApprovalCalls == Calls(TaskApproval)

OnboardingRetry == TaskOnboarding.retry_count
OnboardingUndo == TaskOnboarding.compensatable
OnboardingAsBuilt == TaskOnboarding.action

UndoCalls == [s \in 1..4 |-> {"return", "raise"}]

(* workflows.py, "event_publisher=None,  # Injected at runtime": once the  *)
(* steps before it have completed, an onboarding that runs to its end has  *)
(* published task.created.                                                 *)
OnboardingPublishes ==
  pc = "done" /\ {1, 2, 3} \subseteq CompletedSet => applied[4] > 0
===============================================================================
