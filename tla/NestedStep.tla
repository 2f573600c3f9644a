------------------------------ MODULE NestedStep ------------------------------
(***************************************************************************)
(* The two steps of libs/saga_framework/step.py whose action executes other*)
(* steps, with retries at both levels and a timeout around the whole:      *)
(*   "parallel"     gathers the execute() of all its substeps, and gathers *)
(*                  their compensations;                                   *)
(*   "conditional"  awaits the execute() of IfStep or of the step in       *)
(*                  ElseSteps, as its condition says at that attempt, and  *)
(*                  has the compensation of IfStep, whichever of them ran. *)
(*                                                                         *)
(* The substeps of a ParallelStep run in tasks of their own and interleave *)
(* at their awaits.  Effects are counted as in SagaInstance: an attempt may*)
(* return, fail without effect ("raise"), or be given up with its effect in*)
(* place or on its way ("lost").                                           *)
(***************************************************************************)
EXTENDS Integers

CONSTANTS Subs,             \* the substeps
          IfStep,           \* ConditionalStep's step
          ElseSteps,        \* ConditionalStep's else_step, {} for None
          OuterRetry,       \* retry_count of the nested step
          SubRetry,         \* retry_count of each substep
          SubCompensatable  \* substeps with a compensation, is_compensatable

ASSUME NestedAssumption ==
  /\ IfStep \in Subs
  /\ ElseSteps \subseteq Subs \ {IfStep}
  /\ OuterRetry \in Nat
  /\ SubRetry \in [Subs -> Nat]
  /\ SubCompensatable \subseteq Subs

VARIABLES
  kind,      \* "parallel" or "conditional"
  pc,        \* where the nested step stands
  attempt,   \* attempt of its own execute()
  started,   \* the substeps that the attempt executes
  sub,       \* where the execute() or compensation of each substep stands
  subtry,    \* attempt of each substep's execute()
  applied, late, undone   \* as in SagaInstance, for each substep

effects == <<applied, late, undone>>
vars == <<kind, pc, attempt, started, sub, subtry, effects>>

Pc == {"starting", "running", "backoff", "completed", "failed",
       "undoing", "compensated", "compensation_failed"}
SubStates == {"idle", "acting", "waiting", "ok", "error", "cancelled", "undoing"}
Busy == {"acting", "waiting", "undoing"}

NestedTypeOK ==
  /\ kind \in {"parallel", "conditional"}
  /\ pc \in Pc
  /\ attempt \in 0..OuterRetry
  /\ started \subseteq Subs
  /\ sub \in [Subs -> SubStates]
  /\ subtry \in [Subs -> Nat]
  /\ \A s \in Subs : subtry[s] <= SubRetry[s]
  /\ applied \in [Subs -> Nat] /\ late \in [Subs -> Nat] /\ undone \in [Subs -> Nat]

Zero == [s \in Subs |-> 0]
Plus1(f, s) == [f EXCEPT ![s] = @ + 1]

Init ==
  /\ kind \in {"parallel", "conditional"}
  /\ pc = "starting"
  /\ attempt = 0
  /\ started = {}
  /\ sub = [s \in Subs |-> "idle"]
  /\ subtry = Zero
  /\ applied = Zero /\ late = Zero /\ undone = Zero

-------------------------------------------------------------------------------
(* The nested step's own execute() *)

\* What the action may execute.  The context that a condition reads is
\* shared with the substeps, so it may answer otherwise at another attempt.
Choices == IF kind = "parallel" THEN {Subs} ELSE {{IfStep}, ElseSteps}

\* The attempt raised or timed out.
RetryOrFail ==
  pc' = IF attempt < OuterRetry THEN "backoff" ELSE "failed"

\* Every substep chosen starts again, those that had succeeded included.
Start ==
  /\ pc = "starting"
  /\ pc' = "running"
  /\ started' \in Choices
  /\ sub' = [s \in Subs |-> IF s \in started' THEN "acting" ELSE "idle"]
  /\ subtry' = Zero
  /\ UNCHANGED <<kind, attempt, effects>>

ConditionRaises ==
  /\ pc = "starting"
  /\ kind = "conditional"
  /\ RetryOrFail
  /\ UNCHANGED <<kind, attempt, started, sub, subtry, effects>>

\* Faulty variant: errors among the results are not looked at.
NoErrors == TRUE

AllReturned == \A s \in started : sub[s] = "ok"

\* All that was started has ended: gather returned, or the one awaited did.
Gathered ==
  /\ pc = "running"
  /\ \A s \in started : sub[s] \in {"ok", "error"}
  /\ IF AllReturned THEN pc' = "completed" ELSE RetryOrFail
  /\ UNCHANGED <<kind, attempt, started, sub, subtry, effects>>

\* Faulty variant: the tasks are shielded from the timeout.
Shielded(s) == sub[s]

\* Cancelling the action cancels every substep that is not done.
Cancelled(s) == IF sub[s] \in Busy THEN "cancelled" ELSE sub[s]

(* timeout_seconds of the nested step, 30 by default like that of each     *)
(* substep, so that one retry inside is enough to reach it.  Requests in   *)
(* flight may take effect all the same.                                    *)
TimesOut ==
  /\ pc = "running"
  /\ \E s \in Subs : sub[s] \in Busy
  /\ sub' = [s \in Subs |-> Cancelled(s)]
  /\ \E lost \in SUBSET {s \in Subs : sub[s] = "acting"} :
       late' = [s \in Subs |-> IF s \in lost THEN late[s] + 1 ELSE late[s]]
  /\ RetryOrFail
  /\ UNCHANGED <<kind, attempt, started, subtry, applied, undone>>

\* Faulty variant: the attempt is never counted.
SameAttempt == attempt

NextAttempt == attempt + 1

BackoffEnds ==
  /\ pc = "backoff"
  /\ pc' = "starting"
  /\ attempt' = NextAttempt
  /\ UNCHANGED <<kind, started, sub, subtry, effects>>

-------------------------------------------------------------------------------
(* The substeps' execute() *)

SubReturns(s) ==
  /\ sub[s] = "acting"
  /\ sub' = [sub EXCEPT ![s] = "ok"]
  /\ applied' = Plus1(applied, s)
  /\ UNCHANGED <<kind, pc, attempt, started, subtry, late, undone>>

\* Faulty variant: one attempt too many.
SubMayRetryOnceMore(s) == subtry[s] <= SubRetry[s]

SubMayRetry(s) == subtry[s] < SubRetry[s]

\* The substep's attempt raises or times out; after the last one its
\* execute() raises, which gather keeps as a result.
SubFails(s) ==
  /\ sub[s] = "acting"
  /\ sub' = [sub EXCEPT ![s] = IF SubMayRetry(s) THEN "waiting" ELSE "error"]
  /\ late' \in {late, Plus1(late, s)}
  /\ UNCHANGED <<kind, pc, attempt, started, subtry, applied, undone>>

SubBackoffEnds(s) ==
  /\ sub[s] = "waiting"
  /\ sub' = [sub EXCEPT ![s] = "acting"]
  /\ subtry' = Plus1(subtry, s)
  /\ UNCHANGED <<kind, pc, attempt, started, effects>>

-------------------------------------------------------------------------------
(* Compensation, once a later step of the saga has failed *)

Undoing == {s \in Subs : sub[s] = "undoing"}

\* ConditionalStep takes step.compensation as its own when it is built.
Undoable ==
  IF kind = "parallel" THEN SubCompensatable ELSE SubCompensatable \cap {IfStep}

Compensate ==
  /\ pc = "completed"
  /\ pc' = "undoing"
  /\ sub' = [s \in Subs |-> IF s \in Undoable THEN "undoing" ELSE "idle"]
  /\ UNCHANGED <<kind, attempt, started, subtry, effects>>

\* The compensation of a substep returns, or raises with or without effect.
SubUndone(s) ==
  /\ sub[s] = "undoing"
  /\ \/ sub' = [sub EXCEPT ![s] = "ok"] /\ undone' = Plus1(undone, s)
     \/ sub' = [sub EXCEPT ![s] = "error"] /\ undone' \in {undone, Plus1(undone, s)}
  /\ UNCHANGED <<kind, pc, attempt, started, subtry, applied, late>>

\* Faulty variant: a conditional step's error is dropped as a gather's is.
NothingRaised == TRUE

\* ParallelStep: gather(..., return_exceptions=True), and nobody looks at the
\* results.  ConditionalStep: the coroutine is awaited, its error propagates.
RaisesNothing == kind = "conditional" => \A s \in Subs : sub[s] # "error"

CompensationEnds ==
  /\ pc = "undoing"
  /\ Undoing = {}
  /\ pc' = IF RaisesNothing THEN "compensated" ELSE "compensation_failed"
  /\ UNCHANGED <<kind, attempt, started, sub, subtry, effects>>

CompensationTimesOut ==
  /\ pc = "undoing"
  /\ Undoing # {}
  /\ pc' = "compensation_failed"
  /\ sub' = [s \in Subs |-> Cancelled(s)]
  /\ \E reached \in SUBSET Undoing :
       undone' = [s \in Subs |-> IF s \in reached THEN undone[s] + 1 ELSE undone[s]]
  /\ UNCHANGED <<kind, attempt, started, subtry, applied, late>>

LateEffect(s) ==
  /\ late[s] > 0
  /\ late' = [late EXCEPT ![s] = @ - 1]
  /\ applied' = Plus1(applied, s)
  /\ UNCHANGED <<kind, pc, attempt, started, sub, subtry, undone>>

\* The saga may complete without ever compensating this step.
Over == pc \in {"completed", "failed", "compensated", "compensation_failed"}
Stays == Over /\ UNCHANGED vars

Execution ==
  \/ Start \/ ConditionRaises \/ Gathered \/ TimesOut \/ BackoffEnds
  \/ \E s \in Subs : SubReturns(s) \/ SubFails(s) \/ SubBackoffEnds(s) \/ SubUndone(s)
  \/ CompensationEnds \/ CompensationTimesOut

Next == Execution \/ Compensate \/ (\E s \in Subs : LateEffect(s)) \/ Stays

Spec == Init /\ [][Next]_vars

\* Every await of the step is bounded by a timeout or is a sleep.
FairSpec == Spec /\ WF_vars(Execution)

-------------------------------------------------------------------------------
(* Retries multiply: a participant of one substep may see its request as   *)
(* often as (OuterRetry + 1) times (SubRetry + 1), and never more, however *)
(* the timeouts of the two levels fall.                                    *)
AttemptProduct ==
  \A s \in Subs :
    applied[s] + late[s] <= (attempt + 1) * (SubRetry[s] + 1)

(* The step counts as completed only if every substep of its last attempt  *)
(* took effect: all of a ParallelStep, the errors that gather returns as   *)
(* results having been told from results.                                  *)
CompletesTogether ==
  pc \in {"completed", "undoing", "compensated", "compensation_failed"} =>
    /\ started \in Choices
    /\ \A s \in started : applied[s] > 0

(* No substep outlives the attempt that started it: between two attempts   *)
(* and after the last one nothing of the step runs.                        *)
NoOrphans ==
  pc \notin {"running", "undoing"} => \A s \in Subs : sub[s] \notin Busy

(* A substep is undone at most once, and only once the step had completed; *)
(* a conditional step that reports its compensation as done has undone its *)
(* if-step.  (A parallel step may report so with substeps left in place.)  *)
UndoneAfterAll ==
  /\ \A s \in Subs : undone[s] > 0 =>
       /\ undone[s] = 1 /\ s \in Undoable
       /\ pc \in {"undoing", "compensated", "compensation_failed"}
  /\ kind = "conditional" /\ pc = "compensated" =>
       \A s \in Undoable : undone[s] = 1

(* With retries and timeouts at two levels the step still comes to an end. *)
NestedSettles == <>Over

(* What README.md says of a compensating action: it reverses a forward     *)
(* action.  A conditional step does not keep to it, its compensation is    *)
(* that of the if-step also when the else-step or neither was executed.    *)
OnlyEffectsUndone == \A s \in Subs : undone[s] <= applied[s] + late[s]
===============================================================================
