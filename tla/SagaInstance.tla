----------------------------- MODULE SagaInstance -----------------------------
(***************************************************************************)
(* One saga: SagaInstance.execute and _compensate with the SagaStep.execute*)
(* and SagaStep.compensate they await (libs/saga_framework/saga.py), and   *)
(* the two things that reach it from outside, SagaOrchestrator.cancel_saga *)
(* and the end of the event loop.                                          *)
(*                                                                         *)
(* The coroutine yields only at an await, so an action is the code from one*)
(* await to the next and pc names the await at which the saga is parked.   *)
(* Steps are numbered from 1; current_step_index is the number of the step *)
(* the code has at index current_step_index - 1.                           *)
(*                                                                         *)
(* What the participants see is kept in applied, late and undone: a saga is*)
(* about effects it cannot observe.  An attempt ends in one of four ways:  *)
(*   "return"  the effect took place and a mapping came back;              *)
(*   "reject"  the effect took place and something other than a mapping    *)
(*             came back, which context.update refuses;                    *)
(*   "raise"   an exception or a timeout, and no effect;                   *)
(*   "lost"    an exception or a timeout, and the effect is in place or    *)
(*             still on its way.                                           *)
(* Values of the context, the delays' lengths, time stamps and logging are *)
(* left out.                                                               *)
(***************************************************************************)
EXTENDS Integers, Sequences

CONSTANTS
  NumSteps,         \* len(definition.steps)
  RetryCount,       \* retry_count of each step
  Compensatable,    \* the steps with a compensation and is_compensatable
  ActionOutcomes,   \* the ways an attempt at each step's action may end
  UndoOutcomes,     \* the ways the compensation of each step may end
  HasOnSuccess,     \* definition.on_success is set
  HasOnFailure      \* definition.on_failure is set

Steps == 1..NumSteps

\* A definition without steps is not modelled: no workflow builds one.
ASSUME SagaAssumption ==
  /\ NumSteps \in Nat \ {0}
  /\ RetryCount \in [Steps -> Nat]
  /\ Compensatable \subseteq Steps
  /\ ActionOutcomes \in [Steps -> (SUBSET {"return", "reject", "raise", "lost"}) \ {{}}]
  /\ UndoOutcomes \in [Steps -> (SUBSET {"return", "raise", "lost"}) \ {{}}]
  /\ HasOnSuccess \in BOOLEAN
  /\ HasOnFailure \in BOOLEAN

VARIABLES
  status,               \* SagaInstance.status
  pc,                   \* the await at which execute() is parked
  current_step_index,   \* the step of the forward loop
  attempt,              \* SagaStep.execute's attempt
  completed_steps,      \* the steps appended to completed_steps
  failed_step,          \* failed_step, 0 for None
  unwinding,            \* position in completed_steps being compensated
  compensation_errors,  \* the steps in _compensate's compensation_errors
  applied,              \* how often each step's effect has taken place
  late,                 \* abandoned attempts whose effect may still come
  undone                \* how often each step's compensation took effect

control == <<status, pc, current_step_index, attempt, completed_steps,
             failed_step, unwinding, compensation_errors>>
effects == <<applied, late, undone>>
vars == <<control, effects>>

Status == {"pending", "running", "completed", "failed",
           "compensating", "compensated", "cancelled"}
Ended == {"done", "aborted"}
Awaiting == {"action", "backoff", "on_success", "compensation", "on_failure"}

TypeOK ==
  /\ status \in Status
  /\ pc \in {"pending"} \cup Awaiting \cup Ended
  /\ current_step_index \in Steps
  /\ attempt \in 0..RetryCount[current_step_index]
  /\ completed_steps \in Seq(Steps)
  /\ failed_step \in 0..NumSteps
  /\ unwinding \in 0..Len(completed_steps)
  /\ compensation_errors \subseteq Steps
  /\ applied \in [Steps -> Nat]
  /\ late \in [Steps -> Nat]
  /\ undone \in [Steps -> Nat]

Init ==
  /\ status = "pending"
  /\ pc = "pending"
  /\ current_step_index = 1
  /\ attempt = 0
  /\ completed_steps = <<>>
  /\ failed_step = 0
  /\ unwinding = 0
  /\ compensation_errors = {}
  /\ applied = [s \in Steps |-> 0]
  /\ late = [s \in Steps |-> 0]
  /\ undone = [s \in Steps |-> 0]

Plus1(f, s) == [f EXCEPT ![s] = @ + 1]

-------------------------------------------------------------------------------
(* The forward loop *)

\* execute() starts: RUNNING, and the first step's first attempt.
Run ==
  /\ pc = "pending"
  /\ status' = "running"
  /\ pc' = "action"
  /\ current_step_index' = 1
  /\ UNCHANGED <<attempt, completed_steps, failed_step, unwinding,
                 compensation_errors, effects>>

\* Faulty variant: one attempt too many.
MayRetryOnceMore == attempt <= RetryCount[current_step_index]

MayRetry == attempt < RetryCount[current_step_index]

\* From a completed step to the next one, or out of the loop.
Advance ==
  \/ /\ current_step_index < NumSteps
     /\ current_step_index' = current_step_index + 1
     /\ attempt' = 0
     /\ pc' = "action"
     /\ UNCHANGED status
  \/ /\ current_step_index = NumSteps
     /\ status' = "completed"
     /\ pc' = IF HasOnSuccess THEN "on_success" ELSE "done"
     /\ UNCHANGED <<current_step_index, attempt>>

\* Faulty variant: the loop forgets reversed() and starts at the front.
ParksAtFront(k, j) ==
  /\ j > 0 => completed_steps[j] \in Compensatable
  /\ \A i \in 1..(IF j = 0 THEN k ELSE j - 1) : completed_steps[i] \notin Compensatable

(* The loop over reversed(completed_steps), from position k down.  A step  *)
(* without a compensation is passed over without an await: the loop parks  *)
(* at the next position that has one, or ends.                             *)
ParksAt(k, j) ==
  /\ j > 0 => completed_steps[j] \in Compensatable
  /\ \A i \in (j + 1)..k : completed_steps[i] \notin Compensatable

\* Faulty variants: errors are forgotten; a cancelled label is respected.
OutcomeAlwaysClean(errors) == "compensated"
OutcomeRespectsCancel(errors) ==
  IF status = "cancelled" THEN status
  ELSE IF errors = {} THEN "compensated" ELSE "failed"

OutcomeStatus(errors) == IF errors = {} THEN "compensated" ELSE "failed"

Unwind(k, errors, during) ==
  \E j \in 0..k :
    /\ ParksAt(k, j)
    /\ unwinding' = j
    /\ compensation_errors' = errors
    /\ \/ /\ j > 0
          /\ status' = during
          /\ pc' = "compensation"
       \/ /\ j = 0
          /\ status' = OutcomeStatus(errors)
          /\ pc' = IF HasOnFailure THEN "on_failure" ELSE "done"

\* The except branch of execute(): record the step and start to compensate.
Fail ==
  /\ failed_step' = current_step_index
  /\ Unwind(Len(completed_steps), {}, "compensating")
  /\ UNCHANGED <<current_step_index, attempt, completed_steps>>

AttemptReturns ==
  /\ pc = "action"
  /\ "return" \in ActionOutcomes[current_step_index]
  /\ applied' = Plus1(applied, current_step_index)
  /\ completed_steps' = Append(completed_steps, current_step_index)
  /\ Advance
  /\ UNCHANGED <<failed_step, unwinding, compensation_errors, late, undone>>

\* context.update(result) raises: it is outside SagaStep.execute, so there
\* is no retry, and before the append, so the step does not count as completed.
ResultRejected ==
  /\ pc = "action"
  /\ "reject" \in ActionOutcomes[current_step_index]
  /\ applied' = Plus1(applied, current_step_index)
  /\ Fail
  /\ UNCHANGED <<late, undone>>

\* Faulty variant: the last error is swallowed and the loop goes on.
GiveUpSwallowed ==
  Advance /\ UNCHANGED <<completed_steps, failed_step, unwinding, compensation_errors>>

GiveUp == Fail

\* The attempt raises or times out: back off, or give up after the last one.
AttemptFails ==
  /\ pc = "action"
  /\ \E outcome \in ActionOutcomes[current_step_index] \cap {"raise", "lost"} :
       late' = IF outcome = "lost" THEN Plus1(late, current_step_index) ELSE late
  /\ \/ /\ MayRetry
        /\ pc' = "backoff"
        /\ UNCHANGED <<status, current_step_index, attempt, completed_steps,
                       failed_step, unwinding, compensation_errors>>
     \/ ~MayRetry /\ GiveUp
  /\ UNCHANGED <<applied, undone>>

\* Faulty variant: the attempt is never counted.
SameAttempt == attempt

NextAttempt == attempt + 1

BackoffEnds ==
  /\ pc = "backoff"
  /\ attempt' = NextAttempt
  /\ pc' = "action"
  /\ UNCHANGED <<status, current_step_index, completed_steps, failed_step,
                 unwinding, compensation_errors, effects>>

OnSuccessReturns ==
  /\ pc = "on_success"
  /\ pc' = "done"
  /\ UNCHANGED <<status, current_step_index, attempt, completed_steps,
                 failed_step, unwinding, compensation_errors, effects>>

\* on_success is awaited inside the try: when it raises, a saga that was
\* COMPLETED is compensated from its last step on.
OnSuccessRaises ==
  /\ pc = "on_success"
  /\ Fail
  /\ UNCHANGED effects

-------------------------------------------------------------------------------
(* The compensation loop *)

CompensationReturns ==
  /\ pc = "compensation"
  /\ LET step == completed_steps[unwinding] IN
       /\ "return" \in UndoOutcomes[step]
       /\ undone' = Plus1(undone, step)
       /\ Unwind(unwinding - 1, compensation_errors, status)
  /\ UNCHANGED <<current_step_index, attempt, completed_steps, failed_step,
                 applied, late>>

\* Faulty variants: an error ends the loop, or is tried again, or is dropped.
AfterErrorStop == 0
AfterErrorAgain == unwinding
ErrorsDropped(step) == compensation_errors

AfterError == unwinding - 1
ErrorsNoted(step) == compensation_errors \cup {step}

\* One attempt, no retry: the error is noted and the loop goes on.
CompensationFails ==
  /\ pc = "compensation"
  /\ LET step == completed_steps[unwinding] IN
       /\ \E outcome \in UndoOutcomes[step] \cap {"raise", "lost"} :
            undone' = IF outcome = "lost" THEN Plus1(undone, step) ELSE undone
       /\ Unwind(AfterError, ErrorsNoted(step), status)
  /\ UNCHANGED <<current_step_index, attempt, completed_steps, failed_step,
                 applied, late>>

\* on_failure returns, or raises and the exception is logged.
OnFailureEnds ==
  /\ pc = "on_failure"
  /\ pc' = "done"
  /\ UNCHANGED <<status, current_step_index, attempt, completed_steps,
                 failed_step, unwinding, compensation_errors, effects>>

-------------------------------------------------------------------------------
(* From outside the coroutine *)

\* cancel_saga on a registered instance: a label, and nothing else.
Cancel ==
  /\ pc \notin Ended
  /\ status' = "cancelled"
  /\ UNCHANGED <<pc, current_step_index, attempt, completed_steps, failed_step,
                 unwinding, compensation_errors, effects>>

(* asyncio.run cancels the task when the service's main coroutine ends.    *)
(* CancelledError is not an Exception: no handler of the saga sees it.  The*)
(* request in flight may have reached its participant all the same.        *)
LoopTeardown ==
  /\ pc \notin Ended
  /\ pc' = "aborted"
  /\ \/ UNCHANGED effects
     \/ /\ pc = "action"
        /\ "lost" \in ActionOutcomes[current_step_index]
        /\ late' = Plus1(late, current_step_index)
        /\ UNCHANGED <<applied, undone>>
     \/ /\ pc = "compensation"
        /\ "lost" \in UndoOutcomes[completed_steps[unwinding]]
        /\ undone' = Plus1(undone, completed_steps[unwinding])
        /\ UNCHANGED <<applied, late>>
  /\ UNCHANGED <<status, current_step_index, attempt, completed_steps,
                 failed_step, unwinding, compensation_errors>>

\* The effect of an attempt that the saga gave up arrives.
LateEffect(s) ==
  /\ late[s] > 0
  /\ late' = [late EXCEPT ![s] = @ - 1]
  /\ applied' = Plus1(applied, s)
  /\ UNCHANGED <<control, undone>>

Terminated == pc \in Ended /\ UNCHANGED vars

Progress == \/ Run \/ AttemptReturns \/ ResultRejected \/ AttemptFails
            \/ BackoffEnds \/ CompensationReturns \/ CompensationFails

Next == \/ Progress
        \/ OnSuccessReturns \/ OnSuccessRaises \/ OnFailureEnds
        \/ Cancel \/ LoopTeardown
        \/ \E s \in Steps : LateEffect(s)
        \/ Terminated

Spec == Init /\ [][Next]_vars

(* wait_for bounds every action and every compensation, and a backoff is a *)
(* sleep: the coroutine always moves on.  Nothing bounds the callbacks.    *)
FairSpec == Spec /\ WF_vars(Progress)
-------------------------------------------------------------------------------
(* What one saga guarantees *)

CompletedSet == {completed_steps[i] : i \in DOMAIN completed_steps}
ToUndo == CompletedSet \cap Compensatable

(* execute() and _compensate() set the status before and after long awaits *)
(* and cancel_saga overwrites it in between.  At the end it tells the truth*)
(* all the same: COMPLETED means every step took effect and nothing was    *)
(* undone, COMPENSATED that every completed step with a compensation was   *)
(* undone, FAILED that a compensation failed; a cancelled label survives   *)
(* only if it was set while a callback ran.                                *)
TruthfulOutcome ==
  pc = "done" =>
    /\ status \in {"completed", "compensated", "failed", "cancelled"}
    /\ status = "completed" =>
         CompletedSet = Steps /\ \A s \in Steps : applied[s] > 0 /\ undone[s] = 0
    /\ status = "compensated" =>
         failed_step # 0 /\ \A s \in ToUndo : undone[s] > 0
    /\ status = "failed" => failed_step # 0 /\ compensation_errors # {}
    /\ status = "cancelled" => HasOnSuccess \/ HasOnFailure

(* Whatever the order of failures, cancellations and late effects, a saga  *)
(* that has failed gets to its end only when each completed step with a    *)
(* compensation has been undone or its error noted: one failing            *)
(* compensation does not stop the loop of _compensate, and a cancel does   *)
(* not cut it short.                                                       *)
FailureUnwindsAll ==
  failed_step # 0 /\ pc \in {"on_failure", "done"} =>
    \A s \in ToUndo : undone[s] > 0 \/ s \in compensation_errors

(* A compensation takes effect at most once, only after the saga failed,   *)
(* and only for a step that completed: no retry of _compensate, and no     *)
(* second pass over the same step when on_success raises.                  *)
UndoneOnce ==
  \A s \in Steps : undone[s] > 0 =>
    undone[s] = 1 /\ failed_step # 0 /\ s \in ToUndo

(* No step is undone while a later one still stands and has not even been  *)
(* tried: a participant never sees its step undone under the feet of one   *)
(* that was built on it.                                                   *)
UndoneInReverse ==
  \A s \in Steps : undone[s] > 0 =>
    \A t \in ToUndo : t > s => undone[t] > 0 \/ t \in compensation_errors

(* range(retry_count + 1): a participant sees a step's request at most     *)
(* retry_count + 1 times, late arrivals included, and sees none before all *)
(* earlier steps have completed.                                           *)
AttemptBudget ==
  \A s \in Steps :
    /\ applied[s] + late[s] <= RetryCount[s] + 1
    /\ applied[s] + late[s] > 0 => \A t \in 1..(s - 1) : t \in CompletedSet

(* The saga is a refinement of its contract: the retries, the status label,*)
(* the callbacks, cancellation and the participants' late effects are      *)
(* stuttering, and a saga cut off by the end of the loop just stops.       *)
Phase ==
  IF failed_step = 0 THEN (IF pc = "done" THEN "committed" ELSE "forward")
                     ELSE (IF pc = "done" THEN "unwound" ELSE "unwinding")
Handled ==
  IF failed_step = 0 THEN {}
  ELSE {s \in ToUndo : \E i \in (unwinding + 1)..Len(completed_steps) :
                          completed_steps[i] = s}

Contract == INSTANCE SagaContract WITH
  phase <- Phase, forward <- Len(completed_steps), handled <- Handled

ImplementsContract == Contract!Spec

(* The label and the stage move only as SagaLife says, which is how        *)
(* SagaOrchestrator models every saga: a cancel sets the label and nothing *)
(* else, and the next label the coroutine sets overwrites it.              *)
Life == INSTANCE SagaLife

Stage ==
  CASE pc = "pending"               -> "scheduled"
    [] pc \in {"action", "backoff"} -> "forward"
    [] pc = "compensation"          -> "compensating"
    [] pc = "done"                  -> "ended"
    [] OTHER                        -> pc

KeepsToLife ==
  [][\/ <<Stage', status'>> \in Life!Moves(Stage, status)
     \/ Stage' = Stage /\ status' \in {status, "cancelled"}
     \/ Stage' = "aborted" /\ status' = status]_<<Stage, status>>

(* README, "partial failures unwind cleanly": after a COMPENSATED saga no  *)
(* effect is left of a step that has a compensation, as far as the answers *)
(* of its participant can be believed, however the other steps behave.  A  *)
(* step whose attempts may be lost or refused can be left in place: when it*)
(* is the one that failed, it is not among completed_steps.                *)
Believable(s) == ActionOutcomes[s] \subseteq {"return", "raise"}

UnwindsCleanly ==
  pc = "done" /\ status = "compensated" =>
    \A s \in Compensatable : Believable(s) => applied[s] = undone[s]

(* Every saga that is started comes to rest, in spite of retries, failing  *)
(* compensations and cancellation, at its end or in a callback, which is   *)
(* the only await of execute() without a timeout.                          *)
SagaSettles == <>(pc \in Ended \cup {"on_success", "on_failure"})

-------------------------------------------------------------------------------
(* The inductive invariant: where the loops stand, what each participant   *)
(* has seen, what has been undone, and what the label says of it.          *)

LoopInv ==
  /\ \A i \in 1..Len(completed_steps) : completed_steps[i] = i
  /\ Len(completed_steps) \in {current_step_index - 1, current_step_index}
  /\ pc = "pending" => current_step_index = 1 /\ attempt = 0
  /\ pc = "backoff" => MayRetry
  /\ failed_step = 0 =>
       /\ unwinding = 0 /\ compensation_errors = {}
       /\ pc \notin {"compensation", "on_failure"}
       /\ pc \in {"pending", "action", "backoff"} =>
            Len(completed_steps) = current_step_index - 1
       /\ pc \in {"on_success", "done"} => Len(completed_steps) = NumSteps
  /\ failed_step # 0 =>
       /\ failed_step = current_step_index
       /\ pc \in {"compensation", "on_failure"} \cup Ended
  /\ pc = "compensation" => unwinding > 0 /\ unwinding \in Compensatable
  /\ pc \in {"on_failure", "done"} => unwinding = 0

BudgetInv ==
  \A s \in Steps :
    /\ applied[s] + late[s] <= RetryCount[s] + 1
    /\ s > current_step_index => applied[s] + late[s] = 0
    /\ s = current_step_index =>
         /\ pc \in {"pending", "action"} => applied[s] + late[s] <= attempt
         /\ pc = "backoff" => applied[s] + late[s] <= attempt + 1
    /\ s <= Len(completed_steps) => applied[s] > 0

UndoInv ==
  \A s \in Steps :
    /\ undone[s] <= 1
    /\ undone[s] > 0 =>
         /\ failed_step # 0 /\ s \in Compensatable /\ s <= Len(completed_steps)
         /\ s > unwinding \/ (s = unwinding /\ pc = "aborted")
    /\ failed_step # 0 /\ s \in Compensatable /\ s > unwinding
         /\ s <= Len(completed_steps) => undone[s] > 0 \/ s \in compensation_errors

StatusInv ==
  /\ pc = "on_success" => HasOnSuccess /\ status \in {"completed", "cancelled"}
  /\ pc = "on_failure" =>
       HasOnFailure /\ status \in {OutcomeStatus(compensation_errors), "cancelled"}
  /\ pc = "done" =>
       \/ failed_step = 0 /\ status = "completed"
       \/ failed_step # 0 /\ status = OutcomeStatus(compensation_errors)
       \/ failed_step = 0 /\ status = "cancelled" /\ HasOnSuccess
       \/ failed_step # 0 /\ status = "cancelled" /\ HasOnFailure

(* What holds between any two steps of the coroutine: IInv implies each of *)
(* the guarantees above and is preserved by every action.                  *)
IInv == TypeOK /\ LoopInv /\ BudgetInv /\ UndoInv /\ StatusInv

-------------------------------------------------------------------------------
(* What a comment of the code says of it, and the code does not do *)

(* saga.py, "Cancel a running saga.": a saga that was cancelled does not   *)
(* go on to report that it completed.                                      *)
CancelSticks == [][status = "cancelled" => status' # "completed"]_vars
===============================================================================
