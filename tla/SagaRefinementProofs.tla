------------------------- MODULE SagaRefinementProofs -------------------------
(***************************************************************************)
(* Proof that SagaInstance implements SagaContract: under the inductive    *)
(* invariant of SagaInstanceProofs every step of the coroutine, of a       *)
(* canceller or of a participant is a step of the contract or a stutter.   *)
(***************************************************************************)
EXTENDS SagaInstanceProofs

(* The refinement mapping, once completed_steps is known to be 1..n. *)
HandledByPosition ==
  IInv => Handled = IF failed_step = 0 THEN {}
                    ELSE {s \in Compensatable :
                            s > unwinding /\ s <= Len(completed_steps)}

LEMMA HandledIs == HandledByPosition
<1> SUFFICES ASSUME IInv, failed_step # 0
             PROVE  Handled = {s \in Compensatable :
                                 s > unwinding /\ s <= Len(completed_steps)}
  BY DEF Handled, HandledByPosition
<1>1. /\ Len(completed_steps) \in Nat /\ unwinding \in Nat
      /\ \A s \in Steps : s \in Nat /\ s >= 1
      /\ Compensatable \subseteq Steps
  BY Typing, SagaAssumption DEF IInv
<1>2. \A i \in 1..Len(completed_steps) : completed_steps[i] = i
  BY DEF IInv, LoopInv
<1>3. ToUndo = {s \in Compensatable : s <= Len(completed_steps)}
  BY <1>1, CompletedPrefix DEF ToUndo
<1>4. ASSUME NEW s \in Compensatable, s <= Len(completed_steps)
      PROVE  (\E i \in (unwinding + 1)..Len(completed_steps) : completed_steps[i] = s)
               <=> s > unwinding
  <2>1. s \in Nat /\ s >= 1
    BY <1>1
  <2>2. \A i \in (unwinding + 1)..Len(completed_steps) :
          i > unwinding /\ completed_steps[i] = i
    BY <1>1, <1>2
  <2>3. s > unwinding => s \in (unwinding + 1)..Len(completed_steps)
    BY <1>1, <1>4, <2>1
  <2> QED
    BY <2>2, <2>3
<1> QED
  BY <1>3, <1>4 DEF Handled

LEMMA HandledNext ==
  IInv' => Handled' = IF failed_step' = 0 THEN {}
                      ELSE {s \in Compensatable :
                              s > unwinding' /\ s <= Len(completed_steps')}
<1>1. HandledByPosition'
  BY HandledIs, PTL
<1> QED
  BY <1>1 DEF HandledByPosition

LEMMA InitRefines == Init => Contract!Init
BY DEF Init, Contract!Init, Phase, Handled

(* The steps that a caller of the contract does not see. *)
LEMMA Stutters ==
  ASSUME UNCHANGED <<failed_step, completed_steps, unwinding>>,
         pc # "done", pc' # "done"
  PROVE  UNCHANGED Contract!vars
BY DEF Contract!vars, Phase, Handled, ToUndo, CompletedSet

(* Any way into the except branch is the contract's failure. *)
LEMMA FailRefines ==
  ASSUME IInv, IInv', failed_step = 0, pc \in {"action", "on_success"}, Fail
  PROVE  Contract!Fail
<1>1. /\ failed_step' # 0 /\ completed_steps' = completed_steps
      /\ Unwind(Len(completed_steps), {}, "compensating")
  BY Typing DEF Fail, IInv
<1>2. /\ TypeOK /\ LoopInv /\ Len(completed_steps) \in Nat
      /\ Len(completed_steps) \in 0..Len(completed_steps)
      /\ {} \in SUBSET Steps /\ "compensating" \in Status
  BY Typing DEF IInv, Status
<1>3. /\ \A s \in Steps : s > unwinding' /\ s <= Len(completed_steps)
                            => s \notin Compensatable
      /\ pc' = "done" => unwinding' = 0
      /\ pc' \in {"compensation", "on_failure", "done"}
  BY <1>1, <1>2, UnwindParks
<1>4. Compensatable \subseteq Steps /\ \A s \in Steps : s > 0
  BY SagaAssumption, <1>2, Typing
<1>5. Handled = {} /\ Handled' = {}
  BY <1>1, <1>3, <1>4, HandledNext DEF Handled
<1>6. Phase = "forward" /\ Phase' = IF pc' = "done" THEN "unwound" ELSE "unwinding"
  BY <1>1 DEF Phase
<1>7. pc' = "done" => Contract!ToUndo = {}
  BY <1>3, <1>4 DEF Contract!ToUndo
<1> QED
  BY <1>1, <1>5, <1>6, <1>7 DEF Contract!Fail

(* One turn of the compensation loop is the contract's Undo of that step. *)
LEMMA UndoRefines ==
  ASSUME IInv, IInv', pc = "compensation", NEW errors \in SUBSET Steps,
         Unwind(unwinding - 1, errors, status),
         UNCHANGED <<completed_steps, failed_step>>
  PROVE  Contract!Undo(unwinding)
<1>1. /\ TypeOK /\ LoopInv /\ failed_step # 0
      /\ unwinding \in Compensatable /\ unwinding \in Nat /\ unwinding > 0
      /\ unwinding <= Len(completed_steps) /\ Len(completed_steps) \in Nat
      /\ unwinding - 1 \in 0..Len(completed_steps) /\ status \in Status
  <2>1. /\ TypeOK /\ LoopInv /\ failed_step # 0 /\ status \in Status
        /\ unwinding \in Compensatable /\ unwinding > 0
        /\ unwinding \in 0..Len(completed_steps)
    BY DEF IInv, LoopInv, TypeOK
  <2>2. unwinding \in Nat /\ Len(completed_steps) \in Nat
    BY <2>1, Typing
  <2> QED
    BY <2>1, <2>2
<1>2. /\ unwinding' \in 0..(unwinding - 1)
      /\ \A s \in Steps : s > unwinding' /\ s <= unwinding - 1 => s \notin Compensatable
      /\ pc' = "done" => unwinding' = 0
      /\ pc' \in {"compensation", "on_failure", "done"}
  BY <1>1, UnwindParks
<1>3. Compensatable \subseteq Steps /\ \A s \in Steps : s \in Nat /\ s > 0
  BY SagaAssumption, <1>1, Typing
<1>4. Handled = {s \in Compensatable : s > unwinding /\ s <= Len(completed_steps)}
  BY <1>1, HandledIs DEF HandledByPosition
<1>5. Handled' = {s \in Compensatable : s > unwinding' /\ s <= Len(completed_steps)}
  BY <1>1, HandledNext
<1>6. Handled' = Handled \cup {unwinding}
  <2>1. unwinding' \in Nat /\ unwinding' < unwinding
    BY <1>1, <1>2
  <2>2. ASSUME NEW s \in Compensatable
        PROVE  s > unwinding' /\ s <= Len(completed_steps)
                 <=> (s > unwinding /\ s <= Len(completed_steps)) \/ s = unwinding
    BY <1>1, <1>2, <1>3, <2>1
  <2> QED
    BY <1>1, <1>4, <1>5, <2>2
<1>7. Phase = "unwinding" /\ Phase' = IF pc' = "done" THEN "unwound" ELSE "unwinding"
  BY <1>1 DEF Phase
<1>8. pc' = "done" => Handled' = Contract!ToUndo
  BY <1>2, <1>3, <1>5 DEF Contract!ToUndo
<1>9. /\ unwinding \in Contract!ToUndo \ Handled
      /\ \A t \in Contract!ToUndo \ Handled : t <= unwinding
  BY <1>1, <1>3, <1>4 DEF Contract!ToUndo
<1>10. Contract!ToUndo' = Contract!ToUndo
  BY <1>1 DEF Contract!ToUndo
<1> QED
  BY <1>6, <1>7, <1>8, <1>9 DEF Contract!Undo

LEMMA NextRefines ==
  ASSUME IInv, IInv', [Next]_vars
  PROVE  [Contract!Next]_(Contract!vars)
<1>1. CASE Run \/ BackoffEnds
  BY <1>1, Stutters DEF Run, BackoffEnds
<1>2. CASE AttemptReturns
  <2>1. /\ failed_step = 0 /\ failed_step' = 0 /\ pc = "action"
        /\ Len(completed_steps) = current_step_index - 1
        /\ current_step_index \in Nat /\ current_step_index <= NumSteps
        /\ NumSteps \in Nat
        /\ completed_steps' = Append(completed_steps, current_step_index)
        /\ completed_steps \in Seq(Steps) /\ current_step_index \in Steps
    BY <1>2, Typing DEF AttemptReturns, IInv, LoopInv, Ended, TypeOK
  <2>2. Len(completed_steps') = Len(completed_steps) + 1
    BY <2>1
  <2>3. \/ current_step_index < NumSteps /\ pc' = "action"
        \/ current_step_index = NumSteps /\ pc' \in {"on_success", "done"}
    BY <1>2 DEF AttemptReturns, Advance
  <2>4. Handled = {} /\ Handled' = {} /\ Phase = "forward"
        /\ Phase' = IF pc' = "done" THEN "committed" ELSE "forward"
    BY <2>1 DEF Handled, Phase
  <2>5. Contract!StepCompletes
    BY <2>1, <2>2, <2>3, <2>4 DEF Contract!StepCompletes
  <2> QED
    BY <2>5 DEF Contract!Next
<1>3. CASE ResultRejected \/ OnSuccessRaises
  <2>1. failed_step = 0 /\ pc \in {"action", "on_success"} /\ Fail
    BY <1>3 DEF ResultRejected, OnSuccessRaises, IInv, LoopInv, Ended
  <2> QED
    BY <2>1, FailRefines DEF Contract!Next
<1>4. CASE AttemptFails
  <2>1. failed_step = 0 /\ pc = "action"
    BY <1>4 DEF AttemptFails, IInv, LoopInv, Ended
  <2>2. CASE Fail
    BY <2>1, <2>2, FailRefines DEF Contract!Next
  <2>3. CASE pc' = "backoff" /\ UNCHANGED <<failed_step, completed_steps, unwinding>>
    BY <2>1, <2>3, Stutters
  <2> QED
    BY <1>4, <2>2, <2>3 DEF AttemptFails, GiveUp
<1>5. CASE OnSuccessReturns
  <2>1. /\ failed_step = 0 /\ failed_step' = 0 /\ pc = "on_success" /\ pc' = "done"
        /\ completed_steps' = completed_steps /\ Len(completed_steps) = NumSteps
    BY <1>5 DEF OnSuccessReturns, IInv, LoopInv, Ended
  <2>2. Handled = {} /\ Handled' = {} /\ Phase = "forward" /\ Phase' = "committed"
    BY <2>1 DEF Handled, Phase
  <2> QED
    BY <2>1, <2>2 DEF Contract!Commit, Contract!Next
<1>6. CASE CompensationReturns \/ CompensationFails
  <2>1. /\ pc = "compensation" /\ UNCHANGED <<completed_steps, failed_step>>
        /\ compensation_errors \in SUBSET Steps
        /\ unwinding \in Compensatable /\ unwinding \in Steps
        /\ completed_steps[unwinding] = unwinding
    <3>1. /\ pc = "compensation" /\ UNCHANGED <<completed_steps, failed_step>>
      BY <1>6 DEF CompensationReturns, CompensationFails
    <3>2. unwinding \in Compensatable /\ unwinding \in 1..Len(completed_steps)
      BY <3>1, Typing DEF IInv, LoopInv, TypeOK
    <3> QED
      BY <3>1, <3>2, SagaAssumption DEF IInv, LoopInv, TypeOK
  <2>2. \E errors \in SUBSET Steps : Unwind(unwinding - 1, errors, status)
    <3>1. CASE CompensationReturns
      BY <2>1, <3>1 DEF CompensationReturns
    <3>2. CASE CompensationFails
      <4>1. Unwind(unwinding - 1, compensation_errors \cup {unwinding}, status)
        BY <2>1, <3>2 DEF CompensationFails, AfterError, ErrorsNoted
      <4>2. compensation_errors \cup {unwinding} \in SUBSET Steps
        BY <2>1
      <4> QED
        BY <4>1, <4>2
    <3> QED
      BY <1>6, <3>1, <3>2
  <2>3. Contract!Undo(unwinding)
    BY <2>1, <2>2, UndoRefines
  <2> QED
    BY <2>1, <2>3 DEF Contract!Next
<1>7. CASE OnFailureEnds
  <2>1. /\ failed_step # 0 /\ failed_step' = failed_step /\ unwinding = 0
        /\ pc = "on_failure" /\ pc' = "done" /\ unwinding' = unwinding
        /\ completed_steps' = completed_steps
    BY <1>7 DEF OnFailureEnds, IInv, LoopInv
  <2>2. Compensatable \subseteq Steps /\ \A s \in Steps : s > 0
    BY SagaAssumption, Typing DEF IInv
  <2>3. Handled = Contract!ToUndo /\ Handled' = Handled
    BY <2>1, <2>2, HandledIs, HandledNext DEF HandledByPosition, Contract!ToUndo
  <2>4. Phase = "unwinding" /\ Phase' = "unwound"
    BY <2>1 DEF Phase
  <2> QED
    BY <2>1, <2>3, <2>4 DEF Contract!Unwound, Contract!Next
<1>8. CASE Cancel \/ LoopTeardown
  BY <1>8, Stutters DEF Cancel, LoopTeardown, Ended
<1>9. CASE (\E s \in Steps : LateEffect(s)) \/ UNCHANGED vars
  <2>1. UNCHANGED <<failed_step, completed_steps, unwinding, pc>>
    BY <1>9 DEF LateEffect, vars, control
  <2> QED
    BY <2>1 DEF Contract!vars, Phase, Handled, ToUndo, CompletedSet
<1> QED
  BY <1>1, <1>2, <1>3, <1>4, <1>5, <1>6, <1>7, <1>8, <1>9
  DEF Next, Progress, Terminated

(* For every saga definition, whatever its steps do and whoever cancels it,*)
(* what the caller sees is a behaviour of the contract.                    *)
THEOREM Refinement == Spec => ImplementsContract
<1>1. Init => Contract!Init
  BY InitRefines
<1>2. IInv /\ IInv' /\ [Next]_vars => [Contract!Next]_(Contract!vars)
  BY NextRefines
<1> QED
  BY <1>1, <1>2, Invariance, PTL DEF Spec, ImplementsContract, Contract!Spec

-------------------------------------------------------------------------------
(* The moves of the label and the stage                                    *)

Moved ==
  \/ <<Stage', status'>> \in Life!Moves(Stage, status)
  \/ Stage' = Stage /\ status' \in {status, "cancelled"}
  \/ Stage' = "aborted" /\ status' = status

(* A failure compensates, or has nothing to compensate. *)
LEMMA FailMoves ==
  ASSUME IInv, Fail, pc \in {"action", "on_success"}
  PROVE  Moved
<1>1. /\ TypeOK /\ LoopInv /\ {} \in SUBSET Steps /\ "compensating" \in Status
      /\ Len(completed_steps) \in 0..Len(completed_steps)
      /\ Unwind(Len(completed_steps), {}, "compensating")
  BY DEF IInv, TypeOK, Status, Fail
<1>2. \/ pc' = "compensation" /\ status' = "compensating"
      \/ pc' \in {"on_failure", "done"} /\ status' = "compensated"
  BY <1>1, UnwindParks DEF OutcomeStatus
<1>3. Stage \in {"forward", "on_success"}
  BY DEF Stage
<1>4. \/ Stage' = "compensating" /\ status' = "compensating"
      \/ Stage' \in {"on_failure", "ended"} /\ status' = "compensated"
  BY <1>2 DEF Stage
<1> QED
  BY <1>3, <1>4 DEF Moved, Life!Moves

LEMMA StepMoves ==
  ASSUME IInv, [Next]_vars
  PROVE  Moved
<1>1. CASE Run
  BY <1>1 DEF Run, Moved, Stage, Life!Moves
<1>2. CASE AttemptReturns
  <2>1. /\ pc = "action"
        /\ \/ pc' = "action" /\ status' = status
           \/ pc' \in {"on_success", "done"} /\ status' = "completed"
    BY <1>2 DEF AttemptReturns, Advance
  <2> QED
    BY <2>1 DEF Moved, Stage, Life!Moves
<1>3. CASE ResultRejected \/ OnSuccessRaises
  BY <1>3, FailMoves DEF ResultRejected, OnSuccessRaises
<1>4. CASE AttemptFails
  <2>1. pc = "action" /\ (Fail \/ (pc' = "backoff" /\ status' = status))
    BY <1>4 DEF AttemptFails, GiveUp
  <2>2. CASE pc' = "backoff" /\ status' = status
    BY <2>1, <2>2 DEF Moved, Stage
  <2> QED
    BY <2>1, <2>2, FailMoves
<1>5. CASE BackoffEnds
  BY <1>5 DEF BackoffEnds, Moved, Stage
<1>6. CASE OnSuccessReturns \/ OnFailureEnds
  BY <1>6 DEF OnSuccessReturns, OnFailureEnds, Moved, Stage, Life!Moves
<1>7. CASE CompensationReturns \/ CompensationFails
  <2>1. /\ pc = "compensation" /\ TypeOK /\ LoopInv /\ status \in Status
        /\ unwinding - 1 \in 0..Len(completed_steps)
        /\ completed_steps[unwinding] \in Steps /\ compensation_errors \subseteq Steps
    <3>1. pc = "compensation"
      BY <1>7 DEF CompensationReturns, CompensationFails
    <3>2. unwinding > 0 /\ unwinding \in 0..Len(completed_steps)
      BY <3>1 DEF IInv, LoopInv, TypeOK
    <3>3. Len(completed_steps) \in Nat /\ completed_steps \in Seq(Steps)
      BY Typing DEF IInv, TypeOK
    <3>4. unwinding \in 1..Len(completed_steps) /\ unwinding - 1 \in 0..Len(completed_steps)
      BY <3>2, <3>3
    <3>5. completed_steps[unwinding] \in Steps
      BY <3>3, <3>4
    <3>6. status \in Status /\ compensation_errors \subseteq Steps
      BY DEF IInv, TypeOK
    <3> QED
      BY <3>1, <3>4, <3>5, <3>6 DEF IInv
  <2>2. \E errors \in SUBSET Steps : Unwind(unwinding - 1, errors, status)
    <3>1. CASE CompensationReturns
      BY <2>1, <3>1 DEF CompensationReturns
    <3>2. CASE CompensationFails
      BY <2>1, <3>2 DEF CompensationFails, AfterError, ErrorsNoted
    <3> QED
      BY <1>7, <3>1, <3>2
  <2>3. PICK errors \in SUBSET Steps : Unwind(unwinding - 1, errors, status)
    BY <2>2
  <2>4. \/ pc' = "compensation" /\ status' = status
        \/ pc' \in {"on_failure", "done"} /\ status' \in {"compensated", "failed"}
    BY <2>1, <2>3, UnwindParks DEF OutcomeStatus
  <2> QED
    BY <2>1, <2>4 DEF Moved, Stage, Life!Moves
<1>8. CASE Cancel
  BY <1>8 DEF Cancel, Moved, Stage
<1>9. CASE LoopTeardown
  BY <1>9 DEF LoopTeardown, Moved, Stage
<1>10. CASE (\E s \in Steps : LateEffect(s)) \/ UNCHANGED vars
  BY <1>10 DEF LateEffect, vars, control, Moved, Stage
<1> QED
  BY <1>1, <1>2, <1>3, <1>4, <1>5, <1>6, <1>7, <1>8, <1>9, <1>10
  DEF Next, Progress, Terminated

(* Every saga moves as the orchestrator's model of a saga moves: what is   *)
(* proved of many sagas by SagaLife holds of these.                        *)
THEOREM LifeKept == Spec => KeepsToLife
<1>1. IInv /\ [Next]_vars => Moved
  BY StepMoves
<1>2. Moved => [Moved]_<<Stage, status>>
  OBVIOUS
<1> QED
  BY <1>1, <1>2, Invariance, PTL DEF Spec, KeepsToLife, Moved
===============================================================================
