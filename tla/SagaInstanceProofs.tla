-------------------------- MODULE SagaInstanceProofs --------------------------
(***************************************************************************)
(* Proofs, for every saga definition and every way its steps can end, of   *)
(* the safety properties of SagaInstance.  IInv is shown inductive, one    *)
(* step per action; each property is then a consequence of IInv alone.     *)
(***************************************************************************)
EXTENDS SagaInstance, TLAPS

(* The initial state satisfies the invariant. *)
LEMMA InitIInv == Init => IInv
<1> SUFFICES ASSUME Init PROVE IInv
  OBVIOUS
<1> USE SagaAssumption DEF Init, Steps
<1>1. TypeOK
  BY DEF TypeOK, Status, Awaiting, Ended
<1>2. LoopInv /\ BudgetInv /\ UndoInv /\ StatusInv
  BY DEF LoopInv, BudgetInv, UndoInv, StatusInv, Ended
<1> QED
  BY <1>1, <1>2 DEF IInv

(* The numbers of the model are numbers. *)
LEMMA Typing ==
  ASSUME TypeOK
  PROVE  /\ NumSteps \in Nat /\ NumSteps > 0
         /\ current_step_index \in Nat /\ current_step_index \in Steps
         /\ Len(completed_steps) \in Nat /\ attempt \in Nat /\ unwinding \in Nat
         /\ attempt <= RetryCount[current_step_index]
         /\ \A s \in Steps :
              /\ s \in Nat /\ s >= 1 /\ s <= NumSteps /\ RetryCount[s] \in Nat
              /\ applied[s] \in Nat /\ late[s] \in Nat /\ undone[s] \in Nat
BY SagaAssumption DEF TypeOK, Steps

(* Where the compensation loop parks: at the next completed step that has  *)
(* a compensation, everything passed over having none, or at its end.      *)
LEMMA UnwindParks ==
  ASSUME TypeOK, LoopInv, NEW k \in 0..Len(completed_steps),
         NEW errors \in SUBSET Steps, NEW during \in Status,
         Unwind(k, errors, during)
  PROVE  /\ unwinding' \in 0..k
         /\ \A s \in Steps : s > unwinding' /\ s <= k => s \notin Compensatable
         /\ compensation_errors' = errors
         /\ \/ /\ unwinding' > 0 /\ unwinding' \in Compensatable
               /\ pc' = "compensation" /\ status' = during
            \/ /\ unwinding' = 0
               /\ status' = OutcomeStatus(errors)
               /\ pc' = IF HasOnFailure THEN "on_failure" ELSE "done"
<1>1. PICK j \in 0..k :
        /\ ParksAt(k, j)
        /\ unwinding' = j
        /\ compensation_errors' = errors
        /\ \/ j > 0 /\ status' = during /\ pc' = "compensation"
           \/ /\ j = 0
              /\ status' = OutcomeStatus(errors)
              /\ pc' = IF HasOnFailure THEN "on_failure" ELSE "done"
  BY DEF Unwind
<1>2. \A i \in 1..k : completed_steps[i] = i
  BY DEF LoopInv, TypeOK
<1>3. j > 0 => j \in Compensatable
  BY <1>1, <1>2 DEF ParksAt
<1>4. \A s \in Steps : s > j /\ s <= k => s \notin Compensatable
  <2> TAKE s \in Steps
  <2> HAVE s > j /\ s <= k
  <2>1. s \in 1..k /\ s \in (j + 1)..k
    BY DEF Steps, TypeOK
  <2> QED
    BY <1>1, <1>2, <2>1 DEF ParksAt
<1> QED
  BY <1>1, <1>3, <1>4

(* Everything that leads to the except branch of execute() establishes the *)
(* parts of the invariant about the loops, the compensations and the label.*)
LEMMA FailIInv ==
  ASSUME IInv, failed_step = 0, Fail, undone' = undone,
         pc \in {"action", "on_success"}
  PROVE  /\ LoopInv' /\ UndoInv' /\ StatusInv'
         /\ status' \in Status
         /\ pc' \in {"compensation", "on_failure", "done"}
         /\ failed_step' \in 0..NumSteps
         /\ unwinding' \in 0..Len(completed_steps')
         /\ compensation_errors' \subseteq Steps
<1> USE DEF IInv
<1>1. /\ failed_step' = current_step_index
      /\ Unwind(Len(completed_steps), {}, "compensating")
      /\ UNCHANGED <<current_step_index, attempt, completed_steps>>
  BY DEF Fail
<1>2. /\ TypeOK /\ LoopInv
      /\ Len(completed_steps) \in 0..Len(completed_steps)
      /\ {} \in SUBSET Steps
      /\ "compensating" \in Status
  BY DEF TypeOK, Status
<1>3. /\ unwinding' \in 0..Len(completed_steps)
      /\ \A s \in Steps : s > unwinding' /\ s <= Len(completed_steps)
                            => s \notin Compensatable
      /\ compensation_errors' = {}
      /\ \/ /\ unwinding' > 0 /\ unwinding' \in Compensatable
            /\ pc' = "compensation" /\ status' = "compensating"
         \/ /\ unwinding' = 0
            /\ status' = OutcomeStatus({})
            /\ pc' = IF HasOnFailure THEN "on_failure" ELSE "done"
  BY <1>1, <1>2, UnwindParks
<1>4. LoopInv'
  <2>1. current_step_index \in Steps /\ current_step_index # 0 /\ unwinding' \in Int
    BY <1>3 DEF TypeOK, Steps
  <2>2. /\ \A i \in 1..Len(completed_steps) : completed_steps[i] = i
        /\ Len(completed_steps) \in {current_step_index - 1, current_step_index}
    BY DEF LoopInv
  <2>3. pc' \in {"compensation", "on_failure", "done"} /\ failed_step' # 0
    BY <1>1, <1>3, <2>1
  <2> QED
    BY <1>1, <1>3, <2>1, <2>2, <2>3 DEF LoopInv, Ended
<1>5. UndoInv'
  BY <1>1, <1>3 DEF UndoInv, TypeOK
<1>6. StatusInv'
  BY <1>1, <1>3 DEF StatusInv, OutcomeStatus, TypeOK, Steps
<1>7. status' \in Status
  BY <1>3 DEF OutcomeStatus, Status
<1> QED
  BY <1>1, <1>3, <1>4, <1>5, <1>6, <1>7 DEF TypeOK, Steps

-------------------------------------------------------------------------------
(* The forward loop preserves the invariant *)

LEMMA RunIInv == IInv /\ Run => IInv'
<1> SUFFICES ASSUME IInv, Run PROVE IInv'
  OBVIOUS
<1> USE SagaAssumption DEF IInv, Run, effects
<1>1. TypeOK'
  BY DEF TypeOK, LoopInv, Status, Awaiting, Steps
<1>2. LoopInv'
  BY DEF LoopInv, TypeOK, Steps, Ended
<1>3. BudgetInv'
  BY DEF BudgetInv, LoopInv
<1>4. UndoInv' /\ StatusInv'
  BY DEF UndoInv, StatusInv, LoopInv
<1> QED
  BY <1>1, <1>2, <1>3, <1>4

LEMMA AttemptReturnsIInv == IInv /\ AttemptReturns => IInv'
<1> SUFFICES ASSUME IInv, AttemptReturns PROVE IInv'
  OBVIOUS
<1> USE DEF IInv
<1>1. /\ pc = "action" /\ failed_step = 0
      /\ current_step_index \in Steps
      /\ Len(completed_steps) = current_step_index - 1
      /\ UNCHANGED <<failed_step, unwinding, compensation_errors, late, undone>>
      /\ pc' \in {"action", "on_success", "done"}
  BY DEF AttemptReturns, Advance, LoopInv, TypeOK, Ended
<1>2. /\ completed_steps' \in Seq(Steps)
      /\ Len(completed_steps') = current_step_index
      /\ \A i \in 1..Len(completed_steps') : completed_steps'[i] = i
  BY <1>1 DEF AttemptReturns, LoopInv, TypeOK, Steps
<1>3. /\ applied' \in [Steps -> Nat]
      /\ \A s \in Steps : applied'[s] =
           IF s = current_step_index THEN applied[s] + 1 ELSE applied[s]
  BY <1>1 DEF AttemptReturns, Plus1, TypeOK
<1>4. CASE current_step_index < NumSteps
  <2>1. /\ current_step_index' = current_step_index + 1 /\ attempt' = 0
        /\ pc' = "action" /\ status' = status
    BY <1>4, <1>1 DEF AttemptReturns, Advance, Steps
  <2>2. TypeOK'
    <3>1. current_step_index' \in Steps /\ attempt' \in 0..RetryCount[current_step_index']
      BY <1>4, <2>1, <1>1, Typing DEF Steps
    <3>2. /\ status' \in Status /\ pc' \in {"pending"} \cup Awaiting \cup Ended
          /\ failed_step' \in 0..NumSteps /\ compensation_errors' \subseteq Steps
          /\ late' \in [Steps -> Nat] /\ undone' \in [Steps -> Nat]
      BY <1>1, <2>1 DEF TypeOK, Awaiting
    <3>3. unwinding' = 0 /\ unwinding' \in 0..Len(completed_steps')
      BY <1>1, <1>2, Typing DEF LoopInv
    <3> QED
      BY <1>2, <1>3, <3>1, <3>2, <3>3 DEF TypeOK
  <2>3. LoopInv'
    BY <1>1, <1>2, <2>1 DEF LoopInv, Steps, Ended
  <2>4. BudgetInv'
    <3> SUFFICES ASSUME NEW s \in Steps
                 PROVE  /\ applied'[s] + late'[s] <= RetryCount[s] + 1
                        /\ s > current_step_index' => applied'[s] + late'[s] = 0
                        /\ s = current_step_index' =>
                             /\ pc' \in {"pending", "action"} =>
                                  applied'[s] + late'[s] <= attempt'
                             /\ pc' = "backoff" =>
                                  applied'[s] + late'[s] <= attempt' + 1
                        /\ s <= Len(completed_steps') => applied'[s] > 0
      BY DEF BudgetInv
    <3>1. /\ applied[s] + late[s] <= RetryCount[s] + 1
          /\ s > current_step_index => applied[s] + late[s] = 0
          /\ s = current_step_index /\ pc = "action" => applied[s] + late[s] <= attempt
          /\ s <= Len(completed_steps) => applied[s] > 0
      BY DEF BudgetInv
    <3>2. /\ s \in Nat /\ RetryCount[s] \in Nat /\ applied[s] \in Nat /\ late[s] \in Nat
          /\ attempt \in Nat /\ current_step_index \in Nat /\ NumSteps \in Nat
          /\ attempt <= RetryCount[current_step_index]
          /\ Len(completed_steps) \in Nat
      BY Typing
    <3>3. late'[s] = late[s] /\ Len(completed_steps') = current_step_index
      BY <1>1, <1>2
    <3>4. CASE s = current_step_index
      <4>1. applied'[s] = applied[s] + 1 /\ applied[s] + late[s] <= attempt
        BY <1>1, <1>3, <3>1, <3>4
      <4> QED
        BY <2>1, <3>2, <3>3, <3>4, <4>1
    <3>5. CASE s # current_step_index
      <4>1. applied'[s] = applied[s]
        BY <1>3, <3>5
      <4> QED
        BY <1>1, <2>1, <3>1, <3>2, <3>3, <3>5, <4>1
    <3> QED
      BY <3>4, <3>5
  <2>5. UndoInv' /\ StatusInv'
    BY <1>1, <2>1 DEF UndoInv, StatusInv, TypeOK
  <2> QED
    BY <2>2, <2>3, <2>4, <2>5
<1>5. CASE current_step_index = NumSteps
  <2>1. /\ current_step_index' = current_step_index /\ attempt' = attempt
        /\ status' = "completed"
        /\ pc' = IF HasOnSuccess THEN "on_success" ELSE "done"
    BY <1>5, <1>1 DEF AttemptReturns, Advance, Steps
  <2>2. TypeOK'
    <3>1. current_step_index' \in Steps /\ attempt' \in 0..RetryCount[current_step_index']
      BY <2>1, <1>1 DEF TypeOK
    <3>2. /\ status' \in Status /\ pc' \in {"pending"} \cup Awaiting \cup Ended
          /\ failed_step' \in 0..NumSteps /\ compensation_errors' \subseteq Steps
          /\ late' \in [Steps -> Nat] /\ undone' \in [Steps -> Nat]
      BY <1>1, <2>1 DEF TypeOK, Awaiting, Ended, Status
    <3>3. unwinding' = 0 /\ unwinding' \in 0..Len(completed_steps')
      BY <1>1, <1>2, Typing DEF LoopInv
    <3> QED
      BY <1>2, <1>3, <3>1, <3>2, <3>3 DEF TypeOK
  <2>3. LoopInv'
    BY <1>1, <1>2, <1>5, <2>1 DEF LoopInv, Steps, Ended
  <2>4. BudgetInv'
    <3> SUFFICES ASSUME NEW s \in Steps
                 PROVE  /\ applied'[s] + late'[s] <= RetryCount[s] + 1
                        /\ s > current_step_index' => applied'[s] + late'[s] = 0
                        /\ s = current_step_index' =>
                             /\ pc' \in {"pending", "action"} =>
                                  applied'[s] + late'[s] <= attempt'
                             /\ pc' = "backoff" =>
                                  applied'[s] + late'[s] <= attempt' + 1
                        /\ s <= Len(completed_steps') => applied'[s] > 0
      BY DEF BudgetInv
    <3>1. /\ applied[s] + late[s] <= RetryCount[s] + 1
          /\ s > current_step_index => applied[s] + late[s] = 0
          /\ s = current_step_index /\ pc = "action" => applied[s] + late[s] <= attempt
          /\ s <= Len(completed_steps) => applied[s] > 0
      BY DEF BudgetInv
    <3>2. /\ s \in Nat /\ RetryCount[s] \in Nat /\ applied[s] \in Nat /\ late[s] \in Nat
          /\ attempt \in Nat /\ current_step_index \in Nat /\ NumSteps \in Nat
          /\ attempt <= RetryCount[current_step_index]
          /\ Len(completed_steps) \in Nat
      BY Typing
    <3>3. late'[s] = late[s] /\ Len(completed_steps') = current_step_index
      BY <1>1, <1>2
    <3>4. CASE s = current_step_index
      <4>1. applied'[s] = applied[s] + 1 /\ applied[s] + late[s] <= attempt
        BY <1>1, <1>3, <3>1, <3>4
      <4> QED
        BY <2>1, <3>2, <3>3, <3>4, <4>1
    <3>5. CASE s # current_step_index
      <4>1. applied'[s] = applied[s]
        BY <1>3, <3>5
      <4> QED
        BY <1>1, <2>1, <3>1, <3>2, <3>3, <3>5, <4>1
    <3> QED
      BY <3>4, <3>5
  <2>5. UndoInv' /\ StatusInv'
    BY <1>1, <2>1 DEF UndoInv, StatusInv, TypeOK
  <2> QED
    BY <2>2, <2>3, <2>4, <2>5
<1> QED
  BY <1>1, <1>4, <1>5, Typing

LEMMA ResultRejectedIInv == IInv /\ ResultRejected => IInv'
<1> SUFFICES ASSUME IInv, ResultRejected PROVE IInv'
  OBVIOUS
<1> USE DEF IInv
<1>1. /\ pc = "action" /\ failed_step = 0 /\ Fail /\ undone' = undone
      /\ late' = late
      /\ UNCHANGED <<current_step_index, attempt, completed_steps>>
      /\ Len(completed_steps) = current_step_index - 1
  BY DEF ResultRejected, Fail, LoopInv, Ended
<1>2. /\ LoopInv' /\ UndoInv' /\ StatusInv'
      /\ status' \in Status
      /\ pc' \in {"compensation", "on_failure", "done"}
      /\ failed_step' \in 0..NumSteps
      /\ unwinding' \in 0..Len(completed_steps')
      /\ compensation_errors' \subseteq Steps
  BY <1>1, FailIInv
<1>3. /\ applied' \in [Steps -> Nat]
      /\ \A s \in Steps : applied'[s] =
           IF s = current_step_index THEN applied[s] + 1 ELSE applied[s]
  BY DEF ResultRejected, Plus1, TypeOK
<1>4. TypeOK'
  BY <1>1, <1>2, <1>3 DEF TypeOK, Awaiting, Ended
<1>5. BudgetInv'
  <2> SUFFICES ASSUME NEW s \in Steps
               PROVE  /\ applied'[s] + late'[s] <= RetryCount[s] + 1
                      /\ s > current_step_index' => applied'[s] + late'[s] = 0
                      /\ s = current_step_index' =>
                           /\ pc' \in {"pending", "action"} =>
                                applied'[s] + late'[s] <= attempt'
                           /\ pc' = "backoff" =>
                                applied'[s] + late'[s] <= attempt' + 1
                      /\ s <= Len(completed_steps') => applied'[s] > 0
    BY DEF BudgetInv
  <2>1. /\ applied[s] + late[s] <= RetryCount[s] + 1
        /\ s > current_step_index => applied[s] + late[s] = 0
        /\ s = current_step_index /\ pc = "action" => applied[s] + late[s] <= attempt
        /\ s <= Len(completed_steps) => applied[s] > 0
    BY DEF BudgetInv
  <2>2. /\ s \in Nat /\ RetryCount[s] \in Nat /\ applied[s] \in Nat /\ late[s] \in Nat
        /\ attempt \in Nat /\ current_step_index \in Nat /\ NumSteps \in Nat
        /\ attempt <= RetryCount[current_step_index]
        /\ Len(completed_steps) \in Nat
    BY Typing
  <2>3. /\ late'[s] = late[s] /\ current_step_index' = current_step_index
        /\ pc' \notin {"pending", "action", "backoff"}
        /\ Len(completed_steps') = current_step_index - 1
    BY <1>1, <1>2
  <2>4. CASE s = current_step_index
    <3>1. applied'[s] = applied[s] + 1 /\ applied[s] + late[s] <= attempt
      BY <1>1, <1>3, <2>1, <2>4
    <3> QED
      BY <2>2, <2>3, <2>4, <3>1
  <2>5. CASE s # current_step_index
    <3>1. applied'[s] = applied[s]
      BY <1>3, <2>5
    <3> QED
      BY <1>1, <2>1, <2>2, <2>3, <2>5, <3>1
  <2> QED
    BY <2>4, <2>5
<1> QED
  BY <1>2, <1>4, <1>5

LEMMA AttemptFailsIInv == IInv /\ AttemptFails => IInv'
<1> SUFFICES ASSUME IInv, AttemptFails PROVE IInv'
  OBVIOUS
<1> USE DEF IInv
<1>1. /\ pc = "action" /\ failed_step = 0
      /\ Len(completed_steps) = current_step_index - 1
      /\ UNCHANGED <<current_step_index, attempt, completed_steps, applied, undone>>
  BY DEF AttemptFails, GiveUp, Fail, LoopInv, Ended
<1>2. /\ late' \in [Steps -> Nat]
      /\ \A s \in Steps :
           late'[s] = late[s] \/ (s = current_step_index /\ late'[s] = late[s] + 1)
  <2>1. late' = late \/ late' = Plus1(late, current_step_index)
    BY DEF AttemptFails
  <2>2. late \in [Steps -> Nat] /\ current_step_index \in Steps
    BY DEF TypeOK
  <2>3. CASE late' = Plus1(late, current_step_index)
    BY <2>2, <2>3 DEF Plus1
  <2>4. CASE late' = late
    BY <2>2, <2>4
  <2> QED
    BY <2>1, <2>3, <2>4
<1>3. CASE MayRetry /\ pc' = "backoff"
            /\ UNCHANGED <<status, current_step_index, attempt, completed_steps,
                           failed_step, unwinding, compensation_errors>>
  <2>1. TypeOK'
    BY <1>1, <1>2, <1>3 DEF TypeOK, Awaiting
  <2>2. LoopInv'
    BY <1>1, <1>3 DEF LoopInv, MayRetry, Ended
  <2>3. BudgetInv'
    <3> SUFFICES ASSUME NEW s \in Steps
                 PROVE  /\ applied'[s] + late'[s] <= RetryCount[s] + 1
                        /\ s > current_step_index' => applied'[s] + late'[s] = 0
                        /\ s = current_step_index' =>
                             /\ pc' \in {"pending", "action"} =>
                                  applied'[s] + late'[s] <= attempt'
                             /\ pc' = "backoff" =>
                                  applied'[s] + late'[s] <= attempt' + 1
                        /\ s <= Len(completed_steps') => applied'[s] > 0
      BY DEF BudgetInv
    <3>1. /\ applied[s] + late[s] <= RetryCount[s] + 1
          /\ s > current_step_index => applied[s] + late[s] = 0
          /\ s = current_step_index /\ pc = "action" => applied[s] + late[s] <= attempt
          /\ s <= Len(completed_steps) => applied[s] > 0
      BY DEF BudgetInv
    <3>2. /\ s \in Nat /\ RetryCount[s] \in Nat /\ applied[s] \in Nat /\ late[s] \in Nat
          /\ attempt \in Nat /\ current_step_index \in Nat /\ NumSteps \in Nat
          /\ attempt <= RetryCount[current_step_index]
          /\ Len(completed_steps) \in Nat
      BY Typing
    <3> QED
      BY <1>1, <1>2, <1>3, <3>1, <3>2
  <2>4. UndoInv' /\ StatusInv'
    BY <1>1, <1>3 DEF UndoInv, StatusInv, TypeOK
  <2> QED
    BY <2>1, <2>2, <2>3, <2>4
<1>4. CASE Fail
  <2>1. /\ LoopInv' /\ UndoInv' /\ StatusInv'
        /\ status' \in Status
        /\ pc' \in {"compensation", "on_failure", "done"}
        /\ failed_step' \in 0..NumSteps
        /\ unwinding' \in 0..Len(completed_steps')
        /\ compensation_errors' \subseteq Steps
    BY <1>1, <1>4, FailIInv
  <2>2. TypeOK'
    BY <1>1, <1>2, <2>1 DEF TypeOK, Awaiting, Ended
  <2>3. BudgetInv'
    <3> SUFFICES ASSUME NEW s \in Steps
                 PROVE  /\ applied'[s] + late'[s] <= RetryCount[s] + 1
                        /\ s > current_step_index' => applied'[s] + late'[s] = 0
                        /\ s = current_step_index' =>
                             /\ pc' \in {"pending", "action"} =>
                                  applied'[s] + late'[s] <= attempt'
                             /\ pc' = "backoff" =>
                                  applied'[s] + late'[s] <= attempt' + 1
                        /\ s <= Len(completed_steps') => applied'[s] > 0
      BY DEF BudgetInv
    <3>1. /\ applied[s] + late[s] <= RetryCount[s] + 1
          /\ s > current_step_index => applied[s] + late[s] = 0
          /\ s = current_step_index /\ pc = "action" => applied[s] + late[s] <= attempt
          /\ s <= Len(completed_steps) => applied[s] > 0
      BY DEF BudgetInv
    <3>2. /\ s \in Nat /\ RetryCount[s] \in Nat /\ applied[s] \in Nat /\ late[s] \in Nat
          /\ attempt \in Nat /\ current_step_index \in Nat /\ NumSteps \in Nat
          /\ attempt <= RetryCount[current_step_index]
          /\ Len(completed_steps) \in Nat
      BY Typing
    <3>3. /\ applied'[s] = applied[s] /\ current_step_index' = current_step_index
          /\ pc' \notin {"pending", "action", "backoff"}
          /\ Len(completed_steps') = Len(completed_steps)
      BY <1>1, <2>1
    <3>4. late'[s] = late[s] \/ (s = current_step_index /\ late'[s] = late[s] + 1)
      BY <1>2
    <3>5. s = current_step_index => applied[s] + late[s] <= attempt
      BY <1>1, <3>1
    <3>6. CASE late'[s] = late[s]
      BY <3>1, <3>2, <3>3, <3>6
    <3>7. CASE s = current_step_index /\ late'[s] = late[s] + 1
      BY <1>1, <3>1, <3>2, <3>3, <3>5, <3>7
    <3> QED
      BY <3>4, <3>6, <3>7
  <2> QED
    BY <2>1, <2>2, <2>3
<1> QED
  BY <1>3, <1>4 DEF AttemptFails, GiveUp

LEMMA BackoffEndsIInv == IInv /\ BackoffEnds => IInv'
<1> SUFFICES ASSUME IInv, BackoffEnds PROVE IInv'
  OBVIOUS
<1> USE DEF IInv, BackoffEnds, effects
<1>1. TypeOK'
  BY Typing DEF TypeOK, LoopInv, MayRetry, NextAttempt, Awaiting
<1>2. LoopInv'
  BY DEF LoopInv, Ended
<1>3. BudgetInv'
  BY DEF BudgetInv, NextAttempt
<1>4. UndoInv' /\ StatusInv'
  BY DEF UndoInv, StatusInv
<1> QED
  BY <1>1, <1>2, <1>3, <1>4

LEMMA OnSuccessIInv == IInv /\ (OnSuccessReturns \/ OnSuccessRaises) => IInv'
<1> USE DEF IInv, effects
<1>1. ASSUME IInv, OnSuccessReturns PROVE IInv'
  <2> USE <1>1 DEF OnSuccessReturns
  <2>1. TypeOK'
    BY DEF TypeOK, Ended
  <2>2. LoopInv'
    BY DEF LoopInv, Ended
  <2>3. BudgetInv'
    BY DEF BudgetInv
  <2>4. UndoInv' /\ StatusInv'
    BY DEF UndoInv, StatusInv, LoopInv, Ended
  <2> QED
    BY <2>1, <2>2, <2>3, <2>4
<1>2. ASSUME IInv, OnSuccessRaises PROVE IInv'
  <2>1. /\ pc = "on_success" /\ failed_step = 0 /\ Fail
        /\ UNCHANGED <<current_step_index, attempt, completed_steps,
                       applied, late, undone>>
    BY <1>2 DEF OnSuccessRaises, Fail, LoopInv, Ended
  <2>2. /\ LoopInv' /\ UndoInv' /\ StatusInv'
        /\ status' \in Status
        /\ pc' \in {"compensation", "on_failure", "done"}
        /\ failed_step' \in 0..NumSteps
        /\ unwinding' \in 0..Len(completed_steps')
        /\ compensation_errors' \subseteq Steps
    BY <1>2, <2>1, FailIInv
  <2>3. TypeOK'
    BY <1>2, <2>1, <2>2 DEF TypeOK, Awaiting, Ended
  <2>4. BudgetInv'
    <3> SUFFICES ASSUME NEW s \in Steps
                 PROVE  /\ applied'[s] + late'[s] <= RetryCount[s] + 1
                        /\ s > current_step_index' => applied'[s] + late'[s] = 0
                        /\ s = current_step_index' =>
                             /\ pc' \in {"pending", "action"} =>
                                  applied'[s] + late'[s] <= attempt'
                             /\ pc' = "backoff" =>
                                  applied'[s] + late'[s] <= attempt' + 1
                        /\ s <= Len(completed_steps') => applied'[s] > 0
      BY DEF BudgetInv
    <3>1. /\ applied[s] + late[s] <= RetryCount[s] + 1
          /\ s > current_step_index => applied[s] + late[s] = 0
          /\ s = current_step_index /\ pc = "action" => applied[s] + late[s] <= attempt
          /\ s <= Len(completed_steps) => applied[s] > 0
      BY <1>2 DEF BudgetInv
    <3>2. /\ s \in Nat /\ RetryCount[s] \in Nat /\ applied[s] \in Nat /\ late[s] \in Nat
          /\ attempt \in Nat /\ current_step_index \in Nat /\ NumSteps \in Nat
          /\ attempt <= RetryCount[current_step_index]
          /\ Len(completed_steps) \in Nat
      BY <1>2, Typing
    <3> QED
      BY <1>2, <2>1, <2>2, <3>1, <3>2
  <2> QED
    BY <2>2, <2>3, <2>4
<1> QED
  BY <1>1, <1>2

-------------------------------------------------------------------------------
(* The compensation loop preserves the invariant *)

(* One turn of the loop: the step at the parked position is undone, or its *)
(* error is noted, or both, and the loop parks further down.               *)
LEMMA CompensatedIInv ==
  ASSUME IInv, pc = "compensation",
         NEW errors \in SUBSET Steps,
         compensation_errors \subseteq errors,
         Unwind(unwinding - 1, errors, status),
         undone' \in [Steps -> Nat],
         \A s \in Steps \ {unwinding} : undone'[s] = undone[s],
         undone'[unwinding] \in {0, 1},
         undone'[unwinding] = 1 \/ unwinding \in errors,
         UNCHANGED <<current_step_index, attempt, completed_steps, failed_step,
                     applied, late>>
  PROVE  IInv'
<1> USE DEF IInv
<1>1. /\ failed_step # 0 /\ unwinding > 0 /\ unwinding \in Compensatable
      /\ TypeOK /\ LoopInv /\ unwinding \in Steps
      /\ unwinding - 1 \in 0..Len(completed_steps)
      /\ unwinding <= Len(completed_steps)
      /\ status \in Status
  <2>1. TypeOK /\ LoopInv
    OBVIOUS
  <2>2. /\ failed_step # 0 /\ unwinding > 0 /\ unwinding \in Compensatable
    BY <2>1 DEF LoopInv
  <2>3. status \in Status /\ unwinding \in 0..Len(completed_steps)
    BY <2>1 DEF TypeOK
  <2>4. Len(completed_steps) \in Nat /\ unwinding \in Nat
    BY <2>1, Typing
  <2>5. unwinding \in Steps
    BY <2>2, SagaAssumption
  <2>6. unwinding - 1 \in 0..Len(completed_steps) /\ unwinding <= Len(completed_steps)
    BY <2>2, <2>3, <2>4
  <2> QED
    BY <2>1, <2>2, <2>3, <2>5, <2>6
<1>2. /\ unwinding' \in 0..(unwinding - 1)
      /\ \A s \in Steps : s > unwinding' /\ s <= unwinding - 1 => s \notin Compensatable
      /\ compensation_errors' = errors
      /\ \/ /\ unwinding' > 0 /\ unwinding' \in Compensatable
            /\ pc' = "compensation" /\ status' = status
         \/ /\ unwinding' = 0
            /\ status' = OutcomeStatus(errors)
            /\ pc' = IF HasOnFailure THEN "on_failure" ELSE "done"
  BY <1>1, UnwindParks
<1>3. /\ pc' \in {"compensation", "on_failure", "done"}
      /\ unwinding' \in Nat /\ unwinding' < unwinding
      /\ unwinding' \in 0..Len(completed_steps)
  BY <1>1, <1>2, Typing
<1>4. TypeOK'
  BY <1>1, <1>2, <1>3 DEF TypeOK, Awaiting, Ended, OutcomeStatus, Status
<1>5. LoopInv'
  BY <1>1, <1>2, <1>3 DEF LoopInv, Ended
<1>6. BudgetInv'
  BY <1>3 DEF BudgetInv
<1>7. UndoInv'
  <2> SUFFICES ASSUME NEW s \in Steps
               PROVE  /\ undone'[s] <= 1
                      /\ undone'[s] > 0 =>
                           /\ s \in Compensatable /\ s <= Len(completed_steps)
                           /\ s > unwinding'
                      /\ s \in Compensatable /\ s > unwinding'
                           /\ s <= Len(completed_steps) => undone'[s] > 0 \/ s \in errors
    BY <1>1, <1>2 DEF UndoInv
  <2>1. s \in Nat /\ unwinding \in Nat /\ undone[s] \in Nat /\ Len(completed_steps) \in Nat
    BY <1>1, Typing
  <2>2. CASE s = unwinding
    BY <1>1, <1>3, <2>1, <2>2
  <2>3. CASE s # unwinding
    <3>1. /\ undone'[s] = undone[s] /\ undone[s] <= 1
          /\ undone[s] > 0 => s \in Compensatable /\ s <= Len(completed_steps)
                               /\ s > unwinding
          /\ s \in Compensatable /\ s > unwinding /\ s <= Len(completed_steps)
               => undone[s] > 0 \/ s \in compensation_errors
      BY <1>1, <2>3 DEF UndoInv
    <3> QED
      BY <1>1, <1>2, <1>3, <2>1, <2>3, <3>1
  <2> QED
    BY <2>2, <2>3
<1>8. StatusInv'
  BY <1>1, <1>2, SagaAssumption DEF StatusInv
<1> QED
  BY <1>4, <1>5, <1>6, <1>7, <1>8

LEMMA CompensationIInv == IInv /\ (CompensationReturns \/ CompensationFails) => IInv'
<1> SUFFICES ASSUME IInv, CompensationReturns \/ CompensationFails PROVE IInv'
  OBVIOUS
<1> USE DEF IInv
<1>1. /\ pc = "compensation" /\ TypeOK
      /\ UNCHANGED <<current_step_index, attempt, completed_steps, failed_step,
                     applied, late>>
  BY DEF CompensationReturns, CompensationFails
<1>2. /\ unwinding \in Steps /\ completed_steps[unwinding] = unwinding
      /\ undone[unwinding] = 0
      /\ undone \in [Steps -> Nat] /\ compensation_errors \in SUBSET Steps
  <2>1. unwinding \in 1..Len(completed_steps) /\ unwinding \in Steps
    BY <1>1, Typing DEF LoopInv, TypeOK, Steps
  <2>2. undone[unwinding] \in Nat /\ unwinding \in Nat
    BY <1>1, <2>1, Typing
  <2> QED
    BY <1>1, <2>1, <2>2 DEF LoopInv, UndoInv, TypeOK
<1>3. CASE CompensationReturns
  <2>1. /\ Unwind(unwinding - 1, compensation_errors, status)
        /\ undone' = [undone EXCEPT ![unwinding] = @ + 1]
    BY <1>2, <1>3 DEF CompensationReturns, Plus1
  <2> QED
    BY <1>1, <1>2, <2>1, CompensatedIInv
<1>4. CASE CompensationFails
  <2>1. /\ Unwind(unwinding - 1, compensation_errors \cup {unwinding}, status)
        /\ \/ undone' = [undone EXCEPT ![unwinding] = @ + 1]
           \/ undone' = undone
    BY <1>2, <1>4 DEF CompensationFails, Plus1, AfterError, ErrorsNoted
  <2>2. compensation_errors \cup {unwinding} \in SUBSET Steps
    BY <1>2
  <2> DEFINE errors == compensation_errors \cup {unwinding}
  <2>3. /\ errors \in SUBSET Steps /\ compensation_errors \subseteq errors
        /\ Unwind(unwinding - 1, errors, status) /\ unwinding \in errors
    BY <2>1, <2>2
  <2>4. /\ undone' \in [Steps -> Nat]
        /\ \A s \in Steps \ {unwinding} : undone'[s] = undone[s]
        /\ undone'[unwinding] \in {0, 1}
    BY <1>2, <2>1
  <2> HIDE DEF errors
  <2> QED
    BY <1>1, <2>3, <2>4, CompensatedIInv
<1> QED
  BY <1>3, <1>4

LEMMA OnFailureEndsIInv == IInv /\ OnFailureEnds => IInv'
<1> SUFFICES ASSUME IInv, OnFailureEnds PROVE IInv'
  OBVIOUS
<1> USE DEF IInv, OnFailureEnds, effects
<1>1. TypeOK'
  BY DEF TypeOK, Ended
<1>2. LoopInv'
  BY DEF LoopInv, Ended
<1>3. BudgetInv'
  BY DEF BudgetInv
<1>4. UndoInv' /\ StatusInv'
  BY DEF UndoInv, StatusInv, LoopInv, Ended
<1> QED
  BY <1>1, <1>2, <1>3, <1>4

-------------------------------------------------------------------------------
(* What comes from outside preserves the invariant *)

LEMMA CancelIInv == IInv /\ Cancel => IInv'
<1> SUFFICES ASSUME IInv, Cancel PROVE IInv'
  OBVIOUS
<1> USE DEF IInv, Cancel, effects
<1>1. TypeOK'
  BY DEF TypeOK, Status
<1>2. LoopInv'
  BY DEF LoopInv, MayRetry
<1>3. BudgetInv'
  BY DEF BudgetInv
<1>4. UndoInv' /\ StatusInv'
  BY DEF UndoInv, StatusInv, Ended
<1> QED
  BY <1>1, <1>2, <1>3, <1>4

LEMMA LoopTeardownIInv == IInv /\ LoopTeardown => IInv'
<1> SUFFICES ASSUME IInv, LoopTeardown PROVE IInv'
  OBVIOUS
<1> USE DEF IInv
<1>1. /\ pc \notin Ended /\ pc' = "aborted"
      /\ UNCHANGED <<status, current_step_index, attempt, completed_steps,
                     failed_step, unwinding, compensation_errors, applied>>
  BY DEF LoopTeardown, effects
<1>2. LoopInv' /\ StatusInv'
  BY <1>1 DEF LoopInv, StatusInv, Ended
<1>3. CASE UNCHANGED effects
  <2>1. TypeOK'
    BY <1>1, <1>3 DEF TypeOK, effects, Ended
  <2>2. BudgetInv'
    BY <1>1, <1>3 DEF BudgetInv, effects
  <2>3. UndoInv'
    BY <1>1, <1>3 DEF UndoInv, effects
  <2> QED
    BY <1>2, <2>1, <2>2, <2>3
<1>4. CASE pc = "action" /\ late' = Plus1(late, current_step_index) /\ undone' = undone
  <2>1. /\ late' \in [Steps -> Nat] /\ current_step_index \in Steps
        /\ \A s \in Steps : late'[s] =
             IF s = current_step_index THEN late[s] + 1 ELSE late[s]
    BY <1>4 DEF Plus1, TypeOK
  <2>2. TypeOK'
    BY <1>1, <1>4, <2>1 DEF TypeOK, Ended
  <2>3. BudgetInv'
    <3> SUFFICES ASSUME NEW s \in Steps
                 PROVE  /\ applied[s] + late'[s] <= RetryCount[s] + 1
                        /\ s > current_step_index => applied[s] + late'[s] = 0
                        /\ s <= Len(completed_steps) => applied[s] > 0
      BY <1>1 DEF BudgetInv
    <3>1. /\ applied[s] + late[s] <= RetryCount[s] + 1
          /\ s > current_step_index => applied[s] + late[s] = 0
          /\ s = current_step_index => applied[s] + late[s] <= attempt
          /\ s <= Len(completed_steps) => applied[s] > 0
      BY <1>4 DEF BudgetInv
    <3>2. /\ s \in Nat /\ RetryCount[s] \in Nat /\ applied[s] \in Nat /\ late[s] \in Nat
          /\ attempt \in Nat /\ current_step_index \in Nat
          /\ attempt <= RetryCount[current_step_index]
      BY Typing
    <3> QED
      BY <2>1, <3>1, <3>2
  <2>4. UndoInv'
    BY <1>1, <1>4 DEF UndoInv
  <2> QED
    BY <1>2, <2>2, <2>3, <2>4
<1>5. CASE pc = "compensation" /\ late' = late
            /\ undone' = Plus1(undone, completed_steps[unwinding])
  <2>1. /\ unwinding \in Steps /\ completed_steps[unwinding] = unwinding
        /\ undone[unwinding] = 0 /\ undone \in [Steps -> Nat]
        /\ unwinding <= Len(completed_steps) /\ unwinding \in Compensatable
        /\ failed_step # 0 /\ unwinding \in Nat
    <3>1. unwinding \in 1..Len(completed_steps) /\ unwinding \in Steps
      BY <1>5, Typing DEF LoopInv, TypeOK, Steps
    <3>2. undone[unwinding] \in Nat /\ unwinding \in Nat
      BY <3>1, Typing
    <3> QED
      BY <1>5, <3>1, <3>2 DEF LoopInv, UndoInv, TypeOK
  <2>2. /\ undone' \in [Steps -> Nat] /\ undone'[unwinding] = 1
        /\ \A s \in Steps \ {unwinding} : undone'[s] = undone[s]
    BY <1>5, <2>1 DEF Plus1
  <2>3. TypeOK'
    BY <1>1, <1>5, <2>2 DEF TypeOK, Ended
  <2>4. BudgetInv'
    BY <1>1, <1>5 DEF BudgetInv
  <2>5. UndoInv'
    <3> SUFFICES ASSUME NEW s \in Steps
                 PROVE  /\ undone'[s] <= 1
                        /\ undone'[s] > 0 =>
                             /\ s \in Compensatable /\ s <= Len(completed_steps)
                             /\ s > unwinding \/ s = unwinding
                        /\ s \in Compensatable /\ s > unwinding
                             /\ s <= Len(completed_steps) =>
                                 undone'[s] > 0 \/ s \in compensation_errors
      BY <1>1, <2>1 DEF UndoInv
    <3>1. CASE s = unwinding
      BY <2>1, <2>2, <3>1
    <3>2. CASE s # unwinding
      BY <1>5, <2>1, <2>2, <3>2 DEF UndoInv
    <3> QED
      BY <3>1, <3>2
  <2> QED
    BY <1>2, <2>3, <2>4, <2>5
<1> QED
  BY <1>3, <1>4, <1>5 DEF LoopTeardown

LEMMA LateEffectIInv ==
  ASSUME IInv, NEW t \in Steps, LateEffect(t)
  PROVE  IInv'
<1> USE DEF IInv
<1>1. /\ UNCHANGED <<status, pc, current_step_index, attempt, completed_steps,
                     failed_step, unwinding, compensation_errors, undone>>
      /\ late[t] > 0
      /\ late' = [late EXCEPT ![t] = late[t] - 1]
      /\ applied' = [applied EXCEPT ![t] = applied[t] + 1]
  BY DEF LateEffect, control, Plus1
<1>2. /\ late' \in [Steps -> Nat] /\ applied' \in [Steps -> Nat]
      /\ \A s \in Steps : /\ applied'[s] + late'[s] = applied[s] + late[s]
                          /\ applied'[s] >= applied[s]
  <2>1. late \in [Steps -> Nat] /\ applied \in [Steps -> Nat]
    BY DEF TypeOK
  <2> QED
    BY <1>1, <2>1
<1>3. TypeOK'
  BY <1>1, <1>2 DEF TypeOK
<1>4. LoopInv'
  BY <1>1 DEF LoopInv, MayRetry
<1>5. BudgetInv'
  <2> SUFFICES ASSUME NEW s \in Steps
               PROVE  /\ applied'[s] + late'[s] = applied[s] + late[s]
                      /\ s <= Len(completed_steps) => applied'[s] > 0
    BY <1>1 DEF BudgetInv
  <2>1. applied[s] \in Nat /\ applied'[s] \in Nat
    BY <1>2, Typing
  <2>2. s <= Len(completed_steps) => applied[s] > 0
    BY DEF BudgetInv
  <2> QED
    BY <1>2, <2>1, <2>2
<1>6. UndoInv' /\ StatusInv'
  BY <1>1 DEF UndoInv, StatusInv
<1> QED
  BY <1>3, <1>4, <1>5, <1>6

(* One step of the saga or of its surroundings. *)
LEMMA NextIInv == IInv /\ [Next]_vars => IInv'
<1> SUFFICES ASSUME IInv, [Next]_vars PROVE IInv'
  OBVIOUS
<1>1. CASE Progress
  BY <1>1, RunIInv, AttemptReturnsIInv, ResultRejectedIInv, AttemptFailsIInv,
     BackoffEndsIInv, CompensationIInv DEF Progress
<1>2. CASE OnSuccessReturns \/ OnSuccessRaises \/ OnFailureEnds
  BY <1>2, OnSuccessIInv, OnFailureEndsIInv
<1>3. CASE Cancel \/ LoopTeardown
  BY <1>3, CancelIInv, LoopTeardownIInv
<1>4. CASE \E s \in Steps : LateEffect(s)
  BY <1>4, LateEffectIInv
<1>5. CASE UNCHANGED vars
  <2> USE <1>5 DEF IInv, vars, control, effects
  <2>1. TypeOK'
    BY DEF TypeOK
  <2>2. LoopInv'
    BY DEF LoopInv, MayRetry
  <2>3. BudgetInv' /\ UndoInv' /\ StatusInv'
    BY DEF BudgetInv, UndoInv, StatusInv
  <2> QED
    BY <2>1, <2>2, <2>3
<1> QED
  BY <1>1, <1>2, <1>3, <1>4, <1>5 DEF Next, Terminated

(* The invariant holds in every reachable state of every saga. *)
THEOREM Invariance == Spec => []IInv
<1>1. Init => IInv
  BY InitIInv
<1>2. IInv /\ [Next]_vars => IInv'
  BY NextIInv
<1> QED
  BY <1>1, <1>2, PTL DEF Spec

-------------------------------------------------------------------------------
(* The guarantees *)

(* The completed steps are always the first Len(completed_steps) ones. *)
LEMMA CompletedPrefix == IInv => CompletedSet = 1..Len(completed_steps)
<1> SUFFICES ASSUME IInv PROVE CompletedSet = 1..Len(completed_steps)
  OBVIOUS
<1>1. DOMAIN completed_steps = 1..Len(completed_steps)
  BY DEF IInv, TypeOK
<1>2. \A i \in 1..Len(completed_steps) : completed_steps[i] = i
  BY DEF IInv, LoopInv
<1> QED
  BY <1>1, <1>2 DEF CompletedSet

(* Every variable of execute(), _compensate() and the participants keeps   *)
(* its type; the attempt never exceeds the step's retry_count.             *)
THEOREM TypeCorrect == Spec => []TypeOK
<1>1. IInv => TypeOK
  BY DEF IInv
<1> QED
  BY <1>1, Invariance, PTL

(* Within the attempt budget, late arrivals included, and in step order.   *)
THEOREM AttemptsBounded == Spec => []AttemptBudget
<1>1. IInv => AttemptBudget
  <2> SUFFICES ASSUME IInv, NEW s \in Steps
               PROVE  /\ applied[s] + late[s] <= RetryCount[s] + 1
                      /\ applied[s] + late[s] > 0 =>
                           \A t \in 1..(s - 1) : t \in CompletedSet
    BY DEF AttemptBudget
  <2>1. /\ applied[s] + late[s] <= RetryCount[s] + 1
        /\ s > current_step_index => applied[s] + late[s] = 0
    BY DEF IInv, BudgetInv
  <2>2. Len(completed_steps) \in {current_step_index - 1, current_step_index}
    BY DEF IInv, LoopInv
  <2>3. /\ s \in Nat /\ current_step_index \in Nat /\ Len(completed_steps) \in Nat
        /\ applied[s] \in Nat /\ late[s] \in Nat
    BY Typing DEF IInv
  <2> QED
    BY <2>1, <2>2, <2>3, CompletedPrefix
<1> QED
  BY <1>1, Invariance, PTL

(* No compensation takes effect twice, before a failure, or for a step that*)
(* did not complete.                                                       *)
THEOREM CompensatedOnce == Spec => []UndoneOnce
<1>1. IInv => UndoneOnce
  <2> SUFFICES ASSUME IInv, NEW s \in Steps, undone[s] > 0
               PROVE  undone[s] = 1 /\ failed_step # 0 /\ s \in ToUndo
    BY DEF UndoneOnce
  <2>1. /\ undone[s] <= 1 /\ failed_step # 0 /\ s \in Compensatable
        /\ s <= Len(completed_steps)
    BY DEF IInv, UndoInv
  <2>2. undone[s] \in Nat /\ s \in Nat /\ s >= 1 /\ Len(completed_steps) \in Nat
    BY Typing DEF IInv
  <2> QED
    BY <2>1, <2>2, CompletedPrefix DEF ToUndo
<1> QED
  BY <1>1, Invariance, PTL

(* Compensation order: no step is undone over a later one that stands and  *)
(* has not been tried.                                                     *)
THEOREM CompensatedInReverse == Spec => []UndoneInReverse
<1>1. IInv => UndoneInReverse
  <2> SUFFICES ASSUME IInv, NEW s \in Steps, undone[s] > 0, NEW t \in ToUndo, t > s
               PROVE  undone[t] > 0 \/ t \in compensation_errors
    BY DEF UndoneInReverse
  <2>1. failed_step # 0 /\ s >= unwinding
    BY Typing DEF IInv, UndoInv
  <2>2. /\ t \in Steps /\ t \in Compensatable /\ t <= Len(completed_steps)
        /\ t \in Nat /\ s \in Nat /\ unwinding \in Nat
    BY CompletedPrefix, Typing, SagaAssumption DEF ToUndo, IInv
  <2> QED
    BY <2>1, <2>2 DEF IInv, UndoInv
<1> QED
  BY <1>1, Invariance, PTL

LEMMA AllUnwound == IInv => FailureUnwindsAll
<1> SUFFICES ASSUME IInv, failed_step # 0, pc \in {"on_failure", "done"},
                    NEW s \in ToUndo
             PROVE  undone[s] > 0 \/ s \in compensation_errors
  BY DEF FailureUnwindsAll
<1>1. unwinding = 0
  BY DEF IInv, LoopInv
<1>2. s \in Steps /\ s \in Compensatable /\ s <= Len(completed_steps) /\ s > 0
  BY CompletedPrefix, Typing, SagaAssumption DEF ToUndo, IInv
<1> QED
  BY <1>1, <1>2 DEF IInv, UndoInv

(* A failed saga that has left its compensation loop has handled every     *)
(* completed step that has a compensation, whatever was cancelled meanwhile*)
THEOREM UnwindsCompletely == Spec => []FailureUnwindsAll
BY AllUnwound, Invariance, PTL

(* The label a saga ends with is what the participants have seen. *)
THEOREM OutcomeIsTruthful == Spec => []TruthfulOutcome
<1>1. IInv => TruthfulOutcome
  <2> SUFFICES ASSUME IInv, pc = "done" PROVE TruthfulOutcome
    BY DEF TruthfulOutcome
  <2> USE DEF OutcomeStatus
  <2>1. \/ failed_step = 0 /\ status = "completed"
        \/ failed_step # 0 /\ status = OutcomeStatus(compensation_errors)
        \/ failed_step = 0 /\ status = "cancelled" /\ HasOnSuccess
        \/ failed_step # 0 /\ status = "cancelled" /\ HasOnFailure
    BY DEF IInv, StatusInv
  <2>2. ASSUME status = "completed"
        PROVE  CompletedSet = Steps /\ \A s \in Steps : applied[s] > 0 /\ undone[s] = 0
    <3>1. failed_step = 0
      BY <2>1, <2>2
    <3>2. Len(completed_steps) = NumSteps
      BY <3>1 DEF IInv, LoopInv
    <3>3. ASSUME NEW s \in Steps PROVE applied[s] > 0 /\ undone[s] = 0
      <4>1. s <= Len(completed_steps) /\ undone[s] \in Nat
        BY <3>2, Typing DEF IInv
      <4> QED
        BY <3>1, <4>1 DEF IInv, BudgetInv, UndoInv
    <3> QED
      BY <3>2, <3>3, CompletedPrefix DEF Steps
  <2>3. ASSUME status = "compensated"
        PROVE  failed_step # 0 /\ \A s \in ToUndo : undone[s] > 0
    <3>1. failed_step # 0 /\ compensation_errors = {}
      BY <2>1, <2>3
    <3>2. FailureUnwindsAll
      BY AllUnwound
    <3> QED
      BY <3>1, <3>2 DEF FailureUnwindsAll
  <2> QED
    BY <2>1, <2>2, <2>3 DEF TruthfulOutcome
<1> QED
  BY <1>1, Invariance, PTL

-------------------------------------------------------------------------------
(* Of a step whose answers can be believed nothing is under way but what   *)
(* the saga knows of: it took effect once if it completed, else not at all.*)
CleanInv ==
  \A s \in Steps : Believable(s) =>
    /\ late[s] = 0
    /\ s <= Len(completed_steps) => applied[s] = 1
    /\ s > Len(completed_steps) => applied[s] = 0

LEMMA NextCleanInv ==
  ASSUME IInv, CleanInv, [Next]_vars
  PROVE  CleanInv'
<1> USE DEF IInv, Plus1
<1>1. /\ Len(completed_steps) \in Nat /\ completed_steps \in Seq(Steps)
      /\ applied \in [Steps -> Nat] /\ late \in [Steps -> Nat]
      /\ current_step_index \in Steps
      /\ \A s \in Steps : s \in Nat
  BY Typing DEF TypeOK
<1>2. CASE UNCHANGED <<completed_steps, applied, late>>
  BY <1>2 DEF CleanInv
<1>3. CASE AttemptReturns
  <2>1. /\ completed_steps' = Append(completed_steps, current_step_index)
        /\ late' = late
        /\ applied' = [applied EXCEPT ![current_step_index] = @ + 1]
    BY <1>3 DEF AttemptReturns
  <2>2. Len(completed_steps) = current_step_index - 1
    BY <1>3 DEF AttemptReturns, LoopInv, Ended
  <2>3. Len(completed_steps') = current_step_index
    BY <1>1, <2>1, <2>2
  <2>4. ASSUME NEW s \in Steps, Believable(s)
        PROVE  /\ s <= Len(completed_steps') => applied'[s] = 1
               /\ s > Len(completed_steps') => applied'[s] = 0
    <3>1. CASE s = current_step_index
      <4>1. s > Len(completed_steps) /\ applied[s] = 0
        BY <1>1, <2>2, <2>4, <3>1 DEF CleanInv
      <4>2. applied'[s] = 1
        BY <1>1, <2>1, <3>1, <4>1
      <4> QED
        BY <1>1, <2>3, <3>1, <4>2
    <3>2. CASE s # current_step_index
      <4>1. applied'[s] = applied[s]
        BY <1>1, <2>1, <3>2
      <4>2. /\ s <= Len(completed_steps') => s <= Len(completed_steps)
            /\ s > Len(completed_steps') => s > Len(completed_steps)
        BY <1>1, <2>2, <2>3, <3>2
      <4> QED
        BY <2>4, <4>1, <4>2 DEF CleanInv
    <3> QED
      BY <3>1, <3>2
  <2> QED
    BY <2>1, <2>4 DEF CleanInv
<1>4. CASE ResultRejected
  <2>1. /\ UNCHANGED <<completed_steps, late>>
        /\ applied' = [applied EXCEPT ![current_step_index] = @ + 1]
        /\ "reject" \in ActionOutcomes[current_step_index]
    BY <1>4 DEF ResultRejected, Fail
  <2>2. ~Believable(current_step_index)
    BY <2>1 DEF Believable
  <2> QED
    BY <1>1, <2>1, <2>2 DEF CleanInv
<1>5. CASE AttemptFails
  <2>1. /\ UNCHANGED <<completed_steps, applied>>
        /\ \/ late' = late
           \/ /\ "lost" \in ActionOutcomes[current_step_index]
              /\ late' = [late EXCEPT ![current_step_index] = @ + 1]
    BY <1>5 DEF AttemptFails, GiveUp, Fail
  <2>2. "lost" \in ActionOutcomes[current_step_index] => ~Believable(current_step_index)
    BY DEF Believable
  <2> QED
    BY <1>1, <2>1, <2>2 DEF CleanInv
<1>6. CASE LoopTeardown
  <2>1. /\ UNCHANGED <<completed_steps, applied>>
        /\ \/ late' = late
           \/ /\ "lost" \in ActionOutcomes[current_step_index]
              /\ late' = [late EXCEPT ![current_step_index] = @ + 1]
    BY <1>6 DEF LoopTeardown, effects
  <2>2. "lost" \in ActionOutcomes[current_step_index] => ~Believable(current_step_index)
    BY DEF Believable
  <2> QED
    BY <1>1, <2>1, <2>2 DEF CleanInv
<1>7. ASSUME NEW s \in Steps, LateEffect(s) PROVE CleanInv'
  <2>1. /\ completed_steps' = completed_steps /\ late[s] > 0
        /\ late' = [late EXCEPT ![s] = @ - 1]
        /\ applied' = [applied EXCEPT ![s] = @ + 1]
    BY <1>7 DEF LateEffect, control
  <2>2. ~Believable(s)
    BY <1>1, <2>1 DEF CleanInv
  <2> QED
    BY <1>1, <2>1, <2>2 DEF CleanInv
<1>8. CASE \/ Run \/ BackoffEnds \/ OnSuccessReturns \/ OnSuccessRaises
           \/ CompensationReturns \/ CompensationFails \/ OnFailureEnds \/ Cancel
           \/ UNCHANGED vars
  <2>1. UNCHANGED <<completed_steps, applied, late>>
    BY <1>8
    DEF vars, control, effects, Run, BackoffEnds, OnSuccessReturns, OnSuccessRaises, Fail,
        CompensationReturns, CompensationFails, OnFailureEnds, Cancel
  <2> QED
    BY <2>1, <1>2
<1> QED
  BY <1>3, <1>4, <1>5, <1>6, <1>7, <1>8 DEF Next, Progress, Terminated

(* README, "partial failures unwind cleanly": after a COMPENSATED saga no  *)
(* effect is left of a compensatable step whose answers can be believed.   *)
THEOREM NothingLeft == Spec => []UnwindsCleanly
<1>1. ASSUME Init PROVE CleanInv
  BY <1>1, SagaAssumption DEF Init, CleanInv, Steps
<1>2. ASSUME IInv, CleanInv PROVE UnwindsCleanly
  <2> SUFFICES ASSUME pc = "done", status = "compensated",
                      NEW s \in Compensatable, Believable(s)
               PROVE  applied[s] = undone[s]
    BY DEF UnwindsCleanly
  <2>1. s \in Steps /\ s \in Nat /\ Len(completed_steps) \in Nat /\ undone[s] \in Nat /\ s > 0
    BY <1>2, Typing, SagaAssumption DEF IInv
  <2>2. failed_step # 0 /\ compensation_errors = {} /\ unwinding = 0
    BY <1>2 DEF IInv, StatusInv, LoopInv, OutcomeStatus
  <2>3. CASE s <= Len(completed_steps)
    <3>1. undone[s] = 1
      BY <1>2, <2>1, <2>2, <2>3 DEF IInv, UndoInv
    <3> QED
      BY <1>2, <2>1, <2>3, <3>1 DEF CleanInv
  <2>4. CASE s > Len(completed_steps)
    <3>1. undone[s] = 0
      BY <1>2, <2>1, <2>4 DEF IInv, UndoInv
    <3> QED
      BY <1>2, <2>1, <2>4, <3>1 DEF CleanInv
  <2> QED
    BY <2>1, <2>3, <2>4
<1>3. IInv /\ CleanInv /\ [Next]_vars => CleanInv'
  BY NextCleanInv
<1> QED
  BY <1>1, <1>2, <1>3, Invariance, PTL DEF Spec
===============================================================================
