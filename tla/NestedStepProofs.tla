--------------------------- MODULE NestedStepProofs ---------------------------
(***************************************************************************)
(* Proofs, for any number of substeps, retries and compensations, of the   *)
(* safety properties of NestedStep.                                        *)
(***************************************************************************)
EXTENDS NestedStep, TLAPS

(* Where the substeps stand at each stage of the step that executes them. *)
StageInv ==
  /\ NoOrphans
  /\ pc = "backoff" => attempt < OuterRetry
  /\ pc \in {"running", "completed", "undoing", "compensated", "compensation_failed"} =>
       started \in Choices
  /\ pc = "running" => \A s \in Subs :
       /\ sub[s] \in {"idle", "acting", "waiting", "ok", "error"}
       /\ s \in started <=> sub[s] # "idle"
       /\ sub[s] = "waiting" => subtry[s] < SubRetry[s]
  /\ pc = "undoing" => \A s \in Subs :
       IF s \in Undoable THEN sub[s] \in {"undoing", "ok", "error"} ELSE sub[s] = "idle"

(* The requests that the current attempt may have made for a substep. *)
Requests(s) ==
  IF pc = "starting" \/ (pc = "running" /\ sub[s] = "idle") THEN 0
  ELSE IF pc # "running" THEN SubRetry[s] + 1
  ELSE IF sub[s] = "acting" THEN subtry[s]
  ELSE subtry[s] + 1

BudgetInv ==
  \A s \in Subs : applied[s] + late[s] <= attempt * (SubRetry[s] + 1) + Requests(s)

EffectInv ==
  /\ pc = "running" => \A s \in started : sub[s] = "ok" => applied[s] > 0
  /\ pc \in {"completed", "undoing", "compensated", "compensation_failed"} =>
       \A s \in started : applied[s] > 0

UndoInv ==
  /\ pc \notin {"undoing", "compensated", "compensation_failed"} => undone = Zero
  /\ \A s \in Subs : undone[s] <= 1
  /\ \A s \in Subs : undone[s] > 0 => s \in Undoable
  /\ pc = "undoing" => \A s \in Undoable :
       /\ sub[s] = "undoing" => undone[s] = 0
       /\ sub[s] = "ok" => undone[s] = 1
  /\ pc = "compensated" /\ kind = "conditional" => \A s \in Undoable : undone[s] = 1

IInv == NestedTypeOK /\ StageInv /\ BudgetInv /\ EffectInv /\ UndoInv

-------------------------------------------------------------------------------
(* One more attempt allows for one more round of requests. *)
LEMMA OneMoreRound ==
  ASSUME NEW a \in Nat, NEW k \in Nat
  PROVE  /\ a * k \in Nat
         /\ (a + 1) * k = a * k + k
OBVIOUS

(* The numbers of the model are numbers. *)
LEMMA Numbers ==
  ASSUME NestedTypeOK, NEW s \in Subs
  PROVE  /\ applied[s] \in Nat /\ late[s] \in Nat /\ undone[s] \in Nat
         /\ subtry[s] \in Nat /\ SubRetry[s] \in Nat /\ subtry[s] <= SubRetry[s]
         /\ attempt \in Nat /\ OuterRetry \in Nat /\ attempt <= OuterRetry
         /\ attempt * (SubRetry[s] + 1) \in Nat
<1>1. attempt \in Nat /\ SubRetry[s] \in Nat /\ OuterRetry \in Nat /\ attempt <= OuterRetry
  BY NestedAssumption DEF NestedTypeOK
<1>2. attempt * (SubRetry[s] + 1) \in Nat
  BY <1>1, OneMoreRound
<1> QED
  BY <1>1, <1>2 DEF NestedTypeOK

(* No attempt of the nested step makes more requests than its substep's    *)
(* retries allow.                                                          *)
LEMMA RequestsBounded ==
  ASSUME NestedTypeOK, NEW s \in Subs
  PROVE  Requests(s) \in Nat /\ Requests(s) <= SubRetry[s] + 1
BY Numbers DEF Requests

(* The initial state satisfies the invariant. *)
LEMMA InitIInv == Init => IInv
<1> SUFFICES ASSUME Init PROVE IInv
  OBVIOUS
<1> USE NestedAssumption DEF Init, Zero
<1>1. NestedTypeOK
  BY DEF NestedTypeOK, Pc, SubStates
<1>2. StageInv
  BY DEF StageInv, NoOrphans, Busy
<1>3. BudgetInv
  <2> SUFFICES ASSUME NEW s \in Subs
               PROVE  applied[s] + late[s] <= attempt * (SubRetry[s] + 1) + Requests(s)
    BY DEF BudgetInv
  <2>1. attempt * (SubRetry[s] + 1) \in Nat /\ Requests(s) = 0
    BY <1>1, Numbers DEF Requests
  <2> QED
    BY <2>1
<1>4. EffectInv /\ UndoInv
  BY DEF EffectInv, UndoInv
<1> QED
  BY <1>1, <1>2, <1>3, <1>4 DEF IInv

-------------------------------------------------------------------------------
(* The nested step's own execute() *)

(* An attempt starts with no request of its own.                            *)
LEMMA StartIInv == IInv /\ Start => IInv'
<1> SUFFICES ASSUME IInv, Start PROVE IInv'
  OBVIOUS
<1> USE NestedAssumption DEF Start, effects
<1>0. started' \subseteq Subs
  BY DEF Choices
<1>1. NestedTypeOK'
  BY <1>0 DEF IInv, NestedTypeOK, Pc, SubStates, Zero
<1>2. StageInv'
  BY <1>0 DEF IInv, StageInv, NoOrphans, Busy, Choices
<1>3. BudgetInv'
  <2> SUFFICES ASSUME NEW s \in Subs
               PROVE  applied[s] + late[s] <= attempt * (SubRetry[s] + 1) + Requests(s)'
    BY DEF BudgetInv
  <2>1. applied[s] + late[s] <= attempt * (SubRetry[s] + 1) + Requests(s)
    BY DEF IInv, BudgetInv
  <2>2. Requests(s) = 0 /\ Requests(s)' = 0
    BY DEF Requests, Zero
  <2> QED
    BY <2>1, <2>2
<1>4. EffectInv' /\ UndoInv'
  BY <1>0 DEF IInv, EffectInv, UndoInv, Undoable, Zero
<1> QED
  BY <1>1, <1>2, <1>3, <1>4 DEF IInv

(* A condition that raises leaves the substeps as they were.                *)
LEMMA ConditionRaisesIInv == IInv /\ ConditionRaises => IInv'
<1> SUFFICES ASSUME IInv, ConditionRaises PROVE IInv'
  OBVIOUS
<1> USE NestedAssumption DEF ConditionRaises, RetryOrFail, effects
<1>1. NestedTypeOK'
  BY DEF IInv, NestedTypeOK, Pc, SubStates
<1>2. StageInv'
  BY DEF IInv, StageInv, NoOrphans, Busy, Choices
<1>3. BudgetInv'
  <2> SUFFICES ASSUME NEW s \in Subs
               PROVE  (applied[s] + late[s])' <= attempt' * (SubRetry[s] + 1) + Requests(s)'
    BY DEF BudgetInv
  <2>1. applied[s] + late[s] <= attempt * (SubRetry[s] + 1) + Requests(s)
    BY DEF IInv, BudgetInv
  <2>2. /\ applied[s] \in Nat /\ late[s] \in Nat /\ subtry[s] \in Nat /\ SubRetry[s] \in Nat
        /\ subtry[s] <= SubRetry[s] /\ attempt * (SubRetry[s] + 1) \in Nat
    BY Numbers DEF IInv
  <2>3. Requests(s) = 0 /\ Requests(s)' = SubRetry[s] + 1
    BY DEF Requests
  <2> QED
    BY <2>1, <2>2, <2>3
<1>4. EffectInv'
  BY DEF IInv, EffectInv
<1>5. UndoInv'
  BY DEF IInv, UndoInv, Undoable
<1> QED
  BY <1>1, <1>2, <1>3, <1>4, <1>5 DEF IInv

(* An attempt ends when all that it started has ended.                      *)
LEMMA GatheredIInv == IInv /\ Gathered => IInv'
<1> SUFFICES ASSUME IInv, Gathered PROVE IInv'
  OBVIOUS
<1> USE NestedAssumption DEF Gathered, RetryOrFail, effects
<1>1. NestedTypeOK'
  BY DEF IInv, NestedTypeOK, Pc, SubStates
<1>2. StageInv'
  BY DEF IInv, StageInv, NoOrphans, Busy, Choices
<1>3. BudgetInv'
  <2> SUFFICES ASSUME NEW s \in Subs
               PROVE  (applied[s] + late[s])' <= attempt' * (SubRetry[s] + 1) + Requests(s)'
    BY DEF BudgetInv
  <2>1. applied[s] + late[s] <= attempt * (SubRetry[s] + 1) + Requests(s)
    BY DEF IInv, BudgetInv
  <2>2. /\ applied[s] \in Nat /\ late[s] \in Nat /\ subtry[s] \in Nat /\ SubRetry[s] \in Nat
        /\ subtry[s] <= SubRetry[s] /\ attempt * (SubRetry[s] + 1) \in Nat
    BY Numbers DEF IInv
  <2>3. Requests(s) <= SubRetry[s] + 1 /\ Requests(s) \in Nat /\ Requests(s)' = SubRetry[s] + 1
    BY RequestsBounded DEF Requests, IInv
  <2> QED
    BY <2>1, <2>2, <2>3
<1>4. EffectInv'
  BY DEF IInv, EffectInv, AllReturned
<1>5. UndoInv'
  BY DEF IInv, UndoInv, Undoable
<1> QED
  BY <1>1, <1>2, <1>3, <1>4, <1>5 DEF IInv

(* The timeout cancels what is not done; requests in flight count as made.  *)
LEMMA TimesOutIInv == IInv /\ TimesOut => IInv'
<1> SUFFICES ASSUME IInv, TimesOut PROVE IInv'
  OBVIOUS
<1> USE NestedAssumption DEF TimesOut, RetryOrFail
<1>1. NestedTypeOK'
  <2>1. sub' \in [Subs -> SubStates]
    BY DEF IInv, NestedTypeOK, SubStates, Cancelled
  <2>2. late' \in [Subs -> Nat]
    BY DEF IInv, NestedTypeOK
  <2> QED
    BY <2>1, <2>2 DEF IInv, NestedTypeOK, Pc
<1>2. StageInv'
  BY DEF IInv, StageInv, NoOrphans, Busy, Choices, Cancelled
<1>3. BudgetInv'
  <2> SUFFICES ASSUME NEW s \in Subs
               PROVE  (applied[s] + late[s])' <= attempt' * (SubRetry[s] + 1) + Requests(s)'
    BY DEF BudgetInv
  <2>1. applied[s] + late[s] <= attempt * (SubRetry[s] + 1) + Requests(s)
    BY DEF IInv, BudgetInv
  <2>2. /\ applied[s] \in Nat /\ late[s] \in Nat /\ subtry[s] \in Nat /\ SubRetry[s] \in Nat
        /\ subtry[s] <= SubRetry[s] /\ attempt * (SubRetry[s] + 1) \in Nat
    BY Numbers DEF IInv
  <2>3. Requests(s) <= SubRetry[s] + 1 /\ Requests(s) \in Nat /\ Requests(s)' = SubRetry[s] + 1
    BY RequestsBounded DEF Requests, IInv
  <2>4. \/ late'[s] = late[s]
        \/ late'[s] = late[s] + 1 /\ sub[s] = "acting" /\ Requests(s) = subtry[s]
    BY DEF Requests
  <2> QED
    BY <2>1, <2>2, <2>3, <2>4
<1>4. EffectInv'
  BY DEF IInv, EffectInv
<1>5. UndoInv'
  BY DEF IInv, UndoInv, Undoable
<1> QED
  BY <1>1, <1>2, <1>3, <1>4, <1>5 DEF IInv

(* The next attempt has a budget of its own.                                *)
LEMMA BackoffEndsIInv == IInv /\ BackoffEnds => IInv'
<1> SUFFICES ASSUME IInv, BackoffEnds PROVE IInv'
  OBVIOUS
<1> USE NestedAssumption DEF BackoffEnds, NextAttempt, effects
<1>1. NestedTypeOK'
  BY DEF IInv, NestedTypeOK, Pc, SubStates, StageInv
<1>2. StageInv'
  BY DEF IInv, StageInv, NoOrphans, Busy, Choices
<1>3. BudgetInv'
  <2> SUFFICES ASSUME NEW s \in Subs
               PROVE  (applied[s] + late[s])' <= attempt' * (SubRetry[s] + 1) + Requests(s)'
    BY DEF BudgetInv
  <2>1. applied[s] + late[s] <= attempt * (SubRetry[s] + 1) + Requests(s)
    BY DEF IInv, BudgetInv
  <2>2. /\ applied[s] \in Nat /\ late[s] \in Nat /\ subtry[s] \in Nat /\ SubRetry[s] \in Nat
        /\ subtry[s] <= SubRetry[s] /\ attempt * (SubRetry[s] + 1) \in Nat
    BY Numbers DEF IInv
  <2>3. Requests(s) = SubRetry[s] + 1 /\ Requests(s)' = 0
    BY DEF Requests
  <2>4. (attempt + 1) * (SubRetry[s] + 1) = attempt * (SubRetry[s] + 1) + (SubRetry[s] + 1)
    BY <2>2, OneMoreRound DEF IInv, NestedTypeOK
  <2> QED
    BY <2>1, <2>2, <2>3, <2>4
<1>4. EffectInv'
  BY DEF IInv, EffectInv
<1>5. UndoInv'
  BY DEF IInv, UndoInv, Undoable
<1> QED
  BY <1>1, <1>2, <1>3, <1>4, <1>5 DEF IInv

-------------------------------------------------------------------------------
(* The substeps' execute() *)

(* A substep acts and waits only while the nested step runs, and is undone *)
(* only while it is compensated.                                           *)
LEMMA BusyWhenRunning ==
  ASSUME IInv, NEW s \in Subs
  PROVE  /\ sub[s] \in {"acting", "waiting"} => pc = "running" /\ s \in started
         /\ sub[s] = "undoing" => pc = "undoing" /\ s \in Undoable
BY DEF IInv, StageInv, NoOrphans, Busy

(* A substep's success keeps the invariant: the request it made is counted. *)
LEMMA SubReturnsIInv == \A s \in Subs : IInv /\ SubReturns(s) => IInv'
<1> SUFFICES ASSUME NEW s \in Subs, IInv, SubReturns(s) PROVE IInv'
  OBVIOUS
<1> USE NestedAssumption DEF SubReturns, Plus1
<1>0. pc = "running" /\ s \in started
  BY BusyWhenRunning
<1>1. NestedTypeOK'
  BY DEF IInv, NestedTypeOK, Pc, SubStates
<1>2. StageInv'
  BY <1>0 DEF IInv, StageInv, NoOrphans, Busy, Choices
<1>3. BudgetInv'
  <2> SUFFICES ASSUME NEW t \in Subs
               PROVE  (applied[t] + late[t])' <= attempt' * (SubRetry[t] + 1) + Requests(t)'
    BY DEF BudgetInv
  <2>1. applied[t] + late[t] <= attempt * (SubRetry[t] + 1) + Requests(t)
    BY DEF IInv, BudgetInv
  <2>2. /\ applied[t] \in Nat /\ late[t] \in Nat /\ subtry[t] \in Nat /\ SubRetry[t] \in Nat
        /\ subtry[t] <= SubRetry[t] /\ attempt * (SubRetry[t] + 1) \in Nat
    BY Numbers DEF IInv
  <2>3. t = s => applied'[t] = applied[t] + 1 /\ Requests(t) = subtry[t] /\ Requests(t)' = subtry[t] + 1
    BY <1>0 DEF Requests, IInv, NestedTypeOK
  <2>4. t # s => applied'[t] = applied[t] /\ Requests(t)' = Requests(t)
    BY DEF Requests, IInv, NestedTypeOK
  <2>5. Requests(t) \in Nat
    BY RequestsBounded DEF IInv
  <2> QED
    BY <2>1, <2>2, <2>3, <2>4, <2>5
<1>4. EffectInv'
  BY <1>0 DEF IInv, EffectInv, NestedTypeOK
<1>5. UndoInv'
  BY <1>0 DEF IInv, UndoInv, Undoable
<1> QED
  BY <1>1, <1>2, <1>3, <1>4, <1>5 DEF IInv

(* So does its failure, with or without an effect on its way.               *)
LEMMA SubFailsIInv == \A s \in Subs : IInv /\ SubFails(s) => IInv'
<1> SUFFICES ASSUME NEW s \in Subs, IInv, SubFails(s) PROVE IInv'
  OBVIOUS
<1> USE NestedAssumption DEF SubFails, SubMayRetry, Plus1
<1>0. pc = "running" /\ s \in started
  BY BusyWhenRunning
<1>1. NestedTypeOK'
  BY DEF IInv, NestedTypeOK, Pc, SubStates
<1>2. StageInv'
  BY <1>0 DEF IInv, StageInv, NoOrphans, Busy, Choices
<1>3. BudgetInv'
  <2> SUFFICES ASSUME NEW t \in Subs
               PROVE  (applied[t] + late[t])' <= attempt' * (SubRetry[t] + 1) + Requests(t)'
    BY DEF BudgetInv
  <2>1. applied[t] + late[t] <= attempt * (SubRetry[t] + 1) + Requests(t)
    BY DEF IInv, BudgetInv
  <2>2. /\ applied[t] \in Nat /\ late[t] \in Nat /\ subtry[t] \in Nat /\ SubRetry[t] \in Nat
        /\ subtry[t] <= SubRetry[t] /\ attempt * (SubRetry[t] + 1) \in Nat
    BY Numbers DEF IInv
  <2>3. t = s => /\ late'[t] \in {late[t], late[t] + 1}
                 /\ Requests(t) = subtry[t] /\ Requests(t)' = subtry[t] + 1
    BY <1>0 DEF Requests, IInv, NestedTypeOK
  <2>4. t # s => late'[t] = late[t] /\ Requests(t)' = Requests(t)
    BY DEF Requests, IInv, NestedTypeOK
  <2>5. Requests(t) \in Nat
    BY RequestsBounded DEF IInv
  <2> QED
    BY <2>1, <2>2, <2>3, <2>4, <2>5
<1>4. EffectInv'
  BY <1>0 DEF IInv, EffectInv, NestedTypeOK
<1>5. UndoInv'
  BY <1>0 DEF IInv, UndoInv, Undoable
<1> QED
  BY <1>1, <1>2, <1>3, <1>4, <1>5 DEF IInv

(* A substep that may still retry tries again.                              *)
LEMMA SubBackoffEndsIInv == \A s \in Subs : IInv /\ SubBackoffEnds(s) => IInv'
<1> SUFFICES ASSUME NEW s \in Subs, IInv, SubBackoffEnds(s) PROVE IInv'
  OBVIOUS
<1> USE NestedAssumption DEF SubBackoffEnds, Plus1, effects
<1>0. pc = "running" /\ s \in started /\ subtry[s] < SubRetry[s]
  BY BusyWhenRunning DEF IInv, StageInv
<1>1. NestedTypeOK'
  <2>1. subtry' \in [Subs -> Nat]
    BY DEF IInv, NestedTypeOK
  <2>2. ASSUME NEW t \in Subs PROVE subtry'[t] <= SubRetry[t]
    <3>1. subtry[t] \in Nat /\ SubRetry[t] \in Nat /\ subtry[t] <= SubRetry[t]
      BY Numbers DEF IInv
    <3>2. subtry'[t] = IF t = s THEN subtry[t] + 1 ELSE subtry[t]
      BY DEF IInv, NestedTypeOK
    <3> QED
      BY <1>0, <3>1, <3>2
  <2> QED
    BY <2>1, <2>2 DEF IInv, NestedTypeOK, SubStates
<1>2. StageInv'
  BY <1>0 DEF IInv, StageInv, NestedTypeOK, NoOrphans, Busy, Choices
<1>3. BudgetInv'
  <2> SUFFICES ASSUME NEW t \in Subs
               PROVE  (applied[t] + late[t])' <= attempt' * (SubRetry[t] + 1) + Requests(t)'
    BY DEF BudgetInv
  <2>1. applied[t] + late[t] <= attempt * (SubRetry[t] + 1) + Requests(t)
    BY DEF IInv, BudgetInv
  <2>2. /\ applied[t] \in Nat /\ late[t] \in Nat /\ subtry[t] \in Nat /\ SubRetry[t] \in Nat
        /\ subtry[t] <= SubRetry[t] /\ attempt * (SubRetry[t] + 1) \in Nat
    BY Numbers DEF IInv
  <2>3. Requests(t)' = Requests(t)
    BY <1>0 DEF Requests, IInv, NestedTypeOK
  <2> QED
    BY <2>1, <2>2, <2>3
<1>4. EffectInv'
  BY <1>0 DEF IInv, EffectInv, NestedTypeOK
<1>5. UndoInv'
  BY <1>0 DEF IInv, UndoInv, Undoable
<1> QED
  BY <1>1, <1>2, <1>3, <1>4, <1>5 DEF IInv

-------------------------------------------------------------------------------
(* Compensation *)

(* The compensation starts with nothing undone.                             *)
LEMMA CompensateIInv == IInv /\ Compensate => IInv'
<1> SUFFICES ASSUME IInv, Compensate PROVE IInv'
  OBVIOUS
<1> USE NestedAssumption DEF Compensate, effects
<1>1. NestedTypeOK'
  BY DEF IInv, NestedTypeOK, Pc, SubStates
<1>2. StageInv'
  BY DEF IInv, StageInv, NoOrphans, Busy, Choices, Undoable
<1>3. BudgetInv'
  <2> SUFFICES ASSUME NEW t \in Subs
               PROVE  (applied[t] + late[t])' <= attempt' * (SubRetry[t] + 1) + Requests(t)'
    BY DEF BudgetInv
  <2>1. applied[t] + late[t] <= attempt * (SubRetry[t] + 1) + Requests(t)
    BY DEF IInv, BudgetInv
  <2>2. /\ applied[t] \in Nat /\ late[t] \in Nat /\ subtry[t] \in Nat /\ SubRetry[t] \in Nat
        /\ subtry[t] <= SubRetry[t] /\ attempt * (SubRetry[t] + 1) \in Nat
    BY Numbers DEF IInv
  <2>3. Requests(t)' = Requests(t)
    BY DEF Requests
  <2> QED
    BY <2>1, <2>2, <2>3
<1>4. EffectInv'
  BY DEF IInv, EffectInv
<1>5. UndoInv'
  BY DEF IInv, UndoInv, Undoable, Zero
<1> QED
  BY <1>1, <1>2, <1>3, <1>4, <1>5 DEF IInv

(* A substep's compensation ends once.                                      *)
LEMMA SubUndoneIInv == \A s \in Subs : IInv /\ SubUndone(s) => IInv'
<1> SUFFICES ASSUME NEW s \in Subs, IInv, SubUndone(s) PROVE IInv'
  OBVIOUS
<1> USE NestedAssumption DEF SubUndone, Plus1
<1>0. pc = "undoing" /\ s \in Undoable
  BY BusyWhenRunning
<1>1. NestedTypeOK'
  BY DEF IInv, NestedTypeOK, Pc, SubStates
<1>2. StageInv'
  BY <1>0 DEF IInv, StageInv, NestedTypeOK, NoOrphans, Busy, Choices, Undoable
<1>3. BudgetInv'
  <2> SUFFICES ASSUME NEW t \in Subs
               PROVE  (applied[t] + late[t])' <= attempt' * (SubRetry[t] + 1) + Requests(t)'
    BY DEF BudgetInv
  <2>1. applied[t] + late[t] <= attempt * (SubRetry[t] + 1) + Requests(t)
    BY DEF IInv, BudgetInv
  <2>2. /\ applied[t] \in Nat /\ late[t] \in Nat /\ subtry[t] \in Nat /\ SubRetry[t] \in Nat
        /\ subtry[t] <= SubRetry[t] /\ attempt * (SubRetry[t] + 1) \in Nat
    BY Numbers DEF IInv
  <2>3. Requests(t)' = Requests(t)
    BY <1>0 DEF Requests
  <2> QED
    BY <2>1, <2>2, <2>3
<1>4. EffectInv'
  BY <1>0 DEF IInv, EffectInv
<1>5. UndoInv'
  BY <1>0 DEF IInv, UndoInv, StageInv, NestedTypeOK, Undoable
<1> QED
  BY <1>1, <1>2, <1>3, <1>4, <1>5 DEF IInv

(* The compensation is reported as done or as failed.                       *)
LEMMA CompensationEndsIInv == IInv /\ CompensationEnds => IInv'
<1> SUFFICES ASSUME IInv, CompensationEnds PROVE IInv'
  OBVIOUS
<1> USE NestedAssumption DEF CompensationEnds, RaisesNothing, Undoing, effects
<1>1. NestedTypeOK'
  BY DEF IInv, NestedTypeOK, Pc, SubStates
<1>2. StageInv'
  BY DEF IInv, StageInv, NoOrphans, Busy, Choices
<1>3. BudgetInv'
  <2> SUFFICES ASSUME NEW t \in Subs
               PROVE  (applied[t] + late[t])' <= attempt' * (SubRetry[t] + 1) + Requests(t)'
    BY DEF BudgetInv
  <2>1. applied[t] + late[t] <= attempt * (SubRetry[t] + 1) + Requests(t)
    BY DEF IInv, BudgetInv
  <2>2. /\ applied[t] \in Nat /\ late[t] \in Nat /\ subtry[t] \in Nat /\ SubRetry[t] \in Nat
        /\ subtry[t] <= SubRetry[t] /\ attempt * (SubRetry[t] + 1) \in Nat
    BY Numbers DEF IInv
  <2>3. Requests(t)' = Requests(t)
    BY DEF Requests
  <2> QED
    BY <2>1, <2>2, <2>3
<1>4. EffectInv'
  BY DEF IInv, EffectInv
<1>5. UndoInv'
  BY DEF IInv, UndoInv, StageInv, NestedTypeOK, Undoable
<1> QED
  BY <1>1, <1>2, <1>3, <1>4, <1>5 DEF IInv

(* The compensation's timeout cancels what is left of it.                   *)
LEMMA CompensationTimesOutIInv == IInv /\ CompensationTimesOut => IInv'
<1> SUFFICES ASSUME IInv, CompensationTimesOut PROVE IInv'
  OBVIOUS
<1> USE NestedAssumption DEF CompensationTimesOut, Undoing, Cancelled
<1>1. NestedTypeOK'
  BY DEF IInv, NestedTypeOK, Pc, SubStates
<1>2. StageInv'
  BY DEF IInv, StageInv, NestedTypeOK, NoOrphans, Busy, Choices
<1>3. BudgetInv'
  <2> SUFFICES ASSUME NEW t \in Subs
               PROVE  (applied[t] + late[t])' <= attempt' * (SubRetry[t] + 1) + Requests(t)'
    BY DEF BudgetInv
  <2>1. applied[t] + late[t] <= attempt * (SubRetry[t] + 1) + Requests(t)
    BY DEF IInv, BudgetInv
  <2>2. /\ applied[t] \in Nat /\ late[t] \in Nat /\ subtry[t] \in Nat /\ SubRetry[t] \in Nat
        /\ subtry[t] <= SubRetry[t] /\ attempt * (SubRetry[t] + 1) \in Nat
    BY Numbers DEF IInv
  <2>3. Requests(t)' = Requests(t)
    BY DEF Requests
  <2> QED
    BY <2>1, <2>2, <2>3
<1>4. EffectInv'
  BY DEF IInv, EffectInv
<1>5. UndoInv'
  BY DEF IInv, UndoInv, StageInv, NestedTypeOK, Undoable
<1> QED
  BY <1>1, <1>2, <1>3, <1>4, <1>5 DEF IInv

(* An effect that arrives was on its way.                                   *)
LEMMA LateEffectIInv == \A s \in Subs : IInv /\ LateEffect(s) => IInv'
<1> SUFFICES ASSUME NEW s \in Subs, IInv, LateEffect(s) PROVE IInv'
  OBVIOUS
<1> USE NestedAssumption DEF LateEffect, Plus1
<1>1. NestedTypeOK'
  BY DEF IInv, NestedTypeOK, Pc, SubStates
<1>2. StageInv'
  BY DEF IInv, StageInv, NoOrphans, Busy, Choices, Undoable
<1>3. BudgetInv'
  <2> SUFFICES ASSUME NEW t \in Subs
               PROVE  (applied[t] + late[t])' <= attempt' * (SubRetry[t] + 1) + Requests(t)'
    BY DEF BudgetInv
  <2>1. applied[t] + late[t] <= attempt * (SubRetry[t] + 1) + Requests(t)
    BY DEF IInv, BudgetInv
  <2>2. /\ applied[t] \in Nat /\ late[t] \in Nat /\ subtry[t] \in Nat /\ SubRetry[t] \in Nat
        /\ subtry[t] <= SubRetry[t] /\ attempt * (SubRetry[t] + 1) \in Nat
    BY Numbers DEF IInv
  <2>3. Requests(t)' = Requests(t)
    BY DEF Requests
  <2>4. \/ applied'[t] = applied[t] /\ late'[t] = late[t]
        \/ applied'[t] = applied[t] + 1 /\ late'[t] = late[t] - 1
    BY DEF IInv, NestedTypeOK
  <2> QED
    BY <2>1, <2>2, <2>3, <2>4
<1>4. EffectInv'
  BY DEF IInv, EffectInv, NestedTypeOK, Choices
<1>5. UndoInv'
  BY DEF IInv, UndoInv, Undoable
<1> QED
  BY <1>1, <1>2, <1>3, <1>4, <1>5 DEF IInv

-------------------------------------------------------------------------------
(* The specification *)

(* Every step keeps the invariant, and so does a step that does nothing. *)
LEMMA NextIInv == IInv /\ [Next]_vars => IInv'
<1> SUFFICES ASSUME IInv, [Next]_vars PROVE IInv'
  OBVIOUS
<1>1. CASE Execution
  BY <1>1, StartIInv, ConditionRaisesIInv, GatheredIInv, TimesOutIInv, BackoffEndsIInv,
     SubReturnsIInv, SubFailsIInv, SubBackoffEndsIInv, SubUndoneIInv,
     CompensationEndsIInv, CompensationTimesOutIInv DEF Execution
<1>2. CASE Compensate
  BY <1>2, CompensateIInv
<1>3. CASE \E s \in Subs : LateEffect(s)
  BY <1>3, LateEffectIInv
<1>4. CASE UNCHANGED vars
  BY <1>4 DEF vars, effects, IInv, NestedTypeOK, StageInv, NoOrphans, BudgetInv, Requests,
     EffectInv, UndoInv, Undoable, Choices
<1> QED
  BY <1>1, <1>2, <1>3, <1>4 DEF Next, Stays

(* The invariant holds of every reachable state. *)
THEOREM Invariance == Spec => []IInv
BY InitIInv, NextIInv, PTL DEF Spec

(* The variables of the nested step keep their types; in particular no     *)
(* substep and no nested step exceeds its retry_count.                     *)
THEOREM TypeCorrect == Spec => []NestedTypeOK
<1>1. IInv => NestedTypeOK
  BY DEF IInv
<1> QED
  BY <1>1, Invariance, PTL

(* For any number of retries at both levels, the requests of a substep are *)
(* at most the product of the attempts of the two levels.                  *)
THEOREM AttemptsMultiply == Spec => []AttemptProduct
<1>1. IInv => AttemptProduct
  <2> SUFFICES ASSUME IInv, NEW s \in Subs
               PROVE  applied[s] + late[s] <= (attempt + 1) * (SubRetry[s] + 1)
    BY DEF AttemptProduct
  <2>1. applied[s] + late[s] <= attempt * (SubRetry[s] + 1) + Requests(s)
    BY DEF IInv, BudgetInv
  <2>2. /\ applied[s] \in Nat /\ late[s] \in Nat /\ SubRetry[s] \in Nat
        /\ attempt \in Nat /\ attempt * (SubRetry[s] + 1) \in Nat
    BY Numbers DEF IInv
  <2>3. Requests(s) \in Nat /\ Requests(s) <= SubRetry[s] + 1
    BY RequestsBounded DEF IInv
  <2>4. (attempt + 1) * (SubRetry[s] + 1) = attempt * (SubRetry[s] + 1) + (SubRetry[s] + 1)
    BY <2>2, OneMoreRound
  <2> QED
    BY <2>1, <2>2, <2>3, <2>4
<1> QED
  BY <1>1, Invariance, PTL

(* No substep outlives the attempt that started it, whichever of the       *)
(* timeouts fell and however many substeps there are.                      *)
THEOREM NothingOutlives == Spec => []NoOrphans
<1>1. IInv => NoOrphans
  BY DEF IInv, StageInv
<1> QED
  BY <1>1, Invariance, PTL

(* A nested step completes only with the effect of every substep of its    *)
(* last attempt.                                                           *)
THEOREM Together == Spec => []CompletesTogether
<1>1. IInv => CompletesTogether
  BY DEF IInv, StageInv, EffectInv, CompletesTogether
<1> QED
  BY <1>1, Invariance, PTL

(* A substep is undone at most once and after completion only, and a       *)
(* conditional step reported as compensated has undone its if-step.        *)
THEOREM UndoneOnceCompleted == Spec => []UndoneAfterAll
<1>1. IInv => UndoneAfterAll
  BY DEF IInv, NestedTypeOK, UndoInv, UndoneAfterAll, Pc, Zero
<1> QED
  BY <1>1, Invariance, PTL
===============================================================================
