-------------------------- MODULE WorkflowServiceProofs --------------------------
(***************************************************************************)
(* Proofs, for any number of sagas and of signals and any lengths of the   *)
(* sleeps, of the safety properties of SagaOrchestrator and of the service *)
(* process around it, and that the process does to the orchestrator only   *)
(* what SagaOrchestrator says.                                             *)
(***************************************************************************)
EXTENDS WorkflowService, TLAPS, FiniteSetTheorems, SequenceTheorems

(* No saga is filed twice, whatever it is filed with. *)
FiledOnce == \A m, n \in DOMAIN completed : completed[m] = completed[n] => m = n

(* The two tables share the sagas that were started between them. *)
TablesSplit == \A i \in Started : (i \in running) # (i \in InHistory)

(* A task that has not run yet has no label of its own. *)
ScheduledLabel ==
  \A i \in running : stage[i] = "scheduled" => status[i] \in {"pending", "cancelled"}

IInv ==
  /\ OrchTypeOK
  /\ IsFiniteSet(running)
  /\ FiledOnce
  /\ TablesSplit
  /\ TablesMatchTasks
  /\ ScheduledLabel

-------------------------------------------------------------------------------
(* What a move of a saga may look like: it leaves a stage in which the task*)
(* still runs, and never for the stage before the first or of a task that  *)
(* was cancelled.                                                          *)
LEMMA MovesLead ==
  ASSUME NEW from \in Stages, NEW label \in Labels, NEW move \in Moves(from, label)
  PROVE  /\ from \notin Over
         /\ move[1] \in Stages \ {"scheduled", "aborted"}
         /\ move[2] \in Labels
BY DEF Moves, Stages, Labels, Over

(* The numbers from 1 to n are n numbers. *)
LEMMA UpTo ==
  ASSUME NEW n \in Nat
  PROVE  IsFiniteSet(1..n) /\ Cardinality(1..n) = n
BY FS_Interval

(* A table without repetitions has as many rows as it has entries. *)
LEMMA HistoryCounted ==
  ASSUME OrchTypeOK, FiledOnce
  PROVE  Cardinality(InHistory) = Len(completed)
<1>1. Len(completed) \in Nat /\ DOMAIN completed = 1..Len(completed)
  BY DEF OrchTypeOK
<1>2. completed \in Bijection(1..Len(completed), InHistory)
  <2>1. completed \in [1..Len(completed) -> InHistory]
    BY <1>1 DEF OrchTypeOK, InHistory
  <2> QED
    BY <1>1, <2>1 DEF FiledOnce, InHistory, Bijection, Injection, Surjection, IsInjective
<1>3. IsFiniteSet(1..Len(completed)) /\ Cardinality(1..Len(completed)) = Len(completed)
  BY <1>1, UpTo
<1> QED
  BY <1>2, <1>3, FS_Bijection DEF ExistsBijection

(* An order in which all_tasks() may list finitely many tasks names each of*)
(* them once.                                                              *)
LEMMA OrderNamesOnce ==
  ASSUME NEW S, IsFiniteSet(S), NEW order \in [1..Cardinality(S) -> S],
         \A i \in S : \E n \in DOMAIN order : order[n] = i
  PROVE  \A m, n \in 1..Cardinality(S) : order[m] = order[n] => m = n
<1>1. Cardinality(S) \in Nat
  BY FS_CardinalityType
<1>2. IsFiniteSet(1..Cardinality(S)) /\ Cardinality(1..Cardinality(S)) = Cardinality(S)
  BY <1>1, UpTo
<1>3. order \in Surjection(1..Cardinality(S), S)
  BY DEF Surjection
<1>4. order \in Injection(1..Cardinality(S), S)
  BY <1>2, <1>3, FS_SurjSameCardinalityImpliesInj
<1> QED
  BY <1>4 DEF Injection, IsInjective

-------------------------------------------------------------------------------
(* The orchestrator *)

(* The orchestrator starts with empty tables. *)
LEMMA InitIInv == OrchInit => IInv
<1> SUFFICES ASSUME OrchInit PROVE IInv
  OBVIOUS
<1> USE DEF OrchInit
<1>1. Started = {} /\ InHistory = {}
  BY DEF Started, InHistory
<1>2. OrchTypeOK
  BY <1>1 DEF OrchTypeOK
<1>3. IsFiniteSet(running)
  BY FS_EmptySet
<1> QED
  BY <1>1, <1>2, <1>3 DEF IInv, FiledOnce, TablesSplit, TablesMatchTasks, ScheduledLabel

(* A saga that starts is new to both tables. *)
LEMMA StartSagaIInv == \A i \in Sagas : IInv /\ StartSaga(i) => IInv'
<1> SUFFICES ASSUME NEW i \in Sagas, IInv, StartSaga(i) PROVE IInv'
  OBVIOUS
<1> USE DEF StartSaga
<1>1. Started' = Started \cup {i} /\ i \notin Started /\ InHistory' = InHistory
  BY DEF Started, InHistory
<1>2. InHistory \subseteq Started
  BY DEF IInv, OrchTypeOK, InHistory
<1>3. OrchTypeOK'
  <2>1. completed' \in Seq(Started')
    BY <1>1, SeqMonotonic DEF IInv, OrchTypeOK
  <2>2. stage' \in [Started' -> Stages] /\ status' \in [Started' -> Labels]
    BY <1>1 DEF IInv, OrchTypeOK, Labelled, Stages, Labels
  <2> QED
    BY <1>1, <2>1, <2>2 DEF IInv, OrchTypeOK
<1>4. IsFiniteSet(running')
  BY FS_AddElement DEF IInv
<1>5. FiledOnce'
  BY DEF IInv, FiledOnce
<1>6. TablesSplit'
  BY <1>1, <1>2 DEF IInv, TablesSplit
<1>7. TablesMatchTasks' /\ ScheduledLabel'
  BY <1>1, <1>2 DEF IInv, OrchTypeOK, TablesMatchTasks, ScheduledLabel, Labelled, Over
<1> QED
  BY <1>3, <1>4, <1>5, <1>6, <1>7 DEF IInv

(* A saga that moves is among the running ones, and is filed, once, when   *)
(* its execute() is over.                                                  *)
LEMMA SagaMovesIInv == \A i \in Sagas : IInv /\ SagaMoves(i) => IInv'
<1> SUFFICES ASSUME NEW i \in Sagas, IInv, SagaMoves(i) PROVE IInv'
  OBVIOUS
<1>1. PICK move \in Moves(stage[i], status[i]) :
        /\ stage' = [stage EXCEPT ![i] = move[1]]
        /\ status' = [status EXCEPT ![i] = move[2]]
        /\ \/ ExecuteOver(move[1]) /\ running' = running \ {i} /\ completed' = Filed(i)
           \/ ~ExecuteOver(move[1]) /\ UNCHANGED <<running, completed>>
  BY DEF SagaMoves
<1>2. loop = "open" /\ loop' = "open" /\ i \in Started /\ Started' = Started
  BY <1>1 DEF SagaMoves, Started
<1>3. /\ stage[i] \notin Over
      /\ move[1] \in Stages \ {"scheduled", "aborted"}
      /\ move[2] \in Labels
  BY <1>2, MovesLead DEF IInv, OrchTypeOK
<1>4. i \notin InHistory /\ i \in running
  BY <1>2, <1>3 DEF IInv, TablesSplit, TablesMatchTasks
<1>5. stage' \in [Started -> Stages] /\ status' \in [Started -> Labels]
  BY <1>1, <1>2, <1>3 DEF IInv, OrchTypeOK
<1>6. \A j \in Started \ {i} : stage'[j] = stage[j] /\ status'[j] = status[j]
  BY <1>1 DEF IInv, OrchTypeOK
<1>7. stage'[i] = move[1] /\ status'[i] = move[2]
  BY <1>1, <1>2 DEF IInv, OrchTypeOK
<1>8. CASE /\ move[1] = "ended"
           /\ running' = running \ {i}
           /\ completed' = Append(completed, i)
  <2>1. /\ completed' \in Seq(Started)
        /\ Len(completed') = Len(completed) + 1
        /\ \A n \in 1..Len(completed) : completed'[n] = completed[n]
        /\ completed'[Len(completed) + 1] = i
        /\ DOMAIN completed' = 1..(Len(completed) + 1)
        /\ DOMAIN completed = 1..Len(completed)
        /\ Len(completed) \in Nat
    BY <1>2, <1>8 DEF IInv, OrchTypeOK
  <2>2. InHistory' = InHistory \cup {i}
    BY <2>1 DEF InHistory
  <2>3. OrchTypeOK'
    BY <1>2, <1>5, <1>8, <2>1 DEF IInv, OrchTypeOK
  <2>4. FiledOnce'
    BY <1>4, <2>1 DEF IInv, FiledOnce, InHistory
  <2>5. TablesSplit' /\ IsFiniteSet(running')
    BY <1>2, <1>8, <2>2, FS_RemoveElement DEF IInv, TablesSplit
  <2>6. \A j \in InHistory' : stage'[j] \in Over
    BY <1>2, <1>6, <1>7, <1>8, <2>2 DEF IInv, OrchTypeOK, TablesMatchTasks, InHistory, Over
  <2>7. \A j \in running' : stage'[j] = stage[j] /\ status'[j] = status[j] /\ j \in running
    BY <1>6, <1>8 DEF IInv, OrchTypeOK
  <2>8. TablesMatchTasks' /\ ScheduledLabel'
    BY <2>6, <2>7, <1>2 DEF IInv, TablesMatchTasks, ScheduledLabel
  <2> QED
    BY <2>3, <2>4, <2>5, <2>8 DEF IInv
<1>9. CASE move[1] # "ended" /\ UNCHANGED <<running, completed>>
  <2>1. InHistory' = InHistory
    BY <1>9 DEF InHistory
  <2>2. OrchTypeOK' /\ IsFiniteSet(running') /\ FiledOnce' /\ TablesSplit'
    BY <1>2, <1>5, <1>9, <2>1 DEF IInv, OrchTypeOK, FiledOnce, TablesSplit
  <2>3. TablesMatchTasks'
    BY <1>2, <1>3, <1>4, <1>6, <1>7, <1>9, <2>1 DEF IInv, OrchTypeOK, TablesMatchTasks, Over, InHistory
  <2>4. ScheduledLabel'
    BY <1>2, <1>3, <1>6, <1>7, <1>9 DEF IInv, OrchTypeOK, ScheduledLabel
  <2> QED
    BY <2>2, <2>3, <2>4 DEF IInv
<1> QED
  BY <1>1, <1>8, <1>9 DEF ExecuteOver, Filed

(* A cancelled saga was among the running ones. *)
LEMMA CancelSagaIInv == \A i \in Sagas : IInv /\ CancelSaga(i) => IInv'
<1> SUFFICES ASSUME NEW i \in Sagas, IInv, CancelSaga(i) PROVE IInv'
  OBVIOUS
<1> USE DEF CancelSaga, Cancellable
<1>1. Started' = Started /\ InHistory' = InHistory /\ i \in Started
  BY DEF Started, InHistory, IInv, OrchTypeOK
<1>2. OrchTypeOK'
  BY <1>1 DEF IInv, OrchTypeOK, Labels
<1>3. TablesMatchTasks' /\ ScheduledLabel'
  BY <1>1 DEF IInv, OrchTypeOK, TablesMatchTasks, ScheduledLabel
<1> QED
  BY <1>1, <1>2, <1>3 DEF IInv, FiledOnce, TablesSplit

(* When the loop is torn down the finally blocks file what had begun, each *)
(* saga once and in any order.                                             *)
LEMMA CloseLoopIInv == IInv /\ CloseLoop => IInv'
<1> SUFFICES ASSUME IInv, CloseLoop PROVE IInv'
  OBVIOUS
<1>1. /\ loop' = "closed" /\ status' = status /\ running' = running \ Begun
      /\ stage' = [i \in Started |-> IF i \in running THEN "aborted" ELSE stage[i]]
  BY DEF CloseLoop
<1>2. PICK order \in [1..Cardinality(Begun) -> Begun] :
        /\ \A i \in Begun : \E n \in DOMAIN order : order[n] = i
        /\ completed' = completed \o order
  BY DEF CloseLoop
<1>3. Started' = Started /\ Begun \subseteq running /\ running \subseteq Started
  BY <1>1 DEF Started, Begun, IInv, OrchTypeOK
<1>4. IsFiniteSet(Begun) /\ IsFiniteSet(running')
  BY <1>1, <1>3, FS_Subset DEF IInv
<1>5. Cardinality(Begun) \in Nat
  BY <1>4, FS_CardinalityType
<1>6. \A m, n \in 1..Cardinality(Begun) : order[m] = order[n] => m = n
  BY <1>2, <1>4, OrderNamesOnce
<1> DEFINE k == Len(completed)
           c == Cardinality(Begun)
<1>7. order \in Seq(Started) /\ Len(order) = c
  BY <1>3, <1>5
<1>8. /\ completed' \in Seq(Started) /\ Len(completed') = k + c /\ k \in Nat
      /\ DOMAIN completed = 1..k /\ DOMAIN completed' = 1..(k + c)
      /\ \A n \in 1..(k + c) : completed'[n] = IF n <= k THEN completed[n] ELSE order[n - k]
  BY <1>2, <1>7, ConcatProperties DEF IInv, OrchTypeOK
<1> HIDE DEF k, c
<1>9. InHistory' = InHistory \cup Begun
  <2>1. ASSUME NEW n \in 1..(k + c) PROVE completed'[n] \in InHistory \cup Begun
    <3>1. CASE n <= k
      BY <1>8, <3>1 DEF InHistory
    <3>2. CASE ~(n <= k)
      <4>1. n - k \in 1..c
        BY <1>5, <1>8, <3>2 DEF c
      <4> QED
        BY <1>8, <3>2, <4>1 DEF c
    <3> QED
      BY <3>1, <3>2
  <2>2. \A i \in InHistory : \E n \in 1..(k + c) : completed'[n] = i
    BY <1>5, <1>8 DEF InHistory, c
  <2>3. ASSUME NEW i \in Begun PROVE \E n \in 1..(k + c) : completed'[n] = i
    <3>1. PICK n \in 1..c : order[n] = i
      BY <1>2 DEF c
    <3>2. n + k \in 1..(k + c) /\ ~(n + k <= k) /\ (n + k) - k = n
      BY <1>5, <1>8 DEF c
    <3> QED
      BY <1>8, <3>1, <3>2
  <2> QED
    BY <1>8, <2>1, <2>2, <2>3 DEF InHistory
<1>10. \A i \in Begun : i \notin InHistory
  BY <1>3 DEF IInv, TablesSplit
<1>11. FiledOnce'
  <2> SUFFICES ASSUME NEW m \in 1..(k + c), NEW n \in 1..(k + c), completed'[m] = completed'[n]
               PROVE  m = n
    BY <1>8 DEF FiledOnce
  <2>1. CASE m <= k /\ n <= k
    BY <1>8, <2>1 DEF IInv, FiledOnce
  <2>2. CASE ~(m <= k) /\ ~(n <= k)
    <3>1. m - k \in 1..c /\ n - k \in 1..c /\ order[m - k] = order[n - k]
      BY <1>5, <1>8, <2>2 DEF c
    <3>2. m - k = n - k
      BY <1>6, <3>1 DEF c
    <3> QED
      BY <1>5, <1>8, <3>2 DEF c
  <2>3. CASE m <= k /\ ~(n <= k)
    <3>1. completed'[m] \in InHistory
      BY <1>8, <2>3 DEF InHistory
    <3>2. n - k \in 1..c /\ completed'[n] = order[n - k]
      BY <1>5, <1>8, <2>3 DEF c
    <3> QED
      BY <1>10, <3>1, <3>2 DEF c
  <2>4. CASE ~(m <= k) /\ n <= k
    <3>1. completed'[n] \in InHistory
      BY <1>8, <2>4 DEF InHistory
    <3>2. m - k \in 1..c /\ completed'[m] = order[m - k]
      BY <1>5, <1>8, <2>4 DEF c
    <3> QED
      BY <1>10, <3>1, <3>2 DEF c
  <2> QED
    BY <2>1, <2>2, <2>3, <2>4
<1>12. OrchTypeOK'
  BY <1>1, <1>3, <1>8 DEF IInv, OrchTypeOK, Stages
<1>13. TablesSplit'
  BY <1>1, <1>3, <1>9, <1>10 DEF IInv, TablesSplit
<1>14. InHistory \subseteq Started
  BY DEF IInv, OrchTypeOK, InHistory
<1>15. TablesMatchTasks'
  BY <1>1, <1>3, <1>9, <1>14 DEF IInv, TablesMatchTasks, ScheduledLabel, Over, Begun
<1>16. ScheduledLabel'
  BY <1>1, <1>3 DEF ScheduledLabel
<1> QED
  BY <1>4, <1>11, <1>12, <1>13, <1>15, <1>16 DEF IInv

(* A step of the orchestrator keeps the invariant, and so does any step    *)
(* that leaves it alone.                                                   *)
LEMMA OrchNextIInv == IInv /\ [OrchNext]_orchVars => IInv'
<1> SUFFICES ASSUME IInv, [OrchNext]_orchVars PROVE IInv'
  OBVIOUS
<1>1. CASE UNCHANGED orchVars
  BY <1>1 DEF orchVars, IInv, OrchTypeOK, FiledOnce, TablesSplit, TablesMatchTasks, ScheduledLabel,
     Started, InHistory
<1>2. CASE \E i \in Sagas : StartSaga(i) \/ SagaMoves(i) \/ CancelSaga(i)
  BY <1>2, StartSagaIInv, SagaMovesIInv, CancelSagaIInv
<1>3. CASE CloseLoop
  BY <1>3, CloseLoopIInv
<1> QED
  BY <1>1, <1>2, <1>3 DEF OrchNext, Closed

-------------------------------------------------------------------------------
(* The service process *)

(* All that the process does to the orchestrator are steps of it. *)
LEMMA ServiceSteps == [ServiceNext]_allVars => [OrchNext]_orchVars
<1> SUFFICES ASSUME [ServiceNext]_allVars PROVE [OrchNext]_orchVars
  OBVIOUS
<1>1. CASE Orchestration
  BY <1>1 DEF Orchestration, OrchNext
<1>2. CASE MainWakes \/ MainCancelled \/ (\E c \in Callers : GraceEnds(c))
  BY <1>2 DEF MainWakes, MainCancelled, OwnShutdown, StartReturns, GraceEnds, OrchNext, orchVars
<1>3. CASE \/ Tick \/ Exited \/ UNCHANGED allVars
           \/ \E c \in SignalTasks : Signal(c) \/ ShutdownTaskRuns(c)
  BY <1>3 DEF Tick, Exited, allVars, Signal, ShutdownTaskRuns, orchVars
<1> QED
  BY <1>1, <1>2, <1>3 DEF ServiceNext

(* The process with its signals, its sleeps and its shutdown runs the      *)
(* orchestrator as SagaOrchestrator describes it.                          *)
THEOREM ServiceRunsOrchestrator == ServiceSpec => Spec
<1>1. ServiceInit => OrchInit
  BY DEF ServiceInit
<1> QED
  BY <1>1, ServiceSteps, PTL DEF ServiceSpec, Spec

(* The invariant of the tables holds in every reachable state. *)
THEOREM Invariance == Spec => []IInv
BY InitIInv, OrchNextIInv, PTL DEF Spec

(* At any time a saga that was started is in exactly one of the tables, and*)
(* no saga is filed twice, with any number of sagas and in any order of    *)
(* teardown.                                                               *)
THEOREM FoundSomewhere == ServiceSpec => []FoundInOneTable
<1>1. IInv => FoundInOneTable
  BY HistoryCounted DEF IInv, TablesSplit, FoundInOneTable
<1> QED
  BY <1>1, Invariance, ServiceRunsOrchestrator, PTL

(* The history holds exactly the sagas whose execute() is over.            *)
THEOREM TablesAgree == ServiceSpec => []TablesMatchTasks
<1>1. IInv => TablesMatchTasks
  BY DEF IInv
<1> QED
  BY <1>1, Invariance, ServiceRunsOrchestrator, PTL

(* No move, cancel or teardown changes the label of a filed saga. *)
LEMMA LabelKept ==
  IInv /\ [OrchNext]_orchVars => [\A i \in InHistory : status'[i] = status[i]]_orchVars
<1> SUFFICES ASSUME IInv, OrchNext, NEW i \in InHistory
             PROVE  status'[i] = status[i]
  OBVIOUS
<1>1. i \in Started /\ i \notin running /\ stage[i] \in Over
  BY DEF IInv, OrchTypeOK, TablesSplit, TablesMatchTasks, InHistory
<1>2. ASSUME NEW j \in Sagas, StartSaga(j) PROVE status'[i] = status[i]
  BY <1>1, <1>2 DEF StartSaga, Labelled
<1>3. ASSUME NEW j \in Sagas, SagaMoves(j) PROVE status'[i] = status[i]
  <2>1. j \in Started /\ stage[j] \notin Over
    BY <1>3, MovesLead DEF SagaMoves, IInv, OrchTypeOK
  <2>2. i # j
    BY <1>1, <2>1
  <2> QED
    BY <1>1, <1>3, <2>2 DEF SagaMoves, IInv, OrchTypeOK
<1>4. ASSUME NEW j \in Sagas, CancelSaga(j) PROVE status'[i] = status[i]
  BY <1>1, <1>4 DEF CancelSaga, Cancellable, IInv, OrchTypeOK
<1>5. CASE CloseLoop \/ Closed
  BY <1>5 DEF CloseLoop, Closed, orchVars
<1> QED
  BY <1>2, <1>3, <1>4, <1>5 DEF OrchNext

(* What the history says of a saga never changes, however late a cancel    *)
(* for it arrives.                                                         *)
THEOREM LabelsFinal == ServiceSpec => FiledLabelKept
BY LabelKept, Invariance, ServiceRunsOrchestrator, PTL DEF Spec, FiledLabelKept

-------------------------------------------------------------------------------
(* Shutdown *)

(* What a call of shutdown() may change, up to its first await. *)
LEMMA CallTypes ==
  ASSUME ServiceTypeOK, NEW c \in Callers, CallShutdown(c)
  PROVE  /\ _running' \in BOOLEAN
         /\ shutdown' \in [Callers -> {"none", "queued", "sleeping", "returned"}]
         /\ grace' \in [Callers -> 0..GracePeriod]
         /\ closings' \in Nat
<1> USE ServiceAssumption DEF ServiceTypeOK
<1>1. shutdown' \in [Callers -> {"none", "queued", "sleeping", "returned"}]
  BY DEF CallShutdown
<1>2. grace' = grace \/ grace' = [grace EXCEPT ![c] = GracePeriod]
  BY DEF CallShutdown
<1>3. grace' \in [Callers -> 0..GracePeriod]
  BY <1>2
<1>4. _running' \in BOOLEAN
  <2>1. \/ UNCHANGED _running
        \/ _running' = FALSE
    BY DEF CallShutdown
  <2> QED
    BY <2>1
<1>5. closings' \in Nat
  <2>1. closings' = closings \/ closings' = closings + 1
    BY DEF CallShutdown
  <2> QED
    BY <2>1
<1> QED
  BY <1>1, <1>3, <1>4, <1>5

(* The process's own variables keep their types. *)
LEMMA ServiceTyping ==
  IInv /\ IInv' /\ ServiceTypeOK /\ [ServiceNext]_allVars => ServiceTypeOK'
<1> SUFFICES ASSUME IInv', ServiceTypeOK, [ServiceNext]_allVars PROVE ServiceTypeOK'
  OBVIOUS
<1>0. OrchTypeOK' /\ Start \in Callers /\ SignalTasks \subseteq Callers
  BY DEF IInv, Callers
<1>1. CASE Orchestration \/ UNCHANGED allVars \/ Exited
  BY <1>0, <1>1 DEF Orchestration, allVars, Exited, ServiceTypeOK, serviceVars
<1>2. ASSUME NEW c \in SignalTasks, Signal(c) PROVE ServiceTypeOK'
  BY <1>0, <1>2 DEF Signal, ServiceTypeOK
<1>3. ASSUME NEW c \in SignalTasks, ShutdownTaskRuns(c) PROVE ServiceTypeOK'
  <2>1. c \in Callers /\ CallShutdown(c) /\ UNCHANGED <<main, poll>>
    BY <1>0, <1>3 DEF ShutdownTaskRuns
  <2> QED
    BY <1>0, <2>1, CallTypes DEF ServiceTypeOK
<1>4. ASSUME NEW c \in Callers, GraceEnds(c) PROVE ServiceTypeOK'
  <2>1. /\ shutdown' = [shutdown EXCEPT ![c] = "returned"] /\ closings' = closings + 1
        /\ main' \in {main, "exited"} /\ UNCHANGED <<_running, poll, grace>>
    BY <1>4 DEF GraceEnds, StartReturns
  <2> QED
    BY <1>0, <2>1 DEF ServiceTypeOK
<1>5. CASE MainWakes \/ MainCancelled
  <2>1. /\ \/ CallShutdown(Start)
           \/ UNCHANGED <<_running, shutdown, grace, closings>>
        /\ main' \in {main, "shutting_down", "exited"}
        /\ poll' \in {poll, PollInterval}
    BY <1>5 DEF MainWakes, MainCancelled, OwnShutdown, StartReturns
  <2>2. CASE CallShutdown(Start)
    BY <1>0, <2>1, <2>2, CallTypes, ServiceAssumption DEF ServiceTypeOK
  <2>3. CASE UNCHANGED <<_running, shutdown, grace, closings>>
    BY <1>0, <2>1, <2>3, ServiceAssumption DEF ServiceTypeOK
  <2> QED
    BY <2>1, <2>2, <2>3
<1>6. CASE Tick
  <2>1. \A c \in Callers : Asleep(grace[c]) \in 0..GracePeriod
    BY ServiceAssumption DEF ServiceTypeOK, Asleep
  <2>2. Asleep(poll) \in 0..PollInterval
    BY ServiceAssumption DEF ServiceTypeOK, Asleep
  <2>3. /\ grace' = [c \in Callers |-> Asleep(grace[c])] /\ poll' = Asleep(poll)
        /\ UNCHANGED <<_running, main, shutdown, closings>>
    BY <1>6 DEF Tick
  <2>4. grace' \in [Callers -> 0..GracePeriod]
    BY <2>1, <2>3
  <2> QED
    BY <1>0, <2>2, <2>3, <2>4 DEF ServiceTypeOK
<1> QED
  BY <1>1, <1>2, <1>3, <1>4, <1>5, <1>6 DEF ServiceNext

(* The variables of the process and of the orchestrator keep their types;  *)
(* no sleep is longer than it was begun with.                              *)
THEOREM TypeCorrect == ServiceSpec => []ServiceTypeOK
<1>1. ServiceInit /\ IInv => ServiceTypeOK
  BY ServiceAssumption DEF ServiceInit, ServiceTypeOK, IInv
<1> QED
  BY <1>1, ServiceTyping, Invariance, ServiceRunsOrchestrator, PTL DEF ServiceSpec

(* One call clears _running.  It sleeps, as the only one, or has closed the*)
(* telemetry, but not both; that of start() sleeps outside of its loop.    *)
ShutdownInv ==
  /\ _running => closings = 0
  /\ closings \in {0, 1}
  /\ \A c \in Callers : Sleeping(c) => ~_running /\ closings = 0
  /\ \A b, c \in Callers : Sleeping(b) /\ Sleeping(c) => b = c
  /\ Sleeping(Start) => main # "polling"

(* A call that finds _running cleared changes nothing; else it is the first*)
(* and there is no sleeping one yet.                                       *)
LEMMA CallKeeps ==
  ASSUME ServiceTypeOK, ShutdownInv, NEW c \in Callers, ~Sleeping(c), CallShutdown(c),
         main' = main \/ main' # "polling", c = Start => main' # "polling"
  PROVE  ShutdownInv'
<1>0. Start \in Callers
  BY DEF Callers
<1>1. CASE ~FirstShutdown
  BY <1>0, <1>1 DEF CallShutdown, ShutdownInv, Sleeping, ServiceTypeOK, FirstShutdown
<1>2. CASE FirstShutdown
  <2>1. _running /\ closings = 0 /\ \A b \in Callers : ~Sleeping(b)
    BY <1>2 DEF FirstShutdown, ShutdownInv
  <2>2. \A b \in Callers \ {c} : ~Sleeping(b)'
    BY <2>1 DEF CallShutdown, Sleeping, ServiceTypeOK
  <2>3. /\ _running' = FALSE
        /\ \/ closings' = 0
           \/ closings' = 1 /\ ~Sleeping(c)'
    BY <1>2, <2>1 DEF CallShutdown, Sleeping, ServiceTypeOK
  <2> QED
    BY <1>0, <2>2, <2>3 DEF ShutdownInv
<1> QED
  BY <1>1, <1>2

(* However many signals arrive, and wherever they fall between the awaits  *)
(* of shutdown(), the telemetry is closed by one call of all, and when none*)
(* of them waits.                                                          *)
THEOREM ClosedOnce == ServiceSpec => []TelemetryClosedOnce
<1>1. ServiceInit => ShutdownInv
  <2> SUFFICES ASSUME ServiceInit PROVE ShutdownInv
    OBVIOUS
  <2>1. \A c \in Callers : ~Sleeping(c)
    BY DEF ServiceInit, Sleeping
  <2>2. closings = 0 /\ Start \in Callers
    BY DEF ServiceInit, Callers
  <2> QED
    BY <2>1, <2>2 DEF ShutdownInv
<1>2. ServiceTypeOK /\ ShutdownInv /\ [ServiceNext]_allVars => ShutdownInv'
  <2> SUFFICES ASSUME ServiceTypeOK, ShutdownInv, [ServiceNext]_allVars PROVE ShutdownInv'
    OBVIOUS
  <2>0. Start \in Callers /\ SignalTasks \subseteq Callers
    BY DEF Callers
  <2>1. CASE UNCHANGED <<_running, main, shutdown, closings>>
    BY <2>1 DEF ShutdownInv, Sleeping
  <2>2. ASSUME NEW c \in SignalTasks, Signal(c) PROVE ShutdownInv'
    BY <2>0, <2>2 DEF Signal, ShutdownInv, Sleeping, ServiceTypeOK
  <2>3. ASSUME NEW c \in SignalTasks, ShutdownTaskRuns(c) PROVE ShutdownInv'
    BY <2>0, <2>3, CallKeeps DEF ShutdownTaskRuns, Sleeping, Start, SignalTasks
  <2>4. ASSUME NEW c \in Callers, GraceEnds(c) PROVE ShutdownInv'
    <3>1. /\ ~_running /\ closings = 0
          /\ \A b \in Callers \ {c} : ~Sleeping(b)
      BY <2>4 DEF GraceEnds, ShutdownInv
    <3>2. /\ _running' = _running /\ closings' = 1
          /\ shutdown' = [shutdown EXCEPT ![c] = "returned"]
      BY <2>4, <3>1 DEF GraceEnds
    <3>3. \A b \in Callers : ~Sleeping(b)'
      BY <3>1, <3>2 DEF Sleeping, ServiceTypeOK
    <3> QED
      BY <2>0, <3>1, <3>2, <3>3 DEF ShutdownInv
  <2>5. CASE MainWakes \/ MainCancelled
    <3>1. main = "polling" /\ ~Sleeping(Start)
      BY <2>5 DEF MainWakes, MainCancelled, ShutdownInv
    <3>2. \/ UNCHANGED <<_running, main, shutdown, closings>>
          \/ CallShutdown(Start) /\ main' # "polling"
      BY <2>5 DEF MainWakes, MainCancelled, OwnShutdown, StartReturns
    <3> QED
      BY <2>0, <2>1, <3>1, <3>2, CallKeeps
  <2>6. CASE Orchestration \/ Tick \/ Exited \/ UNCHANGED allVars
    BY <2>1, <2>6 DEF Orchestration, Tick, Exited, allVars, serviceVars
  <2> QED
    BY <2>2, <2>3, <2>4, <2>5, <2>6 DEF ServiceNext
<1>3. ShutdownInv => TelemetryClosedOnce
  BY DEF ShutdownInv, TelemetryClosedOnce
<1> QED
  BY <1>1, <1>2, <1>3, TypeCorrect, PTL DEF ServiceSpec
===============================================================================
