--------------------------- MODULE SagaOrchestrator ---------------------------
(***************************************************************************)
(* SagaOrchestrator (libs/saga_framework/saga.py): the table of running    *)
(* sagas, the table of completed ones, and the tasks that move a saga from *)
(* the first to the second while clients start, look up and cancel sagas.  *)
(*                                                                         *)
(* _lock is never held across an await, so it is never waited for: each    *)
(* block that takes it is part of the action around it.                    *)
(***************************************************************************)
EXTENDS Integers, Sequences, FiniteSets, SagaLife

CONSTANT Sagas   \* the instances that may be started

VARIABLES
  running,     \* keys of _running_instances
  completed,   \* keys of _completed_instances, in insertion order
  stage,       \* where the task of each started saga stands
  status,      \* the status of each started saga
  loop         \* "open", or "closed" once the event loop is torn down

orchVars == <<running, completed, stage, status, loop>>

Started == DOMAIN stage
InHistory == {completed[n] : n \in DOMAIN completed}

OrchTypeOK ==
  /\ Started \subseteq Sagas
  /\ stage \in [Started -> Stages]
  /\ status \in [Started -> Labels]
  /\ running \subseteq Started
  /\ completed \in Seq(Started)
  /\ loop \in {"open", "closed"}

OrchInit ==
  /\ running = {}
  /\ completed = <<>>
  /\ stage = <<>>
  /\ status = <<>>
  /\ loop = "open"

Labelled(i) == [j \in Started \cup {i} |-> IF j = i THEN "pending" ELSE status[j]]

\* start_saga: a new instance, PENDING, in the table before its task exists.
StartSaga(i) ==
  /\ loop = "open"
  /\ i \in Sagas \ Started
  /\ running' = running \cup {i}
  /\ stage' = [j \in Started \cup {i} |-> IF j = i THEN "scheduled" ELSE stage[j]]
  /\ status' = Labelled(i)
  /\ UNCHANGED <<completed, loop>>

\* Faulty variants: the saga is filed nowhere, too early, or never.
FiledNowhere(i) == completed
OverEarly(at) == at \in {"on_failure", "ended"}
OverNever(at) == FALSE

\* The finally block of _execute_and_cleanup.
Filed(i) == Append(completed, i)
ExecuteOver(at) == at = "ended"

(* The task of a saga resumes and runs to its next await.  When execute()  *)
(* returns, the finally block of _execute_and_cleanup follows at once.     *)
SagaMoves(i) ==
  /\ loop = "open"
  /\ i \in Started
  /\ \E move \in Moves(stage[i], status[i]) :
       /\ stage' = [stage EXCEPT ![i] = move[1]]
       /\ status' = [status EXCEPT ![i] = move[2]]
       /\ \/ ExecuteOver(move[1]) /\ running' = running \ {i} /\ completed' = Filed(i)
          \/ ~ExecuteOver(move[1]) /\ UNCHANGED <<running, completed>>
  /\ UNCHANGED loop

\* Faulty variant: the instance is looked up as get_instance does.
CancellableAnywhere == running \cup InHistory

\* cancel_saga looks in _running_instances only.
Cancellable == running

\* cancel_saga: returns False, and changes nothing, for any other instance.
CancelSaga(i) ==
  /\ loop = "open"
  /\ i \in Cancellable
  /\ status' = [status EXCEPT ![i] = "cancelled"]
  /\ UNCHANGED <<running, completed, stage, loop>>

(* asyncio.run cancels what still runs.  The finally block files a saga    *)
(* that had begun; a task that never ran has no finally block, and its saga*)
(* stays among the running ones.                                           *)
Begun == {i \in running : stage[i] # "scheduled"}

CloseLoop ==
  /\ loop = "open"
  /\ loop' = "closed"
  /\ stage' = [i \in Started |-> IF i \in running THEN "aborted" ELSE stage[i]]
  /\ running' = running \ Begun
  /\ \E order \in [1..Cardinality(Begun) -> Begun] :   \* all_tasks() is a set
       /\ \A i \in Begun : \E n \in DOMAIN order : order[n] = i
       /\ completed' = completed \o order
  /\ UNCHANGED status

Closed == loop = "closed" /\ UNCHANGED orchVars

OrchNext ==
  \/ \E i \in Sagas : StartSaga(i) \/ SagaMoves(i) \/ CancelSaga(i)
  \/ CloseLoop
  \/ Closed

Spec == OrchInit /\ [][OrchNext]_orchVars

\* A callback has no timeout, so a saga may hang in one.
InCallback(i) == stage[i] \in {"on_success", "on_failure"}

-------------------------------------------------------------------------------
(* A saga that was started can be found at any time, in exactly one of the *)
(* tables: never in none while it moves from the first to the second, and  *)
(* filed only once although every task files itself while others start.    *)
FoundInOneTable ==
  /\ \A i \in Started : (i \in running) # (i \in InHistory)
  /\ Cardinality(InHistory) = Len(completed)

(* The tables agree with the tasks: the history holds exactly the sagas    *)
(* whose execute() is over, and while the loop is open none that stands    *)
(* among the running ones is over.                                         *)
TablesMatchTasks ==
  /\ \A i \in InHistory : stage[i] \in Over
  /\ \A i \in running : stage[i] \in Over =>
       loop = "closed" /\ status[i] \in {"pending", "cancelled"}

(* What the history says of a saga never changes, however late a cancel    *)
(* for it arrives: get_workflow_status and get_saga_history agree for good.*)
FiledLabelKept == [][\A i \in InHistory : status'[i] = status[i]]_orchVars

(* Every saga that is started gets filed, with any number of others in     *)
(* progress and cancelled or not, unless it hangs in a callback or the     *)
(* loop is torn down.                                                      *)
SagasGetFiled ==
  \A i \in Sagas : (i \in Started) ~>
    (i \in InHistory \/ loop = "closed" \/ (i \in Started /\ InCallback(i)))
===============================================================================
