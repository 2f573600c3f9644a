---------------------------- MODULE MCTaskService ----------------------------
(***************************************************************************)
(* Two replicas, three requests, and two tasks with committed rows: t1 with*)
(* one, and t2 with a second that cannot be deserialized.                  *)
(***************************************************************************)
EXTENDS TaskService

CONSTANTS r1, r2, t1, t2
MCReplicas == {r1, r2}
MCStored == {t1, t2}
MCRequests == 1..3
MCTasks == MCStored \cup MCRequests
Row(v, kind) == [version |-> v, kind |-> kind, by |-> None]
MCCommitted ==
  [t \in MCTasks |-> CASE t = t1 -> <<Row(1, "changed")>>
                       [] t = t2 -> <<Row(1, "changed"), Row(2, "unreadable")>>
                       [] OTHER -> <<>>]
Call(at, rpc, task, expected) == [at |-> at, rpc |-> rpc, task |-> task, expected |-> expected]
MCCalls ==
  {Call(r1, "Create", None, 0), Call(r1, "Get", t1, 0), Call(r1, "Assign", t1, 1),
   Call(r1, "Update", t1, 2), Call(r2, "Delete", t1, 1), Call(r2, "Assign", t2, 2),
   Call(r2, "History", t1, 0)}
===============================================================================
