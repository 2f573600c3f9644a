CONSTANTS
  None = None
  r1 = r1
  r2 = r2
  t1 = t1
  t2 = t2
  Replicas <- MCReplicas
  MaxRequests = 3
  Callers <- MCRequests
  Tasks <- MCTasks
  Stored <- MCStored
  Committed <- MCCommitted
  Calls <- MCCalls
  MaxStops = 1
SPECIFICATION Spec
INVARIANT
  RefusedLeavesNothing
