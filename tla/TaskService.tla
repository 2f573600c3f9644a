----------------------------- MODULE TaskService -----------------------------
(***************************************************************************)
(* The replicas of the task service: the handlers of TaskServiceServicer   *)
(* (infrastructure/grpc_server.py), each with its unit of work, on the     *)
(* repository and its cache (repository.py), the event store and the life  *)
(* of the process (main.py).                                               *)
(*                                                                         *)
(* A handler yields only where it sends a statement to the event store: an *)
(* action is the answer to one statement and the code up to the next.  An  *)
(* aggregate is shared by reference, as the cache shares it: object[q] is  *)
(* the one that request q has built, and other requests may hold it.       *)
(*                                                                         *)
(* Of an aggregate its events, its version and how many events it was      *)
(* loaded with are kept (TaskAggregate has the rest); of an answer whether *)
(* it is the normal one.  The servicer is taken as registered, which the   *)
(* code has commented out until the stubs are generated, and events as     *)
(* open to assignment.                                                     *)
(***************************************************************************)
EXTENDS EventStore

CONSTANTS MaxRequests,   \* bound: requests that clients make
          Stored,        \* the tasks with committed rows
          Calls,         \* what requests may ask: [at, rpc, task, expected]
          MaxStops       \* bound: signals and crashes

\* Requests are numbered as they arrive; the task that CreateTask makes goes
\* by the number of the request.
Requests == 1..MaxRequests

Kinds == {"changed", "deleted", "rejected", "unreadable"}
Event == [version : Nat, kind : Kinds, by : Requests \cup {None}]

ASSUME TaskServiceAssumption ==
  /\ Tasks = Stored \cup Requests /\ Stored \cap Requests = {}
  /\ Callers = Requests
  /\ None \notin Requests
  /\ Committed \in [Tasks -> Seq(Event)]
  /\ \A t \in Requests : Committed[t] = <<>>
  /\ \A t \in Stored : \A n \in DOMAIN Committed[t] :  \* left by transactions like these
       /\ Committed[t][n].version = n
       /\ Committed[t][n].kind = "deleted" => n = Len(Committed[t])
  /\ \A c \in Calls :
       /\ c.at \in Replicas /\ c.expected \in Nat
       /\ \/ c.rpc = "Create" /\ c.task = None
          \/ c.rpc \in {"Get", "History", "Update", "Assign", "Delete"} /\ c.task \in Stored
  /\ MaxRequests \in Nat /\ MaxStops \in Nat

VARIABLES
  handler,   \* each request: its call, where its handler stands, its locals
  object,    \* the aggregate that the handler has built
  cache,     \* TaskRepository._cache: the request whose aggregate it holds
  process,   \* the stage of each replica's process
  stops      \* signals and crashes so far

requestVars == <<handler, object, cache>>
processVars == <<process, stops>>
vars == <<storeVars, requestVars, processVars>>

NoAggregate == [events |-> <<>>, loaded |-> 0, version |-> 0]
Silent == [pc |-> "none", at |-> None, rpc |-> None, task |-> None, expected |-> 0,
           stage |-> None, agg |-> None, want |-> 0, todo |-> <<>>]

Init ==
  /\ StoreInit
  /\ handler = [q \in Requests |-> Silent]
  /\ object = [q \in Requests |-> NoAggregate]
  /\ cache = [r \in Replicas |-> [t \in Tasks |-> None]]
  /\ process = [r \in Replicas |-> "serving"]
  /\ stops = 0

\* A handler is always at one of its statements.
InFlight(q) == handler[q].pc \in {"load", "version", "insert"}
Arrives(q) == handler[q].pc = "none" /\ \A p \in 1..(q - 1) : handler[p].pc # "none"
InFlightAt(r) == {q \in Requests : InFlight(q) /\ handler[q].at = r}

-------------------------------------------------------------------------------
(* The end of a handler, and the beginning of save_events *)

Answered(answer) == [Silent EXCEPT !.pc = answer]
Answer(q, answer) == handler' = [handler EXCEPT ![q] = Answered(answer)]

\* save_events begins, for the call h: its first statement reads the version,
\* and events is a copy of the uncommitted ones.
SaveEvents(q, h, stage, a, want, events) ==
  handler' = [handler EXCEPT ![q] =
    [h EXCEPT !.pc = "version", !.stage = stage, !.agg = a, !.want = want, !.todo = events]]

Uncommitted(o) == SubSeq(o.events, o.loaded + 1, Len(o.events))

\* What the aggregate itself takes the stored version to be.
OwnExpectation(o) == o.version - Len(Uncommitted(o))

-------------------------------------------------------------------------------
(* Commands *)

IsDeleted(events) == \E n \in DOMAIN events : events[n].kind = "deleted"

(* How a command on an aggregate may end: ValueError, nothing to change, an*)
(* event, or an event that apply_event refuses once it is recorded.        *)
Outcomes(rpc, o) ==
  IF IsDeleted(o.events) THEN {"refused"}
  ELSE CASE rpc = "Create" -> {"refused", "changed"}
         [] rpc = "Update" -> {"refused", "unchanged", "changed", "rejected"}
         [] rpc = "Assign" -> {"refused", "unchanged", "changed"}
         [] rpc = "Delete" -> {"refused", "deleted"}

\* AggregateRoot.raise_event
After(o, outcome, q) ==
  IF outcome \in {"refused", "unchanged"} THEN o
  ELSE [o EXCEPT !.events = Append(@, [version |-> o.version + 1, kind |-> outcome, by |-> q]),
                 !.version = IF outcome = "rejected" THEN @ ELSE @ + 1]

(* The command on the aggregate o that request a has built, and the body of*)
(* the unit of work.  Without events repository.save returns, and so does  *)
(* the commit.  A new task is saved without a version from the request.    *)
Command(q, h, a, o) ==
  \E outcome \in Outcomes(h.rpc, o) :
    LET new == After(o, outcome, q)
        events == Uncommitted(new)
        want == IF h.rpc = "Create" THEN OwnExpectation(new) ELSE h.expected
    IN /\ object' = [object EXCEPT ![a] = new]
       /\ CASE outcome \in {"refused", "rejected"} -> Answer(q, "error")
            [] events = <<>> -> Answer(q, "ok")
            [] OTHER -> SaveEvents(q, h, "save", a, want, events)

\* A handler goes on with what get_by_id has found.
Proceed(q, h, a, o) ==
  IF h.rpc = "Get"
  THEN Answer(q, "ok") /\ object' = [object EXCEPT ![a] = o]
  ELSE Command(q, h, a, o)

-------------------------------------------------------------------------------
(* The handlers *)

Called(c) == [Silent EXCEPT !.at = c.at, !.rpc = c.rpc, !.task = c.task, !.expected = c.expected]

\* CreateTask: a new aggregate.
CreateTask(q) ==
  /\ Arrives(q)
  /\ \E c \in Calls :
       /\ c.rpc = "Create"
       /\ process[c.at] = "serving"
       /\ Command(q, [Called(c) EXCEPT !.task = q], q, NoAggregate)
  /\ UNCHANGED <<storeVars, cache, processVars>>

\* The other handlers: get_by_id finds the task in the cache, or sends a query.
Receive(q) ==
  /\ Arrives(q)
  /\ \E c \in Calls :
       /\ c.rpc # "Create"
       /\ process[c.at] = "serving"
       /\ LET a == cache[c.at][c.task] IN
          IF a = None \/ c.rpc = "History"
          THEN /\ handler' = [handler EXCEPT ![q] = [Called(c) EXCEPT !.pc = "load"]]
               /\ UNCHANGED object
          ELSE Proceed(q, Called(c), a, object[a])
  /\ UNCHANGED <<storeVars, cache, processVars>>

\* The handler's statement can be answered.
Executes(q, statement) ==
  /\ handler[q].pc = statement
  /\ MayExecute(handler[q].at, q)

(* get_events returns.  The aggregate is rebuilt and put into the cache, in*)
(* the place of one that another request may have put there meanwhile; a   *)
(* deleted task is not found.                                              *)
Load(q) ==
  /\ Executes(q, "load")
  /\ LET h == handler[q]
         events == Readable(h.at, h.task)
         rebuilds == \A n \in DOMAIN events : events[n].kind # "rejected"
         o == [events |-> events, loaded |-> Len(events),
               version |-> IF events = <<>> THEN 0 ELSE Last(events).version]
     IN IF h.rpc = "History" /\ session[h.at] = "open"
        THEN Answer(q, "ok") /\ UNCHANGED <<object, cache>>
        ELSE IF session[h.at] = "failed" \/ ~rebuilds \/ events = <<>> \/ IsDeleted(events)
        THEN Answer(q, "error") /\ UNCHANGED <<object, cache>>
        ELSE /\ cache' = [cache EXCEPT ![h.at][h.task] = q]
             /\ Proceed(q, h, q, o)
  /\ UNCHANGED <<storeVars, processVars>>

VersionMatches(q) == CurrentVersion(handler[q].at, handler[q].task) = handler[q].want

\* Faulty variant: a conflict is tried again, with the same version.
AsksAgain(q) == UNCHANGED handler

Conflicts(q) == Answer(q, "error")

\* _get_current_version returns: the conflict, or the first INSERT.
CheckVersion(q) ==
  /\ Executes(q, "version")
  /\ IF session[handler[q].at] = "failed" THEN Answer(q, "error")
     ELSE IF VersionMatches(q) THEN handler' = [handler EXCEPT ![q].pc = "insert"]
     ELSE Conflicts(q)
  /\ UNCHANGED <<storeVars, object, cache, processVars>>

\* Faulty variant: the repository does not put what it saved into the cache.
CacheAsBefore(q) == cache

CacheSaved(q) == [cache EXCEPT ![handler[q].at][handler[q].task] = handler[q].agg]

(* The last INSERT has returned.  repository.save sets the cache, and the  *)
(* unit of work commits: it saves the events, which nobody has cleared,    *)
(* with the version that the aggregate expects.  After that the events are *)
(* published (see UnitOfWork) and marked as committed.                     *)
Saved(q) ==
  LET h == handler[q]
      o == object[h.agg]
  IN IF h.stage = "save"
     THEN /\ cache' = CacheSaved(q)
          /\ SaveEvents(q, h, "commit", h.agg, OwnExpectation(o), Uncommitted(o))
          /\ UNCHANGED object
     ELSE /\ object' = [object EXCEPT ![h.agg].loaded = Len(o.events)]
          /\ Answer(q, "ok")
          /\ UNCHANGED cache

Insert(q) ==
  /\ Executes(q, "insert")
  /\ LET h == handler[q]
         e == Head(h.todo)
         rest == Tail(h.todo)
     IN IF InsertRaises(h.at, h.task, e)
        THEN Fails(h.at) /\ Answer(q, "error") /\ UNCHANGED <<object, cache>>
        ELSE IF InsertWaits(h.at, h.task, e)
        THEN Wait(h.at, q, h.task, e) /\ UNCHANGED requestVars
        ELSE /\ Store(h.at, h.task, e)
             /\ IF rest = <<>> THEN Saved(q)
                ELSE /\ handler' = [handler EXCEPT ![q].todo = rest]
                     /\ UNCHANGED <<object, cache>>
  /\ UNCHANGED processVars

-------------------------------------------------------------------------------
(* Cancellation, and the life of a process *)

(* A statement ends otherwise: the client goes away or its deadline passes,*)
(* the connection is lost, or PostgreSQL aborts the transaction because it *)
(* and others wait for each other.                                         *)
StatementFails(q) ==
  /\ InFlight(q)
  /\ Fails(handler[q].at)
  /\ Answer(q, "error")
  /\ UNCHANGED <<object, cache, processVars>>

GiveUpAll(r) ==
  handler' = [q \in Requests |-> IF q \in InFlightAt(r) THEN Answered("error") ELSE handler[q]]

\* A signal runs shutdown(); a second one would find _running cleared.
Signal(r) ==
  /\ process[r] = "serving"
  /\ stops < MaxStops
  /\ stops' = stops + 1
  /\ process' = [process EXCEPT ![r] = "stopping"]
  /\ UNCHANGED <<storeVars, requestVars>>

\* Faulty variant: stop() without a grace, which waits for the handlers.
WithoutGrace(r) == FALSE

GraceOver(r) == InFlightAt(r) # {}

\* The five seconds of server.stop are over: what still runs is cancelled.
GraceEnds(r) ==
  /\ process[r] = "stopping"
  /\ GraceOver(r)
  /\ GiveUpAll(r)
  /\ Fails(r)
  /\ UNCHANGED <<object, cache, processVars>>

\* The server has stopped: publisher.stop and engine.dispose follow.
ServerStops(r) ==
  /\ process[r] = "stopping"
  /\ InFlightAt(r) = {}
  /\ process' = [process EXCEPT ![r] = "closing"]
  /\ UNCHANGED <<storeVars, requestVars, stops>>

InMemoryOf(r) == {cache[r][t] : t \in Tasks} \cup {handler[q].agg : q \in InFlightAt(r)}

\* The process ends, and with it its session and all that it had in memory.
Exit(r) ==
  /\ process' = [process EXCEPT ![r] = "exited"]
  /\ SessionEnds(r)
  /\ cache' = [cache EXCEPT ![r] = [t \in Tasks |-> None]]
  /\ GiveUpAll(r)
  /\ object' = [q \in Requests |->
       IF \E s \in Replicas \ {r} : q \in InMemoryOf(s) THEN object[q] ELSE NoAggregate]

(* With the server, serve_forever and start() end, start()'s own call of   *)
(* shutdown() returns at once, and asyncio.run cancels the shutdown that   *)
(* the signal started, wherever it stands.                                 *)
MainReturns(r) ==
  /\ process[r] = "closing"
  /\ Exit(r)
  /\ UNCHANGED stops

Crash(r) ==
  /\ process[r] = "serving"
  /\ stops < MaxStops
  /\ stops' = stops + 1
  /\ Exit(r)

\* The deployment starts the process again, with a new session and cache.
Restart(r) ==
  /\ process[r] = "exited"
  /\ process' = [process EXCEPT ![r] = "serving"]
  /\ UNCHANGED <<storeVars, requestVars, stops>>

Handles(q) == Load(q) \/ CheckVersion(q) \/ Insert(q)
Ends(r) == GraceEnds(r) \/ ServerStops(r) \/ MainReturns(r)

Next ==
  \/ \E q \in Requests : CreateTask(q) \/ Receive(q) \/ Handles(q) \/ StatementFails(q)
  \/ \E r \in Replicas : Signal(r) \/ Ends(r) \/ Crash(r) \/ Restart(r)

Spec == Init /\ [][Next]_vars

(* Some handler whose statement is answered is resumed, and the database   *)
(* answers every statement that it can; the grace is a timeout.            *)
FairSpec ==
  /\ Spec
  /\ WF_vars(\E q \in Requests : Handles(q))
  /\ WF_vars(\E r \in Replicas : Ends(r))

-------------------------------------------------------------------------------
(* The unique index and the transactions keep every stream that a replica  *)
(* sees whole: its versions count from 1 without a gap, it ends with the   *)
(* deletion of its task, and no two replicas hold the same version.        *)
StreamsAreWhole ==
  \A r \in Replicas, t \in Tasks :
    LET events == Visible(r, t) IN
    /\ \A n \in DOMAIN events :
         /\ events[n].version = n
         /\ events[n].kind = "deleted" => n = Len(events)
    /\ \A s \in Replicas \ {r} : VersionsIn(rows[r][t]) \cap VersionsIn(rows[s][t]) = {}

(* The cache keeps up with the session: whatever was loaded twice, saved   *)
(* half or refused, a cached aggregate knows every event that its replica  *)
(* would read, unless a save of that task is between its statements.       *)
BeingSaved(r, t) ==
  \E q \in InFlightAt(r) : handler[q].pc = "insert" /\ handler[q].stage = "save" /\ handler[q].task = t

CacheKeepsUp ==
  \A r \in Replicas, t \in Tasks :
    cache[r][t] # None /\ ~BeingSaved(r, t) =>
      ToSet(Readable(r, t)) \subseteq ToSet(object[cache[r][t]].events)

(* Every request is answered in the end, whatever fails, is cancelled or   *)
(* shut down, unless a transaction of another replica keeps its waiting.   *)
RequestsAnswered ==
  <>[](\A r \in Replicas : InFlightAt(r) # {} => Blockers(r) # {})

(* As long as a session has not failed, what its replica holds in memory,  *)
(* in the cache or in a handler, was loaded from rows that are still there,*)
(* whatever was saved, refused or lost since.  (When the session fails, its*)
(* rows are gone and nobody tells the cache.)                              *)
HeldFor(r, t) ==
  {cache[r][t]} \cup {handler[q].agg : q \in {p \in InFlightAt(r) : handler[p].task = t}}

MemoryWasLoaded ==
  \A r \in Replicas, t \in Tasks :
    \A a \in HeldFor(r, t) \ {None} :
      session[r] = "open" =>
        IsPrefix(SubSeq(object[a].events, 1, object[a].loaded), Readable(r, t))

(* A signal ends the process, also one whose session hangs on a row of     *)
(* another replica.                                                        *)
SignalEndsProcess ==
  <>[](\A r \in Replicas : process[r] \in {"serving", "exited"})

(* unit_of_work.py, "Ensures atomicity for event-sourced aggregates": a    *)
(* request that was answered with an error has left none of its events in  *)
(* the store, for its replica to read and to build on.                     *)
RefusedLeavesNothing ==
  \A q \in Requests : handler[q].pc = "error" =>
    \A r \in Replicas, t \in Tasks :
      \A n \in DOMAIN rows[r][t] : rows[r][t][n].by # q
===============================================================================
