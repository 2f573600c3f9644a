------------------------------ MODULE EventStore ------------------------------
(***************************************************************************)
(* PostgresEventStore (services/task_service/infrastructure/event_store.py)*)
(* on the table event_store, as the replicas of the task service use it.   *)
(*                                                                         *)
(* main.py gives each process one session, whose transaction begins with   *)
(* the first statement and which nothing commits or rolls back.  A replica *)
(* sees the rows that were committed before (by nobody in this repository) *)
(* and its own; its own rows last as long as its transaction.  SQLAlchemy  *)
(* sends one statement of a session at a time.  An INSERT of a version that*)
(* the open transaction of another replica has inserted waits for the end  *)
(* of that transaction, and the session waits with it.  Any error, and a   *)
(* statement whose coroutine is cancelled, fails the transaction for good. *)
(*                                                                         *)
(* The operators are the parts of a handler's step that touch the store.   *)
(* Of an event's columns the task, the version, what it is and the request *)
(* that recorded it are kept.                                              *)
(***************************************************************************)
EXTENDS Integers, Sequences, SequencesExt, FiniteSetsExt

CONSTANTS Replicas,    \* processes of the task service
          Tasks,       \* aggregate ids
          Callers,     \* the coroutines that may send a statement
          Committed,   \* the committed rows of each task
          None

VARIABLES
  rows,      \* the rows each replica has inserted, for each task
  session,   \* "open", or "failed" from the first error on
  waiting    \* each replica's INSERT that waits: [caller, task, version] or None

storeVars == <<rows, session, waiting>>

NoRows == [t \in Tasks |-> <<>>]

StoreInit ==
  /\ rows = [r \in Replicas |-> NoRows]
  /\ session = [r \in Replicas |-> "open"]
  /\ waiting = [r \in Replicas |-> None]

VersionsIn(events) == {events[n].version : n \in DOMAIN events}

Visible(r, t) == Committed[t] \o rows[r][t]

\* _get_current_version
CurrentVersion(r, t) == Max({0} \cup VersionsIn(Visible(r, t)))

\* get_events, row by row: what _deserialize_event cannot make an event of is
\* left out.
Reads(stored) ==
  LET read[n \in 0..Len(stored)] ==
        IF n = 0 THEN <<>>
        ELSE IF stored[n].kind = "unreadable" THEN read[n - 1]
        ELSE Append(read[n - 1], stored[n])
  IN read

EventsIn(stored) == Reads(stored)[Len(stored)]

Readable(r, t) == EventsIn(Visible(r, t))

\* The session's connection is free for this caller's statement.
MayExecute(r, c) == waiting[r] # None => waiting[r].caller = c

-------------------------------------------------------------------------------
(* The ends of a transaction *)

\* Faulty variant: the session rolls back and goes on.
RolledBack == "open"

\* Nobody rolls back: from now on every statement raises.
AfterError == "failed"

\* An error, or the cancellation of a coroutine in session.execute.
Fails(r) ==
  /\ session' = [session EXCEPT ![r] = AfterError]
  /\ rows' = [rows EXCEPT ![r] = NoRows]
  /\ waiting' = [waiting EXCEPT ![r] = None]

\* The process is gone; the next one opens a new session.
SessionEnds(r) ==
  /\ session' = [session EXCEPT ![r] = "open"]
  /\ rows' = [rows EXCEPT ![r] = NoRows]
  /\ waiting' = [waiting EXCEPT ![r] = None]

-------------------------------------------------------------------------------
(* _insert_event under the unique index on aggregate_id and version *)

\* Faulty variant: without the unique index.
NeverTaken(r, t, v) == FALSE

Taken(r, t, v) == v \in VersionsIn(Visible(r, t))

Holders(r, t, v) == {s \in Replicas \ {r} : v \in VersionsIn(rows[s][t])}

\* The replicas that the waiting INSERT of r waits for.
Blockers(r) ==
  IF waiting[r] = None THEN {}
  ELSE {s \in Replicas \ {r} : waiting[r].version \in VersionsIn(rows[s][waiting[r].task])}

InsertRaises(r, t, e) == session[r] = "failed" \/ Taken(r, t, e.version)

InsertWaits(r, t, e) ==
  ~InsertRaises(r, t, e) /\ Holders(r, t, e.version) # {}

Wait(r, c, t, e) ==
  /\ waiting' = [waiting EXCEPT ![r] = [caller |-> c, task |-> t, version |-> e.version]]
  /\ UNCHANGED <<rows, session>>

Store(r, t, e) ==
  /\ rows' = [rows EXCEPT ![r][t] = Append(@, e)]
  /\ waiting' = [waiting EXCEPT ![r] = None]
  /\ UNCHANGED session
===============================================================================
