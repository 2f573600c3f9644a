----------------------------- MODULE TaskAggregate -----------------------------
(***************************************************************************)
(* The event-sourced task (services/task_service/domain/aggregates.py and  *)
(* value_objects.py) on its base class AggregateRoot (libs/common/         *)
(* unit_of_work.py): commands that check the live state and raise an event,*)
(* raise_event that records the event and then applies it, from_events, and*)
(* the two that save recorded events, TaskRepository.save and              *)
(* UnitOfWork.commit with its wait for the publishing.                     *)
(*                                                                         *)
(* The cache hands the live aggregate to every handler, so a command may   *)
(* come at any time, also while a unit waits.  The store is its interface: *)
(* a save checks the version and appends in one step (TaskService has the  *)
(* statements apart, and the handlers that interleave between them), and   *)
(* it gives back the events it was given.  A unit tracks this one task.    *)
(*                                                                         *)
(* The events are declared as instances of a frozen dataclass, on which    *)
(* raise_event's two assignments raise.  The module is what all the other  *)
(* lines of the classes do, with events that can be stamped.               *)
(*                                                                         *)
(* A title is one of a few texts, with str(title) as the map Stripped.     *)
(* Description and labels, which are replaced whole, are one flag of an    *)
(* update; time stamps and due dates are left out.                         *)
(***************************************************************************)
EXTENDS Integers, Sequences

CONSTANTS
  Titles,         \* the title texts that commands carry
  Priorities,     \* the priorities that commands carry
  Users,          \* the users that commands carry
  MaxEvents       \* bound: events on the live task, loaded and recorded

None == "None"

\* Two texts without blanks around them, one with, and one that is three
\* characters long only with its blank.
Stripped == [t \in {"abc", "xyz", " abc", " ab", "ab"} |->
               CASE t = " abc" -> "abc" [] t = " ab" -> "ab" [] OTHER -> t]
LongEnough == {"abc", "xyz", " abc", " ab"}

ASSUME TaskAssumption ==
  /\ Titles \subseteq LongEnough      \* command.validate(); blanks only are left out
  /\ Priorities \subseteq {"low", "medium", "high", "critical"}
  /\ None \notin Users
  /\ MaxEvents \in Nat

Statuses == {"backlog", "todo", "in_progress", "in_review", "done", "archived"}

\* TaskStatus.can_transition_to
ValidTransitions ==
  [backlog     |-> {"todo", "archived"},
   todo        |-> {"in_progress", "backlog", "archived"},
   in_progress |-> {"in_review", "todo", "done"},
   in_review   |-> {"done", "in_progress", "todo"},
   done        |-> {"archived", "todo"},
   archived    |-> {"backlog"}]

VARIABLES
  task,          \* the live aggregate's fields
  version,       \* its version
  uncommitted,   \* _uncommitted_events
  stream,        \* the events of the task in the store
  handler,       \* a command has "returned" to its handler, the repository has
                 \* "saved", or the handler is "over" or has raised
  publishing     \* a unit has saved, and waits for its publish tasks

\* What has been, for the properties: the state of the live task at each of its
\* versions, and whether an event that was applied was cleared and not stored.
VARIABLES was, lost

live == <<task, version, uncommitted, was>>
vars == <<live, stream, handler, publishing, lost>>

\* cls(aggregate_id): the aggregate before its first event.
Blank == [title |-> "Untitled", priority |-> "medium", status |-> "backlog",
          assignee |-> None, is_deleted |-> FALSE,
          priority_changes |-> 0, assignee_changes |-> 0]

Init ==
  /\ task = Blank
  /\ version = 0
  /\ uncommitted = <<>>
  /\ stream = <<>>
  /\ handler = "over"
  /\ publishing = FALSE
  /\ was = [v \in 0..0 |-> Blank]
  /\ lost = FALSE

-------------------------------------------------------------------------------
(* apply_event and from_events *)

Or(new, old) == IF new = None THEN old ELSE new

\* Every field that an event does not change is None in it.
Apply(t, e) ==
  CASE e.type = "task.created" ->
         [Blank EXCEPT !.title = e.title, !.priority = e.priority, !.assignee = e.assignee]
    [] e.type = "task.deleted" -> [t EXCEPT !.is_deleted = TRUE]
    [] OTHER ->
         [t EXCEPT !.title = Or(e.title, @),
                   !.status = Or(e.status, @),
                   !.priority = Or(e.priority, @),
                   !.assignee = Or(e.assignee, @),
                   !.priority_changes = IF e.priority = None THEN @ ELSE @ + 1,
                   !.assignee_changes = IF e.assignee = None THEN @ ELSE @ + 1]

\* TaskTitle raises on a text that is too short.
Applies(e) == e.title \in LongEnough \cup {None}

Broken == [broken |-> TRUE]

\* The aggregate after each prefix of a stream, Broken once apply_event raised.
After(events) ==
  LET after[n \in 0..Len(events)] ==
        IF n = 0 THEN Blank
        ELSE IF after[n - 1] = Broken \/ ~Applies(events[n]) THEN Broken
        ELSE Apply(after[n - 1], events[n])
  IN after

FromEvents(events) == After(events)[Len(events)]

-------------------------------------------------------------------------------
(* raise_event *)

Event(type) == [type |-> type, version |-> 0, title |-> None, status |-> None,
                priority |-> None, assignee |-> None]

\* How many events the live task has, refused ones that are recorded included.
Events == IF uncommitted = <<>> THEN version
          ELSE uncommitted[1].version - 1 + Len(uncommitted)

\* Faulty variant: the recorded events are counted, and not those applied.
AfterRecorded == Events + 1

NextVersion == version + 1

Recorded(e) == Append(uncommitted, [e EXCEPT !.version = NextVersion])

(* Stamp, record, apply, count.  When apply_event raises, the event stays  *)
(* recorded and the version is not counted up.                             *)
RaiseEvent(e) ==
  /\ Events < MaxEvents
  /\ uncommitted' = Recorded(e)
  /\ \/ /\ Applies(e)
        /\ task' = Apply(task, e)
        /\ version' = version + 1
        /\ was' = [v \in 0..version + 1 |-> IF v > version THEN task' ELSE was[v]]
        /\ handler' = "returned"
     \/ /\ ~Applies(e)
        /\ handler' = "over"
        /\ UNCHANGED <<task, version, was>>

\* A command that raises ValueError, or finds nothing to change.
Refuse == handler' = "over" /\ UNCHANGED live
NoChange == handler' = "returned" /\ UNCHANGED live

Exists == version > 0

\* Faulty variant: the deleted flag is not looked at.
AnyTask == Exists

NotDeleted == Exists /\ ~task.is_deleted

\* _validate_not_deleted, and then the rest of the command.
OnTask(action) ==
  /\ Exists
  /\ \/ ~NotDeleted /\ Refuse
     \/ NotDeleted /\ action
  /\ UNCHANGED <<stream, publishing, lost>>

-------------------------------------------------------------------------------
(* The commands *)

Create(title, priority, assignee) ==
  /\ version = 0 /\ uncommitted = <<>> /\ stream = <<>>
  /\ RaiseEvent([Event("task.created") EXCEPT
       !.title = title, !.priority = priority, !.assignee = assignee])
  /\ UNCHANGED <<stream, publishing, lost>>

Allowed(to) == to \in ValidTransitions[task.status]

\* The fields that differ; a title is compared, and recorded, without blanks.
NewTitle(title) ==
  IF title = None \/ title = Stripped[task.title] THEN None ELSE Stripped[title]
Changed(new, old) == IF new = old THEN None ELSE new

Update(title, status, priority, other) ==
  OnTask(
    LET e == [Event("task.updated") EXCEPT
                !.title = NewTitle(title),
                !.status = Changed(status, task.status),
                !.priority = Changed(priority, task.priority)]
    IN \/ e.status # None /\ ~Allowed(e.status) /\ Refuse
       \/ /\ e.status = None \/ Allowed(e.status)
          /\ \/ e = Event("task.updated") /\ ~other /\ NoChange
             \/ (e # Event("task.updated") \/ other) /\ RaiseEvent(e))

Assign(user) ==
  OnTask(\/ task.assignee = user /\ NoChange
         \/ task.assignee # user
            /\ RaiseEvent([Event("task.assigned") EXCEPT !.assignee = user]))

\* The transition is validated first: a status to itself is refused.
ChangeStatus(status) ==
  OnTask(\/ ~Allowed(status) /\ Refuse
         \/ /\ Allowed(status)
            /\ RaiseEvent([Event("task.status_changed") EXCEPT !.status = status]))

ChangePriority(priority) ==
  OnTask(\/ priority = task.priority /\ NoChange
         \/ priority # task.priority
            /\ RaiseEvent([Event("task.priority_changed") EXCEPT !.priority = priority]))

Delete == OnTask(RaiseEvent(Event("task.deleted")))

-------------------------------------------------------------------------------
(* Saves *)

\* MAX(version) of the task's rows, or 0.
CurrentVersion(v) ==
  /\ v \in {0} \cup {stream[n].version : n \in DOMAIN stream}
  /\ \A n \in DOMAIN stream : stream[n].version <= v

\* Faulty variant: no unique index on the versions of a task.
AnyVersions(events) == TRUE

\* The unique index takes the events: each has a version of its own.
NewVersions(events) ==
  /\ \A n \in DOMAIN events, m \in DOMAIN stream : events[n].version # stream[m].version
  /\ \A m, n \in DOMAIN events : m # n => events[m].version # events[n].version

\* save_events: a version conflict, an IntegrityError, or all of the events.
Accepted(events, expected) == CurrentVersion(expected) /\ NewVersions(events)

\* Faulty variant: of the recorded events only the last is saved.
LastRecorded == SubSeq(uncommitted, Len(uncommitted), Len(uncommitted))

\* get_uncommitted_events
Uncommitted == uncommitted

(* TaskRepository.save, when a command has returned to its handler.  A     *)
(* request names the version it expects; a new task is saved with its own. *)
(* What is stored stays among the uncommitted events.                      *)
RepositorySave(expected) ==
  /\ handler = "returned"
  /\ \/ /\ Uncommitted # <<>> /\ Accepted(Uncommitted, expected)
        /\ stream' = stream \o Uncommitted
        /\ handler' = "saved"
     \/ /\ Uncommitted # <<>> /\ ~Accepted(Uncommitted, expected)
        /\ handler' = "over"
        /\ UNCHANGED stream
     \/ /\ Uncommitted = <<>>
        /\ handler' = "saved"
        /\ UNCHANGED stream
  /\ UNCHANGED <<live, publishing, lost>>

(* UnitOfWork.commit, at the end of the unit around a command, with or     *)
(* without a save by the repository in it: the events that are still       *)
(* uncommitted are saved, at the version before them, and published.       *)
CommitSaves ==
  /\ handler \in {"returned", "saved"}
  /\ LET expected == version - Len(Uncommitted) IN
     \/ /\ Uncommitted # <<>> /\ Accepted(Uncommitted, expected)
        /\ stream' = stream \o Uncommitted
        /\ publishing' = TRUE
        /\ handler' = "over"
     \/ /\ Uncommitted # <<>> /\ ~Accepted(Uncommitted, expected)
        /\ handler' = "over"
        /\ UNCHANGED <<stream, publishing>>
     \/ /\ Uncommitted = <<>>
        /\ handler' = "over"
        /\ UNCHANGED <<stream, publishing>>
  /\ UNCHANGED <<live, lost>>

\* The store does not have the version that the live task has reached.
Behind == version > 0 /\ \A n \in DOMAIN stream : stream[n].version # version

(* The publish tasks are done, or the wait of 10 s is over:                *)
(* mark_events_committed clears every event, also those raised meanwhile.  *)
CommitEnds ==
  /\ publishing
  /\ publishing' = FALSE
  /\ uncommitted' = <<>>
  /\ lost' = (lost \/ Behind)
  /\ UNCHANGED <<task, version, was, stream, handler>>

\* The wait is cancelled: CancelledError passes by the except clause, and what
\* is stored stays recorded.
CommitCancelled ==
  /\ publishing
  /\ publishing' = FALSE
  /\ UNCHANGED <<live, stream, handler, lost>>

-------------------------------------------------------------------------------
(* Loads *)

LoadedVersion == stream[Len(stream)].version

(* The live object is dropped, with what it had not saved, and from_events *)
(* makes a new one, or raises.  A unit that still waits holds the old one. *)
(* (The rows are sorted by version, which is the order they were stored in:*)
(* see StoredInOrder.)                                                     *)
Reload ==
  /\ stream # <<>>
  /\ LET loaded == FromEvents(stream) IN
     \/ /\ loaded # Broken
        /\ task' = loaded
        /\ version' = LoadedVersion
        /\ uncommitted' = <<>>
        /\ was' = [v \in 0..LoadedVersion |-> was[v]]
        /\ handler' = "over"
        /\ publishing' = FALSE
     \/ /\ loaded = Broken
        /\ handler' = "over"
        /\ UNCHANGED <<live, publishing>>
  /\ UNCHANGED <<stream, lost>>

Next ==
  \/ \E t \in Titles, p \in Priorities, u \in Users \cup {None} : Create(t, p, u)
  \/ \E t \in Titles \cup {None}, s \in Statuses \cup {None},
        p \in Priorities \cup {None} : Update(t, s, p, FALSE)
  \/ Update(None, None, None, TRUE)    \* with a title, status or priority: as above
  \/ \E u \in Users : Assign(u)
  \/ \E s \in Statuses : ChangeStatus(s)
  \/ \E p \in Priorities : ChangePriority(p)
  \/ Delete
  \/ \E expected \in 0..MaxEvents : RepositorySave(expected)
  \/ CommitSaves \/ CommitEnds \/ CommitCancelled
  \/ Reload

Spec == Init /\ [][Next]_vars

-------------------------------------------------------------------------------
(* An event is stored once and in its place, although it stays recorded    *)
(* after repository.save and after a cancelled commit, a refused event     *)
(* shares its version with the next one, and others are cleared unsaved.   *)
StoredInOrder ==
  \A m, n \in DOMAIN stream : m < n => stream[m].version < stream[n].version

AllApply(events) == \A n \in DOMAIN events : Applies(events[n])

(* Whatever was saved twice, refused, cancelled or dropped in between: what*)
(* from_events makes of the stored events is what the live task was when it*)
(* reached that version, and no version is missing, unless an event was    *)
(* lost or a refused one was stored.                                       *)
StoredIsWhatWas ==
  ~lost /\ AllApply(stream) =>
    /\ \A n \in DOMAIN stream : stream[n].version = n
    /\ Len(stream) <= version
    /\ FromEvents(stream) = was[Len(stream)]

(* The task has walked legally through the statuses, by whichever of the   *)
(* two commands each step was made, before and after loads, and stopped at *)
(* its deletion.  (A load of a stream in which an event is lost may skip a *)
(* step.)                                                                  *)
HistoryIsLegal ==
  ~lost =>
    \A v \in 1..version :
      /\ ~was[v - 1].is_deleted
      /\ was[v].status # was[v - 1].status =>
           was[v].status \in ValidTransitions[was[v - 1].status]

(* A refused event, which a later save may store, is the last of its task, *)
(* as from_events raises on it: what is recorded after it shares its       *)
(* version, or a save with it.                                             *)
RefusedIsLast ==
  ~lost => \A n \in DOMAIN stream : ~Applies(stream[n]) => n = Len(stream)

===============================================================================
