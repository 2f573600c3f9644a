------------------------------ MODULE UnitOfWork ------------------------------
(***************************************************************************)
(* UnitOfWork.commit (libs/common/unit_of_work.py) with the publish() of   *)
(* EventPublisher (libs/common/event_bus.py) that its tasks retry, on an   *)
(* event store that other writers use as well.  A caller whose commit      *)
(* failed may put the same aggregates, which still hold their uncommitted  *)
(* events, into a new unit.                                                *)
(*                                                                         *)
(* An aggregate starts from an empty stream and its events have the        *)
(* versions 1, 2, ...  A send ends in one of four ways: the record is in   *)
(* the topic, an exception without or with that effect, or not at all;     *)
(* time passes in seconds, and what is ready goes before the clock.        *)
(*                                                                         *)
(* Nobody raises an event on a tracked aggregate while its unit waits: the *)
(* commit would clear it unsaved, which is in TaskAggregate.               *)
(***************************************************************************)
EXTENDS Integers, Sequences, FiniteSets

CONSTANTS
  Tracked,      \* the tracked aggregates, in the order of the dict
  Uncommitted,  \* how many uncommitted events each starts with
  MaxForeign,   \* bound: events appended by other writers
  MaxUnits      \* bound: units tried with these aggregates

Aggregates == {Tracked[k] : k \in DOMAIN Tracked}

ASSUME UnitAssumption ==
  /\ Tracked \in Seq(Aggregates)
  /\ Cardinality(Aggregates) = Len(Tracked)
  /\ Uncommitted \in [Aggregates -> Nat]
  /\ MaxForeign \in Nat /\ MaxUnits \in Nat \ {0}

Sends == 3           \* stop_after_attempt(3) of publish()
Rounds == 3          \* max_retries of _publish_with_retry
PublishTimeout == 10 \* of asyncio.wait

VARIABLES
  pc,           \* where the unit stands
  at,           \* position in Tracked of the aggregate being saved
  uncommitted,  \* len(_uncommitted_events) of each aggregate
  to_publish,   \* _events_to_publish
  task,         \* the publish task of each event
  clock,        \* seconds since commit() began to wait for them
  units,        \* units begun so far
  stream,       \* the store: the events of each aggregate, 0 for a foreign one
  topic         \* the events of which the topic has a record

unitVars == <<pc, at, uncommitted, to_publish, units>>
vars == <<unitVars, task, clock, stream, topic>>

Events == UNION {{a} \X (1..Uncommitted[a]) : a \in Aggregates}
Stored == {e \in Events : \E n \in DOMAIN stream[e[1]] : stream[e[1]][n] = e[2]}

Live == {"sending", "waiting"}
NoTask == [at |-> "none", tries |-> 0, round |-> 0, left |-> 0]
Ended == {"committed", "rolled_back", "cancelled"}

UnitTypeOK ==
  /\ pc \in {"open", "saving", "publishing"} \cup Ended
  /\ at \in 0..Len(Tracked)
  /\ uncommitted \in [Aggregates -> Nat]
  /\ to_publish \subseteq Events
  /\ task \in [Events -> [at : {"none", "done", "failed", "cancelled"} \cup Live,
                          tries : 0..Sends - 1, round : 0..Rounds - 1, left : 0..2]]
  /\ clock \in 0..PublishTimeout
  /\ units \in 1..MaxUnits
  /\ stream \in [Aggregates -> Seq(Nat)]
  /\ topic \subseteq Events

Init ==
  /\ pc = "open"
  /\ at = 0
  /\ uncommitted = Uncommitted
  /\ to_publish = {}
  /\ task = [e \in Events |-> NoTask]
  /\ clock = 0
  /\ units = 1
  /\ stream = [a \in Aggregates |-> <<>>]
  /\ topic = {}

-------------------------------------------------------------------------------
(* commit(): saving *)

\* The end of commit(): mark_events_committed and _committed.
MarkCommitted ==
  /\ pc' = "committed"
  /\ uncommitted' = [a \in Aggregates |-> 0]

\* rollback() forgets what is tracked; the aggregates keep their events.
Rollback ==
  /\ pc' = "rolled_back"
  /\ to_publish' = {}
  /\ UNCHANGED <<at, uncommitted>>

\* One task for each event, all of them started before commit() waits.
StartPublishing(events) ==
  /\ task' = [e \in Events |-> IF e \in events THEN [NoTask EXCEPT !.at = "sending"] ELSE task[e]]
  /\ clock' = 0
  /\ \/ events # {} /\ pc' = "publishing" /\ UNCHANGED uncommitted
     \/ events = {} /\ MarkCommitted

(* From position k of the loop over the aggregates to the next one with    *)
(* uncommitted events, or out of the loop.                                 *)
Proceed(k, events) ==
  /\ to_publish' = events
  /\ \E j \in (k + 1)..(Len(Tracked) + 1) :
       /\ \A i \in (k + 1)..(j - 1) : uncommitted[Tracked[i]] = 0
       /\ \/ /\ j <= Len(Tracked)
             /\ uncommitted[Tracked[j]] > 0
             /\ at' = j
             /\ pc' = "saving"
             /\ UNCHANGED <<uncommitted, task, clock>>
          \/ /\ j > Len(Tracked)
             /\ UNCHANGED at
             /\ StartPublishing(events)

\* __aexit__ after a body without exception.
Commit ==
  /\ pc = "open"
  /\ Proceed(0, {})
  /\ UNCHANGED <<units, stream, topic>>

\* __aexit__ after an exception.
BodyRaises ==
  /\ pc = "open"
  /\ Rollback
  /\ UNCHANGED <<units, task, clock, stream, topic>>

EventsOf(a) == {e \in Events : e[1] = a}

\* Faulty variant: the store does not compare the versions.
AnyVersion(a) == TRUE

\* expected_version is aggregate.version - len(events): the stream was empty.
VersionMatches(a) == Len(stream[a]) = Uncommitted[a] - uncommitted[a]

Appended(a) == stream' = [stream EXCEPT ![a] = @ \o [n \in 1..Uncommitted[a] |-> n]]

SaveReturns ==
  /\ pc = "saving"
  /\ LET a == Tracked[at] IN
       /\ VersionMatches(a)
       /\ Appended(a)
       /\ Proceed(at, to_publish \cup EventsOf(a))
  /\ UNCHANGED <<units, topic>>

\* Faulty variant: the error is logged and the next aggregate is saved.
CarriesOn == Proceed(at, to_publish \cup EventsOf(Tracked[at]))

OnSaveError == Rollback /\ UNCHANGED <<task, clock>>

\* A version conflict, or an error of the database.
SaveRaises ==
  /\ pc = "saving"
  /\ OnSaveError
  /\ UNCHANGED <<units, stream, topic>>

-------------------------------------------------------------------------------
(* _publish_with_retry and publish(), in a task for each event *)

SendReturns(e) ==
  /\ task[e].at = "sending"
  /\ task' = [task EXCEPT ![e].at = "done"]
  /\ topic' = topic \cup {e}
  /\ UNCHANGED <<unitVars, clock, stream>>

\* Faulty variant: the waits do not grow.
WaitsFlat(n) == 1

\* wait_exponential(multiplier=1, min=1, max=10) and sleep(2 ** attempt).
WaitAfter(n) == 2 ^ n

\* The last try of a round makes publish() raise; the last round gives up.
AfterFailure(t) ==
  IF t.tries < Sends - 1
  THEN [t EXCEPT !.at = "waiting", !.tries = @ + 1, !.left = WaitAfter(t.tries)]
  ELSE IF t.round < Rounds - 1
  THEN [t EXCEPT !.at = "waiting", !.tries = 0, !.round = @ + 1, !.left = WaitAfter(t.round)]
  ELSE [t EXCEPT !.at = "failed"]

SendRaises(e) ==
  /\ task[e].at = "sending"
  /\ task' = [task EXCEPT ![e] = AfterFailure(@)]
  /\ topic' \in {topic, topic \cup {e}}
  /\ UNCHANGED <<unitVars, clock, stream>>

SendsAgain(e) ==
  /\ task[e].at = "waiting"
  /\ task[e].left = 0
  /\ task' = [task EXCEPT ![e].at = "sending"]
  /\ UNCHANGED <<unitVars, clock, stream, topic>>

-------------------------------------------------------------------------------
(* commit(): the wait for the tasks *)

\* Faulty variants: wait() has no timeout; what is pending is left running.
NeverTimesOut == FALSE
LeftRunning(e) == task[e]

TimedOut == clock = PublishTimeout
Cancelled(e) == IF task[e].at \in Live THEN [task[e] EXCEPT !.at = "cancelled"] ELSE task[e]

AllOver == \A e \in to_publish : task[e].at \notin Live

(* All tasks are over, with or without an exception at which nobody looks, *)
(* or the timeout has passed: what is pending is cancelled, the send in    *)
(* flight reaches the topic or does not, and the unit is committed.        *)
WaitEnds ==
  /\ pc = "publishing"
  /\ AllOver \/ TimedOut
  /\ task' = [e \in Events |-> Cancelled(e)]
  /\ \E reached \in SUBSET {e \in Events : task[e].at = "sending"} :
       topic' = topic \cup reached
  /\ MarkCommitted
  /\ UNCHANGED <<at, to_publish, clock, units, stream>>

(* The task that runs commit() is cancelled.  CancelledError is not an     *)
(* Exception: there is no rollback, and the publish tasks run on.          *)
CommitCancelled ==
  /\ pc \in {"saving", "publishing"}
  /\ pc' = "cancelled"
  /\ \/ UNCHANGED stream
     \/ pc = "saving" /\ VersionMatches(Tracked[at]) /\ Appended(Tracked[at])
  /\ UNCHANGED <<at, uncommitted, to_publish, task, clock, units, topic>>

\* The caller tries again, with the same aggregates in a new unit.
NewUnit ==
  /\ pc \in {"rolled_back", "cancelled"}
  /\ units < MaxUnits
  /\ units' = units + 1
  /\ pc' = "open"
  /\ at' = 0
  /\ to_publish' = {}
  /\ UNCHANGED <<uncommitted, task, clock, stream, topic>>

\* Another process appends an event to one of the streams.  At any other
\* time it would be the same as before the next unit begins.
ForeignAppend(a) ==
  /\ pc \in {"open", "saving"}
  /\ Cardinality({b \in Aggregates : \E n \in DOMAIN stream[b] : stream[b][n] = 0}) < MaxForeign
  /\ stream' = [stream EXCEPT ![a] = Append(@, 0)]
  /\ UNCHANGED <<unitVars, task, clock, topic>>

Waiting == {e \in Events : task[e].at = "waiting"}

Tick ==
  /\ pc = "publishing" \/ Waiting # {}
  /\ pc = "publishing" => ~AllOver /\ ~TimedOut
  /\ \A e \in Waiting : task[e].left > 0
  /\ task' = [e \in Events |-> IF e \in Waiting THEN [task[e] EXCEPT !.left = @ - 1] ELSE task[e]]
  /\ clock' = IF pc = "publishing" /\ clock < PublishTimeout THEN clock + 1 ELSE clock
  /\ UNCHANGED <<unitVars, stream, topic>>

Over == pc \in Ended /\ UNCHANGED vars

Running == \/ Commit \/ SaveReturns \/ SaveRaises \/ WaitEnds \/ Tick
           \/ \E e \in Events : SendsAgain(e)

Next ==
  \/ Running
  \/ BodyRaises \/ CommitCancelled \/ NewUnit
  \/ \E e \in Events : SendReturns(e) \/ SendRaises(e)
  \/ \E a \in Aggregates : ForeignAppend(a)
  \/ Over

Spec == Init /\ [][Next]_vars

(* The clock goes on and the loop resumes what is ready.  The store is     *)
(* assumed to answer; the broker need not.                                 *)
FairSpec == Spec /\ WF_vars(Running)

-------------------------------------------------------------------------------
(* Optimistic concurrency: with other writers and units that are tried     *)
(* again after a failure or a cancellation half way, every event stands in *)
(* its stream at the place of its version, and so no event is stored twice.*)
VersionsHold ==
  \A a \in Aggregates : \A n \in DOMAIN stream[a] : stream[a][n] \in {0, n}

(* Nobody hears of an event that the store does not have, even if the unit *)
(* fails at a later aggregate, is cancelled, or is tried again.            *)
PublishedIsStored == topic \subseteq Stored

(* The nested retries do not fit into the timeout of the wait: before it   *)
(* passes no task comes to its last send, and the branch that logs         *)
(* uow.publish_failed is never taken, unless commit() itself is cancelled. *)
SendsBegun(t) ==
  Sends * t.round + t.tries + (IF t.at \in {"sending", "done"} THEN 1 ELSE 0)

NeverGivesUp ==
  pc \in {"publishing", "committed"} =>
    \A e \in to_publish : task[e].at # "failed" /\ SendsBegun(task[e]) < Sends * Rounds

(* A commit that has returned leaves nothing behind: no publish task goes  *)
(* on, and no aggregate keeps an event that would be saved again.  (All the*)
(* events that its aggregates had when they were saved: see above.)        *)
NothingLeftOver ==
  pc = "committed" =>
    /\ \A e \in Events : task[e].at \notin Live
    /\ \A a \in Aggregates : uncommitted[a] = 0
    /\ Events \subseteq Stored

(* A broker that never answers does not hold up the commit.                *)
CommitEnds == (pc = "saving") ~> (pc \in Ended)
===============================================================================
