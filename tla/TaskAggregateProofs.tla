-------------------------- MODULE TaskAggregateProofs --------------------------
(***************************************************************************)
(* Proofs, for any titles, priorities and users, and any number of events, *)
(* of what the stored events of a task are: in order and stored once; what *)
(* the live task was at each version, unless an event was lost; and a legal*)
(* history.                                                                *)
(*                                                                         *)
(* FromEvents is a recursive function over the events.  That it has a      *)
(* value for every stream, and what its values are, is proved by taking the*)
(* least counterexample: the natural numbers are well-founded.             *)
(***************************************************************************)
EXTENDS TaskAggregate, TLAPS, WellFoundedInduction, SequenceTheorems

Texts == {"Untitled", "abc", "xyz", " abc", " ab", "ab"}
EventTypes == {"task.created", "task.updated", "task.assigned", "task.status_changed",
               "task.priority_changed", "task.deleted"}

Task == [title : Texts, priority : Priorities \cup {"medium"}, status : Statuses,
         assignee : Users \cup {None}, is_deleted : BOOLEAN,
         priority_changes : Nat, assignee_changes : Nat]
EventFields == [type : EventTypes, version : Nat, title : Texts \cup {None},
                status : Statuses \cup {None}, priority : Priorities \cup {None},
                assignee : Users \cup {None}]
EventRecord ==
  {e \in EventFields : e.type = "task.created" => e.title # None /\ e.priority # None}

TypeOK ==
  /\ task \in Task
  /\ version \in Nat
  /\ was \in [0..version -> Task]
  /\ uncommitted \in Seq(EventRecord)
  /\ stream \in Seq(EventRecord)
  /\ handler \in {"returned", "saved", "over"}
  /\ publishing \in BOOLEAN
  /\ lost \in BOOLEAN

(* No event is ahead of the live task but one that it has refused, ...     *)
Reached(e) == e.version \in 1..(IF Applies(e) THEN version ELSE version + 1)

(* ... and a recorded one is either stored, or one that shares its version *)
(* with a stored one, or newer than all that is stored.                    *)
StoredOrNewer(e) ==
  \/ \E m \in 1..Len(stream) : stream[m].version = e.version
  \/ \A m \in 1..Len(stream) : stream[m].version < e.version

Ascending(events) == \A m, n \in 1..Len(events) : m < n => events[m].version < events[n].version

Ordered ==
  /\ Ascending(stream)
  /\ \A m \in 1..Len(stream) : Reached(stream[m])
  /\ \A n \in 1..Len(uncommitted) : Reached(uncommitted[n]) /\ StoredOrNewer(uncommitted[n])
  /\ \A m, n \in 1..Len(uncommitted) :
       m < n => uncommitted[m].version <= uncommitted[n].version

(* An event that the task took made it what it was at that version.        *)
Made(e) == Applies(e) => was[e.version] = Apply(was[e.version - 1], e)

Legal ==
  \A v \in 1..version :
    /\ ~was[v - 1].is_deleted
    /\ was[v].status # was[v - 1].status => was[v].status \in ValidTransitions[was[v - 1].status]

(* The version that follows the event's, for the one recorded after it.    *)
Following(e) == IF Applies(e) THEN e.version + 1 ELSE e.version

(* The recorded events number the versions from one that is stored, or     *)
(* that would be the next, up to the live task's.                          *)
Numbered ==
  /\ \A m \in 1..Len(stream) : stream[m].version = m
  /\ \A n \in 1..(Len(uncommitted) - 1) :
       uncommitted[n + 1].version = Following(uncommitted[n])
  /\ Len(uncommitted) = 0 => version <= Len(stream)
  /\ Len(uncommitted) > 0 =>
       /\ uncommitted[1].version <= Len(stream) + 1
       /\ Following(uncommitted[Len(uncommitted)]) = version + 1

(* The first recorded event is stored: no save goes through.               *)
Blocked == Len(uncommitted) > 0 /\ uncommitted[1].version <= Len(stream)

(* Behind a stored event that was refused, no save goes through, and none  *)
(* that waits will unblock them.                                           *)
RefusedInv ==
  /\ \A m \in 1..(Len(stream) - 1) : Applies(stream[m])
  /\ Len(stream) > 0 /\ ~Applies(stream[Len(stream)]) => Blocked /\ ~publishing
  /\ publishing => Blocked

Sound ==
  /\ was[0] = Blank /\ task = was[version]
  /\ Legal
  /\ \A m \in 1..Len(stream) : Made(stream[m])
  /\ \A n \in 1..Len(uncommitted) : Made(uncommitted[n])
  /\ Numbered
  /\ RefusedInv

IInv == TypeOK /\ Ordered /\ (~lost => Sound)

-------------------------------------------------------------------------------
(* The least element of a set of numbers *)

Less == {pair \in Nat \X Nat : pair[1] < pair[2]}

LEMMA LessWellFounded == IsWellFoundedOn(Less, Nat)
BY NatLessThanWellFounded DEF OpToRel, Less

LEMMA Least ==
  ASSUME NEW T, T \subseteq Nat, T # {}
  PROVE  \E x \in T : \A y \in T : ~(y < x)
<1>1. PICK x \in T : \A y \in T : ~ (<<y, x>> \in Less)
  BY LessWellFounded, WFMin
<1>2. \A y \in T : ~(y < x)
  BY <1>1 DEF Less
<1> QED
  BY <1>2

-------------------------------------------------------------------------------
(* from_events as a recursion *)

(* The n-th aggregate, from the one before and the n-th event. *)
Step(f, events, n) ==
  IF n = 0 THEN Blank
  ELSE IF f[n - 1] = Broken \/ ~Applies(events[n]) THEN Broken
  ELSE Apply(f[n - 1], events[n])

Computes(f, events, k) == f = [n \in 0..k |-> Step(f, events, n)]

(* Some function computes each prefix: the least one that none does would  *)
(* be one longer than one that some does.                                  *)
LEMMA FoldExists ==
  ASSUME NEW events, NEW k \in Nat
  PROVE  \E f : Computes(f, events, k)
<1> DEFINE T == {n \in Nat : ~ \E f : Computes(f, events, n)}
<1> SUFFICES ASSUME T # {} PROVE FALSE
  OBVIOUS
<1>1. PICK n \in T : \A m \in T : ~(m < n)
  BY Least
<1>2. n \in Nat /\ ~ \E f : Computes(f, events, n)
  OBVIOUS
<1>3. CASE n = 0
  <2> DEFINE f == [i \in 0..0 |-> Blank]
  <2>1. \A i \in 0..0 : Step(f, events, i) = Blank
    BY DEF Step
  <2>2. Computes(f, events, 0)
    <3> HIDE DEF f
    <3>1. f = [i \in 0..0 |-> Step(f, events, i)]
      BY <2>1 DEF f
    <3> QED
      BY <3>1 DEF Computes
  <2> QED
    BY <2>2, <1>2, <1>3
<1>4. CASE n # 0
  <2>1. n - 1 \in Nat /\ n - 1 < n
    BY <1>2, <1>4
  <2>2. n - 1 \notin T
    BY <2>1, <1>1
  <2>3. PICK g : Computes(g, events, n - 1)
    BY <2>1, <2>2
  <2> DEFINE f == [i \in 0..n |-> IF i = n THEN Step(g, events, n) ELSE g[i]]
  <2>4. \A i \in 0..(n - 1) : g[i] = Step(g, events, i)
    BY <2>3 DEF Computes
  <2>5. \A i \in 0..(n - 1) : f[i] = g[i]
    BY <1>2
  <2>6. f[n] = Step(g, events, n)
    BY <1>2
  <2> HIDE DEF f
  <2>7. \A i \in 0..n : i # 0 => f[i - 1] = g[i - 1]
    BY <2>5, <1>2
  <2>8. \A i \in 0..n : Step(f, events, i) = Step(g, events, i)
    BY <2>7 DEF Step
  <2>9. \A i \in 0..n : f[i] = Step(f, events, i)
    <3> TAKE i \in 0..n
    <3>1. CASE i = n
      BY <3>1, <2>6, <2>8
    <3>2. CASE i # n
      <4>1. i \in 0..(n - 1)
        BY <3>2, <1>2
      <4> QED
        BY <4>1, <2>4, <2>5, <2>8
    <3> QED
      BY <3>1, <3>2
  <2>10. f = [i \in 0..n |-> f[i]]
    BY DEF f
  <2>11. Computes(f, events, n)
    BY <2>9, <2>10 DEF Computes
  <2> QED
    BY <2>11, <1>2
<1> QED
  BY <1>3, <1>4

(* After(events) is defined for every history, and is what the recursion   *)
(* says.                                                                   *)
LEMMA AfterIs ==
  ASSUME NEW events, Len(events) \in Nat
  PROVE  \A n \in 0..Len(events) : After(events)[n] = Step(After(events), events, n)
<1> DEFINE P(f) == Computes(f, events, Len(events))
<1>1. After(events) = CHOOSE f : P(f)
  BY DEF After, Computes, Step
<1>2. \E f : P(f)
  BY FoldExists
<1>3. P(CHOOSE f : P(f))
  <2> HIDE DEF P
  <2> QED
    BY <1>2
<1>4. Computes(After(events), events, Len(events))
  BY <1>1, <1>3
<1> HIDE DEF P
<1> QED
  BY <1>4 DEF Computes

(* One event *)

LEMMA TaskFacts == Blank \in Task /\ Broken \notin Task
<1>1. Blank \in Task
  BY DEF Blank, Task, Texts, Statuses
<1>2. Broken \notin Task
  BY DEF Broken, Task
<1> QED
  BY <1>1, <1>2

(* apply_event keeps the types; but for the first event, which resets it,  *)
(* it changes the status to that of the event, if there is one.            *)
LEMMA ApplyFacts ==
  ASSUME NEW t \in Task, NEW e \in EventRecord, Applies(e)
  PROVE  /\ Apply(t, e) \in Task
         /\ e.type # "task.created" =>
              \/ Apply(t, e).status = t.status
              \/ e.status # None /\ Apply(t, e).status = e.status
<1>1. e.type \in EventTypes
  BY DEF EventRecord, EventFields
<1>2. CASE e.type = "task.created"
  <2>1. e.title \in Texts /\ e.priority \in Priorities /\ e.assignee \in Users \cup {None}
    BY <1>2 DEF EventRecord, EventFields
  <2> QED
    BY <1>2, <2>1, TaskFacts DEF Apply, Task
<1>3. CASE e.type = "task.deleted"
  BY <1>3 DEF Apply, Task
<1>4. CASE e.type \notin {"task.created", "task.deleted"}
  <2> DEFINE title == Or(e.title, t.title)
             status == Or(e.status, t.status)
             priority == Or(e.priority, t.priority)
             assignee == Or(e.assignee, t.assignee)
             m == IF e.priority = None THEN t.priority_changes ELSE t.priority_changes + 1
             n == IF e.assignee = None THEN t.assignee_changes ELSE t.assignee_changes + 1
  <2>1. /\ title \in Texts /\ status \in Statuses
        /\ priority \in Priorities \cup {"medium"} /\ assignee \in Users \cup {None}
    BY DEF Or, EventRecord, EventFields, Task
  <2>2. m \in Nat /\ n \in Nat
    BY DEF Task
  <2>3. Apply(t, e) = [t EXCEPT !.title = title, !.status = status, !.priority = priority,
                                !.assignee = assignee, !.priority_changes = m,
                                !.assignee_changes = n]
    BY <1>4 DEF Apply
  <2>4. status = t.status \/ (e.status # None /\ status = e.status)
    BY DEF Or
  <2> HIDE DEF title, status, priority, assignee, m, n
  <2>5. Apply(t, e) \in Task /\ Apply(t, e).status = status
    BY <2>1, <2>2, <2>3 DEF Task
  <2> QED
    BY <2>4, <2>5
<1> QED
  BY <1>1, <1>2, <1>3, <1>4

(* A stream with an event that apply_event refuses cannot be folded.       *)
LEMMA Breaks ==
  ASSUME NEW events, Len(events) \in Nat, NEW m \in 1..Len(events), ~Applies(events[m])
  PROVE  FromEvents(events) = Broken
<1> DEFINE T == {n \in m..Len(events) : After(events)[n] # Broken}
<1>1. T = {}
  <2> SUFFICES ASSUME T # {} PROVE FALSE
    OBVIOUS
  <2>1. T \subseteq Nat
    OBVIOUS
  <2>2. PICK n \in T : \A i \in T : ~(i < n)
    BY <2>1, Least
  <2>3. n \in 1..Len(events) /\ n \in 0..Len(events) /\ n \in m..Len(events)
    OBVIOUS
  <2>4. After(events)[n] = Step(After(events), events, n)
    BY <2>3, AfterIs
  <2>5. n # m
    BY <2>3, <2>4 DEF Step
  <2>6. n - 1 \in m..Len(events) /\ n - 1 < n
    BY <2>3, <2>5
  <2>7. After(events)[n - 1] = Broken
    BY <2>2, <2>6
  <2> QED
    BY <2>3, <2>4, <2>7 DEF Step
<1>2. Len(events) \in m..Len(events)
  OBVIOUS
<1> QED
  BY <1>1, <1>2 DEF FromEvents

(* One without is folded into tasks.                                       *)
LEMMA FoldsToTask ==
  ASSUME NEW events \in Seq(EventRecord), \A n \in 1..Len(events) : Applies(events[n])
  PROVE  FromEvents(events) \in Task
<1> DEFINE T == {n \in 0..Len(events) : After(events)[n] \notin Task}
<1>0. Len(events) \in Nat
  OBVIOUS
<1>1. T = {}
  <2> SUFFICES ASSUME T # {} PROVE FALSE
    OBVIOUS
  <2>1. T \subseteq Nat
    OBVIOUS
  <2>2. PICK n \in T : \A i \in T : ~(i < n)
    BY <2>1, Least
  <2>3. n \in 0..Len(events) /\ After(events)[n] \notin Task
    OBVIOUS
  <2>4. After(events)[n] = Step(After(events), events, n)
    BY <1>0, <2>3, AfterIs
  <2>5. n # 0
    BY <2>3, <2>4, TaskFacts DEF Step
  <2>6. n - 1 \in 0..Len(events) /\ n - 1 < n /\ n \in 1..Len(events)
    BY <1>0, <2>3, <2>5
  <2>7. After(events)[n - 1] \in Task
    BY <2>2, <2>6
  <2>8. Applies(events[n]) /\ events[n] \in EventRecord
    BY <2>6
  <2>9. After(events)[n] = Apply(After(events)[n - 1], events[n])
    BY <2>4, <2>5, <2>7, <2>8, TaskFacts DEF Step
  <2> QED
    BY <2>3, <2>7, <2>8, <2>9, ApplyFacts
<1>2. Len(events) \in 0..Len(events)
  BY <1>0
<1> QED
  BY <1>1, <1>2 DEF FromEvents

(* If each of its events made the next of some tasks, they are what it is  *)
(* folded into.                                                            *)
LEMMA FoldsInto ==
  ASSUME NEW events, Len(events) \in Nat, NEW k \in Nat, Len(events) <= k,
         NEW f \in [0..k -> Task], f[0] = Blank,
         \A n \in 1..Len(events) : Applies(events[n]) /\ f[n] = Apply(f[n - 1], events[n])
  PROVE  FromEvents(events) = f[Len(events)]
<1> DEFINE T == {n \in 0..Len(events) : After(events)[n] # f[n]}
<1>1. T = {}
  <2> SUFFICES ASSUME T # {} PROVE FALSE
    OBVIOUS
  <2>1. T \subseteq Nat
    OBVIOUS
  <2>2. PICK n \in T : \A i \in T : ~(i < n)
    BY <2>1, Least
  <2>3. n \in 0..Len(events) /\ After(events)[n] # f[n]
    OBVIOUS
  <2>4. After(events)[n] = Step(After(events), events, n)
    BY <2>3, AfterIs
  <2>5. n # 0
    BY <2>3, <2>4 DEF Step
  <2>6. n - 1 \in 0..Len(events) /\ n - 1 < n /\ n \in 1..Len(events) /\ n - 1 \in 0..k
    BY <2>3, <2>5
  <2>7. After(events)[n - 1] = f[n - 1] /\ f[n - 1] \in Task
    BY <2>2, <2>6
  <2>8. Applies(events[n]) /\ f[n] = Apply(f[n - 1], events[n])
    BY <2>6
  <2> QED
    BY <2>3, <2>4, <2>5, <2>7, <2>8, TaskFacts DEF Step
<1>2. Len(events) \in 0..Len(events)
  OBVIOUS
<1> QED
  BY <1>1, <1>2 DEF FromEvents

-------------------------------------------------------------------------------
(* raise_event *)

LEMMA Types ==
  ASSUME TypeOK
  PROVE  /\ Len(stream) \in Nat /\ Len(uncommitted) \in Nat /\ version \in Nat
         /\ \A m \in 1..Len(stream) : stream[m] \in EventRecord /\ stream[m].version \in Nat
         /\ \A n \in 1..Len(uncommitted) :
              uncommitted[n] \in EventRecord /\ uncommitted[n].version \in Nat
<1>1. /\ Len(stream) \in Nat /\ Len(uncommitted) \in Nat /\ version \in Nat
      /\ \A m \in 1..Len(stream) : stream[m] \in EventRecord
      /\ \A n \in 1..Len(uncommitted) : uncommitted[n] \in EventRecord
  BY DEF TypeOK
<1>2. \A e \in EventRecord : e.version \in Nat
  BY DEF EventRecord, EventFields
<1> QED
  BY <1>1, <1>2

(* What a command may raise on a task.                                     *)
MayFollow(t, e) ==
  /\ ~t.is_deleted
  /\ e.type # "task.created"
  /\ e.status \in ValidTransitions[t.status] \cup {None}

(* The event as it is recorded, and what raise_event does with it.         *)
LEMMA Raised ==
  ASSUME TypeOK, NEW e \in EventRecord, RaiseEvent(e)
  PROVE  \E r \in EventRecord :
           /\ r.version = version + 1 /\ (Applies(r) <=> Applies(e))
           /\ r.type = e.type /\ r.status = e.status
           /\ uncommitted' = Append(uncommitted, r)
           /\ \/ /\ Applies(r) /\ task' = Apply(task, r) /\ version' = version + 1
                 /\ was' = [v \in 0..version + 1 |-> IF v > version THEN task' ELSE was[v]]
              \/ /\ ~Applies(r) /\ UNCHANGED <<task, version, was>>
<1> DEFINE r == [e EXCEPT !.version = NextVersion]
<1>1. version \in Nat
  BY DEF TypeOK
<1>2. /\ r \in EventRecord /\ r.version = version + 1
      /\ r.title = e.title /\ r.priority = e.priority /\ r.type = e.type
      /\ r.status = e.status /\ r.assignee = e.assignee
  BY <1>1 DEF EventRecord, EventFields, NextVersion
<1>3. uncommitted' = Append(uncommitted, r)
  BY DEF RaiseEvent, Recorded
<1> HIDE DEF r
<1>4. (Applies(r) <=> Applies(e)) /\ Apply(task, r) = Apply(task, e)
  BY <1>2 DEF Applies, Apply
<1>5. \/ /\ Applies(e) /\ task' = Apply(task, e) /\ version' = version + 1
         /\ was' = [v \in 0..version + 1 |-> IF v > version THEN task' ELSE was[v]]
      \/ /\ ~Applies(e) /\ UNCHANGED <<task, version, was>>
  BY DEF RaiseEvent
<1> QED
  BY <1>2, <1>3, <1>4, <1>5

(* Whatever a command gives raise_event, the invariant holds after it.     *)
LEMMA OnRaiseEvent ==
  ASSUME IInv, NEW e \in EventRecord, RaiseEvent(e), UNCHANGED <<stream, publishing, lost>>,
         (e.type = "task.created" /\ version = 0) \/ MayFollow(task, e)
  PROVE  IInv'
<1>1. TypeOK /\ Ordered
  BY DEF IInv
<1>2. PICK r \in EventRecord :
        /\ r.version = version + 1 /\ (Applies(r) <=> Applies(e))
        /\ r.type = e.type /\ r.status = e.status
        /\ uncommitted' = Append(uncommitted, r)
        /\ \/ /\ Applies(r) /\ task' = Apply(task, r) /\ version' = version + 1
              /\ was' = [v \in 0..version + 1 |-> IF v > version THEN task' ELSE was[v]]
           \/ /\ ~Applies(r) /\ UNCHANGED <<task, version, was>>
  BY <1>1, Raised
<1>3. /\ Len(stream) \in Nat /\ Len(uncommitted) \in Nat /\ version \in Nat
      /\ \A m \in 1..Len(stream) : stream[m] \in EventRecord /\ stream[m].version \in Nat
      /\ \A n \in 1..Len(uncommitted) :
           uncommitted[n] \in EventRecord /\ uncommitted[n].version \in Nat
  BY <1>1, Types
<1>4. /\ uncommitted' \in Seq(EventRecord) /\ Len(uncommitted') = Len(uncommitted) + 1
      /\ uncommitted'[Len(uncommitted) + 1] = r
      /\ \A n \in 1..Len(uncommitted) : uncommitted'[n] = uncommitted[n]
  BY <1>1, <1>2 DEF TypeOK
<1>5. /\ version' \in Nat /\ version' \in {version, version + 1}
      /\ Applies(r) => version' = version + 1
  BY <1>2, <1>3
<1>6. /\ was' \in [0..version' -> Task] /\ task' \in Task
      /\ \A v \in 0..version : was'[v] = was[v]
      /\ Applies(r) => was'[version + 1] = Apply(task, r) /\ task' = was'[version + 1]
  <2>1. task \in Task /\ was \in [0..version -> Task]
    BY <1>1 DEF TypeOK
  <2>2. Applies(r) => Apply(task, r) \in Task
    BY <2>1, ApplyFacts
  <2>3. CASE Applies(r)
    <3>1. task' \in Task /\ task' = Apply(task, r) /\ version' = version + 1
      BY <2>2, <2>3, <1>2
    <3>2. was' = [v \in 0..version + 1 |-> IF v > version THEN task' ELSE was[v]]
      BY <2>3, <1>2
    <3>3. \A v \in 0..version + 1 : v > version \/ v \in 0..version
      BY <1>3
    <3>4. \A v \in 0..version + 1 : (IF v > version THEN task' ELSE was[v]) \in Task
      BY <2>1, <3>1, <3>3
    <3>5. was' \in [0..version' -> Task]
      BY <3>1, <3>2, <3>4
    <3> QED
      BY <3>1, <3>2, <3>5, <1>3
  <2>4. CASE ~Applies(r)
    BY <2>1, <2>4, <1>2
  <2> QED
    BY <2>3, <2>4
<1>7. TypeOK'
  <2>1. handler' \in {"returned", "over"}
    BY DEF RaiseEvent
  <2> QED
    BY <2>1, <1>1, <1>4, <1>5, <1>6 DEF TypeOK
<1>8. \A x : Reached(x) => Reached(x)'
  BY <1>3, <1>5 DEF Reached
<1>9. Reached(r)' /\ StoredOrNewer(r)
  <2>1. \A m \in 1..Len(stream) : stream[m].version <= version + 1
    BY <1>1, <1>3 DEF Ordered, Reached
  <2>2. Reached(r)'
    <3>1. r.version = version + 1 /\ r.version \in 1..version + 1
      BY <1>2, <1>3
    <3>2. CASE Applies(r)
      <4>1. version' = version + 1
        BY <3>2, <1>2
      <4> QED
        BY <3>1, <3>2, <4>1 DEF Reached
    <3>3. CASE ~Applies(r)
      <4>1. version' = version
        BY <3>3, <1>2
      <4> QED
        BY <3>1, <3>3, <4>1 DEF Reached
    <3> QED
      BY <3>2, <3>3
  <2>3. StoredOrNewer(r)
    BY <2>1, <1>2, <1>3 DEF StoredOrNewer
  <2> QED
    BY <2>2, <2>3
<1>10. Ordered'
  <2>1. Ascending(stream') /\ \A m \in 1..Len(stream) : Reached(stream[m])'
    BY <1>1, <1>8 DEF Ordered, Ascending, Reached
  <2>2. \A x : StoredOrNewer(x) => StoredOrNewer(x)'
    BY DEF StoredOrNewer
  <2>3. \A n \in 1..Len(uncommitted') : n \in 1..Len(uncommitted) \/ n = Len(uncommitted) + 1
    BY <1>3, <1>4
  <2>4. \A n \in 1..Len(uncommitted') :
          Reached(uncommitted[n])' /\ StoredOrNewer(uncommitted[n])'
    <3> TAKE n \in 1..Len(uncommitted')
    <3>1. PICK x : x = uncommitted'[n]
      OBVIOUS
    <3>2. Reached(x)' /\ StoredOrNewer(x)'
      BY <3>1, <2>2, <2>3, <1>1, <1>4, <1>8, <1>9 DEF Ordered
    <3> QED
      BY <3>1, <3>2 DEF Reached, StoredOrNewer
  <2>5. \A n \in 1..Len(uncommitted) : uncommitted[n].version <= version + 1
    BY <1>1, <1>3 DEF Ordered, Reached
  <2>6. \A m, n \in 1..Len(uncommitted') :
          m < n => uncommitted'[m].version <= uncommitted'[n].version
    <3> SUFFICES ASSUME NEW m \in 1..Len(uncommitted'), NEW n \in 1..Len(uncommitted'), m < n
                 PROVE  uncommitted'[m].version <= uncommitted'[n].version
      OBVIOUS
    <3>1. m \in 1..Len(uncommitted) /\ uncommitted'[m] = uncommitted[m]
      BY <1>3, <1>4
    <3>2. CASE n \in 1..Len(uncommitted)
      BY <3>1, <3>2, <1>1, <1>4 DEF Ordered
    <3>3. CASE n = Len(uncommitted) + 1
      BY <3>1, <3>3, <2>5, <1>2, <1>4
    <3> QED
      BY <2>3, <3>2, <3>3
  <2> QED
    BY <2>1, <2>4, <2>6 DEF Ordered
<1>11. ASSUME ~lost' PROVE Sound'
  <2>1. Sound
    BY <1>11 DEF IInv
  <2>2. was'[0] = Blank /\ task' = was'[version']
    BY <2>1, <1>2, <1>3, <1>5, <1>6 DEF Sound
  <2>3. Legal'
    <3> SUFFICES ASSUME NEW v \in 1..version'
                 PROVE  /\ ~was'[v - 1].is_deleted
                        /\ was'[v].status # was'[v - 1].status =>
                             was'[v].status \in ValidTransitions[was'[v - 1].status]
      BY DEF Legal
    <3>1. CASE v \in 1..version
      <4>1. was'[v] = was[v] /\ was'[v - 1] = was[v - 1]
        BY <3>1, <1>3, <1>6
      <4> QED
        BY <3>1, <4>1, <2>1 DEF Sound, Legal
    <3>2. CASE v = version + 1
      <4>1. Applies(r)
        BY <3>2, <1>2, <1>3
      <4>2. was'[v] = Apply(task, r) /\ was'[v - 1] = task /\ task \in Task
        BY <3>2, <4>1, <2>1, <1>1, <1>3, <1>6 DEF Sound, TypeOK
      <4>3. CASE e.type = "task.created" /\ version = 0
        <5>1. task = Blank
          BY <4>3, <2>1 DEF Sound
        <5>2. Apply(task, r).status = "backlog"
          BY <4>3, <1>2 DEF Apply, Blank
        <5> QED
          BY <4>2, <5>1, <5>2 DEF Blank
      <4>4. CASE MayFollow(task, e)
        <5>1. \/ Apply(task, r).status = task.status
              \/ Apply(task, r).status \in ValidTransitions[task.status]
          BY <4>1, <4>2, <4>4, <1>2, ApplyFacts DEF MayFollow
        <5> QED
          BY <4>2, <4>4, <5>1 DEF MayFollow
      <4> QED
        BY <4>3, <4>4
    <3> QED
      BY <3>1, <3>2, <1>3, <1>5
  <2>4. \A x : x.version \in Nat /\ Reached(x) /\ Made(x) => Made(x)'
    <3> SUFFICES ASSUME NEW x, x.version \in Nat, Reached(x), Made(x), Applies(x)
                 PROVE  was'[x.version] = Apply(was'[x.version - 1], x)
      BY DEF Made
    <3>1. x.version \in 1..version
      BY DEF Reached
    <3>2. was'[x.version] = was[x.version] /\ was'[x.version - 1] = was[x.version - 1]
      BY <3>1, <1>3, <1>6
    <3> QED
      BY <3>2 DEF Made
  <2>5. Made(r)'
    <3> SUFFICES ASSUME Applies(r) PROVE was'[r.version] = Apply(was'[r.version - 1], r)
      BY DEF Made
    <3>1. was'[version + 1] = Apply(task, r) /\ was'[version] = task
      BY <2>1, <1>3, <1>6 DEF Sound
    <3> QED
      BY <3>1, <1>2, <1>3
  <2>6. \A m \in 1..Len(stream') : Made(stream[m])'
    <3> TAKE m \in 1..Len(stream')
    <3>1. PICK x : x = stream[m]
      OBVIOUS
    <3>2. Made(x)'
      BY <3>1, <2>1, <2>4, <1>1, <1>3 DEF Sound, Ordered
    <3> QED
      BY <3>1, <3>2 DEF Made
  <2>7. \A n \in 1..Len(uncommitted') : Made(uncommitted[n])'
    <3> TAKE n \in 1..Len(uncommitted')
    <3>1. PICK x : x = uncommitted'[n]
      OBVIOUS
    <3>2. n \in 1..Len(uncommitted) \/ n = Len(uncommitted) + 1
      BY <1>3, <1>4
    <3>3. CASE n \in 1..Len(uncommitted)
      BY <3>1, <3>3, <2>1, <2>4, <1>1, <1>3, <1>4 DEF Sound, Ordered, Made
    <3>4. CASE n = Len(uncommitted) + 1
      BY <3>1, <3>4, <2>5, <1>4 DEF Made
    <3> QED
      BY <3>2, <3>3, <3>4
  <2>8. Numbered'
    <3>1. Numbered
      BY <2>1 DEF Sound
    <3>2. Following(r) = version' + 1
      BY <1>2, <1>3 DEF Following
    <3>3. \A n \in 1..(Len(uncommitted') - 1) :
            uncommitted'[n + 1].version = Following(uncommitted'[n])
      <4> TAKE n \in 1..(Len(uncommitted') - 1)
      <4>1. n \in 1..Len(uncommitted) /\ uncommitted'[n] = uncommitted[n]
        BY <1>3, <1>4
      <4>2. CASE n \in 1..(Len(uncommitted) - 1)
        <5>1. n + 1 \in 1..Len(uncommitted) /\ uncommitted'[n + 1] = uncommitted[n + 1]
          BY <4>2, <1>3, <1>4
        <5> QED
          BY <4>1, <4>2, <5>1, <3>1 DEF Numbered
      <4>3. CASE n = Len(uncommitted)
        <5>1. Following(uncommitted[n]) = version + 1 /\ uncommitted'[n + 1] = r
          BY <4>1, <4>3, <3>1, <1>3, <1>4 DEF Numbered
        <5> QED
          BY <4>1, <5>1, <1>2
      <4> QED
        BY <4>1, <4>2, <4>3, <1>3
    <3>4. uncommitted'[1].version <= Len(stream) + 1
      <4>1. CASE Len(uncommitted) = 0
        BY <4>1, <3>1, <1>2, <1>3, <1>4 DEF Numbered
      <4>2. CASE Len(uncommitted) > 0
        BY <4>2, <3>1, <1>3, <1>4 DEF Numbered
      <4> QED
        BY <4>1, <4>2, <1>3
    <3>5. Len(uncommitted') > 0 /\ uncommitted'[Len(uncommitted')] = r
      BY <1>3, <1>4
    <3>6. \A m \in 1..Len(stream') : stream'[m].version = m
      BY <3>1 DEF Numbered
    <3>7. stream' = stream /\ Len(uncommitted') # 0
      BY <3>5
    <3> QED
      BY <3>2, <3>3, <3>4, <3>5, <3>6, <3>7 DEF Numbered, Following
  <2>9. RefusedInv'
    <3>1. RefusedInv
      BY <2>1 DEF Sound
    <3>2. stream' = stream /\ publishing' = publishing
      OBVIOUS
    <3>3. Blocked => Blocked'
      BY <3>2, <1>3, <1>4 DEF Blocked
    <3> QED
      BY <3>1, <3>2, <3>3 DEF RefusedInv
  <2> QED
    BY <2>2, <2>3, <2>6, <2>7, <2>8, <2>9 DEF Sound
<1> QED
  BY <1>7, <1>10, <1>11 DEF IInv

-------------------------------------------------------------------------------
(* The commands *)

UnchangedLive == UNCHANGED live /\ handler' \in {"returned", "over"}

(* Neither the live task nor the store changes.                            *)
LEMMA OnNothing ==
  ASSUME IInv, UNCHANGED <<live, stream, lost>>,
         handler' \in {"returned", "saved", "over"},
         publishing' = publishing \/ publishing' = FALSE
  PROVE  IInv'
<1>1. /\ task' = task /\ version' = version /\ uncommitted' = uncommitted /\ was' = was
      /\ stream' = stream /\ lost' = lost
  BY DEF live
<1>2. TypeOK'
  BY <1>1 DEF IInv, TypeOK
<1>3. Ordered'
  BY <1>1 DEF IInv, Ordered, Ascending, Reached, StoredOrNewer
<1>4. ASSUME ~lost' PROVE Sound'
  <2>1. Sound
    BY <1>1, <1>4 DEF IInv
  <2>2. Legal' /\ Numbered'
    BY <1>1, <2>1 DEF Sound, Legal, Numbered
  <2>3. RefusedInv'
    <3>1. RefusedInv /\ (publishing' => publishing) /\ (Blocked <=> Blocked')
      BY <1>1, <2>1 DEF Sound, Blocked
    <3> QED
      BY <3>1, <1>1 DEF RefusedInv
  <2> QED
    BY <1>1, <2>1, <2>2, <2>3 DEF Sound, Made
<1> QED
  BY <1>2, <1>3, <1>4 DEF IInv

LEMMA OnRefused ==
  ASSUME IInv, UnchangedLive, UNCHANGED <<stream, publishing, lost>>
  PROVE  IInv'
BY OnNothing DEF UnchangedLive, IInv, TypeOK

LEMMA OnCreate ==
  ASSUME TaskAssumption, IInv, NEW title \in Titles, NEW priority \in Priorities,
         NEW assignee \in Users \cup {None}, Create(title, priority, assignee)
  PROVE  IInv'
<1> DEFINE e == [Event("task.created") EXCEPT
                   !.title = title, !.priority = priority, !.assignee = assignee]
<1>1. title \in Texts /\ title # None /\ priority # None
  BY DEF TaskAssumption, LongEnough, Texts, None
<1>2. /\ e \in EventRecord
      /\ e.title = title /\ e.priority = priority /\ e.type = "task.created"
  BY <1>1 DEF EventRecord, EventFields, Event, EventTypes
<1>3. RaiseEvent(e) /\ UNCHANGED <<stream, publishing, lost>> /\ version = 0
  BY DEF Create
<1> HIDE DEF e
<1> QED
  BY <1>2, <1>3, OnRaiseEvent

(* A command that raises an event on the state it has checked.             *)
LEMMA OnCommand ==
  ASSUME IInv, NotDeleted, NEW e \in EventRecord, RaiseEvent(e), UNCHANGED <<stream, publishing, lost>>,
         e.type # "task.created", e.status \in ValidTransitions[task.status] \cup {None}
  PROVE  IInv'
<1>1. MayFollow(task, e)
  BY DEF NotDeleted, MayFollow
<1> QED
  BY <1>1, OnRaiseEvent

LEMMA OnUpdate ==
  ASSUME TaskAssumption, IInv, NEW title \in Titles \cup {None},
         NEW status \in Statuses \cup {None}, NEW priority \in Priorities \cup {None},
         NEW other \in BOOLEAN, Update(title, status, priority, other)
  PROVE  IInv'
<1> DEFINE e == [Event("task.updated") EXCEPT
                   !.title = NewTitle(title),
                   !.status = Changed(status, task.status),
                   !.priority = Changed(priority, task.priority)]
<1>1. UNCHANGED <<stream, publishing, lost>>
  BY DEF Update, OnTask
<1>2. \/ UnchangedLive
      \/ /\ NotDeleted /\ RaiseEvent(e)
         /\ e.status = None \/ Allowed(e.status)
  BY DEF Update, OnTask, Refuse, NoChange, UnchangedLive
<1>3. NewTitle(title) \in Texts \cup {None}
  <2>1. \A t \in LongEnough : Stripped[t] \in Texts
    BY DEF LongEnough, Stripped, Texts
  <2> QED
    BY <2>1 DEF NewTitle, TaskAssumption
<1>4. e \in EventRecord /\ e.type = "task.updated"
  BY <1>3 DEF EventRecord, EventFields, EventTypes, Event, Changed
<1>5. Allowed(e.status) => e.status \in ValidTransitions[task.status]
  BY DEF Allowed
<1> HIDE DEF e
<1> QED
  BY <1>1, <1>2, <1>4, <1>5, OnRefused, OnCommand

LEMMA OnOneField ==
  ASSUME IInv,
         \/ \E u \in Users : Assign(u)
         \/ \E s \in Statuses : ChangeStatus(s)
         \/ \E p \in Priorities : ChangePriority(p)
         \/ Delete
  PROVE  IInv'
<1>1. ASSUME NEW u \in Users, Assign(u) PROVE IInv'
  <2> DEFINE e == [Event("task.assigned") EXCEPT !.assignee = u]
  <2>1. UNCHANGED <<stream, publishing, lost>>
        /\ (UnchangedLive \/ (NotDeleted /\ RaiseEvent(e)))
    BY <1>1 DEF Assign, OnTask, Refuse, NoChange, UnchangedLive
  <2>2. e \in EventRecord /\ e.type # "task.created" /\ e.status = None
    BY DEF EventRecord, EventFields, EventTypes, Event
  <2> HIDE DEF e
  <2> QED
    BY <2>1, <2>2, OnRefused, OnCommand
<1>2. ASSUME NEW s \in Statuses, ChangeStatus(s) PROVE IInv'
  <2> DEFINE e == [Event("task.status_changed") EXCEPT !.status = s]
  <2>1. /\ UNCHANGED <<stream, publishing, lost>>
        /\ \/ UnchangedLive
           \/ NotDeleted /\ Allowed(s) /\ RaiseEvent(e)
    BY <1>2 DEF ChangeStatus, OnTask, Refuse, UnchangedLive
  <2>2. e \in EventRecord /\ e.type # "task.created" /\ e.status = s
    BY DEF EventRecord, EventFields, EventTypes, Event
  <2> HIDE DEF e
  <2> QED
    BY <2>1, <2>2, OnRefused, OnCommand DEF Allowed
<1>3. ASSUME NEW p \in Priorities, ChangePriority(p) PROVE IInv'
  <2> DEFINE e == [Event("task.priority_changed") EXCEPT !.priority = p]
  <2>1. UNCHANGED <<stream, publishing, lost>>
        /\ (UnchangedLive \/ (NotDeleted /\ RaiseEvent(e)))
    BY <1>3 DEF ChangePriority, OnTask, Refuse, NoChange, UnchangedLive
  <2>2. e \in EventRecord /\ e.type # "task.created" /\ e.status = None
    BY DEF EventRecord, EventFields, EventTypes, Event
  <2> HIDE DEF e
  <2> QED
    BY <2>1, <2>2, OnRefused, OnCommand
<1>4. ASSUME Delete PROVE IInv'
  <2> DEFINE e == Event("task.deleted")
  <2>1. UNCHANGED <<stream, publishing, lost>>
        /\ (UnchangedLive \/ (NotDeleted /\ RaiseEvent(e)))
    BY <1>4 DEF Delete, OnTask, Refuse, UnchangedLive
  <2>2. e \in EventRecord /\ e.type # "task.created" /\ e.status = None
    BY DEF EventRecord, EventFields, EventTypes, Event
  <2> HIDE DEF e
  <2> QED
    BY <2>1, <2>2, OnRefused, OnCommand
<1> QED
  BY <1>1, <1>2, <1>3, <1>4

-------------------------------------------------------------------------------
(* The saves and the load *)

(* Among the versions that the unique index takes, each is the next one.   *)
LEMMA Consecutive ==
  ASSUME TypeOK, Ordered, Numbered, Len(uncommitted) > 0, NewVersions(uncommitted)
  PROVE  \A n \in 1..Len(uncommitted) : uncommitted[n].version = Len(stream) + n
<1>1. /\ Len(stream) \in Nat /\ Len(uncommitted) \in Nat
      /\ \A n \in 1..Len(uncommitted) : uncommitted[n].version \in Nat
      /\ DOMAIN uncommitted = 1..Len(uncommitted) /\ DOMAIN stream = 1..Len(stream)
  BY Types DEF TypeOK
<1>2. uncommitted[1].version = Len(stream) + 1
  <2>1. 1 \in 1..Len(uncommitted)
    BY <1>1
  <2>2. uncommitted[1].version >= 1
    <3>1. Reached(uncommitted[1])
      BY <2>1 DEF Ordered
    <3> QED
      BY <3>1, <2>1, <1>1 DEF Reached, TypeOK
  <2>3. uncommitted[1].version \notin 1..Len(stream)
    <3> SUFFICES ASSUME uncommitted[1].version \in 1..Len(stream) PROVE FALSE
      OBVIOUS
    <3>1. stream[uncommitted[1].version].version = uncommitted[1].version
      BY DEF Numbered
    <3> QED
      BY <3>1, <2>1, <1>1 DEF NewVersions
  <2>4. uncommitted[1].version <= Len(stream) + 1
    BY DEF Numbered
  <2> QED
    BY <2>1, <2>2, <2>3, <2>4, <1>1
<1>3. \A n \in 1..(Len(uncommitted) - 1) :
        uncommitted[n + 1].version = uncommitted[n].version + 1
  <2> TAKE n \in 1..(Len(uncommitted) - 1)
  <2>1. n \in 1..Len(uncommitted) /\ n + 1 \in 1..Len(uncommitted) /\ n # n + 1
    BY <1>1
  <2>2. uncommitted[n + 1].version # uncommitted[n].version
    BY <2>1, <1>1 DEF NewVersions
  <2> QED
    BY <2>2 DEF Numbered, Following
<1> DEFINE T == {n \in 1..Len(uncommitted) : uncommitted[n].version # Len(stream) + n}
<1>4. T = {}
  <2> SUFFICES ASSUME T # {} PROVE FALSE
    OBVIOUS
  <2>1. T \subseteq Nat
    BY <1>1
  <2>2. PICK n \in T : \A i \in T : ~(i < n)
    BY <2>1, Least
  <2>3. n \in 1..Len(uncommitted) /\ uncommitted[n].version # Len(stream) + n /\ n # 1
    BY <1>2
  <2>4. n - 1 \in 1..(Len(uncommitted) - 1) /\ n - 1 \in 1..Len(uncommitted)
        /\ n - 1 < n /\ (n - 1) + 1 = n
    BY <2>3, <1>1
  <2>5. uncommitted[n - 1].version = Len(stream) + (n - 1)
    BY <2>2, <2>4
  <2>6. uncommitted[n].version = uncommitted[n - 1].version + 1
    BY <2>4, <1>3
  <2> QED
    BY <2>3, <2>4, <2>5, <2>6, <1>1
<1> QED
  BY <1>4

LEMMA OnStored ==
  ASSUME IInv, uncommitted # <<>>, NewVersions(uncommitted), stream' = stream \o uncommitted,
         UNCHANGED <<live, lost>>,
         handler' \in {"returned", "saved", "over"}, publishing' \in BOOLEAN,
         publishing' = publishing \/ CurrentVersion(version - Len(uncommitted))
  PROVE  IInv'
<1>1. TypeOK /\ Ordered
  BY DEF IInv
<1>2. /\ Len(stream) \in Nat /\ Len(uncommitted) \in Nat /\ Len(uncommitted) > 0
      /\ version \in Nat
      /\ \A m \in 1..Len(stream) : stream[m].version \in Nat
      /\ \A n \in 1..Len(uncommitted) : uncommitted[n].version \in Nat
      /\ DOMAIN uncommitted = 1..Len(uncommitted) /\ DOMAIN stream = 1..Len(stream)
  <2>1. stream \in Seq(EventRecord) /\ uncommitted \in Seq(EventRecord)
    BY <1>1 DEF TypeOK
  <2>2. Len(uncommitted) > 0
    BY <2>1, EmptySeq
  <2> QED
    BY <1>1, <2>1, <2>2, Types
<1>3. /\ task' = task /\ version' = version /\ uncommitted' = uncommitted /\ was' = was
      /\ lost' = lost
  BY DEF live
<1>4. /\ stream' \in Seq(EventRecord) /\ Len(stream') = Len(stream) + Len(uncommitted)
      /\ \A m \in 1..Len(stream) : stream'[m] = stream[m]
      /\ \A n \in 1..Len(uncommitted) : stream'[Len(stream) + n] = uncommitted[n]
  BY <1>1 DEF TypeOK
<1>5. \A i \in 1..Len(stream') :
        \/ i \in 1..Len(stream) /\ stream'[i] = stream[i]
        \/ /\ i - Len(stream) \in 1..Len(uncommitted)
           /\ stream'[i] = uncommitted[i - Len(stream)]
  <2> TAKE i \in 1..Len(stream')
  <2>1. CASE i \in 1..Len(stream)
    BY <2>1, <1>4
  <2>2. CASE i \notin 1..Len(stream)
    <3>1. i - Len(stream) \in 1..Len(uncommitted) /\ Len(stream) + (i - Len(stream)) = i
      BY <2>2, <1>2, <1>4
    <3> QED
      BY <3>1, <1>4
  <2> QED
    BY <2>1, <2>2
<1>6. TypeOK'
  BY <1>1, <1>3, <1>4 DEF TypeOK
<1>7. \A n \in 1..Len(uncommitted), m \in 1..Len(stream) :
        stream[m].version < uncommitted[n].version
  BY <1>1, <1>2 DEF Ordered, StoredOrNewer, NewVersions
<1>8. \A m, n \in 1..Len(uncommitted) :
        m < n => uncommitted[m].version < uncommitted[n].version
  <2> TAKE m, n \in 1..Len(uncommitted)
  <2> HAVE m < n
  <2>1. uncommitted[m].version <= uncommitted[n].version
    BY <1>1 DEF Ordered
  <2>2. uncommitted[m].version # uncommitted[n].version
    <3>1. m # n /\ m \in DOMAIN uncommitted /\ n \in DOMAIN uncommitted
      BY <1>2
    <3> QED
      BY <3>1 DEF NewVersions
  <2> QED
    BY <2>1, <2>2, <1>2
<1>9. Ascending(stream')
  <2> SUFFICES ASSUME NEW i \in 1..Len(stream'), NEW j \in 1..Len(stream'), i < j
               PROVE  stream'[i].version < stream'[j].version
    BY DEF Ascending
  <2>1. i \in 1..Len(stream) \/ j \notin 1..Len(stream)
    BY <1>2, <1>4
  <2>2. CASE j \in 1..Len(stream)
    BY <2>1, <2>2, <1>1, <1>4 DEF Ordered, Ascending
  <2>3. CASE i \in 1..Len(stream) /\ j \notin 1..Len(stream)
    <3>1. j - Len(stream) \in 1..Len(uncommitted) /\ stream'[j] = uncommitted[j - Len(stream)]
      BY <2>3, <1>5
    <3>2. stream'[i] = stream[i]
      BY <2>3, <1>4
    <3> QED
      BY <3>1, <3>2, <2>3, <1>7
  <2>4. CASE i \notin 1..Len(stream) /\ j \notin 1..Len(stream)
    <3>1. /\ i - Len(stream) \in 1..Len(uncommitted) /\ j - Len(stream) \in 1..Len(uncommitted)
          /\ stream'[i] = uncommitted[i - Len(stream)]
          /\ stream'[j] = uncommitted[j - Len(stream)]
      BY <2>4, <1>5
    <3>2. i - Len(stream) < j - Len(stream)
      BY <1>2, <1>4
    <3> QED
      BY <3>1, <3>2, <1>8
  <2> QED
    BY <2>1, <2>2, <2>3, <2>4
<1>10. Ordered'
  <2>1. \A i \in 1..Len(stream') : Reached(stream[i])'
    BY <1>1, <1>3, <1>5 DEF Ordered, Reached
  <2>2. \A n \in 1..Len(uncommitted') : Reached(uncommitted[n])'
    BY <1>1, <1>3 DEF Ordered, Reached
  <2>3. \A n \in 1..Len(uncommitted') : StoredOrNewer(uncommitted[n])'
    <3> TAKE n \in 1..Len(uncommitted')
    <3>1. Len(stream) + n \in 1..Len(stream') /\ stream'[Len(stream) + n] = uncommitted'[n]
      BY <1>2, <1>3, <1>4
    <3> QED
      BY <3>1 DEF StoredOrNewer
  <2>4. \A m, n \in 1..Len(uncommitted') :
          m < n => uncommitted'[m].version <= uncommitted'[n].version
    BY <1>1, <1>3 DEF Ordered
  <2> QED
    BY <2>1, <2>2, <2>3, <2>4, <1>9 DEF Ordered
<1>11. ASSUME ~lost' PROVE Sound'
  <2>1. Sound /\ Numbered
    BY <1>3, <1>11 DEF IInv, Sound
  <2>2. was'[0] = Blank /\ task' = was'[version'] /\ Legal'
    BY <2>1, <1>3 DEF Sound, Legal
  <2>3. \A i \in 1..Len(stream') : Made(stream[i])'
    BY <2>1, <1>3, <1>5 DEF Sound, Made
  <2>4. \A n \in 1..Len(uncommitted') : Made(uncommitted[n])'
    BY <2>1, <1>3 DEF Sound, Made
  <2>5. \A n \in 1..Len(uncommitted) : uncommitted[n].version = Len(stream) + n
    BY <2>1, <1>1, <1>2, Consecutive
  <2>6. \A i \in 1..Len(stream') : stream'[i].version = i
    <3> TAKE i \in 1..Len(stream')
    <3>1. CASE i \in 1..Len(stream)
      BY <3>1, <2>1, <1>4 DEF Numbered
    <3>2. CASE i \notin 1..Len(stream)
      BY <3>2, <2>5, <1>2, <1>5
    <3> QED
      BY <3>1, <3>2
  <2>7. Numbered'
    <3>1. uncommitted[1].version <= Len(stream') + 1
      BY <2>5, <1>2, <1>4
    <3>2. \A n \in 1..(Len(uncommitted') - 1) :
            uncommitted'[n + 1].version = Following(uncommitted'[n])
      BY <2>1, <1>3 DEF Numbered
    <3>3. Len(uncommitted') > 0 /\ Len(uncommitted') # 0
          /\ Following(uncommitted'[Len(uncommitted')]) = version' + 1
      BY <2>1, <1>2, <1>3 DEF Numbered
    <3> QED
      BY <2>6, <3>1, <3>2, <3>3, <1>3 DEF Numbered, Following
  <2>8. \A n \in 1..(Len(uncommitted) - 1) : Applies(uncommitted[n])
    <3> TAKE n \in 1..(Len(uncommitted) - 1)
    <3>1. n \in 1..Len(uncommitted) /\ n + 1 \in 1..Len(uncommitted)
      BY <1>2
    <3>2. uncommitted[n + 1].version # uncommitted[n].version
      BY <3>1, <2>5, <1>2
    <3> QED
      BY <3>2, <2>1 DEF Numbered, Following
  <2>9. RefusedInv /\ ~Blocked
    BY <2>1, <2>5, <1>2 DEF Sound, Blocked
  <2>10. \A m \in 1..Len(stream) : Applies(stream[m])
    <3> TAKE m \in 1..Len(stream)
    <3>1. Len(stream) \in Nat
      BY <1>2
    <3>2. m \in 1..(Len(stream) - 1) \/ (m = Len(stream) /\ Len(stream) > 0)
      BY <3>1
    <3> QED
      BY <3>2, <2>9 DEF RefusedInv
  <2>11. ASSUME publishing' PROVE Applies(uncommitted[Len(uncommitted)])
    <3>1. CurrentVersion(version - Len(uncommitted))
      BY <2>9, <2>11 DEF RefusedInv
    <3>2. /\ version - Len(uncommitted) = 0 \/ version - Len(uncommitted) \in 1..Len(stream)
          /\ \A n \in 1..Len(stream) : n <= version - Len(uncommitted)
      BY <3>1, <2>1, <1>2 DEF CurrentVersion, Numbered
    <3>3. version - Len(uncommitted) = Len(stream)
      <4>1. CASE Len(stream) = 0
        BY <4>1, <3>2, <1>2
      <4>2. CASE Len(stream) # 0
        <5>1. Len(stream) \in 1..Len(stream)
          BY <4>2, <1>2
        <5>2. Len(stream) <= version - Len(uncommitted)
          BY <5>1, <3>2
        <5>3. version - Len(uncommitted) = 0 \/ version - Len(uncommitted) \in 1..Len(stream)
          BY <3>2
        <5>4. Len(stream) \in Nat
          BY <1>2
        <5> QED
          BY <5>2, <5>3, <5>4, <4>2
      <4> QED
        BY <4>1, <4>2
    <3>4. uncommitted[Len(uncommitted)].version = version
      BY <3>3, <2>5, <1>2
    <3>5. Following(uncommitted[Len(uncommitted)]) = version + 1
      BY <2>1, <1>2 DEF Numbered
    <3> QED
      BY <3>4, <3>5, <1>2 DEF Following
  <2>12. RefusedInv'
    <3>1. \A i \in 1..(Len(stream') - 1) : Applies(stream'[i])
      <4> TAKE i \in 1..(Len(stream') - 1)
      <4>1. CASE i \in 1..Len(stream)
        BY <4>1, <2>10, <1>4
      <4>2. CASE i \notin 1..Len(stream)
        <5>1. i - Len(stream) \in 1..(Len(uncommitted) - 1) /\ i \in 1..Len(stream')
              /\ stream'[i] = uncommitted[i - Len(stream)]
          BY <4>2, <1>2, <1>4, <1>5
        <5> QED
          BY <5>1, <2>8
      <4> QED
        BY <4>1, <4>2
    <3>2. stream'[Len(stream')] = uncommitted[Len(uncommitted)]
      BY <1>2, <1>4
    <3>3. Blocked'
      BY <2>5, <1>2, <1>3, <1>4 DEF Blocked
    <3>4. publishing' => Applies(stream'[Len(stream')])
      BY <3>2, <2>11
    <3> QED
      BY <3>1, <3>3, <3>4 DEF RefusedInv
  <2> QED
    BY <2>2, <2>3, <2>4, <2>7, <2>12 DEF Sound
<1> QED
  BY <1>6, <1>10, <1>11 DEF IInv

LEMMA OnRepositorySave ==
  ASSUME IInv, NEW expected, RepositorySave(expected)
  PROVE  IInv'
<1>1. /\ UNCHANGED <<live, publishing, lost>> /\ handler' \in {"saved", "over"}
      /\ publishing' \in BOOLEAN /\ publishing' = publishing
  BY DEF RepositorySave, IInv, TypeOK
<1>2. \/ UNCHANGED stream
      \/ /\ uncommitted # <<>> /\ NewVersions(uncommitted)
         /\ stream' = stream \o uncommitted
  BY DEF RepositorySave, Accepted, Uncommitted
<1> QED
  BY <1>1, <1>2, OnNothing, OnStored

LEMMA OnCommitSaves ==
  ASSUME IInv, CommitSaves
  PROVE  IInv'
<1>1. UNCHANGED <<live, lost>> /\ handler' = "over"
  BY DEF CommitSaves
<1>2. \/ UNCHANGED <<stream, publishing>>
      \/ /\ uncommitted # <<>> /\ NewVersions(uncommitted)
         /\ CurrentVersion(version - Len(uncommitted))
         /\ stream' = stream \o uncommitted /\ publishing' = TRUE
  BY DEF CommitSaves, Accepted, Uncommitted
<1> QED
  BY <1>1, <1>2, OnNothing, OnStored

(* Unless an event is lost, the store is not behind what is cleared.       *)
LEMMA OnCommitEnds ==
  ASSUME IInv, CommitEnds
  PROVE  IInv'
<1>1. /\ publishing' = FALSE /\ uncommitted' = <<>>
      /\ task' = task /\ version' = version /\ was' = was
      /\ stream' = stream /\ handler' = handler
      /\ lost' = (lost \/ Behind)
  BY DEF CommitEnds
<1>2. TypeOK /\ Ordered /\ Len(stream) \in Nat /\ DOMAIN stream = 1..Len(stream)
  BY Types DEF IInv, TypeOK
<1>3. Len(uncommitted') = 0 /\ 1..Len(uncommitted') = {}
  BY <1>1
<1>4. TypeOK'
  <2>1. lost' = TRUE \/ lost' = FALSE
    BY <1>1
  <2> QED
    BY <2>1, <1>1, <1>2 DEF TypeOK
<1>5. Ordered'
  BY <1>1, <1>2, <1>3 DEF Ordered, Ascending, Reached
<1>6. ASSUME ~lost' PROVE Sound'
  <2>1. ~lost /\ ~Behind
    BY <1>1, <1>6
  <2>2. Sound
    BY <2>1 DEF IInv
  <2>3. version <= Len(stream)
    <3>1. CASE version = 0
      BY <3>1, <1>2
    <3>2. CASE version # 0
      <4>1. PICK n \in 1..Len(stream) : stream[n].version = version
        BY <3>2, <2>1, <1>2 DEF Behind, TypeOK
      <4>2. stream[n].version = n
        BY <2>2 DEF Sound, Numbered
      <4> QED
        BY <4>1, <4>2, <1>2
    <3> QED
      BY <3>1, <3>2
  <2>4. Numbered'
    <3>1. \A m \in 1..Len(stream') : stream'[m].version = m
      BY <2>2, <1>1 DEF Sound, Numbered
    <3>2. 1..(Len(uncommitted') - 1) = {}
      BY <1>3
    <3>3. version' <= Len(stream') /\ ~(Len(uncommitted') > 0)
      BY <2>3, <1>1, <1>3
    <3> QED
      BY <3>1, <3>2, <3>3 DEF Numbered
  <2>5. \A m \in 1..Len(stream') : Made(stream[m])'
    BY <2>2, <1>1 DEF Sound, Made
  <2>6. Legal' /\ was'[0] = Blank /\ task' = was'[version']
    BY <2>2, <1>1 DEF Sound, Legal
  <2>7. RefusedInv'
    <3>1. RefusedInv /\ publishing
      BY <2>2 DEF Sound, CommitEnds
    <3> QED
      BY <3>1, <1>1 DEF RefusedInv
  <2> QED
    BY <2>4, <2>5, <2>6, <2>7, <1>3 DEF Sound
<1> QED
  BY <1>4, <1>5, <1>6 DEF IInv

LEMMA OnCommitCancelled ==
  ASSUME IInv, CommitCancelled
  PROVE  IInv'
BY OnNothing DEF CommitCancelled, IInv, TypeOK

(* What is stored, if all of it applies, folds into what the task was.     *)
LEMMA StoredFolds ==
  ASSUME TypeOK, Ordered, Sound, \A n \in 1..Len(stream) : Applies(stream[n])
  PROVE  /\ \A n \in 1..Len(stream) : stream[n].version = n
         /\ Len(stream) <= version
         /\ FromEvents(stream) = was[Len(stream)]
<1>1. /\ Len(stream) \in Nat /\ version \in Nat /\ was \in [0..version -> Task]
      /\ was[0] = Blank
  BY Types DEF TypeOK, Sound
<1>2. \A n \in 1..Len(stream) : stream[n].version = n
  BY DEF Sound, Numbered
<1>3. Len(stream) <= version
  <2>1. CASE Len(stream) = 0
    BY <2>1, <1>1
  <2>2. CASE Len(stream) # 0
    <3>1. Len(stream) \in 1..Len(stream)
      BY <2>2, <1>1
    <3>2. Reached(stream[Len(stream)]) /\ Applies(stream[Len(stream)])
      BY <3>1 DEF Ordered
    <3> QED
      BY <3>1, <3>2, <1>1, <1>2 DEF Reached
  <2> QED
    BY <2>1, <2>2
<1>4. \A n \in 1..Len(stream) : Applies(stream[n]) /\ was[n] = Apply(was[n - 1], stream[n])
  BY <1>2 DEF Sound, Made
<1> QED
  BY <1>1, <1>2, <1>3, <1>4, FoldsInto

LEMMA OnReload ==
  ASSUME IInv, Reload
  PROVE  IInv'
<1>1. TypeOK /\ Ordered /\ stream # <<>>
  BY DEF IInv, Reload
<1>2. UNCHANGED <<stream, lost>>
  BY DEF Reload
<1>3. CASE FromEvents(stream) = Broken
  <2>1. handler' = "over" /\ UNCHANGED <<live, publishing>>
    BY <1>3 DEF Reload
  <2> QED
    BY <2>1, <1>2, OnNothing DEF IInv, TypeOK
<1>4. CASE FromEvents(stream) # Broken
  <2>1. /\ task' = FromEvents(stream) /\ version' = LoadedVersion /\ uncommitted' = <<>>
        /\ was' = [v \in 0..LoadedVersion |-> was[v]]
        /\ handler' = "over" /\ publishing' = FALSE
        /\ stream' = stream /\ lost' = lost
    BY <1>2, <1>4 DEF Reload
  <2>2. /\ Len(stream) \in Nat /\ version \in Nat /\ Len(stream) \in 1..Len(stream)
        /\ \A m \in 1..Len(stream) : stream[m].version \in Nat
        /\ stream \in Seq(EventRecord)
    <3>1. stream \in Seq(EventRecord)
      BY <1>1 DEF TypeOK
    <3>2. Len(stream) # 0
      BY <3>1, <1>1, EmptySeq
    <3> QED
      BY <3>1, <3>2, <1>1, Types
  <2>3. \A n \in 1..Len(stream) : Applies(stream[n])
    BY <2>2, <1>4, Breaks
  <2>4. \A m \in 1..Len(stream) : stream[m].version \in 1..LoadedVersion
    <3> TAKE m \in 1..Len(stream)
    <3>1. Reached(stream[m])
      BY <1>1 DEF Ordered
    <3>2. m = Len(stream) \/ m < Len(stream)
      BY <2>2
    <3>3. stream[m].version <= stream[Len(stream)].version
      BY <3>2, <2>2, <1>1 DEF Ordered, Ascending
    <3> QED
      BY <3>1, <3>3, <2>2 DEF Reached, LoadedVersion
  <2>5. LoadedVersion \in Nat /\ LoadedVersion <= version
    <3>1. Reached(stream[Len(stream)]) /\ Applies(stream[Len(stream)])
      BY <2>2, <2>3, <1>1 DEF Ordered
    <3> QED
      BY <3>1, <2>2 DEF Reached, LoadedVersion
  <2>6. Len(uncommitted') = 0 /\ 1..Len(uncommitted') = {}
    BY <2>1
  <2>7. TypeOK'
    <3>1. task' \in Task
      BY <2>1, <2>2, <2>3, FoldsToTask
    <3>2. \A v \in 0..LoadedVersion : v \in 0..version
      BY <2>2, <2>5
    <3>3. was' \in [0..version' -> Task]
      BY <3>2, <2>1, <1>1 DEF TypeOK
    <3> QED
      BY <3>1, <3>3, <2>1, <2>5, <1>1 DEF TypeOK
  <2>8. Ordered'
    <3>1. Ascending(stream')
      BY <2>1, <1>1 DEF Ordered
    <3>2. \A m \in 1..Len(stream') : Reached(stream[m])'
      BY <2>1, <2>3, <2>4 DEF Reached
    <3> QED
      BY <3>1, <3>2, <2>6 DEF Ordered
  <2>9. ASSUME ~lost' PROVE Sound'
    <3>1. Sound
      BY <2>1, <2>9 DEF IInv
    <3>2. /\ \A n \in 1..Len(stream) : stream[n].version = n
          /\ FromEvents(stream) = was[Len(stream)]
      BY <3>1, <2>3, <1>1, StoredFolds
    <3>3. LoadedVersion = Len(stream)
      BY <3>2, <2>2 DEF LoadedVersion
    <3>4. \A v \in 0..version' : v \in 0..version /\ was'[v] = was[v]
      BY <2>1, <2>2, <2>5
    <3>5. was'[0] = Blank /\ task' = was'[version']
      BY <3>1, <3>2, <3>3, <3>4, <2>1, <2>5 DEF Sound
    <3>6. Legal'
      <4> SUFFICES ASSUME NEW v \in 1..version'
                   PROVE  /\ ~was'[v - 1].is_deleted
                          /\ was'[v].status # was'[v - 1].status =>
                               was'[v].status \in ValidTransitions[was'[v - 1].status]
        BY DEF Legal
      <4>1. v \in 0..version' /\ v - 1 \in 0..version' /\ v \in 1..version
        BY <2>1, <2>2, <2>5
      <4> QED
        BY <4>1, <3>1, <3>4 DEF Sound, Legal
    <3>7. \A m \in 1..Len(stream') : Made(stream[m])'
      <4> TAKE m \in 1..Len(stream')
      <4>1. m \in 0..version' /\ m - 1 \in 0..version' /\ stream[m].version = m
        BY <3>2, <3>3, <2>1, <2>2
      <4>2. was[m] = Apply(was[m - 1], stream[m])
        BY <4>1, <3>1, <2>1, <2>3 DEF Sound, Made
      <4> QED
        BY <4>1, <4>2, <3>4, <2>1 DEF Made
    <3>8. Numbered'
      <4>1. 1..(Len(uncommitted') - 1) = {} /\ ~(Len(uncommitted') > 0)
        BY <2>6
      <4>2. version' <= Len(stream') /\ \A m \in 1..Len(stream') : stream'[m].version = m
        BY <3>2, <3>3, <2>1, <2>2
      <4> QED
        BY <4>1, <4>2 DEF Numbered
    <3>9. RefusedInv'
      <4>1. \A m \in 1..(Len(stream) - 1) : m \in 1..Len(stream)
        BY <2>2
      <4> QED
        BY <4>1, <2>1, <2>2, <2>3 DEF RefusedInv
    <3> QED
      BY <3>5, <3>6, <3>7, <3>8, <3>9, <2>6 DEF Sound
  <2> QED
    BY <2>7, <2>8, <2>9 DEF IInv
<1> QED
  BY <1>3, <1>4

-------------------------------------------------------------------------------
LEMMA Starts == ASSUME Init PROVE IInv
<1>1. /\ version = 0 /\ uncommitted = <<>> /\ stream = <<>> /\ lost = FALSE
      /\ task = Blank /\ was = [v \in 0..0 |-> Blank] /\ was[0] = Blank
  BY DEF Init
<1>2. Len(stream) = 0 /\ Len(uncommitted) = 0 /\ 1..0 = {} /\ 1..(0 - 1) = {}
  BY <1>1
<1>3. TypeOK
  BY <1>1, TaskFacts DEF Init, TypeOK
<1>4. Ordered
  BY <1>2 DEF Ordered, Ascending
<1>5. Sound
  <2>1. RefusedInv
    BY <1>2 DEF Init, RefusedInv
  <2> QED
    BY <1>1, <1>2, <2>1 DEF Sound, Legal, Numbered
<1> QED
  BY <1>3, <1>4, <1>5 DEF IInv

LEMMA StepsKeep == ASSUME TaskAssumption, IInv, [Next]_vars PROVE IInv'
<1>1. CASE UNCHANGED vars
  BY <1>1, OnNothing DEF vars, IInv, TypeOK
<1>2. CASE \E t \in Titles, p \in Priorities, u \in Users \cup {None} : Create(t, p, u)
  BY <1>2, OnCreate
<1>3. CASE \/ \E t \in Titles \cup {None}, s \in Statuses \cup {None},
                 p \in Priorities \cup {None} : Update(t, s, p, FALSE)
           \/ Update(None, None, None, TRUE)
  BY <1>3, OnUpdate
<1>4. CASE \/ \E expected \in 0..MaxEvents : RepositorySave(expected)
           \/ CommitSaves \/ CommitEnds \/ CommitCancelled
  BY <1>4, OnRepositorySave, OnCommitSaves, OnCommitEnds, OnCommitCancelled
<1> QED
  BY <1>1, <1>2, <1>3, <1>4, OnOneField, OnReload DEF Next

(* The inductive invariant holds in every reachable state: the order of    *)
(* what is stored and recorded always, and, until an event is lost, that   *)
(* each event that applies made the task what it was at its version.       *)
THEOREM Invariance == Spec => []IInv
BY TaskAssumption, Starts, StepsKeep, PTL DEF Spec

(* The variables keep their types; in particular, what from_events returns *)
(* is a task, and no version of it is one that the task has not been at.   *)
THEOREM TypeCorrect == Spec => []TypeOK
<1>1. IInv => TypeOK
  BY DEF IInv
<1> QED
  BY <1>1, Invariance, PTL

(* Whatever is saved again, refused, cancelled or cleared, no event is     *)
(* stored twice or out of order.                                           *)
THEOREM StoredOnce == Spec => []StoredInOrder
<1>1. IInv => StoredInOrder
  BY DEF IInv, TypeOK, Ordered, Ascending, StoredInOrder
<1> QED
  BY <1>1, Invariance, PTL

(* README, "The current state is a fold over the event history", for every *)
(* history of commands, saves, waits and loads in which no event was lost  *)
(* and no refused one stored.                                              *)
THEOREM FoldIsWhatWas == Spec => []StoredIsWhatWas
<1>1. ASSUME IInv PROVE StoredIsWhatWas
  <2> SUFFICES ASSUME ~lost, AllApply(stream)
               PROVE  /\ \A n \in DOMAIN stream : stream[n].version = n
                      /\ Len(stream) <= version
                      /\ FromEvents(stream) = was[Len(stream)]
    BY DEF StoredIsWhatWas
  <2>1. DOMAIN stream = 1..Len(stream)
    BY <1>1 DEF IInv, TypeOK
  <2>2. \A n \in 1..Len(stream) : Applies(stream[n])
    BY <2>1 DEF AllApply
  <2> QED
    BY <1>1, <2>1, <2>2, StoredFolds DEF IInv
<1> QED
  BY <1>1, Invariance, PTL

(* A stored event that apply_event refuses is the last of its task.        *)
THEOREM NothingFollowsRefused == Spec => []RefusedIsLast
<1>1. ASSUME IInv PROVE RefusedIsLast
  <2> SUFFICES ASSUME ~lost, NEW n \in DOMAIN stream, ~Applies(stream[n]), n # Len(stream)
               PROVE  FALSE
    BY DEF RefusedIsLast
  <2>1. DOMAIN stream = 1..Len(stream) /\ Len(stream) \in Nat
    BY <1>1 DEF IInv, TypeOK
  <2>2. n \in 1..(Len(stream) - 1)
    BY <2>1
  <2> QED
    BY <1>1, <2>2 DEF IInv, Sound, RefusedInv
<1> QED
  BY <1>1, Invariance, PTL

(* No history of commands, saves, waits and loads takes the task through a *)
(* step that its commands refuse, until an event is lost.                  *)
THEOREM NoIllegalEvent == Spec => []HistoryIsLegal
<1>1. IInv => HistoryIsLegal
  BY DEF IInv, Sound, Legal, HistoryIsLegal
<1> QED
  BY <1>1, Invariance, PTL
===============================================================================
