--------------------------- MODULE UnitOfWorkProofs ---------------------------
(***************************************************************************)
(* Proofs, for any tracked aggregates with any numbers of events, any      *)
(* number of other writers and of units tried again, of the safety         *)
(* properties of UnitOfWork.                                               *)
(***************************************************************************)
EXTENDS UnitOfWork, TLAPS

(* Until the unit is committed the aggregates keep all of their events. *)
KeptInv == uncommitted = IF pc = "committed" THEN [a \in Aggregates |-> 0] ELSE Uncommitted

(* The events of the aggregates before position k. *)
Before(k) == {e \in Events : \E i \in 1..(k - 1) : Tracked[i] = e[1]}

LoopInv ==
  /\ pc = "saving" => at \in 1..Len(Tracked) /\ to_publish = Before(at)
  /\ pc \in {"publishing", "committed"} => to_publish = Events

(* Whatever is to be published, has a task or is published, is stored. *)
StoredInv ==
  /\ to_publish \subseteq Stored
  /\ topic \subseteq Stored
  /\ \A e \in Events : task[e].at # "none" => e \in Stored

(* The seconds that a task has waited, in all, once it has come to its try *)
(* of its round: 1 + 2 in each round, and 1 and 4 - 2 between the rounds.  *)
Waited(t) == (IF t.round = 2 THEN 9 ELSE 4 * t.round) + (IF t.tries = 2 THEN 3 ELSE t.tries)

LastTry(t) == t.round = Rounds - 1 /\ t.tries = Sends - 1

TaskInv ==
  /\ \A e \in Events : task[e].at = "sending" => task[e].left = 0
  /\ pc = "publishing" =>
       \A e \in Events : task[e].at \in Live => Waited(task[e]) <= clock + task[e].left
  /\ pc \in {"publishing", "committed"} =>
       \A e \in Events : /\ task[e].at # "failed"
                         /\ task[e].at = "done" => ~LastTry(task[e])
  /\ pc = "committed" => \A e \in Events : task[e].at \notin Live

IInv ==
  /\ UnitTypeOK
  /\ VersionsHold /\ KeptInv /\ LoopInv /\ StoredInv /\ TaskInv

-------------------------------------------------------------------------------
(* An event is an aggregate with one of its versions. *)
LEMMA EventShape ==
  /\ \A e \in Events : /\ e = <<e[1], e[2]>>
                       /\ e[1] \in Aggregates
                       /\ e[2] \in 1..Uncommitted[e[1]]
  /\ \A a \in Aggregates : \A n \in 1..Uncommitted[a] : <<a, n>> \in Events
BY DEF Events

(* Streams that only grow keep what is stored. *)
LEMMA StoredGrows ==
  ASSUME stream \in [Aggregates -> Seq(Nat)], stream' \in [Aggregates -> Seq(Nat)],
         \A a \in Aggregates : /\ Len(stream[a]) <= Len(stream'[a])
                               /\ \A n \in 1..Len(stream[a]) : stream'[a][n] = stream[a][n]
  PROVE  Stored \subseteq Stored'
<1> SUFFICES ASSUME NEW e \in Stored PROVE e \in Stored'
  OBVIOUS
<1>1. e \in Events /\ e[1] \in Aggregates
  BY EventShape DEF Stored
<1>2. PICK n \in DOMAIN stream[e[1]] : stream[e[1]][n] = e[2]
  BY DEF Stored
<1>3. n \in 1..Len(stream[e[1]]) /\ n \in 1..Len(stream'[e[1]])
  BY <1>1, <1>2
<1>4. n \in DOMAIN stream'[e[1]] /\ stream'[e[1]][n] = e[2]
  BY <1>1, <1>2, <1>3
<1> QED
  BY <1>1, <1>4 DEF Stored, Events

(* A save that finds the version it expects fills an empty stream. *)
LEMMA SavedInPlace ==
  ASSUME UnitAssumption, IInv, pc = "saving", NEW a \in Aggregates,
         VersionMatches(a), Appended(a)
  PROVE  /\ stream' \in [Aggregates -> Seq(Nat)]
         /\ VersionsHold'
         /\ Stored \subseteq Stored'
         /\ EventsOf(a) \subseteq Stored'
<1> DEFINE added == [n \in 1..Uncommitted[a] |-> n]
<1>1. Uncommitted[a] \in Nat /\ stream \in [Aggregates -> Seq(Nat)]
  BY DEF UnitAssumption, IInv, UnitTypeOK
<1>2. uncommitted[a] = Uncommitted[a]
  BY DEF IInv, KeptInv
<1>3. Len(stream[a]) = 0
  BY <1>1, <1>2 DEF VersionMatches
<1>4. added \in Seq(Nat) /\ Len(added) = Uncommitted[a] /\ \A n \in 1..Uncommitted[a] : added[n] = n
  BY <1>1
<1> HIDE DEF added
<1>5. /\ stream[a] \o added \in Seq(Nat)
      /\ Len(stream[a] \o added) = Uncommitted[a]
      /\ \A n \in 1..Uncommitted[a] : (stream[a] \o added)[n] = n
  BY <1>1, <1>3, <1>4
<1>6. stream' = [stream EXCEPT ![a] = stream[a] \o added]
  BY DEF Appended, added
<1>7. stream' \in [Aggregates -> Seq(Nat)]
  BY <1>1, <1>5, <1>6
<1>8. /\ stream'[a] = stream[a] \o added
      /\ \A b \in Aggregates : b # a => stream'[b] = stream[b]
  BY <1>1, <1>6
<1>9. VersionsHold'
  <2>1. \A n \in DOMAIN stream'[a] : stream'[a][n] = n
    BY <1>1, <1>5, <1>8
  <2> QED
    BY <2>1, <1>8 DEF IInv, VersionsHold
<1>10. Stored \subseteq Stored'
  <2>1. \A b \in Aggregates : /\ Len(stream[b]) <= Len(stream'[b])
                              /\ \A n \in 1..Len(stream[b]) : stream'[b][n] = stream[b][n]
    <3> TAKE b \in Aggregates
    <3>1. CASE b = a
      BY <3>1, <1>1, <1>3, <1>5, <1>8
    <3>2. CASE b # a
      BY <3>2, <1>1, <1>8
    <3> QED
      BY <3>1, <3>2
  <2> QED
    BY <2>1, <1>1, <1>7, StoredGrows
<1>11. EventsOf(a) \subseteq Stored'
  <2> SUFFICES ASSUME NEW e \in EventsOf(a) PROVE e \in Stored'
    OBVIOUS
  <2>1. e \in Events /\ e[1] = a /\ e[2] \in 1..Uncommitted[a]
    BY EventShape DEF EventsOf
  <2>2. e[2] \in DOMAIN stream'[a] /\ stream'[a][e[2]] = e[2]
    BY <2>1, <1>1, <1>5, <1>8
  <2> QED
    BY <2>1, <2>2 DEF Stored, Events
<1> QED
  BY <1>7, <1>9, <1>10, <1>11

(* The loop comes to the next aggregate with events, or has all events: a  *)
(* task for each, unless there are none.                                   *)
LEMMA LoopGoesOn ==
  ASSUME UnitAssumption, IInv, pc \in {"open", "saving"},
         NEW k \in 0..Len(Tracked), Proceed(k, Before(k + 1))
  PROVE  /\ to_publish' = Before(k + 1)
         /\ \/ /\ pc' = "saving" /\ at' \in 1..Len(Tracked)
               /\ to_publish' = Before(at')
               /\ UNCHANGED <<uncommitted, task, clock>>
            \/ /\ at' = at
               /\ to_publish' = Events
               /\ task' = [e \in Events |-> [NoTask EXCEPT !.at = "sending"]]
               /\ clock' = 0
               /\ \/ Events # {} /\ pc' = "publishing" /\ uncommitted' = uncommitted
                  \/ Events = {} /\ pc' = "committed" /\ uncommitted' = [a \in Aggregates |-> 0]
<1>1. PICK j \in (k + 1)..(Len(Tracked) + 1) :
        /\ \A i \in (k + 1)..(j - 1) : uncommitted[Tracked[i]] = 0
        /\ \/ /\ j <= Len(Tracked)
              /\ at' = j
              /\ pc' = "saving"
              /\ UNCHANGED <<uncommitted, task, clock>>
           \/ /\ j > Len(Tracked)
              /\ UNCHANGED at
              /\ StartPublishing(Before(k + 1))
  BY DEF Proceed
<1>2. to_publish' = Before(k + 1)
  BY DEF Proceed
<1>3. Len(Tracked) \in Nat /\ k \in Nat /\ j \in Nat /\ DOMAIN Tracked = 1..Len(Tracked)
  BY <1>1 DEF UnitAssumption
<1>4. uncommitted = Uncommitted
  BY DEF IInv, KeptInv
<1>5. Before(j) = Before(k + 1)
  <2>1. ASSUME NEW e \in Before(j) PROVE e \in Before(k + 1)
    <3>1. PICK i \in 1..(j - 1) : Tracked[i] = e[1]
      BY <2>1 DEF Before
    <3>2. e \in Events /\ e[2] \in 1..Uncommitted[e[1]]
      BY <2>1, EventShape DEF Before
    <3>3. ~(i \in (k + 1)..(j - 1))
      BY <3>1, <3>2, <1>1, <1>4
    <3>4. i \in 1..((k + 1) - 1)
      BY <3>3, <1>3
    <3> QED
      BY <3>1, <3>2, <3>4 DEF Before
  <2>2. ASSUME NEW e \in Before(k + 1) PROVE e \in Before(j)
    <3>1. PICK i \in 1..((k + 1) - 1) : Tracked[i] = e[1]
      BY <2>2 DEF Before
    <3>2. i \in 1..(j - 1)
      BY <1>1, <1>3
    <3> QED
      BY <2>2, <3>1, <3>2 DEF Before
  <2> QED
    BY <2>1, <2>2
<1>6. CASE j <= Len(Tracked)
  <2>1. at' = j /\ pc' = "saving" /\ UNCHANGED <<uncommitted, task, clock>>
    BY <1>1, <1>3, <1>6
  <2>2. j \in 1..Len(Tracked)
    BY <1>1, <1>3, <1>6
  <2> QED
    BY <2>1, <2>2, <1>2, <1>5
<1>7. CASE j > Len(Tracked)
  <2>1. Before(j) = Events
    <3> SUFFICES ASSUME NEW e \in Events PROVE e \in Before(j)
      BY DEF Before
    <3>1. PICK i \in 1..Len(Tracked) : Tracked[i] = e[1]
      BY EventShape, <1>3 DEF Aggregates
    <3>2. i \in 1..(j - 1)
      BY <1>1, <1>3, <1>7
    <3> QED
      BY <3>1, <3>2 DEF Before
  <2>2. StartPublishing(Events) /\ at' = at
    BY <2>1, <1>1, <1>3, <1>5, <1>7
  <2>3. task' = [e \in Events |-> [NoTask EXCEPT !.at = "sending"]] /\ clock' = 0
    BY <2>2 DEF StartPublishing
  <2> QED
    BY <2>1, <2>2, <2>3, <1>2, <1>5 DEF StartPublishing, MarkCommitted
<1> QED
  BY <1>3, <1>6, <1>7

LEMMA ProceedKeeps ==
  ASSUME UnitAssumption, IInv, pc \in {"open", "saving"},
         NEW k \in 0..Len(Tracked), Proceed(k, Before(k + 1)),
         stream' \in [Aggregates -> Seq(Nat)], VersionsHold',
         Stored \subseteq Stored', Before(k + 1) \subseteq Stored',
         UNCHANGED <<units, topic>>
  PROVE  IInv'
<1> USE DEF IInv
<1> DEFINE Fresh == [NoTask EXCEPT !.at = "sending"]
<1>1. /\ Fresh.at = "sending" /\ Fresh.tries = 0 /\ Fresh.round = 0 /\ Fresh.left = 0
      /\ Fresh \in [at : {"none", "done", "failed", "cancelled"} \cup Live,
                    tries : 0..Sends - 1, round : 0..Rounds - 1, left : 0..2]
  BY DEF NoTask, Live, Sends, Rounds
<1> HIDE DEF Fresh
<1>2. to_publish' = Before(k + 1) /\ to_publish' \subseteq Events
  BY LoopGoesOn DEF Before
<1>3. \A e \in Events : task[e].at # "none" => e \in Stored'
  BY DEF StoredInv
<1>4. topic' \subseteq Stored'
  BY DEF StoredInv
<1>5. units' \in 1..MaxUnits /\ topic' \subseteq Events
  BY DEF UnitTypeOK
<1>6. CASE /\ pc' = "saving" /\ at' \in 1..Len(Tracked)
           /\ to_publish' = Before(at')
           /\ UNCHANGED <<uncommitted, task, clock>>
  <2>1. UnitTypeOK'
    <3>1. at' \in 0..Len(Tracked)
      BY <1>6 DEF UnitAssumption
    <3>2. UNCHANGED <<uncommitted, task, clock>> /\ pc' = "saving"
      BY <1>6
    <3> QED
      BY <1>2, <1>5, <3>1, <3>2 DEF UnitTypeOK
  <2>2. KeptInv'
    BY <1>6 DEF KeptInv
  <2>3. LoopInv'
    BY <1>6 DEF LoopInv
  <2>4. StoredInv'
    BY <1>2, <1>3, <1>4, <1>6 DEF StoredInv
  <2>5. TaskInv'
    BY <1>6 DEF TaskInv
  <2> QED
    BY <2>1, <2>2, <2>3, <2>4, <2>5
<1>7. CASE /\ at' = at
           /\ to_publish' = Events
           /\ task' = [e \in Events |-> Fresh]
           /\ clock' = 0
           /\ \/ Events # {} /\ pc' = "publishing" /\ uncommitted' = uncommitted
              \/ Events = {} /\ pc' = "committed" /\ uncommitted' = [a \in Aggregates |-> 0]
  <2>1. UnitTypeOK'
    <3>1. uncommitted' \in [Aggregates -> Nat]
      BY <1>7 DEF UnitTypeOK
    <3>2. clock' \in 0..PublishTimeout
      BY <1>7 DEF PublishTimeout
    <3>3. task' \in [Events -> [at : {"none", "done", "failed", "cancelled"} \cup Live,
                                tries : 0..Sends - 1, round : 0..Rounds - 1, left : 0..2]]
      BY <1>1, <1>7
    <3>4. pc' \in {"open", "saving", "publishing"} \cup Ended /\ at' \in 0..Len(Tracked)
      BY <1>7 DEF UnitTypeOK, Ended
    <3> QED
      BY <1>2, <1>5, <3>1, <3>2, <3>3, <3>4 DEF UnitTypeOK
  <2>2. KeptInv'
    BY <1>7 DEF KeptInv
  <2>3. LoopInv'
    BY <1>7 DEF LoopInv
  <2>4. StoredInv'
    BY <1>2, <1>4, <1>7 DEF StoredInv
  <2>5. TaskInv'
    BY <1>1, <1>7 DEF TaskInv, Waited, LastTry, Rounds, Sends
  <2> QED
    BY <2>1, <2>2, <2>3, <2>4, <2>5
<1> QED
  BY <1>6, <1>7, LoopGoesOn DEF Fresh

(* The store gains nothing and loses nothing. *)
LEMMA SameStore ==
  ASSUME UNCHANGED stream
  PROVE  /\ Stored' = Stored
         /\ VersionsHold => VersionsHold'
BY DEF Stored, Events, VersionsHold

-------------------------------------------------------------------------------
(* The steps of the unit and of its surroundings *)

LEMMA OnCommit == ASSUME UnitAssumption, IInv, Commit PROVE IInv'
<1>1. Before(1) = {}
  BY DEF Before
<1>2. 0 \in 0..Len(Tracked) /\ 0 + 1 = 1
  BY DEF UnitAssumption
<1>3. Proceed(0, Before(0 + 1)) /\ UNCHANGED <<units, stream, topic>> /\ pc = "open"
  BY <1>1, <1>2 DEF Commit
<1> QED
  BY <1>1, <1>2, <1>3, SameStore, ProceedKeeps DEF IInv, UnitTypeOK

LEMMA OnSaveReturns == ASSUME UnitAssumption, IInv, SaveReturns PROVE IInv'
<1> DEFINE a == Tracked[at]
<1>1. /\ pc = "saving" /\ VersionMatches(a) /\ Appended(a)
      /\ Proceed(at, to_publish \cup EventsOf(a))
      /\ UNCHANGED <<units, topic>>
  BY DEF SaveReturns
<1>2. at \in 1..Len(Tracked) /\ Len(Tracked) \in Nat /\ to_publish = Before(at)
  BY <1>1 DEF IInv, LoopInv, UnitAssumption
<1>3. a \in Aggregates /\ at \in 0..Len(Tracked)
  BY <1>2 DEF Aggregates, UnitAssumption
<1>4. to_publish \cup EventsOf(a) = Before(at + 1)
  <2>1. \A i \in Nat : i \in 1..((at + 1) - 1) <=> i \in 1..(at - 1) \/ i = at
    BY <1>2
  <2>2. Before(at + 1) = Before(at) \cup EventsOf(a)
    BY <2>1, <1>2 DEF Before, EventsOf
  <2> QED
    BY <2>2, <1>2
<1>5. /\ stream' \in [Aggregates -> Seq(Nat)] /\ VersionsHold' /\ Stored \subseteq Stored'
      /\ EventsOf(a) \subseteq Stored'
  BY <1>1, <1>3, SavedInPlace
<1>6. Before(at + 1) \subseteq Stored'
  BY <1>4, <1>5 DEF IInv, StoredInv
<1> HIDE DEF a
<1> QED
  BY <1>1, <1>3, <1>4, <1>5, <1>6, ProceedKeeps

LEMMA OnRollback ==
  ASSUME UnitAssumption, IInv, BodyRaises \/ SaveRaises
  PROVE  IInv'
<1> USE DEF IInv
<1>1. /\ pc \in {"open", "saving"} /\ pc' = "rolled_back" /\ to_publish' = {}
      /\ UNCHANGED <<at, uncommitted, units, task, clock, stream, topic>>
  BY DEF BodyRaises, SaveRaises, OnSaveError, Rollback
<1>2. UnitTypeOK'
  BY <1>1 DEF UnitTypeOK, Ended
<1>3. KeptInv' /\ LoopInv'
  BY <1>1 DEF KeptInv, LoopInv
<1>4. StoredInv' /\ VersionsHold'
  BY <1>1, SameStore DEF StoredInv
<1>5. TaskInv'
  BY <1>1 DEF TaskInv
<1> QED
  BY <1>2, <1>3, <1>4, <1>5

LEMMA OnCommitCancelled == ASSUME UnitAssumption, IInv, CommitCancelled PROVE IInv'
<1> USE DEF IInv
<1>1. /\ pc \in {"saving", "publishing"} /\ pc' = "cancelled"
      /\ UNCHANGED <<at, uncommitted, to_publish, task, clock, units, topic>>
      /\ \/ UNCHANGED stream
         \/ pc = "saving" /\ VersionMatches(Tracked[at]) /\ Appended(Tracked[at])
  BY Zenon DEF CommitCancelled
<1>2. /\ stream' \in [Aggregates -> Seq(Nat)] /\ VersionsHold' /\ Stored \subseteq Stored'
  <2>1. CASE UNCHANGED stream
    BY <2>1, SameStore DEF UnitTypeOK
  <2>2. CASE pc = "saving" /\ VersionMatches(Tracked[at]) /\ Appended(Tracked[at])
    <3>1. Tracked[at] \in Aggregates
      BY <2>2 DEF LoopInv, Aggregates, UnitAssumption
    <3> QED
      BY <2>2, <3>1, SavedInPlace
  <2> QED
    BY <1>1, <2>1, <2>2
<1>3. UnitTypeOK'
  BY <1>1, <1>2 DEF UnitTypeOK, Ended
<1>4. KeptInv' /\ LoopInv'
  BY <1>1 DEF KeptInv, LoopInv
<1>5. StoredInv'
  BY <1>1, <1>2 DEF StoredInv
<1>6. TaskInv'
  BY <1>1 DEF TaskInv
<1> QED
  BY <1>2, <1>3, <1>4, <1>5, <1>6

LEMMA OnNewUnit == ASSUME UnitAssumption, IInv, NewUnit PROVE IInv'
<1> USE DEF IInv
<1>1. /\ pc \in {"rolled_back", "cancelled"} /\ pc' = "open" /\ at' = 0 /\ to_publish' = {}
      /\ units' = units + 1 /\ units < MaxUnits
      /\ UNCHANGED <<uncommitted, task, clock, stream, topic>>
  BY DEF NewUnit
<1>2. UnitTypeOK'
  BY <1>1 DEF UnitTypeOK, UnitAssumption
<1>3. KeptInv' /\ LoopInv'
  BY <1>1 DEF KeptInv, LoopInv
<1>4. StoredInv' /\ VersionsHold'
  BY <1>1, SameStore DEF StoredInv
<1>5. TaskInv'
  BY <1>1 DEF TaskInv
<1> QED
  BY <1>2, <1>3, <1>4, <1>5

LEMMA OnForeignAppend ==
  ASSUME UnitAssumption, IInv, NEW a \in Aggregates, ForeignAppend(a)
  PROVE  IInv'
<1> USE DEF IInv
<1>1. stream \in [Aggregates -> Seq(Nat)] /\ UNCHANGED <<pc, at, uncommitted, to_publish, units, task, clock, topic>>
  BY DEF ForeignAppend, unitVars, UnitTypeOK
<1>2. stream' = [stream EXCEPT ![a] = Append(stream[a], 0)]
  BY DEF ForeignAppend
<1>3. /\ stream' \in [Aggregates -> Seq(Nat)]
      /\ stream'[a] = Append(stream[a], 0)
      /\ \A b \in Aggregates : b # a => stream'[b] = stream[b]
  BY <1>1, <1>2
<1>4. \A b \in Aggregates : /\ Len(stream[b]) <= Len(stream'[b])
                            /\ \A n \in 1..Len(stream[b]) : stream'[b][n] = stream[b][n]
  <2> TAKE b \in Aggregates
  <2>1. CASE b = a
    BY <2>1, <1>1, <1>3
  <2>2. CASE b # a
    BY <2>2, <1>1, <1>3
  <2> QED
    BY <2>1, <2>2
<1>5. Stored \subseteq Stored'
  BY <1>1, <1>3, <1>4, StoredGrows
<1>6. VersionsHold'
  <2>1. \A n \in DOMAIN stream'[a] : stream'[a][n] \in {0, n}
    BY <1>1, <1>3 DEF VersionsHold
  <2> QED
    BY <2>1, <1>3 DEF VersionsHold
<1>7. UnitTypeOK'
  BY <1>1, <1>3 DEF UnitTypeOK
<1>8. KeptInv' /\ LoopInv'
  BY <1>1 DEF KeptInv, LoopInv
<1>9. StoredInv'
  BY <1>1, <1>5 DEF StoredInv
<1>10. TaskInv'
  BY <1>1 DEF TaskInv
<1> QED
  BY <1>6, <1>7, <1>8, <1>9, <1>10

-------------------------------------------------------------------------------
(* The steps of the publish tasks *)

(* A step of one task that stays within its tries. *)
LEMMA OneTask ==
  ASSUME UnitAssumption, IInv, NEW e \in Events, task[e].at \in Live,
         UNCHANGED <<unitVars, clock, stream>>,
         NEW t, task' = [task EXCEPT ![e] = t],
         t \in [at : {"none", "done", "failed", "cancelled"} \cup Live,
                tries : 0..Sends - 1, round : 0..Rounds - 1, left : 0..2],
         t.at = "sending" => t.left = 0,
         pc = "publishing" =>
           /\ t.at \in Live => Waited(t) <= clock + t.left
           /\ t.at # "failed"
           /\ t.at = "done" => ~LastTry(t),
         topic' \in {topic, topic \cup {e}}
  PROVE  IInv'
<1> USE DEF IInv
<1>1. UNCHANGED <<pc, at, uncommitted, to_publish, units, clock, stream>>
  BY DEF unitVars
<1>2. /\ task \in [Events -> [at : {"none", "done", "failed", "cancelled"} \cup Live,
                              tries : 0..Sends - 1, round : 0..Rounds - 1, left : 0..2]]
      /\ task'[e] = t
      /\ \A f \in Events : f # e => task'[f] = task[f]
  BY DEF UnitTypeOK
<1>3. task[e].at # "none" /\ e \in Stored /\ pc # "committed"
  BY DEF Live, StoredInv, TaskInv
<1>4. UnitTypeOK'
  BY <1>1, <1>2 DEF UnitTypeOK
<1>5. KeptInv' /\ LoopInv'
  BY <1>1 DEF KeptInv, LoopInv
<1>6. StoredInv' /\ VersionsHold'
  <2>1. topic' \subseteq Stored /\ to_publish' \subseteq Stored
    BY <1>1, <1>3 DEF StoredInv
  <2>2. \A f \in Events : task'[f].at # "none" => f \in Stored
    BY <1>2, <1>3 DEF StoredInv
  <2> QED
    BY <2>1, <2>2, <1>1, SameStore DEF StoredInv
<1>7. TaskInv'
  BY <1>1, <1>2, <1>3 DEF TaskInv
<1> QED
  BY <1>4, <1>5, <1>6, <1>7

LEMMA OnSendReturns ==
  ASSUME UnitAssumption, IInv, NEW e \in Events, SendReturns(e)
  PROVE  IInv'
<1> DEFINE t == [task[e] EXCEPT !.at = "done"]
<1>1. /\ task[e].at = "sending" /\ topic' = topic \cup {e}
      /\ task' = [task EXCEPT ![e] = t]
      /\ UNCHANGED <<unitVars, clock, stream>>
  BY DEF SendReturns
<1>2. task[e] \in [at : {"none", "done", "failed", "cancelled"} \cup Live,
                  tries : 0..Sends - 1, round : 0..Rounds - 1, left : 0..2]
  BY DEF IInv, UnitTypeOK
<1>3. /\ t \in [at : {"none", "done", "failed", "cancelled"} \cup Live,
                tries : 0..Sends - 1, round : 0..Rounds - 1, left : 0..2]
      /\ t.at = "done" /\ t.round = task[e].round /\ t.tries = task[e].tries
  BY <1>2
<1>4. pc = "publishing" => ~LastTry(task[e])
  <2>1. pc = "publishing" => clock <= 10 /\ Waited(task[e]) <= clock
    BY <1>1, <1>2 DEF IInv, TaskInv, Live, UnitTypeOK, PublishTimeout
  <2> QED
    BY <2>1, <1>2 DEF IInv, UnitTypeOK, Waited, LastTry, Sends, Rounds, PublishTimeout
<1>5. pc = "publishing" => ~LastTry(t)
  BY <1>3, <1>4 DEF LastTry
<1>6. task[e].at \in Live /\ t.at \notin Live
  BY <1>1, <1>3 DEF Live
<1> HIDE DEF t
<1> QED
  BY <1>1, <1>3, <1>5, <1>6, OneTask

LEMMA OnSendRaises ==
  ASSUME UnitAssumption, IInv, NEW e \in Events, SendRaises(e)
  PROVE  IInv'
<1> DEFINE t == AfterFailure(task[e])
           Task == [at : {"none", "done", "failed", "cancelled"} \cup Live,
                    tries : 0..Sends - 1, round : 0..Rounds - 1, left : 0..2]
<1>1. /\ task[e].at = "sending" /\ topic' \in {topic, topic \cup {e}}
      /\ task' = [task EXCEPT ![e] = t]
      /\ UNCHANGED <<unitVars, clock, stream>>
  BY DEF SendRaises
<1> HIDE DEF t
<1>2. /\ task[e] \in Task /\ task[e].tries \in 0..2 /\ task[e].round \in 0..2
      /\ task[e].left = 0 /\ clock \in 0..10
  BY <1>1 DEF IInv, UnitTypeOK, TaskInv, Sends, Rounds, PublishTimeout
<1>3. WaitAfter(0) = 1 /\ WaitAfter(1) = 2
  BY DEF WaitAfter
<1>4. pc = "publishing" => Waited(task[e]) <= clock
  BY <1>1, <1>2 DEF IInv, TaskInv, Live
<1>5. /\ t \in Task
      /\ t.at \in {"waiting", "failed"}
      /\ pc = "publishing" => t.at # "failed" /\ Waited(t) <= clock + t.left
  <2>1. CASE task[e].tries < 2
    <3>1. /\ t = [task[e] EXCEPT !.at = "waiting", !.tries = @ + 1, !.left = WaitAfter(task[e].tries)]
          /\ task[e].tries \in {0, 1}
      BY <2>1, <1>2 DEF t, AfterFailure, Sends
    <3>2. /\ t.at = "waiting" /\ t.round = task[e].round /\ t.tries = task[e].tries + 1
          /\ t.left = task[e].tries + 1
      BY <3>1, <1>2, <1>3
    <3>3. t \in Task
      <4>1. /\ "waiting" \in {"none", "done", "failed", "cancelled"} \cup Live
            /\ t.tries \in 0..Sends - 1 /\ t.round \in 0..Rounds - 1 /\ t.left \in 0..2
        BY <3>1, <3>2, <1>2 DEF Live, Sends, Rounds
      <4> QED
        BY <4>1, <3>1, <3>2, <1>2
    <3>4. Waited(t) = Waited(task[e]) + t.left /\ Waited(task[e]) \in Nat
      <4> DEFINE before == IF task[e].round = 2 THEN 9 ELSE 4 * task[e].round
      <4>1. before \in Nat
        BY <1>2
      <4>2. /\ Waited(task[e]) = before + (IF task[e].tries = 2 THEN 3 ELSE task[e].tries)
            /\ Waited(t) = before + (IF t.tries = 2 THEN 3 ELSE t.tries)
        BY <3>2 DEF Waited
      <4> HIDE DEF before
      <4>3. CASE task[e].tries = 0
        BY <4>1, <4>2, <4>3, <3>2
      <4>4. CASE task[e].tries = 1
        BY <4>1, <4>2, <4>4, <3>2
      <4> QED
        BY <3>1, <4>3, <4>4
    <3>5. pc = "publishing" => Waited(t) <= clock + t.left
      <4>1. Waited(t) \in Nat /\ t.left \in Nat
        BY <3>1, <3>2, <1>2 DEF Waited
      <4> QED
        BY <4>1, <3>4, <1>2, <1>4
    <3> QED
      BY <3>2, <3>3, <3>5
  <2>2. CASE task[e].tries = 2 /\ task[e].round < 2
    <3>1. /\ t = [task[e] EXCEPT !.at = "waiting", !.tries = 0, !.round = @ + 1,
                                !.left = WaitAfter(task[e].round)]
          /\ task[e].round \in {0, 1}
      BY <2>2, <1>2 DEF t, AfterFailure, Sends, Rounds
    <3>2. /\ t.at = "waiting" /\ t.round = task[e].round + 1 /\ t.tries = 0
          /\ t.left = task[e].round + 1
      BY <3>1, <1>2, <1>3
    <3>3. t \in Task
      <4>1. /\ "waiting" \in {"none", "done", "failed", "cancelled"} \cup Live
            /\ t.tries \in 0..Sends - 1 /\ t.round \in 0..Rounds - 1 /\ t.left \in 0..2
        BY <3>1, <3>2, <1>2 DEF Live, Sends, Rounds
      <4> QED
        BY <4>1, <3>1, <3>2, <1>2
    <3>4. pc = "publishing" => Waited(t) <= clock + t.left
      BY <3>1, <3>2, <2>2, <1>2, <1>4 DEF Waited
    <3> QED
      BY <3>2, <3>3, <3>4
  <2>3. CASE task[e].tries = 2 /\ task[e].round = 2
    <3>1. t = [task[e] EXCEPT !.at = "failed"]
      BY <2>3 DEF t, AfterFailure, Sends, Rounds
    <3>2. pc # "publishing"
      BY <2>3, <1>2, <1>4 DEF Waited
    <3> QED
      BY <3>1, <3>2, <1>2
  <2> QED
    BY <1>2, <2>1, <2>2, <2>3
<1>6. task[e].at \in Live /\ t.at # "sending" /\ t.at # "done"
  BY <1>1, <1>5 DEF Live
<1> QED
  BY <1>1, <1>5, <1>6, OneTask

LEMMA OnSendsAgain ==
  ASSUME UnitAssumption, IInv, NEW e \in Events, SendsAgain(e)
  PROVE  IInv'
<1> DEFINE t == [task[e] EXCEPT !.at = "sending"]
<1>1. /\ task[e].at = "waiting" /\ task[e].left = 0 /\ topic' = topic
      /\ task' = [task EXCEPT ![e] = t]
      /\ UNCHANGED <<unitVars, clock, stream>>
  BY DEF SendsAgain
<1>2. task[e] \in [at : {"none", "done", "failed", "cancelled"} \cup Live,
                  tries : 0..Sends - 1, round : 0..Rounds - 1, left : 0..2]
  BY DEF IInv, UnitTypeOK
<1>3. /\ t \in [at : {"none", "done", "failed", "cancelled"} \cup Live,
                tries : 0..Sends - 1, round : 0..Rounds - 1, left : 0..2]
      /\ t.at = "sending" /\ t.left = 0
      /\ t.round = task[e].round /\ t.tries = task[e].tries
  BY <1>1, <1>2 DEF Live
<1>4. pc = "publishing" => Waited(t) <= clock + t.left
  BY <1>1, <1>3 DEF IInv, TaskInv, Live, Waited
<1>5. task[e].at \in Live
  BY <1>1 DEF Live
<1> HIDE DEF t
<1> QED
  BY <1>1, <1>3, <1>4, <1>5, OneTask

-------------------------------------------------------------------------------
(* The end of the wait, and the clock *)

LEMMA OnWaitEnds == ASSUME UnitAssumption, IInv, WaitEnds PROVE IInv'
<1> USE DEF IInv
<1>1. /\ pc = "publishing" /\ pc' = "committed"
      /\ task' = [e \in Events |-> Cancelled(e)]
      /\ uncommitted' = [a \in Aggregates |-> 0]
      /\ UNCHANGED <<at, to_publish, clock, units, stream>>
  BY DEF WaitEnds, MarkCommitted
<1>2. topic' \subseteq topic \cup {e \in Events : task[e].at = "sending"}
  BY DEF WaitEnds
<1>3. \A e \in Events :
        /\ task'[e] \in [at : {"none", "done", "failed", "cancelled"} \cup Live,
                        tries : 0..Sends - 1, round : 0..Rounds - 1, left : 0..2]
        /\ task'[e].at \notin Live
        /\ \/ task'[e] = task[e]
           \/ task[e].at \in Live /\ task'[e].at = "cancelled"
  BY <1>1 DEF UnitTypeOK, Cancelled, Live
<1>4. UnitTypeOK'
  <2>1. topic' \subseteq Events /\ uncommitted' \in [Aggregates -> Nat]
    BY <1>1, <1>2 DEF UnitTypeOK
  <2>2. pc' \in {"open", "saving", "publishing"} \cup Ended
    BY <1>1 DEF Ended
  <2>3. task' \in [Events -> [at : {"none", "done", "failed", "cancelled"} \cup Live,
                             tries : 0..Sends - 1, round : 0..Rounds - 1, left : 0..2]]
    BY <1>1, <1>3
  <2> QED
    BY <1>1, <2>1, <2>2, <2>3 DEF UnitTypeOK
<1>5. KeptInv' /\ LoopInv'
  BY <1>1 DEF KeptInv, LoopInv
<1>6. StoredInv' /\ VersionsHold'
  <2>1. topic' \subseteq Stored
    BY <1>2 DEF StoredInv
  <2>2. \A e \in Events : task'[e].at # "none" => e \in Stored
    BY <1>3 DEF StoredInv, Live
  <2> QED
    BY <1>1, <2>1, <2>2, SameStore DEF StoredInv
<1>7. TaskInv'
  BY <1>1, <1>3 DEF TaskInv, Live
<1> QED
  BY <1>4, <1>5, <1>6, <1>7

(* A second less to wait is a second more on the clock. *)
LEMMA OnTick == ASSUME UnitAssumption, IInv, Tick PROVE IInv'
<1> USE DEF IInv
<1> DEFINE Task == [at : {"none", "done", "failed", "cancelled"} \cup Live,
                    tries : 0..Sends - 1, round : 0..Rounds - 1, left : 0..2]
<1>1. /\ UNCHANGED <<pc, at, uncommitted, to_publish, units, stream, topic>>
      /\ \A e \in Waiting : task[e].left > 0
      /\ task' = [e \in Events |-> IF e \in Waiting THEN [task[e] EXCEPT !.left = @ - 1] ELSE task[e]]
  BY DEF Tick, unitVars
<1>2. /\ clock' \in 0..PublishTimeout
      /\ pc = "publishing" => clock' = clock + 1
  BY DEF Tick, TimedOut, UnitTypeOK, PublishTimeout
<1>3. \A e \in Events :
        /\ task[e] \in Task
        /\ task'[e] \in Task
        /\ task'[e].at = task[e].at /\ task'[e].tries = task[e].tries
        /\ task'[e].round = task[e].round
        /\ \/ task[e].at # "waiting" /\ task'[e].left = task[e].left
           \/ task[e].at = "waiting" /\ task[e].left = task'[e].left + 1
  <2> TAKE e \in Events
  <2>1. task[e] \in Task
    BY DEF UnitTypeOK
  <2>2. CASE e \in Waiting
    <3>1. task[e].at = "waiting" /\ task[e].left > 0
      BY <1>1, <2>2 DEF Waiting
    <3>2. task[e].left \in 0..2 /\ task[e].left - 1 \in 0..2
      BY <2>1, <3>1
    <3>3. task'[e] = [task[e] EXCEPT !.left = task[e].left - 1]
      BY <1>1, <2>2
    <3> QED
      BY <2>1, <3>1, <3>2, <3>3
  <2>3. CASE e \notin Waiting
    BY <1>1, <2>1, <2>3 DEF Waiting
  <2> QED
    BY <2>2, <2>3
<1> HIDE DEF Task
<1>4. UnitTypeOK'
  <2>1. task' \in [Events -> Task]
    BY <1>1, <1>3
  <2> QED
    BY <1>1, <1>2, <2>1 DEF UnitTypeOK, Task
<1>5. KeptInv' /\ LoopInv'
  BY <1>1 DEF KeptInv, LoopInv
<1>6. StoredInv' /\ VersionsHold'
  BY <1>1, <1>3, SameStore DEF StoredInv
<1>7. TaskInv'
  <2>1. ASSUME NEW e \in Events, pc = "publishing", task[e].at \in Live
        PROVE  Waited(task'[e]) <= clock' + task'[e].left
    <3>1. Waited(task'[e]) = Waited(task[e])
      BY <1>3, <2>1 DEF Waited
    <3>2. Waited(task[e]) \in Nat
      BY <1>3, <2>1 DEF Task, Waited, Rounds, Sends
    <3>3. clock \in Nat /\ task[e].left \in Nat /\ task'[e].left \in Nat
      <4>1. clock \in Nat
        BY DEF UnitTypeOK, PublishTimeout
      <4>2. task[e].left \in 0..2 /\ task'[e].left \in 0..2
        BY <1>3, <2>1 DEF Task
      <4> QED
        BY <4>1, <4>2
    <3>4. Waited(task[e]) <= clock + task[e].left
      BY <2>1 DEF TaskInv
    <3>5. clock' = clock + 1
      BY <1>2, <2>1
    <3>6. task[e].left = task'[e].left \/ task[e].left = task'[e].left + 1
      BY <1>3
    <3>7. \A w, v, c, l, m \in Nat :
            w <= c + l /\ v = w /\ (l = m \/ l = m + 1) => v <= (c + 1) + m
      OBVIOUS
    <3> QED
      BY <3>1, <3>2, <3>3, <3>4, <3>5, <3>6, <3>7
  <2>2. \A e \in Events : /\ task'[e].at = "sending" => task'[e].left = 0
                          /\ LastTry(task'[e]) <=> LastTry(task[e])
    BY <1>3 DEF TaskInv, LastTry
  <2> QED
    BY <2>1, <2>2, <1>1, <1>3 DEF TaskInv
<1> QED
  BY <1>4, <1>5, <1>6, <1>7

-------------------------------------------------------------------------------
LEMMA Starts == ASSUME UnitAssumption, Init PROVE IInv
<1>1. NoTask \in [at : {"none", "done", "failed", "cancelled"} \cup Live,
                 tries : 0..Sends - 1, round : 0..Rounds - 1, left : 0..2]
  BY DEF NoTask, Sends, Rounds
<1>2. /\ 0 \in 0..PublishTimeout /\ 0 \in 0..Len(Tracked) /\ 1 \in 1..MaxUnits
      /\ stream \in [Aggregates -> Seq(Nat)]
      /\ Uncommitted \in [Aggregates -> Nat]
  BY DEF UnitAssumption, PublishTimeout, Init
<1>3. task \in [Events -> [at : {"none", "done", "failed", "cancelled"} \cup Live,
                          tries : 0..Sends - 1, round : 0..Rounds - 1, left : 0..2]]
  BY <1>1 DEF Init
<1>4. UnitTypeOK
  BY <1>2, <1>3 DEF Init, UnitTypeOK, Ended
<1>5. VersionsHold
  BY DEF Init, VersionsHold
<1>6. KeptInv /\ LoopInv /\ StoredInv
  BY DEF Init, KeptInv, LoopInv, StoredInv, NoTask
<1>7. TaskInv
  BY DEF Init, TaskInv, NoTask, Live
<1> QED
  BY <1>4, <1>5, <1>6, <1>7 DEF IInv

LEMMA StepsKeep == ASSUME UnitAssumption, IInv, [Next]_vars PROVE IInv'
<1>1. CASE UNCHANGED vars
  <2>1. UNCHANGED <<pc, at, uncommitted, to_publish, units, task, clock, stream, topic>>
    BY <1>1 DEF vars, unitVars
  <2>2. UnitTypeOK' /\ KeptInv' /\ LoopInv'
    BY <2>1 DEF IInv, UnitTypeOK, KeptInv, LoopInv
  <2>3. StoredInv' /\ VersionsHold' /\ TaskInv'
    BY <2>1, SameStore DEF IInv, StoredInv, TaskInv
  <2> QED
    BY <2>2, <2>3 DEF IInv
<1>2. CASE Running
  <2>1. \A e \in Events : SendsAgain(e) => IInv'
    BY OnSendsAgain
  <2> QED
    BY <1>2, <2>1, OnCommit, OnSaveReturns, OnRollback, OnWaitEnds, OnTick DEF Running
<1>3. CASE \E e \in Events : SendReturns(e) \/ SendRaises(e)
  BY <1>3, OnSendReturns, OnSendRaises
<1>4. CASE \E a \in Aggregates : ForeignAppend(a)
  BY <1>4, OnForeignAppend
<1> QED
  BY <1>1, <1>2, <1>3, <1>4, OnRollback, OnCommitCancelled, OnNewUnit DEF Next, Over

(* The inductive invariant holds in every reachable state. *)
THEOREM Invariance == Spec => []IInv
BY UnitAssumption, Starts, StepsKeep, PTL DEF Spec

(* The variables keep their types. *)
THEOREM TypeCorrect == Spec => []UnitTypeOK
<1>1. IInv => UnitTypeOK
  BY DEF IInv
<1> QED
  BY <1>1, Invariance, PTL

(* Whatever other writers append, and however often commit() is tried      *)
(* again, every event stands in its stream at the place of its version.    *)
THEOREM EventsInPlace == Spec => []VersionsHold
<1>1. IInv => VersionsHold
  BY DEF IInv
<1> QED
  BY <1>1, Invariance, PTL

(* commit() publishes nothing that it has not stored. *)
THEOREM StoredFirst == Spec => []PublishedIsStored
<1>1. IInv => PublishedIsStored
  BY DEF IInv, StoredInv, PublishedIsStored
<1> QED
  BY <1>1, Invariance, PTL

(* With any number of events, no publish task comes to its ninth send      *)
(* before the wait of commit() has timed out.                              *)
THEOREM LastSendNeverCome == Spec => []NeverGivesUp
<1>1. ASSUME IInv PROVE NeverGivesUp
  <2> SUFFICES ASSUME pc \in {"publishing", "committed"}, NEW e \in to_publish
               PROVE  task[e].at # "failed" /\ SendsBegun(task[e]) < Sends * Rounds
    BY DEF NeverGivesUp
  <2>1. /\ e \in Events /\ task[e].at # "failed"
        /\ task[e].tries \in 0..2 /\ task[e].round \in 0..2 /\ task[e].left \in 0..2
        /\ clock \in 0..10
    BY <1>1 DEF IInv, UnitTypeOK, TaskInv, Sends, Rounds, PublishTimeout
  <2>2. task[e].at \in {"sending", "done"} => ~LastTry(task[e])
    <3>1. CASE task[e].at = "sending"
      <4>1. pc = "publishing" /\ Waited(task[e]) <= clock /\ task[e].left = 0
        BY <1>1, <2>1, <3>1 DEF IInv, TaskInv, Live
      <4> QED
        BY <4>1, <2>1 DEF Waited, LastTry, Sends, Rounds
    <3>2. CASE task[e].at = "done"
      BY <1>1, <2>1, <3>2 DEF IInv, TaskInv
    <3> QED
      BY <3>1, <3>2
  <2> QED
    BY <2>1, <2>2 DEF SendsBegun, LastTry, Sends, Rounds
<1> QED
  BY <1>1, Invariance, PTL

(* A commit that has returned has stored every event, and no task or       *)
(* uncommitted event is left.                                              *)
THEOREM CommitIsWhole == Spec => []NothingLeftOver
<1>1. IInv => NothingLeftOver
  BY DEF IInv, KeptInv, LoopInv, StoredInv, TaskInv, NothingLeftOver
<1> QED
  BY <1>1, Invariance, PTL
===============================================================================
