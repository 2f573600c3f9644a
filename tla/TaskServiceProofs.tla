--------------------------- MODULE TaskServiceProofs ---------------------------
(***************************************************************************)
(* Proofs, for any replicas, tasks, requests and committed rows, of the    *)
(* safety properties of TaskService.                                       *)
(***************************************************************************)
EXTENDS TaskService, TLAPS, WellFoundedInduction

Aggregate == [events : Seq(Event), loaded : Nat, version : Nat]

Handling == [pc : {"none", "load", "version", "insert", "ok", "error"},
             at : Replicas \cup {None},
             rpc : {"Create", "Get", "History", "Update", "Assign", "Delete", None},
             task : Tasks \cup {None}, expected : Nat, stage : {"save", "commit", None},
             agg : Requests \cup {None}, want : Int, todo : Seq(Event)]

TypeOK ==
  /\ rows \in [Replicas -> [Tasks -> Seq(Event)]]
  /\ session \in [Replicas -> {"open", "failed"}]
  /\ handler \in [Requests -> Handling]
  /\ object \in [Requests -> Aggregate]
  /\ cache \in [Replicas -> [Tasks -> Requests \cup {None}]]

(* An aggregate: its versions rise by one at most from one recorded event  *)
(* to the next, the last of them at most one above its own, and nothing    *)
(* follows a deletion.                                                     *)
VersionAt(o, n) == IF n = 0 THEN 0 ELSE o.events[n].version

Sound(o) ==
  /\ o.loaded <= Len(o.events)
  /\ \A n \in DOMAIN o.events :
       /\ o.events[n].version > 0 /\ o.events[n].version <= o.version + 1
       /\ \A m \in 1..n : o.events[m].version <= o.events[n].version
       /\ n > o.loaded => o.events[n].version <= VersionAt(o, n - 1) + 1
       /\ o.events[n].kind = "deleted" => n = Len(o.events)
  /\ o.version <= VersionAt(o, Len(o.events))
  /\ o.version <= VersionAt(o, o.loaded) + (Len(o.events) - o.loaded)

(* What is between the statements of a handler. *)
Saving(q) == handler[q].pc \in {"version", "insert"}

Lookups == {"Get", "History", "Update", "Assign", "Delete"}

FlightInv ==
  \A q \in Requests :
    /\ InFlight(q) => handler[q].at \in Replicas /\ handler[q].task \in Tasks
    /\ handler[q].pc = "load" => handler[q].agg = None /\ handler[q].rpc \in Lookups
    /\ Saving(q) => /\ handler[q].agg \in Requests /\ handler[q].todo # <<>>
                    /\ handler[q].stage \in {"save", "commit"}

(* An aggregate is held for one task by one replica only, and by nobody    *)
(* before its request has built it.                                        *)
Holds(a, r, t) ==
  \/ cache[r][t] = a
  \/ \E q \in Requests : Saving(q) /\ handler[q].at = r /\ handler[q].task = t /\ handler[q].agg = a

HeldInv ==
  \A a \in Requests, r \in Replicas, t \in Tasks :
    Holds(a, r, t) =>
      /\ handler[a].pc \notin {"none", "load"}
      /\ \A s \in Replicas, u \in Tasks : Holds(a, s, u) => s = r /\ u = t

RowsInv == \A r \in Replicas : session[r] = "failed" => rows[r] = NoRows

(* What an aggregate was loaded with is there, and it knows what was       *)
(* committed.                                                              *)
Fits(o, r, t) ==
  /\ ToSet(EventsIn(Committed[t])) \subseteq ToSet(o.events)
  /\ session[r] = "open" =>
       /\ o.loaded <= Len(Readable(r, t))
       /\ \A n \in 1..o.loaded : o.events[n] = Readable(r, t)[n]

MemoryInv ==
  /\ \A a \in Requests : Sound(object[a])
  /\ \A a \in Requests, r \in Replicas, t \in Tasks : Holds(a, r, t) => Fits(object[a], r, t)

Chained(todo) ==
  \A n \in DOMAIN todo :
    /\ todo[n].version > 0
    /\ n > 1 => todo[n].version <= todo[n - 1].version + 1
    /\ todo[n].kind = "deleted" => n = Len(todo)

(* A handler that saves: the events to be inserted are of its aggregate and*)
(* leave no gap, also not to the stream that its replica sees; if the first*)
(* is the very next event, the aggregate knows all that can be read; and   *)
(* the second save of a unit finds a version other than the expected one.  *)
SaveFits(h, o, stream, events, state) ==
  /\ Chained(h.todo)
  /\ ToSet(h.todo) \subseteq ToSet(o.events)
  /\ state = "open" =>
       /\ h.todo[1].version <= Len(stream) + 1
       /\ h.todo[1].version = Len(stream) + 1 => ToSet(events) \subseteq ToSet(o.events)
  /\ h.stage = "commit" =>
       /\ h.pc = "version"
       /\ state = "open" => h.want < Len(stream)

SaveInv ==
  \A q \in Requests :
    Saving(q) =>
      LET r == handler[q].at
          t == handler[q].task
      IN SaveFits(handler[q], object[handler[q].agg], Visible(r, t), Readable(r, t), session[r])

IInv ==
  /\ TypeOK /\ FlightInv /\ HeldInv /\ RowsInv /\ MemoryInv /\ SaveInv
  /\ StreamsAreWhole /\ CacheKeepsUp

-------------------------------------------------------------------------------
(* A nonempty set of natural numbers has a least element: induction over   *)
(* the rows of a stream is done by looking at the first one that fails.    *)
Less == {pair \in Nat \X Nat : pair[1] < pair[2]}

LEMMA LessWellFounded == IsWellFoundedOn(Less, Nat)
BY NatLessThanWellFounded DEF OpToRel, Less

LEMMA Least ==
  ASSUME NEW T, T \subseteq Nat, T # {}
  PROVE  \E x \in T : \A y \in T : ~(y < x)
<1>1. PICK x \in T : \A y \in T : ~ (<<y, x>> \in Less)
  BY LessWellFounded, WFMin
<1>2. \A y \in T : ~(y < x)
  BY <1>1 DEF Less
<1> QED
  BY <1>2

-------------------------------------------------------------------------------
(* get_events as a recursion *)

Read(f, stored, n) ==
  IF n = 0 THEN <<>>
  ELSE IF stored[n].kind = "unreadable" THEN f[n - 1]
  ELSE Append(f[n - 1], stored[n])

Computes(f, stored, k) == f = [n \in 0..k |-> Read(f, stored, n)]

(* Some function reads each prefix of the rows. *)
LEMMA ReadExists ==
  ASSUME NEW stored, NEW k \in Nat
  PROVE  \E f : Computes(f, stored, k)
<1> DEFINE T == {n \in Nat : ~ \E f : Computes(f, stored, n)}
<1> SUFFICES ASSUME T # {} PROVE FALSE
  OBVIOUS
<1>1. PICK n \in T : \A m \in T : ~(m < n)
  BY Least
<1>2. n \in Nat /\ ~ \E f : Computes(f, stored, n)
  OBVIOUS
<1>3. CASE n = 0
  <2> DEFINE f == [i \in 0..0 |-> <<>>]
  <2>1. \A i \in 0..0 : Read(f, stored, i) = <<>>
    BY DEF Read
  <2>2. Computes(f, stored, 0)
    <3> HIDE DEF f
    <3>1. f = [i \in 0..0 |-> Read(f, stored, i)]
      BY <2>1 DEF f
    <3> QED
      BY <3>1 DEF Computes
  <2> QED
    BY <2>2, <1>2, <1>3
<1>4. CASE n # 0
  <2>1. n - 1 \in Nat /\ n - 1 < n
    BY <1>2, <1>4
  <2>2. n - 1 \notin T
    BY <2>1, <1>1
  <2>3. PICK g : Computes(g, stored, n - 1)
    BY <2>1, <2>2
  <2> DEFINE f == [i \in 0..n |-> IF i = n THEN Read(g, stored, n) ELSE g[i]]
  <2>4. \A i \in 0..(n - 1) : g[i] = Read(g, stored, i)
    BY <2>3 DEF Computes
  <2>5. \A i \in 0..(n - 1) : f[i] = g[i]
    BY <1>2
  <2>6. f[n] = Read(g, stored, n)
    BY <1>2
  <2> HIDE DEF f
  <2>7. \A i \in 0..n : i # 0 => f[i - 1] = g[i - 1]
    BY <2>5, <1>2
  <2>8. \A i \in 0..n : Read(f, stored, i) = Read(g, stored, i)
    BY <2>7 DEF Read
  <2>9. \A i \in 0..n : f[i] = Read(f, stored, i)
    <3> TAKE i \in 0..n
    <3>1. CASE i = n
      BY <3>1, <2>6, <2>8
    <3>2. CASE i # n
      <4>1. i \in 0..(n - 1)
        BY <3>2, <1>2
      <4> QED
        BY <4>1, <2>4, <2>5, <2>8
    <3> QED
      BY <3>1, <3>2
  <2>10. f = [i \in 0..n |-> f[i]]
    BY DEF f
  <2>11. Computes(f, stored, n)
    BY <2>9, <2>10 DEF Computes
  <2> QED
    BY <2>11, <1>2
<1> QED
  BY <1>3, <1>4

(* Reads(stored) is what the recursion says. *)
LEMMA ReadsAre ==
  ASSUME NEW stored, Len(stored) \in Nat
  PROVE  \A n \in 0..Len(stored) : Reads(stored)[n] = Read(Reads(stored), stored, n)
<1> DEFINE P(f) == Computes(f, stored, Len(stored))
<1>1. Reads(stored) = CHOOSE f : P(f)
  BY DEF Reads, Computes, Read
<1>2. \E f : P(f)
  BY ReadExists
<1>3. P(CHOOSE f : P(f))
  <2> HIDE DEF P
  <2> QED
    BY <1>2
<1>4. Computes(Reads(stored), stored, Len(stored))
  BY <1>1, <1>3
<1> HIDE DEF P
<1> QED
  BY <1>4 DEF Computes

(* A further row leaves what the earlier ones read as it is. *)
LEMMA ReadsAppend ==
  ASSUME NEW S, NEW stored \in Seq(S), NEW e \in S
  PROVE  \A n \in 0..Len(stored) : Reads(Append(stored, e))[n] = Reads(stored)[n]
<1> DEFINE longer == Append(stored, e)
           T == {n \in 0..Len(stored) : Reads(longer)[n] # Reads(stored)[n]}
<1> SUFFICES ASSUME T # {} PROVE FALSE
  OBVIOUS
<1>1. Len(stored) \in Nat /\ Len(longer) = Len(stored) + 1 /\ Len(longer) \in Nat
  OBVIOUS
<1>2. \A n \in 1..Len(stored) : longer[n] = stored[n]
  OBVIOUS
<1> HIDE DEF longer
<1>3. T \subseteq Nat
  BY <1>1
<1>4. PICK n \in T : \A m \in T : ~(m < n)
  BY <1>3, Least
<1>5. n \in 0..Len(stored) /\ n \in 0..Len(longer) /\ Reads(longer)[n] # Reads(stored)[n]
  BY <1>1, <1>4
<1>6. /\ Reads(longer)[n] = Read(Reads(longer), longer, n)
      /\ Reads(stored)[n] = Read(Reads(stored), stored, n)
  BY <1>1, <1>5, ReadsAre
<1>7. CASE n = 0
  BY <1>5, <1>6, <1>7 DEF Read
<1>8. CASE n # 0
  <2>1. n - 1 \in 0..Len(stored) /\ n - 1 < n /\ n \in 1..Len(stored)
    BY <1>1, <1>5, <1>8
  <2>2. Reads(longer)[n - 1] = Reads(stored)[n - 1]
    BY <2>1, <1>4
  <2>3. longer[n] = stored[n]
    BY <2>1, <1>2
  <2> QED
    BY <2>2, <2>3, <1>5, <1>6, <1>8 DEF Read
<1> QED
  BY <1>7, <1>8

(* One more row adds one event, or none. *)
LEMMA EventsAppend ==
  ASSUME NEW S, NEW stored \in Seq(S), NEW e \in S
  PROVE  EventsIn(Append(stored, e)) =
           IF e.kind = "unreadable" THEN EventsIn(stored) ELSE Append(EventsIn(stored), e)
<1> DEFINE longer == Append(stored, e)
           k == Len(stored) + 1
<1>1. Len(stored) \in Nat /\ Len(longer) = k /\ k \in Nat /\ k # 0 /\ longer[k] = e
  OBVIOUS
<1>2. Reads(longer)[k - 1] = Reads(stored)[Len(stored)]
  BY <1>1, ReadsAppend
<1> HIDE DEF longer
<1>3. Reads(longer)[k] = Read(Reads(longer), longer, k)
  BY <1>1, ReadsAre
<1> QED
  BY <1>1, <1>2, <1>3 DEF Read, EventsIn, longer

(* The rows of a stream that was inserted version by version. *)
Numbered(stored) == \A n \in DOMAIN stored : stored[n].version = n

(* What get_events has made of the first k of them: the readable ones, in  *)
(* their order.                                                            *)
ReadsUpTo(events, stored, k) ==
  /\ events \in Seq(Event)
  /\ Len(events) <= k
  /\ \A i \in 1..Len(events) :
       /\ events[i].version \in 1..k
       /\ events[i] = stored[events[i].version]
       /\ events[i].kind # "unreadable"
  /\ \A i, j \in 1..Len(events) : i < j => events[i].version < events[j].version
  /\ \A n \in 1..k : stored[n].kind # "unreadable" =>
       \E i \in 1..Len(events) : events[i] = stored[n]

LEMMA ReadsOneMore ==
  ASSUME NEW stored \in Seq(Event), Numbered(stored),
         NEW k \in 0..(Len(stored) - 1), NEW events, ReadsUpTo(events, stored, k)
  PROVE  ReadsUpTo(IF stored[k + 1].kind = "unreadable" THEN events ELSE Append(events, stored[k + 1]),
                   stored, k + 1)
<1> DEFINE e == stored[k + 1]
<1>1. Len(stored) \in Nat /\ k \in Nat /\ k + 1 \in 1..Len(stored) /\ e \in Event /\ e.version = k + 1
  BY DEF Numbered
<1>2. events \in Seq(Event) /\ Len(events) \in Nat /\ Len(events) <= k
  BY DEF ReadsUpTo
<1>3. \A n \in 1..(k + 1) : n \in 1..k \/ n = k + 1
  BY <1>1
<1>4. \A i \in 1..Len(events) : events[i].version \in 1..k /\ events[i].version \in 1..(k + 1)
  BY <1>1 DEF ReadsUpTo
<1>5. CASE e.kind = "unreadable"
  <2>1. ReadsUpTo(events, stored, k + 1)
    BY <1>1, <1>2, <1>3, <1>4, <1>5 DEF ReadsUpTo
  <2> QED
    BY <1>5, <2>1
<1>6. CASE e.kind # "unreadable"
  <2> DEFINE more == Append(events, e)
             l == Len(events) + 1
  <2>1. more \in Seq(Event) /\ Len(more) = l /\ l \in Nat
    BY <1>1, <1>2
  <2>2. \A i \in 1..Len(events) : more[i] = events[i]
    BY <1>2
  <2>3. more[l] = e
    BY <1>2
  <2>4. \A i \in 1..l : i \in 1..Len(events) \/ i = l
    BY <1>2
  <2>5. 1..Len(events) \subseteq 1..l /\ l \in 1..l /\ l <= k + 1
    BY <1>1, <1>2
  <2> HIDE DEF more, l, e
  <2>6. \A i \in 1..l : /\ more[i].version \in 1..(k + 1)
                        /\ more[i] = stored[more[i].version]
                        /\ more[i].kind # "unreadable"
    <3> TAKE i \in 1..l
    <3>1. CASE i \in 1..Len(events)
      BY <3>1, <2>2, <1>4 DEF ReadsUpTo
    <3>2. CASE i = l
      BY <3>2, <2>3, <1>1, <1>6 DEF e
    <3> QED
      BY <2>4, <3>1, <3>2
  <2>7. \A i, j \in 1..l : i < j => more[i].version < more[j].version
    <3> TAKE i, j \in 1..l
    <3> HAVE i < j
    <3>1. i \in 1..Len(events)
      BY <2>1, <1>2 DEF l
    <3>2. CASE j \in 1..Len(events)
      BY <3>1, <3>2, <2>2 DEF ReadsUpTo
    <3>3. CASE j = l
      BY <3>1, <3>3, <2>2, <2>3, <1>4, <1>1
    <3> QED
      BY <2>4, <3>2, <3>3
  <2>8. \A n \in 1..(k + 1) : stored[n].kind # "unreadable" => \E i \in 1..l : more[i] = stored[n]
    <3> TAKE n \in 1..(k + 1)
    <3> HAVE stored[n].kind # "unreadable"
    <3>1. CASE n \in 1..k
      <4>1. PICK i \in 1..Len(events) : events[i] = stored[n]
        BY <3>1 DEF ReadsUpTo
      <4> QED
        BY <4>1, <2>2, <2>5
    <3>2. CASE n = k + 1
      BY <3>2, <2>3, <2>5 DEF e
    <3> QED
      BY <3>1, <3>2, <1>3
  <2>9. ReadsUpTo(more, stored, k + 1)
    BY <2>1, <2>5, <2>6, <2>7, <2>8 DEF ReadsUpTo
  <2> QED
    BY <2>9, <1>6 DEF more, e
<1> QED
  BY <1>5, <1>6

LEMMA ReadsWhole ==
  ASSUME NEW stored \in Seq(Event), Numbered(stored)
  PROVE  ReadsUpTo(EventsIn(stored), stored, Len(stored))
<1> DEFINE T == {n \in 0..Len(stored) : ~ReadsUpTo(Reads(stored)[n], stored, n)}
<1>1. Len(stored) \in Nat
  OBVIOUS
<1>2. SUFFICES ASSUME T # {} PROVE FALSE
  BY <1>1 DEF EventsIn
<1>3. PICK n \in T : \A m \in T : ~(m < n)
  <2>1. T \subseteq Nat
    BY <1>1
  <2> QED
    BY <2>1, <1>2, Least
<1>4. n \in 0..Len(stored) /\ ~ReadsUpTo(Reads(stored)[n], stored, n)
  OBVIOUS
<1>5. Reads(stored)[n] = Read(Reads(stored), stored, n)
  BY <1>1, <1>4, ReadsAre
<1>6. CASE n = 0
  <2>1. Reads(stored)[n] = <<>>
    BY <1>5, <1>6 DEF Read
  <2>2. ReadsUpTo(<<>>, stored, 0)
    BY DEF ReadsUpTo
  <2> QED
    BY <2>1, <2>2, <1>4, <1>6
<1>7. CASE n # 0
  <2>1. n - 1 \in 0..(Len(stored) - 1) /\ n - 1 < n /\ (n - 1) + 1 = n /\ n - 1 \in 0..Len(stored)
    BY <1>1, <1>4, <1>7
  <2>2. ReadsUpTo(Reads(stored)[n - 1], stored, n - 1)
    BY <2>1, <1>3
  <2>3. ReadsUpTo(IF stored[n].kind = "unreadable" THEN Reads(stored)[n - 1]
                  ELSE Append(Reads(stored)[n - 1], stored[n]), stored, n)
    BY <2>1, <2>2, ReadsOneMore
  <2> QED
    BY <2>3, <1>4, <1>5, <1>7 DEF Read
<1> QED
  BY <1>6, <1>7

-------------------------------------------------------------------------------
(* What a replica sees *)

LEMMA CommittedNumbered ==
  ASSUME NEW t \in Tasks
  PROVE  Committed[t] \in Seq(Event) /\ Numbered(Committed[t])
BY TaskServiceAssumption DEF Numbered

LEMMA MaxUpTo ==
  ASSUME NEW l \in Nat
  PROVE  Max(0..l) = l
<1>1. l \in 0..l /\ \A y \in 0..l : l >= y
  OBVIOUS
<1>2. \A x \in 0..l : x >= l => x = l
  OBVIOUS
<1>3. \A x \in 0..l : (\A y \in 0..l : x >= y) => x = l
  BY <1>1, <1>2
<1> QED
  BY <1>1, <1>3 DEF Max

(* The versions of a whole stream are the numbers up to its length. *)
LEMMA NumberedVersions ==
  ASSUME NEW stored \in Seq(Event), Numbered(stored)
  PROVE  /\ Len(stored) \in Nat
         /\ VersionsIn(stored) = 1..Len(stored)
         /\ Max({0} \cup VersionsIn(stored)) = Len(stored)
<1>1. Len(stored) \in Nat /\ DOMAIN stored = 1..Len(stored)
  OBVIOUS
<1>2. VersionsIn(stored) = 1..Len(stored)
  BY <1>1 DEF VersionsIn, Numbered
<1>3. {0} \cup VersionsIn(stored) = 0..Len(stored)
  BY <1>1, <1>2
<1> QED
  BY <1>1, <1>2, <1>3, MaxUpTo

(* A row after the rows of one of two parts. *)
LEMMA Joined ==
  ASSUME NEW s \in Seq(Event), NEW u \in Seq(Event)
  PROVE  /\ s \o u \in Seq(Event) /\ Len(s \o u) \in Nat
         /\ Len(s) \in Nat /\ Len(u) \in Nat
         /\ Len(s \o u) = Len(s) + Len(u)
         /\ Len(s) <= Len(s \o u)
         /\ \A n \in 1..Len(s) : (s \o u)[n] = s[n]
         /\ \A n \in 1..Len(u) : (s \o u)[Len(s) + n] = u[n]
<1> HIDE DEF Event
<1> QED
  OBVIOUS

LEMMA SameRows ==
  ASSUME NEW s \in Seq(Event), NEW u \in Seq(Event), Len(s) = Len(u),
         \A n \in 1..Len(s) : s[n] = u[n]
  PROVE  s = u
OBVIOUS

LEMMA JoinedAppend ==
  ASSUME NEW s \in Seq(Event), NEW u \in Seq(Event), NEW e \in Event
  PROVE  s \o Append(u, e) = Append(s \o u, e)
<1> DEFINE a == s \o Append(u, e)
           b == Append(s \o u, e)
<1>1. Append(u, e) \in Seq(Event) /\ Len(Append(u, e)) = Len(u) + 1 /\ Append(u, e)[Len(u) + 1] = e
  OBVIOUS
<1>2. \A n \in 1..Len(u) : Append(u, e)[n] = u[n]
  OBVIOUS
<1>3. s \o u \in Seq(Event) /\ Len(s \o u) = Len(s) + Len(u) /\ Len(s) \in Nat /\ Len(u) \in Nat
  BY Joined
<1>4. b \in Seq(Event) /\ Len(b) = Len(s) + Len(u) + 1 /\ b[Len(s) + Len(u) + 1] = e
  BY <1>3
<1>5. \A n \in 1..(Len(s) + Len(u)) : b[n] = (s \o u)[n]
  BY <1>3
<1>6. a \in Seq(Event) /\ Len(a) = Len(s) + Len(u) + 1
  BY <1>1, <1>3, Joined
<1>7. a[Len(s) + Len(u) + 1] = e
  BY <1>1, <1>3, Joined
<1>8. \A n \in 1..(Len(s) + Len(u)) : a[n] = (s \o u)[n]
  <2> TAKE n \in 1..(Len(s) + Len(u))
  <2>1. CASE n <= Len(s)
    BY <2>1, <1>1, <1>3, Joined
  <2>2. CASE n > Len(s)
    <3> DEFINE m == n - Len(s)
    <3>1. m \in 1..Len(u) /\ m \in 1..(Len(u) + 1) /\ n = Len(s) + m
      BY <2>2, <1>3
    <3> HIDE DEF m
    <3> QED
      BY <3>1, <1>1, <1>2, Joined
  <2> QED
    BY <2>1, <2>2, <1>3
<1> HIDE DEF a, b
<1>9. \A n \in 1..Len(a) : a[n] = b[n]
  <2> TAKE n \in 1..Len(a)
  <2>1. n \in 1..(Len(s) + Len(u)) \/ n = Len(s) + Len(u) + 1
    BY <1>3, <1>6
  <2> QED
    BY <2>1, <1>4, <1>5, <1>7, <1>8
<1>10. a = b
  BY <1>4, <1>6, <1>9, SameRows
<1> QED
  BY <1>10 DEF a, b

(* A replica sees the committed rows and its own. *)
LEMMA Sees ==
  ASSUME TypeOK, StreamsAreWhole, NEW r \in Replicas, NEW t \in Tasks
  PROVE  /\ Visible(r, t) \in Seq(Event) /\ Len(Visible(r, t)) \in Nat
         /\ Numbered(Visible(r, t))
         /\ VersionsIn(Visible(r, t)) = 1..Len(Visible(r, t))
         /\ CurrentVersion(r, t) = Len(Visible(r, t))
         /\ ReadsUpTo(Readable(r, t), Visible(r, t), Len(Visible(r, t)))
<1>1. Committed[t] \in Seq(Event) /\ rows[r][t] \in Seq(Event)
  BY CommittedNumbered DEF TypeOK
<1>2. Visible(r, t) \in Seq(Event) /\ Len(Visible(r, t)) \in Nat
  BY <1>1, Joined DEF Visible
<1>3. Numbered(Visible(r, t))
  BY DEF StreamsAreWhole, Numbered
<1> QED
  BY <1>2, <1>3, NumberedVersions, ReadsWhole DEF CurrentVersion, Readable

(* The events that a stream is read into. *)
LEMMA ReadSet ==
  ASSUME NEW stored, NEW events, Len(stored) \in Nat, ReadsUpTo(events, stored, Len(stored))
  PROVE  ToSet(events) = {stored[n] : n \in {m \in 1..Len(stored) : stored[m].kind # "unreadable"}}
<1>1. DOMAIN events = 1..Len(events)
  BY DEF ReadsUpTo
<1>2. ASSUME NEW i \in 1..Len(events)
      PROVE  events[i] \in {stored[n] : n \in {m \in 1..Len(stored) : stored[m].kind # "unreadable"}}
  <2>1. /\ events[i].version \in 1..Len(stored)
        /\ events[i] = stored[events[i].version]
        /\ events[i].kind # "unreadable"
    BY DEF ReadsUpTo
  <2> DEFINE v == events[i].version
  <2>2. v \in 1..Len(stored) /\ events[i] = stored[v] /\ stored[v].kind # "unreadable"
    BY <2>1
  <2> HIDE DEF v
  <2> QED
    BY <2>2
<1>3. ASSUME NEW n \in 1..Len(stored), stored[n].kind # "unreadable"
      PROVE  stored[n] \in ToSet(events)
  BY <1>1, <1>3 DEF ReadsUpTo, ToSet
<1> QED
  BY <1>1, <1>2, <1>3 DEF ToSet

(* What is committed is read by everyone. *)
LEMMA CommittedRead ==
  ASSUME TypeOK, StreamsAreWhole, NEW r \in Replicas, NEW t \in Tasks
  PROVE  ToSet(EventsIn(Committed[t])) \subseteq ToSet(Readable(r, t))
<1> DEFINE c == Committed[t]
           v == Visible(r, t)
<1>1. c \in Seq(Event) /\ Numbered(c) /\ rows[r][t] \in Seq(Event)
  BY CommittedNumbered DEF TypeOK
<1>2. Len(c) \in Nat /\ Len(c) <= Len(v) /\ \A n \in 1..Len(c) : v[n] = c[n]
  BY <1>1, Joined DEF Visible
<1>3. ToSet(EventsIn(c)) = {c[n] : n \in {m \in 1..Len(c) : c[m].kind # "unreadable"}}
  BY <1>1, <1>2, ReadsWhole, ReadSet
<1>4. Len(v) \in Nat /\ ReadsUpTo(Readable(r, t), v, Len(v))
  BY Sees
<1>5. ToSet(Readable(r, t)) = {v[n] : n \in {m \in 1..Len(v) : v[m].kind # "unreadable"}}
  BY <1>4, ReadSet
<1>6. 1..Len(c) \subseteq 1..Len(v)
  BY <1>2, <1>4
<1> HIDE DEF c, v
<1>7. ASSUME NEW n \in 1..Len(c), c[n].kind # "unreadable" PROVE c[n] \in ToSet(Readable(r, t))
  <2>1. n \in 1..Len(v) /\ v[n] = c[n]
    BY <1>2, <1>6
  <2> QED
    BY <2>1, <1>5, <1>7
<1> QED
  BY <1>3, <1>7 DEF c

(* What becomes visible with an INSERT. *)
LEMMA StoreSeen ==
  ASSUME TypeOK, NEW r \in Replicas, NEW t \in Tasks, NEW e \in Event, Store(r, t, e)
  PROVE  /\ rows' \in [Replicas -> [Tasks -> Seq(Event)]] /\ session' = session
         /\ rows'[r][t] = Append(rows[r][t], e)
         /\ Visible(r, t)' = Append(Visible(r, t), e)
         /\ Readable(r, t)' = IF e.kind = "unreadable" THEN Readable(r, t)
                              ELSE Append(Readable(r, t), e)
         /\ \A s \in Replicas, u \in Tasks : (s # r \/ u # t) =>
              /\ rows'[s][u] = rows[s][u]
              /\ Visible(s, u)' = Visible(s, u)
              /\ Readable(s, u)' = Readable(s, u)
<1>1. rows' = [rows EXCEPT ![r][t] = Append(@, e)] /\ session' = session
  BY DEF Store
<1>2. /\ rows \in [Replicas -> [Tasks -> Seq(Event)]]
      /\ Committed[t] \in Seq(Event)
  BY CommittedNumbered DEF TypeOK
<1>3. rows' \in [Replicas -> [Tasks -> Seq(Event)]]
  BY <1>1, <1>2
<1>4. rows'[r][t] = Append(rows[r][t], e)
  BY <1>1, <1>2
<1>5. \A s \in Replicas, u \in Tasks : (s # r \/ u # t) => rows'[s][u] = rows[s][u]
  BY <1>1, <1>2
<1>6. Visible(r, t) \in Seq(Event)
  BY <1>2 DEF Visible
<1>7. Visible(r, t)' = Append(Visible(r, t), e)
  <2>1. Committed[t] \in Seq(Event) /\ rows[r][t] \in Seq(Event)
    BY <1>2
  <2> QED
    BY <2>1, <1>4, JoinedAppend DEF Visible
<1>8. Readable(r, t)' = EventsIn(Append(Visible(r, t), e))
  BY <1>7 DEF Readable
<1>9. EventsIn(Append(Visible(r, t), e)) =
        IF e.kind = "unreadable" THEN EventsIn(Visible(r, t)) ELSE Append(EventsIn(Visible(r, t)), e)
  BY <1>6, EventsAppend
<1>10. ASSUME NEW s \in Replicas, NEW u \in Tasks, s # r \/ u # t
       PROVE  Visible(s, u)' = Visible(s, u) /\ Readable(s, u)' = Readable(s, u)
  BY <1>5, <1>10 DEF Visible, Readable
<1> QED
  BY <1>1, <1>3, <1>4, <1>5, <1>7, <1>8, <1>9, <1>10 DEF Readable

(* Where a transaction is gone, only the committed rows are left. *)
LEMMA GoneSeen ==
  ASSUME NEW r \in Replicas, NEW t \in Tasks, rows'[r] = NoRows
  PROVE  Visible(r, t)' = Committed[t] /\ Readable(r, t)' = EventsIn(Committed[t])
<1>1. rows'[r][t] = <<>>
  BY DEF NoRows
<1>2. Committed[t] \in Seq(Event)
  BY CommittedNumbered
<1>3. Visible(r, t)' = Committed[t]
  BY <1>1, <1>2 DEF Visible
<1> QED
  BY <1>3 DEF Readable

LEMMA SameSeen ==
  ASSUME NEW r \in Replicas, NEW t \in Tasks, rows'[r] = rows[r]
  PROVE  Visible(r, t)' = Visible(r, t) /\ Readable(r, t)' = Readable(r, t)
BY DEF Visible, Readable

-------------------------------------------------------------------------------
(* Aggregates *)

(* The events of an aggregate that are not saved. *)
LEMMA UncommittedAre ==
  ASSUME NEW o \in Aggregate, o.loaded <= Len(o.events)
  PROVE  /\ Uncommitted(o) \in Seq(Event)
         /\ Len(o.events) \in Nat /\ o.loaded \in Nat
         /\ Len(Uncommitted(o)) = Len(o.events) - o.loaded
         /\ \A n \in 1..Len(Uncommitted(o)) :
              /\ o.loaded + n \in 1..Len(o.events)
              /\ Uncommitted(o)[n] = o.events[o.loaded + n]
         /\ Uncommitted(o) = <<>> <=> o.loaded = Len(o.events)
<1> DEFINE s == o.events
           k == o.loaded
<1>1. s \in Seq(Event) /\ k \in Nat /\ k <= Len(s) /\ Len(s) \in Nat
  BY DEF Aggregate
<1>2. Uncommitted(o) = SubSeq(s, k + 1, Len(s))
  BY DEF Uncommitted
<1> HIDE DEF s, k
<1>3. /\ SubSeq(s, k + 1, Len(s)) \in Seq(Event)
      /\ Len(SubSeq(s, k + 1, Len(s))) = Len(s) - k
      /\ \A n \in 1..(Len(s) - k) : SubSeq(s, k + 1, Len(s))[n] = s[k + n]
  <2> HIDE DEF Event
  <2>1. \A n \in (k + 1)..Len(s) : s[n] \in Event
    BY <1>1
  <2> QED
    BY <1>1, <2>1
<1>4. \A n \in 1..(Len(s) - k) : k + n \in 1..Len(s)
  BY <1>1
<1>5. SubSeq(s, k + 1, Len(s)) = <<>> <=> k = Len(s)
  <2> DEFINE u == SubSeq(s, k + 1, Len(s))
  <2>1. u \in Seq(Event) /\ Len(u) = Len(s) - k
    BY <1>3
  <2> HIDE DEF u
  <2>2. u = <<>> <=> Len(u) = 0
    BY <2>1
  <2>3. Len(u) = 0 <=> k = Len(s)
    BY <2>1, <1>1
  <2> QED
    BY <2>2, <2>3 DEF u
<1> QED
  BY <1>1, <1>2, <1>3, <1>4, <1>5 DEF s, k

(* An aggregate that has grown from another one. *)
Extends(new, o) ==
  /\ new.loaded = o.loaded
  /\ Len(o.events) <= Len(new.events)
  /\ \A n \in 1..Len(o.events) : new.events[n] = o.events[n]

LEMMA ExtendsItself ==
  ASSUME NEW o \in Aggregate
  PROVE  Extends(o, o)
<1>1. Len(o.events) \in Nat
  BY DEF Aggregate
<1> QED
  BY <1>1 DEF Extends

LEMMA ExtendsKnows ==
  ASSUME NEW o \in Aggregate, NEW new \in Aggregate, Extends(new, o)
  PROVE  ToSet(o.events) \subseteq ToSet(new.events)
<1>1. /\ DOMAIN o.events = 1..Len(o.events) /\ DOMAIN new.events = 1..Len(new.events)
      /\ Len(o.events) \in Nat /\ Len(new.events) \in Nat
  BY DEF Aggregate
<1>2. 1..Len(o.events) \subseteq 1..Len(new.events)
  BY <1>1 DEF Extends
<1> QED
  BY <1>1, <1>2 DEF Extends, ToSet

LEMMA NothingSound == NoAggregate \in Aggregate /\ Sound(NoAggregate) /\ ~IsDeleted(NoAggregate.events)
<1>1. NoAggregate.events = <<>> /\ NoAggregate.loaded = 0 /\ NoAggregate.version = 0
  BY DEF NoAggregate
<1>2. NoAggregate \in Aggregate
  BY DEF NoAggregate, Aggregate
<1> QED
  BY <1>1, <1>2 DEF Sound, VersionAt, IsDeleted

(* One more recorded event, on an aggregate that is not deleted. *)
LEMMA RecordedSound ==
  ASSUME NEW o \in Aggregate, Sound(o), ~IsDeleted(o.events),
         NEW e \in Event, e.version = o.version + 1,
         NEW v \in {o.version, o.version + 1}
  PROVE  LET new == [events |-> Append(o.events, e), loaded |-> o.loaded, version |-> v]
         IN new \in Aggregate /\ Sound(new) /\ Extends(new, o)
<1> DEFINE s == o.events
           k == Len(s)
           more == Append(s, e)
           new == [events |-> more, loaded |-> o.loaded, version |-> v]
<1>1. s \in Seq(Event) /\ k \in Nat /\ o.loaded \in Nat /\ o.version \in Nat /\ v \in Nat
  BY DEF Aggregate
<1>2. /\ more \in Seq(Event) /\ Len(more) = k + 1 /\ more[k + 1] = e
      /\ \A n \in 1..k : more[n] = s[n]
      /\ DOMAIN more = 1..(k + 1) /\ DOMAIN s = 1..k
  BY <1>1
<1>3. \A n \in 1..(k + 1) : n \in 1..k \/ n = k + 1
  BY <1>1
<1>4. \A n \in 1..k : s[n].version \in Nat
  <2>1. \A n \in 1..k : s[n] \in Event
    BY <1>1
  <2> QED
    BY <2>1 DEF Event
<1>5. /\ o.loaded <= k
      /\ o.version <= VersionAt(o, k)
      /\ o.version <= VersionAt(o, o.loaded) + (k - o.loaded)
  BY DEF Sound
<1>6. \A n \in 1..k :
        /\ s[n].version > 0 /\ s[n].version <= o.version + 1
        /\ \A m \in 1..n : s[m].version <= s[n].version
        /\ n > o.loaded => s[n].version <= VersionAt(o, n - 1) + 1
        /\ s[n].kind # "deleted"
  BY <1>2 DEF Sound, IsDeleted
<1>7. new.events = more /\ new.loaded = o.loaded /\ new.version = v
  OBVIOUS
<1>8. new \in Aggregate
  BY <1>1, <1>2 DEF Aggregate
<1> HIDE DEF new, more
<1>9. \A n \in 0..k : VersionAt(new, n) = VersionAt(o, n)
  BY <1>1, <1>2, <1>7 DEF VersionAt
<1>10. VersionAt(new, k + 1) = o.version + 1
  BY <1>1, <1>2, <1>7 DEF VersionAt
<1>11. \A n \in 0..k : VersionAt(o, n) \in Nat
  BY <1>4 DEF VersionAt
<1> HIDE DEF s, k
<1>12. ASSUME NEW n \in 1..(k + 1)
       PROVE  /\ more[n].version > 0 /\ more[n].version <= v + 1
              /\ \A m \in 1..n : more[m].version <= more[n].version
              /\ n > o.loaded => more[n].version <= VersionAt(new, n - 1) + 1
              /\ more[n].kind = "deleted" => n = k + 1
  <2>1. CASE n \in 1..k
    <3>1. \A m \in 1..n : m \in 1..k
      BY <2>1, <1>1
    <3>2. n - 1 \in 0..k
      BY <2>1, <1>1
    <3> QED
      BY <2>1, <3>1, <3>2, <1>1, <1>2, <1>4, <1>6, <1>9
  <2>2. CASE n = k + 1
    <3>1. more[n] = e /\ e.version = o.version + 1
      BY <2>2, <1>2
    <3>2. \A m \in 1..n : more[m].version <= more[n].version
      BY <2>2, <3>1, <1>1, <1>2, <1>3, <1>4, <1>6
    <3>3. VersionAt(new, n - 1) = VersionAt(o, k)
      BY <2>2, <1>1, <1>9
    <3>4. VersionAt(o, k) \in Nat
      BY <1>1, <1>11
    <3> QED
      BY <2>2, <3>1, <3>2, <3>3, <3>4, <1>1, <1>5
  <2> QED
    BY <2>1, <2>2, <1>3
<1>13. VersionAt(new, o.loaded) = VersionAt(o, o.loaded) /\ VersionAt(o, o.loaded) \in Nat
  BY <1>1, <1>5, <1>9, <1>11
<1>14. v <= VersionAt(new, o.loaded) + (k + 1 - o.loaded)
  BY <1>1, <1>5, <1>13
<1>15. Sound(new)
  BY <1>1, <1>2, <1>5, <1>7, <1>10, <1>12, <1>14 DEF Sound
<1>16. Extends(new, o)
  BY <1>1, <1>2, <1>7 DEF Extends, s, k
<1> QED
  BY <1>8, <1>15, <1>16 DEF new, more, s

(* A command leaves a sound aggregate behind, whatever becomes of it. *)
LEMMA AfterSound ==
  ASSUME NEW o \in Aggregate, Sound(o), NEW q \in Requests,
         NEW rpc \in {"Create", "Update", "Assign", "Delete"}, NEW outcome \in Outcomes(rpc, o)
  PROVE  /\ After(o, outcome, q) \in Aggregate
         /\ Sound(After(o, outcome, q))
         /\ Extends(After(o, outcome, q), o)
<1>1. CASE outcome \in {"refused", "unchanged"}
  BY <1>1, ExtendsItself DEF After
<1>2. CASE outcome \notin {"refused", "unchanged"}
  <2>1. ~IsDeleted(o.events) /\ outcome \in {"changed", "deleted", "rejected"}
    BY <1>2 DEF Outcomes
  <2> DEFINE e == [version |-> o.version + 1, kind |-> outcome, by |-> q]
             v == IF outcome = "rejected" THEN o.version ELSE o.version + 1
  <2>2. o.version \in Nat
    BY DEF Aggregate
  <2>3. e \in Event /\ e.version = o.version + 1
    BY <2>1, <2>2 DEF Event, Kinds
  <2>4. v \in {o.version, o.version + 1}
    OBVIOUS
  <2>5. After(o, outcome, q) = [events |-> Append(o.events, e), loaded |-> o.loaded, version |-> v]
    BY <1>2 DEF After, Aggregate
  <2> HIDE DEF e, v
  <2> QED
    BY <2>1, <2>3, <2>4, <2>5, RecordedSound
<1> QED
  BY <1>1, <1>2

(* An aggregate that is rebuilt from a stream. *)
LEMMA LoadedSound ==
  ASSUME NEW stored \in Seq(Event), Numbered(stored), NEW events,
         ReadsUpTo(events, stored, Len(stored)), ~IsDeleted(events)
  PROVE  LET o == [events |-> events, loaded |-> Len(events),
                   version |-> IF events = <<>> THEN 0 ELSE Last(events).version]
         IN o \in Aggregate /\ Sound(o)
<1> DEFINE k == Len(events)
           v == IF events = <<>> THEN 0 ELSE Last(events).version
           o == [events |-> events, loaded |-> k, version |-> v]
<1>1. events \in Seq(Event) /\ k \in Nat /\ DOMAIN events = 1..k /\ Len(stored) \in Nat
  BY DEF ReadsUpTo
<1>2. \A n \in 1..k : events[n].version \in Nat /\ events[n].version > 0
  BY <1>1 DEF ReadsUpTo
<1>3. v = IF k = 0 THEN 0 ELSE events[k].version
  BY <1>1 DEF Last
<1>4. v \in Nat
  BY <1>1, <1>2, <1>3
<1>5. o.events = events /\ o.loaded = k /\ o.version = v
  OBVIOUS
<1>6. o \in Aggregate
  BY <1>1, <1>4 DEF Aggregate
<1> HIDE DEF o, v
<1>7. VersionAt(o, k) = v
  BY <1>3, <1>5 DEF VersionAt
<1> HIDE DEF k
<1>8. ASSUME NEW n \in 1..k, NEW m \in 1..n PROVE events[m].version <= events[n].version
  <2>1. m \in 1..k /\ (m < n \/ m = n)
    BY <1>1
  <2>2. n \in 1..k
    OBVIOUS
  <2>3. m < n => events[m].version < events[n].version
    BY <2>1, <2>2 DEF ReadsUpTo, k
  <2> QED
    BY <2>1, <2>3, <1>2
<1>9. ASSUME NEW n \in 1..k PROVE events[n].version <= v
  <2>1. k \in 1..k /\ n \in 1..k /\ k # 0
    BY <1>1
  <2> QED
    BY <2>1, <1>3, <1>8
<1>10. ASSUME NEW n \in 1..k
       PROVE  /\ events[n].version > 0 /\ events[n].version <= v + 1
              /\ \A m \in 1..n : events[m].version <= events[n].version
              /\ n > k => events[n].version <= VersionAt(o, n - 1) + 1
              /\ events[n].kind = "deleted" => n = k
  BY <1>1, <1>2, <1>4, <1>8, <1>9 DEF IsDeleted
<1>11. Sound(o)
  BY <1>1, <1>4, <1>5, <1>7, <1>10 DEF Sound
<1> QED
  BY <1>6, <1>11 DEF o, k, v

(* What an aggregate has not saved is without a gap, and ends with the     *)
(* deletion.                                                               *)
LEMMA UncommittedChained ==
  ASSUME NEW o \in Aggregate, Sound(o)
  PROVE  /\ Chained(Uncommitted(o))
         /\ ToSet(Uncommitted(o)) \subseteq ToSet(o.events)
<1> DEFINE k == o.loaded
           todo == Uncommitted(o)
           d == Len(o.events)
<1>2. o.events \in Seq(Event) /\ d \in Nat /\ k \in Nat /\ k <= d /\ o.version \in Nat
      /\ DOMAIN o.events = 1..d
  BY DEF Aggregate, Sound
<1>3. /\ todo \in Seq(Event) /\ Len(todo) = d - k /\ DOMAIN todo = 1..(d - k)
      /\ \A n \in 1..(d - k) : k + n \in 1..d /\ todo[n] = o.events[k + n]
      /\ todo = <<>> <=> k = d
  BY <1>2, UncommittedAre
<1>7. \A n \in 1..d :
        /\ o.events[n].version > 0
        /\ n > k => o.events[n].version <= VersionAt(o, n - 1) + 1
        /\ o.events[n].kind = "deleted" => n = d
  BY <1>2 DEF Sound
<1> HIDE DEF todo, k, d
<1>8. ASSUME NEW n \in 1..(d - k)
      PROVE  /\ todo[n].version > 0
             /\ n > 1 => todo[n].version <= todo[n - 1].version + 1
             /\ todo[n].kind = "deleted" => n = d - k
  <2>1. k + n \in 1..d /\ todo[n] = o.events[k + n] /\ k + n > k
    BY <1>2, <1>3
  <2>2. /\ todo[n].version > 0
        /\ todo[n].version <= VersionAt(o, k + n - 1) + 1
        /\ todo[n].kind = "deleted" => k + n = d
    <3> DEFINE m == k + n
    <3>1. m \in 1..d /\ todo[n] = o.events[m] /\ m > k
      BY <2>1
    <3>3. m - 1 = k + n - 1
      BY <1>2
    <3> HIDE DEF m
    <3>2. /\ o.events[m].version > 0
          /\ o.events[m].version <= VersionAt(o, m - 1) + 1
          /\ o.events[m].kind = "deleted" => m = d
      BY <3>1, <1>7
    <3> QED
      BY <3>1, <3>2, <3>3 DEF m
  <2>3. ASSUME n > 1 PROVE VersionAt(o, k + n - 1) = todo[n - 1].version
    <3>1. n - 1 \in 1..(d - k) /\ k + (n - 1) = k + n - 1 /\ k + n - 1 # 0
      BY <2>3, <1>2
    <3>2. todo[n - 1] = o.events[k + (n - 1)]
      BY <3>1, <1>3
    <3> QED
      BY <3>1, <3>2 DEF VersionAt
  <2>4. n > 1 => todo[n].version <= todo[n - 1].version + 1
    BY <2>2, <2>3
  <2>5. k + n = d => n = d - k
    BY <1>2
  <2> QED
    BY <2>2, <2>4, <2>5
<1>9. Chained(todo)
  BY <1>3, <1>8 DEF Chained
<1>10. ToSet(todo) \subseteq ToSet(o.events)
  BY <1>2, <1>3 DEF ToSet
<1> QED
  BY <1>9, <1>10 DEF todo

(* What an aggregate has not saved continues what it was loaded with: it   *)
(* leaves no gap, and if it begins with the very next version, then the    *)
(* aggregate was loaded with all that there is.                            *)
LEMMA Continues ==
  ASSUME NEW stored \in Seq(Event), Numbered(stored), NEW events,
         ReadsUpTo(events, stored, Len(stored)),
         NEW o \in Aggregate, Sound(o), o.loaded <= Len(events),
         \A n \in 1..o.loaded : o.events[n] = events[n]
  PROVE  /\ OwnExpectation(o) <= Len(stored)
         /\ Uncommitted(o) # <<>> =>
              /\ Uncommitted(o)[1].version <= Len(stored) + 1
              /\ Uncommitted(o)[1].version = Len(stored) + 1 => ToSet(events) \subseteq ToSet(o.events)
<1> DEFINE L == Len(stored)
           k == o.loaded
           todo == Uncommitted(o)
           d == Len(o.events)
<1>1. L \in Nat /\ events \in Seq(Event) /\ Len(events) \in Nat /\ DOMAIN events = 1..Len(events)
  BY DEF ReadsUpTo
<1>2. o.events \in Seq(Event) /\ d \in Nat /\ k \in Nat /\ k <= d /\ o.version \in Nat
      /\ DOMAIN o.events = 1..d
  BY DEF Aggregate, Sound
<1>3. /\ todo \in Seq(Event) /\ Len(todo) = d - k /\ DOMAIN todo = 1..(d - k)
      /\ \A n \in 1..(d - k) : k + n \in 1..d /\ todo[n] = o.events[k + n]
      /\ todo = <<>> <=> k = d
  BY <1>2, UncommittedAre
<1>4. \A n \in 1..d : o.events[n].version \in Nat
  <2>1. \A n \in 1..d : o.events[n] \in Event
    BY <1>2
  <2> QED
    BY <2>1 DEF Event
<1>5. VersionAt(o, k) \in 0..L
  <2>1. CASE k = 0
    BY <2>1, <1>1 DEF VersionAt
  <2>2. CASE k # 0
    <3>1. k \in 1..k /\ k \in 1..Len(events)
      BY <2>2, <1>1, <1>2
    <3>2. o.events[k] = events[k] /\ events[k].version \in 1..L
      BY <3>1 DEF ReadsUpTo
    <3> QED
      BY <2>2, <3>2, <1>1 DEF VersionAt
  <2> QED
    BY <2>1, <2>2
<1>6. OwnExpectation(o) <= L
  <2>1. o.version <= VersionAt(o, k) + (d - k)
    BY DEF Sound
  <2>2. OwnExpectation(o) = o.version - (d - k)
    BY <1>3 DEF OwnExpectation
  <2> HIDE DEF L, k, d
  <2> QED
    BY <2>1, <2>2, <1>1, <1>2, <1>5
<1>7. \A n \in 1..d :
        /\ o.events[n].version > 0
        /\ n > k => o.events[n].version <= VersionAt(o, n - 1) + 1
        /\ o.events[n].kind = "deleted" => n = d
  BY <1>2 DEF Sound
<1> HIDE DEF todo, L, k, d
<1>11. ASSUME todo # <<>>
       PROVE  /\ todo[1].version <= L + 1
              /\ todo[1].version = L + 1 => ToSet(events) \subseteq ToSet(o.events)
  <2>1. 1 \in 1..(d - k) /\ k + 1 \in 1..d
    BY <1>11, <1>2, <1>3
  <2>2. todo[1] = o.events[k + 1]
    BY <2>1, <1>3
  <2>3. o.events[k + 1].version <= VersionAt(o, k) + 1
    <3>1. k + 1 > k /\ (k + 1) - 1 = k
      BY <1>2
    <3> QED
      BY <2>1, <3>1, <1>7
  <2>4. todo[1].version \in Nat
    BY <2>1, <2>2, <1>4
  <2>5. todo[1].version <= L + 1
    BY <2>2, <2>3, <2>4, <1>1, <1>5
  <2>6. ASSUME todo[1].version = L + 1 PROVE ToSet(events) \subseteq ToSet(o.events)
    <3>1. VersionAt(o, k) = L
      BY <2>2, <2>3, <2>6, <1>1, <1>5
    <3>2. Len(events) <= k
      <4>1. SUFFICES ASSUME Len(events) > k PROVE FALSE
        BY <1>1, <1>2
      <4>2. CASE k = 0
        <5>1. 1 \in 1..Len(events) /\ L = 0
          BY <4>1, <4>2, <3>1, <1>1 DEF VersionAt
        <5> QED
          BY <5>1, <1>1 DEF ReadsUpTo, L
      <4>3. CASE k # 0
        <5>1. k \in 1..Len(events) /\ k + 1 \in 1..Len(events) /\ k < k + 1 /\ k \in 1..k
          BY <4>1, <4>3, <1>1, <1>2
        <5>2. events[k].version < events[k + 1].version /\ events[k + 1].version \in 1..L
          BY <5>1 DEF ReadsUpTo, L
        <5>3. events[k].version = L
          BY <5>1, <4>3, <3>1 DEF VersionAt, k
        <5> QED
          BY <5>2, <5>3, <1>1
      <4> QED
        BY <4>2, <4>3
    <3>3. \A n \in 1..Len(events) : n \in 1..k /\ n \in 1..d
      BY <3>2, <1>1, <1>2
    <3>4. \A n \in 1..Len(events) : events[n] = o.events[n] /\ n \in 1..d
      BY <3>3 DEF k
    <3> QED
      BY <3>4, <1>1, <1>2 DEF ToSet
  <2> QED
    BY <2>5, <2>6
<1> QED
  BY <1>6, <1>11 DEF todo, L

-------------------------------------------------------------------------------
(* Handlers *)

LEMMA AnsweredIs ==
  ASSUME NEW answer \in {"ok", "error"}
  PROVE  Answered(answer) \in Handling /\ Answered(answer).pc = answer
<1>1. Answered(answer) =
        [pc |-> answer, at |-> None, rpc |-> None, task |-> None, expected |-> 0,
         stage |-> None, agg |-> None, want |-> 0, todo |-> <<>>]
  BY DEF Answered, Silent
<1>2. <<>> \in Seq(Event)
  OBVIOUS
<1> HIDE DEF Event
<1> QED
  BY <1>1, <1>2 DEF Handling

LEMMA SilentIs == Silent \in Handling /\ Silent.pc = "none"
<1>1. <<>> \in Seq(Event)
  OBVIOUS
<1> HIDE DEF Event
<1> QED
  BY <1>1 DEF Silent, Handling

(* A call that arrives. *)
LEMMA CalledIs ==
  ASSUME NEW c \in Calls, NEW task \in Tasks, c.rpc # "Create" => c.task = task
  PROVE  /\ c.at \in Replicas /\ Called(c).rpc = c.rpc
         /\ [Called(c) EXCEPT !.task = task] \in Handling
         /\ [Called(c) EXCEPT !.task = task].rpc = c.rpc
         /\ [Called(c) EXCEPT !.task = task].at = c.at
         /\ [Called(c) EXCEPT !.task = task].task = task
         /\ c.rpc # "Create" => /\ Called(c) \in Handling
                               /\ Called(c).at = c.at /\ Called(c).task = task
                               /\ Called(c).agg = None
<1> DEFINE at == c.at
           rpc == c.rpc
           expected == c.expected
           for == c.task
<1>1. /\ at \in Replicas /\ expected \in Nat
      /\ rpc \in {"Create", "Get", "History", "Update", "Assign", "Delete"}
  BY TaskServiceAssumption
<1>2. Called(c) = [Silent EXCEPT !.at = at, !.rpc = rpc, !.task = for, !.expected = expected]
  BY DEF Called
<1>3. Silent.agg = None /\ Silent \in Handling
  BY SilentIs DEF Silent
<1>4. rpc # "Create" => for = task
  OBVIOUS
<1> DEFINE k == [Silent EXCEPT !.at = at, !.rpc = rpc, !.task = for, !.expected = expected]
<1> HIDE DEF at, rpc, expected, for, Event, Silent
<1>5. k.rpc = rpc /\ k.at = at /\ k.task = for /\ k.agg = None
  BY <1>3 DEF Handling
<1>6. [k EXCEPT !.task = task] \in Handling
  BY <1>1, <1>3 DEF Handling
<1>7. rpc # "Create" => k \in Handling
  BY <1>1, <1>3, <1>4 DEF Handling
<1>8. /\ [k EXCEPT !.task = task].rpc = rpc
      /\ [k EXCEPT !.task = task].at = at
      /\ [k EXCEPT !.task = task].task = task
  BY <1>3 DEF Handling
<1>9. Called(c) = k
  BY <1>2
<1> HIDE DEF k
<1> QED
  BY <1>1, <1>4, <1>5, <1>6, <1>7, <1>8, <1>9 DEF at, rpc

LEMMA LoadingIs ==
  ASSUME NEW h \in Handling, NEW k, k = [h EXCEPT !.pc = "load"]
  PROVE  /\ k \in Handling /\ k.pc = "load" /\ k.at = h.at /\ k.task = h.task
         /\ k.rpc = h.rpc /\ k.agg = h.agg
<1> HIDE DEF Event
<1> QED
  BY DEF Handling

(* A handler at the beginning of save_events. *)
LEMMA SavingIs ==
  ASSUME NEW h \in Handling, NEW stage \in {"save", "commit"}, NEW a \in Requests,
         NEW want \in Int, NEW events \in Seq(Event), NEW k,
         k = [h EXCEPT !.pc = "version", !.stage = stage, !.agg = a, !.want = want, !.todo = events]
  PROVE  /\ k \in Handling /\ k.pc = "version" /\ k.stage = stage /\ k.agg = a
         /\ k.want = want /\ k.todo = events
         /\ k.at = h.at /\ k.task = h.task
<1> HIDE DEF Event
<1> QED
  BY DEF Handling

LEMMA InsertingIs ==
  ASSUME NEW h \in Handling, NEW k, k = [h EXCEPT !.pc = "insert"]
  PROVE  /\ k \in Handling /\ k.pc = "insert" /\ k.stage = h.stage /\ k.agg = h.agg
         /\ k.want = h.want /\ k.todo = h.todo /\ k.at = h.at /\ k.task = h.task
<1> HIDE DEF Event
<1> QED
  BY DEF Handling

LEMMA NextRowIs ==
  ASSUME NEW h \in Handling, NEW todo \in Seq(Event), NEW k, k = [h EXCEPT !.todo = todo]
  PROVE  /\ k \in Handling /\ k.pc = h.pc /\ k.stage = h.stage /\ k.agg = h.agg
         /\ k.want = h.want /\ k.todo = todo /\ k.at = h.at /\ k.task = h.task
<1> HIDE DEF Event
<1> QED
  BY DEF Handling

(* How a handler goes on that has carried out its command, at replica r and*)
(* for task t, on the aggregate that request a has built and that is now   *)
(* new: it answers, or saves the events.                                   *)
GoesOn(k, r, t, a, new) ==
  \/ k.pc \in {"ok", "error"}
  \/ /\ k.pc = "version" /\ k.stage = "save"
     /\ k.at = r /\ k.task = t /\ k.agg = a
     /\ k.todo = Uncommitted(new) /\ k.todo # <<>>

LEMMA CommandEffect ==
  ASSUME NEW q \in Requests, NEW a \in Requests, NEW h \in Handling, NEW o \in Aggregate,
         h.rpc \in {"Create", "Update", "Assign", "Delete"}, Sound(o), Command(q, h, a, o)
  PROVE  \E new \in Aggregate, k \in Handling :
           /\ object' = [object EXCEPT ![a] = new]
           /\ handler' = [handler EXCEPT ![q] = k]
           /\ Sound(new) /\ Extends(new, o)
           /\ GoesOn(k, h.at, h.task, a, new)
<1>1. PICK outcome \in Outcomes(h.rpc, o) :
        LET new == After(o, outcome, q)
            events == Uncommitted(new)
            want == IF h.rpc = "Create" THEN OwnExpectation(new) ELSE h.expected
        IN /\ object' = [object EXCEPT ![a] = new]
           /\ CASE outcome \in {"refused", "rejected"} -> Answer(q, "error")
                [] events = <<>> -> Answer(q, "ok")
                [] OTHER -> SaveEvents(q, h, "save", a, want, events)
  BY DEF Command
<1> DEFINE new == After(o, outcome, q)
           events == Uncommitted(new)
           want == IF h.rpc = "Create" THEN OwnExpectation(new) ELSE h.expected
<1>2. new \in Aggregate /\ Sound(new) /\ Extends(new, o)
  BY AfterSound
<1> HIDE DEF new
<1>3. new.loaded <= Len(new.events) /\ new.version \in Nat
  BY <1>2 DEF Sound, Aggregate
<1>4. events \in Seq(Event) /\ Len(events) \in Nat
  BY <1>2, <1>3, UncommittedAre
<1>5. want \in Int
  <2>1. h.expected \in Nat
    BY DEF Handling
  <2>2. OwnExpectation(new) \in Int
    BY <1>3, <1>4 DEF OwnExpectation
  <2> QED
    BY <2>1, <2>2
<1>6. object' = [object EXCEPT ![a] = new]
  BY <1>1 DEF new
<1>7. \/ Answer(q, "error") \/ Answer(q, "ok")
      \/ events # <<>> /\ SaveEvents(q, h, "save", a, want, events)
  BY <1>1 DEF new
<1> HIDE DEF events, want
<1>8. CASE Answer(q, "error") \/ Answer(q, "ok")
  <2>1. PICK answer \in {"ok", "error"} : handler' = [handler EXCEPT ![q] = Answered(answer)]
    BY <1>8 DEF Answer
  <2>2. GoesOn(Answered(answer), h.at, h.task, a, new) /\ Answered(answer) \in Handling
    BY AnsweredIs DEF GoesOn
  <2> QED
    BY <2>1, <2>2, <1>2, <1>6
<1>9. CASE events # <<>> /\ SaveEvents(q, h, "save", a, want, events)
  <2> DEFINE k == [h EXCEPT !.pc = "version", !.stage = "save", !.agg = a, !.want = want, !.todo = events]
  <2>1. handler' = [handler EXCEPT ![q] = k]
    BY <1>9 DEF SaveEvents
  <2>2. /\ k \in Handling /\ k.pc = "version" /\ k.stage = "save" /\ k.agg = a
        /\ k.todo = events /\ k.at = h.at /\ k.task = h.task
    <3>1. k = [h EXCEPT !.pc = "version", !.stage = "save", !.agg = a, !.want = want, !.todo = events]
      OBVIOUS
    <3> HIDE DEF k
    <3> QED
      <4> HIDE DEF Event
      <4> QED
        BY <3>1, <1>4, <1>5 DEF Handling
  <2> HIDE DEF k
  <2>3. GoesOn(k, h.at, h.task, a, new)
    BY <2>2, <1>9 DEF GoesOn, events
  <2> QED
    BY <2>1, <2>2, <2>3, <1>2, <1>6
<1> QED
  BY <1>7, <1>8, <1>9

LEMMA ProceedEffect ==
  ASSUME NEW q \in Requests, NEW a \in Requests, NEW h \in Handling, NEW o \in Aggregate,
         h.rpc \in {"Create", "Get", "Update", "Assign", "Delete"}, Sound(o), Proceed(q, h, a, o)
  PROVE  \E new \in Aggregate, k \in Handling :
           /\ object' = [object EXCEPT ![a] = new]
           /\ handler' = [handler EXCEPT ![q] = k]
           /\ Sound(new) /\ Extends(new, o)
           /\ GoesOn(k, h.at, h.task, a, new)
<1>1. CASE h.rpc = "Get"
  <2>1. handler' = [handler EXCEPT ![q] = Answered("ok")] /\ object' = [object EXCEPT ![a] = o]
    BY <1>1 DEF Proceed, Answer
  <2>2. Answered("ok") \in Handling /\ GoesOn(Answered("ok"), h.at, h.task, a, o)
    BY AnsweredIs DEF GoesOn
  <2> QED
    BY <2>1, <2>2, ExtendsItself
<1>2. CASE h.rpc # "Get"
  <2>1. Command(q, h, a, o)
    BY <1>2 DEF Proceed
  <2> QED
    BY <2>1, <1>2, CommandEffect
<1> QED
  BY <1>1, <1>2

-------------------------------------------------------------------------------
(* Steps that leave the rows alone *)

LEMMA HeldOnce ==
  ASSUME IInv, NEW a \in Requests, NEW r \in Replicas, NEW t \in Tasks, Holds(a, r, t)
  PROVE  /\ handler[a].pc \notin {"none", "load"}
         /\ Sound(object[a]) /\ Fits(object[a], r, t)
         /\ \A s \in Replicas, u \in Tasks : Holds(a, s, u) => s = r /\ u = t
BY DEF IInv, HeldInv, MemoryInv

(* A handler that saves, holds what it saves. *)
LEMMA SaverHolds ==
  ASSUME IInv, NEW q \in Requests, Saving(q)
  PROVE  /\ handler[q].agg \in Requests
         /\ handler[q].at \in Replicas /\ handler[q].task \in Tasks
         /\ Holds(handler[q].agg, handler[q].at, handler[q].task)
<1>1. /\ handler[q].agg \in Requests
      /\ handler[q].at \in Replicas /\ handler[q].task \in Tasks
  BY DEF IInv, FlightInv, Saving, InFlight
<1> QED
  BY <1>1 DEF Holds

LEMMA SaverHeld ==
  ASSUME IInv, NEW q \in Requests, Saving(q)
  PROVE  \E h \in Handling, a \in Requests, r \in Replicas, t \in Tasks :
           /\ handler[q] = h /\ h.agg = a /\ h.at = r /\ h.task = t
           /\ Holds(a, r, t)
           /\ SaveFits(h, object[a], Visible(r, t), Readable(r, t), session[r])
<1>1. handler[q] \in Handling
  BY DEF IInv, TypeOK
<1>2. SaveInv
  BY DEF IInv
<1> QED
  BY <1>1, <1>2, SaverHolds DEF SaveInv

(* What is to be shown of the savers in the next state. *)
LEMMA SaveInvNext ==
  ASSUME \A p \in Requests : Saving(p)' =>
           \E b \in Requests, s \in Replicas, u \in Tasks :
             /\ handler'[p].agg = b /\ handler'[p].at = s /\ handler'[p].task = u
             /\ SaveFits(handler'[p], object'[b], Visible(s, u)', Readable(s, u)', session'[s])
  PROVE  SaveInv'
BY DEF SaveInv

(* Streams that nobody touches stay what they are. *)
LEMMA SameStreams ==
  ASSUME StreamsAreWhole, rows' = rows
  PROVE  StreamsAreWhole'
BY SameSeen DEF StreamsAreWhole

(* Request q at replica r has carried out a command for task t, on an      *)
(* aggregate of its own or on the cached one.                              *)
LEMMA Commanded ==
  ASSUME IInv, NEW q \in Requests, NEW a \in Requests, NEW r \in Replicas, NEW t \in Tasks,
         NEW new \in Aggregate, NEW k \in Handling,
         handler[q].pc \in {"none", "load"},
         rows' = rows, session' = session,
         object' = [object EXCEPT ![a] = new],
         handler' = [handler EXCEPT ![q] = k],
         Sound(new), Fits(new, r, t), GoesOn(k, r, t, a, new),
         \/ /\ cache' = cache
            /\ a = q \/ (cache[r][t] = a /\ Extends(new, object[a]))
         \/ /\ cache' = [cache EXCEPT ![r][t] = q]
            /\ a = q /\ ToSet(Readable(r, t)) \subseteq ToSet(new.events)
  PROVE  IInv'
<1>1. TypeOK /\ StreamsAreWhole /\ CacheKeepsUp /\ RowsInv /\ FlightInv /\ HeldInv /\ MemoryInv /\ SaveInv
  BY DEF IInv
<1>2. /\ handler \in [Requests -> Handling] /\ object \in [Requests -> Aggregate]
      /\ cache \in [Replicas -> [Tasks -> Requests \cup {None}]]
  BY <1>1 DEF TypeOK
<1>3. TypeOK'
  <2>1. handler' \in [Requests -> Handling] /\ object' \in [Requests -> Aggregate]
    BY <1>2
  <2>2. cache' \in [Replicas -> [Tasks -> Requests \cup {None}]]
    BY <1>2
  <2> QED
    BY <1>1, <2>1, <2>2 DEF TypeOK
<1>4. \A s \in Replicas, u \in Tasks :
        Visible(s, u)' = Visible(s, u) /\ Readable(s, u)' = Readable(s, u)
  BY SameSeen
<1>5. handler'[q] = k /\ \A p \in Requests \ {q} : handler'[p] = handler[p]
  BY <1>2
<1>6. object'[a] = new /\ \A b \in Requests \ {a} : object'[b] = object[b]
  BY <1>2
<1>7. k.pc \in {"ok", "error", "version"}
  BY DEF GoesOn
<1>8. \A s \in Replicas, u \in Tasks : ~Holds(q, s, u)
  BY HeldOnce
<1>9. \A b \in Requests, s \in Replicas, u \in Tasks :
        cache'[s][u] = b => cache[s][u] = b \/ (b = a /\ s = r /\ u = t)
  BY <1>2
<1>10. \A b \in Requests, s \in Replicas, u \in Tasks :
         Holds(b, s, u)' => Holds(b, s, u) \/ (b = a /\ s = r /\ u = t)
  <2> TAKE b \in Requests, s \in Replicas, u \in Tasks
  <2> HAVE Holds(b, s, u)'
  <2>1. CASE cache'[s][u] = b
    BY <2>1, <1>9 DEF Holds
  <2>2. ASSUME NEW p \in Requests, Saving(p)', handler'[p].at = s, handler'[p].task = u,
               handler'[p].agg = b
        PROVE  Holds(b, s, u) \/ (b = a /\ s = r /\ u = t)
    <3>1. CASE p = q
      BY <2>2, <3>1, <1>5 DEF GoesOn, Saving
    <3>2. CASE p # q
      BY <2>2, <3>2, <1>5 DEF Holds, Saving
    <3> QED
      BY <3>1, <3>2
  <2> QED
    BY <2>1, <2>2 DEF Holds
<1>11. ASSUME NEW s \in Replicas, NEW u \in Tasks, Holds(a, s, u)
       PROVE  s = r /\ u = t /\ ToSet(object[a].events) \subseteq ToSet(new.events)
  <2>1. a # q
    BY <1>8, <1>11
  <2>2. cache[r][t] = a
    BY <2>1
  <2>3. Holds(a, r, t)
    BY <2>2 DEF Holds
  <2>4. object[a] \in Aggregate /\ Extends(new, object[a])
    BY <2>1, <1>2
  <2> QED
    BY <2>3, <2>4, <1>11, HeldOnce, ExtendsKnows
<1>12. handler'[a].pc \notin {"none", "load"}
  <2>1. CASE a = q
    BY <2>1, <1>5, <1>7
  <2>2. CASE a # q
    <3>1. Holds(a, r, t)
      BY <2>2 DEF Holds
    <3> QED
      BY <3>1, <2>2, <1>5, HeldOnce
  <2> QED
    BY <2>1, <2>2
<1>13. HeldInv'
  <2>1. ASSUME NEW b \in Requests, NEW s \in Replicas, NEW u \in Tasks, Holds(b, s, u)'
        PROVE  /\ handler'[b].pc \notin {"none", "load"}
               /\ \A s1 \in Replicas, u1 \in Tasks : Holds(b, s1, u1)' => s1 = s /\ u1 = u
    <3>1. CASE b = a
      BY <2>1, <3>1, <1>10, <1>11, <1>12
    <3>2. CASE b # a
      <4>1. Holds(b, s, u) /\ b # q
        BY <2>1, <3>2, <1>8, <1>10
      <4> QED
        BY <4>1, <3>2, <1>5, <1>10, HeldOnce
    <3> QED
      BY <3>1, <3>2
  <2> QED
    BY <2>1 DEF HeldInv
<1>14. MemoryInv'
  <2>1. \A b \in Requests : Sound(object'[b])
    BY <1>1, <1>6 DEF MemoryInv
  <2>2. ASSUME NEW b \in Requests, NEW s \in Replicas, NEW u \in Tasks, Holds(b, s, u)'
        PROVE  Fits(object[b], s, u)'
    <3>1. CASE b = a
      <4>1. s = r /\ u = t
        BY <2>2, <3>1, <1>10, <1>11
      <4> QED
        BY <4>1, <3>1, <1>4, <1>6 DEF Fits
    <3>2. CASE b # a
      <4>1. Fits(object[b], s, u)
        BY <2>2, <3>2, <1>10, HeldOnce
      <4> QED
        BY <4>1, <3>2, <1>4, <1>6 DEF Fits
    <3> QED
      BY <3>1, <3>2
  <2> QED
    BY <2>1, <2>2 DEF MemoryInv
<1>15. FlightInv'
  <2>1. ASSUME NEW p \in Requests
        PROVE  /\ InFlight(p)' => handler'[p].at \in Replicas /\ handler'[p].task \in Tasks
               /\ handler'[p].pc = "load" => handler'[p].agg = None /\ handler'[p].rpc \in Lookups
               /\ Saving(p)' => /\ handler'[p].agg \in Requests /\ handler'[p].todo # <<>>
                                /\ handler'[p].stage \in {"save", "commit"}
    <3>1. CASE p = q
      BY <3>1, <1>5 DEF GoesOn, InFlight, Saving
    <3>2. CASE p # q
      BY <3>2, <1>1, <1>5 DEF FlightInv, InFlight, Saving
    <3> QED
      BY <3>1, <3>2
  <2> QED
    BY <2>1 DEF FlightInv
<1>16. SaveInv'
  <2> SUFFICES ASSUME NEW p \in Requests, Saving(p)'
               PROVE  \E b \in Requests, s \in Replicas, u \in Tasks :
                        /\ handler'[p].agg = b /\ handler'[p].at = s /\ handler'[p].task = u
                        /\ SaveFits(handler'[p], object'[b], Visible(s, u)', Readable(s, u)', session'[s])
    BY SaveInvNext
  <2>1. CASE p = q
    <3>1. /\ k.at = r /\ k.task = t /\ k.agg = a /\ k.stage = "save"
          /\ k.todo = Uncommitted(new) /\ k.todo # <<>>
      BY <2>1, <1>5 DEF GoesOn, Saving
    <3>2. /\ Visible(r, t) \in Seq(Event) /\ Numbered(Visible(r, t))
          /\ ReadsUpTo(Readable(r, t), Visible(r, t), Len(Visible(r, t)))
      BY <1>1, Sees
    <3>3. /\ Chained(k.todo)
          /\ ToSet(k.todo) \subseteq ToSet(new.events)
      BY <3>1, UncommittedChained
    <3>4. ASSUME session[r] = "open"
          PROVE  /\ k.todo[1].version <= Len(Visible(r, t)) + 1
                 /\ k.todo[1].version = Len(Visible(r, t)) + 1 =>
                      ToSet(Readable(r, t)) \subseteq ToSet(new.events)
      <4>1. /\ new.loaded <= Len(Readable(r, t))
            /\ \A n \in 1..new.loaded : new.events[n] = Readable(r, t)[n]
        BY <3>4 DEF Fits
      <4> QED
        BY <3>1, <3>2, <4>1, Continues
    <3>5. SaveFits(k, new, Visible(r, t), Readable(r, t), session[r])
      BY <3>1, <3>3, <3>4 DEF SaveFits
    <3> QED
      BY <2>1, <3>1, <3>5, <1>4, <1>5, <1>6
  <2>2. CASE p # q
    <3>1. handler'[p] = handler[p] /\ Saving(p)
      BY <2>2, <1>5 DEF Saving
    <3> DEFINE h == handler[p]
               b == h.agg
               s == h.at
               u == h.task
    <3>2. /\ b \in Requests /\ s \in Replicas /\ u \in Tasks
          /\ Holds(b, s, u)
      BY <3>1, SaverHolds
    <3>3. ToSet(object[b].events) \subseteq ToSet(object'[b].events)
      <4>1. CASE b = a
        BY <4>1, <3>2, <1>6, <1>11
      <4>2. CASE b # a
        BY <4>2, <3>2, <1>6
      <4> QED
        BY <4>1, <4>2
    <3>4. SaveFits(h, object[b], Visible(s, u), Readable(s, u), session[s])
      BY <3>1, <1>1 DEF SaveInv
    <3>5. h.agg = b /\ h.at = s /\ h.task = u /\ handler'[p] = h
      BY <3>1
    <3> HIDE DEF h, b, s, u
    <3>6. SaveFits(h, object'[b], Visible(s, u), Readable(s, u), session[s])
      BY <3>3, <3>4 DEF SaveFits
    <3> QED
      BY <3>2, <3>5, <3>6, <1>4
  <2> QED
    BY <2>1, <2>2
<1>17. StreamsAreWhole'
  BY <1>1, SameStreams
<1>18. CacheKeepsUp'
  <2> SUFFICES ASSUME NEW s \in Replicas, NEW u \in Tasks, cache'[s][u] # None, ~BeingSaved(s, u)'
               PROVE  ToSet(Readable(s, u)') \subseteq ToSet(object'[cache'[s][u]].events)
    BY DEF CacheKeepsUp
  <2>1. ~BeingSaved(s, u)
    <3>1. SUFFICES ASSUME NEW p \in Requests, InFlight(p), handler[p].at = s,
                          handler[p].pc = "insert", handler[p].stage = "save", handler[p].task = u
                   PROVE  FALSE
      BY DEF BeingSaved, InFlightAt
    <3>2. p # q
      BY <3>1
    <3>3. handler'[p] = handler[p]
      BY <3>2, <1>5
    <3> QED
      BY <3>1, <3>3 DEF BeingSaved, InFlightAt, InFlight
  <2> DEFINE b == cache'[s][u]
  <2>2. b \in Requests
    BY <1>3 DEF TypeOK
  <2>3. CASE cache[s][u] = b
    <3>1. ToSet(Readable(s, u)) \subseteq ToSet(object[b].events)
      BY <2>1, <2>2, <2>3, <1>1 DEF CacheKeepsUp
    <3>2. ToSet(object[b].events) \subseteq ToSet(object'[b].events)
      <4>1. CASE b = a
        <5>1. Holds(a, s, u)
          BY <4>1, <2>3 DEF Holds
        <5> QED
          BY <4>1, <5>1, <1>6, <1>11
      <4>2. CASE b # a
        BY <4>2, <2>2, <1>6
      <4> QED
        BY <4>1, <4>2
    <3> QED
      BY <3>1, <3>2, <1>4
  <2>4. CASE cache[s][u] # b
    <3>1. s = r /\ u = t /\ b = a
      BY <2>2, <2>4, <1>9
    <3>2. ToSet(Readable(r, t)) \subseteq ToSet(new.events)
      BY <2>4
    <3> QED
      BY <3>1, <3>2, <1>4, <1>6
  <2> QED
    BY <2>3, <2>4
<1>19. RowsInv'
  BY <1>1 DEF RowsInv
<1> QED
  BY <1>3, <1>13, <1>14, <1>15, <1>16, <1>17, <1>18, <1>19 DEF IInv

-------------------------------------------------------------------------------
(* Steps by which handlers end, and sessions fail *)

(* Where transactions are gone, the streams are whole again: they are what *)
(* was committed.                                                          *)
LEMMA GoneStreams ==
  ASSUME TypeOK, StreamsAreWhole, NEW F \in SUBSET Replicas,
         \A r \in F : rows'[r] = NoRows,
         \A r \in Replicas \ F : rows'[r] = rows[r]
  PROVE  StreamsAreWhole'
<1>1. ASSUME NEW r \in Replicas, NEW t \in Tasks
      PROVE  \A n \in DOMAIN Visible(r, t)' :
               /\ Visible(r, t)'[n].version = n
               /\ Visible(r, t)'[n].kind = "deleted" => n = Len(Visible(r, t)')
  <2>1. CASE r \in F
    <3>1. Visible(r, t)' = Committed[t]
      BY <2>1, GoneSeen
    <3>2. \A n \in DOMAIN Committed[t] :
            /\ Committed[t][n].version = n
            /\ Committed[t][n].kind = "deleted" => n = Len(Committed[t])
      BY TaskServiceAssumption
    <3> QED
      BY <3>1, <3>2
  <2>2. CASE r \notin F
    <3>1. Visible(r, t)' = Visible(r, t)
      BY <2>2, SameSeen
    <3> QED
      BY <3>1 DEF StreamsAreWhole
  <2> QED
    BY <2>1, <2>2
<1>2. ASSUME NEW r \in Replicas, NEW t \in Tasks, NEW s \in Replicas \ {r}
      PROVE  VersionsIn(rows'[r][t]) \cap VersionsIn(rows'[s][t]) = {}
  <2>1. ASSUME NEW x \in F PROVE VersionsIn(rows'[x][t]) = {}
    <3>1. rows'[x][t] = <<>>
      BY DEF NoRows
    <3> QED
      BY <3>1 DEF VersionsIn
  <2>2. CASE r \in F \/ s \in F
    BY <2>1, <2>2
  <2>3. CASE r \notin F /\ s \notin F
    <3>1. rows'[r] = rows[r] /\ rows'[s] = rows[s]
      BY <2>3
    <3> QED
      BY <3>1 DEF StreamsAreWhole
  <2> QED
    BY <2>2, <2>3
<1> QED
  BY <1>1, <1>2 DEF StreamsAreWhole

(* The handlers D end, or begin to load; the sessions F fail.  A handler   *)
(* that stands at an INSERT ends with its session only.                    *)
LEMMA Released ==
  ASSUME IInv, NEW D \in SUBSET Requests, NEW F \in SUBSET Replicas,
         object' = object, cache' = cache,
         handler' \in [Requests -> Handling],
         rows' \in [Replicas -> [Tasks -> Seq(Event)]],
         session' \in [Replicas -> {"open", "failed"}],
         \A r \in F : rows'[r] = NoRows /\ session'[r] = "failed",
         \A r \in Replicas \ F : rows'[r] = rows[r] /\ session'[r] = session[r],
         \A p \in Requests \ D : handler'[p] = handler[p],
         \A p \in D :
           \/ handler'[p].pc \in {"ok", "error"}
           \/ /\ handler[p].pc = "none" /\ handler'[p].pc = "load"
              /\ handler'[p].at \in Replicas /\ handler'[p].task \in Tasks
              /\ handler'[p].agg = None /\ handler'[p].rpc \in Lookups,
         \A p \in D : handler[p].pc = "insert" => handler[p].at \in F
  PROVE  IInv'
<1>1. TypeOK /\ StreamsAreWhole /\ CacheKeepsUp /\ RowsInv /\ FlightInv /\ HeldInv /\ MemoryInv /\ SaveInv
  BY DEF IInv
<1>2. /\ object \in [Requests -> Aggregate]
      /\ cache \in [Replicas -> [Tasks -> Requests \cup {None}]]
  BY <1>1 DEF TypeOK
<1>3. TypeOK'
  BY <1>2 DEF TypeOK
<1>4. \A s \in Replicas \ F, u \in Tasks :
        Visible(s, u)' = Visible(s, u) /\ Readable(s, u)' = Readable(s, u)
  BY SameSeen
<1>5. \A s \in F, u \in Tasks : Readable(s, u)' = EventsIn(Committed[u])
  BY GoneSeen
<1>6. \A p \in Requests : Saving(p)' => p \notin D /\ handler'[p] = handler[p] /\ Saving(p)
  BY DEF Saving
<1>7. \A b \in Requests, s \in Replicas, u \in Tasks : Holds(b, s, u)' => Holds(b, s, u)
  <2> TAKE b \in Requests, s \in Replicas, u \in Tasks
  <2> HAVE Holds(b, s, u)'
  <2>1. CASE cache'[s][u] = b
    BY <2>1 DEF Holds
  <2>2. ASSUME NEW p \in Requests, Saving(p)', handler'[p].at = s, handler'[p].task = u,
               handler'[p].agg = b
        PROVE  Holds(b, s, u)
    <3>1. handler'[p] = handler[p] /\ Saving(p)
      BY <2>2, <1>6
    <3> QED
      BY <2>2, <3>1 DEF Holds
  <2> QED
    BY <2>1, <2>2 DEF Holds
<1>8. HeldInv'
  <2>1. ASSUME NEW b \in Requests, NEW s \in Replicas, NEW u \in Tasks, Holds(b, s, u)'
        PROVE  /\ handler'[b].pc \notin {"none", "load"}
               /\ \A s1 \in Replicas, u1 \in Tasks : Holds(b, s1, u1)' => s1 = s /\ u1 = u
    <3>1. Holds(b, s, u)
      BY <2>1, <1>7
    <3>2. /\ handler[b].pc \notin {"none", "load"}
          /\ \A s1 \in Replicas, u1 \in Tasks : Holds(b, s1, u1) => s1 = s /\ u1 = u
      BY <3>1, HeldOnce
    <3>3. handler'[b].pc \notin {"none", "load"}
      BY <3>2
    <3> QED
      BY <3>2, <3>3, <1>7
  <2> QED
    BY <2>1 DEF HeldInv
<1>9. MemoryInv'
  <2>1. ASSUME NEW b \in Requests, NEW s \in Replicas, NEW u \in Tasks, Holds(b, s, u)'
        PROVE  Fits(object[b], s, u)'
    <3>1. Fits(object[b], s, u)
      BY <2>1, <1>7, HeldOnce
    <3>2. CASE s \in F
      BY <3>1, <3>2 DEF Fits
    <3>3. CASE s \notin F
      BY <3>1, <3>3, <1>4 DEF Fits
    <3> QED
      BY <3>2, <3>3
  <2> QED
    BY <2>1, <1>1 DEF MemoryInv
<1>10. FlightInv'
  <2>1. ASSUME NEW p \in Requests
        PROVE  /\ InFlight(p)' => handler'[p].at \in Replicas /\ handler'[p].task \in Tasks
               /\ handler'[p].pc = "load" => handler'[p].agg = None /\ handler'[p].rpc \in Lookups
               /\ Saving(p)' => /\ handler'[p].agg \in Requests /\ handler'[p].todo # <<>>
                                /\ handler'[p].stage \in {"save", "commit"}
    <3>1. CASE p \in D
      BY <3>1 DEF InFlight, Saving
    <3>2. CASE p \notin D
      BY <3>2, <1>1 DEF FlightInv, InFlight, Saving
    <3> QED
      BY <3>1, <3>2
  <2> QED
    BY <2>1 DEF FlightInv
<1>11. SaveInv'
  <2> SUFFICES ASSUME NEW p \in Requests, Saving(p)'
               PROVE  \E b \in Requests, s \in Replicas, u \in Tasks :
                        /\ handler'[p].agg = b /\ handler'[p].at = s /\ handler'[p].task = u
                        /\ SaveFits(handler'[p], object'[b], Visible(s, u)', Readable(s, u)', session'[s])
    BY SaveInvNext
  <2>1. handler'[p] = handler[p] /\ Saving(p)
    BY <1>6
  <2>2. PICK h \in Handling, b \in Requests, s \in Replicas, u \in Tasks :
          /\ handler[p] = h /\ h.agg = b /\ h.at = s /\ h.task = u
          /\ SaveFits(h, object[b], Visible(s, u), Readable(s, u), session[s])
    BY <2>1, <1>1, SaverHeld
  <2>3. SaveFits(h, object[b], Visible(s, u)', Readable(s, u)', session'[s])
    <3>1. CASE s \in F
      <4>1. session'[s] # "open"
        BY <3>1
      <4> QED
        BY <2>2, <4>1 DEF SaveFits
    <3>2. CASE s \notin F
      <4>1. Visible(s, u)' = Visible(s, u) /\ Readable(s, u)' = Readable(s, u) /\ session'[s] = session[s]
        BY <3>2, <1>4
      <4> QED
        BY <2>2, <4>1
    <3> QED
      BY <3>1, <3>2
  <2>4. SaveFits(handler'[p], object'[b], Visible(s, u)', Readable(s, u)', session'[s])
    BY <2>1, <2>2, <2>3
  <2> QED
    BY <2>1, <2>2, <2>4
<1>12. StreamsAreWhole'
  BY <1>1, GoneStreams
<1>13. CacheKeepsUp'
  <2> SUFFICES ASSUME NEW s \in Replicas, NEW u \in Tasks, cache[s][u] # None, ~BeingSaved(s, u)'
               PROVE  ToSet(Readable(s, u)') \subseteq ToSet(object[cache[s][u]].events)
    BY DEF CacheKeepsUp
  <2>1. cache[s][u] \in Requests
    BY <1>2
  <2>2. CASE s \in F
    <3>1. Holds(cache[s][u], s, u)
      BY <2>1 DEF Holds
    <3>2. Fits(object[cache[s][u]], s, u)
      BY <2>1, <3>1, HeldOnce
    <3> QED
      BY <2>2, <3>2, <1>5 DEF Fits
  <2>3. CASE s \notin F
    <3>1. ~BeingSaved(s, u)
      <4>1. SUFFICES ASSUME NEW p \in Requests, InFlight(p), handler[p].at = s,
                            handler[p].pc = "insert", handler[p].stage = "save", handler[p].task = u
                     PROVE  FALSE
        BY DEF BeingSaved, InFlightAt
      <4>2. p \notin D
        BY <4>1, <2>3
      <4>3. handler'[p] = handler[p]
        BY <4>2
      <4> QED
        BY <4>1, <4>3 DEF BeingSaved, InFlightAt, InFlight
    <3> QED
      BY <2>3, <3>1, <1>1, <1>4 DEF CacheKeepsUp
  <2> QED
    BY <2>2, <2>3
<1>14. RowsInv'
  <2> SUFFICES ASSUME NEW s \in Replicas, session'[s] = "failed" PROVE rows'[s] = NoRows
    BY DEF RowsInv
  <2> QED
    BY <1>1 DEF RowsInv
<1> QED
  BY <1>3, <1>8, <1>9, <1>10, <1>11, <1>12, <1>13, <1>14 DEF IInv

(* The process of replica r ends. *)
LEMMA Gone ==
  ASSUME IInv, NEW r \in Replicas, Exit(r)
  PROVE  IInv'
<1>1. TypeOK /\ StreamsAreWhole /\ CacheKeepsUp /\ RowsInv /\ FlightInv /\ HeldInv /\ MemoryInv /\ SaveInv
  BY DEF IInv
<1>2. /\ rows \in [Replicas -> [Tasks -> Seq(Event)]] /\ session \in [Replicas -> {"open", "failed"}]
      /\ handler \in [Requests -> Handling] /\ object \in [Requests -> Aggregate]
      /\ cache \in [Replicas -> [Tasks -> Requests \cup {None}]]
  BY <1>1 DEF TypeOK
<1>3. /\ rows' = [rows EXCEPT ![r] = NoRows] /\ session' = [session EXCEPT ![r] = "open"]
      /\ cache' = [cache EXCEPT ![r] = [t \in Tasks |-> None]]
      /\ handler' = [q \in Requests |-> IF q \in InFlightAt(r) THEN Answered("error") ELSE handler[q]]
      /\ object' = [q \in Requests |->
           IF \E s \in Replicas \ {r} : q \in InMemoryOf(s) THEN object[q] ELSE NoAggregate]
  BY DEF Exit, SessionEnds, GiveUpAll
<1>4. NoRows \in [Tasks -> Seq(Event)]
  BY DEF NoRows
<1>5. /\ rows'[r] = NoRows /\ session'[r] = "open" /\ \A t \in Tasks : cache'[r][t] = None
      /\ \A s \in Replicas \ {r} : rows'[s] = rows[s] /\ session'[s] = session[s] /\ cache'[s] = cache[s]
  BY <1>2, <1>3
<1>6. \A p \in Requests :
        \/ p \in InFlightAt(r) /\ handler'[p].pc = "error"
        \/ p \notin InFlightAt(r) /\ handler'[p] = handler[p]
  BY <1>3, AnsweredIs
<1>7. TypeOK'
  <2>1. rows' \in [Replicas -> [Tasks -> Seq(Event)]] /\ session' \in [Replicas -> {"open", "failed"}]
    BY <1>2, <1>3, <1>4
  <2>2. handler' \in [Requests -> Handling]
    BY <1>2, <1>3, AnsweredIs
  <2>3. object' \in [Requests -> Aggregate]
    BY <1>2, <1>3, NothingSound
  <2>4. cache' \in [Replicas -> [Tasks -> Requests \cup {None}]]
    BY <1>2, <1>3
  <2> QED
    BY <2>1, <2>2, <2>3, <2>4 DEF TypeOK
<1>8. \A s \in Replicas \ {r}, u \in Tasks :
        Visible(s, u)' = Visible(s, u) /\ Readable(s, u)' = Readable(s, u)
  BY <1>5, SameSeen
<1>9. \A p \in Requests : Saving(p)' =>
        /\ handler'[p] = handler[p] /\ Saving(p) /\ handler[p].at # r
        /\ p \in InFlightAt(handler[p].at)
  <2> SUFFICES ASSUME NEW p \in Requests, Saving(p)'
               PROVE  /\ handler'[p] = handler[p] /\ Saving(p) /\ handler[p].at # r
                      /\ p \in InFlightAt(handler[p].at)
    OBVIOUS
  <2>1. p \notin InFlightAt(r) /\ handler'[p] = handler[p]
    BY <1>6 DEF Saving
  <2> QED
    BY <2>1 DEF Saving, InFlight, InFlightAt
<1>10. \A b \in Requests, s \in Replicas, u \in Tasks :
         Holds(b, s, u)' => Holds(b, s, u) /\ s # r /\ object'[b] = object[b]
  <2> TAKE b \in Requests, s \in Replicas, u \in Tasks
  <2> HAVE Holds(b, s, u)'
  <2>1. s # r /\ Holds(b, s, u) /\ b \in InMemoryOf(s)
    <3>1. CASE cache'[s][u] = b
      <4>1. b # None
        BY TaskServiceAssumption
      <4>2. s # r
        BY <3>1, <4>1, <1>5
      <4>3. cache[s][u] = b
        BY <3>1, <4>2, <1>5
      <4> QED
        BY <4>2, <4>3 DEF Holds, InMemoryOf
    <3>2. ASSUME NEW p \in Requests, Saving(p)', handler'[p].at = s, handler'[p].task = u,
                 handler'[p].agg = b
          PROVE  s # r /\ Holds(b, s, u) /\ b \in InMemoryOf(s)
      BY <3>2, <1>9 DEF Holds, InMemoryOf
    <3> QED
      BY <3>1, <3>2 DEF Holds
  <2>2. object'[b] = object[b]
    BY <2>1, <1>3
  <2> QED
    BY <2>1, <2>2
<1>11. HeldInv'
  <2>1. ASSUME NEW b \in Requests, NEW s \in Replicas, NEW u \in Tasks, Holds(b, s, u)'
        PROVE  /\ handler'[b].pc \notin {"none", "load"}
               /\ \A s1 \in Replicas, u1 \in Tasks : Holds(b, s1, u1)' => s1 = s /\ u1 = u
    <3>1. Holds(b, s, u)
      BY <2>1, <1>10
    <3>2. /\ handler[b].pc \notin {"none", "load"}
          /\ \A s1 \in Replicas, u1 \in Tasks : Holds(b, s1, u1) => s1 = s /\ u1 = u
      BY <3>1, HeldOnce
    <3> QED
      BY <3>2, <1>6, <1>10
  <2> QED
    BY <2>1 DEF HeldInv
<1>12. MemoryInv'
  <2>1. \A b \in Requests : Sound(object'[b])
    BY <1>1, <1>3, NothingSound DEF MemoryInv
  <2>2. ASSUME NEW b \in Requests, NEW s \in Replicas, NEW u \in Tasks, Holds(b, s, u)'
        PROVE  Fits(object[b], s, u)'
    <3>1. Fits(object[b], s, u) /\ s # r /\ object'[b] = object[b]
      BY <2>2, <1>10, HeldOnce
    <3> QED
      BY <3>1, <1>5, <1>8 DEF Fits
  <2> QED
    BY <2>1, <2>2 DEF MemoryInv
<1>13. FlightInv'
  <2>1. ASSUME NEW p \in Requests
        PROVE  /\ InFlight(p)' => handler'[p].at \in Replicas /\ handler'[p].task \in Tasks
               /\ handler'[p].pc = "load" => handler'[p].agg = None /\ handler'[p].rpc \in Lookups
               /\ Saving(p)' => /\ handler'[p].agg \in Requests /\ handler'[p].todo # <<>>
                                /\ handler'[p].stage \in {"save", "commit"}
    BY <1>1, <1>6 DEF FlightInv, InFlight, Saving
  <2> QED
    BY <2>1 DEF FlightInv
<1>14. SaveInv'
  <2> SUFFICES ASSUME NEW p \in Requests, Saving(p)'
               PROVE  \E b \in Requests, s \in Replicas, u \in Tasks :
                        /\ handler'[p].agg = b /\ handler'[p].at = s /\ handler'[p].task = u
                        /\ SaveFits(handler'[p], object'[b], Visible(s, u)', Readable(s, u)', session'[s])
    BY SaveInvNext
  <2>1. handler'[p] = handler[p] /\ Saving(p) /\ handler[p].at # r
    BY <1>9
  <2>2. PICK h \in Handling, b \in Requests, s \in Replicas, u \in Tasks :
          /\ handler[p] = h /\ h.agg = b /\ h.at = s /\ h.task = u
          /\ SaveFits(h, object[b], Visible(s, u), Readable(s, u), session[s])
    BY <2>1, <1>1, SaverHeld
  <2>3. object'[b] = object[b]
    <3>1. Holds(b, s, u)'
      BY <2>1, <2>2 DEF Holds
    <3> QED
      BY <2>2, <3>1, <1>10
  <2>4. Visible(s, u)' = Visible(s, u) /\ Readable(s, u)' = Readable(s, u) /\ session'[s] = session[s]
    BY <2>1, <2>2, <1>5, <1>8
  <2>5. SaveFits(handler'[p], object'[b], Visible(s, u)', Readable(s, u)', session'[s])
    BY <2>1, <2>2, <2>3, <2>4
  <2> QED
    BY <2>1, <2>2, <2>5
<1>15. StreamsAreWhole'
  <2> DEFINE F == {r}
  <2>1. /\ F \in SUBSET Replicas
        /\ \A s \in F : rows'[s] = NoRows
        /\ \A s \in Replicas \ F : rows'[s] = rows[s]
    BY <1>5
  <2> HIDE DEF F
  <2> QED
    BY <2>1, <1>1, GoneStreams
<1>16. CacheKeepsUp'
  <2> SUFFICES ASSUME NEW s \in Replicas, NEW u \in Tasks, cache'[s][u] # None, ~BeingSaved(s, u)'
               PROVE  ToSet(Readable(s, u)') \subseteq ToSet(object'[cache'[s][u]].events)
    BY DEF CacheKeepsUp
  <2>1. s # r /\ cache'[s][u] = cache[s][u] /\ cache[s][u] \in Requests
    BY <1>2, <1>5
  <2>2. object'[cache[s][u]] = object[cache[s][u]]
    <3>1. Holds(cache[s][u], s, u)'
      BY <2>1 DEF Holds
    <3> QED
      BY <2>1, <3>1, <1>10
  <2>3. ~BeingSaved(s, u)
    <3>1. SUFFICES ASSUME NEW p \in Requests, InFlight(p), handler[p].at = s,
                          handler[p].pc = "insert", handler[p].stage = "save", handler[p].task = u
                   PROVE  FALSE
      BY DEF BeingSaved, InFlightAt
    <3>2. handler'[p] = handler[p]
      BY <3>1, <2>1, <1>6 DEF InFlightAt
    <3> QED
      BY <3>1, <3>2 DEF BeingSaved, InFlightAt, InFlight
  <2> QED
    BY <2>1, <2>2, <2>3, <1>1, <1>8 DEF CacheKeepsUp
<1>17. RowsInv'
  BY <1>1, <1>5 DEF RowsInv
<1> QED
  BY <1>7, <1>11, <1>12, <1>13, <1>14, <1>15, <1>16, <1>17 DEF IInv

-------------------------------------------------------------------------------
(* The INSERT *)

(* What an INSERT that goes through inserts: the very next row, by an      *)
(* aggregate that knows all that can be read, after no deletion.           *)
LEMMA NextRow ==
  ASSUME IInv, NEW q \in Requests, handler[q].pc = "insert",
         NEW h \in Handling, h = handler[q],
         NEW a \in Requests, a = h.agg, NEW r \in Replicas, r = h.at, NEW t \in Tasks, t = h.task,
         SaveFits(h, object[a], Visible(r, t), Readable(r, t), session[r]),
         NEW e, e = Head(h.todo),
         ~InsertRaises(r, t, e), ~InsertWaits(r, t, e)
  PROVE  /\ e \in Event /\ e = h.todo[1] /\ e \in ToSet(object[a].events)
         /\ session[r] = "open" /\ h.stage = "save"
         /\ e.version = Len(Visible(r, t)) + 1
         /\ \A s \in Replicas \ {r} : e.version \notin VersionsIn(rows[s][t])
         /\ \A n \in DOMAIN Visible(r, t) : Visible(r, t)[n].kind # "deleted"
         /\ ToSet(Readable(r, t)) \subseteq ToSet(object[a].events)
<1> DEFINE L == Len(Visible(r, t))
           o == object[a]
<1>1. TypeOK /\ StreamsAreWhole /\ FlightInv /\ MemoryInv
  BY DEF IInv
<1>2. h.todo \in Seq(Event) /\ h.todo # <<>> /\ h.stage \in {"save", "commit"}
  BY <1>1 DEF FlightInv, Saving, Handling
<1>3. e = h.todo[1] /\ e \in Event /\ 1 \in DOMAIN h.todo
  BY <1>2
<1>4. /\ Visible(r, t) \in Seq(Event) /\ L \in Nat /\ Numbered(Visible(r, t))
      /\ VersionsIn(Visible(r, t)) = 1..L
      /\ ReadsUpTo(Readable(r, t), Visible(r, t), L)
  BY <1>1, Sees
<1>5. session[r] = "open" /\ e.version \notin 1..L
  <2>1. session[r] \in {"open", "failed"}
    BY <1>1 DEF TypeOK
  <2> QED
    BY <2>1, <1>4 DEF InsertRaises, Taken
<1>6. e.version \in Nat /\ e.version > 0
  BY <1>3 DEF Event, SaveFits, Chained
<1>7. e.version <= L + 1
  BY <1>3, <1>5 DEF SaveFits
<1> HIDE DEF L
<1>8. e.version = L + 1
  BY <1>4, <1>5, <1>6, <1>7
<1>9. ToSet(Readable(r, t)) \subseteq ToSet(o.events)
  BY <1>3, <1>5, <1>8 DEF SaveFits, L
<1>10. e \in ToSet(o.events)
  <2>1. e \in ToSet(h.todo)
    BY <1>3 DEF ToSet
  <2> QED
    BY <2>1 DEF SaveFits
<1>11. h.stage = "save"
  BY <1>2 DEF SaveFits
<1>12. Holders(r, t, e.version) = {}
  BY DEF InsertWaits
<1>13. \A s \in Replicas \ {r} : e.version \notin VersionsIn(rows[s][t])
  BY <1>12 DEF Holders
<1>14. ASSUME NEW n \in DOMAIN Visible(r, t), Visible(r, t)[n].kind = "deleted" PROVE FALSE
  <2> DEFINE d == Visible(r, t)[n]
  <2>1. n \in 1..L /\ d.version = n /\ d \in Event
    BY <1>4 DEF Numbered, L
  <2>2. d \in ToSet(Readable(r, t))
    <3>1. d.kind # "unreadable"
      BY <1>14
    <3>2. ToSet(Readable(r, t)) =
            {Visible(r, t)[i] : i \in {m \in 1..L : Visible(r, t)[m].kind # "unreadable"}}
      BY <1>4, ReadSet DEF L
    <3> QED
      BY <2>1, <3>1, <3>2
  <2>3. o \in Aggregate /\ Sound(o)
    BY <1>1 DEF TypeOK, MemoryInv
  <2>4. o.events \in Seq(Event) /\ Len(o.events) \in Nat /\ DOMAIN o.events = 1..Len(o.events)
    BY <2>3 DEF Aggregate
  <2> HIDE DEF d, o
  <2>5. PICK i \in 1..Len(o.events) : o.events[i] = d
    BY <2>2, <2>4, <1>9 DEF ToSet
  <2>6. PICK j \in 1..Len(o.events) : o.events[j] = e
    BY <2>4, <1>10 DEF ToSet
  <2>7. i = Len(o.events)
    BY <2>3, <2>4, <2>5, <1>14 DEF Sound, d
  <2>8. j \in 1..i
    BY <2>4, <2>7
  <2>9. o.events[j].version <= o.events[i].version
    BY <2>3, <2>4, <2>8 DEF Sound
  <2> QED
    BY <2>1, <2>5, <2>6, <2>9, <1>4, <1>8
<1> QED
  BY <1>3, <1>5, <1>8, <1>9, <1>10, <1>11, <1>13, <1>14 DEF L

(* The very next row leaves a stream whole that no deletion ends. *)
LEMMA NextRowStreams ==
  ASSUME TypeOK, StreamsAreWhole, NEW r \in Replicas, NEW t \in Tasks, NEW e \in Event,
         Store(r, t, e), e.version = Len(Visible(r, t)) + 1,
         \A s \in Replicas \ {r} : e.version \notin VersionsIn(rows[s][t]),
         \A n \in DOMAIN Visible(r, t) : Visible(r, t)[n].kind # "deleted"
  PROVE  StreamsAreWhole'
<1>1. Visible(r, t) \in Seq(Event) /\ Len(Visible(r, t)) \in Nat /\ Numbered(Visible(r, t))
  BY Sees
<1>2. /\ Visible(r, t)' = Append(Visible(r, t), e)
      /\ rows'[r][t] = Append(rows[r][t], e)
      /\ \A s \in Replicas, u \in Tasks : (s # r \/ u # t) =>
           rows'[s][u] = rows[s][u] /\ Visible(s, u)' = Visible(s, u)
  BY StoreSeen
<1>3. ASSUME NEW s \in Replicas, NEW u \in Tasks
      PROVE  \A n \in DOMAIN Visible(s, u)' :
               /\ Visible(s, u)'[n].version = n
               /\ Visible(s, u)'[n].kind = "deleted" => n = Len(Visible(s, u)')
  <2>1. CASE s = r /\ u = t
    <3> DEFINE v == Visible(r, t)
               more == Append(v, e)
    <3>1. /\ v \in Seq(Event) /\ Len(v) \in Nat
          /\ DOMAIN more = 1..(Len(v) + 1) /\ Len(more) = Len(v) + 1
          /\ more[Len(v) + 1] = e
          /\ \A n \in 1..Len(v) : more[n] = v[n] /\ n \in DOMAIN v
      BY <1>1
    <3>2. Numbered(v) /\ e.version = Len(v) + 1 /\ \A n \in DOMAIN v : v[n].kind # "deleted"
      BY <1>1
    <3> HIDE DEF v, more
    <3>3. \A n \in DOMAIN more : n \in 1..Len(v) \/ n = Len(v) + 1
      BY <3>1
    <3>4. \A n \in DOMAIN more : more[n].version = n /\ (more[n].kind = "deleted" => n = Len(more))
      BY <3>1, <3>2, <3>3 DEF Numbered
    <3>5. Visible(s, u)' = more
      BY <2>1, <1>2 DEF more, v
    <3> QED
      BY <3>4, <3>5
  <2>2. CASE s # r \/ u # t
    <3>1. Visible(s, u)' = Visible(s, u)
      BY <2>2, <1>2
    <3> QED
      BY <3>1 DEF StreamsAreWhole
  <2> QED
    BY <2>1, <2>2
<1>4. ASSUME NEW x \in Replicas, NEW y \in Replicas \ {x}, NEW u \in Tasks
      PROVE  VersionsIn(rows'[x][u]) \cap VersionsIn(rows'[y][u]) = {}
  <2>1. VersionsIn(rows[x][u]) \cap VersionsIn(rows[y][u]) = {}
    BY DEF StreamsAreWhole
  <2>2. VersionsIn(rows'[r][t]) = VersionsIn(rows[r][t]) \cup {e.version}
    <3>1. rows[r][t] \in Seq(Event)
      BY DEF TypeOK
    <3> DEFINE own == rows[r][t]
    <3>2. /\ DOMAIN Append(own, e) = DOMAIN own \cup {Len(own) + 1}
          /\ \A n \in DOMAIN own : Append(own, e)[n] = own[n]
          /\ Append(own, e)[Len(own) + 1] = e
      BY <3>1
    <3> HIDE DEF own
    <3>3. VersionsIn(Append(own, e)) = VersionsIn(own) \cup {e.version}
      BY <3>2 DEF VersionsIn
    <3> QED
      BY <3>3, <1>2 DEF own
  <2>3. CASE x = r /\ u = t
    <3>1. rows'[y][u] = rows[y][u]
      BY <2>3, <1>2
    <3> QED
      BY <2>1, <2>2, <2>3, <3>1
  <2>4. CASE y = r /\ u = t
    <3>1. rows'[x][u] = rows[x][u] /\ x \in Replicas \ {r}
      BY <2>4, <1>2
    <3> QED
      BY <2>1, <2>2, <2>4, <3>1
  <2>5. CASE u # t \/ (x # r /\ y # r)
    <3>1. rows'[x][u] = rows[x][u] /\ rows'[y][u] = rows[y][u]
      BY <2>5, <1>2
    <3> QED
      BY <2>1, <3>1
  <2> QED
    BY <2>3, <2>4, <2>5
<1> QED
  BY <1>3, <1>4 DEF StreamsAreWhole

(* Request q at replica r has inserted a row of task t, and goes on with   *)
(* the next one, or with the second save of its unit of work.              *)
LEMMA Inserted ==
  ASSUME IInv, NEW q \in Requests, NEW a \in Requests, NEW r \in Replicas, NEW t \in Tasks,
         handler[q].pc = "insert", handler[q].agg = a, handler[q].at = r, handler[q].task = t,
         NEW e \in Event, Store(r, t, e), session[r] = "open",
         e \in ToSet(object[a].events), e.version = Len(Visible(r, t)) + 1,
         \A s \in Replicas \ {r} : e.version \notin VersionsIn(rows[s][t]),
         \A n \in DOMAIN Visible(r, t) : Visible(r, t)[n].kind # "deleted",
         ToSet(Readable(r, t)) \subseteq ToSet(object[a].events),
         object' = object,
         NEW k \in Handling, handler' = [handler EXCEPT ![q] = k],
         k.agg = a, k.at = r, k.task = t, k.todo # <<>>,
         Chained(k.todo), ToSet(k.todo) \subseteq ToSet(object[a].events),
         k.todo[1].version <= Len(Visible(r, t)) + 2,
         \/ k.pc = "insert" /\ k.stage = "save" /\ cache' = cache
         \/ /\ k.pc = "version" /\ k.stage = "commit" /\ k.want <= Len(Visible(r, t))
            /\ cache' = [cache EXCEPT ![r][t] = a]
  PROVE  IInv'
<1> DEFINE L == Len(Visible(r, t))
<1>1. TypeOK /\ StreamsAreWhole /\ CacheKeepsUp /\ RowsInv /\ FlightInv /\ HeldInv /\ MemoryInv /\ SaveInv
  BY DEF IInv
<1>2. /\ rows \in [Replicas -> [Tasks -> Seq(Event)]]
      /\ handler \in [Requests -> Handling] /\ object \in [Requests -> Aggregate]
      /\ cache \in [Replicas -> [Tasks -> Requests \cup {None}]]
  BY <1>1 DEF TypeOK
<1>3. /\ rows' \in [Replicas -> [Tasks -> Seq(Event)]] /\ session' = session
      /\ Visible(r, t)' = Append(Visible(r, t), e)
      /\ Readable(r, t)' = IF e.kind = "unreadable" THEN Readable(r, t) ELSE Append(Readable(r, t), e)
      /\ \A s \in Replicas, u \in Tasks : (s # r \/ u # t) =>
           Visible(s, u)' = Visible(s, u) /\ Readable(s, u)' = Readable(s, u)
  BY <1>1, StoreSeen
<1>4. /\ Visible(r, t) \in Seq(Event) /\ L \in Nat
      /\ ReadsUpTo(Readable(r, t), Visible(r, t), L)
  BY <1>1, Sees
<1>5. /\ Readable(r, t) \in Seq(Event) /\ Len(Readable(r, t)) \in Nat
  BY <1>4 DEF ReadsUpTo
<1>6. Len(Visible(r, t)') = L + 1
  BY <1>3, <1>4
<1>7. /\ Len(Readable(r, t)) <= Len(Readable(r, t)') /\ Len(Readable(r, t)') \in Nat
      /\ \A n \in 1..Len(Readable(r, t)) : Readable(r, t)'[n] = Readable(r, t)[n]
      /\ ToSet(Readable(r, t)') \subseteq ToSet(Readable(r, t)) \cup {e}
  <2> DEFINE x == Readable(r, t)
             y == Append(x, e)
  <2>1. /\ Len(x) <= Len(y) /\ Len(y) \in Nat
        /\ \A n \in 1..Len(x) : y[n] = x[n]
        /\ DOMAIN y = DOMAIN x \cup {Len(x) + 1} /\ y[Len(x) + 1] = e
        /\ DOMAIN x = 1..Len(x) /\ x \in Seq(Event)
    BY <1>5
  <2>2. Readable(r, t)' = x \/ Readable(r, t)' = y
    BY <1>3
  <2> HIDE DEF x, y
  <2>3. ToSet(y) \subseteq ToSet(x) \cup {e}
    BY <2>1 DEF ToSet
  <2>4. Len(x) <= Len(x) /\ Len(x) \in Nat
    BY <2>1
  <2> QED
    BY <2>1, <2>2, <2>3, <2>4 DEF x
<1>8. ToSet(Readable(r, t)') \subseteq ToSet(object[a].events)
  BY <1>7
<1>9. handler'[q] = k /\ \A p \in Requests \ {q} : handler'[p] = handler[p]
  BY <1>2
<1>10. TypeOK'
  <2>1. handler' \in [Requests -> Handling]
    BY <1>2
  <2>2. cache' = cache \/ cache' = [cache EXCEPT ![r][t] = a]
    OBVIOUS
  <2>3. [cache EXCEPT ![r][t] = a] \in [Replicas -> [Tasks -> Requests \cup {None}]]
    BY <1>2
  <2> QED
    BY <1>1, <1>2, <1>3, <2>1, <2>2, <2>3 DEF TypeOK
<1>11. StreamsAreWhole'
  BY <1>1, NextRowStreams
<1>12. \A s \in Replicas, u \in Tasks : (s # r \/ u # t) => cache'[s][u] = cache[s][u]
  BY <1>2
<1>13. Saving(q) /\ Holds(a, r, t)
  BY DEF Saving, Holds
<1>14. \A b \in Requests, s \in Replicas, u \in Tasks : Holds(b, s, u)' => Holds(b, s, u)
  <2> TAKE b \in Requests, s \in Replicas, u \in Tasks
  <2> HAVE Holds(b, s, u)'
  <2>1. CASE cache'[s][u] = b
    <3>1. cache[s][u] = b \/ (b = a /\ s = r /\ u = t)
      BY <2>1, <1>2
    <3> QED
      BY <3>1, <1>13 DEF Holds
  <2>2. ASSUME NEW p \in Requests, Saving(p)', handler'[p].at = s, handler'[p].task = u,
               handler'[p].agg = b
        PROVE  Holds(b, s, u)
    <3>1. CASE p = q
      BY <2>2, <3>1, <1>9, <1>13
    <3>2. CASE p # q
      BY <2>2, <3>2, <1>9 DEF Holds, Saving
    <3> QED
      BY <3>1, <3>2
  <2> QED
    BY <2>1, <2>2 DEF Holds
<1>15. HeldInv'
  <2>1. ASSUME NEW b \in Requests, NEW s \in Replicas, NEW u \in Tasks, Holds(b, s, u)'
        PROVE  /\ handler'[b].pc \notin {"none", "load"}
               /\ \A s1 \in Replicas, u1 \in Tasks : Holds(b, s1, u1)' => s1 = s /\ u1 = u
    <3>1. Holds(b, s, u)
      BY <2>1, <1>14
    <3>2. /\ handler[b].pc \notin {"none", "load"}
          /\ \A s1 \in Replicas, u1 \in Tasks : Holds(b, s1, u1) => s1 = s /\ u1 = u
      BY <3>1, HeldOnce
    <3>3. handler'[b].pc \notin {"none", "load"}
      BY <3>2, <1>9
    <3> QED
      BY <3>2, <3>3, <1>14
  <2> QED
    BY <2>1 DEF HeldInv
<1>16. MemoryInv'
  <2>1. ASSUME NEW b \in Requests, NEW s \in Replicas, NEW u \in Tasks, Holds(b, s, u)'
        PROVE  Fits(object[b], s, u)'
    <3>1. Fits(object[b], s, u)
      BY <2>1, <1>14, HeldOnce
    <3>2. CASE s = r /\ u = t
      <4>1. object[b].loaded \in Nat
        BY <1>2 DEF Aggregate
      <4>2. /\ object[b].loaded <= Len(Readable(r, t))
            /\ \A n \in 1..object[b].loaded : object[b].events[n] = Readable(r, t)[n]
        BY <3>1, <3>2 DEF Fits
      <4>3. object[b].loaded <= Len(Readable(r, t)')
        BY <4>1, <4>2, <1>5, <1>7
      <4>4. \A n \in 1..object[b].loaded : n \in 1..Len(Readable(r, t))
        BY <4>1, <4>2, <1>5
      <4> QED
        BY <3>1, <3>2, <4>2, <4>3, <4>4, <1>7 DEF Fits
    <3>3. CASE s # r \/ u # t
      BY <3>1, <3>3, <1>3 DEF Fits
    <3> QED
      BY <3>2, <3>3
  <2> QED
    BY <2>1, <1>1 DEF MemoryInv
<1>17. FlightInv'
  <2>1. ASSUME NEW p \in Requests
        PROVE  /\ InFlight(p)' => handler'[p].at \in Replicas /\ handler'[p].task \in Tasks
               /\ handler'[p].pc = "load" => handler'[p].agg = None /\ handler'[p].rpc \in Lookups
               /\ Saving(p)' => /\ handler'[p].agg \in Requests /\ handler'[p].todo # <<>>
                                /\ handler'[p].stage \in {"save", "commit"}
    <3>1. CASE p = q
      BY <3>1, <1>9 DEF InFlight, Saving
    <3>2. CASE p # q
      BY <3>2, <1>1, <1>9 DEF FlightInv, InFlight, Saving
    <3> QED
      BY <3>1, <3>2
  <2> QED
    BY <2>1 DEF FlightInv
<1>18. SaveInv'
  <2> SUFFICES ASSUME NEW p \in Requests, Saving(p)'
               PROVE  \E b \in Requests, s \in Replicas, u \in Tasks :
                        /\ handler'[p].agg = b /\ handler'[p].at = s /\ handler'[p].task = u
                        /\ SaveFits(handler'[p], object'[b], Visible(s, u)', Readable(s, u)', session'[s])
    BY SaveInvNext
  <2>1. CASE p = q
    <3>1. k.want \in Int
      BY DEF Handling
    <3>2. L + 2 = (L + 1) + 1 /\ (k.want <= L => k.want < L + 1)
      BY <3>1, <1>4
    <3> HIDE DEF L
    <3>3. SaveFits(k, object[a], Visible(r, t)', Readable(r, t)', session[r])
      BY <3>2, <1>6, <1>8 DEF SaveFits, L
    <3>4. handler'[p] = k /\ session'[r] = session[r] /\ object'[a] = object[a]
      BY <2>1, <1>3, <1>9
    <3>5. SaveFits(handler'[p], object'[a], Visible(r, t)', Readable(r, t)', session'[r])
      BY <3>3, <3>4
    <3> QED
      BY <3>4, <3>5
  <2>2. CASE p # q
    <3>1. handler'[p] = handler[p] /\ Saving(p)
      BY <2>2, <1>9 DEF Saving
    <3>2. PICK h \in Handling, b \in Requests, s \in Replicas, u \in Tasks :
            /\ handler[p] = h /\ h.agg = b /\ h.at = s /\ h.task = u
            /\ SaveFits(h, object[b], Visible(s, u), Readable(s, u), session[s])
      BY <3>1, SaverHeld
    <3>3. CASE s = r /\ u = t
      <4>1. h.todo \in Seq(Event) /\ h.todo # <<>> /\ h.want \in Int
        BY <3>1, <3>2, <1>1 DEF FlightInv, Handling
      <4>2. h.todo[1] \in Event
        BY <4>1
      <4>3. h.todo[1].version \in Nat
        BY <4>2 DEF Event
      <4>4. h.todo[1].version <= L + 1 /\ (h.stage = "commit" => h.want < L)
        BY <3>2, <3>3 DEF SaveFits
      <4> HIDE DEF L
      <4>5. /\ h.todo[1].version <= (L + 1) + 1 /\ h.todo[1].version # (L + 1) + 1
            /\ h.stage = "commit" => h.want < L + 1
        BY <4>1, <4>3, <4>4, <1>4
      <4>6. SaveFits(h, object[b], Visible(s, u)', Readable(s, u)', session[s])
        BY <3>2, <3>3, <4>5, <1>6 DEF SaveFits
      <4> QED
        BY <3>1, <3>2, <4>6, <1>3
    <3>4. CASE s # r \/ u # t
      <4>1. Visible(s, u)' = Visible(s, u) /\ Readable(s, u)' = Readable(s, u)
        BY <3>4, <1>3
      <4>2. SaveFits(h, object[b], Visible(s, u)', Readable(s, u)', session[s])
        BY <3>2, <4>1
      <4> QED
        BY <3>1, <3>2, <4>2, <1>3
    <3> QED
      BY <3>3, <3>4
  <2> QED
    BY <2>1, <2>2
<1>19. CacheKeepsUp'
  <2> SUFFICES ASSUME NEW s \in Replicas, NEW u \in Tasks, cache'[s][u] # None, ~BeingSaved(s, u)'
               PROVE  ToSet(Readable(s, u)') \subseteq ToSet(object[cache'[s][u]].events)
    BY DEF CacheKeepsUp
  <2>1. CASE s = r /\ u = t
    <3>1. k.pc # "insert"
      <4>1. SUFFICES ASSUME k.pc = "insert" PROVE FALSE
        OBVIOUS
      <4>2. k.stage = "save"
        BY <4>1
      <4> QED
        BY <2>1, <4>1, <4>2, <1>9 DEF BeingSaved, InFlightAt, InFlight
    <3>2. cache'[r][t] = a
      BY <3>1, <1>2
    <3> QED
      BY <2>1, <3>2, <1>8
  <2>2. CASE s # r \/ u # t
    <3>1. ~BeingSaved(s, u)
      <4>1. SUFFICES ASSUME NEW p \in Requests, InFlight(p), handler[p].at = s,
                            handler[p].pc = "insert", handler[p].stage = "save", handler[p].task = u
                     PROVE  FALSE
        BY DEF BeingSaved, InFlightAt
      <4>2. p # q
        BY <4>1, <2>2
      <4>3. handler'[p] = handler[p]
        BY <4>2, <1>9
      <4> QED
        BY <4>1, <4>3 DEF BeingSaved, InFlightAt, InFlight
    <3> QED
      BY <2>2, <3>1, <1>1, <1>3, <1>12 DEF CacheKeepsUp
  <2> QED
    BY <2>1, <2>2
<1>20. RowsInv'
  <2> SUFFICES ASSUME NEW s \in Replicas, session[s] = "failed" PROVE rows'[s] = NoRows
    BY <1>3 DEF RowsInv
  <2>1. s # r
    OBVIOUS
  <2>2. rows'[s] = rows[s]
    BY <2>1, <1>2 DEF Store
  <2> QED
    BY <2>2, <1>1 DEF RowsInv
<1> QED
  BY <1>10, <1>11, <1>15, <1>16, <1>17, <1>18, <1>19, <1>20 DEF IInv

-------------------------------------------------------------------------------
(* The steps *)

LEMMA Unchanged ==
  ASSUME IInv, rows' = rows, session' = session, UNCHANGED requestVars
  PROVE  IInv'
<1>1. handler' = handler /\ object' = object /\ cache' = cache
  BY DEF requestVars
<1>2. TypeOK
  BY DEF IInv
<1> DEFINE none == {}
<1>3. none \in SUBSET Requests /\ none \in SUBSET Replicas /\ \A x : x \notin none
  OBVIOUS
<1> HIDE DEF none
<1> QED
  BY <1>1, <1>2, <1>3, Released DEF TypeOK

(* A handler that does not stand at an INSERT answers. *)
LEMMA AnswersOnly ==
  ASSUME IInv, NEW q \in Requests, handler[q].pc # "insert",
         NEW answer \in {"ok", "error"}, Answer(q, answer),
         rows' = rows, session' = session, object' = object, cache' = cache
  PROVE  IInv'
<1>1. TypeOK
  BY DEF IInv
<1>2. handler' = [handler EXCEPT ![q] = Answered(answer)]
  BY DEF Answer
<1>3. /\ handler' \in [Requests -> Handling] /\ handler'[q].pc = answer
      /\ \A p \in Requests \ {q} : handler'[p] = handler[p]
  BY <1>1, <1>2, AnsweredIs DEF TypeOK
<1> DEFINE D == {q}
           F == {}
<1>4. D \in SUBSET Requests /\ F \in SUBSET Replicas
  OBVIOUS
<1>5. \A p \in Requests \ D : handler'[p] = handler[p]
  BY <1>3
<1>6. /\ \A p \in D : handler'[p].pc \in {"ok", "error"}
      /\ \A p \in D : handler[p].pc = "insert" => handler[p].at \in F
  BY <1>3
<1>7. /\ \A r \in F : rows'[r] = NoRows /\ session'[r] = "failed"
      /\ \A r \in Replicas \ F : rows'[r] = rows[r] /\ session'[r] = session[r]
      /\ rows' \in [Replicas -> [Tasks -> Seq(Event)]] /\ session' \in [Replicas -> {"open", "failed"}]
  BY <1>1 DEF TypeOK
<1> HIDE DEF D, F
<1> QED
  BY <1>3, <1>4, <1>5, <1>6, <1>7, Released

(* The session of a replica fails, and handlers of that replica with it. *)
LEMMA FailsOnly ==
  ASSUME IInv, NEW r \in Replicas, NEW D \in SUBSET InFlightAt(r), Fails(r),
         object' = object, cache' = cache, handler' \in [Requests -> Handling],
         \A p \in D : handler'[p].pc = "error",
         \A p \in Requests \ D : handler'[p] = handler[p]
  PROVE  IInv'
<1>1. TypeOK
  BY DEF IInv
<1>2. D \in SUBSET Requests /\ \A p \in D : handler[p].at = r
  BY DEF InFlightAt
<1>3. rows' = [rows EXCEPT ![r] = NoRows] /\ session' = [session EXCEPT ![r] = "failed"]
  BY DEF Fails, AfterError
<1>4. NoRows \in [Tasks -> Seq(Event)]
  BY DEF NoRows
<1>5. /\ rows' \in [Replicas -> [Tasks -> Seq(Event)]] /\ session' \in [Replicas -> {"open", "failed"}]
      /\ rows'[r] = NoRows /\ session'[r] = "failed"
      /\ \A s \in Replicas \ {r} : rows'[s] = rows[s] /\ session'[s] = session[s]
  BY <1>1, <1>3, <1>4 DEF TypeOK
<1> DEFINE F == {r}
<1>6. F \in SUBSET Replicas /\ r \in F /\ \A x \in F : x = r
  OBVIOUS
<1>7. \A s \in Replicas \ F : rows'[s] = rows[s] /\ session'[s] = session[s]
  BY <1>5
<1> HIDE DEF F
<1>8. /\ \A s \in F : rows'[s] = NoRows /\ session'[s] = "failed"
      /\ \A p \in D : handler'[p].pc \in {"ok", "error"}
      /\ \A p \in D : handler[p].at \in F
  BY <1>2, <1>5, <1>6
<1> QED
  BY <1>2, <1>5, <1>6, <1>7, <1>8, Released

(* One statement fails. *)
LEMMA FailsAlone ==
  ASSUME IInv, NEW q \in Requests, InFlight(q), Fails(handler[q].at), Answer(q, "error"),
         object' = object, cache' = cache
  PROVE  IInv'
<1>1. TypeOK /\ handler[q].at \in Replicas
  BY DEF IInv, FlightInv
<1>2. handler' = [handler EXCEPT ![q] = Answered("error")]
  BY DEF Answer
<1>3. /\ handler' \in [Requests -> Handling] /\ handler'[q].pc = "error"
      /\ \A p \in Requests \ {q} : handler'[p] = handler[p]
  BY <1>1, <1>2, AnsweredIs DEF TypeOK
<1> DEFINE D == {q}
<1>4. D \in SUBSET InFlightAt(handler[q].at) /\ \A x \in D : x = q
  BY DEF InFlightAt
<1>5. \A p \in Requests \ D : handler'[p] = handler[p]
  BY <1>3
<1> HIDE DEF D
<1> QED
  BY <1>1, <1>3, <1>4, <1>5, FailsOnly

LEMMA GraceStep ==
  ASSUME IInv, NEW r \in Replicas, GraceEnds(r)
  PROVE  IInv'
<1>1. TypeOK
  BY DEF IInv
<1>2. /\ handler' = [q \in Requests |-> IF q \in InFlightAt(r) THEN Answered("error") ELSE handler[q]]
      /\ Fails(r) /\ object' = object /\ cache' = cache
  BY DEF GraceEnds, GiveUpAll
<1>3. handler' \in [Requests -> Handling]
  BY <1>1, <1>2, AnsweredIs DEF TypeOK
<1> DEFINE D == InFlightAt(r)
<1>4. D \in SUBSET InFlightAt(r) /\ D \subseteq Requests
  BY DEF InFlightAt
<1>5. \A p \in D : handler'[p].pc = "error"
  BY <1>2, <1>4, AnsweredIs
<1>6. \A p \in Requests \ D : handler'[p] = handler[p]
  BY <1>2
<1> HIDE DEF D
<1> QED
  BY <1>2, <1>3, <1>4, <1>5, <1>6, FailsOnly

(* An aggregate fits as long as it only grows. *)
LEMMA ExtendsFits ==
  ASSUME NEW o \in Aggregate, NEW new \in Aggregate, o.loaded <= Len(o.events), Extends(new, o),
         NEW r, NEW t, Fits(o, r, t)
  PROVE  Fits(new, r, t)
<1>1. ToSet(o.events) \subseteq ToSet(new.events)
  BY ExtendsKnows
<1>2. o.loaded \in Nat /\ Len(o.events) \in Nat /\ new.loaded = o.loaded
  BY DEF Aggregate, Extends
<1>3. \A n \in 1..o.loaded : n \in 1..Len(o.events)
  BY <1>2
<1>4. \A n \in 1..o.loaded : new.events[n] = o.events[n]
  BY <1>3 DEF Extends
<1> QED
  BY <1>1, <1>2, <1>4 DEF Fits

LEMMA CreateTaskStep ==
  ASSUME IInv, NEW q \in Requests, CreateTask(q)
  PROVE  IInv'
<1>1. TypeOK /\ StreamsAreWhole
  BY DEF IInv
<1>2. PICK c \in Calls : c.rpc = "Create" /\ Command(q, [Called(c) EXCEPT !.task = q], q, NoAggregate)
  BY DEF CreateTask
<1>3. /\ handler[q].pc = "none" /\ rows' = rows /\ session' = session /\ cache' = cache
  BY DEF CreateTask, Arrives, storeVars
<1>4. q \in Tasks /\ Committed[q] = <<>>
  BY TaskServiceAssumption
<1> DEFINE h == [Called(c) EXCEPT !.task = q]
           r == c.at
<1>5. h \in Handling /\ h.rpc = "Create" /\ h.at = r /\ h.task = q /\ r \in Replicas
  BY <1>2, <1>4, CalledIs
<1>6. Command(q, h, q, NoAggregate)
  BY <1>2
<1> HIDE DEF h, r
<1>7. PICK new \in Aggregate, k \in Handling :
        /\ object' = [object EXCEPT ![q] = new]
        /\ handler' = [handler EXCEPT ![q] = k]
        /\ Sound(new) /\ Extends(new, NoAggregate)
        /\ GoesOn(k, h.at, h.task, q, new)
  BY <1>5, <1>6, CommandEffect, NothingSound
<1>8. Fits(new, r, q)
  <2>1. ToSet(EventsIn(Committed[q])) = {}
    <3>1. ReadsUpTo(EventsIn(Committed[q]), Committed[q], Len(Committed[q]))
      BY <1>4, CommittedNumbered, ReadsWhole
    <3>2. /\ EventsIn(Committed[q]) \in Seq(Event) /\ Len(EventsIn(Committed[q])) \in Nat
          /\ Len(EventsIn(Committed[q])) <= 0
      BY <3>1, <1>4 DEF ReadsUpTo
    <3>3. DOMAIN EventsIn(Committed[q]) = {}
      BY <3>2
    <3> QED
      BY <3>3 DEF ToSet
  <2>2. new.loaded = 0
    BY <1>7 DEF Extends, NoAggregate
  <2>3. Len(Readable(r, q)) \in Nat
    BY <1>1, <1>4, <1>5, Sees DEF ReadsUpTo
  <2> QED
    BY <2>1, <2>2, <2>3 DEF Fits
<1>9. GoesOn(k, r, q, q, new)
  BY <1>5, <1>7
<1> QED
  BY <1>3, <1>4, <1>5, <1>7, <1>8, <1>9, Commanded

LEMMA ReceiveStep ==
  ASSUME IInv, NEW q \in Requests, Receive(q)
  PROVE  IInv'
<1>1. TypeOK
  BY DEF IInv
<1>2. PICK c \in Calls :
        /\ c.rpc # "Create"
        /\ LET a == cache[c.at][c.task] IN
           IF a = None \/ c.rpc = "History"
           THEN /\ handler' = [handler EXCEPT ![q] = [Called(c) EXCEPT !.pc = "load"]]
                /\ UNCHANGED object
           ELSE Proceed(q, Called(c), a, object[a])
  BY DEF Receive
<1>3. handler[q].pc = "none" /\ rows' = rows /\ session' = session /\ cache' = cache
  BY DEF Receive, Arrives, storeVars
<1> DEFINE r == c.at
           t == c.task
           a == cache[r][t]
           h == Called(c)
<1>4. c.rpc \in Lookups /\ r \in Replicas /\ t \in Tasks
  BY <1>2, TaskServiceAssumption DEF Lookups
<1>5. h \in Handling /\ h.rpc = c.rpc /\ h.at = r /\ h.task = t /\ h.agg = None
  BY <1>2, <1>4, CalledIs
<1>6. \/ handler' = [handler EXCEPT ![q] = [h EXCEPT !.pc = "load"]] /\ object' = object
      \/ a # None /\ c.rpc # "History" /\ Proceed(q, h, a, object[a])
  BY <1>2
<1> HIDE DEF r, t, a, h
<1>7. CASE handler' = [handler EXCEPT ![q] = [h EXCEPT !.pc = "load"]] /\ object' = object
  <2> DEFINE k == [h EXCEPT !.pc = "load"]
  <2>1. k = [h EXCEPT !.pc = "load"] /\ handler' = [handler EXCEPT ![q] = k]
    BY <1>7
  <2> HIDE DEF k
  <2>2. k \in Handling /\ k.pc = "load" /\ k.at \in Replicas /\ k.task \in Tasks /\ k.agg = None
        /\ k.rpc \in Lookups
    BY <2>1, <1>4, <1>5, LoadingIs
  <2>3. /\ handler' \in [Requests -> Handling] /\ handler'[q] = k
        /\ \A p \in Requests \ {q} : handler'[p] = handler[p]
    BY <2>1, <2>2, <1>1 DEF TypeOK
  <2> DEFINE D == {q}
             F == {}
  <2>4. D \in SUBSET Requests /\ F \in SUBSET Replicas /\ (\A x : x \notin F) /\ \A x \in D : x = q
    OBVIOUS
  <2>5. \A p \in Requests \ D : handler'[p] = handler[p]
    BY <2>3
  <2>6. /\ \A p \in D : /\ handler[p].pc = "none" /\ handler'[p].pc = "load"
                        /\ handler'[p].at \in Replicas /\ handler'[p].task \in Tasks
                        /\ handler'[p].agg = None /\ handler'[p].rpc \in Lookups
        /\ \A p \in D : handler[p].pc # "insert"
    BY <2>2, <2>3, <1>3
  <2>7. /\ \A s \in F : rows'[s] = NoRows /\ session'[s] = "failed"
        /\ \A s \in Replicas \ F : rows'[s] = rows[s] /\ session'[s] = session[s]
        /\ rows' \in [Replicas -> [Tasks -> Seq(Event)]] /\ session' \in [Replicas -> {"open", "failed"}]
    BY <1>1, <1>3 DEF TypeOK
  <2> HIDE DEF D, F
  <2> QED
    BY <2>3, <2>4, <2>5, <2>6, <2>7, <1>3, <1>7, Released
<1>8. CASE a # None /\ c.rpc # "History" /\ Proceed(q, h, a, object[a])
  <2>1. a \in Requests /\ cache[r][t] = a
    BY <1>1, <1>4, <1>8 DEF TypeOK, a
  <2>2. Holds(a, r, t)
    BY <2>1 DEF Holds
  <2>3. object[a] \in Aggregate /\ Sound(object[a]) /\ Fits(object[a], r, t)
    BY <2>1, <2>2, <1>1, <1>4, HeldOnce DEF TypeOK
  <2>4. h.rpc \in {"Create", "Get", "Update", "Assign", "Delete"}
    BY <1>4, <1>5, <1>8 DEF Lookups
  <2>5. PICK new \in Aggregate, k \in Handling :
          /\ object' = [object EXCEPT ![a] = new]
          /\ handler' = [handler EXCEPT ![q] = k]
          /\ Sound(new) /\ Extends(new, object[a])
          /\ GoesOn(k, h.at, h.task, a, new)
    BY <2>1, <2>3, <2>4, <1>5, <1>8, ProceedEffect
  <2>6. Fits(new, r, t)
    BY <2>3, <2>5, ExtendsFits DEF Sound
  <2>7. GoesOn(k, r, t, a, new)
    BY <2>5, <1>5
  <2> QED
    BY <2>1, <2>5, <2>6, <2>7, <1>3, <1>4, Commanded
<1> QED
  BY <1>6, <1>7, <1>8

LEMMA LoadStep ==
  ASSUME IInv, NEW q \in Requests, Load(q)
  PROVE  IInv'
<1>1. TypeOK /\ StreamsAreWhole /\ FlightInv
  BY DEF IInv
<1>2. handler[q].pc = "load" /\ rows' = rows /\ session' = session
  BY DEF Load, Executes, storeVars
<1>3. PICK h \in Handling, r \in Replicas, t \in Tasks : h = handler[q] /\ h.at = r /\ h.task = t
  BY <1>1, <1>2 DEF TypeOK, FlightInv, InFlight
<1>4. h.rpc \in Lookups
  BY <1>1, <1>2, <1>3 DEF FlightInv
<1> DEFINE events == Readable(r, t)
           o == [events |-> events, loaded |-> Len(events),
                 version |-> IF events = <<>> THEN 0 ELSE Last(events).version]
<1>5. \/ \E answer \in {"ok", "error"} : Answer(q, answer) /\ UNCHANGED <<object, cache>>
      \/ /\ ~(h.rpc = "History" /\ session[r] = "open")
         /\ session[r] # "failed" /\ ~IsDeleted(events)
         /\ cache' = [cache EXCEPT ![r][t] = q]
         /\ Proceed(q, h, q, o)
  BY <1>3 DEF Load
<1>6. ASSUME NEW answer \in {"ok", "error"}, Answer(q, answer), UNCHANGED <<object, cache>>
      PROVE  IInv'
  BY <1>2, <1>6, AnswersOnly
<1>7. ASSUME ~(h.rpc = "History" /\ session[r] = "open"),
             session[r] # "failed", ~IsDeleted(events),
             cache' = [cache EXCEPT ![r][t] = q],
             Proceed(q, h, q, o)
      PROVE  IInv'
  <2>1. /\ Visible(r, t) \in Seq(Event) /\ Numbered(Visible(r, t))
        /\ ReadsUpTo(events, Visible(r, t), Len(Visible(r, t)))
    BY <1>1, Sees
  <2>2. events \in Seq(Event) /\ Len(events) \in Nat
    BY <2>1 DEF ReadsUpTo
  <2>3. o.events = events /\ o.loaded = Len(events)
    OBVIOUS
  <2>4. o \in Aggregate /\ Sound(o)
    BY <2>1, <1>7, LoadedSound
  <2>5. ToSet(EventsIn(Committed[t])) \subseteq ToSet(events)
    BY <1>1, CommittedRead
  <2> HIDE DEF o
  <2>6. Fits(o, r, t)
    <3>1. Len(events) <= Len(events) /\ \A n \in 1..Len(events) : events[n] = events[n]
      BY <2>2
    <3> QED
      BY <2>3, <2>5, <3>1 DEF Fits
  <2>7. h.rpc \in {"Create", "Get", "Update", "Assign", "Delete"}
    <3>1. session[r] = "open"
      BY <1>1, <1>7 DEF TypeOK
    <3> QED
      BY <3>1, <1>4, <1>7 DEF Lookups
  <2>8. PICK new \in Aggregate, k \in Handling :
          /\ object' = [object EXCEPT ![q] = new]
          /\ handler' = [handler EXCEPT ![q] = k]
          /\ Sound(new) /\ Extends(new, o)
          /\ GoesOn(k, h.at, h.task, q, new)
    BY <2>4, <2>7, <1>7, ProceedEffect
  <2>9. Fits(new, r, t)
    BY <2>4, <2>6, <2>8, ExtendsFits DEF Sound
  <2>10. ToSet(Readable(r, t)) \subseteq ToSet(new.events)
    BY <2>3, <2>4, <2>8, ExtendsKnows
  <2>11. GoesOn(k, r, t, q, new)
    BY <2>8, <1>3
  <2> HIDE DEF events
  <2> QED
    BY <2>8, <2>9, <2>10, <2>11, <1>2, <1>7, Commanded
<1> QED
  BY <1>5, <1>6, <1>7

(* The version is the expected one: a second save does not come this far.  *)
LEMMA Checked ==
  ASSUME IInv, NEW q \in Requests, handler[q].pc = "version",
         session[handler[q].at] # "failed", VersionMatches(q),
         handler' = [handler EXCEPT ![q].pc = "insert"],
         rows' = rows, session' = session, object' = object, cache' = cache
  PROVE  IInv'
<1>1. TypeOK /\ StreamsAreWhole /\ CacheKeepsUp /\ RowsInv /\ FlightInv /\ HeldInv /\ MemoryInv /\ SaveInv
  BY DEF IInv
<1>2. /\ handler \in [Requests -> Handling]
      /\ session \in [Replicas -> {"open", "failed"}]
  BY <1>1 DEF TypeOK
<1>3. Saving(q)
  BY DEF Saving
<1>4. PICK h \in Handling, a \in Requests, r \in Replicas, t \in Tasks :
        /\ handler[q] = h /\ h.agg = a /\ h.at = r /\ h.task = t
        /\ Holds(a, r, t)
        /\ SaveFits(h, object[a], Visible(r, t), Readable(r, t), session[r])
  BY <1>3, SaverHeld
<1> DEFINE k == [h EXCEPT !.pc = "insert"]
<1>5. k = [h EXCEPT !.pc = "insert"] /\ handler' = [handler EXCEPT ![q] = k]
  BY <1>2, <1>4
<1> HIDE DEF k
<1>6. /\ k \in Handling /\ k.pc = "insert" /\ k.stage = h.stage /\ k.agg = a
      /\ k.want = h.want /\ k.todo = h.todo /\ k.at = r /\ k.task = t
  BY <1>4, <1>5, InsertingIs
<1>7. handler'[q] = k /\ \A p \in Requests \ {q} : handler'[p] = handler[p]
  BY <1>2, <1>5
<1>8. session[r] = "open"
  BY <1>2, <1>4
<1>9. h.stage = "save"
  <2>1. CurrentVersion(r, t) = Len(Visible(r, t)) /\ Len(Visible(r, t)) \in Nat
    BY <1>1, Sees
  <2>2. h.want = Len(Visible(r, t))
    BY <2>1, <1>4 DEF VersionMatches
  <2>3. h.stage # "commit"
    BY <2>1, <2>2, <1>4, <1>8 DEF SaveFits
  <2> QED
    BY <2>3, <1>1, <1>3, <1>4 DEF FlightInv
<1>10. \A s \in Replicas, u \in Tasks :
         Visible(s, u)' = Visible(s, u) /\ Readable(s, u)' = Readable(s, u)
  BY SameSeen
<1>11. TypeOK'
  <2>1. handler' \in [Requests -> Handling]
    BY <1>2, <1>5, <1>6
  <2> QED
    BY <2>1, <1>1 DEF TypeOK
<1>12. \A b \in Requests, s \in Replicas, u \in Tasks : Holds(b, s, u)' => Holds(b, s, u)
  <2> TAKE b \in Requests, s \in Replicas, u \in Tasks
  <2> HAVE Holds(b, s, u)'
  <2>1. CASE cache'[s][u] = b
    BY <2>1 DEF Holds
  <2>2. ASSUME NEW p \in Requests, Saving(p)', handler'[p].at = s, handler'[p].task = u,
               handler'[p].agg = b
        PROVE  Holds(b, s, u)
    <3>1. CASE p = q
      BY <2>2, <3>1, <1>4, <1>6, <1>7
    <3>2. CASE p # q
      BY <2>2, <3>2, <1>7 DEF Holds, Saving
    <3> QED
      BY <3>1, <3>2
  <2> QED
    BY <2>1, <2>2 DEF Holds
<1>13. HeldInv'
  <2>1. ASSUME NEW b \in Requests, NEW s \in Replicas, NEW u \in Tasks, Holds(b, s, u)'
        PROVE  /\ handler'[b].pc \notin {"none", "load"}
               /\ \A s1 \in Replicas, u1 \in Tasks : Holds(b, s1, u1)' => s1 = s /\ u1 = u
    <3>1. Holds(b, s, u)
      BY <2>1, <1>12
    <3>2. /\ handler[b].pc \notin {"none", "load"}
          /\ \A s1 \in Replicas, u1 \in Tasks : Holds(b, s1, u1) => s1 = s /\ u1 = u
      BY <3>1, HeldOnce
    <3>3. handler'[b].pc \notin {"none", "load"}
      BY <3>2, <1>6, <1>7
    <3> QED
      BY <3>2, <3>3, <1>12
  <2> QED
    BY <2>1 DEF HeldInv
<1>14. MemoryInv'
  <2>1. ASSUME NEW b \in Requests, NEW s \in Replicas, NEW u \in Tasks, Holds(b, s, u)'
        PROVE  Fits(object[b], s, u)'
    <3>1. Fits(object[b], s, u)
      BY <2>1, <1>12, HeldOnce
    <3> QED
      BY <3>1, <1>10 DEF Fits
  <2> QED
    BY <2>1, <1>1 DEF MemoryInv
<1>15. FlightInv'
  <2>1. ASSUME NEW p \in Requests
        PROVE  /\ InFlight(p)' => handler'[p].at \in Replicas /\ handler'[p].task \in Tasks
               /\ handler'[p].pc = "load" => handler'[p].agg = None /\ handler'[p].rpc \in Lookups
               /\ Saving(p)' => /\ handler'[p].agg \in Requests /\ handler'[p].todo # <<>>
                                /\ handler'[p].stage \in {"save", "commit"}
    <3>1. CASE p = q
      <4>1. h.todo # <<>>
        BY <1>1, <1>3, <1>4 DEF FlightInv
      <4> QED
        BY <3>1, <4>1, <1>6, <1>7, <1>9
    <3>2. CASE p # q
      BY <3>2, <1>1, <1>7 DEF FlightInv, InFlight, Saving
    <3> QED
      BY <3>1, <3>2
  <2> QED
    BY <2>1 DEF FlightInv
<1>16. SaveInv'
  <2> SUFFICES ASSUME NEW p \in Requests, Saving(p)'
               PROVE  \E b \in Requests, s \in Replicas, u \in Tasks :
                        /\ handler'[p].agg = b /\ handler'[p].at = s /\ handler'[p].task = u
                        /\ SaveFits(handler'[p], object'[b], Visible(s, u)', Readable(s, u)', session'[s])
    BY SaveInvNext
  <2>1. CASE p = q
    <3>1. SaveFits(k, object[a], Visible(r, t)', Readable(r, t)', session[r])
      BY <1>4, <1>6, <1>9, <1>10 DEF SaveFits
    <3>2. handler'[p] = k
      BY <2>1, <1>7
    <3>3. SaveFits(handler'[p], object'[a], Visible(r, t)', Readable(r, t)', session'[r])
      BY <3>1, <3>2
    <3> QED
      BY <3>2, <3>3, <1>6
  <2>2. CASE p # q
    <3>1. handler'[p] = handler[p] /\ Saving(p)
      BY <2>2, <1>7 DEF Saving
    <3>2. PICK g \in Handling, b \in Requests, s \in Replicas, u \in Tasks :
            /\ handler[p] = g /\ g.agg = b /\ g.at = s /\ g.task = u
            /\ SaveFits(g, object[b], Visible(s, u), Readable(s, u), session[s])
      BY <3>1, SaverHeld
    <3>3. SaveFits(handler'[p], object'[b], Visible(s, u)', Readable(s, u)', session'[s])
      BY <3>1, <3>2, <1>10
    <3> QED
      BY <3>1, <3>2, <3>3
  <2> QED
    BY <2>1, <2>2
<1>17. StreamsAreWhole'
  BY <1>1, SameStreams
<1>18. CacheKeepsUp'
  <2> SUFFICES ASSUME NEW s \in Replicas, NEW u \in Tasks, cache[s][u] # None, ~BeingSaved(s, u)'
               PROVE  ToSet(Readable(s, u)') \subseteq ToSet(object[cache[s][u]].events)
    BY DEF CacheKeepsUp
  <2>1. ~BeingSaved(s, u)
    <3>1. SUFFICES ASSUME NEW p \in Requests, InFlight(p), handler[p].at = s,
                          handler[p].pc = "insert", handler[p].stage = "save", handler[p].task = u
                   PROVE  FALSE
      BY DEF BeingSaved, InFlightAt
    <3>2. p # q
      BY <3>1
    <3>3. handler'[p] = handler[p]
      BY <3>2, <1>7
    <3> QED
      BY <3>1, <3>3 DEF BeingSaved, InFlightAt, InFlight
  <2> QED
    BY <2>1, <1>1, <1>10 DEF CacheKeepsUp
<1>19. RowsInv'
  BY <1>1 DEF RowsInv
<1> QED
  BY <1>11, <1>13, <1>14, <1>15, <1>16, <1>17, <1>18, <1>19 DEF IInv

LEMMA CheckVersionStep ==
  ASSUME IInv, NEW q \in Requests, CheckVersion(q)
  PROVE  IInv'
<1>1. /\ handler[q].pc = "version" /\ rows' = rows /\ session' = session
      /\ object' = object /\ cache' = cache
  BY DEF CheckVersion, Executes, storeVars
<1>2. \/ Answer(q, "error")
      \/ /\ session[handler[q].at] # "failed" /\ VersionMatches(q)
         /\ handler' = [handler EXCEPT ![q].pc = "insert"]
  BY DEF CheckVersion, Conflicts
<1>3. CASE Answer(q, "error")
  BY <1>1, <1>3, AnswersOnly
<1>4. CASE /\ session[handler[q].at] # "failed" /\ VersionMatches(q)
           /\ handler' = [handler EXCEPT ![q].pc = "insert"]
  BY <1>1, <1>4, Checked
<1> QED
  BY <1>2, <1>3, <1>4

(* More than one row is left: what follows continues the chain. *)
LEMMA RestChained ==
  ASSUME NEW todo \in Seq(Event), todo # <<>>, Chained(todo), Tail(todo) # <<>>
  PROVE  /\ Tail(todo) \in Seq(Event) /\ Chained(Tail(todo))
         /\ ToSet(Tail(todo)) \subseteq ToSet(todo)
         /\ Tail(todo)[1].version <= todo[1].version + 1
<1> DEFINE rest == Tail(todo)
           l == Len(todo)
<1>1. /\ l \in Nat /\ l > 0 /\ DOMAIN todo = 1..l
      /\ rest \in Seq(Event) /\ Len(rest) = l - 1 /\ DOMAIN rest = 1..(l - 1)
      /\ \A n \in 1..(l - 1) : rest[n] = todo[n + 1]
  OBVIOUS
<1>2. l - 1 > 0
  <2>1. Len(rest) # 0
    BY <1>1
  <2> QED
    BY <2>1, <1>1
<1>3. \A n \in 1..l :
        /\ todo[n].version > 0
        /\ n > 1 => todo[n].version <= todo[n - 1].version + 1
        /\ todo[n].kind = "deleted" => n = l
  BY <1>1 DEF Chained
<1> HIDE DEF rest, l
<1>4. ASSUME NEW n \in 1..(l - 1)
      PROVE  /\ rest[n].version > 0
             /\ rest[n].version <= todo[n].version + 1
             /\ n > 1 => rest[n].version <= rest[n - 1].version + 1
             /\ rest[n].kind = "deleted" => n = l - 1
  <2> DEFINE m == n + 1
  <2>1. m \in 1..l /\ m > 1 /\ m - 1 = n /\ rest[n] = todo[m] /\ (m = l => n = l - 1)
    BY <1>1
  <2>2. n > 1 => rest[n - 1] = todo[n]
    <3>1. SUFFICES ASSUME n > 1 PROVE rest[n - 1] = todo[n]
      OBVIOUS
    <3> DEFINE i == n - 1
    <3>2. i \in 1..(l - 1) /\ i + 1 = n
      BY <3>1, <1>1
    <3> HIDE DEF i
    <3>3. rest[i] = todo[n]
      BY <3>2, <1>1
    <3> QED
      BY <3>3 DEF i
  <2> HIDE DEF m
  <2>3. /\ todo[m].version > 0
        /\ todo[m].version <= todo[n].version + 1
        /\ todo[m].kind = "deleted" => m = l
    BY <2>1, <1>3
  <2> QED
    BY <2>1, <2>2, <2>3
<1>5. Chained(rest)
  BY <1>1, <1>4 DEF Chained
<1>6. ToSet(rest) \subseteq ToSet(todo)
  BY <1>1 DEF ToSet
<1>7. rest[1].version <= todo[1].version + 1
  <2>1. 1 \in 1..(l - 1)
    BY <1>1, <1>2
  <2> QED
    BY <2>1, <1>4
<1> QED
  BY <1>1, <1>5, <1>6, <1>7 DEF rest

LEMMA InsertStep ==
  ASSUME IInv, NEW q \in Requests, Insert(q)
  PROVE  IInv'
<1>1. TypeOK /\ StreamsAreWhole /\ FlightInv
  BY DEF IInv
<1>2. handler[q].pc = "insert" /\ Saving(q) /\ InFlight(q)
  BY DEF Insert, Executes, Saving, InFlight
<1>3. PICK h \in Handling, a \in Requests, r \in Replicas, t \in Tasks :
        /\ handler[q] = h /\ h.agg = a /\ h.at = r /\ h.task = t
        /\ Holds(a, r, t)
        /\ SaveFits(h, object[a], Visible(r, t), Readable(r, t), session[r])
  BY <1>2, SaverHeld
<1> DEFINE e == Head(h.todo)
           rest == Tail(h.todo)
           o == object[a]
<1>4. \/ Fails(r) /\ Answer(q, "error") /\ UNCHANGED <<object, cache>>
      \/ Wait(r, q, t, e) /\ UNCHANGED requestVars
      \/ /\ ~InsertRaises(r, t, e) /\ ~InsertWaits(r, t, e)
         /\ Store(r, t, e)
         /\ IF rest = <<>> THEN Saved(q)
            ELSE /\ handler' = [handler EXCEPT ![q].todo = rest]
                 /\ UNCHANGED <<object, cache>>
  BY <1>3 DEF Insert
<1>5. CASE Fails(r) /\ Answer(q, "error") /\ UNCHANGED <<object, cache>>
  BY <1>2, <1>3, <1>5, FailsAlone
<1>6. CASE Wait(r, q, t, e) /\ UNCHANGED requestVars
  BY <1>6, Unchanged DEF Wait
<1>7. ASSUME ~InsertRaises(r, t, e), ~InsertWaits(r, t, e), Store(r, t, e),
             IF rest = <<>> THEN Saved(q)
             ELSE /\ handler' = [handler EXCEPT ![q].todo = rest]
                  /\ UNCHANGED <<object, cache>>
      PROVE  IInv'
  <2>1. /\ e \in Event /\ e = h.todo[1] /\ e \in ToSet(o.events)
        /\ session[r] = "open" /\ h.stage = "save"
        /\ e.version = Len(Visible(r, t)) + 1
        /\ \A s \in Replicas \ {r} : e.version \notin VersionsIn(rows[s][t])
        /\ \A n \in DOMAIN Visible(r, t) : Visible(r, t)[n].kind # "deleted"
        /\ ToSet(Readable(r, t)) \subseteq ToSet(o.events)
    BY <1>2, <1>3, <1>7, NextRow
  <2>2. h.todo \in Seq(Event) /\ h.todo # <<>>
    BY <1>1, <1>2, <1>3 DEF FlightInv, Handling
  <2>3. Chained(h.todo) /\ ToSet(h.todo) \subseteq ToSet(o.events)
    BY <1>3 DEF SaveFits
  <2>4. Len(Visible(r, t)) \in Nat
    BY <1>1, Sees
  <2>5. CASE rest # <<>>
    <3> DEFINE k == [h EXCEPT !.todo = rest]
    <3>1. rest \in Seq(Event) /\ Chained(rest) /\ ToSet(rest) \subseteq ToSet(o.events)
      BY <2>2, <2>3, <2>5, RestChained
    <3>2. rest[1].version <= Len(Visible(r, t)) + 2
      <4>1. rest[1].version <= h.todo[1].version + 1
        BY <2>2, <2>3, <2>5, RestChained
      <4>2. rest[1] \in Event
        BY <3>1, <2>5
      <4>3. rest[1].version \in Nat
        BY <4>2 DEF Event
      <4> DEFINE v == rest[1].version
                 w == h.todo[1].version
                 l == Len(Visible(r, t))
      <4>4. v \in Nat /\ v <= w + 1 /\ w = l + 1 /\ l \in Nat
        BY <4>1, <4>3, <2>1, <2>4
      <4> HIDE DEF v, w, l
      <4>5. v <= l + 2
        BY <4>4
      <4> QED
        BY <4>5 DEF v, l
    <3>3. object' = object /\ cache' = cache /\ handler' = [handler EXCEPT ![q] = k]
      BY <2>5, <1>1, <1>3, <1>7 DEF TypeOK
    <3>4. k = [h EXCEPT !.todo = rest]
      OBVIOUS
    <3> HIDE DEF k, rest, e, o
    <3>5. /\ k \in Handling /\ k.pc = h.pc /\ k.stage = h.stage /\ k.agg = h.agg
          /\ k.todo = rest /\ k.at = h.at /\ k.task = h.task
      BY <3>1, <3>4, NextRowIs
    <3>6. k.pc = "insert" /\ k.stage = "save" /\ k.agg = a /\ k.at = r /\ k.task = t
      BY <3>5, <2>1, <1>2, <1>3
    <3> QED
      BY <3>1, <3>2, <3>3, <3>5, <3>6, <2>1, <2>5, <1>2, <1>3, <1>7, Inserted DEF o
  <2>6. CASE rest = <<>>
    <3> DEFINE todo == Uncommitted(o)
               want == OwnExpectation(o)
               k == [h EXCEPT !.pc = "version", !.stage = "commit", !.agg = a, !.want = want, !.todo = todo]
    <3>1. /\ object' = object /\ cache' = [cache EXCEPT ![r][t] = a]
          /\ handler' = [handler EXCEPT ![q] = k]
      BY <2>1, <2>6, <1>3, <1>7 DEF Saved, CacheSaved, SaveEvents
    <3>2. o \in Aggregate /\ Sound(o) /\ Fits(o, r, t)
      BY <1>1, <1>3, HeldOnce DEF TypeOK
    <3>3. /\ Visible(r, t) \in Seq(Event) /\ Numbered(Visible(r, t))
          /\ ReadsUpTo(Readable(r, t), Visible(r, t), Len(Visible(r, t)))
      BY <1>1, Sees
    <3>4. /\ o.loaded <= Len(Readable(r, t))
          /\ \A n \in 1..o.loaded : o.events[n] = Readable(r, t)[n]
      BY <3>2, <2>1 DEF Fits
    <3>5. o.events \in Seq(Event) /\ Len(o.events) \in Nat /\ o.loaded \in Nat /\ o.version \in Nat
          /\ o.loaded <= Len(o.events)
      BY <3>2 DEF Aggregate, Sound
    <3> HIDE DEF k, e, o
    <3>6. todo # <<>>
      <4>1. PICK i \in 1..Len(o.events) : o.events[i] = e
        BY <2>1, <3>5 DEF ToSet
      <4>2. i > o.loaded
        <5>1. SUFFICES ASSUME i <= o.loaded PROVE FALSE
          BY <3>5
        <5>2. i \in 1..o.loaded /\ i \in 1..Len(Readable(r, t))
          BY <5>1, <3>3, <3>4, <3>5 DEF ReadsUpTo
        <5>3. e = Readable(r, t)[i]
          BY <4>1, <5>2, <3>4
        <5>4. e.version \in 1..Len(Visible(r, t))
          BY <5>2, <5>3, <3>3 DEF ReadsUpTo
        <5> QED
          BY <5>4, <2>1, <2>4
      <4>3. o.loaded # Len(o.events)
        BY <4>1, <4>2, <3>5
      <4> QED
        BY <4>3, <3>2, <3>5, UncommittedAre
    <3>7. todo \in Seq(Event) /\ Len(todo) \in Nat /\ Chained(todo) /\ ToSet(todo) \subseteq ToSet(o.events)
      BY <3>2, <3>5, UncommittedAre, UncommittedChained
    <3>8. want <= Len(Visible(r, t)) /\ todo[1].version <= Len(Visible(r, t)) + 1
      BY <3>2, <3>3, <3>4, <3>6, Continues
    <3>9. want \in Int
      BY <3>5, <3>7 DEF OwnExpectation
    <3>10. todo[1] \in Event
      BY <3>6, <3>7
    <3>11. todo[1].version \in Nat
      BY <3>10 DEF Event
    <3> HIDE DEF todo, want
    <3>12. todo[1].version <= Len(Visible(r, t)) + 2
      BY <3>8, <3>11, <2>4
    <3>13. /\ k \in Handling /\ k.pc = "version" /\ k.stage = "commit" /\ k.agg = a
           /\ k.want = want /\ k.todo = todo /\ k.at = r /\ k.task = t
      <4>1. k = [h EXCEPT !.pc = "version", !.stage = "commit", !.agg = a, !.want = want, !.todo = todo]
        BY DEF k, todo, want
      <4>2. /\ k \in Handling /\ k.pc = "version" /\ k.stage = "commit" /\ k.agg = a
            /\ k.want = want /\ k.todo = todo /\ k.at = h.at /\ k.task = h.task
        <5> HIDE DEF Event
        <5> QED
          BY <4>1, <3>7, <3>9 DEF Handling
      <4> QED
        BY <4>2, <1>3
    <3> QED
      BY <3>1, <3>6, <3>7, <3>8, <3>12, <3>13, <2>1, <1>2, <1>3, <1>7, Inserted DEF o
  <2> QED
    BY <2>5, <2>6
<1> QED
  BY <1>4, <1>5, <1>6, <1>7

-------------------------------------------------------------------------------
(* The invariant *)

LEMMA InitIInv == Init => IInv
<1> SUFFICES ASSUME Init PROVE IInv
  OBVIOUS
<1>1. /\ rows = [r \in Replicas |-> NoRows] /\ session = [r \in Replicas |-> "open"]
      /\ handler = [q \in Requests |-> Silent] /\ object = [q \in Requests |-> NoAggregate]
      /\ cache = [r \in Replicas |-> [t \in Tasks |-> None]]
  BY DEF Init, StoreInit
<1>2. NoRows \in [Tasks -> Seq(Event)]
  BY DEF NoRows
<1>3. TypeOK
  <2>1. rows \in [Replicas -> [Tasks -> Seq(Event)]] /\ session \in [Replicas -> {"open", "failed"}]
    BY <1>1, <1>2
  <2>2. handler \in [Requests -> Handling]
    BY <1>1, SilentIs
  <2>3. object \in [Requests -> Aggregate]
    BY <1>1, NothingSound
  <2>4. cache \in [Replicas -> [Tasks -> Requests \cup {None}]]
    BY <1>1
  <2> QED
    BY <2>1, <2>2, <2>3, <2>4 DEF TypeOK
<1>4. \A q \in Requests : handler[q].pc = "none"
  BY <1>1, SilentIs
<1>5. \A q \in Requests : ~Saving(q) /\ ~InFlight(q)
  BY <1>4 DEF Saving, InFlight
<1>6. FlightInv /\ SaveInv
  BY <1>4, <1>5 DEF FlightInv, SaveInv
<1>7. \A r \in Replicas, t \in Tasks : cache[r][t] = None
  BY <1>1
<1>8. \A a \in Requests, r \in Replicas, t \in Tasks : ~Holds(a, r, t)
  <2>1. \A a \in Requests : a # None
    BY TaskServiceAssumption
  <2> QED
    BY <2>1, <1>5, <1>7 DEF Holds
<1>9. HeldInv
  BY <1>8 DEF HeldInv
<1>10. MemoryInv
  BY <1>1, <1>8, NothingSound DEF MemoryInv
<1>11. RowsInv
  BY <1>1 DEF RowsInv
<1>12. CacheKeepsUp
  BY <1>7 DEF CacheKeepsUp
<1>13. StreamsAreWhole
  <2>1. \A r \in Replicas, t \in Tasks : rows[r][t] = <<>>
    BY <1>1 DEF NoRows
  <2>2. ASSUME NEW r \in Replicas, NEW t \in Tasks PROVE Visible(r, t) = Committed[t]
    <3>1. Committed[t] \in Seq(Event) /\ rows[r][t] = <<>>
      BY <2>1, CommittedNumbered
    <3> QED
      BY <3>1 DEF Visible
  <2>3. \A r \in Replicas, t \in Tasks : VersionsIn(rows[r][t]) = {}
    BY <2>1 DEF VersionsIn
  <2>4. \A t \in Tasks : \A n \in DOMAIN Committed[t] :
          /\ Committed[t][n].version = n
          /\ Committed[t][n].kind = "deleted" => n = Len(Committed[t])
    BY TaskServiceAssumption
  <2> QED
    BY <2>2, <2>3, <2>4 DEF StreamsAreWhole
<1> QED
  BY <1>3, <1>6, <1>9, <1>10, <1>11, <1>12, <1>13 DEF IInv

LEMMA NextIInv == IInv /\ [Next]_vars => IInv'
<1> SUFFICES ASSUME IInv, [Next]_vars PROVE IInv'
  OBVIOUS
<1>1. ASSUME NEW q \in Requests, CreateTask(q) PROVE IInv'
  BY <1>1, CreateTaskStep
<1>2. ASSUME NEW q \in Requests, Receive(q) PROVE IInv'
  BY <1>2, ReceiveStep
<1>3. ASSUME NEW q \in Requests, Handles(q) PROVE IInv'
  BY <1>3, LoadStep, CheckVersionStep, InsertStep DEF Handles
<1>4. ASSUME NEW q \in Requests, StatementFails(q) PROVE IInv'
  BY <1>4, FailsAlone DEF StatementFails
<1>5. ASSUME NEW r \in Replicas, Signal(r) \/ ServerStops(r) \/ Restart(r) PROVE IInv'
  BY <1>5, Unchanged DEF Signal, ServerStops, Restart, storeVars
<1>6. ASSUME NEW r \in Replicas, GraceEnds(r) PROVE IInv'
  BY <1>6, GraceStep
<1>7. ASSUME NEW r \in Replicas, MainReturns(r) \/ Crash(r) PROVE IInv'
  BY <1>7, Gone DEF MainReturns, Crash
<1>8. CASE UNCHANGED vars
  BY <1>8, Unchanged DEF vars, storeVars
<1> QED
  BY <1>1, <1>2, <1>3, <1>4, <1>5, <1>6, <1>7, <1>8 DEF Next, Ends

(* Whatever requests, failures, stops and restarts: what the handlers are  *)
(* about to insert fits what their replica sees, aggregates are sound and  *)
(* held for one task by one replica, and streams and caches are as below.  *)
THEOREM Invariance == Spec => []IInv
<1> QED
  BY InitIInv, NextIInv, PTL DEF Spec

(* What the invariant does not need: the INSERTs that wait, and the        *)
(* processes.                                                              *)
Stages == {"serving", "stopping", "closing", "exited"}
Inserts == [caller : Requests, task : Tasks, version : Nat]

ProcessTypeOK ==
  /\ waiting \in [Replicas -> Inserts \cup {None}]
  /\ process \in [Replicas -> Stages]
  /\ stops \in Nat

LEMMA InitProcessType == Init => ProcessTypeOK
BY DEF Init, StoreInit, ProcessTypeOK, Stages

LEMMA InsertProcessType ==
  ASSUME IInv, ProcessTypeOK, NEW q \in Requests, Insert(q)
  PROVE  ProcessTypeOK'
<1>1. handler[q].pc = "insert" /\ process' = process /\ stops' = stops
  BY DEF Insert, Executes, processVars
<1>2. Saving(q)
  BY <1>1 DEF Saving
<1>3. PICK h \in Handling, a \in Requests, r \in Replicas, t \in Tasks :
        handler[q] = h /\ h.agg = a /\ h.at = r /\ h.task = t
  BY <1>2, SaverHeld
<1> DEFINE e == Head(h.todo)
<1>4. e.version \in Nat
  <2>1. h.todo \in Seq(Event) /\ h.todo # <<>>
    BY <1>2, <1>3 DEF IInv, FlightInv, Handling
  <2>2. e \in Event
    BY <2>1
  <2> QED
    BY <2>2 DEF Event
<1>5. \/ waiting' = [waiting EXCEPT ![r] = None]
      \/ waiting' = [waiting EXCEPT ![r] = [caller |-> q, task |-> t, version |-> e.version]]
  BY <1>3 DEF Insert, Fails, Wait, Store
<1>6. [caller |-> q, task |-> t, version |-> e.version] \in Inserts
  BY <1>4 DEF Inserts
<1> HIDE DEF e
<1> QED
  BY <1>1, <1>5, <1>6 DEF ProcessTypeOK

LEMMA NextProcessType == IInv /\ ProcessTypeOK /\ [Next]_vars => ProcessTypeOK'
<1> SUFFICES ASSUME IInv, ProcessTypeOK, [Next]_vars PROVE ProcessTypeOK'
  OBVIOUS
<1>1. ASSUME NEW q \in Requests, CreateTask(q) \/ Receive(q) \/ Load(q) \/ CheckVersion(q)
      PROVE  ProcessTypeOK'
  BY <1>1 DEF CreateTask, Receive, Load, CheckVersion, storeVars, processVars, ProcessTypeOK
<1>2. ASSUME NEW q \in Requests, Insert(q) PROVE ProcessTypeOK'
  BY <1>2, InsertProcessType
<1>3. ASSUME NEW q \in Requests, StatementFails(q) PROVE ProcessTypeOK'
  BY <1>3 DEF StatementFails, Fails, processVars, ProcessTypeOK
<1>4. ASSUME NEW r \in Replicas, Signal(r) \/ ServerStops(r) \/ Restart(r) PROVE ProcessTypeOK'
  BY <1>4 DEF Signal, ServerStops, Restart, storeVars, ProcessTypeOK, Stages
<1>5. ASSUME NEW r \in Replicas, GraceEnds(r) PROVE ProcessTypeOK'
  BY <1>5 DEF GraceEnds, Fails, processVars, ProcessTypeOK
<1>6. ASSUME NEW r \in Replicas, MainReturns(r) \/ Crash(r) PROVE ProcessTypeOK'
  BY <1>6 DEF MainReturns, Crash, Exit, SessionEnds, ProcessTypeOK, Stages
<1>7. CASE UNCHANGED vars
  BY <1>7 DEF vars, storeVars, processVars, ProcessTypeOK
<1> QED
  BY <1>1, <1>2, <1>3, <1>4, <1>5, <1>6, <1>7 DEF Next, Handles, Ends

(* Every variable of the service and of the store keeps its type.          *)
THEOREM TypeCorrect == Spec => [](TypeOK /\ ProcessTypeOK)
<1>1. IInv => TypeOK
  BY DEF IInv
<1> QED
  BY <1>1, Invariance, InitProcessType, NextProcessType, PTL DEF Spec

(* The unique index, the versions that aggregates give their events and the*)
(* order in which the repository inserts them leave no gap in any stream,  *)
(* nothing after a deletion, and no version with two replicas.             *)
THEOREM StreamsWhole == Spec => []StreamsAreWhole
<1>1. IInv => StreamsAreWhole
  BY DEF IInv
<1> QED
  BY <1>1, Invariance, PTL

(* A cached aggregate knows every event that its replica would read, unless*)
(* a save of that task is between its statements.                          *)
THEOREM CacheUp == Spec => []CacheKeepsUp
<1>1. IInv => CacheKeepsUp
  BY DEF IInv
<1> QED
  BY <1>1, Invariance, PTL

(* What a replica holds in memory was loaded from rows that are there, as  *)
(* long as its session has not failed.                                     *)
THEOREM MemoryLoaded == Spec => []MemoryWasLoaded
<1>1. IInv => MemoryWasLoaded
  <2> SUFFICES ASSUME IInv, NEW r \in Replicas, NEW t \in Tasks,
                      NEW a \in HeldFor(r, t) \ {None}, session[r] = "open"
               PROVE  IsPrefix(SubSeq(object[a].events, 1, object[a].loaded), Readable(r, t))
    BY DEF MemoryWasLoaded
  <2>1. TypeOK /\ StreamsAreWhole /\ FlightInv
    BY DEF IInv
  <2>2. a \in Requests /\ Holds(a, r, t)
    <3>1. CASE a = cache[r][t]
      BY <3>1, <2>1 DEF TypeOK, Holds
    <3>2. ASSUME NEW q \in InFlightAt(r), handler[q].task = t, a = handler[q].agg
          PROVE  a \in Requests /\ Holds(a, r, t)
      <4>1. q \in Requests /\ handler[q].at = r /\ InFlight(q)
        BY DEF InFlightAt
      <4>2. Saving(q)
        BY <3>2, <4>1, <2>1 DEF FlightInv, InFlight, Saving
      <4> QED
        BY <3>2, <4>1, <4>2, <2>1 DEF FlightInv, Holds
    <3> QED
      BY <3>1, <3>2 DEF HeldFor
  <2> DEFINE o == object[a]
             known == SubSeq(o.events, 1, o.loaded)
             stream == Readable(r, t)
  <2>3. o \in Aggregate /\ Sound(o) /\ Fits(o, r, t)
    BY <2>1, <2>2, HeldOnce DEF TypeOK
  <2>4. /\ o.events \in Seq(Event) /\ o.loaded \in Nat /\ o.loaded <= Len(o.events)
        /\ Len(o.events) \in Nat
    BY <2>3 DEF Aggregate, Sound
  <2>5. /\ o.loaded <= Len(stream)
        /\ \A n \in 1..o.loaded : o.events[n] = stream[n]
    BY <2>3 DEF Fits
  <2>6. stream \in Seq(Event) /\ Len(stream) \in Nat
    BY <2>1, Sees DEF ReadsUpTo
  <2> HIDE DEF o, stream
  <2>7. /\ known \in Seq(Event) /\ Len(known) = o.loaded
        /\ \A n \in 1..o.loaded : known[n] = o.events[n]
    <3> HIDE DEF Event
    <3>1. \A n \in 1..o.loaded : o.events[n] \in Event
      BY <2>4
    <3> QED
      BY <2>4, <3>1
  <2>8. /\ SubSeq(stream, 1, o.loaded) \in Seq(Event) /\ Len(SubSeq(stream, 1, o.loaded)) = o.loaded
        /\ \A n \in 1..o.loaded : SubSeq(stream, 1, o.loaded)[n] = stream[n]
    <3> HIDE DEF Event
    <3>1. \A n \in 1..o.loaded : stream[n] \in Event
      BY <2>4, <2>5, <2>6
    <3> QED
      BY <2>4, <2>5, <2>6, <3>1
  <2> HIDE DEF known
  <2>9. known = SubSeq(stream, 1, o.loaded)
    BY <2>5, <2>7, <2>8, SameRows
  <2>10. IsPrefix(known, stream)
    BY <2>5, <2>7, <2>9 DEF IsPrefix
  <2> QED
    BY <2>10 DEF known, o, stream
<1> QED
  BY <1>1, Invariance, PTL

(* The commit of a unit of work saves the events a second time, and that   *)
(* save never gets past its version check: no event is stored twice, and   *)
(* none is ever published.                                                 *)
SecondSaveRefused ==
  \A q \in Requests : handler[q].pc = "insert" => handler[q].stage = "save"

THEOREM CommitsConflict == Spec => []SecondSaveRefused
<1>1. IInv => SecondSaveRefused
  BY DEF IInv, FlightInv, SaveInv, SaveFits, Saving, SecondSaveRefused
<1> QED
  BY <1>1, Invariance, PTL
===============================================================================
