-------------------------- MODULE EventSubscriberProofs --------------------------
(***************************************************************************)
(* Proofs, for any number of messages, of malformed messages and of lives, *)
(* and for manual and auto commits, of the safety properties of            *)
(* EventSubscriber and of its refinement of EventDelivery.                 *)
(***************************************************************************)
EXTENDS EventSubscriber, TLAPS, FiniteSetTheorems

Settled == HandledSet \cup refused

(* The messages of this life up to here are settled, or on their way: the  *)
(* loop may have one more in hand.                                         *)
SettledUpTo == IF pc = "handling" THEN position - 1 ELSE position
OnWayUpTo == IF pc \in {"handling", "dead_lettering"} THEN position - 1 ELSE position

OnWay == HandledSet \cup dlq_buffer \cup dlq \cup dropped

(* The messages up to k that nothing has happened to. *)
Unsettled(k) == {m \in 1..k : m \notin Settled}

PositionInv ==
  /\ committed <= position
  /\ pc \in {"handling", "committing", "dead_lettering"} => position > 0
  /\ ~enable_auto_commit /\ pc \in {"handling", "committing"} => committed < position

SettledInv ==
  ~enable_auto_commit =>
    /\ 1..committed \subseteq Settled
    /\ pc \in Busy => 1..SettledUpTo \subseteq Settled

WayInv ==
  ~enable_auto_commit =>
    /\ 1..committed \subseteq OnWay
    /\ pc \in Busy => 1..OnWayUpTo \subseteq OnWay

LifeInv ==
  /\ pc \in Busy => lives > 0
  /\ \A m \in Messages :
       /\ handled[m] <= lives
       /\ pc \in Busy /\ m > SettledUpTo => handled[m] < lives

LostInv ==
  /\ Cardinality(Unsettled(position)) <= lives
  /\ pc \in Busy => Cardinality(Unsettled(SettledUpTo)) < lives

MalformedInv ==
  \A bad \in malformed :
    /\ position < bad
    /\ \A m \in Messages : m >= bad => m \notin Settled \cup dlq_buffer \cup dlq

IInv ==
  /\ SubscriberTypeOK
  /\ PositionInv /\ SettledInv /\ WayInv /\ LifeInv /\ LostInv /\ MalformedInv

-------------------------------------------------------------------------------
(* The numbers of the model are numbers, and the message in hand is one of *)
(* the partition's.                                                        *)
LEMMA Numbers ==
  ASSUME SubscriberTypeOK
  PROVE  /\ position \in Nat /\ committed \in Nat /\ lives \in Nat
         /\ position <= NumMessages /\ NumMessages \in Nat
         /\ \A m \in Messages : m \in Nat /\ m > 0 /\ m <= NumMessages /\ handled[m] \in Nat
         /\ Settled \subseteq Messages
<1>1. NumMessages \in Nat /\ MaxLives \in Nat
  BY SubscriberAssumption
<1>2. position \in Nat /\ committed \in Nat /\ lives \in Nat /\ position <= NumMessages
  BY <1>1 DEF SubscriberTypeOK
<1>3. \A m \in Messages : m \in Nat /\ m > 0 /\ m <= NumMessages /\ handled[m] \in Nat
  BY <1>1 DEF SubscriberTypeOK, Messages
<1>4. Settled \subseteq Messages
  BY DEF SubscriberTypeOK, Settled, HandledSet
<1> QED
  BY <1>1, <1>2, <1>3, <1>4

(* Fewer messages are no more messages, and one more is one more. *)
LEMMA UnsettledCounted ==
  ASSUME NEW k \in Nat, NEW S
  PROVE  LET T == {m \in 1..k : m \notin S} IN
         /\ IsFiniteSet(T) /\ Cardinality(T) \in Nat
         /\ \A U \in SUBSET T : IsFiniteSet(U) /\ Cardinality(U) \in Nat /\ Cardinality(U) <= Cardinality(T)
         /\ \A n : /\ Cardinality(T \cup {n}) \in Nat
                  /\ Cardinality(T \cup {n}) <= Cardinality(T) + 1
                  /\ \A U \in SUBSET (T \cup {n}) :
                       Cardinality(U) \in Nat /\ Cardinality(U) <= Cardinality(T) + 1
<1> DEFINE T == {m \in 1..k : m \notin S}
<1>1. IsFiniteSet(1..k)
  BY FS_Interval
<1>2. IsFiniteSet(T) /\ Cardinality(T) \in Nat
  BY <1>1, FS_Subset, FS_CardinalityType
<1> HIDE DEF T
<1>3. \A U \in SUBSET T : IsFiniteSet(U) /\ Cardinality(U) \in Nat /\ Cardinality(U) <= Cardinality(T)
  BY <1>2, FS_Subset, FS_CardinalityType
<1>4. ASSUME NEW n
      PROVE  /\ IsFiniteSet(T \cup {n}) /\ Cardinality(T \cup {n}) \in Nat
             /\ Cardinality(T \cup {n}) <= Cardinality(T) + 1
  BY <1>2, FS_AddElement, FS_CardinalityType
<1>5. ASSUME NEW n, NEW U \in SUBSET (T \cup {n})
      PROVE  Cardinality(U) \in Nat /\ Cardinality(U) <= Cardinality(T) + 1
  <2>1. IsFiniteSet(U) /\ Cardinality(U) <= Cardinality(T \cup {n})
    BY <1>4, FS_Subset
  <2>2. Cardinality(U) \in Nat
    BY <2>1, FS_CardinalityType
  <2>3. Cardinality(T \cup {n}) \in Nat /\ Cardinality(T \cup {n}) <= Cardinality(T) + 1
    BY <1>4
  <2> QED
    BY <1>2, <2>1, <2>2, <2>3
<1> QED
  BY <1>2, <1>3, <1>4, <1>5 DEF T

(* The initial state satisfies the invariant. *)
LEMMA InitIInv == Init => IInv
<1> SUFFICES ASSUME Init PROVE IInv
  OBVIOUS
<1> USE SubscriberAssumption DEF Init
<1>1. SubscriberTypeOK
  <2>1. enable_auto_commit \in BOOLEAN /\ malformed \subseteq Messages /\ _running \in BOOLEAN
    OBVIOUS
  <2>2. /\ position \in 0..NumMessages /\ committed \in 0..NumMessages /\ lives \in 0..MaxLives
        /\ handled \in [Messages -> Nat]
    OBVIOUS
  <2> QED
    BY <2>1, <2>2 DEF SubscriberTypeOK, Ended, Busy
<1>2. Settled = {}
  BY DEF Settled, HandledSet
<1>3. LostInv
  <2>1. Unsettled(position) = {}
    BY DEF Unsettled
  <2> QED
    BY <2>1, FS_EmptySet DEF LostInv, Busy
<1>4. PositionInv /\ SettledInv /\ WayInv
  BY DEF PositionInv, SettledInv, WayInv, Busy
<1>5. LifeInv
  BY DEF LifeInv, Busy
<1>6. MalformedInv
  BY <1>2 DEF MalformedInv, Messages
<1> QED
  BY <1>1, <1>3, <1>4, <1>5, <1>6 DEF IInv

-------------------------------------------------------------------------------
(* Steps that several parts of the code share *)

(* Stopping, ending and doing nothing keep the invariant. *)
LEMMA QuietIInv ==
  ASSUME IInv, pc' \in {pc, "returned", "failed"}, _running' \in BOOLEAN,
         UNCHANGED <<clients, position, lifeVars, committed, dlqVars, effectVars>>
  PROVE  IInv'
<1> USE DEF lifeVars, dlqVars, effectVars
<1>1. SubscriberTypeOK'
  BY DEF IInv, SubscriberTypeOK, Ended
<1>2. Settled' = Settled /\ OnWay' = OnWay
  BY DEF Settled, OnWay, HandledSet
<1>3. pc' \in Busy => pc' = pc
  BY DEF Busy
<1>4. PositionInv' /\ SettledInv' /\ WayInv'
  BY <1>2, <1>3 DEF IInv, PositionInv, SettledInv, WayInv, SettledUpTo, OnWayUpTo, Busy
<1>5. LifeInv'
  BY <1>3 DEF IInv, LifeInv, SettledUpTo
<1>6. LostInv'
  BY <1>2, <1>3 DEF IInv, LostInv, Unsettled, SettledUpTo
<1>7. MalformedInv'
  BY <1>2 DEF IInv, MalformedInv
<1> QED
  BY <1>1, <1>4, <1>5, <1>6, <1>7 DEF IInv

(* So do the ways out of the DLQ producer's buffer, at its close and in a  *)
(* crash too: a record is delivered or dropped, not forgotten.             *)
LEMMA QueueIInv ==
  ASSUME IInv, SubscriberTypeOK', pc' \in {pc, "down"},
         dlq_buffer' \subseteq dlq_buffer, dlq' \subseteq dlq \cup dlq_buffer, OnWay' = OnWay,
         UNCHANGED <<position, lifeVars, committed, effectVars>>
  PROVE  IInv'
<1> USE DEF lifeVars, effectVars
<1>2. Settled' = Settled
  BY DEF Settled, HandledSet
<1>3. pc' \in Busy => pc' = pc
  BY DEF Busy
<1>4. PositionInv' /\ SettledInv' /\ WayInv'
  BY <1>2, <1>3 DEF IInv, PositionInv, SettledInv, WayInv, SettledUpTo, OnWayUpTo, Busy
<1>5. LifeInv'
  BY <1>3 DEF IInv, LifeInv, SettledUpTo
<1>6. LostInv'
  BY <1>2, <1>3 DEF IInv, LostInv, Unsettled, SettledUpTo
<1>7. MalformedInv'
  BY <1>2 DEF IInv, MalformedInv
<1> QED
  BY <1>4, <1>5, <1>6, <1>7 DEF IInv

(* A commit moves to the position.  A manual one is made, or fails, after  *)
(* the handler has returned.                                               *)
LEMMA CommitIInv ==
  ASSUME IInv, SubscriberTypeOK', committed' \in {committed, position},
         \/ pc = "committing" /\ pc' \in {"polling", "dead_lettering"}
         \/ pc' = pc /\ (enable_auto_commit \/ committed' = committed),
         UNCHANGED <<position, lifeVars, dlqVars, effectVars>>
  PROVE  IInv'
<1> USE DEF lifeVars, dlqVars, effectVars
<1>1. position \in Nat /\ committed \in Nat
  BY Numbers DEF IInv
<1>2. Settled' = Settled /\ OnWay' = OnWay
  BY DEF Settled, OnWay, HandledSet
<1>3. /\ pc' \in Busy <=> pc \in Busy
      /\ SettledUpTo' = SettledUpTo
  BY DEF Busy, SettledUpTo
<1>4. PositionInv'
  BY <1>1 DEF IInv, PositionInv
<1>5. SettledInv'
  BY <1>2, <1>3 DEF IInv, SettledInv, SettledUpTo, Busy
<1>6. WayInv'
  <2> SUFFICES ASSUME ~enable_auto_commit
               PROVE  /\ 1..committed' \subseteq OnWay
                      /\ pc' \in Busy => 1..OnWayUpTo' \subseteq OnWay
    BY <1>2 DEF WayInv
  <2>1. CASE pc = "committing" /\ pc' \in {"polling", "dead_lettering"}
    <3>1. 1..position \subseteq OnWay
      BY <2>1 DEF IInv, WayInv, OnWayUpTo, Busy
    <3>2. OnWayUpTo' \in {position, position - 1}
      BY DEF OnWayUpTo
    <3> QED
      BY <1>1, <3>1, <3>2 DEF IInv, WayInv
  <2>2. CASE pc' = pc /\ committed' = committed
    BY <2>2 DEF IInv, WayInv, OnWayUpTo
  <2> QED
    BY <2>1, <2>2
<1>7. LifeInv'
  BY <1>3 DEF IInv, LifeInv
<1>8. LostInv'
  BY <1>2, <1>3 DEF IInv, LostInv, Unsettled
<1>9. MalformedInv'
  BY <1>2 DEF IInv, MalformedInv
<1> QED
  BY <1>4, <1>5, <1>6, <1>7, <1>8, <1>9 DEF IInv

-------------------------------------------------------------------------------
(* The steps *)

(* A new life begins where the group has committed, and may lose one more  *)
(* message than the lives before it.                                       *)
LEMMA StartIInv == IInv /\ Start => IInv'
<1> SUFFICES ASSUME IInv, Start PROVE IInv'
  OBVIOUS
<1> USE DEF Start, ResumesAt, dlqVars, effectVars
<1>1. SubscriberTypeOK'
  BY SubscriberAssumption DEF IInv, SubscriberTypeOK, Busy
<1>2. Settled' = Settled /\ OnWay' = OnWay
  BY DEF Settled, OnWay, HandledSet
<1>3. /\ position \in Nat /\ committed \in Nat /\ lives \in Nat /\ committed <= position
      /\ \A m \in Messages : handled[m] \in Nat
  BY Numbers DEF IInv, PositionInv
<1>4. SettledUpTo' = committed /\ OnWayUpTo' = committed /\ pc' = "polling" /\ pc' \in Busy
  BY DEF SettledUpTo, OnWayUpTo, Busy
<1>5. PositionInv'
  BY <1>3 DEF PositionInv
<1>6. SettledInv' /\ WayInv'
  BY <1>2, <1>4 DEF IInv, SettledInv, WayInv
<1>7. LifeInv'
  BY <1>3, <1>4 DEF IInv, LifeInv
<1>8. LostInv'
  <2>1. Unsettled(committed)' = Unsettled(committed) /\ Unsettled(committed) \subseteq Unsettled(position)
    BY <1>2, <1>3 DEF Unsettled
  <2>2. /\ Cardinality(Unsettled(committed)) \in Nat
        /\ Cardinality(Unsettled(committed)) <= Cardinality(Unsettled(position))
        /\ Cardinality(Unsettled(position)) \in Nat
    BY <1>3, <2>1, UnsettledCounted DEF Unsettled
  <2>3. Cardinality(Unsettled(position)) <= lives
    BY DEF IInv, LostInv
  <2>4. /\ Cardinality(Unsettled(position)') <= lives + 1
        /\ Cardinality(Unsettled(SettledUpTo)') < lives + 1
    BY <1>2, <1>3, <1>4, <2>2, <2>3 DEF Unsettled
  <2> QED
    BY <2>4 DEF LostInv
<1>9. MalformedInv'
  BY <1>2, <1>3, SubscriberAssumption DEF IInv, MalformedInv, SubscriberTypeOK, Messages
<1> QED
  BY <1>1, <1>5, <1>6, <1>7, <1>8, <1>9 DEF IInv

(* A message that is handed out is the first not settled in this life; it  *)
(* is the one the life may lose.                                           *)
LEMMA DeliverIInv == IInv /\ Deliver => IInv'
<1> SUFFICES ASSUME IInv, Deliver PROVE IInv'
  OBVIOUS
<1> USE DEF Deliver, HasNext, OnceStopped, lifeVars, dlqVars, effectVars
<1>1. /\ position \in Nat /\ committed \in Nat /\ lives \in Nat /\ committed <= position
      /\ NumMessages \in Nat /\ position' = position + 1 /\ position' \in Messages
      /\ pc' \in {"handling", "returned"}
  BY Numbers DEF IInv, PositionInv, Messages
<1>2. SubscriberTypeOK'
  BY <1>1 DEF IInv, SubscriberTypeOK, Busy, Ended
<1>3. Settled' = Settled /\ OnWay' = OnWay
  BY DEF Settled, OnWay, HandledSet
<1>4. /\ SettledUpTo = position /\ OnWayUpTo = position /\ pc \in Busy
      /\ pc' \in Busy => SettledUpTo' = position /\ OnWayUpTo' = position
  BY <1>1 DEF SettledUpTo, OnWayUpTo, Busy
<1>5. PositionInv'
  BY <1>1 DEF PositionInv
<1>6. SettledInv' /\ WayInv'
  BY <1>3, <1>4 DEF IInv, SettledInv, WayInv
<1>7. LifeInv'
  BY <1>4 DEF IInv, LifeInv
<1>8. LostInv'
  <2>1. Unsettled(position') \subseteq Unsettled(position) \cup {position'}
    BY <1>1 DEF Unsettled
  <2>2. /\ Cardinality(Unsettled(position)) \in Nat /\ Cardinality(Unsettled(position')) \in Nat
        /\ Cardinality(Unsettled(position')) <= Cardinality(Unsettled(position)) + 1
    BY <1>1, <2>1, UnsettledCounted DEF Unsettled
  <2>3. Cardinality(Unsettled(position)) < lives
    BY <1>4 DEF IInv, LostInv
  <2>4. Unsettled(position)' = Unsettled(position')
    BY <1>3 DEF Unsettled
  <2>5. pc' \in Busy => Unsettled(SettledUpTo)' = Unsettled(position)
    BY <1>3, <1>4 DEF Unsettled
  <2> QED
    BY <1>1, <2>2, <2>3, <2>4, <2>5 DEF LostInv
<1>9. MalformedInv'
  <2>1. \A bad \in malformed : bad \in Nat /\ position < bad /\ bad # position + 1
    BY SubscriberAssumption DEF IInv, MalformedInv, SubscriberTypeOK, Messages
  <2> QED
    BY <1>1, <1>3, <2>1 DEF IInv, MalformedInv
<1> QED
  BY <1>2, <1>5, <1>6, <1>7, <1>8, <1>9 DEF IInv

(* What both ends of a handler share: the message in hand becomes settled. *)
LEMMA HandlerEnds ==
  ASSUME IInv, pc = "handling", pc' \in Busy \ {"handling"}, SubscriberTypeOK',
         Settled' = Settled \cup {position}, OnWay \subseteq OnWay',
         UNCHANGED <<position, committed, lifeVars, dlqVars>>
  PROVE  PositionInv' /\ SettledInv' /\ LostInv' /\ MalformedInv'
<1> USE DEF lifeVars, dlqVars
<1>1. /\ position \in Nat /\ committed \in Nat /\ lives \in Nat /\ position > 0
      /\ position \in Messages
  BY Numbers DEF IInv, PositionInv, Messages
<1>2. SettledUpTo = position - 1 /\ SettledUpTo' = position /\ pc \in Busy
  BY DEF SettledUpTo, Busy
<1>3. PositionInv'
  BY <1>1 DEF IInv, PositionInv
<1>4. SettledInv'
  BY <1>1, <1>2 DEF IInv, SettledInv
<1>5. LostInv'
  <2>1. Unsettled(position)' \subseteq Unsettled(position - 1)
    BY <1>1 DEF Unsettled
  <2>2. /\ Cardinality(Unsettled(position - 1)) \in Nat /\ Cardinality(Unsettled(position)') \in Nat
        /\ Cardinality(Unsettled(position)') <= Cardinality(Unsettled(position - 1))
    <3>1. position - 1 \in Nat
      BY <1>1
    <3> QED
      BY <2>1, <3>1, UnsettledCounted DEF Unsettled
  <2>3. Cardinality(Unsettled(position - 1)) < lives
    BY <1>2 DEF IInv, LostInv
  <2>4. Unsettled(SettledUpTo)' = Unsettled(position)'
    BY <1>2 DEF Unsettled
  <2> QED
    BY <1>1, <2>2, <2>3, <2>4 DEF LostInv
<1>6. MalformedInv'
  <2>1. \A bad \in malformed : bad \in Nat /\ position < bad
    BY SubscriberAssumption DEF IInv, MalformedInv, SubscriberTypeOK, Messages
  <2> QED
    BY <1>1, <2>1 DEF IInv, MalformedInv
<1> QED
  BY <1>3, <1>4, <1>5, <1>6

(* A message is handled for the first time in this life. *)
LEMMA HandlerReturnsIInv == IInv /\ HandlerReturns => IInv'
<1> SUFFICES ASSUME IInv, HandlerReturns PROVE IInv'
  OBVIOUS
<1> USE DEF HandlerReturns, lifeVars, dlqVars
<1>1. /\ position \in Nat /\ lives \in Nat /\ position > 0 /\ position \in Messages
      /\ \A m \in Messages : m \in Nat /\ handled[m] \in Nat
  BY Numbers DEF IInv, PositionInv, Messages
<1>2. /\ handled' \in [Messages -> Nat]
      /\ \A m \in Messages : handled'[m] = IF m = position THEN handled[m] + 1 ELSE handled[m]
  BY <1>1 DEF IInv, SubscriberTypeOK
<1>3. HandledSet' = HandledSet \cup {position}
  BY <1>1, <1>2 DEF HandledSet
<1>4. Settled' = Settled \cup {position} /\ OnWay' = OnWay \cup {position}
  BY <1>3 DEF Settled, OnWay
<1>5. SubscriberTypeOK'
  BY <1>2 DEF IInv, SubscriberTypeOK, Busy
<1>6. pc' \in Busy \ {"handling"} /\ pc' \in {"polling", "committing"} /\ pc \in Busy
  BY DEF Busy
<1>7. PositionInv' /\ SettledInv' /\ LostInv' /\ MalformedInv'
  BY <1>4, <1>5, <1>6, HandlerEnds
<1>8. WayInv'
  BY <1>1, <1>4, <1>6 DEF IInv, WayInv, OnWayUpTo
<1>9. LifeInv'
  <2>1. SettledUpTo = position - 1 /\ SettledUpTo' = position
    BY <1>6 DEF SettledUpTo
  <2> QED
    BY <1>1, <1>2, <1>6, <2>1 DEF IInv, LifeInv
<1> QED
  BY <1>5, <1>7, <1>8, <1>9 DEF IInv

(* A message whose handler raises is settled, and not yet on its way. *)
LEMMA HandlerRaisesIInv == IInv /\ HandlerRaises => IInv'
<1> SUFFICES ASSUME IInv, HandlerRaises PROVE IInv'
  OBVIOUS
<1> USE DEF HandlerRaises, ToDeadLetters, lifeVars, dlqVars
<1>1. position \in Nat /\ position > 0 /\ position \in Messages /\ lives \in Nat
  BY Numbers DEF IInv, PositionInv, Messages
<1>2. Settled' = Settled \cup {position} /\ OnWay' = OnWay
  BY DEF Settled, OnWay, HandledSet
<1>3. SubscriberTypeOK'
  BY <1>1 DEF IInv, SubscriberTypeOK, Busy
<1>4. pc' \in Busy \ {"handling"} /\ pc \in Busy
  BY DEF Busy
<1>5. PositionInv' /\ SettledInv' /\ LostInv' /\ MalformedInv'
  BY <1>2, <1>3, <1>4, HandlerEnds
<1>6. WayInv'
  BY <1>2, <1>4 DEF IInv, WayInv, OnWayUpTo
<1>7. LifeInv'
  BY <1>1, <1>4, Numbers DEF IInv, LifeInv, SettledUpTo
<1> QED
  BY <1>3, <1>5, <1>6, <1>7 DEF IInv

(* The message in hand is put on its way to the dead letter topic, or the  *)
(* way has failed.                                                         *)
LEMMA DeadLetterIInv == IInv /\ (DeadLetterSent \/ DeadLetterRaises) => IInv'
<1> SUFFICES ASSUME IInv, DeadLetterSent \/ DeadLetterRaises PROVE IInv'
  OBVIOUS
<1> USE DEF DeadLetterSent, DeadLetterRaises, lifeVars, effectVars
<1>1. position \in Nat /\ position > 0 /\ position \in Messages
  BY Numbers DEF IInv, PositionInv, Messages
<1>2. Settled' = Settled /\ OnWay' = OnWay \cup {position}
  BY DEF Settled, OnWay, HandledSet
<1>3. SubscriberTypeOK'
  BY <1>1 DEF IInv, SubscriberTypeOK, Busy
<1>4. /\ pc = "dead_lettering" /\ pc' = "polling" /\ pc \in Busy /\ pc' \in Busy
      /\ SettledUpTo' = SettledUpTo
      /\ UNCHANGED <<position, lives, enable_auto_commit, malformed, committed, handled, refused>>
  BY DEF Busy, SettledUpTo
<1>5. PositionInv' /\ SettledInv' /\ LifeInv'
  BY <1>2, <1>4 DEF IInv, PositionInv, SettledInv, LifeInv
<1>6. LostInv'
  BY <1>2, <1>4 DEF IInv, LostInv, Unsettled
<1>7. WayInv'
  BY <1>1, <1>2, <1>4 DEF IInv, WayInv, OnWayUpTo
<1>8. MalformedInv'
  <2>1. \A bad \in malformed : bad \in Nat /\ position < bad
    BY SubscriberAssumption DEF IInv, MalformedInv, SubscriberTypeOK, Messages
  <2>2. dlq_buffer' \cup dlq' \subseteq dlq_buffer \cup dlq \cup {position}
    OBVIOUS
  <2> QED
    BY <1>1, <1>2, <1>4, <2>1, <2>2 DEF IInv, MalformedInv
<1> QED
  BY <1>3, <1>5, <1>6, <1>7, <1>8 DEF IInv

(* Every step keeps the invariant. *)
LEMMA NextIInv == IInv /\ [Next]_vars => IInv'
<1> SUFFICES ASSUME IInv, [Next]_vars PROVE IInv'
  OBVIOUS
<1> USE DEF lifeVars, dlqVars, effectVars, loopVars
<1>1. CASE Start \/ Deliver \/ HandlerReturns \/ HandlerRaises \/ DeadLetterSent \/ DeadLetterRaises
  BY <1>1, StartIInv, DeliverIInv, HandlerReturnsIInv, HandlerRaisesIInv, DeadLetterIInv
<1>2. CASE DeserializerRaises \/ IterationEnds \/ StopBegins \/ Idle \/ Caught \/ UNCHANGED vars
  <2>1. /\ pc' \in {pc, "returned", "failed"} /\ _running' \in BOOLEAN
        /\ UNCHANGED <<clients, position, lifeVars, committed, dlqVars, effectVars>>
    BY <1>2 DEF IInv, SubscriberTypeOK, DeserializerRaises, OnMalformed, IterationEnds, StopBegins,
       Idle, Caught, vars
  <2> QED
    BY <2>1, QuietIInv
<1>3. CASE CommitReturns \/ CommitRaises \/ ConsumerCloses \/ AutoCommit
  <2>1. /\ committed' \in {committed, position}
        /\ \/ pc = "committing" /\ pc' \in {"polling", "dead_lettering"}
           \/ pc' = pc /\ (enable_auto_commit \/ committed' = committed)
        /\ UNCHANGED <<position, lifeVars, dlqVars, effectVars>>
        /\ _running' = _running /\ clients' \in {clients, "consumer_closed"}
    BY <1>3 DEF CommitReturns, CommitsTo, CommitRaises, ToDeadLetters, ConsumerCloses, AutoCommit,
       CommittedByClient
  <2>2. SubscriberTypeOK'
    BY <2>1 DEF IInv, SubscriberTypeOK, Busy
  <2> QED
    BY <2>1, <2>2, CommitIInv
<1>4. CASE DlqCloses \/ (\E m \in Messages : DlqDelivers(m)) \/ Crash
  <2>1. /\ pc' \in {pc, "down"} /\ _running' \in {_running, FALSE} /\ clients' \in {clients, "closed"}
        /\ dlq_buffer' \subseteq dlq_buffer /\ dlq' \subseteq dlq \cup dlq_buffer
        /\ dropped' \subseteq dropped \cup dlq_buffer
        /\ dlq_buffer' \cup dlq' \cup dropped' = dlq_buffer \cup dlq \cup dropped
        /\ UNCHANGED <<position, lifeVars, committed, effectVars>>
    BY <1>4 DEF DlqCloses, DlqDelivers, Crash
  <2>2. SubscriberTypeOK'
    BY <2>1 DEF IInv, SubscriberTypeOK, Ended
  <2>3. OnWay' = OnWay
    BY <2>1 DEF OnWay, HandledSet
  <2> QED
    BY <2>1, <2>2, <2>3, QueueIInv
<1> QED
  BY <1>1, <1>2, <1>3, <1>4 DEF Next, Consuming

-------------------------------------------------------------------------------
(* The invariant holds of every reachable state. *)
THEOREM Invariance == Spec => []IInv
BY InitIInv, NextIInv, PTL DEF Spec

(* The variables keep their types: the loop hands out no message that the  *)
(* partition does not have.                                                *)
THEOREM TypeCorrect == Spec => []SubscriberTypeOK
<1>1. IInv => SubscriberTypeOK
  BY DEF IInv
<1> QED
  BY <1>1, Invariance, PTL

(* With manual commits, what the group will not see again and no handler   *)
(* has accepted is on its way to the dead letter topic.                    *)
THEOREM NothingForgotten == Spec => []RefusedOnTheirWay
<1>1. IInv => RefusedOnTheirWay
  <2> SUFFICES ASSUME IInv, ~enable_auto_commit, NEW m \in 1..committed, handled[m] = 0
               PROVE  m \in dlq_buffer \cup dlq \cup dropped
    BY DEF RefusedOnTheirWay
  <2> QED
    BY DEF IInv, WayInv, OnWay, HandledSet
<1> QED
  BY <1>1, Invariance, PTL

(* A message is handled at most once in each life. *)
THEOREM HandledOncePerLife == Spec => []OncePerLife
<1>1. IInv => OncePerLife
  BY DEF IInv, LifeInv, OncePerLife
<1> QED
  BY <1>1, Invariance, PTL

(* With auto commits too, each life loses at most one message. *)
THEOREM OneLostEach == Spec => []OneLostPerLife
<1>1. IInv => OneLostPerLife
  <2> SUFFICES ASSUME IInv
               PROVE  Cardinality(Unsettled(committed)) <= lives
    BY DEF OneLostPerLife, Unsettled, Settled
  <2>1. /\ position \in Nat /\ committed \in Nat /\ lives \in Nat /\ committed <= position
        /\ Cardinality(Unsettled(position)) <= lives
    BY Numbers DEF IInv, PositionInv, LostInv
  <2>2. Unsettled(committed) \subseteq Unsettled(position)
    BY <2>1 DEF Unsettled
  <2>3. /\ Cardinality(Unsettled(committed)) \in Nat /\ Cardinality(Unsettled(position)) \in Nat
        /\ Cardinality(Unsettled(committed)) <= Cardinality(Unsettled(position))
    BY <2>1, <2>2, UnsettledCounted DEF Unsettled
  <2> QED
    BY <2>1, <2>3
<1> QED
  BY <1>1, Invariance, PTL

(* Neither a commit nor a delivery ever passes a malformed message. *)
THEOREM WallHolds == Spec => []MalformedHoldUp
<1>1. IInv => MalformedHoldUp
  <2> SUFFICES ASSUME IInv, NEW bad \in malformed
               PROVE  /\ committed < bad
                      /\ \A m \in bad..NumMessages : m \notin HandledSet \cup refused \cup dlq
    BY DEF MalformedHoldUp
  <2>1. /\ bad \in Nat /\ bad > 0 /\ committed \in Nat /\ position \in Nat /\ NumMessages \in Nat
    BY Numbers DEF IInv, SubscriberTypeOK
  <2>2. \A m \in bad..NumMessages : m \in Messages /\ m >= bad
    BY <2>1 DEF Messages
  <2> QED
    BY <2>1, <2>2 DEF IInv, PositionInv, MalformedInv, Settled
<1> QED
  BY <1>1, Invariance, PTL

-------------------------------------------------------------------------------
(* The delivery contract *)

(* Nothing has been delivered at first. *)
LEMMA InitRefines == Init => Delivery!Init
BY DEF Init, Delivery!Init, HandledSet

(* What the contract does not see: with auto commits everything, with      *)
(* manual ones every step without a commit and an end of a handler.        *)
LEMMA Stutters ==
  ASSUME enable_auto_commit' = enable_auto_commit,
         enable_auto_commit \/ UNCHANGED <<committed, effectVars>>
  PROVE  UNCHANGED Delivery!vars
BY DEF Delivery!vars, effectVars, HandledSet

(* A handler that returns handles the first message that is not settled. *)
LEMMA HandlerReturnsRefines ==
  ASSUME IInv, HandlerReturns, ~enable_auto_commit
  PROVE  Delivery!Next
<1>1. /\ position \in Nat /\ position > 0 /\ position \in Messages /\ committed < position
      /\ \A m \in Messages : m \in Nat /\ handled[m] \in Nat
  BY Numbers DEF IInv, PositionInv, Messages, HandlerReturns
<1>2. HandledSet' = HandledSet \cup {position}
  BY <1>1 DEF HandlerReturns, HandledSet, IInv, SubscriberTypeOK
<1>3. 1..(position - 1) \subseteq Settled
  BY DEF HandlerReturns, IInv, SettledInv, SettledUpTo, Busy
<1>4. Delivery!Handle(position)
  BY <1>1, <1>2, <1>3 DEF Delivery!Handle, Delivery!InTurn, Delivery!Settled, Settled, HandlerReturns,
     lifeVars
<1> QED
  BY <1>1, <1>4 DEF Delivery!Next, Delivery!Messages, Messages

(* One that raises gives it up. *)
LEMMA HandlerRaisesRefines ==
  ASSUME IInv, HandlerRaises, ~enable_auto_commit
  PROVE  Delivery!Next
<1>1. position \in Nat /\ position > 0 /\ position \in Messages /\ committed < position
  BY Numbers DEF IInv, PositionInv, Messages, HandlerRaises
<1>2. HandledSet' = HandledSet
  BY DEF HandlerRaises, HandledSet
<1>3. 1..(position - 1) \subseteq Settled
  BY DEF HandlerRaises, IInv, SettledInv, SettledUpTo, Busy
<1>4. Delivery!GiveUp(position)
  BY <1>1, <1>2, <1>3 DEF Delivery!GiveUp, Delivery!InTurn, Delivery!Settled, Settled, HandlerRaises,
     lifeVars
<1> QED
  BY <1>1, <1>4 DEF Delivery!Next, Delivery!Messages, Messages

(* A commit that takes effect, whether it returns or raises, moves the     *)
(* frontier over settled messages only.                                    *)
LEMMA CommitRefines ==
  ASSUME IInv, pc = "committing", committed' = position, ~enable_auto_commit,
         UNCHANGED <<enable_auto_commit, effectVars>>
  PROVE  Delivery!Next
<1>1. position \in Nat /\ position > 0 /\ position \in Messages /\ committed < position
  BY Numbers DEF IInv, PositionInv, Messages
<1>2. 1..position \subseteq Settled
  BY DEF IInv, SettledInv, SettledUpTo, Busy
<1>3. Delivery!Advance(position)
  BY <1>1, <1>2 DEF Delivery!Advance, Delivery!Settled, Settled, HandledSet, effectVars
<1> QED
  BY <1>1, <1>3 DEF Delivery!Next, Delivery!Messages, Messages

(* Every step of the subscriber, of its clients and of its process is a    *)
(* step of the contract or none.                                           *)
LEMMA NextRefines == IInv /\ [Next]_vars => [Delivery!Next]_(Delivery!vars)
<1> SUFFICES ASSUME IInv, [Next]_vars PROVE [Delivery!Next]_(Delivery!vars)
  OBVIOUS
<1> USE DEF lifeVars, loopVars
<1>1. enable_auto_commit' = enable_auto_commit
  BY DEF Next, Consuming, vars, Start, Deliver, DeserializerRaises, IterationEnds, HandlerReturns,
     HandlerRaises, CommitReturns, CommitRaises, DeadLetterSent, DeadLetterRaises, StopBegins,
     ConsumerCloses, DlqCloses, AutoCommit, DlqDelivers, Crash, Idle, Caught
<1>2. CASE HandlerReturns /\ ~enable_auto_commit
  BY <1>2, HandlerReturnsRefines
<1>3. CASE HandlerRaises /\ ~enable_auto_commit
  BY <1>3, HandlerRaisesRefines
<1>4. CASE (CommitReturns \/ CommitRaises) /\ ~enable_auto_commit
  <2>1. pc = "committing" /\ committed' \in {committed, position} /\ UNCHANGED effectVars
    BY <1>4 DEF CommitReturns, CommitRaises, CommitsTo
  <2> QED
    BY <1>1, <1>4, <2>1, CommitRefines, Stutters
<1>5. CASE enable_auto_commit
  BY <1>1, <1>5, Stutters
<1>6. CASE ~HandlerReturns /\ ~HandlerRaises /\ ~CommitReturns /\ ~CommitRaises /\ ~enable_auto_commit
  <2>1. UNCHANGED <<committed, effectVars>>
    BY <1>6 DEF Next, Consuming, vars, Start, Deliver, DeserializerRaises, IterationEnds,
       DeadLetterSent, DeadLetterRaises, StopBegins, ConsumerCloses, DlqCloses, AutoCommit,
       DlqDelivers, Crash, Idle, Caught, dlqVars
  <2> QED
    BY <1>1, <2>1, Stutters
<1> QED
  BY <1>2, <1>3, <1>4, <1>5, <1>6

(* The subscriber, with its commits, restarts, stops, crashes and dead     *)
(* letters, keeps the delivery contract of EventDelivery.                  *)
THEOREM Refinement == Spec => ImplementsDelivery
<1>1. Spec => Delivery!Spec
  BY InitRefines, NextRefines, Invariance, PTL DEF Spec, Delivery!Spec
<1> QED
  BY <1>1 DEF ImplementsDelivery
===============================================================================
